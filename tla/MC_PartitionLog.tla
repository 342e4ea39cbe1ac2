--------------------------- MODULE MC_PartitionLog ---------------------------
(* Model-checking instances of the segmented log.                          *)
EXTENDS PartitionLog, TLC
CONSTANTS small, large
\* Two small frames fill a segment; a large one exceeds it on its own.
MCFrameSize == (small :> 4) @@ (large :> 9)
=============================================================================
