---------------------------- MODULE PartitionLog -----------------------------
(***************************************************************************)
(* The segmented log of one partition, msg-storage/src/lib.rs: segment     *)
(* files of framed records on disk, and the metadata of the open log. The  *)
(* log is opened once per process and appended to under the broker's       *)
(* mutex; appends fail, roll back or are cut off by a crash.               *)
(*                                                                         *)
(* A file is its base offset (its name) and the frames in it. A frame is a *)
(* whole record, or the debris of a write that stopped part-way: the bytes *)
(* of it that reached the file, and the size its length field claims.      *)
(***************************************************************************)
EXTENDS Integers, Sequences, SequencesExt

CONSTANTS
  Msgs,             \* the messages
  FrameSize,        \* message -> bytes of its frame
  LengthBytes,      \* bytes of the length field at the start of a frame
  MaxSegmentBytes,  \* LogConfig::max_segment_bytes
  MaxRecords,       \* bound: records in the log
  MaxFrames,        \* bound: frames in a file in which a rollback may fail
  WriteErrors,      \* may a write fail with the process alive?
  RollbackErrors,   \* may set_len fail as well?
  Crashes           \* may the process crash?

ASSUME StorageAssumption ==
  /\ FrameSize \in [Msgs -> Nat \ {0}]
  /\ LengthBytes \in Nat
  /\ MaxSegmentBytes \in Nat \ {0}
  /\ MaxRecords \in Nat /\ MaxFrames \in Nat
  /\ {WriteErrors, RollbackErrors, Crashes} \subseteq BOOLEAN

VARIABLES
  status,      \* "up", "down", or "failed" when PartitionLog::open returned an error
  segments,    \* memory: SegmentMetadata, oldest first
  nextOffset,  \* memory: next_offset
  files,       \* disk: the segment files by base offset
  acked        \* history: <<offset, message>> of every append that returned Ok

vars == <<status, segments, nextOffset, files, acked>>

Record(o, m) == [kind |-> "record", offset |-> o, msg |-> m]
Debris(bytes, claims) == [kind |-> "debris", bytes |-> bytes, claims |-> claims]

Bytes(frame) == IF frame.kind = "record" THEN FrameSize[frame.msg] ELSE frame.bytes
Claimed(frame) == IF frame.kind = "record" THEN FrameSize[frame.msg] ELSE frame.claims

SizeOf(frames) ==
  LET size[n \in 0 .. Len(frames)] == IF n = 0 THEN 0 ELSE size[n - 1] + Bytes(frames[n])
  IN  size[Len(frames)]

Init ==
  /\ status = "up"
  /\ segments = << >>
  /\ nextOffset = 0
  /\ files = << >>
  /\ acked = {}

-----------------------------------------------------------------------------
(* Appending.                                                              *)

\* roll_if_needed and ensure_active_segment: is a new segment file created
\* before the frame of m is written?
NeedsSegment(m) ==
  \/ segments = << >>
  \/ /\ Last(segments).size > 0
     /\ Last(segments).size + FrameSize[m] > MaxSegmentBytes

\* create_active_segment, when it is called.
FilesForAppend(m) ==
  IF NeedsSegment(m) THEN Append(files, [base |-> nextOffset, frames |-> << >>]) ELSE files

SegmentsForAppend(m) ==
  IF NeedsSegment(m)
  THEN Append(segments, [base |-> nextOffset, next |-> nextOffset, size |-> 0])
  ELSE segments

\* File::set_len on a file that holds at least len bytes.
SetLen(frames, len) ==
  LET whole == CHOOSE n \in 0 .. Len(frames) :
                 /\ SizeOf(SubSeq(frames, 1, n)) <= len
                 /\ n < Len(frames) => SizeOf(SubSeq(frames, 1, n + 1)) > len
      rest  == len - SizeOf(SubSeq(frames, 1, whole))
  IN  SubSeq(frames, 1, whole)
        \o IF rest = 0 THEN << >> ELSE <<Debris(rest, Claimed(frames[whole + 1]))>>

WithFrame(fs, frame) == [fs EXCEPT ![Len(fs)].frames = Append(@, frame)]

\* Mutant: the next offset skips one.
AppendSkipsOffset(m) ==
  /\ status = "up"
  /\ nextOffset < MaxRecords
  /\ files' = WithFrame(FilesForAppend(m), Record(nextOffset, m))
  /\ segments' = LET segs == SegmentsForAppend(m)
                 IN  [segs EXCEPT ![Len(segs)].size = @ + FrameSize[m],
                                  ![Len(segs)].next = nextOffset + 1]
  /\ nextOffset' = nextOffset + 2
  /\ acked' = acked \cup {<<nextOffset, m>>}
  /\ UNCHANGED status

AppendSucceeds(m) ==
  /\ status = "up"
  /\ nextOffset < MaxRecords
  /\ files' = WithFrame(FilesForAppend(m), Record(nextOffset, m))
  /\ segments' = LET segs == SegmentsForAppend(m)
                 IN  [segs EXCEPT ![Len(segs)].size = @ + FrameSize[m],
                                  ![Len(segs)].next = nextOffset + 1]
  /\ nextOffset' = nextOffset + 1
  /\ acked' = acked \cup {<<nextOffset, m>>}
  /\ UNCHANGED status

\* Mutant: no rollback.
AppendFailsNoRollback(m) ==
  /\ WriteErrors
  /\ status = "up"
  /\ nextOffset < MaxRecords
  /\ \E k \in 1 .. FrameSize[m] - 1 :
       files' = WithFrame(FilesForAppend(m), Debris(k, FrameSize[m]))
  /\ segments' = SegmentsForAppend(m)
  /\ UNCHANGED <<status, nextOffset, acked>>

\* The write fails and is rolled back to the size the metadata has, which
\* leaves at most the new empty segment. When set_len fails too, the bytes that
\* were written stay in the file and the metadata does not know of them.
AppendFails(m) ==
  /\ WriteErrors
  /\ status = "up"
  /\ nextOffset < MaxRecords
  /\ \/ files' = [FilesForAppend(m) EXCEPT
                   ![Len(FilesForAppend(m))].frames =
                     SetLen(@, Last(SegmentsForAppend(m)).size)]
     \/ /\ RollbackErrors
        /\ Len(Last(FilesForAppend(m)).frames) < MaxFrames
        /\ \E k \in 1 .. FrameSize[m] - 1 :
             files' = WithFrame(FilesForAppend(m), Debris(k, FrameSize[m]))
  /\ segments' = SegmentsForAppend(m)
  /\ UNCHANGED <<status, nextOffset, acked>>

\* The process dies inside an append: before the write, during it, or after it
\* and before the caller learns of the record.
CrashInAppend(m) ==
  /\ Crashes
  /\ status = "up"
  /\ nextOffset < MaxRecords
  /\ \/ files' \in {files, FilesForAppend(m)}
     \/ \E k \in 1 .. FrameSize[m] - 1 :
          files' = WithFrame(FilesForAppend(m), Debris(k, FrameSize[m]))
     \/ files' = WithFrame(FilesForAppend(m), Record(nextOffset, m))
  /\ status' = "down"
  /\ segments' = << >>
  /\ nextOffset' = 0
  /\ UNCHANGED acked

Crash ==
  /\ Crashes
  /\ status = "up"
  /\ status' = "down"
  /\ segments' = << >>
  /\ nextOffset' = 0
  /\ UNCHANGED <<files, acked>>

-----------------------------------------------------------------------------
(* Recovery.                                                               *)

\* Frame i of file f is a record with the offset its place demands.
IsValid(f, i) == f.frames[i].kind = "record" /\ f.frames[i].offset = f.base + i - 1

\* The frames scan_segment accepts before it meets an invalid one.
ValidPrefix(f) ==
  CHOOSE n \in 0 .. Len(f.frames) :
    /\ \A i \in 1 .. n : IsValid(f, i)
    /\ n < Len(f.frames) => ~IsValid(f, n + 1)

IsIntact(f) == ValidPrefix(f) = Len(f.frames)

\* What scan_segment reads as the size of the frame it found invalid. A length
\* field that was not written whole is completed by the bytes behind it.
ClaimedSizes(f) ==
  LET bad == f.frames[ValidPrefix(f) + 1]
  IN  IF Bytes(bad) < LengthBytes THEN 1 .. SizeOf(f.frames) + 1 ELSE {Claimed(bad)}

\* The bytes of the file from that frame on.
Remaining(f) == SizeOf(SubSeq(f.frames, ValidPrefix(f) + 1, Len(f.frames)))

\* In the last file, the invalid frame is repaired by truncation when it seems
\* to reach the end of the file, and rejected as damage in the middle otherwise.
\* Where not even a length field is left, there is nothing to read a size from.
IsAcceptable(f) ==
  ~IsIntact(f) => \/ Remaining(f) < LengthBytes
                  \/ \E size \in ClaimedSizes(f) : size >= Remaining(f)
IsRejectable(f) ==
  /\ ~IsIntact(f)
  /\ Remaining(f) >= LengthBytes
  /\ \E size \in ClaimedSizes(f) : size < Remaining(f)

\* File k begins at the offset where the file before it ends.
IsChained(k) ==
  files[k].base = IF k = 1 THEN 0 ELSE files[k - 1].base + Len(files[k - 1].frames)

\* Mutant: an empty last file is refused, as an empty earlier one is.
EarlierFilesAcceptedStrict ==
  \A k \in DOMAIN files :
    IsChained(k) /\ files[k].frames # << >> /\ (k < Len(files) => IsIntact(files[k]))

\* Every file but the last is whole and not empty (ScanMode::STRICT), and the
\* last begins where it should.
EarlierFilesAccepted ==
  \A k \in DOMAIN files :
    IsChained(k) /\ (k < Len(files) => IsIntact(files[k]) /\ files[k].frames # << >>)

\* recover: metadata for the files fs, whose frames are all valid.
RecoveredSegments(fs) ==
  [k \in DOMAIN fs |-> [base |-> fs[k].base, next |-> fs[k].base + Len(fs[k].frames),
                        size |-> SizeOf(fs[k].frames)]]

\* Mutant: the repair takes the last valid record along.
RepairedFilesShort ==
  IF files = << >> THEN files
  ELSE [files EXCEPT ![Len(files)].frames =
          IF IsIntact(Last(files)) THEN @ ELSE SubSeq(@, 1, ValidPrefix(Last(files)) - 1)]

\* repair_or_reject: the last file is cut at the start of its first invalid frame.
RepairedFiles ==
  IF files = << >> THEN files
  ELSE [files EXCEPT ![Len(files)].frames = SubSeq(@, 1, ValidPrefix(Last(files)))]

\* PartitionLog::open on files it accepts, repairing the last one if need be.
OpenSucceeds ==
  /\ status # "up"
  /\ EarlierFilesAccepted
  /\ files # << >> => IsAcceptable(Last(files))
  /\ status' = "up"
  /\ files' = RepairedFiles
  /\ segments' = RecoveredSegments(files')
  /\ nextOffset' = IF files = << >> THEN 0 ELSE Last(segments').next
  /\ UNCHANGED acked

OpenFails ==
  /\ status # "up"
  /\ files # << >>
  /\ EarlierFilesAccepted => IsRejectable(Last(files))
  /\ status' = "failed"
  /\ UNCHANGED <<segments, nextOffset, files, acked>>

Next ==
  \/ \E m \in Msgs : AppendSucceeds(m)
  \/ \E m \in Msgs : AppendFails(m)
  \/ \E m \in Msgs : CrashInAppend(m)
  \/ Crash
  \/ OpenSucceeds
  \/ OpenFails

Spec == Init /\ [][Next]_vars

-----------------------------------------------------------------------------
(* Reading.                                                                *)

\* What scan_segment returns of one file of the opened log.
ValidMessages(f) == [i \in 1 .. ValidPrefix(f) |-> f.frames[i].msg]

\* The messages in the files fs, segment after segment.
MessagesIn(fs) ==
  LET read[k \in 0 .. Len(fs)] == IF k = 0 THEN << >> ELSE read[k - 1] \o ValidMessages(fs[k])
  IN  read[Len(fs)]

\* The messages before the first invalid frame of the last file, in order:
\* what read_from(0, next_offset) of the opened log returns.
Readable == MessagesIn(files)

-----------------------------------------------------------------------------
(* Properties.                                                             *)

Frames == [kind: {"record"}, offset: 0 .. MaxRecords, msg: Msgs]
            \cup [kind: {"debris"}, bytes: Nat \ {0}, claims: Nat]

\* The types of the metadata and of the files.
TypeOK ==
  /\ status \in {"up", "down", "failed"}
  /\ nextOffset \in 0 .. MaxRecords
  /\ segments \in Seq([base: 0 .. MaxRecords, next: 0 .. MaxRecords, size: Nat])
  /\ files \in Seq([base: 0 .. MaxRecords, frames: Seq(Frames)])
  /\ acked \subseteq (0 .. MaxRecords) \X Msgs

\* A message whose append returned Ok is found at its offset by every later
\* read, across failed appends, segment rolls, crashes and repairs.
AcknowledgedSurvive ==
  status = "up" =>
    \A a \in acked : a[1] < Len(Readable) /\ Readable[a[1] + 1] = a[2]

\* The metadata of the open log describes the files: the same segments, with
\* the same bases, sizes and ends, and all offsets below next_offset readable.
\* (roll_if_needed and the rollback length of the next append rely on it.)
MetadataMatchesFiles ==
  status = "up" =>
    /\ segments = RecoveredSegments(files)
    /\ nextOffset = Len(Readable)

\* The open log never lacks what it needs to be opened again: files chained
\* without a gap, none but the last one empty or damaged.
ReopenSucceeds == status # "failed"

\* The records in the files, readable or not.
Stored ==
  UNION { { <<f.frames[i].offset, f.frames[i].msg>> :
              i \in { j \in DOMAIN f.frames : f.frames[j].kind = "record" } }
          : f \in { files[k] : k \in DOMAIN files } }

\* Neither a rollback nor a repair destroys an acknowledged record that is in
\* the files: they truncate to the start of the damage and no further.
TruncationSparesAcknowledged == [][acked \cap Stored \subseteq Stored']_vars

\* open refuses a log only where the bytes of a failed append that could not be
\* rolled back lie before something written later: never for what a crash, a
\* segment roll or a rolled-back append leaves behind.
RefusedOnlyForBuriedDebris ==
  status = "failed" =>
    \E k \in DOMAIN files : \E i \in DOMAIN files[k].frames :
      /\ files[k].frames[i].kind = "debris"
      /\ k < Len(files) \/ i < Len(files[k].frames)

\* Seen through Readable, the segments and their repairs are a log that only
\* grows, one message at a time.
AppendOnly == INSTANCE AppendLog WITH log <- Readable
ImplementsAppendLog == AppendOnly!LogSpec

=============================================================================
