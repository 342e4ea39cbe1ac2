SPECIFICATION Spec
CONSTANTS
  small = small
  large = large
  Msgs = {small, large}
  FrameSize <- MCFrameSize
  LengthBytes = 3
  MaxSegmentBytes = 8
  MaxRecords = 5
  MaxFrames = 2
  WriteErrors = TRUE
  RollbackErrors = FALSE
  Crashes = TRUE
INVARIANTS AcknowledgedSurvive MetadataMatchesFiles ReopenSucceeds
PROPERTIES ImplementsAppendLog
