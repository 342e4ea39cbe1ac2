SPECIFICATION Spec
CONSTANTS
  small = small
  large = large
  Msgs = {small, large}
  FrameSize <- MCFrameSize
  LengthBytes = 3
  MaxSegmentBytes = 8
  MaxRecords = 3
  MaxFrames = 2
  WriteErrors = TRUE
  RollbackErrors = TRUE
  Crashes = TRUE
PROPERTIES TruncationSparesAcknowledged
