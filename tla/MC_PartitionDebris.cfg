SPECIFICATION Spec
CONSTANTS
  small = small
  large = large
  Msgs = {small, large}
  FrameSize <- MCFrameSize
  LengthBytes = 3
  MaxSegmentBytes = 8
  MaxRecords = 2
  MaxFrames = 2
  WriteErrors = TRUE
  RollbackErrors = TRUE
  Crashes = TRUE
INVARIANTS TypeOK RefusedOnlyForBuriedDebris
