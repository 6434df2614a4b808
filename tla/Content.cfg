SPECIFICATION Spec
CONSTANTS
  Size = {0, 1, 2, 3, 4}
  Number = {0, 1, 2, 3, 4, 5, 7}
  LongMax = 7
  MaxFrame = 3
INVARIANTS
  TypeOK
  BodyIsTheWindow
  CompleteUnlessCut
  RangeAnsweredExactly
  AcknowledgedUploadIsWhole
