SPECIFICATION Spec
CONSTANTS
  Width = 3
  Height = 2
  Counts = {0, 100, 255, 256}
INVARIANT TypeOK
INVARIANT PictureIsWhole
CHECK_DEADLOCK FALSE
