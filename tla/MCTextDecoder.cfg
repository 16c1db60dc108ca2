SPECIFICATION Spec
CONSTANTS
  Characters = {65, 127, 128, 2047, 2048, 55295, 65535, 65536, 1114111}
  MaxCharacters = 3
  MaxCut = 3
  Octets = {0, 127, 128, 191, 194, 223, 224, 239, 240, 244, 245, 255}
  MaxOctets = 4
INVARIANT TypeOK
INVARIANT DecodesText
CHECK_DEADLOCK FALSE
