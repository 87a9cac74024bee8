SPECIFICATION Spec
CONSTANTS
  N = 6
  MaxLen = 5
  FirstLen = 2
  LutSize = 2
  ByteBits = 3
INVARIANTS TypeOK AcceptsComplete PrefixDecode EndOnlyAtEnd
CHECK_DEADLOCK FALSE
