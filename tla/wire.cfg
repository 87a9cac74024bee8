SPECIFICATION FairSpec
CONSTANTS
  Byte = 3
  DataLimit = 90
  Texts <- SomeTexts
  Counts = {0, 2, 3}
  MaxSent = 2
INVARIANTS TypeOK InStep Faithful 
PROPERTY Delivered
CHECK_DEADLOCK FALSE
