SPECIFICATION FairSpec
CONSTANTS
  Players = {p1}
  Cap = 2
  MaxJoins = 2
  MaxPlaced = 2
  MaxMoves = 1
INVARIANTS TypeOK   JoinsKept 
PROPERTY WorldSettles
CHECK_DEADLOCK FALSE
