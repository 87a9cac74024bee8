SPECIFICATION Spec
CONSTANTS
  Players = {p1}
  Cap = 2
  MaxJoins = 2
  MaxPlaced = 1
  MaxMoves = 0
INVARIANT RespawnSyncs
CHECK_DEADLOCK FALSE
