SPECIFICATION FairSpec
CONSTANTS
  p1 = p1
  p2 = p2
  p3 = p3
  i1 = i1
  i2 = i2
  Players = {p1, p2}
  Ids = {i1, i2}
  IdOf <- TwoUsers
  Shards = {s1}
  Areas = {a1}
  FirstArea = a1
  Cap = 2
  OutCap = 1
  MaxGo = 1
  Kinds = {}
  Updating = {s1}
  Breakable = {}
  Talkers = {p1}
  Slow = {}
  Subjects = {}
  Kicked = {}
  NoPlayer = NoPlayer
  NoShard = NoShard
PROPERTY JoinReturns
CHECK_DEADLOCK FALSE

