SPECIFICATION Spec
CONSTANTS
  p1 = p1
  p2 = p2
  p3 = p3
  i1 = i1
  i2 = i2
  Players = {p1, p2}
  Ids = {i1, i2}
  IdOf <- TwoUsers
  Shards = {s1, s2}
  Areas = {a1, a2}
  FirstArea = a1
  Cap = 1
  OutCap = 1
  MaxGo = 1
  Kinds = {"ChangeArea"}
  Updating = {}
  Breakable = {}
  Talkers = {}
  Slow = {}
  Subjects = {i1}
  Kicked = {}
  NoPlayer = NoPlayer
  NoShard = NoShard
INVARIANT KickedMeansGone
CHECK_DEADLOCK FALSE
SYMMETRY ShardSymmetry
