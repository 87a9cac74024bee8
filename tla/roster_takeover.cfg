SPECIFICATION Spec
CONSTANTS
  p1 = p1
  p2 = p2
  p3 = p3
  i1 = i1
  i2 = i2
  Players = {p1, p2, p3}
  Ids = {i1, i2}
  IdOf <- SameUser
  Shards = {s1}
  Areas = {a1}
  FirstArea = a1
  Cap = 3
  OutCap = 2
  MaxGo = 1
  Kinds = {"Spawn"}
  Updating = {}
  Breakable = {}
  Talkers = {p1, p2}
  Slow = {p1, p2}
  Subjects = {i1}
  Kicked = {i1}
  NoPlayer = NoPlayer
  NoShard = NoShard
INVARIANTS  SeesItsShard WorldAgrees
CHECK_DEADLOCK FALSE
SYMMETRY UserSymmetry
