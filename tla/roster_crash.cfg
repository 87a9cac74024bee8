SPECIFICATION Spec
CONSTANTS
  p1 = p1
  p2 = p2
  p3 = p3
  i1 = i1
  i2 = i2
  Players = {p1, p2}
  Ids = {i1, i2}
  IdOf <- TwoUsers
  Shards = {s1, s2}
  Areas = {a1}
  FirstArea = a1
  Cap = 2
  OutCap = 2
  MaxGo = 1
  Kinds = {"Whisper"}
  Updating = {}
  Breakable = {s1}
  Talkers = {p1}
  Slow = {p1}
  Subjects = {}
  Kicked = {}
  NoPlayer = NoPlayer
  NoShard = NoShard
INVARIANTS RosterBacked ForwardMeetsAvatar
PROPERTY StuckForGood
CHECK_DEADLOCK FALSE

