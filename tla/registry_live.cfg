SPECIFICATION FairSpec
CONSTANTS
  h1 = h1
  Hosts = {h1}
  Shards = {s1}
  s1 = s1
  HostOf <- OneHost
  Logins = {l1, l2}
  Users = {u1}
  UserOf <- SameUser
  LoginHost <- AllOnOne
  Streams = {1, 2}
  EventCap = 1
  MaxFaults = 1
  Kicked = {}
  Watched = FALSE
  Ending = {}
  Lates = {}
  MaxRejoins = 1
  NoHost = NoHost
  NoStream = NoStream
  NoShard = NoShard
  Absent = Absent
PROPERTIES OrphanedForGood LockReleased AuthReturns HostsRecover
CHECK_DEADLOCK FALSE
