SPECIFICATION Spec
CONSTANTS
  h1 = h1
  Hosts = {h1}
  Shards = {s1, s2}
  s2 = s2
  s1 = s1
  HostOf <- OneHost
  Logins = {l1}
  Users = {u1}
  UserOf <- SameUser
  LoginHost <- AllOnOne
  Streams = {1, 2}
  EventCap = 1
  MaxFaults = 1
  Kicked = {u1}
  Watched = TRUE
  Ending = {s1}
  Lates = {"AddShard"}
  MaxRejoins = 0
  NoHost = NoHost
  NoStream = NoStream
  NoShard = NoShard
  Absent = Absent
INVARIANTS TypeOK  RegistryAgrees KickFindsHost
CHECK_DEADLOCK FALSE
