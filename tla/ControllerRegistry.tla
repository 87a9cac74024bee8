------------------------- MODULE ControllerRegistry -------------------------
(***************************************************************************)
(* The controller of Tasteless Shores (server/server/controller/main.go)   *)
(* and the main servers that call it (server/server/ts/controller.go).     *)
(* Each main server, a host, keeps one Events stream open, over which the  *)
(* controller sends it kicks, and tells the controller by unary calls      *)
(* which shards it has and which shard a user has entered.  The controller *)
(* keeps this in three maps in its memory: they are lost when it restarts, *)
(* and a host sends its shards again when it opens a stream.               *)
(*                                                                         *)
(* The goroutines of a host: the accept loop (ServerManager.Add), one per  *)
(* shard that waits for its end (Remove), one session per login (Auth,     *)
(* AddPlayer) and eventHandler.  sm.lock is held across the calls that Add,*)
(* Remove and findServer make.  All calls and the stream of a host share   *)
(* one connection.                                                         *)
(*                                                                         *)
(* What a kick does when the host reads it is KickEvent of ShardRoster.    *)
(***************************************************************************)
EXTENDS Naturals, Sequences, FiniteSets

CONSTANTS
  Hosts,       \* the main servers
  Shards,      \* the game server connections, each accepted at most once
  HostOf,      \* the main server each connects to
  Logins,      \* the client connections
  Users,
  UserOf,      \* the user each logs in as
  LoginHost,   \* the main server each connects to
  Streams,     \* the Events streams; an unused one stands for a new one
  EventCap,    \* capacity of the channel events, 100 in the controller
  MaxFaults,   \* bound: broken connections and crashes of the controller
  MaxRejoins,  \* bound: further calls of AddPlayer for each login
  Lates,       \* bound: the calls that may be run after their host gave up
  Ending,      \* bound: the shards whose connection ends
  Kicked,      \* bound: the users that the admin client kicks
  Watched,     \* bound: is there an admin client that reads events
  NoHost, NoStream, NoShard, Absent

ASSUME RegistryAssumption ==
  /\ HostOf \in [Shards -> Hosts]
  /\ UserOf \in [Logins -> Users] /\ LoginHost \in [Logins -> Hosts]
  /\ EventCap \in Nat \ {0} /\ MaxFaults \in Nat /\ MaxRejoins \in Nat
  /\ Lates \subseteq {"AddShard", "RmShard", "MoveShard", "MoveUser"}
  /\ Ending \subseteq Shards /\ Kicked \subseteq Users /\ Watched \in BOOLEAN
  /\ NoHost \notin Hosts /\ NoStream \notin Streams /\ NoShard \notin Shards
  /\ Absent \notin Hosts \cup {NoHost} \cup Shards \cup {NoShard}

VARIABLES
  \* the controller
  up,        \* is it running
  servers,   \* servers: the stream whose channel each host is registered with
  shards,    \* shards: the host of each shard, NoHost in an entry without one
  players,   \* players: the shard of each user, NoShard for player{}
  events,    \* how many events wait in the channel events
  moving,    \* the runs of MoveShard: the host each has read, and if its caller waits
  handler,   \* where impl.Events stands for each stream
  auth,      \* where impl.Auth stands for each login
  chan,      \* the stream whose channel Auth sends to
  cmd,       \* where admin.Command stands, and the channel it sends to
  \* the network
  owner,     \* the host that has opened each stream
  live,      \* is the host's end of the stream open
  conn,      \* is the host's connection to the controller up
  calls,     \* the unary calls that hosts wait for
  late,      \* calls whose host waits no more, that the controller still gets
  faults,    \* how many connections have broken and controllers crashed
  \* the hosts
  list,      \* ServerManager.server
  lock,      \* who holds ServerManager.lock
  life,      \* of a shard: "off", "adding", "up", "removing", "gone"
  loop,      \* where eventHandler stands
  cur,       \* its stream
  sync,      \* what the range over SM.server has still to read
  sess,      \* where the session of each login stands
  at,        \* the shard that findServer has chosen for it
  rejoins,   \* how often it may still be moved
  raced      \* history: what a host's registration has not survived, see Races

ctlVars  == <<up, servers, shards, players, events, moving>>
goVars   == <<handler, auth, chan, cmd>>
netVars  == <<owner, live, conn, faults>>
callVars == <<calls, late>>
smVars   == <<list, lock, life>>
loopVars == <<loop, cur, sync>>
sessVars == <<sess, at, rejoins>>
vars == <<ctlVars, goVars, netVars, callVars, smVars, loopVars, sessVars, raced>>

-----------------------------------------------------------------------------
(* Types *)

Free    == [op |-> "none", id |-> NoShard, by |-> NoShard]
Locks   == [op : {"Add", "Remove"}, id : Shards, by : {NoShard}]
             \cup [op : {"Find"}, id : Shards, by : Logins] \cup {Free}
ShardCalls == [op : {"AddShard", "RmShard", "MoveShard"}, id : Shards,
               host : Hosts, by : {"lock", "loop"}]
UserCalls  == [op : {"MoveUser"}, id : Shards, host : Hosts, by : Logins]
Calls   == ShardCalls \cup UserCalls
NoSync  == [rest |-> <<>>, first |-> 1, shared |-> FALSE]
\* "overlap": shards were sent while one was being added or removed.
\* "failed": a call of RmShard had no effect.  "late": an AddShard was run after
\* its host had given it up.  "torn": MoveShard has written an entry back that had
\* changed since it was read.  "usurped": an older stream of the host has taken or
\* removed the registration of its stream.
Races   == {"overlap", "failed", "late", "torn", "usurped"}
Quiet   == [at |-> "idle", to |-> NoStream]

TypeOK ==
  /\ up \in BOOLEAN
  /\ servers \in [Hosts -> Streams \cup {NoStream}]
  /\ shards  \in [Shards -> Hosts \cup {NoHost, Absent}]
  /\ players \in [Users -> Shards \cup {NoShard, Absent}]
  /\ events  \in 0..EventCap
  /\ moving  \in SUBSET [call : Calls, read : Hosts \cup {NoHost}, asked : BOOLEAN]
  /\ handler \in [Streams -> {"none", "called", "open"}]
  /\ auth    \in [Logins -> {"none", "look", "kick", "reset"}]
  /\ chan    \in [Logins -> Streams \cup {NoStream}]
  /\ cmd     \in [at : {"idle", "send"}, to : Streams \cup {NoStream}]
  /\ owner   \in [Streams -> Hosts \cup {NoHost}]
  /\ live    \in [Streams -> BOOLEAN]
  /\ conn    \in [Hosts -> BOOLEAN]
  /\ calls   \in SUBSET Calls
  /\ late    \in SUBSET Calls
  /\ faults  \in 0..MaxFaults
  /\ list    \in [Hosts -> Seq(Shards)]
  /\ lock    \in [Hosts -> Locks]
  /\ life    \in [Shards -> {"off", "adding", "up", "removing", "gone"}]
  /\ loop    \in [Hosts -> {"call", "opened", "sync", "asked", "recv"}]
  /\ cur     \in [Hosts -> Streams \cup {NoStream}]
  /\ sync    \in [Hosts -> [rest : Seq(Shards), first : Nat \ {0}, shared : BOOLEAN]]
  /\ sess    \in [Logins -> {"off", "auth", "in", "finding", "found", "moving",
                             "play", "over"}]
  /\ at      \in [Logins -> Shards \cup {NoShard}]
  /\ rejoins \in [Logins -> 0..MaxRejoins]
  /\ raced   \in [Hosts -> SUBSET Races]

Init ==
  /\ up = TRUE
  /\ servers = [h \in Hosts |-> NoStream]
  /\ shards  = [s \in Shards |-> Absent]
  /\ players = [u \in Users |-> Absent]
  /\ events  = 0
  /\ moving  = {}
  /\ handler = [k \in Streams |-> "none"]
  /\ auth    = [l \in Logins |-> "none"]
  /\ chan    = [l \in Logins |-> NoStream]
  /\ cmd     = Quiet
  /\ owner   = [k \in Streams |-> NoHost]
  /\ live    = [k \in Streams |-> FALSE]
  /\ conn    = [h \in Hosts |-> TRUE]
  /\ calls   = {} /\ late = {}
  /\ faults  = 0
  /\ list    = [h \in Hosts |-> <<>>]
  /\ lock    = [h \in Hosts |-> Free]
  /\ life    = [s \in Shards |-> "off"]
  /\ loop    = [h \in Hosts |-> "call"]
  /\ cur     = [h \in Hosts |-> NoStream]
  /\ sync    = [h \in Hosts |-> NoSync]
  /\ sess    = [l \in Logins |-> "off"]
  /\ at      = [l \in Logins |-> NoShard]
  /\ rejoins = [l \in Logins |-> MaxRejoins]
  /\ raced   = [h \in Hosts |-> {}]

-----------------------------------------------------------------------------
(* Calls *)

\* Mutant: the channel has no limit.
DispatchMore == events' = events + 1

\* Mutant: an event that finds the channel full waits for the admin to read.
DispatchWait == events < EventCap /\ events' = events + 1

\* dispatch: an event that finds the channel full is dropped.
Dispatch == events' = IF events < EventCap THEN events + 1 ELSE events

\* A host makes a call: without a connection it fails at once.
Call(c) == calls' = IF conn[c.host] THEN calls \cup {c} ELSE calls

\* A call has returned when it is no longer under way, with or without effect.
Returned(c) == c \notin calls

ShardCall(o, s, b) == [op |-> o, id |-> s, host |-> HostOf[s], by |-> b]
MoveUserCall(l) ==
  [op |-> "MoveUser", id |-> at[l], host |-> LoginHost[l], by |-> l]

\* Mutant: the entry of a shard is made without its host.
AddedNameless(c) == [shards EXCEPT ![c.id] = NoHost]

AddedEntry(c) == [shards EXCEPT ![c.id] = c.host]

\* The end of a call: its host waits for it no more.
Answered(c) == calls' = calls \ {c}

\* The controller runs AddShard, RmShard or MoveUser.
Serve(c) ==
  /\ up /\ c.op # "MoveShard"
  /\ Dispatch
  /\ \/ c \in calls /\ Answered(c) /\ UNCHANGED late
     \/ c \in late /\ late' = late \ {c} /\ UNCHANGED calls
  /\ \/ c.op = "AddShard" /\ shards' = AddedEntry(c) /\ UNCHANGED players
     \/ c.op = "RmShard"  /\ shards' = [shards EXCEPT ![c.id] = Absent]
                          /\ UNCHANGED players
     \/ c.op = "MoveUser" /\ players' = [players EXCEPT ![UserOf[c.by]] = c.id]
                          /\ UNCHANGED shards
  /\ UNCHANGED <<up, servers, moving, goVars, netVars, smVars, loopVars,
                 sessVars, raced>>

\* shard := shards[req.Id], a missing entry reads as one without a host.
MoveRead(c) ==
  /\ up /\ c.op = "MoveShard" /\ \A m \in moving : m.asked => m.call # c
  /\ Dispatch
  /\ moving' = moving \cup
       {[call |-> c, asked |-> c \in calls,
         read |-> IF shards[c.id] = Absent THEN NoHost ELSE shards[c.id]]}
  /\ late' = late \ {c}
  /\ UNCHANGED <<up, servers, shards, players, goVars, netVars, calls, smVars,
                 loopVars, sessVars, raced>>

\* shards[req.Id] = shard: what another call has written since is lost.
MoveWrite(m) ==
  LET s == m.call.id IN
  /\ up
  /\ moving' = moving \ {m}
  /\ shards' = [shards EXCEPT ![s] = m.read]
  /\ raced' = IF shards[s] # m.read /\ ~(shards[s] = Absent /\ m.read = NoHost)
              THEN [raced EXCEPT ![HostOf[s]] = @ \cup {"torn"}] ELSE raced
  /\ IF m.asked THEN Answered(m.call) ELSE UNCHANGED calls
  /\ UNCHANGED <<up, servers, players, events, goVars, netVars, late, smVars,
                 loopVars, sessVars>>

-----------------------------------------------------------------------------
(* Streams: impl.Events and admin.Events *)

\* A stream nobody refers to any more, to stand for a new one.
Unused(k) ==
  /\ handler[k] = "none" /\ ~live[k]
  /\ \A h \in Hosts : servers[h] # k /\ cur[h] # k
  /\ \A l \in Logins : chan[l] # k
  /\ cmd.to # k

\* Mutant: a host that is registered stays so.
FirstRegistered(k) == IF servers[owner[k]] = NoStream
                      THEN [servers EXCEPT ![owner[k]] = k] ELSE servers

\* servers[req.Host] = server{...}
Registered(k) == [servers EXCEPT ![owner[k]] = k]

HandlerStart(k) ==
  /\ up /\ handler[k] = "called"
  /\ Dispatch
  /\ handler' = [handler EXCEPT ![k] = "open"]
  /\ servers' = Registered(k)
  /\ raced' = [raced EXCEPT ![owner[k]] = IF live[k] THEN @ \ {"usurped"}
                                           ELSE @ \cup {"usurped"}]
  /\ UNCHANGED <<up, shards, players, moving, auth, chan, cmd, netVars, callVars,
                 smVars, loopVars, sessVars>>

\* Mutant: the end of a stream leaves its channel registered.
StillRegistered(k) == servers

\* delete(servers, req.Host), whoever is registered by that name
Unregistered(k) == [servers EXCEPT ![owner[k]] = NoStream]

\* The end of a newer stream's registration by an older stream.
Usurps(k) == servers[owner[k]] \notin {k, NoStream}

HandlerEnd(k) ==
  /\ up /\ handler[k] = "open" /\ ~live[k]
  /\ Dispatch
  /\ handler' = [handler EXCEPT ![k] = "none"]
  /\ servers' = Unregistered(k)
  /\ raced' = [raced EXCEPT ![owner[k]] =
                 IF Usurps(k) THEN @ \cup {"usurped"} ELSE @]
  /\ UNCHANGED <<up, shards, players, moving, auth, chan, cmd, netVars, callVars,
                 smVars, loopVars, sessVars>>

\* The admin client, if there is one, reads an event.
AdminRead ==
  /\ Watched /\ up /\ events > 0
  /\ events' = events - 1
  /\ UNCHANGED <<up, servers, shards, players, moving, goVars, netVars, callVars,
                 smVars, loopVars, sessVars, raced>>

\* The channel a kick of u is sent to: none when a map has no entry.
KickChan(u) ==
  LET s == players[u] IN
  IF s \in Shards /\ shards[s] \in Hosts THEN servers[shards[s]] ELSE NoStream

\* Command "kick": it sends to a nil channel when the host is not registered.
Command(u) ==
  /\ up /\ cmd.at = "idle" /\ players[u] # Absent
  /\ cmd' = [at |-> "send", to |-> KickChan(u)]
  /\ UNCHANGED <<ctlVars, handler, auth, chan, netVars, callVars, smVars,
                 loopVars, sessVars, raced>>

\* Mutant: the channel has a buffer.
TakesAny(k) == k # NoStream

\* Events has gone back to its select after client.Send.
Receives(k) == k # NoStream /\ handler[k] = "open"

CommandSent ==
  /\ up /\ cmd.at = "send" /\ Receives(cmd.to)
  /\ cmd' = Quiet
  /\ UNCHANGED <<ctlVars, handler, auth, chan, netVars, callVars, smVars,
                 loopVars, sessVars, raced>>

-----------------------------------------------------------------------------
(* Logins: remoteController.auth and impl.Auth *)

AuthCall(l) ==
  /\ sess[l] = "off"
  /\ \/ /\ conn[LoginHost[l]]
        /\ sess' = [sess EXCEPT ![l] = "auth"]
        /\ auth' = [auth EXCEPT ![l] = "look"]
     \/ /\ ~conn[LoginHost[l]]
        /\ sess' = [sess EXCEPT ![l] = "over"]
        /\ UNCHANGED auth
  /\ UNCHANGED <<ctlVars, handler, chan, cmd, netVars, callVars, smVars,
                 loopVars, at, rejoins, raced>>

\* The password is wrong, or the context of the call is done.
AuthDenied(l) ==
  /\ up /\ auth[l] = "look"
  /\ Dispatch
  /\ auth' = [auth EXCEPT ![l] = "none"]
  /\ sess' = [sess EXCEPT ![l] = "over"]
  /\ UNCHANGED <<up, servers, shards, players, moving, handler, chan, cmd,
                 netVars, callVars, smVars, loopVars, at, rejoins, raced>>

\* Mutant: the host is not checked to be registered, as in Command.
AfterLookAnyway(k) == "kick"

AfterLook(k) == IF k # NoStream THEN "kick" ELSE "reset"

\* The password is right: the user may have to be kicked.
AuthLook(l) ==
  LET k == KickChan(UserOf[l]) IN
  /\ up /\ auth[l] = "look"
  /\ Dispatch
  /\ auth' = [auth EXCEPT ![l] = AfterLook(k)]
  /\ chan' = [chan EXCEPT ![l] = k]
  /\ UNCHANGED <<up, servers, shards, players, moving, handler, cmd, netVars,
                 callVars,
                 smVars, loopVars, sessVars, raced>>

\* s.event <- "kick " + id, on a channel without a buffer
AuthKick(l) ==
  /\ up /\ auth[l] = "kick" /\ Receives(chan[l])
  /\ auth' = [auth EXCEPT ![l] = "reset"]
  /\ chan' = [chan EXCEPT ![l] = NoStream]
  /\ UNCHANGED <<ctlVars, handler, cmd, netVars, callVars, smVars, loopVars,
                 sessVars, raced>>

\* players[p.Id] = player{}; the markers are read, the call returns.
AuthReset(l) ==
  /\ up /\ auth[l] = "reset"
  /\ players' = [players EXCEPT ![UserOf[l]] = NoShard]
  /\ auth' = [auth EXCEPT ![l] = "none"]
  /\ sess' = [sess EXCEPT ![l] = IF @ = "auth" THEN "in" ELSE @]
  /\ UNCHANGED <<up, servers, shards, events, moving, handler, chan, cmd, netVars,
                 callVars, smVars, loopVars, at, rejoins, raced>>

-----------------------------------------------------------------------------
(* The shards of a host: ServerManager *)

CanLock(h) == lock[h] = Free

\* Add: sm.lock is taken, the controller is called.
Add(s) ==
  LET h == HostOf[s] IN
  /\ life[s] = "off" /\ CanLock(h)
  /\ lock' = [lock EXCEPT ![h] = [op |-> "Add", id |-> s, by |-> NoShard]]
  /\ life' = [life EXCEPT ![s] = "adding"]
  /\ Call(ShardCall("AddShard", s, "lock"))
  /\ UNCHANGED <<ctlVars, goVars, netVars, late, list, loopVars, sessVars, raced>>

\* sm.server = append(sm.server, s): in a new array, or in the one that a range
\* reads; there it takes the place of what a Remove has left behind.
Append1(h, s, inplace) ==
  LET m == Len(list[h]) + 1
      y == sync[h]
  IN  IF inplace
      THEN [y EXCEPT !.rest = [j \in DOMAIN y.rest |->
              IF y.shared /\ y.first + j - 1 = m THEN s ELSE y.rest[j]]]
      ELSE [y EXCEPT !.shared = FALSE]

\* The array has room for one more: it held as many when the range began.
MustFit(h) ==
  sync[h].shared /\ sync[h].first + Len(sync[h].rest) > Len(list[h]) + 1

Added(h) ==
  LET s == lock[h].id IN
  /\ lock[h].op = "Add" /\ Returned(ShardCall("AddShard", s, "lock"))
  /\ \E inplace \in IF MustFit(h) THEN {TRUE} ELSE BOOLEAN :
       sync' = [sync EXCEPT ![h] = Append1(h, s, inplace)]
  /\ list' = [list EXCEPT ![h] = Append(@, s)]
  /\ lock' = [lock EXCEPT ![h] = Free]
  /\ life' = [life EXCEPT ![s] = "up"]
  /\ UNCHANGED <<ctlVars, goVars, netVars, callVars, loop, cur, sessVars, raced>>

\* Remove: sm.lock is taken, the controller is called.
Remove(s) ==
  LET h == HostOf[s] IN
  /\ life[s] = "up" /\ CanLock(h)
  /\ lock' = [lock EXCEPT ![h] = [op |-> "Remove", id |-> s, by |-> NoShard]]
  /\ life' = [life EXCEPT ![s] = "removing"]
  /\ Call(ShardCall("RmShard", s, "lock"))
  /\ raced' = [raced EXCEPT ![h] = @
       \cup (IF loop[h] \in {"sync", "asked"} THEN {"overlap"} ELSE {})
       \cup (IF ~conn[h] /\ shards[s] # Absent THEN {"failed"} ELSE {})]
  /\ UNCHANGED <<ctlVars, goVars, netVars, late, list, loopVars, sessVars>>

\* sm.server = append(sm.server[:i], sm.server[i+1:]...): the rest of the array
\* moves one place down, under the range that reads it.
ShiftedDown(h, i) ==
  LET y == sync[h] IN
  [y EXCEPT !.rest = [j \in DOMAIN y.rest |->
     LET c == y.first + j - 1
     IN  IF y.shared /\ i <= c /\ c < Len(list[h])
         THEN list[h][c + 1] ELSE y.rest[j]]]

Removed(h) ==
  LET s == lock[h].id IN
  /\ lock[h].op = "Remove" /\ Returned(ShardCall("RmShard", s, "lock"))
  /\ \E i \in DOMAIN list[h] :
       /\ list[h][i] = s
       /\ list' = [list EXCEPT ![h] = SubSeq(@, 1, i - 1)
                                        \o SubSeq(@, i + 1, Len(@))]
       /\ sync' = [sync EXCEPT ![h] = ShiftedDown(h, i)]
  /\ lock' = [lock EXCEPT ![h] = Free]
  /\ life' = [life EXCEPT ![s] = "gone"]
  /\ UNCHANGED <<ctlVars, goVars, netVars, callVars, loop, cur, sessVars, raced>>

Listed(h) == {list[h][i] : i \in DOMAIN list[h]}

\* findServer: a shard of the player's area or one with room is taken at once;
\* a free one is moved to the player's area first, with sm.lock held.
Find(l) ==
  LET h == LoginHost[l] IN
  /\ sess[l] = "in" /\ CanLock(h)
  /\ \E s \in Listed(h) :
       /\ at' = [at EXCEPT ![l] = s]
       /\ \/ /\ sess' = [sess EXCEPT ![l] = "found"]
             /\ UNCHANGED <<lock, calls>>
          \/ /\ sess' = [sess EXCEPT ![l] = "finding"]
             /\ lock' = [lock EXCEPT ![h] = [op |-> "Find", id |-> s, by |-> l]]
             /\ Call(ShardCall("MoveShard", s, "lock"))
  /\ UNCHANGED <<ctlVars, goVars, netVars, late, list, life, loopVars, rejoins,
                 raced>>

Found(h) ==
  /\ lock[h].op = "Find" /\ Returned(ShardCall("MoveShard", lock[h].id, "lock"))
  /\ lock' = [lock EXCEPT ![h] = Free]
  /\ sess' = [sess EXCEPT ![lock[h].by] = "found"]
  /\ UNCHANGED <<ctlVars, goVars, netVars, callVars, list, life, loopVars, at,
                 rejoins, raced>>

\* AddPlayer: Controller.moveUser, then the player is listed.
Move(l) ==
  /\ sess[l] = "found"
  /\ sess' = [sess EXCEPT ![l] = "moving"]
  /\ Call(MoveUserCall(l))
  /\ UNCHANGED <<ctlVars, goVars, netVars, late, smVars, loopVars, at, rejoins,
                 raced>>

Play(l) ==
  /\ sess[l] = "moving" /\ Returned(MoveUserCall(l))
  /\ sess' = [sess EXCEPT ![l] = "play"]
  /\ UNCHANGED <<ctlVars, goVars, netVars, callVars, smVars, loopVars, at,
                 rejoins, raced>>

\* AddPlayer is called again: a respawn, a change of area, the end of a shard.
Rejoin(l) ==
  /\ sess[l] = "play" /\ rejoins[l] > 0
  /\ sess' = [sess EXCEPT ![l] = "in"]
  /\ rejoins' = [rejoins EXCEPT ![l] = @ - 1]
  /\ UNCHANGED <<ctlVars, goVars, netVars, callVars, smVars, loopVars, at, raced>>

-----------------------------------------------------------------------------
(* eventHandler *)

\* m.client.Events: it fails without a connection, and is tried again.
Events(h) ==
  /\ loop[h] = "call" /\ conn[h]
  /\ \E k \in Streams :
       /\ Unused(k)
       /\ \A j \in Streams : Unused(j) => k <= j
       /\ handler' = [handler EXCEPT ![k] = "called"]
       /\ owner'   = [owner EXCEPT ![k] = h]
       /\ live'    = [live EXCEPT ![k] = TRUE]
       /\ cur'     = [cur EXCEPT ![h] = k]
  /\ loop' = [loop EXCEPT ![h] = "opened"]
  /\ UNCHANGED <<ctlVars, auth, chan, cmd, conn, faults, callVars, smVars, sync,
                 sessVars, raced>>

\* Mutant: the shards are sent once, by the first stream.
SyncNothing(h) == NoSync

\* What range has evaluated: the array and length of SM.server.
SyncAll(h) == [rest |-> list[h], first |-> 1, shared |-> list[h] # <<>>]

\* The range goes on to the next place of the array, or ends.
NextSync(y) == IF Len(y.rest) = 1 THEN NoSync
               ELSE [y EXCEPT !.rest = Tail(@), !.first = @ + 1]
Syncing(y)  == IF y = NoSync THEN "recv" ELSE "sync"

\* for _, shard := range SM.server, without sm.lock.  A host that is adding or
\* removing a shard meanwhile may miss the shard, or send it too late.
Sync(h) ==
  /\ loop[h] = "opened"
  /\ sync' = [sync EXCEPT ![h] = SyncAll(h)]
  /\ loop' = [loop EXCEPT ![h] = Syncing(sync'[h])]
  /\ raced' = [raced EXCEPT ![h] = IF lock[h].op \in {"Add", "Remove"}
                                    THEN @ \cup {"overlap"} ELSE @]
  /\ UNCHANGED <<ctlVars, goVars, netVars, callVars, smVars, cur, sessVars>>

SyncAsk(h) ==
  /\ loop[h] = "sync"
  /\ loop' = [loop EXCEPT ![h] = "asked"]
  /\ Call(ShardCall("AddShard", Head(sync[h].rest), "loop"))
  /\ UNCHANGED <<ctlVars, goVars, netVars, late, smVars, cur, sync, sessVars,
                 raced>>

SyncNext(h) ==
  /\ loop[h] = "asked"
  /\ \A c \in calls : c.host = h => c.by # "loop"
  /\ sync' = [sync EXCEPT ![h] = NextSync(@)]
  /\ loop' = [loop EXCEPT ![h] = Syncing(sync'[h])]
  /\ UNCHANGED <<ctlVars, goVars, netVars, callVars, smVars, cur, sessVars, raced>>

\* events.Recv fails.
RecvFails(h) ==
  /\ loop[h] = "recv" /\ ~live[cur[h]]
  /\ loop' = [loop EXCEPT ![h] = "call"]
  /\ cur'  = [cur EXCEPT ![h] = NoStream]
  /\ UNCHANGED <<ctlVars, goVars, netVars, callVars, smVars, sync, sessVars, raced>>

-----------------------------------------------------------------------------
(* Faults *)

CallsOf(h) == {c \in calls : c.host = h}

\* The logins of h that wait for the controller.
Waiting(h) == {l \in Logins : LoginHost[l] = h /\ sess[l] = "auth"}

\* The connection of h breaks: what h waits for fails.  The controller may
\* still get the calls of L, and has or has not got the request for the stream.
Break(h) ==
  /\ conn[h] /\ faults < MaxFaults
  /\ faults' = faults + 1
  /\ conn' = [conn EXCEPT ![h] = FALSE]
  /\ live' = [k \in Streams |-> live[k] /\ owner[k] # h]
  /\ \E L \in SUBSET {c \in CallsOf(h) :
                        c.op \in Lates /\ \A m \in moving : m.asked => m.call # c} :
       /\ late' = late \cup L
       /\ raced' = [raced EXCEPT ![h] = @
            \cup {"late" : c \in {d \in L : d.op = "AddShard"}}
            \cup {"failed" : c \in {d \in CallsOf(h) : d.op = "RmShard"}}]
  /\ calls' = calls \ CallsOf(h)
  /\ moving' = {[m EXCEPT !.asked = @ /\ m.call.host # h] : m \in moving}
  /\ \E lost \in BOOLEAN :
       handler' = [k \in Streams |->
                     IF lost /\ owner[k] = h /\ handler[k] = "called"
                     THEN "none" ELSE handler[k]]
  /\ sess' = [l \in Logins |-> IF l \in Waiting(h) THEN "over" ELSE sess[l]]
  /\ UNCHANGED <<up, servers, shards, players, events, auth, chan, cmd, owner,
                 smVars, loopVars, at, rejoins>>

Reconnect(h) ==
  /\ up /\ ~conn[h]
  /\ conn' = [conn EXCEPT ![h] = TRUE]
  /\ UNCHANGED <<ctlVars, goVars, owner, live, faults, callVars, smVars,
                 loopVars, sessVars, raced>>

\* The controller ends, and with it its maps and goroutines.
Crash ==
  /\ up /\ faults < MaxFaults
  /\ faults'  = faults + 1
  /\ up'      = FALSE
  /\ servers' = [h \in Hosts |-> NoStream]
  /\ shards'  = [s \in Shards |-> Absent]
  /\ players' = [u \in Users |-> Absent]
  /\ events'  = 0
  /\ moving'  = {}
  /\ handler' = [k \in Streams |-> "none"]
  /\ auth'    = [l \in Logins |-> "none"]
  /\ chan'    = [l \in Logins |-> NoStream]
  /\ cmd'     = Quiet
  /\ live'    = [k \in Streams |-> FALSE]
  /\ conn'    = [h \in Hosts |-> FALSE]
  /\ calls'   = {} /\ late' = {}
  /\ sess'    = [l \in Logins |-> IF sess[l] = "auth" THEN "over" ELSE sess[l]]
  /\ raced'   = [h \in Hosts |-> IF loop[h] \in {"sync", "asked"}
                                THEN raced[h] \cap {"overlap"} ELSE {}]
  /\ UNCHANGED <<owner, smVars, loopVars, at, rejoins>>

Start ==
  /\ ~up
  /\ up' = TRUE
  /\ UNCHANGED <<servers, shards, players, events, moving, goVars, netVars, callVars,
                 smVars, loopVars, sessVars, raced>>
-----------------------------------------------------------------------------

StreamStep(k) == HandlerStart(k) \/ HandlerEnd(k)

AuthStep(l) == AuthDenied(l) \/ AuthLook(l) \/ AuthKick(l) \/ AuthReset(l)

LockStep(h) == Added(h) \/ Removed(h) \/ Found(h)

JoinStep(l) == Find(l) \/ Move(l) \/ Play(l)

LoopStep(h) ==
  Events(h) \/ Sync(h) \/ SyncAsk(h) \/ SyncNext(h) \/ RecvFails(h)

Next ==
  \/ \E c \in calls \cup late : Serve(c) \/ MoveRead(c)
  \/ \E m \in moving : MoveWrite(m)
  \/ \E k \in Streams : StreamStep(k)
  \/ AdminRead \/ CommandSent
  \/ \E u \in Kicked : Command(u)
  \/ \E l \in Logins : AuthCall(l) \/ AuthStep(l) \/ JoinStep(l) \/ Rejoin(l)
  \/ \E s \in Shards : Add(s) \/ (s \in Ending /\ Remove(s))
  \/ \E h \in Hosts : LockStep(h) \/ LoopStep(h) \/ Break(h) \/ Reconnect(h)
  \/ Crash \/ Start

Spec == Init /\ [][Next]_vars

-----------------------------------------------------------------------------
(* Safety *)

\* A registered channel is read: its Events is in its loop.  A kick that finds
\* a channel in the map does not find a dead one.
RegisteredIsRead ==
  \A h \in Hosts : servers[h] # NoStream =>
    handler[servers[h]] = "open" /\ owner[servers[h]] = h

\* eventHandler has sent its shards and waits for events of a stream that the
\* controller serves.
Settled(h) ==
  /\ up /\ loop[h] = "recv" /\ live[cur[h]]
  /\ lock[h].op \notin {"Add", "Remove"}

\* The controller lists for a settled host the shards the host has, after any
\* faults, unless shards were sent while one was added or removed, or a call
\* was lost or late (Remove and eventHandler are not ordered by a lock).
RegistryAgrees ==
  \A h \in Hosts :
    Settled(h) /\ raced[h] \subseteq {"usurped"} =>
      {s \in Shards : shards[s] = h} = Listed(h)

\* Nobody else has logged in as the user of l.
Alone(l) == \A m \in Logins \ {l} : UserOf[m] = UserOf[l] => sess[m] = "off"

\* A second login of a user that plays finds the stream of the host that has
\* the player, over three maps that three kinds of calls have filled.
KickFindsHost ==
  \A l \in Logins :
    LET h == LoginHost[l] IN
    /\ sess[l] = "play" /\ Alone(l)
    /\ Settled(h) /\ handler[cur[h]] = "open" /\ raced[h] = {}
    /\ at[l] \in Listed(h)
    => /\ players[UserOf[l]] = at[l] => KickChan(UserOf[l]) = cur[h]
       /\ faults = 0 => players[UserOf[l]] = at[l]

\* Auth sends to a channel that nobody reads any more.
Orphaned(l) ==
  auth[l] = "kick" /\ chan[l] # NoStream /\ handler[chan[l]] = "none"

\* Nothing but the end of the controller frees a login whose kick has lost its
\* reader: no timeout, no new stream of the host.
OrphanedForGood ==
  [][\A l \in Logins : Orphaned(l) => Orphaned(l)' \/ ~up']_vars

-----------------------------------------------------------------------------
(* The invariant behind RegistryAgrees and KickFindsHost, see ControllerRegistryProofs *)

\* eventHandler ranges over the shards of h.
Ranging(h) == loop[h] \in {"sync", "asked"}

\* A range that goes on has a shard to send; a login that has been given a shard
\* has it; a login whose Auth runs waits for it, or has given up; who moves a free
\* shard for a login holds the lock of the login's host.
Chosen ==
  /\ \A h \in Hosts : Ranging(h) => sync[h].rest # <<>>
  /\ \A l \in Logins :
       /\ sess[l] \in {"finding", "found", "moving", "play"} => at[l] \in Shards
       /\ auth[l] # "none" => sess[l] \in {"auth", "over"}
  /\ \A h \in Hosts : lock[h].op = "Find" =>
       sess[lock[h].by] = "finding" /\ LoginHost[lock[h].by] = h

\* The streams of a host: at most one is open, and only with the connection.
StreamsOwned ==
  /\ \A h \in Hosts : /\ cur[h] = NoStream <=> loop[h] = "call"
                      /\ cur[h] # NoStream => owner[cur[h]] = h
  /\ \A k \in Streams : live[k] =>
       owner[k] \in Hosts /\ cur[owner[k]] = k /\ conn[owner[k]]

\* A shard is the controller's business only as a shard of its host.
OwnShards ==
  /\ \A s \in Shards : shards[s] \in {HostOf[s], NoHost, Absent}
  /\ \A c \in calls \cup late : c.op # "MoveUser" => c.host = HostOf[c.id]
  /\ \A m \in moving : /\ m.call.op = "MoveShard"
                       /\ m.read \in {HostOf[m.call.id], NoHost}
  /\ \A h \in Hosts : \A j \in DOMAIN sync[h].rest : HostOf[sync[h].rest[j]] = h

\* sm.lock and sm.server against the shards they are about.
ListLife ==
  /\ \A s \in Shards :
       /\ life[s] = "adding" <=>
            lock[HostOf[s]] = [op |-> "Add", id |-> s, by |-> NoShard]
       /\ life[s] = "removing" <=>
            lock[HostOf[s]] = [op |-> "Remove", id |-> s, by |-> NoShard]
  /\ \A h \in Hosts :
       /\ lock[h].op \in {"Add", "Remove"} => HostOf[lock[h].id] = h
       /\ Listed(h) = {s \in Shards : HostOf[s] = h /\ life[s] \in {"up", "removing"}}
       /\ \A i, j \in DOMAIN list[h] : list[h][i] = list[h][j] => i = j

\* A call is under way only while the goroutine that has made it waits for it.
CallersWait ==
  \A c \in calls :
    /\ c.op = "AddShard" /\ c.by = "lock" => life[c.id] = "adding"
    /\ c.op = "AddShard" /\ c.by = "loop" => loop[c.host] = "asked"
    /\ c.op = "RmShard" => c.by = "lock" /\ life[c.id] = "removing"
    /\ c.op = "MoveUser" => sess[c.by] = "moving" /\ c = MoveUserCall(c.by)

LateIsRaced ==
  \A c \in late : /\ c.op = "AddShard" => "late" \in raced[c.host]
                  /\ c.op = "RmShard" => "failed" \in raced[c.host]

\* The range of a host that has removed no shard meanwhile reads a part of the
\* list, whatever is appended to it, and sends shards that are in it.
RangeIsOfList ==
  \A h \in Hosts : Ranging(h) /\ "overlap" \notin raced[h] =>
    /\ lock[h].op # "Remove"
    /\ \A j \in DOMAIN sync[h].rest : life[sync[h].rest[j]] = "up"
    /\ sync[h].first + Len(sync[h].rest) <= Len(list[h]) + 1
    /\ \A c \in calls : c.op = "AddShard" /\ c.by = "loop" /\ c.host = h
                          => life[c.id] = "up"

\* Nothing has happened to the entries of h that its shards would not survive.
Unraced(h) == raced[h] \subseteq {"usurped"}

\* The shards that the range of h has still to send.
Unsent(h) ==
  {sync[h].rest[j] : j \in {i \in DOMAIN sync[h].rest :
     \/ loop[h] = "sync"
     \/ loop[h] = "asked" /\ (i = 1 =>
          ShardCall("AddShard", sync[h].rest[i], "loop") \in calls)}}

\* The controller does not list a shard that its host has not, and lists one that
\* it has when the host has sent it over the connection of its stream.
EntriesFollow ==
  \A s \in Shards :
    LET h == HostOf[s] IN Unraced(h) =>
      /\ life[s] \in {"off", "gone"} => shards[s] # h
      /\ life[s] = "removing" =>
           ShardCall("RmShard", s, "lock") \in calls \/ shards[s] # h
      /\ loop[h] \notin {"call", "opened"} /\ live[cur[h]] =>
           /\ life[s] = "adding" =>
                ShardCall("AddShard", s, "lock") \in calls \/ shards[s] = h
           /\ life[s] = "up" => s \in Unsent(h) \/ shards[s] = h

\* The stream of a host is the registered one, unless an older one came after it.
StreamIsRegistered ==
  \A h \in Hosts :
    /\ loop[h] # "call" /\ live[cur[h]] /\ handler[cur[h]] = "open"
    /\ "usurped" \notin raced[h]
    => servers[h] = cur[h]

\* Before the first fault every call is answered, and a user is where its login is.
UsersFollow ==
  faults = 0 =>
    /\ late = {} /\ \A h \in Hosts : conn[h]
    /\ \A l \in Logins :
         /\ auth[l] # "none" => sess[l] = "auth"
         /\ Alone(l) /\ (\/ sess[l] = "play"
                         \/ sess[l] = "moving" /\ Returned(MoveUserCall(l)))
              => players[UserOf[l]] = at[l]

RegistryInv ==
  /\ Chosen /\ StreamsOwned /\ OwnShards /\ ListLife /\ CallersWait
  /\ LateIsRaced /\ RangeIsOfList /\ EntriesFollow
  /\ StreamIsRegistered /\ UsersFollow

-----------------------------------------------------------------------------
(* Liveness *)

\* Goroutines run, the network delivers, the controller is started again.
Fairness ==
  /\ \A c \in Calls :
       WF_vars(c \in calls \cup late /\ (Serve(c) \/ MoveRead(c)))
  /\ WF_vars(\E m \in moving : MoveWrite(m))
  /\ \A k \in Streams : WF_vars(StreamStep(k))
  /\ \A l \in Logins : WF_vars(AuthStep(l))
  /\ \A h \in Hosts :
       WF_vars(LockStep(h)) /\ WF_vars(LoopStep(h)) /\ WF_vars(Reconnect(h))
  /\ WF_vars(Start)

FairSpec == Spec /\ Fairness

\* sm.lock is given back although it is held across calls: no handler of the
\* controller that a holder calls waits for anything, dispatch least of all.
LockReleased == \A h \in Hosts : []<>(lock[h] = Free)

\* A login that waits for Auth gets an answer, or Auth has lost its reader.
AuthReturns ==
  \A l \in Logins : sess[l] = "auth" ~> sess[l] # "auth" \/ Orphaned(l)

\* After the last fault every host is settled again, and registered unless an
\* older stream has taken its registration with it.
HostsRecover ==
  \A h \in Hosts :
    <>[](/\ loop[h] = "recv" /\ live[cur[h]]
         /\ servers[h] = cur[h] \/ "usurped" \in raced[h])
=============================================================================
