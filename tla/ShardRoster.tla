---------------------------- MODULE ShardRoster ----------------------------
(***************************************************************************)
(* The main server of Tasteless Shores (tasteless-shores/server/server/ts):*)
(* which player is listed by which shard.  A shard is one connected game   *)
(* server (type Server), a player is one client connection (type Player);  *)
(* several connections may be logged in as the same user id.               *)
(*                                                                         *)
(* The goroutines are: one session per player (HandlePlayerConn), one      *)
(* handler, one update loop and one write pump per shard, one goroutine    *)
(* per shard that waits for its end and evacuates it                       *)
(* (ServerManager.Remove), the event handler of the controller, and the    *)
(* goroutines started by "go".                                             *)
(*                                                                         *)
(* The locks: a call of AddPlayer or RemovePlayer holds player.lock from   *)
(* start to end, so op says where the one call that holds it stands; a     *)
(* session at "holding" holds it for reading.  server.playerLock is held   *)
(* by the call that is at "left" or "entered", and for reading by a        *)
(* handler at "locked" or "sending" and by an update that still has        *)
(* players to visit.  sm.lock is held within single steps only.            *)
(***************************************************************************)
EXTENDS Naturals, Sequences, FiniteSets

CONSTANTS
  Players,     \* the client connections (Player objects)
  Ids,         \* the user ids
  IdOf,        \* the id that Auth gives to each connection
  Shards,      \* the game server connections (Server objects)
  Areas,       \* the island areas
  FirstArea,   \* the zero value of Server.area and of a new user's area
  Cap,         \* players per shard, 50 in findServer
  OutCap,      \* capacity of Server.outchan, 300 in NewServer
  MaxGo,       \* bound: waiting goroutines of one kind counted per player
  Kinds,       \* bound: the kinds of messages that game servers send
  Updating,    \* bound: the shards whose update loop runs
  Breakable,   \* the shards whose connection may break while it is written
  Talkers,     \* bound: the players that send anything after their first Join
  Slow,        \* bound: the players whose out channel may be found full
  Subjects,    \* bound: the ids that messages of game servers are about
  Kicked,      \* bound: the ids that the controller's events are about
  NoPlayer, NoShard

ASSUME RosterAssumption ==
  /\ IdOf \in [Players -> Ids]
  /\ FirstArea \in Areas
  /\ Cap \in Nat /\ OutCap \in Nat \ {0} /\ MaxGo \in Nat \ {0}
  /\ Kinds \subseteq {"ChangeArea", "Damage", "Spawn", "Whisper"}
  /\ Updating \subseteq Shards
  /\ Breakable \subseteq Shards
  /\ Talkers \subseteq Players /\ Slow \subseteq Players
  /\ Subjects \subseteq Ids /\ Kicked \subseteq Ids
  /\ NoPlayer \notin Players
  /\ NoShard \notin Shards
  /\ {"session", "go"} \cap Shards = {}

VARIABLES
  servers,  \* ServerManager.server, the shards players are sent to
  life,     \* of a shard: "off", "up", "closed", "evac" (in Remove), "gone"
  roster,   \* Server.players: a player for each listed id
  area,     \* Server.area
  handler,  \* where Server.handler stands, and the message it holds
  visit,    \* the players Server.update, if it runs, has still to read
  out,      \* Server.outchan, and what of it waits in the connection
  pump,     \* is Server.writePump running
  world,    \* the ids that have an avatar in the game server
  todo,     \* the ids that Remove's range over s.players must still visit
  evac,     \* the player Remove is at, and where its turn stands
  server,   \* Player.server
  want,     \* Player.area
  op,       \* the call that holds Player.lock
  sess,     \* where HandlePlayerConn stands
  open,     \* is Player.conn open
  kicks,    \* goroutines waiting to run SM.RemovePlayer(p)
  moves,    \* goroutines waiting to run SM.AddPlayer(p)
  view      \* the ids a client shows after what Player.out holds

placeVars  == <<servers, life, area>>
readVars   == <<handler, visit>>
wireVars   == <<out, pump, world>>
evacVars   == <<todo, evac>>
shardVars  == <<placeVars, roster, readVars, wireVars, evacVars>>
playerVars == <<server, want, op, sess, open, kicks, moves, view>>
vars == <<shardVars, playerVars>>

-----------------------------------------------------------------------------
(* Types *)

Calls    == {"add", "rem"}
OpPoints == {"leave", "left", "find", "enter", "entered"}
Idle     == [call |-> "none", at |-> "idle", by |-> "go"]
Ops      == [call : Calls, at : OpPoints, by : {"session", "go"} \cup Shards]
Chat     == [type |-> "Chat", who |-> NoPlayer]
Messages == [type : {"Join", "Leave", "Fwd"}, who : Players] \cup {Chat}
AtRead   == [at |-> "read"]
Handlers == [at : {"msg"}, kind : Kinds, id : Ids, to : Areas]
              \cup [at : {"locked"}, kind : Kinds, who : Players, to : Areas]
              \cup [at : {"read", "Spawn", "Whisper", "sending"}]
NoEvac   == [at |-> "next", who |-> NoPlayer]
Evacs    == [at : {"call", "busy", "chat"}, who : Players] \cup {NoEvac}
NoEntry  == [i \in Ids |-> NoPlayer]

TypeOK ==
  /\ servers \in Seq(Shards)
  /\ life    \in [Shards -> {"off", "up", "closed", "evac", "gone"}]
  /\ roster  \in [Shards -> [Ids -> Players \cup {NoPlayer}]]
  /\ area    \in [Shards -> Areas]
  /\ handler \in [Shards -> Handlers]
  /\ visit   \in [Shards -> SUBSET Players]
  /\ out     \in [Shards -> Seq(Messages)]
  /\ pump    \in [Shards -> BOOLEAN]
  /\ world   \in [Shards -> SUBSET Ids]
  /\ todo    \in [Shards -> SUBSET Ids]
  /\ evac    \in [Shards -> Evacs]
  /\ server  \in [Players -> Shards \cup {NoShard}]
  /\ want    \in [Players -> Areas]
  /\ op      \in [Players -> Ops \cup {Idle}]
  /\ sess    \in [Players -> {"off", "lobby", "adding", "inadd", "play",
                              "sending", "holding", "over"}]
  /\ open    \in [Players -> BOOLEAN]
  /\ kicks   \in [Players -> 0..MaxGo]
  /\ moves   \in [Players -> 0..MaxGo]
  /\ view    \in [Players -> SUBSET Ids]

-----------------------------------------------------------------------------
(* Locks, queues and maps *)

Listed(s)  == {i \in Ids : roster[s][i] # NoPlayer}
Members(s) == {roster[s][i] : i \in Listed(s)}
Size(s)    == Cardinality(Listed(s))

Writing(p) == op[p].at \in {"left", "entered"}

\* s.playerLock can be taken for reading, and for writing.
CanRLock(s) == \A q \in Players : ~(Writing(q) /\ server[q] = s)

\* Mutant: the map is written while the handler reads it.
CanLockWhileRead(s) == CanRLock(s)

CanLock(s)  == /\ CanRLock(s)
               /\ handler[s].at \notin {"locked", "sending"}
               /\ visit[s] = {}

\* player.lock can be taken for reading, and for writing.
CanRLockPlayer(p) == op[p] = Idle
CanLockPlayer(p)  == op[p] = Idle /\ sess[p] # "holding"

\* Server.send: a closed shard drops the message; a full outchan blocks.
CanSend(s) == life[s] # "up" \/ Len(out[s]) < OutCap

\* Mutant: a full outchan drops the message, as Player.send does.
SendOrDrop(s, m) ==
  out' = IF life[s] = "up" /\ Len(out[s]) < OutCap
         THEN [out EXCEPT ![s] = Append(@, m)] ELSE out

Send(s, m) ==
  /\ CanSend(s)
  /\ out' = IF life[s] = "up" THEN [out EXCEPT ![s] = Append(@, m)] ELSE out

\* One more goroutine waits; more than MaxGo are not told apart.
More(n) == IF n < MaxGo THEN n + 1 ELSE n

\* Player.kick(), for each player of K: the connection is closed, a goroutine
\* will remove the player.
Kick(K) ==
  /\ open'  = [p \in Players |-> open[p] /\ p \notin K]
  /\ kicks' = [p \in Players |-> IF p \in K THEN More(kicks[p]) ELSE kicks[p]]

\* Mutant: a message that finds the out channel full is dropped and that is all.
TellOrDrop(R, K) ==
  /\ K \subseteq R \cap Slow
  /\ UNCHANGED <<open, kicks>>

\* Player.send to the players of R: those of K, whose out channel is full, are
\* kicked and do not get the message.
Tell(R, K) ==
  /\ K \subseteq R \cap Slow
  /\ Kick(K)

\* What a client shows after Join messages for new and Leave messages for old.
Sees(p, new, old) == (view[p] \cup new) \ old

-----------------------------------------------------------------------------
(* AddPlayer and RemovePlayer *)

\* Mutant: AddPlayer does not leave the shard the player is on.
FirstStay(p, call) == IF call = "add" THEN "find"
                      ELSE IF server[p] # NoShard THEN "leave" ELSE "idle"

\* Where a call begins: a player without a shard has none to leave.
FirstAt(p, call) == IF server[p] # NoShard THEN "leave"
                    ELSE IF call = "add" THEN "find" ELSE "idle"

\* player.lock.Lock(): a waiting call takes the lock.
Begin(p, call, by) ==
  /\ CanLockPlayer(p)
  /\ op' = IF FirstAt(p, call) = "idle" THEN op
           ELSE [op EXCEPT ![p] =
                  [call |-> call, at |-> FirstAt(p, call), by |-> by]]

BeginJoin(p) ==
  /\ sess[p] = "adding"
  /\ Begin(p, "add", "session")
  /\ sess' = [sess EXCEPT ![p] = "inadd"]
  /\ UNCHANGED <<shardVars, server, want, open, kicks, moves, view>>

BeginMove(p) ==
  /\ moves[p] > 0
  /\ Begin(p, "add", "go")
  /\ moves' = [moves EXCEPT ![p] = @ - 1]
  /\ UNCHANGED <<shardVars, server, want, sess, open, kicks, view>>

BeginEvac(s) ==
  LET p == evac[s].who IN
  /\ evac[s].at = "call"
  /\ Begin(p, "add", s)
  /\ evac' = [evac EXCEPT ![s].at = "busy"]
  /\ UNCHANGED <<placeVars, roster, readVars, wireVars, todo, server, want,
                 sess, open, kicks, moves, view>>

BeginRemove(p) ==
  /\ kicks[p] > 0
  /\ Begin(p, "rem", "go")
  /\ kicks' = [kicks EXCEPT ![p] = @ - 1]
  /\ UNCHANGED <<shardVars, server, want, sess, open, moves, view>>

\* Mutant: the player is not deleted from the map.
Undeleted(s, i) == roster

Deleted(s, i) == [roster EXCEPT ![s][i] = NoPlayer]

\* player.server.playerLock.Lock(); delete(player.server.players, player.id)
Leave(p) ==
  LET s == server[p] IN
  /\ op[p].at = "leave"
  /\ CanLock(s)
  /\ roster' = Deleted(s, IdOf[p])
  /\ todo'   = [todo EXCEPT ![s] = @ \ {IdOf[p]}]
  /\ op'     = [op EXCEPT ![p].at = "left"]
  /\ UNCHANGED <<placeVars, readVars, wireVars, evac, server, want, sess,
                 open, kicks, moves, view>>

\* Mutant: player.lock is not unlocked.
StayLocked(p) == op' = op

Unlock(p) == op' = [op EXCEPT ![p] = Idle]

\* After a Join the session forwards the buildings the player has, if any.
AfterJoin(p) == {"play"} \cup (IF p \in Talkers THEN {"sending"} ELSE {})

\* The call returns: the session goes on, or Remove goes on to p.send.
Return(p) ==
  /\ Unlock(p)
  /\ \/ /\ op[p].by = "session"
        /\ \E a \in AfterJoin(p) : sess' = [sess EXCEPT ![p] = a]
     \/ /\ op[p].by # "session"
        /\ UNCHANGED sess
  /\ evac' = IF op[p].by \in Shards
             THEN [evac EXCEPT ![op[p].by].at = "chat"] ELSE evac

\* Mutant: RemovePlayer leaves the server set.
Remembered(p) == server

Forgotten(p) == [server EXCEPT ![p] = NoShard]

\* Leave goes to the game server and to the players that stay; AddPlayer
\* unlocks and goes on, RemovePlayer ends.
LeaveSent(p, K) ==
  LET s == server[p] IN
  /\ op[p].at = "left"
  /\ Send(s, [type |-> "Leave", who |-> p])
  /\ Tell(Members(s), K)
  /\ view' = [q \in Players |-> IF q \in Members(s) \ K
                                THEN Sees(q, {}, {IdOf[p]}) ELSE view[q]]
  /\ \/ /\ op[p].call = "add"
        /\ op' = [op EXCEPT ![p].at = "find"]
        /\ UNCHANGED <<server, sess, evac>>
     \/ /\ op[p].call = "rem"
        /\ Return(p)
        /\ server' = Forgotten(p)
  /\ UNCHANGED <<placeVars, roster, readVars, pump, world, todo, want,
                 moves>>

\* findServer: the first listed shard of the player's area with room, else the
\* first empty one, else the first with room.
First(S) == LET T == {k \in DOMAIN servers : servers[k] \in S}
            IN  IF T = {} THEN NoShard
                ELSE servers[CHOOSE k \in T : \A j \in T : k <= j]
Matching(p) == First({s \in Shards : area[s] = want[p] /\ Size(s) < Cap})
Free        == First({s \in Shards : Size(s) = 0})
Spare       == First({s \in Shards : Size(s) < Cap})

FindServer(p) ==
  IF Matching(p) # NoShard THEN Matching(p)
  ELSE IF Free # NoShard THEN Free ELSE Spare

Find(p) ==
  LET s == FindServer(p) IN
  /\ op[p].at = "find"
  /\ server' = [server EXCEPT ![p] = s]
  /\ area' = IF Matching(p) = NoShard /\ Free # NoShard
             THEN [area EXCEPT ![s] = want[p]] ELSE area
  /\ \/ /\ s = NoShard
        /\ Kick({p})
        /\ Return(p)
     \/ /\ s # NoShard
        /\ op' = [op EXCEPT ![p].at = "enter"]
        /\ UNCHANGED <<open, kicks, sess, evac>>
  /\ UNCHANGED <<servers, life, roster, readVars, wireVars, todo, want,
                 moves, view>>

\* player.server.playerLock.Lock(); player.server.players[player.id] = player
Enter(p) ==
  LET s == server[p] IN
  /\ op[p].at = "enter"
  /\ CanLock(s)
  /\ roster' = [roster EXCEPT ![s][IdOf[p]] = p]
  /\ op'     = [op EXCEPT ![p].at = "entered"]
  /\ UNCHANGED <<placeVars, readVars, wireVars, evacVars, server, want, sess,
                 open, kicks, moves, view>>

\* Mutant: the one that enters is not shown the others.
ShownToOthers(p, q, s) == Sees(q, {IdOf[p]}, {})

\* What q, listed by s, is shown when p enters.
Shown(p, q, s) == IF q = p THEN Sees(q, Listed(s), {})
                  ELSE Sees(q, {IdOf[p]}, {})

\* Join goes to the game server, to every listed player, and for every listed
\* player to the one that enters; the call ends.
EnterSent(p, K) ==
  LET s == server[p] IN
  /\ op[p].at = "entered"
  /\ Send(s, [type |-> "Join", who |-> p])
  /\ Tell(Members(s), K)
  /\ view' = [q \in Players |->
                IF q \in Members(s) \ K THEN Shown(p, q, s) ELSE view[q]]
  /\ Return(p)
  /\ UNCHANGED <<placeVars, roster, readVars, pump, world, todo, server,
                 want, moves>>

-----------------------------------------------------------------------------
(* Sessions: the loop of HandlePlayerConn *)

Init ==
  /\ servers = <<>>
  /\ life    = [s \in Shards |-> "off"]
  /\ roster  = [s \in Shards |-> NoEntry]
  /\ area    = [s \in Shards |-> FirstArea]
  /\ handler = [s \in Shards |-> AtRead]
  /\ visit   = [s \in Shards |-> {}]
  /\ out     = [s \in Shards |-> <<>>]
  /\ pump    = [s \in Shards |-> FALSE]
  /\ world   = [s \in Shards |-> {}]
  /\ todo    = [s \in Shards |-> {}]
  /\ evac    = [s \in Shards |-> NoEvac]
  /\ server  = [p \in Players |-> NoShard]
  /\ want    = [p \in Players |-> FirstArea]
  /\ op      = [p \in Players |-> Idle]
  /\ sess    = [p \in Players |-> "off"]
  /\ open    = [p \in Players |-> FALSE]
  /\ kicks   = [p \in Players |-> 0]
  /\ moves   = [p \in Players |-> 0]
  /\ view    = [p \in Players |-> {}]

\* Auth answers with the id and the area the user was last in.
Auth(p) ==
  /\ sess[p] = "off"
  /\ sess' = [sess EXCEPT ![p] = "lobby"]
  /\ open' = [open EXCEPT ![p] = TRUE]
  /\ \E a \in Areas : want' = [want EXCEPT ![p] = a]
  /\ UNCHANGED <<shardVars, server, op, kicks, moves, view>>

\* readMsg returns Join, the first or, after a death, one more: LoggedIn makes
\* the client forget its avatars, and the session calls AddPlayer.
Join(p) ==
  /\ sess[p] \in {"lobby"} \cup (IF p \in Talkers THEN {"play"} ELSE {})
  /\ open[p]
  /\ sess' = [sess EXCEPT ![p] = "adding"]
  /\ view' = [view EXCEPT ![p] = {}]
  /\ \E K \in SUBSET {p} : Tell({p}, K)
  /\ UNCHANGED <<shardVars, server, want, op, moves>>

\* readMsg returns a message that the session forwards with sendServer.
Read(p) ==
  /\ p \in Talkers
  /\ sess[p] \in {"lobby", "play"} /\ open[p]
  /\ sess' = [sess EXCEPT ![p] = "sending"]
  /\ UNCHANGED <<shardVars, server, want, op, open, kicks, moves, view>>

\* sendServer: player.lock.RLock().  Without a server it panics: the session
\* ends and nothing kicks the player.
Forward(p) ==
  /\ sess[p] = "sending" /\ CanRLockPlayer(p)
  /\ sess' = [sess EXCEPT ![p] =
               IF server[p] = NoShard THEN "over" ELSE "holding"]
  /\ UNCHANGED <<shardVars, server, want, op, open, kicks, moves, view>>

\* player.server.send(message), then the read lock is given back.
ForwardSent(p) ==
  /\ sess[p] = "holding"
  /\ Send(server[p], [type |-> "Fwd", who |-> p])
  /\ sess' = [sess EXCEPT ![p] = "play"]
  /\ UNCHANGED <<placeVars, roster, readVars, pump, world, evacVars, server,
                 want, op, open, kicks, moves, view>>

\* readMsg fails, the connection was closed by either side or timed out: kick().
Disconnect(p) ==
  /\ sess[p] \in {"lobby", "play"}
  /\ Kick({p})
  /\ sess' = [sess EXCEPT ![p] = "over"]
  /\ UNCHANGED <<shardVars, server, want, op, moves, view>>

\* The controller's event "kick i": every listed player with this id.
KickEvent(i) ==
  /\ Kick({roster[servers[k]][i] : k \in DOMAIN servers} \ {NoPlayer})
  /\ UNCHANGED <<shardVars, server, want, op, sess, moves, view>>

-----------------------------------------------------------------------------
(* Shards *)

\* NewServer and ServerManager.Add
Connect(s) ==
  /\ life[s] = "off"
  /\ life' = [life EXCEPT ![s] = "up"]
  /\ pump' = [pump EXCEPT ![s] = TRUE]
  /\ servers' = Append(servers, s)
  /\ UNCHANGED <<area, roster, readVars, out, world, evacVars, playerVars>>

\* writePump writes the first message; the game server adds or frees an avatar.
Pump(s) ==
  LET m == Head(out[s]) IN
  /\ life[s] = "up" /\ pump[s]
  /\ out[s] # <<>>
  /\ out' = [out EXCEPT ![s] = Tail(@)]
  /\ world' = [world EXCEPT ![s] =
                 CASE m.type = "Join"  -> @ \cup {IdOf[m.who]}
                   [] m.type = "Leave" -> @ \ {IdOf[m.who]}
                   [] OTHER            -> @]
  /\ UNCHANGED <<placeVars, roster, readVars, pump, evacVars, playerVars>>

\* A write fails: writePump ends and closes the connection.
PumpFail(s) ==
  /\ s \in Breakable /\ life[s] = "up" /\ pump[s]
  /\ pump' = [pump EXCEPT ![s] = FALSE]
  /\ UNCHANGED <<placeVars, roster, readVars, out, world, evacVars,
                 playerVars>>

\* ReadServerMessage returns a message: about a player with an avatar, for
\* every player (Spawn; Target, Die, Attack), or a whisper to a user.
HandlerRead(s) ==
  /\ life[s] = "up" /\ pump[s] /\ handler[s] = AtRead
  /\ \/ \E k \in Kinds \cap {"ChangeArea", "Damage"},
           i \in world[s] \cap Subjects, a \in Areas :
          handler' = [handler EXCEPT ![s] =
                       [at |-> "msg", kind |-> k, id |-> i, to |-> a]]
     \/ \E k \in Kinds \cap {"Spawn", "Whisper"} :
          handler' = [handler EXCEPT ![s] = [at |-> k]]
  /\ UNCHANGED <<placeVars, roster, visit, wireVars, evacVars, playerVars>>

\* Mutant: ok is not looked at.
FoundAny(p, m) == [at |-> "locked", kind |-> m.kind, who |-> p, to |-> m.to]

Found(p, m) ==
  IF p = NoPlayer THEN AtRead
  ELSE [at |-> "locked", kind |-> m.kind, who |-> p, to |-> m.to]

\* s.playerLock.RLock(); p, ok := s.players[message.id]
HandlerLock(s) ==
  LET m == handler[s] IN
  /\ m.at = "msg"
  /\ CanRLock(s)
  /\ handler' = [handler EXCEPT ![s] = Found(roster[s][m.id], m)]
  /\ UNCHANGED <<placeVars, roster, visit, wireVars, evacVars, playerVars>>

\* p.lock.Lock() and the change of p; a change of area starts SM.AddPlayer(p).
HandlerApply(s) ==
  LET m == handler[s]
      p == m.who IN
  /\ m.at = "locked"
  /\ CanLockPlayer(p)
  /\ \/ /\ m.kind = "ChangeArea" /\ want[p] # m.to
        /\ want'  = [want EXCEPT ![p] = m.to]
        /\ moves' = [moves EXCEPT ![p] = More(@)]
     \/ /\ m.kind = "ChangeArea" => want[p] = m.to
        /\ UNCHANGED <<want, moves>>
  /\ handler' = [handler EXCEPT ![s] = AtRead]
  /\ UNCHANGED <<placeVars, roster, visit, wireVars, evacVars, server, op,
                 sess, open, kicks, view>>

\* s.playerLock.RLock(), p.send(message) to every player: those of K have not
\* read for so long that their out channels are full.
HandlerTell(s, K) ==
  /\ handler[s].at = "Spawn"
  /\ CanRLock(s)
  /\ Tell(Members(s), K)
  /\ handler' = [handler EXCEPT ![s] = AtRead]
  /\ UNCHANGED <<placeVars, roster, visit, wireVars, evacVars, server, want, op,
                 sess, moves, view>>

\* A whisper to a user that the shard does not list is sent back, under the
\* read lock.
HandlerWhisper(s) ==
  /\ handler[s].at = "Whisper"
  /\ CanRLock(s)
  /\ handler' = [handler EXCEPT ![s] = [at |-> "sending"]]
  /\ UNCHANGED <<placeVars, roster, visit, wireVars, evacVars, playerVars>>

HandlerSent(s) ==
  /\ handler[s].at = "sending"
  /\ Send(s, Chat)
  /\ handler' = [handler EXCEPT ![s] = AtRead]
  /\ UNCHANGED <<placeVars, roster, visit, pump, world, evacVars, playerVars>>

\* updatePlayerPacket, called every 50 ms: s.playerLock.RLock() for the range
\* over the players, p.lock.RLock() for each of them in any order.  The select of
\* update may still choose the tick when the shard is closed.
UpdateBegin(s) ==
  /\ s \in Updating /\ life[s] # "off"
  /\ visit[s] = {} /\ CanRLock(s)
  /\ visit' = [visit EXCEPT ![s] = Members(s)]
  /\ UNCHANGED <<placeVars, roster, handler, wireVars, evacVars, playerVars>>

UpdateVisit(s) ==
  /\ \E p \in visit[s] :
       CanRLockPlayer(p) /\ visit' = [visit EXCEPT ![s] = @ \ {p}]
  /\ UNCHANGED <<placeVars, roster, handler, wireVars, evacVars, playerVars>>

\* Mutant: writePump ends without closing the connection, the handler reads on.
ReadsOn(s) == s \in Breakable /\ life[s] = "up" /\ handler[s] = AtRead /\ pump[s]

ReadFails(s) == s \in Breakable /\ life[s] = "up" /\ handler[s] = AtRead

\* ReadServerMessage fails: the shard is closed, what outchan holds is lost.
HandlerFail(s) ==
  /\ ReadFails(s)
  /\ life'  = [life EXCEPT ![s] = "closed"]
  /\ pump'  = [pump EXCEPT ![s] = FALSE]
  /\ out'   = [out EXCEPT ![s] = <<>>]
  /\ world' = [world EXCEPT ![s] = {}]
  /\ UNCHANGED <<servers, area, roster, readVars, evacVars, playerVars>>

\* Remove: the shard leaves sm.server, the range over s.players begins.
Delist(s) ==
  /\ life[s] = "closed"
  /\ life' = [life EXCEPT ![s] = "evac"]
  /\ \E k \in DOMAIN servers :
       /\ servers[k] = s
       /\ servers' = SubSeq(servers, 1, k - 1)
                       \o SubSeq(servers, k + 1, Len(servers))
  /\ todo' = [todo EXCEPT ![s] = Listed(s)]
  /\ UNCHANGED <<area, roster, readVars, wireVars, evac, playerVars>>

\* The range yields a listed player.  One added since it began may be yielded.
EvacNext(s) ==
  /\ life[s] = "evac" /\ evac[s] = NoEvac
  /\ \E i \in Listed(s) :
       /\ evac' = [evac EXCEPT ![s] = [at |-> "call", who |-> roster[s][i]]]
       /\ todo' = [todo EXCEPT ![s] = @ \ {i}]
  /\ UNCHANGED <<placeVars, roster, readVars, wireVars, playerVars>>

\* p.send(ServerMessageChat{...}) after AddPlayer(p)
EvacChat(s) ==
  /\ evac[s].at = "chat"
  /\ evac' = [evac EXCEPT ![s] = NoEvac]
  /\ \E K \in SUBSET {evac[s].who} : Tell({evac[s].who}, K)
  /\ UNCHANGED <<placeVars, roster, readVars, wireVars, todo, server, want,
                 op, sess, moves, view>>

EvacEnd(s) ==
  /\ life[s] = "evac" /\ evac[s] = NoEvac /\ todo[s] = {}
  /\ life' = [life EXCEPT ![s] = "gone"]
  /\ UNCHANGED <<servers, area, roster, readVars, wireVars, evacVars,
                 playerVars>>

-----------------------------------------------------------------------------

\* The steps that take or hold a player's lock
CallStep(p) ==
  \/ BeginJoin(p) \/ BeginMove(p) \/ BeginRemove(p)
  \/ Leave(p)
  \/ \E K \in SUBSET Slow : LeaveSent(p, K)
  \/ Find(p)
  \/ Enter(p)
  \/ \E K \in SUBSET Slow : EnterSent(p, K)

SessionStep(p) ==
  Auth(p) \/ Join(p) \/ Read(p) \/ Forward(p) \/ ForwardSent(p) \/ Disconnect(p)

EvacStep(s) ==
  Delist(s) \/ EvacNext(s) \/ BeginEvac(s) \/ EvacChat(s) \/ EvacEnd(s)

ShardStep(s) ==
  \/ Connect(s) \/ Pump(s) \/ PumpFail(s)
  \/ HandlerRead(s) \/ HandlerLock(s) \/ HandlerApply(s) \/ HandlerFail(s)
  \/ \E K \in SUBSET Slow : HandlerTell(s, K)
  \/ HandlerWhisper(s) \/ HandlerSent(s)
  \/ UpdateBegin(s) \/ UpdateVisit(s)
  \/ EvacStep(s)

Next ==
  \/ \E p \in Players : CallStep(p) \/ SessionStep(p)
  \/ \E i \in Kicked : KickEvent(i)
  \/ \E s \in Shards : ShardStep(s)

Spec == Init /\ [][Next]_vars

-----------------------------------------------------------------------------
(* Safety *)

\* A listed player has the listed id and believes to be on that shard: no
\* player is on two shards, whatever moves, kicks, evacuations and logins with
\* the same id do (Player.server is only written under Player.lock).
RosterBacked ==
  \A s \in Shards, i \in Ids :
    roster[s][i] # NoPlayer => /\ IdOf[roster[s][i]] = i
                               /\ server[roster[s][i]] = s

\* No other connection has ever logged in with p's id.
Alone(p) == \A q \in Players \ {p} : IdOf[q] = IdOf[p] => sess[q] = "off"

\* A player that believes to be on a shard and is not being moved is listed
\* there, unless a second connection has logged in as the same user.
AloneIsListed ==
  \A p \in Players :
    /\ Alone(p) /\ server[p] # NoShard
    /\ op[p].at \in {"idle", "leave", "entered"}
    => roster[server[p]][IdOf[p]] = p

\* The ids whose listing on s is being changed: the map is changed, the game
\* server is not told yet.
Changing(s) == {IdOf[p] : p \in {q \in Players : Writing(q) /\ server[q] = s}}

\* What the game server will make of id i when it has read all of outchan.
IsAbout(m, i) == m.type \in {"Join", "Leave"} /\ IdOf[m.who] = i
WillHave(s, i) ==
  \/ /\ i \in world[s]
     /\ \A k \in DOMAIN out[s] : ~IsAbout(out[s][k], i)
  \/ \E k \in DOMAIN out[s] :
       /\ IsAbout(out[s][k], i) /\ out[s][k].type = "Join"
       /\ \A j \in DOMAIN out[s] : j > k => ~IsAbout(out[s][j], i)

\* The avatars of a game server, once it has read what is under way to it, are
\* those of the players its shard lists.
WorldAgrees ==
  \A s \in Shards : life[s] = "up" =>
    \A i \in Ids \ Changing(s) : WillHave(s, i) <=> i \in Listed(s)

\* What a session forwards for its player meets an avatar of that player: the
\* game server reads it after the Join and before the Leave.
ForwardMeetsAvatar ==
  \A s \in Shards : \A k \in DOMAIN out[s] :
    LET m == out[s][k] IN
    /\ m.type = "Fwd" /\ Alone(m.who)
    => \/ /\ IdOf[m.who] \in world[s]
          /\ \A j \in 1..(k-1) : ~IsAbout(out[s][j], IdOf[m.who])
       \/ \E j \in 1..(k-1) :
            /\ out[s][j] = [type |-> "Join", who |-> m.who]
            /\ \A l \in (j+1)..(k-1) : ~IsAbout(out[s][l], IdOf[m.who])

\* A listed player whose connection is open and that is not about to enter a
\* shard is shown every player of its shard.
SeesItsShard ==
  \A s \in Shards : \A p \in Members(s) :
    open[p] /\ sess[p] \notin {"adding", "inadd"} /\ op[p].at # "entered"
    => Listed(s) \ Changing(s) \subseteq view[p]

\* The call that holds p's lock waits for the map of s: a goroutine that reads
\* this map and waits for p's lock waits for ever.
Crossed(s, p) == op[p].at = "leave" /\ server[p] = s

\* A handler or an update that waits for the lock of a player is in such a
\* crossing, or waits for the player's session to get room in the same outchan:
\* it never waits for a call that is elsewhere.
WaitIsCrossing ==
  \A s \in Shards :
    /\ \A p \in visit[s] : op[p] # Idle => Crossed(s, p)
    /\ handler[s].at = "locked" =>
         LET p == handler[s].who IN
         /\ op[p] # Idle => Crossed(s, p)
         /\ sess[p] = "holding" => server[p] = s

\* The shard's map lock and a player's lock are held by two that wait for each
\* other.
Inverted(s) ==
  \E p \in Players :
    /\ Crossed(s, p)
    /\ p \in visit[s] \/ (handler[s].at = "locked" /\ handler[s].who = p)

\* writePump has ended with outchan full, and the handler, which alone would
\* notice, waits for someone who waits for room in outchan.
Jammed(s) ==
  /\ life[s] = "up" /\ ~pump[s] /\ Len(out[s]) >= OutCap
  /\ \/ handler[s].at = "sending"
     \/ handler[s].at \in {"msg", "Spawn", "Whisper"} /\ ~CanRLock(s)
     \/ handler[s].at = "locked" /\ sess[handler[s].who] = "holding"

Stuck(s) == Inverted(s) \/ Jammed(s)

\* Nothing in the server undoes either deadlock: no timeout, no end of a
\* connection, no kick.
StuckForGood == [][\A s \in Shards : Stuck(s) => Stuck(s)']_vars

\* The roster implements the directory that the shards promise.
Directory == INSTANCE ShardDirectory WITH listed <- roster
IsDirectory == Directory!Spec

\* A player whose session is over and closed, and for which no call waits or
\* runs, is on no shard: RemovePlayer has logged "kicked".
KickedMeansGone ==
  \A p \in Players :
    /\ sess[p] = "over" /\ ~open[p]
    /\ kicks[p] = 0 /\ moves[p] = 0 /\ op[p] = Idle
    /\ \A s \in Shards : evac[s].who # p
    => server[p] = NoShard

-----------------------------------------------------------------------------
(* The invariant that the proofs use, see ShardRosterProofs *)

\* A call made by Remove is the one that Remove waits for.
CallerWaits ==
  \A p \in Players :
    op[p].by \in Shards => evac[op[p].by] = [at |-> "busy", who |-> p]

\* A call that locks the map of player.server, or sends to it, has a server.
OnShards ==
  \A p \in Players : op[p].at \in {"leave", "left", "enter", "entered"} =>
    server[p] # NoShard

\* Between the two shards of a move a player is listed nowhere.
OffShards ==
  \A p \in Players : op[p].at \in {"left", "find", "enter"} =>
    \A s \in Shards, i \in Ids : roster[s][i] # p

\* Who holds the read lock of a shard keeps writers out, and the players it
\* has looked up stay listed.
ReadersHold ==
  \A s \in Shards :
    /\ handler[s].at \in {"locked", "sending"} \/ visit[s] # {} => CanRLock(s)
    /\ handler[s].at = "locked" =>
         roster[s][IdOf[handler[s].who]] = handler[s].who
    /\ \A p \in visit[s] : roster[s][IdOf[p]] = p

\* A session that holds its player's lock keeps the calls out.
SessionHolds ==
  \A p \in Players : sess[p] = "holding" => op[p] = Idle /\ server[p] # NoShard

\* Nothing happens to a connection before it has logged in.
OffIsNowhere ==
  \A p \in Players : sess[p] = "off" =>
    /\ server[p] = NoShard /\ op[p] = Idle
    /\ kicks[p] = 0 /\ moves[p] = 0
    /\ \A s \in Shards : evac[s].who # p

IInv ==
  /\ TypeOK /\ RosterBacked /\ AloneIsListed
  /\ CallerWaits /\ OnShards /\ OffShards
  /\ ReadersHold /\ SessionHolds /\ OffIsNowhere

(* The invariant about game servers and clients, see ShardRosterProofs *)

\* From the change of the map until the Join or Leave is sent, the entry is as
\* the call has left it: nobody else can lock the map.
WriterHolds ==
  \A p \in Players :
    /\ op[p].at = "left"    => roster[server[p]][IdOf[p]] = NoPlayer
    /\ op[p].at = "entered" => roster[server[p]][IdOf[p]] = p

\* A shard that has not connected has no players, and nothing is sent to it.
UnconnectedIsEmpty ==
  /\ \A k \in DOMAIN servers : life[servers[k]] # "off"
  /\ \A p \in Players, s \in Shards : server[p] = s => life[s] # "off"
  /\ \A s \in Shards : life[s] = "off" => out[s] = <<>> /\ world[s] = {}

\* What waits for a game server is about connections that have logged in.
SendersOn ==
  \A s \in Shards : \A k \in DOMAIN out[s] :
    out[s][k].who # NoPlayer => sess[out[s][k].who] # "off"

WorldInv ==
  /\ WriterHolds /\ UnconnectedIsEmpty /\ SendersOn
  /\ WorldAgrees /\ ForwardMeetsAvatar /\ SeesItsShard

-----------------------------------------------------------------------------
(* Liveness *)

\* A goroutine that can run does: one formula for the steps of each, which
\* follow one another.
SessionRuns(p) ==
  BeginJoin(p) \/ Forward(p) \/ ForwardSent(p) \/ (~open[p] /\ Disconnect(p))

CallRuns(p) ==
  \/ Leave(p) \/ Find(p) \/ Enter(p)
  \/ \E K \in SUBSET Slow : LeaveSent(p, K) \/ EnterSent(p, K)

\* The handler of a connection that a failed write has closed reads to its end.
HandlerRuns(s) ==
  \/ HandlerLock(s) \/ HandlerApply(s)
  \/ \E K \in SUBSET Slow : HandlerTell(s, K)
  \/ HandlerWhisper(s) \/ HandlerSent(s)
  \/ ~pump[s] /\ HandlerFail(s)

\* Enemies move all the time: a game server keeps sending, and a client that
\* reads no more fills its channel.
Clogs(p) == ~open[p] /\ \E s \in Shards : HandlerTell(s, {p})

Fairness ==
  /\ \A p \in Players :
       /\ WF_vars(SessionRuns(p)) /\ SF_vars(CallRuns(p))
       /\ WF_vars(BeginMove(p)) /\ WF_vars(BeginRemove(p))
  /\ \A p \in Slow : SF_vars(Clogs(p))
  /\ \A s \in Shards :
       /\ WF_vars(Pump(s)) /\ WF_vars(HandlerRuns(s)) /\ WF_vars(HandlerRead(s))
       /\ WF_vars(UpdateVisit(s)) /\ WF_vars(EvacStep(s))

FairSpec == Spec /\ Fairness

\* A call of AddPlayer by a session returns.
JoinReturns ==
  \A p \in Players : sess[p] = "adding" ~> sess[p] \in {"play", "over"}

\* ... unless a shard is in one of the two deadlocks: no other order of the
\* locks, the queues and the end of shards holds a call up for good.
JoinReturnsOrStuck ==
  \A p \in Players :
    sess[p] = "adding" ~>
      sess[p] \in {"play", "over"} \/ \E s \in Shards : Stuck(s)

\* A player that is gone does not stay listed by a shard that is up, even when
\* an evacuation lists it again after it was removed: nobody reads what its out
\* channel holds, so the channel fills and the player is kicked once more.
GoneIsUnlisted ==
  \A p \in Slow, s \in Shards :
    sess[p] = "over" /\ p \in Members(s) ~>
      life[s] # "up" \/ p \notin Members(s) \/ \E t \in Shards : Stuck(t)

\* Remove comes to its end.
EvacuationEnds ==
  \A s \in Shards :
    life[s] = "closed" ~> life[s] = "gone" \/ \E t \in Shards : Stuck(t)

=============================================================================
