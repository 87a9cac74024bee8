------------------------- MODULE ShardRosterProofs -------------------------
(***************************************************************************)
(* Proofs about ShardRoster: the lists of the shards, the locks and the    *)
(* deadlocks, and what game servers and clients are told.                  *)
(***************************************************************************)
EXTENDS ShardRoster, SequenceTheorems, WellFoundedInduction, TLAPS

\* The groups of variables that steps leave alone
USE DEF placeVars, readVars, wireVars, evacVars

-----------------------------------------------------------------------------
(* The helpers *)

\* A nonempty set of positions has a first one.
LEMMA FirstPosition ==
  ASSUME NEW T, T \subseteq Nat, T # {}
  PROVE  \E k \in T : \A j \in T : k <= j
<1> DEFINE Less == {ss \in Nat \X Nat : ss[1] < ss[2]}
<1>1. IsWellFoundedOn(Less, Nat)
  BY NatLessThanWellFounded DEF OpToRel
<1>2. \A j, k \in Nat : <<j, k>> \notin Less => k <= j
  OBVIOUS
<1>3. \E k \in T : \A j \in T : <<j, k>> \notin Less
  <2> HIDE DEF Less
  <2> QED
    BY <1>1, WFMin
<1> HIDE DEF Less
<1> QED
  BY <1>2, <1>3

\* First yields a shard of the set, or NoShard.
LEMMA FirstIsShard ==
  ASSUME servers \in Seq(Shards), NEW S
  PROVE  First(S) \in (S \cap Shards) \cup {NoShard}
<1> DEFINE T == {k \in DOMAIN servers : servers[k] \in S}
<1>1. CASE T = {}
  BY <1>1 DEF First
<1>2. CASE T # {}
  <2>1. DOMAIN servers = 1..Len(servers) /\ Len(servers) \in Nat
    BY LenProperties
  <2>2. \E k \in T : \A j \in T : k <= j
    <3>1. T \subseteq Nat
      BY <2>1
    <3> HIDE DEF T
    <3> QED
      BY <3>1, <1>2, FirstPosition
  <2>3. PICK k \in T : First(S) = servers[k]
    BY <1>2, <2>2 DEF First
  <2> QED
    BY <2>1, <2>3, ElementOfSeq
<1> QED
  BY <1>1, <1>2

\* findServer yields a shard, or NoShard.
LEMMA FindServerIsShard ==
  ASSUME servers \in Seq(Shards), NEW p
  PROVE  FindServer(p) \in Shards \cup {NoShard}
<1>1. /\ Matching(p) \in Shards \cup {NoShard}
      /\ Free \in Shards \cup {NoShard}
      /\ Spare \in Shards \cup {NoShard}
  BY FirstIsShard DEF Matching, Free, Spare
<1> QED
  BY <1>1 DEF FindServer

\* What p's op record is while a call holds p's lock.
LEMMA OpRecord ==
  ASSUME op \in [Players -> Ops \cup {Idle}], NEW p \in Players,
         op[p].at # "idle"
  PROVE  /\ op[p] \in Ops
         /\ op[p].call \in Calls /\ op[p].at \in OpPoints
         /\ op[p].by \in {"session", "go"} \cup Shards
  BY DEF Ops, Idle

\* What a handler holds at a message, and at a player it has looked up.
LEMMA HandlerRecord ==
  ASSUME handler \in [Shards -> Handlers], NEW s \in Shards
  PROVE  /\ handler[s].at = "msg" =>
              handler[s] \in [at : {"msg"}, kind : Kinds, id : Ids, to : Areas]
         /\ handler[s].at = "locked" =>
              handler[s] \in
                [at : {"locked"}, kind : Kinds, who : Players, to : Areas]
  BY DEF Handlers, AtRead

LEMMA MoreType ==
  ASSUME NEW n \in 0..MaxGo
  PROVE  /\ More(n) \in 0..MaxGo
         /\ n > 0 => n - 1 \in 0..MaxGo
  BY RosterAssumption DEF More

LEMMA SendType ==
  ASSUME out \in [Shards -> Seq(Messages)], NEW s, NEW m \in Messages,
         Send(s, m)
  PROVE  out' \in [Shards -> Seq(Messages)]
<1>1. \A q \in Seq(Messages) : Append(q, m) \in Seq(Messages)
  OBVIOUS
<1>2. [out EXCEPT ![s] = Append(@, m)] \in [Shards -> Seq(Messages)]
  BY <1>1
<1> QED
  BY <1>2 DEF Send

LEMMA KickType ==
  ASSUME open \in [Players -> BOOLEAN], kicks \in [Players -> 0..MaxGo],
         NEW K, Kick(K)
  PROVE  open' \in [Players -> BOOLEAN] /\ kicks' \in [Players -> 0..MaxGo]
<1>1. open' \in [Players -> BOOLEAN]
  BY Zenon DEF Kick
<1>2. kicks' \in [Players -> 0..MaxGo]
  BY MoreType DEF Kick
<1> QED
  BY <1>1, <1>2

LEMMA ReturnType ==
  ASSUME TypeOK, CallerWaits, NEW p \in Players, op[p].at # "idle", Return(p)
  PROVE  /\ op'   \in [Players -> Ops \cup {Idle}]
         /\ sess' \in [Players -> {"off", "lobby", "adding", "inadd", "play",
                                   "sending", "holding", "over"}]
         /\ evac' \in [Shards -> Evacs]
<1>1. op' \in [Players -> Ops \cup {Idle}]
  BY DEF TypeOK, Return, Unlock
<1>2. sess' \in [Players -> {"off", "lobby", "adding", "inadd", "play",
                             "sending", "holding", "over"}]
  BY DEF TypeOK, Return, AfterJoin
<1>3. evac' \in [Shards -> Evacs]
  <2>1. CASE op[p].by \in Shards
    <3> DEFINE s == op[p].by
    <3>1. evac[s] = [at |-> "busy", who |-> p]
      BY <2>1 DEF CallerWaits
    <3>2. [evac[s] EXCEPT !.at = "chat"] = [at |-> "chat", who |-> p]
      BY <3>1
    <3>3. [at |-> "chat", who |-> p] \in Evacs
      BY DEF Evacs
    <3> QED
      BY <2>1, <3>2, <3>3 DEF TypeOK, Return
  <2>2. CASE op[p].by \notin Shards
    BY <2>2 DEF TypeOK, Return
  <2> QED
    BY <2>1, <2>2
<1> QED
  BY <1>1, <1>2, <1>3

-----------------------------------------------------------------------------
(* Types *)

LEMMA TypeInit == Init => TypeOK
<1> SUFFICES ASSUME Init PROVE TypeOK
  OBVIOUS
<1>1. /\ servers \in Seq(Shards) /\ \A s \in Shards : out[s] \in Seq(Messages)
      /\ out \in [Shards -> Seq(Messages)]
  BY DEF Init
<1>2. evac \in [Shards -> Evacs] /\ handler \in [Shards -> Handlers]
  BY DEF Init, Evacs, NoEvac, Handlers, AtRead
<1>3. roster \in [Shards -> [Ids -> Players \cup {NoPlayer}]]
  BY DEF Init, NoEntry
<1>4. kicks \in [Players -> 0..MaxGo] /\ moves \in [Players -> 0..MaxGo]
  BY RosterAssumption DEF Init
<1> QED
  BY <1>1, <1>2, <1>3, <1>4, RosterAssumption DEF Init, TypeOK

\* Calls keep the types.
LEMMA CallType ==
  ASSUME TypeOK, CallerWaits, NEW p \in Players, CallStep(p)
  PROVE  TypeOK'
<1> USE DEF TypeOK
<1>1. ASSUME NEW call \in Calls, NEW by \in {"session", "go"} \cup Shards,
             Begin(p, call, by)
      PROVE  op' \in [Players -> Ops \cup {Idle}]
  BY <1>1 DEF Begin, FirstAt, Ops, OpPoints
<1>2. ASSUME BeginJoin(p) PROVE TypeOK'
  BY <1>1, <1>2 DEF BeginJoin, Calls, shardVars
<1>3. ASSUME BeginMove(p) PROVE TypeOK'
  <2>1. moves' \in [Players -> 0..MaxGo]
    BY <1>3, MoreType DEF BeginMove
  <2> QED
    BY <1>1, <1>3, <2>1 DEF BeginMove, Calls, shardVars
<1>4. ASSUME BeginRemove(p) PROVE TypeOK'
  <2>1. kicks' \in [Players -> 0..MaxGo]
    BY <1>4, MoreType DEF BeginRemove
  <2> QED
    BY <1>1, <1>4, <2>1 DEF BeginRemove, Calls, shardVars
<1>5. ASSUME op[p].at # "idle", NEW at \in OpPoints
      PROVE  [op EXCEPT ![p].at = at] \in [Players -> Ops \cup {Idle}]
  BY <1>5, OpRecord DEF Ops
<1>6. ASSUME Leave(p) PROVE TypeOK'
  <2>1. op' \in [Players -> Ops \cup {Idle}]
    BY <1>5, <1>6 DEF Leave, OpPoints
  <2> QED
    BY <2>1, <1>6, RosterAssumption DEF Leave, Deleted
<1>7. ASSUME NEW K \in SUBSET Slow, LeaveSent(p, K) PROVE TypeOK'
  <2>1. op[p].at # "idle"
    BY <1>7 DEF LeaveSent
  <2>2. out' \in [Shards -> Seq(Messages)]
    BY <1>7, SendType DEF LeaveSent, Messages
  <2>3. open' \in [Players -> BOOLEAN] /\ kicks' \in [Players -> 0..MaxGo]
    BY <1>7, KickType DEF LeaveSent, Tell
  <2>4. view' \in [Players -> SUBSET Ids]
    BY <1>7 DEF LeaveSent, Sees
  <2>5. server' \in [Players -> Shards \cup {NoShard}]
    BY <1>7 DEF LeaveSent, Forgotten
  <2>6. CASE op[p].call = "add"
    BY <1>5, <1>7, <2>1, <2>2, <2>3, <2>4, <2>5, <2>6 DEF LeaveSent, OpPoints
  <2>7. CASE op[p].call = "rem"
    BY <1>7, <2>1, <2>2, <2>3, <2>4, <2>5, <2>7, ReturnType DEF LeaveSent
  <2> QED
    BY <1>7, <2>6, <2>7 DEF LeaveSent
<1>8. ASSUME Find(p) PROVE TypeOK'
  <2> DEFINE s == FindServer(p)
  <2>1. op[p].at # "idle" /\ s \in Shards \cup {NoShard}
    BY <1>8, FindServerIsShard DEF Find
  <2>2. area' \in [Shards -> Areas]
    BY <1>8, <2>1 DEF Find
  <2>3. CASE s = NoShard
    <3>1. open' \in [Players -> BOOLEAN] /\ kicks' \in [Players -> 0..MaxGo]
      BY <1>8, <2>3, KickType DEF Find
    <3>2. server' \in [Players -> Shards \cup {NoShard}]
      BY <1>8, <2>3 DEF Find
    <3> QED
      BY <1>8, <2>1, <2>2, <2>3, <3>1, <3>2, ReturnType DEF Find
  <2>4. CASE s # NoShard
    <3>1. op' \in [Players -> Ops \cup {Idle}]
      BY <1>5, <1>8, <2>1, <2>4 DEF Find, OpPoints
    <3>2. server' \in [Players -> Shards \cup {NoShard}]
      BY <1>8, <2>1 DEF Find
    <3> QED
      BY <1>8, <2>2, <2>4, <3>1, <3>2 DEF Find
  <2> QED
    BY <2>3, <2>4
<1>9. ASSUME Enter(p) PROVE TypeOK'
  <2>1. op' \in [Players -> Ops \cup {Idle}]
    BY <1>5, <1>9 DEF Enter, OpPoints
  <2> QED
    BY <2>1, <1>9, RosterAssumption DEF Enter
<1>10. ASSUME NEW K \in SUBSET Slow, EnterSent(p, K) PROVE TypeOK'
  <2>1. op[p].at # "idle"
    BY <1>10 DEF EnterSent
  <2>2. out' \in [Shards -> Seq(Messages)]
    BY <1>10, SendType DEF EnterSent, Messages
  <2>3. open' \in [Players -> BOOLEAN] /\ kicks' \in [Players -> 0..MaxGo]
    BY <1>10, KickType DEF EnterSent, Tell
  <2>4. view' \in [Players -> SUBSET Ids]
    BY <1>10, RosterAssumption DEF EnterSent, Shown, Sees, Listed
  <2> QED
    BY <1>10, <2>1, <2>2, <2>3, <2>4, ReturnType DEF EnterSent
<1> QED
  BY <1>2, <1>3, <1>4, <1>6, <1>7, <1>8, <1>9, <1>10 DEF CallStep

\* Sessions and the events of the controller keep the types.
LEMMA SessionType ==
  ASSUME TypeOK, NEW p \in Players, SessionStep(p)
  PROVE  TypeOK'
<1> USE DEF TypeOK
<1>1. ASSUME Auth(p) PROVE TypeOK'
  BY <1>1 DEF Auth, shardVars
<1>2. ASSUME Join(p) PROVE TypeOK'
  BY <1>2, KickType DEF Join, Tell, shardVars
<1>3. ASSUME Read(p) PROVE TypeOK'
  BY <1>3 DEF Read, shardVars
<1>4. ASSUME Forward(p) PROVE TypeOK'
  BY <1>4 DEF Forward, shardVars
<1>6. ASSUME ForwardSent(p) PROVE TypeOK'
  <2>1. out' \in [Shards -> Seq(Messages)]
    BY <1>6, SendType DEF ForwardSent, Messages
  <2> QED
    BY <1>6, <2>1 DEF ForwardSent
<1>5. ASSUME Disconnect(p) PROVE TypeOK'
  BY <1>5, KickType DEF Disconnect, shardVars
<1> QED
  BY <1>1, <1>2, <1>3, <1>4, <1>5, <1>6 DEF SessionStep

\* Shards and their evacuation keep the types.
LEMMA ShardType ==
  ASSUME TypeOK, CallerWaits, NEW s \in Shards, ShardStep(s)
  PROVE  TypeOK'
<1> USE DEF TypeOK
<1>1. ASSUME Connect(s) PROVE TypeOK'
  BY <1>1 DEF Connect, playerVars
<1>2. ASSUME Pump(s) PROVE TypeOK'
  <2>1. Head(out[s]) \in Messages /\ Tail(out[s]) \in Seq(Messages)
    BY <1>2, HeadTailProperties DEF Pump
  <2>2. Head(out[s]).type \in {"Join", "Leave"} => IdOf[Head(out[s]).who] \in Ids
    BY <2>1, RosterAssumption DEF Messages, Chat
  <2>3. world' \in [Shards -> SUBSET Ids]
    BY <1>2, <2>1, <2>2 DEF Pump, Messages
  <2> QED
    BY <1>2, <2>1, <2>3 DEF Pump, playerVars
<1>3. ASSUME PumpFail(s) PROVE TypeOK'
  BY <1>3 DEF PumpFail, playerVars
<1>18. \A a \in {"read", "Spawn", "Whisper", "sending"} : [at |-> a] \in Handlers
  BY DEF Handlers
<1>4. ASSUME HandlerRead(s) PROVE TypeOK'
  <2>1. ASSUME NEW k \in Kinds, NEW i \in Ids, NEW a \in Areas
        PROVE  [at |-> "msg", kind |-> k, id |-> i, to |-> a] \in Handlers
    BY DEF Handlers
  <2>2. PICK h \in Handlers : handler' = [handler EXCEPT ![s] = h]
    BY <1>4, <1>18, <2>1, RosterAssumption DEF HandlerRead
  <2> QED
    BY <1>4, <2>2 DEF HandlerRead, playerVars
<1>5. ASSUME HandlerLock(s) PROVE TypeOK'
  <2>1. handler[s] \in [at : {"msg"}, kind : Kinds, id : Ids, to : Areas]
    BY <1>5, HandlerRecord DEF HandlerLock
  <2>2. Found(roster[s][handler[s].id], handler[s]) \in Handlers
    <3>1. roster[s][handler[s].id] \in Players \cup {NoPlayer}
      BY <2>1
    <3>2. ASSUME NEW q \in Players
          PROVE  [at |-> "locked", kind |-> handler[s].kind, who |-> q,
                  to |-> handler[s].to] \in Handlers
      BY <2>1 DEF Handlers
    <3> QED
      BY <1>18, <3>1, <3>2 DEF Found, AtRead
  <2> QED
    BY <1>5, <2>2 DEF HandlerLock, playerVars
<1>6. ASSUME HandlerApply(s) PROVE TypeOK'
  <2>1. handler[s] \in [at : {"locked"}, kind : Kinds, who : Players, to : Areas]
    BY <1>6, HandlerRecord DEF HandlerApply
  <2>2. moves' \in [Players -> 0..MaxGo]
    <3>1. More(moves[handler[s].who]) \in 0..MaxGo
      BY <2>1, MoreType
    <3> QED
      BY <1>6, <2>1, <3>1 DEF HandlerApply
  <2>3. want' \in [Players -> Areas]
    BY <1>6, <2>1 DEF HandlerApply
  <2> QED
    BY <1>6, <1>18, <2>2, <2>3 DEF HandlerApply, AtRead
<1>7. ASSUME HandlerFail(s) PROVE TypeOK'
  <2>1. <<>> \in Seq(Messages)
    BY EmptySeq
  <2> QED
    BY <1>7, <2>1 DEF HandlerFail, playerVars
<1>8. ASSUME NEW K, HandlerTell(s, K) PROVE TypeOK'
  BY <1>8, <1>18, KickType DEF HandlerTell, Tell, AtRead
<1>14. ASSUME HandlerWhisper(s) PROVE TypeOK'
  BY <1>14, <1>18 DEF HandlerWhisper, playerVars
<1>15. ASSUME HandlerSent(s) PROVE TypeOK'
  <2>1. out' \in [Shards -> Seq(Messages)]
    BY <1>15, SendType DEF HandlerSent, Messages
  <2> QED
    BY <1>15, <1>18, <2>1 DEF HandlerSent, AtRead, playerVars
<1>16. ASSUME UpdateBegin(s) PROVE TypeOK'
  <2>1. Members(s) \in SUBSET Players
    BY DEF Members, Listed
  <2> QED
    BY <1>16, <2>1 DEF UpdateBegin, playerVars
<1>17. ASSUME UpdateVisit(s) PROVE TypeOK'
  BY <1>17 DEF UpdateVisit, playerVars
<1>9. ASSUME Delist(s) PROVE TypeOK'
  <2>1. servers' \in Seq(Shards)
    <3>1. PICK k \in DOMAIN servers : servers' =
             SubSeq(servers, 1, k - 1) \o SubSeq(servers, k + 1, Len(servers))
      BY <1>9 DEF Delist
    <3>2. /\ Len(servers) \in Nat /\ k \in 1..Len(servers)
          /\ \A i \in 1..Len(servers) : servers[i] \in Shards
      BY LenProperties, ElementOfSeq
    <3>3. SubSeq(servers, 1, k - 1) \in Seq(Shards)
      BY <3>2, SubSeqProperties
    <3>4. SubSeq(servers, k + 1, Len(servers)) \in Seq(Shards)
      BY <3>2, SubSeqProperties
    <3> QED
      BY <3>1, <3>3, <3>4, ConcatProperties
  <2> QED
    BY <1>9, <2>1 DEF Delist, Listed, playerVars
<1>10. ASSUME EvacNext(s) PROVE TypeOK'
  <2>1. evac' \in [Shards -> Evacs]
    BY <1>10 DEF EvacNext, Listed, Evacs
  <2> QED
    BY <1>10, <2>1 DEF EvacNext, playerVars
<1>11. ASSUME BeginEvac(s) PROVE TypeOK'
  <2>1. evac[s] \in [at : {"call", "busy", "chat"}, who : Players]
    BY <1>11 DEF BeginEvac, Evacs, NoEvac
  <2>2. evac' \in [Shards -> Evacs]
    BY <1>11, <2>1 DEF BeginEvac, Evacs
  <2>3. op' \in [Players -> Ops \cup {Idle}]
    BY <1>11, <2>1 DEF BeginEvac, Begin, FirstAt, Ops, OpPoints, Calls
  <2> QED
    BY <1>11, <2>2, <2>3 DEF BeginEvac
<1>12. ASSUME EvacChat(s) PROVE TypeOK'
  <2>1. evac' \in [Shards -> Evacs]
    BY <1>12 DEF EvacChat, Evacs
  <2> QED
    BY <1>12, <2>1, KickType DEF EvacChat, Tell
<1>13. ASSUME EvacEnd(s) PROVE TypeOK'
  BY <1>13 DEF EvacEnd, playerVars
<1> QED
  BY <1>1, <1>2, <1>3, <1>4, <1>5, <1>6, <1>7, <1>8, <1>9, <1>10, <1>11,
     <1>12, <1>13, <1>14, <1>15, <1>16, <1>17 DEF ShardStep, EvacStep

LEMMA TypeStep ==
  ASSUME TypeOK, CallerWaits, [Next]_vars
  PROVE  TypeOK'
<1>1. ASSUME NEW i \in Kicked, KickEvent(i) PROVE TypeOK'
  BY <1>1, KickType DEF KickEvent, TypeOK, shardVars
<1>2. CASE UNCHANGED vars
  BY <1>2 DEF TypeOK, vars, shardVars, playerVars
<1> QED
  BY <1>1, <1>2, CallType, SessionType, ShardType DEF Next

-----------------------------------------------------------------------------
(* What the steps leave alone *)

LEMMA SessionFrame ==
  ASSUME NEW p \in Players, SessionStep(p)
  PROVE  UNCHANGED <<roster, server, op, readVars, evac, moves>>
  BY DEF SessionStep, Auth, Join, Read, Forward, ForwardSent, Disconnect,
         shardVars

LEMMA KickEventFrame ==
  ASSUME NEW i \in Kicked, KickEvent(i)
  PROVE  UNCHANGED <<roster, server, op, readVars, evac, moves, sess>>
  BY DEF KickEvent, shardVars

LEMMA ShardFrame ==
  ASSUME NEW s \in Shards, ShardStep(s)
  PROVE  /\ UNCHANGED <<roster, server, sess>>
         /\ BeginEvac(s) \/ UNCHANGED op
  BY DEF ShardStep, EvacStep, Connect, Pump, PumpFail, HandlerRead,
         HandlerLock, HandlerApply, HandlerTell, HandlerWhisper, HandlerSent,
         HandlerFail, UpdateBegin, UpdateVisit, Delist, EvacNext, BeginEvac,
         EvacChat, EvacEnd, shardVars, playerVars

\* A listed player is on a shard and has logged in.
LEMMA ListedIsOn ==
  ASSUME TypeOK, RosterBacked, OffIsNowhere,
         NEW s \in Shards, NEW i \in Ids, roster[s][i] # NoPlayer
  PROVE  /\ roster[s][i] \in Players
         /\ server[roster[s][i]] = s /\ s # NoShard
         /\ IdOf[roster[s][i]] = i
         /\ sess[roster[s][i]] # "off"
  BY RosterAssumption DEF TypeOK, RosterBacked, OffIsNowhere

-----------------------------------------------------------------------------
(* The roster *)

LEMMA BackedStep ==
  ASSUME IInv, Next
  PROVE  RosterBacked'
<1> USE DEF IInv
<1>1. ASSUME UNCHANGED <<roster, server>> PROVE RosterBacked'
  BY <1>1 DEF RosterBacked
<1>2. ASSUME NEW p \in Players, CallStep(p) PROVE RosterBacked'
  <2>1. CASE Leave(p)
    BY <2>1 DEF Leave, Deleted, RosterBacked, TypeOK
  <2>2. ASSUME op[p].at \in {"left", "find"}, UNCHANGED roster,
               NEW s, server' = [server EXCEPT ![p] = s]
        PROVE  RosterBacked'
    BY <2>2 DEF OffShards, RosterBacked, TypeOK
  <2>3. ASSUME NEW K \in SUBSET Slow, LeaveSent(p, K) PROVE RosterBacked'
    BY <1>1, <2>2, <2>3 DEF LeaveSent, Forgotten
  <2>4. CASE Find(p)
    BY <2>2, <2>4 DEF Find
  <2>5. CASE Enter(p)
    BY <2>5, RosterAssumption DEF Enter, RosterBacked, TypeOK
  <2>6. ASSUME NEW K \in SUBSET Slow, EnterSent(p, K) PROVE RosterBacked'
    BY <1>1, <2>6 DEF EnterSent
  <2>7. CASE BeginJoin(p) \/ BeginMove(p) \/ BeginRemove(p)
    BY <1>1, <2>7 DEF BeginJoin, BeginMove, BeginRemove, shardVars
  <2> QED
    BY <1>2, <2>1, <2>3, <2>4, <2>5, <2>6, <2>7 DEF CallStep
<1> QED
  BY <1>1, <1>2, SessionFrame, KickEventFrame, ShardFrame DEF Next

LEMMA OnShardsStep ==
  ASSUME IInv, Next
  PROVE  OnShards'
<1> USE DEF IInv
<1>1. ASSUME NEW p \in Players, NEW call, NEW by, Begin(p, call, by),
             UNCHANGED server
      PROVE  OnShards'
  BY <1>1 DEF Begin, FirstAt, OnShards, TypeOK
<1>2. ASSUME NEW p \in Players, CallStep(p) PROVE OnShards'
  <2>1. CASE BeginJoin(p) \/ BeginMove(p) \/ BeginRemove(p)
    BY <1>1, <2>1 DEF BeginJoin, BeginMove, BeginRemove
  <2>2. ASSUME op[p].at \in {"leave", "enter"}, UNCHANGED server,
               NEW r, op' = [op EXCEPT ![p] = r]
        PROVE  OnShards'
    BY <2>2 DEF OnShards, TypeOK
  <2>3. CASE Leave(p) \/ Enter(p)
    BY <2>2, <2>3 DEF Leave, Enter
  <2>4. ASSUME op'[p].at \in {"idle", "find"},
               \A q \in Players \ {p} : op'[q] = op[q] /\ server'[q] = server[q]
        PROVE  OnShards'
    BY <2>4 DEF OnShards, TypeOK
  <2>5. ASSUME op[p].at # "idle", Return(p),
               \A q \in Players : q # p => server'[q] = server[q]
        PROVE  OnShards'
    BY <2>4, <2>5 DEF Return, Unlock, Idle, TypeOK
  <2>6. ASSUME NEW K \in SUBSET Slow, LeaveSent(p, K) PROVE OnShards'
    <3>1. \A q \in Players : q # p => server'[q] = server[q]
      BY <2>6 DEF LeaveSent, Forgotten, TypeOK
    <3>2. CASE op[p].call = "add"
      <4>1. [op[p] EXCEPT !.at = "find"].at = "find"
        BY <2>6, OpRecord DEF LeaveSent, TypeOK, Ops
      <4>2. op'[p].at = "find"
        BY <2>6, <3>2, <4>1 DEF LeaveSent, TypeOK
      <4> QED
        BY <2>4, <2>6, <3>1, <3>2, <4>2 DEF LeaveSent, TypeOK
    <3>3. CASE op[p].call = "rem"
      BY <2>5, <2>6, <3>1, <3>3 DEF LeaveSent
    <3> QED
      BY <2>6, <3>2, <3>3 DEF LeaveSent
  <2>7. CASE Find(p)
    <3>1. \A q \in Players : q # p => server'[q] = server[q]
      BY <2>7 DEF Find, TypeOK
    <3>2. CASE FindServer(p) = NoShard
      BY <2>5, <2>7, <3>1, <3>2 DEF Find
    <3>3. CASE FindServer(p) # NoShard
      <4>1. server'[p] # NoShard
        BY <2>7, <3>3 DEF Find, TypeOK
      <4>2. \A q \in Players : q # p => op'[q] = op[q]
        BY <2>7, <3>3 DEF Find, TypeOK
      <4> QED
        BY <3>1, <4>1, <4>2 DEF OnShards
    <3> QED
      BY <3>2, <3>3
  <2>8. ASSUME NEW K \in SUBSET Slow, EnterSent(p, K) PROVE OnShards'
    BY <2>5, <2>8 DEF EnterSent
  <2> QED
    BY <1>2, <2>1, <2>3, <2>6, <2>7, <2>8 DEF CallStep
<1>3. ASSUME NEW s \in Shards, BeginEvac(s) PROVE OnShards'
  <2>1. evac[s].who \in Players
    BY <1>3 DEF BeginEvac, TypeOK, Evacs, NoEvac
  <2> QED
    BY <1>1, <1>3, <2>1 DEF BeginEvac
<1>4. CASE UNCHANGED <<server, op>>
  BY <1>4 DEF OnShards
<1> QED
  BY <1>2, <1>3, <1>4, SessionFrame, KickEventFrame, ShardFrame DEF Next

LEMMA OffShardsStep ==
  ASSUME IInv, Next
  PROVE  OffShards'
<1> USE DEF IInv
<1>1. ASSUME UNCHANGED <<roster, op>> PROVE OffShards'
  BY <1>1 DEF OffShards
<1>2. ASSUME NEW p \in Players, NEW call, NEW by, Begin(p, call, by),
             UNCHANGED roster
      PROVE  OffShards'
  <2>1. CASE server[p] # NoShard
    BY <1>2, <2>1 DEF Begin, FirstAt, OffShards, TypeOK
  <2>2. CASE server[p] = NoShard
    <3>1. \A s \in Shards, i \in Ids : roster[s][i] # p
      BY <1>2, <2>2, RosterAssumption DEF RosterBacked
    <3>2. \A q \in Players : q # p => op'[q] = op[q]
      BY <1>2 DEF Begin, TypeOK
    <3> QED
      BY <1>2, <3>1, <3>2 DEF OffShards
  <2> QED
    BY <2>1, <2>2
<1>3. ASSUME NEW p \in Players, CallStep(p) PROVE OffShards'
  <2>1. CASE BeginJoin(p) \/ BeginMove(p) \/ BeginRemove(p)
    BY <1>2, <2>1 DEF BeginJoin, BeginMove, BeginRemove, shardVars
  <2>2. CASE Leave(p)
    BY <2>2, RosterAssumption
       DEF Leave, Deleted, OffShards, RosterBacked, TypeOK
  <2>3. ASSUME op[p].at \in {"left", "find"}, UNCHANGED roster,
               NEW r, op' = [op EXCEPT ![p] = r]
        PROVE  OffShards'
    BY <2>3 DEF OffShards, TypeOK
  <2>4. ASSUME NEW K \in SUBSET Slow, LeaveSent(p, K) PROVE OffShards'
    BY <2>3, <2>4 DEF LeaveSent, Return, Unlock
  <2>5. CASE Find(p)
    BY <2>3, <2>5 DEF Find, Return, Unlock
  <2>6. CASE Enter(p)
    BY <2>6, OpRecord DEF Enter, OffShards, TypeOK, Ops
  <2>7. ASSUME NEW K \in SUBSET Slow, EnterSent(p, K) PROVE OffShards'
    BY <2>7 DEF EnterSent, Return, Unlock, OffShards, TypeOK, Idle
  <2> QED
    BY <1>3, <2>1, <2>2, <2>4, <2>5, <2>6, <2>7 DEF CallStep
<1>4. ASSUME NEW s \in Shards, BeginEvac(s) PROVE OffShards'
  <2>1. evac[s].who \in Players
    BY <1>4 DEF BeginEvac, TypeOK, Evacs, NoEvac
  <2> QED
    BY <1>2, <1>4, <2>1 DEF BeginEvac
<1> QED
  BY <1>1, <1>3, <1>4, SessionFrame, KickEventFrame, ShardFrame DEF Next

-----------------------------------------------------------------------------
(* Who waits for whom *)

\* What a call's return does to the other calls.
LEMMA ReturnFrame ==
  ASSUME TypeOK, NEW p \in Players, op[p].at # "idle", Return(p)
  PROVE  /\ op' = [op EXCEPT ![p] = Idle]
         /\ \A s \in Shards : /\ evac'[s].who = evac[s].who
                              /\ s # op[p].by => evac'[s] = evac[s]
<1>1. \A s \in Shards : evac'[s].who = evac[s].who
  BY DEF Return, TypeOK, Evacs, NoEvac
<1> QED
  BY <1>1 DEF Return, Unlock, TypeOK

\* The evacuation that made a call is at that call.
LEMMA CallerIs ==
  ASSUME CallerWaits, NEW q \in Players, op[q].by \in Shards
  PROVE  evac[op[q].by].at = "busy" /\ evac[op[q].by].who = q
<1>1. evac[op[q].by] = [at |-> "busy", who |-> q]
  BY DEF CallerWaits
<1> QED
  BY <1>1

LEMMA CallerWaitsStep ==
  ASSUME IInv, Next
  PROVE  CallerWaits'
<1> USE DEF IInv
<1>1. ASSUME UNCHANGED evac,
             \A q \in Players : op'[q].by \in Shards => op'[q].by = op[q].by
      PROVE  CallerWaits'
  BY <1>1 DEF CallerWaits
<1>2. ASSUME NEW p \in Players, NEW call,
             NEW by \in {"session", "go"}, Begin(p, call, by)
      PROVE  \A q \in Players : op'[q].by \in Shards => op'[q].by = op[q].by
  BY <1>2, RosterAssumption DEF Begin, TypeOK
<1>3. ASSUME NEW p \in Players, op[p].at # "idle", Return(p)
      PROVE  CallerWaits'
  <2>1. "go" \notin Shards /\ Idle.by = "go"
    BY RosterAssumption DEF Idle
  <2>2. SUFFICES ASSUME NEW q \in Players, op'[q].by \in Shards
                 PROVE  evac'[op'[q].by] = [at |-> "busy", who |-> q]
    BY DEF CallerWaits
  <2>3. q # p /\ op'[q] = op[q]
    BY <1>3, <2>1, <2>2, ReturnFrame DEF TypeOK
  <2>4. evac[op[q].by] = [at |-> "busy", who |-> q]
    BY <2>2, <2>3 DEF CallerWaits
  <2>5. op[q].by # op[p].by
    BY <2>2, <2>3, CallerIs
  <2> QED
    BY <1>3, <2>2, <2>3, <2>4, <2>5, ReturnFrame
<1>4. ASSUME NEW p \in Players, CallStep(p) PROVE CallerWaits'
  <2>1. CASE BeginJoin(p) \/ BeginMove(p) \/ BeginRemove(p)
    BY <1>1, <1>2, <2>1 DEF BeginJoin, BeginMove, BeginRemove, shardVars
  <2>0. ASSUME op[p].at # "idle", NEW at, op' = [op EXCEPT ![p].at = at],
               UNCHANGED evac
        PROVE  CallerWaits'
    BY <1>1, <2>0, OpRecord DEF TypeOK, Ops
  <2>2. CASE Leave(p)
    BY <2>0, <2>2 DEF Leave
  <2>3. ASSUME NEW K \in SUBSET Slow, LeaveSent(p, K) PROVE CallerWaits'
    BY <1>3, <2>0, <2>3 DEF LeaveSent
  <2>4. CASE Find(p)
    BY <1>3, <2>0, <2>4 DEF Find
  <2>5. CASE Enter(p)
    BY <2>0, <2>5 DEF Enter
  <2>6. ASSUME NEW K \in SUBSET Slow, EnterSent(p, K) PROVE CallerWaits'
    BY <1>3, <2>6 DEF EnterSent
  <2> QED
    BY <1>4, <2>1, <2>2, <2>3, <2>4, <2>5, <2>6 DEF CallStep
<1>5. ASSUME NEW s \in Shards, ShardStep(s) PROVE CallerWaits'
  <2>1. CASE BeginEvac(s)
    <3> DEFINE p == evac[s].who
    <3>1. p \in Players
      BY <2>1 DEF BeginEvac, TypeOK, Evacs, NoEvac
    <3>2. op' = [op EXCEPT ![p] =
                  [call |-> "add", at |-> FirstAt(p, "add"), by |-> s]]
      BY <2>1 DEF BeginEvac, Begin, FirstAt
    <3>3. evac'[s] = [at |-> "busy", who |-> p]
      <4>1. evac[s] \in [at : {"call", "busy", "chat"}, who : Players]
        BY <2>1 DEF BeginEvac, TypeOK, Evacs, NoEvac
      <4> QED
        BY <2>1, <4>1 DEF BeginEvac, TypeOK
    <3>4. \A q \in Players : op[q].by # s
      BY <2>1, CallerIs DEF BeginEvac
    <3>5. \A t \in Shards : t # s => evac'[t] = evac[t]
      BY <2>1 DEF BeginEvac, TypeOK
    <3> HIDE DEF p
    <3> QED
      BY <3>1, <3>2, <3>3, <3>4, <3>5 DEF CallerWaits, TypeOK
  <2>2. CASE EvacNext(s) \/ EvacChat(s)
    <3>1. \A q \in Players : op[q].by # s
      BY <2>2, CallerIs DEF EvacNext, EvacChat, NoEvac
    <3>2. \A t \in Shards : t # s => evac'[t] = evac[t]
      BY <2>2 DEF EvacNext, EvacChat, TypeOK
    <3>3. UNCHANGED op
      BY <2>2 DEF EvacNext, EvacChat, playerVars
    <3> QED
      BY <3>1, <3>2, <3>3 DEF CallerWaits
  <2>3. CASE UNCHANGED <<op, evac>>
    BY <1>1, <2>3
  <2> QED
    BY <1>5, <2>1, <2>2, <2>3
       DEF ShardStep, EvacStep, Connect, Pump, PumpFail, HandlerRead,
           HandlerLock, HandlerApply, HandlerTell, HandlerWhisper,
           HandlerSent, HandlerFail, UpdateBegin, UpdateVisit, Delist, EvacEnd,
           shardVars, playerVars
<1> QED
  BY <1>1, <1>4, <1>5, SessionFrame, KickEventFrame DEF Next

\* Who reads the map of a shard keeps its lock, and writers stay out.
LEMMA ReadersHoldStep ==
  ASSUME IInv, Next
  PROVE  ReadersHold'
<1> USE DEF IInv
<1> DEFINE Reads(s) == handler[s].at \in {"locked", "sending"} \/ visit[s] # {}
           Holds(s) == /\ Reads(s) => CanRLock(s)
                       /\ handler[s].at = "locked" =>
                            roster[s][IdOf[handler[s].who]] = handler[s].who
                       /\ \A p \in visit[s] : roster[s][IdOf[p]] = p
\* A step that lets no writer in and changes no map that is read disturbs no
\* reader.
<1>1. ASSUME NEW s \in Shards,
             handler'[s] = handler[s] \/ handler'[s].at \notin {"locked", "sending"},
             visit'[s] \subseteq visit[s],
             Reads(s) =>
               /\ roster'[s] = roster[s]
               /\ \A q \in Players :
                    Writing(q)' /\ server'[q] = s => Writing(q) /\ server[q] = s
      PROVE  Holds(s)'
  BY <1>1 DEF ReadersHold, CanRLock
<1>2. ASSUME UNCHANGED <<readVars, roster>>,
             \A q \in Players : Writing(q)' => Writing(q) /\ server'[q] = server[q]
      PROVE  ReadersHold'
  BY <1>1, <1>2 DEF ReadersHold
<1>3. ASSUME NEW p \in Players, NEW call, NEW by, Begin(p, call, by)
      PROVE  \A q \in Players : Writing(q)' => Writing(q)
  BY <1>3 DEF Begin, FirstAt, Writing, TypeOK
<1>4. ASSUME NEW p \in Players, CallStep(p) PROVE ReadersHold'
  <2>1. CASE BeginJoin(p) \/ BeginMove(p) \/ BeginRemove(p)
    BY <1>2, <1>3, <2>1 DEF BeginJoin, BeginMove, BeginRemove, shardVars
  <2>2. ASSUME CanLock(server[p]), NEW r, op' = [op EXCEPT ![p] = r],
               NEW f, roster' = [roster EXCEPT ![server[p]] = f],
               UNCHANGED <<readVars, server>>
        PROVE  ReadersHold'
    <3>1. ASSUME NEW s \in Shards, Reads(s)
          PROVE  s # server[p] /\ roster'[s] = roster[s]
      BY <2>2, <3>1 DEF CanLock, TypeOK
    <3>2. ASSUME NEW s \in Shards, Reads(s), NEW q \in Players,
                 Writing(q)', server'[q] = s
          PROVE  Writing(q) /\ server[q] = s
      BY <2>2, <3>1, <3>2 DEF Writing, TypeOK
    <3> QED
      BY <1>1, <2>2, <3>1, <3>2 DEF ReadersHold
  <2>3. CASE Leave(p)
    BY <2>2, <2>3 DEF Leave, Deleted
  <2>4. CASE Enter(p)
    BY <2>2, <2>4 DEF Enter
  <2>5. ASSUME NEW r, r.at \notin {"left", "entered"},
               op' = [op EXCEPT ![p] = r], UNCHANGED <<readVars, roster>>,
               \A q \in Players : q # p => server'[q] = server[q]
        PROVE  ReadersHold'
    <3>1. \A q \in Players : Writing(q)' => Writing(q) /\ server'[q] = server[q]
      BY <2>5 DEF Writing, TypeOK
    <3> QED
      BY <1>2, <2>5, <3>1
  <2>6. ASSUME op[p].at # "idle", Return(p), UNCHANGED <<readVars, roster>>,
               \A q \in Players : q # p => server'[q] = server[q]
        PROVE  ReadersHold'
    BY <2>5, <2>6, ReturnFrame DEF Idle
  <2>7. ASSUME NEW K \in SUBSET Slow, LeaveSent(p, K)
        PROVE  ReadersHold'
    <3>1. \A q \in Players : q # p => server'[q] = server[q]
      BY <2>7 DEF LeaveSent, Forgotten, TypeOK
    <3>2. CASE op[p].call = "add"
      <4>1. [op[p] EXCEPT !.at = "find"].at = "find"
        BY <2>7, OpRecord DEF LeaveSent, TypeOK, Ops
      <4> QED
        BY <2>5, <2>7, <3>1, <3>2, <4>1 DEF LeaveSent
    <3>3. CASE op[p].call = "rem"
      BY <2>6, <2>7, <3>1, <3>3 DEF LeaveSent
    <3> QED
      BY <2>7, <3>2, <3>3 DEF LeaveSent
  <2>8. CASE Find(p)
    <3>1. \A q \in Players : q # p => server'[q] = server[q]
      BY <2>8 DEF Find, TypeOK
    <3>2. [op[p] EXCEPT !.at = "enter"].at = "enter"
      BY <2>8, OpRecord DEF Find, TypeOK, Ops
    <3> QED
      BY <2>5, <2>6, <2>8, <3>1, <3>2 DEF Find
  <2>9. ASSUME NEW K \in SUBSET Slow, EnterSent(p, K)
        PROVE  ReadersHold'
    BY <2>6, <2>9 DEF EnterSent
  <2> QED
    BY <1>4, <2>1, <2>3, <2>4, <2>7, <2>8, <2>9 DEF CallStep
<1>5. ASSUME NEW t \in Shards, ShardStep(t), NEW s \in Shards PROVE Holds(s)'
  <2>1. UNCHANGED <<roster, server>>
    BY <1>5, ShardFrame
  <2>2. \A q \in Players : Writing(q)' => Writing(q)
    <3>1. CASE BeginEvac(t)
      <4>1. evac[t].who \in Players
        BY <3>1 DEF BeginEvac, TypeOK, Evacs, NoEvac
      <4> QED
        BY <1>3, <3>1, <4>1 DEF BeginEvac
    <3>2. CASE UNCHANGED op
      BY <3>2 DEF Writing
    <3> QED
      BY <1>5, <3>1, <3>2, ShardFrame
  <2>3. CanRLock(s) => CanRLock(s)'
    BY <2>1, <2>2 DEF CanRLock
  <2>4. CASE UNCHANGED readVars
    BY <1>1, <2>1, <2>2, <2>4
  <2>5. ASSUME NEW h, h.at \notin {"locked", "sending"},
               handler' = [handler EXCEPT ![t] = h], UNCHANGED visit
        PROVE  Holds(s)'
    BY <1>1, <2>1, <2>2, <2>5 DEF TypeOK
  <2>6. CASE HandlerRead(t)
    BY <2>5, <2>6 DEF HandlerRead
  <2>7. CASE HandlerApply(t)
    BY <2>5, <2>7 DEF HandlerApply, AtRead
  <2>8. ASSUME NEW K \in SUBSET Slow, HandlerTell(t, K) PROVE Holds(s)'
    BY <2>5, <2>8 DEF HandlerTell, AtRead
  <2>9. CASE HandlerSent(t)
    BY <2>5, <2>9 DEF HandlerSent, AtRead
  <2>10. CASE HandlerLock(t)
    <3> DEFINE m == handler[t]
               p == roster[t][m.id]
    <3>1. m.id \in Ids
      BY <2>10, HandlerRecord DEF HandlerLock, TypeOK
    <3>2. CASE p = NoPlayer
      BY <2>5, <2>10, <3>2 DEF HandlerLock, Found, AtRead
    <3>3. CASE p # NoPlayer
      <4>1. handler' = [handler EXCEPT ![t] =
                [at |-> "locked", kind |-> m.kind, who |-> p, to |-> m.to]]
        BY <2>10, <3>3 DEF HandlerLock, Found
      <4>2. IdOf[p] = m.id
        BY <3>1, <3>3 DEF RosterBacked
      <4>3. CASE s = t
        <5>1. handler'[s].who = p
          BY <4>1, <4>3 DEF TypeOK
        <5> QED
          BY <2>1, <2>3, <2>10, <4>2, <4>3, <5>1
             DEF HandlerLock, ReadersHold
      <4>4. CASE s # t
        BY <1>1, <2>1, <2>2, <2>10, <4>1, <4>4 DEF HandlerLock, TypeOK
      <4> QED
        BY <4>3, <4>4
    <3> QED
      BY <3>2, <3>3
  <2>11. CASE HandlerWhisper(t)
    <3>1. CASE s = t
      <4>1. handler'[s].at = "sending" /\ visit' = visit
        BY <2>11, <3>1 DEF HandlerWhisper, TypeOK
      <4> QED
        BY <2>1, <2>3, <2>11, <3>1, <4>1 DEF HandlerWhisper, ReadersHold
    <3>2. CASE s # t
      BY <1>1, <2>1, <2>2, <2>11, <3>2 DEF HandlerWhisper, TypeOK
    <3> QED
      BY <3>1, <3>2
  <2>12. CASE UpdateBegin(t)
    <3>1. CASE s = t
      <4>1. visit'[s] = Members(s) /\ handler' = handler
        BY <2>12, <3>1 DEF UpdateBegin, TypeOK
      <4>2. \A p \in Members(s) : roster[s][IdOf[p]] = p
        BY DEF Members, Listed, RosterBacked
      <4> QED
        BY <2>1, <2>3, <2>12, <3>1, <4>1, <4>2 DEF UpdateBegin, ReadersHold
    <3>2. CASE s # t
      BY <1>1, <2>1, <2>2, <2>12, <3>2 DEF UpdateBegin, TypeOK
    <3> QED
      BY <3>1, <3>2
  <2>13. CASE UpdateVisit(t)
    <3>1. handler' = handler /\ visit'[s] \subseteq visit[s]
      BY <2>13 DEF UpdateVisit, TypeOK
    <3> QED
      BY <1>1, <2>1, <2>2, <3>1
  <2> QED
    BY <1>5, <2>4, <2>6, <2>7, <2>8, <2>9, <2>10, <2>11, <2>12, <2>13
       DEF ShardStep, EvacStep, Connect, Pump, PumpFail, HandlerFail, Delist,
           EvacNext, BeginEvac, EvacChat, EvacEnd, shardVars
<1>6. CASE UNCHANGED <<roster, server, op, readVars>>
  BY <1>2, <1>6 DEF Writing
<1>7. ASSUME NEW t \in Shards, ShardStep(t) PROVE ReadersHold'
  BY <1>5, <1>7 DEF ReadersHold
<1> QED
  BY <1>4, <1>6, <1>7, SessionFrame, KickEventFrame DEF Next

\* A session that holds its player's lock keeps the calls out of it.
LEMMA SessionHoldsStep ==
  ASSUME IInv, Next
  PROVE  SessionHolds'
<1> USE DEF IInv
<1>1. ASSUME \A q \in Players : sess'[q] = "holding" =>
               /\ sess[q] = "holding"
               /\ op'[q] = op[q] /\ server'[q] = server[q]
      PROVE  SessionHolds'
  BY <1>1 DEF SessionHolds
<1>2. ASSUME NEW p \in Players, NEW call, NEW by, Begin(p, call, by),
             NEW q \in Players, sess[q] = "holding"
      PROVE  op'[q] = op[q]
  BY <1>2 DEF Begin, CanLockPlayer, TypeOK
<1>3. ASSUME NEW p \in Players, CallStep(p) PROVE SessionHolds'
  <2>1. CASE BeginJoin(p)
    <3>1. \A q \in Players : sess'[q] = "holding" => sess[q] = "holding"
      BY <2>1 DEF BeginJoin, TypeOK
    <3> QED
      BY <1>1, <1>2, <2>1, <3>1 DEF BeginJoin
  <2>2. CASE BeginMove(p) \/ BeginRemove(p)
    BY <1>1, <1>2, <2>2 DEF BeginMove, BeginRemove
  <2>3. ASSUME op[p].at # "idle",
               \A q \in Players \ {p} : /\ op'[q] = op[q]
                                        /\ server'[q] = server[q]
                                        /\ sess'[q] = sess[q],
               sess'[p] \in {sess[p], "play", "sending"}
        PROVE  SessionHolds'
    BY <1>1, <2>3 DEF SessionHolds, Idle
  <2>4. ASSUME op[p].at # "idle", Return(p)
        PROVE  /\ \A q \in Players \ {p} : op'[q] = op[q] /\ sess'[q] = sess[q]
               /\ sess'[p] \in {sess[p], "play", "sending"}
    BY <2>4 DEF Return, AfterJoin, Unlock, TypeOK
  <2>5. CASE Leave(p)
    BY <2>3, <2>5 DEF Leave, TypeOK
  <2>6. ASSUME NEW K \in SUBSET Slow, LeaveSent(p, K) PROVE SessionHolds'
    <3>1. \A q \in Players \ {p} : server'[q] = server[q]
      BY <2>6 DEF LeaveSent, Forgotten, TypeOK
    <3>2. CASE op[p].call = "add"
      BY <2>3, <2>6, <3>1, <3>2 DEF LeaveSent, TypeOK
    <3>3. CASE op[p].call = "rem"
      BY <2>3, <2>4, <2>6, <3>1, <3>3 DEF LeaveSent
    <3> QED
      BY <2>6, <3>2, <3>3 DEF LeaveSent
  <2>7. CASE Find(p)
    <3>1. \A q \in Players \ {p} : server'[q] = server[q]
      BY <2>7 DEF Find, TypeOK
    <3>2. CASE FindServer(p) = NoShard
      BY <2>3, <2>4, <2>7, <3>1, <3>2 DEF Find
    <3>3. CASE FindServer(p) # NoShard
      BY <2>3, <2>7, <3>1, <3>3 DEF Find, TypeOK
    <3> QED
      BY <3>2, <3>3
  <2>8. CASE Enter(p)
    BY <2>3, <2>8 DEF Enter, TypeOK
  <2>9. ASSUME NEW K \in SUBSET Slow, EnterSent(p, K) PROVE SessionHolds'
    BY <2>3, <2>4, <2>9 DEF EnterSent
  <2> QED
    BY <1>3, <2>1, <2>2, <2>5, <2>6, <2>7, <2>8, <2>9 DEF CallStep
<1>4. ASSUME NEW p \in Players, SessionStep(p) PROVE SessionHolds'
  <2>1. UNCHANGED <<server, op>>
    BY <1>4, SessionFrame
  <2>2. CASE Forward(p)
    <3>1. sess'[p] = "holding" => op[p] = Idle /\ server[p] # NoShard
      BY <2>2 DEF Forward, CanRLockPlayer, TypeOK
    <3>2. \A q \in Players \ {p} : sess'[q] = sess[q]
      BY <2>2 DEF Forward, TypeOK
    <3> QED
      BY <2>1, <3>1, <3>2 DEF SessionHolds
  <2>3. CASE Auth(p) \/ Join(p) \/ Read(p) \/ ForwardSent(p) \/ Disconnect(p)
    BY <1>1, <2>1, <2>3 DEF Auth, Join, Read, ForwardSent, Disconnect, TypeOK
  <2> QED
    BY <1>4, <2>2, <2>3 DEF SessionStep
<1>5. ASSUME NEW s \in Shards, BeginEvac(s) PROVE SessionHolds'
  <2>1. evac[s].who \in Players
    BY <1>5 DEF BeginEvac, TypeOK, Evacs, NoEvac
  <2> QED
    BY <1>1, <1>2, <1>5, <2>1 DEF BeginEvac
<1>6. CASE UNCHANGED <<server, op, sess>>
  BY <1>1, <1>6
<1> QED
  BY <1>3, <1>4, <1>5, <1>6, KickEventFrame, ShardFrame DEF Next

-----------------------------------------------------------------------------
(* Logins *)

\* Tell and Kick make goroutines for players of K only.
LEMMA KickFrame ==
  ASSUME kicks \in [Players -> 0..MaxGo], NEW K, Kick(K), NEW q \in Players,
         q \notin K
  PROVE  kicks'[q] = kicks[q]
  BY DEF Kick

\* Listed players have logged in.
LEMMA MemberIsOn ==
  ASSUME TypeOK, RosterBacked, OffIsNowhere, NEW s \in Shards,
         NEW q \in Members(s)
  PROVE  q \in Players /\ sess[q] # "off"
  BY ListedIsOn DEF Members, Listed

LEMMA OffStep ==
  ASSUME IInv, Next
  PROVE  OffIsNowhere' /\ \A q \in Players : sess'[q] = "off" => sess[q] = "off"
<1> USE DEF IInv
<1>1. ASSUME \A q \in Players : sess'[q] = "off" =>
               /\ sess[q] = "off"
               /\ server'[q] = server[q] /\ op'[q] = op[q]
               /\ kicks'[q] = kicks[q] /\ moves'[q] = moves[q]
               /\ \A s \in Shards : evac'[s].who = q => evac[s].who = q
      PROVE  OffIsNowhere' /\ \A q \in Players : sess'[q] = "off" => sess[q] = "off"
  BY <1>1 DEF OffIsNowhere
<1> DEFINE Off(q) == sess'[q] = "off" =>
             /\ sess[q] = "off"
             /\ server'[q] = server[q] /\ op'[q] = op[q]
             /\ kicks'[q] = kicks[q] /\ moves'[q] = moves[q]
             /\ \A s \in Shards : evac'[s].who = q => evac[s].who = q
<1>2. ASSUME NEW p \in Players, CallStep(p), NEW q \in Players PROVE Off(q)
  <2>1. CASE BeginJoin(p)
    BY <2>1 DEF BeginJoin, Begin, shardVars, TypeOK, OffIsNowhere
  <2>2. CASE BeginMove(p)
    BY <2>2 DEF BeginMove, Begin, shardVars, TypeOK, OffIsNowhere
  <2>3. CASE BeginRemove(p)
    BY <2>3 DEF BeginRemove, Begin, shardVars, TypeOK, OffIsNowhere
  <2>4. CASE Leave(p)
    BY <2>4 DEF Leave, TypeOK, OffIsNowhere, Idle
  <2>5. CASE Enter(p)
    BY <2>5 DEF Enter, TypeOK, OffIsNowhere, Idle
  <2>6. ASSUME op[p].at # "idle" PROVE sess[p] # "off"
    BY <2>6 DEF OffIsNowhere, Idle
  <2>7. ASSUME op[p].at # "idle", Return(p)
        PROVE  /\ sess'[q] = "off" => sess[q] = "off" /\ q # p
               /\ \A s \in Shards : evac'[s].who = evac[s].who
               /\ q # p => op'[q] = op[q]
    <3>1. sess'[q] = "off" => sess[q] = "off"
      BY <2>7 DEF Return, AfterJoin, TypeOK
    <3>2. sess[p] = "off" \/ sess'[p] # "off"
      BY <2>7 DEF Return, AfterJoin, TypeOK
    <3>3. q # p => op'[q] = op[q]
      BY <2>7, ReturnFrame DEF TypeOK
    <3> QED
      BY <2>6, <2>7, <3>1, <3>2, <3>3, ReturnFrame
  <2>8. ASSUME NEW s \in Shards, NEW K, Tell(Members(s), K)
        PROVE  sess[q] = "off" => kicks'[q] = kicks[q]
    BY <2>8, KickFrame, MemberIsOn DEF Tell, TypeOK
  <2>9. ASSUME NEW K \in SUBSET Slow, LeaveSent(p, K) PROVE Off(q)
    <3>1. op[p].at # "idle" /\ sess[p] # "off" /\ server[p] \in Shards
      BY <2>6, <2>9 DEF LeaveSent, OnShards, TypeOK
    <3>2. sess[q] = "off" => kicks'[q] = kicks[q]
      BY <2>8, <2>9, <3>1 DEF LeaveSent
    <3>3. q # p => server'[q] = server[q]
      BY <2>9 DEF LeaveSent, Forgotten, TypeOK
    <3>4. CASE op[p].call = "add"
      BY <2>9, <3>1, <3>2, <3>4 DEF LeaveSent, TypeOK
    <3>5. CASE op[p].call = "rem"
      BY <2>7, <2>9, <3>1, <3>2, <3>3, <3>5 DEF LeaveSent
    <3> QED
      BY <2>9, <3>4, <3>5 DEF LeaveSent
  <2>10. CASE Find(p)
    <3>1. op[p].at # "idle" /\ sess[p] # "off"
      BY <2>6, <2>10 DEF Find
    <3>2. q # p => server'[q] = server[q]
      BY <2>10 DEF Find, TypeOK
    <3>3. q # p => kicks'[q] = kicks[q]
      BY <2>10, KickFrame DEF Find, TypeOK
    <3>4. CASE FindServer(p) = NoShard
      BY <2>7, <2>10, <3>1, <3>2, <3>3, <3>4 DEF Find
    <3>5. CASE FindServer(p) # NoShard
      BY <2>10, <3>1, <3>2, <3>3, <3>5 DEF Find, TypeOK
    <3> QED
      BY <3>4, <3>5
  <2>11. ASSUME NEW K \in SUBSET Slow, EnterSent(p, K) PROVE Off(q)
    <3>1. op[p].at # "idle" /\ sess[p] # "off" /\ server[p] \in Shards
      BY <2>6, <2>11 DEF EnterSent, OnShards, TypeOK
    <3>2. sess[q] = "off" => kicks'[q] = kicks[q]
      BY <2>8, <2>11, <3>1 DEF EnterSent
    <3> QED
      BY <2>7, <2>11, <3>1, <3>2 DEF EnterSent
  <2> QED
    BY <1>2, <2>1, <2>2, <2>3, <2>4, <2>5, <2>9, <2>10, <2>11 DEF CallStep
<1>3. ASSUME NEW p \in Players, SessionStep(p), NEW q \in Players PROVE Off(q)
  <2>1. UNCHANGED <<server, op, moves, evac>>
    BY <1>3, SessionFrame
  <2>2. sess'[q] = "off" => sess[q] = "off" /\ q # p
    BY <1>3 DEF SessionStep, Auth, Join, Read, Forward, ForwardSent,
                Disconnect, TypeOK
  <2>3. q # p => kicks'[q] = kicks[q]
    <3>1. CASE Auth(p) \/ Read(p) \/ Forward(p) \/ ForwardSent(p)
      BY <3>1 DEF Auth, Read, Forward, ForwardSent
    <3>2. CASE Join(p) \/ Disconnect(p)
      BY <3>2, KickFrame DEF Join, Disconnect, Tell, TypeOK
    <3> QED
      BY <1>3, <3>1, <3>2 DEF SessionStep
  <2> QED
    BY <2>1, <2>2, <2>3
<1>4. ASSUME NEW i \in Kicked, KickEvent(i), NEW q \in Players PROVE Off(q)
  <2>1. UNCHANGED <<server, op, moves, evac, sess>>
    BY <1>4, KickEventFrame
  <2>2. ASSUME NEW k \in DOMAIN servers, roster[servers[k]][i] = q
        PROVE  sess[q] # "off"
    <3>1. servers[k] \in Shards
      BY LenProperties, ElementOfSeq DEF TypeOK
    <3> QED
      BY <2>2, <3>1, ListedIsOn, RosterAssumption
  <2>3. sess[q] = "off" => kicks'[q] = kicks[q]
    <3> DEFINE K == {roster[servers[k]][i] : k \in DOMAIN servers} \ {NoPlayer}
    <3>1. sess[q] = "off" => q \notin K
      BY <2>2
    <3>2. Kick(K) /\ kicks \in [Players -> 0..MaxGo]
      BY <1>4 DEF KickEvent, TypeOK
    <3> HIDE DEF K
    <3> QED
      BY <3>1, <3>2, KickFrame
  <2> QED
    BY <2>1, <2>3
<1>5. ASSUME NEW s \in Shards, ShardStep(s), NEW q \in Players PROVE Off(q)
  <2>1. UNCHANGED <<server, sess>>
    BY <1>5, ShardFrame
  <2>2. CASE UNCHANGED <<op, kicks, moves, evac>>
    BY <2>1, <2>2
  <2>3. CASE BeginEvac(s)
    <3>1. /\ evac[s].who \in Players
          /\ evac[s] \in [at : {"call", "busy", "chat"}, who : Players]
      BY <2>3 DEF BeginEvac, TypeOK, Evacs, NoEvac
    <3>2. sess[evac[s].who] # "off"
      BY <3>1 DEF OffIsNowhere
    <3>3. q # evac[s].who => op'[q] = op[q]
      BY <2>3 DEF BeginEvac, Begin, TypeOK
    <3>4. \A t \in Shards : evac'[t].who = evac[t].who
      BY <2>3, <3>1 DEF BeginEvac, TypeOK
    <3> QED
      BY <2>1, <2>3, <3>2, <3>3, <3>4 DEF BeginEvac
  <2>4. CASE EvacNext(s)
    <3>1. PICK i \in Ids : /\ roster[s][i] # NoPlayer
                           /\ evac' = [evac EXCEPT ![s] =
                                        [at |-> "call", who |-> roster[s][i]]]
      BY <2>4 DEF EvacNext, Listed
    <3>2. sess[roster[s][i]] # "off"
      BY <3>1, ListedIsOn
    <3>3. UNCHANGED <<op, kicks, moves>>
      BY <2>4 DEF EvacNext, playerVars
    <3> QED
      BY <2>1, <3>1, <3>2, <3>3 DEF TypeOK
  <2>5. CASE EvacChat(s)
    <3>1. UNCHANGED <<op, moves>>
      BY <2>5 DEF EvacChat
    <3>2. sess[q] = "off" => q # evac[s].who
      BY DEF OffIsNowhere
    <3>3. sess[q] = "off" => kicks'[q] = kicks[q]
      BY <2>5, <3>2, KickFrame DEF EvacChat, Tell, TypeOK
    <3>4. \A t \in Shards : evac'[t].who = q => evac[t].who = q
      BY <2>5, RosterAssumption DEF EvacChat, NoEvac, TypeOK
    <3> QED
      BY <2>1, <3>1, <3>3, <3>4
  <2>6. CASE HandlerApply(s)
    <3> DEFINE p == handler[s].who
    <3>1. p \in Players /\ roster[s][IdOf[p]] = p
      BY <2>6, HandlerRecord DEF HandlerApply, ReadersHold, TypeOK
    <3>2. sess[p] # "off"
      BY <3>1, ListedIsOn, RosterAssumption
    <3>3. q # p => moves'[q] = moves[q]
      BY <2>6, <3>1 DEF HandlerApply, TypeOK
    <3>4. UNCHANGED <<op, kicks, evac>>
      BY <2>6 DEF HandlerApply
    <3> QED
      BY <2>1, <3>2, <3>3, <3>4
  <2>7. ASSUME NEW K, HandlerTell(s, K) PROVE Off(q)
    <3>1. UNCHANGED <<op, moves, evac>>
      BY <2>7 DEF HandlerTell
    <3>2. sess[q] = "off" => kicks'[q] = kicks[q]
      BY <2>7, KickFrame, MemberIsOn DEF HandlerTell, Tell, TypeOK
    <3> QED
      BY <2>1, <3>1, <3>2
  <2> QED
    BY <1>5, <2>2, <2>3, <2>4, <2>5, <2>6, <2>7
       DEF ShardStep, EvacStep, Connect, Pump, PumpFail, HandlerRead,
           HandlerLock, HandlerWhisper, HandlerSent, HandlerFail, UpdateBegin,
           UpdateVisit, Delist, EvacEnd, shardVars, playerVars
<1> HIDE DEF Off
<1>6. \A q \in Players : Off(q)
  BY <1>2, <1>3, <1>4, <1>5 DEF Next
<1> QED
  BY <1>1, <1>6 DEF Off

LEMMA AloneStep ==
  ASSUME IInv, Next
  PROVE  AloneIsListed'
<1> USE DEF IInv
<1>1. \A q \in Players : sess'[q] = "off" => sess[q] = "off"
  BY OffStep
<1>2. \A q \in Players : Alone(q)' => Alone(q)
  BY <1>1 DEF Alone
<1> DEFINE Placed(q) == server[q] # NoShard /\ op[q].at \in {"idle", "leave", "entered"}
           Kept(q)   == Placed(q)' => /\ Placed(q) /\ server'[q] = server[q]
                                      /\ roster'[server[q]][IdOf[q]] = roster[server[q]][IdOf[q]]
<1>3. ASSUME NEW q \in Players, Kept(q), Alone(q)', Placed(q)'
      PROVE  roster'[server'[q]][IdOf[q]] = q
  BY <1>2, <1>3 DEF AloneIsListed
<1>4. ASSUME \A q \in Players : Kept(q) PROVE AloneIsListed'
  BY <1>3, <1>4 DEF AloneIsListed
<1>5. ASSUME NEW p \in Players, NEW call, NEW by, Begin(p, call, by),
             UNCHANGED <<roster, server>>
      PROVE  AloneIsListed'
  <2>1. \A q \in Players \ {p} : op'[q] = op[q]
    BY <1>5 DEF Begin, TypeOK
  <2>2. op[p].at = "idle"
    BY <1>5 DEF Begin, CanLockPlayer, Idle
  <2> QED
    BY <1>4, <1>5, <2>1, <2>2
<1>6. ASSUME NEW p \in Players, CallStep(p) PROVE AloneIsListed'
  <2>1. CASE BeginJoin(p) \/ BeginMove(p) \/ BeginRemove(p)
    BY <1>5, <2>1 DEF BeginJoin, BeginMove, BeginRemove, shardVars
  \* No entry of another player that is alone has p's id.
  <2>2. ASSUME op[p].at # "idle", NEW q \in Players \ {p}, Alone(q)
        PROVE  IdOf[q] # IdOf[p]
    BY <2>2 DEF Alone, OffIsNowhere, Idle
  <2>3. ASSUME op[p].at # "idle", UNCHANGED server,
               NEW e, roster' = [roster EXCEPT ![server[p]][IdOf[p]] = e],
               \A q \in Players \ {p} : op'[q] = op[q],
               Alone(p)' /\ Placed(p)' => roster'[server[p]][IdOf[p]] = p
        PROVE  AloneIsListed'
    <3>1. ASSUME NEW q \in Players \ {p}, Alone(q)', Placed(q)' PROVE Kept(q)
      <4>1. IdOf[q] # IdOf[p]
        BY <1>2, <2>2, <2>3, <3>1
      <4> QED
        BY <2>3, <3>1, <4>1, RosterAssumption DEF TypeOK
    <3> QED
      BY <1>3, <2>3, <3>1 DEF AloneIsListed
  <2>4. CASE Leave(p)
    <3>1. op'[p].at = "left"
      BY <2>4, OpRecord DEF Leave, TypeOK, Ops
    <3> QED
      BY <2>3, <2>4, <3>1 DEF Leave, Deleted, TypeOK
  <2>5. CASE Enter(p)
    <3>1. roster'[server[p]][IdOf[p]] = p
      BY <2>5, RosterAssumption DEF Enter, OnShards, TypeOK
    <3> QED
      BY <2>3, <2>5, <3>1 DEF Enter, TypeOK
  <2>6. ASSUME UNCHANGED roster, ~Placed(p)',
               \A q \in Players \ {p} : op'[q] = op[q] /\ server'[q] = server[q]
        PROVE  AloneIsListed'
    BY <1>4, <2>6
  <2>7. ASSUME NEW K \in SUBSET Slow, LeaveSent(p, K) PROVE AloneIsListed'
    <3>1. CASE op[p].call = "add"
      <4>1. [op[p] EXCEPT !.at = "find"].at = "find"
        BY <2>7, OpRecord DEF LeaveSent, TypeOK, Ops
      <4>2. op'[p].at = "find"
        BY <2>7, <3>1, <4>1 DEF LeaveSent, TypeOK
      <4> QED
        BY <2>6, <2>7, <3>1, <4>2 DEF LeaveSent, TypeOK
    <3>2. CASE op[p].call = "rem"
      BY <2>6, <2>7, <3>2 DEF LeaveSent, Forgotten, Return, Unlock, TypeOK
    <3> QED
      BY <2>7, <3>1, <3>2 DEF LeaveSent
  <2>8. CASE Find(p)
    <3>1. CASE FindServer(p) = NoShard
      BY <2>6, <2>8, <3>1 DEF Find, Return, Unlock, TypeOK
    <3>2. CASE FindServer(p) # NoShard
      <4>1. [op[p] EXCEPT !.at = "enter"].at = "enter"
        BY <2>8, OpRecord DEF Find, TypeOK, Ops
      <4>2. op'[p].at = "enter"
        BY <2>8, <3>2, <4>1 DEF Find, TypeOK
      <4> QED
        BY <2>6, <2>8, <3>2, <4>2 DEF Find, TypeOK
    <3> QED
      BY <3>1, <3>2
  <2>9. ASSUME NEW K \in SUBSET Slow, EnterSent(p, K) PROVE AloneIsListed'
    <3>1. \A q \in Players : Kept(q)
      BY <2>9 DEF EnterSent, Return, Unlock, TypeOK
    <3> QED
      BY <1>4, <3>1
  <2> HIDE DEF Placed, Kept
  <2> QED
    BY <1>6, <2>1, <2>4, <2>5, <2>7, <2>8, <2>9 DEF CallStep
<1>7. ASSUME NEW s \in Shards, BeginEvac(s) PROVE AloneIsListed'
  <2>1. evac[s].who \in Players
    BY <1>7 DEF BeginEvac, TypeOK, Evacs, NoEvac
  <2> QED
    BY <1>5, <1>7, <2>1 DEF BeginEvac
<1>8. CASE UNCHANGED <<roster, server, op>>
  BY <1>4, <1>8
<1> QED
  BY <1>6, <1>7, <1>8, SessionFrame, KickEventFrame, ShardFrame DEF Next

-----------------------------------------------------------------------------
(* The theorems *)

LEMMA Start == Init => IInv
<1> SUFFICES ASSUME Init PROVE IInv
  OBVIOUS
<1>1. TypeOK
  BY TypeInit
<1>2. \A s \in Shards, i \in Ids : roster[s][i] = NoPlayer
  BY DEF Init, NoEntry
<1>3. RosterBacked /\ OffShards
  BY <1>2, RosterAssumption DEF Init, RosterBacked, OffShards, Idle
<1>4. AloneIsListed /\ OnShards /\ CallerWaits /\ SessionHolds
  BY RosterAssumption
     DEF Init, AloneIsListed, OnShards, CallerWaits, SessionHolds, Idle
<1>6. ReadersHold
  BY DEF Init, ReadersHold, AtRead
<1>5. OffIsNowhere
  BY RosterAssumption DEF Init, OffIsNowhere, NoEvac
<1> QED
  BY <1>1, <1>3, <1>4, <1>5, <1>6 DEF IInv

LEMMA Step == IInv /\ [Next]_vars => IInv'
<1> SUFFICES ASSUME IInv, [Next]_vars PROVE IInv'
  OBVIOUS
<1>1. CASE Next
  BY <1>1, TypeStep, BackedStep, AloneStep, CallerWaitsStep, OnShardsStep,
     OffShardsStep, ReadersHoldStep, SessionHoldsStep, OffStep DEF IInv
<1>2. CASE UNCHANGED vars
  <2>1. TypeOK'
    BY <1>2, TypeStep DEF IInv
  <2> QED
    BY <1>2, <2>1
       DEF IInv, vars, shardVars, playerVars, RosterBacked, AloneIsListed,
           Alone, CallerWaits, OnShards, OffShards, ReadersHold, SessionHolds,
           CanRLock, Writing, OffIsNowhere
<1> QED
  BY <1>1, <1>2

\* The invariant that the following theorems rest on.
THEOREM Invariance == Spec => []IInv
  BY Start, Step, PTL DEF Spec

\* Every variable keeps its type: in particular a call that returns to an
\* evacuation finds it waiting for that call, and a handler applies its message
\* to a player.
THEOREM TypeCorrect == Spec => []TypeOK
<1>1. IInv => TypeOK
  BY DEF IInv
<1> QED
  BY <1>1, Invariance, PTL

\* A player that a shard lists is on that shard and on no other, for any number
\* of players, users and shards.
THEOREM ListedIsThere == Spec => []RosterBacked
<1>1. IInv => RosterBacked
  BY DEF IInv
<1> QED
  BY <1>1, Invariance, PTL

\* A player that is on a shard and not between two is listed there, as long as
\* no other connection logs in as the same user.
THEOREM ThereIsListed == Spec => []AloneIsListed
<1>1. IInv => AloneIsListed
  BY DEF IInv
<1> QED
  BY <1>1, Invariance, PTL

\* Whenever a handler or an update waits for a player's lock, whoever holds it
\* waits for what that reader, or its shard's queue, holds: every such wait of
\* two calls is a deadlock.
THEOREM EveryWaitIsCrossing == Spec => []WaitIsCrossing
<1>1. IInv => WaitIsCrossing
  <2> SUFFICES ASSUME IInv PROVE WaitIsCrossing
    OBVIOUS
  <2> USE DEF IInv
  <2>1. ASSUME NEW s \in Shards, NEW p \in Players, roster[s][IdOf[p]] = p,
               CanRLock(s)
        PROVE  server[p] = s /\ (op[p] # Idle => Crossed(s, p))
    <3>1. server[p] = s
      BY <2>1, RosterAssumption DEF RosterBacked
    <3>2. op[p].at \notin {"left", "find", "enter"}
      BY <2>1, RosterAssumption DEF OffShards
    <3>3. op[p].at # "entered"
      BY <2>1, <3>1 DEF CanRLock, Writing
    <3>4. op[p] # Idle => op[p].at \in OpPoints
      BY DEF TypeOK, Ops
    <3> QED
      BY <3>1, <3>2, <3>3, <3>4 DEF OpPoints, Crossed
  <2>2. ASSUME NEW s \in Shards, NEW p \in visit[s]
        PROVE  op[p] # Idle => Crossed(s, p)
    BY <2>1, <2>2 DEF ReadersHold, TypeOK
  <2>3. ASSUME NEW s \in Shards, handler[s].at = "locked"
        PROVE  /\ op[handler[s].who] # Idle => Crossed(s, handler[s].who)
               /\ server[handler[s].who] = s
    BY <2>1, <2>3, HandlerRecord DEF ReadersHold, TypeOK
  <2> QED
    BY <2>2, <2>3 DEF WaitIsCrossing
<1> QED
  BY <1>1, Invariance, PTL

-----------------------------------------------------------------------------
(* Refinement *)

\* Each step of the server changes one entry of one shard at most, and lists a
\* player only when no shard does.
LEMMA DirectoryStep == IInv /\ [Next]_vars => [Directory!Next]_roster
<1> SUFFICES ASSUME IInv, [Next]_vars PROVE [Directory!Next]_roster
  OBVIOUS
<1>1. ASSUME NEW p \in Players, Leave(p) PROVE Directory!Next
  <2>1. server[p] \in Shards /\ IdOf[p] \in Ids
    BY <1>1, RosterAssumption DEF Leave, IInv, OnShards, TypeOK
  <2>2. Directory!Leave(server[p], IdOf[p])
    BY <1>1 DEF Leave, Deleted, Directory!Leave
  <2> QED
    BY <2>1, <2>2 DEF Directory!Next
<1>2. ASSUME NEW p \in Players, Enter(p) PROVE Directory!Next
  <2>1. server[p] \in Shards
    BY <1>2 DEF Enter, IInv, OnShards, TypeOK
  <2>2. Directory!Enter(p, server[p])
    BY <1>2 DEF Enter, IInv, OffShards, Directory!Enter
  <2> QED
    BY <2>1, <2>2 DEF Directory!Next
<1>3. ASSUME NEW p \in Players, CallStep(p)
      PROVE  Leave(p) \/ Enter(p) \/ UNCHANGED roster
  BY <1>3 DEF CallStep, BeginJoin, BeginMove, BeginRemove, LeaveSent, Find,
              EnterSent, shardVars
<1> QED
  BY <1>1, <1>2, <1>3, SessionFrame, KickEventFrame, ShardFrame
     DEF Next, vars, shardVars

\* The main server, with all its sessions, moves, kicks and evacuations, is a
\* directory that has each player on one shard.
THEOREM RosterIsDirectory == Spec => IsDirectory
<1>1. Init => Directory!Init
  BY DEF Init, NoEntry, Directory!Init
<1> QED
  BY <1>1, DirectoryStep, Invariance, PTL DEF Spec, IsDirectory, Directory!Spec

-----------------------------------------------------------------------------
(* The deadlocks last *)

\* The call of one player leaves the others alone.
LEMMA CallFrame ==
  ASSUME TypeOK, NEW p \in Players, CallStep(p), NEW q \in Players \ {p}
  PROVE  op'[q] = op[q] /\ server'[q] = server[q] /\ sess'[q] = sess[q]
<1> USE DEF TypeOK
<1>1. ASSUME NEW call, NEW by, Begin(p, call, by) PROVE op'[q] = op[q]
  BY <1>1 DEF Begin
<1>2. CASE BeginJoin(p) \/ BeginMove(p) \/ BeginRemove(p)
  BY <1>1, <1>2 DEF BeginJoin, BeginMove, BeginRemove
<1>3. ASSUME Return(p) PROVE op'[q] = op[q] /\ sess'[q] = sess[q]
  BY <1>3 DEF Return, Unlock
<1>4. CASE Leave(p) \/ Enter(p)
  BY <1>4 DEF Leave, Enter
<1>5. ASSUME NEW K \in SUBSET Slow, LeaveSent(p, K)
      PROVE  op'[q] = op[q] /\ server'[q] = server[q] /\ sess'[q] = sess[q]
  BY <1>3, <1>5 DEF LeaveSent, Forgotten
<1>6. CASE Find(p)
  BY <1>3, <1>6 DEF Find
<1>7. ASSUME NEW K \in SUBSET Slow, EnterSent(p, K)
      PROVE  op'[q] = op[q] /\ server'[q] = server[q] /\ sess'[q] = sess[q]
  BY <1>3, <1>7 DEF EnterSent
<1> QED
  BY <1>2, <1>4, <1>5, <1>6, <1>7 DEF CallStep

\* A call that waits for a map lock or for room in an outchan stays.
LEMMA CallWaits ==
  ASSUME IInv, Next, NEW q \in Players,
         \/ op[q].at = "leave" /\ ~CanLock(server[q])
         \/ Writing(q) /\ ~CanSend(server[q])
  PROVE  op'[q] = op[q] /\ server'[q] = server[q]
<1>1. op[q] # Idle
  BY DEF Idle, Writing
<1>2. ~CallStep(q)
  BY <1>1 DEF CallStep, BeginJoin, BeginMove, BeginRemove, Begin,
              CanLockPlayer, Leave, LeaveSent, Find, Enter, EnterSent, Send,
              Writing
<1>3. ASSUME NEW p \in Players, CallStep(p)
      PROVE  op'[q] = op[q] /\ server'[q] = server[q]
  BY <1>2, <1>3, CallFrame DEF IInv
<1>4. ASSUME NEW s \in Shards, BeginEvac(s) PROVE op'[q] = op[q]
  BY <1>1, <1>4 DEF BeginEvac, Begin, CanLockPlayer, IInv, TypeOK
<1> QED
  BY <1>3, <1>4, SessionFrame, KickEventFrame, ShardFrame DEF Next

\* A handler that waits for a player's lock, and the visits an update has
\* still to make to players whose locks are held, stay.
LEMMA ReaderWaits ==
  ASSUME IInv, Next, NEW s \in Shards
  PROVE  /\ handler[s].at = "locked" /\ ~CanLockPlayer(handler[s].who) =>
              handler'[s] = handler[s]
         /\ \A p \in visit[s] : op[p] # Idle => p \in visit'[s]
<1> USE DEF IInv, TypeOK
<1>1. ASSUME NEW p \in Players, CallStep(p) PROVE UNCHANGED readVars
  BY <1>1 DEF CallStep, BeginJoin, BeginMove, BeginRemove, Leave, LeaveSent,
              Find, Enter, EnterSent, shardVars
<1>2. ASSUME NEW t \in Shards, ShardStep(t)
      PROVE  handler[s].at = "locked" /\ ~CanLockPlayer(handler[s].who) =>
               handler'[s] = handler[s]
  BY <1>2
     DEF ShardStep, EvacStep, Connect, Pump, PumpFail, HandlerRead,
         HandlerLock, HandlerApply, HandlerTell, HandlerWhisper, HandlerSent,
         HandlerFail, UpdateBegin, UpdateVisit, Delist, EvacNext, BeginEvac,
         EvacChat, EvacEnd, AtRead
<1>3. ASSUME NEW t \in Shards, ShardStep(t), NEW p \in visit[s], op[p] # Idle
      PROVE  p \in visit'[s]
  BY <1>3
     DEF ShardStep, EvacStep, Connect, Pump, PumpFail, HandlerRead,
         HandlerLock, HandlerApply, HandlerTell, HandlerWhisper, HandlerSent,
         HandlerFail, UpdateBegin, UpdateVisit, CanRLockPlayer, Delist,
         EvacNext, BeginEvac, EvacChat, EvacEnd
<1> QED
  BY <1>1, <1>2, <1>3, SessionFrame, KickEventFrame DEF Next

\* Nobody adds to a full outchan of a shard that is up.
LEMMA SendFrame ==
  ASSUME TypeOK, NEW s \in Shards, ~CanSend(s), NEW t, NEW m, Send(t, m)
  PROVE  out'[s] = out[s]
  BY DEF Send, TypeOK

\* A full outchan whose write pump has ended stays full as long as the handler
\* does not read.
LEMMA QueueStays ==
  ASSUME IInv, Next, NEW s \in Shards, ~CanSend(s), ~pump[s],
         handler[s] # AtRead
  PROVE  life'[s] = "up" /\ ~pump'[s] /\ out'[s] = out[s]
<1> USE DEF IInv
<1>1. life[s] = "up"
  BY DEF CanSend
<1>2. ASSUME UNCHANGED <<life, pump, out>>
      PROVE  life'[s] = "up" /\ ~pump'[s] /\ out'[s] = out[s]
  BY <1>1, <1>2
<1>3. ASSUME UNCHANGED <<life, pump>>, NEW t, NEW m, Send(t, m)
      PROVE  life'[s] = "up" /\ ~pump'[s] /\ out'[s] = out[s]
  BY <1>1, <1>3, SendFrame
<1>4. ASSUME NEW p \in Players, CallStep(p)
      PROVE  life'[s] = "up" /\ ~pump'[s] /\ out'[s] = out[s]
  <2>1. ASSUME NEW K \in SUBSET Slow, LeaveSent(p, K) \/ EnterSent(p, K)
        PROVE  life'[s] = "up" /\ ~pump'[s] /\ out'[s] = out[s]
    BY <1>3, <2>1 DEF LeaveSent, EnterSent
  <2> QED
    BY <1>2, <1>4, <2>1
       DEF CallStep, BeginJoin, BeginMove, BeginRemove, Leave, Find, Enter,
           shardVars
<1>5. ASSUME NEW p \in Players, SessionStep(p)
      PROVE  life'[s] = "up" /\ ~pump'[s] /\ out'[s] = out[s]
  <2>1. CASE ForwardSent(p)
    BY <1>3, <2>1 DEF ForwardSent
  <2> QED
    BY <1>2, <1>5, <2>1
       DEF SessionStep, Auth, Join, Read, Forward, Disconnect, shardVars
<1>6. ASSUME NEW t \in Shards, ShardStep(t)
      PROVE  life'[s] = "up" /\ ~pump'[s] /\ out'[s] = out[s]
  <2>1. CASE HandlerSent(t)
    BY <1>3, <2>1 DEF HandlerSent
  <2>2. CASE Connect(t) \/ Pump(t) \/ PumpFail(t) \/ HandlerFail(t)
    BY <1>1, <2>2 DEF Connect, Pump, PumpFail, HandlerFail, ReadFails, TypeOK
  <2>3. CASE Delist(t) \/ EvacEnd(t)
    BY <1>1, <2>3 DEF Delist, EvacEnd, TypeOK
  <2> QED
    BY <1>2, <1>6, <2>1, <2>2, <2>3
       DEF ShardStep, EvacStep, HandlerRead, HandlerLock, HandlerApply,
           HandlerTell, HandlerWhisper, UpdateBegin, UpdateVisit, EvacNext,
           BeginEvac, EvacChat
<1>7. ASSUME NEW i \in Kicked, KickEvent(i)
      PROVE  life'[s] = "up" /\ ~pump'[s] /\ out'[s] = out[s]
  BY <1>2, <1>7 DEF KickEvent, shardVars
<1> QED
  BY <1>4, <1>5, <1>6, <1>7 DEF Next

\* A handler that waits for the map lock, or for room in its own outchan, stays.
LEMMA HandlerStays ==
  ASSUME IInv, Next, NEW s \in Shards,
         \/ handler[s].at = "sending" /\ ~CanSend(s)
         \/ handler[s].at \in {"msg", "Spawn", "Whisper"} /\ ~CanRLock(s)
  PROVE  handler'[s] = handler[s]
<1> USE DEF IInv, TypeOK
<1>1. ASSUME NEW p \in Players, CallStep(p) PROVE UNCHANGED readVars
  BY <1>1 DEF CallStep, BeginJoin, BeginMove, BeginRemove, Leave, LeaveSent,
              Find, Enter, EnterSent, shardVars
<1>2. ASSUME NEW t \in Shards, ShardStep(t) PROVE handler'[s] = handler[s]
  BY <1>2
     DEF ShardStep, EvacStep, Connect, Pump, PumpFail, HandlerRead,
         HandlerLock, HandlerApply, HandlerTell, HandlerWhisper, HandlerSent,
         Send, HandlerFail, UpdateBegin, UpdateVisit, Delist, EvacNext,
         BeginEvac, EvacChat, EvacEnd, AtRead
<1> QED
  BY <1>1, <1>2, SessionFrame, KickEventFrame DEF Next

\* Whoever holds a player's lock for reading and sends to a full outchan holds it.
LEMMA SessionWaits ==
  ASSUME IInv, Next, NEW p \in Players, sess[p] = "holding",
         ~CanSend(server[p])
  PROVE  sess'[p] = "holding"
<1> USE DEF IInv
<1>1. op[p] = Idle
  BY DEF SessionHolds
<1>2. ASSUME NEW q \in Players, CallStep(q) PROVE sess'[p] = sess[p]
  <2>1. CASE q # p
    BY <1>2, <2>1, CallFrame
  <2>2. CASE q = p
    BY <1>1, <1>2, <2>2
       DEF CallStep, BeginJoin, BeginMove, BeginRemove, Begin, CanLockPlayer,
           Leave, LeaveSent, Find, Enter, EnterSent, Idle
  <2> QED
    BY <2>1, <2>2
<1>3. ASSUME NEW q \in Players, SessionStep(q) PROVE sess'[p] = sess[p]
  BY <1>3 DEF SessionStep, Auth, Join, Read, Forward, ForwardSent, Send,
              Disconnect, TypeOK
<1> QED
  BY <1>2, <1>3, KickEventFrame, ShardFrame DEF Next

\* Two that wait for each other go on waiting.
LEMMA InvertedStep ==
  ASSUME IInv, Next, NEW s \in Shards, Inverted(s)
  PROVE  Inverted(s)'
<1>1. PICK p \in Players :
        /\ Crossed(s, p)
        /\ p \in visit[s] \/ (handler[s].at = "locked" /\ handler[s].who = p)
  BY DEF Inverted
<1>2. ~CanLock(s) /\ op[p] # Idle
  BY <1>1 DEF CanLock, Crossed, Idle
<1>3. Crossed(s, p)'
  BY <1>1, <1>2, CallWaits DEF Crossed
<1>4. \/ p \in visit'[s]
      \/ handler'[s].at = "locked" /\ handler'[s].who = p
  BY <1>1, <1>2, ReaderWaits DEF CanLockPlayer
<1> QED
  BY <1>3, <1>4 DEF Inverted

\* A jammed shard goes on being jammed.
LEMMA JammedStep ==
  ASSUME IInv, Next, NEW s \in Shards, Jammed(s)
  PROVE  Jammed(s)'
<1> USE DEF IInv
<1>1. ~CanSend(s) /\ ~pump[s] /\ handler[s] # AtRead
  <2>1. Len(out[s]) \in Nat /\ OutCap \in Nat
    BY RosterAssumption, LenProperties DEF TypeOK
  <2> QED
    BY <2>1 DEF Jammed, CanSend, AtRead
<1>2. life'[s] = "up" /\ ~pump'[s] /\ out'[s] = out[s]
  BY <1>1, QueueStays
<1>3. CASE handler[s].at = "sending"
  <2>1. handler'[s].at = "sending"
    BY <1>1, <1>3, HandlerStays
  <2> QED
    BY <1>2, <2>1 DEF Jammed
<1>4. CASE handler[s].at \in {"msg", "Spawn", "Whisper"} /\ ~CanRLock(s)
  <2>1. PICK q \in Players : Writing(q) /\ server[q] = s
    BY <1>4 DEF CanRLock
  <2>2. Writing(q)' /\ server'[q] = s
    BY <1>1, <2>1, CallWaits DEF Writing
  <2>3. handler'[s] = handler[s]
    BY <1>1, <1>4, HandlerStays
  <2> QED
    BY <1>2, <1>4, <2>2, <2>3 DEF Jammed, CanRLock
<1>5. CASE handler[s].at = "locked" /\ sess[handler[s].who] = "holding"
  <2> DEFINE p == handler[s].who
  <2>1. p \in Players /\ server[p] = s
    BY <1>5, HandlerRecord, RosterAssumption
       DEF ReadersHold, RosterBacked, TypeOK
  <2>2. sess'[p] = "holding"
    BY <1>1, <1>5, <2>1, SessionWaits
  <2>3. handler'[s] = handler[s]
    BY <1>5, ReaderWaits DEF CanLockPlayer
  <2> QED
    BY <1>2, <1>5, <2>2, <2>3 DEF Jammed
<1> QED
  BY <1>3, <1>4, <1>5 DEF Jammed

\* Neither deadlock ever ends: nothing that a session, a call, an evacuation,
\* the controller or the other shards do gives back what the two hold.
THEOREM DeadlockLasts == Spec => StuckForGood
<1>1. IInv /\ [Next]_vars => [\A s \in Shards : Stuck(s) => Stuck(s)']_vars
  BY InvertedStep, JammedStep DEF Stuck
<1> QED
  BY <1>1, Invariance, PTL DEF Spec, StuckForGood

-----------------------------------------------------------------------------
(* The steps that matter to the game servers *)

\* A call that starts is not yet between the change of a map and its message.
LEMMA BeginFrame ==
  ASSUME TypeOK, NEW p \in Players, NEW call, NEW by, Begin(p, call, by),
         NEW q \in Players, NEW a \in {"left", "entered"}
  PROVE  op'[q].at = a <=> op[q].at = a
<1>1. op[p] = Idle /\ (op' = op \/ op'[p].at \in {"leave", "find"})
  BY DEF Begin, CanLockPlayer, FirstAt, TypeOK
<1>2. q # p => op'[q] = op[q]
  BY DEF Begin, TypeOK
<1> QED
  BY <1>1, <1>2 DEF Idle

\* Nobody but the calls at these five points changes a map or where a call
\* stands in its change of a map.
LEMMA CallSteps ==
  ASSUME IInv, Next
  PROVE  \/ \E p \in Players :
              \/ Leave(p) \/ Find(p) \/ Enter(p)
              \/ \E K \in SUBSET Slow : LeaveSent(p, K) \/ EnterSent(p, K)
         \/ /\ UNCHANGED <<roster, server>>
            /\ \A q \in Players, a \in {"left", "entered"} :
                 op'[q].at = a <=> op[q].at = a
<1> USE DEF IInv
<1>1. ASSUME NEW p \in Players, BeginJoin(p) \/ BeginMove(p) \/ BeginRemove(p)
      PROVE  /\ UNCHANGED <<roster, server>>
             /\ \A q \in Players, a \in {"left", "entered"} :
                  op'[q].at = a <=> op[q].at = a
  BY <1>1, BeginFrame DEF BeginJoin, BeginMove, BeginRemove, shardVars
<1>2. ASSUME NEW s \in Shards, BeginEvac(s)
      PROVE  /\ UNCHANGED <<roster, server>>
             /\ \A q \in Players, a \in {"left", "entered"} :
                  op'[q].at = a <=> op[q].at = a
  <2>1. evac[s].who \in Players
    BY <1>2 DEF BeginEvac, TypeOK, Evacs, NoEvac
  <2> QED
    BY <1>2, <2>1, BeginFrame DEF BeginEvac
<1> QED
  BY <1>1, <1>2, SessionFrame, KickEventFrame, ShardFrame DEF Next, CallStep

\* Nobody else sends to a game server, and only some steps of a shard change
\* whether it is up.
LEMMA WireSteps ==
  ASSUME Next
  PROVE  \/ UNCHANGED <<out, world, life, servers>>
         \/ \E p \in Players, K \in SUBSET Slow : LeaveSent(p, K) \/ EnterSent(p, K)
         \/ \E p \in Players : ForwardSent(p)
         \/ \E s \in Shards : \/ HandlerSent(s) \/ Pump(s) \/ Connect(s)
                              \/ HandlerFail(s) \/ Delist(s) \/ EvacEnd(s)
<1>1. ASSUME NEW p \in Players, CallStep(p)
      PROVE  \/ UNCHANGED <<out, world, life, servers>>
             \/ \E K \in SUBSET Slow : LeaveSent(p, K) \/ EnterSent(p, K)
  BY <1>1 DEF CallStep, BeginJoin, BeginMove, BeginRemove, Leave, Find, Enter,
              shardVars
<1>2. ASSUME NEW p \in Players, SessionStep(p)
      PROVE  UNCHANGED <<out, world, life, servers>> \/ ForwardSent(p)
  BY <1>2 DEF SessionStep, Auth, Join, Read, Forward, Disconnect, shardVars
<1>3. ASSUME NEW i \in Kicked, KickEvent(i)
      PROVE  UNCHANGED <<out, world, life, servers>>
  BY <1>3 DEF KickEvent, shardVars
<1>4. ASSUME NEW s \in Shards, ShardStep(s)
      PROVE  \/ UNCHANGED <<out, world, life, servers>>
             \/ HandlerSent(s) \/ Pump(s) \/ Connect(s)
             \/ HandlerFail(s) \/ Delist(s) \/ EvacEnd(s)
  BY <1>4 DEF ShardStep, EvacStep, PumpFail, HandlerRead, HandlerLock,
              HandlerApply, HandlerTell, HandlerWhisper, UpdateBegin,
              UpdateVisit, EvacNext, BeginEvac, EvacChat
<1> QED
  BY <1>1, <1>2, <1>3, <1>4 DEF Next

-----------------------------------------------------------------------------
(* Queues *)

\* A message that is sent comes last, and only in the queue of its shard.
LEMMA SendQueue ==
  ASSUME TypeOK, NEW s \in Shards, NEW m \in Messages, Send(s, m)
  PROVE  /\ \A t \in Shards : t # s \/ life[s] # "up" => out'[t] = out[t]
         /\ life[s] = "up" =>
              /\ Len(out[s]) \in Nat /\ DOMAIN out[s] = 1..Len(out[s])
              /\ DOMAIN out'[s] = 1..(Len(out[s]) + 1)
              /\ \A k \in DOMAIN out[s] : out'[s][k] = out[s][k]
              /\ out'[s][Len(out[s]) + 1] = m
<1>1. out[s] \in Seq(Messages) /\ out \in [Shards -> Seq(Messages)]
  BY DEF TypeOK
<1>2. CASE life[s] = "up"
  <2>1. out' = [out EXCEPT ![s] = Append(@, m)]
    BY <1>2 DEF Send
  <2>2. out'[s] = Append(out[s], m) /\ \A t \in Shards : t # s => out'[t] = out[t]
    BY <1>1, <2>1
  <2> QED
    BY <1>1, <1>2, <2>2, LenProperties, AppendProperties
<1>3. CASE life[s] # "up"
  BY <1>3 DEF Send
<1> QED
  BY <1>2, <1>3

\* What the write pump leaves in the queue.
LEMMA PumpQueue ==
  ASSUME TypeOK, NEW s \in Shards, Pump(s)
  PROVE  /\ \A t \in Shards : t # s => out'[t] = out[t] /\ world'[t] = world[t]
         /\ Len(out[s]) \in Nat \ {0}
         /\ DOMAIN out[s] = 1..Len(out[s])
         /\ DOMAIN out'[s] = 1..(Len(out[s]) - 1)
         /\ \A k \in DOMAIN out'[s] : out'[s][k] = out[s][k + 1]
         /\ \A k \in DOMAIN out[s] : out[s][k] \in Messages
         /\ \A i \in Ids :
              i \in world'[s] <=> IF IsAbout(out[s][1], i)
                                  THEN out[s][1].type = "Join" ELSE i \in world[s]
<1> DEFINE m == Head(out[s])
<1>1. out[s] \in Seq(Messages) /\ out[s] # <<>> /\ world \in [Shards -> SUBSET Ids]
      /\ out \in [Shards -> Seq(Messages)]
  BY DEF TypeOK, Pump
<1>2. /\ out'[s] = Tail(out[s])
      /\ \A t \in Shards : t # s => out'[t] = out[t] /\ world'[t] = world[t]
      /\ world'[s] = CASE m.type = "Join"  -> world[s] \cup {IdOf[m.who]}
                       [] m.type = "Leave" -> world[s] \ {IdOf[m.who]}
                       [] OTHER            -> world[s]
  BY <1>1 DEF Pump
<1>3. /\ Len(out[s]) \in Nat \ {0} /\ DOMAIN out[s] = 1..Len(out[s])
      /\ DOMAIN out'[s] = 1..(Len(out[s]) - 1)
      /\ \A k \in DOMAIN out'[s] : out'[s][k] = out[s][k + 1]
  BY <1>1, <1>2, LenProperties, EmptySeq, HeadTailProperties
<1>4. \A k \in DOMAIN out[s] : out[s][k] \in Messages
  BY <1>1, <1>3, ElementOfSeq
<1>5. m = out[s][1]
  BY <1>1
<1>6. \A i \in Ids : i \in world'[s] <=> IF IsAbout(m, i)
                                         THEN m.type = "Join" ELSE i \in world[s]
  BY <1>2 DEF IsAbout
<1> QED
  BY <1>2, <1>3, <1>4, <1>5, <1>6

\* A message sent decides what the game server will make of the id it is about.
LEMMA WillHaveSend ==
  ASSUME TypeOK, NEW s \in Shards, NEW m \in Messages, Send(s, m),
         UNCHANGED world, life[s] = "up", NEW i \in Ids
  PROVE  WillHave(s, i)' <=> IF IsAbout(m, i) THEN m.type = "Join"
                             ELSE WillHave(s, i)
<1> DEFINE n == Len(out[s])
<1>1. /\ n \in Nat /\ DOMAIN out[s] = 1..n /\ DOMAIN out'[s] = 1..(n + 1)
      /\ \A k \in 1..n : out'[s][k] = out[s][k]
      /\ out'[s][n + 1] = m
  BY SendQueue
<1> HIDE DEF n
<1>2. CASE IsAbout(m, i)
  <2>1. \A k \in 1..(n + 1) : k > n => k = n + 1
    BY <1>1
  <2>2. ASSUME m.type = "Join" PROVE WillHave(s, i)'
    <3>1. n + 1 \in 1..(n + 1) /\ \A j \in 1..(n + 1) : ~(j > n + 1)
      BY <1>1
    <3> QED
      BY <1>1, <1>2, <2>2, <3>1 DEF WillHave, IsAbout
  <2>3. ASSUME WillHave(s, i)' PROVE m.type = "Join"
    <3>1. n + 1 \in 1..(n + 1) /\ \A k \in 1..(n + 1) : k = n + 1 \/ n + 1 > k
      BY <1>1
    <3> QED
      BY <1>1, <1>2, <2>3, <3>1 DEF WillHave, IsAbout
  <2> QED
    BY <1>2, <2>2, <2>3
<1>3. CASE ~IsAbout(m, i)
  <2>1. \A k \in 1..(n + 1) : k \in 1..n \/ k = n + 1
    BY <1>1
  <2>2. 1..n \subseteq 1..(n + 1)
    BY <1>1
  <2> QED
    BY SMTT(60), <1>1, <1>3, <2>1, <2>2 DEF WillHave, IsAbout
<1> QED
  BY <1>2, <1>3

\* A message that is written changes what the game server has, not what it will
\* make of an id.
LEMMA WillHavePump ==
  ASSUME TypeOK, NEW s \in Shards, Pump(s), NEW i \in Ids
  PROVE  WillHave(s, i)' <=> WillHave(s, i)
<1> DEFINE n == Len(out[s])
<1>1. /\ n \in Nat \ {0} /\ DOMAIN out[s] = 1..n /\ DOMAIN out'[s] = 1..(n - 1)
      /\ \A k \in 1..(n - 1) : out'[s][k] = out[s][k + 1]
      /\ i \in world'[s] <=> IF IsAbout(out[s][1], i)
                             THEN out[s][1].type = "Join" ELSE i \in world[s]
  BY PumpQueue
<1> HIDE DEF n
<1>2. \A k \in 1..n : k = 1 \/ (k > 1 /\ k - 1 \in 1..(n - 1) /\ (k - 1) + 1 = k)
  BY <1>1
<1>3. \A k \in 1..(n - 1) : k + 1 \in 1..n /\ k + 1 > 1
  BY <1>1
<1>4. 1 \in 1..n
  BY <1>1
<1> DEFINE N(k) == ~IsAbout(out[s][k], i)
<1>5. (\A k \in 1..(n - 1) : ~IsAbout(out'[s][k], i)) <=>
      (\A k \in 1..n : k > 1 => ~IsAbout(out[s][k], i))
  <2>1. \A k \in 1..(n - 1) : ~IsAbout(out'[s][k], i) <=> N(k + 1)
    BY <1>1
  <2> HIDE DEF N
  <2>2. (\A k \in 1..(n - 1) : N(k + 1)) <=> (\A k \in 1..n : k > 1 => N(k))
    <3>1. ASSUME \A k \in 1..(n - 1) : N(k + 1), NEW k \in 1..n, k > 1
          PROVE  N(k)
      <4>1. N((k - 1) + 1)
        BY <1>2, <3>1
      <4> QED
        BY <1>2, <3>1, <4>1
    <3> QED
      BY <1>3, <3>1
  <2>3. (\A k \in 1..(n - 1) : ~IsAbout(out'[s][k], i)) <=> (\A k \in 1..(n - 1) : N(k + 1))
    BY <2>1
  <2> QED
    BY <2>2, <2>3 DEF N
<1> DEFINE Last(q, k, top) == /\ IsAbout(q[k], i) /\ q[k].type = "Join"
                              /\ \A j \in 1..top : j > k => ~IsAbout(q[j], i)
<1>6. ASSUME NEW k \in 1..(n - 1)
      PROVE  Last(out'[s], k, n - 1) <=> Last(out[s], k + 1, n)
  <2>1. \A j \in 1..(n - 1) : j > k => (j + 1) \in 1..n /\ j + 1 > k + 1
    BY <1>1
  <2>2. \A j \in 1..n : j > k + 1 => (j - 1) \in 1..(n - 1) /\ j - 1 > k /\ (j - 1) + 1 = j
    BY <1>1
  <2> QED
    BY <1>1, <2>1, <2>2
<1>7. (\E k \in 1..(n - 1) : Last(out'[s], k, n - 1)) <=>
      (\E k \in 1..n : k > 1 /\ Last(out[s], k, n))
  <2> HIDE DEF Last
  <2> QED
    BY <1>2, <1>3, <1>6
<1>8. WillHave(s, i)' <=> \/ /\ i \in world'[s]
                             /\ \A k \in 1..(n - 1) : ~IsAbout(out'[s][k], i)
                          \/ \E k \in 1..(n - 1) : Last(out'[s], k, n - 1)
  BY <1>1 DEF WillHave, IsAbout
<1>9. WillHave(s, i) <=> \/ i \in world[s] /\ \A k \in 1..n : ~IsAbout(out[s][k], i)
                         \/ \E k \in 1..n : Last(out[s], k, n)
  BY <1>1 DEF WillHave
<1>10. Last(out[s], 1, n) <=> /\ IsAbout(out[s][1], i) /\ out[s][1].type = "Join"
                              /\ \A k \in 1..n : k > 1 => ~IsAbout(out[s][k], i)
  OBVIOUS
<1>11. ~(1 > 1)
  OBVIOUS
<1> HIDE DEF Last
<1> QED
  BY <1>1, <1>2, <1>4, <1>5, <1>7, <1>8, <1>9, <1>10, <1>11

-----------------------------------------------------------------------------
(* The entry a call has changed *)

\* Nobody else stands between a change of the map of s and its message.
LEMMA LockedAlone ==
  ASSUME IInv, NEW s, CanLock(s), NEW q \in Players, Writing(q)
  PROVE  server[q] \in Shards \ {s}
  BY DEF CanLock, CanRLock, Writing, IInv, OnShards, TypeOK

\* What the five steps of a call do to the calls and the maps.
LEMMA LeaveFrame ==
  ASSUME IInv, NEW p \in Players, Leave(p)
  PROVE  /\ server[p] \in Shards /\ IdOf[p] \in Ids
         /\ op[p].at = "leave" /\ op'[p].at = "left"
         /\ \A q \in Players \ {p} : op'[q] = op[q]
         /\ UNCHANGED server
         /\ roster' = [roster EXCEPT ![server[p]][IdOf[p]] = NoPlayer]
  BY ZenonT(60), RosterAssumption, OpRecord
     DEF IInv, OnShards, TypeOK, Leave, Deleted, Ops

LEMMA EnterFrame ==
  ASSUME IInv, NEW p \in Players, Enter(p)
  PROVE  /\ server[p] \in Shards /\ IdOf[p] \in Ids
         /\ op[p].at = "enter" /\ op'[p].at = "entered"
         /\ \A q \in Players \ {p} : op'[q] = op[q]
         /\ UNCHANGED server
         /\ roster' = [roster EXCEPT ![server[p]][IdOf[p]] = p]
  BY ZenonT(60), RosterAssumption, OpRecord DEF IInv, OnShards, TypeOK, Enter, Ops

LEMMA FindFrame ==
  ASSUME IInv, NEW p \in Players, Find(p)
  PROVE  /\ op[p].at = "find" /\ op'[p].at \in {"idle", "enter"}
         /\ \A q \in Players \ {p} : op'[q] = op[q] /\ server'[q] = server[q]
         /\ server'[p] = FindServer(p)
         /\ UNCHANGED roster
<1> USE DEF IInv, TypeOK
<1>1. op[p].at = "find" /\ op[p].at # "idle"
  BY DEF Find
<1>2. op'[p].at \in {"idle", "enter"} /\ \A q \in Players \ {p} : op'[q] = op[q]
  <2>1. CASE FindServer(p) = NoShard
    BY <1>1, <2>1, ReturnFrame DEF Find, Idle
  <2>2. CASE FindServer(p) # NoShard
    <3>1. [op[p] EXCEPT !.at = "enter"].at = "enter"
      BY <1>1, OpRecord DEF Ops
    <3> QED
      BY <1>1, <2>2, <3>1 DEF Find
  <2> QED
    BY <2>1, <2>2
<1> QED
  BY <1>1, <1>2 DEF Find

LEMMA LeaveSentFrame ==
  ASSUME IInv, NEW p \in Players, NEW K, LeaveSent(p, K)
  PROVE  /\ server[p] \in Shards /\ IdOf[p] \in Ids
         /\ op[p].at = "left" /\ op'[p].at \in {"idle", "find"}
         /\ \A q \in Players \ {p} : op'[q] = op[q] /\ server'[q] = server[q]
         /\ server'[p] \in {server[p], NoShard}
         /\ UNCHANGED <<roster, life, world, servers>>
         /\ Send(server[p], [type |-> "Leave", who |-> p])
<1> USE DEF IInv, TypeOK
<1>1. server[p] \in Shards /\ IdOf[p] \in Ids /\ op[p].at = "left"
      /\ op[p].at # "idle"
  BY RosterAssumption DEF LeaveSent, OnShards
<1>2. /\ op'[p].at \in {"idle", "find"}
      /\ \A q \in Players \ {p} : op'[q] = op[q] /\ server'[q] = server[q]
      /\ server'[p] \in {server[p], NoShard}
  <2>1. CASE op[p].call = "add"
    <3>1. [op[p] EXCEPT !.at = "find"].at = "find"
      BY <1>1, OpRecord DEF Ops
    <3> QED
      BY <1>1, <2>1, <3>1 DEF LeaveSent
  <2>2. CASE op[p].call = "rem"
    BY <1>1, <2>2, ReturnFrame DEF LeaveSent, Forgotten, Idle
  <2> QED
    BY <2>1, <2>2 DEF LeaveSent
<1> QED
  BY <1>1, <1>2 DEF LeaveSent

LEMMA EnterSentFrame ==
  ASSUME IInv, NEW p \in Players, NEW K, EnterSent(p, K)
  PROVE  /\ server[p] \in Shards /\ IdOf[p] \in Ids
         /\ op[p].at = "entered" /\ op'[p].at = "idle"
         /\ \A q \in Players \ {p} : op'[q] = op[q]
         /\ UNCHANGED <<roster, server, life, world, servers>>
         /\ Send(server[p], [type |-> "Join", who |-> p])
<1> USE DEF IInv, TypeOK
<1>1. server[p] \in Shards /\ IdOf[p] \in Ids /\ op[p].at = "entered"
      /\ op[p].at # "idle"
  BY RosterAssumption DEF EnterSent, OnShards
<1>2. op' = [op EXCEPT ![p] = Idle]
  BY <1>1, ReturnFrame DEF EnterSent
<1> QED
  BY <1>1, <1>2 DEF EnterSent, Idle

LEMMA WriterHoldsStep ==
  ASSUME IInv, WriterHolds, Next
  PROVE  WriterHolds'
<1> USE DEF IInv
<1>1. ASSUME NEW p \in Players, Leave(p) PROVE WriterHolds'
  <2>1. \A q \in Players \ {p} : Writing(q) => server[q] \in Shards \ {server[p]}
    BY <1>1, LockedAlone DEF Leave
  <2>2. roster'[server[p]][IdOf[p]] = NoPlayer
    BY <1>1, LeaveFrame DEF TypeOK
  <2>3. \A s \in Shards : s # server[p] => roster'[s] = roster[s]
    BY <1>1, LeaveFrame DEF TypeOK
  <2>4. ASSUME NEW q \in Players \ {p}
        PROVE  /\ op'[q].at = "left"    => roster'[server'[q]][IdOf[q]] = NoPlayer
               /\ op'[q].at = "entered" => roster'[server'[q]][IdOf[q]] = q
    <3>1. op'[q] = op[q] /\ server' = server
      BY <1>1, LeaveFrame
    <3> QED
      BY <2>1, <2>3, <3>1 DEF WriterHolds, Writing
  <2>5. op'[p].at = "left" /\ server' = server
    BY <1>1, LeaveFrame
  <2> QED
    BY <2>2, <2>4, <2>5 DEF WriterHolds
<1>2. ASSUME NEW p \in Players, Enter(p) PROVE WriterHolds'
  <2>1. \A q \in Players \ {p} : Writing(q) => server[q] \in Shards \ {server[p]}
    BY <1>2, LockedAlone DEF Enter
  <2>2. roster'[server[p]][IdOf[p]] = p
    BY <1>2, EnterFrame DEF TypeOK
  <2>3. \A s \in Shards : s # server[p] => roster'[s] = roster[s]
    BY <1>2, EnterFrame DEF TypeOK
  <2>4. ASSUME NEW q \in Players \ {p}
        PROVE  /\ op'[q].at = "left"    => roster'[server'[q]][IdOf[q]] = NoPlayer
               /\ op'[q].at = "entered" => roster'[server'[q]][IdOf[q]] = q
    <3>1. op'[q] = op[q] /\ server' = server
      BY <1>2, EnterFrame
    <3> QED
      BY <2>1, <2>3, <3>1 DEF WriterHolds, Writing
  <2>5. op'[p].at = "entered" /\ server' = server
    BY <1>2, EnterFrame
  <2> QED
    BY <2>2, <2>4, <2>5 DEF WriterHolds
<1>3. ASSUME NEW p \in Players, Find(p) PROVE WriterHolds'
  BY <1>3, FindFrame DEF WriterHolds
<1>4. ASSUME NEW p \in Players, NEW K, LeaveSent(p, K) PROVE WriterHolds'
  BY <1>4, LeaveSentFrame DEF WriterHolds
<1>5. ASSUME NEW p \in Players, NEW K, EnterSent(p, K) PROVE WriterHolds'
  BY <1>5, EnterSentFrame DEF WriterHolds
<1>6. ASSUME UNCHANGED <<roster, server>>,
             \A q \in Players, a \in {"left", "entered"} :
               op'[q].at = a <=> op[q].at = a
      PROVE  WriterHolds'
  BY <1>6 DEF WriterHolds
<1> QED
  BY <1>1, <1>2, <1>3, <1>4, <1>5, <1>6, CallSteps

-----------------------------------------------------------------------------
(* Shards that have not connected *)

\* First yields an element of the list of shards.
LEMMA FirstIsListed ==
  ASSUME servers \in Seq(Shards), NEW S, First(S) # NoShard
  PROVE  \E k \in DOMAIN servers : First(S) = servers[k]
<1> DEFINE T == {k \in DOMAIN servers : servers[k] \in S}
<1>1. T # {}
  BY DEF First
<1>2. \E k \in T : \A j \in T : k <= j
  <2>1. T \subseteq Nat
    BY LenProperties
  <2> HIDE DEF T
  <2> QED
    BY <1>1, <2>1, FirstPosition
<1> QED
  BY <1>1, <1>2 DEF First

LEMMA FindServerIsListed ==
  ASSUME servers \in Seq(Shards), NEW p, FindServer(p) # NoShard
  PROVE  \E k \in DOMAIN servers : FindServer(p) = servers[k]
<1>1. \/ Matching(p) # NoShard /\ FindServer(p) = Matching(p)
      \/ Free # NoShard /\ FindServer(p) = Free
      \/ Spare # NoShard /\ FindServer(p) = Spare
  BY DEF FindServer
<1> QED
  BY <1>1, FirstIsListed DEF Matching, Free, Spare

\* The list without one of its elements holds no other shards.
LEMMA DelistedList ==
  ASSUME servers \in Seq(Shards), NEW s, Delist(s), NEW j \in DOMAIN servers'
  PROVE  \E k \in DOMAIN servers : servers'[j] = servers[k]
<1>1. PICK k \in DOMAIN servers : servers' =
         SubSeq(servers, 1, k - 1) \o SubSeq(servers, k + 1, Len(servers))
  BY DEF Delist
<1> DEFINE n == Len(servers)
           a == SubSeq(servers, 1, k - 1)
           b == SubSeq(servers, k + 1, n)
<1>2. n \in Nat /\ DOMAIN servers = 1..n /\ k \in 1..n
      /\ \A i \in 1..n : servers[i] \in Shards
  BY LenProperties, ElementOfSeq
<1>3. /\ a \in Seq(Shards) /\ Len(a) = k - 1
      /\ \A i \in 1..(k - 1) : a[i] = servers[i]
  BY <1>2, SubSeqProperties
<1>4. /\ b \in Seq(Shards) /\ Len(b) = n - k
      /\ \A i \in 1..(n - k) : b[i] = servers[k + i]
  <2>1. \A i \in (k + 1)..n : servers[i] \in Shards
    BY <1>2
  <2>2. k + 1 \in Int /\ n \in Int
    BY <1>2
  <2> HIDE DEF n
  <2>3. /\ SubSeq(servers, k + 1, n) \in Seq(Shards)
        /\ Len(SubSeq(servers, k + 1, n)) = IF k + 1 <= n THEN n - (k + 1) + 1 ELSE 0
        /\ \A i \in 1..(n - (k + 1) + 1) :
             SubSeq(servers, k + 1, n)[i] = servers[(k + 1) + i - 1]
    BY <2>1, <2>2, SubSeqProperties
  <2>4. /\ (IF k + 1 <= n THEN n - (k + 1) + 1 ELSE 0) = n - k
        /\ n - (k + 1) + 1 = n - k
        /\ \A i \in 1..(n - k) : (k + 1) + i - 1 = k + i
    BY <1>2
  <2> QED
    BY <2>3, <2>4
<1> HIDE DEF a, b
<1>5. /\ DOMAIN servers' = 1..(n - 1)
      /\ \A i \in 1..(n - 1) : servers'[i] = IF i <= k - 1 THEN a[i] ELSE b[i - (k - 1)]
  <2>1. servers' = a \o b
    BY <1>1 DEF a, b
  <2>2. Len(a) + Len(b) = n - 1
    BY <1>2, <1>3, <1>4
  <2>3. /\ a \o b \in Seq(Shards) /\ Len(a \o b) = Len(a) + Len(b)
        /\ \A i \in 1..(Len(a) + Len(b)) : (a \o b)[i] =
             IF i <= Len(a) THEN a[i] ELSE b[i - Len(a)]
    BY <1>3, <1>4, ConcatProperties
  <2>4. DOMAIN (a \o b) = 1..Len(a \o b)
    BY <2>3, LenProperties
  <2> QED
    BY <1>3, <2>1, <2>2, <2>3, <2>4
<1> HIDE DEF n
<1>6. CASE j <= k - 1
  BY <1>2, <1>3, <1>5, <1>6
<1>7. CASE ~(j <= k - 1)
  <2>1. j - (k - 1) \in 1..(n - k) /\ k + (j - (k - 1)) \in 1..n
    BY <1>2, <1>5, <1>7
  <2> QED
    BY <1>2, <1>4, <1>5, <1>7, <2>1
<1> QED
  BY <1>6, <1>7

\* A shard that has connected does not become new again.
LEMMA LifeGoesOn ==
  ASSUME TypeOK, Next, NEW s \in Shards, life'[s] = "off"
  PROVE  life[s] = "off"
<1>1. ASSUME NEW p \in Players, NEW K, LeaveSent(p, K) \/ EnterSent(p, K)
      PROVE  UNCHANGED life
  BY <1>1 DEF LeaveSent, EnterSent
<1>2. ASSUME NEW p \in Players, ForwardSent(p) PROVE UNCHANGED life
  BY <1>2 DEF ForwardSent
<1>3. ASSUME NEW t \in Shards,
             \/ HandlerSent(t) \/ Pump(t) \/ Connect(t)
             \/ HandlerFail(t) \/ Delist(t) \/ EvacEnd(t)
      PROVE  life[s] = "off"
  BY <1>3 DEF HandlerSent, Pump, Connect, HandlerFail, Delist, EvacEnd, TypeOK
<1> QED
  BY <1>1, <1>2, <1>3, WireSteps

LEMMA UnconnectedStep ==
  ASSUME IInv, UnconnectedIsEmpty, Next
  PROVE  UnconnectedIsEmpty'
<1> USE DEF IInv
<1>0. /\ servers \in Seq(Shards) /\ DOMAIN servers = 1..Len(servers)
      /\ Len(servers) \in Nat
      /\ \A k \in DOMAIN servers : servers[k] \in Shards /\ life'[servers[k]] # "off"
  <2>1. servers \in Seq(Shards)
    BY DEF TypeOK
  <2>2. \A k \in DOMAIN servers : servers[k] \in Shards
    BY <2>1, LenProperties, ElementOfSeq
  <2> QED
    BY <2>1, <2>2, LenProperties, LifeGoesOn DEF UnconnectedIsEmpty
<1>1. \A k \in DOMAIN servers' : life'[servers'[k]] # "off"
  <2>1. CASE UNCHANGED servers
    BY <1>0, <2>1
  <2>2. ASSUME NEW s \in Shards, Connect(s), NEW k \in DOMAIN servers'
        PROVE  life'[servers'[k]] # "off"
    <3>1. servers' = Append(servers, s) /\ life'[s] = "up"
      BY <2>2 DEF Connect, TypeOK
    <3>2. Append(servers, s) \in Seq(Shards) /\ Len(Append(servers, s)) = Len(servers) + 1
      BY <1>0, AppendProperties
    <3>3. DOMAIN servers' = 1..(Len(servers) + 1)
      BY <3>1, <3>2, LenProperties
    <3>4. \/ k \in DOMAIN servers /\ servers'[k] = servers[k]
          \/ servers'[k] = s
      BY <1>0, <3>1, <3>3, AppendProperties
    <3> QED
      BY <1>0, <3>1, <3>4
  <2>3. ASSUME NEW s \in Shards, Delist(s), NEW k \in DOMAIN servers'
        PROVE  life'[servers'[k]] # "off"
    BY <1>0, <2>3, DelistedList
  <2>4. CASE \E p \in Players, K \in SUBSET Slow : LeaveSent(p, K) \/ EnterSent(p, K)
    BY <2>1, <2>4 DEF LeaveSent, EnterSent
  <2>5. CASE \E p \in Players : ForwardSent(p)
    BY <2>1, <2>5 DEF ForwardSent
  <2>6. CASE \E s \in Shards : HandlerSent(s) \/ Pump(s) \/ HandlerFail(s) \/ EvacEnd(s)
    BY <2>1, <2>6 DEF HandlerSent, Pump, HandlerFail, EvacEnd
  <2> QED
    BY <2>1, <2>2, <2>3, <2>4, <2>5, <2>6, WireSteps
<1>2. ASSUME NEW p \in Players, NEW s \in Shards, server'[p] = s
      PROVE  life'[s] # "off"
  <2>1. CASE server[p] = s
    BY <2>1, LifeGoesOn DEF UnconnectedIsEmpty
  <2>2. CASE server[p] # s
    <3>1. CASE Find(p)
      <4>1. FindServer(p) = s /\ s # NoShard
        BY <1>2, <3>1, FindFrame, RosterAssumption
      <4> QED
        BY <1>0, <4>1, FindServerIsListed
    <3>2. CASE \E q \in Players \ {p} : Find(q)
      BY <1>2, <2>2, <3>2, FindFrame
    <3>3. CASE \E q \in Players : \/ Leave(q) \/ Enter(q)
                                  \/ \E K \in SUBSET Slow : EnterSent(q, K)
      BY <1>2, <2>2, <3>3, LeaveFrame, EnterFrame, EnterSentFrame
    <3>4. CASE \E q \in Players, K \in SUBSET Slow : LeaveSent(q, K)
      BY <1>2, <2>2, <3>4, LeaveSentFrame, RosterAssumption
    <3> QED
      BY <1>2, <2>2, <3>1, <3>2, <3>3, <3>4, CallSteps
  <2> QED
    BY <2>1, <2>2
<1>3. ASSUME NEW s \in Shards, life'[s] = "off"
      PROVE  out'[s] = <<>> /\ world'[s] = {}
  <2>1. life[s] = "off" /\ out[s] = <<>> /\ world[s] = {}
    BY <1>3, LifeGoesOn DEF UnconnectedIsEmpty
  <2>2. ASSUME NEW t \in Shards, NEW m \in Messages, Send(t, m), UNCHANGED world
        PROVE  out'[s] = <<>> /\ world'[s] = {}
    BY <2>1, <2>2, SendQueue
  <2>3. ASSUME NEW p \in Players, NEW K, LeaveSent(p, K)
        PROVE  out'[s] = <<>> /\ world'[s] = {}
    BY <2>2, <2>3, LeaveSentFrame DEF Messages
  <2>4. ASSUME NEW p \in Players, NEW K, EnterSent(p, K)
        PROVE  out'[s] = <<>> /\ world'[s] = {}
    BY <2>2, <2>4, EnterSentFrame DEF Messages
  <2>5. ASSUME NEW p \in Players, ForwardSent(p)
        PROVE  out'[s] = <<>> /\ world'[s] = {}
    <3>1. server[p] \in Shards
      BY <2>5 DEF ForwardSent, SessionHolds, TypeOK
    <3> QED
      BY <2>2, <2>5, <3>1 DEF ForwardSent, Messages
  <2>6. ASSUME NEW t \in Shards, HandlerSent(t)
        PROVE  out'[s] = <<>> /\ world'[s] = {}
    BY <2>2, <2>6 DEF HandlerSent, Messages
  <2>7. ASSUME NEW t \in Shards, Pump(t) \/ HandlerFail(t)
        PROVE  out'[s] = <<>> /\ world'[s] = {}
    <3>1. t # s
      BY <2>1, <2>7 DEF Pump, HandlerFail, ReadFails
    <3> QED
      BY <2>1, <2>7, <3>1 DEF Pump, HandlerFail, TypeOK
  <2>8. ASSUME NEW t \in Shards, Connect(t) \/ Delist(t) \/ EvacEnd(t)
        PROVE  out'[s] = <<>> /\ world'[s] = {}
    BY <2>1, <2>8 DEF Connect, Delist, EvacEnd
  <2> QED
    BY <2>1, <2>3, <2>4, <2>5, <2>6, <2>7, <2>8, WireSteps
<1> QED
  BY <1>1, <1>2, <1>3 DEF UnconnectedIsEmpty

-----------------------------------------------------------------------------
(* What game servers are told *)

\* The messages under way to a game server are messages.
LEMMA QueuedMessage ==
  ASSUME TypeOK, NEW s \in Shards, NEW k \in DOMAIN out[s]
  PROVE  /\ out[s][k] \in Messages /\ out[s][k].who \in Players \cup {NoPlayer}
         /\ k \in 1..Len(out[s]) /\ Len(out[s]) \in Nat
<1>1. out[s] \in Seq(Messages)
  BY DEF TypeOK
<1>2. k \in 1..Len(out[s]) /\ Len(out[s]) \in Nat /\ out[s][k] \in Messages
  BY <1>1, LenProperties, ElementOfSeq
<1> QED
  BY <1>2 DEF Messages, Chat

\* Who sends has logged in, and stays so.
LEMMA SendersSend ==
  ASSUME IInv, SendersOn, Next, NEW t \in Shards, NEW m \in Messages, Send(t, m),
         m.who # NoPlayer => sess[m.who] # "off"
  PROVE  SendersOn'
<1> SUFFICES ASSUME NEW s \in Shards, NEW k \in DOMAIN out'[s],
                    out'[s][k].who # NoPlayer
             PROVE  sess'[out'[s][k].who] # "off"
  BY DEF SendersOn
<1> USE DEF IInv
<1>1. \/ k \in DOMAIN out[s] /\ out'[s][k] = out[s][k]
      \/ out'[s][k] = m
  <2>1. CASE s # t \/ life[t] # "up"
    BY <2>1, SendQueue
  <2>2. CASE s = t /\ life[t] = "up"
    <3>1. k \in DOMAIN out[s] \/ k = Len(out[s]) + 1
      BY <2>2, SendQueue
    <3> QED
      BY <2>2, <3>1, SendQueue
  <2> QED
    BY <2>1, <2>2
<1>2. m.who \in Players \cup {NoPlayer}
  BY DEF Messages, Chat
<1> QED
  BY <1>1, <1>2, OffStep, QueuedMessage DEF SendersOn

LEMMA SendersStep ==
  ASSUME IInv, SendersOn, Next
  PROVE  SendersOn'
<1> USE DEF IInv
<1>1. ASSUME \A s \in Shards : \A k \in DOMAIN out'[s] :
               \E j \in DOMAIN out[s] : out'[s][k] = out[s][j]
      PROVE  SendersOn'
  BY <1>1, OffStep, QueuedMessage DEF SendersOn
<1>2. ASSUME NEW p \in Players, NEW K, LeaveSent(p, K) PROVE SendersOn'
  <2>1. op[p] # Idle
    <3>1. op[p].at = "left"
      BY <1>2, LeaveSentFrame
    <3> QED
      BY <3>1 DEF Idle
  <2>2. sess[p] # "off"
    BY <2>1 DEF OffIsNowhere
  <2>3. [type |-> "Leave", who |-> p] \in Messages
    BY DEF Messages
  <2> QED
    BY <1>2, <2>2, <2>3, LeaveSentFrame, SendersSend
<1>3. ASSUME NEW p \in Players, NEW K, EnterSent(p, K) PROVE SendersOn'
  <2>1. op[p] # Idle
    <3>1. op[p].at = "entered"
      BY <1>3, EnterSentFrame
    <3> QED
      BY <3>1 DEF Idle
  <2>2. sess[p] # "off"
    BY <2>1 DEF OffIsNowhere
  <2>3. [type |-> "Join", who |-> p] \in Messages
    BY DEF Messages
  <2> QED
    BY <1>3, <2>2, <2>3, EnterSentFrame, SendersSend
<1>4. ASSUME NEW p \in Players, ForwardSent(p) PROVE SendersOn'
  <2>1. /\ sess[p] # "off" /\ [type |-> "Fwd", who |-> p] \in Messages
        /\ server[p] \in Shards
    BY <1>4 DEF ForwardSent, SessionHolds, Messages, TypeOK
  <2> QED
    BY <1>4, <2>1, SendersSend DEF ForwardSent
<1>5. ASSUME NEW t \in Shards, HandlerSent(t) PROVE SendersOn'
  BY <1>5, SendersSend DEF HandlerSent, Messages, Chat
<1>6. ASSUME NEW t \in Shards, Pump(t) PROVE SendersOn'
  <2>1. ASSUME NEW k \in DOMAIN out'[t]
        PROVE  k + 1 \in DOMAIN out[t] /\ out'[t][k] = out[t][k + 1]
    BY <1>6, <2>1, PumpQueue
  <2> QED
    BY <1>1, <1>6, <2>1, PumpQueue
<1>7. ASSUME NEW t \in Shards, HandlerFail(t) PROVE SendersOn'
  <2>1. DOMAIN out'[t] = {} /\ \A s \in Shards : s # t => out'[s] = out[s]
    BY <1>7 DEF HandlerFail, TypeOK
  <2> QED
    BY <1>1, <2>1
<1>8. CASE UNCHANGED out
  BY <1>1, <1>8
<1> QED
  BY <1>2, <1>3, <1>4, <1>5, <1>6, <1>7, <1>8, WireSteps DEF Connect, Delist, EvacEnd

\* What sending does to what the game servers will have.
LEMMA WorldSend ==
  ASSUME TypeOK, NEW t \in Shards, NEW m \in Messages, Send(t, m),
         UNCHANGED world, NEW s \in Shards, life[s] = "up", NEW i \in Ids
  PROVE  WillHave(s, i)' <=> IF s = t /\ IsAbout(m, i) THEN m.type = "Join"
                             ELSE WillHave(s, i)
<1>1. CASE s = t
  BY <1>1, WillHaveSend
<1>2. CASE s # t
  <2>1. out'[s] = out[s]
    BY <1>2, SendQueue
  <2> QED
    BY <1>2, <2>1 DEF WillHave, IsAbout
<1> QED
  BY <1>1, <1>2

LEMMA WorldStep ==
  ASSUME IInv, WorldInv, Next
  PROVE  WorldAgrees'
<1> USE DEF IInv, WorldInv
<1> DEFINE Agrees(s, i) == life[s] = "up" /\ i \notin Changing(s) =>
                             (WillHave(s, i) <=> roster[s][i] # NoPlayer)
<1>0. \A s \in Shards, i \in Ids : Agrees(s, i)
  BY DEF WorldAgrees, Listed
<1> SUFFICES ASSUME NEW s \in Shards, NEW i \in Ids PROVE Agrees(s, i)'
  BY DEF WorldAgrees, Listed
<1>1. ASSUME UNCHANGED <<out, world, life>>, roster'[s][i] = roster[s][i],
             i \in Changing(s) => i \in Changing(s)'
      PROVE  Agrees(s, i)'
  <2>1. WillHave(s, i)' <=> WillHave(s, i)
    BY <1>1 DEF WillHave, IsAbout
  <2> QED
    BY <1>0, <1>1, <2>1
<1> HIDE DEF Agrees
\* The map changes where a call has begun to change it.
<1>2. ASSUME NEW p \in Players, Leave(p) \/ Enter(p) PROVE Agrees(s, i)'
  <2>1. /\ server[p] \in Shards /\ IdOf[p] \in Ids /\ UNCHANGED server
        /\ Writing(p)' /\ \A q \in Players \ {p} : op'[q] = op[q]
        /\ \E e : roster' = [roster EXCEPT ![server[p]][IdOf[p]] = e]
    BY <1>2, LeaveFrame, EnterFrame DEF Writing
  <2>2. UNCHANGED <<out, world, life>>
    BY <1>2 DEF Leave, Enter
  <2>3. CASE s = server[p] /\ i = IdOf[p]
    <3>1. i \in Changing(s)'
      BY <2>1, <2>3 DEF Changing
    <3> QED
      BY <3>1 DEF Agrees
  <2>4. CASE ~(s = server[p] /\ i = IdOf[p])
    <3>1. roster'[s][i] = roster[s][i]
      BY <2>1, <2>4 DEF TypeOK
    <3>2. i \in Changing(s) => i \in Changing(s)'
      BY <2>1, <2>4 DEF Changing, Writing
    <3> QED
      BY <1>1, <2>2, <3>1, <3>2
  <2> QED
    BY <2>3, <2>4
<1>3. ASSUME NEW p \in Players, Find(p) PROVE Agrees(s, i)'
  <2>1. UNCHANGED <<out, world, life, roster>>
    BY <1>3 DEF Find
  <2>2. i \in Changing(s) => i \in Changing(s)'
    BY <1>3, FindFrame DEF Changing, Writing
  <2> QED
    BY <1>1, <2>1, <2>2
\* The message comes when the map agrees with it again.
<1>4. ASSUME NEW p \in Players, NEW m \in Messages, Send(server[p], m),
             m.type \in {"Join", "Leave"}, m.who = p,
             server[p] \in Shards, IdOf[p] \in Ids,
             UNCHANGED <<world, life, roster>>,
             \A q \in Players \ {p} : op'[q] = op[q] /\ server'[q] = server[q],
             roster[server[p]][IdOf[p]] # NoPlayer <=> m.type = "Join"
      PROVE  Agrees(s, i)'
  <2>1. CASE s = server[p] /\ i = IdOf[p]
    <3>1. life[s] = "up" => (WillHave(s, i)' <=> m.type = "Join")
      BY <1>4, <2>1, WorldSend DEF IsAbout
    <3> QED
      BY <1>4, <2>1, <3>1 DEF Agrees
  <2>2. CASE ~(s = server[p] /\ i = IdOf[p])
    <3>1. life[s] = "up" => (WillHave(s, i)' <=> WillHave(s, i))
      BY <1>4, <2>2, WorldSend DEF IsAbout
    <3>2. i \in Changing(s) => i \in Changing(s)'
      BY <1>4, <2>2 DEF Changing, Writing
    <3> QED
      BY <1>0, <1>4, <3>1, <3>2 DEF Agrees
  <2> QED
    BY <2>1, <2>2
<1>5. ASSUME NEW p \in Players, NEW K, LeaveSent(p, K) PROVE Agrees(s, i)'
  <2>1. roster[server[p]][IdOf[p]] = NoPlayer
    BY <1>5, LeaveSentFrame DEF WriterHolds
  <2>2. [type |-> "Leave", who |-> p] \in Messages
    BY DEF Messages
  <2> QED
    BY <1>4, <1>5, <2>1, <2>2, LeaveSentFrame
<1>6. ASSUME NEW p \in Players, NEW K, EnterSent(p, K) PROVE Agrees(s, i)'
  <2>1. roster[server[p]][IdOf[p]] # NoPlayer
    BY <1>6, EnterSentFrame, RosterAssumption DEF WriterHolds
  <2>2. [type |-> "Join", who |-> p] \in Messages
    BY DEF Messages
  <2> QED
    BY <1>4, <1>6, <2>1, <2>2, EnterSentFrame
\* The other steps change no map and start or end no change of one.
<1>7. ASSUME UNCHANGED <<roster, server>>,
             \A q \in Players, a \in {"left", "entered"} :
               op'[q].at = a <=> op[q].at = a,
             ~ \E p \in Players, K \in SUBSET Slow : LeaveSent(p, K) \/ EnterSent(p, K)
      PROVE  Agrees(s, i)'
  <2>1. Changing(s)' = Changing(s)
    BY <1>7 DEF Changing, Writing
  <2>2. ASSUME life'[s] = "up" => life[s] = "up" /\ (WillHave(s, i)' <=> WillHave(s, i))
        PROVE  Agrees(s, i)'
    BY <1>0, <1>7, <2>1, <2>2 DEF Agrees
  <2>3. ASSUME NEW t \in Shards, NEW m \in Messages, Send(t, m),
               m.type \notin {"Join", "Leave"}, UNCHANGED <<world, life>>
        PROVE  Agrees(s, i)'
    <3>1. life[s] = "up" => (WillHave(s, i)' <=> WillHave(s, i))
      BY <2>3, WorldSend DEF IsAbout
    <3> QED
      BY <2>2, <2>3, <3>1
  <2>4. CASE \E p \in Players : ForwardSent(p)
    <3>1. PICK p \in Players : ForwardSent(p)
      BY <2>4
    <3>2. server[p] \in Shards /\ [type |-> "Fwd", who |-> p] \in Messages
      BY <3>1 DEF ForwardSent, SessionHolds, TypeOK, Messages
    <3> QED
      BY <2>3, <3>1, <3>2 DEF ForwardSent
  <2>5. ASSUME NEW t \in Shards, HandlerSent(t) PROVE Agrees(s, i)'
    BY <2>3, <2>5 DEF HandlerSent, Chat, Messages
  <2>6. ASSUME NEW t \in Shards, Pump(t) PROVE Agrees(s, i)'
    <3>1. s = t => (WillHave(s, i)' <=> WillHave(s, i))
      BY <2>6, WillHavePump
    <3>2. s # t => (WillHave(s, i)' <=> WillHave(s, i))
      BY <2>6, PumpQueue DEF WillHave, IsAbout
    <3> QED
      BY <2>2, <2>6, <3>1, <3>2 DEF Pump
  <2>7. ASSUME NEW t \in Shards, Connect(t) PROVE Agrees(s, i)'
    <3>1. UNCHANGED <<out, world>> /\ (s # t => life'[s] = life[s]) /\ life[t] = "off"
      BY <2>7 DEF Connect, TypeOK
    <3>2. CASE s # t
      BY <2>2, <3>1, <3>2 DEF WillHave, IsAbout
    <3>3. CASE s = t
      <4>1. out'[s] = <<>> /\ world'[s] = {}
        BY <3>1, <3>3 DEF UnconnectedIsEmpty
      <4>2. ~WillHave(s, i)'
        BY <4>1 DEF WillHave
      <4>3. roster[s][i] = NoPlayer
        BY <3>1, <3>3, ListedIsOn DEF UnconnectedIsEmpty
      <4> QED
        BY <1>7, <4>2, <4>3 DEF Agrees
    <3> QED
      BY <3>2, <3>3
  <2>8. ASSUME NEW t \in Shards, HandlerFail(t) \/ Delist(t) \/ EvacEnd(t)
        PROVE  Agrees(s, i)'
    <3>1. life'[t] # "up" /\ (s # t => life'[s] = life[s])
      BY <2>8 DEF HandlerFail, Delist, EvacEnd, TypeOK
    <3>2. s # t => out'[s] = out[s] /\ world'[s] = world[s]
      BY <2>8 DEF HandlerFail, Delist, EvacEnd, TypeOK
    <3> QED
      BY <2>2, <3>1, <3>2 DEF WillHave, IsAbout
  <2>9. CASE UNCHANGED <<out, world, life, servers>>
    BY <2>2, <2>9 DEF WillHave, IsAbout
  <2> QED
    BY <1>7, <2>4, <2>5, <2>6, <2>7, <2>8, <2>9, WireSteps
<1> QED
  BY <1>2, <1>3, <1>5, <1>6, <1>7, CallSteps

-----------------------------------------------------------------------------
(* What sessions forward *)

\* The k-th message under way to s, if forwarded, meets an avatar of i.
Meets(s, i, p, k) ==
  \/ /\ i \in world[s]
     /\ \A j \in 1..(k-1) : ~IsAbout(out[s][j], i)
  \/ \E j \in 1..(k-1) :
       /\ out[s][j] = [type |-> "Join", who |-> p]
       /\ \A l \in (j+1)..(k-1) : ~IsAbout(out[s][l], i)

\* What is forwarded now comes after the Join of its player and before the Leave:
\* the player is listed, and no call is changing its entry.
LEMMA ForwardedMeets ==
  ASSUME IInv, WorldInv, NEW p \in Players, sess[p] = "holding", Alone(p),
         life[server[p]] = "up"
  PROVE  Meets(server[p], IdOf[p], p, Len(out[server[p]]) + 1)
<1> DEFINE s == server[p]
           i == IdOf[p]
           n == Len(out[s])
<1> USE DEF IInv, WorldInv
<1>1. s \in Shards /\ i \in Ids /\ op[p] = Idle
  BY RosterAssumption DEF SessionHolds, TypeOK
<1>2. roster[s][i] = p
  <2>1. server[p] # NoShard /\ op[p].at = "idle"
    BY <1>1, RosterAssumption DEF Idle
  <2> QED
    BY <2>1 DEF AloneIsListed
<1>3. \A q \in Players : IdOf[q] = i => q = p \/ sess[q] = "off"
  BY DEF Alone
<1>4. i \notin Changing(s)
  BY <1>1, <1>3 DEF Changing, Writing, OffIsNowhere, Idle
<1>5. WillHave(s, i)
  <2>1. i \in Listed(s)
    BY <1>1, <1>2, RosterAssumption DEF Listed
  <2> QED
    BY <1>1, <1>4, <2>1 DEF WorldAgrees
<1>6. n \in Nat /\ DOMAIN out[s] = 1..n /\ \A k \in 1..n : out[s][k] \in Messages
  <2>1. out[s] \in Seq(Messages)
    BY <1>1 DEF TypeOK
  <2> QED
    BY <2>1, LenProperties, ElementOfSeq
<1>7. 1..((n + 1) - 1) = 1..n
  BY <1>6
<1>8. CASE i \in world[s] /\ \A k \in 1..n : ~IsAbout(out[s][k], i)
  BY <1>7, <1>8 DEF Meets
<1>9. ASSUME NEW k \in 1..n, IsAbout(out[s][k], i), out[s][k].type = "Join",
             \A j \in 1..n : j > k => ~IsAbout(out[s][j], i)
      PROVE  Meets(s, i, p, n + 1)
  <2>1. out[s][k] \in Messages /\ out[s][k].type = "Join"
    BY <1>6, <1>9
  <2>2. PICK q \in Players : out[s][k] = [type |-> "Join", who |-> q]
    BY <2>1 DEF Messages, Chat
  <2>3. IdOf[q] = i
    BY <1>9, <2>2 DEF IsAbout
  <2>4. sess[q] # "off"
    BY <1>1, <1>6, <2>2, RosterAssumption DEF SendersOn
  <2>5. q = p
    BY <1>3, <2>3, <2>4
  <2>6. \A l \in (k+1)..((n+1)-1) : l \in 1..n /\ l > k
    BY <1>6
  <2> QED
    BY <1>7, <1>9, <2>2, <2>5, <2>6 DEF Meets
<1>10. \/ i \in world[s] /\ \A k \in 1..n : ~IsAbout(out[s][k], i)
       \/ \E k \in 1..n : /\ IsAbout(out[s][k], i) /\ out[s][k].type = "Join"
                         /\ \A j \in 1..n : j > k => ~IsAbout(out[s][j], i)
  BY <1>5, <1>6 DEF WillHave
<1>11. Meets(s, i, p, n + 1)
  <2>1. CASE \E k \in 1..n : /\ IsAbout(out[s][k], i) /\ out[s][k].type = "Join"
                            /\ \A j \in 1..n : j > k => ~IsAbout(out[s][j], i)
    <3>1. PICK k \in 1..n : /\ IsAbout(out[s][k], i) /\ out[s][k].type = "Join"
                            /\ \A j \in 1..n : j > k => ~IsAbout(out[s][j], i)
      BY <2>1
    <3> QED
      BY <1>9, <3>1
  <2> QED
    BY <1>8, <1>10, <2>1
<1> QED
  BY <1>11

\* The write pump keeps the avatar that a forwarded message is to meet.
LEMMA PumpMeets ==
  ASSUME TypeOK, NEW s \in Shards, Pump(s), NEW p \in Players,
         NEW k \in DOMAIN out'[s], Meets(s, IdOf[p], p, k + 1)
  PROVE  Meets(s, IdOf[p], p, k)'
<1> DEFINE i == IdOf[p]
           n == Len(out[s])
<1>1. /\ n \in Nat \ {0} /\ k \in 1..(n - 1)
      /\ \A j \in 1..(n - 1) : out'[s][j] = out[s][j + 1]
      /\ i \in world'[s] <=> IF IsAbout(out[s][1], i)
                             THEN out[s][1].type = "Join" ELSE i \in world[s]
  BY PumpQueue, RosterAssumption
<1> HIDE DEF n
<1>2. (k + 1) - 1 = k /\ 1 \in 1..k
  BY <1>1
<1>3. \A j \in 1..(k-1) : j + 1 \in 1..k /\ j \in 1..(n - 1)
  BY <1>1
<1>4. CASE i \in world[s] /\ \A j \in 1..k : ~IsAbout(out[s][j], i)
  <2>1. i \in world'[s]
    BY <1>1, <1>2, <1>4
  <2>2. \A j \in 1..(k-1) : ~IsAbout(out'[s][j], i)
    BY <1>1, <1>3, <1>4
  <2> QED
    BY <2>1, <2>2 DEF Meets, IsAbout
<1>5. ASSUME NEW j \in 1..k, out[s][j] = [type |-> "Join", who |-> p],
             \A l \in (j+1)..k : ~IsAbout(out[s][l], i)
      PROVE  Meets(s, i, p, k)'
  <2>1. CASE j = 1
    <3>1. i \in world'[s]
      BY <1>1, <1>5, <2>1 DEF IsAbout
    <3>2. \A l \in 1..(k-1) : l + 1 \in (j+1)..k /\ l \in 1..(n-1)
      BY <1>1, <2>1
    <3>3. \A l \in 1..(k-1) : ~IsAbout(out'[s][l], i)
      BY <1>1, <1>5, <3>2
    <3> QED
      BY <3>1, <3>3 DEF Meets, IsAbout
  <2>2. CASE j # 1
    <3>1. j - 1 \in 1..(k-1) /\ j - 1 \in 1..(n-1) /\ (j - 1) + 1 = j
      BY <1>1, <2>2
    <3>2. out'[s][j-1] = [type |-> "Join", who |-> p]
      BY <1>1, <1>5, <3>1
    <3>3. \A l \in ((j-1)+1)..(k-1) : l + 1 \in (j+1)..k /\ l \in 1..(n-1)
      BY <1>1, <3>1
    <3>4. \A l \in ((j-1)+1)..(k-1) : ~IsAbout(out'[s][l], i)
      BY <1>1, <1>5, <3>3
    <3> QED
      BY <3>1, <3>2, <3>4 DEF Meets, IsAbout
  <2> QED
    BY <2>1, <2>2
<1> QED
  BY <1>2, <1>4, <1>5 DEF Meets

LEMMA ForwardStep ==
  ASSUME IInv, WorldInv, Next
  PROVE  ForwardMeetsAvatar'
<1> USE DEF IInv, WorldInv
<1> DEFINE Good(s, k) == out[s][k].type = "Fwd" /\ Alone(out[s][k].who) =>
                           Meets(s, IdOf[out[s][k].who], out[s][k].who, k)
<1>0. \A s \in Shards : \A k \in DOMAIN out[s] : Good(s, k)
  BY DEF ForwardMeetsAvatar, Meets
<1> SUFFICES ASSUME NEW s \in Shards, NEW k \in DOMAIN out'[s] PROVE Good(s, k)'
  BY DEF ForwardMeetsAvatar, Meets
<1>1. \A q \in Players : Alone(q)' => Alone(q)
  BY OffStep DEF Alone
<1>2. ASSUME k \in DOMAIN out[s], \A j \in DOMAIN out[s] : out'[s][j] = out[s][j],
             world'[s] = world[s]
      PROVE  Good(s, k)'
  <2>1. /\ out[s][k].type = "Fwd" => out[s][k].who \in Players
        /\ k \in 1..Len(out[s]) /\ Len(out[s]) \in Nat
        /\ DOMAIN out[s] = 1..Len(out[s])
    BY <1>2, QueuedMessage, LenProperties DEF TypeOK, Messages, Chat
  <2>2. \A j \in 1..(k-1) : j \in DOMAIN out[s]
    BY <2>1
  <2>3. \A j \in 1..(k-1) : \A l \in (j+1)..(k-1) : l \in DOMAIN out[s]
    BY <2>1
  <2>4. \A q \in Players : Meets(s, IdOf[q], q, k) => Meets(s, IdOf[q], q, k)'
    BY <1>2, <2>2, <2>3 DEF Meets, IsAbout
  <2> QED
    BY <1>0, <1>1, <1>2, <2>1, <2>4
<1>3. ASSUME NEW t \in Shards, NEW m \in Messages, Send(t, m), UNCHANGED world,
             k \notin DOMAIN out[s] => m.type # "Fwd"
      PROVE  Good(s, k)'
  <2>1. CASE k \in DOMAIN out[s]
    <3>1. \A j \in DOMAIN out[s] : out'[s][j] = out[s][j]
      BY <1>3, SendQueue
    <3> QED
      BY <1>2, <1>3, <2>1, <3>1
  <2>2. CASE k \notin DOMAIN out[s]
    <3>1. s = t /\ life[t] = "up"
      BY <1>3, <2>2, SendQueue
    <3>2. k = Len(out[s]) + 1 /\ out'[s][Len(out[s]) + 1] = m
      BY <1>3, <2>2, <3>1, SendQueue
    <3> QED
      BY <1>3, <2>2, <3>2
  <2> QED
    BY <2>1, <2>2
<1> HIDE DEF Good
<1>4. ASSUME NEW p \in Players, NEW K, LeaveSent(p, K) PROVE Good(s, k)'
  BY <1>3, <1>4, LeaveSentFrame DEF Messages
<1>5. ASSUME NEW p \in Players, NEW K, EnterSent(p, K) PROVE Good(s, k)'
  BY <1>3, <1>5, EnterSentFrame DEF Messages
<1>6. ASSUME NEW t \in Shards, HandlerSent(t) PROVE Good(s, k)'
  BY <1>3, <1>6 DEF HandlerSent, Messages, Chat
<1>7. ASSUME NEW p \in Players, ForwardSent(p) PROVE Good(s, k)'
  <2> DEFINE t == server[p]
             m == [type |-> "Fwd", who |-> p]
  <2>1. t \in Shards /\ m \in Messages /\ Send(t, m) /\ UNCHANGED world
        /\ sess[p] = "holding"
    BY <1>7 DEF ForwardSent, SessionHolds, TypeOK, Messages
  <2>2. CASE k \in DOMAIN out[s]
    BY <1>3, <2>1, <2>2
  <2>3. CASE k \notin DOMAIN out[s]
    <3>1. s = t /\ life[t] = "up"
      BY <2>1, <2>3, SendQueue
    <3>2. /\ k = Len(out[s]) + 1 /\ out'[s][k] = m /\ Len(out[s]) \in Nat
          /\ DOMAIN out[s] = 1..Len(out[s])
          /\ \A j \in DOMAIN out[s] : out'[s][j] = out[s][j]
      BY <2>1, <2>3, <3>1, SendQueue
    <3>3. Alone(p) => Meets(s, IdOf[p], p, k)
      BY <2>1, <3>1, <3>2, ForwardedMeets
    <3>4. \A j \in 1..(k-1) : j \in DOMAIN out[s]
      BY <3>2
    <3>5. \A j \in 1..(k-1) : \A l \in (j+1)..(k-1) : l \in DOMAIN out[s]
      BY <3>2
    <3>6. Meets(s, IdOf[p], p, k) => Meets(s, IdOf[p], p, k)'
      BY SMTT(60), <2>1, <3>2, <3>4, <3>5 DEF Meets, IsAbout
    <3> QED
      BY <1>1, <3>2, <3>3, <3>6 DEF Good
  <2> QED
    BY <2>2, <2>3
<1>8. ASSUME NEW t \in Shards, Pump(t) PROVE Good(s, k)'
  <2>1. CASE s # t
    BY <1>2, <1>8, <2>1, PumpQueue
  <2>2. CASE s = t
    <3>1. k + 1 \in DOMAIN out[s] /\ out'[s][k] = out[s][k + 1]
      BY <1>8, <2>2, PumpQueue
    <3>2. out[s][k + 1].type = "Fwd" => out[s][k + 1].who \in Players
      BY <3>1, QueuedMessage DEF Messages, Chat
    <3> QED
      BY <1>0, <1>1, <1>8, <2>2, <3>1, <3>2, PumpMeets DEF Good
  <2> QED
    BY <2>1, <2>2
<1>9. ASSUME NEW t \in Shards, HandlerFail(t) PROVE Good(s, k)'
  <2>1. s # t /\ out'[s] = out[s] /\ world'[s] = world[s]
    BY <1>9 DEF HandlerFail, TypeOK
  <2> QED
    BY <1>2, <2>1
<1>10. CASE UNCHANGED <<out, world>>
  BY <1>2, <1>10
<1> QED
  BY <1>4, <1>5, <1>6, <1>7, <1>8, <1>9, <1>10, WireSteps
     DEF Connect, Delist, EvacEnd

-----------------------------------------------------------------------------
(* What clients are told *)

\* Nobody is in the lists of two shards, or of one under another's id.
LEMMA MemberIs ==
  ASSUME IInv, NEW s \in Shards, NEW p
  PROVE  /\ p \in Members(s) <=> p \in Players /\ roster[s][IdOf[p]] = p
         /\ p \in Members(s) => server[p] = s /\ sess[p] # "off"
  BY ListedIsOn, RosterAssumption DEF IInv, Members, Listed, TypeOK

\* Outside those five points of a call a client is shown less only when its
\* player is about to enter a shard, and nobody stops being about to.
LEMMA ClientSteps ==
  ASSUME IInv, Next
  PROVE  \/ \E p \in Players :
              \/ Leave(p) \/ Find(p) \/ Enter(p)
              \/ \E K \in SUBSET Slow : LeaveSent(p, K) \/ EnterSent(p, K)
         \/ \A p \in Players :
              /\ sess[p] # "off" /\ open'[p] => open[p]
              /\ sess[p] \in {"adding", "inadd"} => sess'[p] \in {"adding", "inadd"}
              /\ view'[p] = view[p] \/ sess'[p] = "adding"
<1> USE DEF IInv, TypeOK
<1> DEFINE Kept(p) == /\ sess[p] # "off" /\ open'[p] => open[p]
                      /\ sess[p] \in {"adding", "inadd"} => sess'[p] \in {"adding", "inadd"}
                      /\ view'[p] = view[p] \/ sess'[p] = "adding"
<1>1. ASSUME NEW q \in Players, BeginJoin(q) \/ BeginMove(q) \/ BeginRemove(q),
             NEW p \in Players
      PROVE  Kept(p)
  BY <1>1 DEF BeginJoin, BeginMove, BeginRemove
<1>2. ASSUME NEW q \in Players, SessionStep(q), NEW p \in Players PROVE Kept(p)
  <2>1. CASE Auth(q) \/ Read(q) \/ Forward(q) \/ ForwardSent(q)
    BY <2>1 DEF Auth, Read, Forward, ForwardSent
  <2>2. CASE Join(q) \/ Disconnect(q)
    BY <2>2 DEF Join, Disconnect, Tell, Kick
  <2> QED
    BY <1>2, <2>1, <2>2 DEF SessionStep
<1>3. ASSUME NEW i \in Kicked, KickEvent(i), NEW p \in Players PROVE Kept(p)
  <2>1. UNCHANGED <<sess, view>> /\ (open'[p] => open[p])
    BY <1>3 DEF KickEvent, Kick
  <2> QED
    BY <2>1
<1>4. ASSUME NEW s \in Shards, ShardStep(s), NEW p \in Players PROVE Kept(p)
  <2>1. CASE UNCHANGED <<sess, open, view>>
    BY <2>1
  <2>2. CASE EvacChat(s) \/ \E K \in SUBSET Slow : HandlerTell(s, K)
    BY <2>2 DEF EvacChat, HandlerTell, Tell, Kick
  <2> QED
    BY <1>4, <2>1, <2>2
       DEF ShardStep, EvacStep, Connect, Pump, PumpFail, HandlerRead,
           HandlerLock, HandlerApply, HandlerWhisper, HandlerSent, HandlerFail,
           UpdateBegin, UpdateVisit, Delist, EvacNext, BeginEvac, EvacEnd,
           playerVars
<1> HIDE DEF Kept
<1>5. \/ \E p \in Players :
           \/ Leave(p) \/ Find(p) \/ Enter(p)
           \/ \E K \in SUBSET Slow : LeaveSent(p, K) \/ EnterSent(p, K)
      \/ \A p \in Players : Kept(p)
  BY <1>1, <1>2, <1>3, <1>4 DEF Next, CallStep
<1> QED
  BY <1>5 DEF Kept

LEMMA SeesStep ==
  ASSUME IInv, WorldInv, Next
  PROVE  SeesItsShard'
<1> USE DEF IInv, WorldInv
<1> DEFINE Watches(p) == open[p] /\ sess[p] \notin {"adding", "inadd"} /\ op[p].at # "entered"
<1>0. \A s \in Shards, p \in Players, i \in Ids :
        /\ roster[s][IdOf[p]] = p /\ Watches(p)
        /\ roster[s][i] # NoPlayer /\ i \notin Changing(s)
        => i \in view[p]
  BY MemberIs DEF SeesItsShard, Listed
<1> SUFFICES ASSUME NEW s \in Shards, NEW p \in Players, roster'[s][IdOf[p]] = p,
                    Watches(p)', NEW i \in Ids, roster'[s][i] # NoPlayer,
                    i \notin Changing(s)'
             PROVE  i \in view'[p]
  <2>1. RosterBacked' /\ TypeOK'
    BY Step
  <2>2. \A s \in Shards : \A p : p \in Members(s)' => p \in Players /\ roster'[s][IdOf[p]] = p
    BY <2>1 DEF Members, Listed, RosterBacked, TypeOK
  <2> QED
    BY <2>2 DEF SeesItsShard, Listed
\* Steps that neither list nor show anything
<1>1. ASSUME roster[s][IdOf[p]] = p, Watches(p), roster[s][i] # NoPlayer,
             i \in Changing(s) => i \in Changing(s)'
      PROVE  i \in view[p]
  BY <1>0, <1>1
<1>2. ASSUME NEW q \in Players, Leave(q) PROVE i \in view'[p]
  <2>1. UNCHANGED <<open, sess, view>>
    BY <1>2 DEF Leave
  <2>2. /\ roster[s][IdOf[p]] = p /\ roster[s][i] # NoPlayer
        /\ ~(s = server[q] /\ IdOf[p] = IdOf[q])
    BY <1>2, LeaveFrame, RosterAssumption DEF TypeOK
  <2>3. p # q
    BY <2>2, RosterAssumption DEF RosterBacked
  <2>4. i \in Changing(s) => i \in Changing(s)'
    <3>1. \A r \in Players : Writing(r) => Writing(r)'
      BY <1>2, LeaveFrame DEF Writing
    <3>2. UNCHANGED server
      BY <1>2, LeaveFrame
    <3> QED
      BY <3>1, <3>2 DEF Changing, Writing
  <2>5. Watches(p)
    BY <1>2, <2>1, <2>3, LeaveFrame
  <2> QED
    BY <1>1, <2>1, <2>2, <2>4, <2>5
<1>3. ASSUME NEW q \in Players, Enter(q) PROVE i \in view'[p]
  <2>1. UNCHANGED <<open, sess, view>>
    BY <1>3 DEF Enter
  <2>2. p # q
    BY <1>3, EnterFrame
  <2>3. IdOf[q] \in Changing(server[q])'
    <3>1. Writing(q)'
      BY <1>3, EnterFrame DEF Writing
    <3>2. UNCHANGED server
      BY <1>3, EnterFrame
    <3> QED
      BY <3>1, <3>2 DEF Changing, Writing
  <2>4. roster[s][IdOf[p]] = p /\ roster[s][i] # NoPlayer
    <3>1. ~(s = server[q] /\ i = IdOf[q]) /\ IdOf[p] \in Ids
      BY <1>3, <2>3, EnterFrame, RosterAssumption
    <3>2. \A j \in Ids : roster'[s][j] = IF s = server[q] /\ j = IdOf[q] THEN q ELSE roster[s][j]
      BY <1>3, EnterFrame DEF TypeOK
    <3> QED
      BY <2>2, <3>1, <3>2
  <2>5. i \in Changing(s) => i \in Changing(s)'
    <3>1. \A r \in Players : Writing(r) => Writing(r)'
      BY <1>3, EnterFrame DEF Writing
    <3>2. UNCHANGED server
      BY <1>3, EnterFrame
    <3> QED
      BY <3>1, <3>2 DEF Changing, Writing
  <2>6. Watches(p)
    BY <1>3, <2>1, <2>2, EnterFrame
  <2> QED
    BY <1>1, <2>1, <2>4, <2>5, <2>6
\* A call that returns changes no other session, and opens no connection.
<1>4. ASSUME NEW q \in Players, p # q, op[q].at # "idle",
             Return(q) \/ UNCHANGED sess, op'[p] = op[p], open'[p] => open[p]
      PROVE  Watches(p)
  BY <1>4 DEF Return, TypeOK
<1>5. ASSUME NEW q \in Players, Find(q) PROVE i \in view'[p]
  <2>1. UNCHANGED <<roster, view>>
    BY <1>5 DEF Find
  <2>2. p # q
    BY <1>5, <2>1, FindFrame, RosterAssumption DEF OffShards
  <2>3. i \in Changing(s) => i \in Changing(s)'
    BY <1>5, FindFrame DEF Changing, Writing
  <2>4. (Return(q) \/ UNCHANGED sess) /\ (open'[p] => open[p])
    BY <1>5 DEF Find, Kick
  <2>5. Watches(p)
    BY <1>4, <1>5, <2>2, <2>4, FindFrame
  <2> QED
    BY <1>1, <2>1, <2>3, <2>5
<1>6. ASSUME NEW q \in Players, NEW K, LeaveSent(q, K) PROVE i \in view'[p]
  <2>1. UNCHANGED roster /\ server[q] \in Shards /\ op[q].at = "left"
    BY <1>6, LeaveSentFrame
  <2>2. p # q
    BY <2>1, RosterAssumption DEF OffShards
  <2>3. ~(s = server[q] /\ i = IdOf[q])
    BY <2>1 DEF WriterHolds
  <2>4. i \in Changing(s) => i \in Changing(s)'
    <3>1. \A r \in Players \ {q} : op'[r] = op[r] /\ server'[r] = server[r]
      BY <1>6, LeaveSentFrame
    <3>2. \A r \in Players \ {q} : Writing(r) => Writing(r)'
      BY <3>1 DEF Writing
    <3> QED
      BY <2>3, <3>1, <3>2 DEF Changing
  <2>5. (Return(q) \/ UNCHANGED sess) /\ (open'[p] => open[p])
    BY <1>6 DEF LeaveSent, Tell, Kick
  <2>6. Watches(p)
    BY <1>4, <1>6, <2>1, <2>2, <2>5, LeaveSentFrame
  <2>7. i \in view[p]
    BY <1>1, <2>1, <2>4, <2>6
  <2>8. s # server[q] => p \notin Members(server[q])
    BY <2>1, MemberIs, RosterAssumption DEF RosterBacked
  <2>9. s = server[q] => i # IdOf[q]
    BY <2>3
  <2> QED
    BY <1>6, <2>7, <2>8, <2>9 DEF LeaveSent, Sees
<1>7. ASSUME NEW q \in Players, NEW K, EnterSent(q, K) PROVE i \in view'[p]
  <2>1. UNCHANGED roster /\ server[q] \in Shards /\ op[q].at = "entered"
    BY <1>7, EnterSentFrame
  <2>2. Return(q) /\ (open'[p] => open[p] /\ p \notin K)
    BY <1>7 DEF EnterSent, Tell, Kick
  <2>3. p \in Members(s) /\ server[p] = s
    BY <2>1, MemberIs, RosterAssumption DEF RosterBacked
  <2>4. p # q => Watches(p)
    BY <1>4, <1>7, <2>1, <2>2, EnterSentFrame
  <2>5. ~(s = server[q] /\ i = IdOf[q]) => (i \in Changing(s) => i \in Changing(s)')
    <3>1. \A r \in Players \ {q} : op'[r] = op[r] /\ server'[r] = server[r]
      BY <1>7, EnterSentFrame
    <3>2. \A r \in Players \ {q} : Writing(r) => Writing(r)'
      BY <3>1 DEF Writing
    <3> QED
      BY <3>1, <3>2 DEF Changing
  <2>6. p # q /\ ~(s = server[q] /\ i = IdOf[q]) => i \in view[p]
    BY <1>1, <2>1, <2>4, <2>5
  <2>7. CASE s # server[q]
    <3>1. p \notin Members(server[q]) /\ p # q
      BY <2>1, <2>3, <2>7, MemberIs
    <3> QED
      BY <1>7, <2>6, <2>7, <3>1 DEF EnterSent
  <2>8. CASE s = server[q]
    <3>1. view'[p] = Shown(q, p, s)
      BY <1>7, <2>2, <2>3, <2>8 DEF EnterSent
    <3>2. i \in Listed(s)
      BY <2>1 DEF Listed
    <3> QED
      BY <2>6, <2>8, <3>1, <3>2 DEF Shown, Sees
  <2> QED
    BY <2>7, <2>8
<1>8. ASSUME UNCHANGED <<roster, server>>,
             \A q \in Players, a \in {"left", "entered"} :
               op'[q].at = a <=> op[q].at = a,
             /\ sess[p] # "off" /\ open'[p] => open[p]
             /\ sess[p] \in {"adding", "inadd"} => sess'[p] \in {"adding", "inadd"}
             /\ view'[p] = view[p] \/ sess'[p] = "adding"
      PROVE  i \in view'[p]
  <2>1. sess[p] # "off"
    BY <1>8, MemberIs
  <2>2. Watches(p) /\ view'[p] = view[p]
    BY <1>8, <2>1
  <2>3. i \in Changing(s) => i \in Changing(s)'
    BY <1>8 DEF Changing, Writing
  <2> QED
    BY <1>1, <1>8, <2>2, <2>3
<1> QED
  BY <1>2, <1>3, <1>5, <1>6, <1>7, <1>8, CallSteps, ClientSteps

-----------------------------------------------------------------------------
(* The theorems *)

LEMMA WorldStart == Init => WorldInv
<1> SUFFICES ASSUME Init PROVE WorldInv
  OBVIOUS
<1>1. /\ \A s \in Shards : roster[s] = NoEntry /\ out[s] = <<>> /\ world[s] = {}
      /\ \A s \in Shards : life[s] = "off"
      /\ \A p \in Players : op[p] = Idle /\ server[p] = NoShard
  BY DEF Init
<1>2. WriterHolds
  BY <1>1 DEF WriterHolds, Idle
<1>3. UnconnectedIsEmpty
  BY <1>1, RosterAssumption DEF Init, UnconnectedIsEmpty
<1>4. SendersOn /\ ForwardMeetsAvatar /\ WorldAgrees
  BY <1>1 DEF SendersOn, ForwardMeetsAvatar, WorldAgrees
<1>5. SeesItsShard
  BY <1>1 DEF SeesItsShard, Members, Listed, NoEntry
<1> QED
  BY <1>2, <1>3, <1>4, <1>5 DEF WorldInv

LEMMA WorldInvStep == IInv /\ WorldInv /\ [Next]_vars => WorldInv'
<1> SUFFICES ASSUME IInv, WorldInv, [Next]_vars PROVE WorldInv'
  OBVIOUS
<1>1. CASE Next
  <2>1. WriterHolds /\ UnconnectedIsEmpty /\ SendersOn
    BY DEF WorldInv
  <2>2. WriterHolds' /\ UnconnectedIsEmpty' /\ SendersOn'
    BY <1>1, <2>1, WriterHoldsStep, UnconnectedStep, SendersStep
  <2>3. WorldAgrees' /\ ForwardMeetsAvatar' /\ SeesItsShard'
    BY <1>1, WorldStep, ForwardStep, SeesStep
  <2> QED
    BY <2>2, <2>3 DEF WorldInv
<1>2. CASE UNCHANGED vars
  <2> USE <1>2 DEF vars, shardVars, playerVars, WorldInv
  <2>1. WriterHolds' /\ UnconnectedIsEmpty' /\ SendersOn'
    BY DEF WriterHolds, UnconnectedIsEmpty, SendersOn
  <2>2. WorldAgrees'
    BY DEF WorldAgrees, WillHave, IsAbout, Changing, Writing, Listed
  <2>3. ForwardMeetsAvatar'
    BY DEF ForwardMeetsAvatar, IsAbout, Alone
  <2>4. SeesItsShard'
    BY DEF SeesItsShard, Members, Listed, Changing, Writing
  <2> QED
    BY <2>1, <2>2, <2>3, <2>4
<1> QED
  BY <1>1, <1>2

\* The invariant about game servers and clients: a call that has changed a map
\* finds its change there when it sends the Join or Leave.
THEOREM WorldInvariance == Spec => []WorldInv
  BY WorldStart, WorldInvStep, Invariance, PTL DEF Spec

\* The avatars of a game server, once it has read what is under way to it, are
\* those of the players its shard lists, whatever moves, kicks, evacuations and
\* logins as the same user do.
THEOREM WorldFollowsRoster == Spec => []WorldAgrees
<1>1. WorldInv => WorldAgrees
  BY DEF WorldInv
<1> QED
  BY <1>1, WorldInvariance, PTL

\* What a session forwards reaches the game server after the Join of its player
\* and before the Leave: sendServer holds player.lock while it sends.
THEOREM ForwardsAreInOrder == Spec => []ForwardMeetsAvatar
<1>1. WorldInv => ForwardMeetsAvatar
  BY DEF WorldInv
<1> QED
  BY <1>1, WorldInvariance, PTL

\* A listed player whose connection is open is shown every player of its shard,
\* although who enters and who leaves is told by calls that run concurrently.
THEOREM ClientsSeeTheirShard == Spec => []SeesItsShard
<1>1. WorldInv => SeesItsShard
  BY DEF WorldInv
<1> QED
  BY <1>1, WorldInvariance, PTL
=============================================================================
