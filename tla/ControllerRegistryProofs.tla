---------------------- MODULE ControllerRegistryProofs ----------------------
(***************************************************************************)
(* Theorems of ControllerRegistry: a channel in the map of servers has a   *)
(* reader, and a kick whose reader is gone waits for good; its types; what *)
(* the controller lists for a host, and where a kick is sent.              *)
(***************************************************************************)
EXTENDS ControllerRegistry, SequenceTheorems, TLAPS

\* What the two theorems need of the types.
Channels ==
  /\ servers \in [Hosts -> Streams \cup {NoStream}]
  /\ handler \in [Streams -> {"none", "called", "open"}]
  /\ owner   \in [Streams -> Hosts \cup {NoHost}]
  /\ auth    \in [Logins -> {"none", "look", "kick", "reset"}]
  /\ chan    \in [Logins -> Streams \cup {NoStream}]
  /\ sess    \in [Logins -> {"off", "auth", "in", "finding", "found", "moving",
                             "play", "over"}]

\* A login that has not called Auth has no Auth.
AuthIsCalled == \A l \in Logins : sess[l] = "off" => auth[l] = "none"

\* The variables that they are about.
chanVars == <<servers, handler, owner, auth, chan>>

ChanInv == Channels /\ RegisteredIsRead /\ AuthIsCalled

\* The steps of Next that touch none of these variables.
OtherStep ==
  \/ \E c \in calls \cup late : Serve(c) \/ MoveRead(c)
  \/ \E m \in moving : MoveWrite(m)
  \/ AdminRead \/ CommandSent
  \/ \E u \in Kicked : Command(u)
  \/ \E l \in Logins : JoinStep(l) \/ Rejoin(l)
  \/ \E s \in Shards : Add(s) \/ (s \in Ending /\ Remove(s))
  \/ \E h \in Hosts : LockStep(h) \/ Reconnect(h)
  \/ \E h \in Hosts : Sync(h) \/ SyncAsk(h) \/ SyncNext(h) \/ RecvFails(h)
  \/ Start

ChanStep ==
  \/ \E k \in Streams : HandlerStart(k) \/ HandlerEnd(k)
  \/ \E l \in Logins : AuthCall(l) \/ AuthDenied(l) \/ AuthLook(l)
                         \/ AuthKick(l) \/ AuthReset(l)
  \/ \E h \in Hosts : Events(h) \/ Break(h)
  \/ Crash

LEMMA Split == Next => OtherStep \/ ChanStep
BY DEF Next, OtherStep, ChanStep, StreamStep, AuthStep, LoopStep

LEMMA OthersKeep == OtherStep => UNCHANGED chanVars
<1> SUFFICES ASSUME OtherStep PROVE UNCHANGED chanVars
  OBVIOUS
<1> USE DEF chanVars, goVars, netVars, ctlVars
<1>1. CASE \E c \in calls \cup late : Serve(c) \/ MoveRead(c)
  BY <1>1 DEF Serve, MoveRead
<1>2. CASE \E m \in moving : MoveWrite(m)
  BY <1>2 DEF MoveWrite
<1>3. CASE AdminRead \/ CommandSent \/ \E u \in Kicked : Command(u)
  BY <1>3 DEF AdminRead, CommandSent, Command
<1>4. CASE \E l \in Logins : JoinStep(l) \/ Rejoin(l)
  BY <1>4 DEF JoinStep, Find, Move, Play, Rejoin
<1>5. CASE \E s \in Shards : Add(s) \/ (s \in Ending /\ Remove(s))
  BY <1>5 DEF Add, Remove
<1>6. CASE \E h \in Hosts : LockStep(h) \/ Reconnect(h)
  BY <1>6 DEF LockStep, Added, Removed, Found, Reconnect
<1>7. CASE \E h \in Hosts : Sync(h) \/ SyncAsk(h) \/ SyncNext(h) \/ RecvFails(h)
  BY <1>7 DEF Sync, SyncAsk, SyncNext, RecvFails
<1>8. CASE Start
  BY <1>8 DEF Start
<1> QED
  BY <1>1, <1>2, <1>3, <1>4, <1>5, <1>6, <1>7, <1>8 DEF OtherStep

\* A session that has called Auth never waits to call it again.
LEMMA OthersBegun ==
  ASSUME Channels, OtherStep
  PROVE  /\ sess' \in [Logins -> {"off", "auth", "in", "finding", "found", "moving",
                                  "play", "over"}]
         /\ \A l \in Logins : sess'[l] = "off" => sess[l] = "off"
<1> USE DEF Channels, sessVars
<1>1. CASE \E c \in calls \cup late : Serve(c) \/ MoveRead(c)
  BY <1>1 DEF Serve, MoveRead
<1>2. CASE \E m \in moving : MoveWrite(m)
  BY <1>2 DEF MoveWrite
<1>3. CASE AdminRead \/ CommandSent \/ \E u \in Kicked : Command(u)
  BY <1>3 DEF AdminRead, CommandSent, Command
<1>4. CASE \E l \in Logins : JoinStep(l) \/ Rejoin(l)
  <2>1. PICK l \in Logins : Find(l) \/ Move(l) \/ Play(l) \/ Rejoin(l)
    BY <1>4 DEF JoinStep
  <2>2. \E a \in {"in", "finding", "found", "moving", "play"} :
          sess' = [sess EXCEPT ![l] = a]
    BY <2>1 DEF Find, Move, Play, Rejoin
  <2> QED
    BY <2>2
<1>5. CASE \E s \in Shards : Add(s) \/ (s \in Ending /\ Remove(s))
  BY <1>5 DEF Add, Remove
<1>6. CASE \E h \in Hosts : LockStep(h) \/ Reconnect(h)
  <2>1. PICK h \in Hosts : Added(h) \/ Removed(h) \/ Found(h) \/ Reconnect(h)
    BY <1>6 DEF LockStep
  <2>2. \/ sess' = sess
        \/ sess' = [sess EXCEPT ![lock[h].by] = "found"]
    BY <2>1 DEF Added, Removed, Found, Reconnect
  <2> QED
    BY <2>2
<1>7. CASE \E h \in Hosts : Sync(h) \/ SyncAsk(h) \/ SyncNext(h) \/ RecvFails(h)
  BY <1>7 DEF Sync, SyncAsk, SyncNext, RecvFails
<1>8. CASE Start
  BY <1>8 DEF Start
<1> QED
  BY <1>1, <1>2, <1>3, <1>4, <1>5, <1>6, <1>7, <1>8 DEF OtherStep

LEMMA ChanInit == Init => ChanInv
BY DEF Init, ChanInv, Channels, RegisteredIsRead, AuthIsCalled

\* The channel that a kick is sent to is one of the map, or none.
LEMMA KickChanType ==
  ASSUME Channels, NEW u
  PROVE  KickChan(u) \in Streams \cup {NoStream}
BY DEF Channels, KickChan

LEMMA ChanNext == ChanInv /\ [Next]_vars => ChanInv'
<1> SUFFICES ASSUME ChanInv, [Next]_vars PROVE ChanInv'
  OBVIOUS
<1> USE RegistryAssumption DEF ChanInv, Channels, RegisteredIsRead, AuthIsCalled
<1>1. CASE OtherStep
  BY <1>1, OthersKeep, OthersBegun DEF chanVars
<1>2. ASSUME NEW k \in Streams, HandlerStart(k) PROVE ChanInv'
  <2>1. /\ handler[k] = "called"
        /\ handler' = [handler EXCEPT ![k] = "open"]
        /\ servers' = [servers EXCEPT ![owner[k]] = k]
        /\ UNCHANGED <<owner, auth, chan, sess>>
    BY <1>2 DEF HandlerStart, Registered, netVars, sessVars
  <2>2. Channels' /\ AuthIsCalled'
    BY <2>1
  <2>3. ASSUME NEW h \in Hosts, servers'[h] # NoStream
        PROVE  handler'[servers'[h]] = "open" /\ owner'[servers'[h]] = h
    <3>1. CASE h = owner[k]
      BY <2>1, <3>1
    <3>2. CASE h # owner[k]
      <4>1. servers'[h] = servers[h] /\ servers[h] \in Streams
        BY <2>1, <2>3, <3>2
      <4> QED
        BY <2>1, <2>3, <4>1
    <3> QED
      BY <3>1, <3>2
  <2> QED
    BY <2>2, <2>3
<1>3. ASSUME NEW k \in Streams, HandlerEnd(k) PROVE ChanInv'
  <2>1. /\ handler' = [handler EXCEPT ![k] = "none"]
        /\ servers' = [servers EXCEPT ![owner[k]] = NoStream]
        /\ UNCHANGED <<owner, auth, chan, sess>>
    BY <1>3 DEF HandlerEnd, Unregistered, netVars, sessVars
  <2>2. Channels' /\ AuthIsCalled'
    BY <2>1
  <2>3. ASSUME NEW h \in Hosts, servers'[h] # NoStream
        PROVE  handler'[servers'[h]] = "open" /\ owner'[servers'[h]] = h
    <3>1. h # owner[k] /\ servers'[h] = servers[h] /\ servers[h] \in Streams
      BY <2>1, <2>3
    <3>2. servers[h] # k
      BY <3>1
    <3> QED
      BY <2>1, <3>1, <3>2
  <2> QED
    BY <2>2, <2>3
<1>4. ASSUME NEW l \in Logins, AuthCall(l) \/ AuthDenied(l) \/ AuthLook(l)
                                 \/ AuthKick(l) \/ AuthReset(l)
      PROVE ChanInv'
  <2>1. UNCHANGED <<servers, handler, owner>>
    BY <1>4 DEF AuthCall, AuthDenied, AuthLook, AuthKick, AuthReset, ctlVars, netVars
  <2>2. auth' \in [Logins -> {"none", "look", "kick", "reset"}]
    BY <1>4 DEF AuthCall, AuthDenied, AuthLook, AuthKick, AuthReset, AfterLook
  <2>3. chan' \in [Logins -> Streams \cup {NoStream}]
    BY <1>4, KickChanType DEF AuthCall, AuthDenied, AuthLook, AuthKick, AuthReset
  <2>4. /\ sess' \in [Logins -> {"off", "auth", "in", "finding", "found", "moving",
                                 "play", "over"}]
        /\ AuthIsCalled'
    BY <1>4 DEF AuthCall, AuthDenied, AuthLook, AuthKick, AuthReset, sessVars
  <2> QED
    BY <2>1, <2>2, <2>3, <2>4
<1>5. ASSUME NEW h \in Hosts, Events(h) PROVE ChanInv'
  <2>1. PICK k \in Streams :
          /\ Unused(k)
          /\ handler' = [handler EXCEPT ![k] = "called"]
          /\ owner'   = [owner EXCEPT ![k] = h]
    BY <1>5 DEF Events
  <2>2. UNCHANGED <<servers, auth, chan, sess>>
    BY <1>5 DEF Events, ctlVars, sessVars
  <2>3. \A g \in Hosts : servers[g] # k
    BY <2>1 DEF Unused
  <2> QED
    BY <2>1, <2>2, <2>3
<1>6. ASSUME NEW h \in Hosts, Break(h) PROVE ChanInv'
  <2>1. PICK lost \in BOOLEAN :
          handler' = [k \in Streams |-> IF lost /\ owner[k] = h /\ handler[k] = "called"
                                        THEN "none" ELSE handler[k]]
    BY <1>6 DEF Break
  <2>2. UNCHANGED <<servers, owner, auth, chan>>
    BY <1>6 DEF Break
  <2>3. sess' = [l \in Logins |-> IF l \in Waiting(h) THEN "over" ELSE sess[l]]
    BY <1>6 DEF Break
  <2> QED
    BY <2>1, <2>2, <2>3
<1>7. CASE Crash
  BY <1>7 DEF Crash
<1>8. CASE UNCHANGED vars
  BY <1>8 DEF vars, ctlVars, goVars, netVars, sessVars
<1> QED
  BY <1>1, <1>2, <1>3, <1>4, <1>5, <1>6, <1>7, <1>8, Split DEF ChanStep

\* In every reachable state the channel of a host that is in the map of servers is
\* read by an Events of that host, however often the host's streams end and are
\* opened again and in whatever order their handlers start and end.
THEOREM RegisteredHasReader == Spec => []RegisteredIsRead
<1>1. Spec => []ChanInv
  BY ChanInit, ChanNext, PTL DEF Spec
<1>2. ChanInv => RegisteredIsRead
  BY DEF ChanInv
<1> QED
  BY <1>1, <1>2, PTL

LEMMA OrphanStays ==
  ASSUME ChanInv, [Next]_vars, NEW l \in Logins, Orphaned(l), up'
  PROVE  Orphaned(l)'
<1> USE RegistryAssumption DEF ChanInv, Channels, AuthIsCalled, Orphaned
<1>1. CASE UNCHANGED chanVars
  BY <1>1 DEF chanVars
<1>2. ASSUME NEW k \in Streams, HandlerStart(k) \/ HandlerEnd(k) PROVE Orphaned(l)'
  <2>1. UNCHANGED <<auth, chan>>
    BY <1>2 DEF HandlerStart, HandlerEnd
  <2>2. \/ handler[k] = "called" /\ handler' = [handler EXCEPT ![k] = "open"]
        \/ handler' = [handler EXCEPT ![k] = "none"]
    BY <1>2 DEF HandlerStart, HandlerEnd
  <2> QED
    BY <2>1, <2>2
<1>3. ASSUME NEW m \in Logins, AuthCall(m) \/ AuthDenied(m) \/ AuthLook(m)
                                 \/ AuthKick(m) \/ AuthReset(m)
      PROVE Orphaned(l)'
  <2>1. CASE AuthCall(m)
    BY <2>1 DEF AuthCall
  <2>2. CASE AuthDenied(m) \/ AuthLook(m)
    BY <2>2 DEF AuthDenied, AuthLook
  <2>3. CASE AuthKick(m)
    BY <2>3 DEF AuthKick, Receives
  <2>4. CASE AuthReset(m)
    BY <2>4 DEF AuthReset
  <2> QED
    BY <1>3, <2>1, <2>2, <2>3, <2>4
<1>4. ASSUME NEW h \in Hosts, Events(h) PROVE Orphaned(l)'
  <2>1. PICK k \in Streams :
          Unused(k) /\ handler' = [handler EXCEPT ![k] = "called"]
    BY <1>4 DEF Events
  <2>2. chan[l] # k
    BY <2>1 DEF Unused
  <2> QED
    BY <1>4, <2>1, <2>2 DEF Events
<1>5. ASSUME NEW h \in Hosts, Break(h) PROVE Orphaned(l)'
  BY <1>5 DEF Break
<1>6. CASE Crash
  BY <1>6 DEF Crash
<1>7. CASE UNCHANGED vars
  BY <1>7, <1>1 DEF vars, chanVars, ctlVars, goVars, netVars
<1> QED
  BY <1>1, <1>2, <1>3, <1>4, <1>5, <1>6, <1>7, Split, OthersKeep DEF ChanStep

\* A login whose kick has lost its reader waits until the controller ends: neither
\* a new stream of the host nor any other call reaches the channel it sends to.
THEOREM OrphansWait == Spec => OrphanedForGood
<1>1. Spec => []ChanInv
  BY ChanInit, ChanNext, PTL DEF Spec
<1>2. ChanInv /\ [Next]_vars
        => [\A l \in Logins : Orphaned(l) => Orphaned(l)' \/ ~up']_vars
  BY OrphanStays
<1> QED
  BY <1>1, <1>2, PTL DEF Spec, OrphanedForGood

-----------------------------------------------------------------------------
(* Types *)

\* The groups of variables that steps leave alone
USE DEF ctlVars, goVars, netVars, callVars, smVars, loopVars, sessVars

-----------------------------------------------------------------------------
(* Sequences *)

LEMMA SeqFunction ==
  ASSUME NEW S, NEW n \in Nat, NEW f \in [1..n -> S]
  PROVE  f \in Seq(S) /\ Len(f) = n /\ DOMAIN f = 1..n
<1>1. f \in Seq(S)
  BY SeqDef
<1>2. Len(f) \in Nat /\ DOMAIN f = 1..Len(f) /\ DOMAIN f = 1..n
  BY <1>1, LenProperties
<1> QED
  BY <1>1, <1>2

LEMMA SeqPlaces ==
  ASSUME NEW S, NEW q \in Seq(S)
  PROVE  /\ Len(q) \in Nat /\ DOMAIN q = 1..Len(q)
         /\ \A i \in DOMAIN q : q[i] \in S
         /\ q # <<>> <=> 1 \in DOMAIN q
  BY LenProperties, ElementOfSeq, EmptySeq

LEMMA Places ==
  ASSUME NEW n \in Nat, NEW i \in 1..n
  PROVE  /\ IF i + 1 <= n THEN n - (i + 1) + 1 = n - i ELSE 0 = n - i
         /\ n - (i + 1) + 1 = n - i /\ (i - 1) + (n - i) = n - 1
         /\ \A j \in 1..(n - 1) : (j < i <=> j <= i - 1) /\ (j < i \/ i <= j)
         /\ \A j \in 1..(n - 1) : i <= j =>
              j - (i - 1) \in 1..(n - i) /\ (i + 1) + (j - (i - 1)) - 1 = j + 1
OBVIOUS

\* A sequence without its place i
LEMMA WithoutPlace ==
  ASSUME NEW S, NEW q \in Seq(S), NEW i \in DOMAIN q
  PROVE  LET r == SubSeq(q, 1, i - 1) \o SubSeq(q, i + 1, Len(q)) IN
         /\ r \in Seq(S) /\ Len(r) = Len(q) - 1
         /\ \A j \in 1..Len(r) : r[j] = IF j < i THEN q[j] ELSE q[j + 1]
<1>1. PICK n \in Nat : n = Len(q)
  BY LenProperties
<1>2. i \in 1..n /\ \A j \in 1..n : q[j] \in S
  BY <1>1, SeqPlaces
<1>3. PICK a : a = SubSeq(q, 1, i - 1)
  OBVIOUS
<1>4. PICK b : b = SubSeq(q, i + 1, n)
  OBVIOUS
<1>5. a \in Seq(S) /\ Len(a) = i - 1 /\ \A j \in 1..(i - 1) : a[j] = q[j]
  BY <1>2, <1>3, SubSeqProperties
<1>6. /\ b \in Seq(S) /\ Len(b) = IF i + 1 <= n THEN n - (i + 1) + 1 ELSE 0
      /\ \A j \in 1..(n - (i + 1) + 1) : b[j] = q[(i + 1) + j - 1]
  <2>1. i + 1 \in Int /\ \A j \in (i + 1)..n : q[j] \in S
    BY <1>2
  <2> QED
    BY <1>4, <2>1, SubSeqProperties
<1>7. Len(b) = n - i /\ \A j \in 1..(n - i) : b[j] = q[(i + 1) + j - 1]
  BY <1>2, <1>6, Places
<1>8. /\ a \o b \in Seq(S) /\ Len(a \o b) = Len(a) + Len(b)
      /\ \A j \in 1..(Len(a) + Len(b)) :
           (a \o b)[j] = IF j <= Len(a) THEN a[j] ELSE b[j - Len(a)]
  BY <1>5, <1>6, ConcatProperties
<1>9. Len(a) + Len(b) = n - 1
  BY <1>2, <1>5, <1>7, Places
<1>10. ASSUME NEW j \in 1..(n - 1)
       PROVE  (a \o b)[j] = IF j < i THEN q[j] ELSE q[j + 1]
  <2>1. (a \o b)[j] = IF j <= i - 1 THEN a[j] ELSE b[j - (i - 1)]
    BY <1>5, <1>8, <1>9
  <2>2. CASE j < i
    BY <1>2, <1>5, <2>1, <2>2
  <2>3. CASE i <= j
    <3>1. j - (i - 1) \in 1..(n - i) /\ (i + 1) + (j - (i - 1)) - 1 = j + 1
      BY <1>2, <2>3, Places
    <3>2. b[j - (i - 1)] = q[j + 1]
      BY <1>7, <3>1
    <3> QED
      BY <1>2, <2>1, <2>3, <3>2
  <2> QED
    BY <1>2, <2>2, <2>3, Places
<1> QED
  BY <1>1, <1>3, <1>4, <1>8, <1>9, <1>10

-----------------------------------------------------------------------------
(* The kinds of steps, and what each kind leaves alone *)

Serving  == \/ \E c \in calls \cup late : Serve(c) \/ MoveRead(c)
            \/ \E m \in moving : MoveWrite(m)
Idling   == AdminRead \/ CommandSent \/ (\E u \in Kicked : Command(u)) \/ Start
              \/ UNCHANGED vars
Auths    == \E l \in Logins : AuthCall(l) \/ AuthStep(l)
Joining  == \E l \in Logins : Find(l) \/ Move(l) \/ Play(l) \/ Rejoin(l)
Managing == \/ \E s \in Shards : Add(s) \/ Remove(s)
            \/ \E h \in Hosts : Added(h) \/ Removed(h) \/ Found(h)
Looping  == \E h \in Hosts : LoopStep(h)

LEMMA Kinds ==
  [Next]_vars => \/ Serving \/ Idling \/ Auths \/ Joining \/ Managing \/ Looping
                 \/ \E k \in Streams : HandlerStart(k) \/ HandlerEnd(k)
                 \/ (\E h \in Hosts : Break(h) \/ Reconnect(h)) \/ Crash
BY DEF Next, Serving, Idling, Auths, Joining, Managing, Looping, StreamStep,
       JoinStep, LockStep

LEMMA ServingFrame ==
  Serving => UNCHANGED <<up, servers, goVars, netVars, smVars, loopVars, sessVars>>
BY DEF Serving, Serve, MoveRead, MoveWrite

LEMMA IdlingFrame ==
  Idling => UNCHANGED <<servers, shards, players, moving, handler, auth, chan, netVars,
                        callVars, smVars, loopVars, sessVars, raced>>
BY DEF Idling, AdminRead, CommandSent, Command, Start, vars

LEMMA AuthsFrame ==
  Auths => UNCHANGED <<up, servers, shards, moving, handler, cmd, netVars, callVars,
                       smVars, loopVars, at, rejoins, raced>>
BY DEF Auths, AuthStep, AuthCall, AuthDenied, AuthLook, AuthKick, AuthReset

LEMMA JoiningFrame ==
  Joining => UNCHANGED <<ctlVars, goVars, netVars, late, list, life, loopVars, raced>>
BY DEF Joining, Find, Move, Play, Rejoin

LEMMA ManagingFrame ==
  Managing => UNCHANGED <<ctlVars, goVars, netVars, late, loop, cur, at, rejoins>>
BY DEF Managing, Add, Remove, Added, Removed, Found

LEMMA LoopingFrame ==
  Looping => UNCHANGED <<ctlVars, auth, chan, cmd, conn, faults, late, smVars, sessVars>>
BY DEF Looping, LoopStep, Events, Sync, SyncAsk, SyncNext, RecvFails

LEMMA HandlersFrame ==
  ASSUME NEW k, HandlerStart(k) \/ HandlerEnd(k)
  PROVE  UNCHANGED <<up, shards, players, moving, auth, chan, cmd, netVars, callVars,
                     smVars, loopVars, sessVars>>
BY DEF HandlerStart, HandlerEnd

-----------------------------------------------------------------------------
(* Types *)

LEMMA CallIs ==
  ASSUME NEW c \in Calls
  PROVE  /\ c.id \in Shards /\ c.host \in Hosts
         /\ c.op \in {"AddShard", "RmShard", "MoveShard", "MoveUser"}
         /\ c.op # "MoveUser" => c.by \in {"lock", "loop"}
         /\ c.op = "MoveUser" => c.by \in Logins
         /\ c = [op |-> c.op, id |-> c.id, host |-> c.host, by |-> c.by]
<1>1. CASE c \in ShardCalls
  BY <1>1 DEF ShardCalls
<1>2. CASE c \in UserCalls
  BY <1>2 DEF UserCalls
<1> QED
  BY <1>1, <1>2 DEF Calls

LEMMA ShardCallIs ==
  ASSUME NEW o \in {"AddShard", "RmShard", "MoveShard"}, NEW s \in Shards,
         NEW b \in {"lock", "loop"}
  PROVE  /\ ShardCall(o, s, b) \in Calls
         /\ ShardCall(o, s, b).op = o /\ ShardCall(o, s, b).id = s
         /\ ShardCall(o, s, b).host = HostOf[s] /\ ShardCall(o, s, b).by = b
BY RegistryAssumption DEF ShardCall, Calls, ShardCalls

LEMMA MoveUserCallIs ==
  ASSUME NEW l \in Logins, at[l] \in Shards
  PROVE  /\ MoveUserCall(l) \in Calls
         /\ MoveUserCall(l).op = "MoveUser" /\ MoveUserCall(l).id = at[l]
         /\ MoveUserCall(l).host = LoginHost[l] /\ MoveUserCall(l).by = l
BY RegistryAssumption DEF MoveUserCall, Calls, UserCalls

LEMMA Calling ==
  ASSUME NEW c, Call(c)
  PROVE  /\ \A d \in calls' : d \in calls \/ (d = c /\ conn[c.host])
         /\ \A d \in calls : d \in calls'
         /\ conn[c.host] => c \in calls'
BY DEF Call

LEMMA LockIs ==
  ASSUME NEW r \in Locks
  PROVE  /\ r.op \in {"none", "Add", "Remove", "Find"}
         /\ r.op \in {"Add", "Remove"} =>
              r.id \in Shards /\ r = [op |-> r.op, id |-> r.id, by |-> NoShard]
         /\ r.op = "Find" => r.id \in Shards /\ r.by \in Logins
         /\ r.op = "none" => r = Free
<1>1. CASE r \in [op : {"Add", "Remove"}, id : Shards, by : {NoShard}]
  BY <1>1
<1>2. CASE r \in [op : {"Find"}, id : Shards, by : Logins]
  BY <1>2
<1>3. CASE r = Free
  BY <1>3 DEF Free
<1> QED
  BY <1>1, <1>2, <1>3 DEF Locks

LEMMA LockOf ==
  /\ \A o \in {"Add", "Remove"}, s \in Shards : 
       [op |-> o, id |-> s, by |-> NoShard] \in Locks
  /\ \A s \in Shards, l \in Logins : [op |-> "Find", id |-> s, by |-> l] \in Locks
  /\ Free \in Locks
BY DEF Locks

LEMMA TypeStart == Init => TypeOK /\ Chosen
BY RegistryAssumption DEF Init, TypeOK, Chosen, Quiet, Free, Locks, NoSync, Ranging

LEMMA DispatchType == TypeOK /\ Dispatch => events' \in 0..EventCap
BY RegistryAssumption DEF TypeOK, Dispatch

LEMMA RacedType ==
  ASSUME TypeOK, NEW h, NEW R \in SUBSET Races, raced' = [raced EXCEPT ![h] = R]
  PROVE  raced' \in [Hosts -> SUBSET Races]
BY DEF TypeOK

LEMMA TypeServing == TypeOK /\ Chosen /\ Serving => TypeOK' /\ Chosen'
<1> SUFFICES ASSUME TypeOK, Chosen, Serving PROVE TypeOK' /\ Chosen'
  OBVIOUS
<1>0. UNCHANGED <<up, servers, goVars, netVars, smVars, loopVars, sessVars>>
  BY ServingFrame
<1>1. ASSUME NEW c \in calls \cup late, Serve(c) PROVE TypeOK'
  <2>1. c \in Calls
    BY DEF TypeOK
  <2>2. events' \in 0..EventCap /\ UNCHANGED <<moving, raced>>
    BY <1>1, DispatchType DEF Serve
  <2>3. calls' \in SUBSET Calls /\ late' \in SUBSET Calls
    BY <1>1 DEF Serve, Answered, TypeOK
  <2>4. /\ shards' \in [Shards -> Hosts \cup {NoHost, Absent}]
        /\ players' \in [Users -> Shards \cup {NoShard, Absent}]
    BY ZenonT(60), <1>1, <2>1, CallIs DEF Serve, AddedEntry, TypeOK
  <2> QED
    BY <1>0, <2>2, <2>3, <2>4 DEF TypeOK
<1>2. ASSUME NEW c \in calls \cup late, MoveRead(c) PROVE TypeOK'
  <2>1. c \in Calls
    BY DEF TypeOK
  <2>2. events' \in 0..EventCap /\ UNCHANGED <<shards, players, calls, raced>>
    BY <1>2, DispatchType DEF MoveRead
  <2>3. late' \in SUBSET Calls
    BY <1>2 DEF MoveRead, TypeOK
  <2>4. moving' \in SUBSET [call : Calls, read : Hosts \cup {NoHost}, asked : BOOLEAN]
    <3>1. shards[c.id] # Absent => shards[c.id] \in Hosts \cup {NoHost}
      BY <2>1, CallIs DEF TypeOK
    <3>2. PICK m : m = [call |-> c, asked |-> c \in calls,
                        read |-> IF shards[c.id] = Absent THEN NoHost ELSE shards[c.id]]
      OBVIOUS
    <3>3. (c \in calls) \in BOOLEAN
      OBVIOUS
    <3>4. m \in [call : Calls, read : Hosts \cup {NoHost}, asked : BOOLEAN]
      BY <2>1, <3>1, <3>2, <3>3
    <3> QED
      BY <1>2, <3>2, <3>4 DEF MoveRead, TypeOK
  <2> QED
    BY <1>0, <2>2, <2>3, <2>4 DEF TypeOK
<1>3. ASSUME NEW m \in moving, MoveWrite(m) PROVE TypeOK'
  <2>1. m \in [call : Calls, read : Hosts \cup {NoHost}, asked : BOOLEAN]
    BY DEF TypeOK
  <2>2. UNCHANGED <<players, events, late>> /\ moving' \subseteq moving
    BY <1>3 DEF MoveWrite
  <2>3. calls' \in SUBSET Calls
    BY <1>3 DEF MoveWrite, Answered, TypeOK
  <2>4. shards' \in [Shards -> Hosts \cup {NoHost, Absent}]
    BY <1>3, <2>1 DEF MoveWrite, TypeOK
  <2>5. raced' \in [Hosts -> SUBSET Races]
    <3>1. \/ raced' = raced
          \/ raced' = [raced EXCEPT ![HostOf[m.call.id]] = @ \cup {"torn"}]
      BY <1>3 DEF MoveWrite
    <3>2. raced[HostOf[m.call.id]] \cup {"torn"} \in SUBSET Races
      BY <2>1, CallIs, RegistryAssumption DEF TypeOK, Races
    <3> QED
      BY <3>1, <3>2, RacedType DEF TypeOK
  <2> QED
    BY <1>0, <2>2, <2>3, <2>4, <2>5 DEF TypeOK
<1>4. Chosen'
  BY <1>0 DEF Chosen, Ranging
<1> QED
  BY <1>1, <1>2, <1>3, <1>4 DEF Serving

LEMMA TypeIdling == TypeOK /\ Chosen /\ Idling => TypeOK' /\ Chosen'
<1> SUFFICES ASSUME TypeOK, Chosen, Idling PROVE TypeOK' /\ Chosen'
  OBVIOUS
<1>0. UNCHANGED <<servers, shards, players, moving, handler, auth, chan, netVars,
                  callVars, smVars, loopVars, sessVars, raced>>
  BY IdlingFrame
<1>1. up' \in BOOLEAN
  BY DEF Idling, AdminRead, CommandSent, Command, Start, vars, TypeOK
<1>2. events' \in 0..EventCap
  BY RegistryAssumption
     DEF Idling, AdminRead, CommandSent, Command, Start, vars, TypeOK
<1>3. cmd' \in [at : {"idle", "send"}, to : Streams \cup {NoStream}]
  <2>1. Channels
    BY DEF Channels, TypeOK
  <2>2. CASE \E u \in Kicked : Command(u)
    BY <2>1, <2>2, KickChanType DEF Command
  <2>3. CASE cmd' = cmd \/ cmd' = Quiet
    BY <2>3 DEF TypeOK, Quiet
  <2> QED
    BY <2>2, <2>3 DEF Idling, AdminRead, CommandSent, Start, vars
<1>4. TypeOK'
  BY <1>0, <1>1, <1>2, <1>3 DEF TypeOK
<1> QED
  BY <1>0, <1>4 DEF Chosen, Ranging

LEMMA TypeAuths == TypeOK /\ Chosen /\ Auths => TypeOK' /\ Chosen'
<1> SUFFICES ASSUME TypeOK, Chosen, Auths PROVE TypeOK' /\ Chosen'
  OBVIOUS
<1>0. UNCHANGED <<up, servers, shards, moving, handler, cmd, netVars, callVars,
                  smVars, loopVars, at, rejoins, raced>>
  BY AuthsFrame
<1>1. PICK l \in Logins : \/ AuthCall(l) \/ AuthDenied(l) \/ AuthLook(l)
                          \/ AuthKick(l) \/ AuthReset(l)
  BY DEF Auths, AuthStep
<1>2. events' \in 0..EventCap
  BY <1>1, DispatchType
     DEF AuthCall, AuthDenied, AuthLook, AuthKick, AuthReset, TypeOK
<1>3. auth' \in [Logins -> {"none", "look", "kick", "reset"}]
  BY <1>1 DEF AuthCall, AuthDenied, AuthLook, AuthKick, AuthReset, AfterLook, TypeOK
<1>4. chan' \in [Logins -> Streams \cup {NoStream}]
  <2>1. Channels
    BY DEF Channels, TypeOK
  <2> QED
    BY <1>1, <2>1, KickChanType
       DEF AuthCall, AuthDenied, AuthLook, AuthKick, AuthReset, Channels
<1>5. players' \in [Users -> Shards \cup {NoShard, Absent}]
  BY <1>1 DEF AuthCall, AuthDenied, AuthLook, AuthKick, AuthReset, TypeOK
<1>6. /\ sess' \in [Logins -> {"off", "auth", "in", "finding", "found", "moving",
                               "play", "over"}]
      /\ \A k \in Logins :
           sess'[k] \in {"finding", "found", "moving", "play"} => sess'[k] = sess[k]
  <2>1. \/ sess' = sess
        \/ \E a \in {"auth", "over", "in", sess[l]} : sess' = [sess EXCEPT ![l] = a]
    <3>1. CASE AuthCall(l)
      BY <3>1 DEF AuthCall
    <3>2. CASE AuthDenied(l) \/ AuthLook(l) \/ AuthKick(l)
      BY <3>2 DEF AuthDenied, AuthLook, AuthKick
    <3>3. CASE AuthReset(l)
      <4>1. sess' = [sess EXCEPT ![l] = IF sess[l] = "auth" THEN "in" ELSE sess[l]]
        BY <3>3 DEF AuthReset
      <4> QED
        BY <4>1
    <3> QED
      BY <1>1, <3>1, <3>2, <3>3
  <2>2. CASE sess' = [sess EXCEPT ![l] = sess[l]] \/ sess' = sess
    BY <2>2 DEF TypeOK
  <2>3. CASE \E a \in {"auth", "over", "in"} : sess' = [sess EXCEPT ![l] = a]
    BY <2>3 DEF TypeOK
  <2> QED
    BY <2>1, <2>2, <2>3
<1>7. TypeOK'
  BY <1>0, <1>2, <1>3, <1>4, <1>5, <1>6 DEF TypeOK
<1>8. \A k \in Logins :
        /\ sess[k] = "finding" => sess'[k] = "finding"
        /\ auth'[k] # "none" => sess'[k] \in {"auth", "over"}
  <2> USE DEF TypeOK, Chosen
  <2>1. CASE AuthCall(l)
    BY <2>1 DEF AuthCall
  <2>2. CASE AuthDenied(l) \/ AuthKick(l) \/ AuthReset(l)
    BY <2>2 DEF AuthDenied, AuthKick, AuthReset
  <2>3. CASE AuthLook(l)
    BY <2>3 DEF AuthLook, AfterLook
  <2> QED
    BY <1>1, <2>1, <2>2, <2>3
<1>9. \A h \in Hosts : lock[h].op = "Find" => lock[h].by \in Logins
  BY LockIs DEF TypeOK
<1> QED
  BY <1>0, <1>6, <1>7, <1>8, <1>9 DEF Chosen, Ranging

\* What a range reads
Ranges == [rest : Seq(Shards), first : Nat \ {0}, shared : BOOLEAN]

LEMMA RangeIs ==
  ASSUME NEW y \in Ranges
  PROVE  /\ Len(y.rest) \in Nat /\ DOMAIN y.rest = 1..Len(y.rest)
         /\ \A j \in DOMAIN y.rest : y.rest[j] \in Shards
         /\ y.rest # <<>> <=> 1 \in DOMAIN y.rest
         /\ y.first \in Nat \ {0} /\ y.shared \in BOOLEAN
<1>1. y.rest \in Seq(Shards)
  BY DEF Ranges
<1> QED
  BY <1>1, SeqPlaces DEF Ranges

\* The places of the array change under a range, not their number.
LEMMA Overwritten ==
  ASSUME NEW y \in Ranges, NEW f \in [DOMAIN y.rest -> Shards]
  PROVE  LET z == [y EXCEPT !.rest = f] IN
         /\ z \in Ranges /\ z.rest = f /\ z.first = y.first
         /\ Len(z.rest) = Len(y.rest) /\ DOMAIN z.rest = DOMAIN y.rest
<1>1. f \in Seq(Shards) /\ Len(f) = Len(y.rest) /\ DOMAIN f = DOMAIN y.rest
  BY RangeIs, SeqFunction
<1> QED
  BY <1>1 DEF Ranges

LEMMA AppendUnder ==
  ASSUME TypeOK, NEW h \in Hosts, NEW s \in Shards, NEW inplace \in BOOLEAN
  PROVE  LET y == sync[h]  z == Append1(h, s, inplace) IN
         /\ z \in Ranges /\ z.first = y.first /\ Len(z.rest) = Len(y.rest)
         /\ DOMAIN z.rest = DOMAIN y.rest
         /\ \A j \in DOMAIN y.rest :
              \/ z.rest[j] = y.rest[j]
              \/ z.rest[j] = s /\ y.first + j - 1 = Len(list[h]) + 1
<1> DEFINE y == sync[h]
<1>1. y \in Ranges
  BY DEF TypeOK, Ranges
<1>2. CASE inplace
  <2>1. PICK f : f = [j \in DOMAIN y.rest |->
                IF y.shared /\ y.first + j - 1 = Len(list[h]) + 1 THEN s ELSE y.rest[j]]
    OBVIOUS
  <2>2. f \in [DOMAIN y.rest -> Shards]
    BY <1>1, <2>1, RangeIs
  <2>3. Append1(h, s, inplace) = [y EXCEPT !.rest = f]
    BY <1>2, <2>1 DEF Append1
  <2> HIDE DEF y
  <2> QED
    BY <1>1, <2>1, <2>2, <2>3, Overwritten DEF y
<1>3. CASE ~inplace
  <2>1. Append1(h, s, inplace) = [y EXCEPT !.shared = FALSE]
    BY <1>3 DEF Append1
  <2> QED
    BY <1>1, <2>1 DEF Ranges
<1> QED
  BY <1>2, <1>3

LEMMA ShiftUnder ==
  ASSUME TypeOK, NEW h \in Hosts, NEW i \in DOMAIN list[h]
  PROVE  LET y == sync[h]  z == ShiftedDown(h, i) IN
         /\ z \in Ranges /\ z.first = y.first /\ Len(z.rest) = Len(y.rest)
         /\ DOMAIN z.rest = DOMAIN y.rest
         /\ \A j \in DOMAIN y.rest :
              z.rest[j] = y.rest[j] \/ z.rest[j] \in Listed(h)
<1> DEFINE y == sync[h]
           n == Len(list[h])
<1>1. y \in Ranges /\ list[h] \in Seq(Shards)
  BY DEF TypeOK, Ranges
<1>2. n \in Nat /\ DOMAIN list[h] = 1..n /\ \A j \in 1..n : list[h][j] \in Shards
  BY <1>1, SeqPlaces
<1>3. PICK f : f = [j \in DOMAIN y.rest |->
          LET c == y.first + j - 1
          IN  IF y.shared /\ i <= c /\ c < Len(list[h]) THEN list[h][c + 1] ELSE y.rest[j]]
  OBVIOUS
<1>4. ASSUME NEW j \in DOMAIN y.rest
      PROVE  f[j] = y.rest[j] \/ (f[j] \in Listed(h) /\ f[j] \in Shards)
  <2>1. PICK c : c = y.first + j - 1
    OBVIOUS
  <2>2. c \in Int
    BY <1>1, <2>1, RangeIs
  <2>3. CASE y.shared /\ i <= c /\ c < n
    <3>1. f[j] = list[h][c + 1]
      BY <1>3, <2>1, <2>3
    <3>2. c + 1 \in 1..n
      BY <1>2, <2>2, <2>3
    <3> QED
      BY <1>2, <3>1, <3>2 DEF Listed
  <2>4. CASE ~(y.shared /\ i <= c /\ c < n)
    BY <1>3, <2>1, <2>4
  <2> QED
    BY <2>3, <2>4
<1>5. f \in [DOMAIN y.rest -> Shards]
  <2>1. \A j \in DOMAIN y.rest : f[j] \in Shards
    BY <1>1, <1>4, RangeIs
  <2> QED
    BY <1>3, <2>1
<1>6. ShiftedDown(h, i) = [y EXCEPT !.rest = f]
  BY <1>3 DEF ShiftedDown
<1> HIDE DEF y, n
<1>7. LET z == [y EXCEPT !.rest = f] IN
      /\ z \in Ranges /\ z.rest = f /\ z.first = y.first
      /\ Len(z.rest) = Len(y.rest) /\ DOMAIN z.rest = DOMAIN y.rest
  BY <1>1, <1>5, Overwritten
<1> QED
  BY <1>4, <1>6, <1>7 DEF y

LEMMA GoOn ==
  ASSUME NEW y \in Ranges, y.rest # <<>>
  PROVE  /\ NextSync(y) \in Ranges
         /\ Len(y.rest) = 1 => NextSync(y) = NoSync /\ Syncing(NextSync(y)) = "recv"
         /\ Len(y.rest) # 1 =>
              LET z == NextSync(y) IN
              /\ Syncing(z) = "sync" /\ z.rest # <<>>
              /\ z.first = y.first + 1 /\ Len(z.rest) = Len(y.rest) - 1
              /\ \A j \in DOMAIN z.rest : /\ j + 1 \in DOMAIN y.rest
                                          /\ z.rest[j] = y.rest[j + 1]
<1>1. y.rest \in Seq(Shards) /\ Len(y.rest) \in Nat \ {0}
  BY EmptySeq DEF Ranges
<1>2. CASE Len(y.rest) = 1
  BY <1>2 DEF NextSync, Syncing, NoSync, Ranges
<1>3. CASE Len(y.rest) # 1
  <2>1. PICK t \in Seq(Shards) : t = Tail(y.rest)
    BY <1>1, HeadTailProperties
  <2>2. /\ Len(t) = Len(y.rest) - 1
        /\ \A j \in 1..Len(t) : t[j] = y.rest[j + 1]
    BY <1>1, <2>1, HeadTailProperties
  <2>3. NextSync(y) = [y EXCEPT !.rest = t, !.first = y.first + 1]
    BY <1>3, <2>1 DEF NextSync
  <2>4. /\ NextSync(y).rest = t /\ NextSync(y).first = y.first + 1
        /\ NextSync(y) \in Ranges
    <3>1. y.first + 1 \in Nat \ {0}
      BY RangeIs
    <3>2. PICK x \in Ranges : x = [y EXCEPT !.rest = t]
      BY <2>1 DEF Ranges
    <3>3. x.rest = t /\ NextSync(y) = [x EXCEPT !.first = y.first + 1]
      BY <2>3, <3>2 DEF Ranges
    <3> QED
      BY <3>1, <3>2, <3>3 DEF Ranges
  <2>5. t # <<>> /\ DOMAIN t = 1..Len(t)
    <3>1. DOMAIN t = 1..Len(t) /\ (t # <<>> <=> 1 \in DOMAIN t)
      BY <2>1, SeqPlaces
    <3>2. Len(t) \in Nat \ {0}
      BY <1>1, <1>3, <2>2
    <3>3. 1 \in DOMAIN t
      BY <3>1, <3>2
    <3> QED
      BY <3>1, <3>3
  <2>6. NextSync(y) # NoSync
    BY <2>4, <2>5 DEF NoSync
  <2>7. \A j \in 1..Len(t) : j + 1 \in 1..Len(y.rest)
    BY <1>1, <2>2
  <2> QED
    BY <1>1, <1>3, <2>2, <2>4, <2>5, <2>6, <2>7, SeqPlaces DEF Syncing
<1> QED
  BY <1>2, <1>3

LEMMA StartRange ==
  ASSUME TypeOK, NEW h \in Hosts
  PROVE  /\ SyncAll(h) \in Ranges
         /\ SyncAll(h).rest = list[h] /\ SyncAll(h).first = 1
         /\ list[h] = <<>> => SyncAll(h) = NoSync /\ Syncing(SyncAll(h)) = "recv"
         /\ list[h] # <<>> => Syncing(SyncAll(h)) = "sync"
<1>1. list[h] \in Seq(Shards)
  BY DEF TypeOK
<1>2. CASE list[h] = <<>>
  <2>1. SyncAll(h) = NoSync
    BY <1>2 DEF SyncAll, NoSync
  <2> QED
    BY <1>1, <1>2, <2>1 DEF Syncing, NoSync, Ranges
<1>3. CASE list[h] # <<>>
  <2>1. SyncAll(h) = [rest |-> list[h], first |-> 1, shared |-> TRUE]
    BY <1>3 DEF SyncAll
  <2> QED
    BY <1>1, <1>3, <2>1 DEF Syncing, NoSync, Ranges
<1> QED
  BY <1>2, <1>3

LEMMA ListedAre ==
  ASSUME TypeOK, NEW h \in Hosts, NEW s \in Listed(h)
  PROVE  s \in Shards /\ \E i \in DOMAIN list[h] : list[h][i] = s
BY SeqPlaces DEF TypeOK, Listed

LEMMA TypeJoining == TypeOK /\ Chosen /\ Joining => TypeOK' /\ Chosen'
<1> SUFFICES ASSUME TypeOK, Chosen, Joining PROVE TypeOK' /\ Chosen'
  OBVIOUS
<1>0. UNCHANGED <<ctlVars, goVars, netVars, late, list, life, loopVars, raced>>
  BY JoiningFrame
<1>1. PICK l \in Logins : Find(l) \/ Move(l) \/ Play(l) \/ Rejoin(l)
  BY DEF Joining
<1>a. /\ LoginHost[l] \in Hosts /\ auth[l] \in {"none", "look", "kick", "reset"}
      /\ sess[l] \in {"off", "auth", "in", "finding", "found", "moving", "play", "over"}
      /\ \A h \in Hosts : lock[h] \in Locks
  BY RegistryAssumption DEF TypeOK
<1>b. \A h \in Hosts : lock[h].op = "Find" => lock[h].by \in Logins
  BY <1>a, LockIs
<1>2. CASE Find(l)
  <2>1. PICK s \in Listed(LoginHost[l]) :
          /\ at' = [at EXCEPT ![l] = s]
          /\ \/ /\ sess' = [sess EXCEPT ![l] = "found"]
                /\ UNCHANGED <<lock, calls>>
             \/ /\ sess' = [sess EXCEPT ![l] = "finding"]
                /\ lock' = [lock EXCEPT ![LoginHost[l]] =
                              [op |-> "Find", id |-> s, by |-> l]]
                /\ Call(ShardCall("MoveShard", s, "lock"))
    BY <1>2 DEF Find
  <2>2. s \in Shards
    BY <1>a, <2>1, ListedAre
  <2>3. rejoins' = rejoins /\ sess[l] = "in"
    BY <1>2 DEF Find
  <2>4. calls' \in SUBSET Calls
    BY <2>1, <2>2, Calling, ShardCallIs DEF TypeOK
  <2>5. lock' \in [Hosts -> Locks]
    <3>1. PICK r \in Locks : r = [op |-> "Find", id |-> s, by |-> l]
      BY <2>2, LockOf
    <3>2. lock' = lock \/ lock' = [lock EXCEPT ![LoginHost[l]] = r]
      BY <2>1, <3>1
    <3> QED
      BY <3>2 DEF TypeOK
  <2>6. TypeOK'
    BY <1>0, <2>1, <2>2, <2>3, <2>4, <2>5 DEF TypeOK
  <2>7. ASSUME NEW h \in Hosts, lock'[h].op = "Find"
        PROVE  sess'[lock'[h].by] = "finding" /\ LoginHost[lock'[h].by] = h
    <3>1. CASE lock'[h] = lock[h]
      <4>1. lock[h].by \in Logins \ {l} /\ sess[lock[h].by] = "finding"
        BY <1>b, <2>3, <2>7, <3>1 DEF Chosen
      <4> QED
        BY <2>1, <2>7, <3>1, <4>1 DEF TypeOK, Chosen
    <3>2. CASE lock'[h] # lock[h]
      <4>1. lock' = [lock EXCEPT ![LoginHost[l]] = [op |-> "Find", id |-> s, by |-> l]]
        BY <2>1, <3>2
      <4>2. h = LoginHost[l] /\ lock'[h] = [op |-> "Find", id |-> s, by |-> l]
        BY <3>2, <4>1 DEF TypeOK
      <4>3. sess' = [sess EXCEPT ![l] = "finding"]
        BY <2>1, <3>2
      <4> QED
        BY <4>2, <4>3 DEF TypeOK
    <3> QED
      BY <3>1, <3>2
  <2>8. \A m \in Logins :
          /\ sess'[m] \in {"finding", "found", "moving", "play"} => at'[m] \in Shards
          /\ auth[m] # "none" => sess'[m] \in {"auth", "over"}
    BY <2>1, <2>2, <2>3 DEF TypeOK, Chosen
  <2> QED
    BY <1>0, <2>6, <2>7, <2>8 DEF Chosen, Ranging
<1>3. CASE Move(l) \/ Play(l) \/ Rejoin(l)
  <2>1. /\ sess[l] \in {"found", "moving", "play"} /\ lock' = lock /\ at' = at
        /\ \E a \in {"moving", "play", "in"} : sess' = [sess EXCEPT ![l] = a]
    BY <1>3 DEF Move, Play, Rejoin
  <2>r. rejoins' \in [Logins -> 0..MaxRejoins]
    <3>1. \/ rejoins' = rejoins
          \/ rejoins[l] > 0 /\ rejoins' = [rejoins EXCEPT ![l] = rejoins[l] - 1]
      BY <1>3 DEF Move, Play, Rejoin
    <3>2. rejoins[l] \in 0..MaxRejoins /\ MaxRejoins \in Nat
      BY RegistryAssumption DEF TypeOK
    <3>3. rejoins[l] > 0 => rejoins[l] - 1 \in 0..MaxRejoins
      BY <3>2
    <3> QED
      BY <3>1, <3>3 DEF TypeOK
  <2>2. calls' \in SUBSET Calls
    <3>1. at[l] \in Shards
      BY <2>1 DEF Chosen
    <3> QED
      BY <1>3, <3>1, Calling, MoveUserCallIs DEF Move, Play, Rejoin, TypeOK
  <2>3. TypeOK'
    <3>1. sess' \in [Logins -> {"off", "auth", "in", "finding", "found", "moving",
                                "play", "over"}]
      BY <2>1 DEF TypeOK
    <3> QED
      BY <1>0, <2>1, <2>r, <2>2, <3>1 DEF TypeOK
  <2>4. \A h \in Hosts : lock[h].op = "Find" => lock[h].by # l
    BY <2>1 DEF Chosen
  <2> QED
    BY <1>0, <1>b, <2>1, <2>3, <2>4 DEF Chosen, Ranging, TypeOK
<1> QED
  BY <1>1, <1>2, <1>3

LEMMA LockTaken ==
  ASSUME TypeOK, Chosen, NEW h \in Hosts, NEW r \in Locks, r.op # "Find",
         lock' = [lock EXCEPT ![h] = r]
  PROVE  /\ lock' \in [Hosts -> Locks]
         /\ sess' = sess => \A g \in Hosts : lock'[g].op = "Find" =>
              sess'[lock'[g].by] = "finding" /\ LoginHost[lock'[g].by] = g
BY DEF TypeOK, Chosen

LEMMA TypeManaging == TypeOK /\ Chosen /\ Managing => TypeOK' /\ Chosen'
<1> SUFFICES ASSUME TypeOK, Chosen, Managing PROVE TypeOK' /\ Chosen'
  OBVIOUS
<1>0. UNCHANGED <<ctlVars, goVars, netVars, late, loop, cur, at, rejoins>>
  BY ManagingFrame
<1>a. /\ \A s \in Shards : HostOf[s] \in Hosts
      /\ \A h \in Hosts : lock[h] \in Locks /\ sync[h] \in Ranges
  BY RegistryAssumption DEF TypeOK, Ranges
<1>b. Free \in Locks /\ Free.op # "Find"
  BY LockOf DEF Free
<1>1. ASSUME NEW s \in Shards, Add(s) PROVE TypeOK' /\ Chosen'
  <2>1. PICK r \in Locks : r.op = "Add" /\ lock' = [lock EXCEPT ![HostOf[s]] = r]
    BY <1>1, LockOf DEF Add
  <2>2. lock' \in [Hosts -> Locks]
    BY <1>a, <2>1, LockTaken
  <2>3. calls' \in SUBSET Calls
    BY <1>1, Calling, ShardCallIs DEF Add, TypeOK
  <2>4. UNCHANGED <<list, sync, sess, raced>> /\ life' = [life EXCEPT ![s] = "adding"]
    BY <1>1 DEF Add
  <2>5. TypeOK'
    BY <1>0, <2>2, <2>3, <2>4 DEF TypeOK
  <2> QED
    BY <1>0, <1>a, <2>1, <2>4, <2>5, LockTaken DEF Chosen, Ranging
<1>2. ASSUME NEW s \in Shards, Remove(s) PROVE TypeOK' /\ Chosen'
  <2>1. PICK r \in Locks : r.op = "Remove" /\ lock' = [lock EXCEPT ![HostOf[s]] = r]
    BY <1>2, LockOf DEF Remove
  <2>2. lock' \in [Hosts -> Locks]
    BY <1>a, <2>1, LockTaken
  <2>3. calls' \in SUBSET Calls
    BY <1>2, Calling, ShardCallIs DEF Remove, TypeOK
  <2>4. UNCHANGED <<list, sync, sess>> /\ life' = [life EXCEPT ![s] = "removing"]
    BY <1>2 DEF Remove
  <2>5. raced' \in [Hosts -> SUBSET Races]
    <3>1. PICK R : R = raced[HostOf[s]]
             \cup (IF loop[HostOf[s]] \in {"sync", "asked"} THEN {"overlap"} ELSE {})
             \cup (IF ~conn[HostOf[s]] /\ shards[s] # Absent THEN {"failed"} ELSE {})
      OBVIOUS
    <3>2. R \in SUBSET Races
      BY <1>a, <3>1 DEF TypeOK, Races
    <3>3. raced' = [raced EXCEPT ![HostOf[s]] = R]
      BY <1>2, <3>1 DEF Remove
    <3> QED
      BY <3>2, <3>3, RacedType
  <2>6. TypeOK'
    BY <1>0, <2>2, <2>3, <2>4, <2>5 DEF TypeOK
  <2> QED
    BY <1>0, <1>a, <2>1, <2>4, <2>6, LockTaken DEF Chosen, Ranging
<1>3. ASSUME NEW h \in Hosts, Added(h) PROVE TypeOK' /\ Chosen'
  <2>1. PICK s \in Shards : s = lock[h].id
    BY <1>3, <1>a, LockIs DEF Added
  <2>2. PICK b \in BOOLEAN : sync' = [sync EXCEPT ![h] = Append1(h, s, b)]
    BY <1>3, <2>1 DEF Added
  <2>3. /\ Append1(h, s, b) \in Ranges
        /\ DOMAIN Append1(h, s, b).rest = DOMAIN sync[h].rest
    BY AppendUnder
  <2>4. UNCHANGED <<calls, sess, raced>> /\ life' = [life EXCEPT ![s] = "up"]
        /\ lock' = [lock EXCEPT ![h] = Free] /\ list' = [list EXCEPT ![h] = Append(@, s)]
    BY <1>3, <2>1 DEF Added
  <2>5. list' \in [Hosts -> Seq(Shards)]
    BY <2>4, AppendProperties DEF TypeOK
  <2>6. lock' \in [Hosts -> Locks]
    BY <1>b, <2>4, LockTaken
  <2>7. TypeOK'
    BY <1>0, <2>2, <2>3, <2>4, <2>5, <2>6 DEF TypeOK, Ranges
  <2>8. \A g \in Hosts : Ranging(g)' => sync'[g].rest # <<>>
    <3>1. Append1(h, s, b).rest # <<>> <=> sync[h].rest # <<>>
      BY <1>a, <2>3, RangeIs
    <3> QED
      BY <1>0, <2>2, <3>1 DEF Chosen, Ranging, TypeOK
  <2> QED
    BY <1>0, <1>b, <2>4, <2>7, <2>8, LockTaken DEF Chosen
<1>4. ASSUME NEW h \in Hosts, Removed(h) PROVE TypeOK' /\ Chosen'
  <2>1. PICK i \in DOMAIN list[h] :
          /\ list' = [list EXCEPT ![h] = SubSeq(@, 1, i - 1) \o SubSeq(@, i + 1, Len(@))]
          /\ sync' = [sync EXCEPT ![h] = ShiftedDown(h, i)]
    BY <1>4 DEF Removed
  <2>2. /\ UNCHANGED <<calls, sess, raced>> /\ lock' = [lock EXCEPT ![h] = Free]
        /\ life' = [life EXCEPT ![lock[h].id] = "gone"]
    BY <1>4 DEF Removed
  <2>3. list' \in [Hosts -> Seq(Shards)]
    <3>1. list[h] \in Seq(Shards)
      BY DEF TypeOK
    <3>2. SubSeq(list[h], 1, i - 1) \o SubSeq(list[h], i + 1, Len(list[h])) \in Seq(Shards)
      BY <3>1, WithoutPlace
    <3> QED
      BY <2>1, <3>2 DEF TypeOK
  <2>4. /\ ShiftedDown(h, i) \in Ranges
        /\ DOMAIN ShiftedDown(h, i).rest = DOMAIN sync[h].rest
    BY ShiftUnder
  <2>5. lock' \in [Hosts -> Locks]
    BY <1>b, <2>2, LockTaken
  <2>6. TypeOK'
    BY <1>0, <2>1, <2>2, <2>3, <2>4, <2>5 DEF TypeOK, Ranges
  <2>7. \A g \in Hosts : Ranging(g)' => sync'[g].rest # <<>>
    <3>1. ShiftedDown(h, i).rest # <<>> <=> sync[h].rest # <<>>
      BY <1>a, <2>4, RangeIs
    <3> QED
      BY <1>0, <2>1, <3>1 DEF Chosen, Ranging, TypeOK
  <2> QED
    BY <1>0, <1>b, <2>2, <2>6, <2>7, LockTaken DEF Chosen
<1>5. ASSUME NEW h \in Hosts, Found(h) PROVE TypeOK' /\ Chosen'
  <2>1. PICK l \in Logins : l = lock[h].by /\ sess[l] = "finding" /\ LoginHost[l] = h
    BY <1>5, <1>a, LockIs DEF Found, Chosen
  <2>2. /\ lock' = [lock EXCEPT ![h] = Free] /\ sess' = [sess EXCEPT ![l] = "found"]
        /\ UNCHANGED <<calls, list, life, sync, raced>>
    BY <1>5, <2>1 DEF Found
  <2>3. TypeOK'
    <3>1. lock' \in [Hosts -> Locks]
      BY <1>b, <2>2, LockTaken
    <3> QED
      BY <1>0, <2>2, <3>1 DEF TypeOK
  <2>4. ASSUME NEW g \in Hosts, lock'[g].op = "Find"
        PROVE  sess'[lock'[g].by] = "finding" /\ LoginHost[lock'[g].by] = g
    <3>1. g # h /\ lock'[g] = lock[g]
      BY <1>b, <2>2, <2>4 DEF Free, TypeOK
    <3>2. lock[g].by # l /\ lock[g].by \in Logins
      BY <1>a, <2>1, <2>4, <3>1, LockIs DEF Chosen
    <3> QED
      BY <2>2, <2>4, <3>1, <3>2 DEF Chosen, TypeOK
  <2>5. \A m \in Logins :
          /\ sess'[m] \in {"finding", "found", "moving", "play"} => at[m] \in Shards
          /\ auth[m] # "none" => sess'[m] \in {"auth", "over"}
    BY <2>1, <2>2 DEF Chosen, TypeOK
  <2> QED
    BY <1>0, <2>2, <2>3, <2>4, <2>5 DEF Chosen, Ranging
<1> QED
  BY <1>1, <1>2, <1>3, <1>4, <1>5 DEF Managing

LEMMA TypeLooping == TypeOK /\ Chosen /\ Looping => TypeOK' /\ Chosen'
<1> SUFFICES ASSUME TypeOK, Chosen, Looping PROVE TypeOK' /\ Chosen'
  OBVIOUS
<1>0. UNCHANGED <<ctlVars, auth, chan, cmd, conn, faults, late, smVars, sessVars>>
  BY LoopingFrame
<1>1. PICK h \in Hosts :
        Events(h) \/ Sync(h) \/ SyncAsk(h) \/ SyncNext(h) \/ RecvFails(h)
  BY DEF Looping, LoopStep
<1>2. sync[h] \in Ranges
  BY DEF TypeOK, Ranges
<1>3. CASE Events(h)
  <2>1. PICK k \in Streams :
          /\ handler' = [handler EXCEPT ![k] = "called"]
          /\ owner'   = [owner EXCEPT ![k] = h]
          /\ live'    = [live EXCEPT ![k] = TRUE]
          /\ cur'     = [cur EXCEPT ![h] = k]
    BY <1>3 DEF Events
  <2>2. UNCHANGED <<calls, sync, raced>> /\ loop' = [loop EXCEPT ![h] = "opened"]
    BY <1>3 DEF Events
  <2>3. TypeOK'
    BY <1>0, <2>1, <2>2 DEF TypeOK
  <2> QED
    BY <1>0, <2>2, <2>3 DEF Chosen, Ranging, TypeOK
<1>4. CASE Sync(h)
  <2>1. /\ sync' = [sync EXCEPT ![h] = SyncAll(h)]
        /\ loop' = [loop EXCEPT ![h] = Syncing(sync'[h])]
        /\ UNCHANGED <<handler, owner, live, calls, cur>>
    BY <1>4 DEF Sync
  <2>2. sync'[h] = SyncAll(h) /\ SyncAll(h) \in Ranges
    BY <2>1, StartRange DEF TypeOK
  <2>3. Syncing(SyncAll(h)) \in {"recv", "sync"}
    BY DEF Syncing
  <2>4. raced' \in [Hosts -> SUBSET Races]
    <3>1. PICK R : R = IF lock[h].op \in {"Add", "Remove"}
                       THEN raced[h] \cup {"overlap"} ELSE raced[h]
      OBVIOUS
    <3>2. R \in SUBSET Races
      BY <3>1 DEF TypeOK, Races
    <3>3. raced' = [raced EXCEPT ![h] = R]
      BY <1>4, <3>1 DEF Sync
    <3> QED
      BY <3>2, <3>3, RacedType
  <2>5. TypeOK'
    BY <1>0, <2>1, <2>2, <2>3, <2>4 DEF TypeOK, Ranges
  <2>6. loop'[h] \in {"sync", "asked"} => SyncAll(h).rest # <<>>
    BY <2>1, <2>2, StartRange DEF TypeOK
  <2> QED
    BY <1>0, <2>1, <2>2, <2>5, <2>6 DEF Chosen, Ranging, TypeOK
<1>5. CASE SyncAsk(h)
  <2>1. sync[h].rest # <<>> /\ sync[h].rest \in Seq(Shards)
    BY <1>2, <1>5 DEF SyncAsk, Chosen, Ranging, Ranges
  <2>2. Head(sync[h].rest) \in Shards
    BY <2>1, HeadTailProperties
  <2>3. calls' \in SUBSET Calls
    BY <1>5, <2>2, Calling, ShardCallIs DEF SyncAsk, TypeOK
  <2>4. /\ loop' = [loop EXCEPT ![h] = "asked"]
        /\ UNCHANGED <<handler, owner, live, cur, sync, raced>>
    BY <1>5 DEF SyncAsk
  <2>5. TypeOK'
    BY <1>0, <2>3, <2>4 DEF TypeOK
  <2> QED
    BY <1>0, <2>1, <2>4, <2>5 DEF Chosen, Ranging, TypeOK
<1>6. CASE SyncNext(h)
  <2>1. /\ sync' = [sync EXCEPT ![h] = NextSync(sync[h])]
        /\ loop' = [loop EXCEPT ![h] = Syncing(sync'[h])]
        /\ UNCHANGED <<handler, owner, live, calls, cur, raced>>
    BY <1>6 DEF SyncNext
  <2>2. sync[h].rest # <<>>
    BY <1>6 DEF SyncNext, Chosen, Ranging
  <2>3. sync'[h] = NextSync(sync[h]) /\ NextSync(sync[h]) \in Ranges
    BY <1>2, <2>1, <2>2, GoOn DEF TypeOK
  <2>4. Syncing(NextSync(sync[h])) \in {"recv", "sync"}
    BY DEF Syncing
  <2>5. TypeOK'
    BY <1>0, <2>1, <2>3, <2>4 DEF TypeOK, Ranges
  <2>6. loop'[h] \in {"sync", "asked"} => NextSync(sync[h]).rest # <<>>
    BY <1>2, <2>1, <2>2, <2>3, GoOn DEF TypeOK
  <2> QED
    BY <1>0, <2>1, <2>3, <2>5, <2>6 DEF Chosen, Ranging, TypeOK
<1>7. CASE RecvFails(h)
  <2>1. /\ loop' = [loop EXCEPT ![h] = "call"] /\ cur' = [cur EXCEPT ![h] = NoStream]
        /\ UNCHANGED <<handler, owner, live, calls, sync, raced>>
    BY <1>7 DEF RecvFails
  <2>2. TypeOK'
    BY <1>0, <2>1 DEF TypeOK
  <2> QED
    BY <1>0, <2>1, <2>2 DEF Chosen, Ranging, TypeOK
<1> QED
  BY <1>1, <1>3, <1>4, <1>5, <1>6, <1>7

LEMMA TypeHandlers ==
  ASSUME TypeOK, Chosen, NEW k \in Streams, HandlerStart(k) \/ HandlerEnd(k)
  PROVE  TypeOK' /\ Chosen'
<1>0. UNCHANGED <<up, shards, players, moving, auth, chan, cmd, netVars, callVars,
                  smVars, loopVars, sessVars>>
  BY HandlersFrame
<1>1. events' \in 0..EventCap
  BY DispatchType DEF HandlerStart, HandlerEnd
<1>2. /\ handler' \in [Streams -> {"none", "called", "open"}]
      /\ servers' \in [Hosts -> Streams \cup {NoStream}]
  <2>1. CASE HandlerStart(k)
    BY <2>1 DEF HandlerStart, Registered, TypeOK
  <2>2. CASE HandlerEnd(k)
    BY <2>2 DEF HandlerEnd, Unregistered, TypeOK
  <2> QED
    BY <2>1, <2>2
<1>3. raced' \in [Hosts -> SUBSET Races]
  <2>1. CASE owner[k] \in Hosts
    <3>1. PICK R \in {raced[owner[k]], raced[owner[k]] \cup {"usurped"},
                      raced[owner[k]] \ {"usurped"}} :
            raced' = [raced EXCEPT ![owner[k]] = R]
      BY DEF HandlerStart, HandlerEnd
    <3>2. R \in SUBSET Races
      <4>1. raced[owner[k]] \in SUBSET Races /\ "usurped" \in Races
        BY <2>1 DEF TypeOK, Races
      <4> QED
        BY <3>1, <4>1
    <3> QED
      BY <3>1, <3>2, RacedType
  <2>2. CASE owner[k] \notin Hosts
    BY <2>2 DEF HandlerStart, HandlerEnd, TypeOK
  <2> QED
    BY <2>1, <2>2
<1>4. TypeOK'
  BY <1>0, <1>1, <1>2, <1>3 DEF TypeOK
<1> QED
  BY <1>0, <1>4 DEF Chosen, Ranging

LEMMA TypeFaults ==
  ASSUME TypeOK, Chosen, (\E h \in Hosts : Break(h) \/ Reconnect(h)) \/ Crash
  PROVE  TypeOK' /\ Chosen'
<1>a. \A h \in Hosts : lock[h].op = "Find" => lock[h].by \in Logins
  BY LockIs DEF TypeOK
<1>1. ASSUME NEW h \in Hosts, Break(h) PROVE TypeOK' /\ Chosen'
  <2>1. UNCHANGED <<up, servers, shards, players, events, auth, chan, cmd, owner,
                    smVars, loopVars, at, rejoins>>
    BY <1>1 DEF Break
  <2>2. /\ faults' \in 0..MaxFaults
        /\ conn' \in [Hosts -> BOOLEAN]
        /\ live' \in [Streams -> BOOLEAN]
    BY <1>1, RegistryAssumption DEF Break, TypeOK
  <2>3. calls' \in SUBSET Calls /\ late' \in SUBSET Calls
    BY <1>1 DEF Break, TypeOK, CallsOf
  <2>4. moving' \in SUBSET [call : Calls, read : Hosts \cup {NoHost}, asked : BOOLEAN]
    <3>1. moving' = {[m EXCEPT !.asked = @ /\ m.call.host # h] : m \in moving}
      BY <1>1 DEF Break
    <3>2. ASSUME NEW m \in moving
          PROVE  [m EXCEPT !.asked = @ /\ m.call.host # h]
                   \in [call : Calls, read : Hosts \cup {NoHost}, asked : BOOLEAN]
      <4>1. m \in [call : Calls, read : Hosts \cup {NoHost}, asked : BOOLEAN]
        BY DEF TypeOK
      <4>2. PICK a \in BOOLEAN : a = (m.asked /\ m.call.host # h)
        OBVIOUS
      <4> QED
        BY <4>1, <4>2
    <3> QED
      BY <3>1, <3>2
  <2>5. handler' \in [Streams -> {"none", "called", "open"}]
    BY <1>1 DEF Break, TypeOK
  <2>6. /\ sess' \in [Logins -> {"off", "auth", "in", "finding", "found", "moving",
                                 "play", "over"}]
        /\ \A l \in Logins : sess'[l] # sess[l] => sess[l] = "auth" /\ sess'[l] = "over"
    BY <1>1 DEF Break, TypeOK, Waiting
  <2>7. raced' \in [Hosts -> SUBSET Races]
    <3>1. PICK L : raced' = [raced EXCEPT ![h] = @
            \cup {"late" : c \in {d \in L : d.op = "AddShard"}}
            \cup {"failed" : c \in {d \in CallsOf(h) : d.op = "RmShard"}}]
      BY <1>1 DEF Break
    <3>2. PICK R : R = raced[h] \cup {"late" : c \in {d \in L : d.op = "AddShard"}}
            \cup {"failed" : c \in {d \in CallsOf(h) : d.op = "RmShard"}}
      OBVIOUS
    <3>3. R \in SUBSET Races
      BY <3>2 DEF TypeOK, Races
    <3>4. raced' = [raced EXCEPT ![h] = R]
      BY <3>1, <3>2
    <3> QED
      BY <3>3, <3>4, RacedType
  <2>8. TypeOK'
    BY <2>1, <2>2, <2>3, <2>4, <2>5, <2>6, <2>7 DEF TypeOK
  <2> QED
    BY <1>a, <2>1, <2>6, <2>8 DEF Chosen, Ranging
<1>2. ASSUME NEW h \in Hosts, Reconnect(h) PROVE TypeOK' /\ Chosen'
  <2>1. TypeOK'
    BY <1>2 DEF Reconnect, TypeOK
  <2> QED
    BY <1>2, <2>1 DEF Reconnect, Chosen, Ranging
<1>3. CASE Crash
  <2>1. UNCHANGED <<owner, smVars, loopVars, at, rejoins>>
    BY <1>3 DEF Crash
  <2>2. /\ up' \in BOOLEAN /\ servers' \in [Hosts -> Streams \cup {NoStream}]
        /\ shards' \in [Shards -> Hosts \cup {NoHost, Absent}]
        /\ players' \in [Users -> Shards \cup {NoShard, Absent}]
        /\ moving' = {} /\ calls' = {} /\ late' = {}
    BY <1>3 DEF Crash
  <2>f. events' \in 0..EventCap /\ faults' \in 0..MaxFaults
    BY <1>3, RegistryAssumption DEF Crash, TypeOK
  <2>3. /\ handler' \in [Streams -> {"none", "called", "open"}]
        /\ auth' = [l \in Logins |-> "none"]
        /\ chan' \in [Logins -> Streams \cup {NoStream}]
        /\ cmd' \in [at : {"idle", "send"}, to : Streams \cup {NoStream}]
        /\ live' \in [Streams -> BOOLEAN] /\ conn' \in [Hosts -> BOOLEAN]
    BY <1>3 DEF Crash, Quiet
  <2>4. /\ sess' \in [Logins -> {"off", "auth", "in", "finding", "found", "moving",
                                 "play", "over"}]
        /\ \A l \in Logins : sess'[l] # sess[l] => sess[l] = "auth" /\ sess'[l] = "over"
    BY <1>3 DEF Crash, TypeOK
  <2>5. raced' \in [Hosts -> SUBSET Races]
    <3>1. raced' = [h \in Hosts |-> IF loop[h] \in {"sync", "asked"}
                                    THEN raced[h] \cap {"overlap"} ELSE {}]
      BY <1>3 DEF Crash
    <3>2. \A h \in Hosts : raced'[h] \in SUBSET Races
      BY <3>1 DEF Races
    <3> QED
      BY <3>1, <3>2
  <2>6. TypeOK'
    BY <2>1, <2>2, <2>f, <2>3, <2>4, <2>5 DEF TypeOK
  <2> QED
    BY <1>a, <2>1, <2>3, <2>4, <2>6 DEF Chosen, Ranging
<1> QED
  BY <1>1, <1>2, <1>3

LEMMA TypeStep == TypeOK /\ Chosen /\ [Next]_vars => TypeOK' /\ Chosen'
BY Kinds, TypeServing, TypeIdling, TypeAuths, TypeJoining, TypeManaging, TypeLooping,
   TypeHandlers, TypeFaults

\* Every variable keeps its type in every reachable state, whatever is lost, late or
\* run again: in particular the shard that a login moves to is one, and the range of
\* eventHandler never reads past its array.
THEOREM RegistryTyped == Spec => []TypeOK
<1>1. Spec => [](TypeOK /\ Chosen)
  BY TypeStart, TypeStep, PTL DEF Spec
<1> QED
  BY <1>1, PTL

-----------------------------------------------------------------------------
(* What the controller lists, and where a kick is sent *)

\* What the proofs below assume of a step besides the part they are about
StepOf == TypeOK /\ TypeOK' /\ Chosen /\ Chosen' /\ [Next]_vars

-----------------------------------------------------------------------------
(* History *)

LEMMA RacedAdd ==
  ASSUME TypeOK, NEW g, NEW X, raced' = [raced EXCEPT ![g] = @ \cup X], NEW h \in Hosts
  PROVE  /\ raced[h] \subseteq raced'[h]
         /\ h # g => raced'[h] = raced[h]
         /\ h = g => raced'[h] = raced[h] \cup X
BY DEF TypeOK

LEMMA RemoveRaced ==
  ASSUME TypeOK, NEW s \in Shards, Remove(s), NEW h \in Hosts
  PROVE  /\ raced[h] \subseteq raced'[h]
         /\ h = HostOf[s] /\ Ranging(h) => "overlap" \in raced'[h]
         /\ h = HostOf[s] /\ ~conn[h] /\ shards[s] # Absent => "failed" \in raced'[h]
         /\ h # HostOf[s] => raced'[h] = raced[h]
<1>1. PICK X, Y :
        /\ raced' = [raced EXCEPT ![HostOf[s]] = @ \cup (X \cup Y)]
        /\ X = IF loop[HostOf[s]] \in {"sync", "asked"} THEN {"overlap"} ELSE {}
        /\ Y = IF ~conn[HostOf[s]] /\ shards[s] # Absent THEN {"failed"} ELSE {}
  <2>1. PICK X : X = IF loop[HostOf[s]] \in {"sync", "asked"} THEN {"overlap"} ELSE {}
    OBVIOUS
  <2>2. PICK Y : Y = IF ~conn[HostOf[s]] /\ shards[s] # Absent THEN {"failed"} ELSE {}
    OBVIOUS
  <2>3. raced' = [raced EXCEPT ![HostOf[s]] = (@ \cup X) \cup Y]
    BY <2>1, <2>2 DEF Remove
  <2>4. (raced[HostOf[s]] \cup X) \cup Y = raced[HostOf[s]] \cup (X \cup Y)
    OBVIOUS
  <2> QED
    BY <2>1, <2>2, <2>3, <2>4
<1>2. PICK Z : Z = X \cup Y
  OBVIOUS
<1>3. raced' = [raced EXCEPT ![HostOf[s]] = @ \cup Z]
  BY <1>1, <1>2
<1>4. /\ raced[h] \subseteq raced'[h]
      /\ h # HostOf[s] => raced'[h] = raced[h]
      /\ h = HostOf[s] => raced'[h] = raced[h] \cup Z
  BY <1>3, RacedAdd
<1> QED
  BY <1>1, <1>2, <1>4 DEF Ranging

LEMMA SyncRaced ==
  ASSUME TypeOK, NEW g \in Hosts, Sync(g), NEW h \in Hosts
  PROVE  /\ raced[h] \subseteq raced'[h]
         /\ h = g /\ lock[h].op \in {"Add", "Remove"} => "overlap" \in raced'[h]
<1>1. raced' = [raced EXCEPT ![g] = IF lock[g].op \in {"Add", "Remove"}
                                    THEN raced[g] \cup {"overlap"} ELSE raced[g]]
  BY DEF Sync
<1> QED
  BY <1>1 DEF TypeOK

LEMMA BreakRaced ==
  ASSUME TypeOK, NEW g \in Hosts, Break(g), NEW h \in Hosts
  PROVE  /\ raced[h] \subseteq raced'[h]
         /\ h # g => raced'[h] = raced[h]
         /\ \A c \in late' \ late : /\ c \in CallsOf(g)
                                    /\ c.op = "AddShard" => "late" \in raced'[g]
         /\ \A c \in CallsOf(g) : c.op = "RmShard" => "failed" \in raced'[g]
<1>1. PICK L \in SUBSET {c \in CallsOf(g) :
                           c.op \in Lates /\ \A m \in moving : m.asked => m.call # c} :
        /\ late' = late \cup L
        /\ raced' = [raced EXCEPT ![g] = @
            \cup {"late" : c \in {d \in L : d.op = "AddShard"}}
            \cup {"failed" : c \in {d \in CallsOf(g) : d.op = "RmShard"}}]
  BY DEF Break
<1>2. PICK X : X = {"late" : c \in {d \in L : d.op = "AddShard"}}
  OBVIOUS
<1>3. PICK Y : Y = {"failed" : c \in {d \in CallsOf(g) : d.op = "RmShard"}}
  OBVIOUS
<1>4. raced' = [raced EXCEPT ![g] = (raced[g] \cup X) \cup Y]
  BY <1>1, <1>2, <1>3
<1>5. /\ \A c \in L : c \in CallsOf(g) /\ (c.op = "AddShard" => "late" \in X)
      /\ \A c \in CallsOf(g) : c.op = "RmShard" => "failed" \in Y
  BY <1>1, <1>2, <1>3
<1>6. /\ h # g => raced'[h] = raced[h]
      /\ raced'[g] = (raced[g] \cup X) \cup Y
  BY <1>4 DEF TypeOK
<1> QED
  BY <1>1, <1>5, <1>6

\* Only a handler that starts, and a crash, take something out of the history.
LEMMA RacedGrows ==
  ASSUME TypeOK, [Next]_vars, ~Crash, \A k \in Streams : ~HandlerStart(k),
         NEW h \in Hosts
  PROVE  raced[h] \subseteq raced'[h]
<1>1. CASE raced' = raced
  BY <1>1
<1>2. ASSUME NEW m \in moving, MoveWrite(m) PROVE raced[h] \subseteq raced'[h]
  <2>1. raced' = raced \/ raced' = [raced EXCEPT ![HostOf[m.call.id]] = @ \cup {"torn"}]
    BY <1>2 DEF MoveWrite
  <2> QED
    BY <1>1, <2>1, RacedAdd
<1>3. CASE Serving
  BY <1>1, <1>2, <1>3 DEF Serving, Serve, MoveRead
<1>4. CASE Managing
  BY <1>1, <1>4, RemoveRaced DEF Managing, Add, Added, Removed, Found
<1>5. CASE Looping
  BY <1>1, <1>5, SyncRaced
     DEF Looping, LoopStep, Events, SyncAsk, SyncNext, RecvFails
<1>6. ASSUME NEW k \in Streams, HandlerEnd(k) PROVE raced[h] \subseteq raced'[h]
  <2>1. \/ raced' = [raced EXCEPT ![owner[k]] = @ \cup {"usurped"}]
        \/ raced' = [raced EXCEPT ![owner[k]] = @]
    BY <1>6 DEF HandlerEnd
  <2>2. h \in DOMAIN raced
    BY DEF TypeOK
  <2> QED
    BY <2>1, <2>2
<1>7. CASE \E g \in Hosts : Break(g) \/ Reconnect(g)
  BY <1>1, <1>7, BreakRaced DEF Reconnect
<1> QED
  BY <1>1, <1>3, <1>4, <1>5, <1>6, <1>7, Kinds, IdlingFrame, AuthsFrame, JoiningFrame

\* What a handler that starts takes out is that an older stream came after.
LEMMA StartRaced ==
  ASSUME TypeOK, NEW k \in Streams, HandlerStart(k), NEW h \in Hosts
  PROVE  raced[h] \ {"usurped"} \subseteq raced'[h]
<1>1. raced' = [raced EXCEPT ![owner[k]] = IF live[k] THEN @ \ {"usurped"}
                                           ELSE @ \cup {"usurped"}]
  BY DEF HandlerStart
<1> QED
  BY <1>1 DEF TypeOK

\* But for a crash, a host without such events has had none before.
LEMMA RacedBefore ==
  ASSUME TypeOK, [Next]_vars, ~Crash, NEW h \in Hosts
  PROVE  /\ Unraced(h)' => Unraced(h)
         /\ \A x : x # "usurped" /\ x \in raced[h] => x \in raced'[h]
<1>1. raced[h] \ {"usurped"} \subseteq raced'[h]
  BY RacedGrows, StartRaced
<1> QED
  BY <1>1 DEF Unraced

-----------------------------------------------------------------------------
(* Streams *)

LEMMA StreamsStep == StepOf /\ StreamsOwned => StreamsOwned'
<1> SUFFICES ASSUME StepOf, StreamsOwned PROVE StreamsOwned'
  OBVIOUS
<1> USE DEF StepOf, StreamsOwned
<1>1. CASE UNCHANGED <<loop, cur, owner, live, conn>>
  BY <1>1
<1>2. ASSUME NEW h \in Hosts, LoopStep(h) PROVE StreamsOwned'
  <2>1. CASE Events(h)
    <3>1. PICK k \in Streams :
            /\ Unused(k)
            /\ owner' = [owner EXCEPT ![k] = h] /\ live' = [live EXCEPT ![k] = TRUE]
            /\ cur' = [cur EXCEPT ![h] = k]
      BY <2>1 DEF Events
    <3>2. /\ loop[h] = "call" /\ conn[h] /\ conn' = conn
          /\ loop' = [loop EXCEPT ![h] = "opened"]
      BY <2>1 DEF Events
    <3>3. /\ k # NoStream /\ ~live[k] /\ \A g \in Hosts : cur[g] # k
          /\ cur[h] = NoStream
      BY <3>1, <3>2, RegistryAssumption DEF Unused
    <3>4. ASSUME NEW g \in Hosts
          PROVE  /\ cur'[g] = NoStream <=> loop'[g] = "call"
                 /\ cur'[g] # NoStream => owner'[cur'[g]] = g
      BY <3>1, <3>2, <3>3 DEF TypeOK
    <3>5. ASSUME NEW j \in Streams, live'[j]
          PROVE  owner'[j] \in Hosts /\ cur'[owner'[j]] = j /\ conn'[owner'[j]]
      <4>1. CASE j = k
        BY <3>1, <3>2, <4>1 DEF TypeOK
      <4>2. CASE j # k
        <5>1. live[j] /\ owner'[j] = owner[j] /\ owner[j] # h
          BY <3>1, <3>3, <3>5, <4>2, RegistryAssumption DEF TypeOK
        <5> QED
          BY <3>1, <3>2, <5>1 DEF TypeOK
      <4> QED
        BY <4>1, <4>2
    <3> QED
      BY <3>4, <3>5
  <2>2. CASE Sync(h) \/ SyncAsk(h) \/ SyncNext(h)
    <3>1. /\ UNCHANGED <<cur, owner, live, conn>> /\ loop[h] # "call"
          /\ \E a \in {"sync", "asked", "recv"} : loop' = [loop EXCEPT ![h] = a]
      BY <2>2 DEF Sync, SyncAsk, SyncNext, Syncing
    <3> QED
      BY <3>1 DEF TypeOK
  <2>3. CASE RecvFails(h)
    <3>1. /\ loop[h] = "recv" /\ ~live[cur[h]] /\ UNCHANGED <<owner, live, conn>>
          /\ loop' = [loop EXCEPT ![h] = "call"] /\ cur' = [cur EXCEPT ![h] = NoStream]
      BY <2>3 DEF RecvFails
    <3> QED
      BY <3>1 DEF TypeOK
  <2> QED
    BY <1>2, <2>1, <2>2, <2>3 DEF LoopStep
<1>3. ASSUME NEW h \in Hosts, Break(h) PROVE StreamsOwned'
  <2>1. /\ UNCHANGED <<loop, cur, owner>> /\ conn' = [conn EXCEPT ![h] = FALSE]
        /\ live' = [k \in Streams |-> live[k] /\ owner[k] # h]
    BY <1>3 DEF Break
  <2> QED
    BY <2>1 DEF TypeOK
<1>4. ASSUME NEW h \in Hosts, Reconnect(h) PROVE StreamsOwned'
  BY <1>4 DEF Reconnect, TypeOK
<1>5. CASE Crash
  BY <1>5 DEF Crash
<1> QED
  BY <1>1, <1>2, <1>3, <1>4, <1>5, Kinds, ServingFrame, IdlingFrame, AuthsFrame,
     JoiningFrame, ManagingFrame, HandlersFrame DEF Looping

\* An open stream is its host's own, and stays dead once it is dead.
LEMMA StreamIs ==
  ASSUME TypeOK, StreamsOwned, NEW h \in Hosts, loop[h] # "call"
  PROVE  cur[h] \in Streams /\ owner[cur[h]] = h /\ (live[cur[h]] => conn[h])
BY DEF TypeOK, StreamsOwned

LEMMA StreamRegisteredStep ==
  StepOf /\ StreamsOwned /\ StreamIsRegistered => StreamIsRegistered'
<1> SUFFICES ASSUME StepOf, StreamsOwned, StreamIsRegistered,
                    NEW h \in Hosts, loop'[h] # "call", live'[cur'[h]],
                    handler'[cur'[h]] = "open", "usurped" \notin raced'[h]
             PROVE  servers'[h] = cur'[h]
  BY DEF StreamIsRegistered
<1> USE DEF StepOf
<1>1. ASSUME NEW k \in Streams, HandlerStart(k) \/ HandlerEnd(k)
      PROVE  servers'[h] = cur'[h]
  <2>1. UNCHANGED <<owner, live, loop, cur>>
    BY <1>1, HandlersFrame
  <2>2. cur[h] \in Streams /\ owner[cur[h]] = h
    BY <2>1, StreamIs
  <2>3. CASE owner[k] # h
    <3>1. handler'[cur[h]] = handler[cur[h]] /\ servers'[h] = servers[h]
            /\ raced'[h] = raced[h]
      BY <1>1, <2>2, <2>3 DEF HandlerStart, HandlerEnd, Registered, Unregistered, TypeOK
    <3> QED
      BY <2>1, <3>1 DEF StreamIsRegistered
  <2>4. CASE owner[k] = h /\ HandlerStart(k)
    <3>1. /\ servers' = [servers EXCEPT ![h] = k]
          /\ raced' = [raced EXCEPT ![h] = IF live[k] THEN @ \ {"usurped"}
                                           ELSE @ \cup {"usurped"}]
      BY <2>4 DEF HandlerStart, Registered
    <3>2. live[k]
      BY <3>1 DEF TypeOK
    <3>3. cur[h] = k
      BY <2>4, <3>2 DEF StreamsOwned
    <3> QED
      BY <2>1, <3>1, <3>3 DEF TypeOK
  <2>5. CASE owner[k] = h /\ HandlerEnd(k)
    <3>1. /\ ~live[k] /\ handler' = [handler EXCEPT ![k] = "none"]
          /\ raced' = [raced EXCEPT ![h] = IF Usurps(k) THEN @ \cup {"usurped"} ELSE @]
      BY <2>5 DEF HandlerEnd
    <3>2. ~Usurps(k) /\ "usurped" \notin raced[h]
      BY <3>1 DEF TypeOK
    <3>3. handler[cur[h]] = "open" /\ cur[h] # k
      BY <2>1, <2>2, <3>1 DEF TypeOK
    <3>4. servers[h] = cur[h]
      BY <2>1, <3>2, <3>3 DEF StreamIsRegistered
    <3> QED
      BY <2>2, <2>5, <3>2, <3>3, <3>4, RegistryAssumption DEF Usurps
  <2> QED
    BY <1>1, <2>3, <2>4, <2>5
<1>2. CASE Crash
  <2>1. loop' = loop /\ cur' = cur /\ live' = [k \in Streams |-> FALSE]
    BY <1>2 DEF Crash
  <2> QED
    BY <2>1, StreamIs
<1> SUFFICES ASSUME ~Crash, \A k \in Streams : ~HandlerStart(k)
             PROVE  servers'[h] = cur'[h]
  BY <1>1, <1>2
<1>3. "usurped" \notin raced[h]
  BY RacedGrows
<1>4. CASE /\ UNCHANGED <<cur, live, handler, servers>> /\ loop[h] # "call"
  BY <1>4, <1>3 DEF StreamIsRegistered
<1>5. CASE Serving \/ Managing
  BY <1>4, <1>5, ServingFrame, ManagingFrame
<1>6. ASSUME NEW g \in Hosts, LoopStep(g) PROVE servers'[h] = cur'[h]
  <2>1. CASE Events(g)
    <3>1. PICK k \in Streams :
            /\ Unused(k) /\ handler' = [handler EXCEPT ![k] = "called"]
            /\ live' = [live EXCEPT ![k] = TRUE] /\ cur' = [cur EXCEPT ![g] = k]
      BY <2>1 DEF Events
    <3>2. UNCHANGED <<servers, raced>> /\ loop' = [loop EXCEPT ![g] = "opened"]
      BY <2>1 DEF Events
    <3>3. h # g
      BY <3>1 DEF TypeOK
    <3>4. cur'[h] = cur[h] /\ cur[h] # k /\ loop[h] # "call"
      BY <3>1, <3>2, <3>3 DEF Unused, TypeOK
    <3>5. cur[h] \in Streams
      BY <3>4, StreamIs
    <3> QED
      BY <3>1, <3>2, <3>4, <3>5 DEF TypeOK, StreamIsRegistered
  <2>2. CASE Sync(g) \/ SyncAsk(g) \/ SyncNext(g)
    <3>1. /\ UNCHANGED <<cur, live, handler, servers>> /\ loop[g] # "call"
          /\ \E a : loop' = [loop EXCEPT ![g] = a]
      BY <2>2 DEF Sync, SyncAsk, SyncNext
    <3> QED
      BY <1>4, <1>3, <3>1 DEF TypeOK
  <2>3. CASE RecvFails(g)
    <3>1. /\ cur' = [cur EXCEPT ![g] = NoStream] /\ loop' = [loop EXCEPT ![g] = "call"]
          /\ UNCHANGED <<live, handler, servers, raced>>
      BY <2>3 DEF RecvFails
    <3>2. h # g
      BY <3>1 DEF TypeOK
    <3> QED
      BY <3>1, <3>2 DEF TypeOK, StreamIsRegistered
  <2> QED
    BY <1>6, <2>1, <2>2, <2>3 DEF LoopStep
<1>7. ASSUME NEW g \in Hosts, Break(g) PROVE servers'[h] = cur'[h]
  <2>1. /\ UNCHANGED <<loop, cur, servers>>
        /\ live' = [k \in Streams |-> live[k] /\ owner[k] # g]
    BY <1>7 DEF Break
  <2>2. cur[h] \in Streams /\ owner[cur[h]] = h
    BY <2>1, StreamIs
  <2>3. g # h /\ live[cur[h]]
    BY <2>1, <2>2
  <2>4. handler[cur[h]] = "open"
    BY <1>7, <2>1, <2>2 DEF Break
  <2>5. raced'[h] = raced[h]
    BY <1>7, <2>3 DEF Break, TypeOK
  <2> QED
    BY <2>1, <2>3, <2>4, <2>5 DEF StreamIsRegistered
<1>8. CASE \E g \in Hosts : Reconnect(g)
  BY <1>4, <1>8 DEF Reconnect
<1> QED
  BY <1>4, <1>5, <1>6, <1>1, <1>7, <1>2, <1>8, Kinds, IdlingFrame, AuthsFrame,
     JoiningFrame DEF Looping

-----------------------------------------------------------------------------
(* What a step may add: calls, late calls, shards to range over *)

LEMMA HeadIs ==
  ASSUME TypeOK, Chosen, NEW h \in Hosts, Ranging(h)
  PROVE  /\ Head(sync[h].rest) = sync[h].rest[1] /\ 1 \in DOMAIN sync[h].rest
         /\ Head(sync[h].rest) \in Shards
<1>1. sync[h] \in Ranges /\ sync[h].rest # <<>> /\ sync[h].rest \in Seq(Shards)
  BY DEF TypeOK, Chosen, Ranges
<1>2. Head(sync[h].rest) = sync[h].rest[1]
  BY <1>1
<1>3. 1 \in DOMAIN sync[h].rest /\ sync[h].rest[1] \in Shards
  BY <1>1, RangeIs
<1> QED
  BY <1>2, <1>3

LEMMA NewCalls ==
  ASSUME StepOf, NEW c \in calls', c \notin calls
  PROVE  /\ conn[c.host]
         /\ \/ \E s \in Shards : Add(s) /\ c = ShardCall("AddShard", s, "lock")
            \/ \E s \in Shards : Remove(s) /\ c = ShardCall("RmShard", s, "lock")
            \/ \E l \in Logins : /\ Find(l)
                                 /\ \E s \in Shards : c = ShardCall("MoveShard", s, "lock")
            \/ \E l \in Logins : Move(l) /\ c = MoveUserCall(l)
            \/ \E h \in Hosts : /\ SyncAsk(h)
                                /\ c = ShardCall("AddShard", sync[h].rest[1], "loop")
<1> USE DEF StepOf
<1>1. CASE calls' \subseteq calls
  BY <1>1
<1>2. ASSUME NEW s \in Shards, Add(s) \/ Remove(s)
      PROVE  /\ conn[c.host]
             /\ \/ Add(s) /\ c = ShardCall("AddShard", s, "lock")
                \/ Remove(s) /\ c = ShardCall("RmShard", s, "lock")
  BY <1>2, Calling DEF Add, Remove
<1>3. ASSUME NEW l \in Logins, Find(l)
      PROVE  conn[c.host] /\ \E s \in Shards : c = ShardCall("MoveShard", s, "lock")
  <2>1. PICK s \in Listed(LoginHost[l]) :
          calls' = calls \/ Call(ShardCall("MoveShard", s, "lock"))
    BY <1>3 DEF Find
  <2>2. s \in Shards
    BY RegistryAssumption, ListedAre
  <2> QED
    BY <2>1, <2>2, Calling
<1>4. ASSUME NEW l \in Logins, Move(l) PROVE conn[c.host] /\ c = MoveUserCall(l)
  BY <1>4, Calling DEF Move
<1>5. ASSUME NEW h \in Hosts, SyncAsk(h)
      PROVE  conn[c.host] /\ c = ShardCall("AddShard", sync[h].rest[1], "loop")
  <2>1. Ranging(h)
    BY <1>5 DEF SyncAsk, Ranging
  <2> QED
    BY <1>5, <2>1, Calling, HeadIs DEF SyncAsk
<1>6. CASE Serving
  BY <1>1, <1>6 DEF Serving, Serve, MoveRead, MoveWrite, Answered
<1>7. CASE Managing
  BY <1>1, <1>2, <1>7 DEF Managing, Added, Removed, Found
<1>8. CASE Joining
  BY <1>1, <1>3, <1>4, <1>8 DEF Joining, Play, Rejoin
<1>9. CASE Looping
  BY <1>1, <1>5, <1>9 DEF Looping, LoopStep, Events, Sync, SyncNext, RecvFails
<1>10. CASE (\E h \in Hosts : Break(h) \/ Reconnect(h)) \/ Crash
  BY <1>1, <1>10 DEF Break, Reconnect, Crash
<1> QED
  BY <1>1, <1>6, <1>7, <1>8, <1>9, <1>10, Kinds, IdlingFrame, AuthsFrame, HandlersFrame

LEMMA LateCalls ==
  ASSUME StepOf, NEW c \in late', c \notin late
  PROVE  \E h \in Hosts : Break(h) /\ c \in CallsOf(h) /\ c \in calls /\ c.host = h
<1> USE DEF StepOf
<1>1. CASE late' \subseteq late
  BY <1>1
<1>2. CASE Serving
  BY <1>1, <1>2 DEF Serving, Serve, MoveRead, MoveWrite
<1>3. ASSUME NEW h \in Hosts, Break(h)
      PROVE  c \in CallsOf(h) /\ c \in calls /\ c.host = h
  BY <1>3, BreakRaced DEF CallsOf
<1>4. CASE (\E h \in Hosts : Break(h) \/ Reconnect(h)) \/ Crash
  BY <1>1, <1>3, <1>4 DEF Reconnect, Crash
<1> QED
  BY <1>1, <1>2, <1>4, Kinds, IdlingFrame, AuthsFrame, HandlersFrame, JoiningFrame,
     ManagingFrame, LoopingFrame

LEMMA NewRest ==
  ASSUME StepOf, NEW h \in Hosts, NEW j \in DOMAIN sync'[h].rest
  PROVE  \/ \E i \in DOMAIN sync[h].rest : sync'[h].rest[j] = sync[h].rest[i]
         \/ sync'[h].rest[j] \in Listed(h)
         \/ Added(h) /\ sync'[h].rest[j] = lock[h].id
<1> USE DEF StepOf
<1>1. CASE sync'[h] = sync[h]
  BY <1>1
<1>2. ASSUME NEW g \in Hosts, Added(g), sync'[h] # sync[h]
      PROVE  \/ \E i \in DOMAIN sync[h].rest : sync'[h].rest[j] = sync[h].rest[i]
             \/ Added(h) /\ sync'[h].rest[j] = lock[h].id
  <2>1. PICK b \in BOOLEAN : sync' = [sync EXCEPT ![g] = Append1(g, lock[g].id, b)]
    BY <1>2 DEF Added
  <2>2. g = h /\ sync'[h] = Append1(h, lock[h].id, b)
    BY <1>2, <2>1 DEF TypeOK
  <2>3. lock[h].id \in Shards
    BY <1>2, <2>2, LockIs DEF Added, TypeOK
  <2> QED
    BY <1>2, <2>2, <2>3, AppendUnder
<1>3. ASSUME NEW g \in Hosts, Removed(g), sync'[h] # sync[h]
      PROVE  \/ \E i \in DOMAIN sync[h].rest : sync'[h].rest[j] = sync[h].rest[i]
             \/ sync'[h].rest[j] \in Listed(h)
  <2>1. PICK i \in DOMAIN list[g] : sync' = [sync EXCEPT ![g] = ShiftedDown(g, i)]
    BY <1>3 DEF Removed
  <2>2. g = h /\ sync'[h] = ShiftedDown(h, i)
    BY <1>3, <2>1 DEF TypeOK
  <2> QED
    BY <2>2, ShiftUnder
<1>4. ASSUME NEW g \in Hosts, Sync(g), sync'[h] # sync[h]
      PROVE  sync'[h].rest[j] \in Listed(h)
  <2>1. g = h /\ sync'[h].rest = list[h]
    BY <1>4, StartRange DEF Sync, TypeOK
  <2> QED
    BY <2>1 DEF Listed
<1>5. ASSUME NEW g \in Hosts, SyncNext(g), sync'[h] # sync[h]
      PROVE  \E i \in DOMAIN sync[h].rest : sync'[h].rest[j] = sync[h].rest[i]
  <2>1. /\ g = h /\ sync'[h] = NextSync(sync[h])
        /\ sync[h] \in Ranges /\ sync[h].rest # <<>>
    BY <1>5 DEF SyncNext, TypeOK, Ranges, Chosen, Ranging
  <2>2. CASE Len(sync[h].rest) = 1
    <3>1. sync'[h].rest = <<>>
      BY <2>1, <2>2, GoOn DEF NoSync
    <3> QED
      BY <3>1
  <2>3. CASE Len(sync[h].rest) # 1
    BY <2>1, <2>3, GoOn
  <2> QED
    BY <2>2, <2>3
<1>6. CASE Managing
  BY <1>1, <1>2, <1>3, <1>6 DEF Managing, Add, Remove, Found
<1>7. CASE Looping
  BY <1>1, <1>4, <1>5, <1>7 DEF Looping, LoopStep, Events, SyncAsk, RecvFails
<1>8. CASE (\E g \in Hosts : Break(g) \/ Reconnect(g)) \/ Crash
  BY <1>1, <1>8 DEF Break, Reconnect, Crash
<1> QED
  BY <1>1, <1>6, <1>7, <1>8, Kinds, ServingFrame, IdlingFrame, AuthsFrame, JoiningFrame,
     HandlersFrame

-----------------------------------------------------------------------------
(* Hosts and their shards *)

LEMMA OwnShardsStep ==
  StepOf /\ OwnShards /\ ListLife => OwnShards'
<1> SUFFICES ASSUME StepOf, OwnShards, ListLife PROVE OwnShards'
  OBVIOUS
<1> USE DEF StepOf
<1>1. \A s \in Shards : shards'[s] \in {HostOf[s], NoHost, Absent}
  <2>1. CASE shards' = shards
    BY <2>1 DEF OwnShards
  <2>2. ASSUME NEW c \in calls \cup late, Serve(c)
        PROVE  \A s \in Shards : shards'[s] \in {HostOf[s], NoHost, Absent}
    <3>1. c \in Calls
      BY DEF TypeOK
    <3>2. CASE c.op = "AddShard"
      <4>1. shards' = [shards EXCEPT ![c.id] = HostOf[c.id]]
        BY <2>2, <3>2 DEF Serve, AddedEntry, OwnShards
      <4> QED
        BY <4>1 DEF OwnShards, TypeOK
    <3>3. CASE c.op # "AddShard"
      BY <2>2, <3>3 DEF Serve, OwnShards, TypeOK
    <3> QED
      BY <3>2, <3>3
  <2>3. ASSUME NEW m \in moving, MoveWrite(m)
        PROVE  \A s \in Shards : shards'[s] \in {HostOf[s], NoHost, Absent}
    <3>1. shards' = [shards EXCEPT ![m.call.id] = m.read]
      BY <2>3 DEF MoveWrite
    <3>2. m.read \in {HostOf[m.call.id], NoHost}
      BY DEF OwnShards
    <3> QED
      BY <3>1, <3>2 DEF OwnShards, TypeOK
  <2>4. CASE Serving
    BY <2>1, <2>2, <2>3, <2>4 DEF Serving, MoveRead
  <2>5. CASE (\E h \in Hosts : Break(h) \/ Reconnect(h)) \/ Crash
    BY <2>1, <2>5 DEF Break, Reconnect, Crash
  <2> QED
    BY <2>1, <2>4, <2>5, Kinds, IdlingFrame, AuthsFrame, JoiningFrame, ManagingFrame,
       LoopingFrame, HandlersFrame
<1>2. ASSUME NEW c \in calls' \cup late', c.op # "MoveUser" PROVE c.host = HostOf[c.id]
  <2>1. CASE c \in calls \cup late
    BY <1>2, <2>1 DEF OwnShards
  <2>2. CASE c \notin calls \cup late
    <3>1. c \in calls'
      BY <2>2, LateCalls
    <3>2. \/ \E s \in Shards : \E o, b : c = ShardCall(o, s, b)
          \/ \E l \in Logins : c = MoveUserCall(l)
          \/ \E h \in Hosts : SyncAsk(h) /\ c = ShardCall("AddShard", sync[h].rest[1], "loop")
      BY <2>2, <3>1, NewCalls
    <3> QED
      BY <1>2, <3>2 DEF ShardCall, MoveUserCall
  <2> QED
    BY <2>1, <2>2
<1>3. ASSUME NEW m \in moving'
      PROVE  m.call.op = "MoveShard" /\ m.read \in {HostOf[m.call.id], NoHost}
  <2>1. CASE m \in moving
    BY <2>1 DEF OwnShards
  <2>2. ASSUME NEW c \in calls \cup late, MoveRead(c), m \notin moving
        PROVE  m.call.op = "MoveShard" /\ m.read \in {HostOf[m.call.id], NoHost}
    <3>1. c.id \in Shards
      BY CallIs DEF TypeOK
    <3>2. /\ m = [call |-> c, asked |-> c \in calls,
                  read |-> IF shards[c.id] = Absent THEN NoHost ELSE shards[c.id]]
          /\ c.op = "MoveShard"
      BY <2>2 DEF MoveRead
    <3>3. m.call = c /\ m.read = IF shards[c.id] = Absent THEN NoHost ELSE shards[c.id]
      BY <3>2
    <3> QED
      BY <3>1, <3>2, <3>3 DEF OwnShards
  <2>3. ASSUME NEW h \in Hosts, Break(h)
        PROVE  m.call.op = "MoveShard" /\ m.read \in {HostOf[m.call.id], NoHost}
    <3>1. PICK n \in moving : m = [n EXCEPT !.asked = @ /\ n.call.host # h]
      BY <2>3 DEF Break
    <3>2. n \in [call : Calls, read : Hosts \cup {NoHost}, asked : BOOLEAN]
      BY DEF TypeOK
    <3>3. m.call = n.call /\ m.read = n.read
      BY <3>1, <3>2
    <3> QED
      BY <3>3 DEF OwnShards
  <2>4. CASE Serving
    BY <2>1, <2>2, <2>4 DEF Serving, Serve, MoveWrite
  <2>5. CASE (\E h \in Hosts : Break(h) \/ Reconnect(h)) \/ Crash
    BY <2>1, <2>3, <2>5 DEF Reconnect, Crash
  <2> QED
    BY <2>1, <2>4, <2>5, Kinds, IdlingFrame, AuthsFrame, JoiningFrame, ManagingFrame,
       LoopingFrame, HandlersFrame
<1>4. ASSUME NEW h \in Hosts, NEW j \in DOMAIN sync'[h].rest
      PROVE  HostOf[sync'[h].rest[j]] = h
  <2>1. ASSUME Added(h) PROVE HostOf[lock[h].id] = h
    BY <2>1 DEF Added, ListLife
  <2>2. \A s \in Listed(h) : HostOf[s] = h
    BY DEF ListLife
  <2> QED
    BY <2>1, <2>2, NewRest DEF OwnShards
<1> QED
  BY <1>1, <1>2, <1>3, <1>4 DEF OwnShards

\* A sequence without repetitions, and what is in it
Once(q)  == \A j, k \in DOMAIN q : q[j] = q[k] => j = k
Items(q) == {q[j] : j \in DOMAIN q}

LEMMA ListedWithout ==
  ASSUME NEW S, NEW q \in Seq(S), NEW i \in DOMAIN q, Once(q),
         NEW r, r = SubSeq(q, 1, i - 1) \o SubSeq(q, i + 1, Len(q))
  PROVE  Once(r) /\ Items(r) = Items(q) \ {q[i]}
<1>2. PICK n \in Nat : n = Len(q) /\ DOMAIN q = 1..n /\ i \in 1..n
  BY ZenonT(60), SeqPlaces
<1>3. /\ DOMAIN r = 1..(n - 1)
      /\ \A j \in 1..(n - 1) : r[j] = IF j < i THEN q[j] ELSE q[j + 1]
  <2>1. /\ r \in Seq(S) /\ Len(r) = n - 1
        /\ \A j \in 1..Len(r) : r[j] = IF j < i THEN q[j] ELSE q[j + 1]
    BY <1>2, WithoutPlace
  <2> QED
    BY <2>1, SeqPlaces
<1>4. ASSUME NEW j \in 1..(n - 1)
      PROVE  \E k \in 1..n : k # i /\ r[j] = q[k] /\ k = IF j < i THEN j ELSE j + 1
  <2>1. CASE j < i
    BY <1>2, <1>3, <2>1
  <2>2. CASE ~(j < i)
    <3>1. j + 1 \in 1..n /\ j + 1 # i
      BY <1>2, <2>2
    <3> QED
      BY <1>3, <2>2, <3>1
  <2> QED
    BY <2>1, <2>2
<1>5. ASSUME NEW k \in 1..n, k # i PROVE \E j \in 1..(n - 1) : r[j] = q[k]
  <2>1. CASE k < i
    <3>1. k \in 1..(n - 1)
      BY <1>2, <2>1
    <3> QED
      BY <1>3, <2>1, <3>1
  <2>2. CASE i < k
    <3>1. PICK j \in 1..(n - 1) : j + 1 = k /\ ~(j < i)
      <4>1. k - 1 \in 1..(n - 1) /\ (k - 1) + 1 = k /\ ~(k - 1 < i)
        BY <1>2, <2>2
      <4> QED
        BY <4>1
    <3> QED
      BY <1>3, <3>1
  <2>3. k < i \/ i < k
    BY <1>2, <1>5
  <2> QED
    BY <2>1, <2>2, <2>3
<1>6. ASSUME NEW j \in 1..(n - 1), NEW k \in 1..(n - 1), r[j] = r[k] PROVE j = k
  <2>1. PICK a \in 1..n : r[j] = q[a] /\ a = IF j < i THEN j ELSE j + 1
    BY <1>4
  <2>2. PICK b \in 1..n : r[k] = q[b] /\ b = IF k < i THEN k ELSE k + 1
    BY <1>4
  <2>3. a = b
    BY <1>2, <1>6, <2>1, <2>2 DEF Once
  <2> QED
    BY <1>2, <2>1, <2>2, <2>3
<1>7. {r[j] : j \in 1..(n - 1)} = {q[j] : j \in 1..n} \ {q[i]}
  <2>1. ASSUME NEW j \in 1..(n - 1) PROVE r[j] \in {q[k] : k \in 1..n} \ {q[i]}
    <3>1. PICK k \in 1..n : k # i /\ r[j] = q[k]
      BY <1>4
    <3>2. q[k] # q[i]
      BY <1>2, <3>1 DEF Once
    <3> QED
      BY <3>1, <3>2
  <2>2. ASSUME NEW k \in 1..n, q[k] # q[i] PROVE q[k] \in {r[j] : j \in 1..(n - 1)}
    <3>1. PICK j \in 1..(n - 1) : r[j] = q[k]
      BY <1>5, <2>2
    <3> QED
      BY <3>1
  <2> QED
    BY <2>1, <2>2
<1> QED
  BY <1>2, <1>3, <1>6, <1>7 DEF Once, Items

LEMMA ListedMore ==
  ASSUME NEW S, NEW q \in Seq(S), NEW s \in S, \A j \in DOMAIN q : q[j] # s,
         \A j, k \in DOMAIN q : q[j] = q[k] => j = k
  PROVE  LET r == Append(q, s) IN
         /\ \A j, k \in DOMAIN r : r[j] = r[k] => j = k
         /\ {r[j] : j \in DOMAIN r} = {q[j] : j \in DOMAIN q} \cup {s}
<1>1. PICK r : r = Append(q, s)
  OBVIOUS
<1>2. PICK n \in Nat : n = Len(q) /\ DOMAIN q = 1..n
  BY SeqPlaces
<1>3. DOMAIN r = 1..(n + 1) /\ r[n + 1] = s /\ \A j \in 1..n : r[j] = q[j]
  <2>1. /\ r \in Seq(S) /\ Len(r) = n + 1 /\ r[n + 1] = s
        /\ \A j \in 1..n : r[j] = q[j]
    BY <1>1, <1>2, AppendProperties
  <2> QED
    BY <2>1, SeqPlaces
<1>4. \A j \in 1..(n + 1) : j \in 1..n \/ j = n + 1
  BY <1>2
<1>5. \A j \in 1..n : j \in 1..(n + 1)
  BY <1>2
<1>6. n + 1 \in 1..(n + 1)
  BY <1>2
<1>7. ASSUME NEW j \in 1..(n + 1), NEW k \in 1..(n + 1), r[j] = r[k] PROVE j = k
  BY <1>2, <1>3, <1>4, <1>7
<1>8. {r[j] : j \in 1..(n + 1)} = {q[j] : j \in 1..n} \cup {s}
  BY <1>3, <1>4, <1>5, <1>6
<1> QED
  BY <1>1, <1>2, <1>3, <1>7, <1>8

\* Who holds a lock, and what for, is one.
LEMMA OneHolds ==
  ASSUME NEW r, NEW o, NEW s, r = [op |-> o, id |-> s, by |-> NoShard],
         NEW p, NEW t, t # s
  PROVE  r # [op |-> p, id |-> t, by |-> NoShard] /\ (o # "none" => r # Free)
<1>1. r.id = s /\ r.op = o
  OBVIOUS
<1>2. [op |-> p, id |-> t, by |-> NoShard].id = t /\ Free.op = "none"
  BY DEF Free
<1> QED
  BY <1>1, <1>2

LEMMA FreeIsFree ==
  ASSUME NEW s, NEW o \in {"Add", "Remove"}
  PROVE  Free # [op |-> o, id |-> s, by |-> NoShard]
<1>1. Free.op = "none" /\ [op |-> o, id |-> s, by |-> NoShard].op = o
  BY DEF Free
<1> QED
  BY <1>1

LEMMA ListLifeStep == StepOf /\ ListLife => ListLife'
<1> SUFFICES ASSUME StepOf, ListLife PROVE ListLife'
  OBVIOUS
<1> USE DEF StepOf
<1> DEFINE Holds(s, o) == lock[HostOf[s]] = [op |-> o, id |-> s, by |-> NoShard]
<1>a. /\ \A s \in Shards : HostOf[s] \in Hosts /\ (life[s] = "adding" <=> Holds(s, "Add"))
                                               /\ (life[s] = "removing" <=> Holds(s, "Remove"))
      /\ \A h \in Hosts : list[h] \in Seq(Shards) /\ lock[h] \in Locks
  BY RegistryAssumption DEF ListLife, TypeOK
<1>b. \A h \in Hosts :
        Listed(h) = {s \in Shards : HostOf[s] = h /\ life[s] \in {"up", "removing"}}
  BY DEF ListLife
<1>1. CASE UNCHANGED <<list, lock, life>>
  BY <1>1 DEF ListLife, Listed
<1>2. ASSUME NEW s \in Shards, Add(s) PROVE ListLife'
  <2>1. /\ life[s] = "off" /\ lock[HostOf[s]] = Free /\ list' = list
        /\ life' = [life EXCEPT ![s] = "adding"]
        /\ lock' = [lock EXCEPT ![HostOf[s]] = [op |-> "Add", id |-> s, by |-> NoShard]]
    BY <1>2 DEF Add, CanLock
  <2>2. ASSUME NEW t \in Shards
        PROVE  /\ life'[t] = "adding" <=> Holds(t, "Add")'
               /\ life'[t] = "removing" <=> Holds(t, "Remove")'
    <3>1. CASE HostOf[t] # HostOf[s]
      BY <1>a, <2>1, <3>1 DEF TypeOK
    <3>2. CASE HostOf[t] = HostOf[s]
      <4>1. t # s => life'[t] = life[t] /\ life[t] \notin {"adding", "removing"}
        <5>1. t # s => life'[t] = life[t]
          BY <2>1 DEF TypeOK
        <5>2. ~Holds(t, "Add") /\ ~Holds(t, "Remove")
          BY <2>1, <3>2, FreeIsFree
        <5> QED
          BY <1>a, <5>1, <5>2
      <4>2. lock'[HostOf[t]] = [op |-> "Add", id |-> s, by |-> NoShard]
        BY <1>a, <2>1, <3>2 DEF TypeOK
      <4>3. life'[s] = "adding"
        BY <2>1 DEF TypeOK
      <4>4. t # s => ~Holds(t, "Add")' /\ ~Holds(t, "Remove")'
        BY <4>2, OneHolds
      <4>5. [op |-> "Add", id |-> s, by |-> NoShard].op = "Add"
              /\ [op |-> "Remove", id |-> s, by |-> NoShard].op = "Remove"
        OBVIOUS
      <4> QED
        BY <4>1, <4>2, <4>3, <4>4, <4>5
    <3> QED
      BY <3>1, <3>2
  <2>3. \A h \in Hosts : lock'[h].op \in {"Add", "Remove"} => HostOf[lock'[h].id] = h
    BY <1>a, <2>1 DEF ListLife, TypeOK
  <2>4. ASSUME NEW h \in Hosts
        PROVE  Listed(h)' = {t \in Shards : HostOf[t] = h /\ life'[t] \in {"up", "removing"}}
    <3>1. \A t \in Shards : life'[t] \in {"up", "removing"} <=> life[t] \in {"up", "removing"}
      BY <2>1 DEF TypeOK
    <3> QED
      BY <1>b, <2>1, <3>1 DEF Listed
  <2> QED
    BY <2>1, <2>2, <2>3, <2>4 DEF ListLife
<1>3. ASSUME NEW s \in Shards, Remove(s) PROVE ListLife'
  <2>1. /\ life[s] = "up" /\ lock[HostOf[s]] = Free /\ list' = list
        /\ life' = [life EXCEPT ![s] = "removing"]
        /\ lock' = [lock EXCEPT ![HostOf[s]] = [op |-> "Remove", id |-> s, by |-> NoShard]]
    BY <1>3 DEF Remove, CanLock
  <2>2. ASSUME NEW t \in Shards
        PROVE  /\ life'[t] = "adding" <=> Holds(t, "Add")'
               /\ life'[t] = "removing" <=> Holds(t, "Remove")'
    <3>1. CASE HostOf[t] # HostOf[s]
      BY <1>a, <2>1, <3>1 DEF TypeOK
    <3>2. CASE HostOf[t] = HostOf[s]
      <4>1. t # s => life'[t] = life[t] /\ life[t] \notin {"adding", "removing"}
        <5>1. t # s => life'[t] = life[t]
          BY <2>1 DEF TypeOK
        <5>2. ~Holds(t, "Add") /\ ~Holds(t, "Remove")
          BY <2>1, <3>2, FreeIsFree
        <5> QED
          BY <1>a, <5>1, <5>2
      <4>2. lock'[HostOf[t]] = [op |-> "Remove", id |-> s, by |-> NoShard]
        BY <1>a, <2>1, <3>2 DEF TypeOK
      <4>3. life'[s] = "removing"
        BY <2>1 DEF TypeOK
      <4>4. t # s => ~Holds(t, "Add")' /\ ~Holds(t, "Remove")'
        BY <4>2, OneHolds
      <4>5. [op |-> "Add", id |-> s, by |-> NoShard].op = "Add"
              /\ [op |-> "Remove", id |-> s, by |-> NoShard].op = "Remove"
        OBVIOUS
      <4> QED
        BY <4>1, <4>2, <4>3, <4>4, <4>5
    <3> QED
      BY <3>1, <3>2
  <2>3. \A h \in Hosts : lock'[h].op \in {"Add", "Remove"} => HostOf[lock'[h].id] = h
    BY <1>a, <2>1 DEF ListLife, TypeOK
  <2>4. ASSUME NEW h \in Hosts
        PROVE  Listed(h)' = {t \in Shards : HostOf[t] = h /\ life'[t] \in {"up", "removing"}}
    <3>1. \A t \in Shards : life'[t] \in {"up", "removing"} <=> life[t] \in {"up", "removing"}
      BY <2>1 DEF TypeOK
    <3> QED
      BY <1>b, <2>1, <3>1 DEF Listed
  <2> QED
    BY <2>1, <2>2, <2>3, <2>4 DEF ListLife
<1>4. ASSUME NEW h \in Hosts, lock' = [lock EXCEPT ![h] = Free],
             NEW s \in Shards, HostOf[s] = h, life[s] \in {"adding", "removing"},
             NEW a \in {"up", "gone"}, life' = [life EXCEPT ![s] = a]
      PROVE  /\ \A t \in Shards : /\ life'[t] = "adding" <=> Holds(t, "Add")'
                                  /\ life'[t] = "removing" <=> Holds(t, "Remove")'
             /\ \A g \in Hosts : lock'[g].op \in {"Add", "Remove"} => HostOf[lock'[g].id] = g
  <2>1. ASSUME NEW t \in Shards
        PROVE  /\ life'[t] = "adding" <=> Holds(t, "Add")'
               /\ life'[t] = "removing" <=> Holds(t, "Remove")'
    <3>1. CASE HostOf[t] # h
      BY <1>a, <1>4, <3>1 DEF TypeOK
    <3>2. CASE HostOf[t] = h
      <4>1. lock[h] = [op |-> "Add", id |-> s, by |-> NoShard]
              \/ lock[h] = [op |-> "Remove", id |-> s, by |-> NoShard]
        BY <1>a, <1>4
      <4>2. t # s => life'[t] = life[t] /\ life[t] \notin {"adding", "removing"}
        <5>1. t # s => life'[t] = life[t]
          BY <1>4 DEF TypeOK
        <5>2. t # s => ~Holds(t, "Add") /\ ~Holds(t, "Remove")
          BY <3>2, <4>1, OneHolds
        <5> QED
          BY <1>a, <5>1, <5>2
      <4>3. lock'[HostOf[t]] = Free /\ life'[s] = a
        BY <1>4, <3>2 DEF TypeOK
      <4> QED
        BY <4>2, <4>3, FreeIsFree
    <3> QED
      BY <3>1, <3>2
  <2>2. \A g \in Hosts : lock'[g].op \in {"Add", "Remove"} => HostOf[lock'[g].id] = g
    BY <1>4 DEF ListLife, TypeOK, Free
  <2> QED
    BY <2>1, <2>2
<1>5. ASSUME NEW h \in Hosts, Added(h) PROVE ListLife'
  <2>1. PICK s \in Shards : /\ s = lock[h].id /\ HostOf[s] = h
                            /\ lock[h] = [op |-> "Add", id |-> s, by |-> NoShard]
    BY <1>5, <1>a, LockIs DEF Added, ListLife
  <2>2. /\ lock' = [lock EXCEPT ![h] = Free] /\ life' = [life EXCEPT ![s] = "up"]
        /\ list' = [list EXCEPT ![h] = Append(@, s)] /\ life[s] = "adding"
    BY <1>5, <1>a, <2>1 DEF Added
  <2>3. list'[h] = Append(list[h], s) /\ \A g \in Hosts \ {h} : list'[g] = list[g]
    BY <2>2 DEF TypeOK
  <2>4. \A j \in DOMAIN list[h] : list[h][j] # s
    BY <1>b, <2>2 DEF Listed
  <2>5. /\ \A j, k \in DOMAIN list'[h] : list'[h][j] = list'[h][k] => j = k
        /\ {list'[h][j] : j \in DOMAIN list'[h]} = {list[h][j] : j \in DOMAIN list[h]} \cup {s}
    BY <1>a, <2>3, <2>4, ListedMore DEF ListLife
  <2>6. \A t \in Shards : life'[t] \in {"up", "removing"}
                            <=> life[t] \in {"up", "removing"} \/ t = s
    BY <2>2 DEF TypeOK
  <2>7. ASSUME NEW g \in Hosts
        PROVE  /\ Listed(g)' = {t \in Shards : HostOf[t] = g /\ life'[t] \in {"up", "removing"}}
               /\ \A i, j \in DOMAIN list'[g] : list'[g][i] = list'[g][j] => i = j
    <3>1. CASE g = h
      <4>1. Listed(h)' = Listed(h) \cup {s}
        BY <2>5 DEF Listed
      <4> QED
        BY <1>b, <2>1, <2>5, <2>6, <3>1, <4>1
    <3>2. CASE g # h
      <4>1. Listed(g)' = Listed(g)
        BY <2>3, <3>2 DEF Listed
      <4> QED
        BY <1>b, <2>1, <2>3, <2>6, <3>2, <4>1 DEF ListLife
    <3> QED
      BY <3>1, <3>2
  <2> QED
    BY <1>4, <2>1, <2>2, <2>7 DEF ListLife
<1>6. ASSUME NEW h \in Hosts, Removed(h) PROVE ListLife'
  <2>1. PICK s \in Shards : /\ s = lock[h].id /\ HostOf[s] = h
                            /\ lock[h] = [op |-> "Remove", id |-> s, by |-> NoShard]
    BY <1>6, <1>a, LockIs DEF Removed, ListLife
  <2>2. /\ lock' = [lock EXCEPT ![h] = Free] /\ life' = [life EXCEPT ![s] = "gone"]
        /\ life[s] = "removing"
    BY <1>6, <1>a, <2>1 DEF Removed
  <2>3. PICK i \in DOMAIN list[h] :
          /\ list[h][i] = s
          /\ list' = [list EXCEPT ![h] = SubSeq(@, 1, i - 1) \o SubSeq(@, i + 1, Len(@))]
    BY <1>6, <2>1 DEF Removed
  <2>4. PICK r : r = SubSeq(list[h], 1, i - 1) \o SubSeq(list[h], i + 1, Len(list[h]))
    OBVIOUS
  <2>5. /\ \A j, k \in DOMAIN r : r[j] = r[k] => j = k
        /\ {r[j] : j \in DOMAIN r} = {list[h][j] : j \in DOMAIN list[h]} \ {s}
    <3>1. /\ list[h] \in Seq(Shards)
          /\ \A j, k \in DOMAIN list[h] : list[h][j] = list[h][k] => j = k
      BY <1>a DEF ListLife
    <3>2. i \in DOMAIN list[h] /\ list[h][i] = s
      BY <2>3
    <3>3. Once(r) /\ Items(r) = Items(list[h]) \ {list[h][i]}
      BY ZenonT(60), <2>4, <3>1, <3>2, ListedWithout DEF Once
    <3> QED
      BY <3>2, <3>3 DEF Once, Items
  <2>8. list'[h] = r /\ \A g \in Hosts \ {h} : list'[g] = list[g]
    <3>1. list' = [list EXCEPT ![h] = r]
      BY <2>3, <2>4
    <3> QED
      BY <3>1 DEF TypeOK
  <2>6. \A t \in Shards : life'[t] \in {"up", "removing"}
                            <=> life[t] \in {"up", "removing"} /\ t # s
    BY <2>2 DEF TypeOK
  <2>7. ASSUME NEW g \in Hosts
        PROVE  /\ Listed(g)' = {t \in Shards : HostOf[t] = g /\ life'[t] \in {"up", "removing"}}
               /\ \A j, k \in DOMAIN list'[g] : list'[g][j] = list'[g][k] => j = k
    <3>1. CASE g = h
      <4>1. Listed(h)' = Listed(h) \ {s}
        BY <2>5, <2>8 DEF Listed
      <4>2. Listed(h)' = {t \in Shards : HostOf[t] = h /\ life'[t] \in {"up", "removing"}}
        BY <1>b, <2>1, <2>6, <4>1
      <4> QED
        BY <2>5, <2>8, <3>1, <4>2
    <3>2. CASE g # h
      <4>1. Listed(g)' = Listed(g)
        BY <2>8, <3>2 DEF Listed
      <4>2. Listed(g)' = {t \in Shards : HostOf[t] = g /\ life'[t] \in {"up", "removing"}}
        BY <1>b, <2>1, <2>6, <3>2, <4>1
      <4> QED
        BY <2>8, <3>2, <4>2 DEF ListLife
    <3> QED
      BY <3>1, <3>2
  <2> QED
    BY <1>4, <2>1, <2>2, <2>7 DEF ListLife
<1>7. ASSUME UNCHANGED <<list, life>>, NEW h \in Hosts, NEW r \in Locks,
             lock' = [lock EXCEPT ![h] = r], r.op \notin {"Add", "Remove"},
             lock[h].op \notin {"Add", "Remove"}
      PROVE  ListLife'
  <2>1. ASSUME NEW s \in Shards, NEW o \in {"Add", "Remove"}
        PROVE  Holds(s, o) <=> Holds(s, o)'
    BY <1>7 DEF TypeOK
  <2>2. \A s \in Shards : /\ life'[s] = "adding" <=> Holds(s, "Add")'
                          /\ life'[s] = "removing" <=> Holds(s, "Remove")'
    BY <1>a, <1>7, <2>1
  <2>3. \A g \in Hosts : lock'[g].op \in {"Add", "Remove"} => HostOf[lock'[g].id] = g
    BY <1>7 DEF ListLife, TypeOK
  <2>4. \A g \in Hosts : Listed(g)' = Listed(g)
    BY <1>7 DEF Listed
  <2> QED
    BY <1>b, <1>7, <2>2, <2>3, <2>4 DEF ListLife
<1>8. ASSUME NEW h \in Hosts, Found(h) PROVE ListLife'
  BY <1>7, <1>8, LockOf DEF Found, Free
<1>9. ASSUME NEW l \in Logins, Find(l) PROVE ListLife'
  <2>1. PICK s \in Listed(LoginHost[l]) :
          \/ lock' = lock
          \/ lock' = [lock EXCEPT ![LoginHost[l]] = [op |-> "Find", id |-> s, by |-> l]]
    BY <1>9 DEF Find
  <2>2. /\ lock[LoginHost[l]] = Free /\ UNCHANGED <<list, life>>
        /\ LoginHost[l] \in Hosts
    BY <1>9, RegistryAssumption DEF Find, CanLock
  <2>3. [op |-> "Find", id |-> s, by |-> l] \in Locks
    BY <2>2, ListedAre, LockOf
  <2> QED
    BY <1>1, <1>7, <2>1, <2>2, <2>3 DEF Free
<1>10. CASE Managing
  BY <1>2, <1>3, <1>5, <1>6, <1>8, <1>10 DEF Managing
<1>11. CASE Joining
  BY <1>1, <1>9, <1>11 DEF Joining, Move, Play, Rejoin
<1>12. CASE (\E h \in Hosts : Break(h) \/ Reconnect(h)) \/ Crash
  BY <1>1, <1>12 DEF Break, Reconnect, Crash
<1> QED
  BY <1>1, <1>10, <1>11, <1>12, Kinds, ServingFrame, IdlingFrame, AuthsFrame,
     LoopingFrame, HandlersFrame

-----------------------------------------------------------------------------
(* Which steps change the states of a shard, of eventHandler and of a login *)

LEMMA LifeMoves ==
  ASSUME StepOf, ListLife, NEW s \in Shards, life'[s] # life[s]
  PROVE  \/ Add(s) /\ life[s] = "off" /\ life'[s] = "adding"
         \/ Remove(s) /\ life[s] = "up" /\ life'[s] = "removing"
         \/ Added(HostOf[s]) /\ life[s] = "adding" /\ life'[s] = "up"
              /\ lock[HostOf[s]].id = s
         \/ Removed(HostOf[s]) /\ life[s] = "removing" /\ life'[s] = "gone"
              /\ lock[HostOf[s]].id = s
<1> USE DEF StepOf
<1>1. CASE life' = life
  BY <1>1
<1>2. ASSUME NEW t \in Shards, Add(t)
      PROVE  Add(s) /\ life[s] = "off" /\ life'[s] = "adding"
  <2>1. life[t] = "off" /\ life' = [life EXCEPT ![t] = "adding"]
    BY <1>2 DEF Add
  <2> QED
    BY <1>2, <2>1 DEF TypeOK
<1>3. ASSUME NEW t \in Shards, Remove(t)
      PROVE  Remove(s) /\ life[s] = "up" /\ life'[s] = "removing"
  <2>1. life[t] = "up" /\ life' = [life EXCEPT ![t] = "removing"]
    BY <1>3 DEF Remove
  <2> QED
    BY <1>3, <2>1 DEF TypeOK
<1>4. ASSUME NEW h \in Hosts, NEW o \in {"Add", "Remove"}, lock[h].op = o,
             NEW a, life' = [life EXCEPT ![lock[h].id] = a]
      PROVE  /\ lock[h].id = s /\ HostOf[s] = h /\ life'[s] = a
             /\ life[s] = IF o = "Add" THEN "adding" ELSE "removing"
  <2>1. lock[h].id = s /\ life'[s] = a
    BY <1>4 DEF TypeOK
  <2>2. HostOf[s] = h /\ lock[h] \in Locks
    BY <1>4, <2>1 DEF ListLife, TypeOK
  <2>3. lock[h] = [op |-> o, id |-> s, by |-> NoShard]
    BY <1>4, <2>1, <2>2, LockIs
  <2>4. /\ o = "Add" => life[s] = "adding"
        /\ o = "Remove" => life[s] = "removing"
    BY <2>2, <2>3 DEF ListLife
  <2> QED
    BY <2>1, <2>2, <2>4
<1>5. ASSUME NEW h \in Hosts, Added(h)
      PROVE  Added(HostOf[s]) /\ life[s] = "adding" /\ life'[s] = "up"
               /\ lock[HostOf[s]].id = s
  <2>1. lock[h].op = "Add" /\ life' = [life EXCEPT ![lock[h].id] = "up"]
    BY <1>5 DEF Added
  <2>2. /\ lock[h].id = s /\ HostOf[s] = h /\ life'[s] = "up"
        /\ life[s] = IF "Add" = "Add" THEN "adding" ELSE "removing"
    BY <1>4, <2>1
  <2> QED
    BY <1>5, <2>2
<1>6. ASSUME NEW h \in Hosts, Removed(h)
      PROVE  Removed(HostOf[s]) /\ life[s] = "removing" /\ life'[s] = "gone"
               /\ lock[HostOf[s]].id = s
  <2>1. lock[h].op = "Remove" /\ life' = [life EXCEPT ![lock[h].id] = "gone"]
    BY <1>6 DEF Removed
  <2>2. /\ lock[h].id = s /\ HostOf[s] = h /\ life'[s] = "gone"
        /\ life[s] = IF "Remove" = "Add" THEN "adding" ELSE "removing"
    BY <1>4, <2>1
  <2> QED
    BY <1>6, <2>2
<1>7. CASE Managing
  BY <1>1, <1>2, <1>3, <1>5, <1>6, <1>7 DEF Managing, Found
<1>8. CASE (\E h \in Hosts : Break(h) \/ Reconnect(h)) \/ Crash
  BY <1>1, <1>8 DEF Break, Reconnect, Crash
<1> QED
  BY <1>1, <1>7, <1>8, Kinds, ServingFrame, IdlingFrame, AuthsFrame, JoiningFrame,
     LoopingFrame, HandlersFrame

LEMMA LoopMoves ==
  ASSUME StepOf, NEW h \in Hosts, loop'[h] # loop[h]
  PROVE  \/ Events(h) /\ loop[h] = "call" /\ loop'[h] = "opened"
         \/ Sync(h) /\ loop[h] = "opened" /\ loop'[h] \in {"sync", "recv"}
         \/ SyncAsk(h) /\ loop[h] = "sync" /\ loop'[h] = "asked"
         \/ SyncNext(h) /\ loop[h] = "asked" /\ loop'[h] \in {"sync", "recv"}
         \/ RecvFails(h) /\ loop[h] = "recv" /\ loop'[h] = "call"
<1> USE DEF StepOf
<1>1. CASE loop' = loop
  BY <1>1
<1>2. ASSUME NEW g \in Hosts, LoopStep(g)
      PROVE  /\ g = h
             /\ \/ Events(h) /\ loop[h] = "call" /\ loop'[h] = "opened"
                \/ Sync(h) /\ loop[h] = "opened" /\ loop'[h] \in {"sync", "recv"}
                \/ SyncAsk(h) /\ loop[h] = "sync" /\ loop'[h] = "asked"
                \/ SyncNext(h) /\ loop[h] = "asked" /\ loop'[h] \in {"sync", "recv"}
                \/ RecvFails(h) /\ loop[h] = "recv" /\ loop'[h] = "call"
  <2>1. PICK a : loop' = [loop EXCEPT ![g] = a]
    BY <1>2 DEF LoopStep, Events, Sync, SyncAsk, SyncNext, RecvFails
  <2>2. g = h
    BY <2>1 DEF TypeOK
  <2>3. \/ Events(h) /\ loop[h] = "call" /\ loop' = [loop EXCEPT ![h] = "opened"]
        \/ Sync(h) /\ loop[h] = "opened"
             /\ loop' = [loop EXCEPT ![h] = Syncing(sync'[h])]
        \/ SyncAsk(h) /\ loop[h] = "sync" /\ loop' = [loop EXCEPT ![h] = "asked"]
        \/ SyncNext(h) /\ loop[h] = "asked"
             /\ loop' = [loop EXCEPT ![h] = Syncing(sync'[h])]
        \/ RecvFails(h) /\ loop[h] = "recv" /\ loop' = [loop EXCEPT ![h] = "call"]
    BY <1>2, <2>2 DEF LoopStep, Events, Sync, SyncAsk, SyncNext, RecvFails
  <2> QED
    BY <2>2, <2>3 DEF Syncing, TypeOK
<1>3. CASE (\E g \in Hosts : Break(g) \/ Reconnect(g)) \/ Crash
  BY <1>1, <1>3 DEF Break, Reconnect, Crash
<1> QED
  BY <1>1, <1>2, <1>3, Kinds, ServingFrame, IdlingFrame, AuthsFrame, JoiningFrame,
     ManagingFrame, HandlersFrame DEF Looping

LEMMA SessMoves ==
  ASSUME StepOf, NEW l \in Logins, sess'[l] # sess[l]
  PROVE  \/ AuthCall(l) /\ sess[l] = "off" /\ sess'[l] \in {"auth", "over"}
         \/ sess[l] = "auth" /\ sess'[l] = "over" /\ (AuthDenied(l) \/ faults' # faults)
         \/ AuthReset(l) /\ sess[l] = "auth" /\ sess'[l] = "in"
         \/ Find(l) /\ sess[l] = "in" /\ sess'[l] \in {"found", "finding"}
         \/ Managing /\ sess[l] = "finding" /\ sess'[l] = "found"
         \/ Move(l) /\ sess[l] = "found" /\ sess'[l] = "moving"
         \/ Play(l) /\ sess[l] = "moving" /\ sess'[l] = "play"
         \/ Rejoin(l) /\ sess[l] = "play" /\ sess'[l] = "in"
<1> USE DEF StepOf
<1>1. CASE sess' = sess
  BY <1>1
<1>2. ASSUME NEW m \in Logins, NEW a, sess' = [sess EXCEPT ![m] = a]
      PROVE  m = l /\ sess'[l] = a
  BY <1>2 DEF TypeOK
<1>3. ASSUME NEW m \in Logins, AuthCall(m) \/ AuthStep(m)
      PROVE  \/ AuthCall(l) /\ sess[l] = "off" /\ sess'[l] \in {"auth", "over"}
             \/ sess[l] = "auth" /\ sess'[l] = "over" /\ AuthDenied(l)
             \/ AuthReset(l) /\ sess[l] = "auth" /\ sess'[l] = "in"
  <2>1. CASE AuthCall(m)
    BY <1>2, <2>1 DEF AuthCall
  <2>2. CASE AuthDenied(m)
    <3>1. m = l /\ sess'[l] = "over" /\ auth[m] = "look"
      BY <1>2, <2>2 DEF AuthDenied
    <3>2. sess[l] \in {"auth", "over"}
      BY <3>1 DEF Chosen
    <3> QED
      BY <2>2, <3>1, <3>2
  <2>3. CASE AuthReset(m)
    <3>1. m = l /\ sess'[l] = IF sess[l] = "auth" THEN "in" ELSE sess[l]
      BY <1>2, <2>3 DEF AuthReset
    <3> QED
      BY <2>3, <3>1
  <2> QED
    BY <1>1, <1>3, <2>1, <2>2, <2>3 DEF AuthStep, AuthLook, AuthKick
<1>4. ASSUME NEW m \in Logins, Find(m) \/ Move(m) \/ Play(m) \/ Rejoin(m)
      PROVE  \/ Find(l) /\ sess[l] = "in" /\ sess'[l] \in {"found", "finding"}
             \/ Move(l) /\ sess[l] = "found" /\ sess'[l] = "moving"
             \/ Play(l) /\ sess[l] = "moving" /\ sess'[l] = "play"
             \/ Rejoin(l) /\ sess[l] = "play" /\ sess'[l] = "in"
  <2>1. CASE Find(m)
    <3>1. sess[m] = "in" /\ \E a \in {"found", "finding"} : sess' = [sess EXCEPT ![m] = a]
      BY <2>1 DEF Find
    <3> QED
      BY <1>2, <2>1, <3>1
  <2>2. CASE Move(m) \/ Play(m) \/ Rejoin(m)
    BY <1>2, <2>2 DEF Move, Play, Rejoin
  <2> QED
    BY <1>4, <2>1, <2>2
<1>5. CASE Managing
  <2>1. ASSUME NEW h \in Hosts, Found(h) PROVE sess[l] = "finding" /\ sess'[l] = "found"
    <3>1. lock[h].by \in Logins /\ sess[lock[h].by] = "finding"
      BY <2>1, LockIs DEF Found, Chosen, TypeOK
    <3> QED
      BY <1>2, <2>1, <3>1 DEF Found
  <2> QED
    BY <1>1, <1>5, <2>1 DEF Managing, Add, Remove, Added, Removed
<1>6. CASE (\E h \in Hosts : Break(h) \/ Reconnect(h)) \/ Crash
  <2>1. faults \in Nat
    BY RegistryAssumption DEF TypeOK
  <2>2. (\E h \in Hosts : Break(h)) \/ Crash => faults' = faults + 1 /\ faults' # faults
    BY <2>1 DEF Break, Crash
  <2> QED
    BY <1>1, <1>6, <2>2 DEF Break, Reconnect, Crash, Waiting
<1> QED
  BY <1>1, <1>3, <1>4, <1>5, <1>6, Kinds, ServingFrame, IdlingFrame, LoopingFrame,
     HandlersFrame DEF Auths, Joining

LEMMA AtMoves ==
  ASSUME StepOf, NEW l \in Logins, at'[l] # at[l]
  PROVE  Find(l) /\ sess[l] = "in"
<1> USE DEF StepOf
<1>1. CASE at' = at
  BY <1>1
<1>2. ASSUME NEW m \in Logins, Find(m) PROVE Find(l) /\ sess[l] = "in"
  <2>1. sess[m] = "in" /\ \E s : at' = [at EXCEPT ![m] = s]
    BY <1>2 DEF Find
  <2> QED
    BY <1>2, <2>1 DEF TypeOK
<1>3. CASE Joining
  BY <1>1, <1>2, <1>3 DEF Joining, Move, Play, Rejoin
<1>4. CASE (\E h \in Hosts : Break(h) \/ Reconnect(h)) \/ Crash
  BY <1>1, <1>4 DEF Break, Reconnect, Crash
<1> QED
  BY <1>1, <1>3, <1>4, Kinds, ServingFrame, IdlingFrame, AuthsFrame, ManagingFrame,
     LoopingFrame, HandlersFrame

-----------------------------------------------------------------------------
(* Calls and their callers *)

\* The goroutine of a call under way does not go on.
LEMMA CallersWaitStep ==
  StepOf /\ CallersWait /\ OwnShards /\ ListLife => CallersWait'
<1> SUFFICES ASSUME StepOf, CallersWait, OwnShards, ListLife, NEW c \in calls'
             PROVE  /\ c.op = "AddShard" /\ c.by = "lock" => life'[c.id] = "adding"
                    /\ c.op = "AddShard" /\ c.by = "loop" => loop'[c.host] = "asked"
                    /\ c.op = "RmShard" => c.by = "lock" /\ life'[c.id] = "removing"
                    /\ c.op = "MoveUser" => sess'[c.by] = "moving" /\ c = MoveUserCall(c.by)'
  BY DEF CallersWait
<1> USE DEF StepOf
<1>1. c \in Calls /\ c.id \in Shards /\ c.host \in Hosts
        /\ (c.op = "MoveUser" => c.by \in Logins)
  BY CallIs DEF TypeOK
<1>2. CASE c \notin calls
  <2>1. ASSUME NEW s \in Shards, Add(s), c = ShardCall("AddShard", s, "lock")
        PROVE  c.op = "AddShard" /\ c.by = "lock" /\ life'[c.id] = "adding"
    <3>1. c.op = "AddShard" /\ c.by = "lock" /\ c.id = s
      BY <2>1, ShardCallIs
    <3> QED
      BY <2>1, <3>1 DEF Add, TypeOK
  <2>2. ASSUME NEW s \in Shards, Remove(s), c = ShardCall("RmShard", s, "lock")
        PROVE  c.op = "RmShard" /\ c.by = "lock" /\ life'[c.id] = "removing"
    <3>1. c.op = "RmShard" /\ c.by = "lock" /\ c.id = s
      BY <2>2, ShardCallIs
    <3> QED
      BY <2>2, <3>1 DEF Remove, TypeOK
  <2>3. ASSUME NEW s \in Shards, c = ShardCall("MoveShard", s, "lock")
        PROVE  c.op = "MoveShard"
    BY <2>3, ShardCallIs
  <2>4. ASSUME NEW l \in Logins, Move(l), c = MoveUserCall(l)
        PROVE  c.op = "MoveUser" /\ sess'[c.by] = "moving" /\ c = MoveUserCall(c.by)'
    <3>1. sess[l] = "found" /\ sess' = [sess EXCEPT ![l] = "moving"] /\ at' = at
      BY <2>4 DEF Move
    <3>2. at[l] \in Shards
      BY <3>1 DEF Chosen
    <3>3. c.by = l /\ c.op = "MoveUser"
      BY <2>4, <3>2, MoveUserCallIs
    <3> QED
      BY <2>4, <3>1, <3>3 DEF MoveUserCall, TypeOK
  <2>5. ASSUME NEW h \in Hosts, SyncAsk(h), c = ShardCall("AddShard", sync[h].rest[1], "loop")
        PROVE  c.op = "AddShard" /\ c.by = "loop" /\ loop'[c.host] = "asked"
    <3>1. loop[h] = "sync" /\ loop' = [loop EXCEPT ![h] = "asked"]
      BY <2>5 DEF SyncAsk
    <3>2. 1 \in DOMAIN sync[h].rest /\ sync[h].rest[1] \in Shards
      BY <3>1, HeadIs DEF Ranging
    <3>3. HostOf[sync[h].rest[1]] = h
      BY <3>2 DEF OwnShards
    <3>4. c.op = "AddShard" /\ c.by = "loop" /\ c.host = h
      BY <2>5, <3>2, <3>3, ShardCallIs
    <3> QED
      BY <3>1, <3>4 DEF TypeOK
  <2> QED
    BY <1>2, <2>1, <2>2, <2>3, <2>4, <2>5, NewCalls
<1>3. CASE c \in calls
  <2>1. ASSUME c.op = "AddShard", c.by = "lock" PROVE life'[c.id] = "adding"
    <3>1. life[c.id] = "adding"
      BY <1>3, <2>1 DEF CallersWait
    <3>2. CASE life'[c.id] # life[c.id]
      <4>1. Added(HostOf[c.id]) /\ lock[HostOf[c.id]].id = c.id
        BY <1>1, <3>1, <3>2, LifeMoves
      <4>2. c = ShardCall("AddShard", c.id, "lock")
        BY <1>1, <1>3, <2>1, CallIs DEF OwnShards, ShardCall
      <4> QED
        BY <1>3, <4>1, <4>2 DEF Added, Returned
    <3> QED
      BY <3>1, <3>2
  <2>2. ASSUME c.op = "AddShard", c.by = "loop" PROVE loop'[c.host] = "asked"
    <3>1. loop[c.host] = "asked"
      BY <1>3, <2>2 DEF CallersWait
    <3>2. CASE loop'[c.host] # loop[c.host]
      <4>1. SyncNext(c.host)
        BY <1>1, <3>1, <3>2, LoopMoves
      <4> QED
        BY <1>3, <2>2, <4>1 DEF SyncNext
    <3> QED
      BY <3>1, <3>2
  <2>3. ASSUME c.op = "RmShard" PROVE c.by = "lock" /\ life'[c.id] = "removing"
    <3>1. c.by = "lock" /\ life[c.id] = "removing"
      BY <1>3, <2>3 DEF CallersWait
    <3>2. CASE life'[c.id] # life[c.id]
      <4>1. Removed(HostOf[c.id]) /\ lock[HostOf[c.id]].id = c.id
        BY <1>1, <3>1, <3>2, LifeMoves
      <4>2. c = ShardCall("RmShard", c.id, "lock")
        BY <1>1, <1>3, <2>3, <3>1, CallIs DEF OwnShards, ShardCall
      <4> QED
        BY <1>3, <4>1, <4>2 DEF Removed, Returned
    <3> QED
      BY <3>1, <3>2
  <2>4. ASSUME c.op = "MoveUser"
        PROVE  sess'[c.by] = "moving" /\ c = MoveUserCall(c.by)'
    <3>1. sess[c.by] = "moving" /\ c = MoveUserCall(c.by) /\ c.by \in Logins
      BY <1>1, <1>3, <2>4 DEF CallersWait
    <3>2. CASE sess'[c.by] # sess[c.by]
      <4>1. Play(c.by)
        BY <3>1, <3>2, SessMoves
      <4> QED
        BY <1>3, <3>1, <4>1 DEF Play, Returned
    <3>3. CASE sess'[c.by] = sess[c.by]
      <4>1. at'[c.by] = at[c.by]
        BY <3>1, <3>3, AtMoves
      <4> QED
        BY <3>1, <3>3, <4>1 DEF MoveUserCall
    <3> QED
      BY <3>2, <3>3
  <2> QED
    BY <2>1, <2>2, <2>3, <2>4
<1> QED
  BY <1>2, <1>3

LEMMA LateIsRacedStep == StepOf /\ LateIsRaced => LateIsRaced'
<1> SUFFICES ASSUME StepOf, LateIsRaced, NEW c \in late'
             PROVE  /\ c.op = "AddShard" => "late" \in raced'[c.host]
                    /\ c.op = "RmShard" => "failed" \in raced'[c.host]
  BY DEF LateIsRaced
<1> USE DEF StepOf
<1>1. c.host \in Hosts
  BY CallIs DEF TypeOK
<1>2. CASE c \in late
  <2>1. ~Crash
    BY DEF Crash
  <2> QED
    BY <1>1, <1>2, <2>1, RacedBefore DEF LateIsRaced
<1>3. CASE c \notin late
  <2>1. PICK h \in Hosts : Break(h) /\ c \in CallsOf(h) /\ c.host = h
    BY <1>3, LateCalls
  <2> QED
    BY <1>3, <2>1, BreakRaced
<1> QED
  BY <1>2, <1>3

-----------------------------------------------------------------------------
(* The range over the shards *)

\* Unless a shard is removed the list does not get shorter, and the range goes on
\* to no place that it would not have read.
LEMMA RangeEnds ==
  ASSUME StepOf, NEW h \in Hosts, Ranging(h), Ranging(h)', lock[h].op # "Remove",
         sync[h].first + Len(sync[h].rest) <= Len(list[h]) + 1
  PROVE  sync'[h].first + Len(sync'[h].rest) <= Len(list'[h]) + 1
<1> USE DEF StepOf
<1>0. /\ sync[h] \in Ranges /\ sync[h].first \in Nat /\ Len(sync[h].rest) \in Nat
      /\ Len(list[h]) \in Nat /\ list[h] \in Seq(Shards) /\ sync[h].rest # <<>>
      /\ lock[h] \in Locks
  BY RangeIs, SeqPlaces DEF TypeOK, Ranges, Chosen
<1>1. CASE sync'[h] = sync[h] /\ list'[h] = list[h]
  BY <1>1
<1>2. ASSUME NEW g \in Hosts, Added(g)
      PROVE  sync'[h].first + Len(sync'[h].rest) <= Len(list'[h]) + 1
  <2>1. PICK b \in BOOLEAN : sync' = [sync EXCEPT ![g] = Append1(g, lock[g].id, b)]
    BY <1>2 DEF Added
  <2>2. list' = [list EXCEPT ![g] = Append(@, lock[g].id)] /\ lock[g].op = "Add"
    BY <1>2 DEF Added
  <2>3. CASE g # h
    BY <1>1, <2>1, <2>2, <2>3 DEF TypeOK
  <2>4. CASE g = h
    <3>1. lock[h].id \in Shards
      BY <1>0, <2>2, <2>4, LockIs
    <3>2. sync'[h] = Append1(h, lock[h].id, b) /\ list'[h] = Append(list[h], lock[h].id)
      BY <2>1, <2>2, <2>4 DEF TypeOK
    <3>3. sync'[h].first = sync[h].first /\ Len(sync'[h].rest) = Len(sync[h].rest)
      BY <3>1, <3>2, AppendUnder
    <3>4. Len(list'[h]) = Len(list[h]) + 1
      BY <1>0, <3>1, <3>2, AppendProperties
    <3> QED
      BY <1>0, <3>3, <3>4
  <2> QED
    BY <2>3, <2>4
<1>3. ASSUME NEW g \in Hosts, Removed(g)
      PROVE  sync'[h].first + Len(sync'[h].rest) <= Len(list'[h]) + 1
  <2>1. /\ lock[g].op = "Remove" /\ (\E a : sync' = [sync EXCEPT ![g] = a])
        /\ \E b : list' = [list EXCEPT ![g] = b]
    BY <1>3 DEF Removed
  <2> QED
    BY <1>1, <2>1 DEF TypeOK
<1>4. ASSUME NEW g \in Hosts, LoopStep(g)
      PROVE  sync'[h].first + Len(sync'[h].rest) <= Len(list'[h]) + 1
  <2>1. /\ list' = list
        /\ \/ sync' = sync
           \/ Sync(g) /\ \E a : sync' = [sync EXCEPT ![g] = a]
           \/ SyncNext(g) /\ sync' = [sync EXCEPT ![g] = NextSync(@)]
    BY <1>4 DEF LoopStep, Events, Sync, SyncAsk, SyncNext, RecvFails
  <2>2. CASE g # h \/ sync' = sync
    BY <1>1, <2>1, <2>2 DEF TypeOK
  <2>3. CASE g = h /\ Sync(g)
    BY <2>3 DEF Sync, Ranging
  <2>4. CASE g = h /\ SyncNext(g) /\ sync' = [sync EXCEPT ![g] = NextSync(@)]
    <3>1. /\ sync'[h] = NextSync(sync[h])
          /\ loop' = [loop EXCEPT ![h] = Syncing(sync'[h])]
      BY <2>4 DEF SyncNext, TypeOK
    <3>2. loop'[h] = Syncing(sync'[h]) /\ loop'[h] # "recv"
      BY <3>1 DEF TypeOK, Ranging
    <3>3. Len(sync[h].rest) # 1
      BY <1>0, <3>1, <3>2, GoOn
    <3>4. /\ sync'[h].first = sync[h].first + 1
          /\ Len(sync'[h].rest) = Len(sync[h].rest) - 1
      BY <1>0, <3>1, <3>3, GoOn
    <3> QED
      BY SMTT(60), <1>0, <2>1, <3>4
  <2> QED
    BY <2>1, <2>2, <2>3, <2>4
<1>5. CASE Managing
  BY <1>1, <1>2, <1>3, <1>5 DEF Managing, Add, Remove, Found
<1>6. CASE (\E g \in Hosts : Break(g) \/ Reconnect(g)) \/ Crash
  BY <1>1, <1>6 DEF Break, Reconnect, Crash
<1> QED
  BY <1>1, <1>4, <1>5, <1>6, Kinds, ServingFrame, IdlingFrame, AuthsFrame, JoiningFrame,
     HandlersFrame DEF Looping

LEMMA LifeHolds ==
  ASSUME ListLife, NEW s \in Shards
  PROVE  /\ life[s] = "adding" => lock[HostOf[s]].op = "Add" /\ lock[HostOf[s]].id = s
         /\ life[s] = "removing" => lock[HostOf[s]].op = "Remove" /\ lock[HostOf[s]].id = s
<1>1. ASSUME NEW o, lock[HostOf[s]] = [op |-> o, id |-> s, by |-> NoShard]
      PROVE  lock[HostOf[s]].op = o /\ lock[HostOf[s]].id = s
  BY <1>1
<1> QED
  BY <1>1 DEF ListLife

LEMMA RangeStep ==
  StepOf /\ RangeIsOfList /\ OwnShards /\ ListLife /\ ListLife' /\ CallersWait
    => RangeIsOfList'
<1> SUFFICES ASSUME StepOf, RangeIsOfList, OwnShards, ListLife, ListLife', CallersWait,
                    NEW h \in Hosts, Ranging(h)', "overlap" \notin raced'[h]
             PROVE  /\ lock'[h].op # "Remove"
                    /\ \A j \in DOMAIN sync'[h].rest : life'[sync'[h].rest[j]] = "up"
                    /\ sync'[h].first + Len(sync'[h].rest) <= Len(list'[h]) + 1
                    /\ \A c \in calls' : c.op = "AddShard" /\ c.by = "loop" /\ c.host = h
                                           => life'[c.id] = "up"
  BY DEF RangeIsOfList
<1> USE DEF StepOf
<1>1. CASE Sync(h)
  <2>1. /\ loop[h] = "opened" /\ UNCHANGED <<calls, list, lock, life>>
        /\ sync' = [sync EXCEPT ![h] = SyncAll(h)]
    BY <1>1 DEF Sync
  <2>2. lock[h].op \notin {"Add", "Remove"}
    BY <1>1, SyncRaced
  <2>3. sync'[h].rest = list[h] /\ sync'[h].first = 1
    BY <2>1, StartRange DEF TypeOK
  <2>4. ASSUME NEW j \in DOMAIN list[h] PROVE life[list[h][j]] = "up"
    <3>1. list[h][j] \in Listed(h)
      BY DEF Listed
    <3>2. PICK s \in Shards : s = list[h][j] /\ HostOf[s] = h /\ life[s] \in {"up", "removing"}
      BY <3>1 DEF ListLife
    <3>3. life[s] = "removing" => lock[h].op = "Remove"
      BY <3>2, LifeHolds
    <3> QED
      BY <2>2, <3>2, <3>3
  <2>5. Len(list[h]) \in Nat
    BY SeqPlaces DEF TypeOK
  <2> QED
    BY <2>1, <2>2, <2>3, <2>4, <2>5 DEF CallersWait
<1> SUFFICES ASSUME ~Sync(h)
             PROVE  /\ lock'[h].op # "Remove"
                    /\ \A j \in DOMAIN sync'[h].rest : life'[sync'[h].rest[j]] = "up"
                    /\ sync'[h].first + Len(sync'[h].rest) <= Len(list'[h]) + 1
                    /\ \A c \in calls' : c.op = "AddShard" /\ c.by = "loop" /\ c.host = h
                                           => life'[c.id] = "up"
  BY <1>1
<1>2. Ranging(h)
  BY LoopMoves DEF Ranging
<1>3. "overlap" \notin raced[h]
  <2>1. CASE Crash
    BY <1>2, <2>1 DEF Crash, Ranging
  <2> QED
    BY <2>1, RacedBefore
<1>4. /\ lock[h].op # "Remove"
      /\ \A j \in DOMAIN sync[h].rest : life[sync[h].rest[j]] = "up"
      /\ sync[h].first + Len(sync[h].rest) <= Len(list[h]) + 1
      /\ \A c \in calls : c.op = "AddShard" /\ c.by = "loop" /\ c.host = h
                             => life[c.id] = "up"
  BY <1>2, <1>3 DEF RangeIsOfList
<1>5. ASSUME NEW s \in Shards, HostOf[s] = h, Remove(s) PROVE FALSE
  BY <1>2, <1>5, RemoveRaced
<1>6. ASSUME NEW s \in Shards, HostOf[s] = h, life[s] = "up" PROVE life'[s] = "up"
  BY <1>5, <1>6, LifeMoves
<1>7. lock'[h].op # "Remove"
  <2> SUFFICES ASSUME lock'[h].op = "Remove" PROVE FALSE
    OBVIOUS
  <2>1. lock'[h] \in Locks
    BY DEF TypeOK
  <2>2. PICK s \in Shards : lock'[h] = [op |-> "Remove", id |-> s, by |-> NoShard]
    BY <2>1, LockIs
  <2>3. HostOf[s] = h
    BY <2>2 DEF ListLife
  <2>4. life'[s] = "removing"
    BY <2>2, <2>3 DEF ListLife
  <2>5. life[s] # "removing"
    BY <1>4, <2>3, LifeHolds
  <2> QED
    BY <1>5, <2>3, <2>4, <2>5, LifeMoves
<1>8. ASSUME NEW j \in DOMAIN sync'[h].rest PROVE life'[sync'[h].rest[j]] = "up"
  <2>1. CASE \E i \in DOMAIN sync[h].rest : sync'[h].rest[j] = sync[h].rest[i]
    <3>1. PICK i \in DOMAIN sync[h].rest : sync'[h].rest[j] = sync[h].rest[i]
      BY <2>1
    <3>2. sync[h].rest[i] \in Shards
      BY RangeIs DEF TypeOK, Ranges
    <3> QED
      BY <1>4, <1>6, <3>1, <3>2 DEF OwnShards
  <2>2. CASE sync'[h].rest[j] \in Listed(h)
    <3>1. PICK s \in Shards : /\ s = sync'[h].rest[j] /\ HostOf[s] = h
                              /\ life[s] \in {"up", "removing"}
      BY <2>2 DEF ListLife
    <3>2. life[s] = "removing" => lock[h].op = "Remove"
      BY <3>1, LifeHolds
    <3> QED
      BY <1>4, <1>6, <3>1, <3>2
  <2>3. CASE Added(h) /\ sync'[h].rest[j] = lock[h].id
    <3>1. lock[h].op = "Add" /\ life' = [life EXCEPT ![lock[h].id] = "up"]
      BY <2>3 DEF Added
    <3>2. lock[h].id \in Shards
      BY <3>1, LockIs DEF TypeOK
    <3> QED
      BY <2>3, <3>1, <3>2 DEF TypeOK
  <2> QED
    BY <2>1, <2>2, <2>3, NewRest
<1>9. ASSUME NEW c \in calls', c.op = "AddShard", c.by = "loop", c.host = h
      PROVE  life'[c.id] = "up"
  <2>1. CASE c \in calls
    <3>1. c.id \in Shards /\ HostOf[c.id] = h
      BY <1>9, <2>1, CallIs DEF OwnShards, TypeOK
    <3> QED
      BY <1>4, <1>6, <1>9, <2>1, <3>1
  <2>2. CASE c \notin calls
    <3>1. PICK g \in Hosts : SyncAsk(g) /\ c = ShardCall("AddShard", sync[g].rest[1], "loop")
      <4>1. \A s \in Shards : /\ ShardCall("AddShard", s, "lock").by = "lock"
                              /\ ShardCall("RmShard", s, "lock").by = "lock"
                              /\ ShardCall("MoveShard", s, "lock").by = "lock"
        BY ShardCallIs
      <4>2. \A l \in Logins : MoveUserCall(l).op = "MoveUser"
        BY DEF MoveUserCall
      <4> QED
        BY <1>9, <2>2, <4>1, <4>2, NewCalls
    <3>2. 1 \in DOMAIN sync[g].rest /\ sync[g].rest[1] \in Shards
      BY <3>1, HeadIs DEF SyncAsk, Ranging
    <3>3. c.id = sync[g].rest[1] /\ c.host = HostOf[c.id]
      BY <3>1, <3>2, ShardCallIs
    <3> QED
      BY <1>4, <1>6, <1>9, <3>2, <3>3 DEF OwnShards
  <2> QED
    BY <2>1, <2>2
<1> QED
  BY <1>2, <1>4, <1>7, <1>8, <1>9, RangeEnds

-----------------------------------------------------------------------------
(* The entries of the controller *)

\* A call ends when it is served, or with the connection.
LEMMA CallGoes ==
  ASSUME StepOf, OwnShards, ~Crash, NEW c \in calls, c \notin calls', c.op # "MoveShard"
  PROVE  Serve(c) \/ Break(c.host)
<1> USE DEF StepOf
<1>1. CASE calls \subseteq calls'
  BY <1>1
<1>2. ASSUME NEW d \in calls \cup late, Serve(d) PROVE Serve(c)
  BY <1>2 DEF Serve, Answered
<1>3. ASSUME NEW m \in moving, MoveWrite(m) PROVE FALSE
  BY <1>3 DEF MoveWrite, Answered, OwnShards
<1>4. CASE Serving
  BY <1>1, <1>2, <1>3, <1>4 DEF Serving, MoveRead
<1>5. CASE Managing
  BY <1>1, <1>5, Calling DEF Managing, Add, Remove, Added, Removed, Found
<1>6. CASE Joining
  <2>1. ASSUME NEW l \in Logins, Find(l) PROVE calls \subseteq calls'
    <3>1. calls' = calls \/ \E s \in Listed(LoginHost[l]) : Call(ShardCall("MoveShard", s, "lock"))
      BY <2>1 DEF Find
    <3> QED
      BY <3>1, Calling
  <2> QED
    BY <1>1, <1>6, <2>1, Calling DEF Joining, Move, Play, Rejoin
<1>7. CASE Looping
  BY <1>1, <1>7, Calling DEF Looping, LoopStep, Events, Sync, SyncAsk, SyncNext, RecvFails
<1>8. CASE \E h \in Hosts : Break(h) \/ Reconnect(h)
  BY <1>1, <1>8 DEF Break, Reconnect, CallsOf
<1> QED
  BY <1>1, <1>4, <1>5, <1>6, <1>7, <1>8, Kinds, IdlingFrame, AuthsFrame, HandlersFrame

\* While nothing goes wrong an entry is made by a call that its host waits for, when
\* the shard is its host's, and removed by the one of Remove.
LEMMA EntryMoves ==
  ASSUME StepOf, OwnShards, CallersWait, LateIsRaced, RangeIsOfList, ~Crash,
         NEW s \in Shards, Unraced(HostOf[s]), Unraced(HostOf[s])', shards'[s] # shards[s]
  PROVE  \/ life[s] \in {"adding", "up"} /\ shards'[s] = HostOf[s] /\ Serving
         \/ life[s] = "removing" /\ shards'[s] = Absent /\ Serving
         \/ shards[s] = Absent /\ shards'[s] = NoHost /\ Serving
<1> USE DEF StepOf
<1>0. /\ HostOf[s] \in Hosts
      /\ \A x \in {"overlap", "failed", "late", "torn"} :
           x \notin raced[HostOf[s]] /\ x \notin raced'[HostOf[s]]
  BY RegistryAssumption DEF Unraced
<1>1. CASE shards' = shards
  BY <1>1
<1>2. ASSUME NEW c \in calls \cup late, Serve(c)
      PROVE  \/ life[s] \in {"adding", "up"} /\ shards'[s] = HostOf[s]
             \/ life[s] = "removing" /\ shards'[s] = Absent
  <2>1. /\ c \in Calls
        /\ \/ c.op = "AddShard" /\ shards' = [shards EXCEPT ![c.id] = c.host]
           \/ c.op = "RmShard" /\ shards' = [shards EXCEPT ![c.id] = Absent]
    BY <1>1, <1>2 DEF Serve, AddedEntry, TypeOK
  <2>2. /\ c.id = s /\ c.host = HostOf[s]
        /\ c.op = "AddShard" => shards'[s] = HostOf[s]
        /\ c.op = "RmShard" => shards'[s] = Absent
    <3>1. c.id = s
      BY <2>1 DEF TypeOK
    <3>2. c.host = HostOf[s]
      BY <2>1, <3>1 DEF OwnShards
    <3> QED
      BY <2>1, <3>1, <3>2 DEF TypeOK
  <2>3. c \in calls
    BY <1>0, <2>1, <2>2 DEF LateIsRaced
  <2>4. CASE c.op = "RmShard"
    BY <2>2, <2>3, <2>4 DEF CallersWait
  <2>5. CASE c.op = "AddShard"
    <3>1. c.by \in {"lock", "loop"}
      BY <2>1, <2>5, CallIs
    <3>2. CASE c.by = "lock"
      BY <2>2, <2>3, <2>5, <3>2 DEF CallersWait
    <3>3. CASE c.by = "loop"
      <4>1. Ranging(HostOf[s])
        BY <2>2, <2>3, <2>5, <3>3 DEF CallersWait, Ranging
      <4>2. life[s] = "up"
        BY <1>0, <2>2, <2>3, <2>5, <3>3, <4>1 DEF RangeIsOfList
      <4> QED
        BY <2>2, <2>5, <4>2
    <3> QED
      BY <3>1, <3>2, <3>3
  <2> QED
    BY <2>1, <2>4, <2>5
<1>3. ASSUME NEW m \in moving, MoveWrite(m)
      PROVE  shards[s] = Absent /\ shards'[s] = NoHost
  <2>1. m.call.id = s /\ shards'[s] = m.read
    <3>1. shards' = [shards EXCEPT ![m.call.id] = m.read]
      BY <1>3 DEF MoveWrite
    <3> QED
      BY <3>1 DEF TypeOK
  <2>2. raced' = IF shards[s] # m.read /\ ~(shards[s] = Absent /\ m.read = NoHost)
                 THEN [raced EXCEPT ![HostOf[s]] = @ \cup {"torn"}] ELSE raced
    BY <1>3, <2>1 DEF MoveWrite
  <2>3. shards[s] # m.read
    BY <2>1
  <2>4. CASE ~(shards[s] = Absent /\ m.read = NoHost)
    BY <1>0, <2>2, <2>3, <2>4 DEF TypeOK
  <2> QED
    BY <2>1, <2>4
<1>4. CASE Serving
  BY <1>1, <1>2, <1>3, <1>4 DEF Serving, MoveRead
<1>5. CASE \E h \in Hosts : Break(h) \/ Reconnect(h)
  BY <1>1, <1>5 DEF Break, Reconnect
<1> QED
  BY <1>1, <1>4, <1>5, Kinds, IdlingFrame, AuthsFrame, JoiningFrame, ManagingFrame,
     LoopingFrame, HandlersFrame

\* A range that does not go on reads what it would have read.
LEMMA RangeKept ==
  ASSUME StepOf, NEW h \in Hosts, Ranging(h), lock[h].op # "Remove", ~SyncNext(h),
         sync[h].first + Len(sync[h].rest) <= Len(list[h]) + 1
  PROVE  /\ DOMAIN sync'[h].rest = DOMAIN sync[h].rest
         /\ \A j \in DOMAIN sync[h].rest : sync'[h].rest[j] = sync[h].rest[j]
<1> USE DEF StepOf
<1>0. /\ sync[h] \in Ranges /\ sync[h].first \in Nat /\ Len(sync[h].rest) \in Nat
      /\ DOMAIN sync[h].rest = 1..Len(sync[h].rest)
      /\ Len(list[h]) \in Nat /\ lock[h] \in Locks
  BY RangeIs, SeqPlaces DEF TypeOK, Ranges
<1>1. CASE sync'[h] = sync[h]
  BY <1>1
<1>2. ASSUME NEW g \in Hosts, Added(g), sync'[h] # sync[h]
      PROVE  /\ DOMAIN sync'[h].rest = DOMAIN sync[h].rest
             /\ \A j \in DOMAIN sync[h].rest : sync'[h].rest[j] = sync[h].rest[j]
  <2>1. PICK b \in BOOLEAN : sync' = [sync EXCEPT ![g] = Append1(g, lock[g].id, b)]
    BY <1>2 DEF Added
  <2>2. g = h /\ sync'[h] = Append1(h, lock[h].id, b)
    BY <1>2, <2>1 DEF TypeOK
  <2>3. lock[h].id \in Shards
    BY <1>0, <1>2, <2>2, LockIs DEF Added
  <2>4. /\ DOMAIN sync'[h].rest = DOMAIN sync[h].rest
        /\ \A j \in DOMAIN sync[h].rest :
             \/ sync'[h].rest[j] = sync[h].rest[j]
             \/ sync[h].first + j - 1 = Len(list[h]) + 1
    BY <2>2, <2>3, AppendUnder
  <2>5. \A j \in DOMAIN sync[h].rest : sync[h].first + j - 1 # Len(list[h]) + 1
    BY <1>0
  <2> QED
    BY <2>4, <2>5
<1>3. ASSUME NEW g \in Hosts, Removed(g) PROVE sync'[h] = sync[h]
  <2>1. lock[g].op = "Remove" /\ \E a : sync' = [sync EXCEPT ![g] = a]
    BY <1>3 DEF Removed
  <2> QED
    BY <2>1 DEF TypeOK
<1>4. ASSUME NEW g \in Hosts, LoopStep(g) PROVE sync'[h] = sync[h]
  <2>1. \/ sync' = sync
        \/ Sync(g) /\ (\E a : sync' = [sync EXCEPT ![g] = a]) /\ loop[g] = "opened"
        \/ SyncNext(g) /\ \E a : sync' = [sync EXCEPT ![g] = a]
    BY <1>4 DEF LoopStep, Events, Sync, SyncAsk, SyncNext, RecvFails
  <2> QED
    BY <2>1 DEF TypeOK, Ranging
<1>5. CASE Managing
  BY <1>1, <1>2, <1>3, <1>5 DEF Managing, Add, Remove, Found
<1>6. CASE (\E g \in Hosts : Break(g) \/ Reconnect(g)) \/ Crash
  BY <1>1, <1>6 DEF Break, Reconnect, Crash
<1> QED
  BY <1>1, <1>4, <1>5, <1>6, Kinds, ServingFrame, IdlingFrame, AuthsFrame, JoiningFrame,
     HandlersFrame DEF Looping

\* A shard that is to be sent is sent, while the connection is up.
LEMMA UnsentGoes ==
  ASSUME StepOf, OwnShards, RangeIsOfList, ~Crash, NEW s \in Shards,
         "overlap" \notin raced[HostOf[s]], conn[HostOf[s]], ~Break(HostOf[s]),
         s \in Unsent(HostOf[s])
  PROVE  \/ s \in Unsent(HostOf[s])'
         \/ ShardCall("AddShard", s, "loop") \in calls /\ Serve(ShardCall("AddShard", s, "loop"))
<1> USE DEF StepOf
<1>1. PICK h \in Hosts : h = HostOf[s]
  BY RegistryAssumption
<1>2. PICK i \in DOMAIN sync[h].rest :
        /\ s = sync[h].rest[i]
        /\ \/ loop[h] = "sync"
           \/ loop[h] = "asked" /\ (i = 1 =>
                ShardCall("AddShard", sync[h].rest[i], "loop") \in calls)
  BY <1>1 DEF Unsent
<1>3. Ranging(h)
  BY <1>2 DEF Ranging
<1>4. /\ lock[h].op # "Remove"
      /\ sync[h].first + Len(sync[h].rest) <= Len(list[h]) + 1
  BY <1>1, <1>3 DEF RangeIsOfList
<1>5. CASE SyncNext(h)
  <2>1. /\ loop[h] = "asked" /\ \A c \in calls : c.host = h => c.by # "loop"
        /\ sync'[h] = NextSync(sync[h]) /\ loop' = [loop EXCEPT ![h] = Syncing(sync'[h])]
    BY <1>5 DEF SyncNext, TypeOK
  <2>2. i # 1
    <3>1. i = 1 => ShardCall("AddShard", s, "loop") \in calls
      BY <1>2, <2>1
    <3>2. ShardCall("AddShard", s, "loop").host = h
            /\ ShardCall("AddShard", s, "loop").by = "loop"
      BY <1>1, ShardCallIs
    <3> QED
      BY <2>1, <3>1, <3>2
  <2>3. /\ sync[h] \in Ranges /\ sync[h].rest # <<>> /\ i \in 1..Len(sync[h].rest)
        /\ Len(sync[h].rest) \in Nat /\ DOMAIN sync[h].rest = 1..Len(sync[h].rest)
    BY <1>3, RangeIs DEF TypeOK, Ranges, Chosen
  <2>4. Len(sync[h].rest) # 1
    <3>1. PICK n \in Nat : n = Len(sync[h].rest)
      BY <2>3
    <3>2. i \in 1..n /\ i # 1
      BY <2>2, <2>3, <3>1
    <3> QED
      BY <3>1, <3>2
  <2>5. /\ Syncing(sync'[h]) = "sync" /\ Len(sync'[h].rest) = Len(sync[h].rest) - 1
        /\ \A j \in DOMAIN sync'[h].rest : sync'[h].rest[j] = sync[h].rest[j + 1]
    BY <2>1, <2>3, <2>4, GoOn
  <2>6. loop'[h] = "sync"
    BY <2>1, <2>5 DEF TypeOK
  <2>7. DOMAIN sync'[h].rest = 1..Len(sync'[h].rest)
    BY RangeIs DEF TypeOK, Ranges
  <2>8. i - 1 \in DOMAIN sync'[h].rest /\ sync'[h].rest[i - 1] = s
    <3>1. i - 1 \in 1..(Len(sync[h].rest) - 1) /\ (i - 1) + 1 = i
      BY <2>2, <2>3
    <3> QED
      BY <1>2, <2>5, <2>7, <3>1
  <2> QED
    BY <1>1, <2>6, <2>8 DEF Unsent
<1>6. CASE ~SyncNext(h)
  <2>1. i \in DOMAIN sync'[h].rest /\ sync'[h].rest[i] = s
    BY <1>2, <1>3, <1>4, <1>6, RangeKept
  <2>2. CASE SyncAsk(h)
    <3>1. /\ loop'[h] = "asked" /\ Call(ShardCall("AddShard", Head(sync[h].rest), "loop"))
      BY <2>2 DEF SyncAsk, TypeOK
    <3>2. i = 1 => ShardCall("AddShard", s, "loop") \in calls'
      <4>1. i = 1 => Head(sync[h].rest) = s
        BY <1>2, <1>3, HeadIs
      <4>2. conn[ShardCall("AddShard", s, "loop").host]
        BY ShardCallIs
      <4> QED
        BY <3>1, <4>1, <4>2, Calling
    <3> QED
      BY <1>1, <2>1, <3>1, <3>2 DEF Unsent
  <2>3. CASE ~SyncAsk(h)
    <3>1. loop'[h] = loop[h]
      BY SMTT(60), <1>2, <1>6, <2>3, LoopMoves
    <3>2. CASE loop[h] = "sync" \/ i # 1
      BY ZenonT(60), <1>1, <1>2, <2>1, <3>1, <3>2 DEF Unsent
    <3>3. CASE loop[h] = "asked" /\ i = 1
      <4>1. PICK c \in calls : c = ShardCall("AddShard", s, "loop")
        BY <1>2, <3>3
      <4>2. CASE c \in calls'
        BY <1>1, <1>2, <2>1, <3>1, <4>1, <4>2 DEF Unsent
      <4>3. CASE c \notin calls'
        <5>1. c.op = "AddShard" /\ c.host = HostOf[s]
          BY <4>1, ShardCallIs
        <5> QED
          BY <4>1, <4>3, <5>1, CallGoes
      <4> QED
        BY <4>2, <4>3
    <3> QED
      BY <1>2, <3>2, <3>3
  <2> QED
    BY <2>2, <2>3
<1> QED
  BY <1>5, <1>6

\* A stream that is open was open before, but where its range begins.
LEMMA StreamWas ==
  ASSUME StepOf, StreamsOwned, StreamsOwned', NEW h \in Hosts, ~Sync(h),
         loop'[h] \notin {"call", "opened"}, live'[cur'[h]]
  PROVE  /\ loop[h] \notin {"call", "opened"} /\ live[cur[h]]
         /\ conn[h] /\ conn'[h] /\ ~Break(h) /\ ~Crash
<1> USE DEF StepOf
<1>1. loop[h] \notin {"call", "opened"} /\ loop'[h] \in {"sync", "asked", "recv"}
  BY LoopMoves DEF TypeOK
<1>2. cur[h] \in Streams /\ owner[cur[h]] = h /\ loop[h] # "call"
  BY <1>1, StreamIs
<1>3. CASE UNCHANGED <<cur, live, owner, conn>>
  <2>1. live[cur[h]] /\ conn[h] /\ conn'[h]
    BY <1>2, <1>3, StreamIs
  <2>2. (Break(h) => ~conn'[h]) /\ (Crash => ~conn'[h])
    BY DEF Break, Crash, TypeOK
  <2> QED
    BY <1>1, <2>1, <2>2
<1>4. ASSUME NEW g \in Hosts, LoopStep(g)
      PROVE  cur'[h] = cur[h] /\ live'[cur[h]] = live[cur[h]] /\ conn' = conn
  <2>1. CASE Events(g)
    <3>1. PICK k \in Streams : Unused(k) /\ live' = [live EXCEPT ![k] = TRUE]
                                /\ cur' = [cur EXCEPT ![g] = k]
      BY <2>1 DEF Events
    <3>2. g # h /\ cur[h] # k /\ conn' = conn
      BY <1>1, <2>1, <3>1 DEF Events, Unused, TypeOK
    <3> QED
      BY <1>2, <3>1, <3>2 DEF TypeOK
  <2>2. CASE RecvFails(g)
    <3>1. /\ loop' = [loop EXCEPT ![g] = "call"] /\ cur' = [cur EXCEPT ![g] = NoStream]
          /\ UNCHANGED <<live, conn>>
      BY <2>2 DEF RecvFails
    <3> QED
      BY <1>1, <3>1 DEF TypeOK
  <2> QED
    BY <1>4, <2>1, <2>2 DEF LoopStep, Sync, SyncAsk, SyncNext
<1>5. CASE \E g \in Hosts : LoopStep(g)
  <2>1. cur'[h] = cur[h] /\ live[cur[h]] /\ conn' = conn
    BY <1>4, <1>5
  <2>2. conn[h]
    BY <1>2, <2>1, StreamIs
  <2>3. ~Break(h) /\ ~Crash
    <3>1. Break(h) => ~conn'[h]
      BY DEF Break, TypeOK
    <3>2. Crash => ~conn'[h]
      BY DEF Crash
    <3> QED
      BY <2>1, <2>2, <3>1, <3>2
  <2> QED
    BY <1>1, <2>1, <2>2, <2>3
<1>6. ASSUME NEW g \in Hosts, Break(g)
      PROVE  /\ live[cur[h]] /\ conn[h] /\ conn'[h] /\ ~Break(h) /\ ~Crash
  <2>1. /\ cur' = cur /\ live' = [k \in Streams |-> live[k] /\ owner[k] # g]
        /\ conn' = [conn EXCEPT ![g] = FALSE]
    BY <1>6 DEF Break
  <2>2. live[cur[h]] /\ g # h
    BY <1>2, <2>1
  <2>3. conn[h] /\ conn'[h]
    <3>1. conn[h]
      BY <1>2, <2>2, StreamIs
    <3> QED
      BY <2>1, <2>2, <3>1 DEF TypeOK
  <2>4. (Break(h) => ~conn'[h]) /\ (Crash => ~conn'[h])
    BY DEF Break, Crash, TypeOK
  <2> QED
    BY <2>2, <2>3, <2>4
<1>7. ASSUME NEW g \in Hosts, Reconnect(g)
      PROVE  /\ live[cur[h]] /\ conn[h] /\ conn'[h] /\ ~Break(h) /\ ~Crash
  <2>1. UNCHANGED <<cur, live>> /\ conn' = [conn EXCEPT ![g] = TRUE]
    BY <1>7 DEF Reconnect
  <2>2. live[cur[h]] /\ conn[h]
    BY <1>2, <2>1, StreamIs
  <2>3. conn'[h]
    BY <2>1, <2>2 DEF TypeOK
  <2>4. (Break(h) => ~conn'[h]) /\ (Crash => ~conn'[h])
    BY DEF Break, Crash, TypeOK
  <2> QED
    BY <2>2, <2>3, <2>4
<1>8. CASE Crash
  <2>1. cur' = cur /\ live' = [k \in Streams |-> FALSE]
    BY <1>8 DEF Crash
  <2> QED
    BY <1>2, <2>1
<1> QED
  BY <1>1, <1>3, <1>5, <1>6, <1>7, <1>8, Kinds, ServingFrame, IdlingFrame, AuthsFrame,
     JoiningFrame, ManagingFrame, HandlersFrame DEF Looping

LEMMA EntriesStep ==
  /\ StepOf /\ StreamsOwned /\ StreamsOwned' /\ OwnShards /\ ListLife /\ ListLife'
  /\ CallersWait /\ LateIsRaced /\ RangeIsOfList /\ EntriesFollow
  => EntriesFollow'
<1> SUFFICES ASSUME StepOf, StreamsOwned, StreamsOwned', OwnShards, ListLife, ListLife',
                    CallersWait, LateIsRaced, RangeIsOfList, EntriesFollow,
                    NEW s \in Shards, NEW h, h = HostOf[s], Unraced(h)'
             PROVE  /\ life'[s] \in {"off", "gone"} => shards'[s] # h
                    /\ life'[s] = "removing" =>
                         ShardCall("RmShard", s, "lock") \in calls' \/ shards'[s] # h
                    /\ loop'[h] \notin {"call", "opened"} /\ live'[cur'[h]] =>
                         /\ life'[s] = "adding" =>
                              ShardCall("AddShard", s, "lock") \in calls' \/ shards'[s] = h
                         /\ life'[s] = "up" => s \in Unsent(h)' \/ shards'[s] = h
  BY DEF EntriesFollow, ShardCall
<1> USE DEF StepOf
<1>0. h \in Hosts /\ h # Absent /\ h # NoHost
  BY RegistryAssumption
<1>1. CASE Crash
  <2>1. /\ shards' = [t \in Shards |-> Absent] /\ loop' = loop /\ cur' = cur
        /\ live' = [k \in Streams |-> FALSE]
    BY <1>1 DEF Crash
  <2>2. loop[h] # "call" => cur[h] \in Streams
    BY <1>0, StreamIs
  <2> QED
    BY <1>0, <2>1, <2>2
<1> SUFFICES ASSUME ~Crash
             PROVE  /\ life'[s] \in {"off", "gone"} => shards'[s] # h
                    /\ life'[s] = "removing" =>
                         ShardCall("RmShard", s, "lock") \in calls' \/ shards'[s] # h
                    /\ loop'[h] \notin {"call", "opened"} /\ live'[cur'[h]] =>
                         /\ life'[s] = "adding" =>
                              ShardCall("AddShard", s, "lock") \in calls' \/ shards'[s] = h
                         /\ life'[s] = "up" => s \in Unsent(h)' \/ shards'[s] = h
  BY <1>1
<1>2. Unraced(h) /\ \A x \in {"overlap", "failed", "late", "torn"} :
                      x \notin raced[h] /\ x \notin raced'[h]
  <2>1. Unraced(h)
    BY <1>0, RacedBefore
  <2> QED
    BY <2>1 DEF Unraced
<1>3. /\ life[s] \in {"off", "gone"} => shards[s] # h
      /\ life[s] = "removing" =>
           ShardCall("RmShard", s, "lock") \in calls \/ shards[s] # h
      /\ loop[h] \notin {"call", "opened"} /\ live[cur[h]] =>
           /\ life[s] = "adding" =>
                ShardCall("AddShard", s, "lock") \in calls \/ shards[s] = h
           /\ life[s] = "up" => s \in Unsent(h) \/ shards[s] = h
  BY <1>2 DEF EntriesFollow
<1>4. shards'[s] # shards[s] =>
        \/ life[s] \in {"adding", "up"} /\ shards'[s] = h /\ Serving
        \/ life[s] = "removing" /\ shards'[s] = Absent /\ Serving
        \/ shards[s] = Absent /\ shards'[s] = NoHost /\ Serving
  BY <1>2, EntryMoves
<1>5. Serving => life' = life
  BY ServingFrame
<1>6. /\ Managing => shards' = shards
      /\ \A t \in Shards : Add(t) \/ Remove(t) => Managing
      /\ \A g \in Hosts : Added(g) \/ Removed(g) => Managing
  BY ManagingFrame DEF Managing
<1>7. ASSUME life'[s] \in {"off", "gone"} PROVE shards'[s] # h
  <2>1. CASE life'[s] = life[s]
    BY <1>0, <1>3, <1>4, <1>7, <2>1
  <2>2. CASE life'[s] # life[s]
    <3>1. Removed(h) /\ life[s] = "removing" /\ lock[h].id = s
      BY <1>7, <2>2, LifeMoves
    <3>2. shards'[s] = shards[s] /\ ShardCall("RmShard", s, "lock") \notin calls
      BY <1>0, <1>6, <3>1 DEF Removed, Returned
    <3> QED
      BY <1>3, <3>1, <3>2
  <2> QED
    BY <2>1, <2>2
<1>8. ASSUME life'[s] = "removing", shards'[s] = h
      PROVE  ShardCall("RmShard", s, "lock") \in calls'
  <2>1. CASE life'[s] = life[s]
    <3>1. shards[s] = h
      BY <1>0, <1>4, <1>8, <2>1
    <3>2. PICK c \in calls : c = ShardCall("RmShard", s, "lock")
      BY <1>3, <1>8, <2>1, <3>1
    <3>3. c.op = "RmShard" /\ c.host = h /\ c.id = s
      BY <3>2, ShardCallIs
    <3>4. CASE Serve(c)
      <4>1. shards' = [shards EXCEPT ![s] = Absent]
        BY <3>3, <3>4 DEF Serve
      <4> QED
        BY <1>0, <1>8, <4>1 DEF TypeOK
    <3>5. CASE Break(h)
      BY <1>0, <1>2, <3>3, <3>5, BreakRaced DEF CallsOf
    <3> QED
      BY <3>2, <3>3, <3>4, <3>5, CallGoes
  <2>2. CASE life'[s] # life[s]
    <3>1. Remove(s)
      BY <1>8, <2>2, LifeMoves
    <3>2. shards[s] # Absent
      BY <1>0, <1>6, <1>8, <3>1
    <3>3. conn[h]
      BY <1>0, <1>2, <3>1, <3>2, RemoveRaced
    <3>4. Call(ShardCall("RmShard", s, "lock")) /\ ShardCall("RmShard", s, "lock").host = h
      BY <3>1, ShardCallIs DEF Remove
    <3> QED
      BY <3>3, <3>4, Calling
  <2> QED
    BY <2>1, <2>2
<1>9. CASE Sync(h)
  <2>1. /\ life' = life /\ lock' = lock /\ shards' = shards /\ calls' = calls
        /\ sync' = [sync EXCEPT ![h] = SyncAll(h)]
        /\ loop' = [loop EXCEPT ![h] = Syncing(sync'[h])]
    BY <1>9 DEF Sync
  <2>2. lock[h].op \notin {"Add", "Remove"}
    BY <1>0, <1>2, <1>9, SyncRaced
  <2>3. life[s] # "adding"
    BY <2>2, LifeHolds
  <2>4. ASSUME life[s] = "up" PROVE s \in Unsent(h)'
    <3>1. s \in Listed(h)
      BY <1>0, <2>4 DEF ListLife
    <3>2. PICK i \in DOMAIN list[h] : list[h][i] = s
      BY <3>1 DEF Listed
    <3>3. sync'[h] = SyncAll(h) /\ loop'[h] = Syncing(sync'[h])
      BY <1>0, <2>1 DEF TypeOK
    <3>4. list[h] # <<>>
      BY <3>2
    <3>5. loop'[h] = "sync" /\ sync'[h].rest = list[h]
      BY <1>0, <3>3, <3>4, StartRange
    <3> QED
      BY <3>2, <3>5 DEF Unsent
  <2> QED
    BY <1>7, <1>8, <2>1, <2>3, <2>4
<1>10. ASSUME ~Sync(h), loop'[h] \notin {"call", "opened"}, live'[cur'[h]],
              life'[s] = "adding", shards'[s] # h
       PROVE  ShardCall("AddShard", s, "lock") \in calls'
  <2>1. /\ loop[h] \notin {"call", "opened"} /\ live[cur[h]]
        /\ conn[h] /\ ~Break(h)
    BY <1>0, <1>10, StreamWas
  <2>2. CASE life'[s] = life[s]
    <3>1. shards[s] # h
      BY <1>0, <1>4, <1>10, <2>2
    <3>2. PICK c \in calls : c = ShardCall("AddShard", s, "lock")
      BY <1>3, <1>10, <2>1, <2>2, <3>1
    <3>3. c.op = "AddShard" /\ c.host = h /\ c.id = s
      BY <3>2, ShardCallIs
    <3>4. CASE Serve(c)
      <4>1. shards' = [shards EXCEPT ![s] = h]
        BY <3>3, <3>4 DEF Serve, AddedEntry
      <4> QED
        BY <1>10, <4>1 DEF TypeOK
    <3> QED
      BY <2>1, <3>2, <3>3, <3>4, CallGoes
  <2>3. CASE life'[s] # life[s]
    <3>1. Add(s)
      BY <1>10, <2>3, LifeMoves
    <3>2. Call(ShardCall("AddShard", s, "lock")) /\ ShardCall("AddShard", s, "lock").host = h
      BY <3>1, ShardCallIs DEF Add
    <3> QED
      BY <2>1, <3>2, Calling
  <2> QED
    BY <2>2, <2>3
<1>11. ASSUME ~Sync(h), loop'[h] \notin {"call", "opened"}, live'[cur'[h]],
              life'[s] = "up", shards'[s] # h
       PROVE  s \in Unsent(h)'
  <2>1. /\ loop[h] \notin {"call", "opened"} /\ live[cur[h]]
        /\ conn[h] /\ ~Break(h)
    BY <1>0, <1>11, StreamWas
  <2>2. CASE life'[s] = life[s]
    <3>1. shards[s] # h
      BY <1>0, <1>4, <1>11, <2>2
    <3>2. s \in Unsent(h)
      BY <1>3, <1>11, <2>1, <2>2, <3>1
    <3>3. ASSUME Serve(ShardCall("AddShard", s, "loop")) PROVE FALSE
      <4>1. shards' = [shards EXCEPT ![s] = h]
        BY <3>3, ShardCallIs DEF Serve, AddedEntry
      <4> QED
        BY <1>11, <4>1 DEF TypeOK
    <3> QED
      BY <1>2, <2>1, <3>2, <3>3, UnsentGoes
  <2>3. CASE life'[s] # life[s]
    <3>1. Added(h) /\ life[s] = "adding" /\ lock[h].id = s
      BY <1>11, <2>3, LifeMoves
    <3>2. shards'[s] = shards[s] /\ ShardCall("AddShard", s, "lock") \notin calls
      BY <1>0, <1>6, <3>1 DEF Added, Returned
    <3> QED
      BY <1>3, <1>11, <2>1, <3>1, <3>2
  <2> QED
    BY <2>2, <2>3
<1> QED
  BY <1>7, <1>8, <1>9, <1>10, <1>11

-----------------------------------------------------------------------------
(* Users *)

LEMMA NoFault ==
  ASSUME StepOf, faults' = 0
  PROVE  faults = 0 /\ ~Crash /\ \A h \in Hosts : ~Break(h)
<1>1. faults \in Nat
  BY RegistryAssumption DEF StepOf, TypeOK
<1>2. Crash => faults' = faults + 1
  BY DEF Crash
<1>3. \A h \in Hosts : Break(h) => faults' = faults + 1
  BY DEF Break
<1>4. ~Crash /\ \A h \in Hosts : ~Break(h)
  BY <1>1, <1>2, <1>3
<1>5. faults' = faults
  BY <1>4, Kinds, ServingFrame, IdlingFrame, AuthsFrame, JoiningFrame, ManagingFrame,
     LoopingFrame, HandlersFrame DEF StepOf, Reconnect
<1> QED
  BY <1>4, <1>5

LEMMA AuthMoves ==
  ASSUME StepOf, ~Crash, NEW l \in Logins, auth'[l] # auth[l], auth'[l] # "none"
  PROVE  \/ auth[l] # "none" \/ sess'[l] = "auth"
<1> USE DEF StepOf
<1>1. CASE auth' = auth
  BY <1>1
<1>2. ASSUME NEW m \in Logins, AuthCall(m) \/ AuthStep(m)
      PROVE  auth[l] # "none" \/ sess'[l] = "auth"
  <2>1. CASE AuthCall(m)
    <3>1. /\ auth' = [auth EXCEPT ![m] = "look"]
          /\ sess' = [sess EXCEPT ![m] = "auth"]
      BY <1>1, <2>1 DEF AuthCall
    <3> QED
      BY <3>1 DEF TypeOK
  <2>2. CASE AuthStep(m)
    <3>1. auth[m] # "none" /\ \E a : auth' = [auth EXCEPT ![m] = a]
      BY <2>2 DEF AuthStep, AuthDenied, AuthLook, AuthKick, AuthReset
    <3> QED
      BY <3>1 DEF TypeOK
  <2> QED
    BY <1>2, <2>1, <2>2
<1>3. CASE \E h \in Hosts : Break(h) \/ Reconnect(h)
  BY <1>1, <1>3 DEF Break, Reconnect
<1> QED
  BY <1>1, <1>2, <1>3, Kinds, ServingFrame, IdlingFrame, JoiningFrame, ManagingFrame,
     LoopingFrame, HandlersFrame DEF Auths

LEMMA PlayersMoves ==
  ASSUME StepOf, ~Crash, NEW u \in Users, players'[u] # players[u]
  PROVE  \/ \E c \in calls \cup late : /\ c.op = "MoveUser" /\ c.by \in Logins
                                       /\ UserOf[c.by] = u /\ players'[u] = c.id
         \/ \E m \in Logins : AuthReset(m) /\ UserOf[m] = u
<1> USE DEF StepOf
<1>1. CASE players' = players
  BY <1>1
<1>2. ASSUME NEW c \in calls \cup late, Serve(c)
      PROVE  /\ c.op = "MoveUser" /\ c.by \in Logins
             /\ UserOf[c.by] = u /\ players'[u] = c.id
  <2>1. c.op = "MoveUser" /\ players' = [players EXCEPT ![UserOf[c.by]] = c.id]
    BY <1>1, <1>2 DEF Serve
  <2>2. c.by \in Logins
    BY <2>1, CallIs DEF TypeOK
  <2> QED
    BY <2>1, <2>2 DEF TypeOK
<1>3. ASSUME NEW m \in Logins, AuthReset(m) PROVE UserOf[m] = u
  BY <1>3 DEF AuthReset, TypeOK
<1>4. CASE Serving
  BY <1>1, <1>2, <1>4 DEF Serving, MoveRead, MoveWrite
<1>5. CASE Auths
  BY <1>1, <1>3, <1>5 DEF Auths, AuthStep, AuthCall, AuthDenied, AuthLook, AuthKick
<1>6. CASE \E h \in Hosts : Break(h) \/ Reconnect(h)
  BY <1>1, <1>6 DEF Break, Reconnect
<1> QED
  BY <1>1, <1>4, <1>5, <1>6, Kinds, IdlingFrame, JoiningFrame, ManagingFrame,
     LoopingFrame, HandlersFrame

LEMMA UsersStep ==
  StepOf /\ OwnShards /\ CallersWait /\ UsersFollow => UsersFollow'
<1> SUFFICES ASSUME StepOf, OwnShards, CallersWait, UsersFollow, faults' = 0
             PROVE  /\ late' = {} /\ \A h \in Hosts : conn'[h]
                    /\ \A l \in Logins :
                         /\ auth'[l] # "none" => sess'[l] = "auth"
                         /\ Alone(l)' /\ (\/ sess'[l] = "play"
                                          \/ sess'[l] = "moving" /\ Returned(MoveUserCall(l))')
                              => players'[UserOf[l]] = at'[l]
  BY DEF UsersFollow
<1> USE DEF StepOf
<1>1. /\ faults = 0 /\ ~Crash /\ \A h \in Hosts : ~Break(h)
  BY NoFault
<1>2. /\ late = {} /\ \A h \in Hosts : conn[h]
      /\ \A l \in Logins :
           /\ auth[l] # "none" => sess[l] = "auth"
           /\ Alone(l) /\ (\/ sess[l] = "play"
                           \/ sess[l] = "moving" /\ Returned(MoveUserCall(l)))
                => players[UserOf[l]] = at[l]
  BY <1>1 DEF UsersFollow
<1>3. late' = {}
  BY <1>1, <1>2, LateCalls
<1>4. \A h \in Hosts : conn'[h]
  <2>1. conn' = conn
    BY <1>1, <1>2, Kinds, ServingFrame, IdlingFrame, AuthsFrame, JoiningFrame,
       ManagingFrame, LoopingFrame, HandlersFrame DEF Reconnect
  <2> QED
    BY <1>2, <2>1
<1>5. ASSUME NEW l \in Logins, auth'[l] # "none" PROVE sess'[l] = "auth"
  <2>1. CASE auth[l] = "none"
    BY <1>1, <1>5, <2>1, AuthMoves
  <2>2. CASE auth[l] # "none"
    <3>1. sess[l] = "auth"
      BY <1>2, <2>2
    <3>2. AuthDenied(l) \/ AuthReset(l) => auth'[l] = "none"
      BY DEF AuthDenied, AuthReset, TypeOK
    <3> QED
      BY <1>1, <1>5, <3>1, <3>2, SessMoves
  <2> QED
    BY <2>1, <2>2
<1>6. ASSUME NEW l \in Logins, Alone(l)',
             \/ sess'[l] = "play"
             \/ sess'[l] = "moving" /\ Returned(MoveUserCall(l))'
      PROVE  players'[UserOf[l]] = at'[l]
  <2>1. Alone(l)
    <3>1. \A m \in Logins : sess'[m] = "off" => sess[m] = "off"
      BY SessMoves
    <3> QED
      BY <1>6, <3>1 DEF Alone
  <2>2. sess[l] \in {"moving", "play"}
    <3>1. ASSUME sess[l] = "found", Move(l) PROVE FALSE
      <4>1. Call(MoveUserCall(l)) /\ at' = at /\ sess' = [sess EXCEPT ![l] = "moving"]
        BY <3>1 DEF Move
      <4>2. at[l] \in Shards
        BY <3>1 DEF Chosen
      <4>3. conn[MoveUserCall(l).host]
        BY <1>2, <4>2, MoveUserCallIs, RegistryAssumption
      <4>4. MoveUserCall(l) \in calls' /\ MoveUserCall(l)' = MoveUserCall(l)
        BY <4>1, <4>3, Calling DEF MoveUserCall
      <4>5. sess'[l] = "moving"
        BY <4>1 DEF TypeOK
      <4> QED
        BY <1>6, <4>4, <4>5 DEF Returned
    <3> QED
      BY <1>6, <3>1, SessMoves
  <2>3. at'[l] = at[l] /\ at[l] \in Shards /\ MoveUserCall(l)' = MoveUserCall(l)
    <3>1. at'[l] = at[l]
      BY <2>2, AtMoves
    <3> QED
      BY <2>2, <3>1 DEF Chosen, MoveUserCall
  <2>4. /\ MoveUserCall(l).op = "MoveUser" /\ MoveUserCall(l).by = l
        /\ MoveUserCall(l).id = at[l] /\ MoveUserCall(l).host \in Hosts
    BY <2>3, MoveUserCallIs, RegistryAssumption
  <2>5. CASE sess[l] = "moving" /\ MoveUserCall(l) \in calls
    <3>1. MoveUserCall(l) \notin calls'
      <4>1. CASE sess'[l] = "play"
        BY <2>5, <4>1, SessMoves DEF Play, Returned
      <4> QED
        BY <1>6, <2>3, <4>1 DEF Returned
    <3>2. Serve(MoveUserCall(l))
      BY <1>1, <2>4, <2>5, <3>1, CallGoes
    <3>3. players' = [players EXCEPT ![UserOf[l]] = at[l]]
      BY <2>4, <3>2 DEF Serve
    <3> QED
      BY <2>3, <3>3, RegistryAssumption DEF TypeOK
  <2>6. CASE ~(sess[l] = "moving" /\ MoveUserCall(l) \in calls)
    <3>1. players[UserOf[l]] = at[l]
      BY <1>2, <2>1, <2>2, <2>6 DEF Returned
    <3>2. ASSUME NEW c \in calls, c.op = "MoveUser", c.by \in Logins,
                 UserOf[c.by] = UserOf[l]
          PROVE  c.id = at[l]
      <4>1. sess[c.by] = "moving" /\ c = MoveUserCall(c.by)
        BY <3>2 DEF CallersWait
      <4>2. c.by = l
        BY <2>1, <3>2, <4>1 DEF Alone
      <4> QED
        BY <2>4, <4>1, <4>2
    <3>3. ASSUME NEW m \in Logins, AuthReset(m), UserOf[m] = UserOf[l] PROVE FALSE
      <4>1. sess[m] = "auth"
        BY <1>2, <3>3 DEF AuthReset
      <4> QED
        BY <2>1, <2>2, <3>3, <4>1 DEF Alone
    <3>4. UserOf[l] \in Users
      BY RegistryAssumption
    <3> QED
      BY <1>1, <1>2, <2>3, <3>1, <3>2, <3>3, <3>4, PlayersMoves
  <2> QED
    BY <2>5, <2>6
<1> QED
  BY <1>3, <1>4, <1>5, <1>6

-----------------------------------------------------------------------------
(* The invariant, and what follows from it *)

LEMMA RegistryStart == Init => RegistryInv
<1> SUFFICES ASSUME Init PROVE RegistryInv
  OBVIOUS
<1>1. TypeOK /\ Chosen
  BY TypeStart
<1>2. /\ \A s \in Shards : HostOf[s] \in Hosts /\ HostOf[s] # Absent
      /\ \A l \in Logins : UserOf[l] \in Users
  BY RegistryAssumption
<1>3. StreamsOwned /\ StreamIsRegistered
  BY DEF Init, StreamsOwned, StreamIsRegistered
<1>4. OwnShards
  BY DEF Init, OwnShards, NoSync
<1>5. ListLife
  <2>1. \A h \in Hosts : lock[h] = Free /\ list[h] = <<>>
    BY DEF Init
  <2>2. \A h \in Hosts : Listed(h) = {} /\ DOMAIN list[h] = {} /\ lock[h].op = "none"
    BY <2>1 DEF Listed, Free
  <2>3. \A s \in Shards : life[s] = "off"
    BY DEF Init
  <2>4. \A s \in Shards : /\ lock[HostOf[s]] # [op |-> "Add", id |-> s, by |-> NoShard]
                          /\ lock[HostOf[s]] # [op |-> "Remove", id |-> s, by |-> NoShard]
    BY <1>2, <2>1, FreeIsFree
  <2> QED
    BY <2>2, <2>3, <2>4 DEF ListLife
<1>6. CallersWait /\ LateIsRaced /\ RangeIsOfList
  BY DEF Init, CallersWait, LateIsRaced, RangeIsOfList, Ranging
<1>7. EntriesFollow
  BY <1>2 DEF Init, EntriesFollow
<1>8. UsersFollow
  BY DEF Init, UsersFollow
<1> QED
  BY <1>1, <1>3, <1>4, <1>5, <1>6, <1>7, <1>8 DEF RegistryInv

LEMMA RegistryStep == TypeOK /\ RegistryInv /\ [Next]_vars => TypeOK' /\ RegistryInv'
<1> SUFFICES ASSUME TypeOK, RegistryInv, [Next]_vars PROVE TypeOK' /\ RegistryInv'
  OBVIOUS
<1> USE DEF RegistryInv
<1>1. StepOf
  BY TypeStep DEF StepOf
<1>2. StreamsOwned' /\ ListLife'
  BY <1>1, StreamsStep, ListLifeStep
<1>3. OwnShards' /\ CallersWait' /\ LateIsRaced'
  BY <1>1, OwnShardsStep, CallersWaitStep, LateIsRacedStep
<1>4. RangeIsOfList' /\ EntriesFollow'
  BY <1>1, <1>2, RangeStep, EntriesStep
<1>5. StreamIsRegistered' /\ UsersFollow'
  BY <1>1, StreamRegisteredStep, UsersStep
<1> QED
  BY <1>1, <1>2, <1>3, <1>4, <1>5 DEF StepOf

\* The invariant holds in every reachable state, whatever breaks and whenever.
THEOREM RegistryInvariance == Spec => [](TypeOK /\ RegistryInv)
<1>1. Init => TypeOK /\ RegistryInv
  BY TypeStart, RegistryStart
<1> QED
  BY <1>1, RegistryStep, PTL DEF Spec

LEMMA EntriesAgree == TypeOK /\ RegistryInv => RegistryAgrees
<1> SUFFICES ASSUME TypeOK, RegistryInv, NEW h \in Hosts, Settled(h),
                    raced[h] \subseteq {"usurped"}
             PROVE  {s \in Shards : shards[s] = h} = Listed(h)
  BY DEF RegistryAgrees
<1> USE DEF RegistryInv
<1>1. loop[h] = "recv" /\ live[cur[h]] /\ lock[h].op \notin {"Add", "Remove"}
  BY DEF Settled
<1>2. ASSUME NEW s \in Shards, HostOf[s] = h PROVE life[s] \in {"off", "up", "gone"}
  <2>1. life[s] \in {"off", "adding", "up", "removing", "gone"}
    BY DEF TypeOK
  <2>2. life[s] # "adding" /\ life[s] # "removing"
    BY <1>1, <1>2, LifeHolds
  <2> QED
    BY <2>1, <2>2
<1>3. ASSUME NEW s \in Shards, HostOf[s] = h
      PROVE  /\ life[s] \in {"off", "gone"} => shards[s] # h
             /\ life[s] = "up" => s \in Unsent(h) \/ shards[s] = h
  BY <1>1, <1>3 DEF EntriesFollow, Unraced
<1>4. Unsent(h) = {}
  BY <1>1 DEF Unsent
<1>5. ASSUME NEW s \in Shards, shards[s] = h PROVE HostOf[s] = h
  BY <1>5, RegistryAssumption DEF OwnShards
<1>6. Listed(h) = {s \in Shards : HostOf[s] = h /\ life[s] \in {"up", "removing"}}
  BY DEF ListLife
<1> QED
  BY <1>2, <1>3, <1>4, <1>5, <1>6

\* For a settled host the controller lists the shards that it has, over any number
\* of hosts and shards and after any crashes and broken connections, except where
\* one of the races that the history names has happened (main.go AddShard, RmShard,
\* MoveShard, Events; ts/controller.go eventHandler; ts/manager.go Add, Remove).
THEOREM RegistryFollowsHosts == Spec => []RegistryAgrees
BY RegistryInvariance, EntriesAgree, PTL

LEMMA KicksAgree == TypeOK /\ RegistryInv => KickFindsHost
<1> SUFFICES ASSUME TypeOK, RegistryInv, NEW l \in Logins, NEW h, h = LoginHost[l],
                    sess[l] = "play", Alone(l), Settled(h),
                    handler[cur[h]] = "open", raced[h] = {}, at[l] \in Listed(h)
             PROVE  /\ players[UserOf[l]] = at[l] => KickChan(UserOf[l]) = cur[h]
                    /\ faults = 0 => players[UserOf[l]] = at[l]
  BY DEF KickFindsHost
<1> USE DEF RegistryInv
<1>1. h \in Hosts
  BY RegistryAssumption
<1>2. {s \in Shards : shards[s] = h} = Listed(h)
  BY <1>1, EntriesAgree DEF RegistryAgrees
<1>3. at[l] \in Shards /\ shards[at[l]] = h
  BY <1>2
<1>4. servers[h] = cur[h]
  BY <1>1 DEF StreamIsRegistered, Settled
<1>5. players[UserOf[l]] = at[l] => KickChan(UserOf[l]) = cur[h]
  BY <1>1, <1>3, <1>4 DEF KickChan
<1>6. faults = 0 => players[UserOf[l]] = at[l]
  BY DEF UsersFollow
<1> QED
  BY <1>5, <1>6

\* The kick of a user that plays on a settled host goes to the stream which that
\* host reads: the three maps that Events, AddShard and MoveUser have filled agree,
\* and without a fault the user is entered with the shard it plays on (main.go Auth,
\* Command).
THEOREM KicksFindTheHost == Spec => []KickFindsHost
BY RegistryInvariance, KicksAgree, PTL
=============================================================================
