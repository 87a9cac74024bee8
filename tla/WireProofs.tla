----------------------------- MODULE WireProofs -----------------------------
(***************************************************************************)
(* The properties of Wire for all strings, counts and ways to cut the      *)
(* streams: TypeOK, InStep, Faithful and ClosedForCause.                   *)
(***************************************************************************)
EXTENDS WireLemmas

-----------------------------------------------------------------------------
(* The type invariant *)

Closings == {"no", "broken", "handshake", "long", "unknown"}
SentBy(r, h) == {m \in MessageSet : m.cmd \in Sends(r, h)}

PairOK   == route \in Routes /\ \A h \in Hop : Paired(route, reader[h], h)
ReaderOK == reader \in [Hop -> DOMAIN Reads]
CountOK  == sent \in 0..MaxSent
FlagsOK  == closed \in [Hop -> Closings] /\ skew \in [Hop -> BOOLEAN] /\ over \in [Hop -> BOOLEAN]
WireOK   == wire \in [Hop -> Stream]
OwedOK   == DOMAIN owed = Hop /\ \A h \in Hop : owed[h] \in Seq(SentBy(route, h))

(* A reader waits for the greeting, or for a message, or is in the middle of one. *)
ReaderState(h) ==
  /\ rd[h] \in RdSet
  /\ rd[h].cmd \in DOMAIN Reads[reader[h]] \cup {"", "pirates!"}
  /\ rd[h].cmd = "" => rd[h] = Rest
  /\ rd[h].cmd = "pirates!" => rd[h] = Greeting /\ h = 1 /\ route = "in"
  /\ rd[h].reading => rd[h].todo # <<>>
ReadersOK == DOMAIN rd = Hop /\ \A h \in Hop : ReaderState(h)

WireTyped ==
  PairOK /\ ReaderOK /\ CountOK /\ FlagsOK /\ WireOK /\ OwedOK /\ ReadersOK

LEMMA TypedIsTypeOK == WireTyped => TypeOK
<1> SUFFICES ASSUME WireTyped PROVE TypeOK OBVIOUS
<1> USE DEF WireTyped
<1>1. route \in {"in", "out"} /\ reader \in [Hop -> DOMAIN Reads] /\ sent \in 0..MaxSent
  BY DEF PairOK, Routes, ReaderOK, CountOK
<1>2. /\ closed \in [Hop -> {"no", "broken", "handshake", "long", "unknown"}]
      /\ skew \in [Hop -> BOOLEAN] /\ over \in [Hop -> BOOLEAN]
  BY DEF FlagsOK, Closings
<1>3. ASSUME NEW h \in Hop
      PROVE  /\ \A i \in DOMAIN wire[h] : wire[h][i].w \in {1, 8} /\ wire[h][i].n \in Nat
             /\ \A i \in DOMAIN owed[h] : owed[h][i].cmd \in DOMAIN Writes[route][h]
             /\ rd[h].cmd \in DOMAIN Reads[reader[h]] \cup {"", "pirates!"}
             /\ rd[h].reading => rd[h].todo # <<>>
  <2>1. wire[h] \in Stream BY DEF WireOK
  <2>2. \A i \in DOMAIN wire[h] : wire[h][i] \in CellSet BY <2>1 DEF Stream
  <2>3. \A i \in DOMAIN wire[h] : wire[h][i].w \in {1, 8} /\ wire[h][i].n \in Nat
    BY <2>2 DEF CellSet
  <2>4. owed[h] \in Seq(SentBy(route, h)) BY DEF OwedOK
  <2>5. \A i \in DOMAIN owed[h] : owed[h][i] \in SentBy(route, h) BY <2>4
  <2>6. \A i \in DOMAIN owed[h] : owed[h][i].cmd \in DOMAIN Writes[route][h]
    BY <2>5, WritesTyped DEF SentBy, PairOK
  <2> QED BY <2>3, <2>6 DEF ReadersOK, ReaderState
<1> QED BY <1>1, <1>2, <1>3 DEF TypeOK

LEMMA RestTyped ==
  /\ Rest \in RdSet /\ Rest.cmd = "" /\ ~Rest.reading /\ Rest.todo = <<>> /\ Rest.got = <<>>
  /\ Greeting \in RdSet /\ Greeting.cmd = "pirates!" /\ ~Greeting.reading
  /\ Greeting.todo = <<>> /\ Greeting.got = <<>>
<1>1. <<>> \in Layout /\ <<>> \in Stream /\ <<>> \in Seq(GotSet) BY DEF Layout, Stream
<1>2. NoText \in TxtSet BY <1>1 DEF NoText, TxtSet
<1> QED BY <1>1, <1>2 DEF Rest, Greeting, RdSet

LEMMA InitTyped == Init => WireTyped
<1> SUFFICES ASSUME Init PROVE WireTyped OBVIOUS
<1> USE DEF Init
<1>1. route = "in" \/ route = "out" OBVIOUS
<1>2. PairOK BY <1>1 DEF PairOK, Routes, Paired, Hop
<1>3. ReaderOK BY <1>1, ReadsAre DEF ReaderOK, Hop
<1>4. CountOK BY BoundsAssumption DEF CountOK
<1>5. FlagsOK
  <2>1. closed \in [Hop -> Closings] BY DEF Closings, Hop
  <2>4. \A b \in BOOLEAN : <<b, b>> \in [Hop -> BOOLEAN]
    <3> SUFFICES ASSUME NEW S, NEW b \in S PROVE <<b, b>> \in [Hop -> S] OBVIOUS
    <3> QED BY DEF Hop
  <2>2. skew \in [Hop -> BOOLEAN] BY <2>4
  <2>3. over \in [Hop -> BOOLEAN] BY <2>4
  <2> QED BY <2>1, <2>2, <2>3 DEF FlagsOK
<1>6. WireOK
  <2>1. <<>> \in Stream BY DEF Stream
  <2> QED BY <2>1 DEF WireOK, Hop
<1>7. OwedOK BY DEF OwedOK, Hop
<1>8. ReadersOK
  <2>1. \A h \in Hop : rd[h] \in {Rest, Greeting} BY DEF Hop
  <2>2. \A h \in Hop : rd[h] = Greeting => h = 1 /\ route = "in"
    <3>1. Rest # Greeting BY RestTyped
    <3> QED BY <3>1 DEF Hop
  <2>3. DOMAIN rd = Hop BY DEF Hop
  <2>4. ASSUME NEW h \in Hop PROVE ReaderState(h)
    <3>1. CASE rd[h] = Rest BY <3>1, RestTyped DEF ReaderState
    <3>2. CASE rd[h] = Greeting BY <3>2, <2>2, RestTyped DEF ReaderState
    <3> QED BY <3>1, <3>2, <2>1
  <2> QED BY <2>3, <2>4 DEF ReadersOK
<1> QED BY <1>2, <1>3, <1>4, <1>5, <1>6, <1>7, <1>8 DEF WireTyped

-----------------------------------------------------------------------------
(* Steps of one connection *)

Others(h) == \A k \in Hop \ {h} :
  /\ wire'[k] = wire[k] /\ owed'[k] = owed[k] /\ rd'[k] = rd[k]
  /\ closed'[k] = closed[k] /\ skew'[k] = skew[k] /\ over'[k] = over[k]

LEMMA OnlyHop ==
  ASSUME WireTyped, NEW h \in Hop, UNCHANGED <<route, reader>>, CountOK', FlagsOK', WireOK',
         DOMAIN owed' = Hop, DOMAIN rd' = Hop, Others(h),
         owed'[h] \in Seq(SentBy(route, h)), ReaderState(h)'
  PROVE  WireTyped'
<1>1. PairOK' /\ ReaderOK' BY DEF WireTyped, PairOK, ReaderOK
<1>2. OwedOK'
  <2>1. \A k \in Hop : owed'[k] \in Seq(SentBy(route, k))
    <3> SUFFICES ASSUME NEW k \in Hop PROVE owed'[k] \in Seq(SentBy(route, k)) OBVIOUS
    <3>1. CASE k = h BY <3>1
    <3>2. CASE k # h BY <3>2 DEF Others, WireTyped, OwedOK
    <3> QED BY <3>1, <3>2
  <2> QED BY <2>1 DEF OwedOK, SentBy
<1>3. ReadersOK'
  <2>1. ASSUME NEW k \in Hop PROVE ReaderState(k)'
    <3>1. CASE k = h BY <3>1
    <3>2. CASE k # h
      <4>1. ReaderState(k) BY DEF WireTyped, ReadersOK
      <4>2. rd'[k] = rd[k] BY <3>2 DEF Others
      <4> QED BY <4>1, <4>2 DEF ReaderState
    <3> QED BY <3>1, <3>2
  <2> QED BY <2>1 DEF ReadersOK
<1> QED BY <1>1, <1>2, <1>3 DEF WireTyped

(* What a reader is after Keep. *)
Kept(r, todo, g) ==
  [cmd |-> r.cmd, todo |-> todo, got |-> Append(r.got, g), txt |-> NoText, reading |-> FALSE]

LEMMA RdRecord ==
  ASSUME NEW r \in RdSet
  PROVE  r = [cmd |-> r.cmd, todo |-> r.todo, got |-> r.got, txt |-> r.txt,
              reading |-> r.reading]
BY DEF RdSet

LEMMA RdOf ==
  ASSUME WireTyped, NEW h \in Hop
  PROVE  /\ rd[h] \in RdSet /\ wire[h] \in Stream /\ owed[h] \in Seq(SentBy(route, h))
         /\ route \in Routes /\ reader[h] \in DOMAIN Reads /\ Paired(route, reader[h], h)
         /\ rd[h].todo \in Layout /\ rd[h].got \in Seq(GotSet) /\ rd[h].txt \in TxtSet
         /\ rd[h].reading \in BOOLEAN /\ ReaderState(h)
<1>1. ReaderState(h) BY DEF WireTyped, ReadersOK
<1>2. rd[h] \in RdSet BY <1>1 DEF ReaderState
<1>3. wire[h] \in Stream BY DEF WireTyped, WireOK
<1>4. owed[h] \in Seq(SentBy(route, h)) BY DEF WireTyped, OwedOK
<1>5. route \in Routes /\ reader[h] \in DOMAIN Reads /\ Paired(route, reader[h], h)
  BY DEF WireTyped, PairOK, ReaderOK
<1> QED BY <1>1, <1>2, <1>3, <1>4, <1>5 DEF RdSet

LEMMA KeepIs ==
  ASSUME WireTyped, NEW h \in Hop, NEW todo, NEW g, Keep(h, todo, g)
  PROVE  /\ rd'[h] = Kept(rd[h], todo, g) /\ DOMAIN rd' = Hop
         /\ \A k \in Hop \ {h} : rd'[k] = rd[k]
<1>1. DOMAIN rd = Hop /\ rd[h] \in RdSet BY RdOf DEF WireTyped, ReadersOK
<1> DEFINE r == rd[h]
<1>2. r = [cmd |-> r.cmd, todo |-> r.todo, got |-> r.got, txt |-> r.txt, reading |-> r.reading]
  BY <1>1, RdRecord
<1>3. rd' = [rd EXCEPT ![h].todo = todo, ![h].got = Append(@, g),
                       ![h].txt = NoText, ![h].reading = FALSE]
  BY DEF Keep
<1>4. rd'[h] = [[[[r EXCEPT !.todo = todo] EXCEPT !.got = Append(@, g)] EXCEPT !.txt = NoText]
                EXCEPT !.reading = FALSE]
  BY <1>1, <1>3
<1>5. DOMAIN rd' = Hop /\ \A k \in Hop \ {h} : rd'[k] = rd[k] BY <1>1, <1>3
<1>6. rd'[h] = Kept(r, todo, g)
  <2> HIDE DEF r
  <2> QED BY <1>2, <1>4 DEF Kept
<1> QED BY <1>5, <1>6

LEMMA DropIs ==
  ASSUME WireTyped, NEW h \in Hop, NEW k \in Nat, k <= Len(wire[h]), Drop(h, k)
  PROVE  /\ WireOK' /\ wire'[h] = SubSeq(wire[h], k + 1, Len(wire[h]))
         /\ \A j \in Hop \ {h} : wire'[j] = wire[j]
<1>1. wire[h] \in Stream /\ wire \in [Hop -> Stream] BY RdOf DEF WireTyped, WireOK
<1>2. SubSeq(wire[h], k + 1, Len(wire[h])) \in Stream BY <1>1 DEF Stream
<1>3. wire' = [wire EXCEPT ![h] = SubSeq(wire[h], k + 1, Len(wire[h]))] BY DEF Drop
<1> QED BY <1>1, <1>2, <1>3 DEF WireOK

-----------------------------------------------------------------------------
(* Where the readers are *)

InMessage(h) == rd[h].cmd \notin {"", "pirates!"}

(* The cells on a connection are those of the messages that are owed, but for what
   has been read of the oldest; what has been read of it is what was written. *)
Aligned(h) ==
  ~over[h] =>
    /\ ~skew[h] /\ closed[h] # "unknown"
    /\ \A i \in 1..Len(owed[h]) : Fits(owed[h][i], Writes[route][h][owed[h][i].cmd])
    /\ ~InMessage(h) /\ closed[h] = "no" => wire[h] = Sent(Writes[route][h], owed[h])
    /\ InMessage(h) =>
         /\ owed[h] # <<>> /\ rd[h].cmd = Head(owed[h]).cmd
         /\ \A i \in DOMAIN rd[h].got : GotRight(rd[h].got[i], Head(owed[h]))
         /\ closed[h] = "no" =>
              Held(rd[h], wire[h], Head(owed[h]), Sent(Writes[route][h], Later(owed[h])))

(* Why a connection has been closed. *)
Reason(h) ==
  /\ closed[h] = "handshake" => h = 1 /\ route = "in"
  /\ closed[h] = "long" =>
       \/ over[h]
       \/ owed[h] # <<>> /\ \E i \in DOMAIN rd[h].todo : rd[h].todo[i].k = "data"

Fine(h) == Aligned(h) /\ Reason(h)

WireInvariant == WireTyped /\ \A h \in Hop : Fine(h)

LEMMA OthersFine ==
  ASSUME NEW h \in Hop, NEW k \in Hop \ {h}, UNCHANGED route, Others(h), Fine(k)
  PROVE  Fine(k)'
<1>1. /\ wire'[k] = wire[k] /\ owed'[k] = owed[k] /\ rd'[k] = rd[k]
      /\ closed'[k] = closed[k] /\ skew'[k] = skew[k] /\ over'[k] = over[k]
  BY DEF Others
<1> QED BY <1>1 DEF Fine, Aligned, Reason, InMessage

LEMMA QueueOf ==
  ASSUME NEW r \in Routes, NEW h \in Hop, NEW q \in Seq(SentBy(r, h))
  PROVE  q \in Queues(Writes[r][h]) /\ TypedTable(Writes[r][h])
<1>1. TypedTable(Writes[r][h]) /\ Sends(r, h) \subseteq DOMAIN Writes[r][h] BY WritesTyped
<1>2. SentBy(r, h) \subseteq {m \in MessageSet : m.cmd \in DOMAIN Writes[r][h]}
  BY <1>1 DEF SentBy
<1>3. q \in Queues(Writes[r][h]) BY <1>2 DEF Queues
<1> QED BY <1>1, <1>3

LEMMA HasTodo ==
  ASSUME WireTyped, NEW h \in Hop, rd[h].todo # <<>>
  PROVE  InMessage(h)
BY RdOf, RestTyped DEF ReaderState, InMessage

LEMMA LaterType ==
  ASSUME NEW S, NEW q \in Seq(S), q # <<>>
  PROVE  Later(q) \in Seq(S) /\ Head(q) \in S /\ Head(q) = q[1]
BY DEF Later

LEMMA InTheMiddle ==
  ASSUME WireTyped, NEW h \in Hop, Aligned(h), ~over[h], InMessage(h), closed[h] = "no"
  PROVE  /\ owed[h] # <<>> /\ Head(owed[h]) \in MessageSet
         /\ Sent(Writes[route][h], Later(owed[h])) \in Stream
         /\ Held(rd[h], wire[h], Head(owed[h]), Sent(Writes[route][h], Later(owed[h])))
         /\ \A i \in DOMAIN rd[h].got : GotRight(rd[h].got[i], Head(owed[h]))
<1>1. owed[h] \in Seq(SentBy(route, h)) /\ route \in Routes BY RdOf
<1>2. /\ owed[h] # <<>>
      /\ Held(rd[h], wire[h], Head(owed[h]), Sent(Writes[route][h], Later(owed[h])))
      /\ \A i \in DOMAIN rd[h].got : GotRight(rd[h].got[i], Head(owed[h]))
  BY DEF Aligned
<1>3. Head(owed[h]) \in MessageSet BY <1>1, <1>2, LaterType DEF SentBy
<1>4. Later(owed[h]) \in Seq(SentBy(route, h)) BY <1>1, <1>2, LaterType
<1>5. Sent(Writes[route][h], Later(owed[h])) \in Stream BY <1>1, <1>4, QueueOf, SentType
<1> QED BY <1>2, <1>3, <1>5

(* A reader that goes on with its message. *)
LEMMA GoesOn ==
  ASSUME NEW h \in Hop, Aligned(h), InMessage(h), rd'[h].cmd = rd[h].cmd,
         UNCHANGED <<route, owed, over>>, ~over[h] => ~skew'[h] /\ closed'[h] # "unknown",
         ~over[h] => \A i \in DOMAIN rd'[h].got : GotRight(rd'[h].got[i], Head(owed[h])),
         ~over[h] /\ closed'[h] = "no" =>
           Held(rd'[h], wire'[h], Head(owed[h]), Sent(Writes[route][h], Later(owed[h])))
  PROVE  Aligned(h)'
BY DEF Aligned, InMessage

LEMMA GotMore ==
  ASSUME NEW got \in Seq(GotSet), NEW g \in GotSet, NEW m, GotRight(g, m),
         \A i \in DOMAIN got : GotRight(got[i], m)
  PROVE  \A i \in DOMAIN Append(got, g) : GotRight(Append(got, g)[i], m)
<1> SUFFICES ASSUME NEW i \in DOMAIN Append(got, g) PROVE GotRight(Append(got, g)[i], m)
  OBVIOUS
<1>1. i \in 1..Len(got) + 1 OBVIOUS
<1>2. CASE i \in 1..Len(got) BY <1>2
<1>3. CASE i = Len(got) + 1 BY <1>3
<1> QED BY <1>1, <1>2, <1>3

LEMMA KeptTyped ==
  ASSUME WireTyped, NEW h \in Hop, InMessage(h), NEW todo \in Layout, NEW g \in GotSet
  PROVE  /\ Kept(rd[h], todo, g) \in RdSet
         /\ Kept(rd[h], todo, g).cmd = rd[h].cmd /\ Kept(rd[h], todo, g).todo = todo
         /\ Kept(rd[h], todo, g).got = Append(rd[h].got, g)
         /\ Kept(rd[h], todo, g).reading = FALSE
<1>1. NoText \in TxtSet BY DEF NoText, TxtSet, Stream
<1>2. rd[h] \in RdSet /\ rd[h].got \in Seq(GotSet) BY RdOf
<1>3. Append(rd[h].got, g) \in Seq(GotSet)
  <2> HIDE DEF GotSet
  <2> QED BY <1>2
<1>4. rd[h].cmd \in Commands \cup {"", "pirates!"} BY <1>2 DEF RdSet
<1> QED BY <1>1, <1>3, <1>4 DEF Kept, RdSet

-----------------------------------------------------------------------------
(* The steps in the middle of a message *)

(* A reader keeps a field and goes on. *)
LEMMA KeepFine ==
  ASSUME WireTyped, NEW h \in Hop, Fine(h), InMessage(h), closed[h] = "no", ~skew[h],
         NEW todo \in Layout, NEW g \in GotSet, Keep(h, todo, g),
         NEW k \in Nat, k <= Len(wire[h]), Drop(h, k),
         UNCHANGED <<closed, skew>>, UNCHANGED wireOnly,
         ~over[h] =>
           /\ GotRight(g, Head(owed[h]))
           /\ Held(Kept(rd[h], todo, g), SubSeq(wire[h], k + 1, Len(wire[h])),
                   Head(owed[h]), Sent(Writes[route][h], Later(owed[h])))
  PROVE  WireTyped' /\ Fine(h)' /\ Others(h)
<1>1. UNCHANGED <<route, reader, owed, over, sent, closed, skew>> BY DEF wireOnly
<1>2. /\ rd'[h] = Kept(rd[h], todo, g) /\ DOMAIN rd' = Hop
      /\ \A j \in Hop \ {h} : rd'[j] = rd[j]
  BY KeepIs
<1>3. /\ WireOK' /\ wire'[h] = SubSeq(wire[h], k + 1, Len(wire[h]))
      /\ \A j \in Hop \ {h} : wire'[j] = wire[j]
  BY DropIs
<1>4. Others(h) BY <1>1, <1>2, <1>3 DEF Others
<1>5. /\ rd'[h] \in RdSet /\ rd'[h].cmd = rd[h].cmd /\ rd'[h].todo = todo
      /\ rd'[h].got = Append(rd[h].got, g) /\ rd'[h].reading = FALSE
  <2> DEFINE r == Kept(rd[h], todo, g)
  <2>1. r \in RdSet /\ r.cmd = rd[h].cmd /\ r.todo = todo
        /\ r.got = Append(rd[h].got, g) /\ r.reading = FALSE
    BY KeptTyped
  <2>2. rd'[h] = r BY <1>2
  <2> HIDE DEF r
  <2> QED BY <2>1, <2>2, Zenon
<1>6. ReaderState(h)'
  <2>1. ReaderState(h) /\ rd[h].cmd \notin {"", "pirates!"} BY RdOf DEF InMessage
  <2>2. rd'[h].cmd \in DOMAIN Reads[reader'[h]] BY <2>1, <1>1, <1>5 DEF ReaderState
  <2> QED BY <2>1, <2>2, <1>5 DEF ReaderState
<1>7. WireTyped'
  <2>1. CountOK' /\ FlagsOK' /\ DOMAIN owed' = Hop
    BY <1>1 DEF WireTyped, CountOK, FlagsOK, OwedOK
  <2>2. owed'[h] \in Seq(SentBy(route, h)) BY <1>1, RdOf
  <2> QED BY <2>1, <2>2, <1>1, <1>2, <1>3, <1>4, <1>6, OnlyHop
<1>8. Aligned(h)'
  <2>1. Aligned(h) BY DEF Fine
  <2>2. ASSUME ~over[h]
        PROVE  \A i \in DOMAIN rd'[h].got : GotRight(rd'[h].got[i], Head(owed[h]))
    <3>1. \A i \in DOMAIN rd[h].got : GotRight(rd[h].got[i], Head(owed[h]))
      BY <2>1, <2>2, InTheMiddle
    <3>2. rd[h].got \in Seq(GotSet) BY RdOf
    <3>3. GotRight(g, Head(owed[h])) BY <2>2
    <3>4. \A i \in DOMAIN Append(rd[h].got, g) : GotRight(Append(rd[h].got, g)[i], Head(owed[h]))
      BY <3>1, <3>2, <3>3, GotMore
    <3> QED BY <3>4, <1>5
  <2>3. ASSUME ~over[h]
        PROVE  Held(rd'[h], wire'[h], Head(owed[h]), Sent(Writes[route][h], Later(owed[h])))
    BY <2>3, <1>2, <1>3
  <2>4. ~over[h] => ~skew'[h] /\ closed'[h] # "unknown" BY <1>1
  <2> QED BY <2>1, <2>2, <2>3, <2>4, <1>1, <1>5, GoesOn
<1>9. Reason(h)' BY <1>1 DEF Reason
<1> QED BY <1>4, <1>7, <1>8, <1>9 DEF Fine

LEMMA HeadType ==
  ASSUME WireTyped, NEW h \in Hop, rd[h].todo # <<>>
  PROVE  /\ Head(rd[h].todo) \in AnyField /\ Head(rd[h].todo).f \in FieldNames
         /\ Tail(rd[h].todo) \in Layout
         /\ Head(rd[h].todo) = rd[h].todo[1] /\ 1 \in DOMAIN rd[h].todo
<1>1. rd[h].todo \in Layout BY RdOf
<1>2. Head(rd[h].todo) \in AnyField /\ Tail(rd[h].todo) \in Layout BY <1>1 DEF Layout
<1>3. Head(rd[h].todo).f \in FieldNames
  <2> HIDE DEF FieldNames
  <2> QED BY <1>2 DEF AnyField, Simple, Several, Holding
<1>4. Head(rd[h].todo) = rd[h].todo[1] /\ 1 \in DOMAIN rd[h].todo BY <1>1 DEF Layout
<1> QED BY <1>2, <1>3, <1>4

LEMMA CellHead ==
  ASSUME WireTyped, NEW h \in Hop, wire[h] # <<>>
  PROVE  Head(wire[h]) \in CellSet /\ 1 <= Len(wire[h])
BY RdOf DEF Stream

LEMMA GotTyped ==
  ASSUME NEW f \in FieldNames, NEW v \in Values, NEW n \in Nat
  PROVE  Got(f, v, <<>>, n, FALSE) \in GotSet
BY DEF Got, GotSet, Text

LEMMA ReadFixedFine ==
  ASSUME WireTyped, NEW h \in Hop, Fine(h), ReadFixed(h)
  PROVE  WireTyped' /\ Fine(h)' /\ Others(h)
<1> DEFINE g == Got(Head(rd[h].todo).f, Head(wire[h]).v, <<>>, 0, FALSE)
           todo == Tail(rd[h].todo)
<1>1. /\ closed[h] = "no" /\ ~skew[h] /\ ~rd[h].reading /\ rd[h].todo # <<>> /\ wire[h] # <<>>
      /\ Head(rd[h].todo).k \in {"u8"} \cup Wide
      /\ Keep(h, todo, g) /\ Drop(h, 1)
      /\ UNCHANGED <<closed, skew>> /\ UNCHANGED wireOnly
  BY DEF ReadFixed, Whole, Next1, Open
<1>2. Head(rd[h].todo).f \in FieldNames /\ todo \in Layout BY <1>1, HeadType
<1>3. Head(wire[h]) \in CellSet /\ 1 <= Len(wire[h]) BY <1>1, CellHead
<1>4. g \in GotSet
  <2>1. Head(wire[h]).v \in Values BY <1>3 DEF CellSet
  <2> QED BY <2>1, <1>2, GotTyped
<1>5. InMessage(h) BY <1>1, HasTodo
<1> HIDE DEF g, todo
<1>6. ASSUME ~over[h]
      PROVE  /\ GotRight(g, Head(owed[h]))
             /\ Held(Kept(rd[h], todo, g), SubSeq(wire[h], 1 + 1, Len(wire[h])),
                     Head(owed[h]), Sent(Writes[route][h], Later(owed[h])))
  <2> DEFINE m == Head(owed[h])
             rest == Sent(Writes[route][h], Later(owed[h]))
  <2>1. m \in MessageSet /\ rest \in Stream /\ Held(rd[h], wire[h], m, rest)
    BY <1>1, <1>5, <1>6, InTheMiddle DEF Fine
  <2> HIDE DEF m, rest
  <2>2. rd[h] \in RdSet BY RdOf
  <2>3. Kept(rd[h], todo, g).todo = todo /\ Kept(rd[h], todo, g).reading = FALSE
    BY DEF Kept
  <2>4. Held(Kept(rd[h], todo, g), SubSeq(wire[h], 2, Len(wire[h])), m, rest)
    BY <2>1, <2>2, <2>3, <1>1, HeldFixed DEF todo
  <2>5. Head(rd[h].todo).f \in {Head(wire[h]).v, Ignored} BY <2>1, <2>2, <1>1, HeldWidth
  <2>6. GotRight(g, m) BY <2>5 DEF g, GotRight, Got
  <2> QED BY <2>4, <2>6 DEF m, rest
<1> QED BY <1>1, <1>2, <1>3, <1>4, <1>5, <1>6, KeepFine

LEMMA ReadCountFine ==
  ASSUME WireTyped, NEW h \in Hop, Fine(h), ReadCount(h)
  PROVE  WireTyped' /\ Fine(h)' /\ Others(h)
<1> DEFINE f == Head(rd[h].todo)
           c == Head(wire[h])
           g == Got(f.f, c.v, <<>>, c.n, FALSE)
           todo == Times(c.n, f.of) \o Tail(rd[h].todo)
<1>1. /\ closed[h] = "no" /\ ~skew[h] /\ ~rd[h].reading /\ rd[h].todo # <<>> /\ wire[h] # <<>>
      /\ f.k = "list"
      /\ Keep(h, todo, g) /\ Drop(h, 1)
      /\ UNCHANGED <<closed, skew>> /\ UNCHANGED wireOnly
  BY DEF ReadCount, Whole, Next1, Open
<1>2. f \in AnyField /\ f.f \in FieldNames /\ Tail(rd[h].todo) \in Layout BY <1>1, HeadType
<1>3. c \in CellSet /\ 1 <= Len(wire[h]) BY <1>1, CellHead
<1>4. c.v \in Values /\ c.n \in Nat BY <1>3 DEF CellSet
<1>5. g \in GotSet BY <1>2, <1>4, GotTyped
<1>6. todo \in Layout
  <2>1. f.of \in Flat BY <1>2, BuildingIsFlat
  <2>2. Times(c.n, f.of) \in Flat BY <2>1, <1>4, TimesType DEF Flat
  <2>3. Times(c.n, f.of) \in Layout BY <2>2, FlatIsLayout
  <2> HIDE DEF f, c
  <2> QED BY <2>3, <1>2, LayoutConcat
<1>7. InMessage(h) BY <1>1, HasTodo
<1> HIDE DEF g, todo
<1>8. ASSUME ~over[h]
      PROVE  /\ GotRight(g, Head(owed[h]))
             /\ Held(Kept(rd[h], todo, g), SubSeq(wire[h], 1 + 1, Len(wire[h])),
                     Head(owed[h]), Sent(Writes[route][h], Later(owed[h])))
  <2> DEFINE m == Head(owed[h])
             rest == Sent(Writes[route][h], Later(owed[h]))
  <2>1. m \in MessageSet /\ rest \in Stream /\ Held(rd[h], wire[h], m, rest)
    BY <1>1, <1>7, <1>8, InTheMiddle DEF Fine
  <2> HIDE DEF m, rest
  <2>2. rd[h] \in RdSet BY RdOf
  <2>3. Kept(rd[h], todo, g).todo = todo /\ Kept(rd[h], todo, g).reading = FALSE
    BY DEF Kept
  <2>4. /\ Held(Kept(rd[h], todo, g), SubSeq(wire[h], 2, Len(wire[h])), m, rest)
        /\ c.n = m.c
    <3>1. Head(rd[h].todo).k = "list" BY <1>1
    <3>2. Kept(rd[h], todo, g).todo = Times(Head(wire[h]).n, Head(rd[h].todo).of) \o Tail(rd[h].todo)
      BY <2>3 DEF todo
    <3> HIDE DEF f, c
    <3>3. ~rd[h].reading /\ rd[h].todo # <<>> /\ Kept(rd[h], todo, g).reading = FALSE
      BY <1>1, <2>3
    <3>4. /\ Held(Kept(rd[h], todo, g), SubSeq(wire[h], 2, Len(wire[h])), m, rest)
          /\ Head(wire[h]).n = m.c
      BY <2>1, <2>2, <3>1, <3>2, <3>3, HeldCount
    <3> QED BY <3>4 DEF c
  <2>5. f.f \in {c.v, Ignored} BY <2>1, <2>2, <1>1, HeldWidth
  <2>6. GotRight(g, m) BY <2>4, <2>5 DEF g, GotRight, Got
  <2> QED BY <2>4, <2>6 DEF m, rest
<1> HIDE DEF f, c
<1> QED BY <1>1, <1>3, <1>5, <1>6, <1>7, <1>8, KeepFine

(* A reader that has the first k cells of a string or of data, and finishes. *)
LEMMA FinishFine ==
  ASSUME WireTyped, NEW h \in Hop, Fine(h), closed[h] = "no", ~skew[h], rd[h].reading,
         NEW k \in Nat, k <= Len(wire[h]), Drop(h, k),
         NEW cells \in Stream, NEW cut \in BOOLEAN, Finish(h, cells, cut),
         UNCHANGED <<closed, skew>>, UNCHANGED wireOnly,
         Bytes(rd[h].txt.cells) + Bytes(SubSeq(wire[h], 1, k)) = rd[h].txt.len,
         \A m \in MessageSet :
           Partly(rd[h], m, rd[h].txt.cells \o SubSeq(wire[h], 1, k), <<>>)
             => GotRight(Finished(rd[h], cells, cut), m)
  PROVE  WireTyped' /\ Fine(h)' /\ Others(h)
<1> DEFINE g == Finished(rd[h], cells, cut)
           todo == Tail(rd[h].todo)
<1>1. rd[h].todo # <<>> /\ rd[h] \in RdSet BY RdOf DEF ReaderState
<1>2. InMessage(h) BY <1>1, HasTodo
<1>3. g \in GotSet BY <1>1, FinishedType
<1>4. todo \in Layout BY <1>1, HeadType
<1>5. Keep(h, todo, g)
  <2>1. Keep(h, Tail(rd[h].todo),
             IF Head(rd[h].todo).k = "str"
               THEN Got(Head(rd[h].todo).f, Head(rd[h].todo).f, TextOf(cells, rd[h].txt.len), 0, cut)
               ELSE Got(Head(rd[h].todo).f, Head(rd[h].todo).f, <<>>, Found(cells, rd[h].txt.len), cut))
    BY DEF Finish
  <2> QED BY <2>1 DEF Finished
<1> HIDE DEF g, todo
<1>6. ASSUME ~over[h]
      PROVE  /\ GotRight(g, Head(owed[h]))
             /\ Held(Kept(rd[h], todo, g), SubSeq(wire[h], k + 1, Len(wire[h])),
                     Head(owed[h]), Sent(Writes[route][h], Later(owed[h])))
  <2> DEFINE m == Head(owed[h])
             rest == Sent(Writes[route][h], Later(owed[h]))
             u == Bytes(rd[h].txt.cells) + Bytes(SubSeq(wire[h], 1, k))
  <2>1. m \in MessageSet /\ rest \in Stream /\ Held(rd[h], wire[h], m, rest)
    BY <1>2, <1>6, InTheMiddle DEF Fine
  <2> HIDE DEF m, rest
  <2>2. Kept(rd[h], todo, g).todo = Tail(rd[h].todo) /\ Kept(rd[h], todo, g).reading = FALSE
    BY DEF Kept, todo
  <2>3. u = rd[h].txt.len /\ u <= rd[h].txt.len
    <3>1. rd[h].txt.len \in Nat BY <1>1 DEF RdSet, TxtSet
    <3> QED BY <3>1
  <2>4. /\ \E y \in Stream :
             /\ Partly(rd[h], m, rd[h].txt.cells \o SubSeq(wire[h], 1, k), y)
             /\ u = rd[h].txt.len => y = <<>>
        /\ u = rd[h].txt.len =>
              \A t : t.todo = Tail(rd[h].todo) /\ t.reading = FALSE
                       => Held(t, SubSeq(wire[h], k + 1, Len(wire[h])), m, rest)
    BY <1>1, <2>1, <2>3, HeldRead
  <2>5. GotRight(g, m)
    <3>1. Partly(rd[h], m, rd[h].txt.cells \o SubSeq(wire[h], 1, k), <<>>) BY <2>3, <2>4
    <3> QED BY <3>1, <2>1 DEF g
  <2>6. Held(Kept(rd[h], todo, g), SubSeq(wire[h], k + 1, Len(wire[h])), m, rest)
    BY <2>2, <2>3, <2>4
  <2> QED BY <2>5, <2>6 DEF m, rest
<1> QED BY <1>2, <1>3, <1>4, <1>5, <1>6, KeepFine

LEMMA PartlySplit ==
  ASSUME NEW r, NEW m, NEW a \in Stream, NEW b \in Stream, Partly(r, m, a \o b, <<>>)
  PROVE  Partly(r, m, a, b)
<1>1. (a \o b) \o <<>> = a \o b BY DEF Stream
<1> QED BY <1>1 DEF Partly

LEMMA ReadRestFine ==
  ASSUME WireTyped, NEW h \in Hop, Fine(h), ReadRest(h)
  PROVE  WireTyped' /\ Fine(h)' /\ Others(h)
<1> DEFINE cells == rd[h].txt.cells
<1>1. /\ closed[h] = "no" /\ ~skew[h] /\ rd[h].reading /\ cells # <<>>
      /\ UNCHANGED <<closed, skew>> /\ UNCHANGED wireOnly
  BY DEF ReadRest, Open
<1>2. PICK k \in 1..Len(wire[h]) :
        /\ Bytes(cells) + Bytes(SubSeq(wire[h], 1, k)) = rd[h].txt.len
        /\ Finish(h, cells, TRUE)
        /\ Drop(h, k)
  BY DEF ReadRest
<1>3. rd[h] \in RdSet /\ wire[h] \in Stream BY RdOf
<1>4. k \in Nat /\ k <= Len(wire[h]) /\ Len(wire[h]) \in Nat BY <1>2, <1>3 DEF Stream
<1>5. cells \in Stream BY <1>3 DEF RdSet, TxtSet
<1> DEFINE a == SubSeq(wire[h], 1, k)
<1>6. a \in Stream /\ a # <<>>
  <2>1. a \in Stream /\ Len(a) = k BY <1>2, <1>3 DEF Stream
  <2> HIDE DEF a
  <2>2. a = <<>> => Len(a) = 0 BY Zenon, EmptySeq
  <2> QED BY <2>1, <2>2, <1>2
<1> HIDE DEF cells, a
<1>7. ASSUME NEW m \in MessageSet, Partly(rd[h], m, cells \o a, <<>>)
      PROVE  GotRight(Finished(rd[h], cells, TRUE), m)
  <2>1. Partly(rd[h], m, cells, a) BY <1>5, <1>6, <1>7, PartlySplit
  <2> QED BY <2>1, <1>1, <1>3, <1>5, <1>6, FinishedRight
<1>8. /\ closed[h] = "no" /\ ~skew[h] /\ rd[h].reading /\ Drop(h, k)
      /\ Finish(h, cells, TRUE) /\ UNCHANGED <<closed, skew>> /\ UNCHANGED wireOnly
      /\ Bytes(rd[h].txt.cells) + Bytes(SubSeq(wire[h], 1, k)) = rd[h].txt.len
  BY <1>1, <1>2 DEF cells
<1>9. \A m \in MessageSet :
        Partly(rd[h], m, rd[h].txt.cells \o SubSeq(wire[h], 1, k), <<>>)
          => GotRight(Finished(rd[h], cells, TRUE), m)
  BY <1>7 DEF cells, a
<1> QED BY <1>4, <1>5, <1>8, <1>9, FinishFine

(* The first Read, that returned less than all. *)
LEMMA ReadSomeFine ==
  ASSUME WireTyped, NEW h \in Hop, Fine(h), closed[h] = "no", ~skew[h], rd[h].reading,
         rd[h].txt.cells = <<>>, NEW k \in Nat, k <= Len(wire[h]), Drop(h, k),
         Bytes(SubSeq(wire[h], 1, k)) <= rd[h].txt.len,
         Bytes(SubSeq(wire[h], 1, k)) # rd[h].txt.len,
         rd' = [rd EXCEPT ![h].txt.cells = SubSeq(wire[h], 1, k)],
         UNCHANGED <<closed, skew>>, UNCHANGED wireOnly
  PROVE  WireTyped' /\ Fine(h)' /\ Others(h)
<1> DEFINE a == SubSeq(wire[h], 1, k)
           r == rd[h]
<1>1. UNCHANGED <<route, reader, owed, over, sent, closed, skew>> BY DEF wireOnly
<1>2. r \in RdSet /\ DOMAIN rd = Hop /\ r.todo # <<>>
  BY RdOf DEF WireTyped, ReadersOK, ReaderState
<1>3. InMessage(h) BY <1>2, HasTodo
<1>4. a \in Stream
  <2>1. wire[h] \in Stream BY RdOf
  <2> QED BY <2>1 DEF Stream
<1> HIDE DEF a
<1>5. /\ rd'[h] = [r EXCEPT !.txt.cells = a] /\ DOMAIN rd' = Hop
      /\ \A j \in Hop \ {h} : rd'[j] = rd[j]
  BY <1>2 DEF a
<1> HIDE DEF r
<1>6. /\ rd'[h] \in RdSet /\ rd'[h].cmd = r.cmd /\ rd'[h].todo = r.todo
      /\ rd'[h].got = r.got /\ rd'[h].reading = r.reading
      /\ rd'[h].txt.len = r.txt.len /\ rd'[h].txt.cells = a
  <2>1. r.txt \in TxtSet /\ [r.txt EXCEPT !.cells = a] \in TxtSet BY <1>2, <1>4 DEF RdSet, TxtSet
  <2> HIDE DEF TxtSet
  <2>2. rd'[h] = [r EXCEPT !.txt = [r.txt EXCEPT !.cells = a]] BY <1>5
  <2>3. rd'[h].txt = [r.txt EXCEPT !.cells = a] BY <2>2, <1>2 DEF RdSet
  <2>4. rd'[h].txt.len = r.txt.len /\ rd'[h].txt.cells = a BY <2>1, <2>3 DEF TxtSet
  <2> QED BY <2>1, <2>2, <2>4, <1>2 DEF RdSet
<1>7. /\ WireOK' /\ wire'[h] = SubSeq(wire[h], k + 1, Len(wire[h]))
      /\ \A j \in Hop \ {h} : wire'[j] = wire[j]
  BY DropIs
<1>8. Others(h) BY <1>1, <1>5, <1>7 DEF Others
<1>9. ReaderState(h)'
  <2>1. ReaderState(h) /\ rd[h].cmd \notin {"", "pirates!"} BY <1>3, RdOf DEF InMessage
  <2>2. rd'[h].cmd \in DOMAIN Reads[reader'[h]] BY <2>1, <1>1, <1>6 DEF ReaderState, r
  <2> QED BY <2>1, <2>2, <1>2, <1>6 DEF ReaderState, r
<1>10. WireTyped'
  <2>1. CountOK' /\ FlagsOK' /\ DOMAIN owed' = Hop
    BY <1>1 DEF WireTyped, CountOK, FlagsOK, OwedOK
  <2>2. owed'[h] \in Seq(SentBy(route, h)) BY <1>1, RdOf
  <2> QED BY <2>1, <2>2, <1>1, <1>5, <1>7, <1>8, <1>9, OnlyHop
<1>11. Aligned(h)'
  <2>1. Aligned(h) BY DEF Fine
  <2>2. ASSUME ~over[h]
        PROVE  /\ \A i \in DOMAIN rd'[h].got : GotRight(rd'[h].got[i], Head(owed[h]))
               /\ Held(rd'[h], wire'[h], Head(owed[h]), Sent(Writes[route][h], Later(owed[h])))
    <3> DEFINE m == Head(owed[h])
               rest == Sent(Writes[route][h], Later(owed[h]))
    <3>1. /\ m \in MessageSet /\ rest \in Stream /\ Held(r, wire[h], m, rest)
          /\ \A i \in DOMAIN r.got : GotRight(r.got[i], m)
      BY <2>1, <2>2, <1>3, InTheMiddle DEF r
    <3> HIDE DEF m, rest
    <3>2. /\ Bytes(r.txt.cells) = 0 /\ r.txt.cells \o a = a
          /\ r.reading /\ r.txt.len \in Nat /\ Bytes(a) \in Nat
          /\ Bytes(a) <= r.txt.len /\ Bytes(a) # r.txt.len
      <4>1. r.txt.cells = <<>> /\ r.reading BY DEF r
      <4>2. <<>> \o a = a BY <1>4 DEF Stream
      <4>3. Bytes(a) <= r.txt.len /\ Bytes(a) # r.txt.len BY DEF r, a
      <4>4. r.txt.len \in Nat BY <1>2 DEF RdSet, TxtSet
      <4>5. Bytes(a) \in Nat BY <1>4, BytesType
      <4>6. Bytes(r.txt.cells) = 0 BY <4>1, BytesEmpty, Zenon
      <4>7. r.txt.cells \o a = a BY <4>1, <4>2, Zenon
      <4> QED BY <4>1, <4>3, <4>4, <4>5, <4>6, <4>7
    <3>3. Bytes(r.txt.cells) + Bytes(SubSeq(wire[h], 1, k)) <= r.txt.len BY <3>2 DEF a
    <3>4. Bytes(r.txt.cells) + Bytes(SubSeq(wire[h], 1, k)) # r.txt.len BY <3>2 DEF a
    <3>5. \A t : (/\ t.todo = r.todo /\ t.reading = TRUE /\ t.txt.len = r.txt.len
                  /\ t.txt.cells = r.txt.cells \o SubSeq(wire[h], 1, k))
                   => Held(t, SubSeq(wire[h], k + 1, Len(wire[h])), m, rest)
      BY <1>2, <3>1, <3>2, <3>3, <3>4, HeldRead
    <3>6. rd'[h].txt.cells = r.txt.cells \o SubSeq(wire[h], 1, k)
      BY <1>6, <3>2, Zenon DEF a
    <3>7. rd'[h].reading = TRUE BY <1>6, <3>2
    <3>8. Held(rd'[h], SubSeq(wire[h], k + 1, Len(wire[h])), m, rest)
      BY <3>5, <3>6, <3>7, <1>6
    <3> QED BY <3>1, <3>8, <1>6, <1>7 DEF m, rest
  <2>3. ~over[h] => ~skew'[h] /\ closed'[h] # "unknown" BY <1>1
  <2>4. rd'[h].cmd = rd[h].cmd BY <1>6 DEF r
  <2> QED BY <2>1, <2>2, <2>3, <2>4, <1>1, <1>3, GoesOn
<1>12. Reason(h)' BY <1>1 DEF Reason
<1> QED BY <1>8, <1>10, <1>11, <1>12 DEF Fine

LEMMA ReadFirstFine ==
  ASSUME WireTyped, NEW h \in Hop, Fine(h), ReadFirst(h)
  PROVE  WireTyped' /\ Fine(h)' /\ Others(h)
<1>1. /\ closed[h] = "no" /\ ~skew[h] /\ rd[h].reading /\ rd[h].txt.cells = <<>>
      /\ UNCHANGED <<closed, skew>> /\ UNCHANGED wireOnly
  BY DEF ReadFirst, Open
<1>2. PICK k \in 0..Len(wire[h]) :
        /\ Bytes(SubSeq(wire[h], 1, k)) <= rd[h].txt.len
        /\ IF Bytes(SubSeq(wire[h], 1, k)) = rd[h].txt.len
             THEN Finish(h, SubSeq(wire[h], 1, k), FALSE)
             ELSE rd' = [rd EXCEPT ![h].txt.cells = SubSeq(wire[h], 1, k)]
        /\ Drop(h, k)
  BY DEF ReadFirst
<1>3. rd[h] \in RdSet /\ wire[h] \in Stream BY RdOf
<1>4. k \in Nat /\ k <= Len(wire[h]) BY <1>2, <1>3 DEF Stream
<1> DEFINE a == SubSeq(wire[h], 1, k)
<1>5. a \in Stream BY <1>2, <1>3 DEF Stream
<1>6. CASE Bytes(a) = rd[h].txt.len
  <2>1. Finish(h, a, FALSE) /\ Drop(h, k) BY <1>2, <1>6
  <2> HIDE DEF a
  <2>2. rd[h].txt.cells \o a = a
    <3>1. <<>> \o a = a BY <1>5 DEF Stream
    <3> QED BY <3>1, <1>1, Zenon
  <2>3. Bytes(rd[h].txt.cells) + Bytes(a) = rd[h].txt.len
    <3>1. Bytes(rd[h].txt.cells) = 0 BY <1>1, BytesEmpty, Zenon
    <3>2. Bytes(a) \in Nat BY <1>5, BytesType
    <3> QED BY <3>1, <3>2, <1>6
  <2>4. ASSUME NEW m \in MessageSet, Partly(rd[h], m, rd[h].txt.cells \o a, <<>>)
        PROVE  GotRight(Finished(rd[h], a, FALSE), m)
    <3>1. Partly(rd[h], m, a, <<>>) BY <2>2, <2>4, Zenon
    <3>2. <<>> \in Stream BY DEF Stream
    <3> QED BY <3>1, <3>2, <1>3, <1>5, FinishedRight
  <2>5. /\ Bytes(rd[h].txt.cells) + Bytes(SubSeq(wire[h], 1, k)) = rd[h].txt.len
        /\ \A m \in MessageSet :
             Partly(rd[h], m, rd[h].txt.cells \o SubSeq(wire[h], 1, k), <<>>)
               => GotRight(Finished(rd[h], a, FALSE), m)
    BY <2>3, <2>4 DEF a
  <2> QED BY <2>1, <2>5, <1>1, <1>4, <1>5, FinishFine
<1>7. CASE Bytes(a) # rd[h].txt.len
  <2>1. /\ Bytes(SubSeq(wire[h], 1, k)) <= rd[h].txt.len
        /\ Bytes(SubSeq(wire[h], 1, k)) # rd[h].txt.len
        /\ rd' = [rd EXCEPT ![h].txt.cells = SubSeq(wire[h], 1, k)] /\ Drop(h, k)
    BY <1>2, <1>7
  <2> QED BY <2>1, <1>1, <1>4, ReadSomeFine
<1> QED BY <1>6, <1>7

(* The reader of a string or of data waits for its bytes. *)
LEMMA AwaitFine ==
  ASSUME WireTyped, NEW h \in Hop, Fine(h), closed[h] = "no", ~skew[h], ~rd[h].reading,
         rd[h].todo # <<>>, wire[h] # <<>>, Head(rd[h].todo).k \in {"str", "data"},
         rd' = [rd EXCEPT ![h].txt = [len |-> Head(wire[h]).n, cells |-> <<>>],
                          ![h].reading = TRUE],
         Drop(h, 1), UNCHANGED <<closed, skew>>, UNCHANGED wireOnly
  PROVE  WireTyped' /\ Fine(h)' /\ Others(h)
<1> DEFINE r == rd[h]
           n == Head(wire[h]).n
           txt == [len |-> n, cells |-> <<>>]
<1>1. UNCHANGED <<route, reader, owed, over, sent, closed, skew>> BY DEF wireOnly
<1>2. r \in RdSet /\ DOMAIN rd = Hop /\ r.todo # <<>> BY RdOf DEF WireTyped, ReadersOK
<1>3. InMessage(h) BY HasTodo
<1>4. n \in Nat /\ 1 <= Len(wire[h])
  <2>1. Head(wire[h]) \in CellSet /\ 1 <= Len(wire[h]) BY CellHead
  <2> QED BY <2>1 DEF CellSet
<1> HIDE DEF n
<1>5. txt \in TxtSet BY <1>4 DEF TxtSet, Stream
<1>6. /\ rd'[h] = [[r EXCEPT !.txt = txt] EXCEPT !.reading = TRUE] /\ DOMAIN rd' = Hop
      /\ \A j \in Hop \ {h} : rd'[j] = rd[j]
  BY <1>2 DEF n
<1> HIDE DEF r, txt
<1>7. /\ rd'[h] \in RdSet /\ rd'[h].cmd = r.cmd /\ rd'[h].todo = r.todo
      /\ rd'[h].got = r.got /\ rd'[h].reading = TRUE /\ rd'[h].txt = txt
  BY <1>2, <1>5, <1>6 DEF RdSet
<1>8. /\ WireOK' /\ wire'[h] = SubSeq(wire[h], 2, Len(wire[h]))
      /\ \A j \in Hop \ {h} : wire'[j] = wire[j]
  <2>1. 1 \in Nat /\ 1 + 1 = 2 OBVIOUS
  <2>2. /\ WireOK' /\ wire'[h] = SubSeq(wire[h], 1 + 1, Len(wire[h]))
        /\ \A j \in Hop \ {h} : wire'[j] = wire[j]
    BY <1>4, <2>1, DropIs
  <2> QED BY <2>1, <2>2
<1>9. Others(h) BY <1>1, <1>6, <1>8 DEF Others
<1>10. ReaderState(h)'
  <2>1. ReaderState(h) /\ rd[h].cmd \notin {"", "pirates!"} BY <1>3, RdOf DEF InMessage
  <2>2. rd'[h].cmd \in DOMAIN Reads[reader'[h]] BY <2>1, <1>1, <1>7 DEF ReaderState, r
  <2> QED BY <2>1, <2>2, <1>2, <1>7 DEF ReaderState, r
<1>11. WireTyped'
  <2>1. CountOK' /\ FlagsOK' /\ DOMAIN owed' = Hop
    BY <1>1 DEF WireTyped, CountOK, FlagsOK, OwedOK
  <2>2. owed'[h] \in Seq(SentBy(route, h)) BY <1>1, RdOf
  <2> QED BY <2>1, <2>2, <1>1, <1>6, <1>8, <1>9, <1>10, OnlyHop
<1>12. Aligned(h)'
  <2>1. Aligned(h) BY DEF Fine
  <2>2. ASSUME ~over[h]
        PROVE  /\ \A i \in DOMAIN rd'[h].got : GotRight(rd'[h].got[i], Head(owed[h]))
               /\ Held(rd'[h], wire'[h], Head(owed[h]), Sent(Writes[route][h], Later(owed[h])))
    <3> DEFINE m == Head(owed[h])
               rest == Sent(Writes[route][h], Later(owed[h]))
    <3>1. /\ m \in MessageSet /\ rest \in Stream /\ Held(r, wire[h], m, rest)
          /\ \A i \in DOMAIN r.got : GotRight(r.got[i], m)
      BY <2>1, <2>2, <1>3, InTheMiddle DEF r
    <3> HIDE DEF m, rest
    <3>2. ~r.reading /\ Head(r.todo).k \in {"str", "data"} BY DEF r
    <3>3. rd'[h].txt = [len |-> Head(wire[h]).n, cells |-> <<>>] BY <1>7 DEF txt, n
    <3>4. Held(rd'[h], SubSeq(wire[h], 2, Len(wire[h])), m, rest)
      BY <1>2, <1>7, <3>1, <3>2, <3>3, HeldLength
    <3> QED BY <3>1, <3>4, <1>7, <1>8 DEF m, rest
  <2>3. ~over[h] => ~skew'[h] /\ closed'[h] # "unknown" BY <1>1
  <2>4. rd'[h].cmd = rd[h].cmd BY <1>7 DEF r
  <2> QED BY <2>1, <2>2, <2>3, <2>4, <1>1, <1>3, GoesOn
<1>13. Reason(h)' BY <1>1 DEF Reason
<1> QED BY <1>9, <1>11, <1>12, <1>13 DEF Fine

(* A reader that stops in the middle of a message, which leaves it as it is. *)
LEMMA StopFine ==
  ASSUME WireTyped, NEW h \in Hop, Fine(h), InMessage(h),
         NEW c \in Closings \ {"no", "unknown", "handshake"}, closed' = [closed EXCEPT ![h] = c],
         c = "long" => \E i \in DOMAIN rd[h].todo : rd[h].todo[i].k = "data",
         UNCHANGED <<rd, skew>>, UNCHANGED wireOnly,
         NEW k \in Nat, k <= Len(wire[h]), Drop(h, k)
  PROVE  WireTyped' /\ Fine(h)' /\ Others(h)
<1>1. UNCHANGED <<route, reader, owed, over, sent, skew, rd>> BY DEF wireOnly
<1>2. /\ closed' \in [Hop -> Closings] /\ closed'[h] = c
      /\ \A j \in Hop \ {h} : closed'[j] = closed[j]
  BY DEF WireTyped, FlagsOK
<1>3. /\ WireOK' /\ \A j \in Hop \ {h} : wire'[j] = wire[j] BY DropIs
<1>4. Others(h) BY <1>1, <1>2, <1>3 DEF Others
<1>5. WireTyped'
  <2>1. CountOK' /\ FlagsOK' /\ DOMAIN owed' = Hop /\ DOMAIN rd' = Hop
    BY <1>1, <1>2 DEF WireTyped, CountOK, FlagsOK, OwedOK, ReadersOK
  <2>2. owed'[h] \in Seq(SentBy(route, h)) BY <1>1, RdOf
  <2>3. ReaderState(h)' BY <1>1, RdOf DEF ReaderState
  <2> QED BY <2>1, <2>2, <2>3, <1>1, <1>3, <1>4, OnlyHop
<1>6. Aligned(h) /\ closed'[h] \notin {"no", "unknown"} BY <1>2 DEF Fine
<1>7. Aligned(h)' BY <1>1, <1>6 DEF Aligned, InMessage
<1>8. ~over[h] => owed[h] # <<>> BY <1>6 DEF Aligned
<1>9. over[h] \in BOOLEAN BY DEF WireTyped, FlagsOK
<1>10. Reason(h)' BY <1>1, <1>2, <1>8, <1>9 DEF Reason
<1> QED BY <1>4, <1>5, <1>7, <1>10 DEF Fine

LEMMA ReadLengthFine ==
  ASSUME WireTyped, NEW h \in Hop, Fine(h), ReadLength(h)
  PROVE  WireTyped' /\ Fine(h)' /\ Others(h)
<1> DEFINE f == Head(rd[h].todo)
           c == Head(wire[h])
           long == f.k = "data" /\ reader[h] \in Goes /\ c.n > DataLimit
<1>1. /\ closed[h] = "no" /\ ~skew[h] /\ ~rd[h].reading /\ rd[h].todo # <<>> /\ wire[h] # <<>>
      /\ f.k \in {"str", "data"} /\ Drop(h, 1)
      /\ UNCHANGED skew /\ UNCHANGED wireOnly
      /\ closed' = IF long THEN [closed EXCEPT ![h] = "long"] ELSE closed
      /\ rd' = IF long THEN rd
               ELSE [rd EXCEPT ![h].txt = [len |-> c.n, cells |-> <<>>], ![h].reading = TRUE]
  BY DEF ReadLength, Whole, Next1, Open
<1>2. InMessage(h) /\ 1 <= Len(wire[h]) BY <1>1, HasTodo, CellHead
<1>3. f = rd[h].todo[1] /\ 1 \in DOMAIN rd[h].todo BY <1>1, HeadType
<1>4. CASE long
  <2>1. \E i \in DOMAIN rd[h].todo : rd[h].todo[i].k = "data" BY <1>3, <1>4
  <2>2. "long" \in Closings \ {"no", "unknown", "handshake"} BY DEF Closings
  <2>3. /\ closed' = [closed EXCEPT ![h] = "long"] /\ UNCHANGED <<rd, skew>> /\ UNCHANGED wireOnly
    BY <1>1, <1>4
  <2>4. 1 \in Nat OBVIOUS
  <2> QED BY <1>1, <1>2, <2>1, <2>2, <2>3, <2>4, StopFine
<1>5. CASE ~long
  BY <1>1, <1>5, AwaitFine
<1> QED BY <1>4, <1>5

(* A reader never meets a cell of another width unless a length has not fitted. *)
LEMMA SkewFine ==
  ASSUME WireTyped, NEW h \in Hop, Fine(h), Skew(h)
  PROVE  WireTyped' /\ Fine(h)' /\ Others(h)
<1>1. /\ closed[h] = "no" /\ ~skew[h] /\ ~rd[h].reading /\ rd[h].todo # <<>>
      /\ Head(wire[h]).w # Width(Head(rd[h].todo))
      /\ skew' = [skew EXCEPT ![h] = TRUE]
      /\ UNCHANGED <<wire, rd, closed, route, reader, owed, over, sent>>
  BY DEF Skew, Next1, Open, wireOnly
<1>2. InMessage(h) BY <1>1, HasTodo
<1>3. over[h]
  <2> SUFFICES ASSUME ~over[h] PROVE FALSE BY DEF WireTyped, FlagsOK
  <2>1. /\ Head(owed[h]) \in MessageSet
        /\ Sent(Writes[route][h], Later(owed[h])) \in Stream
        /\ Held(rd[h], wire[h], Head(owed[h]), Sent(Writes[route][h], Later(owed[h])))
    BY <1>1, <1>2, InTheMiddle DEF Fine
  <2>2. rd[h] \in RdSet BY RdOf
  <2>3. Head(wire[h]).w = Width(Head(rd[h].todo)) BY <1>1, <2>1, <2>2, HeldWidth
  <2> QED BY <1>1, <2>3
<1>4. /\ skew' \in [Hop -> BOOLEAN] /\ \A j \in Hop \ {h} : skew'[j] = skew[j]
  BY <1>1 DEF WireTyped, FlagsOK
<1>5. Others(h) BY <1>1, <1>4 DEF Others
<1>6. WireTyped'
  <2>1. /\ CountOK' /\ FlagsOK' /\ WireOK' /\ DOMAIN owed' = Hop /\ DOMAIN rd' = Hop
    BY <1>1, <1>4 DEF WireTyped, CountOK, FlagsOK, WireOK, OwedOK, ReadersOK
  <2>2. owed'[h] \in Seq(SentBy(route, h)) BY <1>1, RdOf
  <2>3. ReaderState(h)' BY <1>1, RdOf DEF ReaderState
  <2> QED BY <2>1, <2>2, <2>3, <1>1, <1>5, OnlyHop
<1>7. Aligned(h)' BY <1>1, <1>3 DEF Aligned
<1>8. Reason(h)' BY <1>1 DEF Reason, Fine
<1> QED BY <1>5, <1>6, <1>7, <1>8 DEF Fine

LEMMA RdTyped ==
  ASSUME NEW cmd \in Commands, NEW todo \in Layout, NEW got \in Seq(GotSet),
         NEW txt \in TxtSet, NEW reading \in BOOLEAN
  PROVE  [cmd |-> cmd, todo |-> todo, got |-> got, txt |-> txt, reading |-> reading] \in RdSet
<1> HIDE DEF Commands, Layout, GotSet, TxtSet
<1> QED BY DEF RdSet

LEMMA HasFirst == ASSUME NEW S, NEW q \in Seq(S), q # <<>> PROVE 1 \in 1..Len(q)
OBVIOUS

(* The first cell of a message says which it is, and its reader knows it. *)
LEMMA FirstCell ==
  ASSUME WireTyped, NEW h \in Hop, Aligned(h), ~over[h], rd[h].cmd = "", closed[h] = "no",
         wire[h] # <<>>
  PROVE  /\ owed[h] # <<>> /\ Head(wire[h]).v = Head(owed[h]).cmd
         /\ Head(owed[h]).cmd \in DOMAIN Reads[reader[h]]
         /\ \A t : (t.todo = Reads[reader[h]][Head(owed[h]).cmd] /\ t.reading = FALSE)
              => Held(t, SubSeq(wire[h], 2, Len(wire[h])), Head(owed[h]),
                      Sent(Writes[route][h], Later(owed[h])))
<1> DEFINE q == owed[h]
           T == Writes[route][h]
           R == Reads[reader[h]]
           m == q[1]
           l == T[m.cmd]
           rest == Sent(T, Later(q))
           b == FieldsOf(l, m.s, m.c)
<1>1. q \in Seq(SentBy(route, h)) /\ route \in Routes /\ Paired(route, reader[h], h) BY RdOf
<1>2. q \in Queues(T) /\ TypedTable(T) BY <1>1, QueueOf
<1>3. wire[h] = Sent(T, q) /\ \A i \in 1..Len(q) : Fits(q[i], T[q[i].cmd])
  BY DEF Aligned, InMessage
<1>4. AgreeTables(T, R, Sends(route, h)) BY <1>1, PairAgrees
<1> HIDE DEF q, T, R
<1>5. q # <<>>
  <2> SUFFICES ASSUME q = <<>> PROVE FALSE OBVIOUS
  <2>1. Sent(T, q) = <<>> BY SentEmpty, Zenon
  <2> QED BY <2>1, <1>3
<1>6. m = Head(q) /\ m \in SentBy(route, h) /\ 1 \in 1..Len(q)
  <2>1. m = Head(q) /\ Head(q) \in SentBy(route, h) BY <1>1, <1>5, LaterType
  <2>2. 1 \in 1..Len(q) BY <1>1, <1>5, HasFirst
  <2> QED BY <2>1, <2>2
<1>7. /\ m \in MessageSet /\ m.cmd \in DOMAIN T /\ Later(q) \in Queues(T)
      /\ Sent(T, q) = Encoded(m, l) \o rest
  BY <1>2, <1>5, SentHead
<1>8. m.cmd \in Sends(route, h)
  BY <1>6 DEF SentBy
<1>9. m.cmd \in DOMAIN R /\ AgreeAll(l, R[m.cmd]) BY <1>4, <1>8 DEF AgreeTables
<1>10. l \in Layout BY <1>2, <1>7 DEF TypedTable
<1>11. Fits(m, l) BY <1>3, <1>6
<1>12. rest \in Stream BY <1>2, <1>7, SentType
<1> HIDE DEF m, l, rest
<1>13. Encoded(m, l) = <<Cell(1, m.cmd, 0)>> \o b BY <1>7, <1>10, EncodedType
<1>14. b \in Stream
  <2>1. m.s \in Text /\ m.c \in Nat BY <1>7 DEF MessageSet
  <2> QED BY <2>1, <1>10, FieldsType
<1> HIDE DEF b
<1> DEFINE x == Cell(1, m.cmd, 0)
<1>15. x \in CellSet /\ x.v = m.cmd
  <2>1. m.cmd \in Commands BY <1>7 DEF MessageSet
  <2> QED BY <2>1 DEF Cell, CellSet, Values
<1> HIDE DEF x
<1>16. wire[h] = <<x>> \o (b \o rest)
  <2>1. (<<x>> \o b) \o rest = <<x>> \o (b \o rest) BY <1>12, <1>14, <1>15, AssocOne
  <2>2. wire[h] = (<<x>> \o b) \o rest BY <1>3, <1>7, <1>13, Zenon DEF x
  <2> QED BY <2>1, <2>2, Zenon
<1>17. Head(wire[h]) = x /\ SubSeq(wire[h], 2, Len(wire[h])) = b \o rest
  <2> DEFINE w == <<x>> \o (b \o rest)
  <2>1. Head(w) = x /\ SubSeq(w, 2, Len(w)) = b \o rest BY <1>12, <1>14, <1>15, AssocOne
  <2> HIDE DEF w
  <2>2. wire[h] = w BY <1>16 DEF w
  <2> QED BY <2>1, <2>2, Zenon
<1>18. ASSUME NEW t, t.todo = R[m.cmd], t.reading = FALSE
       PROVE  Held(t, b \o rest, m, rest)
  <2>1. AgreeAll(l, t.todo) BY <1>9, <1>18
  <2> QED BY <2>1, <1>7, <1>10, <1>11, <1>18, HeldStart DEF b
<1>19. \A t : (t.todo = R[m.cmd] /\ t.reading = FALSE)
              => Held(t, SubSeq(wire[h], 2, Len(wire[h])), m, rest)
  BY <1>17, <1>18
<1>20. Head(q) = m BY <1>6
<1>21. Head(wire[h]).v = m.cmd BY <1>15, <1>17
<1> QED BY <1>5, <1>9, <1>19, <1>20, <1>21 DEF q, T, R, rest

LEMMA ReadCmdFine ==
  ASSUME WireTyped, NEW h \in Hop, Fine(h), ReadCmd(h)
  PROVE  WireTyped' /\ Fine(h)' /\ Others(h)
<1> DEFINE cmd == Head(wire[h]).v
           R == Reads[reader[h]]
           known == cmd \in DOMAIN R
<1>1. /\ closed[h] = "no" /\ ~skew[h] /\ rd[h].cmd = "" /\ wire[h] # <<>> /\ Drop(h, 1)
      /\ rd' = IF known THEN [rd EXCEPT ![h].cmd = cmd, ![h].todo = R[cmd]] ELSE rd
      /\ skew' = [skew EXCEPT ![h] = ~known]
      /\ closed' = IF known \/ reader[h] \notin Goes THEN closed
                   ELSE [closed EXCEPT ![h] = "unknown"]
      /\ UNCHANGED <<route, reader, owed, over, sent>>
  BY DEF ReadCmd, Open, wireOnly
<1>2. /\ rd[h] = Rest /\ DOMAIN rd = Hop /\ ReaderState(h)
  BY <1>1, RdOf DEF ReaderState, WireTyped, ReadersOK
<1>3. /\ WireOK' /\ wire'[h] = SubSeq(wire[h], 2, Len(wire[h]))
      /\ \A j \in Hop \ {h} : wire'[j] = wire[j]
  <2>1. 1 \in Nat /\ 1 + 1 = 2 OBVIOUS
  <2>2. 1 <= Len(wire[h]) BY <1>1, CellHead
  <2>3. /\ WireOK' /\ wire'[h] = SubSeq(wire[h], 1 + 1, Len(wire[h]))
        /\ \A j \in Hop \ {h} : wire'[j] = wire[j]
    BY <1>1, <2>1, <2>2, DropIs
  <2> QED BY <2>1, <2>3
<1>4. TypedTable(R) /\ DOMAIN R \subseteq Commands
  <2>1. reader[h] \in DOMAIN Reads BY RdOf
  <2> QED BY <2>1, ReadsTyped
<1> HIDE DEF R, cmd
<1> DEFINE new == [[Rest EXCEPT !.cmd = cmd] EXCEPT !.todo = R[cmd]]
<1>5. /\ DOMAIN rd' = Hop /\ \A j \in Hop \ {h} : rd'[j] = rd[j]
      /\ rd'[h] = IF known THEN new ELSE Rest
  BY <1>1, <1>2
<1>6. /\ new.cmd = cmd /\ new.todo = R[cmd] /\ new.reading = FALSE /\ new.got = <<>>
      /\ known => new \in RdSet /\ cmd \in Commands
  <2>1. /\ new.cmd = cmd /\ new.todo = R[cmd] /\ new.reading = FALSE /\ new.got = <<>>
        /\ new = [cmd |-> cmd, todo |-> R[cmd], got |-> <<>>, txt |-> Rest.txt, reading |-> FALSE]
    <3> DEFINE r == [cmd |-> "", todo |-> <<>>, got |-> <<>>, txt |-> NoText, reading |-> FALSE]
    <3>1. Rest = r BY DEF Rest
    <3>2. new = [[r EXCEPT !.cmd = cmd] EXCEPT !.todo = R[cmd]] BY <3>1, Zenon
    <3>3. Rest.txt = NoText BY <3>1
    <3>4. new = [cmd |-> cmd, todo |-> R[cmd], got |-> <<>>, txt |-> NoText, reading |-> FALSE]
      <4> HIDE DEF new
      <4> QED BY <3>2
    <3> HIDE DEF new
    <3> QED BY <3>3, <3>4
  <2>2. Rest.txt \in TxtSet BY RestTyped DEF RdSet
  <2>3. known => cmd \in Commands /\ R[cmd] \in Layout BY <1>4 DEF TypedTable
  <2>4. <<>> \in Seq(GotSet) OBVIOUS
  <2> HIDE DEF new, GotSet
  <2>5. ASSUME known PROVE new \in RdSet /\ cmd \in Commands
    <3>1. cmd \in Commands /\ R[cmd] \in Layout BY <2>3, <2>5
    <3>2. FALSE \in BOOLEAN OBVIOUS
    <3>3. [cmd |-> cmd, todo |-> R[cmd], got |-> <<>>, txt |-> Rest.txt, reading |-> FALSE]
            \in RdSet
      BY <2>2, <2>4, <3>1, <3>2, RdTyped
    <3> QED BY <2>1, <3>1, <3>3, Zenon
  <2> QED BY <2>1, <2>5
<1> HIDE DEF new
<1>7. ReaderState(h)'
  <2>1. CASE known
    <3>1. rd'[h] \in RdSet /\ rd'[h].cmd = cmd /\ rd'[h].reading = FALSE
      BY <1>5, <1>6, <2>1
    <3>2. cmd \notin {"", "pirates!"} BY <1>6, <2>1, NoCommand
    <3>3. cmd \in DOMAIN Reads[reader'[h]] BY <1>1, <2>1 DEF R
    <3> QED BY <3>1, <3>2, <3>3 DEF ReaderState
  <2>2. CASE ~known
    <3>1. rd'[h] = Rest BY <1>5, <2>2
    <3> QED BY <3>1, RestTyped DEF ReaderState
  <2> QED BY <2>1, <2>2
<1>8. FlagsOK' /\ (\A j \in Hop \ {h} : skew'[j] = skew[j] /\ closed'[j] = closed[j])
  <2>1. /\ closed \in [Hop -> Closings] /\ skew \in [Hop -> BOOLEAN] /\ over \in [Hop -> BOOLEAN]
    BY DEF WireTyped, FlagsOK
  <2>2. "unknown" \in Closings BY DEF Closings
  <2>3. known \in BOOLEAN OBVIOUS
  <2> HIDE DEF known
  <2>4. skew' \in [Hop -> BOOLEAN] /\ \A j \in Hop \ {h} : skew'[j] = skew[j] BY <1>1, <2>1, <2>3
  <2>5. closed' \in [Hop -> Closings] /\ \A j \in Hop \ {h} : closed'[j] = closed[j]
    BY <1>1, <2>1, <2>2
  <2> QED BY <1>1, <2>1, <2>4, <2>5 DEF FlagsOK
<1>9. Others(h) BY <1>1, <1>3, <1>5, <1>8 DEF Others
<1>10. WireTyped'
  <2>1. CountOK' /\ DOMAIN owed' = Hop BY <1>1 DEF WireTyped, CountOK, OwedOK
  <2>2. owed'[h] \in Seq(SentBy(route, h)) BY <1>1, RdOf
  <2> QED BY <2>1, <2>2, <1>1, <1>3, <1>5, <1>7, <1>8, <1>9, OnlyHop
<1>11. Aligned(h)'
  <2> SUFFICES ASSUME ~over[h] PROVE Aligned(h)' BY <1>1 DEF Aligned
  <2>1. /\ owed[h] # <<>> /\ cmd = Head(owed[h]).cmd /\ known
        /\ \A t : (t.todo = R[cmd] /\ t.reading = FALSE)
             => Held(t, SubSeq(wire[h], 2, Len(wire[h])), Head(owed[h]),
                     Sent(Writes[route][h], Later(owed[h])))
    BY <1>1, FirstCell DEF Fine, cmd, R
  <2>2. /\ rd'[h].cmd = cmd /\ rd'[h].todo = R[cmd] /\ rd'[h].reading = FALSE
        /\ rd'[h].got = <<>>
    BY <1>5, <1>6, <2>1
  <2>3. Held(rd'[h], wire'[h], Head(owed[h]), Sent(Writes[route][h], Later(owed[h])))
    BY <1>3, <2>1, <2>2
  <2>4. ~skew'[h] /\ closed'[h] = "no" BY <1>1, <2>1 DEF WireTyped, FlagsOK
  <2>5. cmd \notin {"", "pirates!"} BY <1>6, <2>1, NoCommand
  <2>6. \A i \in 1..Len(owed[h]) : Fits(owed[h][i], Writes[route][h][owed[h][i].cmd])
    BY DEF Fine, Aligned
  <2>7. \A i \in DOMAIN rd'[h].got : GotRight(rd'[h].got[i], Head(owed[h])) BY <2>2
  <2>8. UNCHANGED <<owed, route, over>> BY <1>1
  <2>9. rd'[h].cmd = Head(owed[h]).cmd BY <2>1, <2>2
  <2> HIDE DEF known
  <2> QED BY <2>1, <2>2, <2>3, <2>4, <2>5, <2>6, <2>7, <2>8, <2>9 DEF Aligned, InMessage
<1>12. Reason(h)'
  <2>1. closed'[h] \in {"no", "unknown"} BY <1>1 DEF WireTyped, FlagsOK
  <2> QED BY <2>1 DEF Reason
<1> QED BY <1>9, <1>10, <1>11, <1>12 DEF Fine

LEMMA LaterOf ==
  ASSUME NEW S, NEW q \in Seq(S)
  PROVE  /\ Later(q) \in Seq(S)
         /\ \A i \in 1..Len(Later(q)) : i + 1 \in 1..Len(q) /\ Later(q)[i] = q[i + 1]
BY DEF Later

LEMMA LaterAppend ==
  ASSUME NEW S, NEW q \in Seq(S), NEW m \in S, q # <<>>
  PROVE  Later(Append(q, m)) = Append(Later(q), m) /\ Head(Append(q, m)) = Head(q)
<1>1. /\ Head(Append(q, m)) = Head(q) /\ Len(q) \in Nat /\ Len(q) # 0 /\ Append(q, m) \in Seq(S)
      /\ Len(Append(q, m)) = Len(q) + 1
  OBVIOUS
<1> DEFINE a == Later(Append(q, m))
           b == Append(Later(q), m)
<1>2. a \in Seq(S) /\ Len(a) = Len(q) BY <1>1 DEF Later
<1>3. Later(q) \in Seq(S) /\ Len(Later(q)) = Len(q) - 1
  <2>1. Later(q) \in Seq(S) BY DEF Later
  <2>2. CASE Len(q) = 1 BY <2>2 DEF Later
  <2>3. CASE Len(q) > 1 BY <2>3 DEF Later
  <2>4. Len(q) = 1 \/ Len(q) > 1
    <3>1. \A n \in Nat : n # 0 => n = 1 \/ n > 1 OBVIOUS
    <3>2. Len(q) \in Nat /\ Len(q) # 0 BY <1>1
    <3> QED BY <3>1, <3>2, Zenon
  <2> QED BY <2>1, <2>2, <2>3, <2>4, Zenon
<1>4. b \in Seq(S) /\ Len(b) = Len(q) BY <1>1, <1>3
<1>5. \A i \in 1..Len(q) : a[i] = Append(q, m)[i + 1] BY <1>1 DEF Later
<1>6. \A i \in 1..Len(q) - 1 : Later(q)[i] = q[i + 1] BY <1>1 DEF Later
<1>7. ASSUME NEW i \in 1..Len(q) PROVE a[i] = b[i]
  <2>1. CASE i = Len(q)
    <3>1. a[i] = m BY <2>1, <1>1, <1>5
    <3>2. b[i] = m BY <2>1, <1>1, <1>3
    <3> QED BY <3>1, <3>2
  <2>2. CASE i # Len(q)
    <3>1. i \in 1..Len(q) - 1 BY <2>2, <1>1
    <3>2. a[i] = q[i + 1] BY <3>1, <1>1, <1>5
    <3>3. b[i] = Later(q)[i] BY <3>1, <1>3
    <3> QED BY <3>1, <3>2, <3>3, <1>6
  <2> QED BY <2>1, <2>2
<1> HIDE DEF a, b
<1>8. \A i \in 1..Len(a) : a[i] = b[i] BY <1>2, <1>7
<1>9. a = b BY <1>2, <1>4, <1>8, SeqEqual
<1> QED BY <1>1, <1>9 DEF a, b

(* A reader that is done with its message. *)
LEMMA DoneFine ==
  ASSUME WireTyped, NEW h \in Hop, Fine(h), Read1(h),
         rd' = [rd EXCEPT ![h] = Rest], owed'[h] = Later(owed[h]), wire'[h] = wire[h],
         over'[h] = over[h], UNCHANGED <<route, reader, closed, skew>>
  PROVE  /\ Fine(h)' /\ owed'[h] \in Seq(SentBy(route, h)) /\ ReaderState(h)'
         /\ DOMAIN rd' = Hop /\ \A k \in Hop \ {h} : rd'[k] = rd[k]
<1>1. closed[h] = "no" /\ ~skew[h] /\ InMessage(h) /\ rd[h].todo = <<>>
  BY DEF Read1, Open, InMessage
<1>2. rd'[h] = Rest /\ DOMAIN rd' = Hop /\ \A k \in Hop \ {h} : rd'[k] = rd[k]
  BY DEF WireTyped, ReadersOK
<1>3. owed[h] \in Seq(SentBy(route, h)) /\ rd[h] \in RdSet BY RdOf
<1>4. /\ owed'[h] \in Seq(SentBy(route, h))
      /\ \A i \in 1..Len(owed'[h]) : i + 1 \in 1..Len(owed[h]) /\ owed'[h][i] = owed[h][i + 1]
  <2>1. /\ Later(owed[h]) \in Seq(SentBy(route, h))
        /\ \A i \in 1..Len(Later(owed[h])) :
             i + 1 \in 1..Len(owed[h]) /\ Later(owed[h])[i] = owed[h][i + 1]
    BY <1>3, LaterOf
  <2> QED BY <2>1
<1>5. ReaderState(h)' BY <1>2, RestTyped DEF ReaderState
<1>6. Aligned(h)'
  <2> SUFFICES ASSUME ~over[h] PROVE Aligned(h)' BY DEF Aligned
  <2>1. \A i \in 1..Len(owed'[h]) : Fits(owed'[h][i], Writes[route][h][owed'[h][i].cmd])
    <3>1. \A i \in 1..Len(owed[h]) : Fits(owed[h][i], Writes[route][h][owed[h][i].cmd])
      BY DEF Fine, Aligned
    <3> QED BY <3>1, <1>4
  <2>2. wire[h] = Sent(Writes[route][h], Later(owed[h]))
    <3>1. /\ Head(owed[h]) \in MessageSet
          /\ Sent(Writes[route][h], Later(owed[h])) \in Stream
          /\ Held(rd[h], wire[h], Head(owed[h]), Sent(Writes[route][h], Later(owed[h])))
      BY <1>1, InTheMiddle DEF Fine
    <3> QED BY <3>1, <1>1, <1>3, HeldEnd
  <2>3. wire'[h] = Sent(Writes[route][h], owed'[h]) BY <2>2
  <2>4. ~InMessage(h)' BY <1>2, RestTyped DEF InMessage
  <2>5. ~skew'[h] /\ closed'[h] # "unknown" /\ UNCHANGED route BY <1>1
  <2> QED BY <2>1, <2>3, <2>4, <2>5 DEF Aligned
<1>7. Reason(h)' BY <1>1 DEF Reason
<1> QED BY <1>2, <1>4, <1>5, <1>6, <1>7 DEF Fine

LEMMA HandledFine ==
  ASSUME WireTyped, NEW h \in Hop, Fine(h), Handled(h)
  PROVE  WireTyped' /\ Fine(h)' /\ Others(h)
<1>1. /\ Read1(h) /\ rd' = [rd EXCEPT ![h] = Rest] /\ owed' = [owed EXCEPT ![h] = Later(@)]
      /\ UNCHANGED <<wire, over, route, reader, closed, skew, sent>>
  BY DEF Handled
<1>2. /\ owed'[h] = Later(owed[h]) /\ DOMAIN owed' = Hop
      /\ \A k \in Hop \ {h} : owed'[k] = owed[k]
  BY <1>1 DEF WireTyped, OwedOK
<1>3. /\ Fine(h)' /\ owed'[h] \in Seq(SentBy(route, h)) /\ ReaderState(h)'
      /\ DOMAIN rd' = Hop /\ \A k \in Hop \ {h} : rd'[k] = rd[k]
  BY <1>1, <1>2, DoneFine
<1>4. Others(h) BY <1>1, <1>2, <1>3 DEF Others
<1>5. CountOK' /\ FlagsOK' /\ WireOK' BY <1>1 DEF WireTyped, CountOK, FlagsOK, WireOK
<1> QED BY <1>1, <1>2, <1>3, <1>4, <1>5, OnlyHop

(* A message that is written behind the others. *)
LEMMA PutFine ==
  ASSUME WireTyped, NEW h \in Hop, Fine(h), NEW m \in SentBy(route, h), ~over[h],
         closed[h] = "no",
         Put(h, m), Overflows(h, m), owed'[h] = Append(owed[h], m), rd'[h] = rd[h],
         UNCHANGED <<route, reader, closed, skew>>
  PROVE  /\ Fine(h)' /\ WireOK' /\ over' \in [Hop -> BOOLEAN]
         /\ owed'[h] \in Seq(SentBy(route, h)) /\ ReaderState(h)'
         /\ \A k \in Hop \ {h} : wire'[k] = wire[k] /\ over'[k] = over[k]
<1> DEFINE T == Writes[route][h]
           q == owed[h]
           e == Encoded(m, T[m.cmd])
<1>1. /\ q \in Seq(SentBy(route, h)) /\ wire[h] \in Stream /\ rd[h] \in RdSet
      /\ route \in Routes /\ ReaderState(h)
  BY RdOf
<1>2. q \in Queues(T) /\ TypedTable(T) /\ Sends(route, h) \subseteq DOMAIN T
  BY <1>1, QueueOf, WritesTyped
<1>3. m \in MessageSet /\ m.cmd \in DOMAIN T BY <1>2 DEF SentBy
<1> HIDE DEF T, q
<1>4. e \in Stream
  <2>1. T[m.cmd] \in Layout BY <1>2, <1>3 DEF TypedTable
  <2> QED BY <2>1, <1>3, EncodedType
<1>5. wire' = [wire EXCEPT ![h] = wire[h] \o e] BY DEF Put, T
<1>6. over' = [over EXCEPT ![h] = over[h] \/ ~Fits(m, T[m.cmd])] BY DEF Overflows, T
<1> HIDE DEF e
<1>7. /\ WireOK' /\ wire'[h] = wire[h] \o e /\ \A k \in Hop \ {h} : wire'[k] = wire[k]
  <2>1. wire[h] \o e \in Stream BY <1>1, <1>4 DEF Stream
  <2> QED BY <1>5, <2>1 DEF WireTyped, WireOK
<1>8. /\ over' \in [Hop -> BOOLEAN] /\ (~over'[h] => Fits(m, T[m.cmd]))
      /\ \A k \in Hop \ {h} : over'[k] = over[k]
  BY <1>6 DEF WireTyped, FlagsOK
<1>9. owed'[h] = Append(q, m) /\ Append(q, m) \in Seq(SentBy(route, h)) BY <1>1 DEF q
<1>10. ReaderState(h)' BY <1>1 DEF ReaderState
<1>11. Aligned(h)'
  <2> SUFFICES ASSUME ~over'[h] PROVE Aligned(h)' BY DEF Aligned
  <2>1. /\ ~skew[h]
        /\ \A i \in 1..Len(q) : Fits(q[i], T[q[i].cmd])
        /\ ~InMessage(h) => wire[h] = Sent(T, q)
        /\ InMessage(h) =>
             /\ q # <<>> /\ rd[h].cmd = Head(q).cmd
             /\ \A i \in DOMAIN rd[h].got : GotRight(rd[h].got[i], Head(q))
             /\ Held(rd[h], wire[h], Head(q), Sent(T, Later(q)))
    BY DEF Fine, Aligned, T, q
  <2>2. \A i \in 1..Len(Append(q, m)) : Fits(Append(q, m)[i], T[Append(q, m)[i].cmd])
    <3> SUFFICES ASSUME NEW i \in 1..Len(Append(q, m))
                 PROVE  Fits(Append(q, m)[i], T[Append(q, m)[i].cmd])
      OBVIOUS
    <3>1. i \in 1..Len(q) + 1 BY <1>1
    <3>2. CASE i \in 1..Len(q)
      <4>1. Append(q, m)[i] = q[i] BY <3>2, <1>1
      <4>2. Fits(q[i], T[q[i].cmd]) BY <3>2, <2>1
      <4> QED BY <4>1, <4>2, Zenon
    <3>3. CASE i = Len(q) + 1
      <4>1. Append(q, m)[i] = m BY <3>3, <1>1
      <4>2. Fits(m, T[m.cmd]) BY <1>8
      <4> QED BY <4>1, <4>2, Zenon
    <3> QED BY <3>1, <3>2, <3>3, <1>1
  <2>3. ASSUME ~InMessage(h) PROVE wire'[h] = Sent(T, Append(q, m))
    <3>1. Sent(T, Append(q, m)) = Sent(T, q) \o e BY <1>2, <1>3, SentAppend DEF e
    <3> QED BY <3>1, <2>1, <2>3, <1>7
  <2>4. ASSUME InMessage(h)
        PROVE  /\ Append(q, m) # <<>> /\ Head(Append(q, m)) = Head(q)
               /\ Held(rd[h], wire'[h], Head(q), Sent(T, Later(Append(q, m))))
    <3>1. q # <<>> BY <2>1, <2>4
    <3>2. Later(Append(q, m)) = Append(Later(q), m) /\ Head(Append(q, m)) = Head(q)
      BY <3>1, <1>1, LaterAppend
    <3>3. Later(q) \in Queues(T) /\ Head(q) \in MessageSet
      <4>1. Later(q) \in Queues(T) /\ q[1] \in MessageSet BY <3>1, <1>2, SentHead
      <4>2. Head(q) = q[1] BY <3>1, <1>1, LaterType
      <4> QED BY <4>1, <4>2
    <3>4. Sent(T, Append(Later(q), m)) = Sent(T, Later(q)) \o e /\ Sent(T, Later(q)) \in Stream
      BY <3>3, <1>2, <1>3, SentAppend, SentType DEF e
    <3>5. Held(rd[h], wire[h] \o e, Head(q), Sent(T, Later(q)) \o e)
      BY <3>3, <3>4, <1>1, <1>4, <2>1, <2>4, HeldMore
    <3>6. Append(q, m) # <<>> BY <1>1
    <3>7. Held(rd[h], wire'[h], Head(q), Sent(T, Later(Append(q, m))))
      BY <3>2, <3>4, <3>5, <1>7, Zenon
    <3> QED BY <3>2, <3>6, <3>7
  <2>5. InMessage(h)' <=> InMessage(h) BY DEF InMessage
  <2> DEFINE n == Append(q, m)
  <2> HIDE DEF n
  <2>6. owed'[h] = n /\ rd'[h] = rd[h] /\ closed'[h] = "no" /\ ~skew'[h] /\ Writes[route'][h] = T
    BY <1>9, <2>1 DEF n, T
  <2>7. /\ \A i \in 1..Len(n) : Fits(n[i], T[n[i].cmd])
        /\ ~InMessage(h) => wire'[h] = Sent(T, n)
        /\ InMessage(h) =>
             /\ n # <<>> /\ rd[h].cmd = Head(n).cmd
             /\ \A i \in DOMAIN rd[h].got : GotRight(rd[h].got[i], Head(n))
             /\ Held(rd[h], wire'[h], Head(n), Sent(T, Later(n)))
    BY <2>1, <2>2, <2>3, <2>4 DEF n
  <2> QED BY <2>5, <2>6, <2>7 DEF Aligned
<1>12. Reason(h)' BY DEF Reason
<1> QED BY <1>7, <1>8, <1>9, <1>10, <1>11, <1>12 DEF Fine

LEMMA MessageType ==
  ASSUME NEW table, NEW cmds, NEW r \in Routes, NEW h \in Hop, cmds \subseteq Sends(r, h),
         NEW m \in Message(table, cmds)
  PROVE  m \in SentBy(r, h)
<1>1. m \in [cmd : cmds, s : Texts, c : Counts] BY DEF Message
<1>2. m.cmd \in Sends(r, h) /\ m.cmd \in Commands BY <1>1, WritesTyped
<1>3. m.s \in Text /\ m.c \in Nat
  <2>1. m.s \in Seq(Nat \ {0}) /\ m.c \in Nat BY <1>1, BoundsAssumption
  <2>2. m.s \in Seq(Nat)
    <3>1. \A i \in 1..Len(m.s) : m.s[i] \in Nat BY <2>1
    <3>2. Len(m.s) \in Nat /\ m.s = [i \in 1..Len(m.s) |-> m.s[i]] BY <2>1
    <3> QED BY <3>1, <3>2
  <2> QED BY <2>1, <2>2 DEF Text
<1>4. m \in MessageSet BY <1>1, <1>2, <1>3 DEF MessageSet
<1> QED BY <1>2, <1>4 DEF SentBy

LEMMA SendFine ==
  ASSUME WireTyped, NEW h \in Hop, Fine(h), Takes(h), NEW m \in SentBy(route, h), Send(h, m)
  PROVE  WireTyped' /\ Fine(h)' /\ Others(h)
<1>1. /\ sent < MaxSent /\ closed[h] = "no" /\ ~over[h] /\ sent' = sent + 1
      /\ Put(h, m) /\ Overflows(h, m) /\ owed' = [owed EXCEPT ![h] = Append(@, m)]
      /\ UNCHANGED <<route, reader, rd, closed, skew>>
  BY DEF Takes, Send
<1>2. /\ owed'[h] = Append(owed[h], m) /\ DOMAIN owed' = Hop
      /\ \A k \in Hop \ {h} : owed'[k] = owed[k]
  BY <1>1 DEF WireTyped, OwedOK
<1>3. /\ Fine(h)' /\ WireOK' /\ over' \in [Hop -> BOOLEAN]
      /\ owed'[h] \in Seq(SentBy(route, h)) /\ ReaderState(h)'
      /\ \A k \in Hop \ {h} : wire'[k] = wire[k] /\ over'[k] = over[k]
  <2>1. rd'[h] = rd[h] /\ UNCHANGED <<route, reader, closed, skew>> BY <1>1
  <2> QED BY <1>1, <1>2, <2>1, PutFine
<1>4. Others(h) BY <1>1, <1>2, <1>3 DEF Others
<1>5. CountOK'
  <2>1. sent \in 0..MaxSent /\ MaxSent \in Nat BY BoundsAssumption DEF WireTyped, CountOK
  <2> QED BY <2>1, <1>1 DEF CountOK
<1>6. FlagsOK' /\ DOMAIN rd' = Hop BY <1>1, <1>3 DEF WireTyped, FlagsOK, ReadersOK
<1> QED BY <1>1, <1>2, <1>3, <1>4, <1>5, <1>6, OnlyHop

LEMMA SourceFine ==
  ASSUME WireInvariant, Source
  PROVE  WireTyped' /\ Fine(1)' /\ Others(1)
<1>1. WireTyped /\ Fine(1) /\ 1 \in Hop /\ Takes(1) BY DEF WireInvariant, Hop, Source
<1>2. PICK m \in Sources[route] : Send(1, m) BY DEF Source
<1>3. route \in Routes BY <1>1 DEF WireTyped, PairOK
<1>4. m \in SentBy(route, 1)
  <2>1. Sources[route] = Message(Writes[route][1], DOMAIN Writes[route][1])
    BY <1>3 DEF Sources, Routes, Writes
  <2>2. DOMAIN Writes[route][1] \subseteq Sends(route, 1) BY DEF Sends
  <2> QED BY <1>1, <1>2, <1>3, <2>1, <2>2, MessageType
<1> QED BY <1>1, <1>2, <1>4, SendFine

LEMMA OwnFine ==
  ASSUME WireInvariant, Own
  PROVE  WireTyped' /\ Fine(2)' /\ Others(2)
<1>1. WireTyped /\ Fine(2) /\ 2 \in Hop /\ Takes(2) BY DEF WireInvariant, Hop, Own
<1>2. PICK m \in Owns[route] : Send(2, m) BY DEF Own
<1>3. route \in Routes BY <1>1 DEF WireTyped, PairOK
<1>4. m \in SentBy(route, 2)
  <2>1. Owns[route] = Message(GoWrites, Owned[route]) BY <1>3 DEF Owns, Owned, Routes
  <2>2. Owned[route] \subseteq Sends(route, 2)
    BY <1>3 DEF Owned, Sends, Routes, ToServer, ToClient
  <2> QED BY <1>1, <1>2, <1>3, <2>1, <2>2, MessageType
<1> QED BY <1>1, <1>2, <1>4, SendFine

LEMMA AgainType ==
  ASSUME NEW r \in RdSet, route \in Routes, r.cmd \in DOMAIN Relay[route]
  PROVE  Again(r) \in SentBy(route, 2)
<1> DEFINE texts == {g.s : g \in Range(r.got)} \ {<<>>}
           found == {g.n : g \in Range(r.got)} \ {0}
           s == IF texts = {} THEN <<>> ELSE CHOOSE x \in texts : TRUE
           c == IF found = {} THEN 0 ELSE CHOOSE n \in found : TRUE
<1>1. Again(r) = [cmd |-> Relay[route][r.cmd], s |-> s, c |-> c] BY DEF Again
<1>2. \A g \in Range(r.got) : g.s \in Text /\ g.n \in Nat
  <2>1. r.got \in Seq(GotSet) BY DEF RdSet
  <2>2. \A g \in Range(r.got) : g \in GotSet
    <3> HIDE DEF GotSet
    <3> QED BY <2>1 DEF Range
  <2> QED BY <2>2 DEF GotSet
<1>3. texts \subseteq Text /\ found \subseteq Nat BY <1>2
<1> HIDE DEF texts, found
<1>4. s \in Text /\ c \in Nat
  <2>1. <<>> \in Text BY DEF Text
  <2> QED BY <1>3, <2>1
<1>5. Relay[route][r.cmd] \in Sends(route, 2)
  <2>1. CASE route = "in" BY <2>1 DEF Relay, Sends, ToServer
  <2>2. CASE route = "out" BY <2>2 DEF Relay, Sends, ToClient
  <2> QED BY <2>1, <2>2 DEF Routes
<1>6. Relay[route][r.cmd] \in Commands
  <2>1. 2 \in Hop BY DEF Hop
  <2> QED BY <1>5, <2>1, WritesTyped
<1> HIDE DEF s, c
<1> QED BY <1>1, <1>4, <1>5, <1>6 DEF SentBy, MessageSet

LEMMA ForwardFine ==
  ASSUME WireInvariant, Forward
  PROVE  WireInvariant'
<1>1. WireTyped /\ Fine(1) /\ Fine(2) /\ 1 \in Hop /\ 2 \in Hop BY DEF WireInvariant, Hop
<1> DEFINE m == Again(rd[1])
<1>2. /\ Read1(1) /\ rd[1].cmd \in DOMAIN Relay[route] /\ closed[2] = "no" /\ ~over[2]
      /\ Put(2, m) /\ Overflows(2, m)
      /\ owed' = [owed EXCEPT ![1] = Later(@), ![2] = Append(@, m)]
      /\ rd' = [rd EXCEPT ![1] = Rest]
      /\ UNCHANGED <<route, reader, closed, skew, sent>>
  BY DEF Forward
<1>3. m \in SentBy(route, 2)
  <2>1. rd[1] \in RdSet /\ route \in Routes BY <1>1, RdOf
  <2> QED BY <2>1, <1>2, AgainType
<1> HIDE DEF m
<1>4. owed'[1] = Later(owed[1]) /\ owed'[2] = Append(owed[2], m) /\ DOMAIN owed' = Hop
  <2>1. DOMAIN owed = Hop BY <1>1 DEF WireTyped, OwedOK
  <2> QED BY <2>1, <1>1, <1>2
<1>5. rd'[2] = rd[2] BY <1>1, <1>2 DEF WireTyped, ReadersOK
<1>6. /\ Fine(2)' /\ WireOK' /\ over' \in [Hop -> BOOLEAN]
      /\ owed'[2] \in Seq(SentBy(route, 2)) /\ ReaderState(2)'
      /\ \A k \in Hop \ {2} : wire'[k] = wire[k] /\ over'[k] = over[k]
  <2>1. UNCHANGED <<route, reader, closed, skew>> BY <1>2
  <2> QED BY <1>1, <1>2, <1>3, <1>4, <1>5, <2>1, PutFine
<1>7. wire'[1] = wire[1] /\ over'[1] = over[1] BY <1>6 DEF Hop
<1>8. /\ Fine(1)' /\ owed'[1] \in Seq(SentBy(route, 1)) /\ ReaderState(1)' /\ DOMAIN rd' = Hop
  <2>1. UNCHANGED <<route, reader, closed, skew>> BY <1>2
  <2> QED BY <1>1, <1>2, <1>4, <1>7, <2>1, DoneFine
<1>9. PairOK' /\ ReaderOK' /\ CountOK' /\ FlagsOK'
  BY <1>1, <1>2, <1>6 DEF WireTyped, PairOK, ReaderOK, CountOK, FlagsOK
<1>10. OwedOK'
  <2>1. \A h \in Hop : owed'[h] \in Seq(SentBy(route, h)) BY <1>6, <1>8 DEF Hop
  <2>2. route' = route BY <1>2
  <2> QED BY <2>1, <2>2, <1>4 DEF OwedOK, SentBy
<1>11. ReadersOK'
  <2>1. ASSUME NEW h \in Hop PROVE ReaderState(h)' BY <1>6, <1>8 DEF Hop
  <2> QED BY <2>1, <1>8 DEF ReadersOK
<1>12. WireTyped' BY <1>6, <1>9, <1>10, <1>11 DEF WireTyped
<1>13. ASSUME NEW h \in Hop PROVE Fine(h)' BY <1>6, <1>8 DEF Hop
<1> QED BY <1>12, <1>13 DEF WireInvariant

LEMMA HandshakeFine ==
  ASSUME WireInvariant, Handshake
  PROVE  WireTyped' /\ Fine(1)' /\ Others(1)
<1>1. WireTyped /\ Fine(1) /\ 1 \in Hop BY DEF WireInvariant, Hop
<1>2. /\ rd[1].cmd = "pirates!" /\ closed[1] = "no"
      /\ \/ rd' = [rd EXCEPT ![1] = Rest] /\ UNCHANGED closed
         \/ closed' = [closed EXCEPT ![1] = "handshake"] /\ UNCHANGED rd
      /\ UNCHANGED <<wire, skew, route, reader, owed, over, sent>>
  BY DEF Handshake, wireOnly
<1>3. DOMAIN rd = Hop /\ closed \in [Hop -> Closings] /\ "handshake" \in Closings
  BY <1>1 DEF WireTyped, ReadersOK, FlagsOK, Closings
<1>4. ReaderState(1) /\ rd[1] = Greeting /\ route = "in"
  BY <1>1, <1>2, RdOf DEF ReaderState
<1>5. /\ DOMAIN rd' = Hop /\ rd'[1] \in {Rest, Greeting} /\ rd'[2] = rd[2]
      /\ closed' \in [Hop -> Closings] /\ closed'[1] \in {"no", "handshake"}
      /\ closed'[2] = closed[2] /\ (closed'[1] = "no" => closed[1] = "no")
  BY <1>2, <1>3, <1>4 DEF Hop
<1>6. Others(1) BY <1>2, <1>5 DEF Others, Hop
<1>7. ReaderState(1)'
  <2>1. CASE rd'[1] = Rest BY <2>1, RestTyped DEF ReaderState
  <2>2. CASE rd'[1] = Greeting BY <2>2, <1>2, <1>4, RestTyped DEF ReaderState
  <2> QED BY <2>1, <2>2, <1>5
<1>8. WireTyped'
  <2>1. CountOK' /\ FlagsOK' /\ WireOK' /\ DOMAIN owed' = Hop
    BY <1>1, <1>2, <1>5 DEF WireTyped, CountOK, FlagsOK, WireOK, OwedOK
  <2>2. owed'[1] \in Seq(SentBy(route, 1)) BY <1>1, <1>2, RdOf
  <2> QED BY <2>1, <2>2, <1>1, <1>2, <1>5, <1>6, <1>7, OnlyHop
<1>9. ~InMessage(1) /\ ~InMessage(1)' BY <1>2, <1>5, RestTyped DEF InMessage
<1>10. Aligned(1)' BY <1>1, <1>2, <1>5, <1>9 DEF Fine, Aligned
<1>11. Reason(1)' BY <1>2, <1>4, <1>5 DEF Reason
<1> QED BY <1>6, <1>8, <1>10, <1>11 DEF Fine

LEMMA BreakFine ==
  ASSUME WireTyped, NEW h \in Hop, Fine(h), Break(h)
  PROVE  WireTyped' /\ Fine(h)' /\ Others(h)
<1>1. /\ closed[h] = "no" /\ closed' = [closed EXCEPT ![h] = "broken"]
      /\ wire' = [wire EXCEPT ![h] = <<>>] /\ owed' = [owed EXCEPT ![h] = <<>>]
      /\ rd' = [rd EXCEPT ![h] = Rest]
      /\ UNCHANGED <<route, reader, skew, over, sent>>
  BY DEF Break
<1>2. /\ DOMAIN rd = Hop /\ closed \in [Hop -> Closings] /\ "broken" \in Closings
      /\ wire \in [Hop -> Stream] /\ DOMAIN owed = Hop
  BY DEF WireTyped, ReadersOK, FlagsOK, Closings, WireOK, OwedOK
<1>3. /\ rd'[h] = Rest /\ DOMAIN rd' = Hop /\ owed'[h] = <<>> /\ DOMAIN owed' = Hop
      /\ closed' \in [Hop -> Closings] /\ closed'[h] = "broken" /\ wire'[h] = <<>>
  BY <1>1, <1>2
<1>4. Others(h) BY <1>1, <1>2 DEF Others
<1>5. WireOK'
  <2>1. <<>> \in Stream BY DEF Stream
  <2> QED BY <2>1, <1>1, <1>2 DEF WireOK
<1>6. ReaderState(h)' BY <1>3, RestTyped DEF ReaderState
<1>7. WireTyped'
  <2>1. CountOK' /\ FlagsOK' BY <1>1, <1>3 DEF WireTyped, CountOK, FlagsOK
  <2>2. owed'[h] \in Seq(SentBy(route, h)) BY <1>3
  <2> QED BY <2>1, <2>2, <1>1, <1>3, <1>4, <1>5, <1>6, OnlyHop
<1>8. Aligned(h)'
  <2>1. ~InMessage(h)' BY <1>3, RestTyped DEF InMessage
  <2>2. \A i \in 1..Len(owed'[h]) : Fits(owed'[h][i], Writes[route][h][owed'[h][i].cmd])
    BY <1>3
  <2>3. Aligned(h) /\ closed'[h] = "broken" BY <1>3 DEF Fine
  <2> QED BY <2>1, <2>2, <2>3, <1>1 DEF Aligned
<1>9. Reason(h)' BY <1>3 DEF Reason
<1> QED BY <1>4, <1>7, <1>8, <1>9 DEF Fine

LEMMA InitFine == Init => WireInvariant
<1> SUFFICES ASSUME Init PROVE WireInvariant OBVIOUS
<1>1. WireTyped BY InitTyped
<1>2. ASSUME NEW h \in Hop PROVE Fine(h)
  <2>1. /\ wire[h] = <<>> /\ owed[h] = <<>> /\ closed[h] = "no" /\ ~skew[h]
        /\ rd[h] \in {Rest, Greeting}
    <3>1. h = 1 \/ h = 2 BY DEF Hop
    <3>2. wire[h] = <<>> /\ owed[h] = <<>> BY <3>1 DEF Init
    <3>3. closed[h] = "no" BY <3>1 DEF Init
    <3>4. ~skew[h]
      <4>1. skew = <<FALSE, FALSE>> BY DEF Init
      <4>2. \A b : <<b, b>>[1] = b /\ <<b, b>>[2] = b OBVIOUS
      <4>3. skew[h] = FALSE BY <3>1, <4>1, <4>2, Zenon
      <4> QED BY <4>3
    <3>5. rd[h] \in {Rest, Greeting}
      <4>1. rd = <<Greeting, Rest>> \/ rd = <<Rest, Rest>> BY DEF Init
      <4> QED BY <3>1, <4>1
    <3> QED BY <3>2, <3>3, <3>4, <3>5
  <2>2. ~InMessage(h) BY <2>1, RestTyped DEF InMessage
  <2>3. Sent(Writes[route][h], <<>>) = <<>> BY SentEmpty
  <2>4. wire[h] = Sent(Writes[route][h], owed[h]) BY <2>1, <2>3
  <2>5. Aligned(h) BY <2>1, <2>2, <2>4 DEF Aligned
  <2>6. Reason(h) BY <2>1 DEF Reason
  <2> QED BY <2>5, <2>6 DEF Fine
<1> QED BY <1>1, <1>2 DEF WireInvariant

(* A step of one connection leaves the other as it is. *)
LEMMA StepOf ==
  ASSUME WireInvariant, NEW h \in Hop, WireTyped', Fine(h)', Others(h), UNCHANGED route
  PROVE  WireInvariant'
<1>1. ASSUME NEW k \in Hop PROVE Fine(k)'
  <2>1. CASE k = h BY <2>1
  <2>2. CASE k # h BY <2>2, OthersFine DEF WireInvariant
  <2> QED BY <2>1, <2>2
<1> QED BY <1>1 DEF WireInvariant

LEMMA ReadingFine ==
  ASSUME WireTyped, NEW h \in Hop, Fine(h), Reading(h)
  PROVE  WireTyped' /\ Fine(h)' /\ Others(h)
<1>1. CASE ReadCmd(h) BY <1>1, ReadCmdFine
<1>2. CASE ReadFixed(h) BY <1>2, ReadFixedFine
<1>3. CASE ReadCount(h) BY <1>3, ReadCountFine
<1>4. CASE ReadLength(h) BY <1>4, ReadLengthFine
<1>5. CASE ReadFirst(h) BY <1>5, ReadFirstFine
<1>6. CASE ReadRest(h) BY <1>6, ReadRestFine
<1>7. CASE Skew(h) BY <1>7, SkewFine
<1>8. CASE Handled(h) BY <1>8, HandledFine
<1> QED BY <1>1, <1>2, <1>3, <1>4, <1>5, <1>6, <1>7, <1>8 DEF Reading

LEMMA RouteStays == Next => UNCHANGED route
BY DEF Next, Source, Own, Send, Handshake, Forward, Reading, Break, ReadCmd, ReadFixed,
       ReadCount, ReadLength, ReadFirst, ReadRest, Skew, Handled, wireOnly

LEMMA NextFine == WireInvariant /\ [Next]_vars => WireInvariant'
<1> SUFFICES ASSUME WireInvariant, [Next]_vars PROVE WireInvariant' OBVIOUS
<1>0. 1 \in Hop /\ 2 \in Hop BY DEF Hop
<1>1. CASE Source BY <1>0, <1>1, SourceFine, StepOf, RouteStays DEF Next
<1>2. CASE Own BY <1>0, <1>2, OwnFine, StepOf, RouteStays DEF Next
<1>3. CASE Handshake BY <1>0, <1>3, HandshakeFine, StepOf, RouteStays DEF Next
<1>4. CASE Forward BY <1>4, ForwardFine
<1>5. ASSUME NEW h \in Hop, Reading(h) PROVE WireInvariant'
  <2>1. UNCHANGED route BY <1>5, RouteStays DEF Next
  <2>2. WireTyped' /\ Fine(h)' /\ Others(h) BY <1>5, ReadingFine DEF WireInvariant
  <2> QED BY <2>1, <2>2, StepOf
<1>6. ASSUME NEW h \in Hop, Break(h) PROVE WireInvariant'
  <2>1. UNCHANGED route BY <1>6, RouteStays DEF Next
  <2>2. WireTyped' /\ Fine(h)' /\ Others(h) BY <1>6, BreakFine DEF WireInvariant
  <2> QED BY <2>1, <2>2, StepOf
<1>7. CASE UNCHANGED vars
  <2>1. UNCHANGED <<route, reader, wire, owed, rd, closed, skew, over, sent>>
    BY <1>7 DEF vars
  <2>2. WireTyped'
    BY <2>1 DEF WireInvariant, WireTyped, PairOK, ReaderOK, CountOK, FlagsOK, WireOK, OwedOK,
                ReadersOK, ReaderState, SentBy
  <2>3. ASSUME NEW h \in Hop PROVE Fine(h)'
    <3>1. Fine(h) BY DEF WireInvariant
    <3> QED BY <3>1, <2>1 DEF Fine, Aligned, Reason, InMessage
  <2> QED BY <2>2, <2>3 DEF WireInvariant
<1> QED BY <1>1, <1>2, <1>3, <1>4, <1>5, <1>6, <1>7 DEF Next

(* Of the reachable states of Wire: the cells before each reader are exactly those
   of the messages that it is owed, less what it has read. *)
THEOREM WireInvariantHolds == Spec => []WireInvariant
BY InitFine, NextFine, PTL DEF Spec

(* Every reader knows the kind it reads, every cell has one byte or eight, and every
   message owed is one that its writer can write: whatever strings and counts are
   sent and however the stream is cut. *)
THEOREM WireTypeCorrect == Spec => []TypeOK
<1>1. WireInvariant => TypeOK BY TypedIsTypeOK DEF WireInvariant
<1> QED BY <1>1, WireInvariantHolds, PTL

(* Each pair of hand-written tables of the Go server, the game server and the game
   client agrees: no reader takes a byte for another field, or for the kind of a
   message, as long as no length is larger than its byte can say. *)
THEOREM ReadersInStep == Spec => []InStep
<1>1. WireInvariant => InStep BY DEF WireInvariant, WireTyped, FlagsOK, Fine, Aligned, InStep
<1> QED BY <1>1, WireInvariantHolds, PTL

(* What readString, readData and the loops over lists and buildings return is what
   was written: only what came in two Reads has zeros, or more buildings, in it. *)
THEOREM MessagesAreFaithful == Spec => []Faithful
<1>1. WireInvariant => Faithful
  <2> SUFFICES ASSUME WireInvariant, NEW h \in Hop, ~over[h], rd[h].cmd \notin {"", "pirates!"}
               PROVE  /\ owed[h] # <<>> /\ rd[h].cmd = Head(owed[h]).cmd
                      /\ \A i \in DOMAIN rd[h].got :
                           LET g == rd[h].got[i]
                               m == Head(owed[h])
                           IN /\ g.as \in {g.is, Ignored}
                              /\ g.s # <<>> => SameText(g, m.s)
                              /\ g.n # 0 => IF g.cut THEN g.n >= m.c ELSE g.n = m.c
    BY DEF Faithful
  <2>1. /\ owed[h] # <<>> /\ rd[h].cmd = Head(owed[h]).cmd
        /\ \A i \in DOMAIN rd[h].got : GotRight(rd[h].got[i], Head(owed[h]))
    BY DEF WireInvariant, Fine, Aligned, InMessage
  <2> QED BY <2>1 DEF GotRight
<1> QED BY <1>1, WireInvariantHolds, PTL

(* ReadServerMessage and readMsg close a connection for a kind they do not know only
   after a length that did not fit, readData only for data, and HandlePlayerConn only
   for the greeting. *)
THEOREM ClosingsHaveCause == Spec => []ClosedForCause
<1>1. WireInvariant => ClosedForCause
  <2> SUFFICES ASSUME WireInvariant, NEW h \in Hop
               PROVE  /\ closed[h] = "unknown" => over[h]
                      /\ closed[h] = "handshake" => h = 1 /\ route = "in"
                      /\ closed[h] = "long" =>
                           \/ over[h]
                           \/ owed[h] # <<>> /\ \E i \in DOMAIN rd[h].todo : rd[h].todo[i].k = "data"
    BY DEF ClosedForCause
  <2>1. Aligned(h) /\ Reason(h) BY DEF WireInvariant, Fine
  <2>2. closed[h] = "unknown" => over[h] BY <2>1 DEF Aligned
  <2> QED BY <2>1, <2>2 DEF Reason
<1> QED BY <1>1, WireInvariantHolds, PTL
=============================================================================
