-------------------------- MODULE GameWorldProofs --------------------------
(***************************************************************************)
(* Proofs about GameWorld: its types, the avatars of a player, and the     *)
(* buildings of session and avatar.                                        *)
(***************************************************************************)
EXTENDS GameWorld, FiniteSetTheorems, TLAPS

\* The groups of variables that steps leave alone
USE DEF mainVars, countVars, histVars, worldVars, handled

-----------------------------------------------------------------------------
(* Sequences and messages *)

LEMMA ServerIsPeer == "server" \in Peers /\ "client" \in Peers
BY DEF Peers

\* What is appended to a sequence leaves what it has in its place.
LEMMA Longer ==
  ASSUME NEW S, NEW s \in Seq(S), NEW t \in Seq(S)
  PROVE  /\ s \o t \in Seq(S) /\ Len(s) \in Nat
         /\ \A i \in DOMAIN s : i \in DOMAIN (s \o t) /\ (s \o t)[i] = s[i] /\ i <= Len(s)
         /\ \A k \in DOMAIN t : /\ Len(s) + k \in DOMAIN (s \o t)
                                /\ (s \o t)[Len(s) + k] = t[k]
         /\ \A i \in DOMAIN (s \o t) :
              \/ i \in DOMAIN s
              \/ \E k \in DOMAIN t : i = Len(s) + k
<1>1. PICK n \in Nat, m \in Nat :
        n = Len(s) /\ m = Len(t) /\ DOMAIN s = 1..n /\ DOMAIN t = 1..m
  OBVIOUS
<1>2. s \o t \in Seq(S) /\ DOMAIN (s \o t) = 1..(n + m)
  BY <1>1
<1>3. \A i \in 1..n : i \in 1..(n + m) /\ (s \o t)[i] = s[i] /\ i <= n
  BY <1>1
<1>4. \A k \in 1..m : n + k \in 1..(n + m) /\ (s \o t)[n + k] = t[k]
  BY <1>1
<1>5. ASSUME NEW i \in 1..(n + m), i \notin 1..n PROVE \E k \in 1..m : i = n + k
  <2>1. i - n \in 1..m /\ i = n + (i - n)
    BY <1>5
  <2> QED
    BY <2>1
<1> QED
  BY <1>1, <1>2, <1>3, <1>4, <1>5

LEMMA Shorter ==
  ASSUME NEW S, NEW s \in Seq(S), s # <<>>
  PROVE  /\ Tail(s) \in Seq(S) /\ 1 \in DOMAIN s /\ Head(s) = s[1] /\ Head(s) \in S
         /\ \A i : i \in DOMAIN Tail(s) <=> i \in Nat \ {0} /\ i + 1 \in DOMAIN s
         /\ \A i \in DOMAIN Tail(s) : Tail(s)[i] = s[i + 1]
OBVIOUS

LEMMA MessageKinds ==
  /\ \A m \in Message : /\ m.op \in {"Join", "Leave", "Bld"} /\ m.id \in Players
                        /\ m.op = "Bld" => m.bld \in Buildings
  /\ \A p \in Players :
       /\ Join(p) \in Message /\ Join(p).op = "Join" /\ Join(p).id = p
       /\ Leave(p) \in Message /\ Leave(p).op = "Leave" /\ Leave(p).id = p
       /\ \A b \in Buildings : /\ Bld(p, b) \in Message
                               /\ Bld(p, b).op = "Bld" /\ Bld(p, b).id = p
BY DEF Message, Join, Leave, Bld

-----------------------------------------------------------------------------
(* What the main server sends *)

LEMMA AddWire ==
  ASSUME TypeOK, NEW p \in Players, AddPlayer(p)
  PROVE  /\ wire' \in [Peers -> Seq(Message)]
         /\ \A q \in Peers : \E m \in Seq(Message) :
              /\ wire'[q] = wire[q] \o m
              /\ \A k \in DOMAIN m : m[k].id = p /\ m[k].op # "Bld"
              /\ Len(m) \in DOMAIN m /\ m[Len(m)].op = "Join"
<1>1. PICK m : /\ m = IF p \in inside THEN <<Leave(p), Join(p)>> ELSE <<Join(p)>>
               /\ wire' = [q \in Peers |-> wire[q] \o m]
  BY DEF AddPlayer
<1>2. /\ m \in Seq(Message)
      /\ \A k \in DOMAIN m : m[k] \in {Leave(p), Join(p)}
      /\ Len(m) \in DOMAIN m /\ m[Len(m)] = Join(p)
  BY <1>1, MessageKinds
<1>3. \A q \in Peers : wire[q] \o m \in Seq(Message)
  BY <1>2 DEF TypeOK
<1>4. /\ \A k \in DOMAIN m : m[k].id = p /\ m[k].op # "Bld"
      /\ Len(m) \in DOMAIN m /\ m[Len(m)].op = "Join"
  BY <1>2, MessageKinds
<1>5. wire' \in [Peers -> Seq(Message)] /\ \A q \in Peers : wire'[q] = wire[q] \o m
  BY <1>1, <1>3
<1> QED
  BY <1>2, <1>4, <1>5

LEMMA SyncWire ==
  ASSUME TypeOK, NEW p \in Players, SyncBuildings(p)
  PROVE  /\ wire' \in [Peers -> Seq(Message)] /\ wire'["client"] = wire["client"]
         /\ \E m \in Seq(Message) :
              /\ wire'["server"] = wire["server"] \o m
              /\ \A k \in DOMAIN m : m[k].id = p /\ m[k].op = "Bld"
              /\ m = <<>> <=> sess[p] = <<>>
<1>1. PICK m : /\ m = [i \in DOMAIN sess[p] |-> Bld(p, sess[p][i])]
               /\ wire' = [wire EXCEPT !["server"] = @ \o m]
  BY DEF SyncBuildings
<1>2. sess[p] \in Seq(Buildings)
  BY DEF TypeOK
<1>3. /\ m \in Seq(Message) /\ (m = <<>> <=> sess[p] = <<>>)
      /\ \A k \in DOMAIN m : m[k].id = p /\ m[k].op = "Bld"
  BY <1>1, <1>2, MessageKinds
<1>4. wire \in [Peers -> Seq(Message)] /\ wire["server"] \in Seq(Message)
  BY ServerIsPeer DEF TypeOK
<1>5. wire["server"] \o m \in Seq(Message)
  BY <1>3, <1>4
<1>6. /\ wire' \in [Peers -> Seq(Message)] /\ wire'["client"] = wire["client"]
      /\ wire'["server"] = wire["server"] \o m
  BY <1>1, <1>4, <1>5, ServerIsPeer
<1> QED
  BY <1>3, <1>6

LEMMA PlaceWire ==
  ASSUME TypeOK, NEW p \in Players, Place(p)
  PROVE  /\ wire' \in [Peers -> Seq(Message)] /\ wire'["client"] = wire["client"]
         /\ \E m \in Seq(Message) :
              /\ wire'["server"] = wire["server"] \o m
              /\ \A k \in DOMAIN m : m[k].id = p /\ m[k].op = "Bld"
              /\ m # <<>>
<1>1. PICK m : m = <<Bld(p, placed')>>
  OBVIOUS
<1>2. placed' \in Buildings
  BY WorldAssumption DEF Place, TypeOK, Buildings
<1>3. /\ m \in Seq(Message) /\ m # <<>>
      /\ \A k \in DOMAIN m : m[k].id = p /\ m[k].op = "Bld"
  BY <1>1, <1>2, MessageKinds
<1>4. wire["server"] \in Seq(Message) /\ wire["server"] \o m \in Seq(Message)
  BY <1>3, ServerIsPeer DEF TypeOK
<1>5. wire' = [wire EXCEPT !["server"] = @ \o m]
  <2>1. wire' = [wire EXCEPT !["server"] = Append(@, Bld(p, placed'))]
    BY DEF Place
  <2>2. Append(wire["server"], Bld(p, placed')) = wire["server"] \o m
    BY <1>1, <1>4
  <2> QED
    BY <2>1, <2>2
<1> QED
  BY <1>3, <1>4, <1>5, ServerIsPeer DEF TypeOK

LEMMA QuitWire ==
  ASSUME TypeOK, NEW p \in Players, PlayerQuits(p)
  PROVE  /\ wire' \in [Peers -> Seq(Message)]
         /\ \A q \in Peers : \E m \in Seq(Message) :
              /\ wire'[q] = wire[q] \o m
              /\ \A k \in DOMAIN m : m[k].id = p /\ m[k].op # "Bld"
              /\ Len(m) \in DOMAIN m /\ m[Len(m)].op = "Leave"
<1>1. PICK m : m = <<Leave(p)>>
  OBVIOUS
<1>2. /\ m \in Seq(Message)
      /\ \A k \in DOMAIN m : m[k].id = p /\ m[k].op # "Bld"
      /\ Len(m) \in DOMAIN m /\ m[Len(m)].op = "Leave"
  BY <1>1, MessageKinds
<1>3. \A q \in Peers : wire[q] \in Seq(Message) /\ wire[q] \o m \in Seq(Message)
  BY <1>2 DEF TypeOK
<1>4. \A q \in Peers : wire'[q] = wire[q] \o m
  BY <1>1, <1>3 DEF PlayerQuits
<1>5. wire' \in [Peers -> Seq(Message)]
  BY <1>3, <1>4 DEF PlayerQuits
<1> QED
  BY <1>2, <1>4, <1>5

-----------------------------------------------------------------------------
(* What a program does with its nodes *)

LEMMA HeadIs ==
  ASSUME TypeOK, NEW q \in Peers, NEW op, Handling(q, op)
  PROVE  /\ 1 \in DOMAIN wire[q] /\ Head(wire[q]) = wire[q][1]
         /\ wire[q][1] \in Message /\ wire[q][1].op = op /\ wire[q][1].id \in Players
         /\ op = "Bld" => wire[q][1].bld \in Buildings
<1>1. wire[q] \in Seq(Message) /\ wire[q] # <<>> /\ Head(wire[q]).op = op
  BY DEF TypeOK, Handling
<1>2. 1 \in DOMAIN wire[q] /\ Head(wire[q]) = wire[q][1] /\ Head(wire[q]) \in Message
  BY <1>1, Shorter
<1> QED
  BY <1>1, <1>2, MessageKinds

LEMMA DoneWire ==
  ASSUME TypeOK, NEW q \in Peers, NEW op, Handling(q, op), Done(q)
  PROVE  /\ wire' \in [Peers -> Seq(Message)]
         /\ \A r \in Peers : r # q => wire'[r] = wire[r]
         /\ \A i : i \in DOMAIN wire'[q] <=> i \in Nat \ {0} /\ i + 1 \in DOMAIN wire[q]
         /\ \A i \in DOMAIN wire'[q] : wire'[q][i] = wire[q][i + 1]
<1>1. wire[q] \in Seq(Message) /\ wire[q] # <<>>
  BY DEF TypeOK, Handling
<1>2. wire'[q] = Tail(wire[q]) /\ \A r \in Peers : r # q => wire'[r] = wire[r]
  BY DEF TypeOK, Done
<1>3. Tail(wire[q]) \in Seq(Message)
  BY <1>1, Shorter
<1>4. wire' \in [Peers -> Seq(Message)]
  BY <1>3 DEF TypeOK, Done
<1> QED
  BY <1>1, <1>2, <1>4, Shorter

\* A name that is found is that of one child.
LEMMA GetIs ==
  ASSUME NEW q, NEW p, Has(q, p)
  PROVE  /\ Get(q, p) \in DOMAIN nodes[q]
         /\ nodes[q][Get(q, p)].id = p /\ nodes[q][Get(q, p)].named
BY DEF Has, Get

LEMMA QueueFreed ==
  ASSUME NEW children, children \in [DOMAIN children -> Node], NEW g \in DOMAIN children
  PROVE  /\ DOMAIN QueueFree(children, g) = DOMAIN children
         /\ QueueFree(children, g) \in [DOMAIN children -> Node]
         /\ \A i \in DOMAIN children :
              /\ QueueFree(children, g)[i].id = children[i].id
              /\ QueueFree(children, g)[i].named = children[i].named
              /\ QueueFree(children, g)[i].blds = children[i].blds
              /\ i # g => QueueFree(children, g)[i] = children[i]
         /\ QueueFree(children, g)[g].freed = TRUE
<1>1. children[g] \in Node
  OBVIOUS
<1>2. PICK n : n = [children[g] EXCEPT !.freed = TRUE]
  OBVIOUS
<1>3. /\ n \in Node /\ n.id = children[g].id /\ n.named = children[g].named
      /\ n.blds = children[g].blds /\ n.freed = TRUE
  BY <1>1, <1>2 DEF Node
<1>4. QueueFree(children, g) = [children EXCEPT ![g] = n]
  BY <1>2 DEF QueueFree
<1> QED
  BY <1>3, <1>4

\* The children that are added come after those there are, in the order of ps.
LEMMA ChildrenAdded ==
  ASSUME TypeOK, NEW q \in Peers, NEW children, children \in [DOMAIN children -> Node],
         DOMAIN children \subseteq 1..born[q], NEW ps \in Seq(Players),
         AddChildren(q, children, ps)
  PROVE  /\ nodes' = [r \in Peers |-> nodes'[r]] /\ born' \in [Peers -> Nat]
         /\ \A r \in Peers : r # q => nodes'[r] = nodes[r] /\ born'[r] = born[r]
         /\ nodes'[q] \in [DOMAIN nodes'[q] -> Node] /\ DOMAIN nodes'[q] \subseteq 1..born'[q]
         /\ \A i \in DOMAIN children : i \in DOMAIN nodes'[q] /\ nodes'[q][i] = children[i]
         /\ \A k \in DOMAIN ps :
              /\ born[q] + k \in DOMAIN nodes'[q] \ DOMAIN children
              /\ nodes'[q][born[q] + k] = Child(children, ps, k)
         /\ \A i \in DOMAIN nodes'[q] :
              i \in DOMAIN children \/ \E k \in DOMAIN ps : i = born[q] + k
<1>0. /\ born \in [Peers -> Nat] /\ born[q] \in Nat /\ Len(ps) \in Nat
      /\ nodes = [r \in Peers |-> nodes[r]]
  BY DEF TypeOK
<1>1. PICK b \in Nat, n \in Nat : b = born[q] /\ n = Len(ps)
  BY <1>0
<1>2. PICK f : f = [i \in DOMAIN children \cup (b+1)..(b+n) |->
                      IF i \in DOMAIN children THEN children[i] ELSE Child(children, ps, i - b)]
  OBVIOUS
<1>3. nodes' = [nodes EXCEPT ![q] = f] /\ born' = [born EXCEPT ![q] = b + n]
  BY <1>1, <1>2 DEF AddChildren
<1>4. DOMAIN ps = 1..n /\ DOMAIN children \subseteq 1..b
  BY <1>1
<1>5. \A k \in DOMAIN ps : Child(children, ps, k) \in Node
  <2>1. SUFFICES ASSUME NEW k \in DOMAIN ps PROVE Child(children, ps, k) \in Node
    OBVIOUS
  <2>2. ps[k] \in Players /\ <<>> \in Seq(Buildings)
    OBVIOUS
  <2> QED
    BY <2>2 DEF Child, Node
<1>6. \A k \in DOMAIN ps : /\ b + k \in DOMAIN f \ DOMAIN children
                           /\ f[b + k] = Child(children, ps, k)
  <2>1. SUFFICES ASSUME NEW k \in 1..n
                 PROVE  /\ b + k \in DOMAIN f \ DOMAIN children
                        /\ f[b + k] = Child(children, ps, k)
    BY <1>4
  <2>2. b + k \in (b+1)..(b+n) /\ b + k \notin DOMAIN children /\ (b + k) - b = k
    BY <1>4
  <2> QED
    BY <1>2, <2>2
<1>7. \A i \in DOMAIN f : i \in DOMAIN children \/ \E k \in DOMAIN ps : i = b + k
  <2>1. SUFFICES ASSUME NEW i \in (b+1)..(b+n) PROVE \E k \in 1..n : i = b + k
    BY <1>2, <1>4
  <2>2. i - b \in 1..n /\ i = b + (i - b)
    OBVIOUS
  <2> QED
    BY <2>2
<1>8. \A i \in DOMAIN children : i \in DOMAIN f /\ f[i] = children[i]
  BY <1>2
<1>9. f \in [DOMAIN f -> Node]
  <2>1. \A i \in DOMAIN f : f[i] \in Node
    BY <1>5, <1>6, <1>7, <1>8
  <2>2. f = [i \in DOMAIN f |-> f[i]]
    BY <1>2
  <2> QED
    BY <2>1, <2>2
<1>10. DOMAIN f \subseteq 1..(b + n)
  BY <1>2, <1>4
<1>11. DOMAIN nodes = Peers
  BY <1>0
<1>12. /\ nodes'[q] = f /\ \A r \in Peers : r # q => nodes'[r] = nodes[r]
       /\ nodes' = [r \in Peers |-> nodes'[r]]
  BY <1>3, <1>11
<1>13. /\ born'[q] = b + n /\ \A r \in Peers : r # q => born'[r] = born[r]
       /\ born' \in [Peers -> Nat]
  BY <1>0, <1>3
<1> QED
  BY <1>1, <1>6, <1>7, <1>8, <1>9, <1>10, <1>12, <1>13

-----------------------------------------------------------------------------
(* Types *)

\* What TypeOK says of the children of a program
ChildrenOK(children) ==
  /\ children \in [DOMAIN children -> Node]
  /\ \A i, j \in DOMAIN children :
       children[i].named /\ children[j].named /\ children[i].id = children[j].id => i = j
  /\ \A i \in DOMAIN children : Len(children[i].blds) <= Cap

LEMMA ChildrenAre ==
  ASSUME TypeOK, NEW q \in Peers
  PROVE  ChildrenOK(nodes[q]) /\ DOMAIN nodes[q] \subseteq 1..born[q]
BY DEF TypeOK, ChildrenOK

LEMMA FreedOK ==
  ASSUME NEW children, ChildrenOK(children), NEW g \in DOMAIN children
  PROVE  ChildrenOK(QueueFree(children, g))
<1>1. PICK c : c = QueueFree(children, g)
  OBVIOUS
<1>2. /\ DOMAIN c = DOMAIN children /\ c \in [DOMAIN children -> Node]
      /\ \A i \in DOMAIN children : /\ c[i].id = children[i].id
                                    /\ c[i].named = children[i].named
                                    /\ c[i].blds = children[i].blds
  <2>1. children \in [DOMAIN children -> Node]
    BY DEF ChildrenOK
  <2> QED
    BY <1>1, <2>1, QueueFreed
<1>3. ChildrenOK(c)
  BY <1>2 DEF ChildrenOK
<1> QED
  BY <1>1, <1>3

LEMMA AddedOK ==
  ASSUME TypeOK, NEW q \in Peers, NEW children, ChildrenOK(children),
         DOMAIN children \subseteq 1..born[q], NEW ps \in Seq(Players),
         AddChildren(q, children, ps)
  PROVE  ChildrenOK(nodes'[q]) /\ DOMAIN nodes'[q] \subseteq 1..born'[q]
<1>1. PICK c : c = nodes'[q]
  OBVIOUS
<1>2. PICK b \in Nat, n \in Nat : b = born[q] /\ n = Len(ps)
  <2>1. born[q] \in Nat /\ Len(ps) \in Nat
    BY DEF TypeOK
  <2> QED
    BY <2>1
<1>3. DOMAIN ps = 1..n
  BY <1>2
<1>4. /\ c \in [DOMAIN c -> Node] /\ DOMAIN c \subseteq 1..born'[q]
      /\ \A i \in DOMAIN children : i \in DOMAIN c /\ c[i] = children[i]
      /\ \A k \in 1..n : c[b + k] = Child(children, ps, k)
      /\ \A i \in DOMAIN c : i \in DOMAIN children \/ \E k \in 1..n : i = b + k
  <2>1. children \in [DOMAIN children -> Node]
    BY DEF ChildrenOK
  <2>2. /\ nodes'[q] \in [DOMAIN nodes'[q] -> Node] /\ DOMAIN nodes'[q] \subseteq 1..born'[q]
        /\ \A i \in DOMAIN children : i \in DOMAIN nodes'[q] /\ nodes'[q][i] = children[i]
        /\ \A k \in DOMAIN ps : nodes'[q][born[q] + k] = Child(children, ps, k)
        /\ \A i \in DOMAIN nodes'[q] :
             i \in DOMAIN children \/ \E k \in DOMAIN ps : i = born[q] + k
    BY <2>1, ChildrenAdded
  <2> QED
    BY <1>1, <1>2, <1>3, <2>2
<1>5. \A k \in 1..n : /\ c[b + k].id = ps[k] /\ c[b + k].blds = <<>>
                      /\ c[b + k].named =>
                           /\ \A i \in DOMAIN children :
                                ~(children[i].id = ps[k] /\ children[i].named)
                           /\ \A j \in 1..(k-1) : ps[j] # ps[k]
  <2>1. SUFFICES ASSUME NEW k \in 1..n
                 PROVE  /\ c[b + k].id = ps[k] /\ c[b + k].blds = <<>>
                        /\ c[b + k].named =>
                             /\ \A i \in DOMAIN children :
                                  ~(children[i].id = ps[k] /\ children[i].named)
                             /\ \A j \in 1..(k-1) : ps[j] # ps[k]
    OBVIOUS
  <2>2. c[b + k] = Child(children, ps, k)
    BY <1>4
  <2> QED
    BY <2>2 DEF Child
<1>6. ASSUME NEW i \in DOMAIN c, NEW j \in DOMAIN c,
             c[i].named, c[j].named, c[i].id = c[j].id
      PROVE  i = j
  <2>1. CASE i \in DOMAIN children /\ j \in DOMAIN children
    BY <1>4, <1>6, <2>1 DEF ChildrenOK
  <2>2. CASE i \in DOMAIN children /\ j \notin DOMAIN children
    <3>1. PICK k \in 1..n : j = b + k
      BY <1>4, <2>2
    <3>2. c[i] = children[i]
      BY <1>4, <2>2
    <3> QED
      BY <1>5, <1>6, <2>2, <3>1, <3>2
  <2>3. CASE i \notin DOMAIN children /\ j \in DOMAIN children
    <3>1. PICK k \in 1..n : i = b + k
      BY <1>4, <2>3
    <3>2. c[j] = children[j]
      BY <1>4, <2>3
    <3> QED
      BY <1>5, <1>6, <2>3, <3>1, <3>2
  <2>4. CASE i \notin DOMAIN children /\ j \notin DOMAIN children
    <3>1. PICK k \in 1..n, l \in 1..n : i = b + k /\ j = b + l
      BY <1>4, <2>4
    <3>2. ps[k] = ps[l]
      BY <1>5, <1>6, <3>1
    <3>3. ~(k < l) /\ ~(l < k)
      <4>1. k < l => k \in 1..(l-1)
        OBVIOUS
      <4>2. l < k => l \in 1..(k-1)
        OBVIOUS
      <4> QED
        BY <1>5, <1>6, <3>1, <3>2, <4>1, <4>2
    <3> QED
      BY <3>1, <3>3
  <2> QED
    BY <2>1, <2>2, <2>3, <2>4
<1>7. ASSUME NEW i \in DOMAIN c PROVE Len(c[i].blds) <= Cap
  <2>1. CASE i \in DOMAIN children
    BY <1>4, <2>1 DEF ChildrenOK
  <2>2. CASE \E k \in 1..n : i = b + k
    <3>1. c[i].blds = <<>> /\ Len(<<>>) = 0
      BY <1>5, <2>2
    <3> QED
      BY <3>1, WorldAssumption
  <2> QED
    BY <1>4, <2>1, <2>2
<1>8. ChildrenOK(c)
  BY <1>4, <1>6, <1>7 DEF ChildrenOK
<1> QED
  BY <1>1, <1>4, <1>8

\* What the rest of TypeOK says, of everything but nodes and wire
OthersOK ==
  /\ inside \subseteq Players /\ syncing \subseteq inside
  /\ sess \in [Players -> Seq(Buildings)]
  /\ back \in Seq([id : Players, blds : Seq(Buildings)])
  /\ waiting \in Seq(Players)
  /\ joins \in 0..MaxJoins /\ placed \in 0..MaxPlaced /\ moves \in 0..MaxMoves
  /\ raced \subseteq Peers \X Players /\ adrift \subseteq Players \X Reasons

NodesOK ==
  /\ born \in [Peers -> Nat] /\ nodes = [q \in Peers |-> nodes[q]]
  /\ \A q \in Peers : ChildrenOK(nodes[q]) /\ DOMAIN nodes[q] \subseteq 1..born[q]

LEMMA TypeParts == TypeOK <=> wire \in [Peers -> Seq(Message)] /\ OthersOK /\ NodesOK
BY DEF TypeOK, OthersOK, NodesOK, ChildrenOK

LEMMA TypePartsNext ==
  TypeOK' <=> wire' \in [Peers -> Seq(Message)] /\ OthersOK' /\ NodesOK'
BY DEF TypeOK, OthersOK, NodesOK, ChildrenOK

LEMMA NodesStay == TypeOK /\ nodes' = nodes /\ born' = born => NodesOK'
<1> SUFFICES ASSUME TypeOK, nodes' = nodes, born' = born PROVE NodesOK'
  OBVIOUS
<1>1. NodesOK
  BY TypeParts
<1> QED
  BY <1>1 DEF NodesOK, ChildrenOK

\* One program's children are freed or added, the other's stay.
LEMMA NodesFreed ==
  ASSUME TypeOK, NEW q \in Peers, NEW g \in DOMAIN nodes[q],
         nodes' = [nodes EXCEPT ![q] = QueueFree(@, g)], born' = born
  PROVE  NodesOK'
<1>1. NodesOK /\ ChildrenOK(nodes[q])
  BY TypeParts, ChildrenAre
<1>2. PICK f : f = QueueFree(nodes[q], g)
  OBVIOUS
<1>3. ChildrenOK(f) /\ DOMAIN f = DOMAIN nodes[q]
  BY ZenonT(60), <1>1, <1>2, FreedOK, QueueFreed DEF ChildrenOK
<1>4. nodes' = [nodes EXCEPT ![q] = f]
  BY <1>2
<1>5. DOMAIN nodes = Peers
  BY <1>1 DEF NodesOK
<1>6. nodes'[q] = f /\ (\A r \in Peers : r # q => nodes'[r] = nodes[r])
      /\ nodes' = [r \in Peers |-> nodes'[r]]
  BY <1>4, <1>5
<1>7. \A r \in Peers : ChildrenOK(nodes'[r]) /\ DOMAIN nodes'[r] \subseteq 1..born'[r]
  <2>1. SUFFICES ASSUME NEW r \in Peers
                 PROVE  ChildrenOK(nodes'[r]) /\ DOMAIN nodes'[r] \subseteq 1..born'[r]
    OBVIOUS
  <2>2. DOMAIN nodes[r] \subseteq 1..born[r] /\ ChildrenOK(nodes[r])
    BY ChildrenAre
  <2> QED
    BY <1>3, <1>6, <2>2
<1> QED
  BY <1>1, <1>6, <1>7 DEF NodesOK, ChildrenOK

LEMMA NodesAdded ==
  ASSUME TypeOK, NEW q \in Peers, NEW children, ChildrenOK(children),
         DOMAIN children \subseteq 1..born[q], NEW ps \in Seq(Players),
         AddChildren(q, children, ps)
  PROVE  NodesOK'
<1>1. /\ nodes' = [r \in Peers |-> nodes'[r]] /\ born' \in [Peers -> Nat]
      /\ \A r \in Peers : r # q => nodes'[r] = nodes[r] /\ born'[r] = born[r]
  <2>1. children \in [DOMAIN children -> Node]
    BY DEF ChildrenOK
  <2> QED
    BY <2>1, ChildrenAdded
<1>2. ChildrenOK(nodes'[q]) /\ DOMAIN nodes'[q] \subseteq 1..born'[q]
  BY AddedOK
<1>3. \A r \in Peers : ChildrenOK(nodes'[r]) /\ DOMAIN nodes'[r] \subseteq 1..born'[r]
  <2>1. SUFFICES ASSUME NEW r \in Peers, r # q
                 PROVE  ChildrenOK(nodes'[r]) /\ DOMAIN nodes'[r] \subseteq 1..born'[r]
    BY <1>2
  <2>2. DOMAIN nodes[r] \subseteq 1..born[r] /\ ChildrenOK(nodes[r])
    BY ChildrenAre
  <2> QED
    BY <1>1, <2>1, <2>2
<1> QED
  BY <1>1, <1>3 DEF NodesOK, ChildrenOK

LEMMA MainTypes ==
  ASSUME TypeOK, NEW p \in Players, MainStep(p)
  PROVE  TypeOK'
<1>1. wire' \in [Peers -> Seq(Message)]
  BY AddWire, SyncWire, PlaceWire, QuitWire DEF MainStep, PlayerJoins, ChangeArea
<1>2. NodesOK'
  <2>1. nodes' = nodes /\ born' = born
    BY DEF MainStep, PlayerJoins, SyncBuildings, Place, ChangeArea, PlayerQuits
  <2> QED
    BY <2>1, NodesStay
<1>3. OthersOK
  BY TypeParts
<1>4. CASE PlayerJoins(p)
  <2>1. OthersOK'
    BY <1>3, <1>4, WorldAssumption DEF PlayerJoins, AddPlayer, OthersOK
  <2> QED
    BY <1>1, <1>2, <2>1, TypePartsNext
<1>5. CASE SyncBuildings(p)
  <2>1. OthersOK'
    BY <1>3, <1>5 DEF SyncBuildings, OthersOK, Reasons
  <2> QED
    BY <1>1, <1>2, <2>1, TypePartsNext
<1>6. CASE Place(p)
  <2>1. OthersOK'
    BY <1>3, <1>6, WorldAssumption DEF Place, OthersOK
  <2> QED
    BY <1>1, <1>2, <2>1, TypePartsNext
<1>7. CASE ChangeArea(p)
  <2>1. OthersOK'
    BY <1>3, <1>7, WorldAssumption DEF ChangeArea, AddPlayer, OthersOK, Reasons
  <2> QED
    BY <1>1, <1>2, <2>1, TypePartsNext
<1>8. CASE PlayerQuits(p)
  <2>1. OthersOK'
    BY <1>3, <1>8 DEF PlayerQuits, OthersOK, Reasons
  <2> QED
    BY <1>1, <1>2, <2>1, TypePartsNext
<1> QED
  BY <1>4, <1>5, <1>6, <1>7, <1>8 DEF MainStep

\* A building is handled by the child that the name finds, freed or not.
LEMMA BldHandled ==
  ASSUME TypeOK, HandleBld, NEW p, p = wire["server"][1].id, Has("server", p),
         NEW g, g = Get("server", p)
  PROVE  \E new \in Seq(Buildings) :
           /\ Len(new) <= Cap
           /\ nodes' = [nodes EXCEPT !["server"][g].blds = new]
           /\ back' = Append(back, [id |-> p, blds |-> new])
           /\ IF nodes["server"][g].freed
              THEN adrift' = adrift \cup {<<p, "missed">>} ELSE adrift' = adrift
<1>1. PICK b : b = wire["server"][1].bld
  OBVIOUS
<1>2. /\ Handling("server", "Bld") /\ Head(wire["server"]) = wire["server"][1]
      /\ b \in Buildings
  BY <1>1, HeadIs, ServerIsPeer DEF HandleBld
<1>3. g \in DOMAIN nodes["server"]
  BY <1>1, GetIs
<1>4. PICK old : old = nodes["server"][g].blds
  OBVIOUS
<1>5. old \in Seq(Buildings) /\ Len(old) <= Cap
  <2>1. nodes["server"][g] \in Node /\ Len(nodes["server"][g].blds) <= Cap
    BY <1>3, ChildrenAre, ServerIsPeer DEF ChildrenOK
  <2> QED
    BY <1>4, <2>1 DEF Node
<1>6. PICK new : new = IF Len(old) < Cap THEN Append(old, b) ELSE old
  OBVIOUS
<1>7. new \in Seq(Buildings) /\ Len(new) <= Cap
  <2>1. CASE Len(old) < Cap
    <3>1. Append(old, b) \in Seq(Buildings) /\ Len(Append(old, b)) = Len(old) + 1
      BY <1>2, <1>5
    <3>2. Cap \in Nat /\ Len(old) \in Nat
      BY <1>5, WorldAssumption
    <3> QED
      BY <1>6, <2>1, <3>1, <3>2
  <2>2. CASE ~(Len(old) < Cap)
    BY <1>5, <1>6, <2>2
  <2> QED
    BY <2>1, <2>2
<1>8. /\ nodes' = [nodes EXCEPT !["server"][g].blds = new]
      /\ back' = Append(back, [id |-> p, blds |-> new])
      /\ adrift' = IF nodes["server"][g].freed THEN adrift \cup {<<p, "missed">>} ELSE adrift
  BY <1>1, <1>2, <1>4, <1>6 DEF HandleBld
<1> QED
  BY <1>1, <1>7, <1>8

\* ... and nothing else of it, or of another child, is changed.
LEMMA BldNodes ==
  ASSUME TypeOK, NEW g \in DOMAIN nodes["server"], NEW new \in Seq(Buildings),
         nodes' = [nodes EXCEPT !["server"][g].blds = new]
  PROVE  /\ nodes'["client"] = nodes["client"] /\ nodes' = [q \in Peers |-> nodes'[q]]
         /\ DOMAIN nodes'["server"] = DOMAIN nodes["server"]
         /\ nodes'["server"] \in [DOMAIN nodes["server"] -> Node]
         /\ \A i \in DOMAIN nodes["server"] :
              /\ nodes'["server"][i].id = nodes["server"][i].id
              /\ nodes'["server"][i].named = nodes["server"][i].named
              /\ nodes'["server"][i].freed = nodes["server"][i].freed
              /\ i # g => nodes'["server"][i] = nodes["server"][i]
         /\ nodes'["server"][g].blds = new
<1>1. PICK c : c = nodes["server"]
  OBVIOUS
<1>2. c \in [DOMAIN c -> Node] /\ g \in DOMAIN c
  BY <1>1, ChildrenAre, ServerIsPeer DEF ChildrenOK
<1>3. PICK n : n = [c[g] EXCEPT !.blds = new]
  OBVIOUS
<1>4. c[g] \in Node
  BY <1>2
<1>5. /\ n \in Node /\ n.id = c[g].id /\ n.named = c[g].named
      /\ n.freed = c[g].freed /\ n.blds = new
  BY <1>3, <1>4 DEF Node
<1>6. PICK d : d = [c EXCEPT ![g] = n]
  OBVIOUS
<1>7. nodes' = [nodes EXCEPT !["server"] = d]
  BY <1>1, <1>3, <1>6, SMT
<1>8. DOMAIN nodes = Peers
  BY TypeParts DEF NodesOK
<1>9. /\ nodes'["server"] = d /\ nodes'["client"] = nodes["client"]
      /\ nodes' = [q \in Peers |-> nodes'[q]]
  BY <1>7, <1>8, ServerIsPeer
<1>10. /\ DOMAIN d = DOMAIN c /\ d \in [DOMAIN c -> Node] /\ d[g] = n
       /\ \A i \in DOMAIN c : i # g => d[i] = c[i]
  BY <1>2, <1>5, <1>6
<1> QED
  BY <1>1, <1>5, <1>9, <1>10

LEMMA HandlerTypes ==
  ASSUME TypeOK, NEW q \in Peers, Handler(q)
  PROVE  TypeOK'
<1>0. OthersOK /\ NodesOK /\ (\A r \in Peers : ChildrenOK(nodes[r]))
  BY TypeParts, ChildrenAre
<1>1. PICK p : p = wire[q][1].id
  OBVIOUS
<1>2. /\ p \in Players /\ Head(wire[q]).id = p /\ wire' \in [Peers -> Seq(Message)]
  <2>1. \E op : Handling(q, op) /\ Done(q)
    BY DEF Handler, HandleJoin, HandleBld, ClientJoin, HandleLeave
  <2> QED
    BY SMTT(60), <1>1, <2>1, HeadIs, DoneWire
<1>3. <<p>> \in Seq(Players)
  BY <1>2
<1>4. CASE q = "server" /\ HandleJoin
  <2>1. OthersOK'
    <3>1. waiting' \in Seq(Players)
      <4>1. waiting \in Seq(Players)
        BY <1>0 DEF OthersOK
      <4>2. waiting' = waiting \/ waiting' = Append(waiting, p)
        BY <1>2, <1>4 DEF HandleJoin
      <4> QED
        BY SMTT(60), <1>2, <4>1, <4>2
    <3>2. raced' \subseteq Peers \X Players
      BY <1>0, <1>2, <1>4, ServerIsPeer DEF HandleJoin, Races, OthersOK
    <3> QED
      BY <1>0, <1>4, <3>1, <3>2 DEF HandleJoin, OthersOK
  <2>2. CASE Has("server", p)
    <3>1. /\ Get("server", p) \in DOMAIN nodes["server"]
          /\ nodes' = [nodes EXCEPT !["server"] = QueueFree(@, Get("server", p))]
          /\ born' = born
      BY <1>2, <1>4, <2>2, GetIs DEF HandleJoin
    <3> QED
      BY <1>2, <2>1, <3>1, NodesFreed, TypePartsNext, ServerIsPeer
  <2>3. CASE ~Has("server", p)
    <3>1. AddChildren("server", nodes["server"], <<p>>)
      BY <1>2, <1>4, <2>3 DEF HandleJoin
    <3>2. ChildrenOK(nodes["server"]) /\ DOMAIN nodes["server"] \subseteq 1..born["server"]
      BY ChildrenAre, ServerIsPeer
    <3> QED
      BY <1>2, <1>3, <2>1, <3>1, <3>2, NodesAdded, TypePartsNext, ServerIsPeer
  <2> QED
    BY <2>2, <2>3
<1>5. CASE q = "server" /\ HandleBld
  <2>1. CASE ~Has("server", p)
    <3>1. /\ nodes' = nodes /\ born' = born /\ back' = back
          /\ adrift' = adrift \cup {<<p, "missed">>}
      BY SMTT(60), <1>2, <1>5, <2>1 DEF HandleBld
    <3>2. OthersOK'
      BY <1>0, <1>2, <1>5, <3>1 DEF HandleBld, OthersOK, Reasons
    <3> QED
      BY <1>2, <3>1, <3>2, NodesStay, TypePartsNext
  <2>2. CASE Has("server", p)
    <3>1. PICK g \in DOMAIN nodes["server"], new \in Seq(Buildings) :
            /\ Len(new) <= Cap
            /\ nodes' = [nodes EXCEPT !["server"][g].blds = new]
            /\ back' = Append(back, [id |-> p, blds |-> new])
            /\ adrift' = adrift \cup {<<p, "missed">>} \/ adrift' = adrift
      <4>1. PICK g : g = Get("server", p)
        OBVIOUS
      <4>2. g \in DOMAIN nodes["server"]
        BY <2>2, <4>1, GetIs
      <4>3. PICK new \in Seq(Buildings) :
              /\ Len(new) <= Cap
              /\ nodes' = [nodes EXCEPT !["server"][g].blds = new]
              /\ back' = Append(back, [id |-> p, blds |-> new])
              /\ IF nodes["server"][g].freed
                 THEN adrift' = adrift \cup {<<p, "missed">>} ELSE adrift' = adrift
        BY <1>1, <1>5, <2>2, <4>1, BldHandled
      <4> QED
        BY <4>2, <4>3
    <3>2. OthersOK'
      <4>1. back' \in Seq([id : Players, blds : Seq(Buildings)])
        BY <1>0, <1>2, <3>1 DEF OthersOK
      <4>2. adrift' \subseteq Players \X Reasons
        BY <1>0, <1>2, <3>1 DEF OthersOK, Reasons
      <4> QED
        BY <1>0, <1>5, <4>1, <4>2 DEF HandleBld, OthersOK
    <3>3. /\ nodes'["client"] = nodes["client"] /\ nodes' = [r \in Peers |-> nodes'[r]]
          /\ DOMAIN nodes'["server"] = DOMAIN nodes["server"]
          /\ nodes'["server"] \in [DOMAIN nodes["server"] -> Node]
          /\ \A i \in DOMAIN nodes["server"] :
               /\ nodes'["server"][i].id = nodes["server"][i].id
               /\ nodes'["server"][i].named = nodes["server"][i].named
               /\ i # g => nodes'["server"][i] = nodes["server"][i]
          /\ nodes'["server"][g].blds = new
      BY <3>1, BldNodes
    <3>4. ChildrenOK(nodes'["server"])
      BY <1>0, <3>1, <3>3, ServerIsPeer DEF ChildrenOK
    <3>5. born' = born
      BY <1>5 DEF HandleBld
    <3>6. NodesOK'
      <4>1. \A r \in Peers : ChildrenOK(nodes'[r]) /\ DOMAIN nodes'[r] \subseteq 1..born'[r]
        BY <1>0, <3>3, <3>4, <3>5 DEF Peers, NodesOK
      <4> QED
        BY <1>0, <3>3, <3>5, <4>1 DEF NodesOK, ChildrenOK
    <3> QED
      BY <1>2, <3>2, <3>6, TypePartsNext
  <2> QED
    BY <2>1, <2>2
<1>6. CASE q = "client" /\ ClientJoin
  <2>1. OthersOK'
    <3>1. raced' \subseteq Peers \X Players
      BY <1>0, <1>2, <1>6, ServerIsPeer DEF ClientJoin, OthersOK
    <3> QED
      BY <1>0, <1>6, <3>1 DEF ClientJoin, OthersOK
  <2>2. PICK c : c = IF Has("client", p) THEN QueueFree(nodes["client"], Get("client", p))
                     ELSE nodes["client"]
    OBVIOUS
  <2>3. ChildrenOK(c) /\ DOMAIN c = DOMAIN nodes["client"]
    BY <1>0, <2>2, GetIs, FreedOK, QueueFreed, ServerIsPeer DEF ChildrenOK
  <2>4. AddChildren("client", c, <<p>>)
    BY <1>2, <1>6, <2>2 DEF ClientJoin
  <2>5. DOMAIN c \subseteq 1..born["client"]
    BY <2>3, ChildrenAre, ServerIsPeer
  <2> QED
    BY <1>2, <1>3, <2>1, <2>3, <2>4, <2>5, NodesAdded, TypePartsNext, ServerIsPeer
<1>7. CASE HandleLeave(q)
  <2>1. OthersOK'
    <3>1. raced' \subseteq Peers \X Players
      BY <1>0, <1>2, <1>7 DEF HandleLeave, Races, OthersOK
    <3> QED
      BY <1>0, <1>7, <3>1 DEF HandleLeave, OthersOK
  <2>2. born' = born
    BY <1>7 DEF HandleLeave
  <2>3. CASE Has(q, p)
    <3>1. /\ Get(q, p) \in DOMAIN nodes[q]
          /\ nodes' = [nodes EXCEPT ![q] = QueueFree(@, Get(q, p))]
      BY <1>2, <1>7, <2>3, GetIs DEF HandleLeave
    <3> QED
      BY <1>2, <2>1, <2>2, <3>1, NodesFreed, TypePartsNext
  <2>4. CASE ~Has(q, p)
    <3>1. nodes' = nodes
      BY <1>2, <1>7, <2>4 DEF HandleLeave
    <3> QED
      BY <1>2, <2>1, <2>2, <3>1, NodesStay, TypePartsNext
  <2> QED
    BY <2>3, <2>4
<1> QED
  BY <1>4, <1>5, <1>6, <1>7 DEF Handler

LEMMA KeepTypes ==
  ASSUME TypeOK, KeepBuildings
  PROVE  TypeOK'
<1>1. OthersOK /\ back # <<>>
  BY TypeParts DEF KeepBuildings
<1>2. PICK m : m = Head(back)
  OBVIOUS
<1>3. m.id \in Players /\ m.blds \in Seq(Buildings)
  <2>1. PICK A : A = [id : Players, blds : Seq(Buildings)]
    OBVIOUS
  <2>2. back \in Seq(A)
    BY <1>1, <2>1 DEF OthersOK
  <2>3. m \in A
    BY <1>1, <1>2, <2>2, Shorter
  <2> QED
    BY <2>1, <2>3
<1>4. sess' = IF m.id \in inside THEN [sess EXCEPT ![m.id] = m.blds] ELSE sess
  BY <1>2 DEF KeepBuildings
<1>5. sess' \in [Players -> Seq(Buildings)]
  BY <1>1, <1>3, <1>4 DEF OthersOK
<1>6. back' \in Seq([id : Players, blds : Seq(Buildings)])
  BY <1>1 DEF KeepBuildings, OthersOK
<1>7. OthersOK'
  BY <1>1, <1>5, <1>6 DEF KeepBuildings, OthersOK
<1>8. nodes' = nodes /\ born' = born /\ wire' = wire
  BY DEF KeepBuildings
<1>9. wire' \in [Peers -> Seq(Message)]
  BY <1>8, TypeParts
<1> QED
  BY <1>7, <1>8, <1>9, NodesStay, TypePartsNext

\* Only children that were marked are deleted.
LEMMA DeleteNodes ==
  ASSUME TypeOK, NEW q \in Peers, Delete(q)
  PROVE  /\ nodes' = [r \in Peers |-> nodes'[r]]
         /\ \A r \in Peers : r # q => nodes'[r] = nodes[r]
         /\ DOMAIN nodes'[q] = {i \in DOMAIN nodes[q] : ~nodes[q][i].freed}
         /\ nodes'[q] = [i \in DOMAIN nodes'[q] |-> nodes[q][i]]
<1>1. PICK d : d = [i \in {j \in DOMAIN nodes[q] : ~nodes[q][j].freed} |-> nodes[q][i]]
  OBVIOUS
<1>2. nodes' = [nodes EXCEPT ![q] = d]
  BY <1>1 DEF Delete
<1>3. DOMAIN nodes = Peers
  BY TypeParts DEF NodesOK
<1>4. nodes'[q] = d
  BY <1>2, <1>3
<1>5. DOMAIN d = {i \in DOMAIN nodes[q] : ~nodes[q][i].freed} /\ d = [i \in DOMAIN d |-> nodes[q][i]]
  BY <1>1
<1> QED
  BY <1>2, <1>3, <1>4, <1>5

LEMMA DeleteTypes ==
  ASSUME TypeOK, NEW q \in Peers, Delete(q)
  PROVE  TypeOK'
<1>1. OthersOK' /\ wire' \in [Peers -> Seq(Message)] /\ born' = born
  BY TypeParts DEF Delete, OthersOK
<1>2. ChildrenOK(nodes'[q]) /\ DOMAIN nodes'[q] \subseteq DOMAIN nodes[q]
  <2>1. PICK c, d : c = nodes[q] /\ d = nodes'[q]
    OBVIOUS
  <2>2. /\ DOMAIN d = {i \in DOMAIN c : ~c[i].freed} /\ d = [i \in DOMAIN d |-> c[i]]
        /\ ChildrenOK(c)
    BY <2>1, DeleteNodes, ChildrenAre
  <2>3. \A i \in DOMAIN d : i \in DOMAIN c /\ d[i] = c[i]
    BY <2>2
  <2>4. d \in [DOMAIN d -> Node]
    BY <2>2, <2>3 DEF ChildrenOK
  <2>5. ChildrenOK(d)
    BY <2>2, <2>3, <2>4 DEF ChildrenOK
  <2> QED
    BY <2>1, <2>3, <2>5
<1>3. \A r \in Peers : ChildrenOK(nodes'[r]) /\ DOMAIN nodes'[r] \subseteq 1..born'[r]
  <2>1. SUFFICES ASSUME NEW r \in Peers
                 PROVE  ChildrenOK(nodes'[r]) /\ DOMAIN nodes'[r] \subseteq 1..born'[r]
    OBVIOUS
  <2>2. DOMAIN nodes[r] \subseteq 1..born[r] /\ ChildrenOK(nodes[r])
    BY ChildrenAre
  <2> QED
    BY <1>1, <1>2, <2>2, DeleteNodes
<1>4. NodesOK'
  BY <1>1, <1>3, DeleteNodes, TypeParts DEF NodesOK, ChildrenOK
<1> QED
  BY <1>1, <1>4, TypePartsNext

LEMMA IdleTypes ==
  ASSUME TypeOK, IdleFrame
  PROVE  TypeOK'
<1>1. /\ OthersOK' /\ wire' \in [Peers -> Seq(Message)] /\ waiting \in Seq(Players)
  <2>1. <<>> \in Seq(Players)
    OBVIOUS
  <2> QED
    BY <2>1, TypeParts DEF IdleFrame, OthersOK
<1>2. ChildrenOK(nodes["server"]) /\ DOMAIN nodes["server"] \subseteq 1..born["server"]
  BY ChildrenAre, ServerIsPeer
<1>3. AddChildren("server", nodes["server"], waiting)
  BY DEF IdleFrame
<1>4. NodesOK'
  BY <1>1, <1>2, <1>3, NodesAdded, ServerIsPeer
<1> QED
  BY <1>1, <1>4, TypePartsNext

LEMMA Start == Init => TypeOK /\ AvatarInv
<1> SUFFICES ASSUME Init PROVE TypeOK /\ AvatarInv
  OBVIOUS
<1>1. /\ \A q \in Peers : wire[q] = <<>> /\ nodes[q] = <<>> /\ born[q] = 0
      /\ wire \in [Peers -> Seq(Message)] /\ born \in [Peers -> Nat]
      /\ nodes = [q \in Peers |-> nodes[q]]
  BY DEF Init
<1>2. DOMAIN <<>> = {}
  OBVIOUS
<1>3. \A q \in Peers : ChildrenOK(nodes[q]) /\ DOMAIN nodes[q] \subseteq 1..born[q]
  <2>1. SUFFICES ASSUME NEW q \in Peers
                 PROVE  ChildrenOK(nodes[q]) /\ DOMAIN nodes[q] \subseteq 1..born[q]
    OBVIOUS
  <2>2. nodes[q] = <<>>
    BY <1>1
  <2>3. <<>> \in [DOMAIN <<>> -> Node]
    OBVIOUS
  <2> QED
    BY <1>2, <2>2, <2>3 DEF ChildrenOK
<1>4. OthersOK
  BY WorldAssumption DEF Init, OthersOK
<1>5. TypeOK
  BY <1>1, <1>3, <1>4, TypeParts DEF NodesOK, ChildrenOK
<1>6. \A q \in Peers : \A p \in Players : Pending(q, p) = {} /\ Avatars(q, p) = {}
  BY <1>1, <1>2 DEF Pending, Avatars
<1>7. \A p \in Players : Sent(p) = {} /\ Answered(p) = {}
  BY <1>1, <1>2, ServerIsPeer DEF Init, Sent, Answered
<1>8. inside = {} /\ syncing = {} /\ waiting = <<>> /\ \A p \in Players : sess[p] = <<>>
  BY DEF Init
<1>9. LastIsTrue /\ AvatarStays
  BY <1>6, <1>8 DEF LastIsTrue, AvatarStays
<1>10. AvatarIsNamed
  BY <1>2, <1>6, <1>8 DEF AvatarIsNamed, Waits
<1>11. BuildingsFollow
  BY <1>7, <1>8 DEF BuildingsFollow
<1> QED
  BY <1>5, <1>9, <1>10, <1>11 DEF AvatarInv

LEMMA TypeStep == TypeOK /\ [Next]_vars => TypeOK'
<1> SUFFICES ASSUME TypeOK, [Next]_vars PROVE TypeOK'
  OBVIOUS
<1>1. CASE UNCHANGED vars
  BY <1>1, TypePartsNext, TypeParts, NodesStay DEF vars, OthersOK
<1>2. CASE Next
  BY <1>2, MainTypes, HandlerTypes, KeepTypes, DeleteTypes, IdleTypes DEF Next
<1> QED
  BY <1>1, <1>2

\* Every variable of the main server and of the Godot programs keeps its type, no
\* name is given to two children, and an avatar has at most Cap buildings.
THEOREM WorldTyped == Spec => []TypeOK
<1>1. Init => TypeOK
  BY Start
<1> QED
  BY <1>1, TypeStep, PTL DEF Spec

-----------------------------------------------------------------------------
(* The order of what is on the way *)

LEMMA PendingIs ==
  \A q, p, i : i \in Pending(q, p) <=>
                 i \in DOMAIN wire[q] /\ wire[q][i].id = p /\ wire[q][i].op # "Bld"
BY DEF Pending

LEMMA PendingIsNext ==
  \A q, p, i : i \in Pending(q, p)' <=>
                 i \in DOMAIN wire'[q] /\ wire'[q][i].id = p /\ wire'[q][i].op # "Bld"
BY DEF Pending

LEMMA SentIs ==
  \A p, i : i \in Sent(p) <=> /\ i \in DOMAIN wire["server"]
                              /\ wire["server"][i].id = p /\ wire["server"][i].op = "Bld"
BY DEF Sent

LEMMA SentIsNext ==
  \A p, i : i \in Sent(p)' <=> /\ i \in DOMAIN wire'["server"]
                               /\ wire'["server"][i].id = p /\ wire'["server"][i].op = "Bld"
BY DEF Sent

\* What is sent comes after all that is on the way, the first n messages.
Grown(q, p, m, n) ==
  /\ \A i \in Pending(q, p) : i \in Pending(q, p)' /\ wire'[q][i] = wire[q][i]
                              /\ i <= n /\ i \in Nat
  /\ \A i \in Pending(q, p)' :
       \/ i \in Pending(q, p)
       \/ \E k \in DOMAIN m : /\ i = n + k /\ wire'[q][i] = m[k]
                              /\ m[k].id = p /\ m[k].op # "Bld"
  /\ \A k \in DOMAIN m : m[k].id = p /\ m[k].op # "Bld" =>
       n + k \in Pending(q, p)' /\ wire'[q][n + k] = m[k]

LEMMA Sending ==
  ASSUME TypeOK, NEW q \in Peers, NEW m \in Seq(Message), wire'[q] = wire[q] \o m,
         NEW p \in Players
  PROVE  Grown(q, p, m, Len(wire[q])) /\ Len(wire[q]) \in Nat
<1>1. wire[q] \in Seq(Message)
  BY TypeParts
<1>2. PICK n \in Nat : n = Len(wire[q]) /\ DOMAIN wire[q] = 1..n
  BY <1>1
<1>3. /\ \A i \in DOMAIN wire[q] : i \in DOMAIN wire'[q] /\ wire'[q][i] = wire[q][i] /\ i <= n
      /\ \A k \in DOMAIN m : n + k \in DOMAIN wire'[q] /\ wire'[q][n + k] = m[k]
      /\ \A i \in DOMAIN wire'[q] : i \in DOMAIN wire[q] \/ \E k \in DOMAIN m : i = n + k
  BY <1>1, <1>2, Longer
<1>4. \A i \in DOMAIN wire[q] : i \in Nat
  BY <1>2
<1>5. \A i \in Pending(q, p) : i \in Pending(q, p)' /\ wire'[q][i] = wire[q][i]
                                 /\ i <= n /\ i \in Nat
  BY <1>3, <1>4 DEF Pending
<1>6. ASSUME NEW i \in Pending(q, p)'
      PROVE  \/ i \in Pending(q, p)
             \/ \E k \in DOMAIN m : /\ i = n + k /\ wire'[q][i] = m[k]
                                    /\ m[k].id = p /\ m[k].op # "Bld"
  <2>1. i \in DOMAIN wire'[q] /\ wire'[q][i].id = p /\ wire'[q][i].op # "Bld"
    BY <1>6 DEF Pending
  <2>2. CASE i \in DOMAIN wire[q]
    BY <1>3, <2>1, <2>2 DEF Pending
  <2>3. CASE \E k \in DOMAIN m : i = n + k
    BY <1>3, <2>1, <2>3
  <2> QED
    BY <1>3, <2>1, <2>2, <2>3
<1>7. \A k \in DOMAIN m : m[k].id = p /\ m[k].op # "Bld" =>
        n + k \in Pending(q, p)' /\ wire'[q][n + k] = m[k]
  BY <1>3 DEF Pending
<1>8. Grown(q, p, m, n)
  BY <1>5, <1>6, <1>7 DEF Grown
<1> QED
  BY <1>2, <1>8

BldsGrown(p, m, n) ==
  /\ \A i \in Sent(p) : i \in Sent(p)' /\ i <= n /\ i \in Nat
  /\ \A i \in Sent(p)' :
       \/ i \in Sent(p)
       \/ \E k \in DOMAIN m : i = n + k /\ m[k].id = p /\ m[k].op = "Bld"
                              /\ k \in Nat \ {0}
  /\ \A k \in DOMAIN m : m[k].id = p /\ m[k].op = "Bld" => n + k \in Sent(p)'

LEMMA SendingBlds ==
  ASSUME TypeOK, NEW m \in Seq(Message), wire'["server"] = wire["server"] \o m,
         NEW p \in Players
  PROVE  BldsGrown(p, m, Len(wire["server"])) /\ Len(wire["server"]) \in Nat
<1>1. wire["server"] \in Seq(Message)
  BY TypeParts, ServerIsPeer
<1>2. PICK n \in Nat : n = Len(wire["server"]) /\ DOMAIN wire["server"] = 1..n
  BY <1>1
<1>3. /\ \A i \in DOMAIN wire["server"] :
           /\ i \in DOMAIN wire'["server"] /\ i <= n
           /\ wire'["server"][i] = wire["server"][i]
      /\ \A k \in DOMAIN m : /\ n + k \in DOMAIN wire'["server"]
                             /\ wire'["server"][n + k] = m[k]
      /\ \A i \in DOMAIN wire'["server"] :
           i \in DOMAIN wire["server"] \/ \E k \in DOMAIN m : i = n + k
  BY <1>1, <1>2, Longer
<1>4. (\A i \in DOMAIN wire["server"] : i \in Nat) /\ \A k \in DOMAIN m : k \in Nat \ {0}
  BY <1>2
<1>5. \A i \in Sent(p) : i \in Sent(p)' /\ i <= n /\ i \in Nat
  BY <1>3, <1>4 DEF Sent
<1>6. ASSUME NEW i \in Sent(p)'
      PROVE  \/ i \in Sent(p)
             \/ \E k \in DOMAIN m : i = n + k /\ m[k].id = p /\ m[k].op = "Bld"
                                    /\ k \in Nat \ {0}
  <2>1. i \in DOMAIN wire'["server"] /\ wire'["server"][i].id = p
        /\ wire'["server"][i].op = "Bld"
    BY <1>6 DEF Sent
  <2>2. CASE i \in DOMAIN wire["server"]
    BY <1>3, <2>1, <2>2 DEF Sent
  <2>3. CASE \E k \in DOMAIN m : i = n + k
    BY <1>3, <1>4, <2>1, <2>3
  <2> QED
    BY <1>3, <2>1, <2>2, <2>3
<1>7. \A k \in DOMAIN m : m[k].id = p /\ m[k].op = "Bld" => n + k \in Sent(p)'
  BY <1>3 DEF Sent
<1>8. BldsGrown(p, m, n)
  BY <1>5, <1>6, <1>7 DEF BldsGrown
<1> QED
  BY <1>2, <1>8

\* What is handled was the first.
Shifted(q, p, op) ==
  /\ \A i \in Pending(q, p) : i = 1 \/ (i - 1 \in Pending(q, p)' /\ i \in Nat)
  /\ \A i \in Pending(q, p)' : /\ i + 1 \in Pending(q, p) /\ i \in Nat
                               /\ wire'[q][i] = wire[q][i + 1]
  /\ \A r \in Peers : r # q => Pending(r, p)' = Pending(r, p) /\ wire'[r] = wire[r]
  /\ 1 \in Pending(q, p) <=> (wire[q][1].id = p /\ op # "Bld")

LEMMA Handled ==
  ASSUME TypeOK, NEW q \in Peers, NEW op, Handling(q, op), Done(q), NEW p \in Players
  PROVE  Shifted(q, p, op)
<1>1. wire[q] \in Seq(Message)
  BY TypeParts
<1>2. PICK n \in Nat : n = Len(wire[q]) /\ DOMAIN wire[q] = 1..n
  BY <1>1
<1>3. /\ \A r \in Peers : r # q => wire'[r] = wire[r]
      /\ \A i : i \in DOMAIN wire'[q] <=> i \in Nat \ {0} /\ i + 1 \in DOMAIN wire[q]
      /\ \A i \in DOMAIN wire'[q] : wire'[q][i] = wire[q][i + 1]
  BY DoneWire
<1>4. 1 \in DOMAIN wire[q] /\ wire[q][1].op = op
  BY HeadIs
<1>5. \A i \in Pending(q, p)' : /\ i + 1 \in Pending(q, p) /\ i \in Nat
                                /\ wire'[q][i] = wire[q][i + 1]
  BY <1>3, PendingIs, PendingIsNext
<1>6. ASSUME NEW i \in Pending(q, p), i # 1 PROVE i - 1 \in Pending(q, p)' /\ i \in Nat
  <2>1. i \in 1..n /\ wire[q][i].id = p /\ wire[q][i].op # "Bld"
    BY <1>2, PendingIs
  <2>2. i - 1 \in Nat \ {0} /\ (i - 1) + 1 = i /\ i \in Nat
    BY <1>6, <2>1
  <2>3. i - 1 \in DOMAIN wire'[q] /\ wire'[q][i - 1] = wire[q][i]
    BY <1>2, <1>3, <2>1, <2>2
  <2> QED
    BY <2>1, <2>2, <2>3, PendingIsNext
<1>7. \A r \in Peers : r # q => Pending(r, p)' = Pending(r, p)
  BY <1>3 DEF Pending
<1> QED
  BY <1>3, <1>4, <1>5, <1>6, <1>7, PendingIs DEF Shifted

BldsShifted(q, p, op) ==
  /\ q = "server" =>
       /\ \A i \in Sent(p) : i = 1 \/ (i - 1 \in Sent(p)' /\ i \in Nat)
       /\ \A i \in Sent(p)' : i + 1 \in Sent(p) /\ i \in Nat
       /\ 1 \in Sent(p) <=> (wire["server"][1].id = p /\ op = "Bld")
  /\ q # "server" => Sent(p)' = Sent(p)

LEMMA HandledBlds ==
  ASSUME TypeOK, NEW q \in Peers, NEW op, Handling(q, op), Done(q), NEW p \in Players
  PROVE  BldsShifted(q, p, op)
<1>1. CASE q # "server"
  <2>1. wire'["server"] = wire["server"]
    BY <1>1, DoneWire, ServerIsPeer
  <2>2. Sent(p)' = Sent(p)
    BY <2>1 DEF Sent
  <2> QED
    BY <1>1, <2>2 DEF BldsShifted
<1>2. CASE q = "server"
  <2>1. wire[q] \in Seq(Message)
    BY TypeParts
  <2>2. PICK n \in Nat : n = Len(wire[q]) /\ DOMAIN wire[q] = 1..n
    BY <2>1
  <2>3. /\ \A i : i \in DOMAIN wire'[q] <=> i \in Nat \ {0} /\ i + 1 \in DOMAIN wire[q]
        /\ \A i \in DOMAIN wire'[q] : wire'[q][i] = wire[q][i + 1]
    BY DoneWire
  <2>4. 1 \in DOMAIN wire[q] /\ wire[q][1].op = op
    BY HeadIs
  <2>5. ASSUME NEW i \in Sent(p), i # 1 PROVE i - 1 \in Sent(p)' /\ i \in Nat
    <3>1. i \in 1..n /\ wire[q][i].id = p /\ wire[q][i].op = "Bld"
      BY <1>2, <2>2, SentIs
    <3>2. i - 1 \in Nat \ {0} /\ (i - 1) + 1 = i /\ i \in Nat
      BY <2>5, <3>1
    <3>3. i - 1 \in DOMAIN wire'[q] /\ wire'[q][i - 1] = wire[q][i]
      BY <2>2, <2>3, <3>1, <3>2
    <3> QED
      BY <1>2, <3>1, <3>2, <3>3, SentIsNext
  <2>6. \A i \in Sent(p)' : i + 1 \in Sent(p) /\ i \in Nat
    BY <1>2, <2>3, SentIs, SentIsNext
  <2> QED
    BY <1>2, <2>4, <2>5, <2>6, SentIs DEF BldsShifted
<1> QED
  BY <1>1, <1>2

-----------------------------------------------------------------------------
(* The last message says whether a player is on the shard *)

LastOf(q, p) ==
  \A i \in Pending(q, p) :
    (\A j \in Pending(q, p) : j <= i) => (wire[q][i].op = "Join" <=> p \in inside)

LEMMA LastIsOfEach == LastIsTrue <=> \A q \in Peers : \A p \in Players : LastOf(q, p)
BY DEF LastIsTrue, LastOf

LEMMA LastIsOfEachNext ==
  LastIsTrue' <=> \A q \in Peers : \A p \in Players : LastOf(q, p)'
BY DEF LastIsTrue, LastOf

\* A Join or Leave that is sent is the last of its player.
LEMMA LastSent ==
  ASSUME TypeOK, NEW q \in Peers, NEW m \in Seq(Message),
         wire'[q] = wire[q] \o m, NEW p \in Players,
         \A k \in DOMAIN m : m[k].id = p /\ m[k].op # "Bld", Len(m) \in DOMAIN m,
         m[Len(m)].op = "Join" <=> p \in inside', inside' \ {p} = inside \ {p},
         NEW o \in Players, LastOf(q, o)
  PROVE  LastOf(q, o)'
<1> SUFFICES ASSUME NEW i \in Pending(q, o)', \A j \in Pending(q, o)' : j <= i
             PROVE  wire'[q][i].op = "Join" <=> o \in inside'
  BY DEF LastOf
<1>1. PICK n \in Nat, l \in Nat :
        n = Len(wire[q]) /\ l = Len(m) /\ DOMAIN m = 1..l /\ Grown(q, o, m, n)
  <2>1. Grown(q, o, m, Len(wire[q])) /\ Len(wire[q]) \in Nat
    BY Sending
  <2> QED
    BY <2>1
<1>2. CASE o = p
  <2>1. l \in 1..l /\ m[l].id = p /\ m[l].op # "Bld"
    BY <1>1
  <2>2. n + l \in Pending(q, o)' /\ wire'[q][n + l] = m[l]
    BY <1>1, <1>2, <2>1 DEF Grown
  <2>3. n + l <= i
    BY <2>2
  <2>4. (i <= n /\ i \in Nat) \/ \E k \in 1..l : i = n + k
    BY <1>1 DEF Grown
  <2>5. i = n + l
    <3>1. CASE i <= n /\ i \in Nat
      BY <2>1, <2>3, <3>1
    <3>2. ASSUME NEW k \in 1..l, i = n + k PROVE i = n + l
      BY <2>3, <3>2
    <3> QED
      BY <2>4, <3>1, <3>2
  <2> QED
    BY <1>1, <1>2, <2>2, <2>5
<1>3. CASE o # p
  <2>1. i \in Pending(q, o) /\ wire'[q][i] = wire[q][i]
    BY <1>1, <1>3 DEF Grown
  <2>2. \A j \in Pending(q, o) : j <= i
    BY <1>1 DEF Grown
  <2> QED
    BY <1>3, <2>1, <2>2 DEF LastOf
<1> QED
  BY <1>2, <1>3

LEMMA LastStep ==
  ASSUME TypeOK, LastIsTrue, [Next]_vars
  PROVE  LastIsTrue'
<1> SUFFICES ASSUME NEW q \in Peers, NEW o \in Players, LastOf(q, o)
             PROVE  LastOf(q, o)'
  BY LastIsOfEach, LastIsOfEachNext
<1>1. CASE wire'[q] = wire[q] /\ inside' = inside
  BY <1>1 DEF LastOf, Pending
<1>2. ASSUME NEW p \in Players, AddPlayer(p) PROVE LastOf(q, o)'
  <2>1. PICK m \in Seq(Message) :
          /\ wire'[q] = wire[q] \o m
          /\ \A k \in DOMAIN m : m[k].id = p /\ m[k].op # "Bld"
          /\ Len(m) \in DOMAIN m /\ m[Len(m)].op = "Join"
    BY ZenonT(60), <1>2, AddWire
  <2>2. inside' \ {p} = inside \ {p} /\ p \in inside'
    BY <1>2 DEF AddPlayer
  <2>3. m[Len(m)].op = "Join" <=> p \in inside'
    BY <2>1, <2>2
  <2> QED
    BY <2>1, <2>2, <2>3, LastSent
<1>3. ASSUME NEW p \in Players, PlayerQuits(p) PROVE LastOf(q, o)'
  <2>1. PICK m \in Seq(Message) :
          /\ wire'[q] = wire[q] \o m
          /\ \A k \in DOMAIN m : m[k].id = p /\ m[k].op # "Bld"
          /\ Len(m) \in DOMAIN m /\ m[Len(m)].op = "Leave"
    BY ZenonT(60), <1>3, QuitWire
  <2>2. inside' \ {p} = inside \ {p} /\ p \notin inside'
    BY <1>3 DEF PlayerQuits
  <2>3. m[Len(m)].op = "Join" <=> p \in inside'
    BY <2>1, <2>2
  <2> QED
    BY <2>1, <2>2, <2>3, LastSent
<1>4. ASSUME NEW p \in Players, SyncBuildings(p) \/ Place(p) PROVE LastOf(q, o)'
  <2>1. /\ inside' = inside /\ wire'["client"] = wire["client"]
        /\ \E m \in Seq(Message) : /\ wire'["server"] = wire["server"] \o m
                                   /\ \A k \in DOMAIN m : m[k].op = "Bld"
    <3>1. CASE SyncBuildings(p)
      <4>1. inside' = inside
        BY <3>1 DEF SyncBuildings
      <4>2. PICK m \in Seq(Message) :
              /\ wire'["server"] = wire["server"] \o m
              /\ \A k \in DOMAIN m : m[k].id = p /\ m[k].op = "Bld"
              /\ m = <<>> <=> sess[p] = <<>>
        BY <3>1, SyncWire
      <4> QED
        BY <3>1, <4>1, <4>2, SyncWire
    <3>2. CASE Place(p)
      <4>1. inside' = inside
        BY <3>2 DEF Place
      <4>2. PICK m \in Seq(Message) : /\ wire'["server"] = wire["server"] \o m
                                      /\ \A k \in DOMAIN m : m[k].op = "Bld"
        BY <3>2, PlaceWire
      <4> QED
        BY <3>2, <4>1, <4>2, PlaceWire
    <3> QED
      BY <1>4, <3>1, <3>2
  <2>2. CASE q = "server"
    <3>1. PICK m \in Seq(Message) :
            wire'[q] = wire[q] \o m /\ \A k \in DOMAIN m : m[k].op = "Bld"
      BY <2>1, <2>2
    <3>2. Grown(q, o, m, Len(wire[q]))
      BY <3>1, Sending
    <3> QED
      BY <2>1, <3>1, <3>2 DEF LastOf, Grown
  <2> QED
    BY <1>1, <2>1, <2>2 DEF Peers
<1>5. ASSUME NEW r \in Peers, Handler(r) PROVE LastOf(q, o)'
  <2>1. PICK op : Handling(r, op) /\ Done(r)
    BY SMTT(60), <1>5 DEF Handler, HandleJoin, HandleBld, ClientJoin, HandleLeave
  <2>2. inside' = inside
    BY <1>5 DEF Handler, HandleJoin, HandleBld, ClientJoin, HandleLeave
  <2>3. CASE q # r
    BY <1>1, <2>1, <2>2, <2>3, DoneWire
  <2>4. CASE q = r
    <3>0. Shifted(q, o, op)
      BY <2>1, <2>4, Handled
    <3>1. SUFFICES ASSUME NEW i \in Pending(q, o)', \A j \in Pending(q, o)' : j <= i
                   PROVE  wire'[q][i].op = "Join" <=> o \in inside
      BY <2>2 DEF LastOf
    <3>2. /\ i + 1 \in Pending(q, o) /\ i \in Nat /\ wire'[q][i] = wire[q][i + 1]
          /\ \A j \in Pending(q, o) : j = 1 \/ (j - 1 \in Pending(q, o)' /\ j \in Nat)
      BY <3>0 DEF Shifted
    <3>3. \A j \in Pending(q, o) : j <= i + 1
      <4>1. SUFFICES ASSUME NEW j \in Pending(q, o) PROVE j <= i + 1
        OBVIOUS
      <4>2. CASE j = 1
        BY <3>2, <4>2
      <4>3. CASE j - 1 \in Pending(q, o)' /\ j \in Nat
        <5>1. j - 1 <= i
          BY <3>1, <4>3
        <5> QED
          BY <3>2, <4>3, <5>1
      <4> QED
        BY <3>2, <4>2, <4>3
    <3> QED
      BY <3>2, <3>3 DEF LastOf
  <2> QED
    BY <2>3, <2>4
<1> QED
  BY <1>1, <1>2, <1>3, <1>4, <1>5
     DEF Next, MainStep, PlayerJoins, ChangeArea, KeepBuildings, IdleFrame, Delete, vars

-----------------------------------------------------------------------------
(* What the handlers do to the avatars of a player *)

LEMMA FreeNodes ==
  ASSUME TypeOK, NEW q \in Peers, NEW g \in DOMAIN nodes[q],
         nodes' = [nodes EXCEPT ![q] = QueueFree(@, g)]
  PROVE  /\ \A r \in Peers : r # q => nodes'[r] = nodes[r]
         /\ DOMAIN nodes'[q] = DOMAIN nodes[q]
         /\ \A i \in DOMAIN nodes[q] :
              /\ nodes'[q][i].id = nodes[q][i].id
              /\ nodes'[q][i].named = nodes[q][i].named
              /\ i # g => nodes'[q][i] = nodes[q][i]
         /\ nodes'[q][g].freed = TRUE
<1>1. PICK f : f = QueueFree(nodes[q], g)
  OBVIOUS
<1>2. nodes[q] \in [DOMAIN nodes[q] -> Node]
  BY ChildrenAre DEF ChildrenOK
<1>3. /\ DOMAIN f = DOMAIN nodes[q] /\ f[g].freed = TRUE
      /\ \A i \in DOMAIN nodes[q] : /\ f[i].id = nodes[q][i].id
                                    /\ f[i].named = nodes[q][i].named
                                    /\ i # g => f[i] = nodes[q][i]
  BY <1>1, <1>2, QueueFreed
<1>4. nodes' = [nodes EXCEPT ![q] = f] /\ DOMAIN nodes = Peers
  BY <1>1, TypeParts DEF NodesOK
<1>5. nodes'[q] = f /\ \A r \in Peers : r # q => nodes'[r] = nodes[r]
  BY <1>4
<1> QED
  BY <1>3, <1>5

\* One child is added, p's.
Added(q, children, p) ==
  \E n : /\ n \notin DOMAIN children /\ DOMAIN nodes'[q] = DOMAIN children \cup {n}
         /\ nodes'[q][n].id = p /\ nodes'[q][n].freed = FALSE
         /\ nodes'[q][n].blds = <<>>
         /\ nodes'[q][n].named <=>
              ~ \E i \in DOMAIN children : children[i].id = p /\ children[i].named
         /\ \A i \in DOMAIN children : nodes'[q][i] = children[i]

LEMMA OneAdded ==
  ASSUME TypeOK, NEW q \in Peers, NEW children, ChildrenOK(children),
         DOMAIN children \subseteq 1..born[q], NEW p \in Players,
         AddChildren(q, children, <<p>>)
  PROVE  /\ \A r \in Peers : r # q => nodes'[r] = nodes[r]
         /\ Added(q, children, p)
<1>1. PICK ps : ps = <<p>>
  OBVIOUS
<1>2. ps \in Seq(Players) /\ DOMAIN ps = {1} /\ ps[1] = p
  BY <1>1
<1>3. children \in [DOMAIN children -> Node] /\ AddChildren(q, children, ps)
  BY <1>1 DEF ChildrenOK
<1>4. /\ \A r \in Peers : r # q => nodes'[r] = nodes[r]
      /\ \A i \in DOMAIN children : i \in DOMAIN nodes'[q] /\ nodes'[q][i] = children[i]
      /\ \A k \in DOMAIN ps : /\ born[q] + k \in DOMAIN nodes'[q] \ DOMAIN children
                              /\ nodes'[q][born[q] + k] = Child(children, ps, k)
      /\ \A i \in DOMAIN nodes'[q] :
           i \in DOMAIN children \/ \E k \in DOMAIN ps : i = born[q] + k
  <2>1. ps \in Seq(Players) /\ children \in [DOMAIN children -> Node]
        /\ AddChildren(q, children, ps)
    BY <1>2, <1>3
  <2> QED
    BY <2>1, ChildrenAdded
<1>5. PICK n : n = born[q] + 1
  OBVIOUS
<1>6. /\ n \in DOMAIN nodes'[q] \ DOMAIN children
      /\ nodes'[q][n] = Child(children, ps, 1)
      /\ DOMAIN nodes'[q] = DOMAIN children \cup {n}
  BY <1>2, <1>4, <1>5
<1>7. PICK c : c = Child(children, ps, 1)
  OBVIOUS
<1>8. /\ c.id = p /\ c.freed = FALSE /\ c.blds = <<>>
      /\ c.named <=> ~ \E i \in DOMAIN children : children[i].id = p /\ children[i].named
  <2>1. \A j \in 1..(1 - 1) : ps[j] # ps[1]
    OBVIOUS
  <2> QED
    BY <1>2, <1>7, <2>1 DEF Child
<1> QED
  BY <1>4, <1>6, <1>7, <1>8 DEF Added

\* The avatars of p in one program are not touched.
Untouched(q, p) ==
  /\ Avatars(q, p)' = Avatars(q, p)
  /\ \A i \in Avatars(q, p) : nodes'[q][i] = nodes[q][i]

LEMMA SameNodes ==
  ASSUME NEW q, NEW p, nodes'[q] = nodes[q]
  PROVE  Untouched(q, p)
BY DEF Untouched, Avatars

\* A child of p is freed
LEMMA FreeTouches ==
  ASSUME TypeOK, NEW q \in Peers, NEW p, Has(q, p),
         nodes' = [nodes EXCEPT ![q] = QueueFree(@, Get(q, p))],
         NEW r \in Peers, NEW o \in Players, r # q \/ o # p
  PROVE  Untouched(r, o)
<1>1. PICK g : g = Get(q, p)
  OBVIOUS
<1>2. g \in DOMAIN nodes[q] /\ nodes[q][g].id = p
  BY <1>1, GetIs
<1>3. /\ \A s \in Peers : s # q => nodes'[s] = nodes[s]
      /\ DOMAIN nodes'[q] = DOMAIN nodes[q]
      /\ \A i \in DOMAIN nodes[q] : /\ nodes'[q][i].id = nodes[q][i].id
                                    /\ i # g => nodes'[q][i] = nodes[q][i]
  BY ZenonT(60), <1>1, <1>2, FreeNodes
<1>4. CASE r # q
  BY <1>3, <1>4, SameNodes
<1>5. CASE r = q /\ o # p
  BY <1>2, <1>3, <1>5 DEF Untouched, Avatars
<1> QED
  BY <1>4, <1>5

\* p waits once.
Once(p) == \A j, k \in DOMAIN waiting : waiting[j] = p /\ waiting[k] = p => j = k

LEMMA WaitsMore ==
  ASSUME TypeOK, NEW p \in Players, waiting' = Append(waiting, p)
  PROVE  /\ Waits("server", p)'
         /\ ~Waits("server", p) => Once(p)'
         /\ \A q, o : o # p => (Waits(q, o)' <=> Waits(q, o))
         /\ \A o : o # p => (Once(o)' <=> Once(o))
<1>1. waiting \in Seq(Players)
  BY TypeParts DEF OthersOK
<1>2. PICK n \in Nat : n = Len(waiting) /\ DOMAIN waiting = 1..n
  BY <1>1
<1>3. /\ DOMAIN waiting' = 1..(n + 1) /\ waiting'[n + 1] = p
      /\ \A i \in 1..n : waiting'[i] = waiting[i]
  BY <1>1, <1>2
<1>4. n + 1 \in 1..(n + 1) /\ \A i \in 1..(n + 1) : i \in 1..n \/ i = n + 1
  BY <1>2
<1>5. \A i \in 1..n : i \in 1..(n + 1)
  BY <1>2
<1>6. Waits("server", p)'
  BY <1>3, <1>4 DEF Waits
<1>7. ~Waits("server", p) => Once(p)'
  BY <1>2, <1>3, <1>4 DEF Waits, Once
<1>8. \A q, o : o # p => (Waits(q, o)' <=> Waits(q, o))
  BY <1>2, <1>3, <1>4, <1>5 DEF Waits
<1>9. \A o : o # p => (Once(o)' <=> Once(o))
  BY <1>2, <1>3, <1>4, <1>5 DEF Once
<1> QED
  BY <1>6, <1>7, <1>8, <1>9

LEMMA WaitsSame ==
  waiting' = waiting => /\ \A q, o : Waits(q, o)' <=> Waits(q, o)
                        /\ \A o : Once(o)' <=> Once(o)
BY DEF Waits, Once

\* Nothing is changed for p in the program q.
Apart(q, p) ==
  /\ Untouched(q, p)
  /\ (Waits(q, p)' <=> Waits(q, p)) /\ (q = "server" => (Once(p)' <=> Once(p)))
  /\ <<q, p>> \in raced' <=> <<q, p>> \in raced
  /\ (Pending(q, p)' = {} <=> Pending(q, p) = {})
  /\ p \in inside' <=> p \in inside

LEMMA HandlerFrame ==
  ASSUME TypeOK, NEW r \in Peers, Handler(r)
  PROVE  /\ \E op : Handling(r, op) /\ Done(r)
         /\ wire[r][1].id \in Players /\ Head(wire[r]) = wire[r][1]
         /\ inside' = inside /\ syncing' = syncing /\ sess' = sess
<1>1. \E op : Handling(r, op) /\ Done(r)
  BY DEF Handler, HandleJoin, HandleBld, ClientJoin, HandleLeave
<1>2. inside' = inside /\ syncing' = syncing /\ sess' = sess
  BY DEF Handler, HandleJoin, HandleBld, ClientJoin, HandleLeave
<1> QED
  BY SMTT(60), <1>1, <1>2, HeadIs

LEMMA PendingElsewhere ==
  ASSUME TypeOK, NEW r \in Peers, NEW op, Handling(r, op), Done(r),
         NEW q \in Peers, NEW o \in Players, q # r \/ o # wire[r][1].id \/ op = "Bld"
  PROVE  Pending(q, o)' = {} <=> Pending(q, o) = {}
<1>1. Shifted(r, o, op)
  BY Handled
<1>2. CASE q # r
  BY <1>1, <1>2 DEF Shifted
<1>3. CASE q = r
  <2>1. 1 \notin Pending(q, o)
    BY <1>1, <1>3 DEF Shifted
  <2>2. Pending(q, o) # {} => Pending(q, o)' # {}
    BY <1>1, <1>3, <2>1 DEF Shifted
  <2>3. Pending(q, o)' # {} => Pending(q, o) # {}
    BY <1>1, <1>3 DEF Shifted
  <2> QED
    BY <2>2, <2>3
<1> QED
  BY <1>2, <1>3

\* The child that is added is one of p.
LEMMA AddTouches ==
  ASSUME TypeOK, NEW q \in Peers, NEW children, ChildrenOK(children),
         DOMAIN children = DOMAIN nodes[q], NEW p \in Players,
         \A i \in DOMAIN nodes[q] :
           /\ children[i].id = nodes[q][i].id
           /\ nodes[q][i].id # p => children[i] = nodes[q][i],
         AddChildren(q, children, <<p>>),
         NEW r \in Peers, NEW o \in Players, r # q \/ o # p
  PROVE  Untouched(r, o)
<1>1. DOMAIN children \subseteq 1..born[q]
  BY ChildrenAre
<1>2. /\ \A s \in Peers : s # q => nodes'[s] = nodes[s]
      /\ Added(q, children, p)
  BY <1>1, OneAdded
<1>3. CASE r # q
  BY <1>2, <1>3, SameNodes
<1>4. CASE r = q /\ o # p
  <2>1. PICK n : /\ n \notin DOMAIN children /\ DOMAIN nodes'[q] = DOMAIN children \cup {n}
                 /\ nodes'[q][n].id = p
                 /\ \A i \in DOMAIN children : nodes'[q][i] = children[i]
    BY <1>2 DEF Added
  <2> QED
    BY <1>4, <2>1 DEF Untouched, Avatars
<1> QED
  BY <1>3, <1>4

\* The children to which the client adds the new avatar
ClientChildren(p) ==
  IF Has("client", p) THEN QueueFree(nodes["client"], Get("client", p)) ELSE nodes["client"]

LEMMA ClientChildrenAre ==
  ASSUME TypeOK, NEW p
  PROVE  /\ ChildrenOK(ClientChildren(p))
         /\ DOMAIN ClientChildren(p) = DOMAIN nodes["client"]
         /\ \A i \in DOMAIN nodes["client"] :
              /\ ClientChildren(p)[i].id = nodes["client"][i].id
              /\ ClientChildren(p)[i].named = nodes["client"][i].named
              /\ nodes["client"][i].id # p => ClientChildren(p)[i] = nodes["client"][i]
<1>1. ChildrenOK(nodes["client"]) /\ nodes["client"] \in [DOMAIN nodes["client"] -> Node]
  BY ChildrenAre, ServerIsPeer DEF ChildrenOK
<1>2. CASE ~Has("client", p)
  BY <1>1, <1>2 DEF ClientChildren
<1>3. CASE Has("client", p)
  <2>1. PICK g : g = Get("client", p)
    OBVIOUS
  <2>2. g \in DOMAIN nodes["client"] /\ nodes["client"][g].id = p
    BY <1>3, <2>1, GetIs
  <2>3. ClientChildren(p) = QueueFree(nodes["client"], g)
    BY <1>3, <2>1 DEF ClientChildren
  <2>4. ChildrenOK(ClientChildren(p))
    BY <1>1, <2>2, <2>3, FreedOK
  <2>5. PICK c : c = nodes["client"]
    OBVIOUS
  <2>6. /\ DOMAIN QueueFree(c, g) = DOMAIN c
        /\ \A i \in DOMAIN c : /\ QueueFree(c, g)[i].id = c[i].id
                               /\ QueueFree(c, g)[i].named = c[i].named
                               /\ i # g => QueueFree(c, g)[i] = c[i]
    BY ZenonT(60), <1>1, <2>2, <2>5, QueueFreed
  <2> QED
    BY <2>2, <2>3, <2>4, <2>5, <2>6
<1> QED
  BY <1>2, <1>3

\* A handler concerns the player of its message in its own program.
LEMMA Elsewhere ==
  ASSUME TypeOK, NEW r \in Peers, Handler(r), NEW q \in Peers, NEW o \in Players,
         q # r \/ o # wire[r][1].id
  PROVE  Apart(q, o)
<1>1. PICK p \in Players : p = wire[r][1].id /\ Head(wire[r]) = wire[r][1]
  BY HandlerFrame
<1>2. Pending(q, o)' = {} <=> Pending(q, o) = {}
  BY HandlerFrame, PendingElsewhere
<1>3. o \in inside' <=> o \in inside
  BY HandlerFrame
<1>4. CASE r = "server" /\ HandleJoin
  <2>1. Untouched(q, o)
    <3>1. CASE Has("server", p)
      <4>1. nodes' = [nodes EXCEPT !["server"] = QueueFree(@, Get("server", p))]
        BY <1>1, <1>4, <3>1 DEF HandleJoin
      <4> QED
        BY <1>1, <1>4, <3>1, <4>1, FreeTouches
    <3>2. CASE ~Has("server", p)
      <4>1. AddChildren("server", nodes["server"], <<p>>)
        BY <1>1, <1>4, <3>2 DEF HandleJoin
      <4>2. ChildrenOK(nodes["server"])
        BY ChildrenAre, ServerIsPeer
      <4> QED
        BY <1>1, <1>4, <4>1, <4>2, AddTouches
    <3> QED
      BY <3>1, <3>2
  <2>2. waiting' = waiting \/ waiting' = Append(waiting, p)
    BY <1>1, <1>4 DEF HandleJoin
  <2>3. /\ Waits(q, o)' <=> Waits(q, o)
        /\ q = "server" => (Once(o)' <=> Once(o))
    <3>1. CASE q = "server"
      BY <1>1, <1>4, <2>2, <3>1, WaitsSame, WaitsMore
    <3>2. CASE q # "server"
      BY <3>2 DEF Waits
    <3> QED
      BY <3>1, <3>2
  <2>4. raced' = raced \/ raced' = raced \cup {<<"server", p>>}
    BY <1>1, <1>4 DEF HandleJoin, Races
  <2>5. <<q, o>> \in raced' <=> <<q, o>> \in raced
    BY <1>1, <1>4, <2>4
  <2> QED
    BY <1>2, <1>3, <2>1, <2>3, <2>5 DEF Apart
<1>5. CASE r = "server" /\ HandleBld
  <2>1. Untouched(q, o)
    <3>1. CASE ~Has("server", p)
      <4>1. nodes' = nodes
        BY <1>1, <1>5, <3>1 DEF HandleBld
      <4> QED
        BY <4>1, SameNodes
    <3>2. CASE Has("server", p)
      <4>0. PICK g : g = Get("server", p)
        OBVIOUS
      <4>1. PICK new \in Seq(Buildings) :
              /\ Len(new) <= Cap
              /\ nodes' = [nodes EXCEPT !["server"][g].blds = new]
              /\ back' = Append(back, [id |-> p, blds |-> new])
              /\ IF nodes["server"][g].freed
                 THEN adrift' = adrift \cup {<<p, "missed">>} ELSE adrift' = adrift
        BY <1>1, <1>5, <3>2, <4>0, BldHandled
      <4>2. g \in DOMAIN nodes["server"] /\ nodes["server"][g].id = p
        BY <3>2, <4>0, GetIs
      <4>3. /\ nodes'["client"] = nodes["client"]
            /\ DOMAIN nodes'["server"] = DOMAIN nodes["server"]
            /\ \A i \in DOMAIN nodes["server"] :
                 /\ nodes'["server"][i].id = nodes["server"][i].id
                 /\ i # g => nodes'["server"][i] = nodes["server"][i]
        BY <4>1, <4>2, BldNodes
      <4>4. CASE q = "server"
        BY <1>1, <1>5, <4>2, <4>3, <4>4 DEF Untouched, Avatars
      <4>5. CASE q = "client"
        BY <4>3, <4>5, SameNodes
      <4> QED
        BY <4>4, <4>5 DEF Peers
    <3> QED
      BY <3>1, <3>2
  <2>2. waiting' = waiting /\ raced' = raced
    BY <1>5 DEF HandleBld
  <2> QED
    BY <1>2, <1>3, <2>1, <2>2, WaitsSame DEF Apart
<1>6. CASE r = "client" /\ ClientJoin
  <2>1. AddChildren("client", ClientChildren(p), <<p>>)
    BY <1>1, <1>6 DEF ClientJoin, ClientChildren
  <2>2. Untouched(q, o)
    BY <1>1, <1>6, <2>1, ClientChildrenAre, AddTouches
  <2>3. waiting' = waiting /\ (raced' = raced \/ raced' = raced \cup {<<"client", p>>})
    BY <1>1, <1>6 DEF ClientJoin
  <2>4. <<q, o>> \in raced' <=> <<q, o>> \in raced
    BY <1>1, <1>6, <2>3
  <2> QED
    BY <1>2, <1>3, <2>2, <2>3, <2>4, WaitsSame DEF Apart
<1>7. CASE HandleLeave(r)
  <2>1. Untouched(q, o)
    <3>1. CASE Has(r, p)
      <4>1. nodes' = [nodes EXCEPT ![r] = QueueFree(@, Get(r, p))]
        BY <1>1, <1>7, <3>1 DEF HandleLeave
      <4> QED
        BY <1>1, <3>1, <4>1, FreeTouches
    <3>2. CASE ~Has(r, p)
      <4>1. nodes' = nodes
        BY <1>1, <1>7, <3>2 DEF HandleLeave
      <4> QED
        BY <4>1, SameNodes
    <3> QED
      BY <3>1, <3>2
  <2>2. waiting' = waiting /\ (raced' = raced \/ raced' = raced \cup {<<r, p>>})
    BY <1>1, <1>7 DEF HandleLeave, Races
  <2>3. <<q, o>> \in raced' <=> <<q, o>> \in raced
    BY <1>1, <2>2
  <2> QED
    BY <1>2, <1>3, <2>1, <2>2, <2>3, WaitsSame DEF Apart
<1> QED
  BY <1>4, <1>5, <1>6, <1>7 DEF Handler

-----------------------------------------------------------------------------
(* The avatars of a player *)

\* AvatarStays and AvatarIsNamed for one player in one program
Stays(q, p) ==
  p \in inside /\ Arrived(q, p) => \E i \in Avatars(q, p) : ~nodes[q][i].freed

IsNamed(q, p) == <<q, p>> \notin raced =>
  /\ \A i \in Avatars(q, p) : nodes[q][i].named
  /\ Waits(q, p) => Once(p) /\ \A i \in Avatars(q, p) : nodes[q][i].freed
  /\ Pending(q, p) = {} /\ p \notin inside =>
       ~Waits(q, p) /\ \A i \in Avatars(q, p) : nodes[q][i].freed

LEMMA AvatarsOfEach ==
  inside \subseteq Players =>
    (AvatarStays /\ AvatarIsNamed <=>
       \A q \in Peers : \A p \in Players : Stays(q, p) /\ IsNamed(q, p))
BY DEF AvatarStays, AvatarIsNamed, Stays, IsNamed, Once

LEMMA AvatarsOfEachNext ==
  inside' \subseteq Players =>
    (AvatarStays' /\ AvatarIsNamed' <=>
       \A q \in Peers : \A p \in Players : Stays(q, p)' /\ IsNamed(q, p)')
BY DEF AvatarStays, AvatarIsNamed, Stays, IsNamed, Once

LEMMA ApartKeeps ==
  ASSUME NEW q, NEW p, Apart(q, p), Stays(q, p), IsNamed(q, p)
  PROVE  Stays(q, p)' /\ IsNamed(q, p)'
<1>1. Waits(q, p) => q = "server"
  BY DEF Waits
<1>2. Stays(q, p)'
  BY DEF Apart, Untouched, Stays, Arrived
<1>3. IsNamed(q, p)'
  BY <1>1 DEF Apart, Untouched, IsNamed
<1> QED
  BY <1>2, <1>3

\* A session changes nothing for the others, and nothing for its own player when it
\* only sends buildings.
LEMMA MainElsewhere ==
  ASSUME TypeOK, NEW p \in Players, MainStep(p), NEW q \in Peers, NEW o \in Players,
         o # p \/ SyncBuildings(p) \/ Place(p)
  PROVE  Apart(q, o)
<1>1. nodes' = nodes /\ waiting' = waiting /\ raced' = raced
  BY DEF MainStep, PlayerJoins, SyncBuildings, Place, ChangeArea, PlayerQuits
<1>2. Untouched(q, o)
  BY <1>1, SameNodes
<1>3. /\ Waits(q, o)' <=> Waits(q, o)
      /\ q = "server" => (Once(o)' <=> Once(o))
  BY <1>1, WaitsSame
<1>4. o \in inside' <=> o \in inside
  BY DEF MainStep, PlayerJoins, SyncBuildings, Place, ChangeArea, PlayerQuits, AddPlayer
<1>5. wire'[q] = wire[q] \/ \E m \in Seq(Message) :
        /\ wire'[q] = wire[q] \o m
        /\ \A k \in DOMAIN m : m[k].id # o \/ m[k].op = "Bld"
  <2>1. CASE SyncBuildings(p)
    <3>1. PICK m \in Seq(Message) :
            /\ wire'["server"] = wire["server"] \o m
            /\ \A k \in DOMAIN m : m[k].id = p /\ m[k].op = "Bld"
            /\ m = <<>> <=> sess[p] = <<>>
      BY <2>1, SyncWire
    <3>2. wire'["client"] = wire["client"]
      BY <2>1, SyncWire
    <3> QED
      BY <3>1, <3>2 DEF Peers
  <2>2. CASE Place(p)
    <3>1. PICK m \in Seq(Message) :
            /\ wire'["server"] = wire["server"] \o m
            /\ \A k \in DOMAIN m : m[k].id = p /\ m[k].op = "Bld"
            /\ m # <<>>
      BY <2>2, PlaceWire
    <3>2. wire'["client"] = wire["client"]
      BY <2>2, PlaceWire
    <3> QED
      BY <3>1, <3>2 DEF Peers
  <2>3. CASE o # p /\ AddPlayer(p)
    <3>1. PICK m \in Seq(Message) :
            /\ wire'[q] = wire[q] \o m
            /\ \A k \in DOMAIN m : m[k].id = p /\ m[k].op # "Bld"
            /\ Len(m) \in DOMAIN m /\ m[Len(m)].op = "Join"
      BY ZenonT(60), <2>3, AddWire
    <3> QED
      BY <2>3, <3>1
  <2>4. CASE o # p /\ PlayerQuits(p)
    <3>1. PICK m \in Seq(Message) :
            /\ wire'[q] = wire[q] \o m
            /\ \A k \in DOMAIN m : m[k].id = p /\ m[k].op # "Bld"
            /\ Len(m) \in DOMAIN m /\ m[Len(m)].op = "Leave"
      BY ZenonT(60), <2>4, QuitWire
    <3> QED
      BY <2>4, <3>1
  <2> QED
    BY <2>1, <2>2, <2>3, <2>4 DEF MainStep, PlayerJoins, ChangeArea
<1>6. Pending(q, o)' = {} <=> Pending(q, o) = {}
  <2>1. CASE wire'[q] = wire[q]
    BY <2>1 DEF Pending
  <2>2. ASSUME NEW m \in Seq(Message), wire'[q] = wire[q] \o m,
               \A k \in DOMAIN m : m[k].id # o \/ m[k].op = "Bld"
        PROVE  Pending(q, o)' = {} <=> Pending(q, o) = {}
    <3>1. Grown(q, o, m, Len(wire[q]))
      BY <2>2, Sending
    <3> QED
      BY <2>2, <3>1 DEF Grown
  <2> QED
    BY <1>5, <2>1, <2>2
<1> QED
  BY <1>1, <1>2, <1>3, <1>4, <1>6 DEF Apart

\* A Join or Leave that is sent is on its way.
LEMMA MainPending ==
  ASSUME TypeOK, NEW p \in Players, AddPlayer(p) \/ PlayerQuits(p), NEW q \in Peers
  PROVE  Pending(q, p)' # {}
<1>1. PICK m \in Seq(Message) :
        /\ wire'[q] = wire[q] \o m
        /\ \A k \in DOMAIN m : m[k].id = p /\ m[k].op # "Bld"
        /\ Len(m) \in DOMAIN m
  <2>1. CASE AddPlayer(p)
    BY <2>1, AddWire
  <2>2. CASE PlayerQuits(p)
    BY <2>2, QuitWire
  <2> QED
    BY <2>1, <2>2
<1>2. Grown(q, p, m, Len(wire[q]))
  BY <1>1, Sending
<1> QED
  BY <1>1, <1>2 DEF Grown

LEMMA MainAvatars ==
  ASSUME TypeOK, NEW p \in Players, MainStep(p), NEW q \in Peers, NEW o \in Players,
         Stays(q, o), IsNamed(q, o)
  PROVE  Stays(q, o)' /\ IsNamed(q, o)'
<1>1. CASE o # p \/ SyncBuildings(p) \/ Place(p)
  BY <1>1, MainElsewhere, ApartKeeps
<1>2. CASE o = p /\ (PlayerJoins(p) \/ ChangeArea(p) \/ PlayerQuits(p))
  <2>1. Pending(q, o)' # {}
    BY <1>2, MainPending DEF PlayerJoins, ChangeArea
  <2>2. nodes' = nodes /\ waiting' = waiting /\ raced' = raced
    BY <1>2 DEF PlayerJoins, ChangeArea, PlayerQuits
  <2>3. Untouched(q, o) /\ (Waits(q, o)' <=> Waits(q, o)) /\ (Once(o)' <=> Once(o))
    BY <2>2, SameNodes, WaitsSame
  <2>4. Stays(q, o)'
    BY <2>1 DEF Stays, Arrived
  <2>5. IsNamed(q, o)'
    BY <2>1, <2>2, <2>3 DEF IsNamed, Untouched
  <2> QED
    BY <2>4, <2>5
<1> QED
  BY <1>1, <1>2 DEF MainStep

\* The last Join or Leave of p has been handled.
LEMMA LastHandled ==
  ASSUME TypeOK, NEW q \in Peers, NEW op, Handling(q, op), Done(q), op # "Bld",
         NEW p \in Players, p = wire[q][1].id, LastOf(q, p), Pending(q, p)' = {}
  PROVE  op = "Join" <=> p \in inside
<1>1. Shifted(q, p, op)
  BY Handled
<1>2. 1 \in Pending(q, p) /\ \A i \in Pending(q, p) : i = 1
  BY <1>1 DEF Shifted
<1>3. wire[q][1].op = op
  BY HeadIs
<1>4. \A j \in Pending(q, p) : j <= 1
  BY <1>2
<1> QED
  BY <1>2, <1>3, <1>4 DEF LastOf

\* A player that no message has met at a bad time has one child at most.
LEMMA OneNamed ==
  ASSUME TypeOK, NEW q \in Peers, NEW p, \A i \in Avatars(q, p) : nodes[q][i].named
  PROVE  /\ Has(q, p) => Avatars(q, p) = {Get(q, p)}
         /\ ~Has(q, p) => Avatars(q, p) = {}
<1>1. ChildrenOK(nodes[q])
  BY ChildrenAre
<1>2. CASE Has(q, p)
  <2>1. PICK g : g = Get(q, p)
    OBVIOUS
  <2>2. g \in DOMAIN nodes[q] /\ nodes[q][g].id = p /\ nodes[q][g].named
    BY <1>2, <2>1, GetIs
  <2>3. \A i \in Avatars(q, p) : i = g
    BY <1>1, <2>2 DEF ChildrenOK, Avatars
  <2>4. g \in Avatars(q, p)
    BY <2>2 DEF Avatars
  <2> QED
    BY <1>2, <2>1, <2>3, <2>4
<1>3. CASE ~Has(q, p)
  BY <1>3 DEF Has, Avatars
<1> QED
  BY <1>2, <1>3

\* After the child that the name finds has been freed, all of p are.
LEMMA FreedAll ==
  ASSUME TypeOK, NEW q \in Peers, NEW p, Has(q, p),
         nodes' = [nodes EXCEPT ![q] = QueueFree(@, Get(q, p))]
  PROVE  /\ Avatars(q, p)' = Avatars(q, p)
         /\ \A i \in Avatars(q, p) : nodes'[q][i].named = nodes[q][i].named
         /\ (\A i \in Avatars(q, p) : nodes[q][i].named) =>
              \A i \in Avatars(q, p) : nodes'[q][i].freed
<1>1. PICK g : g = Get(q, p)
  OBVIOUS
<1>2. g \in DOMAIN nodes[q] /\ nodes[q][g].id = p
  BY <1>1, GetIs
<1>3. /\ DOMAIN nodes'[q] = DOMAIN nodes[q]
      /\ \A i \in DOMAIN nodes[q] :
           /\ nodes'[q][i].id = nodes[q][i].id
           /\ nodes'[q][i].named = nodes[q][i].named
           /\ i # g => nodes'[q][i] = nodes[q][i]
      /\ nodes'[q][g].freed = TRUE
  BY <1>1, <1>2, FreeNodes
<1>4. Avatars(q, p)' = Avatars(q, p)
  BY <1>3 DEF Avatars
<1>5. \A i \in Avatars(q, p) : nodes'[q][i].named = nodes[q][i].named
  BY <1>3 DEF Avatars
<1>6. (\A i \in Avatars(q, p) : nodes[q][i].named) =>
        \A i \in Avatars(q, p) : nodes'[q][i].freed
  BY <1>1, <1>3, OneNamed
<1> QED
  BY <1>4, <1>5, <1>6

\* The children of a program, some of them freed
SameNames(q, children) ==
  /\ DOMAIN children = DOMAIN nodes[q]
  /\ \A i \in DOMAIN nodes[q] : /\ children[i].id = nodes[q][i].id
                                /\ children[i].named = nodes[q][i].named

\* p has a new avatar, which has the name if no other has it.
Newcomer(q, p) ==
  \E n \in Avatars(q, p)' :
    /\ nodes'[q][n].freed = FALSE /\ nodes'[q][n].blds = <<>>
    /\ nodes'[q][n].named <=> ~Has(q, p)
    /\ Avatars(q, p)' = Avatars(q, p) \cup {n}

\* The child that is added is an avatar of p that stays, and has the name if no
\* other has it.
LEMMA AddedStays ==
  ASSUME TypeOK, NEW q \in Peers, NEW children, ChildrenOK(children),
         SameNames(q, children), NEW p \in Players, AddChildren(q, children, <<p>>)
  PROVE  Newcomer(q, p)
<1>0. /\ DOMAIN children = DOMAIN nodes[q]
      /\ \A i \in DOMAIN nodes[q] : /\ children[i].id = nodes[q][i].id
                                    /\ children[i].named = nodes[q][i].named
  BY DEF SameNames
<1>1. DOMAIN children \subseteq 1..born[q]
  BY <1>0, ChildrenAre
<1>2. Added(q, children, p)
  BY <1>1, OneAdded
<1>3. PICK n :
        /\ n \notin DOMAIN children /\ DOMAIN nodes'[q] = DOMAIN children \cup {n}
        /\ nodes'[q][n].id = p /\ nodes'[q][n].freed = FALSE
        /\ nodes'[q][n].blds = <<>>
        /\ nodes'[q][n].named <=>
             ~ \E i \in DOMAIN children : children[i].id = p /\ children[i].named
        /\ \A i \in DOMAIN children : nodes'[q][i] = children[i]
  BY <1>2 DEF Added
<1>4. nodes'[q][n].named <=> ~Has(q, p)
  BY <1>0, <1>3 DEF Has
<1>5. Avatars(q, p)' = Avatars(q, p) \cup {n}
  BY <1>0, <1>3 DEF Avatars
<1> QED
  BY <1>3, <1>4, <1>5 DEF Newcomer

LEMMA JoinAvatars ==
  ASSUME TypeOK, HandleJoin, NEW p \in Players, p = wire["server"][1].id,
         LastOf("server", p), Stays("server", p), IsNamed("server", p)
  PROVE  Stays("server", p)' /\ IsNamed("server", p)'
<1>1. Head(wire["server"]) = wire["server"][1] /\ Handling("server", "Join") /\ Done("server")
  BY HeadIs, ServerIsPeer DEF HandleJoin
<1>2. Pending("server", p)' = {} => p \in inside'
  <2>1. inside' = inside
    BY DEF HandleJoin
  <2> QED
    BY <1>1, <2>1, LastHandled, ServerIsPeer
<1>3. raced' = IF Waits("server", p) THEN raced \cup {<<"server", p>>} ELSE raced
  BY <1>1 DEF HandleJoin, Races
<1>4. <<"server", p>> \notin raced' =>
        ~Waits("server", p) /\ \A i \in Avatars("server", p) : nodes["server"][i].named
  BY <1>3 DEF IsNamed
<1>5. CASE Has("server", p)
  <2>1. /\ nodes' = [nodes EXCEPT !["server"] = QueueFree(@, Get("server", p))]
        /\ waiting' = Append(waiting, p)
    BY <1>1, <1>5 DEF HandleJoin
  <2>2. Waits("server", p)' /\ (~Waits("server", p) => Once(p)')
    BY <2>1, WaitsMore
  <2>3. Stays("server", p)'
    BY <2>2 DEF Stays, Arrived
  <2>4. /\ Avatars("server", p)' = Avatars("server", p)
        /\ \A i \in Avatars("server", p) : nodes'["server"][i].named = nodes["server"][i].named
        /\ (\A i \in Avatars("server", p) : nodes["server"][i].named) =>
             \A i \in Avatars("server", p) : nodes'["server"][i].freed
    BY <1>5, <2>1, FreedAll, ServerIsPeer
  <2>5. IsNamed("server", p)'
    BY <1>2, <1>4, <2>2, <2>4 DEF IsNamed
  <2> QED
    BY <2>3, <2>5
<1>6. CASE ~Has("server", p)
  <2>1. AddChildren("server", nodes["server"], <<p>>) /\ waiting' = waiting
    BY <1>1, <1>6 DEF HandleJoin
  <2>2. ChildrenOK(nodes["server"]) /\ SameNames("server", nodes["server"])
    BY ChildrenAre, ServerIsPeer DEF SameNames
  <2>3. PICK n \in Avatars("server", p)' :
          /\ nodes'["server"][n].freed = FALSE /\ nodes'["server"][n].blds = <<>>
          /\ nodes'["server"][n].named <=> ~Has("server", p)
          /\ Avatars("server", p)' = Avatars("server", p) \cup {n}
    BY ZenonT(60), <2>1, <2>2, AddedStays, ServerIsPeer DEF Newcomer
  <2>4. Stays("server", p)'
    BY <2>3 DEF Stays
  <2>5. Waits("server", p)' <=> Waits("server", p)
    BY <2>1, WaitsSame
  <2>6. <<"server", p>> \notin raced' => Avatars("server", p) = {}
    BY <1>4, <1>6, OneNamed, ServerIsPeer
  <2>7. IsNamed("server", p)'
    BY <1>2, <1>4, <1>6, <2>3, <2>5, <2>6 DEF IsNamed
  <2> QED
    BY <2>4, <2>7
<1> QED
  BY <1>5, <1>6

LEMMA ClientJoinAvatars ==
  ASSUME TypeOK, ClientJoin, NEW p \in Players, p = wire["client"][1].id,
         LastOf("client", p), Stays("client", p), IsNamed("client", p)
  PROVE  Stays("client", p)' /\ IsNamed("client", p)'
<1>1. Head(wire["client"]) = wire["client"][1] /\ Handling("client", "Join") /\ Done("client")
  BY HeadIs, ServerIsPeer DEF ClientJoin
<1>2. Pending("client", p)' = {} => p \in inside'
  <2>1. inside' = inside
    BY DEF ClientJoin
  <2> QED
    BY <1>1, <2>1, LastHandled, ServerIsPeer
<1>3. raced' = IF Has("client", p) THEN raced \cup {<<"client", p>>} ELSE raced
  BY <1>1 DEF ClientJoin
<1>4. AddChildren("client", ClientChildren(p), <<p>>)
  BY <1>1 DEF ClientJoin, ClientChildren
<1>5. PICK n \in Avatars("client", p)' :
        /\ nodes'["client"][n].freed = FALSE /\ nodes'["client"][n].blds = <<>>
        /\ nodes'["client"][n].named <=> ~Has("client", p)
        /\ Avatars("client", p)' = Avatars("client", p) \cup {n}
  <2>1. PICK c : c = ClientChildren(p)
    OBVIOUS
  <2>2. ChildrenOK(c) /\ SameNames("client", c)
    BY <2>1, ClientChildrenAre DEF SameNames
  <2>3. AddChildren("client", c, <<p>>)
    BY <1>4, <2>1
  <2>4. Newcomer("client", p)
    BY <2>2, <2>3, AddedStays, ServerIsPeer
  <2> QED
    BY <2>4 DEF Newcomer
<1>6. Stays("client", p)'
  BY <1>5 DEF Stays
<1>7. ~Waits("client", p)'
  BY DEF Waits
<1>8. <<"client", p>> \notin raced' => ~Has("client", p) /\ Avatars("client", p) = {}
  <2>1. SUFFICES ASSUME <<"client", p>> \notin raced'
                 PROVE  ~Has("client", p) /\ Avatars("client", p) = {}
    OBVIOUS
  <2>2. ~Has("client", p) /\ \A i \in Avatars("client", p) : nodes["client"][i].named
    BY <1>3, <2>1 DEF IsNamed
  <2> QED
    BY <2>2, OneNamed, ServerIsPeer
<1>9. IsNamed("client", p)'
  BY <1>2, <1>5, <1>7, <1>8 DEF IsNamed
<1> QED
  BY <1>6, <1>9

LEMMA LeaveAvatars ==
  ASSUME TypeOK, NEW q \in Peers, HandleLeave(q), NEW p \in Players, p = wire[q][1].id,
         LastOf(q, p), Stays(q, p), IsNamed(q, p)
  PROVE  Stays(q, p)' /\ IsNamed(q, p)'
<1>1. Head(wire[q]) = wire[q][1] /\ Handling(q, "Leave") /\ Done(q)
  BY HeadIs DEF HandleLeave
<1>2. Pending(q, p)' = {} => p \notin inside'
  <2>1. inside' = inside
    BY DEF HandleLeave
  <2> QED
    BY <1>1, <2>1, LastHandled
<1>3. Stays(q, p)'
  BY <1>2 DEF Stays, Arrived
<1>4. raced' = IF Waits(q, p) THEN raced \cup {<<q, p>>} ELSE raced
  BY <1>1 DEF HandleLeave, Races
<1>5. <<q, p>> \notin raced' =>
        ~Waits(q, p)' /\ \A i \in Avatars(q, p) : nodes[q][i].named
  <2>1. waiting' = waiting
    BY DEF HandleLeave
  <2> QED
    BY <1>4, <2>1, WaitsSame DEF IsNamed
<1>6. CASE Has(q, p)
  <2>1. nodes' = [nodes EXCEPT ![q] = QueueFree(@, Get(q, p))]
    BY <1>1, <1>6 DEF HandleLeave
  <2>2. /\ Avatars(q, p)' = Avatars(q, p)
        /\ \A i \in Avatars(q, p) : nodes'[q][i].named = nodes[q][i].named
        /\ (\A i \in Avatars(q, p) : nodes[q][i].named) =>
             \A i \in Avatars(q, p) : nodes'[q][i].freed
    BY <1>6, <2>1, FreedAll
  <2>3. IsNamed(q, p)'
    BY <1>5, <2>2 DEF IsNamed
  <2> QED
    BY <1>3, <2>3
<1>7. CASE ~Has(q, p)
  <2>1. nodes' = nodes
    BY <1>1, <1>7 DEF HandleLeave
  <2>2. Untouched(q, p)
    BY <2>1, SameNodes
  <2>3. <<q, p>> \notin raced' => Avatars(q, p) = {}
    BY <1>5, <1>7, OneNamed
  <2>4. IsNamed(q, p)'
    BY <1>5, <2>2, <2>3 DEF IsNamed, Untouched
  <2> QED
    BY <1>3, <2>4
<1> QED
  BY <1>6, <1>7

LEMMA BldAvatars ==
  ASSUME TypeOK, HandleBld, NEW p \in Players, p = wire["server"][1].id,
         Stays("server", p), IsNamed("server", p)
  PROVE  Stays("server", p)' /\ IsNamed("server", p)'
<1>1. Head(wire["server"]) = wire["server"][1] /\ Handling("server", "Bld") /\ Done("server")
  BY HeadIs, ServerIsPeer DEF HandleBld
<1>2. Pending("server", p)' = {} <=> Pending("server", p) = {}
  BY SMTT(60), <1>1, PendingElsewhere, ServerIsPeer
<1>3. waiting' = waiting /\ raced' = raced /\ inside' = inside
  BY DEF HandleBld
<1>4. (Waits("server", p)' <=> Waits("server", p)) /\ (Once(p)' <=> Once(p))
  BY <1>3, WaitsSame
<1>5. /\ Avatars("server", p)' = Avatars("server", p)
      /\ \A i \in Avatars("server", p) :
           /\ nodes'["server"][i].named = nodes["server"][i].named
           /\ nodes'["server"][i].freed = nodes["server"][i].freed
  <2>1. CASE ~Has("server", p)
    <3>1. nodes' = nodes
      BY <1>1, <2>1 DEF HandleBld
    <3> QED
      BY <3>1, SameNodes DEF Untouched
  <2>2. CASE Has("server", p)
    <3>1. PICK g : g = Get("server", p)
      OBVIOUS
    <3>2. PICK new \in Seq(Buildings) :
            /\ Len(new) <= Cap
            /\ nodes' = [nodes EXCEPT !["server"][g].blds = new]
            /\ back' = Append(back, [id |-> p, blds |-> new])
            /\ IF nodes["server"][g].freed
               THEN adrift' = adrift \cup {<<p, "missed">>} ELSE adrift' = adrift
      BY <1>1, <2>2, <3>1, BldHandled
    <3>3. g \in DOMAIN nodes["server"]
      BY <2>2, <3>1, GetIs
    <3>4. /\ DOMAIN nodes'["server"] = DOMAIN nodes["server"]
          /\ \A i \in DOMAIN nodes["server"] :
               /\ nodes'["server"][i].id = nodes["server"][i].id
               /\ nodes'["server"][i].named = nodes["server"][i].named
               /\ nodes'["server"][i].freed = nodes["server"][i].freed
      BY <3>2, <3>3, BldNodes
    <3> QED
      BY <3>4 DEF Avatars
  <2> QED
    BY <2>1, <2>2
<1>6. Stays("server", p)'
  BY <1>2, <1>3, <1>4, <1>5 DEF Stays, Arrived
<1>7. IsNamed("server", p)'
  BY <1>2, <1>3, <1>4, <1>5 DEF IsNamed
<1> QED
  BY SMTT(60), <1>6, <1>7

LEMMA HandlerAvatars ==
  ASSUME TypeOK, NEW r \in Peers, Handler(r), NEW q \in Peers, NEW o \in Players,
         LastOf(q, o), Stays(q, o), IsNamed(q, o)
  PROVE  Stays(q, o)' /\ IsNamed(q, o)'
<1>1. CASE q # r \/ o # wire[r][1].id
  BY <1>1, Elsewhere, ApartKeeps
<1>2. CASE q = r /\ o = wire[r][1].id
  BY <1>2, JoinAvatars, ClientJoinAvatars, LeaveAvatars, BldAvatars DEF Handler
<1> QED
  BY <1>1, <1>2

\* The children that stay are the same, those marked are gone.
LEMMA DeleteAvatars ==
  ASSUME TypeOK, NEW r \in Peers, Delete(r), NEW q \in Peers, NEW o \in Players,
         Stays(q, o), IsNamed(q, o)
  PROVE  Stays(q, o)' /\ IsNamed(q, o)'
<1>1. wire' = wire /\ waiting' = waiting /\ raced' = raced /\ inside' = inside
  BY DEF Delete
<1>2. /\ (Waits(q, o)' <=> Waits(q, o)) /\ (Once(o)' <=> Once(o))
      /\ Pending(q, o)' = Pending(q, o)
  BY <1>1, WaitsSame DEF Pending
<1>3. CASE q # r
  <2>1. Untouched(q, o)
    BY <1>3, DeleteNodes, SameNodes
  <2> QED
    BY <1>1, <1>2, <2>1, ApartKeeps DEF Apart
<1>4. CASE q = r
  <2>1. /\ DOMAIN nodes'[q] = {i \in DOMAIN nodes[q] : ~nodes[q][i].freed}
        /\ nodes'[q] = [i \in DOMAIN nodes'[q] |-> nodes[q][i]]
    BY <1>4, DeleteNodes
  <2>2. \A i \in DOMAIN nodes'[q] : nodes'[q][i] = nodes[q][i]
    BY <2>1
  <2>3. /\ \A i \in Avatars(q, o) : ~nodes[q][i].freed =>
             i \in Avatars(q, o)' /\ nodes'[q][i] = nodes[q][i]
        /\ \A i \in Avatars(q, o)' : i \in Avatars(q, o) /\ nodes'[q][i] = nodes[q][i]
    BY <2>1, <2>2 DEF Avatars
  <2>4. Stays(q, o)'
    BY <1>1, <1>2, <2>3 DEF Stays, Arrived
  <2>5. IsNamed(q, o)'
    BY <1>1, <1>2, <2>3 DEF IsNamed
  <2> QED
    BY <2>4, <2>5
<1> QED
  BY <1>3, <1>4

\* What the joins that waited add: a child for each, named if it is the first of
\* its player and there was none.
LEMMA IdleAdds ==
  ASSUME TypeOK, IdleFrame, NEW p \in Players
  PROVE  /\ \A i \in Avatars("server", p) :
              i \in Avatars("server", p)' /\ nodes'["server"][i] = nodes["server"][i]
         /\ \A i \in Avatars("server", p)' : i \in Avatars("server", p) \/ Waits("server", p)
         /\ Waits("server", p) => \E i \in Avatars("server", p)' : ~nodes'["server"][i].freed
         /\ Once(p) /\ Avatars("server", p) = {} /\ Waits("server", p) =>
              \E n : /\ Avatars("server", p)' = {n} /\ nodes'["server"][n].named
                     /\ nodes'["server"][n].blds = <<>>
<1>1. PICK c, b : c = nodes["server"] /\ b = born["server"]
  OBVIOUS
<1>2. /\ c \in [DOMAIN c -> Node] /\ DOMAIN c \subseteq 1..b /\ waiting \in Seq(Players)
      /\ AddChildren("server", c, waiting)
  <2>1. ChildrenOK(nodes["server"]) /\ DOMAIN nodes["server"] \subseteq 1..born["server"]
    BY ChildrenAre, ServerIsPeer
  <2>2. waiting \in Seq(Players)
    BY TypeParts DEF OthersOK
  <2> QED
    BY <1>1, <2>1, <2>2 DEF IdleFrame, ChildrenOK
<1>3. PICK d : d = nodes'["server"]
  OBVIOUS
<1>4. /\ \A i \in DOMAIN c : i \in DOMAIN d /\ d[i] = c[i]
      /\ \A k \in DOMAIN waiting : /\ b + k \in DOMAIN d \ DOMAIN c
                                   /\ d[b + k] = Child(c, waiting, k)
      /\ \A i \in DOMAIN d : i \in DOMAIN c \/ \E k \in DOMAIN waiting : i = b + k
  BY <1>1, <1>2, <1>3, ChildrenAdded, ServerIsPeer
<1>5. \A i : i \in Avatars("server", p)' <=> i \in DOMAIN d /\ d[i].id = p
  BY <1>3 DEF Avatars
<1>6. \A i : i \in Avatars("server", p) <=> i \in DOMAIN c /\ c[i].id = p
  BY <1>1 DEF Avatars
<1>7. \A k \in DOMAIN waiting : /\ d[b + k].id = waiting[k] /\ d[b + k].freed = FALSE
                                /\ d[b + k].blds = <<>>
  <2>1. SUFFICES ASSUME NEW k \in DOMAIN waiting
                 PROVE  /\ d[b + k].id = waiting[k] /\ d[b + k].freed = FALSE
                        /\ d[b + k].blds = <<>>
    OBVIOUS
  <2>2. d[b + k] = Child(c, waiting, k)
    BY <1>4
  <2> QED
    BY <2>2 DEF Child
<1>8. \A i \in Avatars("server", p) : i \in Avatars("server", p)' /\ d[i] = c[i]
  BY <1>4, <1>5, <1>6
<1>9. ASSUME NEW i \in Avatars("server", p)', i \notin Avatars("server", p)
      PROVE  \E k \in DOMAIN waiting : i = b + k /\ waiting[k] = p
  <2>1. i \in DOMAIN d /\ d[i].id = p /\ i \notin DOMAIN c
    BY <1>4, <1>5, <1>6, <1>9
  <2>2. PICK k \in DOMAIN waiting : i = b + k
    BY <1>4, <2>1
  <2> QED
    BY <1>7, <2>1, <2>2
<1>10. Waits("server", p) => \E i \in Avatars("server", p)' : ~d[i].freed
  <2>1. SUFFICES ASSUME NEW k \in DOMAIN waiting, waiting[k] = p
                 PROVE  \E i \in Avatars("server", p)' : ~d[i].freed
    BY DEF Waits
  <2>2. b + k \in Avatars("server", p)' /\ ~d[b + k].freed
    BY <1>4, <1>5, <1>7, <2>1
  <2> QED
    BY <2>2
<1>11. ASSUME Once(p), Avatars("server", p) = {}, Waits("server", p)
       PROVE  \E n : /\ Avatars("server", p)' = {n} /\ d[n].named /\ d[n].blds = <<>>
  <2>1. PICK k \in DOMAIN waiting : waiting[k] = p
    BY <1>11 DEF Waits
  <2>2. \A j \in DOMAIN waiting : waiting[j] = p => j = k
    BY <1>11, <2>1 DEF Once
  <2>3. b + k \in Avatars("server", p)'
    BY <1>4, <1>5, <1>7, <2>1
  <2>4. \A i \in Avatars("server", p)' : i = b + k
    BY <1>9, <1>11, <2>2
  <2>5. Avatars("server", p)' = {b + k}
    BY <2>3, <2>4
  <2>6. d[b + k].named
    <3>1. \A j \in 1..(k - 1) : waiting[j] # p
      <4>1. PICK n \in Nat : n = Len(waiting) /\ DOMAIN waiting = 1..n
        BY <1>2
      <4>2. \A j \in 1..(k - 1) : j \in 1..n /\ j # k
        BY <4>1
      <4> QED
        BY <2>2, <4>1, <4>2
    <3>2. ~ \E i \in DOMAIN c : c[i].id = waiting[k] /\ c[i].named
      BY <1>6, <1>11, <2>1
    <3>3. d[b + k] = Child(c, waiting, k)
      BY <1>4
    <3> QED
      BY <2>1, <3>1, <3>2, <3>3 DEF Child
  <2>7. d[b + k].blds = <<>>
    BY <1>7
  <2> QED
    BY <2>5, <2>6, <2>7
<1> QED
  BY <1>1, <1>3, <1>8, <1>9, <1>10, <1>11 DEF Waits

LEMMA IdleAvatars ==
  ASSUME TypeOK, IdleFrame, NEW q \in Peers, NEW o \in Players,
         Stays(q, o), IsNamed(q, o)
  PROVE  Stays(q, o)' /\ IsNamed(q, o)'
<1>1. wire' = wire /\ raced' = raced /\ inside' = inside /\ waiting' = <<>>
  BY DEF IdleFrame
<1>2. Pending(q, o)' = Pending(q, o) /\ ~Waits(q, o)'
  BY <1>1 DEF Pending, Waits
<1>3. CASE q = "client"
  <2>1. nodes'["client"] = nodes["client"]
    <3>1. ChildrenOK(nodes["server"]) /\ DOMAIN nodes["server"] \subseteq 1..born["server"]
      BY ChildrenAre, ServerIsPeer
    <3>2. waiting \in Seq(Players) /\ AddChildren("server", nodes["server"], waiting)
      BY TypeParts DEF OthersOK, IdleFrame
    <3>3. nodes["server"] \in [DOMAIN nodes["server"] -> Node]
      BY <3>1 DEF ChildrenOK
    <3> QED
      BY <3>1, <3>2, <3>3, ChildrenAdded, ServerIsPeer
  <2>2. Untouched(q, o) /\ ~Waits(q, o)
    BY <1>3, <2>1, SameNodes DEF Waits
  <2>3. Apart(q, o)
    BY <1>1, <1>2, <1>3, <2>2 DEF Apart
  <2> QED
    BY <2>3, ApartKeeps
<1>4. CASE q = "server"
  <2>1. \A i \in DOMAIN nodes[q] : ~nodes[q][i].freed
    BY <1>4 DEF IdleFrame
  <2>2. /\ \A i \in Avatars(q, o) : i \in Avatars(q, o)' /\ nodes'[q][i] = nodes[q][i]
        /\ \A i \in Avatars(q, o)' : i \in Avatars(q, o) \/ Waits(q, o)
        /\ Waits(q, o) => \E i \in Avatars(q, o)' : ~nodes'[q][i].freed
        /\ Once(o) /\ Avatars(q, o) = {} /\ Waits(q, o) =>
             \E n : Avatars(q, o)' = {n} /\ nodes'[q][n].named
    BY <1>4, IdleAdds
  <2>3. Stays(q, o)'
    BY <1>1, <1>2, <2>2 DEF Stays, Arrived
  <2>4. ASSUME <<q, o>> \notin raced
        PROVE  /\ \A i \in Avatars(q, o)' : nodes'[q][i].named
               /\ Pending(q, o) = {} /\ o \notin inside => Avatars(q, o)' = {}
    <3>1. Waits(q, o) => Once(o) /\ Avatars(q, o) = {}
      BY <2>1, <2>4 DEF IsNamed, Avatars
    <3>2. CASE Waits(q, o)
      BY <2>2, <2>4, <3>1, <3>2 DEF IsNamed
    <3>3. CASE ~Waits(q, o)
      <4>1. Avatars(q, o)' = Avatars(q, o)
        BY <2>2, <3>3
      <4>2. Pending(q, o) = {} /\ o \notin inside => Avatars(q, o) = {}
        BY <2>1, <2>4 DEF IsNamed, Avatars
      <4> QED
        BY <2>2, <2>4, <4>1, <4>2 DEF IsNamed
    <3> QED
      BY <3>2, <3>3
  <2>5. IsNamed(q, o)'
    BY <1>1, <1>2, <2>4 DEF IsNamed
  <2> QED
    BY <2>3, <2>5
<1> QED
  BY <1>3, <1>4 DEF Peers

LEMMA AvatarStep ==
  ASSUME TypeOK, LastIsTrue, AvatarStays, AvatarIsNamed, [Next]_vars
  PROVE  AvatarStays' /\ AvatarIsNamed'
<1>1. inside \subseteq Players /\ inside' \subseteq Players
  BY TypeStep DEF TypeOK
<1>2. SUFFICES ASSUME NEW q \in Peers, NEW o \in Players
               PROVE  Stays(q, o)' /\ IsNamed(q, o)'
  BY <1>1, AvatarsOfEachNext
<1>3. Stays(q, o) /\ IsNamed(q, o) /\ LastOf(q, o)
  BY <1>1, AvatarsOfEach, LastIsOfEach
<1>4. CASE \E p \in Players : MainStep(p)
  BY <1>3, <1>4, MainAvatars
<1>5. CASE \E r \in Peers : Handler(r)
  BY <1>3, <1>5, HandlerAvatars
<1>6. CASE \E r \in Peers : Delete(r)
  BY <1>3, <1>6, DeleteAvatars
<1>7. CASE IdleFrame
  BY <1>3, <1>7, IdleAvatars
<1>8. CASE KeepBuildings \/ UNCHANGED vars
  <2>1. /\ wire' = wire /\ nodes' = nodes /\ waiting' = waiting /\ raced' = raced
        /\ inside' = inside
    BY <1>8 DEF KeepBuildings, vars
  <2>2. Pending(q, o)' = Pending(q, o) /\ Untouched(q, o)
    BY <2>1, SameNodes DEF Pending
  <2>3. Apart(q, o)
    BY <2>1, <2>2, WaitsSame DEF Apart
  <2> QED
    BY <1>3, <2>3, ApartKeeps
<1> QED
  BY <1>4, <1>5, <1>6, <1>7, <1>8 DEF Next

-----------------------------------------------------------------------------
(* The buildings of session and avatar *)

\* BuildingsFollow for one player, its parts by name
BldsFirst(p) == \A i \in Sent(p) : \E j \in Pending("server", p) : i < j
BldsLast(p)  == \A i \in Sent(p) : \A j \in Pending("server", p) : j < i

\* The last answer on the way, if there is one, is b; every avatar of p has b.
Latest(p, b) == \A i \in Answered(p) : (\A j \in Answered(p) : j <= i) => b = back[i].blds
AllHave(p, b) == \A k \in Avatars("server", p) : nodes["server"][k].blds = b

NotAnswered(p) == Sent(p) = {} /\ Answered(p) = {} =>
  /\ Arrived("server", p) => AllHave(p, sess[p])
  /\ ~Arrived("server", p) => sess[p] = <<>>

Joining(p) == BldsFirst(p) /\ (Arrived("server", p) => AllHave(p, <<>>))
Joined(p)  ==
  /\ BldsLast(p) /\ NotAnswered(p)
  /\ Answered(p) # {} => Arrived("server", p)
  /\ \A k \in Avatars("server", p) : Latest(p, nodes["server"][k].blds)

Follow(p) ==
  /\ p \notin inside => sess[p] = <<>>
  /\ Steady(p) => /\ p \notin inside => Sent(p) = {} /\ Answered(p) = {}
                  /\ p \in syncing => Joining(p)
                  /\ p \in inside \ syncing => Joined(p)

LEMMA FollowOfEach == BuildingsFollow <=> \A p \in Players : Follow(p)
<1>1. \A p : NewIsEmpty(p) <=> Joining(p)
  BY DEF NewIsEmpty, Joining, BldsFirst, AllHave
<1>2. \A p : AnswersFollow(p) <=> Joined(p)
  <2>1. SUFFICES ASSUME NEW p PROVE AnswersFollow(p) <=> Joined(p)
    OBVIOUS
  <2>2. (\A i \in Answered(p) : (\A j \in Answered(p) : j <= i) => AllHave(p, back[i].blds))
          <=> \A k \in Avatars("server", p) : Latest(p, nodes["server"][k].blds)
    BY DEF AllHave, Latest
  <2> QED
    BY <2>2 DEF AnswersFollow, Joined, BldsLast, NotAnswered, AllHave
<1> QED
  BY <1>1, <1>2 DEF BuildingsFollow, Follow

LEMMA FollowOfEachNext == BuildingsFollow' <=> \A p \in Players : Follow(p)'
<1>1. \A p : NewIsEmpty(p)' <=> Joining(p)'
  BY DEF NewIsEmpty, Joining, BldsFirst, AllHave
<1>2. \A p : AnswersFollow(p)' <=> Joined(p)'
  <2>1. SUFFICES ASSUME NEW p PROVE AnswersFollow(p)' <=> Joined(p)'
    OBVIOUS
  <2>2. (\A i \in Answered(p)' : (\A j \in Answered(p)' : j <= i) => AllHave(p, back[i].blds)')
          <=> \A k \in Avatars("server", p)' : Latest(p, nodes["server"][k].blds)'
    BY DEF AllHave, Latest
  <2> QED
    BY <2>2 DEF AnswersFollow, Joined, BldsLast, NotAnswered, AllHave
<1> QED
  BY <1>1, <1>2 DEF BuildingsFollow, Follow

\* What is on the way of p's is as before, maybe in other places.
OrderKept(p) ==
  (BldsFirst(p) => BldsFirst(p)') /\ (BldsLast(p) => BldsLast(p)')
SentKept(p) == OrderKept(p) /\ (Sent(p)' = {} <=> Sent(p) = {})
AnswersKept(p) ==
  /\ Answered(p)' = {} <=> Answered(p) = {}
  /\ \A b : Latest(p, b) => Latest(p, b)'

LEMMA SameWire ==
  ASSUME NEW p, wire'["server"] = wire["server"]
  PROVE  SentKept(p)
BY DEF SentKept, OrderKept, BldsFirst, BldsLast, Sent, Pending

\* The first message is handled
LEMMA HandledOrder ==
  ASSUME TypeOK, NEW op, Handling("server", op), Done("server"), NEW p \in Players
  PROVE  /\ OrderKept(p) /\ (1 \in Sent(p) <=> wire["server"][1].id = p /\ op = "Bld")
         /\ Sent(p)' # {} => Sent(p) # {}
         /\ op # "Bld" \/ wire["server"][1].id # p => SentKept(p)
<1>1. Shifted("server", p, op) /\ BldsShifted("server", p, op)
  BY Handled, HandledBlds, ServerIsPeer
<1>2. /\ \A i \in Sent(p) : i = 1 \/ (i - 1 \in Sent(p)' /\ i \in Nat)
      /\ \A i \in Sent(p)' : i + 1 \in Sent(p) /\ i \in Nat
      /\ 1 \in Sent(p) <=> (wire["server"][1].id = p /\ op = "Bld")
  BY <1>1 DEF BldsShifted
<1>3. /\ \A i \in Pending("server", p) :
           i = 1 \/ (i - 1 \in Pending("server", p)' /\ i \in Nat)
      /\ \A i \in Pending("server", p)' : i + 1 \in Pending("server", p) /\ i \in Nat
  BY <1>1 DEF Shifted
<1>4. BldsFirst(p) => BldsFirst(p)'
  <2>1. SUFFICES ASSUME BldsFirst(p), NEW i \in Sent(p)'
                 PROVE  \E j \in Pending("server", p)' : i < j
    BY DEF BldsFirst
  <2>2. i + 1 \in Sent(p) /\ i \in Nat
    BY <1>2
  <2>3. PICK j \in Pending("server", p) : i + 1 < j
    BY <2>1, <2>2 DEF BldsFirst
  <2>4. j - 1 \in Pending("server", p)' /\ j \in Nat
    BY <1>3, <2>2, <2>3
  <2>5. i < j - 1
    BY <2>2, <2>3, <2>4
  <2> QED
    BY <2>4, <2>5
<1>5. BldsLast(p) => BldsLast(p)'
  <2>1. SUFFICES ASSUME BldsLast(p), NEW i \in Sent(p)', NEW j \in Pending("server", p)'
                 PROVE  j < i
    BY DEF BldsLast
  <2>2. i + 1 \in Sent(p) /\ j + 1 \in Pending("server", p) /\ i \in Nat /\ j \in Nat
    BY <1>2, <1>3
  <2>3. j + 1 < i + 1
    BY <2>1, <2>2 DEF BldsLast
  <2> QED
    BY <2>2, <2>3
<1>6. op # "Bld" \/ wire["server"][1].id # p => (Sent(p)' = {} <=> Sent(p) = {})
  BY <1>2
<1> QED
  BY <1>2, <1>4, <1>5, <1>6 DEF OrderKept, SentKept

\* Messages of others are sent
LEMMA OthersSent ==
  ASSUME TypeOK, NEW m \in Seq(Message), wire'["server"] = wire["server"] \o m,
         NEW p \in Players, \A k \in DOMAIN m : m[k].id # p
  PROVE  SentKept(p)
<1>1. PICK n \in Nat : BldsGrown(p, m, n) /\ Grown("server", p, m, n)
  <2>1. /\ BldsGrown(p, m, Len(wire["server"])) /\ Grown("server", p, m, Len(wire["server"]))
        /\ Len(wire["server"]) \in Nat
    BY SendingBlds, Sending, ServerIsPeer
  <2> QED
    BY <2>1
<1>2. Sent(p)' = Sent(p)
  BY <1>1 DEF BldsGrown
<1>3. Pending("server", p)' = Pending("server", p)
  BY <1>1 DEF Grown
<1> QED
  BY <1>2, <1>3 DEF SentKept, OrderKept, BldsFirst, BldsLast

LEMMA SameAnswers ==
  ASSUME NEW p, back' = back
  PROVE  AnswersKept(p)
BY DEF AnswersKept, Answered, Latest

\* An answer comes last
LEMMA AnswerSent ==
  ASSUME TypeOK, NEW p \in Players, NEW new \in Seq(Buildings),
         back' = Append(back, [id |-> p, blds |-> new]), NEW o \in Players
  PROVE  /\ o # p => AnswersKept(o)
         /\ Answered(p)' # {} /\ Latest(p, new)'
<1>1. PICK n \in Nat : n = Len(back) /\ DOMAIN back = 1..n
  BY TypeParts DEF OthersOK
<1>2. /\ DOMAIN back' = 1..(n + 1) /\ back'[n + 1] = [id |-> p, blds |-> new]
      /\ \A i \in 1..n : back'[i] = back[i]
  BY <1>1, TypeParts DEF OthersOK
<1>3. \A i \in 1..(n + 1) : i \in 1..n \/ i = n + 1
  OBVIOUS
<1>4. \A i \in 1..n : i \in 1..(n + 1)
  OBVIOUS
<1>5. o # p => Answered(o)' = Answered(o) /\ \A i \in Answered(o) : back'[i] = back[i]
  BY <1>1, <1>2, <1>3, <1>4 DEF Answered
<1>6. o # p => AnswersKept(o)
  BY <1>5 DEF AnswersKept, Latest
<1>7. n + 1 \in Answered(p)' /\ back'[n + 1].blds = new
  BY <1>2 DEF Answered
<1>8. \A i \in Answered(p)' : i \in 1..(n + 1)
  BY <1>2 DEF Answered
<1>9. Latest(p, new)'
  <2>1. SUFFICES ASSUME NEW i \in Answered(p)', \A j \in Answered(p)' : j <= i
                 PROVE  new = back'[i].blds
    BY DEF Latest
  <2>2. n + 1 <= i /\ i \in 1..(n + 1)
    BY <1>7, <1>8, <2>1
  <2>3. i = n + 1
    BY <2>2
  <2> QED
    BY <1>7, <2>3
<1> QED
  BY <1>6, <1>7, <1>9

\* The first answer is taken
LEMMA AnswerTaken ==
  ASSUME TypeOK, back # <<>>, back' = Tail(back), NEW p \in Players
  PROVE  /\ Head(back).id # p => AnswersKept(p)
         /\ \A b : Latest(p, b) => Latest(p, b)'
         /\ Answered(p)' # {} => Answered(p) # {}
         /\ Answered(p) # {} /\ Answered(p)' = {} =>
              Head(back).id = p /\ \A b : Latest(p, b) => b = Head(back).blds
<1>1. PICK n \in Nat : n = Len(back) /\ DOMAIN back = 1..n /\ n # 0
  BY TypeParts DEF OthersOK
<1>2. /\ Head(back) = back[1]
      /\ \A i : i \in DOMAIN back' <=> i \in Nat \ {0} /\ i + 1 \in DOMAIN back
      /\ \A i \in DOMAIN back' : back'[i] = back[i + 1]
  BY TypeParts, Shorter DEF OthersOK
<1>3. \A i \in Answered(p)' : i + 1 \in Answered(p) /\ i \in Nat /\ back'[i] = back[i + 1]
  BY <1>2 DEF Answered
<1>4. ASSUME NEW i \in Answered(p), i # 1 PROVE i - 1 \in Answered(p)' /\ i \in Nat
  <2>1. i \in 1..n /\ back[i].id = p
    BY <1>1 DEF Answered
  <2>2. i - 1 \in Nat \ {0} /\ (i - 1) + 1 = i /\ i \in Nat
    BY <1>4, <2>1
  <2>3. i - 1 \in DOMAIN back' /\ back'[i - 1] = back[i]
    BY <1>1, <1>2, <2>1, <2>2
  <2> QED
    BY <2>1, <2>2, <2>3 DEF Answered
<1>5. 1 \in Answered(p) <=> Head(back).id = p
  BY <1>1, <1>2 DEF Answered
<1>6. ASSUME NEW b, Latest(p, b) PROVE Latest(p, b)'
  <2>1. SUFFICES ASSUME NEW i \in Answered(p)', \A j \in Answered(p)' : j <= i
                 PROVE  b = back'[i].blds
    BY DEF Latest
  <2>2. i + 1 \in Answered(p) /\ i \in Nat /\ back'[i] = back[i + 1]
    BY <1>3
  <2>3. \A j \in Answered(p) : j <= i + 1
    <3>1. SUFFICES ASSUME NEW j \in Answered(p), j # 1 PROVE j <= i + 1
      BY <2>2
    <3>2. j - 1 <= i /\ j \in Nat
      BY <1>4, <2>1, <3>1
    <3> QED
      BY <2>2, <3>2
  <2> QED
    BY <1>6, <2>2, <2>3 DEF Latest
<1>7. ASSUME Answered(p) # {}, Answered(p)' = {}
      PROVE  Head(back).id = p /\ \A b : Latest(p, b) => b = Head(back).blds
  <2>1. Answered(p) = {1}
    BY <1>4, <1>7
  <2>2. \A j \in Answered(p) : j <= 1
    BY <2>1
  <2> QED
    BY <1>2, <1>5, <2>1, <2>2 DEF Latest
<1>8. Answered(p)' # {} => Answered(p) # {}
  BY <1>3
<1>9. Head(back).id # p => AnswersKept(p)
  BY <1>6, <1>7, <1>8 DEF AnswersKept
<1> QED
  BY <1>6, <1>7, <1>8, <1>9

\* Nothing is changed for p: it is where it was, with its messages and its avatars,
\* of which some may be gone.
BldsKept(p) ==
  /\ Steady(p)' => Steady(p)
  /\ p \in inside' <=> p \in inside
  /\ p \in syncing' <=> p \in syncing
  /\ sess'[p] = sess[p]
  /\ SentKept(p) /\ AnswersKept(p)
  /\ Arrived("server", p)' <=> Arrived("server", p)
  /\ \A k \in Avatars("server", p)' :
       k \in Avatars("server", p) /\ nodes'["server"][k].blds = nodes["server"][k].blds

LEMMA KeptFollows ==
  ASSUME NEW p, BldsKept(p), Follow(p)
  PROVE  Follow(p)'
<1>1. /\ Steady(p)' => Steady(p)
      /\ (p \in inside' <=> p \in inside) /\ (p \in syncing' <=> p \in syncing)
      /\ sess'[p] = sess[p] /\ (Sent(p)' = {} <=> Sent(p) = {})
      /\ (BldsFirst(p) => BldsFirst(p)') /\ (BldsLast(p) => BldsLast(p)')
      /\ (Answered(p)' = {} <=> Answered(p) = {})
      /\ \A b : Latest(p, b) => Latest(p, b)'
      /\ Arrived("server", p)' <=> Arrived("server", p)
  BY DEF BldsKept, SentKept, OrderKept, AnswersKept
<1>2. \A k \in Avatars("server", p)' :
        k \in Avatars("server", p) /\ nodes'["server"][k].blds = nodes["server"][k].blds
  BY DEF BldsKept
<1>3. \A b : AllHave(p, b) => \A k \in Avatars("server", p)' : nodes'["server"][k].blds = b
  BY <1>2 DEF AllHave
<1>4. Joining(p) => Joining(p)'
  <2>1. AllHave(p, <<>>) => AllHave(p, <<>>)'
    BY <1>3 DEF AllHave
  <2> QED
    BY <1>1, <2>1 DEF Joining
<1>5. Joined(p) => Joined(p)'
  <2>1. SUFFICES ASSUME Joined(p) PROVE Joined(p)'
    OBVIOUS
  <2>2. NotAnswered(p)'
    <3>1. AllHave(p, sess[p]) => AllHave(p, sess[p])'
      BY <1>1, <1>3 DEF AllHave
    <3> QED
      BY <1>1, <2>1, <3>1 DEF Joined, NotAnswered
  <2>3. \A k \in Avatars("server", p)' : Latest(p, nodes["server"][k].blds)'
    <3>1. SUFFICES ASSUME NEW k \in Avatars("server", p)'
                   PROVE  Latest(p, nodes["server"][k].blds)'
      OBVIOUS
    <3>2. k \in Avatars("server", p) /\ nodes'["server"][k].blds = nodes["server"][k].blds
      BY <1>2
    <3>3. PICK b : b = nodes["server"][k].blds
      OBVIOUS
    <3>4. Latest(p, b)' /\ nodes'["server"][k].blds = b
      BY <1>1, <2>1, <3>2, <3>3 DEF Joined
    <3> QED
      BY <3>4 DEF Latest
  <2> QED
    BY <1>1, <2>1, <2>2, <2>3 DEF Joined
<1> QED
  BY <1>1, <1>4, <1>5 DEF Follow

\* Apart says most of it.
LEMMA ApartIsKept ==
  ASSUME NEW p, Apart("server", p), SentKept(p), AnswersKept(p),
         p \in syncing' <=> p \in syncing, sess'[p] = sess[p],
         adrift' = adrift \/ \E o \in Players : \E r : o # p /\ adrift' = adrift \cup {<<o, r>>}
  PROVE  BldsKept(p)
<1>1. Steady(p)' => Steady(p)
  BY DEF Apart, Steady
<1>2. Arrived("server", p)' <=> Arrived("server", p)
  BY DEF Apart, Arrived
<1>3. \A k \in Avatars("server", p)' :
        k \in Avatars("server", p) /\ nodes'["server"][k].blds = nodes["server"][k].blds
  BY DEF Apart, Untouched
<1> QED
  BY <1>1, <1>2, <1>3 DEF Apart, BldsKept

\* Messages that are sent to the game server, the last of them op
Sends(p, op) ==
  \E m \in Seq(Message) : /\ wire'["server"] = wire["server"] \o m
                          /\ \A k \in DOMAIN m : m[k].id = p /\ m[k].op # "Bld"
                          /\ Len(m) \in DOMAIN m /\ m[Len(m)].op = op

LEMMA SessionSends ==
  ASSUME TypeOK, NEW p \in Players
  PROVE  /\ AddPlayer(p) => Sends(p, "Join")
         /\ PlayerQuits(p) => Sends(p, "Leave")
<1>1. PICK q \in Peers : q = "server"
  BY ServerIsPeer
<1>2. ASSUME AddPlayer(p) PROVE Sends(p, "Join")
  <2>1. PICK m \in Seq(Message) :
          /\ wire'[q] = wire[q] \o m
          /\ \A k \in DOMAIN m : m[k].id = p /\ m[k].op # "Bld"
          /\ Len(m) \in DOMAIN m /\ m[Len(m)].op = "Join"
    BY ZenonT(60), <1>2, AddWire
  <2> QED
    BY <1>1, <2>1 DEF Sends
<1>3. ASSUME PlayerQuits(p) PROVE Sends(p, "Leave")
  <2>1. PICK m \in Seq(Message) :
          /\ wire'[q] = wire[q] \o m
          /\ \A k \in DOMAIN m : m[k].id = p /\ m[k].op # "Bld"
          /\ Len(m) \in DOMAIN m /\ m[Len(m)].op = "Leave"
    BY ZenonT(60), <1>3, QuitWire
  <2> QED
    BY <1>1, <2>1 DEF Sends
<1> QED
  BY <1>2, <1>3

\* What the session of another player does
LEMMA OtherSession ==
  ASSUME TypeOK, NEW p \in Players, MainStep(p), NEW o \in Players, o # p, Follow(o)
  PROVE  Follow(o)'
<1>1. Apart("server", o)
  BY MainElsewhere, ServerIsPeer
<1>2. SentKept(o)
  <2>1. \E m \in Seq(Message) : /\ wire'["server"] = wire["server"] \o m
                                /\ \A k \in DOMAIN m : m[k].id = p
    <3>1. CASE PlayerJoins(p) \/ ChangeArea(p)
      <4>1. AddPlayer(p)
        BY <3>1 DEF PlayerJoins, ChangeArea
      <4>2. PICK m \in Seq(Message) :
              /\ wire'["server"] = wire["server"] \o m
              /\ \A k \in DOMAIN m : m[k].id = p /\ m[k].op # "Bld"
              /\ Len(m) \in DOMAIN m /\ m[Len(m)].op = "Join"
        BY <4>1, SessionSends DEF Sends
      <4> QED
        BY <4>2
    <3>2. CASE SyncBuildings(p)
      BY <3>2, SyncWire
    <3>3. CASE Place(p)
      BY <3>3, PlaceWire
    <3>4. CASE PlayerQuits(p)
      <4>1. PICK m \in Seq(Message) :
              /\ wire'["server"] = wire["server"] \o m
              /\ \A k \in DOMAIN m : m[k].id = p /\ m[k].op # "Bld"
              /\ Len(m) \in DOMAIN m /\ m[Len(m)].op = "Leave"
        BY <3>4, SessionSends DEF Sends
      <4> QED
        BY <4>1
    <3> QED
      BY <3>1, <3>2, <3>3, <3>4 DEF MainStep
  <2>2. PICK m \in Seq(Message) : /\ wire'["server"] = wire["server"] \o m
                                  /\ \A k \in DOMAIN m : m[k].id = p
    BY <2>1
  <2>3. \A k \in DOMAIN m : m[k].id # o
    BY <2>2
  <2> QED
    BY <2>2, <2>3, OthersSent
<1>3. back' = back
  BY DEF MainStep, PlayerJoins, SyncBuildings, Place, ChangeArea, PlayerQuits
<1>4. o \in syncing' <=> o \in syncing
  BY DEF MainStep, PlayerJoins, SyncBuildings, Place, ChangeArea, PlayerQuits
<1>5. sess'[o] = sess[o]
  BY TypeParts
     DEF OthersOK, MainStep, PlayerJoins, SyncBuildings, Place, ChangeArea, PlayerQuits
<1>6. adrift' = adrift \/ \E r : adrift' = adrift \cup {<<p, r>>}
  BY DEF MainStep, PlayerJoins, SyncBuildings, Place, ChangeArea, PlayerQuits
<1>7. BldsKept(o)
  BY <1>1, <1>2, <1>3, <1>4, <1>5, <1>6, SameAnswers, ApartIsKept
<1> QED
  BY <1>7, KeptFollows

\* What a session does leaves the avatars and the answers alone.
LEMMA SessionFrame ==
  ASSUME TypeOK, NEW p \in Players, MainStep(p)
  PROVE  /\ Avatars("server", p)' = Avatars("server", p) /\ nodes' = nodes
         /\ Answered(p)' = Answered(p) /\ back' = back
         /\ Waits("server", p)' <=> Waits("server", p)
         /\ \A r : <<p, r>> \in adrift => <<p, r>> \in adrift'
         /\ raced' = raced
<1>1. nodes' = nodes /\ waiting' = waiting /\ raced' = raced /\ back' = back
  BY DEF MainStep, PlayerJoins, SyncBuildings, Place, ChangeArea, PlayerQuits
<1>2. \A r : <<p, r>> \in adrift => <<p, r>> \in adrift'
  BY DEF MainStep, PlayerJoins, SyncBuildings, Place, ChangeArea, PlayerQuits
<1> QED
  BY <1>1, <1>2, WaitsSame DEF Avatars, Answered

\* The new Join comes after all buildings that were sent.
LEMMA JoinsFollow ==
  ASSUME TypeOK, NEW p \in Players, PlayerJoins(p)
  PROVE  Follow(p)'
<1>1. AddPlayer(p) /\ p \in syncing' /\ p \in inside'
  BY DEF PlayerJoins, AddPlayer
<1>2. Pending("server", p)' # {}
  BY <1>1, MainPending, ServerIsPeer
<1>3. BldsFirst(p)'
  <2>1. PICK m \in Seq(Message) :
          /\ wire'["server"] = wire["server"] \o m
          /\ \A k \in DOMAIN m : m[k].id = p /\ m[k].op # "Bld"
          /\ Len(m) \in DOMAIN m /\ m[Len(m)].op = "Join"
    BY <1>1, SessionSends DEF Sends
  <2>2. PICK n \in Nat : BldsGrown(p, m, n) /\ Grown("server", p, m, n)
    <3>1. /\ BldsGrown(p, m, Len(wire["server"])) /\ Grown("server", p, m, Len(wire["server"]))
          /\ Len(wire["server"]) \in Nat
      BY <2>1, SendingBlds, Sending, ServerIsPeer
    <3> QED
      BY <3>1
  <2>3. PICK l \in Nat \ {0} : l = Len(m) /\ l \in DOMAIN m
    <3>1. PICK l \in Nat : l = Len(m) /\ DOMAIN m = 1..l /\ l \in 1..l
      BY <2>1
    <3>2. l \in Nat \ {0}
      BY <3>1
    <3> QED
      BY <3>1, <3>2
  <2>4. n + l \in Pending("server", p)'
    BY <2>1, <2>2, <2>3 DEF Grown
  <2>5. \A i \in Sent(p)' : i <= n /\ i \in Nat
    BY <2>1, <2>2 DEF BldsGrown
  <2>6. \A i \in Sent(p)' : i < n + l
    BY <2>2, <2>3, <2>5
  <2> QED
    BY <2>4, <2>6 DEF BldsFirst
<1>4. Joining(p)'
  BY <1>2, <1>3 DEF Joining, Arrived
<1> QED
  BY <1>1, <1>4 DEF Follow

\* The buildings are sent after the Join, when no other is on its way.
LEMMA SyncFollow ==
  ASSUME TypeOK, NEW p \in Players, SyncBuildings(p), Follow(p)
  PROVE  Follow(p)'
<1>0. MainStep(p)
  BY DEF MainStep
<1>1. /\ p \in syncing /\ p \notin syncing' /\ p \in inside /\ p \in inside' /\ sess' = sess
  BY TypeParts DEF SyncBuildings, OthersOK
<1>2. SUFFICES ASSUME Steady(p)' PROVE Joined(p)'
  BY <1>1 DEF Follow
<1>3. ~InFlight(p) /\ Steady(p)
  <2>1. raced' = raced /\ \A r : <<p, r>> \in adrift => <<p, r>> \in adrift'
    BY <1>0, SessionFrame
  <2>2. <<p, "flight">> \notin adrift'
    BY <1>2 DEF Steady, Reasons
  <2> QED
    BY <1>2, <2>1, <2>2 DEF SyncBuildings, Steady
<1>4. Sent(p) = {} /\ Answered(p) = {} /\ Joining(p)
  BY <1>1, <1>3 DEF InFlight, Follow
<1>5. PICK m \in Seq(Message) :
        /\ wire'["server"] = wire["server"] \o m
        /\ \A k \in DOMAIN m : m[k].id = p /\ m[k].op = "Bld"
        /\ m = <<>> <=> sess[p] = <<>>
  BY SyncWire
<1>6. PICK n \in Nat : BldsGrown(p, m, n) /\ Grown("server", p, m, n)
  <2>1. /\ BldsGrown(p, m, Len(wire["server"])) /\ Grown("server", p, m, Len(wire["server"]))
        /\ Len(wire["server"]) \in Nat
    BY <1>5, SendingBlds, Sending, ServerIsPeer
  <2> QED
    BY <2>1
<1>7. /\ Pending("server", p)' = Pending("server", p)
      /\ \A j \in Pending("server", p) : j <= n /\ j \in Nat
  BY <1>5, <1>6 DEF Grown
<1>8. BldsLast(p)'
  <2>1. SUFFICES ASSUME NEW i \in Sent(p)', NEW j \in Pending("server", p)' PROVE j < i
    BY DEF BldsLast
  <2>2. PICK k \in Nat \ {0} : i = n + k
    BY <1>4, <1>6 DEF BldsGrown
  <2>3. j <= n /\ j \in Nat
    BY <1>7
  <2> QED
    BY <2>2, <2>3
<1>9. Sent(p)' = {} => sess[p] = <<>>
  <2>1. m # <<>> => Sent(p)' # {}
    <3>1. m # <<>> => 1 \in DOMAIN m
      OBVIOUS
    <3> QED
      BY <1>5, <1>6, <3>1 DEF BldsGrown
  <2> QED
    BY <1>5, <2>1
<1>10. /\ Avatars("server", p)' = Avatars("server", p) /\ nodes' = nodes
       /\ Answered(p)' = {} /\ (Arrived("server", p)' <=> Arrived("server", p))
  BY <1>0, <1>4, <1>7, SessionFrame DEF Arrived
<1>11. NotAnswered(p)'
  BY <1>1, <1>4, <1>9, <1>10 DEF NotAnswered, Joining, AllHave
<1>12. \A b : Latest(p, b)'
  BY <1>10 DEF Latest
<1>13. \A k \in Avatars("server", p)' : Latest(p, nodes["server"][k].blds)'
  BY <1>10 DEF Latest
<1> QED
  BY <1>8, <1>10, <1>11, <1>13 DEF Joined

LEMMA PlaceFollow ==
  ASSUME TypeOK, NEW p \in Players, Place(p), Follow(p)
  PROVE  Follow(p)'
<1>0. MainStep(p)
  BY DEF MainStep
<1>1. /\ p \notin syncing /\ p \notin syncing' /\ p \in inside /\ p \in inside'
      /\ adrift' = adrift /\ raced' = raced
  BY DEF Place
<1>2. SUFFICES ASSUME Steady(p)' PROVE Joined(p)'
  BY <1>1 DEF Follow
<1>3. Joined(p)
  BY <1>1, <1>2 DEF Follow, Steady
<1>4. PICK m \in Seq(Message) :
        /\ wire'["server"] = wire["server"] \o m
        /\ \A k \in DOMAIN m : m[k].id = p /\ m[k].op = "Bld"
        /\ m # <<>>
  BY PlaceWire
<1>5. PICK n \in Nat : BldsGrown(p, m, n) /\ Grown("server", p, m, n)
  <2>1. /\ BldsGrown(p, m, Len(wire["server"])) /\ Grown("server", p, m, Len(wire["server"]))
        /\ Len(wire["server"]) \in Nat
    BY <1>4, SendingBlds, Sending, ServerIsPeer
  <2> QED
    BY <2>1
<1>6. /\ Pending("server", p)' = Pending("server", p)
      /\ \A j \in Pending("server", p) : j <= n /\ j \in Nat
  BY <1>4, <1>5 DEF Grown
<1>7. BldsLast(p)'
  <2>1. SUFFICES ASSUME NEW i \in Sent(p)', NEW j \in Pending("server", p)' PROVE j < i
    BY DEF BldsLast
  <2>2. CASE i \in Sent(p)
    BY <1>3, <1>6, <2>2 DEF Joined, BldsLast
  <2>3. CASE \E k \in Nat \ {0} : i = n + k
    <3>1. j <= n /\ j \in Nat
      BY <1>6
    <3> QED
      BY <2>3, <3>1
  <2> QED
    BY <1>5, <2>2, <2>3 DEF BldsGrown
<1>8. Sent(p)' # {}
  <2>1. 1 \in DOMAIN m
    BY <1>4
  <2> QED
    BY <1>4, <1>5, <2>1 DEF BldsGrown
<1>9. /\ Avatars("server", p)' = Avatars("server", p) /\ nodes' = nodes /\ back' = back
      /\ Answered(p)' = Answered(p) /\ (Arrived("server", p)' <=> Arrived("server", p))
  BY <1>0, <1>6, SessionFrame DEF Arrived
<1>10. \A k \in Avatars("server", p)' : Latest(p, nodes["server"][k].blds)'
  BY <1>3, <1>9 DEF Joined, Latest
<1>11. NotAnswered(p)'
  BY <1>8 DEF NotAnswered
<1> QED
  BY <1>3, <1>7, <1>9, <1>10, <1>11 DEF Joined

LEMMA QuitFollow ==
  ASSUME TypeOK, NEW p \in Players, PlayerQuits(p), Follow(p)
  PROVE  Follow(p)'
<1>0. MainStep(p)
  BY DEF MainStep
<1>1. p \notin syncing' /\ p \notin inside' /\ sess'[p] = <<>>
  BY TypeParts DEF PlayerQuits, OthersOK
<1>2. SUFFICES ASSUME Steady(p)' PROVE Sent(p)' = {} /\ Answered(p)' = {}
  BY <1>1 DEF Follow
<1>3. ~InFlight(p)
  <2>1. <<p, "flight">> \notin adrift'
    BY <1>2 DEF Steady, Reasons
  <2> QED
    BY <2>1 DEF PlayerQuits
<1>4. PICK m \in Seq(Message) :
        /\ wire'["server"] = wire["server"] \o m
        /\ \A k \in DOMAIN m : m[k].id = p /\ m[k].op # "Bld"
        /\ Len(m) \in DOMAIN m /\ m[Len(m)].op = "Leave"
  BY SessionSends DEF Sends
<1>5. Sent(p)' = {}
  <2>1. BldsGrown(p, m, Len(wire["server"]))
    BY <1>4, SendingBlds
  <2> QED
    BY <1>3, <1>4, <2>1 DEF BldsGrown, InFlight
<1> QED
  BY <1>0, <1>3, <1>5, SessionFrame DEF InFlight

LEMMA SessionFollow ==
  ASSUME TypeOK, NEW p \in Players, MainStep(p), NEW o \in Players, Follow(o)
  PROVE  Follow(o)'
<1>1. CASE o # p
  BY <1>1, OtherSession
<1>2. CASE o = p
  <2>1. CASE ChangeArea(p)
    <3>1. p \in inside' /\ <<p, "moved">> \in adrift' /\ "moved" \in Reasons
      BY <2>1 DEF ChangeArea, AddPlayer, Reasons
    <3>2. ~Steady(p)'
      BY <3>1 DEF Steady
    <3> QED
      BY <1>2, <3>1, <3>2 DEF Follow
  <2> QED
    BY <1>2, <2>1, JoinsFollow, SyncFollow, PlaceFollow, QuitFollow DEF MainStep
<1> QED
  BY <1>1, <1>2

\* What a handler does to the buildings of other players, or in the client
LEMMA OtherHandled ==
  ASSUME TypeOK, NEW r \in Peers, Handler(r), NEW o \in Players,
         r # "server" \/ o # wire[r][1].id, Follow(o)
  PROVE  Follow(o)'
<1>0. PICK p \in Players : p = wire[r][1].id /\ Head(wire[r]) = wire[r][1]
  BY HandlerFrame
<1>1. Apart("server", o)
  BY Elsewhere, ServerIsPeer
<1>2. PICK op : Handling(r, op) /\ Done(r)
  BY HandlerFrame
<1>3. SentKept(o)
  <2>1. CASE r = "server"
    BY <1>2, <2>1, HandledOrder
  <2>2. CASE r # "server"
    <3>1. wire'["server"] = wire["server"]
      BY <1>2, <2>2, DoneWire, ServerIsPeer
    <3> QED
      BY <3>1, SameWire
  <2> QED
    BY <2>1, <2>2
<1>4. AnswersKept(o) /\ (adrift' = adrift \/ \E s : o # p /\ adrift' = adrift \cup {<<p, s>>})
  <2>1. CASE back' = back /\ adrift' = adrift
    BY <2>1, SameAnswers
  <2>2. CASE r = "server" /\ HandleBld
    <3>1. CASE ~Has("server", p)
      <4>1. back' = back /\ adrift' = adrift \cup {<<p, "missed">>} /\ o # p
        BY <1>0, <2>2, <3>1 DEF HandleBld
      <4> QED
        BY <4>1, SameAnswers
    <3>2. CASE Has("server", p)
      <4>0. PICK g : g = Get("server", p)
        OBVIOUS
      <4>1. PICK new \in Seq(Buildings) :
              /\ Len(new) <= Cap
              /\ nodes' = [nodes EXCEPT !["server"][g].blds = new]
              /\ back' = Append(back, [id |-> p, blds |-> new])
              /\ IF nodes["server"][g].freed
                 THEN adrift' = adrift \cup {<<p, "missed">>} ELSE adrift' = adrift
        BY <1>0, <2>2, <3>2, <4>0, BldHandled
      <4>2. o # p
        BY <1>0, <2>2
      <4>3. AnswersKept(o)
        BY <4>1, <4>2, AnswerSent
      <4> QED
        BY <4>1, <4>2, <4>3
    <3> QED
      BY <3>1, <3>2
  <2>3. HandleJoin \/ ClientJoin \/ HandleLeave(r) => back' = back /\ adrift' = adrift
    BY DEF HandleJoin, ClientJoin, HandleLeave
  <2> QED
    BY <2>1, <2>2, <2>3 DEF Handler
<1>5. (o \in syncing' <=> o \in syncing) /\ sess'[o] = sess[o]
  BY HandlerFrame
<1>6. BldsKept(o)
  BY <1>1, <1>3, <1>4, <1>5, ApartIsKept
<1> QED
  BY <1>6, KeptFollows

\* A Join or Leave of p is handled: no answer is on the way, and the session of a
\* player that has joined and sent no building has none.
LEMMA BeforeArrival ==
  ASSUME NEW p, Joined(p), ~Arrived("server", p)
  PROVE  Answered(p) = {} /\ (Sent(p) = {} => sess[p] = <<>>)
BY DEF Joined, NotAnswered

LEMMA JoinFollow ==
  ASSUME TypeOK, HandleJoin, NEW p \in Players, p = wire["server"][1].id,
         IsNamed("server", p), Follow(p)
  PROVE  Follow(p)'
<1>1. Head(wire["server"]) = wire["server"][1] /\ Handling("server", "Join") /\ Done("server")
  BY HeadIs, ServerIsPeer DEF HandleJoin
<1>2. SentKept(p)
  BY <1>1, HandledOrder
<1>3. /\ inside' = inside /\ syncing' = syncing /\ sess' = sess /\ back' = back
      /\ adrift' = adrift
      /\ raced' = IF Waits("server", p) THEN raced \cup {<<"server", p>>} ELSE raced
  BY <1>1 DEF HandleJoin, Races
<1>4. Answered(p)' = Answered(p)
  BY <1>3 DEF Answered
<1>5. ~Arrived("server", p)
  <2>1. Shifted("server", p, "Join")
    BY <1>1, Handled, ServerIsPeer
  <2> QED
    BY <2>1 DEF Shifted, Arrived
<1>6. Steady(p)' => /\ Steady(p) /\ ~Waits("server", p)
                    /\ \A i \in Avatars("server", p) : nodes["server"][i].named
  BY <1>3 DEF Steady, IsNamed
<1>7. Steady(p)' /\ Arrived("server", p)' => AllHave(p, <<>>)'
  <2>1. SUFFICES ASSUME Steady(p)', Arrived("server", p)' PROVE AllHave(p, <<>>)'
    OBVIOUS
  <2>2. CASE Has("server", p)
    <3>1. waiting' = Append(waiting, p)
      BY <1>1, <2>2 DEF HandleJoin
    <3>2. Waits("server", p)'
      BY <3>1, WaitsMore
    <3> QED
      BY <2>1, <3>2 DEF Arrived
  <2>3. CASE ~Has("server", p)
    <3>1. AddChildren("server", nodes["server"], <<p>>)
      BY <1>1, <2>3 DEF HandleJoin
    <3>2. ChildrenOK(nodes["server"]) /\ SameNames("server", nodes["server"])
      BY ChildrenAre, ServerIsPeer DEF SameNames
    <3>3. Newcomer("server", p)
      BY <3>1, <3>2, AddedStays, ServerIsPeer
    <3>4. Avatars("server", p) = {}
      BY <1>6, <2>1, <2>3, OneNamed, ServerIsPeer
    <3> QED
      BY <3>3, <3>4 DEF Newcomer, AllHave
  <2> QED
    BY <2>2, <2>3
<1>8. Steady(p)' /\ p \in syncing => Joining(p)'
  BY <1>2, <1>6, <1>7 DEF Follow, Joining, SentKept, OrderKept
<1>9. ASSUME Steady(p)', p \in inside \ syncing PROVE Joined(p)'
  <2>1. Joined(p)
    BY <1>6, <1>9 DEF Follow
  <2>2. Answered(p) = {} /\ (Sent(p) = {} => sess[p] = <<>>)
    BY <1>5, <2>1, BeforeArrival
  <2>3. BldsLast(p)'
    BY <1>2, <2>1 DEF Joined, SentKept, OrderKept
  <2>4. Sent(p)' = {} => sess'[p] = <<>>
    BY <1>2, <1>3, <2>2 DEF SentKept
  <2>5. NotAnswered(p)'
    BY <1>7, <1>9, <2>4 DEF NotAnswered, AllHave
  <2> QED
    BY <1>4, <2>2, <2>3, <2>5 DEF Joined, Latest
<1>10. /\ p \notin inside' => sess'[p] = <<>>
       /\ Steady(p)' /\ p \notin inside' => Sent(p)' = {} /\ Answered(p)' = {}
  BY <1>2, <1>3, <1>4, <1>6 DEF Follow, SentKept
<1> QED
  BY <1>3, <1>8, <1>9, <1>10 DEF Follow

LEMMA LeaveFollow ==
  ASSUME TypeOK, HandleLeave("server"), NEW p \in Players, p = wire["server"][1].id,
         LastOf("server", p), Follow(p)
  PROVE  Follow(p)'
<1>1. Head(wire["server"]) = wire["server"][1] /\ Handling("server", "Leave") /\ Done("server")
  BY HeadIs, ServerIsPeer DEF HandleLeave
<1>2. SentKept(p)
  BY <1>1, HandledOrder
<1>3. /\ inside' = inside /\ syncing' = syncing /\ sess' = sess /\ back' = back
      /\ adrift' = adrift /\ raced \subseteq raced'
  BY DEF HandleLeave, Races
<1>4. Answered(p)' = Answered(p)
  BY <1>3 DEF Answered
<1>5. ~Arrived("server", p)
  <2>1. Shifted("server", p, "Leave")
    BY <1>1, Handled, ServerIsPeer
  <2> QED
    BY <2>1 DEF Shifted, Arrived
<1>6. p \in inside => ~Arrived("server", p)'
  <2>1. Pending("server", p)' = {} => p \notin inside
    BY <1>1, LastHandled, ServerIsPeer
  <2> QED
    BY <2>1 DEF Arrived
<1>7. Steady(p)' => Steady(p)
  BY <1>3 DEF Steady
<1>8. Steady(p)' /\ p \in inside /\ p \in syncing => Joining(p)'
  BY <1>2, <1>6, <1>7 DEF Follow, Joining, SentKept, OrderKept
<1>9. ASSUME Steady(p)', p \in inside \ syncing PROVE Joined(p)'
  <2>1. Joined(p)
    BY <1>7, <1>9 DEF Follow
  <2>2. Answered(p) = {} /\ (Sent(p) = {} => sess[p] = <<>>)
    BY <1>5, <2>1, BeforeArrival
  <2>3. BldsLast(p)'
    BY <1>2, <2>1 DEF Joined, SentKept, OrderKept
  <2>4. NotAnswered(p)'
    BY <1>2, <1>3, <1>6, <1>9, <2>2 DEF NotAnswered, SentKept
  <2> QED
    BY <1>4, <2>2, <2>3, <2>4 DEF Joined, Latest
<1>10. p \in syncing => p \in inside
  BY TypeParts DEF OthersOK
<1>11. /\ p \notin inside' => sess'[p] = <<>>
       /\ Steady(p)' /\ p \notin inside' => Sent(p)' = {} /\ Answered(p)' = {}
  BY <1>2, <1>3, <1>4, <1>7 DEF Follow, SentKept
<1> QED
  BY <1>3, <1>8, <1>9, <1>10, <1>11 DEF Follow

\* A building that comes to an avatar that stays is kept, and answered last.
LEMMA BldFollow ==
  ASSUME TypeOK, HandleBld, NEW p \in Players, p = wire["server"][1].id,
         IsNamed("server", p), Follow(p)
  PROVE  Follow(p)'
<1>1. Head(wire["server"]) = wire["server"][1] /\ Handling("server", "Bld") /\ Done("server")
  BY HeadIs, ServerIsPeer DEF HandleBld
<1>2. OrderKept(p) /\ 1 \in Sent(p)
  BY SMTT(60), <1>1, HandledOrder
<1>3. /\ inside' = inside /\ syncing' = syncing /\ sess' = sess
      /\ raced' = raced /\ waiting' = waiting
  BY DEF HandleBld
<1>4. Pending("server", p)' = {} <=> Pending("server", p) = {}
  BY <1>1, PendingElsewhere, ServerIsPeer
<1>5. Arrived("server", p)' <=> Arrived("server", p)
  BY <1>3, <1>4, WaitsSame DEF Arrived
<1>6. (p \notin inside => sess[p] = <<>>) /\ (p \in syncing => p \in inside)
  BY TypeParts DEF Follow, OthersOK
<1>7. SUFFICES ASSUME Steady(p)'
               PROVE  /\ p \in inside
                      /\ p \in syncing => Joining(p)'
                      /\ p \in inside \ syncing => Joined(p)'
  BY <1>3, <1>6 DEF Follow
<1>8. PICK g : g = Get("server", p)
  OBVIOUS
<1>9. Has("server", p) /\ ~nodes["server"][g].freed
  <2>1. ~Has("server", p) => adrift' = adrift \cup {<<p, "missed">>}
    BY SMTT(60), <1>1 DEF HandleBld
  <2>2. Has("server", p) /\ nodes["server"][g].freed => adrift' = adrift \cup {<<p, "missed">>}
    BY <1>1, <1>8 DEF HandleBld
  <2>3. <<p, "missed">> \notin adrift'
    BY <1>7 DEF Steady, Reasons
  <2> QED
    BY <2>1, <2>2, <2>3
<1>10. PICK new \in Seq(Buildings) :
         /\ Len(new) <= Cap
         /\ nodes' = [nodes EXCEPT !["server"][g].blds = new]
         /\ back' = Append(back, [id |-> p, blds |-> new])
         /\ IF nodes["server"][g].freed
            THEN adrift' = adrift \cup {<<p, "missed">>} ELSE adrift' = adrift
  BY <1>8, <1>9, BldHandled
<1>11. Steady(p)
  BY <1>3, <1>7, <1>9, <1>10 DEF Steady
<1>12. p \in inside
  BY <1>2, <1>11 DEF Follow
<1>13. ASSUME p \in syncing PROVE Joining(p)'
  <2>1. Joining(p)
    BY <1>11, <1>13 DEF Follow
  <2>2. BldsFirst(p)'
    BY <1>2, <2>1 DEF Joining, OrderKept
  <2>3. ~Arrived("server", p)
    BY <1>2, <2>1 DEF Joining, BldsFirst, Arrived
  <2> QED
    BY <1>5, <2>2, <2>3 DEF Joining
<1>14. ASSUME p \in inside \ syncing PROVE Joined(p)'
  <2>1. Joined(p)
    BY <1>11, <1>14 DEF Follow
  <2>2. BldsLast(p)'
    BY <1>2, <2>1 DEF Joined, OrderKept
  <2>3. \A i \in Avatars("server", p) : nodes["server"][i].named
    BY <1>11 DEF Steady, IsNamed
  <2>4. g \in Avatars("server", p) /\ Avatars("server", p) = {g}
    BY <1>8, <1>9, <2>3, OneNamed, ServerIsPeer
  <2>5. Arrived("server", p)
    <3>1. ~Waits("server", p)
      BY <1>9, <1>11, <2>4 DEF Steady, IsNamed
    <3>2. Pending("server", p) = {}
      <4>1. \A j \in Pending("server", p) : j < 1 /\ j \in 1..Len(wire["server"])
        BY <1>2, <2>1, TypeParts, ServerIsPeer DEF Joined, BldsLast, Pending
      <4> QED
        BY <4>1
    <3> QED
      BY <3>1, <3>2 DEF Arrived
  <2>6. Avatars("server", p)' = {g} /\ nodes'["server"][g].blds = new
    <3>1. g \in DOMAIN nodes["server"]
      BY <2>4 DEF Avatars
    <3>2. /\ DOMAIN nodes'["server"] = DOMAIN nodes["server"]
          /\ \A i \in DOMAIN nodes["server"] : nodes'["server"][i].id = nodes["server"][i].id
          /\ nodes'["server"][g].blds = new
      BY <1>10, <3>1, BldNodes
    <3>3. Avatars("server", p)' = Avatars("server", p)
      BY <3>2 DEF Avatars
    <3> QED
      BY <2>4, <3>2, <3>3
  <2>7. Answered(p)' # {} /\ Latest(p, new)'
    BY <1>10, AnswerSent
  <2>8. \A k \in Avatars("server", p)' : Latest(p, nodes["server"][k].blds)'
    BY <2>6, <2>7 DEF Latest
  <2>9. NotAnswered(p)'
    BY <2>7 DEF NotAnswered
  <2> QED
    BY <1>5, <2>2, <2>5, <2>8, <2>9 DEF Joined
<1> QED
  BY SMTT(60), <1>12, <1>13, <1>14

LEMMA HandlerFollow ==
  ASSUME TypeOK, NEW r \in Peers, Handler(r), NEW o \in Players,
         LastOf("server", o), IsNamed("server", o), Follow(o)
  PROVE  Follow(o)'
<1>1. CASE r # "server" \/ o # wire[r][1].id
  BY <1>1, OtherHandled
<1>2. CASE r = "server" /\ o = wire[r][1].id
  BY <1>2, JoinFollow, LeaveFollow, BldFollow DEF Handler
<1> QED
  BY <1>1, <1>2

LEMMA DeleteFollow ==
  ASSUME TypeOK, NEW r \in Peers, Delete(r), NEW o \in Players, Follow(o)
  PROVE  Follow(o)'
<1>1. /\ wire' = wire /\ waiting' = waiting /\ raced' = raced /\ adrift' = adrift
      /\ inside' = inside /\ syncing' = syncing /\ sess' = sess /\ back' = back
  BY DEF Delete
<1>2. Arrived("server", o)' <=> Arrived("server", o)
  BY <1>1, WaitsSame DEF Arrived, Pending
<1>3. \A k \in Avatars("server", o)' :
        k \in Avatars("server", o) /\ nodes'["server"][k].blds = nodes["server"][k].blds
  <2>1. CASE r # "server"
    <3>1. nodes'["server"] = nodes["server"]
      BY <2>1, DeleteNodes, ServerIsPeer
    <3> QED
      BY <3>1 DEF Avatars
  <2>2. CASE r = "server"
    <3>1. /\ DOMAIN nodes'[r] = {i \in DOMAIN nodes[r] : ~nodes[r][i].freed}
          /\ nodes'[r] = [i \in DOMAIN nodes'[r] |-> nodes[r][i]]
      BY DeleteNodes
    <3>2. \A i \in DOMAIN nodes'[r] : i \in DOMAIN nodes[r] /\ nodes'[r][i] = nodes[r][i]
      BY <3>1
    <3> QED
      BY <2>2, <3>2 DEF Avatars
  <2> QED
    BY <2>1, <2>2
<1>4. BldsKept(o)
  BY <1>1, <1>2, <1>3, SameWire, SameAnswers DEF BldsKept, Steady
<1> QED
  BY <1>4, KeptFollows

\* An avatar that is added when its join has waited has no buildings, as is right for a
\* player that no answer is on the way for.
LEMMA IdleFollow ==
  ASSUME TypeOK, IdleFrame, NEW p \in Players, IsNamed("server", p), Follow(p)
  PROVE  Follow(p)'
<1>1. /\ wire' = wire /\ waiting' = <<>> /\ raced' = raced /\ adrift' = adrift
      /\ inside' = inside /\ syncing' = syncing /\ sess' = sess /\ back' = back
      /\ \A i \in DOMAIN nodes["server"] : ~nodes["server"][i].freed
  BY DEF IdleFrame
<1>2. Pending("server", p)' = Pending("server", p) /\ ~Waits("server", p)'
  BY <1>1 DEF Pending, Waits
<1>3. SentKept(p) /\ AnswersKept(p) /\ (Steady(p)' <=> Steady(p))
  BY <1>1, SameWire, SameAnswers DEF Steady
<1>4. /\ \A i \in Avatars("server", p) :
           i \in Avatars("server", p)' /\ nodes'["server"][i] = nodes["server"][i]
      /\ \A i \in Avatars("server", p)' : i \in Avatars("server", p) \/ Waits("server", p)
  BY IdleAdds
<1>5. CASE ~Waits("server", p)
  <2>1. Arrived("server", p)' <=> Arrived("server", p)
    BY <1>2, <1>5 DEF Arrived
  <2>2. \A k \in Avatars("server", p)' :
          k \in Avatars("server", p) /\ nodes'["server"][k].blds = nodes["server"][k].blds
    BY <1>4, <1>5
  <2>3. BldsKept(p)
    BY <1>1, <1>3, <2>1, <2>2 DEF BldsKept
  <2> QED
    BY <2>3, KeptFollows
<1>6. CASE Waits("server", p)
  <2>1. ~Arrived("server", p)
    BY <1>6 DEF Arrived
  <2>2. Steady(p) => AllHave(p, <<>>)'
    <3>1. SUFFICES ASSUME Steady(p) PROVE AllHave(p, <<>>)'
      OBVIOUS
    <3>2. Once(p) /\ Avatars("server", p) = {}
      BY <1>1, <1>6, <3>1 DEF Steady, IsNamed, Avatars
    <3>3. PICK n : /\ Avatars("server", p)' = {n} /\ nodes'["server"][n].named
                   /\ nodes'["server"][n].blds = <<>>
      BY <1>6, <3>2, IdleAdds
    <3> QED
      BY <3>3 DEF AllHave
  <2>3. Steady(p) /\ p \in syncing => Joining(p)'
    BY <1>3, <2>2 DEF Follow, Joining, SentKept, OrderKept
  <2>4. ASSUME Steady(p), p \in inside \ syncing PROVE Joined(p)'
    <3>1. Joined(p)
      BY <2>4 DEF Follow
    <3>2. Answered(p) = {} /\ (Sent(p) = {} => sess[p] = <<>>)
      BY <2>1, <3>1, BeforeArrival
    <3>3. Answered(p)' = {}
      BY <1>3, <3>2 DEF AnswersKept
    <3>4. BldsLast(p)'
      BY <1>3, <3>1 DEF Joined, SentKept, OrderKept
    <3>5. Sent(p)' = {} => sess'[p] = <<>>
      BY <1>1, <1>3, <3>2 DEF SentKept
    <3>6. NotAnswered(p)'
      BY <2>2, <2>4, <3>5 DEF NotAnswered, AllHave
    <3> QED
      BY <3>3, <3>4, <3>6 DEF Joined, Latest
  <2>5. /\ p \notin inside' => sess'[p] = <<>>
        /\ Steady(p)' /\ p \notin inside' => Sent(p)' = {} /\ Answered(p)' = {}
    BY <1>1, <1>3 DEF Follow, SentKept, AnswersKept
  <2> QED
    BY <1>1, <1>3, <2>3, <2>4, <2>5 DEF Follow
<1> QED
  BY <1>5, <1>6

\* The session takes the first answer; if it is the last, it is what the avatar has.
LEMMA KeepFollow ==
  ASSUME TypeOK, KeepBuildings, NEW p \in Players, Follow(p)
  PROVE  Follow(p)'
<1>1. /\ wire' = wire /\ nodes' = nodes /\ waiting' = waiting /\ raced' = raced
      /\ adrift' = adrift /\ inside' = inside /\ syncing' = syncing
      /\ back # <<>> /\ back' = Tail(back)
  BY DEF KeepBuildings
<1>2. PICK m : m = Head(back)
  OBVIOUS
<1>3. sess' = IF m.id \in inside THEN [sess EXCEPT ![m.id] = m.blds] ELSE sess
  BY <1>2 DEF KeepBuildings
<1>4. /\ m.id # p \/ p \notin inside => sess'[p] = sess[p]
      /\ m.id = p /\ p \in inside => sess'[p] = m.blds
  BY <1>3, TypeParts DEF OthersOK
<1>5. SentKept(p) /\ (Steady(p)' <=> Steady(p)) /\ (Sent(p)' = {} <=> Sent(p) = {})
  BY <1>1, SameWire DEF Steady, SentKept
<1>6. /\ Arrived("server", p)' <=> Arrived("server", p)
      /\ Avatars("server", p)' = Avatars("server", p)
      /\ \A b : AllHave(p, b)' <=> AllHave(p, b)
  BY <1>1, WaitsSame DEF Arrived, Pending, Avatars, AllHave
<1>7. /\ m.id # p => AnswersKept(p)
      /\ \A b : Latest(p, b) => Latest(p, b)'
      /\ Answered(p)' # {} => Answered(p) # {}
      /\ Answered(p) # {} /\ Answered(p)' = {} =>
           m.id = p /\ \A b : Latest(p, b) => b = m.blds
  BY <1>1, <1>2, AnswerTaken
<1>8. CASE m.id # p
  <2>1. BldsKept(p)
    BY <1>1, <1>4, <1>5, <1>6, <1>7, <1>8 DEF BldsKept
  <2> QED
    BY <2>1, KeptFollows
<1>9. CASE m.id = p
  <2>1. Steady(p) /\ p \in syncing => Joining(p)'
    <3>1. AllHave(p, <<>>)' <=> AllHave(p, <<>>)
      BY <1>6
    <3> QED
      BY <1>5, <1>6, <3>1 DEF Follow, Joining, SentKept, OrderKept
  <2>2. ASSUME Steady(p), p \in inside \ syncing PROVE Joined(p)'
    <3>1. Joined(p)
      BY <2>2 DEF Follow
    <3>2. BldsLast(p)'
      BY <1>5, <3>1 DEF Joined, SentKept, OrderKept
    <3>3. Answered(p)' # {} => Arrived("server", p)'
      BY <1>6, <1>7, <3>1 DEF Joined
    <3>4. \A k \in Avatars("server", p)' : Latest(p, nodes["server"][k].blds)'
      <4>1. SUFFICES ASSUME NEW k \in Avatars("server", p)
                     PROVE  Latest(p, nodes["server"][k].blds)'
        BY <1>6
      <4>2. PICK b : b = nodes["server"][k].blds
        OBVIOUS
      <4>3. Latest(p, b)' /\ nodes'["server"][k].blds = b
        BY <1>1, <1>7, <3>1, <4>2 DEF Joined
      <4> QED
        BY <4>3 DEF Latest
    <3>5. NotAnswered(p)'
      <4>1. SUFFICES ASSUME Sent(p)' = {}, Answered(p)' = {}
                     PROVE  Arrived("server", p)' /\ AllHave(p, sess[p])'
        BY DEF NotAnswered
      <4>2. Answered(p) # {}
        <5>1. PICK n \in Nat : n = Len(back) /\ DOMAIN back = 1..n /\ n # 0
          BY <1>1, TypeParts DEF OthersOK
        <5>2. 1 \in DOMAIN back /\ back[1].id = p
          BY <1>2, <1>9, <5>1
        <5> QED
          BY <5>2 DEF Answered
      <4>3. Arrived("server", p)'
        BY <1>6, <3>1, <4>2 DEF Joined
      <4>4. \A k \in Avatars("server", p) : nodes["server"][k].blds = m.blds
        BY <1>7, <3>1, <4>1, <4>2 DEF Joined
      <4>5. sess'[p] = m.blds
        BY <1>4, <1>9, <2>2
      <4> QED
        BY <1>1, <1>6, <4>3, <4>4, <4>5 DEF AllHave
    <3> QED
      BY <3>2, <3>3, <3>4, <3>5 DEF Joined
  <2>3. /\ p \notin inside' => sess'[p] = <<>>
        /\ Steady(p)' /\ p \notin inside' => Sent(p)' = {} /\ Answered(p)' = {}
    BY <1>1, <1>4, <1>5, <1>7 DEF Follow
  <2> QED
    BY <1>1, <1>5, <2>1, <2>2, <2>3 DEF Follow
<1> QED
  BY <1>8, <1>9

LEMMA FollowStep ==
  ASSUME TypeOK, LastIsTrue, AvatarStays, AvatarIsNamed, BuildingsFollow, [Next]_vars
  PROVE  BuildingsFollow'
<1>1. SUFFICES ASSUME NEW o \in Players PROVE Follow(o)'
  BY FollowOfEachNext
<1>2. Follow(o)
  BY FollowOfEach
<1>3. LastOf("server", o) /\ IsNamed("server", o)
  <2>1. inside \subseteq Players
    BY TypeParts DEF OthersOK
  <2> QED
    BY <2>1, LastIsOfEach, AvatarsOfEach, ServerIsPeer
<1>4. CASE \E p \in Players : MainStep(p)
  BY <1>2, <1>4, SessionFollow
<1>5. CASE \E r \in Peers : Handler(r)
  BY <1>2, <1>3, <1>5, HandlerFollow
<1>6. CASE \E r \in Peers : Delete(r)
  BY <1>2, <1>6, DeleteFollow
<1>7. CASE IdleFrame
  BY <1>2, <1>3, <1>7, IdleFollow
<1>8. CASE KeepBuildings
  BY <1>2, <1>8, KeepFollow
<1>9. CASE UNCHANGED vars
  <2>1. /\ wire' = wire /\ nodes' = nodes /\ waiting' = waiting /\ raced' = raced
        /\ adrift' = adrift /\ inside' = inside /\ syncing' = syncing
        /\ sess' = sess /\ back' = back
    BY <1>9 DEF vars
  <2>2. /\ Arrived("server", o)' <=> Arrived("server", o)
        /\ Avatars("server", o)' = Avatars("server", o)
    BY <2>1, WaitsSame DEF Arrived, Pending, Avatars
  <2>3. BldsKept(o)
    BY <2>1, <2>2, SameWire, SameAnswers DEF BldsKept, Steady
  <2> QED
    BY <1>2, <2>3, KeptFollows
<1> QED
  BY <1>4, <1>5, <1>6, <1>7, <1>8, <1>9 DEF Next

-----------------------------------------------------------------------------
(* The theorems *)

\* What AvatarInv says holds in every state: the last message of a player tells where
\* it is, its avatar stays and is named, its buildings follow in order.
THEOREM AvatarsInvariant == Spec => [](TypeOK /\ AvatarInv)
<1>1. TypeOK /\ AvatarInv /\ [Next]_vars => TypeOK' /\ AvatarInv'
  BY TypeStep, LastStep, AvatarStep, FollowStep DEF AvatarInv
<1> QED
  BY Start, <1>1, PTL DEF Spec

\* Whoever is inside when everything is handled has an avatar, by AvatarStays: the
\* last message of a player on the shard is a Join, and neither a Leave before it
\* nor the end of a frame takes the avatar that it comes to.
THEOREM JoinsAreKept == Spec => []JoinsKept
<1>1. TypeOK /\ AvatarInv => JoinsKept
  <2> SUFFICES ASSUME TypeOK, AvatarStays,
                      NEW q \in Peers, NEW p \in inside, Settled(q)
               PROVE  Avatars(q, p) # {}
    BY DEF JoinsKept, AvatarInv
  <2>1. Arrived(q, p)
    BY DEF Settled, Arrived, Pending, Waits
  <2> QED
    BY <2>1 DEF AvatarStays
<1> QED
  BY <1>1, AvatarsInvariant, PTL

\* Once everything is handled a player of the shard has one avatar, the one its id
\* finds, and one that has left has none, unless a message met it at a bad time.
THEOREM OneAvatarEach == Spec => []OneAvatar
<1>1. TypeOK /\ AvatarInv => OneAvatar
  <2> SUFFICES ASSUME TypeOK, AvatarStays, AvatarIsNamed,
                      NEW q \in Peers, NEW p \in Players, Settled(q), <<q, p>> \notin raced
               PROVE  IF p \in inside THEN Cardinality(Avatars(q, p)) = 1 /\ Has(q, p)
                      ELSE Avatars(q, p) = {}
    BY DEF OneAvatar, AvatarInv
  <2>1. Arrived(q, p) /\ \A i \in Avatars(q, p) : ~nodes[q][i].freed
    BY DEF Settled, Arrived, Pending, Waits, Avatars
  <2>2. \A i \in Avatars(q, p) : nodes[q][i].named
    BY DEF AvatarIsNamed
  <2>3. CASE p \in inside
    <3>1. Avatars(q, p) # {}
      BY <2>1, <2>3 DEF AvatarStays
    <3>2. Has(q, p)
      BY <2>2, <3>1 DEF Has, Avatars
    <3>3. Avatars(q, p) = {Get(q, p)}
      BY <2>2, <3>2, OneNamed
    <3>4. Cardinality({Get(q, p)}) = 1
      BY FS_Singleton
    <3> QED
      BY <2>3, <3>2, <3>3, <3>4
  <2>4. CASE p \notin inside
    BY <2>1, <2>4 DEF AvatarIsNamed, Arrived
  <2> QED
    BY <2>3, <2>4
<1> QED
  BY <1>1, AvatarsInvariant, PTL

\* When nothing is on its way the session of a player has the buildings that its
\* avatar has, unless one of the Reasons or a race has come between.
THEOREM BuildingsAgree == Spec => []SameBuildings
<1>1. TypeOK /\ AvatarInv => SameBuildings
  <2> SUFFICES ASSUME TypeOK, AvatarStays, AvatarIsNamed, BuildingsFollow, NEW p \in inside,
                      \A r \in Reasons : <<p, r>> \notin adrift,
                      Settled("server"), p \notin syncing, ~InFlight(p),
                      <<"server", p>> \notin raced
               PROVE  sess[p] = nodes["server"][Get("server", p)].blds
    BY DEF SameBuildings, AvatarInv
  <2>1. p \in Players
    BY TypeParts DEF OthersOK
  <2>2. Steady(p) /\ Sent(p) = {} /\ Answered(p) = {}
    BY DEF Steady, InFlight
  <2>3. AllHave(p, sess[p])
    <3>1. Joined(p)
      BY <2>1, <2>2, FollowOfEach DEF Follow
    <3>2. Arrived("server", p)
      BY DEF Settled, Arrived, Pending, Waits
    <3> QED
      BY <2>2, <3>1, <3>2 DEF Joined, NotAnswered
  <2>4. Avatars("server", p) # {}
    <3>1. Arrived("server", p)
      BY DEF Settled, Arrived, Pending, Waits
    <3> QED
      BY <3>1, ServerIsPeer DEF AvatarStays
  <2>5. Has("server", p)
    <3>1. \A i \in Avatars("server", p) : nodes["server"][i].named
      BY <2>1, ServerIsPeer DEF AvatarIsNamed
    <3> QED
      BY <2>4, <3>1 DEF Has, Avatars
  <2>6. Get("server", p) \in Avatars("server", p)
    BY <2>5, GetIs DEF Avatars
  <2> QED
    BY <2>3, <2>6 DEF AllHave
<1> QED
  BY <1>1, AvatarsInvariant, PTL
=============================================================================
