--------------------------- MODULE HuffmanProofs ---------------------------
(***************************************************************************)
(* The properties of Vp8lHuffman for all alphabets, lengths and sizes of   *)
(* the table: what build has made of the codes it has inserted so far, and *)
(* where next stands in it.                                                *)
(***************************************************************************)
EXTENDS HuffmanLemmas

-----------------------------------------------------------------------------
(* The nodes as a tree *)

Strict(a, b) == IsPrefix(a, b) /\ Len(a) < Len(b)

\* the nodes with children, and those without
Inner(nd) == {i \in DOMAIN nd : nd[i].children \notin {0, Leaf}}
Ends(nd)  == DOMAIN nd \ Inner(nd)

Child(nd, i, b) == nd[i].children + b

\* path[i] is the bits that lead from the root to node i
Shape(nd, m, path) ==
  /\ m \in Nat \ {0}
  /\ nd \in [0..m - 1 -> [symbol : Int, children : Int]]
  /\ path \in [0..m - 1 -> Seq(Bit)]
  /\ path[0] = <<>>
  /\ \A i \in Inner(nd) : \A b \in Bit :
       /\ Child(nd, i, b) \in 1..m - 1
       /\ path[Child(nd, i, b)] = Append(path[i], b)
  /\ \A j \in 1..m - 1 : \E i \in Inner(nd) : \E b \in Bit : j = Child(nd, i, b)
  /\ \A i, j \in 0..m - 1 : path[i] = path[j] => i = j
  /\ m = 2 * Cardinality(Inner(nd)) + 1

LEMMA InnerAre ==
  ASSUME NEW nd, NEW m, NEW path, Shape(nd, m, path)
  PROVE  /\ DOMAIN nd = 0..m - 1 /\ m \in Nat /\ 0 \in 0..m - 1
         /\ Inner(nd) \subseteq 0..m - 1 /\ Ends(nd) \subseteq 0..m - 1
         /\ 0..m - 1 = Inner(nd) \cup Ends(nd) /\ Inner(nd) \cap Ends(nd) = {}
         /\ IsFiniteSet(Inner(nd)) /\ IsFiniteSet(Ends(nd))
         /\ Cardinality(Inner(nd)) \in Nat /\ Cardinality(Ends(nd)) \in Nat
         /\ m = 2 * Cardinality(Inner(nd)) + 1
         /\ Cardinality(Ends(nd)) = Cardinality(Inner(nd)) + 1
         /\ \A i \in Ends(nd) : nd[i].children \in {0, Leaf}
<1>1. DOMAIN nd = 0..m - 1 /\ m \in Nat /\ m # 0 /\ m = 2 * Cardinality(Inner(nd)) + 1
  BY DEF Shape
<1>2. Inner(nd) \subseteq 0..m - 1 /\ Ends(nd) = 0..m - 1 \ Inner(nd)
  BY <1>1, Zenon DEF Inner, Ends
<1>3. IsFiniteSet(0..m - 1) /\ Cardinality(0..m - 1) = m
  <2>1. 0 \in Int /\ m - 1 \in Int /\ (IF 0 > m - 1 THEN 0 ELSE m - 1 - 0 + 1) = m BY <1>1
  <2> QED BY <2>1, FS_Interval
<1>4. IsFiniteSet(Inner(nd)) /\ Cardinality(Inner(nd)) \in Nat
  BY <1>2, <1>3, FS_Subset, FS_CardinalityType
<1>5. IsFiniteSet(Ends(nd)) /\ Cardinality(Ends(nd)) = m - Cardinality(Inner(nd))
  <2>1. IsFiniteSet(0..m - 1 \ Inner(nd)) BY <1>2, <1>3, FS_Subset
  <2>2. (0..m - 1) \cap Inner(nd) = Inner(nd) BY <1>2
  <2>3. Cardinality((0..m - 1) \ Inner(nd)) = Cardinality(0..m - 1) - Cardinality((0..m - 1) \cap Inner(nd))
    BY <1>3, FS_Difference
  <2> QED BY <1>2, <1>3, <2>1, <2>2, <2>3
<1>a. Cardinality(Ends(nd)) \in Nat /\ Cardinality(Ends(nd)) = Cardinality(Inner(nd)) + 1
  <2> DEFINE k == Cardinality(Inner(nd))
             e == Cardinality(Ends(nd))
  <2>1. m = 2 * k + 1 /\ e = m - k /\ k \in Nat BY <1>1, <1>4, <1>5
  <2> HIDE DEF k, e
  <2>2. e \in Nat /\ e = k + 1 BY <2>1
  <2> QED BY <2>2 DEF k, e
<1>b. 0 \in 0..m - 1 BY <1>1
<1>c. /\ 0..m - 1 = Inner(nd) \cup Ends(nd) /\ Inner(nd) \cap Ends(nd) = {}
      /\ Ends(nd) \subseteq 0..m - 1
  <2> DEFINE M == 0..m - 1
  <2>1. Inner(nd) \subseteq M /\ Ends(nd) = M \ Inner(nd) BY <1>2
  <2> HIDE DEF M
  <2>2. M = Inner(nd) \cup Ends(nd) /\ Inner(nd) \cap Ends(nd) = {} /\ Ends(nd) \subseteq M
    BY <2>1
  <2> QED BY <2>2 DEF M
<1>6. \A i \in Ends(nd) : nd[i].children \in {0, Leaf} BY DEF Ends, Inner
<1> QED BY <1>1, <1>2, <1>4, <1>5, <1>6, <1>a, <1>b, <1>c, Zenon

LEMMA ShapeGives ==
  ASSUME NEW nd, NEW m, NEW path, Shape(nd, m, path)
  PROVE  /\ \A j \in 0..m - 1 : path[j] \in Seq(Bit) /\ Len(path[j]) \in Nat
         /\ \A j \in Inner(nd) \cup Ends(nd) : path[j] \in Seq(Bit) /\ Len(path[j]) \in Nat
         /\ path[0] = <<>>
         /\ \A i \in Inner(nd) : \A b \in Bit :
              /\ Child(nd, i, b) \in 0..m - 1
              /\ path[Child(nd, i, b)] = Append(path[i], b)
         /\ \A j \in 0..m - 1 : j # 0 =>
              \E i \in Inner(nd) : \E b \in Bit : j = Child(nd, i, b)
         /\ \A i, j \in 0..m - 1 : path[i] = path[j] => i = j
<1>1. path \in [0..m - 1 -> Seq(Bit)] BY DEF Shape
<1>2. \A j \in 0..m - 1 : path[j] \in Seq(Bit) /\ Len(path[j]) \in Nat BY <1>1
<1>3. 0..m - 1 = Inner(nd) \cup Ends(nd) BY InnerAre
<1>4. m \in Nat /\ \A j \in 0..m - 1 : j # 0 => j \in 1..m - 1 BY InnerAre
<1>5. 1..m - 1 \subseteq 0..m - 1 BY <1>4
<1> QED BY <1>2, <1>3, <1>4, <1>5 DEF Shape

LEMMA AppendStrict ==
  ASSUME NEW a \in Seq(Bit), NEW b \in Bit
  PROVE  /\ Append(a, b) \in Seq(Bit) /\ Len(Append(a, b)) = Len(a) + 1 /\ Len(a) \in Nat
         /\ Strict(a, Append(a, b))
         /\ \A q \in Seq(Bit) : Strict(q, Append(a, b)) => q = a \/ Strict(q, a)
<1> DEFINE e == Append(a, b)
<1>1. e \in Seq(Bit) /\ Len(e) = Len(a) + 1 /\ Len(a) \in Nat
  OBVIOUS
<1>0. \A i \in 1..Len(a) : a[i] = e[i] OBVIOUS
<1> HIDE DEF e
<1>2. IsPrefix(a, e) BY <1>0, <1>1, PrefixIs
<1>3. ASSUME NEW q \in Seq(Bit), Strict(q, e) PROVE q = a \/ Strict(q, a)
  <2>1. IsPrefix(q, e) /\ Len(q) < Len(a) + 1 /\ Len(q) \in Nat
    BY <1>1, <1>3 DEF Strict
  <2>a. Len(q) <= Len(a) BY <1>1, <2>1
  <2>2. IsPrefix(q, a) BY <1>1, <1>2, <2>1, <2>a, PrefixesOfOne
  <2>3. Len(q) = Len(a) => q = a BY <2>2, PrefixSame
  <2> QED BY <1>1, <2>1, <2>2, <2>3 DEF Strict
<1>4. Strict(a, e) BY <1>1, <1>2 DEF Strict
<1> QED BY <1>1, <1>3, <1>4 DEF e

(* What begins a path is the path of a node with children. *)
LEMMA PrefixNode ==
  ASSUME NEW nd, NEW m, NEW path, Shape(nd, m, path),
         NEW j \in 0..m - 1, NEW q \in Seq(Bit), Strict(q, path[j])
  PROVE  \E i \in Inner(nd) : path[i] = q
<1> DEFINE T == {k \in Nat : \A h \in 0..m - 1 :
                   Len(path[h]) = k /\ Strict(q, path[h]) => \E i \in Inner(nd) : path[i] = q}
<1>0. \A h \in 0..m - 1 : path[h] \in Seq(Bit) /\ Len(path[h]) \in Nat BY ShapeGives
<1>a. Len(q) \in Nat OBVIOUS
<1>1. 0 \in T
  <2> SUFFICES ASSUME NEW h \in 0..m - 1, Len(path[h]) = 0, Strict(q, path[h]) PROVE FALSE
    OBVIOUS
  <2> QED BY <1>a DEF Strict
<1>2. ASSUME NEW k \in Nat, k \in T PROVE k + 1 \in T
  <2> SUFFICES ASSUME NEW h \in 0..m - 1, Len(path[h]) = k + 1, Strict(q, path[h])
               PROVE  \E i \in Inner(nd) : path[i] = q
    OBVIOUS
  <2>1. h # 0
    <3>1. path[0] = <<>> /\ Len(<<>>) = 0 BY DEF Shape
    <3> QED BY <3>1
  <2>3. PICK i \in Inner(nd) : \E b \in Bit : h = Child(nd, i, b) BY <2>1, ShapeGives
  <2>4. PICK b \in Bit : h = Child(nd, i, b) BY <2>3
  <2>5. path[h] = Append(path[i], b) /\ i \in 0..m - 1
    <3>1. path[Child(nd, i, b)] = Append(path[i], b) BY ShapeGives
    <3> QED BY <2>4, <3>1, InnerAre
  <2>6. Len(path[i]) = k BY <1>0, <2>5, AppendStrict
  <2>7. q = path[i] \/ Strict(q, path[i]) BY <1>0, <2>5, AppendStrict
  <2> QED BY <1>2, <2>3, <2>5, <2>6, <2>7
<1>3. Nat \subseteq T
  <2> HIDE DEF T
  <2> QED BY <1>1, <1>2, Induction
<1>4. Len(path[j]) \in T BY <1>0, <1>3
<1> QED BY <1>4

(* Every sequence of bits leads to a node without children, or stops before. *)
LEMMA Descent ==
  ASSUME NEW nd, NEW m, NEW path, Shape(nd, m, path), NEW c \in Seq(Bit)
  PROVE  \/ \E x \in Ends(nd) : IsPrefix(path[x], c)
         \/ \E i \in Inner(nd) : path[i] = c
<1> DEFINE P(d) == \/ \E x \in Ends(nd) : IsPrefix(path[x], d)
                   \/ \E i \in Inner(nd) : path[i] = d
           T == {k \in Nat : \A d \in Seq(Bit) : Len(d) = k => P(d)}
<1>0. \A h \in 0..m - 1 : path[h] \in Seq(Bit) BY ShapeGives
<1>a. ASSUME NEW j \in 0..m - 1 PROVE P(path[j])
  <2>1. IsPrefix(path[j], path[j]) BY <1>0, PrefixIs
  <2>2. j \in Ends(nd) \/ j \in Inner(nd) BY InnerAre
  <2> QED BY <2>1, <2>2
<1>1. 0 \in T
  <2>1. \A d \in Seq(Bit) : Len(d) = 0 => d = path[0] BY DEF Shape
  <2>2. 0 \in 0..m - 1 BY InnerAre
  <2> HIDE DEF P
  <2> QED BY <1>a, <2>1, <2>2
<1>2. ASSUME NEW k \in Nat, k \in T PROVE k + 1 \in T
  <2> SUFFICES ASSUME NEW d \in Seq(Bit), Len(d) = k + 1 PROVE P(d)
    OBVIOUS
  <2> DEFINE e == SubSeq(d, 1, k)
  <2>1. e \in Seq(Bit) /\ Len(e) = k /\ d[k + 1] \in Bit /\ d = Append(e, d[k + 1])
    BY <1>2
  <2> HIDE DEF e
  <2>2. P(e) BY <1>2, <2>1
  <2>3. CASE \E x \in Ends(nd) : IsPrefix(path[x], e)
    <3>1. PICK x \in Ends(nd) : IsPrefix(path[x], e) BY <2>3
    <3>2. IsPrefix(e, d)
      <4>1. Strict(e, Append(e, d[k + 1])) BY <2>1, AppendStrict
      <4> QED BY <2>1, <4>1 DEF Strict
    <3>3. path[x] \in Seq(Bit) BY <1>0, InnerAre
    <3> QED BY <2>1, <3>1, <3>2, <3>3, PrefixTrans
  <2>4. CASE \E i \in Inner(nd) : path[i] = e
    <3>1. PICK i \in Inner(nd) : path[i] = e BY <2>4
    <3>2. PICK j \in 0..m - 1 : path[j] = d
      <4>1. Child(nd, i, d[k + 1]) \in 0..m - 1
            /\ path[Child(nd, i, d[k + 1])] = Append(path[i], d[k + 1])
        BY <2>1, ShapeGives
      <4> HIDE DEF P
      <4> QED BY <2>1, <3>1, <4>1
    <3> HIDE DEF P
    <3> QED BY <1>a, <3>2
  <2> QED BY <2>2, <2>3, <2>4
<1>3. Nat \subseteq T
  <2> HIDE DEF T
  <2> QED BY <1>1, <1>2, Induction
<1>4. Len(c) \in T BY <1>3
<1> QED BY <1>4

(* Nodes without children stand on different paths. *)
LEMMA EndsApart ==
  ASSUME NEW nd, NEW m, NEW path, Shape(nd, m, path),
         NEW x \in Ends(nd), NEW y \in Ends(nd), NEW c \in Seq(Bit),
         IsPrefix(path[x], c), IsPrefix(path[y], c)
  PROVE  x = y
<1>1. ASSUME NEW u \in Ends(nd), NEW v \in Ends(nd), IsPrefix(path[u], path[v])
      PROVE  u = v
  <2>1. u \in 0..m - 1 /\ v \in 0..m - 1 /\ path[u] \in Seq(Bit) /\ path[v] \in Seq(Bit)
    BY InnerAre, ShapeGives
  <2>2. ~Strict(path[u], path[v])
    <3> SUFFICES ASSUME Strict(path[u], path[v]) PROVE FALSE OBVIOUS
    <3>1. PICK i \in Inner(nd) : path[i] = path[u] BY <2>1, PrefixNode
    <3>2. i \in 0..m - 1 /\ i \notin Ends(nd) BY <3>1, InnerAre
    <3>3. i = u BY <2>1, <3>1, <3>2, ShapeGives
    <3> QED BY <3>2, <3>3
  <2>3. Len(path[u]) = Len(path[v]) BY <1>1, <2>1, <2>2, PrefixIs DEF Strict
  <2>4. path[u] = path[v] BY <1>1, <2>1, <2>3, PrefixSame
  <2> QED BY <2>1, <2>4, ShapeGives
<1>2. path[x] \in Seq(Bit) /\ path[y] \in Seq(Bit) BY InnerAre, ShapeGives
<1>3. Len(path[x]) <= Len(path[y]) \/ Len(path[y]) <= Len(path[x])
  <2>1. Len(path[x]) \in Nat /\ Len(path[y]) \in Nat BY <1>2
  <2> QED BY <2>1
<1>4. IsPrefix(path[x], path[y]) \/ IsPrefix(path[y], path[x]) BY <1>2, <1>3, PrefixesOfOne
<1> QED BY <1>1, <1>4

(* insert gives children to a node that has none. *)
Grown(nd, m, x) ==
  [i \in 0..m + 1 |-> IF i >= m THEN Fresh
                      ELSE IF i = x THEN [nd[x] EXCEPT !.children = m] ELSE nd[i]]
GrownPath(path, m, x) ==
  [i \in 0..m + 1 |-> IF i >= m THEN Append(path[x], i - m) ELSE path[i]]

LEMMA Grows ==
  ASSUME NEW nd, NEW m, NEW path, Shape(nd, m, path),
         NEW x \in 0..m - 1, nd[x].children = 0
  PROVE  /\ Shape(Grown(nd, m, x), m + 2, GrownPath(path, m, x))
         /\ Inner(Grown(nd, m, x)) = Inner(nd) \cup {x}
         /\ \A i \in 0..m - 1 : GrownPath(path, m, x)[i] = path[i]
         /\ \A i \in 0..m - 1 : Grown(nd, m, x)[i].children = Leaf <=> nd[i].children = Leaf
         /\ \A i \in 0..m - 1 : i # x => Grown(nd, m, x)[i] = nd[i]
         /\ \A i \in 0..m + 1 : i \notin 0..m - 1 => Grown(nd, m, x)[i].children = 0
<1> DEFINE nd2 == Grown(nd, m, x)
           path2 == GrownPath(path, m, x)
<1>a. nd2 = [i \in 0..m + 1 |-> IF i >= m THEN Fresh
                                ELSE IF i = x THEN [nd[x] EXCEPT !.children = m]
                                ELSE nd[i]]
  BY DEF Grown
<1>b. path2 = [i \in 0..m + 1 |-> IF i >= m THEN Append(path[x], i - m) ELSE path[i]]
  BY DEF GrownPath
<1> USE <1>a, <1>b
<1> HIDE DEF nd2, path2
<1>1. /\ m \in Nat /\ m > 0 /\ nd \in [0..m - 1 -> [symbol : Int, children : Int]]
      /\ path \in [0..m - 1 -> Seq(Bit)]
  <2>1. m \in Nat \ {0} /\ nd \in [0..m - 1 -> [symbol : Int, children : Int]]
        /\ path \in [0..m - 1 -> Seq(Bit)]
    BY DEF Shape
  <2> QED BY <2>1
<1>2. \A i \in 0..m + 1 : i >= m => i = m \/ i = m + 1 BY <1>1
<1>3. \A i \in 0..m - 1 : i \in 0..m + 1 /\ ~(i >= m) BY <1>1
<1>4. \A i \in 0..m - 1 : i # x => nd2[i] = nd[i] BY <1>3
<1>5. nd2[x] = [nd[x] EXCEPT !.children = m] BY <1>3
<1>6. \A i \in 0..m - 1 : path2[i] = path[i] BY <1>3
<1>7. \A i \in {m, m + 1} : i \in 0..m + 1 /\ nd2[i] = Fresh BY <1>1
<1>8. \A b \in Bit : m + b \in 0..m + 1 /\ m + b >= m /\ (m + b) - m = b BY <1>1 DEF Bit
<1>9. \A b \in Bit : path2[m + b] = Append(path[x], b)
  <2> SUFFICES ASSUME NEW b \in Bit PROVE path2[m + b] = Append(path[x], b) OBVIOUS
  <2> DEFINE i == m + b
  <2>1. i \in 0..m + 1 /\ i >= m /\ i - m = b BY <1>8
  <2> HIDE DEF i
  <2>2. path2[i] = Append(path[x], i - m) BY <2>1
  <2> QED BY <2>1, <2>2 DEF i
<1>10. nd[x] \in [symbol : Int, children : Int] BY <1>1
<1>11. nd2[x].children = m /\ nd2[x].symbol = nd[x].symbol BY <1>5, <1>10
<1>12. /\ DOMAIN nd2 = 0..m + 1 /\ DOMAIN nd = 0..m - 1
       /\ 0..m + 1 = (0..m - 1) \cup {m, m + 1}
  <2>1. DOMAIN nd2 = 0..m + 1 /\ DOMAIN nd = 0..m - 1 BY <1>1
  <2>2. \A i \in 0..m + 1 : i \in 0..m - 1 \/ i = m \/ i = m + 1 BY <1>1
  <2>3. \A i \in 0..m - 1 : i \in 0..m + 1 BY <1>1
  <2>4. m \in 0..m + 1 /\ m + 1 \in 0..m + 1 BY <1>1
  <2> QED BY <2>1, <2>2, <2>3, <2>4
<1>13. Fresh.children = 0 /\ Leaf # 0 /\ m # 0 /\ m # Leaf BY <1>1 DEF Fresh, Leaf
<1>14. Inner(nd2) = Inner(nd) \cup {x}
  <2>1. ASSUME NEW i \in 0..m - 1
        PROVE  nd2[i].children \notin {0, Leaf} <=> i = x \/ nd[i].children \notin {0, Leaf}
    BY <1>4, <1>11, <1>13
  <2>2. ASSUME NEW i \in {m, m + 1} PROVE nd2[i].children = 0 BY <1>7, <1>13
  <2> QED BY <1>12, <2>1, <2>2 DEF Inner
<1>15. x \notin Inner(nd) BY DEF Inner
<1>16. \A i \in Inner(nd) : i \in 0..m - 1 /\ i # x BY <1>15, InnerAre
<1>17. nd2 \in [0..m + 1 -> [symbol : Int, children : Int]]
  <2>1. ASSUME NEW i \in 0..m + 1 PROVE nd2[i] \in [symbol : Int, children : Int]
    <3>1. CASE i \in {m, m + 1}
      <4>1. nd2[i] = Fresh BY <1>7, <3>1
      <4> QED BY <4>1 DEF Fresh
    <3>2. CASE i = x
      <4> DEFINE r == nd[x]
      <4>1. r \in [symbol : Int, children : Int] /\ m \in Int BY <1>1, <1>10
      <4>2. nd2[i] = [r EXCEPT !.children = m] BY <1>5, <3>2
      <4> HIDE DEF r
      <4> QED BY <4>1, <4>2
    <3>3. CASE i \in 0..m - 1 /\ i # x BY <1>1, <1>4, <3>3
    <3> QED BY <1>12, <3>1, <3>2, <3>3
  <2>2. nd2 = [i \in 0..m + 1 |-> nd2[i]] OBVIOUS
  <2> QED BY <2>1, <2>2, Zenon
<1>18. path2 \in [0..m + 1 -> Seq(Bit)]
  <2>1. ASSUME NEW i \in 0..m + 1 PROVE path2[i] \in Seq(Bit)
    <3>1. CASE i \in {m, m + 1}
      <4>1. PICK b \in Bit : i = m + b BY <1>1, <3>1 DEF Bit
      <4>2. path2[i] = Append(path[x], b) BY <1>9, <4>1, Zenon
      <4> QED BY <1>1, <4>2, AppendStrict
    <3>2. CASE i \in 0..m - 1 BY <1>1, <1>6, <3>2
    <3> QED BY <1>12, <3>1, <3>2
  <2>2. path2 = [i \in 0..m + 1 |-> path2[i]] OBVIOUS
  <2> QED BY <2>1, <2>2, Zenon
<1>19. path2[0] = <<>>
  <2>1. 0 \in 0..m - 1 /\ path[0] = <<>> BY InnerAre, ShapeGives
  <2> QED BY <1>6, <2>1
<1>20. ASSUME NEW i \in Inner(nd2), NEW b \in Bit
       PROVE  Child(nd2, i, b) \in 1..m + 1
              /\ path2[Child(nd2, i, b)] = Append(path2[i], b)
  <2>1. CASE i = x
    <3>1. m + b \in 1..m + 1 BY <1>1 DEF Bit
    <3>2. Child(nd2, i, b) = m + b BY <1>11, <2>1 DEF Child
    <3>3. path2[m + b] = Append(path[x], b) BY <1>9, Zenon
    <3> QED BY <1>6, <2>1, <3>1, <3>2, <3>3
  <2>2. CASE i \in Inner(nd)
    <3> DEFINE j == Child(nd, i, b)
    <3>1. j \in 1..m - 1 /\ path[j] = Append(path[i], b) BY <2>2 DEF Shape
    <3> HIDE DEF j
    <3>2. j \in 0..m - 1 /\ j \in 1..m + 1 BY <1>1, <3>1
    <3>3. path2[j] = path[j] /\ path2[i] = path[i] /\ nd2[i] = nd[i]
      BY <1>4, <1>6, <1>16, <2>2, <3>2
    <3> QED BY <3>1, <3>2, <3>3 DEF j, Child
  <2> QED BY <1>14, <2>1, <2>2
<1>21. ASSUME NEW j \in 1..m + 1
       PROVE  \E i \in Inner(nd2) : \E b \in Bit : j = Child(nd2, i, b)
  <2>1. CASE j \in {m, m + 1}
    <3>1. PICK b \in Bit : j = m + b BY <1>1, <2>1 DEF Bit
    <3>2. x \in Inner(nd2) BY <1>14
    <3> QED BY <1>11, <3>1, <3>2 DEF Child
  <2>2. CASE j \in 1..m - 1
    <3>1. PICK i \in Inner(nd) : \E b \in Bit : j = Child(nd, i, b) BY <2>2 DEF Shape
    <3>2. i \in Inner(nd2) /\ nd2[i] = nd[i] BY <1>4, <1>14, <1>16
    <3> QED BY <3>1, <3>2 DEF Child
  <2>3. j \in {m, m + 1} \/ j \in 1..m - 1 BY <1>1
  <2> QED BY <2>1, <2>2, <2>3
(* No node stands where the new ones do. *)
<1>22. ASSUME NEW j \in 0..m - 1, NEW b \in Bit, path[j] = Append(path[x], b) PROVE FALSE
  <2>1. Strict(path[x], path[j]) /\ path[x] \in Seq(Bit) BY <1>1, <1>22, AppendStrict
  <2>2. PICK i \in Inner(nd) : path[i] = path[x] BY <2>1, PrefixNode
  <2>3. i = x BY <1>16, <2>2, ShapeGives
  <2> QED BY <1>15, <2>3
<1>23. ASSUME NEW i \in 0..m + 1, NEW j \in 0..m + 1, path2[i] = path2[j] PROVE i = j
  <2>1. CASE i \in 0..m - 1 /\ j \in 0..m - 1
    <3>1. path[i] = path[j] BY <1>6, <1>23, <2>1
    <3> QED BY <2>1, <3>1, ShapeGives
  <2>2. ASSUME NEW u \in 0..m - 1, NEW v \in {m, m + 1}, path2[u] = path2[v] PROVE FALSE
    <3>1. PICK b \in Bit : v = m + b BY <1>1 DEF Bit
    <3>2. path2[v] = Append(path[x], b) BY <1>9, <3>1, Zenon
    <3> QED BY <1>6, <1>22, <2>2, <3>2
  <2>3. CASE i \in {m, m + 1} /\ j \in {m, m + 1}
    <3>1. PICK b \in Bit : i = m + b BY <1>1, <2>3 DEF Bit
    <3>2. PICK d \in Bit : j = m + d BY <1>1, <2>3 DEF Bit
    <3>3. path2[i] = Append(path[x], b) BY <1>9, <3>1, Zenon
    <3>4. path2[j] = Append(path[x], d) BY <1>9, <3>2, Zenon
    <3>5. path[x] \in Seq(Bit) BY <1>1
    <3>6. b = d
      <4> DEFINE a == path[x]
      <4>1. a \in Seq(Bit) /\ Append(a, b) = Append(a, d) BY <1>23, <3>3, <3>4, <3>5
      <4> HIDE DEF a
      <4>2. Append(a, b)[Len(a) + 1] = b /\ Append(a, d)[Len(a) + 1] = d BY <4>1
      <4> QED BY <4>1, <4>2
    <3> QED BY <3>1, <3>2, <3>6
  <2> QED BY <1>12, <1>23, <2>1, <2>2, <2>3
<1>24. m + 2 = 2 * Cardinality(Inner(nd2)) + 1
  <2>1. Cardinality(Inner(nd) \cup {x}) = Cardinality(Inner(nd)) + 1
    BY <1>15, InnerAre, FS_AddElement
  <2>2. m = 2 * Cardinality(Inner(nd)) + 1 /\ Cardinality(Inner(nd)) \in Nat BY InnerAre
  <2> DEFINE a == Cardinality(Inner(nd))
             b == Cardinality(Inner(nd2))
  <2>3. b = a + 1 /\ m = 2 * a + 1 /\ a \in Nat BY <1>14, <2>1, <2>2
  <2> HIDE DEF a, b
  <2>4. m + 2 = 2 * b + 1 BY <2>3
  <2> QED BY <2>4 DEF b
<1>25. Shape(nd2, m + 2, path2)
  <2>1. m + 2 \in Nat \ {0} /\ (m + 2) - 1 = m + 1 BY <1>1
  <2> DEFINE k == m + 2
  <2>2. /\ k \in Nat \ {0} /\ k - 1 = m + 1
        /\ k = 2 * Cardinality(Inner(nd2)) + 1
    BY <1>24, <2>1
  <2> HIDE DEF k
  <2>3. Shape(nd2, k, path2)
    <3>1. nd2 \in [0..k - 1 -> [symbol : Int, children : Int]] BY <1>17, <2>2
    <3>2. path2 \in [0..k - 1 -> Seq(Bit)] BY <1>18, <2>2
    <3>3. \A i \in Inner(nd2) : \A b \in Bit :
            /\ Child(nd2, i, b) \in 1..k - 1
            /\ path2[Child(nd2, i, b)] = Append(path2[i], b)
      BY <1>20, <2>2
    <3>4. \A j \in 1..k - 1 : \E i \in Inner(nd2) : \E b \in Bit : j = Child(nd2, i, b)
      <4>1. \A j \in 1..m + 1 : \E i \in Inner(nd2) : \E b \in Bit : j = Child(nd2, i, b)
        BY <1>21
      <4>2. 1..k - 1 = 1..m + 1 BY <2>2
      <4> SUFFICES ASSUME NEW j \in 1..k - 1
                   PROVE  \E i \in Inner(nd2) : \E b \in Bit : j = Child(nd2, i, b)
        OBVIOUS
      <4>3. j \in 1..m + 1 BY <4>2
      <4> QED BY <4>1, <4>3
    <3>5. \A i, j \in 0..k - 1 : path2[i] = path2[j] => i = j BY <1>23, <2>2
    <3> QED BY <1>19, <2>2, <3>1, <3>2, <3>3, <3>4, <3>5, Zenon DEF Shape
  <2> QED BY <2>3 DEF k
<1>26. \A i \in 0..m - 1 : nd2[i].children = Leaf <=> nd[i].children = Leaf
  BY <1>4, <1>11, <1>13
<1>27. \A i \in 0..m + 1 : i \notin 0..m - 1 => nd2[i].children = 0 BY <1>7, <1>12, <1>13
<1> HIDE <1>a, <1>b
<1> QED BY <1>4, <1>6, <1>14, <1>25, <1>26, <1>27, Zenon DEF nd2, path2

(* and turns one into a leaf. *)
Closed(nd, x, s) == [nd EXCEPT ![x] = [symbol |-> s, children |-> Leaf]]

LEMMA Closes ==
  ASSUME NEW nd, NEW m, NEW path, Shape(nd, m, path), NEW x \in Ends(nd), NEW s \in Int
  PROVE  /\ Shape(Closed(nd, x, s), m, path) /\ Inner(Closed(nd, x, s)) = Inner(nd)
         /\ Closed(nd, x, s)[x] = [symbol |-> s, children |-> Leaf]
         /\ \A i \in 0..m - 1 : i # x => Closed(nd, x, s)[i] = nd[i]
<1> DEFINE nd2 == Closed(nd, x, s)
<1>a. nd2 = [nd EXCEPT ![x] = [symbol |-> s, children |-> Leaf]] BY DEF Closed
<1> USE <1>a
<1> HIDE DEF nd2
<1>0. x \in 0..m - 1 BY InnerAre
<1>1. nd \in [0..m - 1 -> [symbol : Int, children : Int]] /\ x \in 0..m - 1
  BY <1>0 DEF Shape
<1>2. nd2 \in [0..m - 1 -> [symbol : Int, children : Int]] BY <1>1 DEF Leaf
<1>3. nd2[x] = [symbol |-> s, children |-> Leaf] BY <1>1
<1>4. \A i \in 0..m - 1 : i # x => nd2[i] = nd[i] BY <1>1
<1>5. DOMAIN nd2 = 0..m - 1 /\ DOMAIN nd = 0..m - 1 BY <1>1
<1>6. x \notin Inner(nd) BY DEF Ends
<1>7. Inner(nd2) = Inner(nd)
  <2>1. ASSUME NEW i \in 0..m - 1 PROVE i \in Inner(nd2) <=> i \in Inner(nd)
    <3>1. CASE i = x BY <1>3, <1>6, <3>1 DEF Inner
    <3>2. CASE i # x BY <1>4, <1>5, <3>2 DEF Inner
    <3> QED BY <3>1, <3>2
  <2>2. Inner(nd2) \subseteq 0..m - 1 /\ Inner(nd) \subseteq 0..m - 1 BY <1>5 DEF Inner
  <2> QED BY <2>1, <2>2
<1>8. \A i \in Inner(nd) : nd2[i] = nd[i] BY <1>4, <1>6, InnerAre
<1>9. Shape(nd2, m, path)
  <2> HIDE DEF Inner
  <2>1. m \in Nat \ {0} /\ path \in [0..m - 1 -> Seq(Bit)] /\ path[0] = <<>>
        /\ m = 2 * Cardinality(Inner(nd2)) + 1
        /\ \A i, j \in 0..m - 1 : path[i] = path[j] => i = j
    BY <1>7, Zenon DEF Shape
  <2>2. \A i \in Inner(nd2) : \A b \in Bit :
          /\ Child(nd2, i, b) \in 1..m - 1
          /\ path[Child(nd2, i, b)] = Append(path[i], b)
    <3> SUFFICES ASSUME NEW i \in Inner(nd), NEW b \in Bit
                 PROVE  /\ Child(nd2, i, b) \in 1..m - 1
                        /\ path[Child(nd2, i, b)] = Append(path[i], b)
      BY <1>7
    <3>1. Child(nd2, i, b) = Child(nd, i, b) BY <1>8 DEF Child
    <3>2. Child(nd, i, b) \in 1..m - 1 /\ path[Child(nd, i, b)] = Append(path[i], b)
      BY DEF Shape
    <3> QED BY <3>1, <3>2
  <2>3. \A j \in 1..m - 1 : \E i \in Inner(nd2) : \E b \in Bit : j = Child(nd2, i, b)
    <3> SUFFICES ASSUME NEW j \in 1..m - 1
                 PROVE  \E i \in Inner(nd2) : \E b \in Bit : j = Child(nd2, i, b)
      OBVIOUS
    <3>1. PICK i \in Inner(nd) : \E b \in Bit : j = Child(nd, i, b) BY Zenon DEF Shape
    <3> QED BY <1>7, <1>8, <3>1 DEF Child
  <2> QED BY <1>2, <2>1, <2>2, <2>3, Zenon DEF Shape
<1> HIDE <1>a
<1> QED BY <1>3, <1>4, <1>7, <1>9 DEF nd2

-----------------------------------------------------------------------------
(* The tree of some codes *)

\* done and all are sets of pairs of a symbol and its code: those inserted, and all
Pairs == Symbols \X Seq(Bit)

\* the nodes are those on the way to a code, and the leaves stand for the codes of done
Tree(nd, m, path, done, all, cap) ==
  /\ Shape(nd, m, path)
  /\ \A i \in 0..m - 1 : nd[i].children = Leaf => <<nd[i].symbol, path[i]>> \in done
  /\ \A d \in done : \E i \in 0..m - 1 : nd[i].children = Leaf /\ path[i] = d[2]
  /\ \A i \in Inner(nd) : \E d \in all : Strict(path[i], d[2])
  /\ m <= cap

\* what an entry of the table may be
Entry(r, e, m, path, done) ==
  \/ r.len1 # 0 /\ \E d \in done : /\ r.val = d[1] /\ r.len1 = Len(d[2]) + 1
                                   /\ Len(d[2]) <= LutSize /\ IsPrefix(d[2], e)
  \/ r.len1 = 0 /\ r.val \in 0..m - 1 /\ path[r.val] = e
  \/ r = Hole

Table(lt, m, path, done) ==
  /\ lt \in [Strings(LutSize) -> [len1 : Nat, val : Int]]
  /\ \A e \in Strings(LutSize) : Entry(lt[e], e, m, path, done)
  /\ \A d \in done : \A e \in Strings(LutSize) :
       Len(d[2]) <= LutSize /\ IsPrefix(d[2], e) => lt[e].len1 # 0

\* the codes longer than the table have an entry for their first bits
Reached(lt, done) ==
  \A d \in done : LutSize < Len(d[2]) => lt[SubSeq(d[2], 1, LutSize)] # Hole

LEMMA LutType == LutSize \in Nat /\ LutSize > 0
BY HuffmanAssumption

LEMMA PairIs ==
  ASSUME NEW d \in Pairs
  PROVE  d[1] \in Symbols /\ d[2] \in Seq(Bit) /\ Len(d[2]) \in Nat /\ d = <<d[1], d[2]>>
BY DEF Pairs

LEMMA TopIs ==
  ASSUME NEW c \in Seq(Bit), LutSize <= Len(c)
  PROVE  /\ SubSeq(c, 1, LutSize) \in Strings(LutSize) /\ SubSeq(c, 1, LutSize) \in Seq(Bit)
         /\ Len(SubSeq(c, 1, LutSize)) = LutSize
         /\ IsPrefix(SubSeq(c, 1, LutSize), c)
<1> DEFINE e == SubSeq(c, 1, LutSize)
<1>1. e \in Seq(Bit) /\ Len(e) = LutSize /\ \A i \in 1..LutSize : e[i] = c[i] BY LutType
<1> HIDE DEF e
<1>2. e \in Strings(LutSize) BY <1>1, SeqIsString
<1>3. IsPrefix(e, c) BY <1>1, PrefixIs
<1> QED BY <1>1, <1>2, <1>3 DEF e

LEMMA TableGrows ==
  ASSUME NEW lt, NEW m \in Nat, NEW path, NEW done, Table(lt, m, path, done),
         NEW m2 \in Nat, NEW path2, m <= m2, \A i \in 0..m - 1 : path2[i] = path[i]
  PROVE  Table(lt, m2, path2, done)
<1>1. \A i \in 0..m - 1 : i \in 0..m2 - 1 OBVIOUS
<1>2. ASSUME NEW e \in Strings(LutSize) PROVE Entry(lt[e], e, m2, path2, done)
  <2>1. Entry(lt[e], e, m, path, done) BY DEF Table
  <2> QED BY <1>1, <2>1 DEF Entry
<1> QED BY <1>2 DEF Table

(* insert notes in the table the node that the first bits of a code lead to. *)
Noted(lt, top, to) ==
  IF lt[top] = Hole THEN [lt EXCEPT ![top] = [len1 |-> 0, val |-> to]] ELSE lt

LEMMA Notes ==
  ASSUME NEW lt, NEW m \in Nat, NEW path, NEW done, Table(lt, m, path, done),
         NEW R \in SUBSET Pairs, Reached(lt, R), path[0] = <<>>,
         NEW top \in Strings(LutSize), NEW to \in 0..m - 1, path[to] = top
  PROVE  /\ Table(Noted(lt, top, to), m, path, done) /\ Reached(Noted(lt, top, to), R)
         /\ Noted(lt, top, to)[top] # Hole
<1> DEFINE lt2 == Noted(lt, top, to)
<1>a. lt2 = IF lt[top] = Hole THEN [lt EXCEPT ![top] = [len1 |-> 0, val |-> to]] ELSE lt
  BY DEF Noted
<1> USE <1>a
<1> HIDE DEF lt2
<1>0. SUFFICES Table(lt2, m, path, done) /\ Reached(lt2, R) /\ lt2[top] # Hole
  BY DEF lt2
<1>1. CASE lt[top] # Hole
  <2>1. lt2 = lt BY <1>1
  <2> QED BY <1>1, <2>1
<1>2. CASE lt[top] = Hole
  <2> DEFINE r == [len1 |-> 0, val |-> to]
  <2>0. lt \in [Strings(LutSize) -> [len1 : Nat, val : Int]] BY DEF Table
  <2>1. lt2[top] = r /\ \A e \in Strings(LutSize) : e # top => lt2[e] = lt[e]
    BY <1>2, <2>0
  <2>2. to # 0
    <3>1. Len(top) = LutSize /\ top \in Seq(Bit) BY LutType, StringsAre
    <3>2. top # <<>> BY <3>1, LutType
    <3> QED BY <3>2
  <2>3. r.len1 = 0 /\ r.val = to /\ r \in [len1 : Nat, val : Int] OBVIOUS
  <2>4. r # Hole
    <3>1. Hole.val = 0 BY DEF Hole
    <3> QED BY <2>2, <2>3, <3>1
  <2>5. lt2 \in [Strings(LutSize) -> [len1 : Nat, val : Int]]
    <3> HIDE DEF r
    <3>1. lt2 = [lt EXCEPT ![top] = r] BY <1>2 DEF r
    <3> QED BY <2>0, <2>3, <3>1
  <2> HIDE DEF r
  <2>6. ASSUME NEW e \in Strings(LutSize) PROVE Entry(lt2[e], e, m, path, done)
    <3>1. CASE e = top BY <2>1, <2>3, <3>1 DEF Entry
    <3>2. CASE e # top
      <4>1. Entry(lt[e], e, m, path, done) BY DEF Table
      <4> QED BY <2>1, <3>2, <4>1
    <3> QED BY <3>1, <3>2
  <2>7. ASSUME NEW d \in done, NEW e \in Strings(LutSize), Len(d[2]) <= LutSize,
               IsPrefix(d[2], e)
        PROVE  lt2[e].len1 # 0
    <3>1. lt[e].len1 # 0 BY <2>7 DEF Table
    <3>2. e # top BY <1>2, <3>1 DEF Hole
    <3> QED BY <2>1, <3>1, <3>2
  <2>8. ASSUME NEW d \in R, LutSize < Len(d[2]) PROVE lt2[SubSeq(d[2], 1, LutSize)] # Hole
    <3> DEFINE e == SubSeq(d[2], 1, LutSize)
    <3>1. e \in Strings(LutSize)
      <4>1. d \in Pairs OBVIOUS
      <4>2. d[2] \in Seq(Bit) /\ Len(d[2]) \in Nat BY <4>1, PairIs
      <4> QED BY <2>8, <4>2, LutType, TopIs
    <3>2. lt[e] # Hole BY <2>8 DEF Reached
    <3> HIDE DEF e
    <3>3. lt2[e] # Hole BY <2>1, <2>4, <3>1, <3>2
    <3> QED BY <3>3 DEF e
  <2> QED BY <2>1, <2>4, <2>5, <2>6, <2>7, <2>8 DEF Table, Reached
<1> QED BY <1>1, <1>2

(* insert enters a short code where the table begins with it. *)
LEMMA EnteredTable ==
  ASSUME NEW m \in Nat, NEW path, NEW done \in SUBSET Pairs,
         Table(lut, m, path, done), Reached(lut, done),
         NEW s \in Symbols, NEW code \in Seq(Bit)
  PROVE  /\ Table(Entered(s, code), m, path, done \cup {<<s, code>>})
         /\ Reached(Entered(s, code), done)
<1> DEFINE lt == Entered(s, code)
           new == done \cup {<<s, code>>}
           r == [len1 |-> Len(code) + 1, val |-> s]
<1>1. lut \in [Strings(LutSize) -> [len1 : Nat, val : Int]] BY DEF Table
<1>2. lt = [e \in Strings(LutSize) |-> IF Len(code) <= LutSize /\ IsPrefix(code, e)
                                       THEN r ELSE lut[e]]
  BY <1>1 DEF Entered
<1>3. Len(code) \in Nat /\ s \in Int BY SymbolsAre
<1>4. r.len1 = Len(code) + 1 /\ r.val = s /\ r \in [len1 : Nat, val : Int]
      /\ r.len1 # 0 /\ r # Hole
  <2>1. r.len1 = Len(code) + 1 /\ r.val = s /\ r \in [len1 : Nat, val : Int] /\ r.len1 # 0
    BY <1>3
  <2>2. Hole.len1 = 0 BY DEF Hole
  <2> QED BY <2>1, <2>2
<1> HIDE DEF r, lt
<1>5. lt \in [Strings(LutSize) -> [len1 : Nat, val : Int]] BY <1>1, <1>2, <1>4
<1>6. ASSUME NEW e \in Strings(LutSize)
      PROVE  \/ Len(code) <= LutSize /\ IsPrefix(code, e) /\ lt[e] = r
             \/ ~(Len(code) <= LutSize /\ IsPrefix(code, e)) /\ lt[e] = lut[e]
  BY <1>2
<1>7. <<s, code>>[1] = s /\ <<s, code>>[2] = code /\ <<s, code>> \in new OBVIOUS
<1>8. ASSUME NEW e \in Strings(LutSize) PROVE Entry(lt[e], e, m, path, new)
  <2>1. CASE Len(code) <= LutSize /\ IsPrefix(code, e) /\ lt[e] = r
    <3> DEFINE d == <<s, code>>
    <3>1. d \in new /\ d[1] = s /\ d[2] = code OBVIOUS
    <3> HIDE DEF d, new
    <3> QED BY <1>4, <2>1, <3>1 DEF Entry
  <2>2. CASE lt[e] = lut[e]
    <3>1. Entry(lut[e], e, m, path, done) BY DEF Table
    <3> QED BY <2>2, <3>1 DEF Entry
  <2> QED BY <1>6, <2>1, <2>2
<1>9. ASSUME NEW d \in new, NEW e \in Strings(LutSize), Len(d[2]) <= LutSize, IsPrefix(d[2], e)
      PROVE  lt[e].len1 # 0
  <2>1. CASE d = <<s, code>>
    <3>1. lt[e] = r BY <1>6, <1>9, <2>1
    <3> QED BY <1>4, <3>1
  <2>2. CASE d \in done
    <3>1. lut[e].len1 # 0 BY <1>9, <2>2 DEF Table
    <3> QED BY <1>4, <1>6, <3>1
  <2> QED BY <2>1, <2>2
<1>10. ASSUME NEW d \in done, LutSize < Len(d[2]) PROVE lt[SubSeq(d[2], 1, LutSize)] # Hole
  <2> DEFINE e == SubSeq(d[2], 1, LutSize)
  <2>1. d[2] \in Seq(Bit) /\ Len(d[2]) \in Nat
    <3>1. d \in Pairs OBVIOUS
    <3> QED BY <3>1, PairIs
  <2>2. e \in Strings(LutSize) BY <1>10, <2>1, LutType, TopIs
  <2>3. lut[e] # Hole BY <1>10 DEF Reached
  <2> HIDE DEF e
  <2>4. lt[e] # Hole BY <1>4, <1>6, <2>2, <2>3
  <2> QED BY <2>4 DEF e
<1> QED BY <1>5, <1>8, <1>9, <1>10 DEF Table, Reached, lt

-----------------------------------------------------------------------------
(* The walk of insert *)

\* insert stands at node t.n, after i bits of the code of s
At(t, code, i, s, m, path, done, all, cap) ==
  /\ Tree(t.nodes, m, path, done, all, cap)
  /\ t.n \in 0..m - 1 /\ path[t.n] = SubSeq(code, 1, i)
  /\ t.jump = LutSize - i
  /\ Table(t.lut, m, path, done \cup {<<s, code>>}) /\ Reached(t.lut, done)
  /\ LutSize <= i => t.lut[SubSeq(code, 1, LutSize)] # Hole

\* why insert refuses a code: it goes on from a leaf, there is no room for the children
\* of a node on its way, or other codes go on from it
Refused(code, done, all, cap) ==
  \/ \E d \in done : Strict(d[2], code)
  \/ \E nd, m, path :
       /\ Tree(nd, m, path, done, all, cap)
       /\ \E x \in 0..m - 1 : \/ nd[x].children = 0 /\ m >= cap /\ Strict(path[x], code)
                              \/ x \in Inner(nd) /\ path[x] = code

Walking(t, code, i, s, done, all, cap) ==
  /\ "ok" \in DOMAIN t
  /\ \/ t.ok = TRUE /\ \E m, path : At(t, code, i, s, m, path, done, all, cap)
     \/ t.ok = FALSE /\ Refused(code, done, all, cap)

OddNumber(cap) == cap \in Int /\ \E u \in Int : cap = 2 * u - 1

LEMMA NodeNumber ==
  ASSUME NEW nd, NEW m, NEW path, Shape(nd, m, path)
  PROVE  Cardinality(DOMAIN nd) = m /\ DOMAIN nd = 0..m - 1
<1>1. DOMAIN nd = 0..m - 1 /\ m \in Nat BY InnerAre
<1>2. 0 \in Int /\ m - 1 \in Int /\ (IF 0 > m - 1 THEN 0 ELSE m - 1 - 0 + 1) = m
  BY <1>1
<1>3. Cardinality(0..m - 1) = m BY <1>2, FS_Interval
<1> QED BY <1>1, <1>3

LEMMA FirstBits ==
  ASSUME NEW code \in Seq(Bit), NEW i \in Nat, i < Len(code)
  PROVE  /\ SubSeq(code, 1, i) \in Seq(Bit) /\ code[i + 1] \in Bit
         /\ SubSeq(code, 1, i + 1) = Append(SubSeq(code, 1, i), code[i + 1])
         /\ Strict(SubSeq(code, 1, i), code)
<1> DEFINE a == SubSeq(code, 1, i)
<1>1. /\ a \in Seq(Bit) /\ code[i + 1] \in Bit /\ Len(a) = i /\ Len(code) \in Nat
      /\ SubSeq(code, 1, i + 1) = Append(a, code[i + 1])
      /\ \A j \in 1..i : a[j] = code[j]
  OBVIOUS
<1> HIDE DEF a
<1>2. IsPrefix(a, code) BY <1>1, PrefixIs
<1>3. Strict(a, code) BY <1>1, <1>2 DEF Strict
<1> QED BY <1>1, <1>3 DEF a

(* One bit further, with or without a note in the table. *)
LEMMA Lands ==
  ASSUME NEW done \in SUBSET Pairs, NEW all, NEW cap, NEW code \in Seq(Bit), NEW s \in Symbols,
         NEW i \in Nat, i < Len(code), NEW m, NEW path, NEW to \in 0..m - 1, NEW nd, NEW lt,
         Tree(nd, m, path, done, all, cap), path[to] = SubSeq(code, 1, i + 1),
         Table(lt, m, path, done \cup {<<s, code>>}), Reached(lt, done),
         LutSize <= i => lt[SubSeq(code, 1, LutSize)] # Hole,
         NEW t2, t2.nodes = nd, t2.n = to, t2.jump = LutSize - i - 1,
         t2.lut = IF LutSize - i = 1 /\ lt[SubSeq(code, 1, LutSize)] = Hole
                  THEN Noted(lt, SubSeq(code, 1, LutSize), to) ELSE lt
  PROVE  At(t2, code, i + 1, s, m, path, done, all, cap)
<1> DEFINE top == SubSeq(code, 1, LutSize)
           new == done \cup {<<s, code>>}
<1>0. m \in Nat /\ path[0] = <<>>
  <2>1. Shape(nd, m, path) BY DEF Tree
  <2> QED BY <2>1, InnerAre, ShapeGives
<1>1. t2.jump = LutSize - (i + 1) BY LutType
<1>2. CASE LutSize - i = 1
  <2>1. LutSize = i + 1 /\ LutSize <= Len(code)
    <3>1. Len(code) \in Nat OBVIOUS
    <3> QED BY <1>2, <3>1, LutType
  <2>2. top \in Strings(LutSize) /\ path[to] = top BY <2>1, TopIs
  <2>3. t2.lut = Noted(lt, top, to)
    BY <1>2 DEF Noted
  <2> HIDE DEF top
  <2>4. Table(t2.lut, m, path, new) /\ Reached(t2.lut, done) /\ t2.lut[top] # Hole
    <3>1. Table(lt, m, path, new) OBVIOUS
    <3> HIDE DEF new
    <3>2. Table(Noted(lt, top, to), m, path, new) /\ Reached(Noted(lt, top, to), done)
          /\ Noted(lt, top, to)[top] # Hole
      BY <1>0, <2>2, <3>1, Notes
    <3> QED BY <2>3, <3>2
  <2> QED BY <1>1, <2>4 DEF At, top, new
<1>3. CASE LutSize - i # 1
  <2>1. t2.lut = lt BY <1>3
  <2>2. LutSize <= i + 1 => LutSize <= i BY <1>3, LutType
  <2> QED BY <1>1, <2>1, <2>2 DEF At
<1> QED BY <1>2, <1>3

LEMMA DownStep ==
  ASSUME NEW done \in SUBSET Pairs, NEW all, NEW cap, OddNumber(cap),
         NEW code \in Seq(Bit), NEW s \in Symbols, <<s, code>> \in all,
         NEW i \in Nat, i < Len(code), NEW t, Walking(t, code, i, s, done, all, cap)
  PROVE  Walking(Down(code, cap, t, code[i + 1]), code, i + 1, s, done, all, cap)
<1> DEFINE b == code[i + 1]
           t2 == Down(code, cap, t, b)
           nd == t.nodes
           x == t.n
           size == Cardinality(DOMAIN nd)
           kids == IF nd[x].children = 0 THEN size ELSE nd[x].children
           top == SubSeq(code, 1, LutSize)
           Fails == ~t.ok \/ nd[x].children = Leaf \/ (nd[x].children = 0 /\ size >= cap)
           nd2 == IF nd[x].children # 0 THEN nd
                  ELSE [j \in 0..size + 1 |->
                          IF j >= size THEN Fresh
                          ELSE IF j = x THEN [nd[x] EXCEPT !.children = size]
                          ELSE nd[j]]
           lt2 == IF t.jump = 1 /\ t.lut[top] = Hole
                  THEN [t.lut EXCEPT ![top] = [len1 |-> 0, val |-> kids + b]]
                  ELSE t.lut
           next == [ ok |-> TRUE, n |-> kids + b, jump |-> t.jump - 1, nodes |-> nd2, lut |-> lt2 ]
<1>1. t2 = IF Fails THEN [t EXCEPT !.ok = FALSE] ELSE next BY DEF Down
<1> HIDE DEF t2
<1>2. SUFFICES Walking(t2, code, i + 1, s, done, all, cap) BY DEF t2
<1>3. ASSUME Fails, Refused(code, done, all, cap) PROVE Walking(t2, code, i + 1, s, done, all, cap)
  <2>1. t2 = [t EXCEPT !.ok = FALSE] BY <1>1, <1>3
  <2>2. "ok" \in DOMAIN t BY DEF Walking
  <2>3. "ok" \in DOMAIN t2 /\ t2.ok = FALSE BY <2>1, <2>2
  <2> QED BY <1>3, <2>3 DEF Walking
<1>4. CASE ~t.ok
  <2>1. Refused(code, done, all, cap) BY <1>4 DEF Walking
  <2> QED BY <1>3, <1>4, <2>1
<1>5. CASE t.ok
  <2>1. PICK m, path : At(t, code, i, s, m, path, done, all, cap) BY <1>5 DEF Walking
  <2>2. /\ Tree(nd, m, path, done, all, cap) /\ x \in 0..m - 1
        /\ path[x] = SubSeq(code, 1, i) /\ t.jump = LutSize - i
        /\ Table(t.lut, m, path, done \cup {<<s, code>>}) /\ Reached(t.lut, done)
        /\ LutSize <= i => t.lut[top] # Hole
    BY <2>1 DEF At
  <2>3. Shape(nd, m, path) /\ m <= cap BY <2>2 DEF Tree
  <2>4. size = m /\ DOMAIN nd = 0..m - 1 /\ m \in Nat BY <2>3, NodeNumber, InnerAre
  <2>5. /\ b \in Bit /\ SubSeq(code, 1, i + 1) = Append(path[x], b)
        /\ Strict(path[x], code) /\ path[x] \in Seq(Bit)
    BY <2>2, FirstBits
  <2>6. CASE nd[x].children = Leaf
    <3> DEFINE d == <<nd[x].symbol, path[x]>>
    <3>1. d \in done /\ d[2] = path[x] BY <2>2, <2>6 DEF Tree
    <3> HIDE DEF d
    <3>2. Refused(code, done, all, cap) BY <2>5, <3>1 DEF Refused
    <3> QED BY <1>3, <2>6, <3>2
  <2>7. CASE nd[x].children = 0 /\ size >= cap
    <3>1. Refused(code, done, all, cap) BY <2>2, <2>4, <2>5, <2>7 DEF Refused
    <3> QED BY <1>3, <2>7, <3>1
  <2>8. CASE ~Fails
    <3>1. t2 = next BY <1>1, <2>8
    <3>2. /\ "ok" \in DOMAIN t2 /\ t2.ok = TRUE /\ t2.nodes = nd2 /\ t2.n = kids + b
          /\ t2.jump = t.jump - 1 /\ t2.lut = lt2
      BY <3>1
    <3>a. t2.jump = t.jump - 1 BY <3>1
    <3>3. nd[x].children # Leaf BY <2>8
    <3>4. SUFFICES \E m2, path2 : At(t2, code, i + 1, s, m2, path2, done, all, cap)
      BY <3>2 DEF Walking
    <3>5. CASE nd[x].children # 0
      <4>1. nd2 = nd /\ kids = nd[x].children BY <3>5
      <4>2. x \in Inner(nd) BY <2>2, <2>4, <3>3, <3>5 DEF Inner
      <4>3. kids + b = Child(nd, x, b) BY <4>1 DEF Child
      <4>4. kids + b \in 0..m - 1 /\ path[kids + b] = Append(path[x], b)
        <5>1. b \in Bit BY <2>5
        <5> HIDE DEF b, nd, x, kids
        <5>2. Child(nd, x, b) \in 0..m - 1 /\ path[Child(nd, x, b)] = Append(path[x], b)
          BY <2>3, <4>2, <5>1, ShapeGives
        <5> QED BY <4>3, <5>2
      <4>5. t2.nodes = nd BY <3>2, <4>1
      <4>6. t2.jump = LutSize - i - 1
        <5>1. t.jump = LutSize - i BY <2>2, SMTT(30)
        <5>2. t2.jump = t.jump - 1 BY <3>a
        <5> HIDE DEF t2
        <5> QED BY <5>1, <5>2
      <4> DEFINE to == kids + b
      <4>7. t2.n = to /\ to \in 0..m - 1 /\ path[to] = SubSeq(code, 1, i + 1)
        BY <2>5, <3>2, <4>4
      <4>8. t2.lut = IF LutSize - i = 1 /\ t.lut[top] = Hole
                     THEN Noted(t.lut, top, to) ELSE t.lut
        BY <2>2, <3>2 DEF Noted
      <4> HIDE DEF to, nd, kids, nd2, lt2, next, Fails, x, b
      <4>9. At(t2, code, i + 1, s, m, path, done, all, cap)
        BY <2>2, <4>5, <4>6, <4>7, <4>8, Lands
      <4> QED BY <4>9
    <3>6. CASE nd[x].children = 0
      <4> DEFINE to == m + b
                 path2 == GrownPath(path, m, x)
      <4>1. kids = m BY <2>4, <3>6
      <4>2. nd2 = Grown(nd, m, x) BY <2>4, <3>6 DEF Grown
      <4>3. m < cap /\ cap \in Int
        <5>1. ~(size >= cap) BY <2>8, <3>6
        <5>2. cap \in Int BY DEF OddNumber
        <5> HIDE DEF size
        <5> QED BY <2>4, <5>1, <5>2
      <4>4. to \in 0..m + 1 /\ path2[to] = Append(path[x], b)
        <5>1. b \in Bit BY <2>5
        <5>2. to \in 0..m + 1 /\ to >= m /\ to - m = b
          <6>1. b \in {0, 1} BY <5>1 DEF Bit
          <6> HIDE DEF b
          <6> QED BY <2>4, <6>1
        <5> HIDE DEF to
        <5> QED BY <5>2 DEF GrownPath
      <4> HIDE DEF nd, nd2, size, next, Fails, x
      <4>6. /\ Shape(nd2, m + 2, path2) /\ Inner(nd2) = Inner(nd) \cup {x}
            /\ \A j \in 0..m - 1 : path2[j] = path[j]
            /\ \A j \in 0..m - 1 : nd2[j].children = Leaf <=> nd[j].children = Leaf
            /\ \A j \in 0..m - 1 : j # x => nd2[j] = nd[j]
            /\ \A j \in 0..m + 1 : j \notin 0..m - 1 => nd2[j].children = 0
        BY <2>2, <2>3, <3>6, <4>2, Grows
      <4> HIDE DEF path2
      <4>7. m + 2 <= cap
        <5>1. PICK u \in Int : cap = 2 * u - 1 BY DEF OddNumber
        <5>2. m = 2 * Cardinality(Inner(nd)) + 1 /\ Cardinality(Inner(nd)) \in Nat
          BY <2>3, InnerAre
        <5> DEFINE v == Cardinality(Inner(nd))
        <5>3. m = 2 * v + 1 /\ v \in Nat BY <5>2
        <5> HIDE DEF v
        <5> QED BY <4>3, <5>1, <5>3
      <4>8. \A j \in 0..m - 1 : j \in 0..m + 1 BY <2>4
      <4>9. Tree(nd2, m + 2, path2, done, all, cap)
        <5>1. ASSUME NEW j \in 0..m + 1, nd2[j].children = Leaf
              PROVE  <<nd2[j].symbol, path2[j]>> \in done
          <6>1. j \in 0..m - 1
            <7>1. Leaf # 0 BY DEF Leaf
            <7> QED BY <4>6, <5>1, <7>1
          <6>2. nd[j].children = Leaf /\ j # x BY <3>3, <4>6, <5>1, <6>1
          <6>3. nd2[j] = nd[j] /\ path2[j] = path[j] BY <4>6, <6>1, <6>2
          <6>4. <<nd[j].symbol, path[j]>> \in done BY <2>2, <6>1, <6>2 DEF Tree
          <6> QED BY <6>3, <6>4
        <5>2. ASSUME NEW d \in done
              PROVE  \E j \in 0..m + 1 : nd2[j].children = Leaf /\ path2[j] = d[2]
          <6>1. PICK j \in 0..m - 1 : nd[j].children = Leaf /\ path[j] = d[2]
            BY <2>2 DEF Tree
          <6> QED BY <4>6, <4>8, <6>1
        <5>3. ASSUME NEW j \in Inner(nd2) PROVE \E d \in all : Strict(path2[j], d[2])
          <6>1. CASE j = x
            <7> DEFINE d == <<s, code>>
            <7>1. d \in all /\ d[2] = code OBVIOUS
            <7> HIDE DEF d
            <7> QED BY <2>2, <2>5, <4>6, <6>1, <7>1
          <6>2. CASE j \in Inner(nd)
            <7>1. j \in 0..m - 1 BY <2>3, <6>2, InnerAre
            <7>2. \E d \in all : Strict(path[j], d[2]) BY <2>2, <6>2 DEF Tree
            <7> QED BY <4>6, <7>1, <7>2
          <6> QED BY <4>6, <6>1, <6>2
        <5> DEFINE k == m + 2
        <5>4. k - 1 = m + 1 /\ k <= cap /\ Shape(nd2, k, path2) BY <2>4, <4>6, <4>7
        <5> HIDE DEF k
        <5>5. Tree(nd2, k, path2, done, all, cap) BY <5>1, <5>2, <5>3, <5>4 DEF Tree
        <5> QED BY <5>5 DEF k
      <4>10. Table(t.lut, m + 2, path2, done \cup {<<s, code>>})
        <5>1. m + 2 \in Nat /\ m <= m + 2 BY <2>4
        <5> QED BY <2>2, <2>4, <4>6, <5>1, TableGrows
      <4>11. to \in 0..(m + 2) - 1 BY <2>4, <4>4
      <4>12. t2.n = to /\ path2[to] = SubSeq(code, 1, i + 1) /\ t2.nodes = nd2
             /\ t2.jump = LutSize - i - 1
        BY <2>2, <2>5, <3>2, <4>1, <4>4
      <4>13. t2.lut = IF LutSize - i = 1 /\ t.lut[top] = Hole
                      THEN Noted(t.lut, top, to) ELSE t.lut
        BY <2>2, <3>2, <4>1 DEF Noted
      <4> DEFINE k == m + 2
      <4>14. /\ to \in 0..k - 1 /\ Tree(nd2, k, path2, done, all, cap)
             /\ Table(t.lut, k, path2, done \cup {<<s, code>>})
        BY <4>9, <4>10, <4>11
      <4> HIDE DEF k, to, kids, lt2, b
      <4>15. At(t2, code, i + 1, s, k, path2, done, all, cap)
        BY <2>2, <4>12, <4>13, <4>14, Lands
      <4> QED BY <4>15
    <3> QED BY <3>5, <3>6
  <2> QED BY <1>5, <2>6, <2>7, <2>8
<1>6. t.ok \in BOOLEAN BY DEF Walking
<1> QED BY <1>4, <1>5

-----------------------------------------------------------------------------
(* Insertion of a code *)

\* What the recursive function of Walked should be, up to m.
Root(s, code) ==
  [ok |-> TRUE, n |-> 0, jump |-> LutSize, nodes |-> nodes, lut |-> Entered(s, code)]
Walks(f, s, code, cap, m) ==
  f = [i \in 0..m |-> IF i = 0 THEN Root(s, code) ELSE Down(code, cap, f[i - 1], code[i])]

LEMMA WalksAre ==
  ASSUME NEW f, NEW s, NEW code, NEW cap, NEW m \in Nat, Walks(f, s, code, cap, m)
  PROVE  /\ f[0] = Root(s, code)
         /\ \A i \in 1..m : f[i] = Down(code, cap, f[i - 1], code[i])
<1>1. \A i \in 0..m : f[i] = IF i = 0 THEN Root(s, code)
                             ELSE Down(code, cap, f[i - 1], code[i])
  BY DEF Walks
<1> QED BY <1>1

LEMMA WalksExist ==
  ASSUME NEW s, NEW code, NEW cap, NEW m \in Nat
  PROVE  \E f : Walks(f, s, code, cap, m)
<1> DEFINE T == {k \in Nat : \E f : Walks(f, s, code, cap, k)}
<1>1. 0 \in T
  <2>1. Walks([i \in 0..0 |-> Root(s, code)], s, code, cap, 0) BY DEF Walks
  <2> QED BY <2>1
<1>2. ASSUME NEW k \in Nat, k \in T PROVE k + 1 \in T
  <2>1. PICK f : Walks(f, s, code, cap, k) BY <1>2
  <2> DEFINE g == [i \in 0..k + 1 |-> IF i <= k THEN f[i]
                                      ELSE Down(code, cap, f[k], code[k + 1])]
  <2>2. ASSUME NEW i \in 0..k + 1
        PROVE  g[i] = IF i = 0 THEN Root(s, code) ELSE Down(code, cap, g[i - 1], code[i])
    <3>1. CASE i = 0 BY <3>1, <2>1, WalksAre
    <3>2. CASE i \in 1..k BY <3>2, <2>1, WalksAre
    <3>3. CASE i = k + 1 BY <3>3
    <3> QED BY <3>1, <3>2, <3>3
  <2>3. g = [i \in 0..k + 1 |-> g[i]] OBVIOUS
  <2> HIDE DEF g
  <2>4. Walks(g, s, code, cap, k + 1) BY <2>2, <2>3 DEF Walks
  <2> QED BY <2>4
<1>3. Nat \subseteq T
  <2> HIDE DEF T
  <2> QED BY <1>1, <1>2, Induction
<1> QED BY <1>3

LEMMA WalkedIs ==
  ASSUME NEW s, NEW code \in Seq(Bit), NEW cap
  PROVE  \E f : Walks(f, s, code, cap, Len(code)) /\ Walked(s, code, cap) = f[Len(code)]
<1> DEFINE m == Len(code)
           g == CHOOSE f : Walks(f, s, code, cap, m)
<1>1. m \in Nat OBVIOUS
<1>2. \E f : Walks(f, s, code, cap, m) BY <1>1, WalksExist
<1>3. Walks(g, s, code, cap, m) BY <1>2
<1>4. Walked(s, code, cap) = g[m] BY DEF Walked, Walks, Root
<1> QED BY <1>3, <1>4

(* insert either adds the code to the tree and the table, or has a reason not to. *)
LEMMA InsertStep ==
  ASSUME NEW m, NEW path, NEW done \in SUBSET Pairs, NEW all, NEW cap, OddNumber(cap),
         NEW code \in Seq(Bit), NEW s \in Symbols, <<s, code>> \in all,
         Tree(nodes, m, path, done, all, cap), Table(lut, m, path, done), Reached(lut, done),
         NEW t, t = Walked(s, code, cap)
  PROVE  IF ~t.ok \/ t.nodes[t.n].children \notin {0, Leaf}
         THEN Refused(code, done, all, cap)
         ELSE \E m2, path2 :
                /\ Tree(Closed(t.nodes, t.n, s), m2, path2, done \cup {<<s, code>>}, all, cap)
                /\ Table(t.lut, m2, path2, done \cup {<<s, code>>})
                /\ Reached(t.lut, done \cup {<<s, code>>})
<1> DEFINE k == Len(code)
           new == done \cup {<<s, code>>}
<1>1. PICK f : Walks(f, s, code, cap, k) /\ t = f[k] BY WalkedIs
<1>2. /\ k \in Nat /\ f[0] = Root(s, code)
      /\ \A i \in 1..k : f[i] = Down(code, cap, f[i - 1], code[i])
  <2>1. k \in Nat OBVIOUS
  <2> QED BY <1>1, <2>1, WalksAre
<1>3. Walking(f[0], code, 0, s, done, all, cap)
  <2> DEFINE r == Root(s, code)
  <2>1. /\ "ok" \in DOMAIN r /\ r.ok = TRUE /\ r.n = 0 /\ r.jump = LutSize /\ r.nodes = nodes
        /\ r.lut = Entered(s, code)
    BY DEF Root
  <2> HIDE DEF r
  <2>2. Shape(nodes, m, path) BY DEF Tree
  <2>3. m \in Nat /\ 0 \in 0..m - 1 /\ path[0] = <<>> BY <2>2, InnerAre, ShapeGives
  <2>4. SubSeq(code, 1, 0) = <<>> OBVIOUS
  <2>5. Table(r.lut, m, path, new) /\ Reached(r.lut, done) BY <2>1, <2>3, EnteredTable
  <2>6. LutSize - 0 = LutSize /\ ~(LutSize <= 0) BY LutType
  <2>7. At(r, code, 0, s, m, path, done, all, cap)
    BY <2>1, <2>3, <2>4, <2>5, <2>6 DEF At
  <2> QED BY <1>2, <2>1, <2>7 DEF Walking, r
<1>4. \A i \in 0..k : Walking(f[i], code, i, s, done, all, cap)
  <2> DEFINE T == {i \in Nat : i <= k => Walking(f[i], code, i, s, done, all, cap)}
  <2>1. 0 \in T BY <1>3
  <2>2. ASSUME NEW i \in Nat, i \in T PROVE i + 1 \in T
    <3> SUFFICES ASSUME i + 1 <= k PROVE Walking(f[i + 1], code, i + 1, s, done, all, cap)
      BY <2>2
    <3>1. i < k /\ i <= k /\ i + 1 \in 1..k /\ (i + 1) - 1 = i BY <1>2
    <3>2. Walking(f[i], code, i, s, done, all, cap) BY <2>2, <3>1
    <3>3. f[i + 1] = Down(code, cap, f[i], code[i + 1]) BY <1>2, <3>1
    <3>4. Walking(Down(code, cap, f[i], code[i + 1]), code, i + 1, s, done, all, cap)
      BY <3>1, <3>2, DownStep
    <3> QED BY <3>3, <3>4
  <2>3. Nat \subseteq T
    <3> HIDE DEF T
    <3> QED BY <2>1, <2>2, Induction
  <2> QED BY <2>3, <1>2
<1>5. Walking(t, code, k, s, done, all, cap)
  <2>1. k \in 0..k BY <1>2
  <2> QED BY <1>1, <1>4, <2>1
<1>6. CASE ~t.ok
  <2>1. Refused(code, done, all, cap) BY <1>5, <1>6 DEF Walking
  <2> QED BY <1>6, <2>1
<1>7. CASE t.ok
  <2>1. PICK m2, path2 : At(t, code, k, s, m2, path2, done, all, cap)
    BY <1>5, <1>7 DEF Walking
  <2> DEFINE nd == t.nodes
             x == t.n
  <2>2. /\ Tree(nd, m2, path2, done, all, cap) /\ x \in 0..m2 - 1
        /\ path2[x] = SubSeq(code, 1, k)
        /\ Table(t.lut, m2, path2, new) /\ Reached(t.lut, done)
        /\ LutSize <= k => t.lut[SubSeq(code, 1, LutSize)] # Hole
    BY <2>1 DEF At
  <2>3. path2[x] = code BY <2>2
  <2>4. Shape(nd, m2, path2) /\ m2 <= cap BY <2>2 DEF Tree
  <2>5. DOMAIN nd = 0..m2 - 1 /\ m2 \in Nat BY <2>4, InnerAre
  <2>6. CASE nd[x].children \notin {0, Leaf}
    <3>1. x \in Inner(nd) BY <2>2, <2>5, <2>6 DEF Inner
    <3>2. Refused(code, done, all, cap) BY <2>2, <2>3, <3>1 DEF Refused
    <3> QED BY <2>6, <3>2
  <2>7. CASE nd[x].children \in {0, Leaf}
    <3>1. x \in Ends(nd) BY <2>2, <2>5, <2>7 DEF Inner, Ends
    <3> DEFINE nd2 == Closed(nd, x, s)
    <3> HIDE DEF nd, x
    <3>2. /\ Shape(nd2, m2, path2) /\ Inner(nd2) = Inner(nd)
          /\ nd2[x] = [symbol |-> s, children |-> Leaf]
          /\ \A i \in 0..m2 - 1 : i # x => nd2[i] = nd[i]
      <4>1. s \in Int BY SymbolsAre
      <4> QED BY <2>4, <3>1, <4>1, Closes
    <3> HIDE DEF nd2
    <3>a. nd2[x].symbol = s /\ nd2[x].children = Leaf BY <3>2
    <3>3. ASSUME NEW i \in 0..m2 - 1, nd2[i].children = Leaf
          PROVE  <<nd2[i].symbol, path2[i]>> \in new
      <4>1. CASE i = x
        <5>1. nd2[i].symbol = s BY <3>a, <4>1
        <5> QED BY <2>3, <4>1, <5>1
      <4>2. CASE i # x
        <5>1. nd2[i] = nd[i] BY <3>2, <4>2
        <5>2. <<nd[i].symbol, path2[i]>> \in done BY <2>2, <3>3, <5>1 DEF Tree
        <5> QED BY <5>1, <5>2
      <4> QED BY <4>1, <4>2
    <3>4. ASSUME NEW d \in new
          PROVE  \E i \in 0..m2 - 1 : nd2[i].children = Leaf /\ path2[i] = d[2]
      <4>1. CASE d = <<s, code>>
        <5>1. d[2] = code BY <4>1
        <5> QED BY <2>2, <2>3, <3>a, <5>1
      <4>2. CASE d \in done
        <5>1. PICK i \in 0..m2 - 1 : nd[i].children = Leaf /\ path2[i] = d[2]
          BY <2>2, <4>2 DEF Tree
        <5>2. nd2[i].children = Leaf BY <3>2, <3>a, <5>1
        <5> QED BY <5>1, <5>2
      <4> QED BY <4>1, <4>2
    <3>5. \A i \in Inner(nd2) : \E d \in all : Strict(path2[i], d[2])
      BY <2>2, <3>2 DEF Tree
    <3>6. Tree(nd2, m2, path2, new, all, cap)
      <4> HIDE DEF new
      <4> QED BY <2>4, <3>2, <3>3, <3>4, <3>5 DEF Tree
    <3>7. Reached(t.lut, new)
      <4>1. ASSUME NEW d \in new, LutSize < Len(d[2])
            PROVE  t.lut[SubSeq(d[2], 1, LutSize)] # Hole
        <5>1. CASE d = <<s, code>>
          <6>1. d[2] = code /\ LutSize <= k BY <1>2, <4>1, <5>1, LutType
          <6> QED BY <2>2, <6>1
        <5>2. CASE d \in done BY <2>2, <4>1, <5>2 DEF Reached
        <5> QED BY <5>1, <5>2
      <4> QED BY <4>1 DEF Reached
    <3>8. \E m3, path3 : /\ Tree(nd2, m3, path3, new, all, cap)
                         /\ Table(t.lut, m3, path3, new) /\ Reached(t.lut, new)
      BY <2>2, <3>6, <3>7
    <3> QED BY <1>7, <2>7, <3>8 DEF nd, x, nd2
  <2> QED BY <2>6, <2>7
<1>8. t.ok \in BOOLEAN BY <1>5 DEF Walking
<1> QED BY <1>6, <1>7, <1>8

-----------------------------------------------------------------------------
(* The complete tree *)

LEMMA LeafEnds ==
  ASSUME NEW nd, NEW m, NEW path, Shape(nd, m, path), NEW i \in 0..m - 1,
         nd[i].children = Leaf
  PROVE  i \in Ends(nd)
<1>1. DOMAIN nd = 0..m - 1 BY InnerAre
<1> QED BY <1>1 DEF Ends, Inner

(* With a leaf for each of as many codes as there is room for, no node is left over. *)
LEMMA AllLeaves ==
  ASSUME NEW nd, NEW m, NEW path, NEW all \in SUBSET Pairs, NEW cap, IsFiniteSet(all),
         Tree(nd, m, path, all, all, cap), cap = 2 * Cardinality(all) - 1,
         \A d, e \in all : d[2] = e[2] => d = e
  PROVE  m = cap /\ \A x \in Ends(nd) : nd[x].children = Leaf
<1> DEFINE U == Cardinality(all)
           E == Ends(nd)
           P(d, i) == nd[i].children = Leaf /\ path[i] = d[2]
           g == [d \in all |-> CHOOSE i \in 0..m - 1 : P(d, i)]
<1>1. Shape(nd, m, path) /\ m <= cap BY DEF Tree
<1>2. ASSUME NEW d \in all PROVE g[d] \in E /\ P(d, g[d])
  <2>1. \E i \in 0..m - 1 : P(d, i) BY DEF Tree
  <2>2. g[d] \in 0..m - 1 /\ P(d, g[d]) BY <2>1
  <2> QED BY <1>1, <2>2, LeafEnds
<1>3. g \in [all -> E] BY <1>2
<1>4. ASSUME NEW d \in all, NEW e \in all, g[d] = g[e] PROVE d = e
  <2>1. path[g[d]] = d[2] /\ path[g[e]] = e[2] BY <1>2
  <2> HIDE DEF g
  <2> QED BY <1>4, <2>1
<1>5. g \in Injection(all, E)
  <2> HIDE DEF g, E
  <2> QED BY <1>3, <1>4 DEF Injection, IsInjective
<1>6. /\ IsFiniteSet(E) /\ Cardinality(E) \in Nat /\ Cardinality(Inner(nd)) \in Nat
      /\ m = 2 * Cardinality(Inner(nd)) + 1 /\ Cardinality(E) = Cardinality(Inner(nd)) + 1
  BY <1>1, InnerAre
<1>7. U <= Cardinality(E) /\ (U = Cardinality(E) <=> g \in Surjection(all, E))
  <2> HIDE DEF g, E
  <2> QED BY <1>5, <1>6, FS_Injection
<1>8. U = Cardinality(E) /\ m = cap
  <2> DEFINE v == Cardinality(Inner(nd))
             w == Cardinality(E)
  <2>1. v \in Nat /\ w = v + 1 /\ m = 2 * v + 1 /\ U <= w BY <1>6, <1>7
  <2>2. U \in Nat /\ cap = 2 * U - 1 BY FS_CardinalityType
  <2> HIDE DEF v, w, U
  <2>3. U = w /\ m = cap BY <1>1, <2>1, <2>2
  <2> QED BY <2>3 DEF w
<1>9. ASSUME NEW x \in E PROVE nd[x].children = Leaf
  <2>1. g \in Surjection(all, E) BY <1>7, <1>8
  <2>2. PICK d \in all : g[d] = x
    <3> HIDE DEF g, E
    <3> QED BY <2>1 DEF Surjection
  <2> QED BY <1>2, <2>2
<1> QED BY <1>8, <1>9

(* Nor is one when every sequence of some length is a code. *)
LEMMA FullLeaves ==
  ASSUME NEW nd, NEW m, NEW path, NEW done, NEW all, NEW cap,
         Tree(nd, m, path, done, all, cap), NEW k \in Nat,
         \A c \in Strings(k) : \E d \in done : d[2] = c
  PROVE  \A x \in Ends(nd) : nd[x].children = Leaf
<1>1. Shape(nd, m, path) BY DEF Tree
<1> SUFFICES ASSUME NEW x \in Ends(nd) PROVE nd[x].children = Leaf OBVIOUS
<1> DEFINE p == path[x]
<1>2. p \in Seq(Bit) /\ Len(p) \in Nat BY <1>1, ShapeGives
<1>3. ASSUME NEW c \in Strings(k), NEW z \in Seq(Bit), IsPrefix(c, z), IsPrefix(p, z)
      PROVE  nd[x].children = Leaf
  <2>1. PICK d \in done : d[2] = c OBVIOUS
  <2>2. PICK i \in 0..m - 1 : nd[i].children = Leaf /\ path[i] = d[2] BY DEF Tree
  <2>3. i \in Ends(nd) BY <1>1, <2>2, LeafEnds
  <2>4. x = i
    <3>1. IsPrefix(path[x], z) /\ IsPrefix(path[i], z) BY <1>3, <2>1, <2>2
    <3> QED BY <1>1, <2>3, <3>1, EndsApart
  <2> QED BY <2>2, <2>4
<1> HIDE DEF p
<1>4. CASE Len(p) <= k
  <2> DEFINE c == [i \in 1..k |-> IF i <= Len(p) THEN p[i] ELSE 0]
  <2>1. c \in Strings(k) BY <1>2 DEF Strings, Bit
  <2>2. c \in Seq(Bit) /\ Len(c) = k BY <2>1, StringsAre
  <2>3. \A i \in 1..Len(p) : p[i] = c[i] BY <1>2, <1>4
  <2> HIDE DEF c
  <2>4. IsPrefix(p, c) BY <1>2, <1>4, <2>2, <2>3, PrefixIs
  <2>5. IsPrefix(c, c) BY <2>2, PrefixIs
  <2> QED BY <1>3, <2>1, <2>2, <2>4, <2>5
<1>5. CASE k < Len(p)
  <2> DEFINE c == SubSeq(p, 1, k)
  <2>1. c \in Seq(Bit) /\ Len(c) = k /\ \A i \in 1..k : p[i] = c[i] BY <1>2, <1>5
  <2> HIDE DEF c
  <2>2. c \in Strings(k) BY <2>1, SeqIsString
  <2>3. IsPrefix(c, p) BY <1>2, <1>5, <2>1, PrefixIs
  <2>4. IsPrefix(p, p) BY <1>2, PrefixIs
  <2> QED BY <1>2, <1>3, <2>2, <2>3, <2>4
<1> QED BY <1>2, <1>4, <1>5

-----------------------------------------------------------------------------
(* The codes of code lengths *)

CodeOf(s) == IF Alone THEN <<>> ELSE Canonical(s)
Coded == {<<s, CodeOf(s)>> : s \in Used}
CodedCap == 2 * Cardinality(Used) - 1

LEMMA UsedFinite ==
  ASSUME LensOK
  PROVE  IsFiniteSet(Used) /\ Cardinality(Used) \in Nat
<1>1. Used \subseteq Symbols BY UsedAre
<1> QED BY <1>1, SymbolsFinite

LEMMA CodeOfType ==
  ASSUME LensOK, NEW s \in Used
  PROVE  /\ CodeOf(s) \in Seq(Bit) /\ Len(CodeOf(s)) \in Nat /\ Len(CodeOf(s)) <= MaxLen
         /\ s \in Symbols /\ <<s, CodeOf(s)>> \in Pairs
<1>1. s \in Symbols BY UsedAre
<1>2. Canonical(s) \in Seq(Bit) /\ Len(Canonical(s)) \in 1..MaxLen /\ MaxLen \in Nat
  BY CanonicalType
<1>3. <<>> \in Seq(Bit) /\ Len(<<>>) = 0 OBVIOUS
<1>4. CodeOf(s) \in Seq(Bit) /\ Len(CodeOf(s)) \in Nat /\ Len(CodeOf(s)) <= MaxLen
  <2>1. CASE Alone BY <1>2, <1>3, <2>1 DEF CodeOf
  <2>2. CASE ~Alone BY <1>2, <2>2 DEF CodeOf
  <2> QED BY <2>1, <2>2
<1> QED BY <1>1, <1>4 DEF Pairs

LEMMA CodedAre ==
  ASSUME LensOK
  PROVE  /\ Coded \in SUBSET Pairs /\ IsFiniteSet(Coded)
         /\ Cardinality(Coded) = Cardinality(Used)
         /\ \A d \in Coded : d[1] \in Used /\ d[2] = CodeOf(d[1]) /\ d = <<d[1], d[2]>>
<1>1. Coded \in SUBSET Pairs BY CodeOfType DEF Coded
<1>2. \A d \in Coded : d[1] \in Used /\ d[2] = CodeOf(d[1]) /\ d = <<d[1], d[2]>>
  BY DEF Coded
<1> DEFINE g == [s \in Used |-> <<s, CodeOf(s)>>]
<1>3. g \in [Used -> Coded] BY DEF Coded
<1>4. \A s, t \in Used : g[s] = g[t] => s = t OBVIOUS
<1>5. \A d \in Coded : \E s \in Used : g[s] = d BY DEF Coded
<1> HIDE DEF g
<1>6. ExistsBijection(Used, Coded)
  BY <1>3, <1>4, <1>5 DEF ExistsBijection, Bijection, Injection, IsInjective, Surjection
<1>7. IsFiniteSet(Coded) /\ Cardinality(Coded) = Cardinality(Used)
  BY <1>6, UsedFinite, FS_Bijection
<1> QED BY <1>1, <1>2, <1>7

LEMMA AloneIs ==
  ASSUME LensOK, Alone, NEW s \in Used, NEW t \in Used
  PROVE  s = t
<1>1. IsFiniteSet(Used) /\ Cardinality(Used) = 1 BY UsedFinite DEF Alone
<1>2. \E x : Used = {x} BY <1>1, FS_Singleton
<1> QED BY <1>2

(* Whether the codes differ or not, the tree that build has made is complete. *)
LEMMA CodedLeaves ==
  ASSUME LensOK, NEW nd, NEW m, NEW path, Tree(nd, m, path, Coded, Coded, CodedCap)
  PROVE  \A x \in Ends(nd) : nd[x].children = Leaf
<1>1. CASE \A d, e \in Coded : d[2] = e[2] => d = e
  <2>1. CodedCap = 2 * Cardinality(Coded) - 1 BY CodedAre DEF CodedCap
  <2> QED BY <1>1, <2>1, CodedAre, AllLeaves
<1>2. CASE ~\A d, e \in Coded : d[2] = e[2] => d = e
  <2>1. PICK d \in Coded, e \in Coded : d[2] = e[2] /\ d # e BY <1>2
  <2>2. d[1] \in Used /\ e[1] \in Used /\ d[1] # e[1] /\ CodeOf(d[1]) = CodeOf(e[1])
    <3>1. d[1] \in Used /\ d[2] = CodeOf(d[1]) /\ d = <<d[1], d[2]>> BY CodedAre
    <3>2. e[1] \in Used /\ e[2] = CodeOf(e[1]) /\ e = <<e[1], e[2]>> BY CodedAre
    <3>3. d[1] # e[1]
      <4> SUFFICES ASSUME d[1] = e[1] PROVE FALSE OBVIOUS
      <4> QED BY <2>1, <3>1, <3>2
    <3> QED BY <2>1, <3>1, <3>2, <3>3
  <2>3. ~Alone BY <2>2, AloneIs
  <2>4. Canonical(d[1]) = Canonical(e[1]) BY <2>2, <2>3 DEF CodeOf
  <2> DEFINE k == lens[d[1]]
  <2>5. k \in Nat
    <3>1. k \in 1..MaxLen BY <2>2, UsedAre
    <3> QED BY <3>1
  <2>6. ASSUME NEW c \in Strings(k) PROVE \E b \in Coded : b[2] = c
    <3>1. PICK u \in Used : Canonical(u) = c BY <2>2, <2>4, EqualFill
    <3>2. <<u, c>> \in Coded BY <2>3, <3>1 DEF Coded, CodeOf
    <3>3. <<u, c>>[2] = c OBVIOUS
    <3> QED BY <3>2, <3>3
  <2> HIDE DEF k
  <2> QED BY <2>5, <2>6, FullLeaves
<1> QED BY <1>1, <1>2

(* So every sequence of MaxLen bits begins with a code. *)
LEMMA CodedReach ==
  ASSUME LensOK, ~Alone, NEW nd, NEW m, NEW path, Tree(nd, m, path, Coded, Coded, CodedCap)
  PROVE  Share >= Two[MaxLen]
<1> DEFINE E == Extended(MaxLen, Used)
           W == Strings(MaxLen)
           P(e, c) == Canonical(e[1]) \o e[2] = c
           g == [c \in W |-> CHOOSE e \in E : P(e, c)]
<1>0. Shape(nd, m, path) /\ MaxLen \in Nat BY SymbolsAre DEF Tree
<1>1. ASSUME NEW c \in W PROVE \E e \in E : P(e, c)
  <2>1. c \in Seq(Bit) /\ Len(c) = MaxLen BY <1>0, StringsAre
  <2>2. ~\E i \in Inner(nd) : path[i] = c
    <3> SUFFICES ASSUME NEW i \in Inner(nd), path[i] = c PROVE FALSE OBVIOUS
    <3>1. PICK d \in Coded : Strict(path[i], d[2]) BY DEF Tree
    <3>2. d[1] \in Used /\ d[2] = CodeOf(d[1]) BY CodedAre
    <3>3. Len(d[2]) \in Nat /\ Len(d[2]) <= MaxLen BY <3>2, CodeOfType
    <3> QED BY <1>0, <2>1, <3>1, <3>3 DEF Strict
  <2>3. PICK x \in Ends(nd) : IsPrefix(path[x], c) BY <1>0, <2>1, <2>2, Descent
  <2>4. x \in 0..m - 1 /\ nd[x].children = Leaf BY <1>0, InnerAre, CodedLeaves
  <2> DEFINE u == nd[x].symbol
             d == <<u, path[x]>>
  <2>5. d \in Coded BY <2>4 DEF Tree
  <2>6. d[1] = u /\ d[2] = path[x] OBVIOUS
  <2>7. u \in Used /\ path[x] = Canonical(u)
    <3> HIDE DEF d, u
    <3>1. u \in Used /\ path[x] = CodeOf(u) BY <2>5, <2>6, CodedAre
    <3> QED BY <3>1 DEF CodeOf
  <2> HIDE DEF u, d
  <2>8. Canonical(u) \in Seq(Bit) /\ Len(Canonical(u)) = lens[u] /\ lens[u] \in 1..MaxLen
    BY <2>7, CanonicalType
  <2> DEFINE a == Canonical(u)
             r == SubSeq(c, lens[u] + 1, MaxLen)
  <2>9. IsPrefix(a, c) BY <2>3, <2>7
  <2>10. r \in Strings(MaxLen - lens[u]) /\ a \o r = c
    <3> DEFINE j == lens[u]
    <3>1. a \in Seq(Bit) /\ Len(a) = j /\ j \in Nat /\ j <= MaxLen BY <1>0, <2>8
    <3>2. a = SubSeq(c, 1, j) BY <2>1, <2>9, <3>1, PrefixIs
    <3> HIDE DEF a, j
    <3>3. r = SubSeq(c, j + 1, MaxLen) BY DEF j
    <3>4. r \in Seq(Bit) /\ Len(r) = MaxLen - j
      <4> HIDE DEF r
      <4> QED BY <1>0, <2>1, <3>1, <3>3
    <3> HIDE DEF r
    <3>5. r \in Strings(MaxLen - j) BY <3>1, <3>4, SeqIsString
    <3>6. SubSeq(c, 1, j) \o SubSeq(c, j + 1, MaxLen) = c BY <1>0, <2>1, <3>1
    <3> QED BY <3>2, <3>3, <3>5, <3>6 DEF j
  <2> DEFINE e == <<u, r>>
  <2>11. e \in E BY <1>0, <2>7, <2>10, ExtendedIs
  <2>12. P(e, c) BY <2>10
  <2> QED BY <2>11, <2>12
<1>2. ASSUME NEW c \in W PROVE g[c] \in E /\ P(g[c], c) BY <1>1
<1>3. g \in [W -> E] BY <1>2
<1>4. ASSUME NEW c \in W, NEW d \in W, g[c] = g[d] PROVE c = d
  <2>1. P(g[c], c) /\ P(g[d], d) BY <1>2
  <2> HIDE DEF g
  <2> QED BY <1>4, <2>1
<1>5. g \in Injection(W, E)
  <2> HIDE DEF g, E, W
  <2> QED BY <1>3, <1>4 DEF Injection, IsInjective
<1>6. IsFiniteSet(E) /\ Cardinality(E) \in Nat
  <2>1. Within(MaxLen, Used) BY UsedWithin
  <2> QED BY <1>0, <2>1, ExtendedFinite
<1>7. Cardinality(W) <= Cardinality(E)
  <2> HIDE DEF g, E, W
  <2> QED BY <1>5, <1>6, FS_Injection
<1>8. Cardinality(W) = Two[MaxLen] /\ Two[MaxLen] \in Nat
  BY <1>0, StringsNumber, TwoType
<1>9. Share = Cardinality(E) BY DEF Share
<1> HIDE DEF E, W
<1> QED BY <1>6, <1>7, <1>8, <1>9

LEMMA CodedApart ==
  ASSUME LensOK, Alone \/ Share = Two[MaxLen], NEW d \in Coded, NEW e \in Coded,
         IsPrefix(d[2], e[2])
  PROVE  d = e
<1>1. d[1] \in Used /\ d[2] = CodeOf(d[1]) /\ d = <<d[1], d[2]>> BY CodedAre
<1>2. e[1] \in Used /\ e[2] = CodeOf(e[1]) /\ e = <<e[1], e[2]>> BY CodedAre
<1>3. d[1] = e[1]
  <2>1. CASE Alone BY <1>1, <1>2, <2>1, AloneIs
  <2>2. CASE ~Alone
    <3>1. d[2] = Canonical(d[1]) /\ e[2] = Canonical(e[1]) BY <1>1, <1>2, <2>2 DEF CodeOf
    <3>2. Share <= Two[MaxLen]
      <4>1. Share = Two[MaxLen] /\ MaxLen \in Nat BY <2>2, SymbolsAre
      <4>2. Two[MaxLen] \in Nat BY <4>1, TwoType
      <4> QED BY <4>1, <4>2
    <3>3. IsPrefix(Canonical(d[1]), Canonical(e[1])) BY <3>1
    <3> QED BY <1>1, <1>2, <3>2, <3>3, PrefixFree
  <2> QED BY <2>1, <2>2
<1> QED BY <1>1, <1>2, <1>3

LEMMA EmptyPrefix ==
  ASSUME NEW a \in Seq(Bit)
  PROVE  IsPrefix(<<>>, a)
<1> DEFINE e == <<>>
<1>1. e \in Seq(Bit) /\ Len(e) = 0 /\ Len(a) \in Nat OBVIOUS
<1> HIDE DEF e
<1>2. Len(e) <= Len(a) /\ \A i \in 1..Len(e) : e[i] = a[i] BY <1>1
<1>3. IsPrefix(e, a) BY <1>1, <1>2, PrefixIs
<1> QED BY <1>3 DEF e

LEMMA StrictIsNot ==
  ASSUME NEW a \in Seq(Bit)
  PROVE  ~Strict(a, a) /\ ~Strict(a, <<>>)
<1>1. Len(a) \in Nat /\ Len(<<>>) = 0 OBVIOUS
<1> QED BY <1>1 DEF Strict

(* The tree of a complete code has all the nodes there is room for. *)
LEMMA CodedFull ==
  ASSUME LensOK, Share = Two[MaxLen],
         NEW nd, NEW m, NEW path, Tree(nd, m, path, Coded, Coded, CodedCap)
  PROVE  m = CodedCap
<1>1. \A d, e \in Coded : d[2] = e[2] => d = e
  <2> SUFFICES ASSUME NEW d \in Coded, NEW e \in Coded, d[2] = e[2] PROVE d = e OBVIOUS
  <2>1. d[2] \in Seq(Bit)
    <3>1. d \in Pairs BY CodedAre
    <3> QED BY <3>1, PairIs
  <2>2. IsPrefix(d[2], e[2])
    <3>1. IsPrefix(d[2], d[2]) BY <2>1, PrefixIs
    <3> QED BY <3>1
  <2> QED BY <2>2, CodedApart
<1>2. CodedCap = 2 * Cardinality(Coded) - 1 BY CodedAre DEF CodedCap
<1> QED BY <1>1, <1>2, CodedAre, AllLeaves

(* Where a code goes on, each of the two ways leads to a code, when the code is complete. *)
LEMMA WayLeads ==
  ASSUME LensOK, Share = Two[MaxLen], NEW v \in Used, NEW q \in Seq(Bit),
         Strict(q, Canonical(v)), NEW b \in Bit
  PROVE  \E u \in Used : IsPrefix(Append(q, b), Canonical(u))
<1> DEFINE p == Append(q, b)
<1>0. Share <= Two[MaxLen] /\ MaxLen \in Nat BY TwoType, SymbolsAre
<1>1. Canonical(v) \in Seq(Bit) /\ Len(Canonical(v)) \in 1..MaxLen BY CanonicalType
<1>2. p \in Seq(Bit) /\ Len(p) = Len(q) + 1 /\ Len(q) \in Nat BY AppendStrict
<1>3. Len(p) <= MaxLen BY <1>0, <1>1, <1>2 DEF Strict
<1>4. PICK u \in Used : IsPrefix(Canonical(u), p) \/ IsPrefix(p, Canonical(u))
  <2> HIDE DEF p
  <2> QED BY <1>2, <1>3, CodesMeet
<1>5. Canonical(u) \in Seq(Bit) /\ Len(Canonical(u)) \in Nat BY CanonicalType
<1>6. CASE IsPrefix(Canonical(u), p)
  <2>1. CASE Strict(Canonical(u), p)
    <3>1. Canonical(u) = q \/ Strict(Canonical(u), q) BY <1>5, <2>1, AppendStrict
    <3>2. IsPrefix(Canonical(u), q) /\ Len(Canonical(u)) <= Len(q)
      <4>1. IsPrefix(q, q) BY PrefixIs
      <4> QED BY <1>2, <3>1, <4>1, <1>5 DEF Strict
    <3>3. IsPrefix(Canonical(u), Canonical(v)) /\ Len(Canonical(u)) < Len(Canonical(v))
      <4>1. IsPrefix(q, Canonical(v)) /\ Len(q) < Len(Canonical(v)) BY DEF Strict
      <4>2. IsPrefix(Canonical(u), Canonical(v)) BY <1>1, <1>5, <3>2, <4>1, PrefixTrans
      <4> QED BY <1>1, <1>2, <1>5, <3>2, <4>1, <4>2
    <3>4. u = v BY <1>0, <3>3, PrefixFree
    <3> QED BY <1>5, <3>3, <3>4
  <2>2. CASE ~Strict(Canonical(u), p)
    <3> HIDE DEF p
    <3>1. Len(Canonical(u)) = Len(p) BY <1>2, <1>5, <1>6, <2>2, PrefixIs DEF Strict
    <3>2. p = Canonical(u) BY <1>2, <1>5, <1>6, <3>1, PrefixSame
    <3>3. IsPrefix(p, p) BY <1>2, PrefixIs
    <3>4. IsPrefix(p, Canonical(u)) BY <3>2, <3>3
    <3> QED BY <3>4 DEF p
  <2> QED BY <2>1, <2>2
<1> QED BY <1>4, <1>6

(* insert refuses no code of a complete set. *)
LEMMA NotRefused ==
  ASSUME LensOK, NEW s \in Used, NEW done \in SUBSET Coded,
         Refused(CodeOf(s), done, Coded, CodedCap)
  PROVE  ~Alone /\ Share # Two[MaxLen]
<1> SUFFICES ASSUME Alone \/ Share = Two[MaxLen] PROVE FALSE OBVIOUS
<1> DEFINE code == CodeOf(s)
           new == <<s, code>>
<1>1. new \in Coded /\ new[2] = code /\ code \in Seq(Bit) BY CodeOfType DEF Coded
<1> HIDE DEF code, new
<1>2. ASSUME NEW d \in Coded, Strict(d[2], code) PROVE FALSE
  <2>1. d = new BY <1>1, <1>2, CodedApart DEF Strict
  <2> QED BY <1>1, <1>2, <2>1, StrictIsNot
<1>3. ASSUME NEW d \in Coded, Strict(code, d[2]) PROVE FALSE
  <2>1. d = new BY <1>1, <1>3, CodedApart DEF Strict
  <2> QED BY <1>1, <1>3, <2>1, StrictIsNot
<1>4. CASE \E d \in done : Strict(d[2], code) BY <1>2, <1>4
<1>5. ASSUME NEW nd, NEW m, NEW path, Tree(nd, m, path, done, Coded, CodedCap), NEW x \in 0..m - 1,
             x \in Inner(nd) /\ path[x] = code
      PROVE  FALSE
  <2>1. \E d \in Coded : Strict(path[x], d[2]) BY <1>5 DEF Tree
  <2> QED BY <1>3, <1>5, <2>1
<1>6. ASSUME NEW nd, NEW m, NEW path, Tree(nd, m, path, done, Coded, CodedCap), NEW x \in 0..m - 1,
             nd[x].children = 0 /\ m >= CodedCap /\ Strict(path[x], code)
      PROVE  FALSE
  <2>1. Shape(nd, m, path) BY <1>6 DEF Tree
  <2>2. x \in Ends(nd) /\ DOMAIN nd = 0..m - 1 /\ path[x] \in Seq(Bit)
    <3>1. DOMAIN nd = 0..m - 1 BY <2>1, InnerAre
    <3>2. x \notin Inner(nd) BY <1>6 DEF Inner
    <3>3. path[x] \in Seq(Bit) BY <2>1, ShapeGives
    <3> QED BY <3>1, <3>2, <3>3 DEF Ends
  <2>3. ~Alone
    <3> SUFFICES ASSUME Alone PROVE FALSE OBVIOUS
    <3>1. code = <<>> BY DEF CodeOf, code
    <3> QED BY <1>6, <2>2, <3>1, StrictIsNot
  <2>4. Share = Two[MaxLen] BY <2>3
  <2>5. \A u \in Used : Canonical(u) \in Seq(Bit) /\ CodeOf(u) = Canonical(u)
    BY <2>3, CanonicalType DEF CodeOf
  <2>6. Strict(path[x], Canonical(s)) BY <1>6, <2>5 DEF code
  (* Two codes go on from the node that needs children. *)
  <2>7. 0 \in Bit /\ 1 \in Bit BY DEF Bit
  <2>8. PICK u0 \in Used : IsPrefix(Append(path[x], 0), Canonical(u0))
    BY <2>2, <2>4, <2>6, <2>7, WayLeads
  <2>9. PICK u1 \in Used : IsPrefix(Append(path[x], 1), Canonical(u1))
    BY <2>2, <2>4, <2>6, <2>7, WayLeads
  <2>10. u0 # u1
    <3> SUFFICES ASSUME u0 = u1 PROVE FALSE OBVIOUS
    <3> DEFINE q == path[x]
               a == Append(q, 0)
               b == Append(q, 1)
    <3>1. q \in Seq(Bit) BY <2>2
    <3>2. a \in Seq(Bit) /\ b \in Seq(Bit) /\ Len(a) = Len(b)
      BY <2>7, <3>1, AppendStrict
    <3>3. a[Len(q) + 1] = 0 /\ b[Len(q) + 1] = 1
      <4> HIDE DEF q
      <4> QED BY <3>1
    <3>a. IsPrefix(a, Canonical(u0)) /\ IsPrefix(b, Canonical(u0)) BY <2>8, <2>9
    <3> HIDE DEF a, b, q
    <3>4. Len(a) <= Len(b) BY <3>2
    <3>5. IsPrefix(a, b) BY <2>5, <3>2, <3>4, <3>a, PrefixesOfOne
    <3>6. a = b BY <3>2, <3>5, PrefixSame
    <3> QED BY <3>3, <3>6
  <2>11. IsPrefix(path[x], Canonical(u0)) /\ IsPrefix(path[x], Canonical(u1))
    <3>1. ASSUME NEW b \in Bit, NEW u \in Used, IsPrefix(Append(path[x], b), Canonical(u))
          PROVE  IsPrefix(path[x], Canonical(u))
      <4>1. Append(path[x], b) \in Seq(Bit) /\ IsPrefix(path[x], Append(path[x], b))
        BY <2>2, AppendStrict DEF Strict
      <4> QED BY <2>2, <2>5, <3>1, <4>1, PrefixTrans
    <3> QED BY <2>7, <2>8, <2>9, <3>1
  <2> DEFINE E == Ends(nd)
             V == Used \ {u1}
             P(y, u) == IsPrefix(path[y], Canonical(u))
             g == [y \in E |-> CHOOSE u \in V : P(y, u)]
  <2>12. ASSUME NEW y \in E PROVE \E u \in Used : P(y, u)
    <3>1. y \in 0..m - 1 BY <2>1, InnerAre
    <3>2. CASE y = 0
      <4>1. path[y] = <<>> BY <2>1, <3>2, ShapeGives
      <4>2. IsPrefix(<<>>, Canonical(s))
        <5>1. Canonical(s) \in Seq(Bit) BY <2>5
        <5> QED BY <5>1, EmptyPrefix
      <4> QED BY <4>1, <4>2
    <3>3. CASE y # 0
      <4>1. PICK i \in Inner(nd) : \E b \in Bit : y = Child(nd, i, b)
        BY <2>1, <3>1, <3>3, ShapeGives
      <4>2. PICK b \in Bit : y = Child(nd, i, b) BY <4>1
      <4>3. path[y] = Append(path[i], b) /\ path[i] \in Seq(Bit)
        BY <2>1, <4>1, <4>2, ShapeGives
      <4>4. PICK d \in Coded : Strict(path[i], d[2]) BY <1>6, <4>1 DEF Tree
      <4>5. d[1] \in Used /\ d[2] = Canonical(d[1]) BY <2>5, CodedAre
      <4>6. \E u \in Used : IsPrefix(Append(path[i], b), Canonical(u))
        BY <2>4, <4>3, <4>4, <4>5, WayLeads
      <4> QED BY <4>3, <4>6
    <3> QED BY <3>2, <3>3
  <2>13. ASSUME NEW y \in E PROVE \E u \in V : P(y, u)
    <3>1. CASE y = x BY <2>10, <2>11, <3>1
    <3>2. CASE y # x
      <4>1. PICK u \in Used : P(y, u) BY <2>12
      <4>2. u # u1
        <5> SUFFICES ASSUME u = u1 PROVE FALSE OBVIOUS
        <5>1. IsPrefix(path[y], Canonical(u1)) /\ Canonical(u1) \in Seq(Bit) BY <2>5, <4>1
        <5>2. y = x BY <2>1, <2>2, <2>11, <5>1, EndsApart
        <5> QED BY <3>2, <5>2
      <4> QED BY <4>1, <4>2
    <3> QED BY <3>1, <3>2
  <2>14. ASSUME NEW y \in E PROVE g[y] \in V /\ P(y, g[y]) BY <2>13
  <2>15. g \in [E -> V] BY <2>14
  <2>16. ASSUME NEW y \in E, NEW z \in E, g[y] = g[z] PROVE y = z
    <3>1. g[y] \in Used /\ P(y, g[y]) /\ P(z, g[z]) BY <2>14
    <3> HIDE DEF g
    <3>2. IsPrefix(path[y], Canonical(g[y])) /\ IsPrefix(path[z], Canonical(g[y]))
      BY <2>16, <3>1
    <3>3. Canonical(g[y]) \in Seq(Bit) BY <2>5, <3>1
    <3> QED BY <2>1, <3>2, <3>3, EndsApart
  <2>17. g \in Injection(E, V)
    <3> HIDE DEF g, E, V
    <3> QED BY <2>15, <2>16 DEF Injection, IsInjective
  <2>18. IsFiniteSet(V) /\ Cardinality(V) = Cardinality(Used) - 1
    BY UsedFinite, FS_RemoveElement
  <2>19. Cardinality(E) <= Cardinality(V)
    <3> HIDE DEF g, E, V
    <3> QED BY <2>17, <2>18, FS_Injection
  <2>20. /\ Cardinality(Inner(nd)) \in Nat /\ m = 2 * Cardinality(Inner(nd)) + 1
         /\ Cardinality(E) = Cardinality(Inner(nd)) + 1
    BY <2>1, InnerAre
  <2>21. Cardinality(Used) \in Nat BY UsedFinite
  <2> DEFINE h == Cardinality(Inner(nd))
             w == Cardinality(E)
             r == Cardinality(Used)
  <2>22. h \in Nat /\ m = 2 * h + 1 /\ w = h + 1 /\ r \in Nat /\ w <= r - 1 /\ m >= 2 * r - 1
    BY <1>6, <2>18, <2>19, <2>20, <2>21 DEF CodedCap
  <2> HIDE DEF h, w, r
  <2> QED BY <2>22
<1>7. Refused(code, done, Coded, CodedCap) BY DEF code
<1> QED BY <1>4, <1>5, <1>6, <1>7 DEF Refused

-----------------------------------------------------------------------------
(* What the states of the machine have in common *)

\* the codes of a simple tree, and those of code lengths, up to some symbol
Simples(k) == {<<simple[i], CodeBits(i - 1, Len(simple) - 1)>> : i \in 1..k}
CodedTo(k) == {<<s, CodeOf(s)>> : s \in {u \in Used : u < k}}

\* the codes of the tree, those inserted, and the nodes there is room for
All  == IF simple # <<>> THEN Simples(Len(simple)) ELSE Coded
Done == IF simple # <<>> THEN Simples(symbol) ELSE CodedTo(symbol)
Cap  == IF simple # <<>> THEN 2 * Len(simple) - 1 ELSE CodedCap

\* the nodes and the table while they are built
Partial(m, path) ==
  Tree(nodes, m, path, Done, All, Cap) /\ Table(lut, m, path, Done) /\ Reached(lut, Done)

\* and when they are
Complete(m, path) ==
  /\ Tree(nodes, m, path, All, All, Cap) /\ Table(lut, m, path, All) /\ Reached(lut, All)
  /\ \A x \in Ends(nodes) : nodes[x].children = Leaf
  /\ All \in SUBSET Pairs /\ \A d \in All : Len(d[2]) <= MaxLen

\* what next knows of the bits it has used
Reader(m, path) ==
  /\ pc = "lut"  => Len(bits) >= LutSize /\ taken = <<>>
  /\ pc = "walk" => n \in 0..m - 1 /\ path[n] = taken
  /\ pc = "got"  => <<n, taken>> \in All
  /\ pc = "eof"  => n \in 0..m - 1 /\ path[n] = taken /\ nodes[n].children # Leaf

Base ==
  /\ pc \in {"tree", "lengths", "insert", "simple", "idle", "lut", "walk", "got",
             "eof", "refused", "bad"}
  /\ simple \in UNION {[1..k -> 0..N] : k \in 0..2}
  /\ LensOK
  /\ symbol \in 0..N /\ prev \in 1..MaxLen /\ left \in 0..N
  /\ \E m \in Nat \ {0} : DOMAIN nodes = 0..m - 1
  /\ DOMAIN lut = Strings(LutSize)
  /\ n \in DOMAIN nodes \cup Symbols
  /\ bits \in Seq(Bit) /\ Len(bits) < LutSize + ByteBits
  /\ taken \in Seq(Bit) /\ Len(taken) <= MaxLen

Reading == {"idle", "lut", "walk", "got", "eof"}

Phases ==
  /\ pc \in {"tree", "lengths"} =>
       /\ simple = <<>> /\ nodes = NoTree /\ lut = [e \in Strings(LutSize) |-> Hole]
  /\ pc = "tree" => symbol = 0
  /\ pc \in {"tree", "lengths", "insert", "simple", "refused", "bad"} => n = 0
  /\ pc = "insert" => simple = <<>> /\ \E m, path : Partial(m, path)
  /\ pc = "simple" => /\ simple # <<>> /\ symbol <= Len(simple)
                      /\ \A i \in 1..symbol : simple[i] \in Symbols
                      /\ \E m, path : Partial(m, path)
  /\ pc \in Reading => \E m, path : Complete(m, path) /\ Reader(m, path)
  /\ pc = "bad" /\ simple = <<>> => ~Alone /\ Share # Two[MaxLen]

HuffmanInvariant == Base /\ Phases

LEMMA CompleteShape ==
  ASSUME NEW m, NEW path, Complete(m, path)
  PROVE  /\ Shape(nodes, m, path) /\ DOMAIN nodes = 0..m - 1
         /\ \A j \in 0..m - 1 : /\ path[j] \in Seq(Bit) /\ Len(path[j]) <= MaxLen
                                /\ nodes[j].children = Leaf <=> j \notin Inner(nodes)
<1>1. Shape(nodes, m, path) BY DEF Complete, Tree
<1>2. DOMAIN nodes = 0..m - 1 /\ 0..m - 1 = Inner(nodes) \cup Ends(nodes) BY <1>1, InnerAre
<1>3. ASSUME NEW j \in 0..m - 1 PROVE nodes[j].children = Leaf <=> j \notin Inner(nodes)
  <2>1. j \in Ends(nodes) => nodes[j].children = Leaf BY DEF Complete
  <2>2. nodes[j].children = Leaf => j \notin Inner(nodes) BY DEF Inner
  <2> QED BY <1>2, <2>1, <2>2
<1>4. ASSUME NEW j \in 0..m - 1 PROVE path[j] \in Seq(Bit) /\ Len(path[j]) <= MaxLen
  <2>1. path[j] \in Seq(Bit) /\ Len(path[j]) \in Nat BY <1>1, ShapeGives
  <2>2. ASSUME NEW d \in All PROVE Len(d[2]) \in Nat /\ Len(d[2]) <= MaxLen
    <3>1. d \in Pairs /\ Len(d[2]) <= MaxLen BY DEF Complete
    <3> QED BY <3>1, PairIs
  <2>3. CASE nodes[j].children = Leaf
    <3> DEFINE d == <<nodes[j].symbol, path[j]>>
    <3>1. d \in All /\ d[2] = path[j] BY <2>3 DEF Complete, Tree
    <3> HIDE DEF d
    <3> QED BY <2>1, <2>2, <3>1
  <2>4. CASE j \in Inner(nodes)
    <3>1. PICK d \in All : Strict(path[j], d[2]) BY <2>4 DEF Complete, Tree
    <3>2. Len(d[2]) \in Nat /\ Len(d[2]) <= MaxLen BY <2>2
    <3> QED BY <2>1, <3>1, <3>2, SymbolsAre DEF Strict
  <2> QED BY <1>3, <2>1, <2>3, <2>4
<1> QED BY <1>1, <1>2, <1>3, <1>4

(* No code begins the path of a node with children. *)
LEMMA InnerOpen ==
  ASSUME NEW m, NEW path, Complete(m, path), NEW x \in 0..m - 1, x \in Inner(nodes),
         NEW d \in All
  PROVE  ~IsPrefix(d[2], path[x])
<1> SUFFICES ASSUME IsPrefix(d[2], path[x]) PROVE FALSE OBVIOUS
<1>1. Shape(nodes, m, path) /\ path[x] \in Seq(Bit) BY CompleteShape
<1>2. d[2] \in Seq(Bit)
  <2>1. d \in Pairs BY DEF Complete
  <2> QED BY <2>1, PairIs
<1>3. PICK i \in 0..m - 1 : nodes[i].children = Leaf /\ path[i] = d[2] BY DEF Complete, Tree
<1>4. i \notin Inner(nodes) BY <1>3, CompleteShape
<1>5. CASE Strict(d[2], path[x])
  <2>1. PICK j \in Inner(nodes) : path[j] = d[2] BY <1>1, <1>2, <1>5, PrefixNode
  <2>2. j \in 0..m - 1 BY <1>1, <2>1, InnerAre
  <2>3. path[i] = path[j] BY <1>3, <2>1
  <2>4. i = j BY <1>1, <2>2, <2>3, ShapeGives
  <2> QED BY <1>4, <2>1, <2>4
<1>6. CASE ~Strict(d[2], path[x])
  <2>1. Len(d[2]) = Len(path[x]) BY <1>1, <1>2, <1>6, PrefixIs DEF Strict
  <2>2. path[i] = path[x] BY <1>1, <1>2, <1>3, <2>1, PrefixSame
  <2>3. i = x BY <1>1, <2>2, ShapeGives
  <2> QED BY <1>4, <2>3
<1> QED BY <1>5, <1>6

(* An entry of the table is a code and its symbol, or the node that its bits lead to. *)
LEMMA TableRight ==
  ASSUME NEW m, NEW path, Complete(m, path), NEW e \in Strings(LutSize)
  PROVE  \/ /\ lut[e].len1 # 0 /\ lut[e].len1 - 1 \in 0..LutSize
            /\ <<lut[e].val, SubSeq(e, 1, lut[e].len1 - 1)>> \in All
         \/ lut[e].len1 = 0 /\ lut[e].val \in 0..m - 1 /\ path[lut[e].val] = e
<1> DEFINE r == lut[e]
<1>1. Shape(nodes, m, path) /\ Table(lut, m, path, All) /\ Reached(lut, All)
  BY CompleteShape DEF Complete
<1>2. e \in Seq(Bit) /\ Len(e) = LutSize BY LutType, StringsAre
<1>3. Entry(r, e, m, path, All) BY <1>1 DEF Table
<1>4. ASSUME NEW d \in All PROVE d[2] \in Seq(Bit) /\ Len(d[2]) \in Nat /\ d = <<d[1], d[2]>>
  <2>1. d \in Pairs BY DEF Complete
  <2> QED BY <2>1, PairIs
<1>5. CASE r.len1 # 0 /\ \E d \in All : /\ r.val = d[1] /\ r.len1 = Len(d[2]) + 1
                                        /\ Len(d[2]) <= LutSize /\ IsPrefix(d[2], e)
  <2>1. PICK d \in All : /\ r.val = d[1] /\ r.len1 = Len(d[2]) + 1
                         /\ Len(d[2]) <= LutSize /\ IsPrefix(d[2], e)
    BY <1>5
  <2> HIDE DEF r
  <2>2. r.len1 - 1 = Len(d[2]) /\ r.len1 - 1 \in 0..LutSize BY <1>4, <2>1, LutType
  <2>3. d[2] = SubSeq(e, 1, Len(d[2])) BY <1>2, <1>4, <2>1, PrefixIs
  <2>4. <<r.val, SubSeq(e, 1, r.len1 - 1)>> \in All BY <1>4, <2>1, <2>2, <2>3
  <2> QED BY <1>5, <2>2, <2>4 DEF r
<1>6. CASE r.len1 = 0 /\ r.val \in 0..m - 1 /\ path[r.val] = e
  BY <1>6
<1>7. CASE r = Hole
  <2>0. r.len1 = 0 BY <1>7 DEF Hole
  (* A leaf before would have filled the entry, and a node below has noted itself. *)
  <2>1. CASE \E x \in Ends(nodes) : IsPrefix(path[x], e)
    <3>1. PICK x \in Ends(nodes) : IsPrefix(path[x], e) BY <2>1
    <3>2. x \in 0..m - 1 /\ nodes[x].children = Leaf /\ path[x] \in Seq(Bit)
      BY <1>1, InnerAre, ShapeGives DEF Complete
    <3> DEFINE d == <<nodes[x].symbol, path[x]>>
    <3>3. d \in All /\ d[2] = path[x] BY <3>2 DEF Complete, Tree
    <3> HIDE DEF d
    <3>4. Len(d[2]) <= LutSize /\ IsPrefix(d[2], e) BY <1>2, <3>1, <3>2, <3>3, PrefixIs
    <3>5. r.len1 # 0 BY <1>1, <3>3, <3>4 DEF Table
    <3> QED BY <2>0, <3>5
  <2>2. CASE \E i \in Inner(nodes) : path[i] = e
    <3>1. PICK i \in Inner(nodes) : path[i] = e BY <2>2
    <3>2. PICK d \in All : Strict(path[i], d[2]) BY <3>1 DEF Complete, Tree
    <3>3. LutSize < Len(d[2]) /\ IsPrefix(e, d[2]) BY <1>2, <3>1, <3>2 DEF Strict
    <3>4. e = SubSeq(d[2], 1, LutSize) BY <1>2, <1>4, <3>3, PrefixIs
    <3>5. r # Hole BY <1>1, <3>3, <3>4 DEF Reached
    <3> QED BY <1>7, <3>5
  <2> QED BY <1>1, <1>2, <2>1, <2>2, Descent
<1> HIDE DEF r
<1>8. \/ r.len1 # 0 /\ \E d \in All : /\ r.val = d[1] /\ r.len1 = Len(d[2]) + 1
                                      /\ Len(d[2]) <= LutSize /\ IsPrefix(d[2], e)
      \/ r.len1 = 0 /\ r.val \in 0..m - 1 /\ path[r.val] = e
      \/ r = Hole
  BY <1>3 DEF Entry
<1> QED BY <1>5, <1>6, <1>7, <1>8

LEMMA SimpleIs ==
  ASSUME simple \in UNION {[1..k -> 0..N] : k \in 0..2}
  PROVE  /\ Len(simple) \in 0..2 /\ DOMAIN simple = 1..Len(simple)
         /\ \A i \in 1..Len(simple) : simple[i] \in 0..N
         /\ simple = <<>> <=> Len(simple) = 0
<1>1. PICK k \in 0..2 : simple \in [1..k -> 0..N] OBVIOUS
<1>2. k \in Nat OBVIOUS
<1>3. simple \in Seq(0..N) /\ Len(simple) = k
  <2> DEFINE S == 0..N
  <2>1. simple \in [1..k -> S] BY <1>1
  <2> HIDE DEF S
  <2>2. simple \in Seq(S) /\ Len(simple) = k BY <1>2, <2>1
  <2> QED BY <2>2 DEF S
<1>4. simple = <<>> <=> k = 0 BY <1>1, <1>3
<1> QED BY <1>1, <1>3, <1>4

(* The codes of a symbol, as the properties have them. *)
LEMMA CodesOfAre ==
  ASSUME Base, NEW s \in Symbols, NEW c
  PROVE  c \in CodesOf(s) <=> <<s, c>> \in All
<1>1. CASE simple # <<>>
  <2>1. DOMAIN simple = 1..Len(simple) BY SimpleIs DEF Base
  <2>2. All = {<<simple[i], CodeBits(i - 1, Len(simple) - 1)>> : i \in 1..Len(simple)}
    BY <1>1 DEF All, Simples
  <2>3. CodesOf(s) = {CodeBits(i - 1, Len(simple) - 1) : i \in {j \in DOMAIN simple : simple[j] = s}}
    BY <1>1 DEF CodesOf
  <2> QED BY <2>1, <2>2, <2>3
<1>2. CASE simple = <<>>
  <2>1. All = {<<u, CodeOf(u)>> : u \in Used} BY <1>2 DEF All, Coded
  <2>2. CodesOf(s) = IF s \notin Used THEN {} ELSE {CodeOf(s)} BY <1>2 DEF CodesOf, CodeOf
  <2> QED BY <2>1, <2>2
<1> QED BY <1>1, <1>2

-----------------------------------------------------------------------------
(* Steps *)

LEMMA EmptyTree ==
  ASSUME NEW all, NEW cap \in Int, cap >= 1
  PROVE  \E m, path : /\ Tree(NoTree, m, path, {}, all, cap)
                      /\ Table([e \in Strings(LutSize) |-> Hole], m, path, {})
                      /\ Reached([e \in Strings(LutSize) |-> Hole], {})
                      /\ m = 1
<1> DEFINE path == [i \in {0} |-> <<>>]
           lt == [e \in Strings(LutSize) |-> Hole]
           nd == NoTree
<1>1. DOMAIN nd = {0} /\ nd[0] = Fresh BY DEF NoTree
<1>2. Fresh.children = 0 /\ Fresh \in [symbol : Int, children : Int] BY DEF Fresh
<1>3. Inner(nd) = {} BY <1>1, <1>2 DEF Inner
<1>4. 0..1 - 1 = {0} /\ 1..1 - 1 = {} OBVIOUS
<1>5. Shape(nd, 1, path)
  <2>1. nd \in [0..1 - 1 -> [symbol : Int, children : Int]] BY <1>2, <1>4 DEF NoTree
  <2>2. path \in [0..1 - 1 -> Seq(Bit)] /\ path[0] = <<>> BY <1>4
  <2>3. 1 = 2 * Cardinality(Inner(nd)) + 1 BY <1>3, FS_EmptySet
  <2> HIDE DEF nd, path
  <2>4. \A i, j \in 0..1 - 1 : path[i] = path[j] => i = j BY <1>4
  <2>5. \A i \in Inner(nd) : \A b \in Bit :
          /\ Child(nd, i, b) \in 1..1 - 1
          /\ path[Child(nd, i, b)] = Append(path[i], b)
    BY <1>3
  <2>6. \A j \in 1..1 - 1 : \E i \in Inner(nd) : \E b \in Bit : j = Child(nd, i, b)
    BY <1>4
  <2>7. 1 \in Nat \ {0} OBVIOUS
  <2> QED BY <2>1, <2>2, <2>3, <2>4, <2>5, <2>6, <2>7, Zenon DEF Shape
<1>6. Tree(nd, 1, path, {}, all, cap)
  <2>1. \A i \in 0..1 - 1 : nd[i].children # Leaf BY <1>1, <1>2, <1>4 DEF Leaf
  <2> HIDE DEF nd, path
  <2> QED BY <1>3, <1>5, <2>1 DEF Tree
<1>7. Table(lt, 1, path, {})
  <2>1. lt \in [Strings(LutSize) -> [len1 : Nat, val : Int]] BY DEF Hole
  <2>2. \A e \in Strings(LutSize) : Entry(lt[e], e, 1, path, {}) BY DEF Entry
  <2> HIDE DEF lt
  <2> QED BY <2>1, <2>2 DEF Table
<1>8. Reached(lt, {}) BY DEF Reached
<1> HIDE DEF nd, path, lt
<1>9. \E m, p : Tree(nd, m, p, {}, all, cap) /\ Table(lt, m, p, {}) /\ Reached(lt, {}) /\ m = 1
  BY <1>6, <1>7, <1>8
<1> QED BY <1>9 DEF nd, lt

LEMMA CodesKept ==
  ASSUME lens' = lens
  PROVE  /\ Used' = Used /\ Alone' = Alone /\ Share' = Share
         /\ Coded' = Coded /\ CodedCap' = CodedCap
         /\ \A k : CodedTo(k)' = CodedTo(k)
<1>1. Used' = Used BY DEF Used
<1>2. Alone' = Alone BY <1>1 DEF Alone
<1>3. \A k, T : Extended(k, T)' = Extended(k, T) BY DEF Extended
<1>4. Share' = Share BY <1>1 DEF Share, Extended
<1>5. \A s : Canonical(s)' = Canonical(s) BY <1>1 DEF Canonical, Extended, Before
<1>6. \A s : CodeOf(s)' = CodeOf(s) BY <1>2, <1>5 DEF CodeOf
<1>7. Coded' = Coded BY <1>1, <1>6 DEF Coded
<1>8. CodedCap' = CodedCap BY <1>1 DEF CodedCap
<1>9. \A k : CodedTo(k)' = CodedTo(k) BY <1>1, <1>6 DEF CodedTo
<1> QED BY <1>1, <1>2, <1>4, <1>7, <1>8, <1>9

LEMMA TreeKept ==
  ASSUME simple' = simple, lens' = lens
  PROVE  /\ All' = All /\ Cap' = Cap /\ Used' = Used /\ Alone' = Alone /\ Share' = Share
         /\ \A k : Simples(k)' = Simples(k)
         /\ LensOK' = LensOK
<1>1. \A k : Simples(k)' = Simples(k) BY DEF Simples
<1>2. Simples(Len(simple))' = Simples(Len(simple)) BY DEF Simples
<1>3. All' = All BY <1>2, CodesKept DEF All
<1>4. Cap' = Cap BY CodesKept DEF Cap
<1> QED BY <1>1, <1>3, <1>4, CodesKept DEF LensOK

LEMMA BuiltKept ==
  ASSUME simple' = simple, lens' = lens, symbol' = symbol, nodes' = nodes, lut' = lut,
         NEW m, NEW path
  PROVE  /\ Partial(m, path)' = Partial(m, path) /\ Complete(m, path)' = Complete(m, path)
<1>1. Done' = Done BY CodesKept DEF Done, Simples
<1>2. Partial(m, path)' = Partial(m, path) BY <1>1, TreeKept DEF Partial
<1>3. Complete(m, path)' = Complete(m, path) BY TreeKept DEF Complete
<1> QED BY <1>2, <1>3

LEMMA BoundsAre ==
  /\ N \in Nat /\ N >= 2 /\ MaxLen \in Nat /\ MaxLen >= 1 /\ FirstLen \in 1..MaxLen
  /\ LutSize \in Nat /\ LutSize > 0 /\ ByteBits \in Nat /\ LutSize < ByteBits
  /\ Symbols = 0..N - 1
<1>1. N \in Nat \ {0, 1} /\ MaxLen \in Nat \ {0} BY HuffmanAssumption
<1> QED BY <1>1, HuffmanAssumption DEF Symbols

LEMMA InitHolds == Init => HuffmanInvariant
<1> SUFFICES ASSUME Init PROVE Base /\ Phases BY DEF HuffmanInvariant
<1>1. Base
  <2>1. /\ pc = "tree" /\ simple = <<>> /\ lens = [s \in Symbols |-> 0] /\ symbol = 0
        /\ prev = FirstLen /\ left = 0
        /\ nodes = NoTree /\ lut = [e \in Strings(LutSize) |-> Hole]
        /\ n = 0 /\ bits = <<>> /\ taken = <<>>
    BY DEF Init
  <2>2. simple \in UNION {[1..k -> 0..N] : k \in 0..2}
    <3>1. <<>> \in [1..0 -> 0..N] OBVIOUS
    <3> QED BY <2>1, <3>1
  <2>3. LensOK BY <2>1, BoundsAre DEF LensOK
  <2>4. symbol \in 0..N /\ prev \in 1..MaxLen /\ left \in 0..N BY <2>1, BoundsAre
  <2>5. DOMAIN nodes = 0..1 - 1 /\ 1 \in Nat \ {0} BY <2>1 DEF NoTree
  <2>6. DOMAIN lut = Strings(LutSize) BY <2>1
  <2>7. n \in DOMAIN nodes \cup Symbols BY <2>1, <2>5
  <2>8. bits \in Seq(Bit) /\ taken \in Seq(Bit) /\ Len(bits) = 0 /\ Len(taken) = 0
    BY <2>1
  <2>9. Len(bits) < LutSize + ByteBits /\ Len(taken) <= MaxLen BY <2>8, BoundsAre
  <2> QED BY <2>1, <2>2, <2>3, <2>4, <2>5, <2>6, <2>7, <2>8, <2>9 DEF Base
<1>2. Phases BY DEF Init, Phases, Reading
<1> QED BY <1>1, <1>2

LEMMA ReadTreeHolds ==
  ASSUME HuffmanInvariant, ReadTree
  PROVE  HuffmanInvariant'
<1>1. /\ pc = "tree" /\ symbol = 0 /\ n = 0 /\ simple = <<>> /\ nodes = NoTree
      /\ lut = [e \in Strings(LutSize) |-> Hole]
  BY DEF HuffmanInvariant, Phases, ReadTree
<1>2. /\ lens' = lens /\ symbol' = symbol /\ prev' = prev /\ nodes' = nodes /\ lut' = lut
      /\ n' = n /\ bits' = bits /\ taken' = taken
  BY DEF ReadTree, nextVars
<1>3. \/ /\ \E k \in 1..2 : simple' \in [1..k -> 0..N]
         /\ pc' = "simple" /\ left' = left
      \/ left' \in 2..N /\ pc' = "lengths" /\ simple' = simple
      \/ pc' = "refused" /\ simple' = simple /\ left' = left
  BY DEF ReadTree
<1>4. Base'
  <2>1. simple' \in UNION {[1..k -> 0..N] : k \in 0..2}
    <3>1. simple \in UNION {[1..k -> 0..N] : k \in 0..2} BY DEF HuffmanInvariant, Base
    <3>2. CASE \E k \in 1..2 : simple' \in [1..k -> 0..N] BY <3>2
    <3>3. CASE simple' = simple BY <3>1, <3>3
    <3> QED BY <1>3, <3>2, <3>3
  <2>2. left' \in 0..N
    <3>1. left \in 0..N BY DEF HuffmanInvariant, Base
    <3> QED BY <1>3, <3>1, BoundsAre
  <2>3. LensOK' BY <1>2 DEF HuffmanInvariant, Base, LensOK
  <2> QED BY <1>2, <1>3, <2>1, <2>2, <2>3 DEF HuffmanInvariant, Base
<1>5. ASSUME pc' = "simple"
      PROVE  /\ simple' # <<>> /\ symbol' <= Len(simple') /\ symbol' = 0
             /\ \E m, path : Partial(m, path)'
  <2>1. simple' \in UNION {[1..k -> 0..N] : k \in 0..2} BY <1>4 DEF Base
  <2>2. PICK k \in 1..2 : simple' \in [1..k -> 0..N] BY <1>3, <1>5
  <2>3. k \in Nat /\ k >= 1 BY <2>2
  <2>4. Len(simple') = k
    <3> DEFINE S == 0..N
    <3>1. simple' \in [1..k -> S] BY <2>2
    <3> HIDE DEF S
    <3> QED BY <2>3, <3>1
  <2>5. simple' # <<>> /\ symbol' <= Len(simple') /\ symbol' = 0 BY <1>1, <1>2, <2>3, <2>4
  <2>6. Cap' \in Int /\ Cap' >= 1
    <3>1. Cap' = 2 * Len(simple') - 1 BY <2>5 DEF Cap
    <3> QED BY <2>3, <2>4, <3>1
  <2>7. Done' = {}
    <3>1. Done' = Simples(0)' BY <2>5 DEF Done, Simples
    <3>2. 1..0 = {} OBVIOUS
    <3> QED BY <3>1, <3>2 DEF Simples
  <2>8. PICK m, path : /\ Tree(NoTree, m, path, {}, All', Cap')
                       /\ Table([e \in Strings(LutSize) |-> Hole], m, path, {})
                       /\ Reached([e \in Strings(LutSize) |-> Hole], {})
    BY <2>6, EmptyTree
  <2>9. Partial(m, path)' BY <1>1, <1>2, <2>7, <2>8 DEF Partial
  <2> QED BY <2>5, <2>9
<1>6. Phases'
  <2>1. CASE pc' = "simple"
    <3>1. 1..symbol' = {} BY <1>5, <2>1
    <3> QED BY <1>1, <1>2, <1>5, <2>1, <3>1 DEF Phases, Reading
  <2>2. CASE pc' = "lengths"
    <3>1. simple' = <<>> BY <1>1, <1>3, <2>2
    <3> QED BY <1>1, <1>2, <2>2, <3>1 DEF Phases, Reading
  <2>3. CASE pc' = "refused" BY <1>1, <1>2, <2>3 DEF Phases, Reading
  <2> QED BY <1>3, <2>1, <2>2, <2>3
<1> QED BY <1>4, <1>6 DEF HuffmanInvariant

(* The code lengths touch nothing else. *)
LEMMA LengthsHold ==
  ASSUME HuffmanInvariant, pc = "lengths", pc' \in {"lengths", "refused"},
         lens' \in [Symbols -> 0..MaxLen], symbol' \in 0..N, prev' \in 1..MaxLen, left' \in 0..N,
         simple' = simple, nodes' = nodes, lut' = lut, n' = n, bits' = bits, taken' = taken
  PROVE  HuffmanInvariant'
<1>1. simple = <<>> /\ n = 0 /\ nodes = NoTree /\ lut = [e \in Strings(LutSize) |-> Hole]
  BY DEF HuffmanInvariant, Phases
<1>2. Base' BY DEF HuffmanInvariant, Base, LensOK
<1>3. Phases' BY <1>1 DEF Phases, Reading
<1> QED BY <1>2, <1>3 DEF HuffmanInvariant

LEMMA ReadLengthHolds ==
  ASSUME HuffmanInvariant, ReadLength
  PROVE  HuffmanInvariant'
<1>1. /\ pc = "lengths" /\ symbol < N /\ left > 0 BY DEF ReadLength, Reads
<1>2. PICK cl \in 0..MaxLen : /\ lens' = [lens EXCEPT ![symbol] = cl]
                              /\ prev' = IF cl # 0 THEN cl ELSE prev
  BY DEF ReadLength
<1>3. /\ symbol' = symbol + 1 /\ left' = left - 1
      /\ pc' = pc /\ simple' = simple /\ nodes' = nodes /\ lut' = lut
      /\ n' = n /\ bits' = bits /\ taken' = taken
  BY DEF ReadLength, nextVars
<1>4. /\ lens \in [Symbols -> 0..MaxLen] /\ symbol \in 0..N /\ prev \in 1..MaxLen /\ left \in 0..N
  BY DEF HuffmanInvariant, Base, LensOK
<1>5. lens' \in [Symbols -> 0..MaxLen] BY <1>2, <1>4
<1>6. symbol' \in 0..N /\ left' \in 0..N BY <1>1, <1>3, <1>4, BoundsAre
<1>7. prev' \in 1..MaxLen BY <1>2, <1>4, BoundsAre
<1> QED BY <1>1, <1>3, <1>5, <1>6, <1>7, LengthsHold

LEMMA ReadRepeatHolds ==
  ASSUME HuffmanInvariant, ReadRepeat
  PROVE  HuffmanInvariant'
<1>1. /\ pc = "lengths" /\ symbol < N /\ left > 0 BY DEF ReadRepeat, Reads
<1>2. PICK r \in Repeats :
        IF symbol + r[2] > N
        THEN pc' = "refused" /\ UNCHANGED <<lens, symbol>>
        ELSE /\ lens' = [s \in Symbols |->
                           IF s \in symbol..symbol + r[2] - 1
                           THEN IF r[1] = 16 THEN prev ELSE 0 ELSE lens[s]]
             /\ symbol' = symbol + r[2]
             /\ UNCHANGED pc
  BY DEF ReadRepeat
<1>3. /\ left' = left - 1 /\ prev' = prev
      /\ simple' = simple /\ nodes' = nodes /\ lut' = lut
      /\ n' = n /\ bits' = bits /\ taken' = taken
  BY DEF ReadRepeat, nextVars
<1>4. /\ lens \in [Symbols -> 0..MaxLen] /\ symbol \in 0..N /\ prev \in 1..MaxLen /\ left \in 0..N
  BY DEF HuffmanInvariant, Base, LensOK
<1>5. r[2] \in Nat BY DEF Repeats
<1>6. left' \in 0..N BY <1>1, <1>3, <1>4, BoundsAre
<1>7. CASE symbol + r[2] > N
  BY <1>1, <1>2, <1>3, <1>4, <1>6, <1>7, LengthsHold
<1>8. CASE ~(symbol + r[2] > N)
  <2>1. symbol' \in 0..N BY <1>2, <1>4, <1>5, <1>8, BoundsAre
  <2>2. lens' \in [Symbols -> 0..MaxLen]
    <3>1. prev \in 0..MaxLen /\ 0 \in 0..MaxLen BY <1>4, BoundsAre
    <3>2. \A s \in Symbols : lens[s] \in 0..MaxLen BY <1>4
    <3> QED BY <1>2, <1>8, <3>1, <3>2
  <2>3. pc' = pc BY <1>2, <1>8
  <2> QED BY <1>1, <1>3, <1>4, <1>6, <2>1, <2>2, <2>3, LengthsHold
<1> QED BY <1>7, <1>8

LEMMA EndLengthsHolds ==
  ASSUME HuffmanInvariant, EndLengths
  PROVE  HuffmanInvariant'
<1>1. /\ pc = "lengths" /\ simple = <<>> /\ n = 0 /\ nodes = NoTree
      /\ lut = [e \in Strings(LutSize) |-> Hole] /\ LensOK
  BY DEF HuffmanInvariant, Phases, Base, EndLengths
<1>2. /\ pc' = (IF Used = {} THEN "bad" ELSE "insert") /\ symbol' = 0
      /\ simple' = simple /\ lens' = lens /\ prev' = prev /\ left' = left
      /\ nodes' = nodes /\ lut' = lut /\ n' = n /\ bits' = bits /\ taken' = taken
  BY DEF EndLengths, treeVars, readVars, nextVars
<1>3. Base'
  <2>1. symbol' \in 0..N /\ LensOK' /\ pc' \in {"bad", "insert"} BY <1>1, <1>2, BoundsAre, TreeKept
  <2> QED BY <1>2, <2>1 DEF HuffmanInvariant, Base
<1>4. CASE Used = {}
  <2>1. ~Alone /\ Share # Two[MaxLen]
    <3>1. Cardinality({}) = 0 BY FS_EmptySet
    <3>2. Extended(MaxLen, {}) = {} BY DEF Extended
    <3>3. Share = 0 BY <1>4, <3>1, <3>2 DEF Share
    <3>4. Two[MaxLen] > 0 /\ Two[MaxLen] \in Nat BY BoundsAre, TwoType
    <3> QED BY <1>4, <3>1, <3>3, <3>4 DEF Alone
  <2>2. ~Alone' /\ Share' # Two[MaxLen] BY <1>2, <2>1, TreeKept
  <2>3. Phases' BY <1>1, <1>2, <1>4, <2>2 DEF Phases, Reading
  <2> QED BY <1>3, <2>3 DEF HuffmanInvariant
<1>5. CASE Used # {}
  <2>1. Cap' \in Int /\ Cap' >= 1
    <3>1. Cap' = Cap BY <1>2, TreeKept
    <3>2. Cap = 2 * Cardinality(Used) - 1 BY <1>1 DEF Cap, CodedCap
    <3>3. IsFiniteSet(Used) /\ Cardinality(Used) \in Nat BY <1>1, UsedFinite
    <3>4. Cardinality(Used) # 0 BY <1>5, <3>3, FS_EmptySet
    <3> QED BY <3>1, <3>2, <3>3, <3>4
  <2>2. Done' = {}
    <3>1. Done' = CodedTo(0)' BY <1>1, <1>2 DEF Done, CodedTo
    <3>2. CodedTo(0)' = CodedTo(0) BY <1>2, CodesKept
    <3>3. \A u \in Used : u \in Symbols BY <1>1, UsedAre
    <3>4. {u \in Used : u < 0} = {} BY <3>3, BoundsAre
    <3> QED BY <3>1, <3>2, <3>4 DEF CodedTo
  <2>3. PICK m, path : /\ Tree(NoTree, m, path, {}, All', Cap')
                       /\ Table([e \in Strings(LutSize) |-> Hole], m, path, {})
                       /\ Reached([e \in Strings(LutSize) |-> Hole], {})
    BY <2>1, EmptyTree
  <2>4. Partial(m, path)' BY <1>1, <1>2, <2>2, <2>3 DEF Partial
  <2>5. Phases' BY <1>1, <1>2, <1>5, <2>4 DEF Phases, Reading
  <2> QED BY <1>3, <2>5 DEF HuffmanInvariant
<1> QED BY <1>4, <1>5

(* An insertion, in terms of the codes that are in the tree. *)
LEMMA InsertKeeps ==
  ASSUME NEW s \in Symbols, NEW code \in Seq(Bit), NEW m, NEW path, Partial(m, path),
         Done \in SUBSET Pairs, OddNumber(Cap), <<s, code>> \in All, Insert(s, code, Cap)
  PROVE  \/ /\ pc' = "bad" /\ nodes' = nodes /\ lut' = lut /\ symbol' = symbol
            /\ Refused(code, Done, All, Cap)
         \/ /\ pc' = pc /\ symbol' = symbol + 1
            /\ \E m2, path2 : /\ Tree(nodes', m2, path2, Done \cup {<<s, code>>}, All, Cap)
                              /\ Table(lut', m2, path2, Done \cup {<<s, code>>})
                              /\ Reached(lut', Done \cup {<<s, code>>})
<1> DEFINE t == Walked(s, code, Cap)
           bad == ~t.ok \/ t.nodes[t.n].children \notin {0, Leaf}
<1>1. IF bad
      THEN pc' = "bad" /\ nodes' = nodes /\ lut' = lut /\ symbol' = symbol
      ELSE /\ nodes' = Closed(t.nodes, t.n, s) /\ lut' = t.lut
           /\ symbol' = symbol + 1 /\ pc' = pc
  BY DEF Insert, Closed
<1>2. /\ Tree(nodes, m, path, Done, All, Cap) /\ Table(lut, m, path, Done)
      /\ Reached(lut, Done)
  BY DEF Partial
<1>3. IF bad
      THEN Refused(code, Done, All, Cap)
      ELSE \E m2, path2 :
             /\ Tree(Closed(t.nodes, t.n, s), m2, path2, Done \cup {<<s, code>>}, All, Cap)
             /\ Table(t.lut, m2, path2, Done \cup {<<s, code>>})
             /\ Reached(t.lut, Done \cup {<<s, code>>})
  BY <1>2, InsertStep
<1>4. CASE bad BY <1>1, <1>3, <1>4
<1>5. CASE ~bad
  <2>1. /\ nodes' = Closed(t.nodes, t.n, s) /\ lut' = t.lut
        /\ symbol' = symbol + 1 /\ pc' = pc
    BY <1>1, <1>5
  <2>2. PICK m2, path2 :
             /\ Tree(Closed(t.nodes, t.n, s), m2, path2, Done \cup {<<s, code>>}, All, Cap)
             /\ Table(t.lut, m2, path2, Done \cup {<<s, code>>})
             /\ Reached(t.lut, Done \cup {<<s, code>>})
    BY <1>3, <1>5
  <2> HIDE DEF t
  <2>3. /\ Tree(nodes', m2, path2, Done \cup {<<s, code>>}, All, Cap)
        /\ Table(lut', m2, path2, Done \cup {<<s, code>>})
        /\ Reached(lut', Done \cup {<<s, code>>})
    BY <2>1, <2>2
  <2> QED BY <2>1, <2>3
<1> QED BY <1>4, <1>5

LEMMA TreeDomains ==
  ASSUME NEW nd, NEW lt, NEW m, NEW path, NEW done, NEW all, NEW cap,
         Tree(nd, m, path, done, all, cap), Table(lt, m, path, done)
  PROVE  /\ \E k \in Nat \ {0} : DOMAIN nd = 0..k - 1
         /\ DOMAIN lt = Strings(LutSize)
<1>1. Shape(nd, m, path) BY DEF Tree
<1>2. DOMAIN nd = 0..m - 1 /\ m \in Nat \ {0} BY <1>1 DEF Shape
<1>3. DOMAIN lt = Strings(LutSize) BY DEF Table
<1> QED BY <1>2, <1>3

\* what Build, BuildSimple and Built leave alone
Rest == simple' = simple /\ lens' = lens /\ prev' = prev /\ left' = left
          /\ n' = n /\ bits' = bits /\ taken' = taken

LEMMA InsertedHolds ==
  ASSUME HuffmanInvariant, pc \in {"insert", "simple"}, Rest, pc' = pc, symbol' \in 0..N,
         NEW m, NEW path, Tree(nodes', m, path, Done', All, Cap), Table(lut', m, path, Done'),
         Reached(lut', Done'),
         pc = "simple" => symbol' <= Len(simple) /\ \A i \in 1..symbol' : simple[i] \in Symbols
  PROVE  HuffmanInvariant'
<1>1. n = 0 /\ (pc = "insert" => simple = <<>>) /\ (pc = "simple" => simple # <<>>)
  BY DEF HuffmanInvariant, Phases
<1>2. Base'
  <2>1. 0 \in Symbols BY BoundsAre
  <2>2. LensOK' BY DEF HuffmanInvariant, Base, Rest, LensOK
  <2>3. /\ \E k \in Nat \ {0} : DOMAIN nodes' = 0..k - 1
        /\ DOMAIN lut' = Strings(LutSize)
    BY TreeDomains
  <2> QED BY <1>1, <2>1, <2>2, <2>3 DEF HuffmanInvariant, Base, Rest
<1>3. Partial(m, path)'
  <2>1. All' = All /\ Cap' = Cap BY TreeKept DEF Rest
  <2> QED BY <2>1 DEF Partial
<1>4. Phases' BY <1>1, <1>3 DEF Phases, Rest, Reading
<1> QED BY <1>2, <1>4 DEF HuffmanInvariant

LEMMA FailedHolds ==
  ASSUME HuffmanInvariant, pc \in {"insert", "simple"}, Rest, pc' = "bad",
         symbol' = symbol, nodes' = nodes, lut' = lut,
         pc = "insert" => ~Alone /\ Share # Two[MaxLen]
  PROVE  HuffmanInvariant'
<1>1. n = 0 /\ (pc = "insert" => simple = <<>>) /\ (pc = "simple" => simple # <<>>)
  BY DEF HuffmanInvariant, Phases
<1>2. Base'
  <2>1. LensOK' BY DEF HuffmanInvariant, Base, Rest, LensOK
  <2> QED BY <2>1 DEF HuffmanInvariant, Base, Rest
<1>3. Alone' = Alone /\ Share' = Share BY TreeKept DEF Rest
<1>4. Phases' BY <1>1, <1>3 DEF Phases, Rest, Reading
<1> QED BY <1>2, <1>4 DEF HuffmanInvariant

LEMMA BuildHolds ==
  ASSUME HuffmanInvariant, Build
  PROVE  HuffmanInvariant'
<1>1. /\ pc = "insert" /\ simple = <<>> /\ LensOK /\ symbol \in 0..N /\ symbol < N
  BY DEF HuffmanInvariant, Phases, Base, Build
<1>2. Rest BY DEF Rest, Build, treeVars, readVars, nextVars
<1>3. PICK m, path : Partial(m, path) BY <1>1 DEF HuffmanInvariant, Phases
<1>4. /\ Done = CodedTo(symbol) /\ All = Coded /\ Cap = CodedCap
      /\ Done' = CodedTo(symbol')
  <2>1. Done' = CodedTo(symbol)' BY <1>1, <1>2 DEF Done, Rest
  <2>2. CodedTo(symbol)' = {<<s, CodeOf(s)>> : s \in {u \in Used : u < symbol'}}
    <3>1. CodedTo(symbol)' = {<<s, CodeOf(s)'>> : s \in {u \in Used' : u < symbol'}} BY DEF CodedTo
    <3>2. Used' = Used /\ Alone' = Alone BY <1>2, CodesKept DEF Rest
    <3>3. \A s : Canonical(s)' = Canonical(s)
      BY <1>2, <3>2 DEF Canonical, Extended, Before, Rest
    <3>4. \A s : CodeOf(s)' = CodeOf(s) BY <3>2, <3>3 DEF CodeOf
    <3> QED BY <3>1, <3>2, <3>4
  <2> QED BY <1>1, <2>1, <2>2 DEF Done, All, Cap, CodedTo
<1>5. symbol + 1 \in 0..N /\ symbol \in Symbols BY <1>1, BoundsAre
<1>6. \A u \in Used : u \in Int BY <1>1, UsedAre, BoundsAre
<1>7. CASE symbol \notin Used
  <2>1. symbol' = symbol + 1 /\ pc' = pc /\ nodes' = nodes /\ lut' = lut BY <1>7 DEF Build
  <2>2. {u \in Used : u < symbol + 1} = {u \in Used : u < symbol} BY <1>1, <1>6, <1>7
  <2>3. Done' = Done BY <1>4, <2>1, <2>2 DEF CodedTo
  <2>4. /\ Tree(nodes', m, path, Done', All, Cap) /\ Table(lut', m, path, Done')
        /\ Reached(lut', Done')
    BY <1>3, <2>1, <2>3 DEF Partial
  <2> QED BY <1>1, <1>2, <1>5, <2>1, <2>4, InsertedHolds
<1>8. CASE symbol \in Used
  <2> DEFINE code == CodeOf(symbol)
  <2>1. Insert(symbol, code, Cap)
    <3>1. Insert(symbol, IF Alone THEN <<>> ELSE CodeBits(Code(symbol), lens[symbol]), Cap)
      BY <1>4, <1>8 DEF Build, Alone, CodedCap
    <3>2. CodeBits(Code(symbol), lens[symbol]) = Canonical(symbol) BY <1>1, <1>8, CodeIsCanonical
    <3> QED BY <3>1, <3>2 DEF CodeOf
  <2>2. code \in Seq(Bit) BY <1>1, <1>8, CodeOfType
  <2>3. <<symbol, code>> \in All BY <1>4, <1>8 DEF Coded
  <2>4. Done \in SUBSET Coded /\ Done \in SUBSET Pairs
    <3>1. Done \in SUBSET Coded BY <1>4 DEF CodedTo, Coded
    <3> QED BY <1>1, <3>1, CodedAre
  <2>5. OddNumber(Cap)
    <3>1. Cardinality(Used) \in Nat BY <1>1, UsedFinite
    <3> QED BY <1>4, <3>1 DEF OddNumber, CodedCap
  <2> HIDE DEF code
  <2>6. \/ /\ pc' = "bad" /\ nodes' = nodes /\ lut' = lut /\ symbol' = symbol
           /\ Refused(code, Done, All, Cap)
        \/ /\ pc' = pc /\ symbol' = symbol + 1
           /\ \E m2, path2 : /\ Tree(nodes', m2, path2, Done \cup {<<symbol, code>>}, All, Cap)
                             /\ Table(lut', m2, path2, Done \cup {<<symbol, code>>})
                             /\ Reached(lut', Done \cup {<<symbol, code>>})
    BY <1>3, <1>5, <2>1, <2>2, <2>3, <2>4, <2>5, InsertKeeps
  <2>7. CASE /\ pc' = "bad" /\ nodes' = nodes /\ lut' = lut /\ symbol' = symbol
             /\ Refused(code, Done, All, Cap)
    <3>1. Refused(CodeOf(symbol), Done, Coded, CodedCap) BY <1>4, <2>7 DEF code
    <3>2. ~Alone /\ Share # Two[MaxLen] BY <1>1, <1>8, <2>4, <3>1, NotRefused
    <3> QED BY <1>1, <1>2, <2>7, <3>2, FailedHolds
  <2>8. CASE /\ pc' = pc /\ symbol' = symbol + 1
             /\ \E m2, path2 : /\ Tree(nodes', m2, path2, Done \cup {<<symbol, code>>}, All, Cap)
                               /\ Table(lut', m2, path2, Done \cup {<<symbol, code>>})
                               /\ Reached(lut', Done \cup {<<symbol, code>>})
    <3>1. {u \in Used : u < symbol + 1} = {u \in Used : u < symbol} \cup {symbol}
      <4>1. symbol \in Int BY <1>1, BoundsAre
      <4>2. \A u \in Used : u < symbol + 1 <=> u < symbol \/ u = symbol BY <1>6, <4>1
      <4>3. symbol < symbol + 1 BY <4>1
      <4> QED BY <1>8, <4>2, <4>3
    <3>2. CodedTo(symbol + 1) = CodedTo(symbol) \cup {<<symbol, CodeOf(symbol)>>}
      BY <3>1 DEF CodedTo
    <3>3. Done' = Done \cup {<<symbol, code>>} BY <1>4, <2>8, <3>2 DEF code
    <3>4. PICK m2, path2 : /\ Tree(nodes', m2, path2, Done', All, Cap)
                           /\ Table(lut', m2, path2, Done') /\ Reached(lut', Done')
      BY <2>8, <3>3
    <3> QED BY <1>1, <1>2, <1>5, <2>8, <3>4, InsertedHolds
  <2> QED BY <2>6, <2>7, <2>8
<1> QED BY <1>7, <1>8

LEMMA SimpleCode ==
  ASSUME simple \in UNION {[1..k -> 0..N] : k \in 0..2}, simple # <<>>, NEW i \in 1..Len(simple)
  PROVE  /\ CodeBits(i - 1, Len(simple) - 1) \in Seq(Bit)
         /\ Len(CodeBits(i - 1, Len(simple) - 1)) = Len(simple) - 1
<1>1. Len(simple) - 1 \in Nat /\ i - 1 \in Nat BY SimpleIs
<1>2. CodeBits(i - 1, Len(simple) - 1) \in Strings(Len(simple) - 1) BY <1>1, BitsType
<1> QED BY <1>1, <1>2, StringsAre

LEMMA BuildSimpleHolds ==
  ASSUME HuffmanInvariant, BuildSimple
  PROVE  HuffmanInvariant'
<1>1. /\ pc = "simple" /\ simple # <<>> /\ symbol \in 0..N /\ symbol < Len(simple)
      /\ simple \in UNION {[1..k -> 0..N] : k \in 0..2}
      /\ \A i \in 1..symbol : simple[i] \in Symbols
  BY DEF HuffmanInvariant, Phases, Base, BuildSimple
<1>2. Rest BY DEF Rest, BuildSimple, treeVars, readVars, nextVars
<1>3. PICK m, path : Partial(m, path) BY <1>1 DEF HuffmanInvariant, Phases
<1> DEFINE k == Len(simple)
<1>4. k \in 1..2 /\ symbol \in Nat /\ symbol < k BY <1>1, SimpleIs
<1>5. CASE simple[symbol + 1] \notin Symbols
  <2>1. pc' = "bad" /\ symbol' = symbol /\ nodes' = nodes /\ lut' = lut BY <1>5 DEF BuildSimple
  <2> QED BY <1>1, <1>2, <2>1, FailedHolds
<1>6. CASE simple[symbol + 1] \in Symbols
  <2> DEFINE s == simple[symbol + 1]
             code == CodeBits(symbol, Len(simple) - 1)
  <2>0. (symbol + 1) - 1 = symbol /\ symbol + 1 \in 1..Len(simple)
    <3> HIDE DEF k
    <3>1. (symbol + 1) - 1 = symbol /\ symbol + 1 \in 1..k BY <1>4
    <3> QED BY <3>1 DEF k
  <2>1. Done = Simples(symbol) /\ All = Simples(Len(simple)) /\ Cap = 2 * Len(simple) - 1
    BY <1>1 DEF Done, All, Cap
  <2>2. Insert(s, code, Cap) BY <1>6, <2>1 DEF BuildSimple
  <2>3. code \in Seq(Bit) BY <1>1, <2>0, SimpleCode
  <2>4. <<s, code>> \in All
    <3>1. <<simple[symbol + 1], CodeBits((symbol + 1) - 1, Len(simple) - 1)>> \in All
      <4> DEFINE f(i) == <<simple[i], CodeBits(i - 1, Len(simple) - 1)>>
      <4>1. All = {f(i) : i \in 1..Len(simple)} BY <2>1 DEF Simples
      <4> HIDE DEF f
      <4>2. f(symbol + 1) \in All BY <2>0, <4>1
      <4> QED BY <4>2 DEF f
    <3> QED BY <2>0, <3>1
  <2>5. Done \in SUBSET Pairs
    <3>1. ASSUME NEW i \in 1..symbol
          PROVE  <<simple[i], CodeBits(i - 1, Len(simple) - 1)>> \in Pairs
      <4>1. i \in 1..Len(simple) BY <1>1, <1>4
      <4> QED BY <1>1, <4>1, SimpleCode DEF Pairs
    <3> QED BY <2>1, <3>1 DEF Simples
  <2>6. OddNumber(Cap) BY <1>4, <2>1 DEF OddNumber
  <2> HIDE DEF s, code
  <2>7. s \in Symbols BY <1>6 DEF s
  <2>8. \/ pc' = "bad" /\ nodes' = nodes /\ lut' = lut /\ symbol' = symbol
        \/ /\ pc' = pc /\ symbol' = symbol + 1
           /\ \E m2, path2 : /\ Tree(nodes', m2, path2, Done \cup {<<s, code>>}, All, Cap)
                             /\ Table(lut', m2, path2, Done \cup {<<s, code>>})
                             /\ Reached(lut', Done \cup {<<s, code>>})
    BY <1>3, <2>2, <2>3, <2>4, <2>5, <2>6, <2>7, InsertKeeps
  <2>9. CASE pc' = "bad" /\ nodes' = nodes /\ lut' = lut /\ symbol' = symbol
    BY <1>1, <1>2, <2>9, FailedHolds
  <2>10. CASE /\ pc' = pc /\ symbol' = symbol + 1
              /\ \E m2, path2 : /\ Tree(nodes', m2, path2, Done \cup {<<s, code>>}, All, Cap)
                                /\ Table(lut', m2, path2, Done \cup {<<s, code>>})
                                /\ Reached(lut', Done \cup {<<s, code>>})
    <3>1. Done' = Done \cup {<<s, code>>}
      <4>1. Done' = {<<simple[i], CodeBits(i - 1, Len(simple) - 1)>> : i \in 1..symbol + 1}
        BY <1>1, <1>2, <2>10 DEF Done, Rest, Simples
      <4>2. 1..symbol + 1 = 1..symbol \cup {symbol + 1} BY <1>4
      <4> DEFINE f(i) == <<simple[i], CodeBits(i - 1, Len(simple) - 1)>>
      <4>3. f(symbol + 1) = <<s, code>>
        <5>1. f(symbol + 1) = <<simple[symbol + 1], CodeBits((symbol + 1) - 1, Len(simple) - 1)>>
          OBVIOUS
        <5> QED BY <2>0, <5>1 DEF s, code
      <4>4. Done' = {f(i) : i \in 1..symbol + 1} /\ Done = {f(i) : i \in 1..symbol}
        BY <2>1, <4>1 DEF Simples
      <4> HIDE DEF f
      <4> QED BY <4>2, <4>3, <4>4
    <3>2. PICK m2, path2 : /\ Tree(nodes', m2, path2, Done', All, Cap)
                           /\ Table(lut', m2, path2, Done') /\ Reached(lut', Done')
      BY <2>10, <3>1
    <3>3. symbol' \in 0..N /\ symbol' <= Len(simple)
      <4>1. symbol' = symbol + 1 BY <2>10
      <4> HIDE DEF k
      <4>2. symbol' \in 0..N /\ symbol' <= k BY <1>4, <4>1, BoundsAre
      <4> QED BY <4>2 DEF k
    <3>4. ASSUME NEW i \in 1..symbol' PROVE simple[i] \in Symbols
      <4>1. i \in 1..symbol \/ i = symbol + 1 BY <1>4, <2>10
      <4> QED BY <1>1, <1>6, <4>1
    <3> QED BY <1>1, <1>2, <2>10, <3>2, <3>3, <3>4, InsertedHolds
  <2> QED BY <2>8, <2>9, <2>10
<1> QED BY <1>5, <1>6

(* The codes of a simple tree are one for each of its symbols. *)
LEMMA SimplesAre ==
  ASSUME simple \in UNION {[1..k -> 0..N] : k \in 0..2}, simple # <<>>
  PROVE  /\ IsFiniteSet(Simples(Len(simple))) /\ Cardinality(Simples(Len(simple))) = Len(simple)
         /\ \A d, e \in Simples(Len(simple)) : d[2] = e[2] => d = e
<1> DEFINE all == Simples(Len(simple))
           bits0 == CodeBits(0, 1)
           bits1 == CodeBits(1, 1)
<1>1. Len(simple) \in 1..2 BY SimpleIs
<1>2. CASE Len(simple) = 1
  <2>1. 1..1 = {1} OBVIOUS
  <2>2. all = {<<simple[1], CodeBits(1 - 1, 1 - 1)>>} BY <1>2, <2>1 DEF Simples
  <2>3. IsFiniteSet(all) /\ Cardinality(all) = 1
    <3> DEFINE x == <<simple[1], CodeBits(1 - 1, 1 - 1)>>
    <3>1. all = {x} BY <2>2
    <3> HIDE DEF x, all
    <3> QED BY <3>1, FS_Singleton
  <2>4. \A d, e \in all : d[2] = e[2] => d = e BY <2>2
  <2> QED BY <1>2, <2>3, <2>4
<1>3. CASE Len(simple) = 2
  <2>1. 1..2 = {1, 2} /\ 1 - 1 = 0 /\ 2 - 1 = 1 OBVIOUS
  <2>2. all = {<<simple[1], bits0>>} \cup {<<simple[2], bits1>>} BY <1>3, <2>1 DEF Simples
  <2>3. Two[1] = 2
    <3>1. Two[0 + 1] = 2 * Two[0] /\ Two[0] = 1 BY TwoNext
    <3> QED BY <3>1
  <2>4. bits0 # bits1
    <3>1. 0 \in 0..Two[1] - 1 /\ 1 \in 0..Two[1] - 1 /\ 1 \in Nat BY <2>3
    <3>2. bits0 = bits1 => 0 = 1 BY <3>1, BitsInjective
    <3> QED BY <3>2
  <2> HIDE DEF bits0, bits1, all
  <2>5. <<simple[2], bits1>> \notin {<<simple[1], bits0>>} BY <2>4
  <2>6. IsFiniteSet({<<simple[1], bits0>>}) /\ Cardinality({<<simple[1], bits0>>}) = 1
    BY FS_Singleton
  <2>7. IsFiniteSet(all) /\ Cardinality(all) = 2
    <3> DEFINE S == {<<simple[1], bits0>>}
               x == <<simple[2], bits1>>
    <3>1. IsFiniteSet(S) /\ Cardinality(S) = 1 /\ x \notin S /\ all = S \cup {x}
      BY <2>2, <2>5, <2>6
    <3> HIDE DEF S, x
    <3>2. IsFiniteSet(S \cup {x}) /\ Cardinality(S \cup {x}) = 1 + 1 BY <3>1, FS_AddElement
    <3> QED BY <3>1, <3>2
  <2>8. \A d, e \in all : d[2] = e[2] => d = e BY <2>2, <2>4
  <2> QED BY <1>3, <2>7, <2>8 DEF all
<1> QED BY <1>1, <1>2, <1>3

LEMMA BuiltHolds ==
  ASSUME HuffmanInvariant, Built
  PROVE  HuffmanInvariant'
<1>1. /\ pc' = "idle" /\ symbol' = symbol /\ nodes' = nodes /\ lut' = lut
      /\ simple' = simple /\ lens' = lens
      /\ n' = n /\ bits' = bits /\ taken' = taken /\ prev' = prev /\ left' = left
  BY DEF Built, treeVars, readVars, nextVars
<1>2. /\ LensOK /\ simple \in UNION {[1..k -> 0..N] : k \in 0..2}
      /\ \/ pc = "insert" /\ simple = <<>> /\ symbol = N
         \/ /\ pc = "simple" /\ simple # <<>> /\ symbol = Len(simple)
            /\ \A i \in 1..symbol : simple[i] \in Symbols
  BY DEF HuffmanInvariant, Phases, Base, Built
<1>3. PICK m, path : Partial(m, path) BY <1>2 DEF HuffmanInvariant, Phases
<1>4. Base'
  <2>1. LensOK' BY <1>1, <1>2, TreeKept
  <2> QED BY <1>1, <2>1 DEF HuffmanInvariant, Base
<1>5. Complete(m, path)
  <2>1. CASE simple = <<>>
    <3>1. All = Coded /\ Cap = CodedCap BY <2>1 DEF All, Cap
    <3>2. Done = All
      <4>1. Done = CodedTo(N) BY <1>2, <2>1 DEF Done
      <4>2. \A u \in Used : u \in 0..N - 1 BY <1>2, UsedAre, BoundsAre
      <4>3. \A u \in Used : u < N BY <4>2, BoundsAre
      <4>4. {u \in Used : u < N} = Used BY <4>3
      <4> QED BY <3>1, <4>1, <4>4 DEF CodedTo, Coded
    <3>3. /\ Tree(nodes, m, path, All, All, Cap) /\ Table(lut, m, path, All)
          /\ Reached(lut, All)
      BY <1>3, <3>2 DEF Partial
    <3>4. \A x \in Ends(nodes) : nodes[x].children = Leaf
      BY <1>2, <3>1, <3>3, CodedLeaves
    <3>5. ASSUME NEW d \in All PROVE Len(d[2]) <= MaxLen
      <4>1. d[1] \in Used /\ d[2] = CodeOf(d[1]) BY <1>2, <3>1, CodedAre
      <4> QED BY <1>2, <4>1, CodeOfType
    <3>6. All \in SUBSET Pairs BY <1>2, <3>1, CodedAre
    <3> QED BY <3>3, <3>4, <3>5, <3>6 DEF Complete
  <2>2. CASE simple # <<>>
    <3>1. /\ All = Simples(Len(simple)) /\ Cap = 2 * Len(simple) - 1 /\ Done = All
      BY <1>2, <2>2 DEF All, Cap, Done
    <3>2. /\ Tree(nodes, m, path, All, All, Cap) /\ Table(lut, m, path, All)
          /\ Reached(lut, All)
      BY <1>3, <3>1 DEF Partial
    <3>3. ASSUME NEW d \in All PROVE d \in Pairs /\ Len(d[2]) <= MaxLen
      <4>1. PICK i \in 1..Len(simple) : d = <<simple[i], CodeBits(i - 1, Len(simple) - 1)>>
        BY <3>1 DEF Simples
      <4>2. simple[i] \in Symbols BY <1>2, <2>2
      <4>3. CodeBits(i - 1, Len(simple) - 1) \in Seq(Bit)
            /\ Len(CodeBits(i - 1, Len(simple) - 1)) = Len(simple) - 1
        BY <1>2, <2>2, SimpleCode
      <4>4. Len(simple) \in 0..2 BY <1>2, SimpleIs
      <4> DEFINE c == CodeBits(i - 1, Len(simple) - 1)
                 k == Len(simple)
      <4>5. d = <<simple[i], c>> /\ c \in Seq(Bit) /\ Len(c) = k - 1 /\ k \in 0..2
        BY <4>1, <4>3, <4>4
      <4> HIDE DEF c, k
      <4>6. d \in Pairs /\ d[2] = c BY <4>2, <4>5 DEF Pairs
      <4>7. Len(c) <= MaxLen BY <4>5, BoundsAre
      <4> QED BY <4>6, <4>7
    <3>4. /\ IsFiniteSet(All) /\ Cap = 2 * Cardinality(All) - 1
          /\ \A d, e \in All : d[2] = e[2] => d = e
      BY <1>2, <2>2, <3>1, SimplesAre
    <3>5. All \in SUBSET Pairs BY <3>3
    <3>6. \A x \in Ends(nodes) : nodes[x].children = Leaf
      BY <3>2, <3>4, <3>5, AllLeaves
    <3> QED BY <3>2, <3>3, <3>5, <3>6 DEF Complete
  <2> QED BY <2>1, <2>2
<1>6. Complete(m, path)' BY <1>1, <1>5, BuiltKept
<1>7. Reader(m, path)' BY <1>1 DEF Reader
<1>8. Phases' BY <1>1, <1>6, <1>7 DEF Phases, Reading
<1> QED BY <1>4, <1>8 DEF HuffmanInvariant

(* What a step of next leaves alone: the tree and the phases before. *)
LEMMA ReadingHolds ==
  ASSUME HuffmanInvariant, built' = built, pc \in Reading, pc' \in Reading,
         n' \in DOMAIN nodes \cup Symbols,
         bits' \in Seq(Bit), Len(bits') < LutSize + ByteBits,
         taken' \in Seq(Bit), Len(taken') <= MaxLen,
         NEW m, NEW path, Complete(m, path), Reader(m, path)'
  PROVE  HuffmanInvariant'
<1>1. /\ simple' = simple /\ lens' = lens /\ symbol' = symbol /\ prev' = prev /\ left' = left
      /\ nodes' = nodes /\ lut' = lut
  BY DEF built
<1>2. Base'
  <2>1. LensOK' BY <1>1 DEF HuffmanInvariant, Base, LensOK
  <2>2. pc' \in {"idle", "lut", "walk", "got", "eof"} BY DEF Reading
  <2> QED BY <1>1, <2>1, <2>2 DEF HuffmanInvariant, Base
<1>3. Complete(m, path)' BY <1>1, BuiltKept
<1>4. Phases' BY <1>3 DEF Phases, Reading
<1> QED BY <1>2, <1>4 DEF HuffmanInvariant

LEMMA ReadingIs ==
  ASSUME HuffmanInvariant, pc \in Reading
  PROVE  /\ \E m, path : Complete(m, path) /\ Reader(m, path)
         /\ n \in DOMAIN nodes \cup Symbols
         /\ bits \in Seq(Bit) /\ Len(bits) \in Nat /\ Len(bits) < LutSize + ByteBits
         /\ taken \in Seq(Bit) /\ Len(taken) \in Nat /\ Len(taken) <= MaxLen
BY DEF HuffmanInvariant, Phases, Base

LEMMA FillHolds ==
  ASSUME HuffmanInvariant, Fill
  PROVE  HuffmanInvariant'
<1>1. pc \in Reading /\ pc' \in {"lut", "walk"} /\ n' = 0 /\ taken' = <<>> /\ built' = built
  BY DEF Fill, Reading
<1>2. PICK m, path : Complete(m, path) /\ Reader(m, path) BY <1>1, ReadingIs
<1>3. bits \in Seq(Bit) /\ Len(bits) \in Nat /\ Len(bits) < LutSize + ByteBits BY <1>1, ReadingIs
<1>4. /\ bits' \in Seq(Bit) /\ Len(bits') < LutSize + ByteBits
      /\ pc' = "lut" => Len(bits') >= LutSize
  <2>1. CASE Len(bits) >= LutSize /\ pc' = "lut" /\ bits' = bits BY <1>3, <2>1, BoundsAre
  <2>2. CASE Len(bits) < LutSize /\ pc' = "walk" /\ bits' = bits BY <1>3, <2>2, BoundsAre
  <2>3. CASE Len(bits) < LutSize /\ pc' = "lut" /\ \E b \in Strings(ByteBits) : bits' = bits \o b
    <3>1. PICK b \in Strings(ByteBits) : bits' = bits \o b BY <2>3
    <3>2. b \in Seq(Bit) /\ Len(b) = ByteBits BY BoundsAre, StringsAre
    <3>3. bits' \in Seq(Bit) /\ Len(bits') = Len(bits) + ByteBits BY <1>3, <3>1, <3>2, PrefixConcat
    <3> QED BY <1>3, <2>3, <3>3, BoundsAre
  <2> QED BY <2>1, <2>2, <2>3 DEF Fill
<1>5. Shape(nodes, m, path) /\ 0 \in 0..m - 1 /\ DOMAIN nodes = 0..m - 1 /\ path[0] = <<>>
  <2>1. Shape(nodes, m, path) BY <1>2, CompleteShape
  <2> QED BY <2>1, InnerAre, ShapeGives
<1>6. Reader(m, path)' BY <1>1, <1>4, <1>5 DEF Reader
<1>7. taken' \in Seq(Bit) /\ Len(taken') <= MaxLen BY <1>1, BoundsAre
<1>8. pc' \in Reading /\ n' \in DOMAIN nodes \cup Symbols BY <1>1, <1>5 DEF Reading
<1> QED BY <1>1, <1>2, <1>4, <1>6, <1>7, <1>8, ReadingHolds

(* Taking bits, when there are that many. *)
LEMMA Takes ==
  ASSUME bits \in Seq(Bit), Len(bits) < LutSize + ByteBits, taken \in Seq(Bit),
         NEW k \in Nat, k <= Len(bits), Take(k)
  PROVE  /\ SubSeq(bits, 1, k) \in Seq(Bit) /\ Len(SubSeq(bits, 1, k)) = k
         /\ bits' \in Seq(Bit) /\ Len(bits') < LutSize + ByteBits
         /\ taken' = taken \o SubSeq(bits, 1, k) /\ taken' \in Seq(Bit)
         /\ Len(taken') = Len(taken) + k
<1>1. Len(bits) \in Nat /\ Len(taken) \in Nat OBVIOUS
<1>2. SubSeq(bits, 1, k) \in Seq(Bit) /\ Len(SubSeq(bits, 1, k)) = k
  <2> DEFINE B == Bit
  <2>1. bits \in Seq(B) OBVIOUS
  <2> HIDE DEF B
  <2>2. SubSeq(bits, 1, k) \in Seq(B) /\ Len(SubSeq(bits, 1, k)) = k BY <1>1, <2>1
  <2> QED BY <2>2 DEF B
<1>3. bits' \in Seq(Bit) /\ Len(bits') = Len(bits) - k
  <2> DEFINE B == Bit
  <2>1. bits \in Seq(B) /\ bits' = SubSeq(bits, k + 1, Len(bits)) BY DEF Take
  <2> HIDE DEF B
  <2>2. bits' \in Seq(B) /\ Len(bits') = Len(bits) - k BY <1>1, <2>1
  <2> QED BY <2>2 DEF B
<1>4. taken' = taken \o SubSeq(bits, 1, k) BY DEF Take
<1>5. taken' \in Seq(Bit) /\ Len(taken') = Len(taken) + k BY <1>2, <1>4, PrefixConcat
<1> QED BY <1>1, <1>2, <1>3, <1>4, <1>5, BoundsAre

LEMMA LookUpHolds ==
  ASSUME HuffmanInvariant, LookUp
  PROVE  HuffmanInvariant'
<1>1. pc = "lut" /\ pc \in Reading /\ built' = built BY DEF LookUp, Reading
<1>2. PICK m, path : Complete(m, path) /\ Reader(m, path) BY <1>1, ReadingIs
<1>3. /\ bits \in Seq(Bit) /\ Len(bits) \in Nat /\ Len(bits) < LutSize + ByteBits
      /\ Len(bits) >= LutSize /\ taken = <<>>
  BY <1>1, <1>2, ReadingIs DEF Reader
<1> DEFINE top == SubSeq(bits, 1, LutSize)
           e == lut[top]
<1>4. /\ n' = e.val
      /\ IF e.len1 # 0 THEN Take(e.len1 - 1) /\ pc' = "got"
         ELSE Take(LutSize) /\ pc' = "walk"
  BY DEF LookUp
<1>5. top \in Strings(LutSize) /\ top \in Seq(Bit) /\ Len(top) = LutSize /\ IsPrefix(top, bits)
  BY <1>3, TopIs
<1>6. \/ /\ e.len1 # 0 /\ e.len1 - 1 \in 0..LutSize
         /\ <<e.val, SubSeq(top, 1, e.len1 - 1)>> \in All
      \/ e.len1 = 0 /\ e.val \in 0..m - 1 /\ path[e.val] = top
  BY <1>2, <1>5, TableRight
<1>7. /\ Shape(nodes, m, path) /\ DOMAIN nodes = 0..m - 1
      /\ \A j \in 0..m - 1 : Len(path[j]) <= MaxLen
      /\ \A d \in All : d \in Pairs /\ Len(d[2]) <= MaxLen
  BY <1>2, CompleteShape DEF Complete
<1>8. \A c \in Seq(Bit) : taken \o c = c BY <1>3
<1>9. CASE /\ e.len1 # 0 /\ e.len1 - 1 \in 0..LutSize
           /\ <<e.val, SubSeq(top, 1, e.len1 - 1)>> \in All
  <2> DEFINE k == e.len1 - 1
             d == <<e.val, SubSeq(top, 1, e.len1 - 1)>>
  <2>1. Take(k) /\ pc' = "got" BY <1>4, <1>9
  <2>2. k \in Nat /\ k <= LutSize /\ k <= Len(bits) BY <1>3, <1>9, BoundsAre
  <2>3. SubSeq(top, 1, k) = SubSeq(bits, 1, k)
    <3> HIDE DEF k, e
    <3> QED BY <1>3, <2>2, BoundsAre
  <2>4. d \in All /\ d[1] = e.val /\ d[2] = SubSeq(bits, 1, k) BY <1>9, <2>3
  <2> HIDE DEF k, d, e, top
  <2>5. /\ SubSeq(bits, 1, k) \in Seq(Bit)
        /\ bits' \in Seq(Bit) /\ Len(bits') < LutSize + ByteBits
        /\ taken' = taken \o SubSeq(bits, 1, k) /\ taken' \in Seq(Bit)
    BY <1>1, <1>3, <2>1, <2>2, Takes, ReadingIs
  <2>6. taken' = d[2] /\ n' = d[1] BY <1>4, <1>8, <2>4, <2>5
  <2>7. d = <<d[1], d[2]>> /\ d[1] \in Symbols /\ Len(d[2]) <= MaxLen BY <1>7, <2>4, PairIs
  <2>8. <<n', taken'>> \in All' /\ Len(taken') <= MaxLen /\ n' \in Symbols
    <3>1. All' = All BY <1>1, TreeKept DEF built
    <3> QED BY <2>4, <2>6, <2>7, <3>1
  <2>9. Reader(m, path)' BY <2>1, <2>8 DEF Reader
  <2> QED BY <1>1, <1>2, <2>1, <2>5, <2>8, <2>9, ReadingHolds DEF Reading
<1>10. CASE e.len1 = 0 /\ e.val \in 0..m - 1 /\ path[e.val] = top
  <2>1. Take(LutSize) /\ pc' = "walk" BY <1>4, <1>10
  <2> HIDE DEF e
  <2>2. /\ bits' \in Seq(Bit) /\ Len(bits') < LutSize + ByteBits
        /\ taken' = taken \o SubSeq(bits, 1, LutSize) /\ taken' \in Seq(Bit)
    BY <1>1, <1>3, <2>1, Takes, ReadingIs, BoundsAre
  <2>3. taken' = top BY <1>5, <1>8, <2>2
  <2>4. n' \in 0..m - 1 /\ path[n'] = taken' /\ Len(taken') <= MaxLen
    BY <1>4, <1>7, <1>10, <2>3
  <2>5. Reader(m, path)' BY <2>1, <2>4 DEF Reader
  <2> QED BY <1>1, <1>2, <1>7, <2>1, <2>2, <2>4, <2>5, ReadingHolds DEF Reading
<1> QED BY <1>6, <1>9, <1>10

LEMMA StepHolds ==
  ASSUME HuffmanInvariant, Step
  PROVE  HuffmanInvariant'
<1>1. /\ pc = "walk" /\ pc' = "walk" /\ pc \in Reading /\ built' = built
      /\ nodes[n].children # Leaf /\ bits # <<>> /\ n' = nodes[n].children + Head(bits)
      /\ Take(1)
  BY DEF Step, Reading
<1>2. PICK m, path : Complete(m, path) /\ Reader(m, path) BY <1>1, ReadingIs
<1>3. /\ bits \in Seq(Bit) /\ Len(bits) \in Nat /\ Len(bits) < LutSize + ByteBits
      /\ taken \in Seq(Bit) /\ Len(bits) > 0
  BY <1>1, ReadingIs
<1>4. n \in 0..m - 1 /\ path[n] = taken BY <1>1, <1>2 DEF Reader
<1>5. Shape(nodes, m, path) /\ DOMAIN nodes = 0..m - 1 /\ n \in Inner(nodes)
  BY <1>1, <1>2, <1>4, CompleteShape
<1>6. Head(bits) \in Bit /\ SubSeq(bits, 1, 1) = <<Head(bits)>>
  <2> DEFINE B == Bit
  <2>1. bits \in Seq(B) BY <1>3
  <2> HIDE DEF B
  <2>2. Head(bits) = bits[1] /\ bits[1] \in B BY <1>3, <2>1
  <2>3. SubSeq(bits, 1, 1) \in Seq(B) /\ Len(SubSeq(bits, 1, 1)) = 1 /\ SubSeq(bits, 1, 1)[1] = bits[1]
    BY <1>3, <2>1
  <2>4. <<bits[1]>> \in Seq(B) /\ Len(<<bits[1]>>) = 1 /\ <<bits[1]>>[1] = bits[1] BY <2>2
  <2>5. SubSeq(bits, 1, 1) = <<bits[1]>>
    <3> DEFINE a == SubSeq(bits, 1, 1)
               b == <<bits[1]>>
    <3>1. a \in Seq(B) /\ b \in Seq(B) /\ Len(a) = 1 /\ Len(b) = 1 /\ a[1] = b[1]
      BY <2>3, <2>4
    <3> HIDE DEF a, b
    <3>2. \A i \in 1..Len(a) : a[i] = b[i] BY <3>1
    <3>3. a = b BY <3>1, <3>2, SeqEqual
    <3> QED BY <3>3 DEF a, b
  <2> QED BY <2>2, <2>5 DEF B
<1>7. n' \in 0..m - 1 /\ path[n'] = Append(taken, Head(bits))
  <2> DEFINE b == Head(bits)
  <2>1. n' = Child(nodes, n, b) /\ b \in Bit BY <1>1, <1>6 DEF Child
  <2> HIDE DEF b
  <2>2. Child(nodes, n, b) \in 0..m - 1 /\ path[Child(nodes, n, b)] = Append(path[n], b)
    BY <1>5, <2>1, ShapeGives
  <2> QED BY <1>4, <2>1, <2>2 DEF b
<1>8. /\ bits' \in Seq(Bit) /\ Len(bits') < LutSize + ByteBits
      /\ taken' = taken \o SubSeq(bits, 1, 1) /\ taken' \in Seq(Bit)
  <2>1. 1 \in Nat /\ 1 <= Len(bits) BY <1>3
  <2> QED BY <1>1, <1>3, <2>1, Takes
<1>9. taken' = path[n']
  <2>1. taken \o <<Head(bits)>> = Append(taken, Head(bits)) BY <1>3, <1>6
  <2> QED BY <1>6, <1>7, <1>8, <2>1
<1>10. Len(taken') <= MaxLen BY <1>2, <1>7, <1>9, CompleteShape
<1>11. Reader(m, path)' BY <1>1, <1>7, <1>9 DEF Reader
<1> QED BY <1>1, <1>2, <1>5, <1>7, <1>8, <1>10, <1>11, ReadingHolds DEF Reading

LEMMA MoreHolds ==
  ASSUME HuffmanInvariant, More
  PROVE  HuffmanInvariant'
<1>1. /\ pc = "walk" /\ pc \in Reading /\ pc' \in {"walk", "eof"} /\ built' = built
      /\ nodes[n].children # Leaf /\ n' = n /\ taken' = taken
      /\ bits' \in Strings(ByteBits) \/ bits' = bits
  BY DEF More, Reading
<1>2. PICK m, path : Complete(m, path) /\ Reader(m, path) BY <1>1, ReadingIs
<1>3. n \in 0..m - 1 /\ path[n] = taken BY <1>1, <1>2 DEF Reader
<1>4. bits' \in Seq(Bit) /\ Len(bits') < LutSize + ByteBits
  <2>1. CASE bits' \in Strings(ByteBits)
    <3>1. bits' \in Seq(Bit) /\ Len(bits') = ByteBits BY <2>1, BoundsAre, StringsAre
    <3> QED BY <3>1, BoundsAre
  <2>2. CASE bits' = bits BY <1>1, <2>2, ReadingIs
  <2> QED BY <1>1, <2>1, <2>2
<1>5. Reader(m, path)'
  <2>1. nodes' = nodes BY <1>1 DEF built
  <2> QED BY <1>1, <1>3, <2>1 DEF Reader
<1>6. n' \in DOMAIN nodes \cup Symbols /\ taken' \in Seq(Bit) /\ Len(taken') <= MaxLen
  BY <1>1, ReadingIs
<1> QED BY <1>1, <1>2, <1>4, <1>5, <1>6, ReadingHolds DEF Reading

LEMMA ArriveHolds ==
  ASSUME HuffmanInvariant, Arrive
  PROVE  HuffmanInvariant'
<1>1. /\ pc = "walk" /\ pc \in Reading /\ pc' = "got" /\ built' = built
      /\ nodes[n].children = Leaf /\ n' = nodes[n].symbol /\ taken' = taken /\ bits' = bits
  BY DEF Arrive, Reading
<1>2. PICK m, path : Complete(m, path) /\ Reader(m, path) BY <1>1, ReadingIs
<1>3. n \in 0..m - 1 /\ path[n] = taken BY <1>1, <1>2 DEF Reader
<1>4. <<n', taken'>> \in All
  <2>1. <<nodes[n].symbol, path[n]>> \in All BY <1>1, <1>2, <1>3 DEF Complete, Tree
  <2> QED BY <1>1, <1>3, <2>1
<1>5. n' \in Symbols
  <2> DEFINE d == <<n', taken'>>
  <2>1. d \in Pairs BY <1>2, <1>4 DEF Complete
  <2> QED BY <2>1 DEF Pairs
<1>6. Reader(m, path)'
  <2>1. All' = All BY <1>1, TreeKept DEF built
  <2> QED BY <1>1, <1>4, <2>1 DEF Reader
<1>7. /\ bits' \in Seq(Bit) /\ Len(bits') < LutSize + ByteBits
      /\ taken' \in Seq(Bit) /\ Len(taken') <= MaxLen
  BY <1>1, ReadingIs
<1> QED BY <1>1, <1>2, <1>5, <1>6, <1>7, ReadingHolds DEF Reading

LEMMA StutterHolds ==
  ASSUME HuffmanInvariant, UNCHANGED vars
  PROVE  HuffmanInvariant'
<1>1. /\ pc' = pc /\ simple' = simple /\ lens' = lens /\ symbol' = symbol /\ prev' = prev
      /\ left' = left /\ nodes' = nodes /\ lut' = lut /\ n' = n /\ bits' = bits /\ taken' = taken
  BY DEF vars
<1>2. Base' BY <1>1 DEF HuffmanInvariant, Base, LensOK
<1>3. /\ All' = All /\ Alone' = Alone /\ Share' = Share
  BY <1>1, TreeKept
<1>4. \A m, path : Partial(m, path)' = Partial(m, path) /\ Complete(m, path)' = Complete(m, path)
  BY <1>1, BuiltKept
<1>5. \A m, path : Reader(m, path)' = Reader(m, path) BY <1>1, <1>3 DEF Reader
<1>6. Phases' BY <1>1, <1>3, <1>4, <1>5 DEF HuffmanInvariant, Phases
<1> QED BY <1>2, <1>6 DEF HuffmanInvariant

-----------------------------------------------------------------------------
(* The theorems *)

\* While build inserts, nodes and table are those of the codes inserted so far; when
\* it is done every node without children is a leaf, and next stands where the bits
\* that it has used lead.
THEOREM HuffmanInvariantHolds == Spec => []HuffmanInvariant
<1>1. Init => HuffmanInvariant BY InitHolds
<1>2. ASSUME HuffmanInvariant, [Next]_vars PROVE HuffmanInvariant'
  <2>1. CASE ReadTree BY <1>2, <2>1, ReadTreeHolds
  <2>2. CASE ReadLength BY <1>2, <2>2, ReadLengthHolds
  <2>3. CASE ReadRepeat BY <1>2, <2>3, ReadRepeatHolds
  <2>4. CASE EndLengths BY <1>2, <2>4, EndLengthsHolds
  <2>5. CASE Build BY <1>2, <2>5, BuildHolds
  <2>6. CASE BuildSimple BY <1>2, <2>6, BuildSimpleHolds
  <2>7. CASE Built BY <1>2, <2>7, BuiltHolds
  <2>8. CASE Fill BY <1>2, <2>8, FillHolds
  <2>9. CASE LookUp BY <1>2, <2>9, LookUpHolds
  <2>10. CASE Step BY <1>2, <2>10, StepHolds
  <2>11. CASE More BY <1>2, <2>11, MoreHolds
  <2>12. CASE Arrive BY <1>2, <2>12, ArriveHolds
  <2>13. CASE UNCHANGED vars BY <1>2, <2>13, StutterHolds
  <2> QED BY <1>2, <2>1, <2>2, <2>3, <2>4, <2>5, <2>6, <2>7, <2>8, <2>9, <2>10, <2>11, <2>12,
             <2>13 DEF Next
<1> QED BY <1>1, <1>2, PTL DEF Spec

\* Every variable keeps its type: in particular insert fills the nodes from the front,
\* and the bits that the decoder holds stay fewer than the table and a byte have.
THEOREM HuffmanTypes == Spec => []TypeOK
<1>1. HuffmanInvariant => TypeOK
  <2> SUFFICES ASSUME Base PROVE TypeOK BY DEF HuffmanInvariant
  <2>1. DOMAIN nodes = 0..Cardinality(DOMAIN nodes) - 1
    <3>1. PICK m \in Nat \ {0} : DOMAIN nodes = 0..m - 1 BY DEF Base
    <3>2. m - 1 \in Int /\ 0 <= m - 1 /\ m \in Nat BY <3>1
    <3>3. Cardinality(0..m - 1) = (m - 1) - 0 + 1 BY <3>2, FS_Interval
    <3>4. Cardinality(DOMAIN nodes) = m BY <3>1, <3>2, <3>3
    <3> QED BY <3>1, <3>4
  <2> QED BY <2>1 DEF Base, LensOK, TypeOK
<1> QED BY <1>1, HuffmanInvariantHolds, PTL

\* What next has used for a symbol is a code of that symbol, whichever of its two ways
\* it took and however the bytes fell, and it never stands at an unfinished node: for
\* every alphabet, every code lengths that build accepts, every size of the table.
THEOREM ReadsTheCode == Spec => []PrefixDecode
<1>1. HuffmanInvariant => PrefixDecode
  <2> SUFFICES ASSUME HuffmanInvariant PROVE PrefixDecode OBVIOUS
  <2>1. ASSUME pc = "got" PROVE taken \in CodesOf(n)
    <3>1. pc \in Reading BY <2>1 DEF Reading
    <3>2. PICK m, path : Complete(m, path) /\ Reader(m, path) BY <3>1, ReadingIs
    <3>3. <<n, taken>> \in All BY <2>1, <3>2 DEF Reader
    <3>4. n \in Symbols
      <4> DEFINE d == <<n, taken>>
      <4>1. d \in Pairs BY <3>2, <3>3 DEF Complete
      <4> QED BY <4>1 DEF Pairs
    <3> QED BY <3>3, <3>4, CodesOfAre DEF HuffmanInvariant
  <2>2. ASSUME pc = "walk" PROVE nodes[n].children # 0
    <3>1. pc \in Reading BY <2>2 DEF Reading
    <3>2. PICK m, path : Complete(m, path) /\ Reader(m, path) BY <3>1, ReadingIs
    <3>3. n \in 0..m - 1 BY <2>2, <3>2 DEF Reader
    <3>4. nodes[n].children = Leaf \/ n \in Inner(nodes) BY <3>2, <3>3, CompleteShape
    <3> QED BY <3>4 DEF Leaf, Inner
  <2> QED BY <2>1, <2>2 DEF PrefixDecode
<1> QED BY <1>1, HuffmanInvariantHolds, PTL

\* next returns an error at the end of the bytes only when the bits that are left begin
\* with no code of the tree.
THEOREM EndsForCause == Spec => []EndOnlyAtEnd
<1>1. HuffmanInvariant => EndOnlyAtEnd
  <2> SUFFICES ASSUME HuffmanInvariant, pc = "eof", NEW s \in Symbols, NEW c \in CodesOf(s)
               PROVE  ~IsPrefix(c, taken)
    BY DEF EndOnlyAtEnd
  <2>1. pc \in Reading BY DEF Reading
  <2>2. PICK m, path : Complete(m, path) /\ Reader(m, path) BY <2>1, ReadingIs
  <2>3. n \in 0..m - 1 /\ path[n] = taken /\ nodes[n].children # Leaf BY <2>2 DEF Reader
  <2>4. n \in Inner(nodes) BY <2>2, <2>3, CompleteShape
  <2> DEFINE d == <<s, c>>
  <2>5. d \in All /\ d[2] = c BY CodesOfAre DEF HuffmanInvariant
  <2> HIDE DEF d
  <2>6. ~IsPrefix(d[2], path[n]) BY <2>2, <2>3, <2>4, <2>5, InnerOpen
  <2> QED BY <2>3, <2>5, <2>6
<1> QED BY <1>1, HuffmanInvariantHolds, PTL

\* build refuses no complete code, a complete one fills its 2n-1 nodes, and a code that
\* it accepts leaves no sequence of bits without a symbol.
THEOREM BuildsTheComplete == Spec => []AcceptsComplete
<1>1. HuffmanInvariant => AcceptsComplete
  <2> SUFFICES ASSUME HuffmanInvariant, simple = <<>>
               PROVE  /\ pc \in Reading =>
                           /\ Alone \/ Share >= Two[MaxLen]
                           /\ Share = Two[MaxLen] =>
                                Cardinality(DOMAIN nodes) = 2 * Cardinality(Used) - 1
                      /\ pc = "bad" => ~Alone /\ Share # Two[MaxLen]
    BY DEF AcceptsComplete, Reading
  <2>1. pc = "bad" => ~Alone /\ Share # Two[MaxLen] BY DEF HuffmanInvariant, Phases
  <2>2. ASSUME pc \in Reading
        PROVE  /\ Alone \/ Share >= Two[MaxLen]
               /\ Share = Two[MaxLen] =>
                    Cardinality(DOMAIN nodes) = 2 * Cardinality(Used) - 1
    <3>1. PICK m, path : Complete(m, path) /\ Reader(m, path) BY <2>2, ReadingIs
    <3>2. LensOK BY DEF HuffmanInvariant, Base
    <3>3. Tree(nodes, m, path, Coded, Coded, CodedCap)
      <4>1. All = Coded /\ Cap = CodedCap BY DEF All, Cap
      <4> QED BY <3>1, <4>1 DEF Complete
    <3>4. Alone \/ Share >= Two[MaxLen] BY <3>2, <3>3, CodedReach
    <3>5. ASSUME Share = Two[MaxLen] PROVE m = CodedCap BY <3>2, <3>3, <3>5, CodedFull
    <3>6. Cardinality(DOMAIN nodes) = m BY <3>1, CompleteShape, NodeNumber
    <3> QED BY <3>4, <3>5, <3>6 DEF CodedCap
  <2> QED BY <2>1, <2>2
<1> QED BY <1>1, HuffmanInvariantHolds, PTL
=============================================================================
