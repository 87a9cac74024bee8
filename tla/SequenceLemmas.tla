--------------------------- MODULE SequenceLemmas ---------------------------
(***************************************************************************)
(* Lemmas about sequences that the proofs need and the libraries lack:     *)
(* induction over the naturals in a form that the provers can use, and the *)
(* sequence that FlattenSeq makes of a sequence of sequences.              *)
(***************************************************************************)
EXTENDS Integers, Sequences, SequencesExt, FiniteSetTheorems, SequenceTheorems, TLAPS

(* A set that holds 0 and with every number the next one holds all numbers:
   otherwise x |-> x + 1 would map its finite part below a missing number into
   itself, injectively and not onto. *)
LEMMA Induction ==
  ASSUME NEW T, 0 \in T, \A n \in Nat : n \in T => n + 1 \in T
  PROVE  Nat \subseteq T
<1> SUFFICES ASSUME NEW n \in Nat, n \notin T PROVE FALSE OBVIOUS
<1> DEFINE A == {k \in 0..n : k \in T}
           next == [k \in A |-> k + 1]
<1>1. IsFiniteSet(A)
  <2>1. IsFiniteSet(0..n) BY FS_Interval
  <2> QED BY <2>1, FS_Subset
<1>2. next \in [A -> A] OBVIOUS
<1>3. next \in Injection(A, A) BY <1>2 DEF Injection, IsInjective
<1>4. next \in Surjection(A, A) BY <1>1, <1>3, FS_Injection
<1>5. 0 \in A OBVIOUS
<1>6. \E k \in A : next[k] = 0
  <2> HIDE DEF A, next
  <2> QED BY <1>4, <1>5 DEF Surjection
<1> QED BY <1>6

-----------------------------------------------------------------------------
(* Concatenation *)

LEMMA ConcatType ==
  ASSUME NEW S, NEW a \in Seq(S), NEW b \in Seq(S)
  PROVE  a \o b \in Seq(S)
OBVIOUS

-----------------------------------------------------------------------------
(* FlattenSeq *)

(* What the recursive function of FlattenSeq should be, on the first n. *)
Joins(f, ss, n) ==
  f = [i \in 1..n |-> IF i = 1 THEN ss[i] ELSE f[i - 1] \o ss[i]]

(* There is one: of the first n, and one more. *)
LEMMA JoinsExists ==
  ASSUME NEW ss, NEW n \in Nat
  PROVE  \E f : Joins(f, ss, n)
<1> DEFINE T == {k \in Nat : \E f : Joins(f, ss, k)}
<1>1. 0 \in T
  <2>1. Joins([i \in 1..0 |-> 0], ss, 0) BY DEF Joins
  <2> QED BY <2>1
<1>2. ASSUME NEW k \in Nat, k \in T PROVE k + 1 \in T
  <2>1. PICK f : Joins(f, ss, k) BY <1>2
  <2> DEFINE g == [i \in 1..k + 1 |-> IF i <= k THEN f[i]
                                      ELSE IF i = 1 THEN ss[i] ELSE f[i - 1] \o ss[i]]
  <2>2. Joins(g, ss, k + 1)
    <3>1. \A i \in 1..k : f[i] = IF i = 1 THEN ss[i] ELSE f[i - 1] \o ss[i]
      BY <2>1 DEF Joins
    <3>2. ASSUME NEW i \in 1..k + 1
          PROVE  g[i] = IF i = 1 THEN ss[i] ELSE g[i - 1] \o ss[i]
      <4>1. CASE i <= k BY <4>1, <3>1
      <4>2. CASE i = k + 1 BY <4>2
      <4> QED BY <4>1, <4>2
    <3> HIDE DEF g
    <3>3. g = [i \in 1..k + 1 |-> g[i]] BY DEF g
    <3> QED BY <3>2, <3>3 DEF Joins
  <2> QED BY <2>2
<1>3. Nat \subseteq T
  <2> HIDE DEF T
  <2> QED BY <1>1, <1>2, Induction
<1> QED BY <1>3

Same(f, g, n) == \A i \in 1..n : f[i] = g[i]

(* And the shorter is the beginning of the longer, also for another sequence that
   begins in the same way. *)
LEMMA JoinsAgree ==
  ASSUME NEW ss, NEW tt, NEW m \in Nat, NEW n \in Nat, m <= n,
         Same(ss, tt, m),
         NEW f, Joins(f, ss, m), NEW g, Joins(g, tt, n)
  PROVE  Same(f, g, m)
<1> USE DEF Same
<1> DEFINE T == {k \in Nat : k \in 1..m => f[k] = g[k]}
<1>0. /\ \A i \in 1..m : f[i] = IF i = 1 THEN ss[i] ELSE f[i - 1] \o ss[i]
      /\ \A i \in 1..n : g[i] = IF i = 1 THEN tt[i] ELSE g[i - 1] \o tt[i]
  BY DEF Joins
<1>1. 0 \in T OBVIOUS
<1>2. ASSUME NEW k \in Nat, k \in T PROVE k + 1 \in T
  <2> SUFFICES ASSUME k + 1 \in 1..m PROVE f[k + 1] = g[k + 1] OBVIOUS
  <2>1. CASE k = 0 BY <2>1, <1>0
  <2>2. CASE k # 0
    <3>1. f[k] = g[k] BY <1>2, <2>2
    <3> QED BY <3>1, <1>0, <2>2
  <2> QED BY <2>1, <2>2
<1>3. Nat \subseteq T
  <2> HIDE DEF T
  <2> QED BY <1>1, <1>2, Induction
<1> QED BY <1>3

LEMMA FlattenIsJoined ==
  ASSUME NEW ss, Len(ss) \in Nat \ {0}
  PROVE  \E f : Joins(f, ss, Len(ss)) /\ FlattenSeq(ss) = f[Len(ss)]
<1> DEFINE f == CHOOSE f : f = [i \in 1..Len(ss) |->
                                  IF i = 1 THEN ss[i] ELSE f[i - 1] \o ss[i]]
<1>1. FlattenSeq(ss) = f[Len(ss)] BY DEF FlattenSeq
<1>2. \E g : g = [i \in 1..Len(ss) |-> IF i = 1 THEN ss[i] ELSE g[i - 1] \o ss[i]]
  BY JoinsExists DEF Joins
<1>3. Joins(f, ss, Len(ss)) BY <1>2 DEF Joins
<1> QED BY <1>1, <1>3

LEMMA FlattenEmpty == FlattenSeq(<<>>) = <<>>
BY DEF FlattenSeq

LEMMA FlattenSingle ==
  ASSUME NEW S, NEW s \in Seq(S)
  PROVE  FlattenSeq(<<s>>) = s
<1>0. Len(<<s>>) \in Nat \ {0} /\ Len(<<s>>) = 1 OBVIOUS
<1>1. PICK f : Joins(f, <<s>>, Len(<<s>>)) /\ FlattenSeq(<<s>>) = f[Len(<<s>>)]
  BY <1>0, FlattenIsJoined
<1> QED BY <1>1 DEF Joins

LEMMA FlattenAppend ==
  ASSUME NEW S, NEW ss \in Seq(Seq(S)), NEW s \in Seq(S)
  PROVE  FlattenSeq(Append(ss, s)) = FlattenSeq(ss) \o s
<1>1. CASE ss = <<>>
  <2>1. Append(ss, s) = <<s>> BY <1>1
  <2>2. FlattenSeq(ss) \o s = s BY <1>1, FlattenEmpty
  <2> QED BY <2>1, <2>2, FlattenSingle
<1>2. CASE ss # <<>>
  <2> DEFINE tt == Append(ss, s)
  <2>0. Len(ss) \in Nat \ {0} BY <1>2
  <2>1. Len(tt) = Len(ss) + 1 /\ Len(tt) \in Nat \ {0} OBVIOUS
  <2>2. PICK f : Joins(f, ss, Len(ss)) /\ FlattenSeq(ss) = f[Len(ss)]
    BY <2>0, FlattenIsJoined
  <2>3. PICK g : Joins(g, tt, Len(tt)) /\ FlattenSeq(tt) = g[Len(tt)]
    BY <2>1, FlattenIsJoined
  <2>4. \A i \in 1..Len(ss) : ss[i] = tt[i] OBVIOUS
  <2>5. f[Len(ss)] = g[Len(ss)]
    <3> HIDE DEF tt
    <3>1. Len(ss) \in Nat /\ Len(tt) \in Nat /\ Len(ss) <= Len(tt) BY <2>0, <2>1
    <3> DEFINE m == Len(ss)
               n == Len(tt)
    <3>3. Joins(f, ss, m) /\ Joins(g, tt, n) BY <2>2, <2>3
    <3>4. m \in Nat /\ n \in Nat /\ m <= n /\ \A i \in 1..m : ss[i] = tt[i] BY <3>1, <2>4
    <3>2. \A i \in 1..m : f[i] = g[i]
      <4> HIDE DEF m, n
      <4>1. Same(ss, tt, m) BY <3>4 DEF Same
      <4>2. Same(f, g, m) BY <3>3, <3>4, <4>1, JoinsAgree
      <4> QED BY <4>2 DEF Same
    <3> QED BY <2>0, <3>2
  <2>6. g[Len(tt)] = g[Len(ss)] \o tt[Len(tt)]
    <3> HIDE DEF tt
    <3>1. Len(tt) \in 1..Len(tt) /\ Len(tt) # 1 /\ Len(tt) - 1 = Len(ss) BY <2>0, <2>1
    <3> QED BY <3>1, <2>3 DEF Joins
  <2>7. tt[Len(tt)] = s OBVIOUS
  <2> HIDE DEF tt
  <2>8. FlattenSeq(tt) = FlattenSeq(ss) \o s BY <2>2, <2>3, <2>5, <2>6, <2>7
  <2> QED BY <2>8 DEF tt
<1> QED BY <1>1, <1>2

(* By induction over the length of the second sequence; the sequence is a function
   of its length here, its beginnings are the sets that Induction needs. *)
LEMMA FlattenType ==
  ASSUME NEW S, NEW ss \in Seq(Seq(S))
  PROVE  FlattenSeq(ss) \in Seq(S)
<1> DEFINE T == {n \in Nat : n <= Len(ss) => FlattenSeq(SubSeq(ss, 1, n)) \in Seq(S)}
<1>1. 0 \in T
  <2>1. SubSeq(ss, 1, 0) = <<>> OBVIOUS
  <2>2. <<>> \in Seq(S) OBVIOUS
  <2> QED BY <2>1, <2>2, FlattenEmpty
<1>2. ASSUME NEW n \in Nat, n \in T PROVE n + 1 \in T
  <2> SUFFICES ASSUME n + 1 <= Len(ss)
               PROVE  FlattenSeq(SubSeq(ss, 1, n + 1)) \in Seq(S)
    OBVIOUS
  <2>1. SubSeq(ss, 1, n) \in Seq(Seq(S)) /\ ss[n + 1] \in Seq(S) OBVIOUS
  <2>2. SubSeq(ss, 1, n + 1) = Append(SubSeq(ss, 1, n), ss[n + 1]) OBVIOUS
  <2>3. FlattenSeq(SubSeq(ss, 1, n + 1)) = FlattenSeq(SubSeq(ss, 1, n)) \o ss[n + 1]
    BY <2>1, <2>2, FlattenAppend
  <2>4. FlattenSeq(SubSeq(ss, 1, n)) \in Seq(S) BY <1>2
  <2> QED BY <2>1, <2>3, <2>4, ConcatType
<1>3. Nat \subseteq T
  <2> HIDE DEF T
  <2> QED BY <1>1, <1>2, Induction
<1>4. SubSeq(ss, 1, Len(ss)) = ss OBVIOUS
<1>5. FlattenSeq(SubSeq(ss, 1, Len(ss))) \in Seq(S)
  <2>1. Len(ss) \in T
    <3> HIDE DEF T
    <3> QED BY <1>3, LenProperties
  <2> QED BY <2>1
<1> QED BY <1>4, <1>5, Zenon

LEMMA FlattenConcat ==
  ASSUME NEW S, NEW ss \in Seq(Seq(S)), NEW tt \in Seq(Seq(S))
  PROVE  FlattenSeq(ss \o tt) = FlattenSeq(ss) \o FlattenSeq(tt)
<1> DEFINE U(n) == SubSeq(tt, 1, n)
<1> DEFINE T == {n \in Nat : n <= Len(tt) =>
                   FlattenSeq(ss \o U(n)) = FlattenSeq(ss) \o FlattenSeq(U(n))}
<1>0. FlattenSeq(ss) \in Seq(S) BY FlattenType
<1>1. 0 \in T
  <2>1. U(0) = <<>> /\ ss \o <<>> = ss OBVIOUS
  <2>2. FlattenSeq(ss) \o <<>> = FlattenSeq(ss) BY <1>0
  <2> QED BY <2>1, <2>2, FlattenEmpty
<1>2. ASSUME NEW n \in Nat, n \in T PROVE n + 1 \in T
  <2> SUFFICES ASSUME n + 1 <= Len(tt)
               PROVE  FlattenSeq(ss \o U(n + 1)) = FlattenSeq(ss) \o FlattenSeq(U(n + 1))
    OBVIOUS
  <2>1. U(n) \in Seq(Seq(S)) /\ tt[n + 1] \in Seq(S) OBVIOUS
  <2>2. U(n + 1) = Append(U(n), tt[n + 1]) OBVIOUS
  <2>3. ss \o U(n + 1) = Append(ss \o U(n), tt[n + 1]) BY <2>1, <2>2
  <2>4. ss \o U(n) \in Seq(Seq(S)) BY <2>1
  <2> HIDE DEF U
  <2>5. FlattenSeq(U(n + 1)) = FlattenSeq(U(n)) \o tt[n + 1]
    BY <2>1, <2>2, FlattenAppend
  <2>6. FlattenSeq(ss \o U(n + 1)) = FlattenSeq(ss \o U(n)) \o tt[n + 1]
    BY <2>1, <2>3, <2>4, FlattenAppend
  <2>7. FlattenSeq(ss \o U(n)) = FlattenSeq(ss) \o FlattenSeq(U(n)) BY <1>2
  <2>8. FlattenSeq(U(n)) \in Seq(S) BY <2>1, FlattenType
  <2>9. (FlattenSeq(ss) \o FlattenSeq(U(n))) \o tt[n + 1]
          = FlattenSeq(ss) \o (FlattenSeq(U(n)) \o tt[n + 1])
    <3> DEFINE a == FlattenSeq(ss)
               b == FlattenSeq(U(n))
               c == tt[n + 1]
    <3>1. a \in Seq(S) /\ b \in Seq(S) /\ c \in Seq(S) BY <1>0, <2>1, <2>8
    <3> HIDE DEF a, b, c
    <3>2. (a \o b) \o c = a \o (b \o c) BY <3>1
    <3> QED BY <3>2 DEF a, b, c
  <2> QED BY <2>5, <2>6, <2>7, <2>9
<1>3. Nat \subseteq T
  <2> HIDE DEF T
  <2> QED BY <1>1, <1>2, Induction
<1>4. U(Len(tt)) = tt OBVIOUS
<1>5. Len(tt) <= Len(tt) => FlattenSeq(ss \o U(Len(tt))) = FlattenSeq(ss) \o FlattenSeq(U(Len(tt)))
  <2>1. Len(tt) \in T
    <3> HIDE DEF T
    <3> QED BY <1>3, LenProperties
  <2> QED BY <2>1
<1> HIDE DEF U
<1> QED BY <1>4, <1>5, LenProperties
=============================================================================
