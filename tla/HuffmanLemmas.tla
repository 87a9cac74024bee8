---------------------------- MODULE HuffmanLemmas ----------------------------
(***************************************************************************)
(* Lemmas about the codes of Vp8lHuffman: powers of two, bits of numbers,  *)
(* sequences of bits, and how many of them begin with a code.              *)
(***************************************************************************)
EXTENDS Vp8lHuffman, SequenceLemmas

-----------------------------------------------------------------------------
(* Powers of two *)

(* What the recursive function Two should be, up to m. *)
Doubles(f, m) == f = [k \in 0..m |-> IF k = 0 THEN 1 ELSE 2 * f[k - 1]]

LEMMA DoublesAre ==
  ASSUME NEW f, NEW m \in Nat, Doubles(f, m)
  PROVE  f[0] = 1 /\ \A k \in 1..m : f[k] = 2 * f[k - 1]
<1>1. \A k \in 0..m : f[k] = IF k = 0 THEN 1 ELSE 2 * f[k - 1] BY DEF Doubles
<1> QED BY <1>1

LEMMA DoublesExist ==
  ASSUME NEW m \in Nat
  PROVE  \E f : Doubles(f, m)
<1> DEFINE T == {k \in Nat : \E f : Doubles(f, k)}
<1>1. 0 \in T
  <2>1. Doubles([i \in 0..0 |-> 1], 0) BY DEF Doubles
  <2> QED BY <2>1
<1>2. ASSUME NEW k \in Nat, k \in T PROVE k + 1 \in T
  <2>1. PICK f : Doubles(f, k) BY <1>2
  <2> DEFINE g == [i \in 0..k + 1 |-> IF i <= k THEN f[i] ELSE 2 * f[k]]
  <2>2. ASSUME NEW i \in 0..k + 1
        PROVE  g[i] = IF i = 0 THEN 1 ELSE 2 * g[i - 1]
    <3>1. CASE i = 0 BY <3>1, <2>1, DoublesAre
    <3>2. CASE i \in 1..k BY <3>2, <2>1, DoublesAre
    <3>3. CASE i = k + 1 BY <3>3
    <3> QED BY <3>1, <3>2, <3>3
  <2>3. g = [i \in 0..k + 1 |-> g[i]] OBVIOUS
  <2> HIDE DEF g
  <2>4. Doubles(g, k + 1) BY <2>2, <2>3 DEF Doubles
  <2> QED BY <2>4
<1>3. Nat \subseteq T
  <2> HIDE DEF T
  <2> QED BY <1>1, <1>2, Induction
<1> QED BY <1>3

LEMMA DoublesAgree ==
  ASSUME NEW f, NEW g, NEW k \in Nat, NEW m \in Nat, k <= m, Doubles(f, k), Doubles(g, m)
  PROVE  f[k] = g[k]
<1> DEFINE T == {i \in Nat : i <= k => f[i] = g[i]}
<1>1. 0 \in T BY DoublesAre
<1>2. ASSUME NEW i \in Nat, i \in T PROVE i + 1 \in T
  <2> SUFFICES ASSUME i + 1 <= k PROVE f[i + 1] = g[i + 1] OBVIOUS
  <2>1. f[i + 1] = 2 * f[(i + 1) - 1] BY DoublesAre
  <2>2. g[i + 1] = 2 * g[(i + 1) - 1] BY DoublesAre
  <2> QED BY <1>2, <2>1, <2>2
<1>3. Nat \subseteq T
  <2> HIDE DEF T
  <2> QED BY <1>1, <1>2, Induction
<1> QED BY <1>3

LEMMA TwoIs ==
  Two = [k \in Nat |-> IF k = 0 THEN 1 ELSE 2 * Two[k - 1]]
<1> DEFINE d == [k \in Nat |-> CHOOSE f : Doubles(f, k)]
           h == [k \in Nat |-> d[k][k]]
<1>1. \A k \in Nat : Doubles(d[k], k) BY DoublesExist
<1>2. ASSUME NEW k \in Nat PROVE h[k] = IF k = 0 THEN 1 ELSE 2 * h[k - 1]
  <2> HIDE DEF d
  <2>1. CASE k = 0 BY <2>1, <1>1, DoublesAre
  <2>2. CASE k # 0
    <3>1. k - 1 \in Nat /\ k \in 1..k BY <2>2
    <3>2. d[k][k] = 2 * d[k][k - 1] BY <1>1, <3>1, DoublesAre
    <3>3. d[k - 1][k - 1] = d[k][k - 1]
      <4>1. Doubles(d[k - 1], k - 1) /\ Doubles(d[k], k) /\ k - 1 <= k BY <3>1, <1>1
      <4> QED BY <4>1, <3>1, DoublesAgree
    <3> QED BY <2>2, <3>1, <3>2, <3>3
  <2> QED BY <2>1, <2>2
<1>3. h = [k \in Nat |-> IF k = 0 THEN 1 ELSE 2 * h[k - 1]]
  <2>1. h = [k \in Nat |-> h[k]] OBVIOUS
  <2> HIDE DEF h
  <2> QED BY <1>2, <2>1
<1> HIDE DEF h
<1> QED BY <1>3 DEF Two

LEMMA TwoNext ==
  /\ Two[0] = 1
  /\ \A k \in Nat : Two[k + 1] = 2 * Two[k]
<1>1. \A k \in Nat : Two[k] = IF k = 0 THEN 1 ELSE 2 * Two[k - 1] BY TwoIs, Zenon
<1>2. \A k \in Nat : k + 1 \in Nat /\ k + 1 # 0 /\ (k + 1) - 1 = k OBVIOUS
<1> QED BY <1>1, <1>2

LEMMA TwoType == \A k \in Nat : Two[k] \in Nat /\ Two[k] > 0
<1> DEFINE T == {k \in Nat : Two[k] \in Nat /\ Two[k] > 0}
<1>1. 0 \in T BY TwoNext
<1>2. \A k \in Nat : k \in T => k + 1 \in T BY TwoNext
<1>3. Nat \subseteq T
  <2> HIDE DEF T
  <2> QED BY <1>1, <1>2, Induction
<1> QED BY <1>3

LEMMA TwoSum ==
  ASSUME NEW a \in Nat, NEW b \in Nat
  PROVE  Two[a + b] = Two[a] * Two[b]
<1> DEFINE T == {k \in Nat : Two[a + k] = Two[a] * Two[k]}
<1>1. 0 \in T BY TwoNext, TwoType
<1>2. ASSUME NEW k \in Nat, k \in T PROVE k + 1 \in T
  <2>1. Two[a + (k + 1)] = 2 * Two[a + k]
    <3>1. a + (k + 1) = (a + k) + 1 /\ a + k \in Nat OBVIOUS
    <3> QED BY <3>1, TwoNext
  <2>2. Two[k + 1] = 2 * Two[k] BY TwoNext
  <2>3. \A x, y \in Nat : x * (2 * y) = 2 * (x * y) OBVIOUS
  <2> QED BY <1>2, <2>1, <2>2, <2>3, TwoType
<1>3. Nat \subseteq T
  <2> HIDE DEF T
  <2> QED BY <1>1, <1>2, Induction
<1> QED BY <1>3

-----------------------------------------------------------------------------
(* Division *)

LEMMA Division ==
  ASSUME NEW x \in Nat, NEW d \in Nat, d > 0
  PROVE  /\ x \div d \in Nat /\ x % d \in Nat /\ x % d < d
         /\ x = d * (x \div d) + (x % d)
OBVIOUS

LEMMA Multiples ==
  ASSUME NEW d \in Nat, NEW q \in Int, NEW p \in Int, q < p
  PROVE  d * q + d <= d * p
<1>1. p = (q + 1) + (p - (q + 1)) /\ p - (q + 1) \in Nat OBVIOUS
<1>2. d * p = (d * q + d) + d * (p - (q + 1)) BY <1>1
<1>3. \A k \in Nat : d * k \in Nat OBVIOUS
<1> QED BY <1>1, <1>2, <1>3

LEMMA DivisionIs ==
  ASSUME NEW d \in Nat, d > 0, NEW q \in Int, NEW r \in Nat, r < d,
         NEW x \in Nat, x = d * q + r
  PROVE  x \div d = q /\ x % d = r
<1> DEFINE p == x \div d
           s == x % d
<1>1. p \in Nat /\ s \in Nat /\ s < d /\ x = d * p + s BY Division
<1> HIDE DEF p, s
<1>2. d * p \in Int /\ d * q \in Int BY <1>1
<1>3. p = q
  <2>1. CASE p < q
    <3>1. d * p + d <= d * q BY <2>1, <1>1, Multiples
    <3> QED BY <3>1, <1>1, <1>2
  <2>2. CASE q < p
    <3>1. d * q + d <= d * p BY <2>2, <1>1, Multiples
    <3> QED BY <3>1, <1>1, <1>2
  <2> QED BY <2>1, <2>2, <1>1
<1> QED BY <1>1, <1>2, <1>3 DEF p, s

LEMMA DivisionTwice ==
  ASSUME NEW x \in Nat, NEW a \in Nat, a > 0, NEW b \in Nat, b > 0
  PROVE  (x \div a) \div b = x \div (a * b)
<1> DEFINE p == x \div a
           q == p \div b
           r == x % a
           s == p % b
<1>1. p \in Nat /\ r \in Nat /\ r < a /\ x = a * p + r BY Division
<1>2. q \in Nat /\ s \in Nat /\ s < b /\ p = b * q + s BY <1>1, Division
<1> HIDE DEF p, q, r, s
<1>3. x = (a * b) * q + (a * s + r)
  <2>1. a * p = a * (b * q) + a * s BY <1>2
  <2>2. a * (b * q) = (a * b) * q BY <1>2
  <2> QED BY <1>1, <1>2, <2>1, <2>2
<1>4. a * s + r \in Nat /\ a * s + r < a * b /\ a * b \in Nat /\ a * b > 0
  <2>1. a * s + a <= a * b BY <1>2, Multiples
  <2>2. a * s \in Nat /\ a * b \in Nat BY <1>2
  <2> QED BY <1>1, <2>1, <2>2
<1>5. x \div (a * b) = q BY <1>2, <1>3, <1>4, DivisionIs
<1> QED BY <1>5 DEF p, q

-----------------------------------------------------------------------------
(* The bits of a number *)

LEMMA StringsAre ==
  ASSUME NEW k \in Nat, NEW c \in Strings(k)
  PROVE  c \in Seq(Bit) /\ Len(c) = k /\ \A i \in 1..k : c[i] \in Bit
BY DEF Strings

LEMMA SeqIsString ==
  ASSUME NEW c \in Seq(Bit)
  PROVE  Len(c) \in Nat /\ c \in Strings(Len(c))
BY DEF Strings

LEMMA BitsType ==
  ASSUME NEW x \in Nat, NEW k \in Nat
  PROVE  CodeBits(x, k) \in Strings(k)
<1>1. ASSUME NEW i \in 1..k PROVE (x \div Two[k - i]) % 2 \in Bit
  <2>1. Two[k - i] \in Nat /\ Two[k - i] > 0 BY TwoType
  <2>2. x \div Two[k - i] \in Nat BY <2>1, Division
  <2> QED BY <2>2 DEF Bit
<1> QED BY <1>1 DEF CodeBits, Strings

LEMMA BitsPrefix ==
  ASSUME NEW x \in Nat, NEW k \in Nat, NEW j \in 0..k
  PROVE  SubSeq(CodeBits(x, k), 1, j) = CodeBits(x \div Two[k - j], j)
<1> DEFINE y == x \div Two[k - j]
<1>1. Two[k - j] \in Nat /\ Two[k - j] > 0 BY TwoType
<1>2. y \in Nat BY <1>1, Division
<1>3. ASSUME NEW i \in 1..j
      PROVE  (x \div Two[k - i]) % 2 = (y \div Two[j - i]) % 2
  <2>1. Two[j - i] \in Nat /\ Two[j - i] > 0 BY TwoType
  <2>2. Two[k - i] = Two[k - j] * Two[j - i]
    <3>1. k - i = (k - j) + (j - i) /\ k - j \in Nat /\ j - i \in Nat OBVIOUS
    <3> QED BY <3>1, TwoSum
  <2>3. y \div Two[j - i] = x \div Two[k - i] BY <1>1, <2>1, <2>2, DivisionTwice
  <2> QED BY <2>3
<1> HIDE DEF y
<1>4. CodeBits(x, k) \in Seq(Bit) /\ Len(CodeBits(x, k)) = k BY BitsType, StringsAre
<1>5. CodeBits(y, j) \in Seq(Bit) /\ Len(CodeBits(y, j)) = j BY <1>2, BitsType, StringsAre
<1>6. \A i \in 1..j : CodeBits(x, k)[i] = CodeBits(y, j)[i] BY <1>3 DEF CodeBits
<1>7. SubSeq(CodeBits(x, k), 1, j) = CodeBits(y, j)
  <2> DEFINE a == CodeBits(x, k)
             b == CodeBits(y, j)
  <2>1. a \in Seq(Bit) /\ Len(a) = k /\ b \in Seq(Bit) /\ Len(b) = j
        /\ \A i \in 1..j : a[i] = b[i]
    BY <1>4, <1>5, <1>6
  <2> HIDE DEF a, b
  <2>2. SubSeq(a, 1, j) = b BY <2>1
  <2> QED BY <2>2 DEF a, b
<1> QED BY <1>7 DEF y

(* The bits above the k-th do not matter. *)
LEMMA BitsModulo ==
  ASSUME NEW x \in Nat, NEW k \in Nat, NEW m \in Nat
  PROVE  CodeBits(x + m * Two[k], k) = CodeBits(x, k)
<1>1. ASSUME NEW i \in 1..k
      PROVE  ((x + m * Two[k]) \div Two[k - i]) % 2 = (x \div Two[k - i]) % 2
  <2> DEFINE d == Two[k - i]
             h == Two[i - 1]
             q == x \div d
             r == x % d
  <2>1. d \in Nat /\ d > 0 /\ h \in Nat BY TwoType
  <2>2. q \in Nat /\ r \in Nat /\ r < d /\ x = d * q + r BY <2>1, Division
  <2>3. Two[k] = d * (2 * h)
    <3>1. k = (k - i) + i /\ k - i \in Nat /\ i \in Nat /\ i - 1 \in Nat /\ i = (i - 1) + 1
      OBVIOUS
    <3>2. Two[k] = Two[k - i] * Two[i] BY <3>1, TwoSum
    <3>3. Two[i] = 2 * Two[i - 1] BY <3>1, TwoNext
    <3> QED BY <3>2, <3>3
  <2> HIDE DEF d, h, q, r
  <2>4. x + m * Two[k] = d * (q + 2 * (m * h)) + r
    <3>1. m * (d * (2 * h)) = d * (2 * (m * h)) BY <2>1
    <3>2. m * h \in Nat BY <2>1
    <3>3. d * (q + 2 * (m * h)) = d * q + d * (2 * (m * h)) BY <2>1, <2>2, <3>2
    <3> QED BY <2>1, <2>2, <2>3, <3>1, <3>2, <3>3
  <2>5. m * h \in Nat BY <2>1
  <2>6. x + m * Two[k] \in Nat BY TwoType
  <2>7. (x + m * Two[k]) \div d = q + 2 * (m * h)
    <3>1. q + 2 * (m * h) \in Int BY <2>2, <2>5
    <3> QED BY <2>1, <2>2, <2>4, <2>6, <3>1, DivisionIs
  <2>8. (q + 2 * (m * h)) % 2 = q % 2
    <3>1. \A a, b \in Nat : (a + 2 * b) % 2 = a % 2 OBVIOUS
    <3> QED BY <2>2, <2>5, <3>1
  <2> QED BY <2>7, <2>8 DEF d, q
<1> QED BY <1>1 DEF CodeBits

LEMMA BitsNext ==
  ASSUME NEW x \in Nat, NEW k \in Nat
  PROVE  CodeBits(x, k + 1) = Append(CodeBits(x \div 2, k), x % 2)
<1> DEFINE a == CodeBits(x, k + 1)
           b == CodeBits(x \div 2, k)
<1>1. Two[1] = 2 /\ Two[0] = 1
  <2>1. 1 = 0 + 1 OBVIOUS
  <2> QED BY <2>1, TwoNext
<1>2. SubSeq(a, 1, k) = b
  <2>1. (k + 1) - k = 1 /\ k \in 0..k + 1 /\ k + 1 \in Nat OBVIOUS
  <2>2. a = CodeBits(x, k + 1) OBVIOUS
  <2>3. SubSeq(CodeBits(x, k + 1), 1, k) = CodeBits(x \div Two[(k + 1) - k], k)
    BY <2>1, BitsPrefix
  <2>4. x \div Two[(k + 1) - k] = x \div 2 BY <1>1, <2>1
  <2> QED BY <2>3, <2>4
<1>3. a[k + 1] = x % 2
  <2>1. (k + 1) - (k + 1) = 0 /\ x \div 1 = x /\ k + 1 \in 1..k + 1 OBVIOUS
  <2> QED BY <1>1, <2>1 DEF CodeBits
<1>4. a \in Seq(Bit) /\ Len(a) = k + 1 BY BitsType, StringsAre
<1> HIDE DEF a, b
<1>5. a = Append(b, x % 2) BY <1>2, <1>3, <1>4
<1> QED BY <1>5 DEF a, b

LEMMA BitsInjective ==
  ASSUME NEW k \in Nat, NEW x \in 0..Two[k] - 1, NEW y \in 0..Two[k] - 1,
         CodeBits(x, k) = CodeBits(y, k)
  PROVE  x = y
<1> DEFINE T == {j \in Nat : \A u, v \in 0..Two[j] - 1 : CodeBits(u, j) = CodeBits(v, j) => u = v}
<1>1. 0 \in T BY TwoNext
<1>2. ASSUME NEW j \in Nat, j \in T PROVE j + 1 \in T
  <2> SUFFICES ASSUME NEW u \in 0..Two[j + 1] - 1, NEW v \in 0..Two[j + 1] - 1,
                      CodeBits(u, j + 1) = CodeBits(v, j + 1)
               PROVE  u = v
    OBVIOUS
  <2>0. Two[j + 1] = 2 * Two[j] /\ Two[j] \in Nat BY TwoNext, TwoType
  <2>1. u \in Nat /\ v \in Nat /\ u \div 2 \in 0..Two[j] - 1 /\ v \div 2 \in 0..Two[j] - 1
    BY <2>0
  <2>2. Append(CodeBits(u \div 2, j), u % 2) = Append(CodeBits(v \div 2, j), v % 2)
    BY <2>1, BitsNext
  <2>3. CodeBits(u \div 2, j) = CodeBits(v \div 2, j) /\ u % 2 = v % 2
    <3> DEFINE a == CodeBits(u \div 2, j)
               b == CodeBits(v \div 2, j)
    <3>1. a \in Seq(Bit) /\ b \in Seq(Bit) BY <2>1, BitsType, StringsAre
    <3>2. u % 2 \in Bit /\ v % 2 \in Bit BY <2>1 DEF Bit
    <3>3. ASSUME NEW p \in Bit, NEW q \in Bit, Append(a, p) = Append(b, q)
          PROVE  a = b /\ p = q
      <4> HIDE DEF a, b
      <4> QED BY <3>1, <3>3, SMTT(30)
    <3> QED BY <2>2, <3>2, <3>3
  <2>4. u \div 2 = v \div 2 BY <1>2, <2>1, <2>3
  <2> QED BY <2>1, <2>3, <2>4
<1>3. Nat \subseteq T
  <2> HIDE DEF T
  <2> QED BY <1>1, <1>2, Induction
<1> QED BY <1>3

LEMMA BitsOnto ==
  ASSUME NEW k \in Nat, NEW c \in Strings(k)
  PROVE  \E x \in 0..Two[k] - 1 : CodeBits(x, k) = c
<1> DEFINE T == {j \in Nat : \A d \in Strings(j) : \E x \in 0..Two[j] - 1 : CodeBits(x, j) = d}
<1>1. 0 \in T
  <2>1. \A d \in Strings(0) : CodeBits(0, 0) = d
    BY DEF Strings, CodeBits
  <2> QED BY <2>1, TwoNext
<1>2. ASSUME NEW j \in Nat, j \in T PROVE j + 1 \in T
  <2> SUFFICES ASSUME NEW d \in Strings(j + 1)
               PROVE  \E x \in 0..Two[j + 1] - 1 : CodeBits(x, j + 1) = d
    OBVIOUS
  <2>0. Two[j + 1] = 2 * Two[j] /\ Two[j] \in Nat BY TwoNext, TwoType
  <2>1. d \in Seq(Bit) /\ Len(d) = j + 1 /\ d[j + 1] \in Bit BY StringsAre
  <2>2. SubSeq(d, 1, j) \in Strings(j) /\ d = Append(SubSeq(d, 1, j), d[j + 1])
    <3>1. SubSeq(d, 1, j) \in Seq(Bit) /\ Len(SubSeq(d, 1, j)) = j BY <2>1
    <3>2. d = Append(SubSeq(d, 1, j), d[j + 1]) BY <2>1
    <3> QED BY <3>1, <3>2, SeqIsString
  <2>3. PICK x \in 0..Two[j] - 1 : CodeBits(x, j) = SubSeq(d, 1, j) BY <1>2, <2>2
  <2> DEFINE b == d[j + 1]
             p == Two[j]
             y == 2 * x + b
  <2>a. b \in 0..1 /\ p \in Nat /\ x \in 0..p - 1 /\ Two[j + 1] = 2 * p
    BY <2>0, <2>1, <2>3 DEF Bit
  <2> HIDE DEF b, p
  <2>b. y \in Nat /\ y \div 2 = x /\ y % 2 = b BY <2>a
  <2>4. y \in Nat /\ y \div 2 = x /\ y % 2 = d[j + 1] BY <2>b DEF b
  <2>5. y \in 0..Two[j + 1] - 1 BY <2>a
  <2> HIDE DEF y
  <2>6. CodeBits(y, j + 1) = d BY <2>2, <2>3, <2>4, BitsNext
  <2> QED BY <2>5, <2>6
<1>3. Nat \subseteq T
  <2> HIDE DEF T
  <2> QED BY <1>1, <1>2, Induction
<1> QED BY <1>3

(* So there are as many sequences of k bits. *)
LEMMA StringsNumber ==
  ASSUME NEW k \in Nat
  PROVE  IsFiniteSet(Strings(k)) /\ Cardinality(Strings(k)) = Two[k]
<1> DEFINE R == 0..Two[k] - 1
           f == [x \in R |-> CodeBits(x, k)]
<1>0. Two[k] \in Nat /\ Two[k] > 0 BY TwoType
<1>1. IsFiniteSet(R) /\ Cardinality(R) = Two[k]
  <2>1. ASSUME NEW m \in Nat, m > 0
        PROVE  IsFiniteSet(0..m - 1) /\ Cardinality(0..m - 1) = m
    <3>1. 0 \in Int /\ m - 1 \in Int /\ ~(0 > m - 1) /\ m - 1 - 0 + 1 = m BY <2>1
    <3> QED BY <3>1, FS_Interval
  <2> QED BY <1>0, <2>1
<1>2. f \in [R -> Strings(k)] BY <1>0, BitsType
<1>3. \A x, y \in R : f[x] = f[y] => x = y BY BitsInjective
<1>4. \A c \in Strings(k) : \E x \in R : f[x] = c BY BitsOnto
<1>5. ExistsBijection(R, Strings(k))
  <2> HIDE DEF R, f
  <2> QED BY <1>2, <1>3, <1>4 DEF ExistsBijection, Bijection, Injection, IsInjective, Surjection
<1> HIDE DEF R
<1> QED BY <1>1, <1>5, FS_Bijection

-----------------------------------------------------------------------------
(* The sequences that begin with a code *)

LensOK == lens \in [Symbols -> 0..MaxLen]

LEMMA SymbolsFinite ==
  ASSUME NEW T, T \subseteq Symbols
  PROVE  IsFiniteSet(T) /\ Cardinality(T) \in Nat
<1>1. IsFiniteSet(Symbols)
  <2>1. 0 \in Int /\ N - 1 \in Int BY HuffmanAssumption
  <2> QED BY <2>1, FS_Interval DEF Symbols
<1>2. IsFiniteSet(T) BY <1>1, FS_Subset
<1> QED BY <1>2, FS_CardinalityType

LEMMA UsedAre ==
  ASSUME LensOK
  PROVE  /\ Used \subseteq Symbols
         /\ \A s \in Used : lens[s] \in 1..MaxLen
         /\ \A s \in Symbols \ Used : lens[s] = 0
BY HuffmanAssumption DEF LensOK, Used

(* No code of T is longer than k. *)
Within(k, T) == T \subseteq Symbols /\ \A t \in T : lens[t] \in 0..k

LEMMA ExtendedFinite ==
  ASSUME NEW k \in Nat, NEW T, Within(k, T)
  PROVE  IsFiniteSet(Extended(k, T)) /\ Cardinality(Extended(k, T)) \in Nat
<1> DEFINE X(t) == {t} \X Strings(k - lens[t])
           P == {X(t) : t \in T}
           f == [t \in T |-> X(t)]
<1>1. IsFiniteSet(T) BY SymbolsFinite DEF Within
<1>2. f \in Surjection(T, P) BY DEF Surjection
<1>3. IsFiniteSet(P)
  <2> HIDE DEF f, P
  <2> QED BY <1>1, <1>2, FS_Surjection
<1>4. ASSUME NEW t \in T PROVE IsFiniteSet(X(t))
  <2>1. k - lens[t] \in Nat BY DEF Within
  <2>2. IsFiniteSet(Strings(k - lens[t])) BY <2>1, StringsNumber
  <2>3. IsFiniteSet({t}) BY FS_Singleton
  <2> QED BY <2>2, <2>3, FS_Product
<1>5. \A S \in P : IsFiniteSet(S) BY <1>4
<1>6. IsFiniteSet(UNION P)
  <2> HIDE DEF P
  <2> QED BY <1>3, <1>5, FS_UNION
<1>7. IsFiniteSet(Extended(k, T)) BY <1>6 DEF Extended
<1> QED BY <1>7, FS_CardinalityType

LEMMA ExtendedIs ==
  ASSUME NEW k \in Nat, NEW T, NEW e
  PROVE  e \in Extended(k, T)
           <=> \E t \in T : \E b \in Strings(k - lens[t]) : e = <<t, b>>
BY DEF Extended

LEMMA ExtendedUnion ==
  ASSUME NEW k \in Nat, NEW S, NEW T, Within(k, S), Within(k, T), S \cap T = {}
  PROVE  Cardinality(Extended(k, S \cup T))
           = Cardinality(Extended(k, S)) + Cardinality(Extended(k, T))
<1>1. Extended(k, S \cup T) = Extended(k, S) \cup Extended(k, T) BY DEF Extended
<1>2. Extended(k, S) \cap Extended(k, T) = {} BY ExtendedIs
<1>3. IsFiniteSet(Extended(k, S)) /\ IsFiniteSet(Extended(k, T))
      /\ Cardinality(Extended(k, S)) \in Nat /\ Cardinality(Extended(k, T)) \in Nat
  BY ExtendedFinite
<1>4. Cardinality(Extended(k, S) \cup Extended(k, T))
        = Cardinality(Extended(k, S)) + Cardinality(Extended(k, T))
            - Cardinality(Extended(k, S) \cap Extended(k, T))
  BY <1>3, FS_Union
<1>5. Cardinality(Extended(k, S) \cap Extended(k, T)) = 0 BY <1>2, FS_EmptySet
<1> DEFINE a == Cardinality(Extended(k, S))
           b == Cardinality(Extended(k, T))
           c == Cardinality(Extended(k, S) \cap Extended(k, T))
           d == Cardinality(Extended(k, S) \cup Extended(k, T))
<1>6. a \in Nat /\ b \in Nat /\ c = 0 /\ d = a + b - c BY <1>3, <1>4, <1>5
<1>7. d = a + b
  <2> HIDE DEF a, b, c, d
  <2> QED BY <1>6
<1> QED BY <1>1, <1>7

LEMMA ExtendedSubset ==
  ASSUME NEW k \in Nat, NEW S, NEW T, Within(k, T), S \subseteq T
  PROVE  Cardinality(Extended(k, S)) <= Cardinality(Extended(k, T))
<1>1. Extended(k, S) \subseteq Extended(k, T) BY DEF Extended
<1>2. IsFiniteSet(Extended(k, T)) BY ExtendedFinite
<1> QED BY <1>1, <1>2, FS_Subset

LEMMA ExtendedSame ==
  ASSUME NEW k \in Nat, NEW T, T \subseteq Symbols, NEW j \in 0..k,
         \A t \in T : lens[t] = j
  PROVE  Cardinality(Extended(k, T)) = Cardinality(T) * Two[k - j]
<1>1. Extended(k, T) = T \X Strings(k - j) BY DEF Extended
<1>2. IsFiniteSet(T) BY SymbolsFinite
<1>3. IsFiniteSet(Strings(k - j)) /\ Cardinality(Strings(k - j)) = Two[k - j]
  BY StringsNumber
<1> QED BY <1>1, <1>2, <1>3, FS_Product

-----------------------------------------------------------------------------
(* The codes of codeLengthsToCodes *)

Firsts(f, m) ==
  f = [k \in 0..m |-> IF k = 0 THEN 0 ELSE (f[k - 1] + Histogram(k - 1)) * 2]

LEMMA FirstsAre ==
  ASSUME NEW f, NEW m \in Nat, Firsts(f, m)
  PROVE  f[0] = 0 /\ \A k \in 1..m : f[k] = (f[k - 1] + Histogram(k - 1)) * 2
<1>1. \A k \in 0..m : f[k] = IF k = 0 THEN 0 ELSE (f[k - 1] + Histogram(k - 1)) * 2
  BY DEF Firsts
<1> QED BY <1>1

LEMMA FirstsExist ==
  ASSUME NEW m \in Nat
  PROVE  \E f : Firsts(f, m)
<1> DEFINE T == {k \in Nat : \E f : Firsts(f, k)}
<1>1. 0 \in T
  <2>1. Firsts([i \in 0..0 |-> 0], 0) BY DEF Firsts
  <2> QED BY <2>1
<1>2. ASSUME NEW k \in Nat, k \in T PROVE k + 1 \in T
  <2>1. PICK f : Firsts(f, k) BY <1>2
  <2> DEFINE g == [i \in 0..k + 1 |-> IF i <= k THEN f[i] ELSE (f[k] + Histogram(k)) * 2]
  <2>2. ASSUME NEW i \in 0..k + 1
        PROVE  g[i] = IF i = 0 THEN 0 ELSE (g[i - 1] + Histogram(i - 1)) * 2
    <3>1. CASE i = 0 BY <3>1, <2>1, FirstsAre
    <3>2. CASE i \in 1..k BY <3>2, <2>1, FirstsAre
    <3>3. CASE i = k + 1 BY <3>3
    <3> QED BY <3>1, <3>2, <3>3
  <2>3. g = [i \in 0..k + 1 |-> g[i]] OBVIOUS
  <2> HIDE DEF g
  <2>4. Firsts(g, k + 1) BY <2>2, <2>3 DEF Firsts
  <2> QED BY <2>4
<1>3. Nat \subseteq T
  <2> HIDE DEF T
  <2> QED BY <1>1, <1>2, Induction
<1> QED BY <1>3

LEMMA FirstCodeIs == Firsts(FirstCode, MaxLen)
<1>1. \E f : f = [k \in 0..MaxLen |->
                    IF k = 0 THEN 0 ELSE (f[k - 1] + Histogram(k - 1)) * 2]
  BY FirstsExist, HuffmanAssumption DEF Firsts
<1> QED BY <1>1 DEF FirstCode, Firsts

LEMMA HistogramType == \A k \in 0..MaxLen : Histogram(k) \in Nat
<1> SUFFICES ASSUME NEW k \in 0..MaxLen PROVE Histogram(k) \in Nat OBVIOUS
<1>1. {s \in Symbols : lens[s] = k} \subseteq Symbols OBVIOUS
<1> QED BY <1>1, SymbolsFinite DEF Histogram

LEMMA FirstCodeType == \A k \in 0..MaxLen : FirstCode[k] \in Nat
<1> DEFINE T == {k \in Nat : k \in 0..MaxLen => FirstCode[k] \in Nat}
<1>0. MaxLen \in Nat BY HuffmanAssumption
<1>1. 0 \in T BY <1>0, FirstCodeIs, FirstsAre
<1>2. ASSUME NEW k \in Nat, k \in T PROVE k + 1 \in T
  <2> SUFFICES ASSUME k + 1 \in 0..MaxLen PROVE FirstCode[k + 1] \in Nat OBVIOUS
  <2>1. k + 1 \in 1..MaxLen /\ (k + 1) - 1 = k /\ k \in 0..MaxLen BY <1>0
  <2>2. FirstCode[k + 1] = (FirstCode[k] + Histogram(k)) * 2
    BY <1>0, <2>1, FirstCodeIs, FirstsAre
  <2> QED BY <1>2, <2>1, <2>2, HistogramType
<1>3. Nat \subseteq T
  <2> HIDE DEF T
  <2> QED BY <1>1, <1>2, Induction
<1> QED BY <1>0, <1>3

Shorter(j) == {t \in Used : lens[t] < j}

(* The first code of a length: besides the sequences that begin with a shorter code
   it counts the symbols without a code, in bits that no code of the length has. *)
LEMMA FirstCodeCounts ==
  ASSUME LensOK, NEW k \in Nat, NEW i \in 1..MaxLen, i <= k
  PROVE  FirstCode[i] * Two[k - i]
           = Histogram(0) * Two[k] + Cardinality(Extended(k, Shorter(i)))
<1> DEFINE E(j) == Cardinality(Extended(k, Shorter(j)))
           T == {j \in Nat : j + 1 \in 1..MaxLen /\ j + 1 <= k =>
                   FirstCode[j + 1] * Two[k - (j + 1)] = Histogram(0) * Two[k] + E(j + 1)}
<1>0. MaxLen \in Nat BY HuffmanAssumption
<1>w. ASSUME NEW j \in 0..k PROVE Within(k, Shorter(j)) /\ E(j) \in Nat
  <2>1. Within(k, Shorter(j)) BY UsedAre DEF Within, Shorter
  <2> QED BY <2>1, ExtendedFinite
<1>1. 0 \in T
  <2> SUFFICES ASSUME 1 <= k
               PROVE  FirstCode[1] * Two[k - 1] = Histogram(0) * Two[k] + E(1)
    OBVIOUS
  <2>1. FirstCode[1] = Histogram(0) * 2
    <3>1. FirstCode[0] = 0 /\ FirstCode[1] = (FirstCode[1 - 1] + Histogram(1 - 1)) * 2
      BY <1>0, FirstCodeIs, FirstsAre, HuffmanAssumption
    <3> QED BY <1>0, <3>1, HistogramType
  <2>2. Shorter(1) = {} BY UsedAre DEF Shorter
  <2>3. E(1) = 0
    <3>1. Extended(k, {}) = {} BY DEF Extended
    <3> QED BY <2>2, <3>1, FS_EmptySet
  <2>4. Two[k] = 2 * Two[k - 1] /\ Two[k - 1] \in Nat
    <3>1. k - 1 \in Nat /\ k = (k - 1) + 1 OBVIOUS
    <3> QED BY <3>1, TwoNext, TwoType
  <2>5. Histogram(0) \in Nat BY <1>0, HistogramType
  <2> HIDE DEF E
  <2> QED BY <2>1, <2>3, <2>4, <2>5
<1>2. ASSUME NEW j \in Nat, j \in T PROVE j + 1 \in T
  <2> SUFFICES ASSUME j + 2 \in 1..MaxLen, j + 2 <= k
               PROVE  FirstCode[j + 2] * Two[k - (j + 2)] = Histogram(0) * Two[k] + E(j + 2)
    <3>1. (j + 1) + 1 = j + 2 OBVIOUS
    <3> HIDE DEF E
    <3> QED BY <3>1
  <2> DEFINE p == FirstCode[j + 1]
             h == Histogram(j + 1)
             a == Two[k - (j + 1)]
             b == Two[k - (j + 2)]
             Those == {t \in Used : lens[t] = j + 1}
  <2>1. p * a = Histogram(0) * Two[k] + E(j + 1)
    <3>1. j + 1 \in 1..MaxLen /\ j + 1 <= k BY <1>0
    <3> HIDE DEF E
    <3> QED BY <1>2, <3>1
  <2>2. FirstCode[j + 2] = (p + h) * 2
    <3>1. j + 2 \in 1..MaxLen /\ (j + 2) - 1 = j + 1 OBVIOUS
    <3> QED BY <1>0, <3>1, FirstCodeIs, FirstsAre
  <2>3. a = 2 * b /\ b \in Nat
    <3>1. k - (j + 1) = (k - (j + 2)) + 1 /\ k - (j + 2) \in Nat OBVIOUS
    <3> QED BY <3>1, TwoNext, TwoType
  <2>4. p \in Nat /\ h \in Nat BY <1>0, FirstCodeType, HistogramType
  <2>5. FirstCode[j + 2] * b = p * a + h * a
    <3> HIDE DEF p, h, a, b
    <3>1. ((p + h) * 2) * b = p * (2 * b) + h * (2 * b) BY <2>3, <2>4
    <3> QED BY <2>2, <2>3, <3>1
  <2>6. Those \subseteq Symbols /\ h = Cardinality(Those)
    <3>1. Those = {s \in Symbols : lens[s] = j + 1} BY DEF Used
    <3> QED BY <3>1 DEF Histogram
  <2>7. Cardinality(Extended(k, Those)) = h * a
    <3>1. j + 1 \in 0..k /\ \A t \in Those : lens[t] = j + 1 OBVIOUS
    <3> HIDE DEF Those
    <3> QED BY <2>6, <3>1, ExtendedSame
  <2>8. E(j + 2) = E(j + 1) + h * a
    <3>1. Shorter(j + 2) = Shorter(j + 1) \cup Those BY UsedAre DEF Shorter
    <3>2. Shorter(j + 1) \cap Those = {} BY UsedAre DEF Shorter
    <3>3. Within(k, Shorter(j + 1)) BY <1>w
    <3>4. Within(k, Those) BY <2>6 DEF Within
    <3> HIDE DEF Those
    <3> QED BY <2>7, <3>1, <3>2, <3>3, <3>4, ExtendedUnion
  <2>9. E(j + 1) \in Nat /\ Histogram(0) * Two[k] \in Nat /\ h * a \in Nat
    <3>1. Histogram(0) \in Nat /\ Two[k] \in Nat /\ a \in Nat BY <1>0, HistogramType, TwoType, <2>3
    <3>2. E(j + 1) \in Nat BY <1>w
    <3> HIDE DEF h, a
    <3>3. \A x, y \in Nat : x * y \in Nat OBVIOUS
    <3> QED BY <2>4, <3>1, <3>2, <3>3
  <2> HIDE DEF E, p, h, a
  <2> QED BY <2>1, <2>5, <2>8, <2>9
<1>3. Nat \subseteq T
  <2> HIDE DEF T
  <2> QED BY <1>1, <1>2, Induction
<1>4. i - 1 \in T /\ (i - 1) + 1 = i
  <2>1. i - 1 \in Nat OBVIOUS
  <2> HIDE DEF T
  <2> QED BY <1>3, <2>1
<1> HIDE DEF E
<1> QED BY <1>4 DEF E

(* The symbols with codes as long that come before s. *)
Peers(s) == {t \in 0..s - 1 : lens[t] = lens[s]}
(* The number of the canonical code of s, and the first of the sequences of MaxLen
   bits that begin with it. *)
Num(s)   == Cardinality(Extended(lens[s], Before(s)))
Start(s) == Cardinality(Extended(MaxLen, Before(s)))

LEMMA SymbolsAre ==
  /\ Symbols = 0..N - 1 /\ N \in Nat /\ MaxLen \in Nat
BY HuffmanAssumption DEF Symbols

LEMMA BeforeIs ==
  ASSUME LensOK, NEW s \in Used
  PROVE  /\ Before(s) = Shorter(lens[s]) \cup Peers(s)
         /\ Shorter(lens[s]) \cap Peers(s) = {}
         /\ Peers(s) \subseteq Symbols
         /\ \A k \in Nat : lens[s] <= k =>
              Within(k, Before(s)) /\ Within(k, Shorter(lens[s])) /\ Within(k, Peers(s))
<1>1. s \in Symbols /\ lens[s] \in 1..MaxLen BY UsedAre
<1>2. 0..s - 1 \subseteq Symbols BY <1>1, SymbolsAre
<1>3. Before(s) = Shorter(lens[s]) \cup Peers(s)
  <2>1. ASSUME NEW t \in Before(s) PROVE t \in Shorter(lens[s]) \cup Peers(s)
    <3>1. t \in Used /\ t \in Symbols BY UsedAre DEF Before
    <3>2. t < s /\ lens[t] = lens[s] => t \in Peers(s)
      BY <1>1, <3>1, SymbolsAre DEF Peers
    <3> QED BY <3>1, <3>2 DEF Before, Shorter
  <2>2. ASSUME NEW t \in Shorter(lens[s]) PROVE t \in Before(s)
    BY <2>2 DEF Before, Shorter
  <2>3. ASSUME NEW t \in Peers(s) PROVE t \in Before(s)
    <3>1. t \in Symbols /\ lens[t] = lens[s] /\ t < s BY <1>1, <1>2, SymbolsAre DEF Peers
    <3>2. t \in Used BY <1>1, <3>1, UsedAre
    <3> QED BY <3>1, <3>2 DEF Before
  <2> QED BY <2>1, <2>2, <2>3
<1>4. Shorter(lens[s]) \cap Peers(s) = {}
  <2>1. \A t \in Shorter(lens[s]) : lens[t] < lens[s] /\ lens[t] \in 1..MaxLen
    BY UsedAre DEF Shorter
  <2> QED BY <1>1, <2>1 DEF Peers
<1>5. ASSUME NEW k \in Nat, lens[s] <= k
      PROVE  Within(k, Before(s)) /\ Within(k, Shorter(lens[s])) /\ Within(k, Peers(s))
  <2>1. Within(k, Shorter(lens[s])) BY <1>1, <1>5, UsedAre DEF Within, Shorter
  <2>2. Within(k, Peers(s)) BY <1>1, <1>2, <1>5 DEF Within, Peers
  <2> QED BY <1>3, <2>1, <2>2 DEF Within
<1> QED BY <1>2, <1>3, <1>4, <1>5 DEF Peers

LEMMA CodeNumber ==
  ASSUME LensOK, NEW s \in Used, NEW k \in Nat, lens[s] <= k
  PROVE  /\ Code(s) \in Nat /\ Code(s) = FirstCode[lens[s]] + Cardinality(Peers(s))
         /\ Cardinality(Peers(s)) \in Nat
         /\ Code(s) * Two[k - lens[s]]
              = Histogram(0) * Two[k] + Cardinality(Extended(k, Before(s)))
<1> DEFINE i == lens[s]
           f == FirstCode[i]
           r == Cardinality(Peers(s))
           w == Two[k - i]
           a == Cardinality(Extended(k, Shorter(i)))
           b == Cardinality(Extended(k, Peers(s)))
           c == Histogram(0) * Two[k]
<1>1. i \in 1..MaxLen /\ i \in 0..k BY UsedAre
<1>2. Code(s) = f + r BY DEF Code, Peers
<1>3. f \in Nat /\ r \in Nat
  <2>1. i \in 0..MaxLen BY <1>1
  <2>2. Peers(s) \subseteq Symbols BY BeforeIs
  <2> QED BY <2>1, <2>2, FirstCodeType, SymbolsFinite
<1>4. f * w = c + a BY <1>1, FirstCodeCounts
<1>5. b = r * w
  <2>1. \A t \in Peers(s) : lens[t] = i BY DEF Peers
  <2>2. Peers(s) \subseteq Symbols BY BeforeIs
  <2> QED BY <1>1, <2>1, <2>2, ExtendedSame
<1>6. Cardinality(Extended(k, Before(s))) = a + b
  <2>1. Within(k, Shorter(i)) /\ Within(k, Peers(s)) /\ Shorter(i) \cap Peers(s) = {}
        /\ Before(s) = Shorter(i) \cup Peers(s)
    BY BeforeIs
  <2>2. Cardinality(Extended(k, Shorter(i) \cup Peers(s))) = a + b
    BY <2>1, ExtendedUnion
  <2> QED BY <2>1, <2>2
<1>7. a \in Nat /\ b \in Nat
  <2>1. Within(k, Shorter(i)) /\ Within(k, Peers(s)) BY BeforeIs
  <2> QED BY <2>1, ExtendedFinite
<1>8. c \in Nat
  <2>1. Histogram(0) \in Nat /\ Two[k] \in Nat BY HistogramType, TwoType, SymbolsAre
  <2>2. \A x, y \in Nat : x * y \in Nat OBVIOUS
  <2> QED BY <2>1, <2>2
<1>9. w \in Nat BY <1>1, TwoType
<1>10. (f + r) * w = c + (a + b)
  <2> HIDE DEF f, r, w, a, b, c
  <2>1. (f + r) * w = f * w + r * w BY <1>3, <1>9
  <2> QED BY <2>1, <1>4, <1>5, <1>7, <1>8
<1> HIDE DEF w, a, b, c
<1> QED BY <1>2, <1>3, <1>6, <1>10 DEF w, c

(* insert gets the canonical codes, though the numbers are larger. *)
LEMMA CodeIsCanonical ==
  ASSUME LensOK, NEW s \in Used
  PROVE  CodeBits(Code(s), lens[s]) = Canonical(s)
<1> DEFINE k == lens[s]
<1>1. k \in Nat /\ k - k = 0 /\ k <= k BY UsedAre
<1>2. Code(s) \in Nat /\ Code(s) * Two[k - k] = Histogram(0) * Two[k] + Num(s)
  BY <1>1, CodeNumber DEF Num
<1>3. Num(s) \in Nat BY <1>1, BeforeIs, ExtendedFinite DEF Num
<1>4. Histogram(0) \in Nat /\ Two[k] \in Nat /\ Two[0] = 1
  <2>1. 0 \in 0..MaxLen BY SymbolsAre
  <2>2. Histogram(0) \in Nat BY <2>1, HistogramType
  <2> HIDE DEF k
  <2> QED BY <1>1, <2>2, TwoType, TwoNext
<1>5. Code(s) = Num(s) + Histogram(0) * Two[k]
  <2> HIDE DEF k
  <2>1. Histogram(0) * Two[k] \in Nat
    <3>1. \A x, y \in Nat : x * y \in Nat OBVIOUS
    <3> QED BY <1>4, <3>1
  <2>2. Two[k - k] = 1 BY <1>1, <1>4
  <2>3. Code(s) * Two[k - k] = Code(s) BY <1>2, <2>2
  <2> QED BY <1>2, <1>3, <2>1, <2>3
<1>6. CodeBits(Num(s) + Histogram(0) * Two[k], k) = CodeBits(Num(s), k)
  BY <1>1, <1>3, <1>4, BitsModulo
<1> QED BY <1>5, <1>6 DEF Canonical, Num

LEMMA NumType ==
  ASSUME LensOK, NEW s \in Used
  PROVE  /\ lens[s] \in 1..MaxLen /\ Num(s) \in Nat /\ Start(s) \in Nat
         /\ Canonical(s) = CodeBits(Num(s), lens[s])
         /\ Canonical(s) \in Strings(lens[s])
<1>1. lens[s] \in 1..MaxLen /\ lens[s] \in Nat /\ MaxLen \in Nat BY UsedAre, SymbolsAre
<1>2. Num(s) \in Nat BY <1>1, BeforeIs, ExtendedFinite DEF Num
<1>3. Start(s) \in Nat BY <1>1, BeforeIs, ExtendedFinite DEF Start
<1> QED BY <1>1, <1>2, <1>3, BitsType DEF Canonical, Num

LEMMA StartIs ==
  ASSUME LensOK, NEW s \in Used
  PROVE  Start(s) = Num(s) * Two[MaxLen - lens[s]]
<1> DEFINE k == lens[s]
           w == Two[MaxLen - k]
           h == Histogram(0)
           c == Code(s)
           p == Two[k]
           a == Num(s)
           b == Start(s)
<1>1. k \in Nat /\ k - k = 0 /\ k <= k /\ k <= MaxLen /\ MaxLen \in Nat /\ MaxLen - k \in Nat
  BY UsedAre, SymbolsAre
<1>2. c \in Nat /\ c * Two[k - k] = h * p + a BY <1>1, CodeNumber DEF Num
<1>3. c * w = h * Two[MaxLen] + b BY <1>1, CodeNumber DEF Start
<1>4. Two[MaxLen] = p * w
  <2>1. MaxLen = k + (MaxLen - k) BY <1>1
  <2> QED BY <1>1, <2>1, TwoSum
<1>5. w \in Nat /\ p \in Nat /\ Two[k - k] = 1 BY <1>1, TwoType, TwoNext
<1>6. h \in Nat
  <2>1. 0 \in 0..MaxLen BY SymbolsAre
  <2> QED BY <2>1, HistogramType
<1>7. a \in Nat /\ b \in Nat BY NumType
<1> HIDE DEF w, h, c, p, a, b, k
<1>8. c = h * p + a
  <2>1. c * 1 = c BY <1>2
  <2> QED BY <1>2, <1>5, <2>1
<1>9. (h * p + a) * w = h * (p * w) + a * w
  <2>1. \A x, y, z, u \in Nat : (x * y + z) * u = x * (y * u) + z * u OBVIOUS
  <2> QED BY <1>5, <1>6, <1>7, <2>1
<1>10. h * (p * w) \in Nat /\ a * w \in Nat
  <2>1. \A x, y \in Nat : x * y \in Nat OBVIOUS
  <2> QED BY <1>5, <1>6, <1>7, <2>1
<1>11. h * (p * w) + a * w = h * (p * w) + b BY <1>3, <1>4, <1>8, <1>9
<1>12. b = a * w BY <1>7, <1>10, <1>11
<1> QED BY <1>12 DEF b, a, w, k

(* The sequences that begin with the code of s and one that comes later. *)
LEMMA Follows ==
  ASSUME LensOK, NEW s \in Used, NEW T, Within(MaxLen, T), Before(s) \subseteq T, s \in T
  PROVE  Start(s) + Two[MaxLen - lens[s]] <= Cardinality(Extended(MaxLen, T))
<1> DEFINE w == Two[MaxLen - lens[s]]
<1>1. lens[s] \in 0..MaxLen /\ MaxLen \in Nat /\ s \in Symbols BY UsedAre, SymbolsAre
<1>2. Within(MaxLen, Before(s)) /\ Within(MaxLen, {s})
  BY <1>1, BeforeIs DEF Within
<1>3. s \notin Before(s)
  BY <1>1, SymbolsAre DEF Before
<1>4. Cardinality(Extended(MaxLen, {s})) = w
  <2>1. \A t \in {s} : lens[t] = lens[s] OBVIOUS
  <2>2. Cardinality(Extended(MaxLen, {s})) = Cardinality({s}) * w
    BY <1>1, <2>1, ExtendedSame
  <2>3. Cardinality({s}) = 1 BY FS_Singleton
  <2>4. w \in Nat BY <1>1, TwoType
  <2>5. 1 * w = w
    <3> HIDE DEF w
    <3> QED BY <2>4
  <2> QED BY <2>2, <2>3, <2>5
<1>5. Before(s) \cap {s} = {} BY <1>3
<1>6. Cardinality(Extended(MaxLen, Before(s) \cup {s})) = Start(s) + w
  <2>1. Cardinality(Extended(MaxLen, Before(s) \cup {s}))
          = Cardinality(Extended(MaxLen, Before(s))) + Cardinality(Extended(MaxLen, {s}))
    BY <1>1, <1>2, <1>5, ExtendedUnion
  <2> QED BY <1>4, <2>1 DEF Start
<1>7. Cardinality(Extended(MaxLen, Before(s) \cup {s})) <= Cardinality(Extended(MaxLen, T))
  <2>1. Before(s) \cup {s} \subseteq T OBVIOUS
  <2> QED BY <1>1, <2>1, ExtendedSubset
<1> QED BY <1>6, <1>7

LEMMA UsedWithin ==
  ASSUME LensOK
  PROVE  Within(MaxLen, Used) /\ Share \in Nat /\ IsFiniteSet(Extended(MaxLen, Used))
<1>1. Within(MaxLen, Used) BY UsedAre DEF Within
<1> QED BY <1>1, ExtendedFinite, SymbolsAre DEF Share

LEMMA Ordered ==
  ASSUME LensOK, NEW s \in Used, NEW t \in Used, s # t
  PROVE  \/ Start(s) + Two[MaxLen - lens[s]] <= Start(t)
         \/ Start(t) + Two[MaxLen - lens[t]] <= Start(s)
<1>1. /\ s \in Symbols /\ t \in Symbols /\ Symbols = 0..N - 1 /\ N \in Nat
      /\ lens[s] \in 1..MaxLen /\ lens[t] \in 1..MaxLen /\ MaxLen \in Nat
  BY UsedAre, SymbolsAre
<1>2. s \in Before(t) \/ t \in Before(s)
  BY <1>1 DEF Before
<1>3. ASSUME NEW u \in Used, NEW v \in Used, u \in Before(v)
      PROVE  Start(u) + Two[MaxLen - lens[u]] <= Start(v)
  <2>1. \A x \in Used : x \in Symbols /\ lens[x] \in 1..MaxLen BY UsedAre
  <2>2. Before(u) \subseteq Before(v)
    <3> SUFFICES ASSUME NEW x \in Before(u) PROVE x \in Before(v) OBVIOUS
    <3>1. x \in Used /\ (lens[x] < lens[u] \/ (lens[x] = lens[u] /\ x < u)) BY DEF Before
    <3>2. lens[u] < lens[v] \/ (lens[u] = lens[v] /\ u < v) BY <1>3 DEF Before
    <3>3. /\ lens[x] \in Int /\ lens[u] \in Int /\ lens[v] \in Int
          /\ x \in Int /\ u \in Int /\ v \in Int
      BY <1>1, <2>1, <3>1
    <3>4. lens[x] < lens[v] \/ (lens[x] = lens[v] /\ x < v) BY <3>1, <3>2, <3>3
    <3> QED BY <3>1, <3>4 DEF Before
  <2>3. lens[v] <= MaxLen BY <1>1, <2>1
  <2>4. Within(MaxLen, Before(v)) BY <1>1, <2>3, BeforeIs
  <2> QED BY <1>3, <2>2, <2>4, Follows DEF Start
<1> QED BY <1>2, <1>3

(* When the codes leave nothing over, or less, none begins with another. *)
LEMMA PrefixFree ==
  ASSUME LensOK, Share <= Two[MaxLen], NEW s \in Used, NEW t \in Used, s # t
  PROVE  ~IsPrefix(Canonical(s), Canonical(t))
<1> SUFFICES ASSUME IsPrefix(Canonical(s), Canonical(t)) PROVE FALSE OBVIOUS
<1> DEFINE k == lens[s]
           l == lens[t]
           a == Num(s)
           b == Num(t)
           d == Two[l - k]
           v == Two[MaxLen - l]
           w == Two[MaxLen - k]
           q == b \div d
           r == b % d
<1>1. /\ k \in 1..MaxLen /\ l \in 1..MaxLen /\ MaxLen \in Nat
      /\ a \in Nat /\ b \in Nat
      /\ Canonical(s) = CodeBits(a, k) /\ Canonical(t) = CodeBits(b, l)
      /\ Len(Canonical(s)) = k /\ Len(Canonical(t)) = l
  <2>1. k \in 1..MaxLen /\ l \in 1..MaxLen /\ MaxLen \in Nat BY UsedAre, SymbolsAre
  <2>2. k \in Nat /\ l \in Nat BY <2>1
  <2>3. Canonical(s) \in Strings(k) /\ Canonical(t) \in Strings(l) BY NumType
  <2>4. Len(Canonical(s)) = k /\ Len(Canonical(t)) = l BY <2>2, <2>3, StringsAre
  <2> QED BY <2>1, <2>4, NumType
<1>2. k <= l /\ SubSeq(Canonical(t), 1, k) = Canonical(s)
  <2>1. k <= l /\ SubSeq(Canonical(s), 1, k) = SubSeq(Canonical(t), 1, k)
    BY <1>1 DEF IsPrefix
  <2>2. Canonical(s) \in Seq(Bit) BY <1>1, NumType, StringsAre
  <2>3. SubSeq(Canonical(s), 1, k) = Canonical(s) BY <1>1, <2>2
  <2> QED BY <2>1, <2>3
<1>3. /\ d \in Nat /\ d > 0 /\ v \in Nat /\ v > 0 /\ w = d * v
      /\ Two[l] = Two[k] * d /\ Two[MaxLen] = Two[k] * w
      /\ Two[k] \in Nat /\ Two[k] > 0
  <2>1. l - k \in Nat /\ MaxLen - l \in Nat /\ MaxLen - k \in Nat /\ k \in Nat
        /\ MaxLen - k = (l - k) + (MaxLen - l) /\ l = k + (l - k) /\ MaxLen = k + (MaxLen - k)
    BY <1>1, <1>2
  <2>2. w = d * v BY <2>1, TwoSum
  <2>3. Two[l] = Two[k] * d BY <2>1, TwoSum
  <2>4. Two[MaxLen] = Two[k] * w BY <2>1, TwoSum
  <2> HIDE DEF k, l
  <2> QED BY <2>1, <2>2, <2>3, <2>4, TwoType
<1>4. q \in Nat /\ r \in Nat /\ r < d /\ b = d * q + r BY <1>1, <1>3, Division
<1>5. CodeBits(q, k) = CodeBits(a, k)
  <2>1. k \in 0..l /\ l \in Nat BY <1>1, <1>2
  <2>2. SubSeq(CodeBits(b, l), 1, k) = CodeBits(q, k) BY <1>1, <2>1, BitsPrefix
  <2> QED BY <1>1, <1>2, <2>2
<1>6. Start(s) = a * w /\ Start(t) = b * v BY StartIs
<1>7. a * w + w <= Two[k] * w /\ b * v + v <= (Two[k] * d) * v
  <2>1. Start(s) + w <= Share /\ Start(t) + v <= Share
    <3>1. Within(MaxLen, Used) BY UsedWithin
    <3>2. Before(s) \subseteq Used /\ Before(t) \subseteq Used BY DEF Before
    <3> QED BY <3>1, <3>2, Follows DEF Share
  <2>2. (Two[k] * d) * v = Two[k] * w
    <3> DEFINE p == Two[k]
    <3>1. p \in Nat BY <1>3
    <3> HIDE DEF p, d, v, w
    <3>2. (p * d) * v = p * (d * v) BY <1>3, <3>1
    <3> QED BY <1>3, <3>2 DEF p
  <2>3. Share \in Nat BY UsedWithin
  <2>4. w \in Nat
    <3>1. MaxLen - k \in Nat BY <1>1
    <3> QED BY <3>1, TwoType
  <2>5. Start(s) \in Nat /\ Start(t) \in Nat /\ Two[MaxLen] \in Nat BY <1>1, NumType, TwoType
  <2>6. Start(s) + w <= Two[MaxLen] /\ Start(t) + v <= Two[MaxLen]
    <3> DEFINE x == Start(s)
               y == Start(t)
               z == Share
               u == Two[MaxLen]
    <3>1. x \in Nat /\ y \in Nat /\ z \in Nat /\ u \in Nat /\ w \in Nat /\ v \in Nat
          /\ x + w <= z /\ y + v <= z /\ z <= u
      BY <1>3, <2>1, <2>3, <2>4, <2>5
    <3>2. x + w <= u /\ y + v <= u
      <4> HIDE DEF x, y, z, u, w, v
      <4> QED BY <3>1
    <3> QED BY <3>2
  <2> QED BY <1>3, <1>6, <2>2, <2>6
<1>8. a < Two[k] /\ b < Two[k] * d
  <2>1. ASSUME NEW x \in Nat, NEW y \in Nat, NEW z \in Nat, z > 0, x * z + z <= y * z
        PROVE  x < y
    <3>1. SUFFICES ASSUME y <= x PROVE FALSE BY <2>1
    <3>2. CASE y = x
      <4>1. x * z \in Nat BY <2>1
      <4> QED BY <2>1, <3>2, <4>1
    <3>3. CASE y < x
      <4>1. z * y + z <= z * x BY <2>1, <3>3, Multiples
      <4>2. z * y = y * z /\ z * x = x * z /\ y * z \in Nat /\ x * z \in Nat BY <2>1
      <4> QED BY <2>1, <4>1, <4>2
    <3> QED BY <2>1, <3>1, <3>2, <3>3
  <2>2. w \in Nat /\ w > 0
    <3>1. MaxLen - k \in Nat BY <1>1
    <3> QED BY <3>1, TwoType
  <2>3. Two[k] * d \in Nat
    <3>1. \A x, y \in Nat : x * y \in Nat OBVIOUS
    <3> QED BY <1>3, <3>1
  <2> HIDE DEF a, b, w, v, d
  <2>4. a < Two[k] BY <1>1, <1>3, <1>7, <2>1, <2>2
  <2>5. b < Two[k] * d BY <1>1, <1>3, <1>7, <2>1, <2>3
  <2> QED BY <2>4, <2>5
<1>9. q < Two[k]
  <2> DEFINE p == Two[k]
  <2>0. p \in Nat /\ b < p * d BY <1>3, <1>8
  <2> HIDE DEF p, q, r, d, b
  <2> SUFFICES ASSUME p <= q PROVE FALSE BY <1>4, <2>0 DEF p
  <2>1. CASE p = q
    <3>1. d * q = p * d /\ d * q \in Nat BY <1>3, <1>4, <2>0, <2>1
    <3> QED BY <1>1, <1>4, <2>0, <3>1
  <2>2. CASE p < q
    <3>1. d * p + d <= d * q BY <1>3, <1>4, <2>0, <2>2, Multiples
    <3>2. d * p = p * d /\ d * p \in Nat /\ d * q \in Nat BY <1>3, <1>4, <2>0
    <3> QED BY <1>3, <1>4, <2>0, <3>1, <3>2
  <2> QED BY <1>4, <2>0, <2>1, <2>2
<1>10. q = a
  <2>1. q \in 0..Two[k] - 1 /\ a \in 0..Two[k] - 1
    <3> DEFINE p == Two[k]
    <3>1. p \in Nat /\ a \in Nat /\ q \in Nat /\ a < p /\ q < p
      BY <1>1, <1>3, <1>4, <1>8, <1>9
    <3>2. q \in 0..p - 1 /\ a \in 0..p - 1
      <4> HIDE DEF p, q, a
      <4> QED BY <3>1
    <3> QED BY <3>2
  <2>2. k \in Nat BY <1>1
  <2> HIDE DEF q, a, k
  <2> QED BY <1>5, <2>1, <2>2, BitsInjective
(* So the sequences that begin with the code of t are among those of s. *)
<1>11. a * w <= b * v /\ b * v < a * w + w
  <2> HIDE DEF q, r, d, v, w, a, b
  <2>1. b * v = (d * a) * v + r * v BY <1>1, <1>3, <1>4, <1>10
  <2>2. (d * a) * v = a * w BY <1>1, <1>3
  <2>3. r * v + v <= d * v
    <3>1. v * r + v <= v * d BY <1>3, <1>4, Multiples
    <3>2. v * r = r * v /\ v * d = d * v BY <1>3, <1>4
    <3> QED BY <3>1, <3>2
  <2>4. r * v \in Nat /\ d * v \in Nat /\ a * w \in Nat BY <1>1, <1>3, <1>4
  <2> QED BY <1>3, <2>1, <2>2, <2>3, <2>4
<1>12. a * w + w <= b * v \/ b * v + v <= a * w
  BY <1>6, Ordered
<1> HIDE DEF a, b, v, w, d
<1>13. a * w \in Nat /\ b * v \in Nat /\ w \in Nat
  <2>1. \A x, y \in Nat : x * y \in Nat OBVIOUS
  <2> QED BY <1>1, <1>3, <2>1
<1> QED BY <1>3, <1>11, <1>12, <1>13

-----------------------------------------------------------------------------
(* Prefixes *)

LEMMA PrefixIs ==
  ASSUME NEW a \in Seq(Bit), NEW b \in Seq(Bit)
  PROVE  /\ IsPrefix(a, b) <=> Len(a) <= Len(b) /\ a = SubSeq(b, 1, Len(a))
         /\ IsPrefix(a, b) <=> Len(a) <= Len(b) /\ \A i \in 1..Len(a) : a[i] = b[i]
<1>1. SubSeq(a, 1, Len(a)) = a OBVIOUS
<1>2. Len(a) <= Len(b) => (a = SubSeq(b, 1, Len(a)) <=> \A i \in 1..Len(a) : a[i] = b[i])
  OBVIOUS
<1> QED BY <1>1, <1>2 DEF IsPrefix

LEMMA PrefixTrans ==
  ASSUME NEW a \in Seq(Bit), NEW b \in Seq(Bit), NEW c \in Seq(Bit),
         IsPrefix(a, b), IsPrefix(b, c)
  PROVE  IsPrefix(a, c)
<1>1. Len(a) <= Len(b) /\ \A i \in 1..Len(a) : a[i] = b[i] BY PrefixIs
<1>2. Len(b) <= Len(c) /\ \A i \in 1..Len(b) : b[i] = c[i] BY PrefixIs
<1>3. Len(a) \in Nat /\ Len(b) \in Nat /\ Len(c) \in Nat OBVIOUS
<1>4. Len(a) <= Len(c) /\ \A i \in 1..Len(a) : a[i] = c[i] BY <1>1, <1>2, <1>3
<1> QED BY <1>4, PrefixIs

LEMMA PrefixesOfOne ==
  ASSUME NEW a \in Seq(Bit), NEW b \in Seq(Bit), NEW c \in Seq(Bit),
         IsPrefix(a, c), IsPrefix(b, c), Len(a) <= Len(b)
  PROVE  IsPrefix(a, b)
<1>1. \A i \in 1..Len(a) : a[i] = c[i] BY PrefixIs
<1>2. \A i \in 1..Len(b) : b[i] = c[i] BY PrefixIs
<1>3. Len(a) \in Nat /\ Len(b) \in Nat OBVIOUS
<1>4. \A i \in 1..Len(a) : a[i] = b[i] BY <1>1, <1>2, <1>3
<1> QED BY <1>4, PrefixIs

LEMMA PrefixConcat ==
  ASSUME NEW a \in Seq(Bit), NEW b \in Seq(Bit)
  PROVE  a \o b \in Seq(Bit) /\ Len(a \o b) = Len(a) + Len(b) /\ IsPrefix(a, a \o b)
<1>1. a \o b \in Seq(Bit) /\ Len(a \o b) = Len(a) + Len(b) OBVIOUS
<1>2. Len(a) <= Len(a \o b) /\ \A i \in 1..Len(a) : a[i] = (a \o b)[i] OBVIOUS
<1> QED BY <1>1, <1>2, PrefixIs

LEMMA PrefixSame ==
  ASSUME NEW a \in Seq(Bit), NEW b \in Seq(Bit), IsPrefix(a, b), Len(a) = Len(b)
  PROVE  a = b
<1>1. a = SubSeq(b, 1, Len(a)) BY PrefixIs
<1> QED BY <1>1

LEMMA CanonicalType ==
  ASSUME LensOK, NEW s \in Used
  PROVE  /\ Canonical(s) \in Seq(Bit) /\ Len(Canonical(s)) = lens[s]
         /\ lens[s] \in 1..MaxLen /\ MaxLen \in Nat
<1>1. lens[s] \in 1..MaxLen /\ Canonical(s) \in Strings(lens[s]) BY NumType
<1>2. lens[s] \in Nat /\ MaxLen \in Nat BY <1>1, SymbolsAre
<1> QED BY <1>1, <1>2, StringsAre

(* When the codes leave nothing over, every sequence begins with one. *)
LEMMA CodesCover ==
  ASSUME LensOK, Share = Two[MaxLen], NEW c \in Strings(MaxLen)
  PROVE  \E s \in Used : IsPrefix(Canonical(s), c)
<1> DEFINE E == Extended(MaxLen, Used)
           W == Strings(MaxLen)
           g == [e \in E |-> Canonical(e[1]) \o e[2]]
<1>0. Share <= Two[MaxLen] /\ MaxLen \in Nat
  BY TwoType, SymbolsAre
<1>a. ASSUME NEW e \in E
      PROVE  \E s \in Used : \E b \in Strings(MaxLen - lens[s]) : e = <<s, b>>
  BY <1>0, ExtendedIs
<1>1. ASSUME NEW s \in Used, NEW b \in Strings(MaxLen - lens[s])
      PROVE  /\ Canonical(s) \o b \in W /\ IsPrefix(Canonical(s), Canonical(s) \o b)
             /\ b \in Seq(Bit) /\ Canonical(s) \in Seq(Bit)
  <2>1. MaxLen - lens[s] \in Nat /\ lens[s] + (MaxLen - lens[s]) = MaxLen BY CanonicalType
  <2>2. b \in Seq(Bit) /\ Len(b) = MaxLen - lens[s] BY <2>1, StringsAre
  <2>3. /\ Canonical(s) \o b \in Seq(Bit)
        /\ Len(Canonical(s) \o b) = lens[s] + (MaxLen - lens[s])
        /\ IsPrefix(Canonical(s), Canonical(s) \o b)
    BY <2>2, CanonicalType, PrefixConcat
  <2> QED BY <2>1, <2>2, <2>3, CanonicalType, SeqIsString
<1>2. g \in [E -> W]
  <2> SUFFICES ASSUME NEW e \in E PROVE Canonical(e[1]) \o e[2] \in W OBVIOUS
  <2>1. PICK s, b : s \in Used /\ b \in Strings(MaxLen - lens[s]) /\ e = <<s, b>> BY <1>a
  <2>2. e[1] = s /\ e[2] = b BY <2>1
  <2> QED BY <2>1, <2>2, <1>1
<1>3. ASSUME NEW e \in E, NEW f \in E, g[e] = g[f] PROVE e = f
  <2>1. PICK s, b : s \in Used /\ b \in Strings(MaxLen - lens[s]) /\ e = <<s, b>> BY <1>a
  <2>2. PICK t, d : t \in Used /\ d \in Strings(MaxLen - lens[t]) /\ f = <<t, d>> BY <1>a
  <2>3. Canonical(s) \o b = Canonical(t) \o d BY <1>3, <2>1, <2>2
  <2>4. /\ IsPrefix(Canonical(s), Canonical(s) \o b) /\ Canonical(s) \o b \in W
        /\ IsPrefix(Canonical(t), Canonical(s) \o b)
    BY <1>1, <2>1, <2>2, <2>3
  <2>5. Canonical(s) \o b \in Seq(Bit) BY <1>0, <2>4, StringsAre
  <2>6. s = t
    <3>1. Canonical(s) \in Seq(Bit) /\ Canonical(t) \in Seq(Bit) BY <2>1, <2>2, CanonicalType
    <3>2. CASE Len(Canonical(s)) <= Len(Canonical(t))
      <4>1. IsPrefix(Canonical(s), Canonical(t)) BY <2>4, <2>5, <3>1, <3>2, PrefixesOfOne
      <4> QED BY <1>0, <2>1, <2>2, <4>1, PrefixFree
    <3>3. CASE Len(Canonical(t)) <= Len(Canonical(s))
      <4>1. IsPrefix(Canonical(t), Canonical(s)) BY <2>4, <2>5, <3>1, <3>3, PrefixesOfOne
      <4> QED BY <1>0, <2>1, <2>2, <4>1, PrefixFree
    <3>4. Len(Canonical(s)) \in Nat /\ Len(Canonical(t)) \in Nat BY <3>1
    <3> QED BY <3>2, <3>3, <3>4
  <2>7. b = d
    <3> DEFINE a == Canonical(s)
    <3>1. a \in Seq(Bit) /\ b \in Seq(Bit) /\ d \in Seq(Bit) /\ a \o b = a \o d
      BY <1>1, <2>1, <2>2, <2>3, <2>6
    <3> HIDE DEF a
    <3>2. Len(b) = Len(d)
      <4>1. Len(a \o b) = Len(a) + Len(b) /\ Len(a \o d) = Len(a) + Len(d) BY <3>1
      <4>2. Len(a) \in Nat /\ Len(b) \in Nat /\ Len(d) \in Nat BY <3>1
      <4> QED BY <3>1, <4>1, <4>2
    <3>3. \A i \in 1..Len(b) : b[i] = d[i]
      <4>1. \A i \in 1..Len(b) : (a \o b)[Len(a) + i] = b[i] BY <3>1
      <4>2. \A i \in 1..Len(d) : (a \o d)[Len(a) + i] = d[i] BY <3>1
      <4> QED BY <3>1, <3>2, <4>1, <4>2
    <3> QED BY <3>1, <3>2, <3>3
  <2> QED BY <2>1, <2>2, <2>6, <2>7
<1>4. IsFiniteSet(W) /\ Cardinality(W) = Two[MaxLen] BY <1>0, StringsNumber
<1>5. Cardinality(E) = Cardinality(W) BY <1>4 DEF Share
<1>6. g \in Injection(E, W)
  <2> HIDE DEF E, W, g
  <2> QED BY <1>2, <1>3 DEF Injection, IsInjective
<1>7. g \in Surjection(E, W)
  <2> HIDE DEF E, W, g
  <2> QED BY <1>4, <1>5, <1>6, FS_Injection
<1>8. PICK e \in E : g[e] = c
  <2> HIDE DEF E, g
  <2> QED BY <1>7 DEF Surjection
<1>9. PICK s, b : s \in Used /\ b \in Strings(MaxLen - lens[s]) /\ e = <<s, b>> BY <1>a
<1>10. c = Canonical(s) \o b BY <1>8, <1>9
<1> QED BY <1>1, <1>9, <1>10

LEMMA CodesMeet ==
  ASSUME LensOK, Share = Two[MaxLen], NEW p \in Seq(Bit), Len(p) <= MaxLen
  PROVE  \E s \in Used : IsPrefix(Canonical(s), p) \/ IsPrefix(p, Canonical(s))
<1> DEFINE c == [i \in 1..MaxLen |-> IF i <= Len(p) THEN p[i] ELSE 0]
<1>1. c \in Strings(MaxLen) BY DEF Strings, Bit
<1>2. c \in Seq(Bit) /\ Len(c) = MaxLen BY <1>1, StringsAre, SymbolsAre
<1>3. IsPrefix(p, c)
  <2>1. \A i \in 1..Len(p) : p[i] = c[i] BY SymbolsAre
  <2> HIDE DEF c
  <2> QED BY <2>1, <1>2, PrefixIs
<1> HIDE DEF c
<1>4. PICK s \in Used : IsPrefix(Canonical(s), c) BY <1>1, CodesCover
<1>5. Canonical(s) \in Seq(Bit) BY CanonicalType
<1>6. CASE Len(p) <= Len(Canonical(s))
  BY <1>2, <1>3, <1>4, <1>5, <1>6, PrefixesOfOne
<1>7. CASE Len(Canonical(s)) <= Len(p)
  BY <1>2, <1>3, <1>4, <1>5, <1>7, PrefixesOfOne
<1>8. Len(p) \in Nat /\ Len(Canonical(s)) \in Nat BY <1>5
<1> QED BY <1>6, <1>7, <1>8

-----------------------------------------------------------------------------
(* Codes that two symbols share *)

LEMMA RankOnto ==
  ASSUME NEW T, T \subseteq Symbols, NEW r \in Nat, r < Cardinality(T)
  PROVE  \E u \in T : Cardinality({v \in T : v < u}) = r
<1> DEFINE B(u) == {v \in T : v < u}
           m == Cardinality(T)
           I == 0..m - 1
           g == [u \in T |-> Cardinality(B(u))]
<1>0. IsFiniteSet(T) /\ m \in Nat BY SymbolsFinite
<1>1. \A u \in T : u \in Int BY SymbolsAre
<1>2. ASSUME NEW u \in T PROVE IsFiniteSet(B(u)) /\ Cardinality(B(u)) \in Nat
  <2>1. B(u) \subseteq Symbols OBVIOUS
  <2> QED BY <2>1, SymbolsFinite
<1>3. ASSUME NEW u \in T, NEW S, B(u) \subseteq S, u \in S, S \subseteq T
      PROVE  Cardinality(B(u)) < Cardinality(S)
  <2>1. IsFiniteSet(S) /\ Cardinality(S) \in Nat
    <3>1. S \subseteq Symbols BY <1>3
    <3> QED BY <3>1, SymbolsFinite
  <2>2. u \notin B(u) BY <1>1
  <2>3. B(u) \in SUBSET S /\ S # B(u) BY <1>3, <2>2
  <2>4. Cardinality(B(u)) <= Cardinality(S) /\ Cardinality(S) # Cardinality(B(u))
    BY <2>1, <2>3, FS_Subset
  <2>5. Cardinality(B(u)) \in Nat BY <1>2
  <2> HIDE DEF B
  <2> QED BY <2>1, <2>4, <2>5
<1>4. g \in [T -> I]
  <2> SUFFICES ASSUME NEW u \in T PROVE Cardinality(B(u)) \in I OBVIOUS
  <2>1. Cardinality(B(u)) < m BY <1>3
  <2> HIDE DEF B, m
  <2> QED BY <1>0, <1>2, <2>1
<1>5. ASSUME NEW u \in T, NEW v \in T, g[u] = g[v] PROVE u = v
  <2>1. ASSUME NEW x \in T, NEW y \in T, x < y PROVE g[x] < g[y]
    <3>1. B(x) \subseteq B(y) /\ x \in B(y) /\ B(y) \subseteq T BY <1>1, <2>1
    <3>2. Cardinality(B(x)) < Cardinality(B(y)) BY <3>1, <1>3
    <3> QED BY <3>2
  <2>2. g[u] \in Int /\ g[v] \in Int BY <1>2
  <2> HIDE DEF g
  <2> QED BY <1>1, <1>5, <2>1, <2>2
<1>6. IsFiniteSet(I) /\ Cardinality(I) = m
  <2> HIDE DEF m
  <2>1. 0 \in Int /\ m - 1 \in Int /\ (IF 0 > m - 1 THEN 0 ELSE m - 1 - 0 + 1) = m BY <1>0
  <2> QED BY <2>1, FS_Interval
<1>7. g \in Injection(T, I)
  <2> HIDE DEF g, I
  <2> QED BY <1>4, <1>5 DEF Injection, IsInjective
<1>8. g \in Surjection(T, I)
  <2> HIDE DEF g, I
  <2> QED BY <1>6, <1>7, FS_Injection
<1>9. r \in I
  <2>1. r < m OBVIOUS
  <2> HIDE DEF m
  <2> QED BY <1>0, <2>1
<1>10. PICK u \in T : g[u] = r
  <2> HIDE DEF g, I
  <2> QED BY <1>8, <1>9 DEF Surjection
<1> QED BY <1>10

(* Numbers with the same k bits are at least 2^k apart. *)
LEMMA BitsApart ==
  ASSUME NEW k \in Nat, NEW x \in Nat, NEW y \in Nat, x < y,
         CodeBits(x, k) = CodeBits(y, k)
  PROVE  x + Two[k] <= y
<1> DEFINE d == Two[k]
           p == x \div d
           q == y \div d
           u == x % d
           v == y % d
<1>1. d \in Nat /\ d > 0 BY TwoType
<1>2. p \in Nat /\ u \in Nat /\ u < d /\ x = d * p + u BY <1>1, Division
<1>3. q \in Nat /\ v \in Nat /\ v < d /\ y = d * q + v BY <1>1, Division
<1>4. d * p = p * d /\ d * q = q * d
  <2> HIDE DEF d, p, q
  <2> QED BY <1>1, <1>2, <1>3
<1>5. CodeBits(u, k) = CodeBits(v, k)
  <2>1. x = u + p * d /\ y = v + q * d
    <3> HIDE DEF d, p, q, u, v
    <3>1. \A a, b \in Nat : a * b \in Nat OBVIOUS
    <3> QED BY <1>1, <1>2, <1>3, <1>4, <3>1
  <2>2. CodeBits(u + p * d, k) = CodeBits(u, k) BY <1>2, BitsModulo
  <2>3. CodeBits(v + q * d, k) = CodeBits(v, k) BY <1>3, BitsModulo
  <2> HIDE DEF d, p, q, u, v
  <2> QED BY <2>1, <2>2, <2>3
<1>6. u = v
  <2>1. u \in 0..d - 1 /\ v \in 0..d - 1
    <3> HIDE DEF d, u, v
    <3> QED BY <1>1, <1>2, <1>3
  <2> HIDE DEF u, v
  <2> QED BY <1>5, <2>1, BitsInjective
<1> SUFFICES x + d <= y OBVIOUS
<1> HIDE DEF d, p, q, u, v
<1>7. p < q
  <2> SUFFICES ASSUME q <= p PROVE FALSE BY <1>2, <1>3
  <2>1. CASE q = p BY <1>2, <1>3, <1>6, <2>1
  <2>2. CASE q < p
    <3>1. d * q + d <= d * p BY <1>1, <1>2, <1>3, <2>2, Multiples
    <3>2. d * q \in Nat /\ d * p \in Nat
      <4>1. \A a, b \in Nat : a * b \in Nat OBVIOUS
      <4> QED BY <1>1, <1>2, <1>3, <4>1
    <3> QED BY <1>1, <1>2, <1>3, <1>6, <3>1, <3>2
  <2> QED BY <1>2, <1>3, <2>1, <2>2
<1>8. d * p + d <= d * q BY <1>1, <1>2, <1>3, <1>7, Multiples
<1>9. d * p \in Nat /\ d * q \in Nat
  <2>1. \A a, b \in Nat : a * b \in Nat OBVIOUS
  <2> QED BY <1>1, <1>2, <1>3, <2>1
<1> QED BY <1>1, <1>2, <1>3, <1>6, <1>8, <1>9

(* Among d numbers one after the other there is one with any k bits. *)
LEMMA BitsWithin ==
  ASSUME NEW k \in Nat, NEW a \in Nat, NEW c \in Strings(k)
  PROVE  \E r \in 0..Two[k] - 1 : CodeBits(a + r, k) = c
<1> DEFINE d == Two[k]
           q == a \div d
           u == a % d
<1>1. d \in Nat /\ d > 0 BY TwoType
<1>2. q \in Nat /\ u \in Nat /\ u < d /\ a = d * q + u BY <1>1, Division
<1>3. PICK x \in 0..d - 1 : CodeBits(x, k) = c BY BitsOnto
<1>4. x \in Nat /\ x < d
  <2> HIDE DEF d
  <2> QED BY <1>1, <1>3
<1>5. ASSUME NEW r \in 0..d - 1, NEW m \in Nat, a + r = x + m * d
      PROVE  CodeBits(a + r, k) = c
  <2>1. CodeBits(x + m * d, k) = CodeBits(x, k) BY <1>4, BitsModulo
  <2> HIDE DEF d
  <2> QED BY <1>3, <1>5, <2>1
<1>6. d * q = q * d /\ d * q \in Nat /\ (q + 1) * d = q * d + d
  <2> HIDE DEF d, q
  <2>1. \A y, z \in Nat : y * z \in Nat OBVIOUS
  <2> QED BY <1>1, <1>2, <2>1
<1> SUFFICES \E r \in 0..d - 1 : CodeBits(a + r, k) = c OBVIOUS
<1> HIDE DEF d, q, u
<1>7. CASE x >= u
  <2>1. x - u \in 0..d - 1 /\ a + (x - u) = x + q * d BY <1>1, <1>2, <1>4, <1>6, <1>7
  <2> QED BY <1>2, <1>5, <2>1
<1>8. CASE x < u
  <2>1. x - u + d \in 0..d - 1 /\ a + (x - u + d) = x + (q + 1) * d
    BY <1>1, <1>2, <1>4, <1>6, <1>8
  <2>2. q + 1 \in Nat BY <1>2
  <2> QED BY <1>5, <2>1, <2>2
<1> QED BY <1>2, <1>4, <1>7, <1>8

(* When two symbols share a code, every sequence as long is a code: the numbers of the
   symbols with codes of that length follow one another. *)
LEMMA EqualFill ==
  ASSUME LensOK, NEW s \in Used, NEW t \in Used, s # t,
         Canonical(s) = Canonical(t), NEW c \in Strings(lens[s])
  PROVE  \E u \in Used : lens[u] = lens[s] /\ Canonical(u) = c
<1> DEFINE k == lens[s]
           a == FirstCode[k]
           T == {u \in Symbols : lens[u] = k}
           rank(u) == Cardinality(Peers(u))
<1>1. lens[t] = k BY CanonicalType
<1>2. k \in 1..MaxLen /\ k \in Nat /\ a \in Nat
  <2>1. k \in 1..MaxLen BY UsedAre
  <2> QED BY <2>1, FirstCodeType
<1>3. ASSUME NEW u \in T
      PROVE  /\ u \in Used /\ Peers(u) = {v \in T : v < u} /\ rank(u) \in Nat
             /\ Canonical(u) = CodeBits(a + rank(u), k)
  <2>1. u \in Used /\ lens[u] = k BY <1>2 DEF Used
  <2>2. Peers(u) = {v \in T : v < u} BY <2>1, SymbolsAre DEF Peers
  <2>3. Code(u) = a + rank(u) /\ rank(u) \in Nat BY <1>2, <2>1, CodeNumber
  <2>4. Canonical(u) = CodeBits(Code(u), lens[u]) BY <2>1, CodeIsCanonical
  <2> HIDE DEF a, k, rank
  <2> QED BY <2>1, <2>2, <2>3, <2>4
<1>4. s \in T /\ t \in T BY <1>1, UsedAre
<1>5. T \subseteq Symbols /\ Cardinality(T) \in Nat /\ IsFiniteSet(T)
  <2>1. T \subseteq Symbols OBVIOUS
  <2> QED BY <2>1, SymbolsFinite
<1>6. ASSUME NEW u \in T, NEW v \in T, u < v
      PROVE  rank(u) < rank(v)
  <2>1. IsFiniteSet(Peers(v)) /\ rank(v) \in Nat
    <3>1. Peers(v) \subseteq Symbols BY <1>3
    <3> QED BY <3>1, SymbolsFinite
  <2>2. Peers(u) \subseteq Peers(v) /\ u \in Peers(v) /\ u \notin Peers(u)
    BY <1>3, <1>6, SymbolsAre
  <2>3. rank(u) <= rank(v) /\ rank(u) # rank(v) BY <2>1, <2>2, FS_Subset
  <2> HIDE DEF rank
  <2> QED BY <1>3, <2>1, <2>3
<1>7. ASSUME NEW u \in T PROVE rank(u) < Cardinality(T)
  <2>1. Peers(u) \subseteq T /\ u \notin Peers(u) BY <1>3, SymbolsAre
  <2>2. rank(u) <= Cardinality(T) /\ rank(u) # Cardinality(T) BY <1>5, <2>1, FS_Subset
  <2> HIDE DEF rank, T
  <2> QED BY <1>3, <1>5, <2>2
<1>8. Two[k] < Cardinality(T)
  <2>1. ASSUME NEW u \in T, NEW v \in T, u < v, Canonical(u) = Canonical(v)
        PROVE  Two[k] < Cardinality(T)
    <3>1. rank(u) \in Nat /\ rank(v) \in Nat /\ rank(u) < rank(v)
          /\ rank(v) < Cardinality(T)
      BY <1>3, <1>6, <1>7, <2>1
    <3>2. CodeBits(a + rank(u), k) = CodeBits(a + rank(v), k) BY <1>3, <2>1
    <3> HIDE DEF a, k, rank, T
    <3>3. a + rank(u) \in Nat /\ a + rank(v) \in Nat /\ a + rank(u) < a + rank(v)
      BY <1>2, <3>1
    <3>4. a + rank(u) + Two[k] <= a + rank(v) BY <1>2, <3>2, <3>3, BitsApart
    <3>5. Two[k] \in Nat BY <1>2, TwoType
    <3> QED BY <1>2, <1>5, <3>1, <3>4, <3>5
  <2>2. s < t \/ t < s BY <1>4, SymbolsAre
  <2> HIDE DEF T
  <2> QED BY <1>4, <2>1, <2>2
<1>9. PICK r \in 0..Two[k] - 1 : CodeBits(a + r, k) = c BY <1>2, BitsWithin
<1>10. r \in Nat /\ r < Cardinality(T)
  <2>1. Two[k] \in Nat BY <1>2, TwoType
  <2> HIDE DEF T, k
  <2> QED BY <1>5, <1>8, <1>9, <2>1
<1>11. PICK u \in T : Cardinality({v \in T : v < u}) = r BY <1>10, <1>5, RankOnto
<1>12. rank(u) = r BY <1>3, <1>11
<1> QED BY <1>3, <1>9, <1>12
=============================================================================
