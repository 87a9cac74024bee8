---------------------------- MODULE Vp8lHuffman ----------------------------
(***************************************************************************)
(* The Huffman trees of the lossless WebP decoder                          *)
(* (webwhat/private/decode/vp8l/huffman.go, decode.go): the code lengths   *)
(* of a tree are read (decodeHuffmanTree, decodeCodeLengths), the tree and *)
(* its look-up table are built from them (build, insert), and symbols are  *)
(* read with it (next), through the table for codes of up to lutSize bits  *)
(* and through the nodes for the rest, also when the bytes end early.      *)
(*                                                                         *)
(* Bits are sequences in the order in which the stream has them, so the    *)
(* reversal of a code to index the table is left out; the number that      *)
(* codeLengthsToCodes gives a symbol is kept, and which bits of it insert  *)
(* takes.                                                                  *)
(***************************************************************************)
EXTENDS Integers, Sequences, FiniteSets, SequencesExt

CONSTANTS
  N,         \* alphabetSize: the symbols are 0..N-1
  MaxLen,    \* maxAllowedCodeLength, 15 in the code
  FirstLen,  \* what is repeated before a length that is not zero, 8 in the code
  LutSize,   \* lutSize, 7 in the code
  ByteBits   \* bits in a byte, 8 in the code: more than lutSize

ASSUME HuffmanAssumption ==
  /\ N \in Nat \ {0, 1} /\ MaxLen \in Nat \ {0} /\ FirstLen \in 1..MaxLen
  /\ LutSize \in Nat \ {0} /\ ByteBits \in Nat /\ LutSize < ByteBits

VARIABLES
  pc,      \* where the decoder stands
  simple,  \* the symbols of a simple tree, <<>> for one with code lengths
  lens,    \* codeLengths
  symbol,  \* how many of them are read, or how many inserted
  prev,    \* prevCodeLength
  left,    \* maxSymbol
  nodes,   \* hTree.nodes
  lut,     \* hTree.lut
  n,       \* the node at which next stands
  bits,    \* decoder.bits
  taken    \* history: the bits that this call of next has used

treeVars == <<simple, lens>>
readVars == <<prev, left>>
vars == <<pc, simple, lens, symbol, prev, left, nodes, lut, n, bits, taken>>

Symbols == 0..N - 1
Bit     == {0, 1}
Strings(k) == [1..k -> Bit]
\* 2^k
Two[k \in Nat] == IF k = 0 THEN 1 ELSE 2 * Two[k - 1]

Leaf  == -1
Fresh == [symbol |-> 0, children |-> 0]
\* an entry of the table: 1 plus the length of the code and the symbol, or 0 and
\* the node from which to go on
Hole  == [len1 |-> 0, val |-> 0]

-----------------------------------------------------------------------------
(* Building the tree *)

\* the least significant k bits of a code, the most significant first
CodeBits(code, k) == [i \in 1..k |-> (code \div Two[k - i]) % 2]

\* Mutant: there is room for one more pair of children.
DownRoomy(code, cap, t, b) ==
  LET node == t.nodes[t.n]
      size == Cardinality(DOMAIN t.nodes)
      to   == (IF node.children = 0 THEN size ELSE node.children) + b
      top  == SubSeq(code, 1, LutSize)
  IN IF ~t.ok \/ node.children = Leaf \/ (node.children = 0 /\ size > cap)
     THEN [t EXCEPT !.ok = FALSE]
     ELSE [ ok    |-> TRUE,
            n     |-> to,
            jump  |-> t.jump - 1,
            nodes |-> IF node.children # 0 THEN t.nodes
                      ELSE [i \in 0..size + 1 |->
                              IF i >= size THEN Fresh
                              ELSE IF i = t.n THEN [node EXCEPT !.children = size]
                              ELSE t.nodes[i]],
            lut   |-> IF t.jump = 1 /\ t.lut[top] = Hole
                      THEN [t.lut EXCEPT ![top] = [len1 |-> 0, val |-> to]]
                      ELSE t.lut ]

\* one bit of the walk of insert from the root: it makes the children that are
\* missing, and notes in the table the node it has reached after lutSize bits
Down(code, cap, t, b) ==
  LET node == t.nodes[t.n]
      size == Cardinality(DOMAIN t.nodes)
      kids == IF node.children = 0 THEN size ELSE node.children
      to   == kids + b
      top  == SubSeq(code, 1, LutSize)
  IN IF ~t.ok \/ node.children = Leaf \/ (node.children = 0 /\ size >= cap)
     THEN [t EXCEPT !.ok = FALSE]
     ELSE [ ok    |-> TRUE,
            n     |-> to,
            jump  |-> t.jump - 1,
            nodes |-> IF node.children # 0 THEN t.nodes
                      ELSE [i \in 0..size + 1 |->
                              IF i >= size THEN Fresh
                              ELSE IF i = t.n THEN [node EXCEPT !.children = size]
                              ELSE t.nodes[i]],
            lut   |-> IF t.jump = 1 /\ t.lut[top] = Hole
                      THEN [t.lut EXCEPT ![top] = [len1 |-> 0, val |-> to]]
                      ELSE t.lut ]

\* Mutant: the table is filled for codes of lutSize bits, too short ones skipped.
EnteredFull(s, code) ==
  [e \in DOMAIN lut |-> IF Len(code) <= LutSize /\ IsPrefix(code, e)
                        THEN [len1 |-> LutSize + 1, val |-> s] ELSE lut[e]]

\* the entries of the table that start with a short code
Entered(s, code) ==
  [e \in DOMAIN lut |-> IF Len(code) <= LutSize /\ IsPrefix(code, e)
                        THEN [len1 |-> Len(code) + 1, val |-> s] ELSE lut[e]]

Walked(s, code, cap) ==
  LET t[i \in 0..Len(code)] ==
        IF i = 0
        THEN [ok |-> TRUE, n |-> 0, jump |-> LutSize, nodes |-> nodes,
              lut |-> Entered(s, code)]
        ELSE Down(code, cap, t[i - 1], code[i])
  IN t[Len(code)]

\* insert: the last node becomes a leaf, which it may be already
Insert(s, code, cap) ==
  LET t == Walked(s, code, cap)
  IN IF ~t.ok \/ t.nodes[t.n].children \notin {0, Leaf}
     THEN pc' = "bad" /\ UNCHANGED <<nodes, lut, symbol>>
     ELSE /\ nodes' = [t.nodes EXCEPT ![t.n] = [symbol |-> s, children |-> Leaf]]
          /\ lut' = t.lut
          /\ symbol' = symbol + 1
          /\ UNCHANGED pc

\* codeLengthsToCodes; the histogram counts the symbols without a code as well
Histogram(k) == Cardinality({s \in Symbols : lens[s] = k})
FirstCode == LET f[k \in 0..MaxLen] == IF k = 0 THEN 0 ELSE (f[k - 1] + Histogram(k - 1)) * 2
             IN f
Code(s) == FirstCode[lens[s]] + Cardinality({t \in 0..s - 1 : lens[t] = lens[s]})

Used == {s \in Symbols : lens[s] # 0}

-----------------------------------------------------------------------------
(* States *)

TypeOK ==
  /\ pc \in {"tree", "lengths", "insert", "simple", "idle", "lut", "walk", "got",
             "eof", "refused", "bad"}
  /\ simple \in UNION {[1..k -> 0..N] : k \in 0..2}
  /\ lens \in [Symbols -> 0..MaxLen]
  /\ symbol \in 0..N /\ prev \in 1..MaxLen /\ left \in 0..N
  /\ DOMAIN nodes = 0..Cardinality(DOMAIN nodes) - 1
  /\ DOMAIN lut = Strings(LutSize)
  /\ n \in DOMAIN nodes \cup Symbols
  /\ Len(bits) < LutSize + ByteBits /\ Len(taken) <= MaxLen

NoTree == [i \in {0} |-> Fresh]

Init ==
  /\ pc = "tree" /\ simple = <<>> /\ lens = [s \in Symbols |-> 0] /\ symbol = 0
  /\ prev = FirstLen /\ left = 0
  /\ nodes = NoTree /\ lut = [e \in Strings(LutSize) |-> Hole]
  /\ n = 0 /\ bits = <<>> /\ taken = <<>>

nextVars == <<n, bits, taken>>

\* decodeHuffmanTree: one or two symbols, or code lengths, of which a number of
\* at least two may be given; one above alphabetSize is refused
ReadTree ==
  /\ pc = "tree"
  /\ \/ /\ \E k \in 1..2 : simple' \in [1..k -> 0..N]
        /\ pc' = "simple" /\ UNCHANGED left
     \/ /\ left' \in 2..N
        /\ pc' = "lengths" /\ UNCHANGED simple
     \/ /\ pc' = "refused" /\ UNCHANGED <<simple, left>>
  /\ UNCHANGED <<lens, symbol, prev, nodes, lut>> /\ UNCHANGED nextVars

Reads == pc = "lengths" /\ symbol < N /\ left > 0

\* decodeCodeLengths: a code length
ReadLength ==
  /\ Reads
  /\ \E cl \in 0..MaxLen :
       /\ lens' = [lens EXCEPT ![symbol] = cl]
       /\ prev' = IF cl # 0 THEN cl ELSE prev
  /\ symbol' = symbol + 1 /\ left' = left - 1
  /\ UNCHANGED <<pc, simple, nodes, lut>> /\ UNCHANGED nextVars

Repeats == {<<16, r>> : r \in 3..6} \cup {<<17, r>> : r \in 3..10}
             \cup {<<18, r>> : r \in 11..138}

\* the previous length that was not zero, or zeros, several times
ReadRepeat ==
  /\ Reads
  /\ left' = left - 1
  /\ \E r \in Repeats :
       IF symbol + r[2] > N
       THEN pc' = "refused" /\ UNCHANGED <<lens, symbol>>
       ELSE /\ lens' = [s \in Symbols |->
                          IF s \in symbol..symbol + r[2] - 1
                          THEN IF r[1] = 16 THEN prev ELSE 0 ELSE lens[s]]
            /\ symbol' = symbol + r[2]
            /\ UNCHANGED pc
  /\ UNCHANGED <<simple, prev, nodes, lut>> /\ UNCHANGED nextVars

\* build counts the symbols; none is an error
EndLengths ==
  /\ pc = "lengths" /\ (symbol = N \/ left = 0)
  /\ pc' = IF Used = {} THEN "bad" ELSE "insert"
  /\ symbol' = 0
  /\ UNCHANGED treeVars /\ UNCHANGED readVars
  /\ UNCHANGED <<nodes, lut>> /\ UNCHANGED nextVars

\* build: a symbol that is alone gets the empty code
Build ==
  /\ pc = "insert" /\ symbol < N
  /\ IF symbol \notin Used THEN symbol' = symbol + 1 /\ UNCHANGED <<pc, nodes, lut>>
     ELSE Insert(symbol, IF Cardinality(Used) = 1 THEN <<>>
                         ELSE CodeBits(Code(symbol), lens[symbol]),
                 2 * Cardinality(Used) - 1)
  /\ UNCHANGED treeVars /\ UNCHANGED readVars /\ UNCHANGED nextVars

\* buildSimple: the symbols have the codes 0 and 1, or the empty code; one that is
\* not in the alphabet is an error
BuildSimple ==
  /\ pc = "simple" /\ symbol < Len(simple)
  /\ IF simple[symbol + 1] \notin Symbols
     THEN pc' = "bad" /\ UNCHANGED <<symbol, nodes, lut>>
     ELSE Insert(simple[symbol + 1], CodeBits(symbol, Len(simple) - 1),
                 2 * Len(simple) - 1)
  /\ UNCHANGED treeVars /\ UNCHANGED readVars /\ UNCHANGED nextVars

\* the bits that the decoder has left over from reading the tree are like those
\* that a symbol before leaves
Built ==
  /\ \/ pc = "insert" /\ symbol = N
     \/ pc = "simple" /\ symbol = Len(simple)
  /\ pc' = "idle"
  /\ UNCHANGED treeVars /\ UNCHANGED readVars
  /\ UNCHANGED <<symbol, nodes, lut>> /\ UNCHANGED nextVars

-----------------------------------------------------------------------------
(* Reading a symbol *)

built == <<simple, lens, symbol, prev, left, nodes, lut>>

Take(k) == /\ taken' = taken \o SubSeq(bits, 1, k)
           /\ bits'  = SubSeq(bits, k + 1, Len(bits))

\* Mutant: a byte is read also when the bits just suffice.
FillEager ==
  /\ pc \in {"idle", "got"}
  /\ \/ /\ Len(bits) > LutSize
        /\ pc' = "lut" /\ UNCHANGED bits
     \/ /\ Len(bits) <= LutSize
        /\ \E b \in Strings(ByteBits) : bits' = bits \o b
        /\ pc' = "lut"
     \/ /\ Len(bits) <= LutSize
        /\ pc' = "walk" /\ UNCHANGED bits
  /\ n' = 0 /\ taken' = <<>>
  /\ UNCHANGED built

\* Mutant: the end of the bytes is an error when the table needs more bits.
FillOrFail ==
  /\ pc \in {"idle", "got"}
  /\ \/ /\ Len(bits) >= LutSize
        /\ pc' = "lut" /\ n' = 0 /\ taken' = <<>> /\ UNCHANGED bits
     \/ /\ Len(bits) < LutSize
        /\ \E b \in Strings(ByteBits) : bits' = bits \o b
        /\ pc' = "lut" /\ n' = 0 /\ taken' = <<>>
     \/ /\ Len(bits) < LutSize
        /\ pc' = "eof" /\ taken' = bits /\ n' = 0 /\ UNCHANGED bits
  /\ UNCHANGED built

\* next reads one byte when it has too few bits for the table; at the end of the
\* bytes it goes through the nodes with the bits it has
Fill ==
  /\ pc \in {"idle", "got"}
  /\ \/ /\ Len(bits) >= LutSize
        /\ pc' = "lut" /\ UNCHANGED bits
     \/ /\ Len(bits) < LutSize
        /\ \E b \in Strings(ByteBits) : bits' = bits \o b
        /\ pc' = "lut"
     \/ /\ Len(bits) < LutSize
        /\ pc' = "walk" /\ UNCHANGED bits
  /\ n' = 0 /\ taken' = <<>>
  /\ UNCHANGED built

LookUp ==
  /\ pc = "lut"
  /\ LET e == lut[SubSeq(bits, 1, LutSize)]
     IN /\ n' = e.val
        /\ IF e.len1 # 0 THEN Take(e.len1 - 1) /\ pc' = "got"
           ELSE Take(LutSize) /\ pc' = "walk"
  /\ UNCHANGED built

\* slowPath: one bit
Step ==
  /\ pc = "walk" /\ nodes[n].children # Leaf /\ bits # <<>>
  /\ n' = nodes[n].children + Head(bits)
  /\ Take(1)
  /\ UNCHANGED pc /\ UNCHANGED built

\* slowPath: a byte when there are no bits, or the end of the bytes
More ==
  /\ pc = "walk" /\ nodes[n].children # Leaf /\ bits = <<>>
  /\ \/ bits' \in Strings(ByteBits) /\ UNCHANGED pc
     \/ pc' = "eof" /\ UNCHANGED bits
  /\ UNCHANGED <<n, taken>> /\ UNCHANGED built

Arrive ==
  /\ pc = "walk" /\ nodes[n].children = Leaf
  /\ n' = nodes[n].symbol
  /\ pc' = "got"
  /\ UNCHANGED <<bits, taken>> /\ UNCHANGED built

Next ==
  \/ ReadTree \/ ReadLength \/ ReadRepeat \/ EndLengths
  \/ Build \/ BuildSimple \/ Built
  \/ Fill \/ LookUp \/ Step \/ More \/ Arrive

Spec == Init /\ [][Next]_vars

-----------------------------------------------------------------------------
(* Properties *)

\* the sequences of k bits that begin with the code of a symbol of T, once for each
Extended(k, T) == UNION {{t} \X Strings(k - lens[t]) : t \in T}

\* how many there are, where all sequences are Two[MaxLen]
Share == Cardinality(Extended(MaxLen, Used))
Alone == Cardinality(Used) = 1

\* the canonical code of a symbol: what the shorter codes, and those as long of
\* smaller symbols, leave over
Before(s) == {t \in Used : lens[t] < lens[s] \/ (lens[t] = lens[s] /\ t < s)}
Canonical(s) == CodeBits(Cardinality(Extended(lens[s], Before(s))), lens[s])

CodesOf(s) ==
  IF simple # <<>>
  THEN {CodeBits(i - 1, Len(simple) - 1) : i \in {j \in DOMAIN simple : simple[j] = s}}
  ELSE IF s \notin Used THEN {}
  ELSE IF Alone THEN {<<>>} ELSE {Canonical(s)}

\* The room for 2n-1 nodes and the leaves that insert runs into are the only
\* checks of build.  They refuse every code that leaves a sequence of bits without
\* a symbol, and no code that is complete; the tree of a complete code has all of
\* the 2n-1 nodes.
AcceptsComplete ==
  simple = <<>> =>
    /\ pc \in {"idle", "lut", "walk", "got", "eof"} =>
         /\ Alone \/ Share >= Two[MaxLen]
         /\ Share = Two[MaxLen] => Cardinality(DOMAIN nodes) = 2 * Cardinality(Used) - 1
    /\ pc = "bad" => ~Alone /\ Share # Two[MaxLen]

\* Whichever way next takes, through the table, the nodes or both, and however
\* the bytes fall, the bits it has used are the canonical code of the symbol it
\* returns, though the numbers of codeLengthsToCodes are larger than the codes;
\* and it never stands at a node without children that is no leaf.
PrefixDecode ==
  /\ pc = "got"  => taken \in CodesOf(n)
  /\ pc = "walk" => nodes[n].children # 0

\* The end of the bytes is an error only when no symbol is left in the bits.
EndOnlyAtEnd ==
  pc = "eof" => \A s \in Symbols : \A c \in CodesOf(s) : ~IsPrefix(c, taken)
=============================================================================
