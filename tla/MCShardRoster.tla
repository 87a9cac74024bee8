--------------------------- MODULE MCShardRoster ---------------------------
(* ShardRoster on small instances. *)
EXTENDS ShardRoster, TLC
CONSTANTS p1, p2, p3, i1, i2

\* Two connections of one user, and one of another.
SameUser == [p \in Players |-> IF p = p3 THEN i2 ELSE i1]

\* Two users.
TwoUsers == [p \in Players |-> IF p = p2 THEN i2 ELSE i1]

\* The shards, all alike, may be exchanged.
ShardSymmetry == Permutations(Shards)

\* The two connections of one user may be exchanged.
UserSymmetry == Permutations({p1, p2})
=============================================================================
