--------------------------- MODULE ShardDirectory ---------------------------
(***************************************************************************)
(* What the shards of the main server promise about who is listed where:   *)
(* a player enters a shard only when no shard lists it, so it is on one    *)
(* shard at most, and each step changes one entry of one shard.  A         *)
(* connection that enters takes the place of another with the same user    *)
(* id; an id is taken off by whichever of its connections leaves.          *)
(***************************************************************************)
CONSTANTS Players, Ids, IdOf, Shards, NoPlayer

VARIABLE listed   \* the player that each shard lists for each id

Init == listed = [s \in Shards |-> [i \in Ids |-> NoPlayer]]

Enter(p, s) ==
  /\ \A t \in Shards, i \in Ids : listed[t][i] # p
  /\ listed' = [listed EXCEPT ![s][IdOf[p]] = p]

Leave(s, i) == listed' = [listed EXCEPT ![s][i] = NoPlayer]

Next ==
  \E s \in Shards :
    (\E p \in Players : Enter(p, s)) \/ (\E i \in Ids : Leave(s, i))

Spec == Init /\ [][Next]_listed

\* A player is on one shard at most.
OnOneShard ==
  \A s, t \in Shards, i, j \in Ids :
    listed[s][i] # NoPlayer /\ listed[s][i] = listed[t][j] => s = t /\ i = j
=============================================================================
