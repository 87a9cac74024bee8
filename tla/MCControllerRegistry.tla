------------------------ MODULE MCControllerRegistry ------------------------
(* ControllerRegistry on small instances. *)
EXTENDS ControllerRegistry, TLC
CONSTANT h1

\* One main server.
OneHost == [s \in Shards |-> h1]
AllOnOne == [l \in Logins |-> h1]

\* All logins are of one user.
SameUser == [l \in Logins |-> CHOOSE u \in Users : TRUE]
=============================================================================
