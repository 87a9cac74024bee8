------------------------------- MODULE MCWire -------------------------------
(* Instances of Wire for TLC. *)
EXTENDS Wire

\* empty, two bytes that one Read may cut, and one byte too many
SomeTexts == {<<>>, <<1, 2>>, <<1, 2, 3>>}
=============================================================================
