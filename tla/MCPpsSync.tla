----------------------------- MODULE MCPpsSync ------------------------------
(* A small instance of PpsSync for TLC. *)
EXTENDS PpsSync

\* Wrong by less than a second, right, just too far ahead, a second ahead and
\* far away.
FarAway == {-13, 0, 5, 20, 500}
=============================================================================
