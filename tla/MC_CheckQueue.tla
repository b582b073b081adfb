--------------------------- MODULE MC_CheckQueue ---------------------------
(* Two workers and a master, three checks of which one fails. *)
EXTENDS CheckQueue
CONSTANTS w1, w2, c1, c2, c3

WorkersDef == {w1, w2}
ChecksDef == {c1, c2, c3}
TwoChecksDef == {c1, c2}
BadDef == {c1}
=============================================================================
