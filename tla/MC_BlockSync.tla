---------------------------- MODULE MC_BlockSync ----------------------------
(***************************************************************************)
(* A main chain 0 - 1 - 2 - ... - 6 and a branch 0 - 8 - 9.                *)
(***************************************************************************)
EXTENDS BlockSync, TLC

CONSTANTS old, new

ForkPrev == [b \in Blocks |-> IF b = 0 THEN None ELSE IF b = 8 THEN 0 ELSE b - 1]
\* The new node has found a block of its own.
Behind == (new :> {0, 8}) @@ (old :> (0 .. 4) \cup {8})
=============================================================================
