---------------------------- MODULE MC_ChainState ----------------------------
(***************************************************************************)
(* Small block trees.  Every block has trust 1 unless it says otherwise.   *)
(***************************************************************************)
EXTENDS ChainState, TLC

CONSTANTS g, a1, a2, a3, b1, b2, b3, b4

\* Two branches that overtake each other; b3 does not connect.
ForkBlocks == {g, a1, a2, b1, b2, b3, b4}
ForkPrev == (g :> Null) @@ (a1 :> g) @@ (a2 :> a1) @@ (b1 :> g) @@ (b2 :> b1) @@ (b3 :> b2)
            @@ (b4 :> b3)
ForkTrust == [b \in ForkBlocks |-> IF b = a1 THEN 2 ELSE IF b = b2 THEN 3 ELSE 1]
ForkHash == (g :> 0) @@ (a1 :> 5) @@ (a2 :> 4) @@ (b1 :> 1) @@ (b2 :> 6) @@ (b3 :> 3) @@ (b4 :> 2)

\* The least tree with a reorganisation, to an invalid branch; a2 is unacceptable.
SmallBlocks == {g, a1, a2, b1, b2}
SmallPrev == [b \in SmallBlocks |-> ForkPrev[b]]
SmallTrust == [b \in SmallBlocks |-> 1]
SmallHash == [b \in SmallBlocks |-> ForkHash[b]]

\* Heavy blocks and a tie; b2 is unacceptable, b3 fails in a reorganisation.
HeavyBlocks == {g, a1, a2, a3, b1, b2, b3}
HeavyPrev == (g :> Null) @@ (a1 :> g) @@ (a2 :> a1) @@ (a3 :> a2) @@ (b1 :> a1)
             @@ (b2 :> b1) @@ (b3 :> a2)
HeavyTrust == [b \in HeavyBlocks |-> IF b \in {b1, b3} THEN 2 ELSE 1]
HeavyHash == (g :> 0) @@ (a1 :> 5) @@ (a2 :> 4) @@ (a3 :> 3) @@ (b1 :> 7) @@ (b2 :> 6) @@ (b3 :> 1)
=============================================================================
