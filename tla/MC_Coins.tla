------------------------------- MODULE MC_Coins -------------------------------
(***************************************************************************)
(* Two branches over a common trunk g, p1, p2.  Transaction t spends both  *)
(* outputs of the first coinbase k1; u and w compete for t's outputs; once *)
(* t is in the chain, k1 is spent entirely and may appear again (a5, b5).  *)
(* Block x3 repeats k1 too early, y4 keeps the fee of u, z4 spends an      *)
(* immature coinbase.                                                      *)
(***************************************************************************)
EXTENDS Coins

CONSTANTS k1, k2, k3, k4, k5, k6, kx, t, u, w, v,
          g, p1, p2, a3, a4, a5, b3, b4, b5, b6, x3, y4, z4

McCoinbases == {k1, k2, k3, k4, k5, k6, kx}
McTxs == McCoinbases \cup {t, u, w, v}
McVin == [x \in McTxs |->
  CASE x = t -> << <<k1, 1>>, <<k1, 2>> >>
    [] x = u -> << <<t, 1>> >>
    [] x = w -> << <<t, 1>>, <<t, 2>> >>
    [] x = v -> << <<k4, 1>> >>
    [] OTHER -> <<>>]
McVout == [x \in McTxs |->
  CASE x = k1 -> <<2, 3>> [] x = t -> <<2, 2>> [] x = u -> <<1>> [] x = w -> <<1, 1>>
    [] x = v -> <<4>> [] x = k5 -> <<3, 2>> [] x = kx -> <<6>> [] OTHER -> <<5>>]

McBlocks == {g, p1, p2, a3, a4, a5, b3, b4, b5, b6, x3, y4, z4}
McPrev == [b \in McBlocks |->
  CASE b = g -> Null [] b = p1 -> g [] b = p2 -> p1
    [] b \in {a3, b3, x3} -> p2
    [] b \in {a4, y4} -> a3 [] b = a5 -> a4
    [] b \in {b4, z4} -> b3 [] b = b5 -> b4 [] b = b6 -> b5]
McVtx == [b \in McBlocks |->
  CASE b = g -> <<kx>> [] b = p1 -> <<k1>> [] b = p2 -> <<k2>>
    [] b = a3 -> <<k3, t>> [] b = a4 -> <<k4, u>> [] b = a5 -> <<k1>>
    [] b = b3 -> <<k5, t, w>> [] b = b4 -> <<k4>> [] b = b5 -> <<k1>> [] b = b6 -> <<k6, v>>
    [] b = x3 -> <<k1>> [] b = y4 -> <<kx, u>> [] b = z4 -> <<k4, v>>]
=============================================================================
