------------------------------ MODULE MC_MemPool ------------------------------
(***************************************************************************)
(* A trunk g, p1, p2, p3 and two branches.  t spends an output of the      *)
(* first coinbase, c spends t, d spends c; x competes with t, y with c; w  *)
(* spends x.                                                               *)
(***************************************************************************)
EXTENDS MemPool

CONSTANTS k1, k2, k3, k4, k5, k6, k7, k8, t, c, d, x, y, w,
          g, p1, p2, p3, a4, a5, b4, b5, b6, b7

McCoinbases == {k1, k2, k3, k4, k5, k6, k7, k8}
McTxs == McCoinbases \cup {t, c, d, x, y, w}
McVin == [z \in McTxs |->
  CASE z = t -> << <<k1, 1>> >>
    [] z = c -> << <<k2, 1>>, <<t, 1>> >>
    [] z = d -> << <<c, 1>> >>
    [] z = x -> << <<k1, 2>>, <<k1, 1>> >>
    [] z = y -> << <<t, 1>> >>
    [] z = w -> << <<x, 1>> >>
    [] OTHER -> <<>>]
McVout == [z \in McTxs |->
  CASE z = k1 -> <<4, 1>> [] z = t -> <<3>> [] z = c -> <<7>> [] z = d -> <<6>>
    [] z = x -> <<4>> [] z = y -> <<2>> [] z = w -> <<3>>
    [] OTHER -> <<5>>]

McBlocks == {g, p1, p2, p3, a4, a5, b4, b5, b6, b7}
McPrev == [b \in McBlocks |->
  CASE b = g -> Null [] b = p1 -> g [] b = p2 -> p1 [] b = p3 -> p2
    [] b \in {a4, b4} -> p3 [] b = a5 -> a4 [] b = b5 -> b4 [] b = b6 -> b5 [] b = b7 -> b6]
\* Without and with a transaction that competes with t on the branch b.
PlainVtx == [b \in McBlocks |->
  CASE b = g -> <<k8>> [] b = p1 -> <<k1>> [] b = p2 -> <<k2>> [] b = p3 -> <<k3>>
    [] b = a4 -> <<k4, t>> [] b = a5 -> <<k5, c>>
    [] b = b4 -> <<k6>> [] b = b5 -> <<k7>> [] b = b6 -> <<k8>>
    [] b = b7 -> <<k4>>]
\* There the first coinbase comes again, once x has spent all of it.
RivalVtx == [PlainVtx EXCEPT ![b4] = <<k6, x>>, ![b5] = <<k1, w>>]
=============================================================================
