------------------------------ MODULE MC_AddrMan ------------------------------
(***************************************************************************)
(* Four addresses, one of them also heard of with another port, told by    *)
(* two sources whose groups select different new buckets.                  *)
(***************************************************************************)
EXTENDS AddrMan, TLC

CONSTANTS w, x, y, z, x2, near, far

Sym == Permutations({w, y, z})

McIps == {w, x, y, z}
McAddrs == McIps \cup {x2}
McIp == [addr \in McAddrs |-> IF addr = x2 THEN x ELSE addr]
McNewBucket == [ip \in McIps |-> [src \in {near, far} |-> IF src = near THEN 0 ELSE 1]]
McTriedBucket == [addr \in McAddrs |-> 0]
=============================================================================
