----------------------------- MODULE MC_KeyPool -----------------------------
(***************************************************************************)
(* Three holders, of which any may be a miner that keeps a key reserved    *)
(* for a long time.                                                        *)
(***************************************************************************)
EXTENDS KeyPool, TLC

CONSTANTS payment, miner, getwork

Sym == Permutations(Holders)
=============================================================================
