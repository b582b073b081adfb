----------------------------- MODULE BestChain -----------------------------
(***************************************************************************)
(* What a node promises of its best block, whatever happens inside it: the *)
(* best block ends a valid chain; while the node is up it only moves to a  *)
(* block of more trust; after a stop the node goes on from a best block it *)
(* has written to disk, or from nothing.  Module ChainState implements     *)
(* this while its coin database is sound, and in any case with the blocks  *)
(* that AcceptBlock lets in for the valid ones.                            *)
(***************************************************************************)
EXTENDS Integers

CONSTANTS
  Null,    \* no block
  Trust,   \* the trust of the chain that ends in a block
  Valid    \* the blocks that end a valid chain

VARIABLES
  best,    \* the best block
  saved,   \* the best blocks that can be on disk after a stop
  up       \* the node is running

vars == <<best, saved, up>>

TrustAt(b) == IF b = Null THEN 0 ELSE Trust[b]

Init == best \in Valid /\ saved = {Null} /\ up = TRUE

\* A block of more trust becomes the best one; it may be written to disk.
Adopt ==
  /\ up /\ up'
  /\ best' \in Valid
  /\ TrustAt(best') > TrustAt(best)
  /\ saved' # {} /\ saved' \subseteq saved \cup {best'}

\* The node stops, after it has written the best block it knows of, or has not, and
\* some of what was not committed is lost.
Stop ==
  /\ ~up'
  /\ best' = best
  /\ saved' # {}
  /\ \/ saved' \subseteq saved
     \/ \E b \in Valid \cup {Null} :
          up /\ TrustAt(b) >= TrustAt(best) /\ saved' \subseteq saved \cup {b}

\* The node starts, and may find that it has to be repaired.
Start ==
  /\ ~up
  /\ best' \in saved \cup {Null}
  /\ up' \in BOOLEAN
  /\ UNCHANGED saved

Next == Adopt \/ Stop \/ Start

Spec == Init /\ [][Next]_vars
=============================================================================
