------------------------------ MODULE MC_Nodes ------------------------------
(***************************************************************************)
(* Two dialers that compete for one slot: ThreadOpenConnections, which     *)
(* also has one-shots and -connect peers, and a thread that stands for     *)
(* ThreadOpenAddedConnections and for RPC threads.  Names behind a proxy   *)
(* go the way of one-shots, without the last write.                        *)
(***************************************************************************)
EXTENDS Nodes, TLC

CONSTANTS opencon, addcon

McDialKinds == (opencon :> {"address", "oneshot", "connect"}) @@ (addcon :> {"address", "onetry"})
=============================================================================
