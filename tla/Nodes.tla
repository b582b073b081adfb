------------------------------- MODULE Nodes -------------------------------
(***************************************************************************)
(* The life of a CNode (src/src/net.cpp, net.h) and of the slots for       *)
(* outbound connections (CSemaphore and CSemaphoreGrant, sync.h).          *)
(*                                                                         *)
(* ThreadSocketHandler accepts connections, serves the sockets, moves      *)
(* closed nodes from vNodes to vNodesDisconnected and deletes them there;  *)
(* ThreadMessageHandler works on a copy of vNodes; the dialers             *)
(* (ThreadOpenConnections, ThreadOpenAddedConnections, the RPC command     *)
(* addnode onetry) make new outbound nodes.  A step ends where cs_vNodes   *)
(* is released or a field is written that another thread reads.            *)
(*                                                                         *)
(* Abstractions.  A node is closed (fDisconnect) for any reason: the       *)
(* socket, a time-out, a bad message, a ban.  Which address a dialer takes *)
(* is free, and each peer has one address and one name.                    *)
(*                                                                         *)
(* AddRef on a connection that ConnectNode finds is made without a lock:   *)
(* it is a read and a write of nRefCount, and works on whatever is in the  *)
(* memory of the node by then.  raced says that this has gone wrong: what  *)
(* the program does is not defined any more, and its behaviour ends here.  *)
(***************************************************************************)
EXTENDS Integers, FiniteSets

CONSTANTS
  Objects,       \* bound: the memory for CNode objects
  Null,          \* no node
  Addresses,     \* the addresses and names of peers
  Dialers,       \* threads that open connections
  DialKinds,     \* how each dialer comes by its grant, see Kinds
  MaxOutbound,   \* the initial value of semOutbound
  MaxInbound     \* nMaxConnections - MAX_OUTBOUND_CONNECTIONS

\* Addresses are dialled by ThreadOpenConnections and ThreadOpenAddedConnections, which
\* wait for a grant, names by the latter behind a name proxy ("name"), by ProcessOneShot,
\* which only tries to get one, by -connect without, and by onetry, which calls
\* ConnectNode directly.
Kinds == {"address", "name", "oneshot", "connect", "onetry"}

ASSUME NodesAssumption ==
  /\ Null \notin Objects
  /\ IsFiniteSet(Objects) /\ IsFiniteSet(Dialers)
  /\ DialKinds \in [Dialers -> SUBSET Kinds]
  /\ MaxOutbound \in Nat /\ MaxInbound \in Nat

VARIABLES
  vNodes,              \* connected nodes
  vNodesDisconnected,  \* nodes that wait for their deletion
  node,                \* the fields of each CNode
  value,               \* semOutbound->value
  sockCopy, sockPc,    \* vNodesCopy of ThreadSocketHandler; where it is
  msgCopy, msgPc,      \* vNodesCopy of ThreadMessageHandler; where it is
  dial,                \* each dialer: place, kind, address, grant, pnode, nRefCount read
  raced                \* an unlocked AddRef came too late or was overtaken

vars == <<vNodes, vNodesDisconnected, node, value, sockCopy, sockPc, msgCopy, msgPc, dial, raced>>
sock == <<sockCopy, sockPc>>
msg == <<msgCopy, msgPc>>

Alive == vNodes \cup vNodesDisconnected

Fields == [addr : Addresses \cup {Null}, named : BOOLEAN, refs : Int, fInbound : BOOLEAN,
           fNetworkNode : BOOLEAN, fDisconnect : BOOLEAN, grant : BOOLEAN]

\* A new CNode, after its first AddRef().  named: addrName is the name that was dialled.
NewNode(a, named, inbound) ==
  [addr |-> a, named |-> named, refs |-> 1, fInbound |-> inbound, fNetworkNode |-> FALSE,
   fDisconnect |-> FALSE, grant |-> FALSE]

\* Memory that holds no CNode.
Freed == NewNode(Null, FALSE, FALSE)

AddRef(S) == [n \in Objects |-> IF n \in S THEN [node[n] EXCEPT !.refs = @ + 1] ELSE node[n]]
Release(S) == [n \in Objects |-> IF n \in S THEN [node[n] EXCEPT !.refs = @ - 1] ELSE node[n]]

Idle == [pc |-> "idle", kind |-> "connect", addr |-> Null, grant |-> FALSE, pnode |-> Null, seen |-> 0]

Init ==
  /\ vNodes = {} /\ vNodesDisconnected = {}
  /\ node = [n \in Objects |-> Freed]
  /\ value = MaxOutbound
  /\ sockCopy = {} /\ sockPc = "disconnect"
  /\ msgCopy = {} /\ msgPc = "copy"
  /\ dial = [d \in Dialers |-> Idle] /\ raced = FALSE

-----------------------------------------------------------------------------
(***************************************************************************)
(* ThreadSocketHandler.                                                    *)
(***************************************************************************)
\* A closed node, or one that nobody holds and that has nothing to send or receive.
Closed(S) == {n \in vNodes : node[n].fDisconnect} \cup S

\* Mutant: the reference is given up for every node.
OwnReferenceAll(D) == D

\* "hold in disconnected pool until all refs are released": the reference of vNodes.
OwnReference(D) == {n \in D : node[n].fNetworkNode \/ node[n].fInbound}

\* CloseSocketDisconnect and grantOutbound.Release().
Disconnected(D) ==
  [n \in Objects |-> IF n \in D
                     THEN [Release(OwnReference(D))[n] EXCEPT !.fDisconnect = TRUE, !.grant = FALSE]
                     ELSE node[n]]

\* "wait until threads are done using it".  The locks of the node that are tried as
\* well are taken only by threads that hold a reference or cs_vNodes.
Deletable(nodes, S) == {n \in S : nodes[n].refs <= 0}

\* "Disconnect unused nodes", "Delete disconnected nodes".  A slot goes back when its node
\* is disconnected, or with ~CNode if it came later.
DisconnectNodes ==
  /\ sockPc = "disconnect"
  /\ \E S \in SUBSET {n \in vNodes : node[n].refs <= 0} :
       LET D == Closed(S)
           nodes == Disconnected(D)
           pool == vNodesDisconnected \cup D
           deleted == Deletable(nodes, pool)
       IN  /\ node' = [n \in Objects |-> IF n \in deleted THEN Freed ELSE nodes[n]]
           /\ vNodes' = vNodes \ D
           /\ vNodesDisconnected' = pool \ deleted
           /\ value' = value + Cardinality({n \in D \cup deleted : node[n].grant})
  /\ sockPc' = "accept"
  /\ UNCHANGED <<sockCopy, msg, dial>>

\* An accepted connection; past the limit, or banned, it is dropped.
Accept ==
  /\ sockPc = "accept"
  /\ Cardinality({n \in vNodes : node[n].fInbound}) < MaxInbound
  /\ \E n \in Objects \ Alive, a \in Addresses :
       /\ node' = [node EXCEPT ![n] = NewNode(a, FALSE, TRUE)]
       /\ vNodes' = vNodes \cup {n}
  /\ sockPc' = "copy"
  /\ UNCHANGED <<vNodesDisconnected, value, sockCopy, msg, dial>>

AcceptNone ==
  /\ sockPc = "accept"
  /\ sockPc' = "copy"
  /\ UNCHANGED <<vNodes, vNodesDisconnected, node, value, sockCopy, msg, dial>>

SocketCopy ==
  /\ sockPc = "copy"
  /\ sockCopy' = vNodes
  /\ node' = AddRef(vNodes)
  /\ sockPc' = "service"
  /\ UNCHANGED <<vNodes, vNodesDisconnected, value, msg, dial>>

\* The socket is closed or broken, or nothing has come or gone for too long.
ServiceCloses(n) ==
  /\ sockPc = "service"
  /\ n \in sockCopy /\ ~node[n].fDisconnect
  /\ node' = [node EXCEPT ![n].fDisconnect = TRUE]
  /\ UNCHANGED <<vNodes, vNodesDisconnected, value, sock, msg, dial>>

SocketRelease ==
  /\ sockPc = "service"
  /\ node' = Release(sockCopy)
  /\ sockCopy' = {}
  /\ sockPc' = "disconnect"
  /\ UNCHANGED <<vNodes, vNodesDisconnected, value, msg, dial>>

-----------------------------------------------------------------------------
(***************************************************************************)
(* ThreadMessageHandler.                                                   *)
(***************************************************************************)
MessageCopy ==
  /\ msgPc = "copy"
  /\ msgCopy' = vNodes
  /\ node' = AddRef(vNodes)
  /\ msgPc' = "process"
  /\ UNCHANGED <<vNodes, vNodesDisconnected, value, sock, dial>>

\* ProcessMessages or SendMessages closes the node.
ProcessCloses(n) ==
  /\ msgPc = "process"
  /\ n \in msgCopy /\ ~node[n].fDisconnect
  /\ node' = [node EXCEPT ![n].fDisconnect = TRUE]
  /\ UNCHANGED <<vNodes, vNodesDisconnected, value, sock, msg, dial>>

\* Mutant: the nodes that have been closed in the meantime are skipped.
MessageReleaseOpen ==
  /\ msgPc = "process"
  /\ node' = Release({n \in msgCopy : ~node[n].fDisconnect})
  /\ msgCopy' = {}
  /\ msgPc' = "copy"
  /\ UNCHANGED <<vNodes, vNodesDisconnected, value, sock, dial>>

MessageRelease ==
  /\ msgPc = "process"
  /\ node' = Release(msgCopy)
  /\ msgCopy' = {}
  /\ msgPc' = "copy"
  /\ UNCHANGED <<vNodes, vNodesDisconnected, value, sock, dial>>

-----------------------------------------------------------------------------
(***************************************************************************)
(* The dialers.                                                            *)
(***************************************************************************)
\* The grant is taken, if there is to be one.  A one-shot that finds no free slot
\* is dropped.
Dial(d) ==
  \E k \in DialKinds[d], a \in Addresses :
    LET granted == k \in {"address", "name", "oneshot"}
    IN  /\ dial[d].pc = "idle"
        /\ granted => value >= 1
        /\ value' = IF granted THEN value - 1 ELSE value
        /\ dial' = [dial EXCEPT ![d] = [pc |-> IF k = "onetry" THEN "connect" ELSE "check", kind |-> k,
                                             addr |-> a, grant |-> granted, pnode |-> Null, seen |-> 0]]
        /\ UNCHANGED <<vNodes, vNodesDisconnected, node, sock, msg>>

\* Mutant: the slot is posted although there is no grant.
ReturnPosts(d) ==
  /\ value' = value + 1
  /\ dial' = [dial EXCEPT ![d] = Idle]

\* The end of the grant's scope: ~CSemaphoreGrant().
Return(d) ==
  /\ value' = IF dial[d].grant THEN value + 1 ELSE value
  /\ dial' = [dial EXCEPT ![d] = Idle]

\* FindNode: no connection to this address, or none under this name.
CheckPasses(d) ==
  /\ dial[d].pc = "check"
  /\ \A n \in vNodes :
       node[n].addr = dial[d].addr => dial[d].kind # "address" /\ ~node[n].named
  /\ dial' = [dial EXCEPT ![d].pc = "connect"]
  /\ UNCHANGED <<vNodes, vNodesDisconnected, node, value, sock, msg>>

\* There is one, or the peer is banned or this node itself, or no address was found.
CheckRefuses(d) ==
  /\ dial[d].pc = "check"
  /\ Return(d)
  /\ UNCHANGED <<vNodes, vNodesDisconnected, node, sock, msg>>

\* ConnectNode: the new node is visible to the other threads from here on.  An accepted
\* connection usually comes from another port, and is not found.
ConnectNode(d) ==
  /\ dial[d].pc = "connect"
  /\ dial[d].kind = "address" => \A n \in vNodes : node[n].addr = dial[d].addr => node[n].fInbound
  /\ \E n \in Objects \ Alive :
       /\ node' = [node EXCEPT ![n] = NewNode(dial[d].addr, dial[d].kind # "address", FALSE)]
       /\ vNodes' = vNodes \cup {n}
       /\ dial' = [dial EXCEPT ![d].pc = "move", ![d].pnode = n]
  /\ UNCHANGED <<vNodesDisconnected, value, sock, msg>>

\* "Look for an existing connection": one has come up since CheckPasses.  FindNode gives
\* cs_vNodes back before it returns.
FindExisting(d) ==
  /\ dial[d].pc = "connect" /\ dial[d].kind = "address"
  /\ \E n \in vNodes :
       /\ node[n].addr = dial[d].addr
       /\ dial' = [dial EXCEPT ![d].pc = "found", ![d].pnode = n]
  /\ UNCHANGED <<vNodes, vNodesDisconnected, node, value, sock, msg>>

\* pnode->AddRef() without cs_vNodes: nRefCount is read, and written.
AddRefReads(d) ==
  /\ dial[d].pc = "found"
  /\ dial' = [dial EXCEPT ![d].pc = "adding", ![d].seen = node[dial[d].pnode].refs]
  /\ UNCHANGED <<vNodes, vNodesDisconnected, node, value, sock, msg>>

AddRefWrites(d) ==
  /\ dial[d].pc = "adding"
  /\ node' = [node EXCEPT ![dial[d].pnode].refs = dial[d].seen + 1]
  /\ dial' = [dial EXCEPT ![d].pc = "move", ![d].seen = 0]
  /\ UNCHANGED <<vNodes, vNodesDisconnected, value, sock, msg>>

ConnectFails(d) ==
  /\ dial[d].pc = "connect"
  /\ Return(d)
  /\ UNCHANGED <<vNodes, vNodesDisconnected, node, sock, msg>>

\* onetry only sets nTimeConnected.
OneTryReturns(d) ==
  /\ dial[d].pc = "move" /\ dial[d].kind = "onetry"
  /\ dial' = [dial EXCEPT ![d] = Idle]
  /\ UNCHANGED <<vNodes, vNodesDisconnected, node, value, sock, msg>>

\* Mutant: the grant is copied, not moved.
MoveToCopies(d) ==
  LET n == dial[d].pnode
  IN  /\ dial[d].pc = "move" /\ dial[d].kind # "onetry"
      /\ node' = [node EXCEPT ![n].grant = dial[d].grant]
      /\ dial' = [dial EXCEPT ![d].pc = "mark"]
      /\ UNCHANGED <<value, vNodes, vNodesDisconnected, sock, msg>>

\* "if successful, this moves the passed grant to the constructed node", or to the one
\* that was found: MoveTo gives up the grant of the target first.
MoveTo(d) ==
  LET n == dial[d].pnode
  IN  /\ dial[d].pc = "move" /\ dial[d].kind # "onetry"
      /\ value' = IF dial[d].kind # "connect" /\ node[n].grant THEN value + 1 ELSE value
      /\ node' = [node EXCEPT ![n].grant = IF dial[d].kind = "connect" THEN @ ELSE dial[d].grant]
      /\ dial' = [dial EXCEPT ![d].pc = "mark", ![d].grant = FALSE]
      /\ UNCHANGED <<vNodes, vNodesDisconnected, sock, msg>>

\* fNetworkNode; a one-shot still has fOneShot to write.
MarkNetworkNode(d) ==
  LET n == dial[d].pnode
  IN  /\ dial[d].pc = "mark"
      /\ node' = [node EXCEPT ![n].fNetworkNode = TRUE]
      /\ dial' = [dial EXCEPT ![d] = IF @.kind = "oneshot" THEN [@ EXCEPT !.pc = "oneshot"] ELSE Idle]
      /\ UNCHANGED <<vNodes, vNodesDisconnected, value, sock, msg>>

MarkOneShot(d) ==
  /\ dial[d].pc = "oneshot"
  /\ dial' = [dial EXCEPT ![d] = Idle]
  /\ UNCHANGED <<vNodes, vNodesDisconnected, node, value, sock, msg>>

-----------------------------------------------------------------------------
\* An AddRef without the lock goes wrong: the node is deleted before the dialer has its
\* reference, or the count changes between reading and writing it.
Overtaken(d) ==
  LET n == dial[d].pnode
  IN  \/ dial[d].pc \in {"found", "adding"} /\ n \notin Alive'
      \/ dial[d].pc = "adding" /\ dial'[d] = dial[d] /\ node'[n].refs # node[n].refs

Defined == ~raced /\ raced' = \E d \in Dialers : Overtaken(d)

\* Nothing is known of the program after that.
Undefined == raced /\ UNCHANGED vars

SocketThread ==
  /\ DisconnectNodes \/ Accept \/ AcceptNone \/ SocketCopy \/ SocketRelease
  /\ Defined

MessageThread == (MessageCopy \/ MessageRelease) /\ Defined

Connecting(d) ==
  /\ \/ CheckPasses(d) \/ CheckRefuses(d)
     \/ ConnectNode(d) \/ FindExisting(d) \/ AddRefReads(d) \/ AddRefWrites(d)
     \/ ConnectFails(d) \/ OneTryReturns(d)
     \/ MoveTo(d) \/ MarkNetworkNode(d) \/ MarkOneShot(d)
  /\ Defined

Next ==
  \/ SocketThread
  \/ MessageThread
  \/ (\E n \in Objects : ServiceCloses(n) \/ ProcessCloses(n)) /\ Defined
  \/ \E d \in Dialers : (Dial(d) /\ Defined) \/ Connecting(d)
  \/ Undefined

Spec == Init /\ [][Next]_vars

\* The threads go on: they wait for nothing but cs_vNodes (and a dialer, in Dial, for
\* a slot).
FairSpec ==
  /\ Spec
  /\ WF_vars(SocketThread) /\ WF_vars(MessageThread)
  /\ \A d \in Dialers : WF_vars(Connecting(d))

-----------------------------------------------------------------------------
\* What a dialer can be at.
Dialing == [pc : {"idle", "check", "connect", "found", "adding", "move", "mark", "oneshot"},
            kind : Kinds, addr : Addresses \cup {Null}, grant : BOOLEAN,
            pnode : Objects \cup {Null}, seen : Int]

NodesTypeOK ==
  /\ vNodes \subseteq Objects /\ vNodesDisconnected \subseteq Objects
  /\ node \in [Objects -> Fields]
  /\ value \in 0..MaxOutbound
  /\ sockCopy \subseteq Objects /\ sockPc \in {"disconnect", "accept", "copy", "service"}
  /\ msgCopy \subseteq Objects /\ msgPc \in {"copy", "process"}
  /\ dial \in [Dialers -> Dialing] /\ raced \in BOOLEAN

Publishing(n) == \E d \in Dialers : dial[d].pnode = n /\ dial[d].pc \in {"move", "mark"}

(***************************************************************************)
(* "wait until threads are done using it" (net.cpp:783): neither a node in *)
(* a thread's copy of vNodes nor one a dialer is still filling in has been *)
(* deleted, and no reference count is below the number of users, or below  *)
(* zero (the assertion in GetRefCount).  The unlocked AddRef of            *)
(* ConnectNode (net.cpp:470) is the only hole: all this holds until such   *)
(* an AddRef meets a deleted node or another change of the count, and a    *)
(* connection that it finds in time is safe.                               *)
(***************************************************************************)
Users(n) == (IF n \in sockCopy THEN 1 ELSE 0) + (IF n \in msgCopy THEN 1 ELSE 0)
HeldNodesAlive ==
  ~raced => \A n \in Objects :
    /\ node[n].refs >= Users(n)
    /\ Users(n) > 0 \/ Publishing(n) => n \in Alive

(***************************************************************************)
(* The free slots, those of dialers and those of nodes that are not        *)
(* deleted are MaxOutbound together, until an unlocked AddRef goes wrong:  *)
(* none is given out twice, through MoveTo into a new node, one that was   *)
(* found or one closed in the meantime.  This does not say that every slot *)
(* comes back: it may be held by a node that is never deleted.             *)
(***************************************************************************)
DialSlots == {d \in Dialers : dial[d].grant}
NodeSlots == {n \in Alive : node[n].grant}
Slots == value + Cardinality(DialSlots) + Cardinality(NodeSlots)
SlotsConserved == ~raced => Slots = MaxOutbound

(***************************************************************************)
(* A closed connection to which only its users and vNodes have references  *)
(* is deleted in the end, however the threads overlap, unless a dialer     *)
(* finds it as an existing connection before: nobody ever releases the     *)
(* reference such a dialer takes (net.cpp:470).                            *)
(***************************************************************************)
Found(n) == \E d \in Dialers : dial[d].pnode = n /\ dial[d].pc \in {"found", "adding"}
Finished(n) ==
  /\ n \in vNodes /\ node[n].fDisconnect /\ (node[n].fNetworkNode \/ node[n].fInbound)
  /\ node[n].refs = Users(n) + 1 /\ ~Found(n)
ClosedIsDeleted == \A n \in Objects : Finished(n) ~> (n \notin Alive \/ Found(n) \/ raced)
=============================================================================
