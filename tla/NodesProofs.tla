---------------------------- MODULE NodesProofs ----------------------------
(***************************************************************************)
(* Until an unlocked AddRef goes wrong, no CNode is deleted while a thread *)
(* uses it, and the outbound slots add up to their number, for any number  *)
(* of nodes, dialers and slots.                                            *)
(*                                                                         *)
(* Neither HeldNodesAlive nor SlotsConserved is inductive.  What a node's  *)
(* reference count holds beyond its users (Spare) is one or more while the *)
(* node is in vNodes, and never negative (RefInv).  A dialer that fills in *)
(* a node has either made it, and fNetworkNode is not set before it is     *)
(* done, or found it, and then there is a reference that nobody gives up;  *)
(* the spare reference of a node in vNodes that the socket thread may      *)
(* give up is then not the last one (PublishInv).  A dialer that has found *)
(* a node, but has no reference yet, has it alive only as long as raced is *)
(* false (FoundInv).                                                       *)
(***************************************************************************)
EXTENDS Nodes, FiniteSetTheorems, TLAPS

\* Each thread that works on a copy of vNodes has something in it only then.
CopyInv ==
  /\ vNodes \cap vNodesDisconnected = {}
  /\ sockCopy \subseteq Alive /\ (sockPc # "service" => sockCopy = {})
  /\ msgCopy \subseteq Alive /\ (msgPc = "copy" => msgCopy = {})

\* The references that belong to no user of the node: the one of vNodes, and those of
\* dialers that have found it.
Spare(n) == node[n].refs - Users(n)

RefInv ==
  /\ \A n \in Objects : Spare(n) >= 0
  /\ \A n \in vNodes : Spare(n) >= 1

FillsIn(d) == dial[d].pc \in {"move", "mark"}

\* Another dialer fills in the same node.
Shared(d) == \E e \in Dialers : e # d /\ FillsIn(e) /\ dial[e].pnode = dial[d].pnode

PublishInv ==
  \A d \in Dialers : FillsIn(d) =>
    LET n == dial[d].pnode
    IN  /\ n \in Alive
        /\ Spare(n) >= 1
        /\ n \in vNodes /\ (node[n].fNetworkNode \/ node[n].fInbound \/ Shared(d)) => Spare(n) >= 2

FoundInv ==
  ~raced => \A d \in Dialers :
    /\ dial[d].pc \in {"found", "adding"} => dial[d].pnode \in Alive
    /\ dial[d].pc = "adding" => dial[d].seen = node[dial[d].pnode].refs

\* Where a dialer may hold a grant.
HoldsGrant(r) == r.grant => /\ r.pc \in {"check", "connect", "found", "adding", "move"}
                            /\ r.kind \in {"address", "name", "oneshot"}

SlotInv ==
  /\ \A d \in Dialers : HoldsGrant(dial[d])
  /\ \A n \in Objects : node[n].grant => n \in Alive
  /\ Slots = MaxOutbound

NodesInv == NodesTypeOK /\ CopyInv /\ RefInv /\ PublishInv /\ SlotInv

-----------------------------------------------------------------------------
LEMMA SlotsAreFinite ==
  ASSUME vNodes \subseteq Objects, vNodesDisconnected \subseteq Objects
  PROVE  /\ IsFiniteSet(DialSlots) /\ Cardinality(DialSlots) \in Nat
         /\ IsFiniteSet(NodeSlots) /\ Cardinality(NodeSlots) \in Nat
<1>1. DialSlots \subseteq Dialers /\ NodeSlots \subseteq Objects
  BY DEF DialSlots, NodeSlots, Alive
<1> QED BY <1>1, NodesAssumption, FS_Subset, FS_CardinalityType

\* A step that leaves the slots where they are conserves them.
LEMMA SlotsStay ==
  ASSUME Slots = MaxOutbound, value' = value, DialSlots' = DialSlots, NodeSlots' = NodeSlots
  PROVE  Slots' = MaxOutbound
BY DEF Slots

LEMMA UsersType == \A n \in Objects : Users(n) \in Nat
BY DEF Users

LEMMA IdleType == Idle \in Dialing /\ Idle.pc = "idle" /\ ~Idle.grant
BY DEF Idle, Dialing, Kinds

\* The record of a dialer with another place and another count.
LEMMA SeenType ==
  ASSUME NEW q \in Dialing, NEW p \in {"adding", "move"}, NEW s \in Int
  PROVE  LET r == [q EXCEPT !.pc = p, !.seen = s]
         IN  /\ r \in Dialing /\ r.pc = p /\ r.pnode = q.pnode
             /\ r.grant = q.grant /\ r.kind = q.kind
BY DEF Dialing

LEMMA InitInv == Init => NodesInv
<1> SUFFICES ASSUME Init PROVE NodesInv
  OBVIOUS
<1>1. NodesTypeOK
  <2>1. Freed \in Fields
    BY DEF Fields, Freed, NewNode
  <2>2. node \in [Objects -> Fields] /\ dial \in [Dialers -> Dialing] /\ raced \in BOOLEAN
    BY <2>1, IdleType DEF Init
  <2> QED BY <2>2, NodesAssumption DEF Init, NodesTypeOK
<1>2. CopyInv /\ RefInv
  BY DEF Init, CopyInv, RefInv, Spare, Users, Freed, NewNode
<1>3. PublishInv
  BY DEF Init, PublishInv, FillsIn, Idle
<1>4. DialSlots = {} /\ NodeSlots = {}
  BY DEF Init, DialSlots, NodeSlots, Alive, Idle
<1>5. Slots = MaxOutbound
  BY <1>4, FS_EmptySet, NodesAssumption DEF Init, Slots
<1>6. SlotInv
  BY <1>5 DEF Init, SlotInv, HoldsGrant, Idle, Freed, NewNode
<1> QED BY <1>1, <1>2, <1>3, <1>6 DEF NodesInv

-----------------------------------------------------------------------------
(***************************************************************************)
(* The threads that work on a copy of vNodes: each reference they take or  *)
(* give back is a user that comes or goes.                                 *)
(***************************************************************************)
LEMMA UserStep ==
  ASSUME NodesInv, raced' \in BOOLEAN, NodesTypeOK', CopyInv',
         UNCHANGED <<vNodes, vNodesDisconnected, value, dial>>,
         \A n \in Objects :
           /\ Spare(n)' = Spare(n)
           /\ node'[n].grant = node[n].grant
           /\ node'[n].fInbound = node[n].fInbound
           /\ node'[n].fNetworkNode = node[n].fNetworkNode
  PROVE  NodesInv'
<1> USE DEF NodesInv
<1>1. vNodes \subseteq Objects /\ vNodesDisconnected \subseteq Objects
  BY DEF NodesTypeOK
<1>2. RefInv'
  BY <1>1 DEF RefInv
<1>3. PublishInv'
  BY <1>1 DEF PublishInv, FillsIn, Shared, Alive
<1>4. DialSlots' = DialSlots /\ NodeSlots' = NodeSlots
  BY <1>1 DEF DialSlots, NodeSlots, Alive
<1>5. SlotInv'
  BY <1>1, <1>4, SlotsStay DEF SlotInv, Alive
<1> QED BY <1>2, <1>3, <1>5

LEMMA SocketCopyInv == ASSUME NodesInv, raced' \in BOOLEAN, SocketCopy PROVE NodesInv'
<1> USE DEF NodesInv, SocketCopy, msg
<1>1. NodesTypeOK'
  BY DEF NodesTypeOK, AddRef, Fields
<1>2. CopyInv'
  BY DEF CopyInv, Alive
<1>3. \A n \in Objects : node[n].refs \in Int /\ Users(n) \in Nat
  BY UsersType DEF NodesTypeOK, Fields
<1>4. \A n \in Objects : Users(n)' = IF n \in vNodes THEN Users(n) + 1 ELSE Users(n)
  BY DEF Users, CopyInv
<1>5. \A n \in Objects : node'[n].refs = IF n \in vNodes THEN node[n].refs + 1 ELSE node[n].refs
  BY DEF AddRef, NodesTypeOK, Fields
<1>6. \A n \in Objects : Spare(n)' = Spare(n)
  BY <1>3, <1>4, <1>5 DEF Spare
<1> QED BY <1>1, <1>2, <1>6, UserStep DEF AddRef, NodesTypeOK, Fields

LEMMA SocketReleaseInv == ASSUME NodesInv, raced' \in BOOLEAN, SocketRelease PROVE NodesInv'
<1> USE DEF NodesInv, SocketRelease, msg
<1>1. NodesTypeOK'
  BY DEF NodesTypeOK, Release, Fields
<1>2. CopyInv'
  BY DEF CopyInv, Alive
<1>3. \A n \in Objects : node[n].refs \in Int /\ Users(n) \in Nat
  BY UsersType DEF NodesTypeOK, Fields
<1>4. \A n \in Objects : Users(n)' = IF n \in sockCopy THEN Users(n) - 1 ELSE Users(n)
  BY DEF Users
<1>5. \A n \in Objects : node'[n].refs = IF n \in sockCopy THEN node[n].refs - 1 ELSE node[n].refs
  BY DEF Release, NodesTypeOK, Fields
<1>6. \A n \in Objects : Spare(n)' = Spare(n)
  BY <1>3, <1>4, <1>5 DEF Spare
<1> QED BY <1>1, <1>2, <1>6, UserStep DEF Release, NodesTypeOK, Fields

LEMMA MessageCopyInv == ASSUME NodesInv, raced' \in BOOLEAN, MessageCopy PROVE NodesInv'
<1> USE DEF NodesInv, MessageCopy, sock
<1>1. NodesTypeOK'
  BY DEF NodesTypeOK, AddRef, Fields
<1>2. CopyInv'
  BY DEF CopyInv, Alive
<1>3. \A n \in Objects : node[n].refs \in Int /\ Users(n) \in Nat
  BY UsersType DEF NodesTypeOK, Fields
<1>4. \A n \in Objects : Users(n)' = IF n \in vNodes THEN Users(n) + 1 ELSE Users(n)
  BY DEF Users, CopyInv
<1>5. \A n \in Objects : node'[n].refs = IF n \in vNodes THEN node[n].refs + 1 ELSE node[n].refs
  BY DEF AddRef, NodesTypeOK, Fields
<1>6. \A n \in Objects : Spare(n)' = Spare(n)
  BY <1>3, <1>4, <1>5 DEF Spare
<1> QED BY <1>1, <1>2, <1>6, UserStep DEF AddRef, NodesTypeOK, Fields

LEMMA MessageReleaseInv == ASSUME NodesInv, raced' \in BOOLEAN, MessageRelease PROVE NodesInv'
<1> USE DEF NodesInv, MessageRelease, sock
<1>1. NodesTypeOK'
  BY DEF NodesTypeOK, Release, Fields
<1>2. CopyInv'
  BY DEF CopyInv, Alive
<1>3. \A n \in Objects : node[n].refs \in Int /\ Users(n) \in Nat
  BY UsersType DEF NodesTypeOK, Fields
<1>4. \A n \in Objects : Users(n)' = IF n \in msgCopy THEN Users(n) - 1 ELSE Users(n)
  BY DEF Users
<1>5. \A n \in Objects : node'[n].refs = IF n \in msgCopy THEN node[n].refs - 1 ELSE node[n].refs
  BY DEF Release, NodesTypeOK, Fields
<1>6. \A n \in Objects : Spare(n)' = Spare(n)
  BY <1>3, <1>4, <1>5 DEF Spare
<1> QED BY <1>1, <1>2, <1>6, UserStep DEF Release, NodesTypeOK, Fields

\* Closing a node writes fDisconnect only.
LEMMA ClosesInv ==
  ASSUME NodesInv, raced' \in BOOLEAN, NEW n \in Objects,
         node' = [node EXCEPT ![n].fDisconnect = TRUE],
         UNCHANGED <<vNodes, vNodesDisconnected, value, sock, msg, dial>>
  PROVE  NodesInv'
<1> USE DEF NodesInv, sock, msg
<1>1. NodesTypeOK'
  BY DEF NodesTypeOK, Fields
<1>2. CopyInv'
  BY DEF CopyInv, Alive
<1>3. \A x \in Objects : Spare(x)' = Spare(x)
  BY DEF Spare, Users, NodesTypeOK, Fields
<1> QED BY <1>1, <1>2, <1>3, UserStep DEF NodesTypeOK, Fields

-----------------------------------------------------------------------------
(***************************************************************************)
(* Nodes that come and nodes that go.                                      *)
(***************************************************************************)
\* Nobody knows of a node in new memory.
LEMMA FreshNode ==
  ASSUME NodesInv, NEW n \in Objects, n \notin Alive
  PROVE  /\ Users(n) = 0 /\ ~node[n].grant
         /\ \A d \in Dialers : FillsIn(d) => dial[d].pnode # n
BY DEF NodesInv, CopyInv, Users, SlotInv, PublishInv

LEMMA AcceptInv == ASSUME NodesInv, raced' \in BOOLEAN, Accept PROVE NodesInv'
<1> USE DEF NodesInv
<1>1. PICK n \in Objects, a \in Addresses :
        /\ n \notin Alive
        /\ node' = [node EXCEPT ![n] = NewNode(a, FALSE, TRUE)]
        /\ vNodes' = vNodes \cup {n}
  BY DEF Accept
<1>2. /\ sockPc = "accept" /\ sockPc' = "copy"
      /\ UNCHANGED <<vNodesDisconnected, value, sockCopy, msgCopy, msgPc, dial>>
  BY DEF Accept, msg
<1>3. NodesTypeOK'
  BY <1>1, <1>2 DEF NodesTypeOK, Fields, NewNode
<1>4. CopyInv'
  BY <1>1, <1>2 DEF CopyInv, Alive
<1>5. \A x \in Objects : x # n => Spare(x)' = Spare(x) /\ node'[x] = node[x]
  BY <1>1, <1>2 DEF Spare, Users, NodesTypeOK
<1>6. Spare(n)' = 1 /\ ~node'[n].grant /\ ~node[n].grant
  <2>1. Users(n)' = Users(n) /\ Users(n) = 0 /\ ~node[n].grant
    BY <1>1, <1>2, FreshNode DEF Users
  <2> QED BY <1>1, <2>1 DEF Spare, NodesTypeOK, NewNode
<1>7. vNodes \subseteq Objects /\ vNodesDisconnected \subseteq Objects /\ n \notin vNodesDisconnected
  BY <1>1 DEF NodesTypeOK, Alive
<1>8. RefInv'
  BY <1>1, <1>2, <1>5, <1>6, <1>7 DEF RefInv
<1>9. PublishInv'
  <2>1. \A d \in Dialers : Shared(d)' = Shared(d)
    BY <1>2 DEF Shared, FillsIn
  <2> SUFFICES ASSUME NEW d \in Dialers, FillsIn(d), NEW x, x = dial[d].pnode
               PROVE  /\ x \in Alive'
                      /\ Spare(x)' >= 1
                      /\ x \in vNodes' /\ (node'[x].fNetworkNode \/ node'[x].fInbound \/ Shared(d)) => Spare(x)' >= 2
    BY <1>2, <2>1 DEF PublishInv, FillsIn
  <2>2. x # n /\ x \in Alive /\ x \in Objects
    BY <1>1, <1>7, FreshNode DEF PublishInv, Alive
  <2> QED BY <1>1, <1>2, <1>5, <2>2 DEF PublishInv, Alive
<1>10. DialSlots' = DialSlots /\ NodeSlots' = NodeSlots
  BY <1>1, <1>2, <1>5, <1>6, <1>7 DEF DialSlots, NodeSlots, Alive
<1>11. SlotInv'
  BY <1>1, <1>2, <1>5, <1>6, <1>7, <1>10, SlotsStay DEF SlotInv, Alive
<1> QED BY <1>3, <1>4, <1>8, <1>9, <1>11

\* What is deleted has neither a user nor a dialer that fills it in; every slot of a
\* node that leaves vNodes, and of one that is deleted, is posted.
LEMMA DisconnectInv == ASSUME NodesInv, raced' \in BOOLEAN, DisconnectNodes PROVE NodesInv'
<1> USE DEF NodesInv
<1> DEFINE D == {n \in vNodes : node[n].fDisconnect}
           pool == vNodesDisconnected \cup D
           nodes == Disconnected(D)
           deleted == Deletable(nodes, pool)
           G == {n \in D \cup deleted : node[n].grant}
<1>1. /\ vNodes \subseteq Objects /\ vNodesDisconnected \subseteq Objects
      /\ vNodes \cap vNodesDisconnected = {}
      /\ \A n \in Objects : node[n].refs \in Int /\ Users(n) \in Nat
  BY UsersType DEF NodesTypeOK, Fields, CopyInv
<1>2. {n \in vNodes : node[n].refs <= 0} = {}
  BY <1>1 DEF RefInv, Spare
<1>3. /\ node' = [n \in Objects |-> IF n \in deleted THEN Freed ELSE nodes[n]]
      /\ vNodes' = vNodes \ D
      /\ vNodesDisconnected' = pool \ deleted
      /\ value' = value + Cardinality(G)
  BY <1>2 DEF DisconnectNodes, Closed
<1>4. /\ sockPc = "disconnect" /\ sockPc' = "accept"
      /\ UNCHANGED <<sockCopy, msgCopy, msgPc, dial>>
  BY DEF DisconnectNodes, msg
<1>5. \A n \in Objects : Users(n)' = Users(n)
  BY <1>4 DEF Users
<1>6. nodes \in [Objects -> Fields]
  <2>1. Release(OwnReference(D)) \in [Objects -> Fields]
    BY DEF NodesTypeOK, Release, Fields
  <2> HIDE DEF D
  <2> QED BY <2>1 DEF NodesTypeOK, Disconnected, Fields
<1>7. \A n \in Objects \ D : nodes[n] = node[n]
  BY DEF Disconnected
<1>8. ASSUME NEW n \in D
      PROVE  /\ nodes[n].refs = IF node[n].fNetworkNode \/ node[n].fInbound THEN node[n].refs - 1 ELSE node[n].refs
             /\ ~nodes[n].grant
             /\ nodes[n].fNetworkNode = node[n].fNetworkNode
             /\ nodes[n].fInbound = node[n].fInbound
  BY <1>1 DEF Disconnected, Release, OwnReference, NodesTypeOK, Fields
<1>9. \A n \in deleted : n \in pool /\ n \in Objects /\ nodes[n].refs <= 0
  BY <1>1 DEF Deletable
\* What a node in D has left of its references.
<1>10. \A n \in D : n \in Objects /\ Spare(n) >= 1 /\ nodes[n].refs >= Users(n)
  <2> SUFFICES ASSUME NEW n \in D PROVE n \in Objects /\ Spare(n) >= 1 /\ nodes[n].refs >= Users(n)
    OBVIOUS
  <2>1. n \in Objects /\ n \in vNodes /\ Spare(n) >= 1
    BY <1>1 DEF RefInv
  <2> QED BY <2>1, <1>1, <1>8 DEF Spare
<1>11. ASSUME NEW d \in Dialers, FillsIn(d), NEW x, x = dial[d].pnode
       PROVE  /\ x \in Alive /\ x \in Objects
              /\ nodes[x].refs >= Users(x) + 1
  <2>1. x \in Alive /\ x \in Objects /\ Spare(x) >= 1
    BY <1>1, <1>11 DEF PublishInv, Alive
  <2>2. CASE x \in D
    <3>1. x \in vNodes /\ (node[x].fNetworkNode \/ node[x].fInbound => Spare(x) >= 2)
      BY <2>2, <1>11 DEF PublishInv
    <3> QED BY <3>1, <2>1, <2>2, <1>1, <1>8 DEF Spare
  <2>3. CASE x \notin D
    BY <2>1, <2>3, <1>1, <1>7 DEF Spare
  <2> QED BY <2>1, <2>2, <2>3
<1>12. ASSUME NEW n \in deleted
       PROVE  Users(n) = 0 /\ \A d \in Dialers : FillsIn(d) => dial[d].pnode # n
  <2>1. n \in Objects /\ nodes[n].refs <= 0 /\ Users(n) \in Nat
    BY <1>1, <1>9
  <2>2. nodes[n].refs >= Users(n) /\ nodes[n].refs \in Int
    <3>1. CASE n \in D
      BY <3>1, <2>1, <1>6, <1>10 DEF Fields
    <3>2. CASE n \notin D
      BY <3>2, <2>1, <1>1, <1>7 DEF RefInv, Spare
    <3> QED BY <3>1, <3>2
  <2> QED BY <2>1, <2>2, <1>11
<1>13. deleted \subseteq Objects /\ \A n \in Objects \ deleted : node'[n] = nodes[n]
  BY <1>1, <1>3, <1>9
<1>14. \A n \in deleted : node'[n] = Freed
  BY <1>3, <1>13
<1>15. CopyInv'
  <2>1. \A n \in sockCopy \cup msgCopy : n \in Objects /\ n \notin deleted
    BY <1>1, <1>12 DEF Users, CopyInv, Alive
  <2> QED BY <1>3, <1>4, <2>1 DEF CopyInv, Alive
<1>16. RefInv'
  <2>1. ASSUME NEW n \in vNodes' PROVE Spare(n)' >= 1
    <3>1. n \in vNodes /\ n \in Objects /\ n \notin D /\ n \notin deleted
      BY <1>1, <1>3, <1>9
    <3> QED BY <3>1, <1>5, <1>7, <1>13 DEF RefInv, Spare
  <2>2. ASSUME NEW n \in Objects PROVE Spare(n)' >= 0
    <3>1. CASE n \in deleted
      BY <3>1, <1>5, <1>12, <1>14 DEF Spare, Freed, NewNode
    <3>2. CASE n \in D /\ n \notin deleted
      BY <3>2, <1>1, <1>5, <1>6, <1>10, <1>13 DEF Spare, Fields
    <3>3. CASE n \notin D /\ n \notin deleted
      BY <3>3, <1>5, <1>7, <1>13 DEF RefInv, Spare
    <3> QED BY <3>1, <3>2, <3>3
  <2> QED BY <2>1, <2>2 DEF RefInv
<1>17. \A n \in Alive : n \in Alive' \/ n \in deleted
  BY <1>3 DEF Alive
<1>18. PublishInv'
  <2>1. \A d \in Dialers : Shared(d)' = Shared(d)
    BY <1>4 DEF Shared, FillsIn
  <2> SUFFICES ASSUME NEW d \in Dialers, FillsIn(d), NEW x, x = dial[d].pnode
               PROVE  /\ x \in Alive'
                      /\ Spare(x)' >= 1
                      /\ x \in vNodes' /\ (node'[x].fNetworkNode \/ node'[x].fInbound \/ Shared(d)) => Spare(x)' >= 2
    BY <1>4, <2>1 DEF PublishInv, FillsIn
  <2>2. x \in Alive /\ x \in Objects /\ x \notin deleted /\ nodes[x].refs >= Users(x) + 1
    BY <1>11, <1>12
  <2>3. x \in Alive' /\ node'[x] = nodes[x] /\ Users(x)' = Users(x)
    BY <2>2, <1>5, <1>13, <1>17
  <2>4. Spare(x)' >= 1
    BY <2>2, <2>3, <1>1, <1>6 DEF Spare, Fields
  <2>5. ASSUME x \in vNodes' PROVE x \in vNodes /\ node'[x] = node[x] /\ Spare(x)' = Spare(x)
    <3>1. x \in vNodes /\ x \notin D
      BY <2>5, <1>3
    <3> QED BY <3>1, <2>2, <2>3, <1>7 DEF Spare
  <2> QED BY <2>3, <2>4, <2>5 DEF PublishInv
<1>19. \A n \in Objects : node'[n].grant <=> node[n].grant /\ n \notin G
  <2> SUFFICES ASSUME NEW n \in Objects PROVE node'[n].grant <=> node[n].grant /\ n \notin G
    OBVIOUS
  <2>1. CASE n \in deleted
    BY <2>1, <1>14 DEF Freed, NewNode
  <2>2. CASE n \in D /\ n \notin deleted
    BY <2>2, <1>8, <1>13
  <2>3. CASE n \notin D /\ n \notin deleted
    BY <2>3, <1>7, <1>13
  <2> QED BY <2>1, <2>2, <2>3
<1>20. DialSlots' = DialSlots /\ NodeSlots' = NodeSlots \ G /\ G \subseteq NodeSlots
  <2>1. DialSlots' = DialSlots
    BY <1>4 DEF DialSlots
  <2>2. G \subseteq NodeSlots
    BY <1>9 DEF NodeSlots, Alive
  <2>3. Alive' \subseteq Alive /\ Alive \subseteq Objects
    BY <1>1, <1>3 DEF Alive
  <2>4. \A n \in NodeSlots : n \notin G => n \in Alive'
    BY <1>17 DEF NodeSlots
  <2> HIDE DEF G
  <2> QED BY <2>1, <2>2, <2>3, <2>4, <1>19 DEF NodeSlots
<1>21. /\ IsFiniteSet(NodeSlots) /\ IsFiniteSet(G)
       /\ Cardinality(G) \in Nat /\ Cardinality(NodeSlots) \in Nat /\ Cardinality(DialSlots) \in Nat
       /\ Cardinality(NodeSlots \ G) \in Nat
       /\ Cardinality(NodeSlots) = Cardinality(NodeSlots \ G) + Cardinality(G)
  <2>1. IsFiniteSet(NodeSlots) /\ IsFiniteSet(G) /\ IsFiniteSet(NodeSlots \ G)
    BY <1>1, <1>20, SlotsAreFinite, FS_Subset
  <2> HIDE DEF G
  <2>2. NodeSlots \cap G = G
    BY <1>20
  <2>3. Cardinality(NodeSlots \ G) = Cardinality(NodeSlots) - Cardinality(G)
    BY <2>1, <2>2, FS_Difference
  <2>4. Cardinality(G) \in Nat /\ Cardinality(NodeSlots) \in Nat /\ Cardinality(DialSlots) \in Nat /\ Cardinality(NodeSlots \ G) \in Nat
    BY <2>1, <1>1, FS_CardinalityType, SlotsAreFinite
  <2> QED BY <2>1, <2>2, <2>3, <2>4
<1>22. Slots' = MaxOutbound /\ value' \in 0..MaxOutbound
  <2>1. value \in Nat /\ value' = value + Cardinality(G) /\ MaxOutbound \in Nat
    BY <1>3, NodesAssumption DEF NodesTypeOK
  <2>2. value + Cardinality(DialSlots) + Cardinality(NodeSlots) = MaxOutbound
    BY DEF SlotInv, Slots
  <2> HIDE DEF G
  <2> QED BY <2>1, <2>2, <1>20, <1>21 DEF Slots
<1>23. NodesTypeOK'
  <2>1. node' \in [Objects -> Fields]
    <3>1. Freed \in Fields
      BY DEF Freed, NewNode, Fields
    <3> QED BY <3>1, <1>3, <1>6
  <2> QED BY <1>1, <1>3, <1>4, <1>22, <2>1 DEF NodesTypeOK
<1>24. SlotInv'
  <2>1. ASSUME NEW n \in Objects, node'[n].grant PROVE n \in Alive'
    <3>1. node[n].grant /\ n \notin G
      BY <2>1, <1>19
    <3>2. n \in Alive /\ n \notin deleted
      BY <3>1 DEF SlotInv
    <3> QED BY <3>2, <1>17
  <2> QED BY <2>1, <1>4, <1>22 DEF SlotInv
<1> QED BY <1>15, <1>16, <1>18, <1>23, <1>24

-----------------------------------------------------------------------------
(***************************************************************************)
(* The dialers.                                                            *)
(***************************************************************************)
\* How many slots dialer d has when its record is r.
Slot(r) == IF r.grant THEN 1 ELSE 0

\* A dialer that gets the record r: what the number of slots with dialers becomes.
LEMMA DialSlotsStep ==
  ASSUME NodesTypeOK, NEW d \in Dialers, NEW r \in Dialing, dial' = [dial EXCEPT ![d] = r]
  PROVE  /\ Cardinality(DialSlots) \in Nat /\ Cardinality(DialSlots)' \in Nat
         /\ Cardinality(DialSlots)' = Cardinality(DialSlots) - Slot(dial[d]) + Slot(r)
<1>1. IsFiniteSet(DialSlots) /\ Cardinality(DialSlots) \in Nat
  BY SlotsAreFinite DEF NodesTypeOK
<1>2. dial[d].grant \in BOOLEAN /\ r.grant \in BOOLEAN
  BY DEF NodesTypeOK, Dialing
<1>3. (d \in DialSlots) = dial[d].grant
  BY <1>2 DEF DialSlots
<1>4. CASE r.grant
  <2>1. DialSlots' = DialSlots \cup {d}
    BY <1>4 DEF DialSlots, NodesTypeOK
  <2>2. Cardinality(DialSlots \cup {d}) = IF d \in DialSlots THEN Cardinality(DialSlots) ELSE Cardinality(DialSlots) + 1
    BY <1>1, FS_AddElement
  <2> QED BY <1>1, <1>2, <1>3, <1>4, <2>1, <2>2 DEF Slot
<1>5. CASE ~r.grant
  <2>1. DialSlots' = DialSlots \ {d}
    BY <1>5 DEF DialSlots, NodesTypeOK
  <2>2. Cardinality(DialSlots \ {d}) = IF d \in DialSlots THEN Cardinality(DialSlots) - 1 ELSE Cardinality(DialSlots)
    BY <1>1, FS_RemoveElement
  <2>3. Cardinality(DialSlots \ {d}) \in Nat
    BY <1>1, FS_RemoveElement, FS_CardinalityType
  <2> QED BY <1>1, <1>2, <1>3, <1>5, <2>1, <2>2, <2>3 DEF Slot
<1> QED BY <1>4, <1>5

\* A step of a dialer that does not fill a node in: the slots it takes or gives back are
\* those of semOutbound.
LEMMA DialerStep ==
  ASSUME NodesInv, raced' \in BOOLEAN, NEW d \in Dialers, NEW r \in Dialing,
         dial' = [dial EXCEPT ![d] = r],
         r.pc \notin {"move", "mark"}, HoldsGrant(r),
         value' = value + Slot(dial[d]) - Slot(r), value' \in Nat,
         UNCHANGED <<vNodes, vNodesDisconnected, node, sockCopy, sockPc, msgCopy, msgPc>>
  PROVE  NodesInv'
<1> USE DEF NodesInv
<1>1. \A n : Spare(n)' = Spare(n)
  BY DEF Spare, Users
<1>2. dial' \in [Dialers -> Dialing] /\ dial'[d] = r /\ \A e \in Dialers : e # d => dial'[e] = dial[e]
  BY DEF NodesTypeOK
<1>3. CopyInv' /\ RefInv'
  BY <1>1 DEF CopyInv, RefInv, Alive
<1>4. PublishInv'
  <2>1. \A e \in Dialers : FillsIn(e)' => FillsIn(e) /\ dial'[e] = dial[e]
    BY <1>2 DEF FillsIn
  <2>2. \A e \in Dialers : FillsIn(e)' /\ Shared(e)' => Shared(e)
    BY <2>1 DEF Shared
  <2>3. Alive' = Alive
    BY DEF Alive
  <2> QED BY <1>1, <2>1, <2>2, <2>3 DEF PublishInv
<1>5. NodeSlots' = NodeSlots
  BY DEF NodeSlots, Alive
<1>6. Slots' = MaxOutbound /\ value' \in 0..MaxOutbound
  <2>1. Cardinality(NodeSlots) \in Nat
    BY SlotsAreFinite DEF NodesTypeOK
  <2>2. Slot(dial[d]) \in {0, 1} /\ Slot(r) \in {0, 1} /\ value \in Int
    BY DEF Slot, NodesTypeOK
  <2>3. value + Cardinality(DialSlots) + Cardinality(NodeSlots) = MaxOutbound /\ MaxOutbound \in Nat
    BY NodesAssumption DEF SlotInv, Slots
  <2>4. /\ Cardinality(DialSlots) \in Nat /\ Cardinality(DialSlots)' \in Nat
        /\ Cardinality(DialSlots)' = Cardinality(DialSlots) - Slot(dial[d]) + Slot(r)
    BY DialSlotsStep
  <2> QED BY <1>5, <2>1, <2>2, <2>3, <2>4 DEF Slots
<1>7. NodesTypeOK'
  BY <1>2, <1>6 DEF NodesTypeOK
<1>8. SlotInv'
  BY <1>1, <1>2, <1>6 DEF SlotInv, Alive
<1> QED BY <1>3, <1>4, <1>7, <1>8

LEMMA DialInv == ASSUME NodesInv, raced' \in BOOLEAN, NEW d \in Dialers, Dial(d) PROVE NodesInv'
<1>1. PICK k \in DialKinds[d], a \in Addresses :
        LET granted == k \in {"address", "name", "oneshot"}
        IN  /\ dial[d].pc = "idle"
            /\ granted => value >= 1
            /\ value' = IF granted THEN value - 1 ELSE value
            /\ dial' = [dial EXCEPT ![d] = [pc |-> IF k = "onetry" THEN "connect" ELSE "check", kind |-> k,
                                             addr |-> a, grant |-> granted, pnode |-> Null, seen |-> 0]]
            /\ UNCHANGED <<vNodes, vNodesDisconnected, node, sock, msg>>
  BY DEF Dial
<1> DEFINE g == k \in {"address", "name", "oneshot"}
           p == IF k = "onetry" THEN "connect" ELSE "check"
           r == [pc |-> p, kind |-> k, addr |-> a, grant |-> g, pnode |-> Null, seen |-> 0]
<1>2. k \in Kinds /\ g \in BOOLEAN
  BY NodesAssumption
<1>3. r \in Dialing /\ r.pc \in {"connect", "check"} /\ r.kind = k /\ r.grant = g
  <2>1. p \in {"connect", "check"}
    OBVIOUS
  <2> HIDE DEF g, p
  <2> QED BY <2>1, <1>2 DEF Dialing
<1>4. HoldsGrant(dial[d]) /\ value \in Nat
  BY DEF NodesInv, SlotInv, NodesTypeOK
<1>5. ~dial[d].grant
  BY <1>1, <1>4 DEF HoldsGrant
<1>6. value' = value + Slot(dial[d]) - Slot(r) /\ value' \in Nat
  <2>1. value' = (IF g THEN value - 1 ELSE value) /\ (g => value >= 1)
    BY <1>1
  <2>2. Slot(dial[d]) = 0 /\ Slot(r) = IF g THEN 1 ELSE 0
    <3> HIDE DEF g, r
    <3> QED BY <1>3, <1>5 DEF Slot
  <2> HIDE DEF g, r
  <2> QED BY <2>1, <2>2, <1>2, <1>4
<1>7. HoldsGrant(r) /\ r.pc \notin {"move", "mark"}
  <2> HIDE DEF r
  <2> QED BY <1>3 DEF HoldsGrant
<1> QED BY <1>1, <1>3, <1>6, <1>7, DialerStep DEF sock, msg

\* The dialer goes on with its grant.
LEMMA GoOnInv ==
  ASSUME NodesInv, raced' \in BOOLEAN, NEW d \in Dialers, NEW r \in Dialing,
         dial' = [dial EXCEPT ![d] = r],
         dial[d].pc \in {"check", "connect", "found"}, r.pc \in {"connect", "found", "adding"},
         r.grant = dial[d].grant, r.kind = dial[d].kind,
         UNCHANGED <<vNodes, vNodesDisconnected, node, value, sock, msg>>
  PROVE  NodesInv'
<1>1. HoldsGrant(dial[d]) /\ value \in Nat
  BY DEF NodesInv, SlotInv, NodesTypeOK
<1>2. HoldsGrant(r) /\ Slot(r) = Slot(dial[d]) /\ Slot(r) \in {0, 1}
  BY <1>1 DEF HoldsGrant, Slot
<1>3. value' = value + Slot(dial[d]) - Slot(r) /\ value' \in Nat
  BY <1>1, <1>2
<1> QED BY <1>2, <1>3, DialerStep DEF sock, msg

LEMMA CheckPassesInv == ASSUME NodesInv, raced' \in BOOLEAN, NEW d \in Dialers, CheckPasses(d) PROVE NodesInv'
<1> DEFINE r == [dial[d] EXCEPT !.pc = "connect"]
<1>1. /\ dial[d] \in Dialing /\ dial[d].pc = "check" /\ dial' = [dial EXCEPT ![d] = r]
  BY DEF CheckPasses, NodesInv, NodesTypeOK
<1>2. r \in Dialing /\ r.pc = "connect" /\ r.grant = dial[d].grant /\ r.kind = dial[d].kind
  BY <1>1 DEF Dialing
<1> QED BY <1>1, <1>2, GoOnInv DEF CheckPasses

LEMMA FindExistingInv == ASSUME NodesInv, raced' \in BOOLEAN, NEW d \in Dialers, FindExisting(d) PROVE NodesInv'
<1>1. PICK n \in vNodes : dial' = [dial EXCEPT ![d].pc = "found", ![d].pnode = n]
  BY DEF FindExisting
<1> DEFINE r == [dial[d] EXCEPT !.pc = "found", !.pnode = n]
<1>2. dial[d] \in Dialing /\ dial[d].pc = "connect" /\ n \in Objects /\ dial' = [dial EXCEPT ![d] = r]
  BY <1>1 DEF FindExisting, NodesInv, NodesTypeOK
<1>3. r \in Dialing /\ r.pc = "found" /\ r.grant = dial[d].grant /\ r.kind = dial[d].kind
  BY <1>2 DEF Dialing
<1> QED BY <1>2, <1>3, GoOnInv DEF FindExisting

LEMMA AddRefReadsInv ==
  ASSUME NodesInv, FoundInv, ~raced, raced' \in BOOLEAN, NEW d \in Dialers, AddRefReads(d)
  PROVE  NodesInv'
<1> DEFINE r == [dial[d] EXCEPT !.pc = "adding", !.seen = node[dial[d].pnode].refs]
<1>1. dial[d] \in Dialing /\ dial[d].pc = "found" /\ dial' = [dial EXCEPT ![d] = r]
  BY DEF AddRefReads, NodesInv, NodesTypeOK
<1>2. dial[d].pnode \in Objects
  BY <1>1 DEF FoundInv, Alive, NodesInv, NodesTypeOK
<1>3. node[dial[d].pnode].refs \in Int
  BY <1>2 DEF NodesInv, NodesTypeOK, Fields
<1>4. r \in Dialing /\ r.pc = "adding" /\ r.grant = dial[d].grant /\ r.kind = dial[d].kind
  BY <1>1, <1>3 DEF Dialing
<1> QED BY <1>1, <1>4, GoOnInv DEF AddRefReads

\* The dialer gives up: its grant, if it has one, is posted.
LEMMA ReturnInv ==
  ASSUME NodesInv, raced' \in BOOLEAN, NEW d \in Dialers, Return(d),
         UNCHANGED <<vNodes, vNodesDisconnected, node, sock, msg>>
  PROVE  NodesInv'
<1>1. HoldsGrant(Idle)
  BY IdleType, Zenon DEF HoldsGrant
<1>2. Slot(Idle) = 0 /\ Slot(dial[d]) \in {0, 1}
  BY IdleType DEF Slot
<1>3. value' = value + Slot(dial[d]) - Slot(Idle) /\ value' \in Nat
  BY <1>2 DEF Return, Slot, NodesInv, NodesTypeOK
<1> QED BY <1>1, <1>3, IdleType, DialerStep DEF Return, sock, msg

\* The dialer returns without a grant.
LEMMA LeaveInv ==
  ASSUME NodesInv, raced' \in BOOLEAN, NEW d \in Dialers, ~dial[d].grant, value' = value,
         dial' = [dial EXCEPT ![d] = Idle],
         UNCHANGED <<vNodes, vNodesDisconnected, node, sock, msg>>
  PROVE  NodesInv'
<1>1. Return(d)
  BY DEF Return
<1> QED BY <1>1, ReturnInv

LEMMA OneTryInv == ASSUME NodesInv, raced' \in BOOLEAN, NEW d \in Dialers, OneTryReturns(d) PROVE NodesInv'
<1>1. ~dial[d].grant
  BY DEF OneTryReturns, NodesInv, SlotInv, HoldsGrant
<1> QED BY <1>1, LeaveInv DEF OneTryReturns

LEMMA MarkOneShotInv == ASSUME NodesInv, raced' \in BOOLEAN, NEW d \in Dialers, MarkOneShot(d) PROVE NodesInv'
<1>1. ~dial[d].grant
  BY DEF MarkOneShot, NodesInv, SlotInv, HoldsGrant
<1> QED BY <1>1, LeaveInv DEF MarkOneShot

LEMMA ConnectNodeInv == ASSUME NodesInv, raced' \in BOOLEAN, NEW d \in Dialers, ConnectNode(d) PROVE NodesInv'
<1> USE DEF NodesInv
<1>1. PICK n \in Objects :
        /\ n \notin Alive
        /\ node' = [node EXCEPT ![n] = NewNode(dial[d].addr, dial[d].kind # "address", FALSE)]
        /\ vNodes' = vNodes \cup {n}
        /\ dial' = [dial EXCEPT ![d].pc = "move", ![d].pnode = n]
  BY DEF ConnectNode
<1>2. /\ dial[d].pc = "connect" /\ dial[d] \in Dialing
      /\ UNCHANGED <<vNodesDisconnected, value, sockCopy, sockPc, msgCopy, msgPc>>
  BY DEF ConnectNode, sock, msg, NodesTypeOK
<1>3. /\ dial' \in [Dialers -> Dialing]
      /\ dial'[d].pc = "move" /\ dial'[d].pnode = n
      /\ dial'[d].grant = dial[d].grant /\ dial'[d].kind = dial[d].kind
      /\ \A e \in Dialers : e # d => dial'[e] = dial[e]
  BY <1>1, <1>2 DEF NodesTypeOK, Dialing
<1>4. NodesTypeOK'
  BY <1>1, <1>2, <1>3 DEF NodesTypeOK, Fields, NewNode, Dialing
<1>5. CopyInv'
  BY <1>1, <1>2 DEF CopyInv, Alive
<1>6. \A x \in Objects : x # n => Spare(x)' = Spare(x) /\ node'[x] = node[x]
  BY <1>1, <1>2 DEF Spare, Users, NodesTypeOK
<1>7. /\ Spare(n)' = 1 /\ ~node'[n].grant /\ ~node[n].grant
      /\ ~node'[n].fNetworkNode /\ ~node'[n].fInbound
  <2>1. Users(n)' = Users(n) /\ Users(n) = 0 /\ ~node[n].grant
    BY <1>1, <1>2, FreshNode DEF Users
  <2> QED BY <1>1, <2>1 DEF Spare, NodesTypeOK, NewNode
<1>8. vNodes \subseteq Objects /\ vNodesDisconnected \subseteq Objects /\ n \notin vNodesDisconnected
  BY <1>1 DEF NodesTypeOK, Alive
<1>9. RefInv'
  BY <1>1, <1>2, <1>6, <1>7, <1>8 DEF RefInv
<1>10. PublishInv'
  <2>1. \A e \in Dialers : e # d /\ FillsIn(e)' =>
           /\ FillsIn(e) /\ dial'[e] = dial[e]
           /\ dial[e].pnode # n /\ dial[e].pnode \in Alive /\ dial[e].pnode \in Objects
    BY <1>1, <1>3, <1>8, FreshNode DEF FillsIn, PublishInv, Alive
  <2>2. n \in Alive' /\ \A x \in Alive : x \in Alive'
    BY <1>1, <1>2 DEF Alive
  <2> SUFFICES ASSUME NEW e \in Dialers, FillsIn(e)', NEW x, x = dial'[e].pnode
               PROVE  /\ x \in Alive'
                      /\ Spare(x)' >= 1
                      /\ x \in vNodes' /\ (node'[x].fNetworkNode \/ node'[x].fInbound \/ Shared(e)') => Spare(x)' >= 2
    BY DEF PublishInv
  <2>3. CASE e = d
    <3>1. x = n /\ ~Shared(d)'
      BY <2>1, <2>3, <1>3 DEF Shared
    <3> QED BY <3>1, <2>2, <2>3, <1>7
  <2>4. CASE e # d
    <3>1. x = dial[e].pnode /\ FillsIn(e) /\ x # n /\ x \in Alive /\ x \in Objects
      BY <2>1, <2>4
    <3>2. Shared(e)' => Shared(e)
      BY <2>1, <2>4, <3>1, <1>3 DEF Shared
    <3> QED BY <3>1, <3>2, <2>2, <1>1, <1>6 DEF PublishInv
  <2> QED BY <2>3, <2>4
<1>11. DialSlots' = DialSlots /\ NodeSlots' = NodeSlots
  <2>1. \A e \in Dialers : dial'[e].grant = dial[e].grant
    BY <1>3
  <2> QED BY <2>1, <1>1, <1>2, <1>6, <1>7, <1>8 DEF DialSlots, NodeSlots, Alive
<1>12. SlotInv'
  <2>1. \A e \in Dialers : HoldsGrant(dial'[e])
    BY <1>2, <1>3 DEF SlotInv, HoldsGrant
  <2> QED BY <2>1, <1>1, <1>2, <1>6, <1>7, <1>8, <1>11, SlotsStay DEF SlotInv, Alive
<1> QED BY <1>4, <1>5, <1>9, <1>10, <1>12

\* The reference is in time, and nobody will give it up.
LEMMA AddRefWritesInv ==
  ASSUME NodesInv, FoundInv, ~raced, raced' \in BOOLEAN, NEW d \in Dialers, AddRefWrites(d)
  PROVE  NodesInv'
<1> USE DEF NodesInv
<1>1. PICK n : n = dial[d].pnode
  OBVIOUS
<1>2. /\ dial[d].pc = "adding" /\ dial[d] \in Dialing
      /\ node' = [node EXCEPT ![n].refs = dial[d].seen + 1]
      /\ dial' = [dial EXCEPT ![d].pc = "move", ![d].seen = 0]
      /\ UNCHANGED <<vNodes, vNodesDisconnected, value, sockCopy, sockPc, msgCopy, msgPc>>
  BY <1>1 DEF AddRefWrites, sock, msg, NodesTypeOK
<1>3. n \in Alive /\ dial[d].seen = node[n].refs
  BY <1>1, <1>2 DEF FoundInv
<1>4. /\ vNodes \subseteq Objects /\ vNodesDisconnected \subseteq Objects /\ n \in Objects
      /\ node[n] \in Fields /\ Alive' = Alive
  BY <1>2, <1>3 DEF NodesTypeOK, Alive
<1>5. /\ dial' \in [Dialers -> Dialing]
      /\ dial'[d].pc = "move" /\ dial'[d].pnode = n
      /\ dial'[d].grant = dial[d].grant /\ dial'[d].kind = dial[d].kind
      /\ \A e \in Dialers : e # d => dial'[e] = dial[e]
  <2> DEFINE r == [dial[d] EXCEPT !.pc = "move", !.seen = 0]
  <2>1. dial' = [dial EXCEPT ![d] = r]
    BY <1>2
  <2>2. /\ r \in Dialing /\ r.pc = "move" /\ r.pnode = n
        /\ r.grant = dial[d].grant /\ r.kind = dial[d].kind
    <3>1. dial[d] \in Dialing /\ "move" \in {"adding", "move"} /\ 0 \in Int
      BY <1>2
    <3> QED BY <3>1, <1>1, SeenType, Zenon
  <2>3. dial \in [Dialers -> Dialing]
    BY DEF NodesTypeOK
  <2> HIDE DEF r
  <2> QED BY <2>1, <2>2, <2>3
<1>6. /\ node' \in [Objects -> Fields]
      /\ node'[n].refs = node[n].refs + 1 /\ node'[n].grant = node[n].grant
      /\ \A x \in Objects : /\ x # n => node'[x] = node[x]
                            /\ node'[x].grant = node[x].grant
                            /\ node'[x].fNetworkNode = node[x].fNetworkNode
                            /\ node'[x].fInbound = node[x].fInbound
  BY <1>2, <1>3, <1>4 DEF NodesTypeOK, Fields
<1>7. NodesTypeOK' /\ CopyInv'
  BY <1>2, <1>4, <1>5, <1>6 DEF NodesTypeOK, CopyInv
<1>8. /\ \A x \in Objects : Spare(x) \in Int /\ (x # n => Spare(x)' = Spare(x))
      /\ Spare(n)' = Spare(n) + 1
  <2>1. \A x \in Objects : Users(x)' = Users(x) /\ Users(x) \in Nat /\ node[x].refs \in Int
    BY <1>2, UsersType DEF Users, NodesTypeOK, Fields
  <2> QED BY <2>1, <1>4, <1>6 DEF Spare
<1>9. RefInv'
  BY <1>2, <1>4, <1>8 DEF RefInv
<1>10. PublishInv'
  <2>1. Spare(n)' >= 1 /\ (n \in vNodes => Spare(n)' >= 2)
    BY <1>4, <1>8 DEF RefInv
  <2> SUFFICES ASSUME NEW e \in Dialers, FillsIn(e)', NEW x, x = dial'[e].pnode
               PROVE  /\ x \in Alive
                      /\ Spare(x)' >= 1
                      /\ x \in vNodes /\ (node'[x].fNetworkNode \/ node'[x].fInbound \/ Shared(e)') => Spare(x)' >= 2
    BY <1>2, <1>4 DEF PublishInv
  <2>2. CASE x = n
    BY <2>1, <2>2, <1>3
  <2>3. CASE x # n
    <3>1. e # d /\ FillsIn(e) /\ x = dial[e].pnode
      BY <2>3, <1>5 DEF FillsIn
    <3>2. x \in Alive /\ x \in Objects
      BY <3>1, <1>4 DEF PublishInv, Alive
    <3>3. Shared(e)' => Shared(e)
      BY <2>3, <3>1, <1>5 DEF Shared, FillsIn
    <3> QED BY <2>3, <3>1, <3>2, <3>3, <1>6, <1>8 DEF PublishInv
  <2> QED BY <2>2, <2>3
<1>11. DialSlots' = DialSlots /\ NodeSlots' = NodeSlots
  <2>1. \A e \in Dialers : dial'[e].grant = dial[e].grant
    BY <1>5
  <2> QED BY <2>1, <1>4, <1>6 DEF DialSlots, NodeSlots, Alive
<1>12. SlotInv'
  <2>1. \A e \in Dialers : HoldsGrant(dial'[e])
    BY <1>2, <1>5 DEF SlotInv, HoldsGrant
  <2> QED BY <2>1, <1>2, <1>4, <1>6, <1>11, SlotsStay DEF SlotInv
<1> QED BY <1>7, <1>9, <1>10, <1>12

\* A dialer that fills its node in: MoveTo and MarkNetworkNode leave the references
\* alone and write no other node.
LEMMA FillStep ==
  ASSUME NodesInv, raced' \in BOOLEAN, NEW d \in Dialers, FillsIn(d), NEW n, n = dial[d].pnode,
         node' \in [Objects -> Fields], dial' \in [Dialers -> Dialing],
         \A x \in Objects : x # n => node'[x] = node[x],
         node'[n].refs = node[n].refs, node'[n].fInbound = node[n].fInbound,
         node'[n].fNetworkNode # node[n].fNetworkNode => ~FillsIn(d)',
         \A e \in Dialers : e # d => dial'[e] = dial[e],
         FillsIn(d)' => dial'[d].pnode = n,
         HoldsGrant(dial'[d]),
         value' \in Nat, Slots' = MaxOutbound,
         UNCHANGED <<vNodes, vNodesDisconnected, sock, msg>>
  PROVE  NodesInv'
<1> USE DEF NodesInv
<1>1. /\ vNodes \subseteq Objects /\ vNodesDisconnected \subseteq Objects
      /\ n \in Alive /\ n \in Objects
      /\ UNCHANGED <<sockCopy, sockPc, msgCopy, msgPc>> /\ Alive' = Alive
  BY DEF NodesTypeOK, PublishInv, Alive, sock, msg
<1>2. \A x \in Objects : Spare(x)' = Spare(x)
  <2>1. \A x \in Objects : Users(x)' = Users(x) /\ node'[x].refs = node[x].refs
    BY <1>1 DEF Users
  <2> QED BY <2>1 DEF Spare
<1>3. CopyInv' /\ RefInv'
  BY <1>1, <1>2 DEF CopyInv, RefInv
<1>4. PublishInv'
  <2>1. \A e \in Dialers : FillsIn(e)' => FillsIn(e) /\ dial'[e].pnode = dial[e].pnode
    BY DEF FillsIn
  <2>2. \A e \in Dialers : FillsIn(e)' /\ Shared(e)' => Shared(e)
    BY <2>1 DEF Shared
  <2> SUFFICES ASSUME NEW e \in Dialers, FillsIn(e)', NEW x, x = dial'[e].pnode
               PROVE  /\ x \in Alive'
                      /\ Spare(x)' >= 1
                      /\ x \in vNodes' /\ (node'[x].fNetworkNode \/ node'[x].fInbound \/ Shared(e)') => Spare(x)' >= 2
    BY DEF PublishInv
  <2>3. FillsIn(e) /\ x = dial[e].pnode /\ x \in Alive /\ x \in Objects /\ Spare(x)' = Spare(x)
    BY <2>1, <1>1, <1>2 DEF PublishInv, Alive
  <2>4. CASE node'[x].fNetworkNode = node[x].fNetworkNode
    <3>1. node'[x].fInbound = node[x].fInbound
      BY <2>3
    <3> QED BY <3>1, <2>2, <2>3, <2>4, <1>1 DEF PublishInv
  \* d has marked the node: it is no longer at it, but e is.
  <2>5. CASE node'[x].fNetworkNode # node[x].fNetworkNode
    <3>1. x = n /\ e # d
      BY <2>3, <2>5
    <3>2. Shared(e)
      BY <3>1, <2>3 DEF Shared
    <3> QED BY <3>2, <2>3, <1>1 DEF PublishInv
  <2> QED BY <2>4, <2>5
<1>5. NodesTypeOK'
  <2>1. Cardinality(DialSlots') \in Nat /\ Cardinality(NodeSlots') \in Nat
    <3>1. DialSlots' \subseteq Dialers /\ NodeSlots' \subseteq Objects
      BY <1>1 DEF DialSlots, NodeSlots, Alive
    <3> QED BY <3>1, NodesAssumption, FS_Subset, FS_CardinalityType
  <2>2. value' <= MaxOutbound
    BY <2>1, NodesAssumption DEF Slots
  <2> QED BY <2>2, <1>1, NodesAssumption DEF NodesTypeOK
<1>6. SlotInv'
  <2>1. \A x \in Objects : node'[x].grant => x \in Alive'
    BY <1>1 DEF SlotInv
  <2> QED BY <2>1 DEF SlotInv
<1> QED BY <1>3, <1>4, <1>5, <1>6

\* The target posts the slot it has: the slot of the dialer takes its place.
LEMMA MoveToInv == ASSUME NodesInv, raced' \in BOOLEAN, NEW d \in Dialers, MoveTo(d) PROVE NodesInv'
<1> USE DEF NodesInv
<1>1. PICK n : n = dial[d].pnode
  OBVIOUS
<1>2. /\ dial[d].pc = "move" /\ dial[d].kind # "onetry"
      /\ value' = IF dial[d].kind # "connect" /\ node[n].grant THEN value + 1 ELSE value
      /\ node' = [node EXCEPT ![n].grant = IF dial[d].kind = "connect" THEN @ ELSE dial[d].grant]
      /\ dial' = [dial EXCEPT ![d].pc = "mark", ![d].grant = FALSE]
      /\ UNCHANGED <<vNodes, vNodesDisconnected, sock, msg>>
  BY <1>1 DEF MoveTo
<1>3. FillsIn(d) /\ n \in Alive /\ n \in Objects
  BY <1>1, <1>2 DEF FillsIn, PublishInv, Alive, NodesTypeOK
<1>4. /\ dial[d] \in Dialing /\ node[n] \in Fields /\ HoldsGrant(dial[d])
      /\ dial[d].grant \in BOOLEAN /\ node[n].grant \in BOOLEAN
  BY <1>3 DEF NodesTypeOK, SlotInv, Dialing, Fields
<1> DEFINE before == IF node[n].grant THEN 1 ELSE 0
           after == IF node'[n].grant THEN 1 ELSE 0
<1>5. /\ node' \in [Objects -> Fields]
      /\ \A x \in Objects : x # n => node'[x] = node[x]
      /\ node'[n].refs = node[n].refs /\ node'[n].fInbound = node[n].fInbound
      /\ node'[n].fNetworkNode = node[n].fNetworkNode
      /\ node'[n].grant = IF dial[d].kind = "connect" THEN node[n].grant ELSE dial[d].grant
  BY <1>2, <1>3, <1>4 DEF NodesTypeOK, Fields
<1> DEFINE r == [dial[d] EXCEPT !.pc = "mark", !.grant = FALSE]
<1>6. /\ r \in Dialing /\ dial' = [dial EXCEPT ![d] = r]
      /\ dial' \in [Dialers -> Dialing]
      /\ \A e \in Dialers : e # d => dial'[e] = dial[e]
      /\ dial'[d].pc = "mark" /\ dial'[d].pnode = n /\ ~dial'[d].grant /\ Slot(r) = 0
  BY <1>1, <1>2, <1>4 DEF NodesTypeOK, Dialing, Slot
<1>7. value' = value + before - after + Slot(dial[d]) /\ value' \in Nat
  <2>1. value \in Nat
    BY DEF NodesTypeOK
  <2>2. CASE dial[d].kind = "connect"
    <3>1. ~dial[d].grant
      BY <2>2, <1>4 DEF HoldsGrant
    <3> QED BY <2>1, <2>2, <3>1, <1>2, <1>5 DEF Slot
  <2>3. CASE dial[d].kind # "connect"
    <3>1. value' = value + before /\ after = Slot(dial[d])
      BY <2>1, <2>3, <1>2, <1>5 DEF Slot
    <3>2. before \in {0, 1} /\ after \in {0, 1}
      OBVIOUS
    <3> HIDE DEF before, after
    <3> QED BY <2>1, <3>1, <3>2
  <2> QED BY <2>2, <2>3
<1>8. Slots' = MaxOutbound
  <2>1. /\ IsFiniteSet(NodeSlots) /\ Cardinality(NodeSlots) \in Nat
        /\ IsFiniteSet(DialSlots) /\ Cardinality(DialSlots) \in Nat
    BY SlotsAreFinite DEF NodesTypeOK
  <2>2. /\ Cardinality(DialSlots)' \in Nat
        /\ Cardinality(DialSlots)' = Cardinality(DialSlots) - Slot(dial[d])
    <3>1. Slot(dial[d]) \in {0, 1}
      BY DEF Slot
    <3> HIDE DEF r
    <3>2. /\ Cardinality(DialSlots)' \in Nat
          /\ Cardinality(DialSlots)' = Cardinality(DialSlots) - Slot(dial[d]) + Slot(r)
      BY <1>6, DialSlotsStep
    <3> QED BY <3>1, <3>2, <2>1, <1>6
  <2>3. Alive' = Alive /\ Alive \subseteq Objects
    BY <1>2 DEF Alive, NodesTypeOK
  <2>4. n \in NodeSlots <=> node[n].grant
    BY <1>3, <1>4 DEF NodeSlots
  <2>5. Cardinality(NodeSlots') = Cardinality(NodeSlots) - before + after
    <3>1. CASE node'[n].grant
      <4>1. NodeSlots' = NodeSlots \cup {n}
        BY <3>1, <2>3, <1>3, <1>5 DEF NodeSlots
      <4>2. Cardinality(NodeSlots \cup {n}) = IF n \in NodeSlots THEN Cardinality(NodeSlots) ELSE Cardinality(NodeSlots) + 1
        BY <2>1, FS_AddElement
      <4>3. after = 1
        BY <3>1
      <4>4. CASE node[n].grant
        BY <4>1, <4>2, <4>3, <4>4, <2>1, <2>4
      <4>5. CASE ~node[n].grant
        BY <4>1, <4>2, <4>3, <4>5, <2>1, <2>4
      <4> QED BY <4>4, <4>5
    <3>2. CASE ~node'[n].grant
      <4>1. NodeSlots' = NodeSlots \ {n}
        BY <3>2, <2>3, <1>3, <1>5 DEF NodeSlots
      <4>2. Cardinality(NodeSlots \ {n}) = IF n \in NodeSlots THEN Cardinality(NodeSlots) - 1 ELSE Cardinality(NodeSlots)
        BY <2>1, FS_RemoveElement
      <4>3. after = 0
        BY <3>2
      <4>4. CASE node[n].grant
        BY <4>1, <4>2, <4>3, <4>4, <2>1, <2>4
      <4>5. CASE ~node[n].grant
        BY <4>1, <4>2, <4>3, <4>5, <2>1, <2>4
      <4> QED BY <4>4, <4>5
    <3> QED BY <3>1, <3>2
  <2>6. value \in Int /\ MaxOutbound \in Int /\ Slot(dial[d]) \in {0, 1} /\ before \in {0, 1} /\ after \in {0, 1}
        /\ value + Cardinality(DialSlots) + Cardinality(NodeSlots) = MaxOutbound
    BY NodesAssumption DEF NodesTypeOK, SlotInv, Slots, Slot
  <2>7. Slots' = value' + Cardinality(DialSlots)' + Cardinality(NodeSlots')
    BY DEF Slots
  <2> HIDE DEF before, after
  <2> QED BY <1>7, <2>1, <2>2, <2>5, <2>6, <2>7
<1>9. HoldsGrant(dial'[d])
  BY <1>6 DEF HoldsGrant
<1> HIDE DEF before, after, r
<1> QED BY <1>1, <1>2, <1>3, <1>5, <1>6, <1>7, <1>8, <1>9, FillStep

LEMMA MarkInv == ASSUME NodesInv, raced' \in BOOLEAN, NEW d \in Dialers, MarkNetworkNode(d) PROVE NodesInv'
<1> USE DEF NodesInv
<1>1. PICK n : n = dial[d].pnode
  OBVIOUS
<1>2. /\ dial[d].pc = "mark"
      /\ node' = [node EXCEPT ![n].fNetworkNode = TRUE]
      /\ UNCHANGED <<vNodes, vNodesDisconnected, value, sock, msg>>
  BY <1>1 DEF MarkNetworkNode
<1>3. /\ FillsIn(d) /\ n \in Alive /\ n \in Objects
      /\ dial[d] \in Dialing /\ node[n] \in Fields /\ ~dial[d].grant
  BY <1>1, <1>2 DEF FillsIn, PublishInv, Alive, NodesTypeOK, SlotInv, HoldsGrant
<1>4. /\ node' \in [Objects -> Fields]
      /\ \A x \in Objects : x # n => node'[x] = node[x]
      /\ node'[n].refs = node[n].refs /\ node'[n].fInbound = node[n].fInbound
      /\ node'[n].grant = node[n].grant
  BY <1>2, <1>3 DEF NodesTypeOK, Fields
<1>5. PICK r \in Dialing : /\ dial' = [dial EXCEPT ![d] = r]
                           /\ r.pc \in {"idle", "oneshot"} /\ ~r.grant
  <2>1. CASE dial[d].kind = "oneshot"
    <3> DEFINE r == [dial[d] EXCEPT !.pc = "oneshot"]
    <3>1. dial' = [dial EXCEPT ![d] = r]
      BY <2>1 DEF MarkNetworkNode
    <3>2. r \in Dialing /\ r.pc = "oneshot" /\ ~r.grant
      BY <1>3 DEF Dialing
    <3> QED BY <3>1, <3>2
  <2>2. CASE dial[d].kind # "oneshot"
    BY <2>2, IdleType DEF MarkNetworkNode
  <2> QED BY <2>1, <2>2
<1>6. /\ dial' \in [Dialers -> Dialing] /\ dial'[d] = r
      /\ \A e \in Dialers : e # d => dial'[e] = dial[e]
  BY <1>5 DEF NodesTypeOK
<1>7. Slots' = MaxOutbound
  <2>1. DialSlots' = DialSlots
    BY <1>3, <1>5, <1>6 DEF DialSlots
  <2>2. NodeSlots' = NodeSlots
    BY <1>2, <1>4 DEF NodeSlots, Alive, NodesTypeOK
  <2> QED BY <1>2, <2>1, <2>2, SlotsStay DEF SlotInv
<1>8. ~FillsIn(d)' /\ HoldsGrant(dial'[d]) /\ value' \in Nat
  <2>1. r.pc \notin {"move", "mark"}
    BY <1>5
  <2> QED BY <2>1, <1>2, <1>5, <1>6 DEF FillsIn, HoldsGrant, NodesTypeOK
<1>9. UNCHANGED <<vNodes, vNodesDisconnected, sock, msg>>
  BY <1>2
<1> HIDE DEF NodesInv
<1> QED BY <1>1, <1>3, <1>4, <1>6, <1>7, <1>8, <1>9, FillStep

-----------------------------------------------------------------------------
LEMMA NextInv == NodesInv /\ FoundInv /\ [Next]_vars => NodesInv'
<1> SUFFICES ASSUME NodesInv, FoundInv, [Next]_vars PROVE NodesInv'
  OBVIOUS
<1>0. Defined => ~raced /\ raced' \in BOOLEAN
  BY DEF Defined
<1>1. CASE SocketThread
  <2>1. raced' \in BOOLEAN
    BY <1>0, <1>1 DEF SocketThread
  <2>2. CASE AcceptNone
    <3>1. NodesTypeOK' /\ CopyInv'
      BY <2>1, <2>2 DEF AcceptNone, msg, NodesInv, NodesTypeOK, CopyInv, Alive
    <3>2. \A n \in Objects : Spare(n)' = Spare(n)
      BY <2>2 DEF AcceptNone, msg, Spare, Users
    <3> QED BY <2>1, <2>2, <3>1, <3>2, UserStep DEF AcceptNone
  <2> QED BY <1>1, <2>1, <2>2, DisconnectInv, AcceptInv, SocketCopyInv, SocketReleaseInv DEF SocketThread
<1>2. CASE MessageThread
  BY <1>0, <1>2, MessageCopyInv, MessageReleaseInv DEF MessageThread
<1>3. CASE (\E n \in Objects : ServiceCloses(n) \/ ProcessCloses(n)) /\ Defined
  BY <1>0, <1>3, ClosesInv DEF ServiceCloses, ProcessCloses
<1>4. ASSUME NEW d \in Dialers, (Dial(d) /\ Defined) \/ Connecting(d) PROVE NodesInv'
  <2>1. ~raced /\ raced' \in BOOLEAN
    BY <1>0, <1>4 DEF Connecting
  <2>2. CASE Dial(d)
    BY <2>1, <2>2, DialInv
  <2>3. CASE CheckPasses(d) \/ FindExisting(d) \/ AddRefReads(d)
    BY <2>1, <2>3, CheckPassesInv, FindExistingInv, AddRefReadsInv
  <2>4. CASE CheckRefuses(d) \/ ConnectFails(d)
    BY <2>1, <2>4, ReturnInv DEF CheckRefuses, ConnectFails
  <2>5. CASE ConnectNode(d) \/ AddRefWrites(d)
    BY <2>1, <2>5, ConnectNodeInv, AddRefWritesInv
  <2>6. CASE OneTryReturns(d) \/ MarkOneShot(d)
    BY <2>1, <2>6, OneTryInv, MarkOneShotInv
  <2>7. CASE MoveTo(d) \/ MarkNetworkNode(d)
    BY <2>1, <2>7, MoveToInv, MarkInv
  <2> QED BY <1>4, <2>2, <2>3, <2>4, <2>5, <2>6, <2>7 DEF Connecting
<1>5. CASE Undefined \/ UNCHANGED vars
  <2>1. UNCHANGED vars
    BY <1>5 DEF Undefined
  <2>2. NodesTypeOK' /\ CopyInv' /\ raced' \in BOOLEAN
    BY <2>1 DEF vars, NodesInv, NodesTypeOK, CopyInv, Alive
  <2>3. \A n \in Objects : Spare(n)' = Spare(n)
    BY <2>1 DEF vars, Spare, Users
  <2> QED BY <2>1, <2>2, <2>3, UserStep DEF vars
<1> QED BY <1>1, <1>2, <1>3, <1>4, <1>5 DEF Next

-----------------------------------------------------------------------------
(***************************************************************************)
(* A dialer without a reference has its node alive, and has read a count   *)
(* that still is the count, unless the step is recorded as a race.         *)
(***************************************************************************)
\* What raced leaves to show, for one dialer.
LEMMA NotOvertaken ==
  ASSUME NodesInv, FoundInv, Defined, ~raced', NEW d \in Dialers,
         dial'[d] = dial[d] \/ dial'[d].pc \notin {"found", "adding"}
  PROVE  /\ dial'[d].pc \in {"found", "adding"} => dial'[d].pnode \in Alive'
         /\ dial'[d].pc = "adding" => dial'[d].seen = node'[dial'[d].pnode].refs
<1>1. ~raced /\ ~Overtaken(d)
  BY DEF Defined
<1> QED BY <1>1 DEF Overtaken, FoundInv

LEMMA FoundStep == NodesInv /\ FoundInv /\ [Next]_vars => FoundInv'
<1> SUFFICES ASSUME NodesInv, FoundInv, [Next]_vars, ~raced', NEW d \in Dialers
             PROVE  /\ dial'[d].pc \in {"found", "adding"} => dial'[d].pnode \in Alive'
                    /\ dial'[d].pc = "adding" => dial'[d].seen = node'[dial'[d].pnode].refs
  BY DEF FoundInv
<1>0. dial \in [Dialers -> Dialing]
  BY DEF NodesInv, NodesTypeOK
<1>1. CASE Undefined \/ UNCHANGED vars
  <2>1. UNCHANGED vars
    BY <1>1 DEF Undefined
  <2> QED BY <2>1 DEF vars, FoundInv, Alive
<1>2. CASE Defined /\ (dial'[d] = dial[d] \/ dial'[d].pc \notin {"found", "adding"})
  BY <1>2, NotOvertaken
<1>3. CASE FindExisting(d) /\ Defined
  BY <1>0, <1>3 DEF FindExisting, Dialing, Alive
<1>4. CASE AddRefReads(d) /\ Defined
  <2>1. ~raced /\ ~Overtaken(d)
    BY <1>4 DEF Defined
  <2>2. dial[d].pnode \in Alive' /\ node' = node /\ dial[d] \in Dialing
    BY <1>0, <1>4, <2>1 DEF Overtaken, AddRefReads
  <2>3. dial'[d].pnode = dial[d].pnode /\ dial'[d].seen = node[dial[d].pnode].refs
    BY <1>0, <1>4, <2>2 DEF AddRefReads, Dialing
  <2> QED BY <2>2, <2>3
<1>5. CASE SocketThread \/ MessageThread \/ ((\E n \in Objects : ServiceCloses(n) \/ ProcessCloses(n)) /\ Defined)
  <2>1. Defined /\ dial' = dial
    BY <1>5 DEF SocketThread, MessageThread, DisconnectNodes, Accept, AcceptNone, SocketCopy, SocketRelease,
                MessageCopy, MessageRelease, ServiceCloses, ProcessCloses
  <2> QED BY <2>1, <1>2
<1>6. ASSUME NEW e \in Dialers, (Dial(e) /\ Defined) \/ Connecting(e)
      PROVE  Defined /\ \/ dial'[d] = dial[d] \/ dial'[d].pc \notin {"found", "adding"}
                        \/ FindExisting(d) \/ AddRefReads(d)
  <2>1. Defined
    BY <1>6 DEF Connecting
  <2>2. CASE Dial(e)
    BY <2>1, <2>2, <1>0 DEF Dial, Idle, Dialing
  <2>3. CASE CheckPasses(e) \/ ConnectNode(e) \/ AddRefWrites(e) \/ MoveTo(e)
    <3>1. CASE e # d
      BY <2>1, <2>3, <3>1, <1>0 DEF CheckPasses, ConnectNode, AddRefWrites, MoveTo
    <3>2. CASE e = d
      <4>1. dial'[d].pc \in {"connect", "move", "mark"}
        <5>1. dial[d] \in Dialing
          BY <1>0
        <5>2. CASE CheckPasses(e)
          BY <3>2, <5>1, <5>2, <1>0 DEF CheckPasses, Dialing
        <5>3. CASE ConnectNode(e)
          BY <3>2, <5>1, <5>3, <1>0 DEF ConnectNode, Dialing
        <5>4. CASE AddRefWrites(e)
          BY <3>2, <5>1, <5>4, <1>0 DEF AddRefWrites, Dialing
        <5>5. CASE MoveTo(e)
          BY <3>2, <5>1, <5>5, <1>0 DEF MoveTo, Dialing
        <5> QED BY <2>3, <5>2, <5>3, <5>4, <5>5
      <4> QED BY <2>1, <4>1
    <3> QED BY <3>1, <3>2
  <2>4. CASE CheckRefuses(e) \/ ConnectFails(e) \/ OneTryReturns(e) \/ MarkOneShot(e)
    BY <2>1, <2>4, <1>0 DEF CheckRefuses, ConnectFails, OneTryReturns, MarkOneShot, Return, Idle
  <2>5. CASE MarkNetworkNode(e)
    BY <2>1, <2>5, <1>0 DEF MarkNetworkNode, Idle, Dialing
  <2>6. CASE FindExisting(e) \/ AddRefReads(e)
    BY <2>1, <2>6, <1>0 DEF FindExisting, AddRefReads
  <2> QED BY <1>6, <2>2, <2>3, <2>4, <2>5, <2>6 DEF Connecting
<1> QED BY <1>1, <1>2, <1>3, <1>4, <1>5, <1>6 DEF Next

LEMMA NodesInvariant == Spec => [](NodesInv /\ FoundInv)
<1>1. Init => FoundInv
  BY DEF Init, FoundInv, Idle
<1> QED BY <1>1, InitInv, NextInv, FoundStep, PTL DEF Spec

(***************************************************************************)
(* The variables of net.cpp keep their types; in particular the semaphore  *)
(* of the outbound connections stays between zero and its initial value.   *)
(***************************************************************************)
THEOREM NodesTypeCorrect == Spec => []NodesTypeOK
<1>1. NodesInv => NodesTypeOK
  BY DEF NodesInv
<1> QED BY <1>1, NodesInvariant, PTL

(***************************************************************************)
(* Until an unlocked AddRef of ConnectNode goes wrong (net.cpp:470), no    *)
(* reference count is below the number of users, and ThreadSocketHandler   *)
(* deletes no CNode that it, the message handler or a dialer that fills it *)
(* in has in hand (net.cpp:783).                                           *)
(***************************************************************************)
THEOREM HeldNodesStayAlive == Spec => []HeldNodesAlive
<1>1. NodesInv => HeldNodesAlive
  <2> SUFFICES ASSUME NodesInv, NEW n \in Objects
               PROVE  /\ node[n].refs >= Users(n)
                      /\ Users(n) > 0 \/ Publishing(n) => n \in Alive
    BY DEF HeldNodesAlive
  <2>1. Spare(n) >= 0 /\ node[n].refs \in Int /\ Users(n) \in Nat
    BY UsersType DEF NodesInv, RefInv, NodesTypeOK, Fields
  <2>2. Users(n) > 0 => n \in Alive
    BY DEF Users, NodesInv, CopyInv
  <2>3. Publishing(n) => n \in Alive
    BY DEF Publishing, NodesInv, PublishInv, FillsIn
  <2> QED BY <2>1, <2>2, <2>3 DEF Spare
<1> QED BY <1>1, NodesInvariant, PTL

(***************************************************************************)
(* Until an unlocked AddRef goes wrong, the slots of the semaphore, of the *)
(* dialers and of the nodes that are not deleted add up to its initial     *)
(* value, MoveTo into a connection that was found included.                *)
(***************************************************************************)
THEOREM SlotsAreConserved == Spec => []SlotsConserved
<1>1. NodesInv => SlotsConserved
  BY DEF NodesInv, SlotInv, SlotsConserved
<1> QED BY <1>1, NodesInvariant, PTL
=============================================================================
