-------------------------- MODULE ChainStateProofs --------------------------
(***************************************************************************)
(* The proofs about module ChainState, for every block tree, in three      *)
(* parts: facts about block trees; types, candidates, pnext and how        *)
(* pindexBest moves, whatever the disk does; and what a node that has      *)
(* stopped and started again achieves, with the refinement of BestChain.   *)
(***************************************************************************)
EXTENDS ChainState, FiniteSetTheorems, WellFoundedInduction, TLAPS

-----------------------------------------------------------------------------
(***************************************************************************)
(* The block tree, for every set of blocks: what nHeight, nChainTrust and  *)
(* the chain of a block are, and how the chains of two blocks lie to each  *)
(* other.  Everything rests on AcyclicAssumption: a block holds the hash   *)
(* of its predecessor, so the walk along hashPrevBlock ends.               *)
(*                                                                         *)
(* Induction along the tree is a statement about a set of blocks           *)
(* (TreeInduction), and the three recursive functions are instances of one *)
(* theorem on recursion along the tree (TreeRecursion).                    *)
(***************************************************************************)

\* A set of blocks that has a block whenever it has its predecessor is all of them.
LEMMA TreeInduction ==
  ASSUME NEW S,
         \A b \in Blocks : (b = Genesis \/ Prev[b] \in S) => b \in S
  PROVE  \A b \in Blocks : b \in S
<1> DEFINE R == {b \in Blocks : b \notin S}
<1> SUFFICES ASSUME R # {} PROVE FALSE
  OBVIOUS
<1>1. R \in SUBSET Blocks
  OBVIOUS
<1>2. PICK b \in R : Prev[b] \notin R
  BY <1>1, AcyclicAssumption
<1>3. b = Genesis \/ Prev[b] \in Blocks
  BY TreeAssumption
<1> QED
  BY <1>2, <1>3

\* The predecessor of a block other than the genesis block is a block.
LEMMA PrevIsBlock ==
  ASSUME NEW b \in Blocks, b # Genesis
  PROVE  Prev[b] \in Blocks /\ Prev[b] # Null
BY TreeAssumption

\* Null is no block, and nothing precedes the genesis block.
LEMMA NullIsNoBlock == Null \notin Blocks /\ Genesis \in Blocks /\ Prev[Genesis] = Null
BY TreeAssumption

-----------------------------------------------------------------------------
(***************************************************************************)
(* Recursion along the tree.  A solution on a part of the tree that is     *)
(* closed under predecessors is unique; every block lies in such a part.   *)
(***************************************************************************)
Closed == {D \in SUBSET Blocks : \A b \in D : b # Genesis => Prev[b] \in D}
Step(G, f, b) == IF b = Genesis THEN G[<<b, Null>>] ELSE G[<<b, f[Prev[b]]>>]
Solutions(G, D, V) == {f \in [D -> V] : \A b \in D : f[b] = Step(G, f, b)}

LEMMA SolutionsAgree ==
  ASSUME NEW G, NEW V, NEW D \in Closed, NEW E \in Closed,
         NEW f \in Solutions(G, D, V), NEW h \in Solutions(G, E, V)
  PROVE  \A b \in D \cap E : f[b] = h[b]
<1> DEFINE S == {b \in Blocks : b \in D \cap E => f[b] = h[b]}
<1>1. \A b \in Blocks : (b = Genesis \/ Prev[b] \in S) => b \in S
  <2> SUFFICES ASSUME NEW b \in Blocks, b = Genesis \/ Prev[b] \in S, b \in D \cap E
               PROVE  f[b] = h[b]
    OBVIOUS
  <2>1. f[b] = Step(G, f, b) /\ h[b] = Step(G, h, b)
    BY DEF Solutions
  <2>2. CASE b = Genesis
    BY <2>1, <2>2 DEF Step
  <2>3. CASE b # Genesis
    <3>1. Prev[b] \in D \cap E
      BY <2>3 DEF Closed
    <3>2. f[Prev[b]] = h[Prev[b]]
      BY <2>3, <3>1
    <3> QED BY <2>1, <2>3, <3>2 DEF Step
  <2> QED BY <2>2, <2>3
<1>2. \A b \in Blocks : b \in S
  <2> HIDE DEF S
  <2> QED BY <1>1, TreeInduction
<1> QED BY <1>2 DEF Closed

LEMMA SolutionsExist ==
  ASSUME NEW V, NEW G \in [Blocks \X (V \cup {Null}) -> V]
  PROVE  \A b \in Blocks : \E D \in Closed : b \in D /\ Solutions(G, D, V) # {}
<1> DEFINE S == {b \in Blocks : \E D \in Closed : b \in D /\ Solutions(G, D, V) # {}}
<1>1. \A b \in Blocks : (b = Genesis \/ Prev[b] \in S) => b \in S
  <2> SUFFICES ASSUME NEW b \in Blocks, b = Genesis \/ Prev[b] \in S
               PROVE  \E D \in Closed : b \in D /\ Solutions(G, D, V) # {}
    OBVIOUS
  <2>1. CASE b = Genesis
    <3> DEFINE f == [x \in {Genesis} |-> G[<<Genesis, Null>>]]
    <3>1. {Genesis} \in Closed
      BY NullIsNoBlock DEF Closed
    <3>2. f \in [{Genesis} -> V] /\ f[Genesis] = G[<<Genesis, Null>>]
      BY NullIsNoBlock
    <3>3. f \in Solutions(G, {Genesis}, V)
      BY <3>2 DEF Solutions, Step
    <3> QED BY <2>1, <3>1, <3>3
  <2>2. CASE b # Genesis
    <3>1. PICK D \in Closed : Prev[b] \in D /\ Solutions(G, D, V) # {}
      BY <2>2
    <3>2. PICK f : f \in Solutions(G, D, V)
      BY <3>1
    <3>3. CASE b \in D
      BY <3>1, <3>3
    <3>4. CASE b \notin D
      <4> DEFINE h == [x \in D \cup {b} |-> IF x \in D THEN f[x] ELSE G[<<b, f[Prev[b]]>>]]
      <4>1. D \cup {b} \in Closed
        BY <3>1 DEF Closed
      <4>2. f \in [D -> V] /\ \A x \in D : f[x] = Step(G, f, x)
        BY <3>2 DEF Solutions
      <4>3. h \in [D \cup {b} -> V]
        <5>1. f[Prev[b]] \in V
          BY <3>1, <4>2
        <5>2. G[<<b, f[Prev[b]]>>] \in V
          BY <5>1
        <5> QED BY <4>2, <5>2
      <4>4. ASSUME NEW x \in D \cup {b} PROVE h[x] = Step(G, h, x)
        <5>1. CASE x \in D
          <6>1. x # Genesis => Prev[x] \in D
            BY <5>1 DEF Closed
          <6> QED BY <4>2, <5>1, <6>1 DEF Step
        <5>2. CASE x = b
          BY <2>2, <3>1, <3>4, <5>2 DEF Step
        <5> QED BY <5>1, <5>2
      <4>5. h \in Solutions(G, D \cup {b}, V)
        BY <4>3, <4>4 DEF Solutions
      <4> QED BY <4>1, <4>5
    <3> QED BY <3>3, <3>4
  <2> QED BY <2>1, <2>2
<1> HIDE DEF S
<1>2. \A b \in Blocks : b \in S
  BY <1>1, TreeInduction
<1> QED BY <1>2 DEF S

\* The theorem on recursion along the tree.
LEMMA TreeRecursion ==
  ASSUME NEW V, NEW G \in [Blocks \X (V \cup {Null}) -> V]
  PROVE  \E f \in [Blocks -> V] : \A b \in Blocks : f[b] = Step(G, f, b)
<1> DEFINE Val(b, v) == \E D \in Closed : b \in D /\ \E f \in Solutions(G, D, V) : v = f[b]
           F == [b \in Blocks |-> CHOOSE v \in V : Val(b, v)]
<1>1. ASSUME NEW D \in Closed, NEW f \in Solutions(G, D, V), NEW b \in D PROVE F[b] = f[b]
  <2>1. b \in Blocks /\ f[b] \in V
    BY DEF Closed, Solutions
  <2>2. Val(b, f[b])
    OBVIOUS
  <2>3. ASSUME NEW v, Val(b, v) PROVE v = f[b]
    BY <2>3, SolutionsAgree
  <2> HIDE DEF Val
  <2> QED BY <2>1, <2>2, <2>3
<1> HIDE DEF F
<1>2. ASSUME NEW b \in Blocks PROVE F[b] \in V /\ F[b] = Step(G, F, b)
  <2>0. PICK D \in Closed : b \in D /\ Solutions(G, D, V) # {}
    BY SolutionsExist
  <2>1. PICK f : f \in Solutions(G, D, V)
    BY <2>0
  <2>2. F[b] = f[b] /\ f[b] \in V /\ f[b] = Step(G, f, b)
    BY <1>1, <2>0, <2>1 DEF Solutions
  <2>3. b # Genesis => F[Prev[b]] = f[Prev[b]]
    BY <1>1, <2>0, <2>1 DEF Closed
  <2> QED BY <2>2, <2>3 DEF Step
<1>3. F \in [Blocks -> V]
  BY <1>2 DEF F
<1> QED BY <1>2, <1>3

-----------------------------------------------------------------------------
(***************************************************************************)
(* nHeight, nChainTrust and the chain of a block.                          *)
(***************************************************************************)
LEMMA HeightDef ==
  /\ Height \in [Blocks -> Nat]
  /\ \A b \in Blocks : Height[b] = IF b = Genesis THEN 0 ELSE Height[Prev[b]] + 1
<1> DEFINE G == [p \in Blocks \X (Nat \cup {Null}) |->
                   IF p[1] = Genesis \/ p[2] \notin Nat THEN 0 ELSE p[2] + 1]
           Eq(f) == f = [b \in Blocks |-> IF b = Genesis THEN 0 ELSE f[Prev[b]] + 1]
<1>1. G \in [Blocks \X (Nat \cup {Null}) -> Nat]
  OBVIOUS
<1>2. PICK f \in [Blocks -> Nat] : \A b \in Blocks : f[b] = Step(G, f, b)
  <2> HIDE DEF G
  <2> QED BY <1>1, TreeRecursion
<1>3. ASSUME NEW b \in Blocks PROVE f[b] = IF b = Genesis THEN 0 ELSE f[Prev[b]] + 1
  <2>1. CASE b = Genesis
    BY <1>2, <2>1 DEF Step
  <2>2. CASE b # Genesis
    <3>1. Prev[b] \in Blocks /\ f[Prev[b]] \in Nat
      BY <2>2, PrevIsBlock
    <3> QED BY <1>2, <2>2, <3>1 DEF Step
  <2> QED BY <2>1, <2>2
<1>4. Eq(f)
  BY <1>3
<1>5. Height = CHOOSE h : Eq(h)
  BY DEF Height
<1>6. Eq(Height)
  <2> HIDE DEF Eq
  <2> QED BY <1>4, <1>5
<1>7. \A b \in Blocks : Height[b] = IF b = Genesis THEN 0 ELSE Height[Prev[b]] + 1
  BY <1>6
<1> DEFINE S == {b \in Blocks : Height[b] \in Nat}
<1>8. \A b \in Blocks : (b = Genesis \/ Prev[b] \in S) => b \in S
  BY <1>7
<1>9. \A b \in Blocks : b \in S
  <2> HIDE DEF S
  <2> QED BY <1>8, TreeInduction
<1>10. Height \in [Blocks -> Nat]
  BY <1>6, <1>9
<1> QED BY <1>7, <1>10

LEMMA ChainTrustDef ==
  /\ ChainTrust \in [Blocks -> Nat]
  /\ \A b \in Blocks :
       ChainTrust[b] = Trust[b] + IF b = Genesis THEN 0 ELSE ChainTrust[Prev[b]]
<1> DEFINE G == [p \in Blocks \X (Nat \cup {Null}) |->
                   IF p[1] = Genesis \/ p[2] \notin Nat THEN Trust[p[1]] ELSE Trust[p[1]] + p[2]]
           Eq(f) == f = [b \in Blocks |-> Trust[b] + IF b = Genesis THEN 0 ELSE f[Prev[b]]]
<1>0. \A b \in Blocks : Trust[b] \in Nat
  BY TreeAssumption
<1>1. G \in [Blocks \X (Nat \cup {Null}) -> Nat]
  BY <1>0
<1>2. PICK f \in [Blocks -> Nat] : \A b \in Blocks : f[b] = Step(G, f, b)
  <2> HIDE DEF G
  <2> QED BY <1>1, TreeRecursion
<1>3. ASSUME NEW b \in Blocks
      PROVE f[b] = Trust[b] + IF b = Genesis THEN 0 ELSE f[Prev[b]]
  <2>1. CASE b = Genesis
    <3>1. f[b] = G[<<b, Null>>]
      BY <1>2, <2>1 DEF Step
    <3>2. G[<<b, Null>>] = Trust[b]
      BY <2>1
    <3>3. Trust[b] \in Nat
      BY <1>0
    <3> HIDE DEF G
    <3> QED BY <2>1, <3>1, <3>2, <3>3
  <2>2. CASE b # Genesis
    <3>1. Prev[b] \in Blocks /\ f[Prev[b]] \in Nat
      BY <2>2, PrevIsBlock
    <3> QED BY <1>0, <1>2, <2>2, <3>1 DEF Step
  <2> QED BY <2>1, <2>2
<1>4. Eq(f)
  BY <1>3
<1>5. ChainTrust = CHOOSE h : Eq(h)
  BY DEF ChainTrust
<1>6. Eq(ChainTrust)
  <2> HIDE DEF Eq
  <2> QED BY <1>4, <1>5
<1>7. \A b \in Blocks : ChainTrust[b] = Trust[b] + IF b = Genesis THEN 0 ELSE ChainTrust[Prev[b]]
  BY <1>6
<1> DEFINE S == {b \in Blocks : ChainTrust[b] \in Nat}
<1>8. \A b \in Blocks : (b = Genesis \/ Prev[b] \in S) => b \in S
  BY <1>0, <1>7
<1>9. \A b \in Blocks : b \in S
  <2> HIDE DEF S
  <2> QED BY <1>8, TreeInduction
<1>10. ChainTrust \in [Blocks -> Nat]
  BY <1>6, <1>9
<1> QED BY <1>7, <1>10

LEMMA ChainDef ==
  /\ Chain \in [Blocks -> SUBSET Blocks]
  /\ \A b \in Blocks : Chain[b] = {b} \cup IF b = Genesis THEN {} ELSE Chain[Prev[b]]
<1> DEFINE V == SUBSET Blocks
           G == [p \in Blocks \X (V \cup {Null}) |->
                   IF p[1] = Genesis \/ p[2] \notin V THEN {p[1]} ELSE {p[1]} \cup p[2]]
           Eq(f) == f = [b \in Blocks |-> {b} \cup IF b = Genesis THEN {} ELSE f[Prev[b]]]
<1>1. G \in [Blocks \X (V \cup {Null}) -> V]
  OBVIOUS
<1>2. PICK f \in [Blocks -> V] : \A b \in Blocks : f[b] = Step(G, f, b)
  <2> HIDE DEF G, V
  <2> QED BY <1>1, TreeRecursion
<1>3. ASSUME NEW b \in Blocks PROVE f[b] = {b} \cup IF b = Genesis THEN {} ELSE f[Prev[b]]
  <2>1. CASE b = Genesis
    BY <1>2, <2>1 DEF Step
  <2>2. CASE b # Genesis
    <3>1. Prev[b] \in Blocks /\ f[Prev[b]] \in V
      BY <2>2, PrevIsBlock
    <3> QED BY <1>2, <2>2, <3>1 DEF Step
  <2> QED BY <2>1, <2>2
<1>4. Eq(f)
  BY <1>3
<1>5. Chain = CHOOSE h : Eq(h)
  BY DEF Chain
<1>6. Eq(Chain)
  <2> HIDE DEF Eq
  <2> QED BY <1>4, <1>5
<1>7. \A b \in Blocks : Chain[b] = {b} \cup IF b = Genesis THEN {} ELSE Chain[Prev[b]]
  BY <1>6
<1> DEFINE S == {b \in Blocks : Chain[b] \subseteq Blocks}
<1>8. \A b \in Blocks : (b = Genesis \/ Prev[b] \in S) => b \in S
  BY <1>7
<1>9. \A b \in Blocks : b \in S
  <2> HIDE DEF S
  <2> QED BY <1>8, TreeInduction
<1>10. Chain \in [Blocks -> SUBSET Blocks]
  BY <1>6, <1>9
<1> QED BY <1>7, <1>10

-----------------------------------------------------------------------------
(***************************************************************************)
(* How chains lie to each other.                                           *)
(***************************************************************************)
\* A chain holds its last block, the genesis block and, of each of its blocks, the
\* predecessor.
LEMMA ChainEnds ==
  ASSUME NEW b \in Blocks
  PROVE  b \in Chain[b] /\ Chain[b] \subseteq Blocks /\ Genesis \in Chain[b]
<1>1. b \in Chain[b] /\ Chain[b] \subseteq Blocks
  BY ChainDef
<1> DEFINE S == {c \in Blocks : Genesis \in Chain[c]}
<1>2. \A c \in Blocks : (c = Genesis \/ Prev[c] \in S) => c \in S
  BY ChainDef
<1> HIDE DEF S
<1>3. \A c \in Blocks : c \in S
  BY <1>2, TreeInduction
<1> QED BY <1>1, <1>3 DEF S

\* The chain of a block of a chain is part of that chain.
LEMMA ChainTransitive ==
  ASSUME NEW b \in Blocks, NEW c \in Chain[b]
  PROVE  Chain[c] \subseteq Chain[b]
<1> DEFINE S == {x \in Blocks : \A y \in Chain[x] : Chain[y] \subseteq Chain[x]}
<1>1. \A x \in Blocks : (x = Genesis \/ Prev[x] \in S) => x \in S
  <2> SUFFICES ASSUME NEW x \in Blocks, x = Genesis \/ Prev[x] \in S, NEW y \in Chain[x]
               PROVE  Chain[y] \subseteq Chain[x]
    OBVIOUS
  <2>1. Chain[x] = {x} \cup IF x = Genesis THEN {} ELSE Chain[Prev[x]]
    BY ChainDef
  <2> QED BY <2>1
<1> HIDE DEF S
<1>2. \A x \in Blocks : x \in S
  BY <1>1, TreeInduction
<1> QED BY <1>2 DEF S

LEMMA ChainPrev ==
  ASSUME NEW b \in Blocks, NEW c \in Chain[b], c # Genesis
  PROVE  Prev[c] \in Chain[b] /\ Prev[c] \in Blocks /\ Prev[c] \in Chain[c]
<1>1. c \in Blocks
  BY ChainEnds
<1>2. Prev[c] \in Blocks
  BY <1>1, PrevIsBlock
<1>3. Prev[c] \in Chain[Prev[c]]
  BY <1>2, ChainEnds
<1>4. Prev[c] \in Chain[c]
  BY <1>1, <1>3, ChainDef
<1>5. Chain[c] \subseteq Chain[b]
  BY ChainTransitive
<1> QED BY <1>2, <1>4, <1>5

\* An ancestor is lower and has less trust.
LEMMA AncestorIsLess ==
  ASSUME NEW b \in Blocks, NEW c \in Chain[b], c # b
  PROVE  Height[c] < Height[b] /\ ChainTrust[c] < ChainTrust[b]
<1> DEFINE Less(c1, x) == Height[c1] < Height[x] /\ ChainTrust[c1] < ChainTrust[x]
           S == {x \in Blocks : \A y \in Chain[x] : y # x => Less(y, x)}
<1>1. \A x \in Blocks : (x = Genesis \/ Prev[x] \in S) => x \in S
  <2> SUFFICES ASSUME NEW x \in Blocks, x = Genesis \/ Prev[x] \in S, NEW y \in Chain[x], y # x
               PROVE  Less(y, x)
    OBVIOUS
  <2>1. x # Genesis /\ y \in Chain[Prev[x]]
    BY ChainDef
  <2>2. Prev[x] \in Blocks /\ (y # Prev[x] => Less(y, Prev[x]))
    BY <2>1, PrevIsBlock
  <2>3. y \in Blocks
    BY ChainEnds
  <2>4. Trust[x] \in Nat /\ Trust[x] > 0
    BY TreeAssumption
  <2>5. /\ Height[x] = Height[Prev[x]] + 1
        /\ ChainTrust[x] = Trust[x] + ChainTrust[Prev[x]]
    BY <2>1, HeightDef, ChainTrustDef
  <2>6. /\ Height[y] \in Nat /\ Height[Prev[x]] \in Nat
        /\ ChainTrust[y] \in Nat /\ ChainTrust[Prev[x]] \in Nat
    BY <2>2, <2>3, HeightDef, ChainTrustDef
  <2> QED BY <2>2, <2>4, <2>5, <2>6
<1> HIDE DEF S
<1>2. \A x \in Blocks : x \in S
  BY <1>1, TreeInduction
<1> QED BY <1>2 DEF S

\* A block above no block of its chain: heights along a chain do not repeat.
LEMMA NotAbovePrev ==
  ASSUME NEW b \in Blocks, b # Genesis
  PROVE  b \notin Chain[Prev[b]]
<1>1. Prev[b] \in Blocks /\ Height[b] = Height[Prev[b]] + 1
  BY PrevIsBlock, HeightDef
<1>2. Height[b] \in Nat /\ Height[Prev[b]] \in Nat
  BY <1>1, HeightDef
<1>3. b # Prev[b]
  BY <1>1, <1>2
<1> QED BY <1>1, <1>2, <1>3, AncestorIsLess

\* Of two blocks of a chain one is on the chain of the other.
LEMMA ChainLinear ==
  ASSUME NEW b \in Blocks, NEW c \in Chain[b], NEW d \in Chain[b]
  PROVE  c \in Chain[d] \/ d \in Chain[c]
<1> DEFINE S == {x \in Blocks : \A y, z \in Chain[x] : y \in Chain[z] \/ z \in Chain[y]}
<1>1. \A x \in Blocks : (x = Genesis \/ Prev[x] \in S) => x \in S
  <2> SUFFICES ASSUME NEW x \in Blocks, x = Genesis \/ Prev[x] \in S,
                      NEW y \in Chain[x], NEW z \in Chain[x]
               PROVE  y \in Chain[z] \/ z \in Chain[y]
    OBVIOUS
  <2>1. Chain[x] = {x} \cup IF x = Genesis THEN {} ELSE Chain[Prev[x]]
    BY ChainDef
  <2> QED BY <2>1
<1> HIDE DEF S
<1>2. \A x \in Blocks : x \in S
  BY <1>1, TreeInduction
<1> QED BY <1>2 DEF S

\* A block of a chain that is not its last one has exactly one successor there.
LEMMA SuccessorExists ==
  ASSUME NEW b \in Blocks, NEW c \in Chain[b], c # b
  PROVE  \E d \in Chain[b] : d # Genesis /\ Prev[d] = c
<1> DEFINE Has(x, y) == \E d \in Chain[x] : d # Genesis /\ Prev[d] = y
           S == {x \in Blocks : \A y \in Chain[x] : y # x => Has(x, y)}
<1>1. \A x \in Blocks : (x = Genesis \/ Prev[x] \in S) => x \in S
  <2> SUFFICES ASSUME NEW x \in Blocks, x = Genesis \/ Prev[x] \in S, NEW y \in Chain[x], y # x
               PROVE  Has(x, y)
    OBVIOUS
  <2>1. x # Genesis /\ y \in Chain[Prev[x]] /\ x \in Chain[x] /\ Chain[Prev[x]] \subseteq Chain[x]
    BY ChainDef
  <2>2. CASE y = Prev[x]
    BY <2>1, <2>2
  <2>3. CASE y # Prev[x]
    BY <2>1, <2>3
  <2> QED BY <2>2, <2>3
<1> HIDE DEF S
<1>2. \A x \in Blocks : x \in S
  BY <1>1, TreeInduction
<1> QED BY <1>2 DEF S

LEMMA SuccessorUnique ==
  ASSUME NEW b \in Blocks, NEW c \in Chain[b], NEW d \in Chain[b],
         Prev[c] = Prev[d]
  PROVE  c = d
<1>1. c \in Blocks /\ d \in Blocks
  BY ChainEnds
<1>2. ASSUME NEW x \in Blocks, NEW y \in Blocks, x \in Chain[y], Prev[x] = Prev[y], x # y
      PROVE  FALSE
  <2>1. y # Genesis /\ x \in Chain[Prev[y]]
    BY <1>2, ChainDef
  <2>2. x # Genesis
    BY <1>2, <2>1, TreeAssumption
  <2> QED BY <1>2, <2>1, <2>2, NotAbovePrev
<1> QED BY <1>1, <1>2, ChainLinear

\* The last block of a chain has no successor there.
LEMMA LastHasNoSuccessor ==
  ASSUME NEW b \in Blocks, NEW c \in Chain[b], c # Genesis
  PROVE  Prev[c] # b
<1>1. c \in Blocks
  BY ChainEnds
<1> QED BY <1>1, NotAbovePrev

\* On a chain, a block not above another one is on the chain of that one.
LEMMA LowerIsAncestor ==
  ASSUME NEW b \in Blocks, NEW c \in Chain[b], NEW d \in Chain[b], Height[c] <= Height[d]
  PROVE  c \in Chain[d]
<1>1. c \in Blocks /\ d \in Blocks
  BY ChainEnds
<1>2. Height[c] \in Nat /\ Height[d] \in Nat /\ d \in Chain[d]
  BY <1>1, HeightDef, ChainEnds
<1>3. ASSUME d \in Chain[c], d # c PROVE FALSE
  BY <1>1, <1>2, <1>3, AncestorIsLess
<1> QED BY <1>2, <1>3, ChainLinear

\* There is a lowest block in every set of blocks.
LEMMA LowestOf ==
  ASSUME NEW S, S \subseteq Blocks, S # {}
  PROVE  Lowest(S) \in S /\ \A c \in S : Height[Lowest(S)] <= Height[c]
<1> DEFINE T == {Height[b] : b \in S}
<1>1. T \in SUBSET Nat /\ T # {}
  BY HeightDef
<1>2. PICK n \in T : \A j \in T : ~ (<<j, n>> \in OpToRel(<, Nat))
  BY <1>1, WFMin, NatLessThanWellFounded
<1>3. \A j \in T : n <= j
  <2> TAKE j \in T
  <2>1. n \in Nat /\ j \in Nat
    BY <1>1
  <2>2. ~(j < n)
    BY <1>2, <2>1, Zenon DEF OpToRel
  <2> QED BY <2>1, <2>2
<1>4. PICK b \in S : n = Height[b]
  OBVIOUS
<1>5. \A c \in S : Height[b] <= Height[c]
  BY <1>3, <1>4
<1> QED BY <1>5 DEF Lowest

\* The lowest block of a part of a chain is on the chain of each of its blocks.
LEMMA LowestIsAncestor ==
  ASSUME NEW b \in Blocks, NEW S, S \subseteq Chain[b], NEW c \in S
  PROVE  /\ Lowest(S) \in Chain[c] /\ Lowest(S) \in S
         /\ c # Lowest(S) => ChainTrust[Lowest(S)] < ChainTrust[c]
<1>1. S \subseteq Blocks /\ S # {}
  BY ChainEnds
<1>2. Lowest(S) \in S /\ Height[Lowest(S)] <= Height[c]
  BY <1>1, LowestOf
<1>3. Lowest(S) \in Chain[c]
  BY <1>1, <1>2, LowerIsAncestor
<1> QED BY <1>1, <1>2, <1>3, AncestorIsLess

\* There is a highest block in every part of a chain.
LEMMA HighestOf ==
  ASSUME NEW b \in Blocks, NEW S, S \subseteq Chain[b], S # {}
  PROVE  \E h \in S : \A d \in S : Height[d] <= Height[h]
<1> DEFINE T == {Height[b] - Height[c] : c \in S}
<1>0. \A c \in S : c \in Blocks /\ Height[c] \in Nat /\ Height[b] \in Nat /\ Height[c] <= Height[b]
  <2> TAKE c \in S
  <2>1. c \in Blocks /\ c \in Chain[b]
    BY ChainEnds
  <2>2. Height[c] \in Nat /\ Height[b] \in Nat
    BY <2>1, HeightDef
  <2> QED BY <2>1, <2>2, AncestorIsLess
<1>1. T \in SUBSET Nat /\ T # {}
  BY <1>0
<1>2. PICK n \in T : \A j \in T : ~ (<<j, n>> \in OpToRel(<, Nat))
  BY <1>1, WFMin, NatLessThanWellFounded
<1>3. \A j \in T : n <= j
  <2> TAKE j \in T
  <2>1. n \in Nat /\ j \in Nat
    BY <1>1
  <2>2. ~(j < n)
    BY <1>2, <2>1, Zenon DEF OpToRel
  <2> QED BY <2>1, <2>2
<1>4. PICK h \in S : n = Height[b] - Height[h]
  OBVIOUS
<1>5. \A d \in S : Height[d] <= Height[h]
  BY <1>0, <1>3, <1>4
<1> QED BY <1>5

-----------------------------------------------------------------------------
(***************************************************************************)
(* setBlockIndexValid: the work comparator orders the blocks, so a finite  *)
(* set of them that is not empty has a last element.  The proof looks at   *)
(* a smallest set without one.                                             *)
(***************************************************************************)
IsTop(S, b) == b \in S /\ \A c \in S \ {b} : Better(b, c)

LEMMA BetterOrders ==
  ASSUME NEW a \in Blocks, NEW b \in Blocks
  PROVE  /\ a # b => Better(a, b) \/ Better(b, a)
         /\ \A c \in Blocks : Better(a, b) /\ Better(b, c) => Better(a, c)
<1>1. \A x \in Blocks : ChainTrust[x] \in Nat /\ Hash[x] \in Nat
  BY ChainTrustDef, TreeAssumption
<1>2. a # b => Hash[a] # Hash[b]
  BY TreeAssumption
<1> QED BY <1>1, <1>2 DEF Better

LEMMA TopExists ==
  ASSUME NEW S, S \subseteq Blocks, S # {}
  PROVE  \E b : IsTop(S, b)
<1> DEFINE Bad == {X \in SUBSET Blocks : X # {} /\ ~ \E b : IsTop(X, b)}
           Sizes == {Cardinality(X) : X \in Bad}
<1> SUFFICES ASSUME Bad # {} PROVE FALSE
  OBVIOUS
<1>1. \A X \in SUBSET Blocks : IsFiniteSet(X) /\ Cardinality(X) \in Nat
  BY FS_Subset, FS_CardinalityType, TreeAssumption
<1>2. Sizes \in SUBSET Nat /\ Sizes # {}
  BY <1>1
<1>3. PICK n \in Sizes : \A j \in Sizes : ~ (<<j, n>> \in OpToRel(<, Nat))
  BY <1>2, WFMin, NatLessThanWellFounded
<1>4. PICK X \in Bad : n = Cardinality(X)
  OBVIOUS
<1>5. PICK x : x \in X
  OBVIOUS
<1> DEFINE Y == X \ {x}
<1>6. Cardinality(Y) = n - 1 /\ n \in Nat /\ Cardinality(Y) \in Nat
  BY <1>1, <1>4, <1>5, FS_RemoveElement
<1>7. Y \notin Bad
  <2> SUFFICES ASSUME Y \in Bad PROVE FALSE
    OBVIOUS
  <2>1. Cardinality(Y) \in Sizes
    OBVIOUS
  <2>2. Cardinality(Y) < n
    BY <1>6
  <2>3. <<Cardinality(Y), n>> \in OpToRel(<, Nat)
    BY <1>6, <2>2, Zenon DEF OpToRel
  <2> QED BY <1>3, <2>1, <2>3
<1>8. CASE Y = {}
  <2>1. IsTop(X, x)
    BY <1>5, <1>8 DEF IsTop
  <2> QED BY <2>1
<1>9. CASE Y # {}
  <2>1. PICK t : IsTop(Y, t)
    BY <1>7, <1>9
  <2>2. t \in X /\ t # x /\ t \in Blocks /\ x \in Blocks
    BY <1>5, <2>1 DEF IsTop
  <2>3. CASE Better(t, x)
    <3>1. IsTop(X, t)
      BY <2>1, <2>2, <2>3 DEF IsTop
    <3> QED BY <3>1
  <2>4. CASE Better(x, t)
    <3>1. ASSUME NEW c \in X \ {x} PROVE Better(x, c)
      <4>1. c = t \/ Better(t, c)
        BY <2>1 DEF IsTop
      <4> QED BY <2>2, <2>4, <4>1, BetterOrders
    <3>2. IsTop(X, x)
      BY <1>5, <3>1 DEF IsTop
    <3> QED BY <3>2
  <2> QED BY <2>2, <2>3, <2>4, BetterOrders
<1> QED BY <1>8, <1>9

\* What ConnectBestBlock takes is a candidate, and none has more trust.
LEMMA TopIsBest ==
  ASSUME validSet \subseteq Blocks, validSet # {}
  PROVE  Top \in validSet /\ \A c \in validSet : ChainTrust[c] <= ChainTrust[Top]
<1>1. \E b \in validSet : \A c \in validSet \ {b} : Better(b, c)
  BY TopExists DEF IsTop
<1>2. Top \in validSet /\ \A c \in validSet \ {Top} : Better(Top, c)
  BY <1>1 DEF Top
<1>3. \A c \in validSet : ChainTrust[c] \in Nat
  BY ChainTrustDef
<1> QED BY <1>2, <1>3 DEF Better

\* An index that has, of each block, the predecessor, has its chain.
LEMMA ClosedHasChains ==
  ASSUME NEW D, D \subseteq Blocks, \A b \in D : b # Genesis => Prev[b] \in D, NEW b \in D
  PROVE  Chain[b] \subseteq D
<1> DEFINE S == {x \in Blocks : x \in D => Chain[x] \subseteq D}
<1>1. \A x \in Blocks : (x = Genesis \/ Prev[x] \in S) => x \in S
  BY ChainDef
<1> HIDE DEF S
<1>2. \A x \in Blocks : x \in S
  BY <1>1, TreeInduction
<1> QED BY <1>2 DEF S

-----------------------------------------------------------------------------
(***************************************************************************)
(* For every block tree, with any crashes, power losses and full disks:    *)
(* the state keeps its types; setBlockIndexValid holds no failed block;    *)
(* the pnext pointers spell the main chain; and the steps of ProcessBlock, *)
(* ConnectBestBlock and SetBestChain move pindexBest as module BestChain   *)
(* says, to acceptable blocks.                                             *)
(*                                                                         *)
(* None of these is inductive.  The strengthening says, part by part, what *)
(* the steps rely on:                                                      *)
(*   IndexInv      mapBlockIndex, and whatever a stop leaves of the block  *)
(*                 tree database, has with a block its whole chain, and no *)
(*                 unacceptable block;                                     *)
(*   KnownInv      candidates, tips, vAttach and vWorkQueue are indexed;   *)
(*   CandidateInv  a candidate has no failure flag;                        *)
(*   SoundInv      what is or may become the tip or the stored best block  *)
(*                 ends an acceptable chain, and a valid one as long as    *)
(*                 the coin database holds no coins it does not know of;   *)
(*                 vAttach is a piece of one chain with more trust than    *)
(*                 pindexBest, and what SetBestChain has connected of the  *)
(*                 new branch is valid under the same condition;           *)
(*   PnextInv      pnext spells the chain of pindexBest.                   *)
(***************************************************************************)

\* What mapBlockIndex can be, and the block tree database.
IndexOK(i) ==
  /\ i \in [DOMAIN i -> SUBSET Flags]
  /\ DOMAIN i \subseteq Blocks \ Unacceptable
  /\ \A b \in DOMAIN i : b # Genesis => Prev[b] \in DOMAIN i
TreeOK(t) == t = TreeOf(t.index, t.lastFile) /\ IndexOK(t.index) /\ t.lastFile \in 0..MaxFile

IndexInv == IndexOK(index) /\ tree \in treeOld /\ \A t \in treeOld : TreeOK(t)

\* SetBestChain is at work on vAttach.
Connecting == pc \in {"switch", "connect"}

KnownInv ==
  /\ validSet \subseteq Known /\ queue \subseteq Known /\ attach \subseteq Known
  /\ best \in Known \cup {Null} /\ tip \in Known \cup {Null}
  /\ pc = "index" => cur \notin Unacceptable /\ Prev[cur] \in Known /\ ctx # "init"
  /\ (pc = "best" \/ Connecting) /\ ctx # "init" => cur \in Known
  /\ Connecting => attach # {}

FilesInv ==
  /\ lastFile \in 0..MaxFile /\ fileOf \in [Blocks -> 0..MaxFile]
  /\ dataSync \subseteq data /\ data \subseteq Blocks
  /\ undoSync \subseteq undo /\ undo \subseteq Blocks

CoinsInv ==
  /\ coins \in coinsOld /\ coinsOld \subseteq Blocks \cup {Null} /\ stale \subseteq Blocks

ControlInv ==
  /\ pnext \in [Blocks -> Blocks \cup {Null}]
  /\ orphans \subseteq Blocks
  /\ pc \in {"idle", "index", "best", "switch", "connect", "orphans", "down", "corrupt"}
  /\ ctx \in {"block", "orphan", "init"} /\ cur \in Blocks /\ conn \subseteq Blocks
  /\ aborted \in {"no", "unreadable", "no space"} /\ stops \in 0..MaxStops

TypeInv == IndexInv /\ KnownInv /\ FilesInv /\ CoinsInv /\ ControlInv

-----------------------------------------------------------------------------
(***************************************************************************)
(* Types.                                                                  *)
(***************************************************************************)
\* An index has with a block its whole chain.
LEMMA IndexHasChains ==
  ASSUME NEW i, IndexOK(i), NEW b \in DOMAIN i
  PROVE  Chain[b] \subseteq DOMAIN i
BY ClosedHasChains DEF IndexOK

LEMMA TreeOfFields ==
  ASSUME NEW i, NEW n
  PROVE  TreeOf(i, n).index = i /\ TreeOf(i, n).lastFile = n
BY DEF TreeOf

LEMMA WriteTreeKeeps ==
  ASSUME IndexInv, NEW i, IndexOK(i), NEW n \in 0..MaxFile, WriteTree(i, n)
  PROVE  tree' \in treeOld' /\ \A t \in treeOld' : TreeOK(t)
<1>1. TreeOK(TreeOf(i, n))
  BY TreeOfFields DEF TreeOK
<1> QED BY <1>1 DEF WriteTree, Survivors, IndexInv

LEMMA WriteIndexKeeps ==
  ASSUME IndexInv, IndexOK(index'), WriteIndex(index')
  PROVE  IndexInv'
<1>1. tree.lastFile \in 0..MaxFile
  BY DEF IndexInv, TreeOK
<1>2. tree' \in treeOld' /\ \A t \in treeOld' : TreeOK(t)
  BY <1>1, WriteTreeKeeps DEF WriteIndex
<1> QED BY <1>2 DEF IndexInv, TreeOK, IndexOK

\* Flags that are added to entries of an index leave an index.
LEMMA FlagsKeepIndex ==
  ASSUME NEW i, NEW j, IndexOK(i), DOMAIN j = DOMAIN i, j \in [DOMAIN j -> SUBSET Flags]
  PROVE  IndexOK(j)
BY DEF IndexOK

LEMMA FindBlockPosBound ==
  ASSUME NEW roll, FindBlockPos(roll), lastFile \in 0..MaxFile
  PROVE  lastFile' \in 0..MaxFile
<1>1. MaxFile \in Nat
  BY TreeAssumption
<1>2. lastFile' = lastFile + 1 \/ lastFile' = lastFile
  BY DEF FindBlockPos
<1>3. lastFile' <= MaxFile
  BY DEF FindBlockPos
<1> QED BY <1>1, <1>2, <1>3

LEMMA StoreBlockTypes ==
  ASSUME NEW b \in Blocks, StoreBlock(b), IndexInv, FilesInv, UNCHANGED index
  PROVE  IndexInv' /\ FilesInv'
<1>1. PICK roll \in BOOLEAN, ibd \in IBD :
        LET saved == (data \cap Finalized(roll)) \cup (IF ibd THEN {} ELSE {b})
        IN  /\ FindBlockPos(roll)
            /\ fileOf' = [fileOf EXCEPT ![b] = lastFile']
            /\ data' = data \cup {b}
            /\ dataSync' = Committed(dataSync \cup saved, data')
            /\ undoSync' = Committed(undoSync \cup (undo \cap Finalized(roll)), undo)
            /\ WriteTree(index, IF roll THEN lastFile' ELSE tree.lastFile)
            /\ UNCHANGED <<undo, aborted>>
  BY DEF StoreBlock
<1>2. lastFile' \in 0..MaxFile
  BY <1>1, FindBlockPosBound DEF FilesInv
<1>3. tree.lastFile \in 0..MaxFile
  BY DEF IndexInv, TreeOK
<1>4. IndexInv'
  <2>1. tree' \in treeOld' /\ \A t \in treeOld' : TreeOK(t)
    BY <1>1, <1>2, <1>3, WriteTreeKeeps DEF IndexInv
  <2> QED BY <2>1 DEF IndexInv, TreeOK, IndexOK
<1>5. FilesInv'
  BY <1>1, <1>2 DEF FilesInv, Committed
<1> QED BY <1>4, <1>5

LEMMA StoreFailsTypes ==
  ASSUME StoreFails, IndexInv, FilesInv, UNCHANGED index
  PROVE  IndexInv' /\ FilesInv' /\ aborted' = "no space"
<1>1. PICK roll \in BOOLEAN :
        /\ FindBlockPos(roll)
        /\ dataSync' = Committed(dataSync \cup (data \cap Finalized(roll)), data)
        /\ undoSync' = Committed(undoSync \cup (undo \cap Finalized(roll)), undo)
        /\ aborted' = "no space"
        /\ UNCHANGED <<fileOf, data, undo, tree, treeOld>>
  BY DEF StoreFails
<1>2. lastFile' \in 0..MaxFile
  BY <1>1, FindBlockPosBound DEF FilesInv
<1>3. FilesInv'
  BY <1>1, <1>2 DEF FilesInv, Committed
<1>4. IndexInv'
  BY <1>1 DEF IndexInv, TreeOK, IndexOK
<1> QED BY <1>1, <1>3, <1>4

\* ConnectBestBlock's caller goes on: what Returned leaves.
LEMMA ReturnedTypes ==
  ASSUME NEW ok, NEW n, Returned(ok, n), CoinsInv, n \in Blocks \cup {Null}, UNCHANGED stale
  PROVE  /\ CoinsInv'
         /\ pc' \in {"down", "idle", "orphans"}
         /\ queue' \subseteq queue \cup {cur}
         /\ ctx = "init" => queue' = queue
BY DEF Returned, CoinsInv, Survivors, Accepted

LEMMA IndexFrame ==
  ASSUME IndexInv, UNCHANGED <<index, tree, treeOld>> PROVE IndexInv'
BY DEF IndexInv, IndexOK, TreeOK

LEMMA FilesFrame ==
  ASSUME FilesInv, UNCHANGED <<lastFile, fileOf, files>> PROVE FilesInv'
BY DEF FilesInv, files

LEMMA CoinsFrame ==
  ASSUME CoinsInv, UNCHANGED <<coins, coinsOld, stale>> PROVE CoinsInv'
BY DEF CoinsInv

\* The block SetBestChain works for is an indexed one of vAttach.
LEMMA NewIsKnown ==
  ASSUME IndexInv, KnownInv, Connecting
  PROVE  New \in attach /\ New \in Known /\ New \in Blocks
<1>1. attach \subseteq Blocks /\ attach # {} /\ attach \subseteq Known
  BY DEF IndexInv, IndexOK, KnownInv, Known
<1> QED BY <1>1, LowestOf DEF New

LEMMA TipIsBlock ==
  ASSUME IndexInv, KnownInv
  PROVE  /\ tip \in Blocks \cup {Null} /\ best \in Blocks \cup {Null}
         /\ ChainOf(tip) \subseteq Known /\ ChainOf(best) \subseteq Known
         /\ Known \subseteq Blocks
<1>1. Known \subseteq Blocks
  BY DEF IndexInv, IndexOK, Known
<1>2. ASSUME NEW b \in Known \cup {Null} PROVE ChainOf(b) \subseteq Known
  BY <1>2, IndexHasChains DEF IndexInv, Known, ChainOf
<1> QED BY <1>1, <1>2 DEF KnownInv

LEMMA DeliverTypes ==
  ASSUME TypeInv, NEW b \in Blocks, Deliver(b)
  PROVE  TypeInv'
<1>1. CASE ReceiveOrphan(b)
  <2>1. /\ UNCHANGED <<index, validSet, pnext, best, tip, lastFile, fileOf, files, dbs, control>>
        /\ orphans' = orphans \cup {b}
    BY <1>1 DEF ReceiveOrphan
  <2>2. IndexInv' /\ FilesInv' /\ CoinsInv'
    BY <2>1, IndexFrame, FilesFrame, CoinsFrame DEF TypeInv, dbs
  <2>3. KnownInv'
    BY <2>1 DEF TypeInv, KnownInv, Known, Connecting, control
  <2>4. ControlInv'
    BY <2>1 DEF TypeInv, ControlInv, control
  <2> QED BY <2>2, <2>3, <2>4 DEF TypeInv
<1>2. CASE ReceiveBlock(b)
  <2>0. /\ UNCHANGED <<stale, index, validSet, pnext, best, tip, orphans, coins, coinsOld,
                       attach, conn, queue, stops>>
        /\ Prev[b] \in Known /\ b \notin Unacceptable /\ pc = "idle"
    BY <1>2 DEF ReceiveBlock
  <2>1. CoinsInv'
    BY <2>0, CoinsFrame DEF TypeInv
  <2>2. CASE StoreBlock(b) /\ pc' = "index" /\ ctx' = "block" /\ cur' = b
    <3>1. IndexInv' /\ FilesInv' /\ aborted' = aborted
      BY <2>0, <2>2, StoreBlockTypes DEF TypeInv, StoreBlock
    <3>2. KnownInv'
      BY <2>0, <2>2 DEF TypeInv, KnownInv, Known, Connecting
    <3>3. ControlInv'
      BY <2>0, <2>2, <3>1 DEF TypeInv, ControlInv
    <3> QED BY <2>1, <3>1, <3>2, <3>3 DEF TypeInv
  <2>3. CASE StoreFails /\ UNCHANGED <<pc, ctx, cur>>
    <3>1. IndexInv' /\ FilesInv' /\ aborted' = "no space"
      BY <2>0, <2>3, StoreFailsTypes DEF TypeInv
    <3>2. KnownInv'
      BY <2>0, <2>3 DEF TypeInv, KnownInv, Known, Connecting
    <3>3. ControlInv'
      BY <2>0, <2>3, <3>1 DEF TypeInv, ControlInv
    <3> QED BY <2>1, <3>1, <3>2, <3>3 DEF TypeInv
  <2> QED BY <1>2, <2>2, <2>3 DEF ReceiveBlock
<1> QED BY <1>1, <1>2 DEF Deliver

LEMMA AddToBlockIndexTypes ==
  ASSUME TypeInv, AddToBlockIndex
  PROVE  TypeInv'
<1>1. /\ UNCHANGED <<stale, pnext, best, tip, orphans, lastFile, fileOf, files, coins, coinsOld,
                     ctx, cur, attach, conn, queue, aborted, stops>>
      /\ index' = WithEntry(index, cur) /\ validSet' = validSet \cup {cur}
      /\ WriteIndex(index') /\ pc = "index" /\ pc' = "best"
  BY DEF AddToBlockIndex
<1>2. DOMAIN index' = DOMAIN index \cup {cur}
  BY <1>1 DEF WithEntry
<1>3. IndexOK(index')
  <2>1. index' \in [DOMAIN index' -> SUBSET Flags]
    BY <1>1 DEF WithEntry, TypeInv, IndexInv, IndexOK
  <2>2. cur \in Blocks /\ cur \notin Unacceptable /\ Prev[cur] \in DOMAIN index
    BY <1>1 DEF TypeInv, KnownInv, ControlInv, Known
  <2> QED BY <1>2, <2>1, <2>2 DEF TypeInv, IndexInv, IndexOK
<1>4. IndexInv'
  BY <1>1, <1>3, WriteIndexKeeps DEF TypeInv
<1>5. FilesInv' /\ CoinsInv'
  BY <1>1, FilesFrame, CoinsFrame DEF TypeInv
<1>6. KnownInv'
  BY <1>1, <1>2 DEF TypeInv, KnownInv, Known, Connecting
<1>7. ControlInv'
  BY <1>1 DEF TypeInv, ControlInv
<1> QED BY <1>4, <1>5, <1>6, <1>7 DEF TypeInv

LEMMA ProcessOrphanTypes ==
  ASSUME TypeInv, NEW o \in Blocks, ProcessOrphan(o)
  PROVE  TypeInv'
<1>0. /\ UNCHANGED <<stale, index, validSet, pnext, best, tip, coins, coinsOld,
                     attach, conn, queue, stops>>
      /\ Prev[o] \in queue /\ orphans' = orphans \ {o} /\ pc = "orphans"
  BY DEF ProcessOrphan
<1>1. CoinsInv'
  BY <1>0, CoinsFrame DEF TypeInv
<1>2. CASE o \notin Unacceptable /\ StoreBlock(o) /\ pc' = "index" /\ ctx' = "orphan" /\ cur' = o
  <2>1. IndexInv' /\ FilesInv' /\ aborted' = aborted
    BY <1>0, <1>2, StoreBlockTypes DEF TypeInv, StoreBlock
  <2>2. KnownInv'
    BY <1>0, <1>2 DEF TypeInv, KnownInv, Known, Connecting
  <2>3. ControlInv'
    BY <1>0, <1>2, <2>1 DEF TypeInv, ControlInv
  <2> QED BY <1>1, <2>1, <2>2, <2>3 DEF TypeInv
<1>3. CASE StoreFails /\ UNCHANGED <<pc, ctx, cur>>
  <2>1. IndexInv' /\ FilesInv' /\ aborted' = "no space"
    BY <1>0, <1>3, StoreFailsTypes DEF TypeInv
  <2>2. KnownInv'
    BY <1>0, <1>3 DEF TypeInv, KnownInv, Known, Connecting
  <2>3. ControlInv'
    BY <1>0, <1>3, <2>1 DEF TypeInv, ControlInv
  <2> QED BY <1>1, <2>1, <2>2, <2>3 DEF TypeInv
<1>4. CASE UNCHANGED <<lastFile, fileOf, files, tree, treeOld, pc, ctx, cur, aborted>>
  <2>1. IndexInv' /\ FilesInv'
    BY <1>0, <1>4, IndexFrame, FilesFrame DEF TypeInv
  <2>2. KnownInv'
    BY <1>0, <1>4 DEF TypeInv, KnownInv, Known, Connecting
  <2>3. ControlInv'
    BY <1>0, <1>4 DEF TypeInv, ControlInv
  <2> QED BY <1>1, <2>1, <2>2, <2>3 DEF TypeInv
<1> QED BY <1>2, <1>3, <1>4 DEF ProcessOrphan

LEMMA OrphansDoneTypes ==
  ASSUME TypeInv, OrphansDone
  PROVE  TypeInv'
<1>1. /\ UNCHANGED <<memory, files, dbs, ctx, cur, attach, conn, aborted, stops>>
      /\ queue' = {} /\ pc' = "idle"
  BY DEF OrphansDone
<1>2. IndexInv' /\ FilesInv' /\ CoinsInv'
  BY <1>1, IndexFrame, FilesFrame, CoinsFrame DEF TypeInv, dbs, memory
<1>3. KnownInv'
  BY <1>1 DEF TypeInv, KnownInv, Known, Connecting, memory
<1>4. ControlInv'
  BY <1>1 DEF TypeInv, ControlInv, memory
<1> QED BY <1>2, <1>3, <1>4 DEF TypeInv

\* ConnectBestBlock returns before it has touched anything but vAttach.
LEMMA ReturnTypes ==
  ASSUME TypeInv, NEW ok, Returned(ok, tip), pc = "best" \/ Connecting,
         UNCHANGED <<stale, memory, files, tree, treeOld, ctx, cur, stops>>,
         attach' \subseteq attach, conn' \subseteq conn,
         aborted' \in {"no", "unreadable", "no space"}
  PROVE  TypeInv'
<1>1. tip \in Blocks \cup {Null}
  BY TipIsBlock DEF TypeInv
<1>2. /\ CoinsInv'
      /\ pc' \in {"down", "idle", "orphans"}
      /\ queue' \subseteq queue \cup {cur}
      /\ ctx = "init" => queue' = queue
  BY <1>1, ReturnedTypes DEF TypeInv
<1>3. IndexInv' /\ FilesInv'
  BY IndexFrame, FilesFrame DEF TypeInv, memory
<1>4. KnownInv'
  BY <1>2 DEF TypeInv, KnownInv, Known, Connecting, memory
<1>5. ControlInv'
  BY <1>2 DEF TypeInv, ControlInv, memory
<1> QED BY <1>2, <1>3, <1>4, <1>5 DEF TypeInv

LEMMA MarkFailedChildTypes ==
  ASSUME TypeInv, MarkFailedChild
  PROVE  TypeInv'
<1>1. PICK marked :
        /\ index' = [c \in Known |-> IF c \in marked THEN index[c] \cup {"FAILED_CHILD"}
                                                    ELSE index[c]]
        /\ validSet' = validSet \ marked
  BY DEF MarkFailedChild
<1>2. /\ UNCHANGED <<stale, pnext, best, tip, orphans, lastFile, fileOf, files, coins, coinsOld,
                     ctx, cur, attach, conn, queue, aborted, stops>>
      /\ WriteIndex(index') /\ pc' \in {"best", "down"} /\ pc = "best"
  BY DEF MarkFailedChild, HasCandidate
<1>3. DOMAIN index' = DOMAIN index
  BY <1>1 DEF Known
<1>4. index' \in [DOMAIN index' -> SUBSET Flags]
  BY <1>1 DEF Known, TypeInv, IndexInv, IndexOK, Flags
<1>5. IndexInv'
  BY <1>2, <1>3, <1>4, FlagsKeepIndex, WriteIndexKeeps DEF TypeInv, IndexInv
<1>6. FilesInv' /\ CoinsInv'
  BY <1>2, FilesFrame, CoinsFrame DEF TypeInv
<1>7. KnownInv'
  BY <1>1, <1>2, <1>3 DEF TypeInv, KnownInv, Known, Connecting
<1>8. ControlInv'
  BY <1>2 DEF TypeInv, ControlInv
<1> QED BY <1>5, <1>6, <1>7, <1>8 DEF TypeInv

\* vAttach is taken from the chain of a candidate.
LEMMA AttachIsKnown ==
  ASSUME IndexInv, KnownInv, validSet # {}
  PROVE  Top \in Known /\ Top \in Blocks /\ Top \in validSet
         /\ Attach(Top) \subseteq Chain[Top] /\ Chain[Top] \subseteq Known
<1>1. validSet \subseteq Blocks /\ validSet \subseteq Known
  BY TipIsBlock DEF KnownInv
<1>2. Top \in validSet
  BY <1>1, TopIsBest
<1>3. Chain[Top] \subseteq Known
  BY <1>1, <1>2, IndexHasChains DEF IndexInv, Known
<1> QED BY <1>1, <1>2, <1>3 DEF Attach, Walked

LEMMA ChooseAttachTypes ==
  ASSUME TypeInv, ChooseAttach
  PROVE  TypeInv'
<1>1. /\ UNCHANGED <<stale, memory, files, tree, treeOld, ctx, cur, conn, aborted, stops>>
      /\ attach' = Attach(Top) /\ validSet # {} /\ pc = "best"
  BY DEF ChooseAttach, HasCandidate
<1>2. attach' \subseteq Known
  BY <1>1, AttachIsKnown DEF TypeInv
<1>3. CASE attach' = {} /\ Returned(TRUE, tip)
  <2>1. aborted' \in {"no", "unreadable", "no space"}
    BY <1>1 DEF TypeInv, ControlInv
  <2> QED BY <1>1, <1>3, <2>1, ReturnTypes
<1>4. CASE attach' # {} /\ pc' = "switch" /\ UNCHANGED <<queue, coins, coinsOld>>
  <2>1. IndexInv' /\ FilesInv' /\ CoinsInv'
    BY <1>1, <1>4, IndexFrame, FilesFrame, CoinsFrame DEF TypeInv, memory
  <2>2. KnownInv'
    BY <1>1, <1>2, <1>4 DEF TypeInv, KnownInv, Known, Connecting, memory
  <2>3. ControlInv'
    BY <1>1, <1>4 DEF TypeInv, ControlInv, memory
  <2> QED BY <2>1, <2>2, <2>3 DEF TypeInv
<1> QED BY <1>3, <1>4 DEF ChooseAttach

LEMMA DisconnectTypes ==
  ASSUME TypeInv, Disconnect
  PROVE  TypeInv'
<1>1. /\ UNCHANGED <<memory, files, dbs, ctx, cur, attach, queue, aborted, stops>>
      /\ pc = "switch" /\ pc' = "connect" /\ conn' = Chain[New] \ ChainOf(tip)
  BY DEF Disconnect
<1>2. conn' \subseteq Blocks
  BY <1>1, NewIsKnown, ChainEnds DEF TypeInv, Connecting
<1>3. IndexInv' /\ FilesInv' /\ CoinsInv'
  BY <1>1, IndexFrame, FilesFrame, CoinsFrame DEF TypeInv, memory, dbs
<1>4. KnownInv'
  BY <1>1 DEF TypeInv, KnownInv, Known, Connecting, memory
<1>5. ControlInv'
  BY <1>1, <1>2 DEF TypeInv, ControlInv, memory
<1> QED BY <1>3, <1>4, <1>5 DEF TypeInv

\* ConnectBlock fails, or a disconnection: the callers return.
LEMMA FailureTypes ==
  ASSUME TypeInv, DisconnectFails \/ ConnectNoSpace \/ ConnectUnreadable \/ NothingToDo
  PROVE  TypeInv'
<1>1. aborted \in {"no", "unreadable", "no space"}
  BY DEF TypeInv, ControlInv
<1>2. CASE DisconnectFails
  BY <1>1, <1>2, ReturnTypes DEF DisconnectFails, Connecting
<1>3. CASE ConnectNoSpace
  BY <1>3, ReturnTypes DEF ConnectNoSpace, Connecting
<1>4. CASE ConnectUnreadable
  BY <1>4, ReturnTypes DEF ConnectUnreadable, Connecting
<1>5. CASE NothingToDo
  BY <1>1, <1>5, ReturnTypes DEF NothingToDo
<1> QED BY <1>2, <1>3, <1>4, <1>5

LEMMA ConnectBlockTypes ==
  ASSUME TypeInv, ConnectBlock
  PROVE  TypeInv'
<1>1. /\ UNCHANGED <<stale, validSet, pnext, best, tip, orphans, lastFile, fileOf, data, dataSync,
                     coins, coinsOld, pc, ctx, cur, attach, queue, aborted, stops>>
      /\ pc = "connect" /\ conn # {} /\ Lowest(conn) \in data
      /\ conn' = conn \ {Lowest(conn)}
  BY DEF ConnectBlock
<1>2. CoinsInv'
  BY <1>1, CoinsFrame DEF TypeInv
<1>3. ControlInv'
  BY <1>1 DEF TypeInv, ControlInv
<1>4. CASE UNCHANGED <<index, undo, undoSync, tree, treeOld>>
  <2>1. IndexInv' /\ FilesInv'
    BY <1>1, <1>4, IndexFrame, FilesFrame DEF TypeInv, files
  <2>2. KnownInv'
    BY <1>1, <1>4 DEF TypeInv, KnownInv, Known, Connecting
  <2> QED BY <1>2, <1>3, <2>1, <2>2 DEF TypeInv
<1>5. CASE WriteUndo(Lowest(conn))
  <2> DEFINE b == Lowest(conn)
  <2>1. /\ undo' = undo \cup {b}
        /\ index' = [index EXCEPT ![b] = @ \cup {"HAVE_UNDO"}]
        /\ WriteIndex(index')
        /\ undoSync' \subseteq undo' \cup undoSync
    BY <1>5 DEF WriteUndo, Committed
  <2> HIDE DEF b
  <2>2. DOMAIN index' = DOMAIN index
    BY <2>1
  <2>3. index' \in [DOMAIN index' -> SUBSET Flags]
    BY <2>1, <2>2 DEF TypeInv, IndexInv, IndexOK, Flags
  <2>4. IndexInv'
    BY <2>1, <2>2, <2>3, FlagsKeepIndex, WriteIndexKeeps DEF TypeInv, IndexInv
  <2>5. FilesInv'
    BY <1>1, <2>1 DEF TypeInv, FilesInv, b
  <2>6. KnownInv'
    BY <1>1, <2>2 DEF TypeInv, KnownInv, Known, Connecting
  <2> QED BY <1>2, <1>3, <2>4, <2>5, <2>6 DEF TypeInv
<1> QED BY <1>4, <1>5 DEF ConnectBlock

LEMMA ConnectInvalidTypes ==
  ASSUME TypeInv, ConnectInvalid
  PROVE  TypeInv'
<1>1. /\ UNCHANGED <<stale, pnext, best, tip, orphans, lastFile, fileOf, files, ctx, cur, aborted,
                     stops>>
      /\ pc = "connect" /\ attach' = {} /\ conn' = {} /\ Returned(FALSE, tip)
  BY DEF ConnectInvalid
<1>2. PICK b : /\ index' = [index EXCEPT ![b] = @ \cup {"FAILED_VALID"}]
               /\ WriteIndex(index')
               /\ validSet' = validSet \ {b}
  BY DEF ConnectInvalid, InvalidBlockFound
<1>3. tip \in Blocks \cup {Null}
  BY TipIsBlock DEF TypeInv
<1>4. /\ CoinsInv'
      /\ pc' \in {"down", "idle", "orphans"}
      /\ queue' \subseteq queue \cup {cur}
      /\ ctx = "init" => queue' = queue
  BY <1>1, <1>3, ReturnedTypes DEF TypeInv
<1>5. DOMAIN index' = DOMAIN index
  BY <1>2
<1>6. index' \in [DOMAIN index' -> SUBSET Flags]
  BY <1>2, <1>5 DEF TypeInv, IndexInv, IndexOK, Flags
<1>7. IndexInv'
  BY <1>2, <1>5, <1>6, FlagsKeepIndex, WriteIndexKeeps DEF TypeInv, IndexInv
<1>8. FilesInv'
  BY <1>1, FilesFrame DEF TypeInv
<1>9. KnownInv'
  BY <1>1, <1>2, <1>4, <1>5 DEF TypeInv, KnownInv, Known, Connecting
<1>10. ControlInv'
  BY <1>1, <1>4 DEF TypeInv, ControlInv
<1> QED BY <1>4, <1>7, <1>8, <1>9, <1>10 DEF TypeInv

LEMMA CommitTypes ==
  ASSUME TypeInv, Commit
  PROVE  TypeInv'
<1>1. /\ UNCHANGED <<stale, index, validSet, orphans, lastFile, fileOf, data, undo, tree,
                     ctx, cur, conn, aborted, stops>>
      /\ pc = "connect" /\ tip' = New /\ pnext' = Relinked /\ best' = New
      /\ attach' = attach \ {New}
      /\ FlushCoins \/ UNCHANGED <<dataSync, undoSync, treeOld, coins, coinsOld>>
  BY DEF Commit
<1>2. New \in attach /\ New \in Known /\ New \in Blocks
  BY <1>1, NewIsKnown DEF TypeInv, Connecting
<1>3. IndexInv' /\ FilesInv' /\ CoinsInv'
  <2>1. CASE FlushCoins
    BY <1>1, <1>2, <2>1 DEF TypeInv, FlushCoins, IndexInv, TreeOK, IndexOK, FilesInv, CoinsInv,
                            Survivors
  <2>2. CASE UNCHANGED <<dataSync, undoSync, treeOld, coins, coinsOld>>
    BY <1>1, <2>2 DEF TypeInv, IndexInv, TreeOK, IndexOK, FilesInv, CoinsInv
  <2> QED BY <1>1, <2>1, <2>2
<1>4. \/ attach' # {} /\ pc' = "switch" /\ UNCHANGED queue
      \/ /\ attach' = {} /\ pc' = (IF ctx = "init" THEN "idle" ELSE "orphans")
         /\ queue' = Accepted(TRUE)
  BY DEF Commit
<1>5. queue' \subseteq Known
  BY <1>1, <1>4 DEF TypeInv, KnownInv, Accepted, Connecting
<1>6. KnownInv'
  BY <1>1, <1>2, <1>4, <1>5 DEF TypeInv, KnownInv, Known, Connecting
<1>7. pnext' \in [Blocks -> Blocks \cup {Null}]
  <2>1. Chain[New] \subseteq Blocks
    BY <1>2, ChainEnds
  <2>2. ASSUME NEW b \in Blocks PROVE Relinked[b] \in Blocks \cup {Null}
    <3>1. pnext[b] \in Blocks \cup {Null}
      BY DEF TypeInv, ControlInv
    <3> QED BY <2>1, <3>1 DEF Relinked
  <2> QED BY <1>1, <2>2 DEF Relinked
<1>8. ControlInv'
  BY <1>1, <1>4, <1>7 DEF TypeInv, ControlInv
<1> QED BY <1>3, <1>6, <1>8 DEF TypeInv

LEMMA CommitNoSpaceTypes ==
  ASSUME TypeInv, CommitNoSpace
  PROVE  TypeInv'
<1>1. /\ UNCHANGED <<stale, index, validSet, pnext, best, orphans, lastFile, fileOf, files,
                     tree, treeOld, ctx, cur, conn, stops>>
      /\ pc = "connect" /\ tip' = New /\ aborted' = "no space" /\ attach' = {}
      /\ Returned(FALSE, New)
  BY DEF CommitNoSpace
<1>2. New \in Known /\ New \in Blocks
  BY <1>1, NewIsKnown DEF TypeInv, Connecting
<1>3. /\ CoinsInv'
      /\ pc' \in {"down", "idle", "orphans"}
      /\ queue' \subseteq queue \cup {cur}
      /\ ctx = "init" => queue' = queue
  BY <1>1, <1>2, ReturnedTypes DEF TypeInv
<1>4. IndexInv' /\ FilesInv'
  BY <1>1, IndexFrame, FilesFrame DEF TypeInv
<1>5. KnownInv'
  BY <1>1, <1>2, <1>3 DEF TypeInv, KnownInv, Known, Connecting
<1>6. ControlInv'
  BY <1>1, <1>3 DEF TypeInv, ControlInv
<1> QED BY <1>3, <1>4, <1>5, <1>6 DEF TypeInv

LEMMA StopTypes ==
  ASSUME TypeInv, Shutdown \/ Crash \/ PowerLoss
  PROVE  TypeInv'
<1>1. /\ UNCHANGED <<stale, memory, ctx, cur, attach, conn, queue, aborted>>
      /\ stops < MaxStops /\ pc' = "down" /\ stops' = stops + 1
  BY DEF Shutdown, Crash, PowerLoss, dbs
<1>2. KnownInv'
  BY <1>1 DEF TypeInv, KnownInv, Known, Connecting, memory
<1>3. ControlInv'
  <2>0. stops \in 0..MaxStops /\ MaxStops \in Nat
    BY TreeAssumption DEF TypeInv, ControlInv
  <2>1. stops' \in 0..MaxStops
    BY <1>1, <2>0
  <2> QED BY <1>1, <2>1 DEF TypeInv, ControlInv, memory
<1>4. CASE Shutdown
  <2>1. /\ UNCHANGED <<files, tree, treeOld>>
        /\ coins' = tip /\ coinsOld' = Survivors(coinsOld, tip)
    BY <1>4 DEF Shutdown
  <2>2. IndexInv' /\ FilesInv'
    BY <1>1, <2>1, IndexFrame, FilesFrame DEF TypeInv, memory
  <2>3. tip \in Blocks \cup {Null}
    BY TipIsBlock DEF TypeInv
  <2>4. CoinsInv'
    BY <1>1, <2>1, <2>3 DEF TypeInv, CoinsInv, Survivors
  <2> QED BY <1>2, <1>3, <2>2, <2>4 DEF TypeInv
<1>5. CASE Crash
  <2>1. UNCHANGED <<files, dbs>>
    BY <1>5 DEF Crash
  <2>2. IndexInv' /\ FilesInv' /\ CoinsInv'
    BY <1>1, <2>1, IndexFrame, FilesFrame, CoinsFrame DEF TypeInv, memory, dbs
  <2> QED BY <1>2, <1>3, <2>2 DEF TypeInv
<1>6. CASE PowerLoss
  <2>1. /\ tree' \in treeOld /\ treeOld' = {tree'}
        /\ coins' \in coinsOld /\ coinsOld' = {coins'}
    BY <1>6 DEF PowerLoss
  <2>2. /\ dataSync \subseteq data' /\ data' \subseteq data /\ dataSync' = data'
        /\ undoSync \subseteq undo' /\ undo' \subseteq undo /\ undoSync' = undo'
    BY <1>6 DEF PowerLoss, TypeInv, FilesInv
  <2>3. IndexInv'
    BY <1>1, <2>1 DEF TypeInv, IndexInv, IndexOK, TreeOK, memory
  <2>4. FilesInv'
    BY <1>1, <2>2 DEF TypeInv, FilesInv, memory
  <2>5. CoinsInv'
    BY <1>1, <2>1 DEF TypeInv, CoinsInv
  <2> QED BY <1>2, <1>3, <2>3, <2>4, <2>5 DEF TypeInv
<1> QED BY <1>4, <1>5, <1>6

LEMMA StartTypes ==
  ASSUME TypeInv, Start
  PROVE  TypeInv'
<1> DEFINE i == tree.index
           b == LoadedBest(i)
<1>1. /\ index' = i /\ lastFile' = tree.lastFile
      /\ validSet' = {c \in DOMAIN i : i[c] \cap FailedMask = {}}
      /\ best' = b /\ tip' = b
      /\ stale' = stale \cup (ChainOf(coins) \ (ChainOf(b) \cup {Genesis}))
      /\ pnext' = LoadedNext(b)
      /\ data' = data \cap DOMAIN i /\ dataSync' = dataSync \cap DOMAIN i
      /\ undo' \subseteq undo /\ undoSync' = undoSync \cap undo'
      /\ pc' \in {"best", "corrupt"}
      /\ orphans' = {} /\ ctx' = "init"
      /\ attach' = {} /\ conn' = {} /\ queue' = {} /\ aborted' = "no"
      /\ UNCHANGED <<fileOf, tree, treeOld, coins, coinsOld, cur, stops>>
  BY DEF Start
<1>2. TreeOK(tree)
  BY DEF TypeInv, IndexInv
<1>3. IndexOK(i) /\ tree.lastFile \in 0..MaxFile
  BY <1>2 DEF TreeOK
<1>4. b \in DOMAIN i \cup {Null} /\ DOMAIN i \subseteq Blocks
  BY <1>3 DEF LoadedBest, IndexOK
<1> HIDE DEF i, b
<1>5. IndexInv'
  BY <1>1, <1>3 DEF TypeInv, IndexInv, IndexOK, TreeOK
<1>6. KnownInv'
  BY <1>1, <1>4 DEF KnownInv, Known, Connecting
<1>7. FilesInv'
  BY <1>1, <1>3 DEF TypeInv, FilesInv
<1>8. CoinsInv'
  <2>1. ChainOf(coins) \subseteq Blocks
    BY ChainEnds DEF TypeInv, CoinsInv, ChainOf
  <2> QED BY <1>1, <2>1 DEF TypeInv, CoinsInv
<1>9. ControlInv'
  <2>1. ChainOf(b) \subseteq Blocks
    BY <1>4, ChainEnds DEF ChainOf
  <2>2. LoadedNext(b) \in [Blocks -> Blocks \cup {Null}]
    BY <2>1 DEF LoadedNext
  <2> QED BY <1>1, <2>2 DEF TypeInv, ControlInv
<1> QED BY <1>5, <1>6, <1>7, <1>8, <1>9 DEF TypeInv

LEMMA StutterTypes ==
  ASSUME TypeInv, UNCHANGED vars
  PROVE  TypeInv'
<1>1. IndexInv' /\ FilesInv' /\ CoinsInv'
  BY IndexFrame, FilesFrame, CoinsFrame DEF TypeInv, vars, memory, dbs, control
<1>2. KnownInv'
  BY DEF TypeInv, KnownInv, Known, Connecting, vars, memory, control
<1>3. ControlInv'
  BY DEF TypeInv, ControlInv, vars, memory, control
<1> QED BY <1>1, <1>2, <1>3 DEF TypeInv

LEMMA InitTypes == Init => TypeInv
<1> SUFFICES ASSUME Init PROVE TypeInv
  OBVIOUS
<1>1. /\ index = [b \in {Genesis} |-> {}] /\ validSet = {Genesis}
      /\ best = Genesis /\ tip = Genesis /\ queue = {} /\ attach = {} /\ conn = {}
      /\ tree = TreeOf(index, 0) /\ treeOld = {tree}
      /\ pc = "idle" /\ ctx = "block" /\ cur = Genesis
  BY DEF Init
<1>2. DOMAIN index = {Genesis}
  BY <1>1
<1>3. Genesis \in Blocks \ Unacceptable /\ MaxFile \in Nat /\ MaxStops \in Nat
  BY TreeAssumption
<1>4. IndexOK(index)
  BY <1>1, <1>2, <1>3 DEF IndexOK
<1>5. TreeOK(tree)
  BY <1>1, <1>3, <1>4, TreeOfFields DEF TreeOK
<1>6. IndexInv
  BY <1>1, <1>4, <1>5 DEF IndexInv
<1>7. KnownInv
  BY <1>1, <1>2 DEF KnownInv, Known, Connecting
<1>8. FilesInv /\ CoinsInv
  BY <1>3 DEF Init, FilesInv, CoinsInv
<1>9. ControlInv
  BY <1>3 DEF Init, ControlInv
<1> QED BY <1>6, <1>7, <1>8, <1>9 DEF TypeInv

LEMMA NextKeepsTypes == TypeInv /\ [Next]_vars => TypeInv'
<1> SUFFICES ASSUME TypeInv, [Next]_vars PROVE TypeInv'
  OBVIOUS
<1> QED
  BY DeliverTypes, AddToBlockIndexTypes, ProcessOrphanTypes, OrphansDoneTypes, FailureTypes,
     MarkFailedChildTypes, ChooseAttachTypes, DisconnectTypes, ConnectBlockTypes,
     ConnectInvalidTypes, CommitTypes, CommitNoSpaceTypes, StopTypes, StartTypes, StutterTypes
  DEF Next, Work

LEMMA TypesAlways == Spec => []TypeInv
BY InitTypes, NextKeepsTypes, PTL DEF Spec

(***************************************************************************)
(* Types, for every block tree and any stops: in particular pindexBest,    *)
(* pcoinsTip and the candidates are in mapBlockIndex, and a stop never     *)
(* leaves a block tree database that is not one.                           *)
(***************************************************************************)
THEOREM ChainStateTypeCorrect == Spec => []TypeOK
<1>1. TypeInv => TypeOK
  <2> SUFFICES ASSUME TypeInv PROVE TypeOK
    OBVIOUS
  <2>1. /\ DOMAIN index \subseteq Blocks /\ index \in [DOMAIN index -> SUBSET Flags]
        /\ tree \in treeOld
    BY DEF TypeInv, IndexInv, IndexOK
  <2>2. /\ DOMAIN tree.index \subseteq Blocks
        /\ tree.index \in [DOMAIN tree.index -> SUBSET Flags]
    BY DEF TypeInv, IndexInv, TreeOK, IndexOK
  <2>3. attach \subseteq Blocks /\ queue \subseteq Blocks
    BY <2>1 DEF TypeInv, KnownInv, Known
  <2> QED BY <2>1, <2>2, <2>3 DEF TypeInv, TypeOK, KnownInv, FilesInv, CoinsInv, ControlInv
<1> QED BY <1>1, TypesAlways, PTL

-----------------------------------------------------------------------------
(***************************************************************************)
(* The candidates of ConnectBestBlock.  InvalidBlockFound and the marking  *)
(* of descendants change the flags of indexed blocks, so the candidates    *)
(* have to be indexed, and a node that is down must not have forgotten     *)
(* either.                                                                 *)
(***************************************************************************)
CandidateInv ==
  /\ validSet \subseteq DOMAIN index
  /\ \A b \in validSet : index[b] \cap FailedMask = {}

\* Setting a flag other than a failure flag of one entry keeps the candidates.
LEMMA FlagKeepsCandidates ==
  ASSUME NEW b, CandidateInv, validSet' = validSet,
         index' = [index EXCEPT ![b] = @ \cup {"HAVE_UNDO"}]
  PROVE  CandidateInv'
<1>1. DOMAIN index' = DOMAIN index
  OBVIOUS
<1>2. ASSUME NEW c \in validSet PROVE index'[c] \cap FailedMask = {}
  <2>1. c \in DOMAIN index /\ index[c] \cap FailedMask = {}
    BY <1>2 DEF CandidateInv
  <2>2. index'[c] = IF c = b THEN index[c] \cup {"HAVE_UNDO"} ELSE index[c]
    BY <2>1
  <2>3. QED
    BY <2>1, <2>2 DEF FailedMask
<1>3. QED
  BY <1>1, <1>2 DEF CandidateInv

\* InvalidBlockFound marks a block and takes it out of the candidates.
LEMMA InvalidBlockFoundKeepsCandidates ==
  ASSUME NEW b, CandidateInv, InvalidBlockFound(b)
  PROVE  CandidateInv'
<1>1. index' = [index EXCEPT ![b] = @ \cup {"FAILED_VALID"}] /\ validSet' = validSet \ {b}
  BY DEF InvalidBlockFound
<1>2. DOMAIN index' = DOMAIN index
  BY <1>1
<1>3. ASSUME NEW c \in validSet' PROVE index'[c] \cap FailedMask = {}
  <2>1. c \in DOMAIN index /\ index[c] \cap FailedMask = {} /\ c # b
    BY <1>1 DEF CandidateInv
  <2>2. index'[c] = index[c]
    BY <1>1, <2>1
  <2>3. QED
    BY <2>1, <2>2
<1>4. QED
  BY <1>1, <1>2, <1>3 DEF CandidateInv

\* Each step of the node, of its user and of fate keeps the candidates.
LEMMA NextKeepsCandidates == CandidateInv /\ [Next]_vars => CandidateInv'
<1> SUFFICES ASSUME CandidateInv, [Next]_vars PROVE CandidateInv'
  OBVIOUS
<1>0. ASSUME index' = index, validSet' = validSet PROVE CandidateInv'
  BY <1>0 DEF CandidateInv
<1>1. CASE \E b \in Blocks : Deliver(b)
  BY <1>0, <1>1 DEF Deliver, ReceiveOrphan, ReceiveBlock
<1>2. CASE AddToBlockIndex
  <2>1. index' = WithEntry(index, cur) /\ validSet' = validSet \cup {cur}
    BY <1>2 DEF AddToBlockIndex
  <2>2. QED
    BY <2>1 DEF CandidateInv, WithEntry
<1>3. CASE \E o \in Blocks : ProcessOrphan(o)
  BY <1>0, <1>3 DEF ProcessOrphan
<1>4. CASE OrphansDone
  BY <1>0, <1>4 DEF OrphansDone, memory
<1>5. CASE NothingToDo
  BY <1>0, <1>5 DEF NothingToDo, memory
<1>6. CASE MarkFailedChild
  <2>1. PICK marked :
          /\ index' = [c \in Known |-> IF c \in marked THEN index[c] \cup {"FAILED_CHILD"}
                                                      ELSE index[c]]
          /\ validSet' = validSet \ marked
    BY <1>6 DEF MarkFailedChild
  <2>2. QED
    BY <2>1 DEF CandidateInv, Known
<1>7. CASE ChooseAttach
  BY <1>0, <1>7 DEF ChooseAttach, memory
<1>8. CASE Disconnect \/ DisconnectFails
  BY <1>0, <1>8 DEF Disconnect, DisconnectFails, memory
<1>9. CASE ConnectBlock
  <2>1. validSet' = validSet
    BY <1>9 DEF ConnectBlock
  <2>2. CASE index' = index
    BY <1>0, <2>1, <2>2
  <2>3. CASE \E b : WriteUndo(b)
    BY <2>1, <2>3, FlagKeepsCandidates DEF WriteUndo
  <2>4. index' = index \/ \E b : WriteUndo(b)
    BY <1>9 DEF ConnectBlock
  <2>5. QED
    BY <2>2, <2>3, <2>4
<1>10. CASE ConnectInvalid
  <2>1. PICK b : InvalidBlockFound(b)
    BY <1>10 DEF ConnectInvalid
  <2>2. QED
    BY <2>1, InvalidBlockFoundKeepsCandidates
<1>11. CASE ConnectUnreadable \/ ConnectNoSpace \/ CommitNoSpace
  BY <1>0, <1>11 DEF ConnectUnreadable, ConnectNoSpace, CommitNoSpace, memory
<1>12. CASE Commit
  BY <1>0, <1>12 DEF Commit
<1>13. CASE Start
  <2>1. /\ index' = tree.index
        /\ validSet' = {c \in DOMAIN tree.index : tree.index[c] \cap FailedMask = {}}
    BY <1>13 DEF Start
  <2>2. QED
    BY <2>1 DEF CandidateInv
<1>14. CASE Shutdown \/ Crash \/ PowerLoss
  BY <1>0, <1>14 DEF Shutdown, Crash, PowerLoss, memory
<1>15. CASE UNCHANGED vars
  BY <1>0, <1>15 DEF vars, memory
<1>16. QED
  BY <1>1, <1>2, <1>3, <1>4, <1>5, <1>6, <1>7, <1>8, <1>9, <1>10, <1>11, <1>12, <1>13, <1>14,
     <1>15 DEF Next, Work

(***************************************************************************)
(* setBlockIndexValid never holds a failed block, whatever the tree, the   *)
(* order of arrival and the crashes: ConnectBestBlock's loop over it makes *)
(* progress.                                                               *)
(***************************************************************************)
THEOREM CandidatesHaveNotFailed == Spec => []ValidSetNotFailed
<1>1. Init => CandidateInv
  <2>1. SUFFICES ASSUME Init PROVE CandidateInv
    OBVIOUS
  <2>2. index = [b \in {Genesis} |-> {}] /\ validSet = {Genesis}
    BY <2>1 DEF Init
  <2>3. QED
    BY <2>2 DEF CandidateInv
<1>2. CandidateInv /\ [Next]_vars => CandidateInv'
  BY NextKeepsCandidates
<1>3. CandidateInv => ValidSetNotFailed
  BY DEF CandidateInv, ValidSetNotFailed, Failed
<1>4. QED
  BY <1>1, <1>2, <1>3, PTL DEF Spec

-----------------------------------------------------------------------------
(***************************************************************************)
(* The main chain has passed ConnectBlock, which speaks for it as long as  *)
(* the coin database holds no coins it does not know of.                   *)
(***************************************************************************)
Judged(b) == Acceptable(b) /\ (Doubtful \/ Sound(b))
JudgedOrNull(b) == b = Null \/ Judged(b)

\* What ConnectBlock has connected, in the view, of the branch to the new tip.
Branch == Chain[New] \ ChainOf(tip)

SoundInv ==
  /\ \A b \in coinsOld : JudgedOrNull(b)
  /\ JudgedOrNull(tip) /\ JudgedOrNull(best)
  /\ TrustOf(tip) >= TrustOf(best)
  /\ Connecting =>
       /\ \E b \in Blocks : attach \subseteq Chain[b]
       /\ \A c \in attach : ChainTrust[c] > TrustOf(best)
  /\ pc = "connect" => 
       conn \subseteq Branch /\ (Doubtful \/ (Branch \ conn) \cap Invalid = {})

LEMMA TrustOfNat ==
  ASSUME NEW b \in Blocks \cup {Null}
  PROVE  TrustOf(b) \in Nat
BY ChainTrustDef DEF TrustOf

\* Nothing indexed is unacceptable, so only ConnectBlock's verdicts are left.
LEMMA KnownIsAcceptable ==
  ASSUME TypeInv, NEW b \in Known
  PROVE  Chain[b] \cap Unacceptable = {} /\ Chain[b] \subseteq Known /\ b \in Blocks
<1>1. IndexOK(index)
  BY DEF TypeInv, IndexInv
<1>2. Chain[b] \subseteq DOMAIN index
  BY <1>1, IndexHasChains DEF Known
<1> QED BY <1>1, <1>2 DEF IndexOK, Known

\* Once all of the branch is connected the new block has passed.
LEMMA NewIsJudged ==
  ASSUME TypeInv, SoundInv, pc = "connect", conn = {}
  PROVE  Judged(New) /\ New \in Blocks /\ New \in attach /\ TrustOf(New) > TrustOf(best)
<1>1. New \in attach /\ New \in Known /\ New \in Blocks
  BY NewIsKnown DEF TypeInv, Connecting
<1>2. Chain[New] \cap Unacceptable = {}
  BY <1>1, KnownIsAcceptable
<1>3. Doubtful \/ ChainOf(tip) \cap Invalid = {}
  BY DEF SoundInv, JudgedOrNull, Judged, Sound, ChainOf
<1>4. Doubtful \/ Branch \cap Invalid = {}
  BY DEF SoundInv
<1>5. Judged(New)
  BY <1>2, <1>3, <1>4 DEF Judged, Acceptable, Sound, Branch
<1>6. TrustOf(New) = ChainTrust[New]
  BY <1>1, NullIsNoBlock DEF TrustOf
<1>7. ChainTrust[New] > TrustOf(best)
  BY <1>1 DEF SoundInv, Connecting
<1> QED BY <1>1, <1>5, <1>6, <1>7

\* Nothing the invariant speaks of has changed, or a call has returned.
LEMMA SoundFrame ==
  ASSUME TypeInv, SoundInv, UNCHANGED <<tip, best, stale>>,
         \A b \in coinsOld' : b \in coinsOld \cup {tip},
         \/ ~Connecting'
         \/ pc' = "switch" /\ Connecting /\ UNCHANGED attach
         \/ pc' = "connect" /\ pc = "connect" /\ UNCHANGED <<attach, conn>>
  PROVE  SoundInv'
<1>1. /\ (\A b \in coinsOld : JudgedOrNull(b))'
      /\ JudgedOrNull(tip)' /\ JudgedOrNull(best)' /\ (TrustOf(tip) >= TrustOf(best))'
  BY DEF SoundInv, JudgedOrNull, Judged, Acceptable, Doubtful, Sound, TrustOf
<1>2. CASE ~Connecting'
  BY <1>1, <1>2 DEF SoundInv, Connecting
<1>3. CASE pc' = "switch" /\ Connecting /\ UNCHANGED attach
  BY <1>1, <1>3 DEF SoundInv, Connecting, TrustOf
<1>4. CASE pc' = "connect" /\ pc = "connect" /\ UNCHANGED <<attach, conn>>
  <2>1. Branch' = Branch /\ Doubtful' = Doubtful
    BY <1>4 DEF Branch, New, ChainOf, Doubtful
  <2> QED BY <1>1, <1>4, <2>1 DEF SoundInv, Connecting, TrustOf
<1> QED BY <1>2, <1>3, <1>4

\* Returned writes at most the tip it is given to the coin database.
LEMMA ReturnedCoins ==
  ASSUME NEW ok, NEW n, Returned(ok, n)
  PROVE  /\ \A b \in coinsOld' : b \in coinsOld \cup {n}
         /\ pc' \in {"down", "idle", "orphans"}
         /\ coinsOld' # coinsOld => pc' = "down"
         /\ pc' = "down" => coinsOld' = Survivors(coinsOld, n)
BY DEF Returned, Survivors

LEMMA CommitSound ==
  ASSUME TypeInv, SoundInv, Commit
  PROVE  SoundInv'
<1>1. /\ pc = "connect" /\ conn = {} /\ tip' = New /\ best' = New /\ attach' = attach \ {New}
      /\ stale' = stale
      /\ FlushCoins \/ UNCHANGED coinsOld
      /\ pc' # "connect"
  BY DEF Commit
<1>2. Judged(New) /\ New \in Blocks /\ New \in attach
  BY <1>1, NewIsJudged
<1>3. (\A b \in coinsOld : JudgedOrNull(b))'
  <2>1. \A b \in coinsOld' : b \in coinsOld \cup {New}
    BY <1>1 DEF FlushCoins, Survivors
  <2> QED BY <1>1, <1>2, <2>1 DEF SoundInv, JudgedOrNull, Judged, Acceptable, Doubtful, Sound
<1>4. JudgedOrNull(tip)' /\ JudgedOrNull(best)' /\ (TrustOf(tip) >= TrustOf(best))'
  <2>1. TrustOf(New) \in Nat
    BY <1>2, TrustOfNat
  <2> QED BY <1>1, <1>2, <2>1 DEF JudgedOrNull, Judged, Acceptable, Doubtful, Sound, TrustOf
<1>5. PICK b \in Blocks : attach \subseteq Chain[b]
  BY <1>1 DEF SoundInv, Connecting
<1>6. ASSUME NEW c \in attach' PROVE ChainTrust[c] > TrustOf(best)'
  <2>1. c \in attach /\ c # New /\ c \in Blocks
    BY <1>1, <1>5, ChainEnds
  <2>2. ChainTrust[New] < ChainTrust[c]
    BY <1>5, <2>1, LowestIsAncestor DEF New
  <2>3. TrustOf(best)' = ChainTrust[New]
    BY <1>1, <1>2, NullIsNoBlock DEF TrustOf
  <2>4. ChainTrust[New] \in Nat /\ ChainTrust[c] \in Nat
    BY <1>2, <2>1, ChainTrustDef
  <2> QED BY <2>2, <2>3, <2>4
<1>7. attach' \subseteq Chain[b]
  BY <1>1, <1>5
<1> QED BY <1>1, <1>3, <1>4, <1>6, <1>7 DEF SoundInv

LEMMA ChooseAttachSound ==
  ASSUME TypeInv, SoundInv, ChooseAttach
  PROVE  SoundInv'
<1>1. UNCHANGED <<tip, best, stale>> /\ attach' = Attach(Top) /\ validSet # {}
  BY DEF ChooseAttach, HasCandidate, memory
<1>2. CASE Returned(TRUE, tip)
  <2>1. ~Connecting' /\ \A b \in coinsOld' : b \in coinsOld \cup {tip}
    BY <1>2, ReturnedCoins DEF Connecting
  <2> QED BY <1>1, <2>1, SoundFrame
<1>3. CASE pc' = "switch" /\ UNCHANGED <<queue, coins, coinsOld>>
  <2>1. Top \in Blocks /\ Attach(Top) \subseteq Chain[Top]
    BY <1>1, AttachIsKnown DEF TypeInv
  <2>2. ASSUME NEW c \in attach' PROVE ChainTrust[c] > TrustOf(best)'
    <3>1. c \in Blocks /\ (best = Null \/ ChainTrust[c] > ChainTrust[best])
      BY <1>1, <2>1, ChainEnds DEF Attach
    <3>2. Trust[c] \in Nat \ {0} /\ ChainTrust[c] \in Nat
      BY <3>1, ChainTrustDef, TreeAssumption
    <3>3. ChainTrust[c] > 0
      <4>1. CASE c = Genesis
        BY <3>1, <3>2, <4>1, ChainTrustDef
      <4>2. CASE c # Genesis
        <5>1. Prev[c] \in Blocks
          BY <3>1, <4>2, PrevIsBlock
        <5>2. ChainTrust[Prev[c]] \in Nat /\ ChainTrust[c] = Trust[c] + ChainTrust[Prev[c]]
          BY <3>1, <4>2, <5>1, ChainTrustDef
        <5> QED BY <3>2, <5>2
      <4> QED BY <4>1, <4>2
    <3> QED BY <1>1, <3>1, <3>2, <3>3 DEF TrustOf
  <2>3. /\ (\A b \in coinsOld : JudgedOrNull(b))'
        /\ JudgedOrNull(tip)' /\ JudgedOrNull(best)' /\ (TrustOf(tip) >= TrustOf(best))'
    BY <1>1, <1>3 DEF SoundInv, JudgedOrNull, Judged, Acceptable, Doubtful, Sound, TrustOf
  <2> QED BY <1>1, <1>3, <2>1, <2>2, <2>3 DEF SoundInv
<1> QED BY <1>2, <1>3 DEF ChooseAttach

LEMMA NextKeepsSound == TypeInv /\ SoundInv /\ [Next]_vars => SoundInv'
<1> SUFFICES ASSUME TypeInv, SoundInv, [Next]_vars PROVE SoundInv'
  OBVIOUS
<1>1. CASE \E b \in Blocks : Deliver(b)
  <2>1. UNCHANGED <<tip, best, stale, coinsOld>> /\ ~Connecting'
    BY <1>1 DEF Deliver, ReceiveOrphan, ReceiveBlock, dbs, control, Connecting
  <2> QED BY <2>1, SoundFrame
<1>2. CASE AddToBlockIndex
  <2>1. UNCHANGED <<tip, best, stale, coinsOld>> /\ ~Connecting'
    BY <1>2 DEF AddToBlockIndex, Connecting
  <2> QED BY <2>1, SoundFrame
<1>3. CASE \E o \in Blocks : ProcessOrphan(o)
  <2>1. UNCHANGED <<tip, best, stale, coinsOld>> /\ ~Connecting'
    BY <1>3 DEF ProcessOrphan, Connecting
  <2> QED BY <2>1, SoundFrame
<1>4. CASE OrphansDone
  <2>1. UNCHANGED <<tip, best, stale, coinsOld>> /\ ~Connecting'
    BY <1>4 DEF OrphansDone, Connecting, memory, dbs
  <2> QED BY <2>1, SoundFrame
<1>5. CASE NothingToDo \/ DisconnectFails \/ ConnectNoSpace \/ ConnectUnreadable \/ ConnectInvalid
  <2>1. UNCHANGED <<tip, best, stale>> /\ \E ok : Returned(ok, tip)
    BY <1>5 DEF NothingToDo, DisconnectFails, ConnectNoSpace, ConnectUnreadable, ConnectInvalid,
                memory
  <2>2. ~Connecting' /\ \A b \in coinsOld' : b \in coinsOld \cup {tip}
    BY <2>1, ReturnedCoins DEF Connecting
  <2> QED BY <2>1, <2>2, SoundFrame
<1>6. CASE MarkFailedChild
  <2>1. UNCHANGED <<tip, best, stale, coinsOld>> /\ ~Connecting'
    BY <1>6 DEF MarkFailedChild, HasCandidate, Connecting
  <2> QED BY <2>1, SoundFrame
<1>7. CASE ChooseAttach
  BY <1>7, ChooseAttachSound
<1>8. CASE Disconnect
  <2>1. /\ UNCHANGED <<tip, best, stale, coinsOld, attach>> /\ pc = "switch" /\ pc' = "connect"
        /\ conn' = Chain[New] \ ChainOf(tip)
    BY <1>8 DEF Disconnect, memory, dbs
  <2>2. Branch' = Branch /\ conn' = Branch
    BY <2>1 DEF Branch, New, ChainOf
  <2>3. /\ (\A b \in coinsOld : JudgedOrNull(b))'
        /\ JudgedOrNull(tip)' /\ JudgedOrNull(best)' /\ (TrustOf(tip) >= TrustOf(best))'
    BY <2>1 DEF SoundInv, JudgedOrNull, Judged, Acceptable, Doubtful, Sound, TrustOf
  <2> QED BY <2>1, <2>2, <2>3 DEF SoundInv, Connecting, TrustOf
<1>9. CASE ConnectBlock
  <2>1. /\ UNCHANGED <<tip, best, stale, coinsOld, attach, pc>> /\ pc = "connect"
        /\ Passes(Lowest(conn)) /\ conn' = conn \ {Lowest(conn)}
    BY <1>9 DEF ConnectBlock
  <2>2. Branch' = Branch
    BY <2>1 DEF Branch, New, ChainOf
  <2>3. /\ (\A b \in coinsOld : JudgedOrNull(b))'
        /\ JudgedOrNull(tip)' /\ JudgedOrNull(best)' /\ (TrustOf(tip) >= TrustOf(best))'
    BY <2>1 DEF SoundInv, JudgedOrNull, Judged, Acceptable, Doubtful, Sound, TrustOf
  <2>4. conn' \subseteq Branch' /\ (Doubtful' \/ (Branch' \ conn') \cap Invalid = {})
    BY <2>1, <2>2 DEF SoundInv, Passes, Doubtful
  <2> QED BY <2>1, <2>3, <2>4 DEF SoundInv, Connecting, TrustOf
<1>10. CASE Commit
  BY <1>10, CommitSound
<1>11. CASE CommitNoSpace
  <2>1. /\ pc = "connect" /\ conn = {} /\ tip' = New /\ best' = best /\ Returned(FALSE, New)
        /\ stale' = stale
    BY <1>11 DEF CommitNoSpace
  <2>2. Judged(New) /\ New \in Blocks /\ TrustOf(New) > TrustOf(best)
    BY <2>1, NewIsJudged
  <2>3. ~Connecting' /\ \A b \in coinsOld' : b \in coinsOld \cup {New}
    BY <2>1, ReturnedCoins DEF Connecting
  <2>4. TrustOf(best) \in Nat /\ TrustOf(New) \in Nat
    BY <2>2, TipIsBlock, TrustOfNat DEF TypeInv
  <2>5. (TrustOf(tip) >= TrustOf(best))'
    BY <2>1, <2>2, <2>4 DEF TrustOf
  <2> QED BY <2>1, <2>2, <2>3, <2>5 DEF SoundInv, JudgedOrNull, Judged, Acceptable, Doubtful, Sound, Connecting
<1>12. CASE Start
  <2>1. /\ best' = LoadedBest(tree.index) /\ tip' = LoadedBest(tree.index)
        /\ coinsOld' = coinsOld /\ ~Connecting' /\ stale \subseteq stale'
    BY <1>12 DEF Start, Connecting
  <2>2. LoadedBest(tree.index) \in coinsOld \cup {Null}
    BY DEF LoadedBest, TypeInv, CoinsInv
  <2>3. TrustOf(LoadedBest(tree.index)) \in Nat
    BY <2>2, TrustOfNat DEF TypeInv, CoinsInv
  <2> QED BY <2>1, <2>2, <2>3 DEF SoundInv, JudgedOrNull, Judged, Acceptable, Doubtful, Sound, TrustOf, Connecting
<1>13. CASE Shutdown \/ Crash \/ PowerLoss
  <2>1. /\ UNCHANGED <<tip, best, stale>> /\ ~Connecting'
    BY <1>13 DEF Shutdown, Crash, PowerLoss, memory, dbs, Connecting
  <2>2. \A b \in coinsOld' : b \in coinsOld \cup {tip}
    BY <1>13 DEF Shutdown, Crash, PowerLoss, dbs, Survivors
  <2> QED BY <2>1, <2>2, SoundFrame
<1>14. CASE UNCHANGED vars
  <2>1. UNCHANGED <<tip, best, stale, coinsOld, attach, conn, pc>>
    BY <1>14 DEF vars, memory, dbs, control
  <2> QED BY <2>1, SoundFrame DEF Connecting
<1> QED
  BY <1>1, <1>2, <1>3, <1>4, <1>5, <1>6, <1>7, <1>8, <1>9, <1>10, <1>11, <1>12, <1>13, <1>14
  DEF Next, Work

LEMMA SoundAlways == Spec => [](TypeInv /\ SoundInv)
<1>1. Init => SoundInv
  <2> SUFFICES ASSUME Init PROVE SoundInv
    OBVIOUS
  <2>1. best = Genesis /\ tip = Genesis /\ coinsOld = {Null} /\ pc = "idle"
    BY DEF Init
  <2>2. Judged(Genesis)
    BY ChainDef, TreeAssumption DEF Judged, Acceptable, Sound
  <2>3. TrustOf(Genesis) \in Nat
    BY NullIsNoBlock, TrustOfNat
  <2> QED BY <2>1, <2>2, <2>3 DEF SoundInv, JudgedOrNull, Connecting
<1> QED BY <1>1, TypesAlways, NextKeepsSound, PTL DEF Spec

-----------------------------------------------------------------------------
(***************************************************************************)
(* The refinement: each step is one of BestChain, or changes nothing that  *)
(* BestChain sees.                                                         *)
(***************************************************************************)
Unseen == UNCHANGED <<best, coinsOld>> /\ Running' = Running

LEMMA UnseenImplements ==
  ASSUME Unseen PROVE UNCHANGED Moves!vars
BY DEF Unseen, Moves!vars

LEMMA MovesTrust ==
  ASSUME NEW b PROVE Moves!TrustAt(b) = TrustOf(b)
BY DEF Moves!TrustAt, TrustOf

\* A stop, by which at most the tip is written, is one of BestChain.
LEMMA StopImplements ==
  ASSUME TypeInv, SoundInv, ~Running', best' = best, coinsOld' # {},
         NEW n, JudgedOrNull(n), n \in Blocks \cup {Null}, TrustOf(n) >= TrustOf(best),
         coinsOld' \subseteq coinsOld \/ (Running /\ coinsOld' \subseteq coinsOld \cup {n})
  PROVE  Moves!Next
<1>1. n \in {b \in Blocks : Acceptable(b)} \cup {Null}
  BY DEF JudgedOrNull, Judged
<1>2. Moves!Stop
  BY <1>1, MovesTrust DEF Moves!Stop
<1> QED BY <1>2 DEF Moves!Next

\* ConnectBestBlock's caller goes on, or start-up is given up.
LEMMA ReturnImplements ==
  ASSUME TypeInv, SoundInv, Running, best' = best,
         NEW ok, NEW n, Returned(ok, n), n \in Blocks \cup {Null}, JudgedOrNull(n),
         TrustOf(n) >= TrustOf(best)
  PROVE  Moves!Next \/ UNCHANGED Moves!vars
<1>1. CASE pc' = "down"
  <2>1. coinsOld' # {} /\ coinsOld' \subseteq coinsOld \cup {n} /\ ~Running'
    BY <1>1 DEF Returned, Survivors, Running, TypeInv, CoinsInv
  <2> QED BY <2>1, StopImplements
<1>2. CASE pc' # "down"
  <2>1. coinsOld' = coinsOld /\ pc' \in {"idle", "orphans"}
    BY <1>2 DEF Returned
  <2>2. Running'
    BY <2>1 DEF Running
  <2>3. Unseen
    BY <2>1, <2>2 DEF Unseen
  <2> QED BY <2>3, UnseenImplements
<1> QED BY <1>1, <1>2

LEMMA NextImplements ==
  TypeInv /\ SoundInv /\ [Next]_vars => Moves!Next \/ UNCHANGED Moves!vars
<1> SUFFICES ASSUME TypeInv, SoundInv, [Next]_vars
             PROVE  Moves!Next \/ UNCHANGED Moves!vars
  OBVIOUS
<1>0. /\ tip \in Blocks \cup {Null} /\ JudgedOrNull(tip) /\ TrustOf(tip) >= TrustOf(best)
      /\ best \in Blocks \cup {Null} /\ coinsOld # {}
  BY TipIsBlock DEF TypeInv, SoundInv, CoinsInv
<1>1. CASE \E b \in Blocks : Deliver(b)
  <2>1. Unseen
    BY <1>1 DEF Deliver, ReceiveOrphan, ReceiveBlock, dbs, control, Unseen, Running
  <2> QED BY <2>1, UnseenImplements
<1>2. CASE AddToBlockIndex
  <2>1. Unseen
    BY <1>2 DEF AddToBlockIndex, Unseen, Running
  <2> QED BY <2>1, UnseenImplements
<1>3. CASE \E o \in Blocks : ProcessOrphan(o)
  <2>1. Unseen
    BY <1>3 DEF ProcessOrphan, Unseen, Running
  <2> QED BY <2>1, UnseenImplements
<1>4. CASE OrphansDone
  <2>1. Unseen
    BY <1>4 DEF OrphansDone, memory, dbs, Unseen, Running
  <2> QED BY <2>1, UnseenImplements
<1>5. CASE NothingToDo \/ DisconnectFails \/ ConnectNoSpace \/ ConnectUnreadable \/ ConnectInvalid
  <2>1. best' = best /\ Running /\ \E ok : Returned(ok, tip)
    BY <1>5 DEF NothingToDo, DisconnectFails, ConnectNoSpace, ConnectUnreadable, ConnectInvalid,
                memory, Running
  <2> QED BY <1>0, <2>1, ReturnImplements
<1>6. CASE MarkFailedChild
  <2>1. UNCHANGED <<best, coinsOld>> /\ Running /\ pc' \in {"best", "down"}
    BY <1>6 DEF MarkFailedChild, HasCandidate, Running
  <2>2. CASE pc' = "down"
    <3>1. ~Running'
      BY <2>2 DEF Running
    <3> QED BY <1>0, <2>1, <3>1, StopImplements
  <2>3. CASE pc' = "best"
    <3>1. Unseen
      BY <2>1, <2>3 DEF Unseen, Running
    <3> QED BY <3>1, UnseenImplements
  <2> QED BY <2>1, <2>2, <2>3
<1>7. CASE ChooseAttach
  <2>1. best' = best /\ Running
    BY <1>7 DEF ChooseAttach, HasCandidate, memory, Running
  <2>2. CASE Returned(TRUE, tip)
    BY <1>0, <2>1, <2>2, ReturnImplements
  <2>3. CASE pc' = "switch" /\ UNCHANGED <<queue, coins, coinsOld>>
    <3>1. Unseen
      BY <2>1, <2>3 DEF Unseen, Running
    <3> QED BY <3>1, UnseenImplements
  <2> QED BY <1>7, <2>2, <2>3 DEF ChooseAttach
<1>8. CASE Disconnect \/ ConnectBlock
  <2>1. Unseen
    BY <1>8 DEF Disconnect, ConnectBlock, memory, dbs, Unseen, Running
  <2> QED BY <2>1, UnseenImplements
<1>9. CASE Commit
  <2>1. /\ pc = "connect" /\ conn = {} /\ best' = New /\ pc' \in {"switch", "idle", "orphans"}
        /\ FlushCoins \/ UNCHANGED coinsOld
    BY <1>9 DEF Commit
  <2>2. Judged(New) /\ New \in Blocks /\ TrustOf(New) > TrustOf(best)
    BY <2>1, NewIsJudged
  <2>3. coinsOld' # {} /\ coinsOld' \subseteq coinsOld \cup {New}
    BY <1>0, <2>1 DEF FlushCoins, Survivors
  <2>4. Running /\ Running'
    BY <2>1 DEF Running
  <2>5. Moves!Adopt
    BY <2>1, <2>2, <2>3, <2>4, MovesTrust DEF Moves!Adopt, Judged
  <2> QED BY <2>5 DEF Moves!Next
<1>10. CASE CommitNoSpace
  <2>1. /\ pc = "connect" /\ conn = {} /\ best' = best /\ Returned(FALSE, New)
    BY <1>10 DEF CommitNoSpace
  <2>2. Judged(New) /\ New \in Blocks /\ TrustOf(New) > TrustOf(best)
    BY <2>1, NewIsJudged
  <2>3. TrustOf(New) \in Nat /\ TrustOf(best) \in Nat
    BY <1>0, <2>2, TrustOfNat
  <2>4. TrustOf(New) >= TrustOf(best)
    BY <2>2, <2>3
  <2>5. JudgedOrNull(New) /\ Running
    BY <2>1, <2>2 DEF JudgedOrNull, Running
  <2> QED BY <2>1, <2>2, <2>4, <2>5, ReturnImplements
<1>11. CASE Start
  <2>1. /\ best' \in coinsOld \cup {Null} /\ coinsOld' = coinsOld
    BY <1>11 DEF Start, LoadedBest, TypeInv, CoinsInv
  <2>2. ~Running /\ Running' \in BOOLEAN
    BY <1>11 DEF Start, Running
  <2>3. Moves!Start
    BY <2>1, <2>2 DEF Moves!Start
  <2> QED BY <2>3 DEF Moves!Next
<1>12. CASE Shutdown
  <2>1. best' = best /\ Running /\ ~Running' /\ coinsOld' = Survivors(coinsOld, tip)
    BY <1>12 DEF Shutdown, memory, Running
  <2>2. coinsOld' # {} /\ coinsOld' \subseteq coinsOld \cup {tip}
    BY <2>1 DEF Survivors
  <2> QED BY <1>0, <2>1, <2>2, StopImplements
<1>13. CASE Crash \/ PowerLoss
  <2>1. best' = best /\ ~Running' /\ coinsOld' # {} /\ coinsOld' \subseteq coinsOld
    BY <1>0, <1>13 DEF Crash, PowerLoss, memory, dbs, Running
  <2> QED BY <1>0, <2>1, StopImplements
<1>14. CASE UNCHANGED vars
  <2>1. Unseen
    BY <1>14 DEF vars, memory, dbs, control, Unseen, Running
  <2> QED BY <2>1, UnseenImplements
<1> QED
  BY <1>1, <1>2, <1>3, <1>4, <1>5, <1>6, <1>7, <1>8, <1>9, <1>10, <1>11, <1>12, <1>13, <1>14
  DEF Next, Work

(***************************************************************************)
(* Whatever power losses and a full disk have left, ProcessBlock,          *)
(* ConnectBestBlock and SetBestChain, stopped at any step, move pindexBest *)
(* only to blocks AcceptBlock has let in, of more trust, while the node    *)
(* runs, and after a restart it is a best block that was written, or none. *)
(***************************************************************************)
THEOREM MovesImplemented == Spec => MovesAsBestChain
<1>1. Init => Moves!Init
  <2> SUFFICES ASSUME Init PROVE Moves!Init
    OBVIOUS
  <2>1. best = Genesis /\ coinsOld = {Null} /\ pc = "idle"
    BY DEF Init
  <2>2. Acceptable(Genesis) /\ Genesis \in Blocks
    BY ChainDef, TreeAssumption DEF Acceptable
  <2> QED BY <2>1, <2>2 DEF Moves!Init, Running
<1>2. TypeInv /\ SoundInv /\ [Next]_vars => [Moves!Next]_(Moves!vars)
  BY NextImplements
<1>3. Spec => Moves!Spec
  BY <1>1, <1>2, SoundAlways, PTL DEF Spec, Moves!Spec
<1> QED BY <1>3 DEF MovesAsBestChain

-----------------------------------------------------------------------------
(***************************************************************************)
(* The pnext pointers.  A reorganisation changes only the pointers to the  *)
(* two branches; that what is left of the old ones belongs to the new      *)
(* chain is because a block has one successor on a chain.                  *)
(***************************************************************************)
SpellsChain(p, b) ==
  \A c \in Blocks :
    IF c \in ChainOf(b) \ {b} THEN p[c] \in ChainOf(b) /\ Prev[p[c]] = c ELSE p[c] = Null

\* A disk that cannot fill up leaves the memory structures in step.
InStep == Running /\ (aborted = "no" \/ ~CanFillDisk)

PnextInv == InStep => tip = best /\ SpellsChain(pnext, best)

\* SetBestChain's loops over vDisconnect and vConnect.
LEMMA RelinkedSpells ==
  ASSUME TypeInv, SpellsChain(pnext, tip), Connecting
  PROVE  SpellsChain(Relinked, New)
<1> DEFINE C == Chain[New]
           T == ChainOf(tip)
           Linked(b) == \E c \in C \ T : Prev[c] = b
           Cut(b) == \E c \in T \ C : Prev[c] = b
<1>0. New \in Blocks /\ New # Null /\ tip \in Blocks \cup {Null}
  BY NewIsKnown, TipIsBlock, NullIsNoBlock DEF TypeInv
<1>1. C \subseteq Blocks /\ T \subseteq Blocks /\ New \in C
  BY <1>0, ChainEnds DEF ChainOf
<1>2. ASSUME NEW c \in T, NEW d \in T, Prev[c] = Prev[d] PROVE c = d
  BY <1>0, <1>2, SuccessorUnique, NullIsNoBlock DEF ChainOf
<1>3. ASSUME NEW c \in C, NEW d \in C, Prev[c] = Prev[d] PROVE c = d
  BY <1>0, <1>3, SuccessorUnique
<1>4. ASSUME NEW c \in C, c # Genesis PROVE Prev[c] \in C \ {New}
  BY <1>0, <1>4, ChainPrev, LastHasNoSuccessor
<1>5. ASSUME NEW c \in T, c # Genesis PROVE Prev[c] \in T \ {tip}
  BY <1>0, <1>5, ChainPrev, LastHasNoSuccessor DEF ChainOf
<1>6. ASSUME NEW b \in Blocks
      PROVE  Relinked[b] = IF Linked(b) THEN CHOOSE c \in C \ T : Prev[c] = b
                           ELSE IF Cut(b) THEN Null ELSE pnext[b]
  BY DEF Relinked, Disconnected
<1>7. ASSUME NEW b \in Blocks
      PROVE  IF b \in T \ {tip} THEN pnext[b] \in T /\ Prev[pnext[b]] = b ELSE pnext[b] = Null
  BY DEF SpellsChain
<1>8. ASSUME NEW b \in Blocks, NEW c \in C \cup T, Prev[c] = b PROVE c # Genesis
  BY <1>8, NullIsNoBlock
<1>9. ASSUME NEW b \in C \ {New} PROVE Relinked[b] \in C /\ Prev[Relinked[b]] = b
  <2>1. PICK d \in C : d # Genesis /\ Prev[d] = b
    BY <1>0, SuccessorExists
  <2>2. b \in Blocks
    BY <1>1
  <2>3. CASE d \notin T
    <3>1. Linked(b)
      BY <2>1, <2>3
    <3> QED BY <1>6, <2>2, <3>1
  <2>4. CASE d \in T
    <3>1. ~Linked(b)
      BY <1>3, <2>1, <2>4
    <3>2. ~Cut(b)
      BY <1>2, <2>1, <2>4
    <3>3. b \in T \ {tip}
      BY <1>5, <2>1, <2>4
    <3>4. pnext[b] \in T /\ Prev[pnext[b]] = b
      BY <1>7, <2>2, <3>3
    <3>5. pnext[b] = d
      BY <1>2, <2>1, <2>4, <3>4
    <3> QED BY <1>6, <2>1, <2>2, <3>1, <3>2, <3>5
  <2> QED BY <2>3, <2>4
<1>10. ASSUME NEW b \in Blocks, b \notin C \ {New} PROVE Relinked[b] = Null
  <2>1. ASSUME NEW c \in C, Prev[c] = b PROVE FALSE
    BY <1>4, <1>8, <1>10, <2>1
  <2>2. ~Linked(b)
    BY <2>1
  <2>3. CASE Cut(b)
    BY <1>6, <2>2, <2>3
  <2>4. CASE ~Cut(b)
    <3>1. pnext[b] = Null
      <4>1. SUFFICES ASSUME b \in T \ {tip} PROVE FALSE
        BY <1>7
      <4>2. pnext[b] \in T /\ Prev[pnext[b]] = b
        BY <1>7, <4>1
      <4>3. pnext[b] \in C
        BY <2>4, <4>2
      <4> QED BY <2>1, <4>2, <4>3
    <3> QED BY <1>6, <2>2, <2>4, <3>1
  <2> QED BY <2>3, <2>4
<1>11. ChainOf(New) = C
  BY <1>0 DEF ChainOf
<1> HIDE DEF C
<1> QED BY <1>1, <1>9, <1>10, <1>11 DEF SpellsChain

\* LoadBlockIndexDB's loop over the best chain.
LEMMA LoadedNextSpells ==
  ASSUME NEW b \in Blocks \cup {Null}
  PROVE  SpellsChain(LoadedNext(b), b)
<1> DEFINE T == ChainOf(b)
<1>1. T \subseteq Blocks
  BY ChainEnds DEF ChainOf
<1>2. ASSUME NEW c \in Blocks
      PROVE  LoadedNext(b)[c] = IF \E d \in T : Prev[d] = c THEN CHOOSE d \in T : Prev[d] = c
                                ELSE Null
  BY DEF LoadedNext
<1>3. ASSUME NEW c \in Blocks, c \in T \ {b} PROVE \E d \in T : Prev[d] = c
  <2>1. b \in Blocks /\ T = Chain[b]
    BY <1>3 DEF ChainOf
  <2> QED BY <1>3, <2>1, SuccessorExists
<1>4. ASSUME NEW c \in Blocks, NEW d \in T, Prev[d] = c PROVE c \in T \ {b}
  <2>1. b \in Blocks /\ T = Chain[b]
    BY DEF ChainOf
  <2>2. d # Genesis
    BY <1>4, NullIsNoBlock
  <2> QED BY <1>4, <2>1, <2>2, ChainPrev, LastHasNoSuccessor
<1> HIDE DEF T
<1>5. ASSUME NEW c \in Blocks
      PROVE  IF c \in T \ {b} THEN LoadedNext(b)[c] \in T /\ Prev[LoadedNext(b)[c]] = c
             ELSE LoadedNext(b)[c] = Null
  <2>1. CASE c \in T \ {b}
    BY <1>2, <1>3, <2>1
  <2>2. CASE c \notin T \ {b}
    BY <1>2, <1>4, <2>2
  <2> QED BY <2>1, <2>2
<1> QED BY <1>5 DEF SpellsChain, T

LEMMA PnextFrame ==
  ASSUME PnextInv, UNCHANGED <<pnext, best, tip>>, InStep' => InStep
  PROVE  PnextInv'
BY DEF PnextInv, SpellsChain, ChainOf

LEMMA NextKeepsPnext == TypeInv /\ PnextInv /\ [Next]_vars => PnextInv'
<1> SUFFICES ASSUME TypeInv, PnextInv, [Next]_vars PROVE PnextInv'
  OBVIOUS
<1>1. CASE \E b \in Blocks : Deliver(b)
  <2>1. UNCHANGED <<pnext, best, tip>>
    BY <1>1 DEF Deliver, ReceiveOrphan, ReceiveBlock
  <2>2. InStep' => InStep
    BY <1>1 DEF Deliver, ReceiveOrphan, ReceiveBlock, StoreBlock, StoreFails, control, InStep,
                Running
  <2> QED BY <2>1, <2>2, PnextFrame
<1>2. CASE AddToBlockIndex \/ MarkFailedChild
  <2>1. UNCHANGED <<pnext, best, tip, aborted>> /\ Running
    BY <1>2 DEF AddToBlockIndex, MarkFailedChild, HasCandidate, Running
  <2> QED BY <2>1, PnextFrame DEF InStep
<1>3. CASE \E o \in Blocks : ProcessOrphan(o)
  <2>1. UNCHANGED <<pnext, best, tip>>
    BY <1>3 DEF ProcessOrphan
  <2>2. InStep' => InStep
    BY <1>3 DEF ProcessOrphan, StoreBlock, StoreFails, InStep, Running
  <2> QED BY <2>1, <2>2, PnextFrame
<1>4. CASE OrphansDone \/ NothingToDo \/ ChooseAttach \/ Disconnect \/ ConnectBlock \/ ConnectInvalid
  <2>1. UNCHANGED <<pnext, best, tip, aborted>> /\ Running
    BY <1>4 DEF OrphansDone, NothingToDo, ChooseAttach, HasCandidate, Disconnect, ConnectBlock,
                ConnectInvalid, memory, Running
  <2> QED BY <2>1, PnextFrame DEF InStep
<1>5. CASE DisconnectFails
  <2>1. UNCHANGED <<pnext, best, tip>> /\ Running /\ (aborted' = aborted \/ aborted' = "unreadable")
    BY <1>5 DEF DisconnectFails, memory, Running
  <2> QED BY <2>1, PnextFrame DEF InStep
<1>6. CASE ConnectUnreadable \/ ConnectNoSpace
  <2>1. UNCHANGED <<pnext, best, tip>> /\ Running /\ aborted' # "no"
    BY <1>6 DEF ConnectUnreadable, ConnectNoSpace, memory, Running
  <2> QED BY <2>1, PnextFrame DEF InStep
<1>7. CASE Commit
  <2>1. /\ pc = "connect" /\ tip' = New /\ best' = New /\ pnext' = Relinked /\ aborted' = aborted
    BY <1>7 DEF Commit
  <2>2. ASSUME InStep' PROVE SpellsChain(Relinked, New)
    <3>1. InStep
      BY <2>1, <2>2 DEF InStep, Running
    <3>2. SpellsChain(pnext, tip) /\ Connecting
      BY <2>1, <3>1 DEF PnextInv, Connecting
    <3> QED BY <3>2, RelinkedSpells
  <2>3. SpellsChain(pnext, best)' <=> SpellsChain(Relinked, New)
    BY <2>1 DEF SpellsChain, ChainOf
  <2> QED BY <2>1, <2>2, <2>3 DEF PnextInv
<1>8. CASE CommitNoSpace
  BY <1>8 DEF CommitNoSpace, PnextInv, InStep
<1>9. CASE Start
  <2> DEFINE b == LoadedBest(tree.index)
  <2>1. best' = b /\ tip' = b /\ pnext' = LoadedNext(b)
    BY <1>9 DEF Start
  <2>2. b \in Blocks \cup {Null}
    BY DEF LoadedBest, TypeInv, CoinsInv
  <2> HIDE DEF b
  <2>3. SpellsChain(LoadedNext(b), b)
    BY <2>2, LoadedNextSpells
  <2>4. SpellsChain(pnext, best)' <=> SpellsChain(LoadedNext(b), b)
    BY <2>1 DEF SpellsChain, ChainOf
  <2> QED BY <2>1, <2>3, <2>4 DEF PnextInv
<1>10. CASE Shutdown \/ Crash \/ PowerLoss
  <2>1. pc' = "down"
    BY <1>10 DEF Shutdown, Crash, PowerLoss
  <2> QED BY <2>1 DEF PnextInv, InStep, Running
<1>11. CASE UNCHANGED vars
  <2>1. UNCHANGED <<pnext, best, tip, pc, aborted>>
    BY <1>11 DEF vars, memory, control
  <2> QED BY <2>1, PnextFrame DEF InStep, Running
<1> QED
  BY <1>1, <1>2, <1>3, <1>4, <1>5, <1>6, <1>7, <1>8, <1>9, <1>10, <1>11 DEF Next, Work

LEMMA PnextAlways == Spec => []PnextInv
<1>1. Init => PnextInv
  <2> SUFFICES ASSUME Init PROVE PnextInv
    OBVIOUS
  <2>1. best = Genesis /\ tip = Genesis /\ pnext = [b \in Blocks |-> Null]
    BY DEF Init
  <2>2. ChainOf(Genesis) = {Genesis}
    BY NullIsNoBlock, ChainDef DEF ChainOf
  <2> QED BY <2>1, <2>2 DEF PnextInv, SpellsChain
<1> QED BY <1>1, TypesAlways, NextKeepsPnext, PTL DEF Spec

(***************************************************************************)
(* While the node runs and has not aborted, pcoinsTip stands at pindexBest *)
(* and pnext spells exactly the chain that ends there: after any           *)
(* reorganisation, failed or complete, and after any restart.              *)
(***************************************************************************)
THEOREM PnextSpellsMainChain == Spec => []PnextIsMainChain
<1>1. PnextInv => PnextIsMainChain
  BY DEF PnextInv, InStep, SpellsChain, PnextIsMainChain
<1> QED BY <1>1, PnextAlways, PTL

-----------------------------------------------------------------------------
(***************************************************************************)
(* What a stop leaves, and what a node that has stopped and started again  *)
(* achieves, for every block tree.                                         *)
(*                                                                         *)
(* The order of the writes is enough as long as the disk keeps what it was *)
(* given, even with a full disk and in the initial download; or, with      *)
(* power losses, as long as the node is past its initial download (which   *)
(* leaves the commits out) and the disk is not full (after which Shutdown  *)
(* writes coins whose block tree was never committed).  This is            *)
(* OrderlyDisk.  Without it the coin database can be left ahead of the     *)
(* block tree, an invalid block can be taken for a valid one, and only     *)
(* what is proved above holds; run chain_torn is such an instance.         *)
(*                                                                         *)
(* The inductive invariant, part by part:                                  *)
(*   FreshInv     no block is both an orphan and indexed;                  *)
(*   StoreInv     the block tree database is the index, what a stop leaves *)
(*                of it is older, and its blocks and undo records are      *)
(*                committed;                                               *)
(*   BackedInv    every best block the coin database can be left with, and *)
(*                the tip, can be disconnected down to genesis with what   *)
(*                any block tree that can be left knows;                   *)
(*   RestartInv   a node has no best block only until start-up has         *)
(*                connected the genesis block;                             *)
(*   FailInv      failure flags are deserved, in memory and on disk, and   *)
(*                the candidates are exactly the indexed blocks without;   *)
(*   SettledInv   between two calls of ConnectBestBlock no candidate has   *)
(*                more trust than pindexBest, but for those above a block  *)
(*                that has failed;                                         *)
(*   WaitingInv   an orphan whose parent is in is one ProcessBlock will    *)
(*                still come to.                                           *)
(***************************************************************************)

OrderlyDisk == ~CanLosePower \/ (~CanIBD /\ ~CanFillDisk)

FreshInv ==
  /\ orphans \cap Known = {}
  /\ pc = "index" => cur \notin Known \cup orphans

\* Index j knows all that index i knows.
Extends(i, j) ==
  \A b \in DOMAIN i : b \in DOMAIN j /\ ("HAVE_UNDO" \in i[b] => "HAVE_UNDO" \in j[b])

Stored(t) ==
  /\ Genesis \in DOMAIN t.index /\ Extends(t.index, tree.index)
  /\ DOMAIN t.index \subseteq dataSync
  /\ \A b \in DOMAIN t.index : "HAVE_UNDO" \in t.index[b] => b \in undoSync

StoreInv ==
  /\ Running => tree.index = index
  /\ ~CanLosePower => treeOld = {tree}
  /\ \A t \in treeOld : Stored(t)
  /\ pc = "index" => cur \in dataSync

\* With index i the chain of c can be disconnected.
Undoes(i, c) == \A b \in ChainOf(c) \ {Genesis} : b \in DOMAIN i /\ "HAVE_UNDO" \in i[b]

BackedInv ==
  /\ stale = {}
  /\ \A t \in treeOld, c \in coinsOld : Undoes(t.index, c)
  /\ Running => Undoes(index, tip)
  /\ Running /\ CanLosePower => tip \in coinsOld \cup {Null, Genesis}
  /\ pc = "connect" => \A b \in (Branch \ conn) \ {Genesis} : "HAVE_UNDO" \in index[b]

RestartInv ==
  CanLosePower =>
    /\ pc \in {"idle", "orphans", "index"} => best # Null
    /\ best = Null /\ Connecting => Genesis \in attach

Deserved(i) ==
  \A b \in DOMAIN i :
    /\ "FAILED_VALID" \in i[b] => b \in Invalid
    /\ "FAILED_CHILD" \in i[b] => (Chain[b] \ {b}) \cap Invalid # {}

FailInv ==
  /\ Deserved(index) /\ \A t \in treeOld : Deserved(t.index)
  /\ Running => validSet = {b \in Known : ~Failed(b)}

\* What ChainStateProofs has shown.
BaseInv == TypeInv /\ SoundInv /\ PnextInv

RecoveryInv == FreshInv /\ StoreInv /\ BackedInv /\ RestartInv /\ FailInv /\ NeverCorrupt

-----------------------------------------------------------------------------
(***************************************************************************)
(* No block is both an orphan and indexed.                                 *)
(***************************************************************************)
LEMMA FreshFrame ==
  ASSUME FreshInv, orphans' \subseteq orphans, Known' = Known, pc' # "index"
  PROVE  FreshInv'
BY DEF FreshInv

LEMMA NextKeepsFresh == TypeInv /\ FreshInv /\ [Next]_vars => FreshInv'
<1> SUFFICES ASSUME TypeInv, FreshInv, [Next]_vars PROVE FreshInv'
  OBVIOUS
<1>1. ASSUME NEW b \in Blocks, Deliver(b) PROVE FreshInv'
  <2>1. Known' = Known
    BY <1>1 DEF Deliver, ReceiveOrphan, ReceiveBlock, Known
  <2> QED BY <1>1, <2>1 DEF Deliver, ReceiveOrphan, ReceiveBlock, control, FreshInv
<1>2. CASE AddToBlockIndex
  <2>1. Known' = Known \cup {cur} /\ pc = "index" /\ pc' = "best" /\ orphans' = orphans
    BY <1>2 DEF AddToBlockIndex, WithEntry, Known
  <2> QED BY <2>1 DEF FreshInv
<1>3. ASSUME NEW o \in Blocks, ProcessOrphan(o) PROVE FreshInv'
  <2>1. Known' = Known /\ orphans' = orphans \ {o} /\ o \in orphans /\ pc = "orphans"
    BY <1>3 DEF ProcessOrphan, Known
  <2>2. pc' = pc \/ (pc' = "index" /\ cur' = o)
    BY <1>3 DEF ProcessOrphan
  <2> QED BY <2>1, <2>2 DEF FreshInv
<1>4. CASE OrphansDone \/ NothingToDo \/ ChooseAttach \/ Disconnect \/ DisconnectFails
           \/ ConnectUnreadable \/ ConnectNoSpace \/ CommitNoSpace \/ Commit
  <2>1. UNCHANGED <<orphans, index>>
    BY <1>4 DEF OrphansDone, NothingToDo, ChooseAttach, Disconnect, DisconnectFails,
       ConnectUnreadable, ConnectNoSpace, CommitNoSpace, Commit, memory
  <2>2. pc' # "index"
    BY <1>4 DEF OrphansDone, NothingToDo, ChooseAttach, Disconnect, DisconnectFails,
       ConnectUnreadable, ConnectNoSpace, CommitNoSpace, Commit, Returned
  <2> QED BY <2>1, <2>2, FreshFrame DEF Known
<1>5. CASE MarkFailedChild
  <2>1. DOMAIN index' = Known /\ orphans' = orphans /\ pc' # "index"
    BY <1>5 DEF MarkFailedChild, HasCandidate
  <2> QED BY <2>1, FreshFrame DEF Known
<1>6. CASE ConnectBlock
  <2>1. orphans' = orphans /\ pc' = "connect"
    BY <1>6 DEF ConnectBlock
  <2>2. DOMAIN index' = DOMAIN index
    BY <1>6 DEF ConnectBlock, WriteUndo
  <2> QED BY <2>1, <2>2, FreshFrame DEF Known
<1>7. CASE ConnectInvalid
  <2>1. orphans' = orphans /\ pc' # "index"
    BY <1>7 DEF ConnectInvalid, Returned
  <2>2. DOMAIN index' = DOMAIN index
    BY <1>7 DEF ConnectInvalid, InvalidBlockFound
  <2> QED BY <2>1, <2>2, FreshFrame DEF Known
<1>8. CASE Start
  BY <1>8 DEF Start, FreshInv
<1>9. CASE Shutdown \/ Crash \/ PowerLoss
  <2>1. UNCHANGED <<orphans, index>> /\ pc' = "down"
    BY <1>9 DEF Shutdown, Crash, PowerLoss, memory
  <2> QED BY <2>1, FreshFrame DEF Known
<1>10. CASE UNCHANGED vars
  BY <1>10 DEF vars, memory, control, FreshInv, Known
<1> QED
  BY <1>1, <1>2, <1>3, <1>4, <1>5, <1>6, <1>7, <1>8, <1>9, <1>10 DEF Next, Work

-----------------------------------------------------------------------------
(***************************************************************************)
(* Facts about single steps.                                               *)
(***************************************************************************)
LEMMA ExtendsIsOrder ==
  /\ \A i : Extends(i, i)
  /\ \A i, j, k : Extends(i, j) /\ Extends(j, k) => Extends(i, k)
BY DEF Extends

LEMMA ExtendsUndoes ==
  ASSUME NEW i, NEW j, NEW c, Extends(i, j), Undoes(i, c)
  PROVE  Undoes(j, c)
BY DEF Extends, Undoes

\* The index of a running node is stored.
LEMMA IndexStored ==
  ASSUME TypeInv, StoreInv, Running
  PROVE  /\ tree.index = index /\ tree \in treeOld /\ Genesis \in Known /\ Known \subseteq dataSync
         /\ Known \subseteq data
         /\ \A b \in Known : "HAVE_UNDO" \in index[b] => b \in undoSync /\ b \in undo
BY DEF TypeInv, IndexInv, FilesInv, StoreInv, Stored, Known

\* Past its initial download a node with a best block commits what it writes.
LEMMA NoDownload ==
  ASSUME OrderlyDisk, CanLosePower, best # Null
  PROVE  IBD = {FALSE}
BY DEF OrderlyDisk, IBD

\* Start-up without a best block connects the genesis block first.
LEMMA GenesisFirst ==
  ASSUME OrderlyDisk, BaseInv, RestartInv, CanLosePower, best = Null, Connecting
  PROVE  /\ New = Genesis /\ tip = Null /\ Branch = {Genesis} /\ Disconnected = {}
         /\ pc = "connect" => conn \subseteq {Genesis}
<1>1. Genesis \in attach /\ attach \subseteq Blocks
  BY TipIsBlock DEF RestartInv, BaseInv, TypeInv, KnownInv
<1>2. New \in attach /\ Height[New] <= Height[Genesis]
  BY <1>1, LowestOf DEF New
<1>3. Height[Genesis] = 0 /\ Height[New] \in Nat /\ New \in Blocks
  BY <1>1, <1>2, HeightDef, NullIsNoBlock
<1>4. New = Genesis
  <2> SUFFICES ASSUME New # Genesis PROVE FALSE
    OBVIOUS
  <2>1. Prev[New] \in Blocks /\ Height[New] = Height[Prev[New]] + 1
    BY <1>3, HeightDef, PrevIsBlock
  <2>2. Height[Prev[New]] \in Nat
    BY <2>1, HeightDef
  <2> QED BY <1>2, <1>3, <2>1, <2>2
<1>5. InStep
  BY DEF OrderlyDisk, InStep, Running, Connecting
<1>6. tip = Null
  BY <1>5 DEF BaseInv, PnextInv
<1>7. Chain[Genesis] = {Genesis}
  BY ChainDef, NullIsNoBlock
<1>8. Branch = {Genesis} /\ Disconnected = {}
  BY <1>4, <1>6, <1>7 DEF Branch, Disconnected, ChainOf
<1> QED BY <1>4, <1>6, <1>8 DEF BaseInv, SoundInv

\* FindBlockPos and WriteToDisk commit the block, unless nothing is ever lost.
LEMMA StoreBlockCommits ==
  ASSUME OrderlyDisk, TypeInv, NEW b \in Blocks, StoreBlock(b), CanLosePower => best # Null
  PROVE  /\ b \in dataSync' /\ dataSync \subseteq dataSync' /\ undoSync \subseteq undoSync'
         /\ \E n : WriteTree(index, n)
         /\ aborted' = aborted
<1>1. PICK roll \in BOOLEAN, ibd \in IBD :
        LET saved == (data \cap Finalized(roll)) \cup (IF ibd THEN {} ELSE {b})
        IN  /\ FindBlockPos(roll)
            /\ fileOf' = [fileOf EXCEPT ![b] = lastFile']
            /\ data' = data \cup {b}
            /\ dataSync' = Committed(dataSync \cup saved, data')
            /\ undoSync' = Committed(undoSync \cup (undo \cap Finalized(roll)), undo)
            /\ WriteTree(index, IF roll THEN lastFile' ELSE tree.lastFile)
            /\ UNCHANGED <<undo, aborted>>
  BY DEF StoreBlock
<1>2. dataSync \subseteq data /\ undoSync \subseteq undo
  BY DEF TypeInv, FilesInv
<1>3. ASSUME CanLosePower PROVE ~ibd
  <2>1. IBD = {FALSE}
    BY <1>3, NoDownload
  <2> QED BY <2>1
<1>4. b \in dataSync' /\ dataSync \subseteq dataSync' /\ undoSync \subseteq undoSync'
  BY <1>1, <1>2, <1>3 DEF Committed
<1> QED BY <1>1, <1>4

LEMMA StoreFailsKeeps ==
  ASSUME TypeInv, StoreFails
  PROVE  /\ dataSync \subseteq dataSync' /\ undoSync \subseteq undoSync'
         /\ UNCHANGED <<tree, treeOld>> /\ aborted' = "no space"
BY DEF StoreFails, Committed, TypeInv, FilesInv

\* The flag of one entry is set.
LEMMA FlagExtends ==
  ASSUME NEW i, NEW b, NEW f, b \in DOMAIN i
  PROVE  LET j == [i EXCEPT ![b] = @ \cup {f}]
         IN  /\ Extends(i, j) /\ DOMAIN j = DOMAIN i
             /\ j[b] = i[b] \cup {f} /\ \A c \in DOMAIN i \ {b} : j[c] = i[c]
BY DEF Extends

\* A candidate below a failed block and all in between are marked.
LEMMA MarkFailedChildMeans ==
  ASSUME BaseInv, MarkFailedChild
  PROVE  \E high \in Chain[Top] :
           /\ Top \in Blocks /\ Chain[Top] \subseteq Known /\ Failed(high)
           /\ DOMAIN index' = Known
           /\ \A c \in Known : index'[c] = IF c \in DescendantsOn(Top, high)
                                           THEN index[c] \cup {"FAILED_CHILD"} ELSE index[c]
           /\ validSet' = validSet \ DescendantsOn(Top, high)
<1>0. validSet # {} /\ FailedOn(Top) # {}
  BY DEF MarkFailedChild, HasCandidate
<1>1. Top \in Blocks /\ Chain[Top] \subseteq Known
  BY <1>0, AttachIsKnown DEF BaseInv, TypeInv
<1> DEFINE high == CHOOSE c \in FailedOn(Top) : \A d \in FailedOn(Top) : Height[d] <= Height[c]
<1>2. FailedOn(Top) \subseteq Chain[Top]
  BY DEF FailedOn, Walked
<1>3. \E c \in FailedOn(Top) : \A d \in FailedOn(Top) : Height[d] <= Height[c]
  BY <1>0, <1>1, <1>2, HighestOf
<1>4. high \in FailedOn(Top)
  BY <1>3
<1>5. /\ index' = [c \in Known |-> IF c \in DescendantsOn(Top, high)
                                   THEN index[c] \cup {"FAILED_CHILD"} ELSE index[c]]
      /\ validSet' = validSet \ DescendantsOn(Top, high)
  BY DEF MarkFailedChild
<1> HIDE DEF high
<1>6. high \in Chain[Top] /\ Failed(high)
  BY <1>2, <1>4 DEF FailedOn
<1> QED BY <1>1, <1>5, <1>6

\* The block ConnectBlock looks at is indexed and on the branch.
LEMMA NextToConnect ==
  ASSUME BaseInv, pc = "connect", conn # {}
  PROVE  /\ Lowest(conn) \in conn /\ Lowest(conn) \in Known /\ Lowest(conn) \in Chain[New]
         /\ Lowest(conn) \in Branch /\ Chain[New] \subseteq Known /\ New \in Blocks
<1>1. New \in Known /\ New \in Blocks
  BY NewIsKnown DEF BaseInv, TypeInv, Connecting
<1>2. Chain[New] \subseteq Known
  BY <1>1, KnownIsAcceptable DEF BaseInv
<1>3. conn \subseteq Branch /\ conn \subseteq Blocks
  BY DEF BaseInv, SoundInv, TypeInv, ControlInv
<1>4. Lowest(conn) \in conn
  BY <1>3, LowestOf
<1> QED BY <1>1, <1>2, <1>3, <1>4 DEF Branch

\* What ConnectBlock's undo record changes.
LEMMA WriteUndoMeans ==
  ASSUME OrderlyDisk, BaseInv, RestartInv, pc = "connect", conn # {}, Lowest(conn) # Genesis,
         WriteUndo(Lowest(conn))
  PROVE  /\ undoSync \cup {Lowest(conn)} \subseteq undoSync'
         /\ index' = [index EXCEPT ![Lowest(conn)] = @ \cup {"HAVE_UNDO"}]
         /\ WriteTree(index', tree.lastFile)
<1> DEFINE b == Lowest(conn)
<1>1. undo' = undo \cup {b}
  BY DEF WriteUndo
<1>2. PICK ibd \in IBD : undoSync' = Committed(IF ibd THEN undoSync ELSE undoSync \cup {b}, undo')
  BY DEF WriteUndo
<1>3. undoSync \subseteq undo
  BY DEF BaseInv, TypeInv, FilesInv
<1>4. ASSUME CanLosePower PROVE ~ibd
  <2>1. best # Null
    <3>1. Lowest(conn) \in conn
      BY NextToConnect
    <3> QED BY <1>4, <3>1, GenesisFirst DEF Connecting
  <2>2. IBD = {FALSE}
    BY <1>4, <2>1, NoDownload
  <2> QED BY <2>2
<1>5. undoSync \cup {b} \subseteq undoSync'
  BY <1>1, <1>2, <1>3, <1>4 DEF Committed
<1> QED BY <1>5 DEF WriteUndo, WriteIndex

-----------------------------------------------------------------------------
(***************************************************************************)
(* The block tree database.                                                *)
(***************************************************************************)
LEMMA StoreFrame ==
  ASSUME StoreInv, UNCHANGED <<index, tree, treeOld>>, Running' => Running,
         dataSync \subseteq dataSync', undoSync \subseteq undoSync', pc' # "index"
  PROVE  StoreInv'
<1>1. \A t \in treeOld' : Stored(t)'
  BY DEF StoreInv, Stored
<1> QED BY <1>1 DEF StoreInv

LEMMA StoreWrite ==
  ASSUME TypeInv, StoreInv, Running, NEW n, WriteTree(index', n), Extends(index, index'),
         dataSync \subseteq dataSync', undoSync \subseteq undoSync', DOMAIN index' \subseteq dataSync',
         \A b \in DOMAIN index' : "HAVE_UNDO" \in index'[b] => b \in undoSync',
         pc' = "index" => cur' \in dataSync'
  PROVE  StoreInv'
<1>1. tree'.index = index' /\ treeOld' = Survivors(treeOld, tree')
  BY TreeOfFields DEF WriteTree
<1>2. tree.index = index /\ Genesis \in DOMAIN index
  BY IndexStored DEF Known
<1>3. Stored(tree)'
  <2>1. Genesis \in DOMAIN index'
    BY <1>2 DEF Extends
  <2>2. Extends(tree'.index, tree'.index)
    BY ExtendsIsOrder
  <2> QED BY <1>1, <2>1, <2>2 DEF Stored
<1>4. ASSUME NEW t \in treeOld PROVE Stored(t)'
  <2>1. Stored(t)
    BY DEF StoreInv
  <2>2. Extends(t.index, tree'.index)
    BY <1>1, <1>2, <2>1, ExtendsIsOrder DEF Stored
  <2> QED BY <2>1, <2>2 DEF Stored
<1>5. ASSUME NEW t \in treeOld' PROVE Stored(t)'
  <2>1. CASE t = tree'
    BY <1>3, <2>1 DEF Stored
  <2>2. CASE t # tree'
    BY <1>1, <1>4, <2>2 DEF Survivors
  <2> QED BY <2>1, <2>2
<1> QED BY <1>1, <1>5 DEF StoreInv, Survivors

LEMMA NextKeepsStore ==
  ASSUME OrderlyDisk, BaseInv, FreshInv, StoreInv, RestartInv, [Next]_vars
  PROVE  StoreInv'
<1>0. TypeInv
  BY DEF BaseInv
<1>1. ASSUME NEW b \in Blocks, Deliver(b) PROVE StoreInv'
  <2>1. CASE ReceiveOrphan(b)
    <3>1. UNCHANGED <<index, tree, treeOld, dataSync, undoSync, pc>> /\ pc = "idle"
      BY <2>1 DEF ReceiveOrphan, files, dbs, control
    <3> QED BY <3>1, StoreFrame DEF Running
  <2>2. CASE ReceiveBlock(b)
    <3>1. index' = index /\ pc = "idle" /\ Running
      BY <2>2 DEF ReceiveBlock, Running
    <3>2. CASE StoreBlock(b) /\ pc' = "index" /\ cur' = b
      <4>1. CanLosePower => best # Null
        BY <3>1 DEF RestartInv
      <4>2. /\ b \in dataSync' /\ dataSync \subseteq dataSync' /\ undoSync \subseteq undoSync'
            /\ \E n : WriteTree(index', n)
        BY <1>0, <3>1, <3>2, <4>1, StoreBlockCommits
      <4>3. DOMAIN index' \subseteq dataSync'
        BY <1>0, <3>1, <4>2, IndexStored DEF Known
      <4>4. \A c \in DOMAIN index' : "HAVE_UNDO" \in index'[c] => c \in undoSync'
        BY <1>0, <3>1, <4>2, IndexStored DEF Known
      <4> QED BY <1>0, <3>1, <3>2, <4>2, <4>3, <4>4, StoreWrite, ExtendsIsOrder
    <3>3. CASE StoreFails /\ pc' = pc
      <4>1. /\ dataSync \subseteq dataSync' /\ undoSync \subseteq undoSync'
            /\ UNCHANGED <<tree, treeOld>>
        BY <1>0, <3>3, StoreFailsKeeps
      <4> QED BY <3>1, <3>3, <4>1, StoreFrame
    <3> QED BY <2>2, <3>2, <3>3 DEF ReceiveBlock
  <2> QED BY <1>1, <2>1, <2>2 DEF Deliver
<1>2. CASE AddToBlockIndex
  <2>1. /\ UNCHANGED <<dataSync, undoSync>> /\ index' = WithEntry(index, cur)
        /\ pc = "index" /\ pc' = "best" /\ WriteTree(index', tree.lastFile)
    BY <1>2 DEF AddToBlockIndex, files, WriteIndex
  <2>2. cur \notin DOMAIN index /\ cur \in dataSync /\ Running
    BY <2>1 DEF FreshInv, Known, StoreInv, Running
  <2>3. /\ Extends(index, index') /\ DOMAIN index' = DOMAIN index \cup {cur}
        /\ index'[cur] = {} /\ \A c \in DOMAIN index : index'[c] = index[c]
    BY <2>1, <2>2 DEF Extends, WithEntry
  <2>4. DOMAIN index' \subseteq dataSync'
    BY <1>0, <2>1, <2>2, <2>3, IndexStored DEF Known
  <2>5. \A b \in DOMAIN index' : "HAVE_UNDO" \in index'[b] => b \in undoSync'
    BY <1>0, <2>1, <2>2, <2>3, IndexStored DEF Known
  <2> QED BY <1>0, <2>1, <2>2, <2>3, <2>4, <2>5, StoreWrite
<1>3. ASSUME NEW o \in Blocks, ProcessOrphan(o) PROVE StoreInv'
  <2>1. index' = index /\ pc = "orphans" /\ Running
    BY <1>3 DEF ProcessOrphan, Running
  <2>2. CASE StoreBlock(o) /\ pc' = "index" /\ cur' = o
    <3>1. CanLosePower => best # Null
      BY <2>1 DEF RestartInv
    <3>2. /\ o \in dataSync' /\ dataSync \subseteq dataSync' /\ undoSync \subseteq undoSync'
          /\ \E n : WriteTree(index', n)
      BY <1>0, <2>1, <2>2, <3>1, StoreBlockCommits
    <3>3. DOMAIN index' \subseteq dataSync'
      BY <1>0, <2>1, <3>2, IndexStored DEF Known
    <3>4. \A c \in DOMAIN index' : "HAVE_UNDO" \in index'[c] => c \in undoSync'
      BY <1>0, <2>1, <3>2, IndexStored DEF Known
    <3> QED BY <1>0, <2>1, <2>2, <3>2, <3>3, <3>4, StoreWrite, ExtendsIsOrder
  <2>3. CASE StoreFails /\ pc' = pc
    <3>1. /\ dataSync \subseteq dataSync' /\ undoSync \subseteq undoSync'
          /\ UNCHANGED <<tree, treeOld>>
      BY <1>0, <2>3, StoreFailsKeeps
    <3> QED BY <2>1, <2>3, <3>1, StoreFrame
  <2>4. CASE UNCHANGED <<files, tree, treeOld, pc>>
    <3>1. UNCHANGED <<dataSync, undoSync>>
      BY <2>4 DEF files
    <3> QED BY <2>1, <2>4, <3>1, StoreFrame
  <2> QED BY <1>3, <2>2, <2>3, <2>4 DEF ProcessOrphan
<1>4. CASE OrphansDone \/ NothingToDo \/ ChooseAttach \/ Disconnect \/ DisconnectFails
           \/ ConnectUnreadable \/ ConnectNoSpace \/ CommitNoSpace
  <2>1. UNCHANGED <<index, tree, treeOld, dataSync, undoSync>> /\ Running
    BY <1>4 DEF OrphansDone, NothingToDo, ChooseAttach, HasCandidate, Disconnect, DisconnectFails,
       ConnectUnreadable, ConnectNoSpace, CommitNoSpace, memory, files, dbs, Running
  <2>2. pc' # "index"
    BY <1>4 DEF OrphansDone, NothingToDo, ChooseAttach, Disconnect, DisconnectFails,
       ConnectUnreadable, ConnectNoSpace, CommitNoSpace, Returned
  <2> QED BY <2>1, <2>2, StoreFrame
<1>5. CASE MarkFailedChild
  <2>1. PICK high : 
           /\ DOMAIN index' = Known
           /\ \A c \in Known : index'[c] = IF c \in DescendantsOn(Top, high)
                                           THEN index[c] \cup {"FAILED_CHILD"} ELSE index[c]
    BY <1>5, MarkFailedChildMeans
  <2>2. UNCHANGED <<dataSync, undoSync>> /\ Running /\ pc' # "index" /\ WriteTree(index', tree.lastFile)
    BY <1>5 DEF MarkFailedChild, HasCandidate, files, Running, WriteIndex
  <2>3. Extends(index, index')
    BY <2>1 DEF Extends, Known
  <2>4. DOMAIN index' \subseteq dataSync'
    BY <1>0, <2>1, <2>2, IndexStored
  <2>5. \A b \in DOMAIN index' : "HAVE_UNDO" \in index'[b] => b \in undoSync'
    BY <1>0, <2>1, <2>2, IndexStored
  <2> QED BY <1>0, <2>2, <2>3, <2>4, <2>5, StoreWrite
<1>6. CASE ConnectBlock
  <2> DEFINE b == Lowest(conn)
  <2>1. /\ UNCHANGED <<dataSync, pc>> /\ pc = "connect" /\ Running /\ conn # {}
        /\ \/ UNCHANGED <<index, undoSync, tree, treeOld>>
           \/ b # Genesis /\ WriteUndo(b)
    BY <1>6 DEF ConnectBlock, Running
  <2>2. CASE UNCHANGED <<index, undoSync, tree, treeOld>>
    BY <2>1, <2>2, StoreFrame
  <2>3. CASE b # Genesis /\ WriteUndo(b)
    <3>1. /\ undoSync \cup {b} \subseteq undoSync'
          /\ index' = [index EXCEPT ![b] = @ \cup {"HAVE_UNDO"}]
          /\ WriteTree(index', tree.lastFile)
      BY <2>1, <2>3, WriteUndoMeans
    <3>2. b \in DOMAIN index
      BY <2>1, NextToConnect DEF Known
    <3> HIDE DEF b
    <3>3. /\ Extends(index, index') /\ DOMAIN index' = DOMAIN index
          /\ \A c \in DOMAIN index \ {b} : index'[c] = index[c]
      BY <3>1, <3>2, FlagExtends
    <3>4. DOMAIN index' \subseteq dataSync'
      BY <1>0, <2>1, <3>3, IndexStored DEF Known
    <3>5. \A c \in DOMAIN index' : "HAVE_UNDO" \in index'[c] => c \in undoSync'
      BY <1>0, <2>1, <3>1, <3>3, IndexStored DEF Known
    <3> QED BY <1>0, <2>1, <3>1, <3>3, <3>4, <3>5, StoreWrite
  <2> QED BY <2>1, <2>2, <2>3
<1>7. CASE ConnectInvalid
  <2> DEFINE b == Lowest(conn)
  <2>1. /\ UNCHANGED files /\ pc = "connect" /\ conn # {} /\ Returned(FALSE, tip)
        /\ index' = [index EXCEPT ![b] = @ \cup {"FAILED_VALID"}]
        /\ WriteTree(index', tree.lastFile)
    BY <1>7 DEF ConnectInvalid, InvalidBlockFound, WriteIndex
  <2>2. b \in DOMAIN index
    BY <2>1, NextToConnect DEF Known
  <2> HIDE DEF b
  <2>3. UNCHANGED <<dataSync, undoSync>> /\ Running /\ pc' # "index"
    BY <2>1 DEF files, Running, Returned
  <2>4. /\ Extends(index, index') /\ DOMAIN index' = DOMAIN index
        /\ index'[b] = index[b] \cup {"FAILED_VALID"}
        /\ \A c \in DOMAIN index \ {b} : index'[c] = index[c]
    BY <2>1, <2>2, FlagExtends
  <2>5. DOMAIN index' \subseteq dataSync'
    BY <1>0, <2>3, <2>4, IndexStored DEF Known
  <2>6. \A c \in DOMAIN index' : "HAVE_UNDO" \in index'[c] => c \in undoSync'
    BY <1>0, <2>3, <2>4, IndexStored DEF Known
  <2> QED BY <1>0, <2>1, <2>3, <2>4, <2>5, <2>6, StoreWrite
<1>8. CASE Commit
  <2>1. /\ UNCHANGED <<index, tree>> /\ Running /\ pc' # "index"
        /\ FlushCoins \/ UNCHANGED <<dataSync, undoSync, treeOld, coins, coinsOld>>
    BY <1>8 DEF Commit, Running
  <2>2. CASE FlushCoins
    <3>1. /\ dataSync \subseteq dataSync' /\ undoSync \subseteq undoSync' /\ treeOld' = {tree}
      BY <2>2 DEF FlushCoins
    <3>2. Stored(tree)
      BY <1>0, <2>1, IndexStored DEF StoreInv
    <3>3. Stored(tree)'
      BY <2>1, <3>1, <3>2 DEF Stored
    <3> QED BY <2>1, <3>1, <3>3 DEF StoreInv
  <2>3. CASE UNCHANGED <<dataSync, undoSync, treeOld, coins, coinsOld>>
    BY <2>1, <2>3, StoreFrame
  <2> QED BY <2>1, <2>2, <2>3
<1>9. CASE Start
  <2> DEFINE i == tree.index
  <2>1. /\ index' = i /\ UNCHANGED <<tree, treeOld>> /\ pc' # "index"
        /\ dataSync' = dataSync \cap DOMAIN i
        /\ undo' = {c \in undo \cap DOMAIN i : "HAVE_UNDO" \in i[c]}
        /\ undoSync' = undoSync \cap undo'
    BY <1>9 DEF Start
  <2>2. undoSync \subseteq undo
    BY <1>0 DEF TypeInv, FilesInv
  <2>3. ASSUME NEW t \in treeOld PROVE Stored(t)'
    <3>1. Stored(t)
      BY DEF StoreInv
    <3> QED BY <2>1, <2>2, <3>1 DEF Stored, Extends
  <2> QED BY <2>1, <2>3 DEF StoreInv
<1>10. CASE Shutdown \/ Crash
  <2>1. UNCHANGED <<index, tree, treeOld, dataSync, undoSync>> /\ pc' = "down"
    BY <1>10 DEF Shutdown, Crash, memory, files, dbs
  <2>2. ~Running'
    BY <2>1 DEF Running
  <2> QED BY <2>1, <2>2, StoreFrame
<1>11. CASE PowerLoss
  <2>1. /\ tree' \in treeOld /\ treeOld' = {tree'} /\ pc' = "down"
        /\ dataSync \subseteq dataSync' /\ undoSync \subseteq undoSync' /\ CanLosePower
    BY <1>11 DEF PowerLoss
  <2>2. Stored(tree')
    BY <2>1 DEF StoreInv
  <2>3. Extends(tree'.index, tree'.index)
    BY ExtendsIsOrder
  <2>4. ASSUME NEW t \in treeOld' PROVE Stored(t)'
    BY <2>1, <2>2, <2>3 DEF Stored
  <2> QED BY <2>1, <2>4 DEF StoreInv, Running
<1>12. CASE UNCHANGED vars
  <2>1. UNCHANGED <<index, tree, treeOld, dataSync, undoSync, pc, cur>>
    BY <1>12 DEF vars, memory, files, dbs, control
  <2>2. \A t \in treeOld' : Stored(t)'
    BY <2>1 DEF StoreInv, Stored
  <2> QED BY <2>1, <2>2 DEF StoreInv, Running
<1> QED
  BY <1>1, <1>2, <1>3, <1>4, <1>5, <1>6, <1>7, <1>8, <1>9, <1>10, <1>11, <1>12 DEF Next, Work

-----------------------------------------------------------------------------
(***************************************************************************)
(* The coin database.                                                      *)
(***************************************************************************)
\* Whatever is left of the block tree, the tip can be disconnected with it.
LEMMA TipIsBacked ==
  ASSUME TypeInv, StoreInv, BackedInv, Running, NEW t \in treeOld
  PROVE  Undoes(t.index, tip)
<1>1. CASE CanLosePower
  <2>1. CASE tip \in coinsOld
    BY <2>1 DEF BackedInv
  <2>2. CASE tip \in {Null, Genesis}
    <3>1. ChainOf(tip) \subseteq {Genesis}
      BY <2>2, ChainDef, NullIsNoBlock DEF ChainOf
    <3> QED BY <3>1 DEF Undoes
  <2> QED BY <1>1, <2>1, <2>2 DEF BackedInv
<1>2. CASE ~CanLosePower
  <2>1. t.index = index
    BY <1>2 DEF StoreInv
  <2> QED BY <2>1 DEF BackedInv
<1> QED BY <1>1, <1>2

\* When its branch is connected, so can the new tip, with the index.
LEMMA NewIsUndone ==
  ASSUME BaseInv, BackedInv, pc = "connect", conn = {}
  PROVE  Undoes(index, New)
<1>1. New \in Known /\ New \in Blocks /\ New # Null
  BY NewIsKnown, NullIsNoBlock DEF BaseInv, TypeInv, Connecting
<1>2. Chain[New] \subseteq Known
  BY <1>1, KnownIsAcceptable DEF BaseInv
<1>3. ASSUME NEW b \in Chain[New] \ {Genesis} PROVE "HAVE_UNDO" \in index[b]
  <2>1. CASE b \in ChainOf(tip)
    BY <2>1 DEF BackedInv, Running, Undoes
  <2>2. CASE b \notin ChainOf(tip)
    BY <2>2 DEF BackedInv, Branch
  <2> QED BY <2>1, <2>2
<1> QED BY <1>1, <1>2, <1>3 DEF Undoes, ChainOf, Known

LEMMA BackedFrame ==
  ASSUME TypeInv, StoreInv, BackedInv, UNCHANGED <<stale, index, tip, treeOld>>,
         Running' => Running,
         \/ UNCHANGED coinsOld
         \/ Running /\ coinsOld' = Survivors(coinsOld, tip),
         pc' = "connect" => pc = "connect" /\ UNCHANGED <<attach, conn>>
  PROVE  BackedInv'
<1>1. ASSUME NEW t \in treeOld, NEW c \in coinsOld' PROVE Undoes(t.index, c)
  <2>1. CASE c \in coinsOld
    BY <2>1 DEF BackedInv
  <2>2. CASE c \notin coinsOld
    <3>1. Running /\ c = tip
      BY <2>2 DEF Survivors
    <3> QED BY <3>1, TipIsBacked
  <2> QED BY <2>1, <2>2
<1>2. CanLosePower => coinsOld \subseteq coinsOld'
  BY DEF Survivors
<1>3. pc' = "connect" => Branch' = Branch
  BY DEF Branch, New, ChainOf
<1> QED BY <1>1, <1>2, <1>3 DEF BackedInv, Undoes

\* The index is written, with more in it.
LEMMA BackedWrite ==
  ASSUME TypeInv, StoreInv, BackedInv, Running, UNCHANGED <<stale, tip>>,
         Extends(index, index'), NEW n, WriteTree(index', n),
         \/ UNCHANGED coinsOld
         \/ coinsOld' = Survivors(coinsOld, tip),
         pc' = "connect" => \A b \in (Branch' \ conn') \ {Genesis} : "HAVE_UNDO" \in index'[b]
  PROVE  BackedInv'
<1>1. tree'.index = index' /\ treeOld' = Survivors(treeOld, tree')
  BY TreeOfFields DEF WriteTree
<1>2. tree.index = index /\ tree \in treeOld
  BY IndexStored
<1>3. ASSUME NEW t \in treeOld, NEW c \in coinsOld' PROVE Undoes(t.index, c)
  <2>1. CASE c \in coinsOld
    BY <2>1 DEF BackedInv
  <2>2. CASE c \notin coinsOld
    BY <2>2, TipIsBacked DEF Survivors
  <2> QED BY <2>1, <2>2
<1>4. ASSUME NEW t \in treeOld', NEW c \in coinsOld' PROVE Undoes(t.index, c)
  <2>1. CASE t \in treeOld
    BY <1>3, <2>1
  <2>2. CASE t \notin treeOld
    <3>1. t.index = index'
      BY <1>1, <2>2 DEF Survivors
    <3>2. Undoes(index, c)
      BY <1>2, <1>3
    <3> QED BY <3>1, <3>2, ExtendsUndoes
  <2> QED BY <2>1, <2>2
<1>5. CanLosePower => coinsOld \subseteq coinsOld'
  BY DEF Survivors
<1>6. Undoes(index', tip)
  BY ExtendsUndoes DEF BackedInv
<1> QED BY <1>4, <1>5, <1>6 DEF BackedInv, Undoes

\* ConnectBestBlock's caller goes on, or start-up is given up and the coins flushed.
LEMMA ReturnedWrites ==
  ASSUME NEW ok, NEW n, Returned(ok, n)
  PROVE  /\ UNCHANGED coinsOld \/ coinsOld' = Survivors(coinsOld, n)
         /\ pc' \in {"down", "idle", "orphans"}
BY DEF Returned

LEMMA CommitBacked ==
  ASSUME OrderlyDisk, BaseInv, StoreInv, BackedInv, RestartInv, Commit
  PROVE  BackedInv'
<1>1. /\ UNCHANGED <<stale, index, tree>> /\ pc = "connect" /\ conn = {} /\ tip' = New /\ pc' # "connect"
  BY DEF Commit
<1>2. PICK ibd \in IBD, cacheFull \in BOOLEAN :
        IF ~ibd \/ cacheFull THEN FlushCoins
        ELSE UNCHANGED <<dataSync, undoSync, treeOld, coins, coinsOld>>
  BY DEF Commit
<1>3. Undoes(index, New)
  BY <1>1, NewIsUndone
<1>4. tree.index = index /\ tree \in treeOld
  BY <1>1, IndexStored DEF BaseInv, Running
<1>5. CASE FlushCoins
  <2>1. treeOld' = {tree} /\ coinsOld' = Survivors(coinsOld, New)
    BY <1>5 DEF FlushCoins
  <2>2. ASSUME NEW c \in coinsOld' PROVE Undoes(tree.index, c)
    BY <1>3, <1>4, <2>1 DEF BackedInv, Survivors
  <2>3. New \in coinsOld'
    BY <2>1 DEF Survivors
  <2>4. Undoes(index', tip')
    BY <1>1, <1>3
  <2> QED BY <1>1, <2>1, <2>2, <2>3, <2>4 DEF BackedInv, Undoes
<1>6. CASE UNCHANGED <<treeOld, coinsOld>> /\ ~(~ibd \/ cacheFull)
  <2>1. ASSUME CanLosePower PROVE New = Genesis
    <3>1. best = Null
      <4> SUFFICES ASSUME best # Null PROVE FALSE
        OBVIOUS
      <4>1. IBD = {FALSE}
        BY <2>1, NoDownload
      <4> QED BY <1>6, <4>1
    <3> QED BY <1>1, <2>1, <3>1, GenesisFirst DEF Connecting
  <2>2. Undoes(index', tip')
    BY <1>1, <1>3
  <2> QED BY <1>1, <1>6, <2>1, <2>2 DEF BackedInv, Undoes
<1> QED BY <1>2, <1>5, <1>6

\* LoadBlockIndexDB: the best block of the coin database is in the index, and its
\* chain passes VerifyDB.
LEMMA StartFindsBest ==
  ASSUME BaseInv, StoreInv, BackedInv, Start
  PROVE  /\ LoadedBest(tree.index) = coins
         /\ Undoes(tree.index, coins) /\ VerifyDB(tree.index, coins)
         /\ Genesis \in DOMAIN tree.index
<1>1. tree \in treeOld /\ coins \in coinsOld /\ coins \in Blocks \cup {Null}
  BY DEF BaseInv, TypeInv, IndexInv, CoinsInv
<1>2. Undoes(tree.index, coins) /\ Stored(tree)
  BY <1>1 DEF BackedInv, StoreInv
<1>3. coins = Null \/ coins \in DOMAIN tree.index
  <2> SUFFICES ASSUME coins \in Blocks, coins # Null, coins # Genesis PROVE coins \in DOMAIN tree.index
    BY <1>1, <1>2 DEF Stored
  <2>1. coins \in ChainOf(coins) \ {Genesis}
    BY ChainEnds DEF ChainOf
  <2> QED BY <1>2, <2>1 DEF Undoes
<1>4. LoadedBest(tree.index) = coins
  BY <1>3 DEF LoadedBest
<1>5. dataSync \subseteq data /\ undoSync \subseteq undo
  BY DEF BaseInv, TypeInv, FilesInv
<1>6. VerifyDB(tree.index, coins)
  BY <1>2, <1>5 DEF VerifyDB, Undoes, Stored
<1> QED BY <1>2, <1>4, <1>6 DEF Stored

LEMMA NextKeepsBacked ==
  ASSUME OrderlyDisk, BaseInv, FreshInv, StoreInv, BackedInv, RestartInv, [Next]_vars
  PROVE  BackedInv'
<1>0. TypeInv
  BY DEF BaseInv
<1>1. ASSUME NEW b \in Blocks, Deliver(b) PROVE BackedInv'
  <2>1. UNCHANGED <<stale, index, tip, coinsOld>> /\ pc = "idle" /\ pc' \in {"idle", "index"}
    BY <1>1 DEF Deliver, ReceiveOrphan, ReceiveBlock, dbs, control
  <2>2. Running
    BY <2>1 DEF Running
  <2>3. CASE UNCHANGED treeOld
    BY <1>0, <2>1, <2>2, <2>3, BackedFrame
  <2>4. CASE StoreBlock(b)
    <3>1. CanLosePower => best # Null
      BY <2>1 DEF RestartInv
    <3>2. PICK n : WriteTree(index', n)
      BY <1>0, <2>1, <2>4, <3>1, StoreBlockCommits
    <3> QED BY <1>0, <2>1, <2>2, <3>2, BackedWrite, ExtendsIsOrder
  <2> QED BY <1>1, <2>3, <2>4 DEF Deliver, ReceiveOrphan, ReceiveBlock, StoreFails, dbs
<1>2. CASE AddToBlockIndex
  <2>1. /\ UNCHANGED <<stale, tip, coinsOld>> /\ index' = WithEntry(index, cur)
        /\ pc = "index" /\ pc' = "best" /\ WriteTree(index', tree.lastFile)
    BY <1>2 DEF AddToBlockIndex, WriteIndex
  <2>2. cur \notin DOMAIN index /\ Running
    BY <2>1 DEF FreshInv, Known, Running
  <2>3. Extends(index, index')
    BY <2>1, <2>2 DEF Extends, WithEntry
  <2> QED BY <1>0, <2>1, <2>2, <2>3, BackedWrite
<1>3. ASSUME NEW o \in Blocks, ProcessOrphan(o) PROVE BackedInv'
  <2>1. UNCHANGED <<stale, index, tip, coinsOld>> /\ pc = "orphans" /\ pc' \in {"orphans", "index"}
    BY <1>3 DEF ProcessOrphan
  <2>2. Running
    BY <2>1 DEF Running
  <2>3. CASE UNCHANGED treeOld
    BY <1>0, <2>1, <2>2, <2>3, BackedFrame
  <2>4. CASE StoreBlock(o)
    <3>1. CanLosePower => best # Null
      BY <2>1 DEF RestartInv
    <3>2. PICK n : WriteTree(index', n)
      BY <1>0, <2>1, <2>4, <3>1, StoreBlockCommits
    <3> QED BY <1>0, <2>1, <2>2, <3>2, BackedWrite, ExtendsIsOrder
  <2> QED BY <1>3, <2>3, <2>4 DEF ProcessOrphan, StoreFails
<1>4. CASE NothingToDo \/ DisconnectFails \/ ConnectUnreadable \/ ConnectNoSpace
  <2>1. UNCHANGED <<stale, index, tip, treeOld>> /\ Running /\ \E ok : Returned(ok, tip)
    BY <1>4 DEF NothingToDo, DisconnectFails, ConnectUnreadable, ConnectNoSpace, memory, Running
  <2>2. /\ UNCHANGED coinsOld \/ coinsOld' = Survivors(coinsOld, tip)
        /\ pc' # "connect"
    BY <2>1, ReturnedWrites
  <2> QED BY <1>0, <2>1, <2>2, BackedFrame
<1>5. CASE ChooseAttach
  <2>1. UNCHANGED <<stale, index, tip, treeOld>> /\ Running
    BY <1>5 DEF ChooseAttach, HasCandidate, memory, Running
  <2>2. /\ UNCHANGED coinsOld \/ coinsOld' = Survivors(coinsOld, tip)
        /\ pc' # "connect"
    BY <1>5, ReturnedWrites DEF ChooseAttach
  <2> QED BY <1>0, <2>1, <2>2, BackedFrame
<1>6. CASE OrphansDone
  <2>1. UNCHANGED <<stale, index, tip, treeOld, coinsOld>> /\ Running /\ pc' # "connect"
    BY <1>6 DEF OrphansDone, memory, dbs, Running
  <2> QED BY <1>0, <2>1, BackedFrame
<1>7. CASE Disconnect
  <2>1. /\ UNCHANGED <<stale, index, tip, treeOld, coinsOld, attach>> /\ pc = "switch"
        /\ conn' = Chain[New] \ ChainOf(tip) /\ Running
    BY <1>7 DEF Disconnect, memory, dbs, Running
  <2>2. Branch' \ conn' = {}
    BY <2>1 DEF Branch, New, ChainOf
  <2> QED BY <2>1, <2>2 DEF BackedInv, Undoes
<1>8. CASE MarkFailedChild
  <2>1. PICK high :
           /\ DOMAIN index' = Known
           /\ \A c \in Known : index'[c] = IF c \in DescendantsOn(Top, high)
                                           THEN index[c] \cup {"FAILED_CHILD"} ELSE index[c]
    BY <1>8, MarkFailedChildMeans
  <2>2. /\ UNCHANGED <<stale, tip, coinsOld>> /\ Running /\ pc' # "connect"
        /\ WriteTree(index', tree.lastFile)
    BY <1>8 DEF MarkFailedChild, HasCandidate, Running, WriteIndex
  <2>3. Extends(index, index')
    BY <2>1 DEF Extends, Known
  <2> QED BY <1>0, <2>2, <2>3, BackedWrite
<1>9. CASE ConnectBlock
  <2> DEFINE b == Lowest(conn)
  <2>1. /\ UNCHANGED <<stale, tip, coinsOld, attach, pc>> /\ pc = "connect" /\ Running /\ conn # {}
        /\ conn' = conn \ {b}
        /\ \/ (b = Genesis \/ "HAVE_UNDO" \in index[b]) /\ UNCHANGED <<index, tree, treeOld>>
           \/ b # Genesis /\ WriteUndo(b)
    BY <1>9 DEF ConnectBlock, Running
  <2>2. Branch' = Branch
    BY <2>1 DEF Branch, New, ChainOf
  <2>3. b \in DOMAIN index /\ Chain[New] \subseteq DOMAIN index
    BY <2>1, NextToConnect DEF Known
  <2>4. CASE (b = Genesis \/ "HAVE_UNDO" \in index[b]) /\ UNCHANGED <<index, tree, treeOld>>
    BY <2>1, <2>2, <2>4 DEF BackedInv, Undoes
  <2>5. CASE b # Genesis /\ WriteUndo(b)
    <3>1. /\ index' = [index EXCEPT ![b] = @ \cup {"HAVE_UNDO"}]
          /\ WriteTree(index', tree.lastFile)
      BY <2>1, <2>5, WriteUndoMeans
    <3> HIDE DEF b
    <3>2. /\ Extends(index, index') /\ DOMAIN index' = DOMAIN index
          /\ index'[b] = index[b] \cup {"HAVE_UNDO"}
          /\ \A c \in DOMAIN index \ {b} : index'[c] = index[c]
      BY <2>3, <3>1, FlagExtends
    <3>3. ASSUME NEW c \in (Branch' \ conn') \ {Genesis} PROVE "HAVE_UNDO" \in index'[c]
      <4>1. c \in DOMAIN index
        BY <2>2, <2>3 DEF Branch
      <4>2. CASE c = b
        BY <3>2, <4>2
      <4>3. CASE c # b
        BY <2>1, <2>2, <3>2, <4>1, <4>3 DEF BackedInv
      <4> QED BY <4>2, <4>3
    <3> QED BY <1>0, <2>1, <3>1, <3>2, <3>3, BackedWrite
  <2> QED BY <2>1, <2>4, <2>5
<1>10. CASE ConnectInvalid
  <2> DEFINE b == Lowest(conn)
  <2>1. /\ UNCHANGED <<stale, tip>> /\ pc = "connect" /\ conn # {} /\ Returned(FALSE, tip) /\ Running
        /\ index' = [index EXCEPT ![b] = @ \cup {"FAILED_VALID"}]
        /\ WriteTree(index', tree.lastFile)
    BY <1>10 DEF ConnectInvalid, InvalidBlockFound, WriteIndex, Running
  <2>2. b \in DOMAIN index
    BY <2>1, NextToConnect DEF Known
  <2> HIDE DEF b
  <2>3. Extends(index, index')
    BY <2>1, <2>2, FlagExtends
  <2>4. /\ UNCHANGED coinsOld \/ coinsOld' = Survivors(coinsOld, tip)
        /\ pc' # "connect"
    BY <2>1, ReturnedWrites
  <2> QED BY <1>0, <2>1, <2>3, <2>4, BackedWrite
<1>11. CASE Commit
  BY <1>11, CommitBacked
<1>12. CASE CommitNoSpace
  <2>1. /\ CanFillDisk /\ UNCHANGED <<stale, index, tree, treeOld>> /\ pc = "connect" /\ conn = {}
        /\ tip' = New /\ Returned(FALSE, New)
    BY <1>12 DEF CommitNoSpace
  <2>2. ~CanLosePower
    BY <2>1 DEF OrderlyDisk
  <2>3. treeOld = {tree} /\ tree.index = index
    BY <2>1, <2>2 DEF StoreInv, Running
  <2>4. Undoes(index, New)
    BY <2>1, NewIsUndone
  <2>5. (UNCHANGED coinsOld \/ coinsOld' = Survivors(coinsOld, New)) /\ pc' # "connect"
    BY <2>1, ReturnedWrites
  <2>6. ASSUME NEW c \in coinsOld' PROVE Undoes(tree.index, c)
    BY <2>3, <2>4, <2>5 DEF BackedInv, Survivors
  <2>7. Undoes(index', tip')
    BY <2>1, <2>4
  <2> QED BY <2>1, <2>2, <2>3, <2>5, <2>6, <2>7 DEF BackedInv, Undoes
<1>13. CASE Start
  <2>1. /\ LoadedBest(tree.index) = coins /\ Undoes(tree.index, coins)
    BY <1>13, StartFindsBest
  <2>2. /\ UNCHANGED <<treeOld, coinsOld>> /\ index' = tree.index /\ tip' = LoadedBest(tree.index)
        /\ stale' = stale \cup (ChainOf(coins) \ (ChainOf(LoadedBest(tree.index)) \cup {Genesis}))
        /\ pc' # "connect"
    BY <1>13 DEF Start
  <2>3. stale' = {}
    BY <2>1, <2>2 DEF BackedInv
  <2>4. tip' \in coinsOld'
    BY <1>0, <2>1, <2>2 DEF TypeInv, CoinsInv
  <2>5. Undoes(index', tip')
    BY <2>1, <2>2
  <2> QED BY <2>2, <2>3, <2>4, <2>5 DEF BackedInv, Undoes
<1>14. CASE Shutdown \/ Crash
  <2>1. /\ UNCHANGED <<stale, index, tip, treeOld>> /\ pc' = "down" /\ Running
        /\ UNCHANGED coinsOld \/ coinsOld' = Survivors(coinsOld, tip)
    BY <1>14 DEF Shutdown, Crash, memory, dbs, Running
  <2> QED BY <1>0, <2>1, BackedFrame
<1>15. CASE PowerLoss
  <2>1. /\ tree' \in treeOld /\ treeOld' = {tree'} /\ coins' \in coinsOld /\ coinsOld' = {coins'}
        /\ stale' = stale /\ pc' = "down"
    BY <1>15 DEF PowerLoss
  <2>2. ASSUME NEW t \in treeOld', NEW c \in coinsOld' PROVE Undoes(t.index, c)
    BY <2>1 DEF BackedInv
  <2> QED BY <2>1, <2>2 DEF BackedInv, Running
<1>16. CASE UNCHANGED vars
  <2>1. UNCHANGED <<stale, index, tip, treeOld, coinsOld, attach, conn, pc>>
    BY <1>16 DEF vars, memory, dbs, control
  <2> QED BY <1>0, <2>1, BackedFrame DEF Running
<1> QED
  BY <1>1, <1>2, <1>3, <1>4, <1>5, <1>6, <1>7, <1>8, <1>9, <1>10, <1>11, <1>12, <1>13, <1>14,
     <1>15, <1>16 DEF Next, Work

-----------------------------------------------------------------------------
(***************************************************************************)
(* Failure flags and candidates.                                           *)
(***************************************************************************)
\* A failed block is invalid or above an invalid one.
LEMMA FailedIsUnsound ==
  ASSUME NEW i, IndexOK(i), Deserved(i), NEW b \in DOMAIN i, i[b] \cap FailedMask # {}
  PROVE  Chain[b] \cap Invalid # {} /\ ~Sound(b)
<1>1. b \in Chain[b]
  BY ChainEnds DEF IndexOK
<1>2. "FAILED_VALID" \in i[b] \/ "FAILED_CHILD" \in i[b]
  BY DEF FailedMask
<1>3. Chain[b] \cap Invalid # {}
  BY <1>1, <1>2 DEF Deserved
<1> QED BY <1>3 DEF Sound

\* So a block on a valid chain is a candidate.
LEMMA SoundIsCandidate ==
  ASSUME TypeInv, FailInv, Running, NEW b \in Known, Sound(b)
  PROVE  b \in validSet /\ ~Failed(b)
<1>1. IndexOK(index) /\ Deserved(index)
  BY DEF TypeInv, IndexInv, FailInv
<1>2. ~Failed(b)
  BY <1>1, FailedIsUnsound DEF Failed, Known
<1> QED BY <1>2 DEF FailInv

LEMMA GenesisIsCandidate ==
  ASSUME TypeInv, StoreInv, FailInv, Running
  PROVE  Genesis \in validSet
<1>1. Genesis \in Known
  BY IndexStored
<1>2. Sound(Genesis)
  BY ChainDef, TreeAssumption DEF Sound
<1> QED BY <1>1, <1>2, SoundIsCandidate

LEMMA FailFrame ==
  ASSUME FailInv, UNCHANGED index, treeOld' \subseteq treeOld, Running' => Running /\ UNCHANGED validSet
  PROVE  FailInv'
BY DEF FailInv, Deserved, Known, Failed

LEMMA FailWrite ==
  ASSUME FailInv, NEW n, WriteTree(index', n), Deserved(index'),
         Running' => validSet' = {b \in DOMAIN index' : index'[b] \cap FailedMask = {}}
  PROVE  FailInv'
<1>1. ASSUME NEW t \in treeOld' PROVE Deserved(t.index)
  <2>1. t \in treeOld \/ t.index = index'
    BY TreeOfFields DEF WriteTree, Survivors
  <2> QED BY <2>1 DEF FailInv
<1> QED BY <1>1 DEF FailInv, Deserved, Known, Failed

LEMMA NextKeepsFail ==
  ASSUME OrderlyDisk, BaseInv, StoreInv, BackedInv, RestartInv, FailInv, [Next]_vars
  PROVE  FailInv'
<1>0. TypeInv
  BY DEF BaseInv
<1>1. ASSUME NEW b \in Blocks, Deliver(b) PROVE FailInv'
  <2>1. UNCHANGED <<index, validSet>> /\ pc = "idle"
    BY <1>1 DEF Deliver, ReceiveOrphan, ReceiveBlock
  <2>2. Running
    BY <2>1 DEF Running
  <2>3. CASE UNCHANGED treeOld
    BY <2>1, <2>2, <2>3, FailFrame
  <2>4. CASE StoreBlock(b)
    <3>1. CanLosePower => best # Null
      BY <2>1 DEF RestartInv
    <3>2. PICK n : WriteTree(index', n)
      BY <1>0, <2>1, <2>4, <3>1, StoreBlockCommits
    <3>3. Deserved(index') /\ validSet' = {c \in DOMAIN index' : index'[c] \cap FailedMask = {}}
      BY <2>1, <2>2 DEF FailInv, Known, Failed
    <3> QED BY <3>2, <3>3, FailWrite
  <2> QED BY <1>1, <2>3, <2>4 DEF Deliver, ReceiveOrphan, ReceiveBlock, StoreFails, dbs
<1>2. CASE AddToBlockIndex
  <2>1. /\ index' = WithEntry(index, cur) /\ validSet' = validSet \cup {cur}
        /\ pc = "index" /\ WriteTree(index', tree.lastFile)
    BY <1>2 DEF AddToBlockIndex, WriteIndex
  <2>2. validSet = {c \in DOMAIN index : index[c] \cap FailedMask = {}}
    BY <2>1 DEF FailInv, Known, Failed, Running
  <2>3. Deserved(index')
    BY <2>1 DEF Deserved, WithEntry, FailInv
  <2>4. validSet' = {c \in DOMAIN index' : index'[c] \cap FailedMask = {}}
    BY <2>1, <2>2 DEF WithEntry
  <2> QED BY <2>1, <2>3, <2>4, FailWrite
<1>3. ASSUME NEW o \in Blocks, ProcessOrphan(o) PROVE FailInv'
  <2>1. UNCHANGED <<index, validSet>> /\ pc = "orphans"
    BY <1>3 DEF ProcessOrphan
  <2>2. Running
    BY <2>1 DEF Running
  <2>3. CASE UNCHANGED treeOld
    BY <2>1, <2>2, <2>3, FailFrame
  <2>4. CASE StoreBlock(o)
    <3>1. CanLosePower => best # Null
      BY <2>1 DEF RestartInv
    <3>2. PICK n : WriteTree(index', n)
      BY <1>0, <2>1, <2>4, <3>1, StoreBlockCommits
    <3>3. Deserved(index') /\ validSet' = {c \in DOMAIN index' : index'[c] \cap FailedMask = {}}
      BY <2>1, <2>2 DEF FailInv, Known, Failed
    <3> QED BY <3>2, <3>3, FailWrite
  <2> QED BY <1>3, <2>3, <2>4 DEF ProcessOrphan, StoreFails
<1>4. CASE OrphansDone \/ NothingToDo \/ ChooseAttach \/ Disconnect \/ DisconnectFails
           \/ ConnectUnreadable \/ ConnectNoSpace \/ CommitNoSpace
  <2>1. UNCHANGED <<index, treeOld, validSet>> /\ Running
    BY <1>4 DEF OrphansDone, NothingToDo, ChooseAttach, HasCandidate, Disconnect, DisconnectFails,
       ConnectUnreadable, ConnectNoSpace, CommitNoSpace, memory, dbs, Running
  <2> QED BY <2>1, FailFrame
<1>5. CASE MarkFailedChild
  <2>1. PICK high \in Chain[Top] :
           /\ Top \in Blocks /\ Chain[Top] \subseteq Known /\ Failed(high)
           /\ DOMAIN index' = Known
           /\ \A c \in Known : index'[c] = IF c \in DescendantsOn(Top, high)
                                           THEN index[c] \cup {"FAILED_CHILD"} ELSE index[c]
           /\ validSet' = validSet \ DescendantsOn(Top, high)
    BY <1>5, MarkFailedChildMeans
  <2>2. /\ pc = "best" /\ WriteTree(index', tree.lastFile)
    BY <1>5 DEF MarkFailedChild, HasCandidate, WriteIndex
  <2> DEFINE marked == DescendantsOn(Top, high)
  <2>3. validSet = {c \in Known : index[c] \cap FailedMask = {}}
    BY <2>2 DEF FailInv, Known, Failed, Running
  <2>4. ASSUME NEW c \in marked PROVE (Chain[c] \ {c}) \cap Invalid # {}
    <3>1. c \in Chain[Top] /\ c \in Blocks /\ high \in Blocks /\ Height[c] > Height[high]
      BY <2>1, ChainEnds DEF DescendantsOn
    <3>2. Height[c] \in Nat /\ Height[high] \in Nat
      BY <3>1, HeightDef
    <3>3. high \in Chain[c]
      BY <2>1, <3>1, <3>2, LowerIsAncestor
    <3>4. c \notin Chain[high]
      BY <3>1, <3>2, AncestorIsLess
    <3>5. Chain[high] \subseteq Chain[c]
      BY <3>1, <3>3, ChainTransitive
    <3>6. Chain[high] \cap Invalid # {}
      BY <1>0, <2>1, FailedIsUnsound DEF TypeInv, IndexInv, FailInv, Failed, Known
    <3> QED BY <3>4, <3>5, <3>6
  <2>5. ASSUME NEW c \in marked PROVE c \in Known
    BY <2>1 DEF DescendantsOn
  <2> HIDE DEF marked
  <2>6. Deserved(index')
    <3> SUFFICES ASSUME NEW b \in DOMAIN index'
                 PROVE  /\ "FAILED_VALID" \in index'[b] => b \in Invalid
                        /\ "FAILED_CHILD" \in index'[b] => (Chain[b] \ {b}) \cap Invalid # {}
      BY DEF Deserved
    <3>1. b \in DOMAIN index /\ b \in Known
      BY <2>1 DEF Known
    <3>2. /\ "FAILED_VALID" \in index[b] => b \in Invalid
          /\ "FAILED_CHILD" \in index[b] => (Chain[b] \ {b}) \cap Invalid # {}
      BY <3>1 DEF FailInv, Deserved
    <3>3. CASE b \in marked
      <4>1. index'[b] = index[b] \cup {"FAILED_CHILD"}
        BY <2>1, <3>1, <3>3 DEF marked
      <4> QED BY <2>4, <3>2, <3>3, <4>1
    <3>4. CASE b \notin marked
      <4>1. index'[b] = index[b]
        BY <2>1, <3>1, <3>4 DEF marked
      <4> QED BY <3>2, <4>1
    <3> QED BY <3>3, <3>4
  <2>7. validSet' = {c \in DOMAIN index' : index'[c] \cap FailedMask = {}}
    <3>1. validSet' = validSet \ marked
      BY <2>1 DEF marked
    <3>2. ASSUME NEW c \in Known
          PROVE  index'[c] \cap FailedMask = {} <=> c \notin marked /\ index[c] \cap FailedMask = {}
      <4>1. CASE c \in marked
        BY <2>1, <4>1 DEF marked, FailedMask
      <4>2. CASE c \notin marked
        BY <2>1, <4>2 DEF marked
      <4> QED BY <4>1, <4>2
    <3> QED BY <2>1, <2>3, <3>1, <3>2
  <2> QED BY <2>2, <2>6, <2>7, FailWrite
<1>6. CASE ConnectBlock
  <2> DEFINE b == Lowest(conn)
  <2>1. /\ UNCHANGED validSet /\ pc = "connect" /\ Running /\ conn # {}
        /\ \/ UNCHANGED <<index, treeOld>>
           \/ b # Genesis /\ WriteUndo(b)
    BY <1>6 DEF ConnectBlock, Running
  <2>2. CASE UNCHANGED <<index, treeOld>>
    BY <2>1, <2>2, FailFrame
  <2>3. CASE b # Genesis /\ WriteUndo(b)
    <3>1. /\ index' = [index EXCEPT ![b] = @ \cup {"HAVE_UNDO"}]
          /\ WriteTree(index', tree.lastFile)
      BY <2>1, <2>3, WriteUndoMeans
    <3>2. b \in DOMAIN index
      BY <2>1, NextToConnect DEF Known
    <3> HIDE DEF b
    <3>3. /\ DOMAIN index' = DOMAIN index /\ index'[b] = index[b] \cup {"HAVE_UNDO"}
          /\ \A c \in DOMAIN index \ {b} : index'[c] = index[c]
      BY <3>1, <3>2, FlagExtends
    <3>4. Deserved(index')
      BY <3>2, <3>3 DEF FailInv, Deserved
    <3>5. validSet' = {c \in DOMAIN index' : index'[c] \cap FailedMask = {}}
      <4>1. validSet = {c \in DOMAIN index : index[c] \cap FailedMask = {}}
        BY <2>1 DEF FailInv, Known, Failed
      <4>2. \A c \in DOMAIN index : index'[c] \cap FailedMask = index[c] \cap FailedMask
        BY <3>3 DEF FailedMask
      <4> QED BY <2>1, <3>3, <4>1, <4>2
    <3> QED BY <3>1, <3>4, <3>5, FailWrite
  <2> QED BY <2>1, <2>2, <2>3
<1>7. CASE ConnectInvalid
  <2> DEFINE b == Lowest(conn)
  <2>1. /\ pc = "connect" /\ conn # {} /\ Fails(b)
        /\ index' = [index EXCEPT ![b] = @ \cup {"FAILED_VALID"}]
        /\ WriteTree(index', tree.lastFile) /\ validSet' = validSet \ {b}
    BY <1>7 DEF ConnectInvalid, InvalidBlockFound, WriteIndex
  <2>2. b \in DOMAIN index
    BY <2>1, NextToConnect DEF Known
  <2>3. b \in Invalid
    BY <2>1 DEF BackedInv, Fails, Doubtful
  <2> HIDE DEF b
  <2>4. /\ DOMAIN index' = DOMAIN index /\ index'[b] = index[b] \cup {"FAILED_VALID"}
        /\ \A c \in DOMAIN index \ {b} : index'[c] = index[c]
    BY <2>1, <2>2, FlagExtends
  <2>5. Deserved(index')
    BY <2>2, <2>3, <2>4 DEF FailInv, Deserved
  <2>6. validSet' = {c \in DOMAIN index' : index'[c] \cap FailedMask = {}}
    <3>1. validSet = {c \in DOMAIN index : index[c] \cap FailedMask = {}}
      BY <2>1 DEF FailInv, Known, Failed, Running
    <3>2. index'[b] \cap FailedMask # {}
      BY <2>4 DEF FailedMask
    <3> QED BY <2>1, <2>2, <2>4, <3>1, <3>2
  <2> QED BY <2>1, <2>5, <2>6, FailWrite
<1>8. CASE Commit
  <2>1. /\ UNCHANGED <<index, validSet>> /\ Running /\ (treeOld' = {tree} \/ UNCHANGED treeOld)
    BY <1>8 DEF Commit, FlushCoins, Running
  <2>2. tree \in treeOld
    BY <1>0 DEF TypeInv, IndexInv
  <2> QED BY <2>1, <2>2, FailFrame
<1>9. CASE Start
  <2>1. /\ index' = tree.index /\ treeOld' = treeOld
        /\ validSet' = {c \in DOMAIN index' : index'[c] \cap FailedMask = {}}
    BY <1>9 DEF Start
  <2>2. tree \in treeOld
    BY <1>0 DEF TypeInv, IndexInv
  <2>3. Deserved(index')
    BY <2>1, <2>2 DEF FailInv
  <2> QED BY <2>1, <2>3 DEF FailInv, Deserved, Known, Failed
<1>10. CASE Shutdown \/ Crash \/ PowerLoss
  <2>1. /\ UNCHANGED index /\ treeOld' \subseteq treeOld /\ pc' = "down"
    BY <1>10 DEF Shutdown, Crash, PowerLoss, memory, dbs
  <2>2. ~Running'
    BY <2>1 DEF Running
  <2> QED BY <2>1, <2>2, FailFrame
<1>11. CASE UNCHANGED vars
  <2>1. UNCHANGED <<index, validSet, treeOld, pc>>
    BY <1>11 DEF vars, memory, dbs, control
  <2> QED BY <2>1, FailFrame DEF Running
<1> QED
  BY <1>1, <1>2, <1>3, <1>4, <1>5, <1>6, <1>7, <1>8, <1>9, <1>10, <1>11 DEF Next, Work

-----------------------------------------------------------------------------
(***************************************************************************)
(* Starting again.                                                         *)
(***************************************************************************)
\* What is to be disconnected is there, with its undo data.
LEMMA DisconnectWorks ==
  ASSUME BaseInv, StoreInv, BackedInv, Connecting
  PROVE  Readable(Disconnected) /\ Undoable(Disconnected)
<1>1. Running
  BY DEF Connecting, Running
<1>2. New \in Blocks
  BY NewIsKnown DEF BaseInv, TypeInv
<1>3. Genesis \in Chain[New]
  BY <1>2, ChainEnds
<1>4. ChainOf(tip) \subseteq Known
  BY TipIsBlock DEF BaseInv, TypeInv
<1>5. ASSUME NEW b \in Disconnected PROVE b \in data /\ "HAVE_UNDO" \in index[b] /\ b \in undo
  <2>1. b \in ChainOf(tip) \ {Genesis} /\ b \in Known
    BY <1>3, <1>4 DEF Disconnected
  <2>2. "HAVE_UNDO" \in index[b]
    BY <1>1, <2>1 DEF BackedInv, Undoes
  <2> QED BY <1>1, <2>1, <2>2, IndexStored DEF BaseInv
<1> QED BY <1>5 DEF Readable, Undoable

LEMMA DisconnectNeverFails ==
  ASSUME BaseInv, StoreInv, BackedInv PROVE ~DisconnectFails
BY DisconnectWorks DEF DisconnectFails, Connecting, BackedInv, Doubtful

LEMMA NoBestConnectsGenesis ==
  ASSUME OrderlyDisk, BaseInv, StoreInv, FailInv, CanLosePower, best = Null, ChooseAttach
  PROVE  attach' # {} /\ Genesis \in attach'
<1>1. pc = "best" /\ validSet # {} /\ attach' = Attach(Top)
  BY DEF ChooseAttach, HasCandidate
<1>2. Top \in Blocks
  BY <1>1, AttachIsKnown DEF BaseInv, TypeInv
<1>3. InStep
  BY <1>1 DEF OrderlyDisk, InStep, Running
<1>4. \A b \in Blocks : pnext[b] = Null
  BY <1>3 DEF BaseInv, PnextInv, SpellsChain, ChainOf
<1>5. Genesis \in Chain[Top] /\ Chain[Top] \subseteq Blocks
  BY <1>2, ChainEnds
<1>6. ASSUME NEW d \in Chain[Top], Height[d] > Height[Genesis] PROVE ~Stops(d)
  <2>1. d \in Blocks /\ Height[Genesis] \in Nat /\ Height[d] \in Nat
    BY <1>5, HeightDef
  <2>2. d # Genesis
    BY <1>6, <2>1
  <2> QED BY <1>4, <2>1, <2>2, PrevIsBlock DEF Stops
<1>7. Genesis \in Attach(Top)
  BY <1>5, <1>6 DEF Attach, Walked
<1> QED BY <1>1, <1>7

LEMMA NextKeepsRestart ==
  ASSUME OrderlyDisk, BaseInv, StoreInv, BackedInv, FailInv, RestartInv, [Next]_vars
  PROVE  RestartInv'
<1> SUFFICES ASSUME CanLosePower
             PROVE  /\ pc' \in {"idle", "orphans", "index"} => best' # Null
                    /\ best' = Null /\ Connecting' => Genesis \in attach'
  BY DEF RestartInv
<1>0. TypeInv /\ ~CanFillDisk
  BY DEF BaseInv, OrderlyDisk
<1>a. ASSUME best' = best, best # Null
      PROVE  /\ pc' \in {"idle", "orphans", "index"} => best' # Null
             /\ best' = Null /\ Connecting' => Genesis \in attach'
  BY <1>a
<1>1. CASE \E b \in Blocks : Deliver(b)
  <2>1. best' = best /\ pc = "idle"
    BY <1>1 DEF Deliver, ReceiveOrphan, ReceiveBlock
  <2> QED BY <1>a, <2>1 DEF RestartInv
<1>2. CASE AddToBlockIndex
  <2>1. best' = best /\ pc = "index"
    BY <1>2 DEF AddToBlockIndex
  <2> QED BY <1>a, <2>1 DEF RestartInv
<1>3. CASE \E o \in Blocks : ProcessOrphan(o)
  <2>1. best' = best /\ pc = "orphans"
    BY <1>3 DEF ProcessOrphan
  <2> QED BY <1>a, <2>1 DEF RestartInv
<1>4. CASE OrphansDone
  <2>1. best' = best /\ pc = "orphans"
    BY <1>4 DEF OrphansDone, memory
  <2> QED BY <1>a, <2>1 DEF RestartInv
<1>5. CASE NothingToDo
  <2>1. best' = best /\ pc = "best"
    BY <1>5 DEF NothingToDo, memory
  <2>2. Genesis \in validSet
    BY <1>0, <2>1, GenesisIsCandidate DEF Running
  <2>3. Top \in Blocks
    BY <1>0, <2>2, AttachIsKnown DEF TypeInv
  <2>4. best # Null
    BY <1>5, <2>2, <2>3, NullIsNoBlock DEF NothingToDo
  <2> QED BY <1>a, <2>1, <2>4
<1>6. CASE MarkFailedChild
  <2>1. pc' \in {"best", "down"}
    BY <1>6 DEF MarkFailedChild, HasCandidate
  <2> QED BY <2>1 DEF Connecting
<1>7. CASE ChooseAttach
  <2>1. best' = best
    BY <1>7 DEF ChooseAttach, memory
  <2>2. CASE best = Null
    <3>1. attach' # {} /\ Genesis \in attach'
      BY <1>7, <2>2, NoBestConnectsGenesis
    <3>2. pc' = "switch"
      BY <1>7, <3>1 DEF ChooseAttach
    <3> QED BY <3>1, <3>2
  <2> QED BY <1>a, <2>1, <2>2
<1>8. CASE Disconnect \/ ConnectBlock
  <2>1. UNCHANGED <<best, attach>> /\ Connecting /\ pc' = "connect"
    BY <1>8 DEF Disconnect, ConnectBlock, memory, Connecting
  <2> QED BY <2>1 DEF RestartInv
<1>9. CASE DisconnectFails
  BY <1>9, DisconnectNeverFails
<1>10. CASE ConnectInvalid \/ ConnectUnreadable
  <2>1. /\ best' = best /\ pc = "connect" /\ conn # {}
        /\ Lowest(conn) # Genesis \/ Lowest(conn) \notin data
    BY <1>10 DEF ConnectInvalid, ConnectUnreadable, Fails, memory
  <2>2. ASSUME best = Null PROVE FALSE
    <3>1. Lowest(conn) \in conn
      BY <2>1, NextToConnect
    <3>2. Lowest(conn) = Genesis
      BY <2>1, <2>2, <3>1, GenesisFirst DEF Connecting
    <3>3. Genesis \in data
      BY <1>0, <2>1, IndexStored DEF Running
    <3> QED BY <2>1, <3>2, <3>3
  <2> QED BY <1>a, <2>1, <2>2
<1>11. CASE ConnectNoSpace \/ CommitNoSpace
  BY <1>0, <1>11 DEF ConnectNoSpace, CommitNoSpace
<1>12. CASE Commit
  <2>1. best' = New /\ pc = "connect"
    BY <1>12 DEF Commit
  <2>2. New \in Blocks
    BY <1>0, <2>1, NewIsKnown DEF TypeInv, Connecting
  <2> QED BY <2>1, <2>2, NullIsNoBlock
<1>13. CASE Start
  <2>1. pc' \in {"best", "corrupt"}
    BY <1>13 DEF Start
  <2> QED BY <2>1 DEF Connecting
<1>14. CASE Shutdown \/ Crash \/ PowerLoss
  <2>1. pc' = "down"
    BY <1>14 DEF Shutdown, Crash, PowerLoss
  <2> QED BY <2>1 DEF Connecting
<1>15. CASE UNCHANGED vars
  <2>1. UNCHANGED <<best, attach, pc>>
    BY <1>15 DEF vars, memory, control
  <2> QED BY <2>1 DEF RestartInv, Connecting
<1> QED
  BY <1>1, <1>2, <1>3, <1>4, <1>5, <1>6, <1>7, <1>8, <1>9, <1>10, <1>11, <1>12, <1>13, <1>14,
     <1>15 DEF Next, Work

LEMMA NextNeverCorrupts ==
  ASSUME BaseInv, StoreInv, BackedInv, NeverCorrupt, [Next]_vars
  PROVE  NeverCorrupt'
<1>1. CASE \E b \in Blocks : Deliver(b) \/ ProcessOrphan(b)
  BY <1>1 DEF Deliver, ReceiveOrphan, ReceiveBlock, ProcessOrphan, StoreBlock, StoreFails, control,
              NeverCorrupt
<1>2. CASE AddToBlockIndex \/ MarkFailedChild \/ OrphansDone \/ Disconnect \/ ConnectBlock
  BY <1>2 DEF AddToBlockIndex, MarkFailedChild, OrphansDone, Disconnect, ConnectBlock,
              NeverCorrupt
<1>3. CASE NothingToDo \/ ChooseAttach \/ ConnectInvalid \/ ConnectNoSpace \/ CommitNoSpace
  <2>1. aborted' = aborted \/ aborted' = "no space"
    BY <1>3 DEF NothingToDo, ChooseAttach, ConnectInvalid, ConnectNoSpace, CommitNoSpace
  <2>2. pc' # "corrupt"
    BY <1>3 DEF NothingToDo, ChooseAttach, ConnectInvalid, ConnectNoSpace, CommitNoSpace, Returned
  <2> QED BY <2>1, <2>2 DEF NeverCorrupt
<1>4. CASE DisconnectFails
  BY <1>4, DisconnectNeverFails
<1>5. CASE ConnectUnreadable
  <2>1. pc = "connect" /\ conn # {} /\ Lowest(conn) \notin data
    BY <1>5 DEF ConnectUnreadable
  <2>2. Lowest(conn) \in Known /\ Running
    BY <2>1, NextToConnect DEF Running
  <2> QED BY <2>1, <2>2, IndexStored DEF BaseInv
<1>6. CASE Commit
  BY <1>6 DEF Commit, NeverCorrupt
<1>7. CASE Start
  <2>1. /\ LoadedBest(tree.index) = coins /\ VerifyDB(tree.index, coins)
    BY <1>7, StartFindsBest
  <2>2. stale' = {}
    BY <1>7, <2>1 DEF Start, BackedInv
  <2> QED BY <1>7, <2>1, <2>2 DEF Start, NeverCorrupt
<1>8. CASE Shutdown \/ Crash \/ PowerLoss
  BY <1>8 DEF Shutdown, Crash, PowerLoss, NeverCorrupt
<1>9. CASE UNCHANGED vars
  BY <1>9 DEF vars, control, NeverCorrupt
<1> QED
  BY <1>1, <1>2, <1>3, <1>4, <1>5, <1>6, <1>7, <1>8, <1>9 DEF Next, Work

-----------------------------------------------------------------------------
LEMMA BaseAlways == Spec => []BaseInv
BY SoundAlways, PnextAlways, PTL DEF BaseInv

LEMMA InitRecovery == Init => RecoveryInv
<1> SUFFICES ASSUME Init PROVE RecoveryInv
  OBVIOUS
<1>1. /\ index = [b \in {Genesis} |-> {}] /\ validSet = {Genesis}
      /\ best = Genesis /\ tip = Genesis /\ orphans = {} /\ stale = {} /\ coinsOld = {Null}
      /\ tree = TreeOf(index, 0) /\ treeOld = {tree} /\ dataSync = {Genesis}
      /\ pc = "idle" /\ aborted = "no"
  BY DEF Init
<1>2. DOMAIN index = {Genesis} /\ index[Genesis] = {} /\ tree.index = index
  BY <1>1, TreeOfFields
<1>3. ChainOf(Genesis) = {Genesis} /\ ChainOf(Null) = {} /\ Genesis # Null
  BY NullIsNoBlock, ChainDef DEF ChainOf
<1>4. FreshInv
  BY <1>1 DEF FreshInv
<1>5. StoreInv
  BY <1>1, <1>2, ExtendsIsOrder DEF StoreInv, Stored
<1>6. BackedInv
  BY <1>1, <1>2, <1>3 DEF BackedInv, Undoes
<1>7. RestartInv
  BY <1>1, <1>3 DEF RestartInv, Connecting
<1>8. FailInv
  BY <1>1, <1>2 DEF FailInv, Deserved, Known, Failed
<1>9. NeverCorrupt
  BY <1>1 DEF NeverCorrupt
<1> QED BY <1>4, <1>5, <1>6, <1>7, <1>8, <1>9 DEF RecoveryInv

LEMMA NextKeepsRecovery ==
  ASSUME OrderlyDisk
  PROVE  BaseInv /\ RecoveryInv /\ [Next]_vars => RecoveryInv'
BY NextKeepsFresh, NextKeepsStore, NextKeepsBacked, NextKeepsFail, NextKeepsRestart,
   NextNeverCorrupts DEF RecoveryInv, BaseInv

LEMMA RecoveryAlways ==
  ASSUME OrderlyDisk PROVE Spec => [](BaseInv /\ RecoveryInv)
<1>1. BaseInv /\ RecoveryInv /\ [Next]_vars => RecoveryInv'
  BY NextKeepsRecovery
<1> QED BY <1>1, InitRecovery, BaseAlways, PTL DEF Spec

(***************************************************************************)
(* Whatever a crash or a power loss leaves of the two databases and the    *)
(* files, the best block of the coin database and all below it are         *)
(* indexed, readable and can be disconnected.                              *)
(***************************************************************************)
THEOREM CoinsStayBacked == ASSUME OrderlyDisk PROVE Spec => []CoinsAreBacked
<1>1. RecoveryInv => CoinsAreBacked
  BY DEF RecoveryInv, BackedInv, Undoes, StoreInv, Stored, CoinsAreBacked
<1> QED BY <1>1, RecoveryAlways, PTL

\* What is promised of the acceptable blocks is promised of the sound ones, when those
\* in sight are sound.
LEMMA MovesOfSound ==
  ASSUME Moves!Next, \A b \in coinsOld' \cup {best'} : b = Null \/ Sound(b)
  PROVE  Promise!Next
<1>0. \A b \in Blocks : b # Null
  BY TreeAssumption
<1>1. CASE Moves!Adopt
  BY <1>0, <1>1 DEF Moves!Adopt, Promise!Adopt, Promise!Next, Moves!TrustAt, Promise!TrustAt
<1>2. CASE Moves!Stop
  <2>1. CASE coinsOld' \subseteq coinsOld
    BY <1>2, <2>1 DEF Moves!Stop, Promise!Stop, Promise!Next
  <2>2. ASSUME NEW b \in {c \in Blocks : Acceptable(c)} \cup {Null},
               Running /\ Moves!TrustAt(b) >= Moves!TrustAt(best) /\ coinsOld' \subseteq coinsOld \cup {b}
        PROVE  Promise!Next
    <3>1. CASE b \in coinsOld'
      <4>1. b \in {c \in Blocks : Sound(c)} \cup {Null}
        BY <2>2, <3>1
      <4> QED BY <1>2, <2>2, <4>1
              DEF Moves!Stop, Promise!Stop, Promise!Next, Moves!TrustAt, Promise!TrustAt
    <3>2. CASE b \notin coinsOld'
      BY <2>1, <2>2, <3>2
    <3> QED BY <3>1, <3>2
  <2> QED BY <1>2, <2>1, <2>2 DEF Moves!Stop
<1>3. CASE Moves!Start
  BY <1>3 DEF Moves!Start, Promise!Start, Promise!Next
<1> QED BY <1>1, <1>2, <1>3 DEF Moves!Next

(***************************************************************************)
(* ProcessBlock, ConnectBestBlock and SetBestChain, stopped at any step,   *)
(* implement BestChain: pindexBest always ends a valid chain, moves only   *)
(* to more trust while the node runs, and is after a restart a best block  *)
(* that was written.                                                       *)
(***************************************************************************)
THEOREM BestChainImplemented == ASSUME OrderlyDisk PROVE Spec => ImplementsBestChain
<1> DEFINE InSight == \A b \in coinsOld \cup {best} : b = Null \/ Sound(b)
<1>1. Init => Promise!Init
  <2> SUFFICES ASSUME Init PROVE Promise!Init
    OBVIOUS
  <2>1. best = Genesis /\ coinsOld = {Null} /\ pc = "idle"
    BY DEF Init
  <2>2. Sound(Genesis) /\ Genesis \in Blocks
    BY ChainDef, TreeAssumption DEF Sound
  <2> QED BY <2>1, <2>2 DEF Promise!Init, Running
<1>2. BaseInv /\ RecoveryInv => InSight
  BY DEF BaseInv, RecoveryInv, BackedInv, SoundInv, JudgedOrNull, Judged, Doubtful
<1>3. BaseInv /\ InSight' /\ [Next]_vars => [Promise!Next]_(Promise!vars)
  <2> SUFFICES ASSUME BaseInv, InSight', [Next]_vars
               PROVE  Promise!Next \/ UNCHANGED Promise!vars
    OBVIOUS
  <2>1. CASE Moves!Next
    BY <2>1, MovesOfSound
  <2>2. CASE UNCHANGED Moves!vars
    BY <2>2 DEF Moves!vars, Promise!vars
  <2> QED BY <2>1, <2>2, NextImplements DEF BaseInv
<1> HIDE DEF InSight
<1>4. Spec => Promise!Spec
  BY <1>1, <1>2, <1>3, RecoveryAlways, PTL DEF Spec, Promise!Spec
<1> QED BY <1>4 DEF ImplementsBestChain

(***************************************************************************)
(* The node always starts again: the stored chain passes VerifyDB, and no  *)
(* block it needs afterwards is missing.                                   *)
(***************************************************************************)
THEOREM AlwaysStartsAgain == ASSUME OrderlyDisk PROVE Spec => []NeverCorrupt
<1>1. RecoveryInv => NeverCorrupt
  BY DEF RecoveryInv
<1> QED BY <1>1, RecoveryAlways, PTL

(***************************************************************************)
(* BLOCK_FAILED_VALID is set only on a block ConnectBlock refuses,         *)
(* BLOCK_FAILED_CHILD only above one, in memory and in what any stop       *)
(* leaves on disk.                                                         *)
(***************************************************************************)
THEOREM FailuresAreDeserved == ASSUME OrderlyDisk PROVE Spec => []FailedDeserved
<1>1. RecoveryInv => FailedDeserved
  <2> SUFFICES ASSUME RecoveryInv, NEW t \in treeOld \cup {TreeOf(index, lastFile)}
               PROVE  Deserved(t.index)
    BY DEF FailedDeserved, Deserved
  <2>1. TreeOf(index, lastFile).index = index
    BY TreeOfFields
  <2> QED BY <2>1 DEF RecoveryInv, FailInv
<1> QED BY <1>1, RecoveryAlways, PTL

-----------------------------------------------------------------------------
(***************************************************************************)
(* No candidate is forgotten.                                              *)
(***************************************************************************)
\* A block of b's chain is marked as failed.
FailedAncestor(b) == \E f \in Chain[b] : f \in Known /\ Failed(f)

Settled(b) == ChainTrust[b] <= TrustOf(best) \/ FailedAncestor(b)

SettledInv ==
  aborted = "no" =>
    /\ pc \in {"idle", "orphans", "index"} => \A b \in validSet : Settled(b)
    /\ pc = "best" /\ ctx # "init" => \A b \in validSet \ {cur} : Settled(b)
    /\ Connecting /\ ctx # "init" => attach = {cur} /\ \A b \in validSet \ {cur} : Settled(b)
    /\ Connecting /\ ctx = "init" =>
         \A b \in validSet : Settled(b) \/ \E a \in attach : ChainTrust[b] <= ChainTrust[a]

LEMMA TrustIsPositive ==
  ASSUME NEW b \in Blocks
  PROVE  ChainTrust[b] \in Nat /\ ChainTrust[b] > 0
<1>1. Trust[b] \in Nat \ {0} /\ ChainTrust[b] \in Nat
  BY TreeAssumption, ChainTrustDef
<1>2. CASE b = Genesis
  <2>1. ChainTrust[b] = Trust[b] + 0
    BY <1>2, ChainTrustDef
  <2> QED BY <1>1, <2>1
<1>3. CASE b # Genesis
  <2>1. ChainTrust[b] = Trust[b] + ChainTrust[Prev[b]] /\ Prev[b] \in Blocks
    BY <1>3, ChainTrustDef, PrevIsBlock
  <2>2. ChainTrust[Prev[b]] \in Nat
    BY <2>1, ChainTrustDef
  <2> QED BY <1>1, <2>1, <2>2
<1> QED BY <1>2, <1>3

\* A marked block stays indexed and marked while the node runs.
MarksStay == \A f \in Known : Failed(f) => f \in Known' /\ Failed(f)'

LEMMA SettledStays ==
  ASSUME MarksStay, NEW b \in Blocks, Settled(b),
         TrustOf(best) \in Nat, TrustOf(best)' \in Nat, TrustOf(best) <= TrustOf(best)'
  PROVE  Settled(b)'
<1>1. ChainTrust[b] \in Nat
  BY ChainTrustDef
<1>2. CASE ChainTrust[b] <= TrustOf(best)
  BY <1>1, <1>2 DEF Settled
<1>3. CASE FailedAncestor(b)
  BY <1>3 DEF Settled, FailedAncestor, MarksStay
<1> QED BY <1>2, <1>3 DEF Settled

\* What is on a valid chain has no failed ancestor.
LEMMA SoundHasNoFailure ==
  ASSUME TypeInv, FailInv, NEW b \in Blocks, Sound(b)
  PROVE  ~FailedAncestor(b)
<1> SUFFICES ASSUME NEW f \in Chain[b], f \in Known, Failed(f) PROVE FALSE
  BY DEF FailedAncestor
<1>1. Chain[f] \cap Invalid # {}
  BY FailedIsUnsound DEF TypeInv, IndexInv, FailInv, Failed, Known
<1>2. Chain[f] \subseteq Chain[b]
  BY ChainTransitive
<1> QED BY <1>1, <1>2 DEF Sound

\* The walk of ConnectBestBlock need not go further back than the main chain.
LEMMA WalkIsEnough ==
  ASSUME BaseInv, BackedInv, FailInv, InStep, NEW b \in Blocks, FailedOn(b) = {}
  PROVE  ~FailedAncestor(b)
<1> SUFFICES ASSUME NEW f \in Chain[b], f \in Known, Failed(f) PROVE FALSE
  BY DEF FailedAncestor
<1>1. f \notin Walked(b)
  BY DEF FailedOn
<1>2. PICK d \in Chain[b] : Height[d] > Height[f] /\ Stops(d)
  BY <1>1 DEF Walked
<1>3. d \in Blocks /\ f \in Blocks /\ Chain[b] \subseteq Blocks
  BY ChainEnds
<1>4. Height[d] \in Nat /\ Height[f] \in Nat
  BY <1>3, HeightDef
<1>5. Prev[d] # Null
  <2> SUFFICES ASSUME d = Genesis PROVE FALSE
    BY <1>3, TreeAssumption
  <2>1. Height[d] = 0
    BY <1>3, HeightDef
  <2> QED BY <1>2, <1>4, <2>1
<1>6. pnext[d] # Null
  BY <1>2, <1>5 DEF Stops
<1>7. d \in ChainOf(best)
  BY <1>3, <1>6 DEF BaseInv, PnextInv, SpellsChain
<1>8. best \in Blocks /\ d \in Chain[best] /\ Sound(best)
  <2>1. best # Null
    BY <1>7 DEF ChainOf
  <2> QED BY <1>7, <2>1, TipIsBlock
          DEF BaseInv, TypeInv, SoundInv, JudgedOrNull, Judged, Doubtful, BackedInv, ChainOf
<1>9. f \in Chain[d]
  BY <1>2, <1>3, <1>4, LowerIsAncestor
<1>10. f \in Chain[best]
  BY <1>8, <1>9, ChainTransitive
<1>11. FailedAncestor(best)
  BY <1>10 DEF FailedAncestor
<1> QED BY <1>8, <1>11, SoundHasNoFailure DEF BaseInv

\* The candidate has more trust than the best block, so it ends vAttach.
LEMMA CandidateIsMore ==
  ASSUME BaseInv, BackedInv, FailInv, HasCandidate
  PROVE  /\ Top \in Blocks /\ Top \in validSet /\ ChainTrust[Top] > TrustOf(best)
         /\ Top \in Attach(Top)
         /\ \A c \in Attach(Top) : ChainTrust[c] > TrustOf(best)
<1>1. validSet # {} /\ pc = "best" /\ Running /\ (best # Null => ChainTrust[Top] # ChainTrust[best])
  BY DEF HasCandidate, Running
<1>2. Top \in Blocks /\ Top \in validSet /\ validSet \subseteq Blocks
  BY <1>1, AttachIsKnown, TipIsBlock DEF BaseInv, TypeInv, KnownInv
<1>3. ChainTrust[Top] \in Nat /\ ChainTrust[Top] > 0
  BY <1>2, TrustIsPositive
<1>4. ChainTrust[Top] > TrustOf(best)
  <2>1. CASE best = Null
    BY <1>3, <2>1 DEF TrustOf
  <2>2. CASE best # Null
    <3>1. best \in Known /\ best \in Blocks /\ Sound(best)
      BY <2>2, TipIsBlock
         DEF BaseInv, TypeInv, KnownInv, SoundInv, JudgedOrNull, Judged, Doubtful, BackedInv
    <3>2. best \in validSet
      BY <1>1, <3>1, SoundIsCandidate DEF BaseInv
    <3>3. ChainTrust[best] <= ChainTrust[Top] /\ ChainTrust[best] \in Nat
      BY <1>1, <1>2, <3>1, <3>2, TopIsBest, ChainTrustDef
    <3> QED BY <1>1, <1>3, <2>2, <3>3 DEF TrustOf
  <2> QED BY <2>1, <2>2
<1>5. Top \in Walked(Top)
  <2>1. Top \in Chain[Top] /\ Chain[Top] \subseteq Blocks
    BY <1>2, ChainEnds
  <2>2. ASSUME NEW d \in Chain[Top] PROVE ~(Height[d] > Height[Top])
    <3>1. Height[d] \in Nat /\ Height[Top] \in Nat
      BY <1>2, <2>1, HeightDef
    <3> QED BY <1>2, <3>1, AncestorIsLess
  <2> QED BY <2>1, <2>2 DEF Walked
<1>6. ASSUME NEW c \in Attach(Top) PROVE ChainTrust[c] > TrustOf(best)
  <2>1. c \in Blocks
    BY <1>2, ChainEnds DEF Attach, Walked
  <2> QED BY <2>1, TrustIsPositive DEF Attach, TrustOf
<1> QED BY <1>2, <1>4, <1>5, <1>6 DEF Attach, TrustOf

\* The chain of a candidate that is not settled is free of failures, and of the
\* blocks that a running node has not settled there is only the new one.
LEMMA AttachIsCurrent ==
  ASSUME BaseInv, BackedInv, FailInv, SettledInv, aborted = "no", ChooseAttach, ctx # "init"
  PROVE  attach' = {cur}
<1>1. HasCandidate /\ FailedOn(Top) = {} /\ attach' = Attach(Top) /\ pc = "best" /\ Running
  BY DEF ChooseAttach, HasCandidate, Running
<1>2. /\ Top \in Blocks /\ Top \in Attach(Top)
      /\ \A c \in Attach(Top) : ChainTrust[c] > TrustOf(best)
  BY <1>1, CandidateIsMore
<1>3. ~FailedAncestor(Top)
  BY <1>1, <1>2, WalkIsEnough DEF InStep
<1>4. Attach(Top) \subseteq Chain[Top] /\ Chain[Top] \subseteq Known /\ Chain[Top] \subseteq Blocks
  BY <1>1, <1>2, AttachIsKnown, ChainEnds DEF HasCandidate, BaseInv, TypeInv
<1>5. ASSUME NEW c \in Attach(Top) PROVE c = cur
  <2>1. c \in Known /\ c \in Blocks /\ ~Failed(c)
    BY <1>1, <1>4 DEF FailedOn, Attach
  <2>2. c \in validSet
    BY <1>1, <2>1 DEF FailInv
  <2>3. ~(ChainTrust[c] <= TrustOf(best))
    <3>1. ChainTrust[c] \in Nat /\ TrustOf(best) \in Nat
      BY <2>1, TipIsBlock, TrustOfNat, ChainTrustDef DEF BaseInv, TypeInv
    <3> QED BY <1>2, <3>1
  <2>4. ~FailedAncestor(c)
    <3>1. Chain[c] \subseteq Chain[Top]
      BY <1>2, <1>4, ChainTransitive
    <3> QED BY <1>3, <3>1 DEF FailedAncestor
  <2> QED BY <1>1, <2>2, <2>3, <2>4 DEF SettledInv, Settled
<1> QED BY <1>1, <1>2, <1>5

\* The steps that leave the flags, the candidates and the best block alone.
LEMMA SettledFrame ==
  ASSUME TypeInv, SettledInv, aborted = "no", MarksStay, validSet' \subseteq validSet, best' = best,
         \/ pc \in {"idle", "orphans", "index"} /\ pc' \in {"idle", "orphans", "index"}
         \/ pc = "best" /\ pc' = "best" /\ UNCHANGED <<ctx, cur>>
         \/ Connecting /\ Connecting' /\ UNCHANGED <<ctx, cur, attach>>
  PROVE  SettledInv'
<1>1. TrustOf(best)' = TrustOf(best) /\ TrustOf(best) \in Nat /\ validSet \subseteq Blocks
  BY TipIsBlock, TrustOfNat DEF TypeInv, KnownInv, TrustOf
<1>2. ASSUME NEW b \in validSet', Settled(b) PROVE Settled(b)'
  BY <1>1, <1>2, SettledStays
<1> QED BY <1>2 DEF SettledInv, Connecting

\* Flags are only ever added, and an entry is only ever added with its flags empty.
LEMMA IndexKeepsMarks ==
  ASSUME DOMAIN index \subseteq DOMAIN index', \A f \in DOMAIN index : index[f] \subseteq index'[f]
  PROVE  MarksStay
BY DEF MarksStay, Known, Failed

LEMMA NextKeepsSettled ==
  ASSUME BaseInv, RecoveryInv, SettledInv, [Next]_vars
  PROVE  SettledInv'
<1> SUFFICES ASSUME aborted' = "no" PROVE SettledInv'
  BY DEF SettledInv
<1>0. TypeInv /\ FailInv /\ StoreInv /\ BackedInv /\ FreshInv
  BY DEF BaseInv, RecoveryInv
<1>a. ASSUME UNCHANGED index PROVE MarksStay
  BY <1>a, IndexKeepsMarks
<1>b. ASSUME Running, aborted = "no" PROVE InStep
  BY <1>b DEF InStep
<1>c. TrustOf(best) \in Nat /\ validSet \subseteq Blocks /\ best \in Blocks \cup {Null}
  BY <1>0, TipIsBlock, TrustOfNat DEF TypeInv, KnownInv
<1>d. ASSUME pc' \notin {"idle", "orphans", "index", "best", "switch", "connect"} PROVE SettledInv'
  BY <1>d DEF SettledInv, Connecting
<1>1. ASSUME NEW b \in Blocks, Deliver(b) PROVE SettledInv'
  <2>1. UNCHANGED <<index, validSet, best>> /\ pc = "idle"
    BY <1>1 DEF Deliver, ReceiveOrphan, ReceiveBlock
  <2>2. aborted = "no" /\ pc' \in {"idle", "index"}
    BY <1>1 DEF Deliver, ReceiveOrphan, ReceiveBlock, StoreBlock, StoreFails, control
  <2> QED BY <1>0, <1>a, <2>1, <2>2, SettledFrame
<1>2. CASE AddToBlockIndex
  <2>1. /\ pc = "index" /\ pc' = "best" /\ index' = WithEntry(index, cur)
        /\ validSet' = validSet \cup {cur} /\ UNCHANGED <<best, ctx, cur, aborted>>
    BY <1>2 DEF AddToBlockIndex
  <2>2. MarksStay
    <3>1. cur \notin DOMAIN index
      BY <1>0, <2>1 DEF FreshInv, Known
    <3> QED BY <2>1, <3>1, IndexKeepsMarks DEF WithEntry
  <2>3. ASSUME NEW b \in validSet PROVE Settled(b)'
    <3>1. Settled(b)
      BY <2>1 DEF SettledInv
    <3>2. TrustOf(best)' = TrustOf(best)
      BY <2>1 DEF TrustOf
    <3> QED BY <1>c, <2>2, <3>1, <3>2, SettledStays
  <2> QED BY <2>1, <2>3 DEF SettledInv, Connecting
<1>3. ASSUME NEW o \in Blocks, ProcessOrphan(o) PROVE SettledInv'
  <2>1. UNCHANGED <<index, validSet, best>> /\ pc = "orphans"
    BY <1>3 DEF ProcessOrphan
  <2>2. aborted = "no" /\ pc' \in {"orphans", "index"}
    BY <1>3 DEF ProcessOrphan, StoreBlock, StoreFails
  <2> QED BY <1>0, <1>a, <2>1, <2>2, SettledFrame
<1>4. CASE OrphansDone
  <2>1. UNCHANGED <<index, validSet, best, aborted>> /\ pc = "orphans" /\ pc' = "idle"
    BY <1>4 DEF OrphansDone, memory
  <2> QED BY <1>0, <1>a, <2>1, SettledFrame
<1>5. CASE NothingToDo
  <2>1. /\ UNCHANGED <<index, validSet, best>> /\ pc' \in {"idle", "orphans"}
        /\ validSet = {} \/ Top = best \/ (best # Null /\ ChainTrust[Top] = ChainTrust[best])
    BY <1>5 DEF NothingToDo, memory, Returned
  <2>2. ASSUME NEW b \in validSet PROVE Settled(b)'
    <3>1. Top \in validSet /\ ChainTrust[b] <= ChainTrust[Top]
      BY <1>c, TopIsBest
    <3>2. best # Null /\ ChainTrust[Top] = ChainTrust[best]
      BY <1>c, <2>1, <3>1, NullIsNoBlock
    <3> QED BY <2>1, <3>1, <3>2 DEF Settled, TrustOf
  <2> QED BY <2>1, <2>2 DEF SettledInv, Connecting
<1>6. CASE MarkFailedChild
  <2>1. /\ pc = "best" /\ pc' \in {"best", "down"} /\ UNCHANGED <<best, ctx, cur, aborted>>
    BY <1>6 DEF MarkFailedChild, HasCandidate
  <2>2. MarksStay /\ validSet' \subseteq validSet
    BY <1>6, MarkFailedChildMeans, IndexKeepsMarks DEF Known
  <2> QED BY <1>0, <1>d, <2>1, <2>2, SettledFrame
<1>7. CASE ChooseAttach
  <2>1. /\ UNCHANGED <<index, validSet, best, ctx, cur, aborted>> /\ HasCandidate
        /\ pc = "best" /\ attach' = Attach(Top)
    BY <1>7 DEF ChooseAttach, memory, HasCandidate
  <2>2. Top \in Blocks /\ Top \in Attach(Top)
    BY <1>0, <2>1, CandidateIsMore
  <2>3. pc' = "switch"
    BY <1>7, <2>1, <2>2 DEF ChooseAttach
  <2>4. CASE ctx = "init"
    <3>1. \A b \in validSet : ChainTrust[b] <= ChainTrust[Top]
      BY <1>c, <2>1, TopIsBest DEF HasCandidate
    <3> QED BY <2>1, <2>2, <2>3, <2>4, <3>1 DEF SettledInv, Connecting
  <2>5. CASE ctx # "init"
    <3>1. attach' = {cur}
      BY <1>0, <1>7, <2>1, <2>5, AttachIsCurrent
    <3>2. ASSUME NEW b \in validSet \ {cur} PROVE Settled(b)'
      <4>1. Settled(b)
        BY <2>1, <2>5 DEF SettledInv
      <4>2. TrustOf(best)' = TrustOf(best)
        BY <2>1 DEF TrustOf
      <4> QED BY <1>a, <1>c, <2>1, <4>1, <4>2, SettledStays
    <3> QED BY <2>1, <2>3, <2>5, <3>1, <3>2 DEF SettledInv, Connecting
  <2> QED BY <2>4, <2>5
<1>8. CASE Disconnect
  <2>1. /\ UNCHANGED <<index, validSet, best, ctx, cur, attach, aborted>>
        /\ Connecting /\ pc' = "connect"
    BY <1>8 DEF Disconnect, memory, Connecting
  <2> QED BY <1>0, <1>a, <2>1, SettledFrame DEF Connecting
<1>9. CASE DisconnectFails
  BY <1>0, <1>9, DisconnectNeverFails
<1>10. CASE ConnectBlock
  <2>1. /\ UNCHANGED <<validSet, best, ctx, cur, attach, aborted, pc>> /\ pc = "connect" /\ conn # {}
        /\ \/ UNCHANGED index
           \/ index' = [index EXCEPT ![Lowest(conn)] = @ \cup {"HAVE_UNDO"}]
    BY <1>10 DEF ConnectBlock, WriteUndo
  <2>2. Lowest(conn) \in DOMAIN index
    BY <2>1, NextToConnect DEF Known
  <2>3. MarksStay
    <3>1. CASE index' = [index EXCEPT ![Lowest(conn)] = @ \cup {"HAVE_UNDO"}]
      BY <2>2, <3>1, IndexKeepsMarks
    <3> QED BY <1>a, <2>1, <3>1
  <2> QED BY <1>0, <2>1, <2>3, SettledFrame DEF Connecting
<1>11. CASE ConnectInvalid
  <2>0. PICK f : f = Lowest(conn)
    OBVIOUS
  <2>1. /\ UNCHANGED <<best, ctx, cur, aborted>> /\ pc = "connect" /\ conn # {}
        /\ index' = [index EXCEPT ![f] = @ \cup {"FAILED_VALID"}]
        /\ validSet' = validSet \ {f}
    BY <1>11, <2>0 DEF ConnectInvalid, InvalidBlockFound
  <2>2. f \in DOMAIN index /\ f \in Chain[New]
    BY <2>0, <2>1, NextToConnect DEF Known
  <2>3. MarksStay
    BY <2>1, <2>2, IndexKeepsMarks
  <2>4. f \in Known' /\ Failed(f)'
    BY <2>1, <2>2 DEF Known, Failed, FailedMask
  <2>5. CASE ctx = "init"
    <3>1. pc' = "down"
      BY <1>11, <2>5 DEF ConnectInvalid, Returned
    <3> QED BY <1>d, <3>1
  <2>6. CASE ctx # "init"
    <3>1. attach = {cur} /\ \A b \in validSet \ {cur} : Settled(b)
      BY <2>1, <2>6 DEF SettledInv, Connecting
    <3>2. New = cur
      BY <1>0, <2>1, <3>1, NewIsKnown DEF TypeInv, Connecting
    <3>3. FailedAncestor(cur)'
      BY <2>1, <2>2, <2>4, <3>2 DEF FailedAncestor
    <3>4. ASSUME NEW b \in validSet' PROVE Settled(b)'
      <4>1. CASE b = cur
        BY <2>1, <3>3, <4>1 DEF Settled, FailedAncestor
      <4>2. CASE b # cur
        <5>1. Settled(b) /\ b \in Blocks
          BY <1>c, <2>1, <3>1, <4>2
        <5>2. TrustOf(best)' = TrustOf(best)
          BY <2>1 DEF TrustOf
        <5> QED BY <1>c, <2>3, <5>1, <5>2, SettledStays
      <4> QED BY <4>1, <4>2
    <3>5. pc' \in {"idle", "orphans"}
      BY <1>11, <2>6 DEF ConnectInvalid, Returned
    <3> QED BY <3>4, <3>5 DEF SettledInv, Connecting
  <2> QED BY <2>5, <2>6
<1>12. CASE ConnectUnreadable \/ ConnectNoSpace \/ CommitNoSpace
  BY <1>12 DEF ConnectUnreadable, ConnectNoSpace, CommitNoSpace
<1>13. CASE Commit
  <2>1. /\ UNCHANGED <<index, validSet, ctx, cur, aborted>> /\ pc = "connect" /\ conn = {}
        /\ best' = New /\ attach' = attach \ {New}
        /\ pc' = IF attach' # {} THEN "switch" ELSE IF ctx = "init" THEN "idle" ELSE "orphans"
    BY <1>13 DEF Commit
  <2>2. New \in attach /\ New \in Blocks /\ TrustOf(New) > TrustOf(best)
    BY <1>0, <2>1, NewIsJudged DEF BaseInv
  <2>3. New # Null /\ TrustOf(New) \in Nat
    BY <2>2, NullIsNoBlock, TrustOfNat
  <2>4. TrustOf(best)' = ChainTrust[New] /\ TrustOf(best)' \in Nat /\ TrustOf(best) <= TrustOf(best)'
    BY <1>c, <2>1, <2>2, <2>3 DEF TrustOf
  <2>5. ASSUME NEW b \in validSet, Settled(b) PROVE Settled(b)'
    BY <1>a, <1>c, <2>1, <2>4, <2>5, SettledStays
  <2>6. ASSUME NEW b \in validSet, ChainTrust[b] <= ChainTrust[New] PROVE Settled(b)'
    BY <2>4, <2>6 DEF Settled
  <2>7. CASE ctx = "init"
    <3>1. \A b \in validSet : Settled(b) \/ \E a \in attach : ChainTrust[b] <= ChainTrust[a]
      BY <2>1, <2>7 DEF SettledInv, Connecting
    <3>2. \A b \in validSet : Settled(b)' \/ \E a \in attach' : ChainTrust[b] <= ChainTrust[a]
      BY <2>1, <2>5, <2>6, <3>1
    <3> QED BY <2>1, <2>7, <3>2 DEF SettledInv, Connecting
  <2>8. CASE ctx # "init"
    <3>1. attach = {cur} /\ \A b \in validSet \ {cur} : Settled(b)
      BY <2>1, <2>8 DEF SettledInv, Connecting
    <3>2. New = cur /\ attach' = {}
      BY <2>1, <2>2, <3>1
    <3>3. ChainTrust[New] <= ChainTrust[New]
      BY <2>2, TrustIsPositive
    <3>4. \A b \in validSet : Settled(b)'
      BY <2>5, <2>6, <3>1, <3>2, <3>3
    <3> QED BY <2>1, <2>8, <3>2, <3>4 DEF SettledInv, Connecting
  <2> QED BY <2>7, <2>8
<1>14. CASE Start
  <2>1. pc' \in {"best", "corrupt"} /\ ctx' = "init"
    BY <1>14 DEF Start
  <2> QED BY <2>1 DEF SettledInv, Connecting
<1>15. CASE Shutdown \/ Crash \/ PowerLoss
  <2>1. pc' = "down"
    BY <1>15 DEF Shutdown, Crash, PowerLoss
  <2> QED BY <1>d, <2>1
<1>16. CASE UNCHANGED vars
  <2>1. UNCHANGED <<index, validSet, best, pc, ctx, cur, attach, aborted>>
    BY <1>16 DEF vars, memory, control
  <2>2. MarksStay
    BY <1>a, <2>1
  <2> QED BY <1>0, <1>d, <2>1, <2>2, SettledFrame DEF Connecting
<1> QED
  BY <1>1, <1>2, <1>3, <1>4, <1>5, <1>6, <1>7, <1>8, <1>9, <1>10, <1>11, <1>12, <1>13, <1>14,
     <1>15, <1>16 DEF Next, Work

(***************************************************************************)
(* No orphan is forgotten.                                                 *)
(***************************************************************************)
\* ProcessBlock will still come to the orphans of b.
Awaited(b) == b \in queue \/ ((pc = "best" \/ Connecting) /\ ctx # "init" /\ b = cur)

\* ProcessBlock's first AcceptBlock is at work.
AcceptingBlock == ctx = "block" /\ (pc \in {"index", "best"} \/ Connecting)

QueueInv ==
  /\ pc = "idle" => queue = {}
  /\ Running /\ ctx = "init" => queue = {}
  /\ AcceptingBlock => queue = {}

WaitingInv ==
  /\ QueueInv
  /\ aborted = "no" /\ Running =>
       \A o \in orphans : Prev[o] \in Known /\ Sound(Prev[o]) => Awaited(Prev[o])

LEMMA WaitingFrame ==
  ASSUME WaitingInv, QueueInv', Running, orphans' \subseteq orphans, Known' = Known,
         aborted' = "no" => aborted = "no",
         aborted' = "no" =>
           \A o \in orphans : Prev[o] \in Known /\ Sound(Prev[o]) /\ Awaited(Prev[o]) => Awaited(Prev[o])'
  PROVE  WaitingInv'
BY DEF WaitingInv

LEMMA ReturnedKeepsQueue ==
  ASSUME NEW ok \in BOOLEAN, NEW n, QueueInv, Running, pc = "best" \/ Connecting,
         Returned(ok, n), ctx' = ctx, ctx \in {"block", "orphan", "init"}
  PROVE  QueueInv'
<1>1. pc' \in {"down", "idle", "orphans"} /\ queue' = Accepted(ok)
  BY DEF Returned
<1>2. ~AcceptingBlock'
  BY <1>1 DEF AcceptingBlock, Connecting
<1>3. CASE ctx = "init"
  BY <1>1, <1>2, <1>3 DEF QueueInv, Accepted
<1>4. CASE ctx = "block"
  <2>1. queue = {}
    BY <1>4 DEF QueueInv, AcceptingBlock
  <2>2. pc' = "idle" => ~ok
    BY <1>4 DEF Returned
  <2> QED BY <1>1, <1>2, <1>4, <2>1, <2>2 DEF QueueInv, Accepted
<1>5. CASE ctx = "orphan"
  <2>1. pc' = "orphans"
    BY <1>5 DEF Returned
  <2> QED BY <1>2, <1>5, <2>1 DEF QueueInv
<1> QED BY <1>3, <1>4, <1>5

\* A block that was accepted, or is invalid, leaves no orphan unseen.
LEMMA ReturnedKeepsWaiting ==
  ASSUME NEW ok \in BOOLEAN, NEW n, WaitingInv, Running, pc = "best" \/ Connecting,
         Returned(ok, n), UNCHANGED <<ctx, cur, orphans>>, Known' = Known,
         ctx \in {"block", "orphan", "init"}, aborted' = "no" => aborted = "no",
         aborted' = "no" /\ ~ok /\ ctx # "init" => ~Sound(cur)
  PROVE  WaitingInv'
<1>1. QueueInv'
  BY ReturnedKeepsQueue DEF WaitingInv
<1>2. queue' = Accepted(ok)
  BY DEF Returned
<1>3. ASSUME NEW o \in orphans, Awaited(Prev[o]), Sound(Prev[o]), aborted' = "no"
      PROVE  Awaited(Prev[o])'
  <2>1. Prev[o] \in queue'
    BY <1>2, <1>3 DEF Awaited, Accepted
  <2> QED BY <2>1 DEF Awaited
<1> QED BY <1>1, <1>3, WaitingFrame

LEMMA NextKeepsWaiting ==
  ASSUME BaseInv, RecoveryInv, SettledInv, WaitingInv, [Next]_vars
  PROVE  WaitingInv'
<1>0. TypeInv /\ StoreInv /\ BackedInv /\ QueueInv
  BY DEF BaseInv, RecoveryInv, WaitingInv
<1>a. ctx \in {"block", "orphan", "init"}
  <2>1. ControlInv
    BY <1>0 DEF TypeInv
  <2> QED BY <2>1, Zenon DEF ControlInv
<1>b. ASSUME pc' \in {"down", "corrupt"} PROVE WaitingInv'
  BY <1>b DEF WaitingInv, QueueInv, Running, AcceptingBlock, Connecting
<1>1. ASSUME NEW b \in Blocks, ReceiveOrphan(b) PROVE WaitingInv'
  <2>1. /\ UNCHANGED <<index, pc, ctx, cur, queue, aborted>> /\ orphans' = orphans \cup {b}
        /\ Prev[b] \notin Known /\ Known' = Known
    BY <1>1 DEF ReceiveOrphan, control, Known
  <2>2. QueueInv'
    BY <1>0, <2>1 DEF QueueInv, Running, AcceptingBlock, Connecting
  <2> QED BY <2>1, <2>2 DEF WaitingInv, Awaited, Running, Connecting
<1>2. ASSUME NEW b \in Blocks, ReceiveBlock(b) PROVE WaitingInv'
  <2>1. UNCHANGED <<index, orphans, queue>> /\ pc = "idle" /\ Running /\ queue = {} /\ Known' = Known
    BY <1>0, <1>2 DEF ReceiveBlock, Known, Running, QueueInv
  <2>2. aborted' = "no" => aborted = "no"
    BY <1>2 DEF ReceiveBlock, StoreBlock, StoreFails
  <2>3. QueueInv'
    BY <2>1 DEF QueueInv
  <2>4. \A o \in orphans : ~Awaited(Prev[o])
    BY <2>1 DEF Awaited, Connecting
  <2> QED BY <2>1, <2>2, <2>3, <2>4, WaitingFrame
<1>3. CASE AddToBlockIndex
  <2>1. /\ pc = "index" /\ pc' = "best" /\ index' = WithEntry(index, cur)
        /\ UNCHANGED <<orphans, ctx, cur, queue, aborted>> /\ Running /\ Running'
    BY <1>3 DEF AddToBlockIndex, Running
  <2>2. Known' = Known \cup {cur} /\ ctx # "init"
    BY <1>0, <2>1 DEF WithEntry, Known, TypeInv, KnownInv
  <2>3. QueueInv'
    BY <1>0, <2>1, <2>2 DEF QueueInv, AcceptingBlock
  <2> QED BY <2>1, <2>2, <2>3 DEF WaitingInv, Awaited, Connecting
<1>4. ASSUME NEW o \in Blocks, ProcessOrphan(o) PROVE WaitingInv'
  <2>1. UNCHANGED <<index, queue>> /\ orphans' \subseteq orphans /\ pc = "orphans" /\ Running
        /\ Known' = Known
    BY <1>4 DEF ProcessOrphan, Known, Running
  <2>2. (pc' = "index" /\ ctx' = "orphan") \/ UNCHANGED <<pc, ctx>>
    BY <1>4 DEF ProcessOrphan
  <2>3. aborted' = "no" => aborted = "no"
    BY <1>4 DEF ProcessOrphan, StoreBlock, StoreFails
  <2>4. QueueInv'
    BY <1>0, <2>1, <2>2 DEF QueueInv, AcceptingBlock, Connecting
  <2>5. \A x \in orphans : Awaited(Prev[x]) => Awaited(Prev[x])'
    BY <2>1 DEF Awaited, Connecting
  <2> QED BY <2>1, <2>3, <2>4, <2>5, WaitingFrame
<1>5. CASE OrphansDone
  <2>1. /\ UNCHANGED <<index, orphans, aborted>> /\ pc = "orphans" /\ Running /\ queue' = {}
        /\ \A o \in orphans : Prev[o] \notin queue
    BY <1>5 DEF OrphansDone, memory, Running
  <2>2. QueueInv' /\ Known' = Known
    BY <2>1 DEF QueueInv, Known
  <2>3. \A o \in orphans : ~Awaited(Prev[o])
    BY <2>1 DEF Awaited, Connecting
  <2> QED BY <2>1, <2>2, <2>3, WaitingFrame
<1>6. CASE NothingToDo
  <2>1. /\ UNCHANGED <<index, orphans, ctx, cur, aborted>> /\ pc = "best" /\ Running
        /\ Returned(TRUE, tip) /\ Known' = Known
    BY <1>6 DEF NothingToDo, memory, Running, Known
  <2> QED BY <1>a, <2>1, ReturnedKeepsWaiting
<1>7. CASE MarkFailedChild
  <2>1. /\ UNCHANGED <<orphans, ctx, cur, queue, aborted>> /\ pc = "best" /\ pc' \in {"best", "down"}
        /\ Running /\ Known' = Known
    BY <1>7 DEF MarkFailedChild, HasCandidate, Running, Known
  <2>2. ASSUME pc' = "best" PROVE QueueInv' /\ \A b : Awaited(b)' = Awaited(b)
    BY <1>0, <2>1, <2>2 DEF QueueInv, Running, AcceptingBlock, Awaited, Connecting
  <2> QED BY <1>b, <2>1, <2>2, WaitingFrame
<1>8. CASE ChooseAttach
  <2>1. /\ UNCHANGED <<index, orphans, ctx, cur, aborted>> /\ pc = "best" /\ Running /\ Known' = Known
        /\ (pc' = "switch" /\ queue' = queue) \/ Returned(TRUE, tip)
    BY <1>8 DEF ChooseAttach, memory, HasCandidate, Running, Known
  <2>2. CASE pc' = "switch" /\ queue' = queue
    <3>1. QueueInv' /\ \A b : Awaited(b)' = Awaited(b)
      BY <1>0, <2>1, <2>2 DEF QueueInv, AcceptingBlock, Connecting, Awaited
    <3> QED BY <2>1, <3>1, WaitingFrame
  <2> QED BY <1>a, <2>1, <2>2, ReturnedKeepsWaiting
<1>9. CASE Disconnect \/ ConnectBlock
  <2>1. /\ UNCHANGED <<orphans, ctx, cur, queue, aborted>> /\ Connecting /\ pc' = "connect" /\ Running
    BY <1>9 DEF Disconnect, ConnectBlock, memory, Connecting, Running
  <2>2. Known' = Known
    BY <1>9 DEF Disconnect, ConnectBlock, WriteUndo, memory, Known
  <2>3. QueueInv' /\ \A b : Awaited(b)' = Awaited(b)
    BY <1>0, <2>1 DEF QueueInv, AcceptingBlock, Connecting, Awaited
  <2> QED BY <2>1, <2>2, <2>3, WaitingFrame
<1>10. CASE DisconnectFails
  BY <1>0, <1>10, DisconnectNeverFails
<1>11. CASE ConnectInvalid
  <2>1. /\ UNCHANGED <<orphans, ctx, cur, aborted>> /\ pc = "connect" /\ conn # {} /\ Connecting /\ Running
        /\ Returned(FALSE, tip) /\ Fails(Lowest(conn))
    BY <1>11 DEF ConnectInvalid, Connecting, Running
  <2>2. Known' = Known
    BY <1>11 DEF ConnectInvalid, InvalidBlockFound, Known
  <2>3. ASSUME aborted' = "no", ctx # "init" PROVE ~Sound(cur)
    <3>1. attach = {cur}
      BY <2>1, <2>3 DEF SettledInv
    <3>2. New = cur
      BY <1>0, <2>1, <3>1, NewIsKnown DEF TypeInv
    <3>3. Lowest(conn) \in Invalid /\ Lowest(conn) \in Chain[New]
      BY <1>0, <2>1, NextToConnect DEF BackedInv, Fails, Doubtful
    <3> QED BY <3>2, <3>3 DEF Sound
  <2> QED BY <1>a, <2>1, <2>2, <2>3, ReturnedKeepsWaiting
<1>12. CASE ConnectUnreadable \/ ConnectNoSpace
  <2>1. UNCHANGED <<index, orphans, ctx, cur>> /\ pc = "connect" /\ Returned(FALSE, tip)
    BY <1>12, Zenon DEF ConnectUnreadable, ConnectNoSpace, memory
  <2>2. ASSUME aborted' = "no" PROVE FALSE
    BY <1>12, <2>2 DEF ConnectUnreadable, ConnectNoSpace
  <2>3. Connecting /\ Running /\ Known' = Known
    BY <2>1 DEF Connecting, Running, Known
  <2> QED BY <1>a, <2>1, <2>2, <2>3, ReturnedKeepsWaiting
<1>13. CASE CommitNoSpace
  <2>1. UNCHANGED <<index, orphans, ctx, cur>> /\ pc = "connect" /\ Returned(FALSE, tip')
    BY <1>13, Zenon DEF CommitNoSpace
  <2>2. aborted' # "no"
    <3>1. aborted' = "no space"
      BY <1>13 DEF CommitNoSpace
    <3> QED BY <3>1
  <2>3. Connecting /\ Running /\ Known' = Known
    BY <2>1 DEF Connecting, Running, Known
  <2> QED BY <1>a, <2>1, <2>2, <2>3, ReturnedKeepsWaiting
<1>14. CASE Commit
  <2>1. /\ UNCHANGED <<index, orphans, ctx, cur, aborted>> /\ pc = "connect" /\ Running /\ Connecting
        /\ Known' = Known
    BY <1>14 DEF Commit, Running, Connecting, Known
  <2>2. CASE pc' = "switch" /\ queue' = queue
    <3>1. QueueInv' /\ \A b : Awaited(b)' = Awaited(b)
      BY <1>0, <2>1, <2>2 DEF QueueInv, AcceptingBlock, Connecting, Awaited
    <3> QED BY <2>1, <3>1, WaitingFrame
  <2>3. CASE queue' = Accepted(TRUE) /\ pc' = IF ctx = "init" THEN "idle" ELSE "orphans"
    <3>1. QueueInv'
      BY <1>0, <2>1, <2>3 DEF QueueInv, AcceptingBlock, Connecting, Accepted
    <3>2. \A b : Awaited(b) => Awaited(b)'
      BY <2>1, <2>3 DEF Awaited, Accepted
    <3> QED BY <2>1, <3>1, <3>2, WaitingFrame
  <2> QED BY <1>14, <2>2, <2>3 DEF Commit
<1>15. CASE Start
  BY <1>15 DEF Start, WaitingInv, QueueInv
<1>16. CASE Shutdown \/ Crash \/ PowerLoss
  BY <1>b, <1>16 DEF Shutdown, Crash, PowerLoss
<1>17. CASE UNCHANGED vars
  <2>1. UNCHANGED <<index, orphans, pc, ctx, cur, queue, aborted>>
    BY <1>17 DEF vars, memory, control
  <2> QED BY <2>1 DEF WaitingInv, QueueInv, Awaited, AcceptingBlock, Running, Connecting, Known
<1> QED
  BY <1>1, <1>2, <1>3, <1>4, <1>5, <1>6, <1>7, <1>8, <1>9, <1>10, <1>11, <1>12, <1>13, <1>14,
     <1>15, <1>16, <1>17 DEF Next, Work, Deliver

-----------------------------------------------------------------------------
LEMMA InitSettled == Init => SettledInv /\ WaitingInv
<1> SUFFICES ASSUME Init PROVE SettledInv /\ WaitingInv
  OBVIOUS
<1>1. /\ validSet = {Genesis} /\ best = Genesis /\ pc = "idle" /\ ctx = "block" /\ orphans = {}
      /\ queue = {}
  BY DEF Init
<1>2. TrustOf(best) = ChainTrust[Genesis] /\ ChainTrust[Genesis] \in Nat
  BY <1>1, NullIsNoBlock, ChainTrustDef DEF TrustOf
<1>3. Settled(Genesis)
  BY <1>2 DEF Settled
<1>4. SettledInv
  BY <1>1, <1>3 DEF SettledInv, Connecting
<1>5. WaitingInv
  BY <1>1 DEF WaitingInv, QueueInv
<1> QED BY <1>4, <1>5

LEMMA SettledAlways ==
  ASSUME OrderlyDisk PROVE Spec => [](BaseInv /\ RecoveryInv /\ SettledInv /\ WaitingInv)
<1>1. BaseInv /\ RecoveryInv /\ SettledInv /\ WaitingInv /\ [Next]_vars => SettledInv' /\ WaitingInv'
  BY NextKeepsSettled, NextKeepsWaiting
<1> QED BY <1>1, InitSettled, RecoveryAlways, PTL DEF Spec

(***************************************************************************)
(* Once ProcessBlock, or a start-up, is done, no indexed block on a wholly *)
(* valid chain has more trust than pindexBest: in whatever order blocks    *)
(* came and failed, ConnectBestBlock has not passed over a better chain.   *)
(***************************************************************************)
THEOREM BestHasMostWork == ASSUME OrderlyDisk PROVE Spec => []BestIsMostWork
<1>1. BaseInv /\ RecoveryInv /\ SettledInv => BestIsMostWork
  <2> SUFFICES ASSUME BaseInv, RecoveryInv, SettledInv, pc = "idle", aborted = "no",
                      NEW b \in Known, Sound(b)
               PROVE  ChainTrust[b] <= TrustOf(best)
    BY DEF BestIsMostWork
  <2>1. TypeInv /\ FailInv /\ Running
    BY DEF BaseInv, RecoveryInv, Running
  <2>2. b \in validSet /\ b \in Blocks
    BY <2>1, SoundIsCandidate, KnownIsAcceptable
  <2>3. Settled(b)
    BY <2>2 DEF SettledInv
  <2> QED BY <2>1, <2>2, <2>3, SoundHasNoFailure DEF Settled
<1> QED BY <1>1, SettledAlways, PTL

(***************************************************************************)
(* Once ProcessBlock is done, no orphan is left whose parent is indexed on *)
(* a valid chain: the loop over vWorkQueue has met them all.               *)
(***************************************************************************)
THEOREM OrphansAreTakenUp == ASSUME OrderlyDisk PROVE Spec => []NoOrphanLeftBehind
<1>1. WaitingInv => NoOrphanLeftBehind
  <2> SUFFICES ASSUME WaitingInv, pc = "idle", aborted = "no", NEW o \in orphans,
                      Prev[o] \in Known, Sound(Prev[o])
               PROVE  FALSE
    BY DEF NoOrphanLeftBehind
  <2>1. Running /\ queue = {}
    BY DEF Running, WaitingInv, QueueInv
  <2>2. Awaited(Prev[o])
    BY <2>1 DEF WaitingInv
  <2> QED BY <2>1, <2>2 DEF Awaited, Connecting
<1> QED BY <1>1, SettledAlways, PTL
=============================================================================
