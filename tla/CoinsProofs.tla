----------------------------- MODULE CoinsProofs -----------------------------
(***************************************************************************)
(* The coins of the best chain, for any blocks and transactions.           *)
(*                                                                         *)
(* UtxoAt[b] is what connecting the chain of b from the genesis block      *)
(* gives.  Two views are alike when they differ only in how they write     *)
(* that a transaction has no coins, and the invariant is that coins and db *)
(* are like the UtxoAt of their best blocks and that the undo data are     *)
(* those ConnectBlock makes there.  It rests on two facts: alike views are *)
(* treated alike (ConnectBlock), and DisconnectBlock is its inverse.       *)
(***************************************************************************)
EXTENDS Coins, FiniteSetTheorems, TLAPS

(***************************************************************************)
(* The steps of the loops, and the theorems on each of these loops.        *)
(***************************************************************************)
SpendStep(c, d, s, out) ==
  [view |-> [s.view EXCEPT ![out[1]] = Spend(@, out[2])],
   undo |-> Append(s.undo, UndoOf(s.view[out[1]], out[2]))]
Spending == INSTANCE RecursionProofs WITH op <- SpendStep

\* In block b.
ConnectStep(b, d, s, t) ==
  IF t \in Coinbases THEN [s EXCEPT !.view = UpdateCoins(s.view, t, Height[b]).view]
  ELSE IF ~s.ok \/ ~CheckInputs(s.view, t, Height[b]) THEN [s EXCEPT !.ok = FALSE]
  ELSE [ok |-> TRUE, view |-> UpdateCoins(s.view, t, Height[b]).view,
        undo |-> Append(s.undo, UpdateCoins(s.view, t, Height[b]).undo),
        fees |-> s.fees + ValueIn(t) - ValueOut(t)]
Connecting == INSTANCE RecursionProofs WITH op <- ConnectStep

\* u is the undo data of transaction t, then of block b.
RestoreStep(t, u, j, r) ==
  [clean |-> r.clean /\ RestoreClean(r.view[Vin[t][j][1]], Vin[t][j][2], u[j]),
   view |-> [r.view EXCEPT ![Vin[t][j][1]] = Restore(@, Vin[t][j][2], u[j])]]
Restoring == INSTANCE RecursionProofs WITH op <- RestoreStep

UndoStep(b, u, i, s) == UndoTx(s, Vtx[b][i], Height[b], UndoOfTx(b, u, i))
Undoing == INSTANCE RecursionProofs WITH op <- UndoStep

\* u: the undo data of all blocks.
RewindStep(u, d, s, b) ==
  [clean |-> s.clean /\ DisconnectBlock(s.view, b, u[b]).clean,
   view |-> DisconnectBlock(s.view, b, u[b]).view]
Rewinding == INSTANCE RecursionProofs WITH op <- RewindStep

ForwardStep(c, d, s, b) ==
  IF s.bad # Null THEN s
  ELSE IF ~ConnectBlock(s.view, b).ok THEN [s EXCEPT !.bad = b]
  ELSE [bad |-> Null, view |-> ConnectBlock(s.view, b).view,
        undo |-> [s.undo EXCEPT ![b] = IF @ = Null THEN ConnectBlock(s.view, b).undo ELSE @],
        supply |-> [s.supply EXCEPT ![b] = s.supply[Prev[b]] + ValueOut(Vtx[b][1])]]
Forwarding == INSTANCE RecursionProofs WITH op <- ForwardStep

SumStep(c, d, x, y) == x + y
Summing == INSTANCE RecursionProofs WITH op <- SumStep

HeightStep(c, d, h, b) == h + 1
Heights == INSTANCE RecursionProofs WITH op <- HeightStep

ChainStep(c, d, s, b) == {b} \cup s
Chains == INSTANCE RecursionProofs WITH op <- ChainStep

TxsStep(c, d, s, b) == s \o Vtx[b]
TxLists == INSTANCE RecursionProofs WITH op <- TxsStep

UtxoStep(c, d, view, b) == Written(ConnectBlock(view, b).view)
Utxos == INSTANCE RecursionProofs WITH op <- UtxoStep

\* The coins after the chain that ends in b.
UtxoAt[b \in Blocks] ==
  IF b = Genesis THEN [t \in Txs |-> Null] ELSE UtxoStep(0, 0, UtxoAt[Prev[b]], b)

-----------------------------------------------------------------------------
(***************************************************************************)
(* The block tree.                                                         *)
(***************************************************************************)
LEMMA BlocksAreATree == Heights!Acyclic(Blocks, Genesis, Prev)
BY BlockAssumption, AcyclicAssumption DEF Heights!Acyclic

\* A set of blocks that has a block whenever it has its predecessor is all of them.
LEMMA TreeInduction ==
  ASSUME NEW S, \A b \in Blocks : (b = Genesis \/ Prev[b] \in S) => b \in S
  PROVE  \A b \in Blocks : b \in S
<1> USE BlocksAreATree
<1> QED BY Heights!DownTheTree

\* Every block but the genesis block has its predecessor among the blocks.
LEMMA PrevIsBlock ==
  ASSUME NEW b \in Blocks, b # Genesis
  PROVE  Prev[b] \in Blocks
BY BlockAssumption

\* Height is what its recursion says.
LEMMA HeightDef ==
  /\ Height \in [Blocks -> Nat]
  /\ \A b \in Blocks : Height[b] = IF b = Genesis THEN 0 ELSE Height[Prev[b]] + 1
<1> DEFINE Eq(f) == f = [b \in Blocks |-> IF b = Genesis THEN 0 ELSE f[Prev[b]] + 1]
<1>1. \E f : Eq(f)
  <2>1. PICK f : Heights!GrowsAlong(f, 0, 0, 0, Blocks, Genesis, Prev)
    BY BlocksAreATree, Heights!TreeRecursion DEF Heights!Acyclic, Heights!Acyclic
  <2>2. Eq(f)
    BY <2>1 DEF Heights!GrowsAlong, HeightStep
  <2> QED BY <2>2
<1>2. Height = CHOOSE h : Eq(h)
  BY DEF Height
<1>3. Eq(Height)
  <2> HIDE DEF Eq
  <2> QED BY <1>1, <1>2
<1>4. \A b \in Blocks : Height[b] = IF b = Genesis THEN 0 ELSE Height[Prev[b]] + 1
  BY <1>3
<1> DEFINE S == {b \in Blocks : Height[b] \in Nat}
<1>5. \A b \in Blocks : (b = Genesis \/ Prev[b] \in S) => b \in S
  BY <1>4
<1>6. \A b \in Blocks : b \in S
  <2> HIDE DEF S
  <2> QED BY <1>5, TreeInduction
<1>7. Height \in [Blocks -> Nat]
  BY <1>3, <1>6
<1> QED BY <1>4, <1>7

\* Chain is what its recursion says.
LEMMA ChainDef ==
  /\ Chain \in [Blocks -> SUBSET Blocks]
  /\ \A b \in Blocks : Chain[b] = {b} \cup IF b = Genesis THEN {} ELSE Chain[Prev[b]]
<1> DEFINE Eq(f) == f = [b \in Blocks |-> {b} \cup IF b = Genesis THEN {} ELSE f[Prev[b]]]
<1>1. \E f : Eq(f)
  <2>1. PICK f : Chains!GrowsAlong(f, 0, 0, {Genesis}, Blocks, Genesis, Prev)
    BY BlocksAreATree, Chains!TreeRecursion DEF Chains!Acyclic, Heights!Acyclic
  <2>2. \A b \in Blocks : f[b] = {b} \cup IF b = Genesis THEN {} ELSE f[Prev[b]]
    BY <2>1 DEF Chains!GrowsAlong, ChainStep
  <2>3. f = [b \in Blocks |-> f[b]]
    BY <2>1 DEF Chains!GrowsAlong
  <2>4. f = [b \in Blocks |-> {b} \cup IF b = Genesis THEN {} ELSE f[Prev[b]]]
    BY <2>2, <2>3
  <2> QED BY <2>4
<1>2. Chain = CHOOSE h : Eq(h)
  BY DEF Chain
<1>3. Eq(Chain)
  <2> HIDE DEF Eq
  <2> QED BY <1>1, <1>2
<1>4. \A b \in Blocks : Chain[b] = {b} \cup IF b = Genesis THEN {} ELSE Chain[Prev[b]]
  BY <1>3
<1> DEFINE S == {b \in Blocks : Chain[b] \in SUBSET Blocks}
<1>5. \A b \in Blocks : (b = Genesis \/ Prev[b] \in S) => b \in S
  BY <1>4
<1>6. \A b \in Blocks : b \in S
  <2> HIDE DEF S
  <2> QED BY <1>5, TreeInduction
<1>7. Chain \in [Blocks -> SUBSET Blocks]
  BY <1>3, <1>6
<1> QED BY <1>4, <1>7

\* AllTxs is what its recursion says.
LEMMA AllTxsDef ==
  /\ AllTxs \in [Blocks -> Seq(Txs)]
  /\ \A b \in Blocks : AllTxs[b] = IF b = Genesis THEN <<>> ELSE AllTxs[Prev[b]] \o Vtx[b]
<1> DEFINE Eq(f) == f = [b \in Blocks |-> IF b = Genesis THEN <<>> ELSE f[Prev[b]] \o Vtx[b]]
<1>1. \E f : Eq(f)
  <2>1. PICK f : TxLists!GrowsAlong(f, 0, 0, <<>>, Blocks, Genesis, Prev)
    BY BlocksAreATree, TxLists!TreeRecursion DEF TxLists!Acyclic, Heights!Acyclic
  <2>2. Eq(f)
    BY <2>1 DEF TxLists!GrowsAlong, TxsStep
  <2> QED BY <2>2
<1>2. AllTxs = CHOOSE h : Eq(h)
  BY DEF AllTxs
<1>3. Eq(AllTxs)
  <2> HIDE DEF Eq
  <2> QED BY <1>1, <1>2
<1>4. \A b \in Blocks : AllTxs[b] = IF b = Genesis THEN <<>> ELSE AllTxs[Prev[b]] \o Vtx[b]
  BY <1>3
<1> DEFINE S == {b \in Blocks : AllTxs[b] \in Seq(Txs)}
<1>5. ASSUME NEW b \in Blocks, b = Genesis \/ Prev[b] \in S
      PROVE  b \in S
  <2>1. Vtx[b] \in Seq(Txs)
    BY BlockAssumption
  <2>2. CASE b = Genesis
    <3>1. AllTxs[b] = <<>> /\ <<>> \in Seq(Txs)
      BY <1>4, <2>2
    <3> QED BY <3>1
  <2>3. CASE b # Genesis
    <3>1. AllTxs[Prev[b]] \in Seq(Txs) /\ AllTxs[b] = AllTxs[Prev[b]] \o Vtx[b]
      BY <1>4, <1>5, <2>3
    <3>2. AllTxs[Prev[b]] \o Vtx[b] \in Seq(Txs)
      BY <2>1, <3>1
    <3> QED BY <3>1, <3>2
  <2> QED BY <2>2, <2>3
<1>6. \A b \in Blocks : b \in S
  <2> HIDE DEF S
  <2> QED BY <1>5, TreeInduction
<1>7. AllTxs \in [Blocks -> Seq(Txs)]
  BY <1>3, <1>6
<1> QED BY <1>4, <1>7

\* UtxoAt is what its recursion says.
LEMMA UtxoAtDef ==
  \A b \in Blocks : UtxoAt[b] = IF b = Genesis THEN [t \in Txs |-> Null]
                                ELSE Written(ConnectBlock(UtxoAt[Prev[b]], b).view)
<1> DEFINE Eq(f) == f = [b \in Blocks |-> IF b = Genesis THEN [t \in Txs |-> Null]
                                          ELSE UtxoStep(0, 0, f[Prev[b]], b)]
<1>1. \E f : Eq(f)
  <2>1. PICK f : Utxos!GrowsAlong(f, 0, 0, [t \in Txs |-> Null], Blocks, Genesis, Prev)
    BY BlocksAreATree, Utxos!TreeRecursion DEF Utxos!Acyclic, Heights!Acyclic
  <2>2. Eq(f)
    BY <2>1 DEF Utxos!GrowsAlong
  <2> QED BY <2>2
<1>2. UtxoAt = CHOOSE h : Eq(h)
  BY DEF UtxoAt
<1>3. Eq(UtxoAt)
  <2> HIDE DEF Eq
  <2> QED BY <1>1, <1>2
<1> QED BY <1>3 DEF UtxoStep

-----------------------------------------------------------------------------
(***************************************************************************)
(* The chains of the tree.                                                 *)
(***************************************************************************)
LEMMA ChainOfPrev ==
  ASSUME NEW b \in Blocks
  PROVE  /\ b \in Chain[b] /\ Genesis \in Chain[b] /\ Chain[b] \subseteq Blocks
         /\ Genesis \in Blocks /\ Chain[Genesis] = {Genesis} /\ Height[Genesis] = 0
         /\ Height[b] \in Nat
         /\ b # Genesis => /\ Prev[b] \in Blocks /\ Chain[b] = {b} \cup Chain[Prev[b]]
                           /\ Height[b] = Height[Prev[b]] + 1
<1>1. Genesis \in Blocks
  BY BlockAssumption
<1>2. Chain[Genesis] = {Genesis} /\ Height[Genesis] = 0
  BY <1>1, ChainDef, HeightDef
<1> DEFINE S == {c \in Blocks : Genesis \in Chain[c]}
<1>3. \A c \in Blocks : (c = Genesis \/ Prev[c] \in S) => c \in S
  BY <1>1, <1>2, ChainDef
<1>4. \A c \in Blocks : c \in S
  <2> HIDE DEF S
  <2> QED BY <1>3, TreeInduction
<1>5. b # Genesis => Prev[b] \in Blocks /\ Chain[b] = {b} \cup Chain[Prev[b]] /\ Height[b] = Height[Prev[b]] + 1
  BY PrevIsBlock, ChainDef, HeightDef
<1>6. b \in Chain[b] /\ Chain[b] \subseteq Blocks /\ Height[b] \in Nat
  BY ChainDef, HeightDef
<1> QED BY <1>1, <1>2, <1>4, <1>5, <1>6

\* The blocks of a chain: their chains, and their heights.
LEMMA OnChain ==
  ASSUME NEW b \in Blocks, NEW a \in Chain[b]
  PROVE  /\ a \in Blocks /\ Chain[a] \subseteq Chain[b] /\ Height[a] <= Height[b]
         /\ a # b => b # Genesis /\ a \in Chain[Prev[b]] /\ Height[a] < Height[b]
<1> DEFINE P(c) == \A x \in Chain[c] :
                      /\ x \in Blocks /\ Chain[x] \subseteq Chain[c] /\ Height[x] <= Height[c]
                      /\ x # c => c # Genesis /\ x \in Chain[Prev[c]] /\ Height[x] < Height[c]
           S == {c \in Blocks : P(c)}
<1>1. ASSUME NEW c \in Blocks, c = Genesis \/ Prev[c] \in S
      PROVE  c \in S
  <2> SUFFICES ASSUME NEW x \in Chain[c]
               PROVE  /\ x \in Blocks /\ Chain[x] \subseteq Chain[c] /\ Height[x] <= Height[c]
                      /\ x # c => c # Genesis /\ x \in Chain[Prev[c]] /\ Height[x] < Height[c]
    OBVIOUS
  <2>1. CASE x = c
    BY <2>1, ChainOfPrev
  <2>2. CASE x # c
    <3>1. c # Genesis
      BY <2>2, ChainOfPrev
    <3>2. x \in Chain[Prev[c]] /\ Prev[c] \in Blocks /\ Chain[Prev[c]] \subseteq Chain[c]
          /\ Height[c] = Height[Prev[c]] + 1
      BY <2>2, <3>1, ChainOfPrev
    <3>3. x \in Blocks /\ Chain[x] \subseteq Chain[Prev[c]] /\ Height[x] <= Height[Prev[c]]
      BY <1>1, <3>1, <3>2
    <3>4. Height[x] \in Nat /\ Height[Prev[c]] \in Nat /\ Height[c] \in Nat
      BY <3>2, <3>3, HeightDef
    <3> QED BY <3>1, <3>2, <3>3, <3>4
  <2> QED BY <2>1, <2>2
<1>2. \A c \in Blocks : c \in S
  <2> HIDE DEF S
  <2> QED BY <1>1, TreeInduction
<1> QED BY <1>2

\* The block of a chain at a height.
At(b, h) == CHOOSE a \in Chain[b] : Height[a] = h

\* A chain has one block at a height.
LEMMA OneBlockAtAHeight ==
  ASSUME NEW b \in Blocks
  PROVE  \A x, y \in Chain[b] : Height[x] = Height[y] => x = y
<1> DEFINE S == {c \in Blocks : \A x, y \in Chain[c] : Height[x] = Height[y] => x = y}
<1>1. ASSUME NEW c \in Blocks, c = Genesis \/ Prev[c] \in S
      PROVE  c \in S
  <2> SUFFICES ASSUME NEW x \in Chain[c], NEW y \in Chain[c], Height[x] = Height[y]
               PROVE  x = y
    OBVIOUS
  <2>1. CASE x = c \/ y = c
    <3>1. Height[x] \in Nat /\ Height[y] \in Nat
      BY OnChain, HeightDef
    <3>2. (x # c => Height[x] < Height[c]) /\ (y # c => Height[y] < Height[c])
      BY OnChain
    <3> QED BY <2>1, <3>1, <3>2
  <2>2. CASE x # c /\ y # c
    BY <1>1, <2>2, OnChain
  <2> QED BY <2>1, <2>2
<1>2. \A c \in Blocks : c \in S
  <2> HIDE DEF S
  <2> QED BY <1>1, TreeInduction
<1> QED BY <1>2

\* ... and one at each height up to its own.
LEMMA BlockAt ==
  ASSUME NEW b \in Blocks
  PROVE  /\ \A a \in Chain[b] : At(b, Height[a]) = a
         /\ \A h \in 0 .. Height[b] : At(b, h) \in Chain[b] /\ Height[At(b, h)] = h
<1>1. \A a \in Chain[b] : At(b, Height[a]) = a
  BY OneBlockAtAHeight DEF At
<1> DEFINE S == {c \in Blocks : \A h \in 0 .. Height[c] : \E a \in Chain[c] : Height[a] = h}
<1>2. ASSUME NEW c \in Blocks, c = Genesis \/ Prev[c] \in S
      PROVE  c \in S
  <2> SUFFICES ASSUME NEW h \in 0 .. Height[c]
               PROVE  \E a \in Chain[c] : Height[a] = h
    OBVIOUS
  <2>1. CASE h = Height[c]
    BY <2>1, ChainOfPrev
  <2>2. CASE h # Height[c]
    <3>1. c # Genesis
      BY <2>2, ChainOfPrev
    <3>2. Height[c] = Height[Prev[c]] + 1 /\ Height[Prev[c]] \in Nat /\ Chain[Prev[c]] \subseteq Chain[c]
      BY <3>1, ChainOfPrev
    <3>3. h \in 0 .. Height[Prev[c]]
      BY <2>2, <3>2
    <3> QED BY <1>2, <3>1, <3>2, <3>3
  <2> QED BY <2>1, <2>2
<1>3. \A c \in Blocks : c \in S
  <2> HIDE DEF S
  <2> QED BY <1>2, TreeInduction
<1>4. ASSUME NEW h \in 0 .. Height[b]
      PROVE  At(b, h) \in Chain[b] /\ Height[At(b, h)] = h
  <2>1. \E a \in Chain[b] : Height[a] = h
    BY <1>3
  <2> QED BY <2>1 DEF At
<1> QED BY <1>1, <1>4

\* ... and its predecessor, which is the block at the height before.
LEMMA PrevAt ==
  ASSUME NEW b \in Blocks, NEW h \in 1 .. Height[b]
  PROVE  /\ At(b, h) \in Blocks \ {Genesis}
         /\ Prev[At(b, h)] = At(b, h - 1)
         /\ Chain[At(b, h)] = {At(b, h)} \cup Chain[At(b, h - 1)]
<1>0. Height[b] \in Nat
  BY HeightDef
<1>1. At(b, h) \in Chain[b] /\ Height[At(b, h)] = h
  BY <1>0, BlockAt
<1>2. At(b, h) \in Blocks \ {Genesis}
  BY <1>1, OnChain, ChainOfPrev
<1>3. Prev[At(b, h)] \in Blocks /\ Chain[At(b, h)] = {At(b, h)} \cup Chain[Prev[At(b, h)]]
      /\ Height[At(b, h)] = Height[Prev[At(b, h)]] + 1 /\ Prev[At(b, h)] \in Chain[Prev[At(b, h)]]
  BY <1>2, ChainOfPrev
<1>4. Prev[At(b, h)] \in Chain[b]
  BY <1>1, <1>3, OnChain
<1>5. Height[Prev[At(b, h)]] = h - 1
  BY <1>1, <1>3, HeightDef
<1>6. Prev[At(b, h)] = At(b, h - 1)
  BY <1>4, <1>5, BlockAt
<1> QED BY <1>2, <1>3, <1>6

\* Where two chains part.
LEMMA ForkExists ==
  ASSUME NEW a \in Blocks, NEW b \in Blocks
  PROVE  \E f \in Chain[a] \cap Chain[b] : Chain[a] \cap Chain[b] = Chain[f]
<1> DEFINE S == {c \in Blocks : \E f \in Chain[c] \cap Chain[b] : Chain[c] \cap Chain[b] = Chain[f]}
<1>1. ASSUME NEW c \in Blocks, c = Genesis \/ Prev[c] \in S
      PROVE  c \in S
  <2>1. CASE c \in Chain[b]
    <3>1. Chain[c] \subseteq Chain[b] /\ c \in Chain[c]
      BY <2>1, OnChain, ChainOfPrev
    <3> QED BY <2>1, <3>1
  <2>2. CASE c \notin Chain[b]
    <3>1. c # Genesis
      BY <2>2, ChainOfPrev
    <3>2. Chain[c] = {c} \cup Chain[Prev[c]]
      BY <3>1, ChainOfPrev
    <3>3. Chain[c] \cap Chain[b] = Chain[Prev[c]] \cap Chain[b]
      BY <2>2, <3>2
    <3> QED BY <1>1, <3>1, <3>3
  <2> QED BY <2>1, <2>2
<1>2. \A c \in Blocks : c \in S
  <2> HIDE DEF S
  <2> QED BY <1>1, TreeInduction
<1> QED BY <1>2

\* How many blocks there are on a stretch of a chain.
LEMMA ChainCardinality ==
  ASSUME NEW b \in Blocks
  PROVE  IsFiniteSet(Chain[b]) /\ Cardinality(Chain[b]) = Height[b] + 1
<1> DEFINE S == {c \in Blocks : IsFiniteSet(Chain[c]) /\ Cardinality(Chain[c]) = Height[c] + 1}
<1>1. ASSUME NEW c \in Blocks, c = Genesis \/ Prev[c] \in S
      PROVE  c \in S
  <2>1. CASE c = Genesis
    <3>1. Chain[c] = {Genesis} /\ Height[c] = 0
      BY <2>1, ChainOfPrev
    <3>2. IsFiniteSet({Genesis}) /\ Cardinality({Genesis}) = 1
      BY FS_Singleton
    <3> QED BY <3>1, <3>2
  <2>2. CASE c # Genesis
    <3> DEFINE T == Chain[Prev[c]]
    <3>1. Chain[c] = T \cup {c} /\ Height[c] = Height[Prev[c]] + 1 /\ Prev[c] \in Blocks
          /\ Height[Prev[c]] \in Nat
      BY <2>2, ChainOfPrev
    <3>2. IsFiniteSet(T) /\ Cardinality(T) = Height[Prev[c]] + 1
      BY <1>1, <2>2
    <3>3. c \notin T
      <4> SUFFICES ASSUME c \in Chain[Prev[c]] PROVE FALSE
        OBVIOUS
      <4>1. Height[c] <= Height[Prev[c]]
        BY <3>1, OnChain
      <4> QED BY <3>1, <4>1
    <3> HIDE DEF T
    <3>4. IsFiniteSet(T \cup {c}) /\ Cardinality(T \cup {c}) = Cardinality(T) + 1
      BY <3>2, <3>3, FS_AddElement
    <3> QED BY <3>1, <3>2, <3>4
  <2> QED BY <2>1, <2>2
<1>2. \A c \in Blocks : c \in S
  <2> HIDE DEF S
  <2> QED BY <1>1, TreeInduction
<1> QED BY <1>2

\* A stretch of a chain has as many blocks as its heights are apart.
LEMMA StretchCardinality ==
  ASSUME NEW b \in Blocks, NEW a \in Chain[b]
  PROVE  IsFiniteSet(Chain[b] \ Chain[a]) /\ Cardinality(Chain[b] \ Chain[a]) = Height[b] - Height[a]
<1>1. a \in Blocks /\ Chain[b] \cap Chain[a] = Chain[a]
  BY OnChain
<1>2. IsFiniteSet(Chain[b]) /\ Cardinality(Chain[b]) = Height[b] + 1 /\ Cardinality(Chain[a]) = Height[a] + 1
  BY <1>1, ChainCardinality
<1>3. /\ IsFiniteSet(Chain[b] \ Chain[a])
      /\ Cardinality(Chain[b] \ Chain[a]) = Cardinality(Chain[b]) - Cardinality(Chain[b] \cap Chain[a])
  BY <1>2, FS_Difference
<1>4. Height[a] \in Nat /\ Height[b] \in Nat
  BY <1>1, HeightDef
<1> DEFINE d == Cardinality(Chain[b] \ Chain[a])
<1>5. d = (Height[b] + 1) - (Height[a] + 1)
  BY <1>1, <1>2, <1>3
<1>6. d = Height[b] - Height[a]
  <2> HIDE DEF d
  <2> QED BY <1>4, <1>5
<1> QED BY <1>3, <1>6

(***************************************************************************)
(* The two ways along a stretch of a chain.                                *)
(***************************************************************************)
LEMMA UpwardsIs ==
  ASSUME NEW b \in Blocks, NEW f \in Chain[b]
  PROVE  Upwards(Chain[b] \ Chain[f]) = [i \in 1 .. Height[b] - Height[f] |-> At(b, Height[f] + i)]
<1> DEFINE S == Chain[b] \ Chain[f]
           n == Height[b] - Height[f]
           Below(x) == {c \in S : Height[c] < Height[x]}
<1>1. f \in Blocks /\ Height[b] \in Nat /\ Height[f] \in Nat /\ Height[f] <= Height[b]
      /\ Chain[f] \subseteq Chain[b]
  BY OnChain, HeightDef
<1>2. \A x \in S : x \in Blocks /\ Height[x] \in Nat /\ Height[f] < Height[x] /\ Height[x] <= Height[b]
  <2> SUFFICES ASSUME NEW x \in S
               PROVE  x \in Blocks /\ Height[x] \in Nat /\ Height[f] < Height[x] /\ Height[x] <= Height[b]
    OBVIOUS
  <2>1. x \in Blocks /\ Height[x] \in Nat /\ Height[x] <= Height[b]
    BY OnChain, HeightDef
  <2>2. CASE Height[x] <= Height[f]
    <3>1. At(f, Height[x]) \in Chain[f] /\ Height[At(f, Height[x])] = Height[x]
      BY <1>1, <2>1, <2>2, BlockAt
    <3>2. At(f, Height[x]) = x
      BY <1>1, <3>1, OneBlockAtAHeight
    <3> QED BY <3>1, <3>2
  <2> QED BY <1>1, <2>1, <2>2
<1>3. ASSUME NEW x \in S
      PROVE  Cardinality(Below(x)) = Height[x] - Height[f] - 1
  <2>1. x \in Blocks /\ x # Genesis /\ Height[x] \in Nat
    BY <1>1, <1>2, ChainOfPrev
  <2>2. Prev[x] \in Blocks /\ Chain[x] = {x} \cup Chain[Prev[x]] /\ Height[x] = Height[Prev[x]] + 1
        /\ Height[Prev[x]] \in Nat /\ Prev[x] \in Chain[Prev[x]]
    BY <2>1, ChainOfPrev
  <2>3. Chain[Prev[x]] \subseteq Chain[b] /\ Prev[x] \in Chain[b]
    BY <2>2, OnChain
  <2>4. Below(x) \subseteq Chain[Prev[x]] \ Chain[f]
    <3> SUFFICES ASSUME NEW c \in S, Height[c] < Height[x]
                 PROVE  c \in Chain[Prev[x]]
      OBVIOUS
    <3>1. Height[c] \in 0 .. Height[Prev[x]]
      BY <1>2, <2>2
    <3>2. At(Prev[x], Height[c]) \in Chain[Prev[x]] /\ Height[At(Prev[x], Height[c])] = Height[c]
      BY <2>2, <3>1, BlockAt
    <3>3. At(Prev[x], Height[c]) = c
      BY <2>3, <3>2, OneBlockAtAHeight
    <3> QED BY <3>2, <3>3
  <2>5. Chain[Prev[x]] \ Chain[f] \subseteq Below(x)
    <3> SUFFICES ASSUME NEW c \in Chain[Prev[x]], c \notin Chain[f]
                 PROVE  c \in S /\ Height[c] < Height[x]
      OBVIOUS
    <3>1. Height[c] <= Height[Prev[x]] /\ c \in Blocks
      BY <2>2, OnChain
    <3>2. Height[c] \in Nat
      BY <3>1, HeightDef
    <3> QED BY <2>2, <2>3, <3>1, <3>2
  <2>6. f \in Chain[Prev[x]]
    <3>1. Height[f] \in 0 .. Height[Prev[x]]
      BY <1>1, <1>2, <2>2
    <3>2. At(Prev[x], Height[f]) \in Chain[Prev[x]] /\ Height[At(Prev[x], Height[f])] = Height[f]
      BY <2>2, <3>1, BlockAt
    <3>3. At(Prev[x], Height[f]) = f
      BY <2>3, <3>2, OneBlockAtAHeight
    <3> QED BY <3>2, <3>3
  <2>7. Below(x) = Chain[Prev[x]] \ Chain[f]
    BY <2>4, <2>5
  <2>8. Cardinality(Chain[Prev[x]] \ Chain[f]) = Height[Prev[x]] - Height[f]
    BY <2>2, <2>6, StretchCardinality
  <2> HIDE DEF Below
  <2> QED BY <1>1, <2>2, <2>7, <2>8
<1>4. ASSUME NEW i \in 1 .. n
      PROVE  (CHOOSE x \in S : Cardinality(Below(x)) = i - 1) = At(b, Height[f] + i)
  <2> DEFINE a == At(b, Height[f] + i)
  <2>1. a \in Chain[b] /\ Height[a] = Height[f] + i
    BY <1>1, BlockAt
  <2>2. a \notin Chain[f]
    <3> SUFFICES ASSUME a \in Chain[f] PROVE FALSE
      OBVIOUS
    <3>1. Height[a] <= Height[f]
      BY <1>1, OnChain
    <3> QED BY <1>1, <2>1, <3>1
  <2> HIDE DEF a
  <2>3. a \in S /\ Cardinality(Below(a)) = i - 1
    <3>1. a \in S
      BY <2>1, <2>2
    <3>2. Cardinality(Below(a)) = Height[a] - Height[f] - 1
      BY <1>3, <3>1
    <3> QED BY <1>1, <2>1, <3>1, <3>2
  <2>4. ASSUME NEW x \in S, Cardinality(Below(x)) = i - 1
        PROVE  x = a
    <3>1. i - 1 = Height[x] - Height[f] - 1
      BY <1>3, <2>4
    <3>2. Height[x] = Height[a]
      BY <1>1, <1>2, <2>1, <3>1
    <3> QED BY <2>1, <2>4, <3>2, OneBlockAtAHeight
  <2> HIDE DEF S, Below
  <2>5. (CHOOSE x \in S : Cardinality(Below(x)) = i - 1) = a
    BY <2>3, <2>4
  <2> QED BY <2>5 DEF a
<1>5. Cardinality(S) = n
  BY StretchCardinality
<1>6. Upwards(S) = [i \in 1 .. n |-> CHOOSE x \in S : Cardinality(Below(x)) = i - 1]
  BY <1>5 DEF Upwards
<1> HIDE DEF Below
<1> QED BY <1>4, <1>6

\* vDisconnect goes down the heights.
LEMMA DownwardsIs ==
  ASSUME NEW b \in Blocks, NEW f \in Chain[b]
  PROVE  Downwards(Chain[b] \ Chain[f]) = [i \in 1 .. Height[b] - Height[f] |-> At(b, Height[b] + 1 - i)]
<1> DEFINE S == Chain[b] \ Chain[f]
           n == Height[b] - Height[f]
           Above(x) == {c \in S : Height[c] > Height[x]}
<1>1. f \in Blocks /\ Height[b] \in Nat /\ Height[f] \in Nat /\ Height[f] <= Height[b]
      /\ Chain[f] \subseteq Chain[b]
  BY OnChain, HeightDef
<1>2. \A x \in S : x \in Blocks /\ Height[x] \in Nat /\ Height[x] <= Height[b]
  BY OnChain, HeightDef
<1>2a. \A x \in S : x \in Chain[b] /\ f \in Chain[x]
  <2> SUFFICES ASSUME NEW x \in S
               PROVE  f \in Chain[x]
    OBVIOUS
  <2>1. x \in Blocks /\ Height[x] \in Nat /\ Chain[x] \subseteq Chain[b]
    BY <1>2, OnChain
  <2>2. CASE Height[x] <= Height[f]
    <3>1. At(f, Height[x]) \in Chain[f] /\ Height[At(f, Height[x])] = Height[x]
      BY <1>1, <2>1, <2>2, BlockAt
    <3>2. At(f, Height[x]) = x
      BY <1>1, <3>1, OneBlockAtAHeight
    <3> QED BY <3>1, <3>2
  <2>3. CASE ~(Height[x] <= Height[f])
    <3>1. Height[f] \in 0 .. Height[x]
      BY <1>1, <2>1, <2>3
    <3>2. At(x, Height[f]) \in Chain[x] /\ Height[At(x, Height[f])] = Height[f]
      BY <2>1, <3>1, BlockAt
    <3>3. At(x, Height[f]) = f
      BY <2>1, <3>2, OneBlockAtAHeight
    <3> QED BY <3>2, <3>3
  <2> QED BY <2>2, <2>3
<1>3. ASSUME NEW x \in S
      PROVE  Cardinality(Above(x)) = Height[b] - Height[x]
  <2>1. x \in Blocks /\ Height[x] \in Nat /\ Chain[f] \subseteq Chain[x] /\ Chain[x] \subseteq Chain[b]
    <3>1. x \in Blocks /\ x \in Chain[b] /\ f \in Chain[x]
      BY <1>2, <1>2a
    <3> QED BY <1>2, <3>1, OnChain
  <2>2. Above(x) \subseteq Chain[b] \ Chain[x]
    <3> SUFFICES ASSUME NEW c \in Chain[x], Height[c] > Height[x]
                 PROVE  FALSE
      OBVIOUS
    <3>1. Height[c] <= Height[x] /\ c \in Blocks
      BY <2>1, OnChain
    <3>2. Height[c] \in Nat
      BY <3>1, HeightDef
    <3> QED BY <2>1, <3>1, <3>2
  <2>3. Chain[b] \ Chain[x] \subseteq Above(x)
    <3> SUFFICES ASSUME NEW c \in Chain[b], c \notin Chain[x]
                 PROVE  c \in S /\ Height[c] > Height[x]
      OBVIOUS
    <3>1. c \in S
      BY <2>1
    <3>2. c \in Blocks /\ Height[c] \in Nat
      BY <1>2, <3>1
    <3>3. CASE Height[c] <= Height[x]
      <4>1. At(x, Height[c]) \in Chain[x] /\ Height[At(x, Height[c])] = Height[c]
        BY <2>1, <3>2, <3>3, BlockAt
      <4>2. At(x, Height[c]) = c
        BY <2>1, <4>1, OneBlockAtAHeight
      <4> QED BY <4>1, <4>2
    <3> QED BY <2>1, <3>1, <3>2, <3>3
  <2>4. Above(x) = Chain[b] \ Chain[x]
    BY <2>2, <2>3
  <2> HIDE DEF Above
  <2>5. x \in Chain[b]
    BY <1>2a
  <2> QED BY <2>4, <2>5, StretchCardinality
<1>4. ASSUME NEW i \in 1 .. n
      PROVE  (CHOOSE x \in S : Cardinality(Above(x)) = i - 1) = At(b, Height[b] + 1 - i)
  <2> DEFINE a == At(b, Height[b] + 1 - i)
  <2>1. a \in Chain[b] /\ Height[a] = Height[b] + 1 - i
    BY <1>1, BlockAt
  <2>2. a \notin Chain[f]
    <3> SUFFICES ASSUME a \in Chain[f] PROVE FALSE
      OBVIOUS
    <3>1. Height[a] <= Height[f]
      BY <1>1, OnChain
    <3> QED BY <1>1, <2>1, <3>1
  <2> HIDE DEF a
  <2>3. a \in S /\ Cardinality(Above(a)) = i - 1
    <3>1. a \in S
      BY <2>1, <2>2
    <3>2. Cardinality(Above(a)) = Height[b] - Height[a]
      BY <1>3, <3>1
    <3> QED BY <1>1, <2>1, <3>1, <3>2
  <2>4. ASSUME NEW x \in S, Cardinality(Above(x)) = i - 1
        PROVE  x = a
    <3>1. i - 1 = Height[b] - Height[x]
      BY <1>3, <2>4
    <3>2. Height[x] = Height[a]
      BY <1>1, <1>2, <2>1, <3>1
    <3> QED BY <2>1, <2>4, <3>2, OneBlockAtAHeight
  <2> HIDE DEF S, Above
  <2>5. (CHOOSE x \in S : Cardinality(Above(x)) = i - 1) = a
    BY <2>3, <2>4
  <2> QED BY <2>5 DEF a
<1>5. Cardinality(S) = n
  BY StretchCardinality
<1>6. Downwards(S) = [i \in 1 .. n |-> CHOOSE x \in S : Cardinality(Above(x)) = i - 1]
  BY <1>5 DEF Downwards
<1> HIDE DEF Above
<1> QED BY <1>4, <1>6

-----------------------------------------------------------------------------
(***************************************************************************)
(* Views, and when two of them are alike.                                  *)
(***************************************************************************)
Coin == [fCoinBase : BOOLEAN, nHeight : Nat, vout : SUBSET Nat]
UndoRecord == [nHeight : Nat, fCoinBase : BOOLEAN]
View == [Txs -> Coin \cup {Null}]

\* A transaction that has outputs left.
Live(c) == c # Null /\ c.vout # {}

Alike(v, w) == \A t \in Txs : Live(v[t]) \/ Live(w[t]) => v[t] = w[t]

\* Height 0 in the undo data means that the entry is still there: no coins have it.
Sound(v) ==
  /\ v \in View
  /\ \A t \in Txs : Live(v[t]) => v[t].nHeight # 0 /\ v[t].vout \subseteq DOMAIN Vout[t]

\* Every entry that is there has outputs.
Clean(v) == \A t \in Txs : v[t] # Null => Live(v[t])

\* Null is no entry.
LEMMA NullIsNoCoin == Null \notin Coin /\ Null \notin Seq(Seq(UndoRecord)) /\ Null \notin Blocks
BY NullAssumption, BlockAssumption DEF Coin, UndoRecord

\* Alike is an equivalence.
LEMMA AlikeIsAnEquivalence ==
  /\ \A v : Alike(v, v)
  /\ \A v, w : Alike(v, w) => Alike(w, v)
  /\ \A u, v, w : Alike(u, v) /\ Alike(v, w) => Alike(u, w)
BY DEF Alike

\* What is like a sound view is sound.
LEMMA AlikeIsSound ==
  ASSUME NEW v, NEW w \in View, Sound(v), Alike(v, w)
  PROVE  Sound(w)
BY DEF Alike, Sound

\* Clean views that are alike are the same.
LEMMA CleanAndAlike ==
  ASSUME NEW v \in View, NEW w \in View, Clean(v), Clean(w), Alike(v, w)
  PROVE  v = w
<1>1. \A t \in Txs : v[t] = w[t]
  BY DEF Alike, Clean
<1> QED BY <1>1 DEF View

\* What BatchWrite makes of a view.
LEMMA WrittenIs ==
  ASSUME NEW v \in View
  PROVE  Written(v) \in View /\ Alike(v, Written(v)) /\ Clean(Written(v))
<1>1. \A t \in Txs : Written(v)[t] = IF v[t] # Null /\ v[t].vout = {} THEN Null ELSE v[t]
  BY DEF Written, HaveCoins, IsPruned
<1>2. \A t \in Txs : v[t] \in Coin \cup {Null}
  BY DEF View
<1>3. Written(v) \in View
  BY <1>1, <1>2 DEF View, Written
<1> QED BY <1>1, <1>3 DEF Alike, Clean, Live

\* Views that are alike are written alike.
LEMMA WrittenAlike ==
  ASSUME NEW v \in View, NEW w \in View, Alike(v, w)
  PROVE  Written(v) = Written(w)
<1>1. Written(v) \in View /\ Alike(v, Written(v)) /\ Clean(Written(v))
  BY WrittenIs
<1>2. Written(w) \in View /\ Alike(w, Written(w)) /\ Clean(Written(w))
  BY WrittenIs
<1>3. Alike(Written(v), Written(w))
  BY <1>1, <1>2, AlikeIsAnEquivalence
<1> QED BY <1>1, <1>2, <1>3, CleanAndAlike

\* One entry changes.
LEMMA OneEntry ==
  ASSUME NEW v \in View, NEW t \in Txs, NEW c \in Coin \cup {Null}
  PROVE  /\ [v EXCEPT ![t] = c] \in View
         /\ [v EXCEPT ![t] = c][t] = c
         /\ \A p \in Txs \ {t} : [v EXCEPT ![t] = c][p] = v[p]
BY DEF View

-----------------------------------------------------------------------------
(***************************************************************************)
(* The coins of one transaction are spent, one input after the other.      *)
(***************************************************************************)
\* The outpoints of t.
From(t, i) == Vin[t][i][1]
Pos(t, i) == Vin[t][i][2]

\* What CheckTransaction has made sure of the inputs and outputs.
LEMMA TxInputs ==
  ASSUME NEW t \in Txs
  PROVE  /\ Len(Vin[t]) \in Nat /\ DOMAIN Vin[t] = 1 .. Len(Vin[t])
         /\ \A i \in 1 .. Len(Vin[t]) :
              From(t, i) \in Txs /\ Pos(t, i) \in Nat /\ Vin[t][i] = <<From(t, i), Pos(t, i)>>
         /\ \A i, j \in 1 .. Len(Vin[t]) :
              From(t, i) = From(t, j) /\ Pos(t, i) = Pos(t, j) => i = j
         /\ Len(Vin[t]) = 0 <=> t \in Coinbases
         /\ Vout[t] \in Seq(Nat) /\ DOMAIN Vout[t] # {} /\ DOMAIN Vout[t] \subseteq Nat
<1>1. /\ Vin[t] \in Seq(Txs \X Nat) /\ IsInjective(Vin[t])
      /\ Vin[t] = <<>> <=> t \in Coinbases
      /\ Vout[t] \in Seq(Nat) /\ Vout[t] # <<>>
  BY BlockAssumption
<1>2. Len(Vin[t]) \in Nat /\ DOMAIN Vin[t] = 1 .. Len(Vin[t]) /\ \A i \in 1 .. Len(Vin[t]) : Vin[t][i] \in Txs \X Nat
  BY <1>1
<1>3. \A i, j \in DOMAIN Vin[t] : Vin[t][i] = Vin[t][j] => i = j
  BY <1>1 DEF IsInjective
<1>4. Len(Vin[t]) = 0 <=> t \in Coinbases
  BY <1>1
<1>5. DOMAIN Vout[t] # {} /\ DOMAIN Vout[t] \subseteq Nat
  <2>1. Len(Vout[t]) \in Nat /\ Len(Vout[t]) # 0 /\ DOMAIN Vout[t] = 1 .. Len(Vout[t])
    BY <1>1
  <2>2. 1 \in 1 .. Len(Vout[t]) /\ 1 .. Len(Vout[t]) \subseteq Nat
    BY <2>1
  <2> QED BY <2>1, <2>2
<1>6. \A i \in 1 .. Len(Vin[t]) :
        From(t, i) \in Txs /\ Pos(t, i) \in Nat /\ Vin[t][i] = <<From(t, i), Pos(t, i)>>
  BY <1>2 DEF From, Pos
<1>7. \A i, j \in 1 .. Len(Vin[t]) : From(t, i) = From(t, j) /\ Pos(t, i) = Pos(t, j) => i = j
  <2> SUFFICES ASSUME NEW i \in 1 .. Len(Vin[t]), NEW j \in 1 .. Len(Vin[t]),
                      From(t, i) = From(t, j), Pos(t, i) = Pos(t, j)
               PROVE  i = j
    OBVIOUS
  <2>1. Vin[t][i] = Vin[t][j]
    <3>1. Vin[t][i] = <<From(t, i), Pos(t, i)>> /\ Vin[t][j] = <<From(t, j), Pos(t, j)>>
      BY <1>6
    <3> QED BY <3>1
  <2> QED BY <1>2, <1>3, <2>1
<1> QED BY <1>1, <1>2, <1>4, <1>5, <1>6, <1>7

\* The entry of a new transaction has all its outputs.
LEMMA CCoinsIs ==
  ASSUME NEW t \in Txs, NEW h \in Nat
  PROVE  CCoins(t, h) \in Coin /\ Live(CCoins(t, h)) /\ CCoins(t, h).nHeight = h
         /\ CCoins(t, h).vout = DOMAIN Vout[t]
<1>1. DOMAIN Vout[t] # {} /\ DOMAIN Vout[t] \subseteq Nat
  BY TxInputs
<1>2. CCoins(t, h) \in Coin
  BY <1>1 DEF CCoins, Coin
<1> QED BY <1>1, <1>2, NullIsNoCoin DEF CCoins, Live

\* The views and the undo records that the loop of UpdateCoins goes through.
Spends(r, v, t) ==
  Spending!RunsLeft(r, 0, 0, [view |-> v, undo |-> <<>>], Vin[t], Len(Vin[t]))

\* One input in this loop.
LEMMA SpendsStep ==
  ASSUME NEW v, NEW t \in Txs, NEW r, Spends(r, v, t)
  PROVE  /\ r[0] = [view |-> v, undo |-> <<>>]
         /\ \A i \in 1 .. Len(Vin[t]) :
              r[i] = [view |-> [r[i - 1].view EXCEPT ![From(t, i)] = Spend(@, Pos(t, i))],
                      undo |-> Append(r[i - 1].undo, UndoOf(r[i - 1].view[From(t, i)], Pos(t, i)))]
BY DEF Spends, Spending!RunsLeft, SpendStep, From, Pos

\* UpdateCoins is this loop, and then the entry of t.
LEMMA UpdateCoinsRuns ==
  ASSUME NEW v, NEW t \in Txs
  PROVE  \E r : /\ Spends(r, v, t)
                /\ \A h : UpdateCoins(v, t, h)
                            = [view |-> [r[Len(Vin[t])].view EXCEPT ![t] = CCoins(t, h)],
                               undo |-> r[Len(Vin[t])].undo]
<1> DEFINE n == Len(Vin[t])
           base == [view |-> v, undo |-> <<>>]
           s == Spending!Left(0, 0, base, Vin[t])
<1>1. n \in Nat /\ DOMAIN Vin[t] = 1 .. n
  BY TxInputs
<1>2. \A h : UpdateCoins(v, t, h) = [s EXCEPT !.view[t] = CCoins(t, h)]
  BY DEF UpdateCoins, SpendStep, Spending!Left, FoldLeft, MapThenFoldSet, Max, Spending!Greatest
<1> HIDE DEF n, s
<1>3. PICK r : Spending!RunsLeft(r, 0, 0, base, Vin[t], n) /\ s = r[n]
  BY <1>1, Spending!LeftRuns DEF s
<1>4. Spends(r, v, t)
  BY <1>3 DEF Spends, n
<1>5. r[n] = [view |-> r[n].view, undo |-> r[n].undo]
  <2>1. r[0] = [view |-> v, undo |-> <<>>]
    BY <1>4, SpendsStep
  <2>2. \A i \in 1 .. n :
          r[i] = [view |-> [r[i - 1].view EXCEPT ![From(t, i)] = Spend(@, Pos(t, i))],
                  undo |-> Append(r[i - 1].undo, UndoOf(r[i - 1].view[From(t, i)], Pos(t, i)))]
    BY <1>4, SpendsStep DEF n
  <2>3. n = 0 \/ n \in 1 .. n
    BY <1>1
  <2>4. CASE n = 0
    BY <2>1, <2>4
  <2>5. CASE n \in 1 .. n
    <3>1. r[n] = [view |-> [r[n - 1].view EXCEPT ![From(t, n)] = Spend(@, Pos(t, n))],
                  undo |-> Append(r[n - 1].undo, UndoOf(r[n - 1].view[From(t, n)], Pos(t, n)))]
      BY <2>2, <2>5
    <3> QED BY <3>1
  <2> QED BY <2>3, <2>4, <2>5
<1>6. \A h : UpdateCoins(v, t, h)
               = [view |-> [r[n].view EXCEPT ![t] = CCoins(t, h)], undo |-> r[n].undo]
  BY <1>2, <1>3, <1>5
<1> QED BY <1>4, <1>6 DEF n

\* Sequences as functions.
LEMMA SeqOfLength ==
  ASSUME NEW X, NEW n \in Nat, NEW s \in [1 .. n -> X]
  PROVE  s \in Seq(X) /\ Len(s) = n
OBVIOUS

\* Append as a function.
LEMMA AppendIs ==
  ASSUME NEW X, NEW s \in Seq(X), NEW x
  PROVE  Append(s, x) = [i \in 1 .. Len(s) + 1 |-> IF i = Len(s) + 1 THEN x ELSE s[i]]
<1> DEFINE e == Append(s, x)
           n == Len(s)
<1>1. s \in Seq(X \cup {x}) /\ x \in X \cup {x}
  OBVIOUS
<1>2. e \in Seq(X \cup {x}) /\ Len(e) = n + 1 /\ n \in Nat
  BY <1>1
<1>3. e = [i \in 1 .. n + 1 |-> e[i]]
  <2> HIDE DEF e, n
  <2> QED BY <1>2
<1>4. \A i \in 1 .. n + 1 : e[i] = IF i = n + 1 THEN x ELSE s[i]
  BY <1>1, <1>2
<1> HIDE DEF e
<1>5. e = [i \in 1 .. n + 1 |-> IF i = n + 1 THEN x ELSE s[i]]
  BY <1>3, <1>4
<1> QED BY <1>5 DEF e

\* What is left of v once the first k inputs of t are spent.
Left(v, t, k, p) == {x \in v[p].vout : \A i \in 1 .. k : ~(From(t, i) = p /\ Pos(t, i) = x)}
After(v, t, k) == [p \in Txs |-> IF v[p] = Null THEN Null ELSE [v[p] EXCEPT !.vout = Left(v, t, k, p)]]

\* The undo data this gives.
UndoData(v, t) == [i \in 1 .. Len(Vin[t]) |-> UndoOf(After(v, t, i - 1)[From(t, i)], Pos(t, i))]

\* An entry is its three fields, and EXCEPT changes one of them.
LEMMA CoinFields ==
  /\ \A c \in Coin : c = [fCoinBase |-> c.fCoinBase, nHeight |-> c.nHeight, vout |-> c.vout]
  /\ \A c \in Coin : \A X : [c EXCEPT !.vout = X] = [fCoinBase |-> c.fCoinBase, nHeight |-> c.nHeight, vout |-> X]
BY DEF Coin

\* Spending inputs changes what is left of an entry, and nothing else of it.
LEMMA AfterEntry ==
  ASSUME NEW v \in View, NEW t \in Txs, NEW k, NEW p \in Txs
  PROVE  /\ v[p] = Null => After(v, t, k)[p] = Null
         /\ v[p] # Null =>
              /\ v[p] \in Coin
              /\ After(v, t, k)[p] = [fCoinBase |-> v[p].fCoinBase, nHeight |-> v[p].nHeight, vout |-> Left(v, t, k, p)]
              /\ After(v, t, k)[p] \in Coin
<1>1. v[p] # Null => v[p] \in Coin
  BY DEF View
<1>2. v[p] # Null => After(v, t, k)[p] = [v[p] EXCEPT !.vout = Left(v, t, k, p)]
  BY DEF After
<1>3. v[p] # Null => After(v, t, k)[p] = [fCoinBase |-> v[p].fCoinBase, nHeight |-> v[p].nHeight, vout |-> Left(v, t, k, p)]
  BY <1>1, <1>2, CoinFields
<1>4. Left(v, t, k, p) \subseteq v[p].vout
  BY DEF Left
<1>5. v[p] # Null => [fCoinBase |-> v[p].fCoinBase, nHeight |-> v[p].nHeight, vout |-> Left(v, t, k, p)] \in Coin
  BY <1>1, <1>4 DEF Coin
<1> QED BY <1>1, <1>3, <1>5 DEF After

\* Spending keeps a view sound, and brings nothing back.
LEMMA AfterIsSound ==
  ASSUME NEW v \in View, NEW t \in Txs, NEW k
  PROVE  /\ After(v, t, k) \in View
         /\ Sound(v) => Sound(After(v, t, k))
         /\ \A p \in Txs : ~Live(v[p]) => ~Live(After(v, t, k)[p])
<1> DEFINE a == After(v, t, k)
<1>1. a \in View
  <2>1. \A p \in Txs : a[p] \in Coin \cup {Null}
    BY AfterEntry
  <2>2. a = [p \in Txs |-> a[p]]
    BY DEF After
  <2> HIDE DEF a
  <2> QED BY <2>1, <2>2 DEF View
<1>2. \A p \in Txs : Live(a[p]) => /\ v[p] # Null /\ a[p].nHeight = v[p].nHeight
                                   /\ a[p].vout \subseteq v[p].vout /\ v[p].vout # {}
  <2> SUFFICES ASSUME NEW p \in Txs, Live(a[p])
               PROVE  /\ v[p] # Null /\ a[p].nHeight = v[p].nHeight
                      /\ a[p].vout \subseteq v[p].vout /\ v[p].vout # {}
    OBVIOUS
  <2>1. v[p] # Null
    BY AfterEntry DEF Live
  <2>2. a[p] = [fCoinBase |-> v[p].fCoinBase, nHeight |-> v[p].nHeight, vout |-> Left(v, t, k, p)]
    BY <2>1, AfterEntry
  <2>3. Left(v, t, k, p) \subseteq v[p].vout
    BY DEF Left
  <2>4. a[p].vout # {}
    BY DEF Live
  <2> HIDE DEF a
  <2> QED BY <2>1, <2>2, <2>3, <2>4
<1> HIDE DEF a
<1>3. \A p \in Txs : Live(a[p]) => Live(v[p])
  BY <1>2 DEF Live
<1>4. Sound(v) => Sound(a)
  BY <1>1, <1>2, <1>3 DEF Sound
<1> QED BY <1>1, <1>3, <1>4 DEF a

\* Input after input.
LEMMA AfterNone ==
  ASSUME NEW v \in View, NEW t \in Txs
  PROVE  After(v, t, 0) = v
<1>1. ASSUME NEW p \in Txs PROVE After(v, t, 0)[p] = v[p]
  <2>1. Left(v, t, 0, p) = v[p].vout
    BY DEF Left
  <2>2. v[p] # Null => v[p] = [fCoinBase |-> v[p].fCoinBase, nHeight |-> v[p].nHeight, vout |-> v[p].vout]
    BY AfterEntry, CoinFields
  <2> QED BY <2>1, <2>2, AfterEntry
<1>2. After(v, t, 0) = [p \in Txs |-> After(v, t, 0)[p]] /\ v = [p \in Txs |-> v[p]]
  BY DEF After, View
<1> QED BY <1>1, <1>2

\* What input k does: it finds the output and takes it away.
InputSpent(v, t, k) ==
  LET p == From(t, k)
      x == Pos(t, k)
      c == After(v, t, k - 1)[p]
  IN  /\ p \in Txs /\ v[p] # Null /\ Live(v[p]) /\ c \in Coin /\ c # Null /\ x \in c.vout
      /\ c.fCoinBase = v[p].fCoinBase /\ c.nHeight = v[p].nHeight
      /\ After(v, t, k)[p] = Spend(c, x)
      /\ Spend(c, x) = [fCoinBase |-> c.fCoinBase, nHeight |-> c.nHeight, vout |-> c.vout \ {x}]
      /\ \A q \in Txs \ {p} : After(v, t, k)[q] = After(v, t, k - 1)[q]

\* With the inputs there, every input finds its output: no two inputs spend the same.
LEMMA AfterNext ==
  ASSUME NEW v \in View, NEW t \in Txs, HaveInputs(v, t), NEW k \in 1 .. Len(Vin[t])
  PROVE  InputSpent(v, t, k)
<1> DEFINE p == From(t, k)
           x == Pos(t, k)
           c == After(v, t, k - 1)[p]
<1>0. Len(Vin[t]) \in Nat /\ k \in Nat /\ k >= 1 /\ k <= Len(Vin[t])
  BY TxInputs
<1>1. p \in Txs /\ x \in Nat /\ Vin[t][k] = <<p, x>> /\ k \in DOMAIN Vin[t]
  BY TxInputs
<1>2. v[p] # Null /\ x \in v[p].vout
  BY <1>1 DEF HaveInputs, IsAvailable, HaveCoins
<1>3. c = [fCoinBase |-> v[p].fCoinBase, nHeight |-> v[p].nHeight, vout |-> Left(v, t, k - 1, p)]
      /\ c \in Coin
  BY <1>1, <1>2, AfterEntry
<1>4. x \in Left(v, t, k - 1, p)
  <2>1. \A i \in 1 .. k - 1 : ~(From(t, i) = p /\ Pos(t, i) = x)
    BY <1>0, TxInputs
  <2> QED BY <1>2, <2>1 DEF Left
<1>5. \A q \in Txs : Left(v, t, k, q) = IF q = p THEN Left(v, t, k - 1, q) \ {x} ELSE Left(v, t, k - 1, q)
  <2>1. \A i : i \in 1 .. k <=> i \in 1 .. k - 1 \/ i = k
    BY <1>0
  <2> QED BY <2>1 DEF Left
<1>6. After(v, t, k)[p] = [fCoinBase |-> c.fCoinBase, nHeight |-> c.nHeight, vout |-> c.vout \ {x}]
  <2>1. After(v, t, k)[p] = [fCoinBase |-> v[p].fCoinBase, nHeight |-> v[p].nHeight, vout |-> Left(v, t, k, p)]
    BY <1>1, <1>2, AfterEntry
  <2>2. Left(v, t, k, p) = Left(v, t, k - 1, p) \ {x}
    BY <1>1, <1>5
  <2>3. c.fCoinBase = v[p].fCoinBase /\ c.nHeight = v[p].nHeight /\ c.vout = Left(v, t, k - 1, p)
    BY <1>3
  <2> QED BY <2>1, <2>2, <2>3
<1>7. \A q \in Txs \ {p} : After(v, t, k)[q] = After(v, t, k - 1)[q]
  <2> SUFFICES ASSUME NEW q \in Txs, q # p
               PROVE  After(v, t, k)[q] = After(v, t, k - 1)[q]
    OBVIOUS
  <2>1. Left(v, t, k, q) = Left(v, t, k - 1, q)
    BY <1>5
  <2> QED BY <2>1 DEF After
<1>8. Spend(c, x) = [fCoinBase |-> c.fCoinBase, nHeight |-> c.nHeight, vout |-> c.vout \ {x}]
  <2> QED BY <1>3, CoinFields DEF Spend
<1>9. Live(v[p]) /\ c.fCoinBase = v[p].fCoinBase /\ c.nHeight = v[p].nHeight /\ x \in c.vout /\ c # Null
  BY <1>2, <1>3, <1>4, NullIsNoCoin DEF Live
<1> QED BY <1>1, <1>2, <1>3, <1>6, <1>7, <1>8, <1>9 DEF InputSpent

\* UpdateCoins without the loop.
LEMMA UpdateCoinsIs ==
  ASSUME NEW v \in View, NEW t \in Txs, HaveInputs(v, t), NEW h
  PROVE  UpdateCoins(v, t, h) = [view |-> [After(v, t, Len(Vin[t])) EXCEPT ![t] = CCoins(t, h)],
                                 undo |-> UndoData(v, t)]
<1> DEFINE n == Len(Vin[t])
           u(k) == [i \in 1 .. k |-> UndoOf(After(v, t, i - 1)[From(t, i)], Pos(t, i))]
<1>1. n \in Nat
  BY TxInputs
<1>2. PICK r : /\ Spends(r, v, t)
               /\ UpdateCoins(v, t, h) = [view |-> [r[n].view EXCEPT ![t] = CCoins(t, h)], undo |-> r[n].undo]
  BY UpdateCoinsRuns
<1>3. r[0] = [view |-> v, undo |-> <<>>]
  BY <1>2, SpendsStep
<1>4. \A i \in 1 .. n :
        r[i] = [view |-> [r[i - 1].view EXCEPT ![From(t, i)] = Spend(@, Pos(t, i))],
                undo |-> Append(r[i - 1].undo, UndoOf(r[i - 1].view[From(t, i)], Pos(t, i)))]
  BY <1>2, SpendsStep
<1> HIDE DEF n
<1> DEFINE S == {k \in 0 .. n : r[k].view = After(v, t, k) /\ r[k].undo = u(k)}
<1>5. 0 \in S
  <2>1. u(0) = <<>>
    OBVIOUS
  <2> QED BY <1>1, <1>3, <2>1, AfterNone
<1>6. ASSUME NEW k \in 0 .. n - 1, k \in S
      PROVE  k + 1 \in S
  <2> DEFINE m == k + 1
             o == UndoOf(After(v, t, k)[From(t, m)], Pos(t, m))
  <2>1. m \in 1 .. n /\ m - 1 = k /\ k \in Nat
    BY <1>1
  <2>2. r[m].view = [After(v, t, k) EXCEPT ![From(t, m)] = Spend(@, Pos(t, m))]
        /\ r[m].undo = Append(u(k), o)
    <3>1. r[m] = [view |-> [r[k].view EXCEPT ![From(t, m)] = Spend(@, Pos(t, m))],
                  undo |-> Append(r[k].undo, UndoOf(r[k].view[From(t, m)], Pos(t, m)))]
      BY <1>4, <2>1
    <3>2. r[k].view = After(v, t, k) /\ r[k].undo = u(k)
      BY <1>6
    <3>3. r[m].view = [r[k].view EXCEPT ![From(t, m)] = Spend(@, Pos(t, m))]
          /\ r[m].undo = Append(r[k].undo, UndoOf(r[k].view[From(t, m)], Pos(t, m)))
      BY <3>1
    <3> HIDE DEF u
    <3> QED BY <3>2, <3>3
  <2>3. After(v, t, m) = [After(v, t, k) EXCEPT ![From(t, m)] = Spend(@, Pos(t, m))]
    <3> HIDE DEF m
    <3> DEFINE a == After(v, t, k)
               e == After(v, t, m)
               p == From(t, m)
               x == Pos(t, m)
    <3>1. p \in Txs /\ e[p] = Spend(a[p], x) /\ \A q \in Txs \ {p} : e[q] = a[q]
      <4>1. m \in 1 .. Len(Vin[t]) /\ a = After(v, t, m - 1)
        BY <2>1 DEF n
      <4>2. InputSpent(v, t, m)
        BY <4>1, AfterNext
      <4> QED BY <2>1, <4>2 DEF InputSpent
    <3>2. a = [q \in Txs |-> a[q]] /\ e = [q \in Txs |-> e[q]]
      BY DEF After
    <3> HIDE DEF a, e, p, x
    <3>3. e = [a EXCEPT ![p] = Spend(@, x)]
      BY <3>1, <3>2
    <3> QED BY <3>3 DEF a, e, p, x
  <2>4. Append(u(k), o) = u(m)
    <3> DEFINE w(i) == UndoOf(After(v, t, i - 1)[From(t, i)], Pos(t, i))
    <3>1. u(k) = [i \in 1 .. k |-> w(i)] /\ u(m) = [i \in 1 .. k + 1 |-> w(i)] /\ o = w(k + 1)
      BY <2>1
    <3> HIDE DEF w, u, o
    <3>2. u(k) \in Seq({w(i) : i \in 1 .. k}) /\ Len(u(k)) = k
      <4> DEFINE X == {w(i) : i \in 1 .. k}
      <4>1. \A i \in 1 .. k : w(i) \in X
        OBVIOUS
      <4> HIDE DEF X
      <4>2. u(k) \in [1 .. k -> X] /\ k \in Nat
        BY <2>1, <3>1, <4>1
      <4> QED BY <4>2, SeqOfLength DEF X
    <3>3. Append(u(k), o) = [i \in 1 .. k + 1 |-> IF i = k + 1 THEN o ELSE u(k)[i]]
      BY <3>2, AppendIs
    <3>4. \A i \in 1 .. k + 1 : (IF i = k + 1 THEN o ELSE u(k)[i]) = w(i)
      BY <2>1, <3>1
    <3> QED BY <3>1, <3>3, <3>4
  <2>5. m \in 0 .. n
    BY <1>1
  <2> HIDE DEF u, o
  <2> QED BY <2>2, <2>3, <2>4, <2>5
<1>7. \A k \in 0 .. n : k \in S
  <2> HIDE DEF S
  <2> QED BY <1>1, <1>5, <1>6, Spending!UpTo
<1>8. r[n].view = After(v, t, n) /\ r[n].undo = u(n)
  BY <1>1, <1>7
<1> QED BY <1>2, <1>8 DEF UndoData, n

\* The view after transaction t of a block at height h.
Updated(v, t, h) == [After(v, t, Len(Vin[t])) EXCEPT ![t] = CCoins(t, h)]

\* What a transaction does to each entry.
LEMMA UpdatedIs ==
  ASSUME NEW v \in View, NEW t \in Txs, NEW h \in Nat
  PROVE  /\ Updated(v, t, h) \in View
         /\ Updated(v, t, h)[t] = CCoins(t, h)
         /\ \A p \in Txs \ {t} : Updated(v, t, h)[p] = After(v, t, Len(Vin[t]))[p]
         /\ \A p \in Txs \ {t} : ~Live(v[p]) => ~Live(Updated(v, t, h)[p])
         /\ Sound(v) /\ h # 0 => Sound(Updated(v, t, h))
<1> DEFINE a == After(v, t, Len(Vin[t]))
           c == CCoins(t, h)
           u == Updated(v, t, h)
<1>1. a \in View /\ (Sound(v) => Sound(a)) /\ \A p \in Txs : ~Live(v[p]) => ~Live(a[p])
  BY AfterIsSound
<1>2. c \in Coin /\ c.nHeight = h /\ c.vout = DOMAIN Vout[t]
  BY CCoinsIs
<1>3. u = [a EXCEPT ![t] = c]
  BY DEF Updated
<1> HIDE DEF a, c, u
<1>4. u \in View /\ u[t] = c /\ \A p \in Txs \ {t} : u[p] = a[p]
  BY <1>1, <1>2, <1>3 DEF View
<1>5. Sound(v) /\ h # 0 => Sound(u)
  BY <1>1, <1>2, <1>4 DEF Sound
<1> QED BY <1>1, <1>4, <1>5 DEF a, c, u

\* Undo data are sequences of undo records, one for each input.
LEMMA UndoDataType ==
  ASSUME NEW v \in View, NEW t \in Txs, HaveInputs(v, t)
  PROVE  /\ UndoData(v, t) \in Seq(UndoRecord)
         /\ Len(UndoData(v, t)) = Len(Vin[t])
<1> DEFINE n == Len(Vin[t])
           w(i) == UndoOf(After(v, t, i - 1)[From(t, i)], Pos(t, i))
<1>1. n \in Nat
  BY TxInputs
<1>2. ASSUME NEW i \in 1 .. n
      PROVE  w(i) \in UndoRecord
  <2> DEFINE c == After(v, t, i - 1)[From(t, i)]
  <2>1. InputSpent(v, t, i)
    BY AfterNext
  <2>2. c \in Coin
    BY <2>1 DEF InputSpent
  <2> HIDE DEF c
  <2>3. UndoOf(c, Pos(t, i)) \in UndoRecord
    BY <2>2 DEF UndoOf, UndoRecord, Coin
  <2> QED BY <2>3 DEF c
<1>3. UndoData(v, t) = [i \in 1 .. n |-> w(i)]
  BY DEF UndoData
<1> HIDE DEF n, w
<1>4. UndoData(v, t) \in [1 .. n -> UndoRecord]
  BY <1>2, <1>3
<1> QED BY <1>1, <1>4, SeqOfLength DEF n

-----------------------------------------------------------------------------
(***************************************************************************)
(* Views that are alike treat a transaction alike.                         *)
(***************************************************************************)
LEMMA AlikeInputs ==
  ASSUME NEW v, NEW w, Alike(v, w), NEW t \in Txs
  PROVE  /\ HaveInputs(v, t) <=> HaveInputs(w, t)
         /\ HaveInputs(v, t) => \A i \in 1 .. Len(Vin[t]) : v[From(t, i)] = w[From(t, i)]
         /\ \A h : CheckInputs(v, t, h) <=> CheckInputs(w, t, h)
<1> DEFINE n == Len(Vin[t])
<1>1. DOMAIN Vin[t] = 1 .. n /\ \A i \in 1 .. n : From(t, i) \in Txs /\ Vin[t][i][1] = From(t, i) /\ Vin[t][i][2] = Pos(t, i)
  BY TxInputs DEF From, Pos
<1>2. \A x : HaveInputs(x, t) <=> \A i \in 1 .. n : x[From(t, i)] # Null /\ Pos(t, i) \in x[From(t, i)].vout
  BY <1>1 DEF HaveInputs, IsAvailable, HaveCoins
<1>3. \A p \in Txs : Live(v[p]) \/ Live(w[p]) => v[p] = w[p]
  BY DEF Alike
<1> HIDE DEF n
<1>4. HaveInputs(v, t) => \A i \in 1 .. n : v[From(t, i)] = w[From(t, i)]
  BY <1>1, <1>2, <1>3 DEF Live
<1>5. HaveInputs(w, t) => \A i \in 1 .. n : v[From(t, i)] = w[From(t, i)]
  BY <1>1, <1>2, <1>3 DEF Live
<1>6. HaveInputs(v, t) <=> HaveInputs(w, t)
  BY <1>2, <1>4, <1>5
<1>7. ASSUME NEW h
      PROVE  CheckInputs(v, t, h) <=> CheckInputs(w, t, h)
  BY <1>1, <1>4, <1>6 DEF CheckInputs
<1> QED BY <1>4, <1>6, <1>7 DEF n

\* Views that are alike stay alike, and give the same undo data.
LEMMA UpdatedAlike ==
  ASSUME NEW v \in View, NEW w \in View, Alike(v, w), NEW t \in Txs, NEW h \in Nat, HaveInputs(v, t)
  PROVE  UndoData(v, t) = UndoData(w, t) /\ Alike(Updated(v, t, h), Updated(w, t, h))
<1> DEFINE n == Len(Vin[t])
<1>1. ASSUME NEW p \in Txs, v[p] = w[p], NEW k
      PROVE  After(v, t, k)[p] = After(w, t, k)[p]
  <2>1. Left(v, t, k, p) = Left(w, t, k, p)
    BY <1>1 DEF Left
  <2> QED BY <1>1, <2>1 DEF After
<1>2. \A i \in 1 .. n : From(t, i) \in Txs /\ v[From(t, i)] = w[From(t, i)]
  BY TxInputs, AlikeInputs
<1>3. \A i \in 1 .. n : After(v, t, i - 1)[From(t, i)] = After(w, t, i - 1)[From(t, i)]
  BY <1>1, <1>2
<1>4. UndoData(v, t) = UndoData(w, t)
  BY <1>3 DEF UndoData
<1>5. ASSUME NEW p \in Txs, Live(Updated(v, t, h)[p]) \/ Live(Updated(w, t, h)[p])
      PROVE  Updated(v, t, h)[p] = Updated(w, t, h)[p]
  <2>1. CASE p = t
    BY <2>1, UpdatedIs
  <2>2. CASE p # t
    <3>1. Live(v[p]) \/ Live(w[p])
      BY <1>5, <2>2, UpdatedIs
    <3>2. v[p] = w[p]
      BY <3>1 DEF Alike
    <3> QED BY <1>1, <2>2, <3>2, UpdatedIs
  <2> QED BY <2>1, <2>2
<1> QED BY <1>4, <1>5 DEF Alike

-----------------------------------------------------------------------------
(***************************************************************************)
(* DisconnectBlock takes a transaction back: with the undo data that       *)
(* UpdateCoins has left and a view like the one it has left, the result is *)
(* like the view before, and nothing is found unclean.                     *)
(***************************************************************************)
\* The values of the loop over the inputs.
Restores(r, t, u, base) ==
  Restoring!RunsRight(r, t, u, base, [j \in DOMAIN Vin[t] |-> j], Len(Vin[t]))

\* One of its steps, from s to z.
InputRestored(z, s, t, u, k) ==
  LET p == From(t, k)
      c == Restore(s.view[p], Pos(t, k), u[k])
  IN  /\ z = [clean |-> z.clean, view |-> z.view]
      /\ z.clean = (s.clean /\ RestoreClean(s.view[p], Pos(t, k), u[k]))
      /\ z.view = [s.view EXCEPT ![p] = c]

\* UndoTx is the loop that restores the inputs, from the last to the first.
LEMMA UndoTxRuns ==
  ASSUME NEW s, NEW t \in Txs, NEW h, NEW u
  PROVE  \E r : /\ Restores(r, t, u, [clean |-> s.clean /\ s.view[t] = CCoins(t, h),
                                      view |-> [s.view EXCEPT ![t] = Cleared]])
                /\ UndoTx(s, t, h, u) = r[1]
<1> DEFINE n == Len(Vin[t])
           base == [clean |-> s.clean /\ s.view[t] = CCoins(t, h),
                    view |-> [s.view EXCEPT ![t] = Cleared]]
           f == [j \in DOMAIN Vin[t] |-> j]
<1>1. n \in Nat /\ DOMAIN f = 1 .. n
  BY TxInputs
<1>2. UndoTx(s, t, h, u) = Restoring!Right(t, u, base, f)
  BY DEF UndoTx, RestoreStep, Restoring!Right, FoldRightDomain, FoldRight, MapThenFoldSet, Min, Restoring!Least
<1> HIDE DEF n, f, base
<1>3. PICK r : Restoring!RunsRight(r, t, u, base, f, n) /\ Restoring!Right(t, u, base, f) = r[1]
  BY <1>1, Restoring!RightRuns
<1>4. Restores(r, t, u, base) /\ UndoTx(s, t, h, u) = r[1]
  BY <1>2, <1>3 DEF Restores, f, n
<1> QED BY <1>4 DEF base

\* One input in this loop.
LEMMA RestoresStep ==
  ASSUME NEW r, NEW t \in Txs, NEW u, NEW base, Restores(r, t, u, base)
  PROVE  /\ r[Len(Vin[t]) + 1] = base
         /\ \A k \in 1 .. Len(Vin[t]) : InputRestored(r[k], r[k + 1], t, u, k)
<1> DEFINE n == Len(Vin[t])
           f == [j \in DOMAIN Vin[t] |-> j]
<1>1. r[n + 1] = base /\ \A k \in 1 .. n : r[k] = RestoreStep(t, u, f[k], r[k + 1])
  BY DEF Restores, Restoring!RunsRight
<1>2. \A k \in 1 .. n : f[k] = k
  BY TxInputs
<1>3. ASSUME NEW k \in 1 .. n
      PROVE  InputRestored(r[k], r[k + 1], t, u, k)
  <2>1. r[k] = RestoreStep(t, u, k, r[k + 1])
    BY <1>1, <1>2
  <2> HIDE DEF f, n
  <2>2. r[k] = [clean |-> r[k + 1].clean /\ RestoreClean(r[k + 1].view[From(t, k)], Pos(t, k), u[k]),
                view |-> [r[k + 1].view EXCEPT ![From(t, k)] = Restore(@, Pos(t, k), u[k])]]
    BY <2>1 DEF RestoreStep, From, Pos
  <2> QED BY <2>2 DEF InputRestored
<1> QED BY <1>1, <1>3

\* One input: from a view like the one with k inputs spent to one with k - 1.
LEMMA RestoredInput ==
  ASSUME NEW v, Sound(v), NEW t \in Txs, HaveInputs(v, t), NEW k \in 1 .. Len(Vin[t]),
         NEW s, s.clean = TRUE, s.view \in View, Alike(s.view, After(v, t, k)),
         NEW z, InputRestored(z, s, t, UndoData(v, t), k)
  PROVE  z.clean = TRUE /\ z.view \in View /\ Alike(z.view, After(v, t, k - 1))
<1> DEFINE p == From(t, k)
           x == Pos(t, k)
           a == After(v, t, k - 1)
           e == After(v, t, k)
           c == a[p]
           y == s.view[p]
           u == UndoOf(c, x)
           w == Restore(y, x, u)
<1>0. v \in View
  BY DEF Sound
<1>1. InputSpent(v, t, k)
  BY <1>0, AfterNext
<1>2. /\ p \in Txs /\ c \in Coin /\ c # Null /\ x \in c.vout
      /\ c.nHeight = v[p].nHeight /\ Live(v[p])
      /\ e[p] = [fCoinBase |-> c.fCoinBase, nHeight |-> c.nHeight, vout |-> c.vout \ {x}]
      /\ \A q \in Txs \ {p} : e[q] = a[q]
  BY <1>1 DEF InputSpent
<1>3. c.nHeight # 0
  BY <1>2 DEF Sound
<1>4. UndoData(v, t)[k] = u
  BY DEF UndoData
<1>5. /\ z.clean = (s.clean /\ RestoreClean(y, x, u))
      /\ z.view = [s.view EXCEPT ![p] = w]
  BY <1>4 DEF InputRestored
<1>6. y \in Coin \cup {Null} /\ (Live(y) \/ Live(e[p]) => y = e[p])
  BY <1>2 DEF View, Alike
<1>7. a \in View /\ e \in View
  BY <1>0, AfterIsSound
<1> HIDE DEF p, x, a, e, y
<1>8. c \in Coin /\ c = [fCoinBase |-> c.fCoinBase, nHeight |-> c.nHeight, vout |-> c.vout]
  BY <1>2, CoinFields
<1> HIDE DEF c, u, w
<1>9. w = c /\ RestoreClean(y, x, u) = TRUE
  <2>1. CASE c.vout = {x}
    <3>1. u = [nHeight |-> c.nHeight, fCoinBase |-> c.fCoinBase]
      BY <2>1 DEF u, UndoOf
    <3>2. ~Live(e[p])
      BY <1>2, <2>1 DEF Live
    <3>3. ~Live(y)
      <4>1. e[p].vout = {}
        BY <1>2, <2>1
      <4> QED BY <1>6, <3>2
    <3>4. w = [fCoinBase |-> c.fCoinBase, nHeight |-> c.nHeight, vout |-> {x}]
      BY <1>3, <3>1 DEF w, Restore
    <3>5. y = Null \/ y.vout = {}
      BY <3>3 DEF Live
    <3>6. RestoreClean(y, x, u)
      BY <1>3, <3>1, <3>5 DEF RestoreClean, IsPruned
    <3> QED BY <1>8, <2>1, <3>4, <3>6
  <2>2. CASE c.vout # {x}
    <3>1. u.nHeight = 0
      BY <2>2 DEF u, UndoOf
    <3>2. e[p].vout = c.vout \ {x} /\ c.vout \ {x} # {}
      BY <1>2, <2>2
    <3>3. e[p] # Null
      <4>1. e[p] \in Coin
        BY <1>2, <1>8 DEF Coin
      <4> QED BY <4>1, NullIsNoCoin
    <3>4. y = e[p] /\ y # Null
      BY <1>6, <3>2, <3>3 DEF Live
    <3>5. y = [fCoinBase |-> c.fCoinBase, nHeight |-> c.nHeight, vout |-> c.vout \ {x}]
      BY <1>2, <3>4
    <3>6. w = [y EXCEPT !.vout = @ \cup {x}]
      BY <3>1, <3>4 DEF w, Restore
    <3>7. w = [fCoinBase |-> c.fCoinBase, nHeight |-> c.nHeight, vout |-> (c.vout \ {x}) \cup {x}]
      BY <3>5, <3>6
    <3>8. (c.vout \ {x}) \cup {x} = c.vout
      BY <1>2
    <3>9. RestoreClean(y, x, u)
      BY <3>1, <3>2, <3>4 DEF RestoreClean, IsPruned
    <3> QED BY <1>8, <3>7, <3>8, <3>9
  <2> QED BY <2>1, <2>2
<1>10. z.clean = TRUE
  BY <1>5, <1>9
<1>11. z.view \in View /\ z.view[p] = c /\ \A q \in Txs \ {p} : z.view[q] = s.view[q]
  BY <1>2, <1>5, <1>8, <1>9 DEF View
<1>12. ASSUME NEW q \in Txs, Live(z.view[q]) \/ Live(a[q])
       PROVE  z.view[q] = a[q]
  <2>1. CASE q = p
    BY <1>11, <2>1 DEF c
  <2>2. CASE q # p
    <3>1. z.view[q] = s.view[q] /\ a[q] = e[q]
      BY <1>2, <1>11, <2>2
    <3> QED BY <1>12, <3>1 DEF Alike, e
  <2> QED BY <2>1, <2>2
<1> QED BY <1>10, <1>11, <1>12 DEF Alike, a

\* Undoing a transaction with its undo data gives back a view like the one before it.
LEMMA UndoTxInverse ==
  ASSUME NEW v, Sound(v), NEW t \in Txs, HaveInputs(v, t), ~Live(v[t]), NEW h \in Nat,
         NEW s, s.clean = TRUE, s.view \in View, Alike(s.view, Updated(v, t, h))
  PROVE  LET z == UndoTx(s, t, h, UndoData(v, t))
         IN  z.clean = TRUE /\ z.view \in View /\ Alike(z.view, v)
<1> DEFINE n == Len(Vin[t])
           u == UndoData(v, t)
           base == [clean |-> s.clean /\ s.view[t] = CCoins(t, h),
                    view |-> [s.view EXCEPT ![t] = Cleared]]
<1>0. v \in View /\ n \in Nat
  BY TxInputs DEF Sound
<1>1. PICK r : Restores(r, t, u, base) /\ UndoTx(s, t, h, u) = r[1]
  BY UndoTxRuns
<1>2. r[n + 1] = base /\ \A k \in 1 .. n : InputRestored(r[k], r[k + 1], t, u, k)
  BY <1>1, RestoresStep
<1>3. base.clean = TRUE /\ base.view \in View /\ Alike(base.view, After(v, t, n))
  <2> DEFINE b == base.view
             e == After(v, t, n)
             w == Updated(v, t, h)
  <2>1. w[t] = CCoins(t, h) /\ Live(w[t]) /\ \A p \in Txs \ {t} : w[p] = e[p]
    <3>1. w[t] = CCoins(t, h) /\ \A p \in Txs \ {t} : w[p] = e[p]
      BY <1>0, UpdatedIs
    <3>2. Live(CCoins(t, h))
      BY CCoinsIs
    <3> HIDE DEF w, e
    <3> QED BY <3>1, <3>2
  <2>2. s.view[t] = CCoins(t, h)
    BY <2>1 DEF Alike
  <2>3. Cleared \in Coin /\ ~Live(Cleared)
    BY DEF Cleared, Coin, Live
  <2>4. b = [s.view EXCEPT ![t] = Cleared]
    OBVIOUS
  <2>5. ~Live(e[t])
    BY <1>0, AfterIsSound
  <2> HIDE DEF b, e, w
  <2>6. b \in View /\ b[t] = Cleared /\ \A p \in Txs \ {t} : b[p] = s.view[p]
    BY <2>3, <2>4 DEF View
  <2>7. ASSUME NEW p \in Txs, Live(b[p]) \/ Live(e[p])
        PROVE  b[p] = e[p]
    <3>1. p # t
      BY <2>3, <2>5, <2>6, <2>7
    <3>2. b[p] = s.view[p] /\ e[p] = w[p]
      BY <2>1, <2>6, <3>1
    <3> QED BY <2>7, <3>2 DEF Alike, w
  <2>8. Alike(b, e)
    BY <2>7 DEF Alike
  <2>9. base.clean = TRUE
    BY <2>2
  <2> QED BY <2>6, <2>8, <2>9 DEF b, e
<1> HIDE DEF n, u, base
<1> DEFINE P(j) == r[n + 1 - j].clean = TRUE /\ r[n + 1 - j].view \in View
                   /\ Alike(r[n + 1 - j].view, After(v, t, n - j))
           S == {j \in 0 .. n : P(j)}
<1>4. 0 \in S
  <2>1. n + 1 - 0 = n + 1 /\ n - 0 = n
    BY <1>0
  <2> QED BY <1>0, <1>2, <1>3, <2>1
<1>5. ASSUME NEW j \in 0 .. n - 1, j \in S
      PROVE  j + 1 \in S
  <2> DEFINE k == n - j
  <2>1. k \in 1 .. n /\ n + 1 - j = k + 1 /\ n + 1 - (j + 1) = k /\ n - (j + 1) = k - 1
    BY <1>0
  <2>2. r[k + 1].clean = TRUE /\ r[k + 1].view \in View /\ Alike(r[k + 1].view, After(v, t, k))
    BY <1>5, <2>1
  <2>3. InputRestored(r[k], r[k + 1], t, u, k)
    BY <1>2, <2>1
  <2>4. r[k].clean = TRUE /\ r[k].view \in View /\ Alike(r[k].view, After(v, t, k - 1))
    <3>1. k \in 1 .. Len(Vin[t])
      BY <2>1 DEF n
    <3>2. InputRestored(r[k], r[k + 1], t, UndoData(v, t), k)
      BY <2>3 DEF u
    <3> HIDE DEF k
    <3> QED BY <2>2, <3>1, <3>2, RestoredInput
  <2>5. j + 1 \in 0 .. n
    BY <1>0
  <2>6. P(j + 1)
    <3> HIDE DEF k
    <3> QED BY <2>1, <2>4
  <2> QED BY <2>5, <2>6
<1>6. \A j \in 0 .. n : j \in S
  <2> HIDE DEF S
  <2> QED BY <1>0, <1>4, <1>5, Restoring!UpTo
<1>7. P(n)
  <2>1. n \in 0 .. n
    BY <1>0
  <2> QED BY <1>6, <2>1
<1>8. n + 1 - n = 1 /\ n - n = 0
  BY <1>0
<1>9. r[1].clean = TRUE /\ r[1].view \in View /\ Alike(r[1].view, v)
  BY <1>0, <1>7, <1>8, AfterNone
<1> QED BY <1>1, <1>9 DEF u

-----------------------------------------------------------------------------
(***************************************************************************)
(* ConnectBlock.                                                           *)
(***************************************************************************)
LEMMA BlockTxs ==
  ASSUME NEW b \in Blocks
  PROVE  /\ Len(Vtx[b]) \in Nat /\ Len(Vtx[b]) >= 1 /\ DOMAIN Vtx[b] = 1 .. Len(Vtx[b])
         /\ \A i \in 1 .. Len(Vtx[b]) : Vtx[b][i] \in Txs /\ (Vtx[b][i] \in Coinbases <=> i = 1)
         /\ \A i, j \in 1 .. Len(Vtx[b]) : Vtx[b][i] = Vtx[b][j] => i = j
<1>1. /\ Vtx[b] \in Seq(Txs) /\ Vtx[b] # <<>> /\ IsInjective(Vtx[b])
      /\ \A i \in DOMAIN Vtx[b] : Vtx[b][i] \in Coinbases <=> i = 1
  BY BlockAssumption
<1>2. Len(Vtx[b]) \in Nat /\ DOMAIN Vtx[b] = 1 .. Len(Vtx[b]) /\ \A i \in 1 .. Len(Vtx[b]) : Vtx[b][i] \in Txs
  BY <1>1
<1>3. Len(Vtx[b]) # 0
  BY <1>1
<1>4. Len(Vtx[b]) >= 1
  BY <1>2, <1>3
<1> QED BY <1>1, <1>2, <1>4 DEF IsInjective

\* What the loop over the transactions keeps, and what transaction i does to it.
BlockState(s) ==
  /\ s = [ok |-> s.ok, view |-> s.view, undo |-> s.undo, fees |-> s.fees]
  /\ s.ok \in BOOLEAN /\ Sound(s.view) /\ s.undo \in Seq(Seq(UndoRecord))

TxConnected(z, s, b, i) ==
  LET t == Vtx[b][i]
  IN  IF i = 1
      THEN /\ z.ok = s.ok /\ z.undo = s.undo /\ z.fees = s.fees
           /\ z.view = Updated(s.view, t, Height[b]) /\ HaveInputs(s.view, t)
      ELSE IF s.ok /\ CheckInputs(s.view, t, Height[b])
      THEN /\ z.ok = TRUE /\ z.undo = Append(s.undo, UndoData(s.view, t))
           /\ z.fees = s.fees + ValueIn(t) - ValueOut(t)
           /\ z.view = Updated(s.view, t, Height[b]) /\ HaveInputs(s.view, t)
      ELSE z.ok = FALSE /\ z.view = s.view /\ z.undo = s.undo /\ z.fees = s.fees

\* The values of this loop.
Connects(r, v, b) ==
  Connecting!RunsLeft(r, b, 0, [ok |-> Bip30(v, b), view |-> v, undo |-> <<>>, fees |-> 0],
                      Vtx[b], Len(Vtx[b]))

\* ConnectBlock is this loop, and then the check of what the coinbase pays.
LEMMA ConnectBlockRuns ==
  ASSUME NEW v, NEW b \in Blocks
  PROVE  \E r : /\ Connects(r, v, b)
                /\ ConnectBlock(v, b)
                     = [r[Len(Vtx[b])] EXCEPT !.ok = @ /\ MayPay(b, r[Len(Vtx[b])].fees)]
<1> DEFINE n == Len(Vtx[b])
           base == [ok |-> Bip30(v, b), view |-> v, undo |-> <<>>, fees |-> 0]
           s == Connecting!Left(b, 0, base, Vtx[b])
<1>1. n \in Nat /\ DOMAIN Vtx[b] = 1 .. n
  BY BlockTxs
<1>2. ConnectBlock(v, b) = [s EXCEPT !.ok = @ /\ MayPay(b, s.fees)]
  BY DEF ConnectBlock, ConnectStep, Connecting!Left, FoldLeft, MapThenFoldSet, Max, Connecting!Greatest
<1> HIDE DEF n, s, base
<1>3. PICK r : Connecting!RunsLeft(r, b, 0, base, Vtx[b], n) /\ s = r[n]
  BY <1>1, Connecting!LeftRuns DEF s
<1>4. Connects(r, v, b)
  BY <1>3 DEF Connects, n, base
<1> QED BY <1>2, <1>3, <1>4 DEF n

\* One transaction in this loop.
LEMMA ConnectsStep ==
  ASSUME NEW v, NEW b \in Blocks, NEW r, Connects(r, v, b)
  PROVE  /\ r[0] = [ok |-> Bip30(v, b), view |-> v, undo |-> <<>>, fees |-> 0]
         /\ \A i \in 1 .. Len(Vtx[b]) : r[i] = ConnectStep(b, 0, r[i - 1], Vtx[b][i])
BY DEF Connects, Connecting!RunsLeft

\* A step without UpdateCoins: what it does when it succeeds and when it fails.
LEMMA ConnectStepIs ==
  ASSUME NEW b \in Blocks, b # Genesis, NEW i \in 1 .. Len(Vtx[b]), NEW s, BlockState(s),
         NEW z, z = ConnectStep(b, 0, s, Vtx[b][i])
  PROVE  BlockState(z) /\ TxConnected(z, s, b, i)
<1> DEFINE t == Vtx[b][i]
           h == Height[b]
           y == UpdateCoins(s.view, t, h)
<1>1. t \in Txs /\ (t \in Coinbases <=> i = 1)
  BY BlockTxs
<1>2. h \in Nat /\ h # 0
  BY ChainOfPrev
<1>3. s.view \in View /\ Sound(s.view)
  BY DEF BlockState, Sound
<1>4. HaveInputs(s.view, t) => y.view = Updated(s.view, t, h) /\ y.undo = UndoData(s.view, t)
  BY <1>1, <1>3, UpdateCoinsIs DEF Updated
<1>5. Sound(Updated(s.view, t, h))
  BY <1>1, <1>2, <1>3, UpdatedIs
<1>6. HaveInputs(s.view, t) => UndoData(s.view, t) \in Seq(UndoRecord)
  BY <1>1, <1>3, UndoDataType
<1>7. /\ s = [ok |-> s.ok, view |-> s.view, undo |-> s.undo, fees |-> s.fees]
      /\ s.ok \in BOOLEAN /\ s.undo \in Seq(Seq(UndoRecord))
  BY DEF BlockState
<1>8. CASE i = 1
  <2>1. HaveInputs(s.view, t)
    <3>1. Len(Vin[t]) = 0 /\ DOMAIN Vin[t] = 1 .. Len(Vin[t])
      BY <1>1, <1>8, TxInputs
    <3>2. DOMAIN Vin[t] = {}
      BY <3>1
    <3> QED BY <3>2 DEF HaveInputs
  <2>2. z = [s EXCEPT !.view = y.view]
    BY <1>1, <1>8 DEF ConnectStep
  <2> HIDE DEF t, h, y
  <2>3. z = [ok |-> s.ok, view |-> y.view, undo |-> s.undo, fees |-> s.fees]
    BY <1>7, <2>2
  <2>4. /\ z.ok = s.ok /\ z.undo = s.undo /\ z.fees = s.fees /\ z.view = Updated(s.view, t, h)
        /\ z = [ok |-> z.ok, view |-> z.view, undo |-> z.undo, fees |-> z.fees]
    BY <1>4, <2>1, <2>3
  <2> QED BY <1>5, <1>7, <1>8, <2>1, <2>4 DEF BlockState, TxConnected, t, h
<1>9. CASE i # 1 /\ s.ok /\ CheckInputs(s.view, t, h)
  <2>1. HaveInputs(s.view, t)
    BY <1>9 DEF CheckInputs
  <2>2. z = [ok |-> TRUE, view |-> y.view, undo |-> Append(s.undo, y.undo),
             fees |-> s.fees + ValueIn(t) - ValueOut(t)]
    BY <1>1, <1>9 DEF ConnectStep
  <2> HIDE DEF t, h, y
  <2>3. /\ z.ok = TRUE /\ z.undo = Append(s.undo, UndoData(s.view, t))
        /\ z.fees = s.fees + ValueIn(t) - ValueOut(t) /\ z.view = Updated(s.view, t, h)
        /\ z = [ok |-> z.ok, view |-> z.view, undo |-> z.undo, fees |-> z.fees]
    BY <1>4, <2>1, <2>2
  <2>4. z.undo \in Seq(Seq(UndoRecord))
    <3>1. UndoData(s.view, t) \in Seq(UndoRecord)
      BY <1>6, <2>1
    <3>2. s.undo \in Seq(Seq(UndoRecord))
      BY <1>7
    <3>3. z.undo = Append(s.undo, UndoData(s.view, t))
      BY <2>3
    <3> QED BY ONLY <3>1, <3>2, <3>3
  <2> QED BY <1>5, <1>9, <2>1, <2>3, <2>4 DEF BlockState, TxConnected, t, h
<1>10. CASE i # 1 /\ ~(s.ok /\ CheckInputs(s.view, t, h))
  <2>1. z = [s EXCEPT !.ok = FALSE]
    BY <1>1, <1>10 DEF ConnectStep
  <2> HIDE DEF t, h, y
  <2>2. z = [ok |-> FALSE, view |-> s.view, undo |-> s.undo, fees |-> s.fees]
    BY <1>7, <2>1
  <2>3. /\ z.ok = FALSE /\ z.undo = s.undo /\ z.fees = s.fees /\ z.view = s.view
        /\ z = [ok |-> z.ok, view |-> z.view, undo |-> z.undo, fees |-> z.fees]
    BY <2>2
  <2> QED BY <1>3, <1>7, <1>10, <2>3 DEF BlockState, TxConnected, t, h
<1> QED BY <1>8, <1>9, <1>10

\* ... along the whole loop.
LEMMA ConnectsStates ==
  ASSUME NEW v, Sound(v), NEW b \in Blocks, b # Genesis, NEW r, Connects(r, v, b)
  PROVE  /\ \A i \in 0 .. Len(Vtx[b]) : BlockState(r[i])
         /\ \A i \in 1 .. Len(Vtx[b]) : TxConnected(r[i], r[i - 1], b, i)
<1> DEFINE n == Len(Vtx[b])
           S == {i \in 0 .. n : BlockState(r[i])}
<1>1. n \in Nat
  BY BlockTxs
<1>2. r[0] = [ok |-> Bip30(v, b), view |-> v, undo |-> <<>>, fees |-> 0]
      /\ \A i \in 1 .. n : r[i] = ConnectStep(b, 0, r[i - 1], Vtx[b][i])
  BY ConnectsStep
<1>3. 0 \in S
  <2>1. Bip30(v, b) \in BOOLEAN
    BY DEF Bip30
  <2>2. <<>> \in Seq(Seq(UndoRecord))
    OBVIOUS
  <2>3. /\ r[0].ok = Bip30(v, b) /\ r[0].view = v /\ r[0].undo = <<>>
        /\ r[0] = [ok |-> r[0].ok, view |-> r[0].view, undo |-> r[0].undo, fees |-> r[0].fees]
    BY <1>2
  <2>4. BlockState(r[0])
    BY <2>1, <2>2, <2>3 DEF BlockState
  <2> QED BY <1>1, <2>4
<1> HIDE DEF n
<1>4. ASSUME NEW i \in 1 .. n, BlockState(r[i - 1])
      PROVE  BlockState(r[i]) /\ TxConnected(r[i], r[i - 1], b, i)
  BY <1>2, <1>4, ConnectStepIs DEF n
<1>5. ASSUME NEW i \in 0 .. n - 1, i \in S
      PROVE  i + 1 \in S
  <2>1. i + 1 \in 1 .. n /\ (i + 1) - 1 = i /\ i + 1 \in 0 .. n
    BY <1>1
  <2> QED BY <1>4, <1>5, <2>1
<1>6. \A i \in 0 .. n : i \in S
  <2> HIDE DEF S
  <2> QED BY <1>1, <1>3, <1>5, Connecting!UpTo
<1>7. \A i \in 1 .. n : BlockState(r[i - 1])
  <2> SUFFICES ASSUME NEW i \in 1 .. n PROVE BlockState(r[i - 1])
    OBVIOUS
  <2>1. i - 1 \in 0 .. n
    BY <1>1
  <2> QED BY <1>6, <2>1
<1> QED BY <1>4, <1>6, <1>7 DEF n

\* What ConnectBlock makes of a view.
LEMMA ConnectBlockIs ==
  ASSUME NEW v, Sound(v), NEW b \in Blocks, b # Genesis
  PROVE  \E r : /\ Connects(r, v, b)
                /\ ConnectBlock(v, b).ok = (r[Len(Vtx[b])].ok /\ MayPay(b, r[Len(Vtx[b])].fees))
                /\ ConnectBlock(v, b).view = r[Len(Vtx[b])].view
                /\ ConnectBlock(v, b).undo = r[Len(Vtx[b])].undo
<1> DEFINE n == Len(Vtx[b])
           c == ConnectBlock(v, b)
<1>1. PICK r : Connects(r, v, b) /\ c = [r[n] EXCEPT !.ok = @ /\ MayPay(b, r[n].fees)]
  BY ConnectBlockRuns
<1>2. n \in 0 .. n
  BY BlockTxs
<1>3. BlockState(r[n])
  BY <1>1, <1>2, ConnectsStates
<1> HIDE DEF n, c
<1>4. c.ok = (r[n].ok /\ MayPay(b, r[n].fees)) /\ c.view = r[n].view /\ c.undo = r[n].undo
  BY <1>1, <1>3 DEF BlockState
<1> QED BY <1>1, <1>4 DEF n, c

\* ConnectBlock gives a sound view, and undo data of the right shape.
LEMMA ConnectBlockSound ==
  ASSUME NEW v, Sound(v), NEW b \in Blocks, b # Genesis
  PROVE  /\ Sound(ConnectBlock(v, b).view) /\ ConnectBlock(v, b).view \in View
         /\ ConnectBlock(v, b).undo \in Seq(Seq(UndoRecord))
         /\ ConnectBlock(v, b).ok \in BOOLEAN
<1> DEFINE n == Len(Vtx[b])
<1>1. PICK r : /\ Connects(r, v, b)
               /\ ConnectBlock(v, b).ok = (r[n].ok /\ MayPay(b, r[n].fees))
               /\ ConnectBlock(v, b).view = r[n].view
               /\ ConnectBlock(v, b).undo = r[n].undo
  BY ConnectBlockIs
<1>2. n \in 0 .. n
  BY BlockTxs
<1>3. BlockState(r[n])
  BY <1>1, <1>2, ConnectsStates
<1> QED BY <1>1, <1>3 DEF BlockState, Sound

(***************************************************************************)
(* Views that are alike treat a block alike.                               *)
(***************************************************************************)
LEMMA Bip30Is ==
  ASSUME NEW v, NEW b \in Blocks
  PROVE  Bip30(v, b) <=> \A i \in 1 .. Len(Vtx[b]) : ~Live(v[Vtx[b][i]])
BY BlockTxs DEF Bip30, HaveCoins, IsPruned, Live

\* One transaction, on views that are alike.
LEMMA TxConnectedAlike ==
  ASSUME NEW b \in Blocks, NEW i \in 1 .. Len(Vtx[b]), NEW s, NEW x, BlockState(s), BlockState(x),
         s.ok = x.ok, s.undo = x.undo, s.fees = x.fees, Alike(s.view, x.view),
         NEW z, TxConnected(z, s, b, i), NEW y, TxConnected(y, x, b, i)
  PROVE  z.ok = y.ok /\ z.undo = y.undo /\ z.fees = y.fees /\ Alike(z.view, y.view)
<1> DEFINE t == Vtx[b][i]
           h == Height[b]
<1>1. t \in Txs /\ h \in Nat /\ s.view \in View /\ x.view \in View
  BY BlockTxs, HeightDef DEF BlockState, Sound
<1>2. (HaveInputs(s.view, t) <=> HaveInputs(x.view, t)) /\ (CheckInputs(s.view, t, h) <=> CheckInputs(x.view, t, h))
  BY <1>1, AlikeInputs
<1>3. HaveInputs(s.view, t) => /\ UndoData(s.view, t) = UndoData(x.view, t)
                               /\ Alike(Updated(s.view, t, h), Updated(x.view, t, h))
  BY <1>1, UpdatedAlike
<1>4. CASE i = 1
  <2>1. /\ z.ok = s.ok /\ z.undo = s.undo /\ z.fees = s.fees
        /\ z.view = Updated(s.view, t, h) /\ HaveInputs(s.view, t)
    BY <1>4 DEF TxConnected
  <2>2. /\ y.ok = x.ok /\ y.undo = x.undo /\ y.fees = x.fees /\ y.view = Updated(x.view, t, h)
    BY <1>4 DEF TxConnected
  <2> HIDE DEF t, h
  <2> QED BY <1>3, <2>1, <2>2
<1>5. CASE i # 1 /\ s.ok /\ CheckInputs(s.view, t, h)
  <2>1. /\ z.ok = TRUE /\ z.undo = Append(s.undo, UndoData(s.view, t))
        /\ z.fees = s.fees + ValueIn(t) - ValueOut(t)
        /\ z.view = Updated(s.view, t, h) /\ HaveInputs(s.view, t)
    BY <1>5 DEF TxConnected
  <2>2. /\ y.ok = TRUE /\ y.undo = Append(x.undo, UndoData(x.view, t))
        /\ y.fees = x.fees + ValueIn(t) - ValueOut(t) /\ y.view = Updated(x.view, t, h)
    BY <1>2, <1>5 DEF TxConnected
  <2> HIDE DEF t, h
  <2> QED BY <1>3, <2>1, <2>2
<1>6. CASE i # 1 /\ ~(s.ok /\ CheckInputs(s.view, t, h))
  <2>1. z.ok = FALSE /\ z.view = s.view /\ z.undo = s.undo /\ z.fees = s.fees
    BY <1>6 DEF TxConnected
  <2>2. y.ok = FALSE /\ y.view = x.view /\ y.undo = x.undo /\ y.fees = x.fees
    BY <1>2, <1>6 DEF TxConnected
  <2> QED BY <2>1, <2>2
<1> QED BY <1>4, <1>5, <1>6

\* A whole block, on views that are alike.
LEMMA ConnectBlockAlike ==
  ASSUME NEW v, NEW w, Sound(v), Sound(w), Alike(v, w), NEW b \in Blocks, b # Genesis
  PROVE  /\ ConnectBlock(v, b).ok = ConnectBlock(w, b).ok
         /\ ConnectBlock(v, b).undo = ConnectBlock(w, b).undo
         /\ Alike(ConnectBlock(v, b).view, ConnectBlock(w, b).view)
<1> DEFINE n == Len(Vtx[b])
<1>0. n \in Nat
  BY BlockTxs
<1>1. PICK r : /\ Connects(r, v, b)
               /\ ConnectBlock(v, b).ok = (r[n].ok /\ MayPay(b, r[n].fees))
               /\ ConnectBlock(v, b).view = r[n].view
               /\ ConnectBlock(v, b).undo = r[n].undo
  BY ConnectBlockIs
<1>2. PICK q : /\ Connects(q, w, b)
               /\ ConnectBlock(w, b).ok = (q[n].ok /\ MayPay(b, q[n].fees))
               /\ ConnectBlock(w, b).view = q[n].view
               /\ ConnectBlock(w, b).undo = q[n].undo
  BY ConnectBlockIs
<1>3. r[0] = [ok |-> Bip30(v, b), view |-> v, undo |-> <<>>, fees |-> 0]
      /\ q[0] = [ok |-> Bip30(w, b), view |-> w, undo |-> <<>>, fees |-> 0]
  BY <1>1, <1>2, ConnectsStep
<1>4. /\ \A i \in 0 .. n : BlockState(r[i]) /\ BlockState(q[i])
      /\ \A i \in 1 .. n : TxConnected(r[i], r[i - 1], b, i) /\ TxConnected(q[i], q[i - 1], b, i)
  BY <1>1, <1>2, ConnectsStates
<1> DEFINE P(i) == /\ r[i].ok = q[i].ok /\ r[i].undo = q[i].undo /\ r[i].fees = q[i].fees
                   /\ Alike(r[i].view, q[i].view)
           S == {i \in 0 .. n : P(i)}
<1>5. 0 \in S
  <2>1. Bip30(v, b) = Bip30(w, b)
    <3>1. \A i \in 1 .. n : Live(v[Vtx[b][i]]) <=> Live(w[Vtx[b][i]])
      BY BlockTxs DEF Alike
    <3>2. Bip30(v, b) \in BOOLEAN /\ Bip30(w, b) \in BOOLEAN
      BY DEF Bip30
    <3> QED BY <3>1, <3>2, Bip30Is
  <2>2. P(0)
    BY <1>3, <2>1
  <2> QED BY <1>0, <2>2
<1> HIDE DEF n
<1>6. ASSUME NEW i \in 0 .. n - 1, i \in S
      PROVE  i + 1 \in S
  <2> DEFINE j == i + 1
  <2>1. j \in 1 .. n /\ j - 1 = i /\ j \in 0 .. n
    BY <1>0
  <2>2. TxConnected(r[j], r[i], b, j) /\ TxConnected(q[j], q[i], b, j) /\ BlockState(r[i]) /\ BlockState(q[i])
    <3> HIDE DEF j
    <3>1. TxConnected(r[j], r[j - 1], b, j) /\ TxConnected(q[j], q[j - 1], b, j)
      BY <1>4, <2>1
    <3>2. i \in 0 .. n
      BY <1>0
    <3> QED BY <1>4, <2>1, <3>1, <3>2
  <2>3. P(i)
    BY <1>6
  <2>4. P(j)
    <3> HIDE DEF j
    <3>1. j \in 1 .. Len(Vtx[b])
      BY <2>1 DEF n
    <3> QED BY <2>2, <2>3, <3>1, TxConnectedAlike
  <2> QED BY <2>1, <2>4
<1>7. \A i \in 0 .. n : i \in S
  <2> HIDE DEF S
  <2> QED BY <1>0, <1>5, <1>6, Connecting!UpTo
<1>8. P(n)
  BY <1>0, <1>7
<1> QED BY <1>1, <1>2, <1>8 DEF n

-----------------------------------------------------------------------------
(***************************************************************************)
(* A valid block: what is known while it is connected.                     *)
(***************************************************************************)
TxValid(r, b, i) ==
  /\ HaveInputs(r[i - 1].view, Vtx[b][i])
  /\ r[i].view = Updated(r[i - 1].view, Vtx[b][i], Height[b])
  /\ r[i].undo = IF i = 1 THEN <<>> ELSE Append(r[i - 1].undo, UndoData(r[i - 1].view, Vtx[b][i]))
  /\ ~Live(r[i - 1].view[Vtx[b][i]])
  /\ i # 1 => CheckInputs(r[i - 1].view, Vtx[b][i], Height[b])

\* In a block that connects, every transaction is valid when its turn comes.
LEMMA ValidBlock ==
  ASSUME NEW v, Sound(v), NEW b \in Blocks, b # Genesis, NEW r, Connects(r, v, b),
         r[Len(Vtx[b])].ok
  PROVE  /\ \A i \in 0 .. Len(Vtx[b]) : r[i].ok = TRUE
         /\ \A i \in 1 .. Len(Vtx[b]) : TxValid(r, b, i)
<1> DEFINE n == Len(Vtx[b])
<1>0. n \in Nat
  BY BlockTxs
<1>1. r[0] = [ok |-> Bip30(v, b), view |-> v, undo |-> <<>>, fees |-> 0]
  BY ConnectsStep
<1>2. /\ \A i \in 0 .. n : BlockState(r[i])
      /\ \A i \in 1 .. n : TxConnected(r[i], r[i - 1], b, i)
  BY ConnectsStates
<1>3. \A i \in 0 .. n : r[i].ok = TRUE
  <2> DEFINE S == {k \in 0 .. n : r[n - k].ok = TRUE}
  <2>1. 0 \in S
    <3>1. r[n].ok \in BOOLEAN
      BY <1>0, <1>2 DEF BlockState
    <3>2. n - 0 = n
      BY <1>0
    <3> QED BY <1>0, <3>1, <3>2
  <2>2. ASSUME NEW k \in 0 .. n - 1, k \in S
        PROVE  k + 1 \in S
    <3> DEFINE i == n - k
    <3>1. i \in 1 .. n /\ i - 1 = n - (k + 1) /\ i - 1 \in 0 .. n /\ k + 1 \in 0 .. n
      BY <1>0
    <3>2. r[i].ok = TRUE
      BY <2>2
    <3>3. TxConnected(r[i], r[i - 1], b, i) /\ r[i - 1].ok \in BOOLEAN
      BY <1>2, <3>1 DEF BlockState
    <3> HIDE DEF i, n
    <3>4. r[i - 1].ok = TRUE
      BY <3>2, <3>3 DEF TxConnected
    <3> QED BY <3>1, <3>4
  <2>3. \A k \in 0 .. n : k \in S
    <3> HIDE DEF S, n
    <3> QED BY <1>0, <2>1, <2>2, Connecting!UpTo
  <2> SUFFICES ASSUME NEW i \in 0 .. n PROVE r[i].ok = TRUE
    OBVIOUS
  <2>4. n - i \in 0 .. n /\ n - (n - i) = i
    BY <1>0
  <2> HIDE DEF n
  <2> QED BY <2>3, <2>4
<1>4. ASSUME NEW i \in 1 .. n
      PROVE  /\ HaveInputs(r[i - 1].view, Vtx[b][i])
             /\ r[i].view = Updated(r[i - 1].view, Vtx[b][i], Height[b])
             /\ i # 1 => r[i].undo = Append(r[i - 1].undo, UndoData(r[i - 1].view, Vtx[b][i]))
             /\ i = 1 => r[i].undo = r[0].undo
             /\ i # 1 => CheckInputs(r[i - 1].view, Vtx[b][i], Height[b])
  <2>1. TxConnected(r[i], r[i - 1], b, i) /\ r[i].ok = TRUE
    <3>1. i \in 0 .. n
      BY <1>0
    <3> QED BY <1>2, <1>3, <3>1
  <2>2. i = 1 => i - 1 = 0
    OBVIOUS
  <2> QED BY <2>1, <2>2 DEF TxConnected
<1>5. r[0].undo = <<>>
  BY <1>1
<1> DEFINE S == {i \in 0 .. n : \A j \in i + 1 .. n : ~Live(r[i].view[Vtx[b][j]])}
<1>6. 0 \in S
  <2>1. Bip30(v, b)
    <3>1. r[0].ok = TRUE /\ r[0].ok = Bip30(v, b)
      BY <1>0, <1>1, <1>3
    <3> QED BY <3>1
  <2>2. r[0].view = v
    BY <1>1
  <2>3. 0 + 1 = 1
    OBVIOUS
  <2> QED BY <1>0, <2>1, <2>2, <2>3, Bip30Is
<1> HIDE DEF n
<1>7. ASSUME NEW i \in 0 .. n - 1, i \in S
      PROVE  i + 1 \in S
  <2> DEFINE k == i + 1
  <2>1. k \in 1 .. n /\ k - 1 = i /\ k \in 0 .. n /\ i \in 0 .. n
    BY <1>0
  <2>2. r[k].view = Updated(r[i].view, Vtx[b][k], Height[b])
    BY <1>4, <2>1
  <2>3. r[i].view \in View /\ Height[b] \in Nat /\ Vtx[b][k] \in Txs
    BY <1>2, <2>1, BlockTxs, HeightDef DEF BlockState, Sound, n
  <2>4. \A p \in Txs \ {Vtx[b][k]} : ~Live(r[i].view[p]) => ~Live(r[k].view[p])
    BY <2>2, <2>3, UpdatedIs
  <2>5. ASSUME NEW j \in k + 1 .. n
        PROVE  ~Live(r[k].view[Vtx[b][j]])
    <3>1. j \in 1 .. n /\ j # k /\ j \in i + 1 .. n
      BY <2>1
    <3>2. Vtx[b][j] \in Txs /\ Vtx[b][j] # Vtx[b][k]
      BY <2>1, <3>1, BlockTxs DEF n
    <3>3. ~Live(r[i].view[Vtx[b][j]])
      BY <1>7, <3>1
    <3> QED BY <2>4, <3>2, <3>3
  <2> QED BY <2>1, <2>5
<1>8. \A i \in 0 .. n : i \in S
  <2> HIDE DEF S
  <2> QED BY <1>0, <1>6, <1>7, Connecting!UpTo
<1>9. ASSUME NEW i \in 1 .. n PROVE TxValid(r, b, i)
  <2>1. i - 1 \in 0 .. n /\ i \in (i - 1) + 1 .. n
    BY <1>0
  <2>2. ~Live(r[i - 1].view[Vtx[b][i]])
    BY <1>8, <2>1
  <2> QED BY <1>4, <1>5, <2>2 DEF TxValid
<1> QED BY <1>3, <1>9 DEF n

\* The undo data of transaction i of a valid block.
LEMMA UndoOfValidBlock ==
  ASSUME NEW v, Sound(v), NEW b \in Blocks, b # Genesis, NEW r, Connects(r, v, b),
         r[Len(Vtx[b])].ok, NEW i \in 1 .. Len(Vtx[b])
  PROVE  UndoOfTx(b, r[Len(Vtx[b])].undo, i) = UndoData(r[i - 1].view, Vtx[b][i])
<1> DEFINE n == Len(Vtx[b])
           w(k) == UndoData(r[k - 1].view, Vtx[b][k])
           P(k) == /\ r[k].undo \in Seq(Seq(UndoRecord)) /\ Len(r[k].undo) = k - 1
                   /\ \A j \in 2 .. k : r[k].undo[j - 1] = w(j)
<1>0. n \in Nat /\ n >= 1
  BY BlockTxs
<1>1. \A k \in 1 .. n : r[k].undo = IF k = 1 THEN <<>> ELSE Append(r[k - 1].undo, w(k))
  <2> SUFFICES ASSUME NEW k \in 1 .. n
               PROVE  r[k].undo = IF k = 1 THEN <<>> ELSE Append(r[k - 1].undo, w(k))
    OBVIOUS
  <2>1. TxValid(r, b, k)
    BY ValidBlock
  <2> QED BY <2>1 DEF TxValid
<1>2. ASSUME NEW k \in 1 .. n PROVE w(k) \in Seq(UndoRecord)
  <2>1. BlockState(r[k - 1])
    <3>1. k - 1 \in 0 .. n
      BY <1>0
    <3> QED BY <3>1, ConnectsStates
  <2>2. HaveInputs(r[k - 1].view, Vtx[b][k]) /\ Vtx[b][k] \in Txs
    BY ValidBlock, BlockTxs DEF TxValid
  <2> QED BY <2>1, <2>2, UndoDataType DEF BlockState, Sound
<1> HIDE DEF n, w
<1> DEFINE S == {k \in 0 .. n : k # 0 => P(k)}
<1>3. 0 \in S
  BY <1>0
<1>4. ASSUME NEW k \in 0 .. n - 1, k \in S
      PROVE  k + 1 \in S
  <2> DEFINE m == k + 1
  <2>1. m \in 1 .. n /\ m - 1 = k /\ m \in 0 .. n
    BY <1>0
  <2>2. CASE k = 0
    <3>1. r[1].undo = <<>> /\ m = 1
      BY <1>1, <2>1, <2>2
    <3>2. <<>> \in Seq(Seq(UndoRecord)) /\ Len(<<>>) = 0
      OBVIOUS
    <3>3. P(1)
      BY <3>1, <3>2
    <3> QED BY <2>1, <3>1, <3>3
  <2>3. CASE k # 0
    <3> DEFINE o == r[k].undo
               e == r[m].undo
    <3>1. m # 1 /\ e = Append(r[m - 1].undo, w(m))
      <4> HIDE DEF m
      <4>1. m # 1
        BY <2>1, <2>3
      <4> QED BY <1>1, <2>1, <4>1
    <3>2. e = Append(o, w(m))
      BY <2>1, <3>1
    <3>3. o \in Seq(Seq(UndoRecord)) /\ Len(o) = k - 1 /\ \A j \in 2 .. k : o[j - 1] = w(j)
      BY <1>4, <2>3
    <3>4. w(m) \in Seq(UndoRecord)
      BY <1>2, <2>1
    <3> HIDE DEF o, e
    <3>5. e \in Seq(Seq(UndoRecord)) /\ Len(e) = k /\ e[k] = w(m) /\ \A j \in 1 .. k - 1 : e[j] = o[j]
      <4> HIDE DEF m
      <4> QED BY <2>3, <3>2, <3>3, <3>4
    <3>6. \A j \in 2 .. m : e[j - 1] = w(j)
      <4> SUFFICES ASSUME NEW j \in 2 .. m PROVE e[j - 1] = w(j)
        OBVIOUS
      <4>1. CASE j = m
        BY <2>1, <3>5, <4>1
      <4>2. CASE j # m
        <5>1. j \in 2 .. k /\ j - 1 \in 1 .. k - 1
          BY <4>2
        <5> QED BY <3>3, <3>5, <5>1
      <4> QED BY <4>1, <4>2
    <3>7. P(m)
      BY <2>1, <3>5, <3>6 DEF e
    <3> QED BY <2>1, <3>7
  <2> QED BY <2>2, <2>3
<1>5. \A k \in 0 .. n : k \in S
  <2> HIDE DEF S
  <2> QED BY <1>0, <1>3, <1>4, Connecting!UpTo
<1>6. P(n)
  <2>1. n \in 0 .. n /\ n # 0
    BY <1>0
  <2> QED BY <1>5, <2>1
<1>7. CASE i = 1
  <2>1. UndoOfTx(b, r[n].undo, i) = <<>>
    BY <1>7 DEF UndoOfTx
  <2>2. w(i) = <<>>
    <3>1. w(i) \in Seq(UndoRecord)
      BY <1>2 DEF n
    <3>2. Vtx[b][i] \in Txs /\ Vtx[b][i] \in Coinbases
      BY <1>7, BlockTxs DEF n
    <3>3. Len(Vin[Vtx[b][i]]) = 0
      BY <3>2, TxInputs
    <3>4. w(i) = [j \in 1 .. 0 |-> UndoOf(After(r[i - 1].view, Vtx[b][i], j - 1)[From(Vtx[b][i], j)], Pos(Vtx[b][i], j))]
      BY <3>3 DEF w, UndoData
    <3>5. DOMAIN w(i) = 1 .. 0
      BY <3>4
    <3> QED BY <3>1, <3>5
  <2> QED BY <2>1, <2>2 DEF n, w
<1>8. CASE i # 1
  <2>1. i \in 2 .. n
    BY <1>8 DEF n
  <2>2. UndoOfTx(b, r[n].undo, i) = r[n].undo[i - 1]
    BY <1>8 DEF UndoOfTx
  <2> QED BY <1>6, <2>1, <2>2 DEF n, w
<1> QED BY <1>7, <1>8

(***************************************************************************)
(* DisconnectBlock is the inverse of ConnectBlock.                         *)
(***************************************************************************)
\* The values of its loop.
Undoes(d, w, b, u) ==
  Undoing!RunsRight(d, b, u, [clean |-> TRUE, view |-> w], [i \in DOMAIN Vtx[b] |-> i], Len(Vtx[b]))

\* DisconnectBlock is the loop over the transactions, from the last to the first.
LEMMA DisconnectBlockRuns ==
  ASSUME NEW w, NEW b \in Blocks, NEW u
  PROVE  \E d : /\ Undoes(d, w, b, u)
                /\ DisconnectBlock(w, b, u) = d[1]
<1> DEFINE n == Len(Vtx[b])
           base == [clean |-> TRUE, view |-> w]
           f == [i \in DOMAIN Vtx[b] |-> i]
<1>1. n \in Nat /\ DOMAIN f = 1 .. n
  BY BlockTxs
<1>2. DisconnectBlock(w, b, u) = Undoing!Right(b, u, base, f)
  BY DEF DisconnectBlock, UndoStep, Undoing!Right, FoldRightDomain, FoldRight, MapThenFoldSet, Min, Undoing!Least
<1> HIDE DEF n, f, base
<1>3. PICK d : Undoing!RunsRight(d, b, u, base, f, n) /\ Undoing!Right(b, u, base, f) = d[1]
  BY <1>1, Undoing!RightRuns
<1> QED BY <1>2, <1>3 DEF Undoes, f, n, base

\* One transaction in this loop.
LEMMA UndoesStep ==
  ASSUME NEW w, NEW b \in Blocks, NEW u, NEW d, Undoes(d, w, b, u)
  PROVE  /\ d[Len(Vtx[b]) + 1] = [clean |-> TRUE, view |-> w]
         /\ \A i \in 1 .. Len(Vtx[b]) : d[i] = UndoTx(d[i + 1], Vtx[b][i], Height[b], UndoOfTx(b, u, i))
<1> DEFINE n == Len(Vtx[b])
           f == [i \in DOMAIN Vtx[b] |-> i]
<1>1. d[n + 1] = [clean |-> TRUE, view |-> w] /\ \A i \in 1 .. n : d[i] = UndoStep(b, u, f[i], d[i + 1])
  BY DEF Undoes, Undoing!RunsRight
<1>2. \A i \in 1 .. n : f[i] = i
  BY BlockTxs
<1> HIDE DEF f, n
<1> QED BY <1>1, <1>2 DEF UndoStep, n

(***************************************************************************)
(* DisconnectBlock is the inverse of ConnectBlock: from any view like the  *)
(* one that ConnectBlock left, and with the undo data it left, it finds    *)
(* nothing unclean and gives back a view like the one before the block.    *)
(***************************************************************************)
THEOREM DisconnectInverse ==
  ASSUME NEW v, Sound(v), NEW b \in Blocks, b # Genesis, ConnectBlock(v, b).ok,
         NEW w \in View, Alike(w, ConnectBlock(v, b).view)
  PROVE  LET d == DisconnectBlock(w, b, ConnectBlock(v, b).undo)
         IN  d.clean = TRUE /\ d.view \in View /\ Alike(d.view, v)
<1> DEFINE n == Len(Vtx[b])
           u == ConnectBlock(v, b).undo
<1>0. n \in Nat /\ n >= 1
  BY BlockTxs
<1>1. PICK r : /\ Connects(r, v, b)
               /\ ConnectBlock(v, b).ok = (r[n].ok /\ MayPay(b, r[n].fees))
               /\ ConnectBlock(v, b).view = r[n].view
               /\ ConnectBlock(v, b).undo = r[n].undo
  BY ConnectBlockIs
<1>2. r[n].ok
  BY <1>1
<1>3. PICK d : Undoes(d, w, b, u) /\ DisconnectBlock(w, b, u) = d[1]
  BY DisconnectBlockRuns
<1>4. /\ d[n + 1] = [clean |-> TRUE, view |-> w]
      /\ \A i \in 1 .. n : d[i] = UndoTx(d[i + 1], Vtx[b][i], Height[b], UndoOfTx(b, u, i))
  BY <1>3, UndoesStep
<1>5. ASSUME NEW i \in 1 .. n
      PROVE  /\ Vtx[b][i] \in Txs /\ HaveInputs(r[i - 1].view, Vtx[b][i])
             /\ r[i].view = Updated(r[i - 1].view, Vtx[b][i], Height[b])
             /\ ~Live(r[i - 1].view[Vtx[b][i]])
             /\ UndoOfTx(b, u, i) = UndoData(r[i - 1].view, Vtx[b][i])
             /\ Sound(r[i - 1].view)
  <2>1. UndoOfTx(b, u, i) = UndoData(r[i - 1].view, Vtx[b][i])
    BY <1>1, <1>2, UndoOfValidBlock
  <2>2. i - 1 \in 0 .. n /\ i \in (i - 1) + 1 .. n
    BY <1>0
  <2>3. TxValid(r, b, i)
    BY <1>1, <1>2, ValidBlock
  <2>4. BlockState(r[i - 1])
    BY <1>1, <2>2, ConnectsStates
  <2> QED BY <2>1, <2>3, <2>4, BlockTxs DEF BlockState, TxValid
<1> DEFINE Q(k, x) == d[k].clean = TRUE /\ d[k].view \in View /\ Alike(d[k].view, r[x].view)
           S == {j \in 0 .. n : Q(n + 1 - j, n - j)}
<1>6. 0 \in S
  <2>1. n + 1 - 0 = n + 1 /\ n - 0 = n
    BY <1>0
  <2>2. d[n + 1].clean = TRUE /\ d[n + 1].view = w
    BY <1>4
  <2>3. Alike(w, r[n].view)
    BY <1>1
  <2>4. Q(n + 1, n)
    BY <2>2, <2>3
  <2> HIDE DEF n
  <2> QED BY <1>0, <2>1, <2>4
<1> HIDE DEF n, u
<1>7. ASSUME NEW j \in 0 .. n - 1, j \in S
      PROVE  j + 1 \in S
  <2> DEFINE k == n - j
  <2>1. k \in 1 .. n /\ n + 1 - j = k + 1 /\ n + 1 - (j + 1) = k /\ n - (j + 1) = k - 1 /\ j + 1 \in 0 .. n
    BY <1>0
  <2>2. Q(k + 1, k)
    BY <1>7, <2>1
  <2> HIDE DEF k
  <2>3. d[k] = UndoTx(d[k + 1], Vtx[b][k], Height[b], UndoOfTx(b, u, k))
    BY <1>4, <2>1
  <2>4. /\ Vtx[b][k] \in Txs /\ HaveInputs(r[k - 1].view, Vtx[b][k])
        /\ r[k].view = Updated(r[k - 1].view, Vtx[b][k], Height[b])
        /\ ~Live(r[k - 1].view[Vtx[b][k]])
        /\ UndoOfTx(b, u, k) = UndoData(r[k - 1].view, Vtx[b][k])
        /\ Sound(r[k - 1].view)
    BY <1>5, <2>1
  <2>5. Q(k, k - 1)
    <3> DEFINE x == r[k - 1].view
               t == Vtx[b][k]
               h == Height[b]
               s == d[k + 1]
    <3>1. Sound(x) /\ t \in Txs /\ HaveInputs(x, t) /\ ~Live(x[t]) /\ h \in Nat
      BY <2>4, HeightDef
    <3>2. s.clean = TRUE /\ s.view \in View /\ Alike(s.view, Updated(x, t, h))
      BY <2>2, <2>4
    <3>3. d[k] = UndoTx(s, t, h, UndoData(x, t))
      BY <2>3, <2>4
    <3> HIDE DEF x, t, h, s
    <3>4. d[k].clean = TRUE /\ d[k].view \in View /\ Alike(d[k].view, x)
      BY <3>1, <3>2, <3>3, UndoTxInverse
    <3> QED BY <3>4 DEF x
  <2> HIDE DEF Q
  <2> QED BY <2>1, <2>5
<1>8. \A j \in 0 .. n : j \in S
  <2> HIDE DEF S
  <2> QED BY <1>0, <1>6, <1>7, Undoing!UpTo
<1>9. Q(1, 0)
  <2>1. n \in 0 .. n /\ n + 1 - n = 1 /\ n - n = 0
    BY <1>0
  <2> HIDE DEF Q
  <2> QED BY <1>8, <2>1
<1>10. r[0].view = v
  <2>1. r[0] = [ok |-> Bip30(v, b), view |-> v, undo |-> <<>>, fees |-> 0]
    BY <1>1, ConnectsStep
  <2> QED BY <2>1
<1> QED BY <1>3, <1>9, <1>10 DEF u

-----------------------------------------------------------------------------
(***************************************************************************)
(* Along a chain.                                                          *)
(***************************************************************************)
\* Every block of the chain of b connects.
Connects1(b) == ConnectBlock(UtxoAt[Prev[b]], b).ok
Valid(b) == \A c \in Chain[b] \ {Genesis} : Connects1(c)

\* The undo data of a block.
UndoAt(b) == ConnectBlock(UtxoAt[Prev[b]], b).undo

UndoOk(u) ==
  /\ u = [b \in Blocks |-> u[b]]
  /\ \A b \in Blocks : u[b] # Null => b # Genesis /\ Connects1(b) /\ u[b] = UndoAt(b)
HasUndo(u, b) == \A c \in Chain[b] \ {Genesis} : u[c] # Null

\* UtxoAt is a sound view without pruned entries.
LEMMA UtxoAtSound ==
  \A b \in Blocks : UtxoAt[b] \in View /\ Sound(UtxoAt[b]) /\ Clean(UtxoAt[b])
<1> DEFINE S == {b \in Blocks : UtxoAt[b] \in View /\ Sound(UtxoAt[b]) /\ Clean(UtxoAt[b])}
<1>1. ASSUME NEW b \in Blocks, b = Genesis \/ Prev[b] \in S
      PROVE  b \in S
  <2>1. CASE b = Genesis
    <3>1. UtxoAt[b] = [t \in Txs |-> Null]
      BY <2>1, UtxoAtDef
    <3> QED BY <3>1 DEF View, Sound, Clean, Live
  <2>2. CASE b # Genesis
    <3> DEFINE v == ConnectBlock(UtxoAt[Prev[b]], b).view
    <3>1. UtxoAt[b] = Written(v)
      BY <2>2, UtxoAtDef
    <3>2. v \in View /\ Sound(v)
      BY <1>1, <2>2, ConnectBlockSound
    <3> HIDE DEF v
    <3>3. Written(v) \in View /\ Alike(v, Written(v)) /\ Clean(Written(v))
      BY <3>2, WrittenIs
    <3>4. Sound(Written(v))
      BY <3>2, <3>3, AlikeIsSound
    <3> QED BY <3>1, <3>3, <3>4
  <2> QED BY <2>1, <2>2
<1>2. \A b \in Blocks : b \in S
  <2> HIDE DEF S
  <2> QED BY <1>1, TreeInduction
<1> QED BY <1>2

\* One block forward, from any view like the UtxoAt of its predecessor.
LEMMA OneForward ==
  ASSUME NEW b \in Blocks, b # Genesis, NEW w \in View, Alike(w, UtxoAt[Prev[b]])
  PROVE  /\ ConnectBlock(w, b).ok = Connects1(b) /\ Connects1(b) \in BOOLEAN
         /\ ConnectBlock(w, b).undo = UndoAt(b) /\ UndoAt(b) # Null
         /\ ConnectBlock(w, b).view \in View /\ Alike(ConnectBlock(w, b).view, UtxoAt[b])
<1> DEFINE v == UtxoAt[Prev[b]]
           x == ConnectBlock(v, b).view
           y == ConnectBlock(w, b).view
<1>1. v \in View /\ Sound(v) /\ Alike(v, w)
  BY PrevIsBlock, UtxoAtSound, AlikeIsAnEquivalence
<1>2. Sound(w)
  BY <1>1, AlikeIsSound
<1>3. /\ ConnectBlock(w, b).ok = Connects1(b) /\ ConnectBlock(w, b).undo = UndoAt(b) /\ Alike(y, x)
  BY <1>1, <1>2, ConnectBlockAlike DEF Connects1, UndoAt
<1>4. x \in View /\ y \in View /\ Connects1(b) \in BOOLEAN /\ UndoAt(b) \in Seq(Seq(UndoRecord))
  BY <1>1, <1>2, ConnectBlockSound DEF Connects1, UndoAt
<1>5. UtxoAt[b] = Written(x)
  BY UtxoAtDef
<1> HIDE DEF x, y
<1>6. Alike(x, Written(x))
  BY <1>4, WrittenIs
<1>7. Alike(y, UtxoAt[b])
  BY <1>3, <1>5, <1>6, AlikeIsAnEquivalence
<1> QED BY <1>3, <1>4, <1>7, NullIsNoCoin DEF y

\* One block back.
LEMMA OneBack ==
  ASSUME NEW b \in Blocks, b # Genesis, NEW w \in View, Alike(w, UtxoAt[b]), Connects1(b)
  PROVE  /\ DisconnectBlock(w, b, UndoAt(b)).clean = TRUE
         /\ DisconnectBlock(w, b, UndoAt(b)).view \in View
         /\ Alike(DisconnectBlock(w, b, UndoAt(b)).view, UtxoAt[Prev[b]])
<1> DEFINE v == UtxoAt[Prev[b]]
           x == ConnectBlock(v, b).view
<1>1. v \in View /\ Sound(v)
  BY PrevIsBlock, UtxoAtSound
<1>2. x \in View /\ ConnectBlock(v, b).ok
  BY <1>1, ConnectBlockSound DEF Connects1
<1>3. UtxoAt[b] = Written(x)
  BY UtxoAtDef
<1> HIDE DEF x
<1>4. Alike(w, x)
  BY <1>2, <1>3, WrittenIs, AlikeIsAnEquivalence
<1> QED BY <1>1, <1>2, <1>4, DisconnectInverse DEF x, UndoAt

(***************************************************************************)
(* From the end of a chain back to one of its blocks: the loop over        *)
(* vDisconnect, and VerifyDB.                                              *)
(***************************************************************************)
LEMMA RewindTo ==
  ASSUME NEW b \in Blocks, NEW f \in Chain[b], NEW w \in View, Alike(w, UtxoAt[b]),
         NEW u, UndoOk(u), HasUndo(u, b)
  PROVE  LET z == Rewinding!Left(u, 0, [clean |-> TRUE, view |-> w], Downwards(Chain[b] \ Chain[f]))
         IN  z.clean = TRUE /\ z.view \in View /\ Alike(z.view, UtxoAt[f])
<1> DEFINE n == Height[b] - Height[f]
           s == Downwards(Chain[b] \ Chain[f])
           base == [clean |-> TRUE, view |-> w]
           g(k) == At(b, Height[b] - k)
<1>0. f \in Blocks /\ Height[b] \in Nat /\ Height[f] \in Nat /\ n \in Nat
  BY OnChain, HeightDef
<1>1. DOMAIN s = 1 .. n /\ \A k \in 1 .. n : s[k] = At(b, Height[b] + 1 - k)
  BY DownwardsIs
<1>2. \A k \in 1 .. n : s[k] = g(k - 1)
  <2> SUFFICES ASSUME NEW k \in 1 .. n PROVE s[k] = g(k - 1)
    OBVIOUS
  <2>1. Height[b] + 1 - k = Height[b] - (k - 1)
    BY <1>0
  <2> QED BY <1>1, <2>1
<1>3. g(0) = b /\ g(n) = f
  <2>1. Height[b] - 0 = Height[b] /\ Height[b] - n = Height[f] /\ b \in Chain[b]
    BY <1>0, ChainOfPrev
  <2> QED BY <2>1, BlockAt
<1>4. ASSUME NEW k \in 0 .. n - 1
      PROVE  g(k) \in Blocks \ {Genesis} /\ Prev[g(k)] = g(k + 1) /\ g(k) \in Chain[b]
  <2> DEFINE h == Height[b] - k
  <2>1. h \in 1 .. Height[b] /\ h \in 0 .. Height[b] /\ h - 1 = Height[b] - (k + 1)
    BY <1>0
  <2> HIDE DEF h
  <2>2. At(b, h) \in Blocks \ {Genesis} /\ Prev[At(b, h)] = At(b, h - 1) /\ At(b, h) \in Chain[b]
    BY <2>1, PrevAt, BlockAt
  <2> QED BY <2>1, <2>2 DEF h
<1> HIDE DEF n, s, g
<1>5. PICK r : Rewinding!RunsLeft(r, u, 0, base, s, n) /\ Rewinding!Left(u, 0, base, s) = r[n]
  BY <1>0, <1>1, Rewinding!LeftRuns
<1>6. r[0] = base /\ \A k \in 1 .. n : r[k] = RewindStep(u, 0, r[k - 1], s[k])
  BY <1>5 DEF Rewinding!RunsLeft
<1> DEFINE P(k) == r[k].clean = TRUE /\ r[k].view \in View /\ Alike(r[k].view, UtxoAt[g(k)])
           S == {k \in 0 .. n : P(k)}
<1>7. 0 \in S
  <2>1. r[0].clean = TRUE /\ r[0].view = w
    BY <1>6
  <2> QED BY <1>0, <1>3, <2>1
<1>8. ASSUME NEW k \in 0 .. n - 1, k \in S
      PROVE  k + 1 \in S
  <2> DEFINE m == k + 1
             c == g(k)
             x == r[k].view
             e == DisconnectBlock(x, c, u[c])
  <2>1. m \in 1 .. n /\ m - 1 = k /\ m \in 0 .. n
    BY <1>0
  <2>2. c \in Blocks \ {Genesis} /\ Prev[c] = g(m) /\ c \in Chain[b]
    BY <1>4
  <2>3. u[c] = UndoAt(c) /\ Connects1(c)
    BY <2>2 DEF UndoOk, HasUndo
  <2>4. r[k].clean = TRUE /\ x \in View /\ Alike(x, UtxoAt[c])
    BY <1>8
  <2>5. e.clean = TRUE /\ e.view \in View /\ Alike(e.view, UtxoAt[g(m)])
    <3> HIDE DEF c, x, m
    <3> QED BY <2>2, <2>3, <2>4, OneBack
  <2>6. r[m] = [clean |-> r[k].clean /\ e.clean, view |-> e.view]
    <3>1. r[m] = RewindStep(u, 0, r[k], c)
      <4> HIDE DEF m
      <4> QED BY <1>2, <1>6, <2>1
    <3> QED BY <3>1 DEF RewindStep
  <2> HIDE DEF e, m
  <2>7. P(m)
    <3>0. (r[k].clean /\ e.clean) = TRUE
      BY <2>4, <2>5
    <3>1. r[m].clean = TRUE /\ r[m].view = e.view
      <4>1. r[m].clean = (r[k].clean /\ e.clean) /\ r[m].view = e.view
        BY <2>6
      <4> QED BY <3>0, <4>1
    <3> QED BY <2>5, <3>1
  <2> QED BY <2>1, <2>7 DEF m
<1>9. \A k \in 0 .. n : k \in S
  <2> HIDE DEF S
  <2> QED BY <1>0, <1>7, <1>8, Rewinding!UpTo
<1>10. P(n)
  BY <1>0, <1>9
<1> QED BY <1>3, <1>5, <1>10 DEF s

(***************************************************************************)
(* From a block forward to the end of a chain: the loop over vConnect.     *)
(***************************************************************************)
LEMMA SumIsNat ==
  ASSUME NEW s \in Seq(Nat)
  PROVE  SumOf(s) \in Nat
<1> DEFINE n == Len(s)
<1>1. n \in Nat /\ DOMAIN s = 1 .. n /\ \A i \in 1 .. n : s[i] \in Nat
  OBVIOUS
<1>2. SumOf(s) = Summing!Left(0, 0, 0, s)
  BY DEF SumOf, SumStep, Summing!Left, FoldLeft, MapThenFoldSet, Max, Summing!Greatest
<1> HIDE DEF n
<1>3. PICK r : Summing!RunsLeft(r, 0, 0, 0, s, n) /\ SumOf(s) = r[n]
  BY <1>1, <1>2, Summing!LeftRuns
<1>4. r[0] = 0 /\ \A k \in 1 .. n : r[k] = r[k - 1] + s[k]
  BY <1>3 DEF Summing!RunsLeft, SumStep
<1> DEFINE S == {k \in 0 .. n : r[k] \in Nat}
<1>5. 0 \in S
  BY <1>1, <1>4
<1>6. ASSUME NEW k \in 0 .. n - 1, k \in S
      PROVE  k + 1 \in S
  <2>1. k + 1 \in 1 .. n /\ k + 1 \in 0 .. n /\ (k + 1) - 1 = k /\ r[k] \in Nat
    BY <1>1, <1>6
  <2>2. r[k + 1] = r[(k + 1) - 1] + s[k + 1]
    BY <1>4, <2>1
  <2>3. r[k + 1] \in Nat
    BY <1>1, <2>1, <2>2
  <2> QED BY <2>1, <2>3
<1>7. \A k \in 0 .. n : k \in S
  <2> HIDE DEF S
  <2> QED BY <1>1, <1>5, <1>6, Summing!UpTo
<1>8. n \in 0 .. n
  BY <1>1
<1> QED BY <1>3, <1>7, <1>8

\* No transaction pays less than nothing.
LEMMA ValueOutIsNat ==
  \A t \in Txs : ValueOut(t) \in Nat
BY BlockAssumption, SumIsNat DEF ValueOut

\* What the loop keeps, block c being the last one it is through with.
Forward(z, c) ==
  /\ z = [bad |-> z.bad, view |-> z.view, undo |-> z.undo, supply |-> z.supply]
  /\ UndoOk(z.undo) /\ z.supply \in [Blocks -> Nat] /\ z.bad \in Blocks \cup {Null}
  /\ z.bad = Null => z.view \in View /\ Alike(z.view, UtxoAt[c]) /\ HasUndo(z.undo, c)

\* No undo data are forgotten.
Keeps(u, w) == \A c \in Blocks : u[c] # Null => w[c] # Null

\* One block: it connects, or it is the bad one.
LEMMA ForwardOne ==
  ASSUME NEW c \in Blocks, c # Genesis, NEW s, Forward(s, Prev[c]),
         NEW z, z = ForwardStep(0, 0, s, c)
  PROVE  Forward(z, c) /\ Keeps(s.undo, z.undo)
<1>0. /\ s = [bad |-> s.bad, view |-> s.view, undo |-> s.undo, supply |-> s.supply]
      /\ UndoOk(s.undo) /\ s.supply \in [Blocks -> Nat] /\ s.bad \in Blocks \cup {Null}
      /\ s.bad = Null => s.view \in View /\ Alike(s.view, UtxoAt[Prev[c]]) /\ HasUndo(s.undo, Prev[c])
  BY DEF Forward
<1>1. CASE s.bad # Null
  <2>1. z = s
    BY <1>1 DEF ForwardStep
  <2> QED BY <1>0, <1>1, <2>1 DEF Forward, Keeps
<1>2. CASE s.bad = Null
  <2> DEFINE x == ConnectBlock(s.view, c)
             u == UndoAt(c)
  <2>1. /\ x.ok = Connects1(c) /\ x.undo = u /\ u # Null
        /\ x.view \in View /\ Alike(x.view, UtxoAt[c]) /\ Connects1(c) \in BOOLEAN
    BY <1>0, <1>2, OneForward
  <2>2. z = IF ~x.ok THEN [s EXCEPT !.bad = c]
            ELSE [bad |-> Null, view |-> x.view,
                  undo |-> [s.undo EXCEPT ![c] = IF @ = Null THEN x.undo ELSE @],
                  supply |-> [s.supply EXCEPT ![c] = s.supply[Prev[c]] + ValueOut(Vtx[c][1])]]
    BY <1>2 DEF ForwardStep
  <2> HIDE DEF x, u
  <2>3. CASE ~x.ok
    <3>1. z = [bad |-> c, view |-> s.view, undo |-> s.undo, supply |-> s.supply]
      BY <1>0, <2>2, <2>3
    <3>2. z.bad = c /\ z.undo = s.undo /\ z.supply = s.supply /\ z.view = s.view
      BY <3>1
    <3>3. c # Null
      BY NullIsNoCoin
    <3> QED BY <1>0, <3>1, <3>2, <3>3 DEF Forward, Keeps
  <2>4. CASE x.ok
    <3>1. /\ z.bad = Null /\ z.view = x.view
          /\ z.undo = [s.undo EXCEPT ![c] = IF s.undo[c] = Null THEN x.undo ELSE s.undo[c]]
          /\ z.supply = [s.supply EXCEPT ![c] = s.supply[Prev[c]] + ValueOut(Vtx[c][1])]
          /\ z = [bad |-> z.bad, view |-> z.view, undo |-> z.undo, supply |-> z.supply]
      BY <2>2, <2>4
    <3>2. z.supply \in [Blocks -> Nat]
      <4>1. Vtx[c][1] \in Txs
        BY BlockTxs
      <4>2. ValueOut(Vtx[c][1]) \in Nat /\ s.supply[Prev[c]] \in Nat
        BY <1>0, <4>1, ValueOutIsNat, PrevIsBlock
      <4>3. s.supply[Prev[c]] + ValueOut(Vtx[c][1]) \in Nat
        BY <4>2
      <4> QED BY <1>0, <3>1, <4>3
    <3>3. s.undo = [e \in Blocks |-> s.undo[e]]
          /\ \A e \in Blocks : s.undo[e] # Null => e # Genesis /\ Connects1(e) /\ s.undo[e] = UndoAt(e)
      BY <1>0 DEF UndoOk
    <3>4. /\ z.undo[c] = IF s.undo[c] = Null THEN u ELSE s.undo[c]
          /\ \A e \in Blocks \ {c} : z.undo[e] = s.undo[e]
          /\ z.undo = [e \in Blocks |-> z.undo[e]]
      BY <2>1, <3>1, <3>3
    <3>5. z.undo[c] = u /\ Connects1(c)
      BY <2>1, <2>4, <3>3, <3>4 DEF u
    <3>6. UndoOk(z.undo)
      <4> SUFFICES ASSUME NEW e \in Blocks, z.undo[e] # Null
                   PROVE  e # Genesis /\ Connects1(e) /\ z.undo[e] = UndoAt(e)
        BY <3>4 DEF UndoOk
      <4>1. CASE e = c
        BY <3>5, <4>1 DEF u
      <4>2. CASE e # c
        BY <3>3, <3>4, <4>2
      <4> QED BY <4>1, <4>2
    <3>7. Keeps(s.undo, z.undo)
      BY <2>1, <3>4, <3>5 DEF Keeps
    <3>8. HasUndo(z.undo, c)
      <4> SUFFICES ASSUME NEW e \in Chain[c] \ {Genesis} PROVE z.undo[e] # Null
        BY DEF HasUndo
      <4>1. e \in Blocks /\ (e = c \/ e \in Chain[Prev[c]] \ {Genesis})
        BY OnChain
      <4>2. HasUndo(s.undo, Prev[c])
        BY <1>0, <1>2
      <4> QED BY <2>1, <3>5, <3>7, <4>1, <4>2 DEF HasUndo, Keeps
    <3> QED BY <2>1, <3>1, <3>2, <3>6, <3>7, <3>8 DEF Forward
  <2> QED BY <2>3, <2>4
<1> QED BY <1>1, <1>2

\* All of vConnect, from block f.
LEMMA ForwardTo ==
  ASSUME NEW b \in Blocks, NEW f \in Chain[b], NEW base, Forward(base, f)
  PROVE  LET z == Forwarding!Left(0, 0, base, Upwards(Chain[b] \ Chain[f]))
         IN  Forward(z, b) /\ Keeps(base.undo, z.undo)
<1> DEFINE n == Height[b] - Height[f]
           s == Upwards(Chain[b] \ Chain[f])
           g(k) == At(b, Height[f] + k)
<1>0. f \in Blocks /\ Height[b] \in Nat /\ Height[f] \in Nat /\ n \in Nat
  BY OnChain, HeightDef
<1>1. DOMAIN s = 1 .. n /\ \A k \in 1 .. n : s[k] = g(k)
  BY UpwardsIs
<1>3. g(0) = f /\ g(n) = b
  <2>1. Height[f] + 0 = Height[f] /\ Height[f] + n = Height[b] /\ b \in Chain[b]
    BY <1>0, ChainOfPrev
  <2> QED BY <2>1, BlockAt
<1>4. ASSUME NEW k \in 0 .. n - 1
      PROVE  g(k + 1) \in Blocks \ {Genesis} /\ Prev[g(k + 1)] = g(k)
  <2> DEFINE h == Height[f] + (k + 1)
  <2>1. h \in 1 .. Height[b] /\ h - 1 = Height[f] + k
    BY <1>0
  <2> HIDE DEF h
  <2>2. At(b, h) \in Blocks \ {Genesis} /\ Prev[At(b, h)] = At(b, h - 1)
    BY <2>1, PrevAt
  <2> QED BY <2>1, <2>2 DEF h
<1> HIDE DEF n, s, g
<1>5. PICK r : Forwarding!RunsLeft(r, 0, 0, base, s, n) /\ Forwarding!Left(0, 0, base, s) = r[n]
  BY <1>0, <1>1, Forwarding!LeftRuns
<1>6. r[0] = base /\ \A k \in 1 .. n : r[k] = ForwardStep(0, 0, r[k - 1], s[k])
  BY <1>5 DEF Forwarding!RunsLeft
<1> DEFINE P(k) == Forward(r[k], g(k)) /\ Keeps(base.undo, r[k].undo)
           S == {k \in 0 .. n : P(k)}
<1>7. 0 \in S
  BY <1>0, <1>3, <1>6 DEF Keeps
<1>8. ASSUME NEW k \in 0 .. n - 1, k \in S
      PROVE  k + 1 \in S
  <2> DEFINE m == k + 1
             c == g(m)
  <2>1. m \in 1 .. n /\ m - 1 = k /\ m \in 0 .. n
    BY <1>0
  <2>2. c \in Blocks \ {Genesis} /\ Prev[c] = g(k)
    BY <1>4
  <2>3. Forward(r[k], Prev[c]) /\ Keeps(base.undo, r[k].undo)
    BY <1>8, <2>2
  <2>4. r[m] = ForwardStep(0, 0, r[k], c)
    <3> HIDE DEF m
    <3> QED BY <1>1, <1>6, <2>1
  <2>5. Forward(r[m], c) /\ Keeps(r[k].undo, r[m].undo)
    <3> HIDE DEF m, c
    <3> QED BY <2>2, <2>3, <2>4, ForwardOne
  <2>6. P(m)
    BY <2>3, <2>5 DEF Keeps
  <2> HIDE DEF P
  <2> QED BY <2>1, <2>6
<1>9. \A k \in 0 .. n : k \in S
  <2> HIDE DEF S
  <2> QED BY <1>0, <1>7, <1>8, Forwarding!UpTo
<1>10. P(n)
  BY <1>0, <1>9
<1> QED BY <1>3, <1>5, <1>10 DEF s

-----------------------------------------------------------------------------
(***************************************************************************)
(* The inductive invariant.                                                *)
(***************************************************************************)
CoinInv ==
  /\ tip \in Blocks /\ dbTip \in Blocks
  /\ coins \in View /\ Alike(coins, UtxoAt[tip])
  /\ db = UtxoAt[dbTip]
  /\ UndoOk(undo) /\ HasUndo(undo, tip) /\ HasUndo(undo, dbTip)
  /\ failed \subseteq Blocks /\ supply \in [Blocks -> Nat] /\ stops \in 0 .. MaxStops

\* A view like UtxoAt[b] is written as UtxoAt[b].
LEMMA WrittenUtxo ==
  ASSUME NEW b \in Blocks, NEW v \in View, Alike(v, UtxoAt[b])
  PROVE  Written(v) = UtxoAt[b]
<1>1. UtxoAt[b] \in View /\ Clean(UtxoAt[b])
  BY UtxoAtSound
<1>2. Written(v) \in View /\ Alike(v, Written(v)) /\ Clean(Written(v))
  BY WrittenIs
<1>3. Alike(Written(v), UtxoAt[b])
  BY <1>2, AlikeIsAnEquivalence
<1> QED BY <1>1, <1>2, <1>3, CleanAndAlike

\* The branch that is left, down to the fork.
LEMMA DisconnectedIs ==
  ASSUME CoinInv, NEW new \in Blocks, NEW f \in Chain[tip], Chain[tip] \cap Chain[new] = Chain[f]
  PROVE  /\ Disconnected(new).clean = TRUE
         /\ Disconnected(new).view \in View /\ Alike(Disconnected(new).view, UtxoAt[f])
<1>1. Disconnected(new)
        = Rewinding!Left(undo, 0, [clean |-> TRUE, view |-> coins], Downwards(Chain[tip] \ Chain[new]))
  BY DEF Disconnected, RewindStep, Rewinding!Left, FoldLeft, MapThenFoldSet, Max, Rewinding!Greatest
<1>2. Chain[tip] \ Chain[new] = Chain[tip] \ Chain[f]
  OBVIOUS
<1>3. /\ tip \in Blocks /\ coins \in View /\ Alike(coins, UtxoAt[tip])
      /\ UndoOk(undo) /\ HasUndo(undo, tip)
  BY DEF CoinInv
<1> DEFINE z == Rewinding!Left(undo, 0, [clean |-> TRUE, view |-> coins], Downwards(Chain[tip] \ Chain[f]))
<1>4. Disconnected(new) = z
  BY <1>1, <1>2
<1>5. z.clean = TRUE /\ z.view \in View /\ Alike(z.view, UtxoAt[f])
  BY <1>3, RewindTo
<1> HIDE DEF z
<1> QED BY <1>4, <1>5

\* The branch that is taken, up from the fork.
LEMMA ConnectedIs ==
  ASSUME CoinInv, NEW new \in Blocks
  PROVE  /\ Disconnected(new).clean = TRUE
         /\ Forward(Connected(new), new) /\ Keeps(undo, Connected(new).undo)
<1>1. /\ tip \in Blocks /\ UndoOk(undo) /\ HasUndo(undo, tip) /\ supply \in [Blocks -> Nat]
  BY DEF CoinInv
<1>2. PICK f \in Chain[tip] \cap Chain[new] : Chain[tip] \cap Chain[new] = Chain[f]
  BY <1>1, ForkExists
<1> DEFINE d == Disconnected(new).view
           base == [bad |-> Null, view |-> d, undo |-> undo, supply |-> supply]
           z == Forwarding!Left(0, 0, base, Upwards(Chain[new] \ Chain[f]))
<1>3. Disconnected(new).clean = TRUE /\ d \in View /\ Alike(d, UtxoAt[f])
  BY <1>2, DisconnectedIs
<1>4. Connected(new) = Forwarding!Left(0, 0, base, Upwards(Chain[new] \ Chain[tip]))
  <2> HIDE DEF d
  <2>1. d = Disconnected(new).view
    BY DEF d
  <2> QED BY <2>1 DEF Connected, ForwardStep, Forwarding!Left, FoldLeft, MapThenFoldSet, Max, Forwarding!Greatest
<1>5. Chain[new] \ Chain[tip] = Chain[new] \ Chain[f]
  BY <1>2
<1>6. Connected(new) = z
  BY <1>4, <1>5
<1> HIDE DEF d
<1>7. HasUndo(undo, f)
  BY <1>1, <1>2, OnChain DEF HasUndo
<1>8. Forward(base, f)
  BY <1>1, <1>3, <1>7 DEF Forward
<1>9. f \in Chain[new] /\ base.undo = undo
  BY <1>2
<1> HIDE DEF base
<1>10. Forward(z, new) /\ Keeps(base.undo, z.undo)
  BY <1>8, <1>9, ForwardTo
<1> HIDE DEF z
<1> QED BY <1>3, <1>6, <1>9, <1>10

\* A chain that has its undo data keeps them.
LEMMA UndoStays ==
  ASSUME NEW u, NEW w, Keeps(u, w), NEW b \in Blocks, HasUndo(u, b)
  PROVE  HasUndo(w, b)
BY OnChain DEF Keeps, HasUndo

\* It holds at the start, when the best chain is the genesis block.
LEMMA CoinInit == Init => CoinInv
<1> SUFFICES ASSUME Init PROVE CoinInv
  OBVIOUS
<1>1. Genesis \in Blocks /\ Chain[Genesis] = {Genesis}
  BY BlockAssumption, ChainOfPrev
<1>2. UtxoAt[Genesis] = [t \in Txs |-> Null]
  BY <1>1, UtxoAtDef
<1>3. UtxoAt[Genesis] \in View /\ \A v : Alike(v, v)
  BY <1>1, UtxoAtSound, AlikeIsAnEquivalence
<1>4. coins = UtxoAt[Genesis] /\ db = UtxoAt[Genesis] /\ tip = Genesis /\ dbTip = Genesis
  BY <1>2 DEF Init
<1>5. UndoOk(undo) /\ HasUndo(undo, Genesis)
  BY <1>1 DEF Init, UndoOk, HasUndo
<1>6. failed \subseteq Blocks /\ supply \in [Blocks -> Nat] /\ stops \in 0 .. MaxStops
  BY BlockAssumption DEF Init
<1> QED BY <1>1, <1>3, <1>4, <1>5, <1>6 DEF CoinInv

\* SetBestChain preserves it, whether the new branch connects or fails.
LEMMA CoinSetBestChain ==
  ASSUME CoinInv, NEW new \in Blocks, SetBestChain(new)
  PROVE  CoinInv'
<1> DEFINE r == Connected(new)
<1>1. Forward(r, new) /\ Keeps(undo, r.undo)
  BY ConnectedIs
<1>2. /\ UndoOk(r.undo) /\ r.supply \in [Blocks -> Nat] /\ r.bad \in Blocks \cup {Null}
      /\ r.bad = Null => r.view \in View /\ Alike(r.view, UtxoAt[new]) /\ HasUndo(r.undo, new)
  BY <1>1 DEF Forward
<1>3. /\ undo' = r.undo /\ supply' = r.supply /\ stops' = stops
      /\ r.bad # Null => failed' = failed \cup {r.bad} /\ UNCHANGED <<tip, coins, dbTip, db>>
      /\ r.bad = Null => /\ tip' = new /\ failed' = failed
                         /\ \/ coins' = Written(r.view) /\ BatchWrite(r.view, new)
                            \/ coins' = r.view /\ UNCHANGED <<db, dbTip>>
  BY DEF SetBestChain
<1> HIDE DEF r
<1>4. /\ tip \in Blocks /\ dbTip \in Blocks /\ coins \in View /\ Alike(coins, UtxoAt[tip])
      /\ db = UtxoAt[dbTip] /\ HasUndo(undo, tip) /\ HasUndo(undo, dbTip)
      /\ failed \subseteq Blocks /\ stops \in 0 .. MaxStops
  BY DEF CoinInv
<1>5. HasUndo(r.undo, tip) /\ HasUndo(r.undo, dbTip)
  BY <1>1, <1>4, UndoStays
<1>6. CASE r.bad # Null
  <2>1. failed' \subseteq Blocks /\ tip' = tip /\ coins' = coins /\ dbTip' = dbTip /\ db' = db
    BY <1>2, <1>3, <1>4, <1>6
  <2> QED BY <1>2, <1>3, <1>4, <1>5, <2>1 DEF CoinInv
<1>7. CASE r.bad = Null
  <2>1. /\ r.view \in View /\ Alike(r.view, UtxoAt[new]) /\ HasUndo(r.undo, new)
        /\ tip' = new /\ failed' = failed
    BY <1>2, <1>3, <1>7
  <2>2. Written(r.view) = UtxoAt[new] /\ UtxoAt[new] \in View /\ Alike(UtxoAt[new], UtxoAt[new])
    BY <2>1, WrittenUtxo, UtxoAtSound, AlikeIsAnEquivalence
  <2>3. CASE coins' = Written(r.view) /\ BatchWrite(r.view, new)
    <3>1. db' = UtxoAt[new] /\ dbTip' = new /\ coins' = UtxoAt[new]
      BY <2>2, <2>3 DEF BatchWrite
    <3> QED BY <1>2, <1>3, <1>4, <2>1, <2>2, <3>1 DEF CoinInv
  <2>4. CASE coins' = r.view /\ UNCHANGED <<db, dbTip>>
    <3>1. coins' = r.view /\ db' = db /\ dbTip' = dbTip
      BY <2>4
    <3> QED BY <1>2, <1>3, <1>4, <1>5, <2>1, <3>1 DEF CoinInv
  <2> QED BY <1>3, <1>7, <2>3, <2>4
<1> QED BY <1>6, <1>7

\* A restart preserves it: the database is a whole UtxoAt.
LEMMA CoinRestart ==
  ASSUME CoinInv, Restart
  PROVE  CoinInv'
<1>1. /\ tip \in Blocks /\ dbTip \in Blocks /\ coins \in View /\ Alike(coins, UtxoAt[tip])
      /\ db = UtxoAt[dbTip] /\ UndoOk(undo) /\ HasUndo(undo, tip) /\ HasUndo(undo, dbTip)
      /\ failed \subseteq Blocks /\ stops \in 0 .. MaxStops
  BY DEF CoinInv
<1>2. /\ coins' = db' /\ tip' = dbTip' /\ supply' = [b \in Blocks |-> 0] /\ stops' = stops + 1
      /\ undo' = undo /\ failed' = failed /\ stops < MaxStops
      /\ BatchWrite(coins, tip) \/ (db' = db /\ dbTip' = dbTip)
  BY DEF Restart
<1>3. PICK b \in {tip, dbTip} : dbTip' = b /\ db' = UtxoAt[b]
  <2>1. Written(coins) = UtxoAt[tip]
    BY <1>1, WrittenUtxo
  <2> QED BY <1>1, <1>2, <2>1 DEF BatchWrite
<1>4. b \in Blocks /\ HasUndo(undo, b)
  BY <1>1, <1>3
<1>5. UtxoAt[b] \in View /\ Alike(UtxoAt[b], UtxoAt[b])
  BY <1>4, UtxoAtSound, AlikeIsAnEquivalence
<1>6. supply' \in [Blocks -> Nat] /\ stops' \in 0 .. MaxStops
  BY <1>1, <1>2, BlockAssumption
<1> QED BY <1>1, <1>2, <1>3, <1>4, <1>5, <1>6 DEF CoinInv

\* The coins are those of the best chain in every state.
THEOREM CoinInvariant == Spec => []CoinInv
<1>1. CoinInv /\ [Next]_coinVars => CoinInv'
  <2> SUFFICES ASSUME CoinInv, [Next]_coinVars PROVE CoinInv'
    OBVIOUS
  <2>1. CASE \E b \in Blocks : SetBestChain(b)
    BY <2>1, CoinSetBestChain
  <2>2. CASE Restart
    BY <2>2, CoinRestart
  <2>3. CASE UNCHANGED coinVars
    <3>1. /\ tip' = tip /\ coins' = coins /\ dbTip' = dbTip /\ db' = db /\ undo' = undo
          /\ failed' = failed /\ supply' = supply /\ stops' = stops
      BY <2>3 DEF coinVars
    <3> QED BY <3>1 DEF CoinInv
  <2> QED BY <2>1, <2>2, <2>3 DEF Next
<1> QED BY <1>1, CoinInit, PTL DEF Spec

(***************************************************************************)
(* pcoinsTip and the database hold coins of the transactions only: the     *)
(* outputs in them exist, and the database has no entry without any.       *)
(***************************************************************************)
THEOREM CoinTypes == Spec => []TypeOK
<1>1. CoinInv => TypeOK
  <2> SUFFICES ASSUME CoinInv PROVE TypeOK
    OBVIOUS
  <2>1. /\ tip \in Blocks /\ dbTip \in Blocks /\ coins \in View /\ Alike(coins, UtxoAt[tip])
        /\ db = UtxoAt[dbTip] /\ failed \subseteq Blocks /\ supply \in [Blocks -> Nat]
        /\ stops \in 0 .. MaxStops
    BY DEF CoinInv
  <2>2. db \in View /\ Sound(db) /\ Clean(db) /\ Sound(UtxoAt[tip])
    BY <2>1, UtxoAtSound
  <2>3. Sound(coins)
    BY <2>1, <2>2, AlikeIsSound, AlikeIsAnEquivalence
  <2>4. DOMAIN coins = Txs /\ DOMAIN db = Txs
    BY <2>1, <2>2 DEF View
  <2>5. ASSUME NEW t \in Txs
        PROVE  /\ HaveCoins(coins, t) => coins[t].vout \subseteq DOMAIN Vout[t]
               /\ HaveCoins(db, t) => db[t].vout # {} /\ db[t].vout \subseteq DOMAIN Vout[t]
    BY <2>2, <2>3 DEF HaveCoins, Sound, Clean, Live
  <2> QED BY <2>1, <2>4, <2>5 DEF TypeOK
<1> QED BY <1>1, CoinInvariant, PTL

(***************************************************************************)
(* VerifyDB disconnects the best chain from pcoinsTip, block after block,  *)
(* and DisconnectBlock finds nothing out of place.                         *)
(***************************************************************************)
THEOREM VerifyDBIsClean == Spec => []VerifyDBPasses
<1>1. CoinInv => VerifyDBPasses
  <2> SUFFICES ASSUME CoinInv PROVE VerifyDBPasses
    OBVIOUS
  <2> DEFINE z == Rewinding!Left(undo, 0, [clean |-> TRUE, view |-> coins], Downwards(Chain[tip] \ Chain[Genesis]))
  <2>1. /\ tip \in Blocks /\ coins \in View /\ Alike(coins, UtxoAt[tip]) /\ UndoOk(undo) /\ HasUndo(undo, tip)
    BY DEF CoinInv
  <2>2. Genesis \in Chain[tip] /\ Chain[Genesis] = {Genesis}
    BY <2>1, ChainOfPrev
  <2>3. z.clean = TRUE
    BY <2>1, <2>2, RewindTo
  <2>4. VerifyDBPasses <=> Rewinding!Left(undo, 0, [clean |-> TRUE, view |-> coins], Downwards(Chain[tip] \ {Genesis})).clean
    BY DEF VerifyDBPasses, RewindStep, Rewinding!Left, FoldLeft, MapThenFoldSet, Max, Rewinding!Greatest
  <2> QED BY <2>2, <2>3, <2>4
<1> QED BY <1>1, CoinInvariant, PTL

(***************************************************************************)
(* SetBestChain is never stopped by the blocks it takes back: whatever the *)
(* block it is called for, the shorter branch is disconnected cleanly.     *)
(***************************************************************************)
THEOREM ReorganisesCleanly == Spec => [](\A new \in Blocks : Disconnected(new).clean)
<1>1. CoinInv => \A new \in Blocks : Disconnected(new).clean
  BY ConnectedIs
<1> QED BY <1>1, CoinInvariant, PTL

-----------------------------------------------------------------------------
(***************************************************************************)
(* The coins are the unspent outputs.                                      *)
(***************************************************************************)
\* Unspent, for any sequence of transactions.
UnspentIn(t, s) ==
  LET here == {i \in DOMAIN s : s[i] = t}
  IN  {n \in DOMAIN Vout[t] : /\ here # {}
                              /\ \A j \in DOMAIN s : j > Max(here) =>
                                   <<t, n>> \notin ToSet(Vin[s[j]])}

\* i is the last place of t in s, and nothing after it spends output n.
LastUnspent(t, n, s, i) ==
  s[i] = t /\ \A j \in DOMAIN s : j > i => s[j] # t /\ <<t, n>> \notin ToSet(Vin[s[j]])

\* A set of positions has a greatest one.
LEMMA GreatestExists ==
  ASSUME NEW n \in Nat, NEW X \in SUBSET (1 .. n), X # {}
  PROVE  Max(X) \in X /\ \A y \in X : Max(X) >= y
<1> DEFINE P(k) == \A Y \in SUBSET (1 .. k) : Y # {} => \E m \in Y : \A y \in Y : m >= y
           S == {k \in 0 .. n : P(k)}
<1>1. 0 \in S
  <2>1. 1 .. 0 = {} /\ 0 \in 0 .. n
    OBVIOUS
  <2>2. P(0)
    BY <2>1
  <2> HIDE DEF P
  <2> QED BY <2>1, <2>2
<1>2. ASSUME NEW k \in 0 .. n - 1, k \in S
      PROVE  k + 1 \in S
  <2> SUFFICES ASSUME NEW Y \in SUBSET (1 .. k + 1), Y # {}
               PROVE  \E m \in Y : \A y \in Y : m >= y
    OBVIOUS
  <2>1. CASE k + 1 \in Y
    BY <2>1
  <2>2. CASE k + 1 \notin Y
    <3>1. Y \in SUBSET (1 .. k)
      BY <2>2
    <3> QED BY <1>2, <3>1
  <2> QED BY <2>1, <2>2
<1>3. \A k \in 0 .. n : k \in S
  <2> HIDE DEF S
  <2> QED BY <1>1, <1>2, Summing!UpTo
<1>4. P(n)
  <2> HIDE DEF P
  <2>1. n \in 0 .. n
    OBVIOUS
  <2> QED BY <1>3, <2>1
<1>5. \E m \in X : \A y \in X : m >= y
  BY <1>4
<1> QED BY <1>5 DEF Max

\* The outputs that nothing after the last occurrence of t spends, without its maximum.
LEMMA UnspentInIs ==
  ASSUME NEW t, NEW m \in Nat, NEW s, DOMAIN s = 1 .. m
  PROVE  UnspentIn(t, s) = {n \in DOMAIN Vout[t] : \E i \in 1 .. m : LastUnspent(t, n, s, i)}
<1> DEFINE here == {i \in 1 .. m : s[i] = t}
<1>1. UnspentIn(t, s) = {n \in DOMAIN Vout[t] : /\ here # {}
                            /\ \A j \in 1 .. m : j > Max(here) => <<t, n>> \notin ToSet(Vin[s[j]])}
  BY DEF UnspentIn
<1>2. here # {} => /\ Max(here) \in here /\ \A y \in here : Max(here) >= y
  BY GreatestExists
<1> SUFFICES ASSUME NEW n
             PROVE  (here # {} /\ \A j \in 1 .. m : j > Max(here) => <<t, n>> \notin ToSet(Vin[s[j]]))
                      <=> \E i \in 1 .. m : LastUnspent(t, n, s, i)
  BY <1>1
<1>3. ASSUME here # {}, \A j \in 1 .. m : j > Max(here) => <<t, n>> \notin ToSet(Vin[s[j]])
      PROVE  \E i \in 1 .. m : LastUnspent(t, n, s, i)
  <2> DEFINE i == Max(here)
  <2>1. i \in 1 .. m /\ s[i] = t /\ \A y \in 1 .. m : s[y] = t => i >= y
    BY <1>2, <1>3
  <2>2. \A j \in 1 .. m : j > i => <<t, n>> \notin ToSet(Vin[s[j]])
    BY <1>3
  <2> HIDE DEF i
  <2>3. LastUnspent(t, n, s, i)
    BY <2>1, <2>2 DEF LastUnspent
  <2> QED BY <2>1, <2>3
<1>4. ASSUME NEW i \in 1 .. m, LastUnspent(t, n, s, i)
      PROVE  here # {} /\ \A j \in 1 .. m : j > Max(here) => <<t, n>> \notin ToSet(Vin[s[j]])
  <2>1. i \in here /\ \A y \in 1 .. m : y > i => s[y] # t
    BY <1>4 DEF LastUnspent
  <2>2. Max(here) \in 1 .. m /\ s[Max(here)] = t /\ Max(here) >= i
    BY <1>2, <2>1
  <2>3. Max(here) = i
    BY <2>1, <2>2
  <2> QED BY <1>4, <2>1, <2>3 DEF LastUnspent
<1> QED BY <1>3, <1>4

\* No transactions, no outputs.
LEMMA NothingUnspent ==
  ASSUME NEW t, NEW s, DOMAIN s = {}
  PROVE  UnspentIn(t, s) = {}
BY DEF UnspentIn

\* One more transaction.
LEMMA UnspentNext ==
  ASSUME NEW t, NEW m \in Nat, NEW f, DOMAIN f = 1 .. m, NEW g, DOMAIN g = 1 .. m + 1,
         \A j \in 1 .. m : g[j] = f[j]
  PROVE  UnspentIn(t, g) = IF g[m + 1] = t THEN DOMAIN Vout[t]
                           ELSE {n \in UnspentIn(t, f) : <<t, n>> \notin ToSet(Vin[g[m + 1]])}
<1> DEFINE e == m + 1
<1>0. e \in Nat /\ e \in 1 .. e /\ \A i \in 1 .. e : i = e \/ (i \in 1 .. m /\ i < e)
  OBVIOUS
<1>0a. \A i \in 1 .. m : i \in 1 .. e /\ e > i
  OBVIOUS
<1>1. UnspentIn(t, f) = {n \in DOMAIN Vout[t] : \E i \in 1 .. m : LastUnspent(t, n, f, i)}
  BY UnspentInIs
<1> HIDE DEF e
<1>2. UnspentIn(t, g) = {n \in DOMAIN Vout[t] : \E i \in 1 .. e : LastUnspent(t, n, g, i)}
  BY <1>0, UnspentInIs DEF e
<1>3. DOMAIN g = 1 .. e
  BY DEF e
<1>4. CASE g[e] = t
  <2>1. \A n : LastUnspent(t, n, g, e)
    BY <1>0, <1>3, <1>4 DEF LastUnspent
  <2> QED BY <1>0, <1>2, <1>4, <2>1 DEF e
<1>5. CASE g[e] # t
  <2>1. ASSUME NEW n
        PROVE  (\E i \in 1 .. e : LastUnspent(t, n, g, i))
                 <=> (\E i \in 1 .. m : LastUnspent(t, n, f, i)) /\ <<t, n>> \notin ToSet(Vin[g[e]])
    <3>1. ASSUME NEW i \in 1 .. e, LastUnspent(t, n, g, i)
          PROVE  i \in 1 .. m /\ LastUnspent(t, n, f, i) /\ <<t, n>> \notin ToSet(Vin[g[e]])
      <4>1. i \in 1 .. m /\ e > i
        BY <1>0, <1>0a, <1>5, <3>1 DEF LastUnspent
      <4>2. <<t, n>> \notin ToSet(Vin[g[e]])
        BY <1>0, <1>3, <3>1, <4>1 DEF LastUnspent
      <4>3. f[i] = t /\ \A j \in 1 .. m : j > i => f[j] # t /\ <<t, n>> \notin ToSet(Vin[f[j]])
        <5>1. g[i] = t /\ \A j \in 1 .. e : j > i => g[j] # t /\ <<t, n>> \notin ToSet(Vin[g[j]])
          BY <1>3, <3>1 DEF LastUnspent
        <5> QED BY <1>0a, <4>1, <5>1
      <4> QED BY <4>1, <4>2, <4>3 DEF LastUnspent
    <3>2. ASSUME NEW i \in 1 .. m, LastUnspent(t, n, f, i), <<t, n>> \notin ToSet(Vin[g[e]])
          PROVE  i \in 1 .. e /\ LastUnspent(t, n, g, i)
      <4>1. f[i] = t /\ \A j \in 1 .. m : j > i => f[j] # t /\ <<t, n>> \notin ToSet(Vin[f[j]])
        BY <3>2 DEF LastUnspent
      <4>2. g[i] = t /\ i \in 1 .. e
        BY <1>0a, <4>1
      <4>3. ASSUME NEW j \in 1 .. e, j > i
            PROVE  g[j] # t /\ <<t, n>> \notin ToSet(Vin[g[j]])
        <5>1. CASE j = e
          BY <1>5, <3>2, <5>1
        <5>2. CASE j \in 1 .. m
          BY <4>1, <4>3, <5>2
        <5> QED BY <1>0, <5>1, <5>2
      <4> QED BY <1>3, <4>2, <4>3 DEF LastUnspent
    <3> QED BY <3>1, <3>2
  <2> QED BY <1>1, <1>2, <1>5, <2>1 DEF e
<1> QED BY <1>4, <1>5 DEF e

\* The coins of t with the outputs X, made at height h.
Entry(t, h, X) == [fCoinBase |-> t \in Coinbases, nHeight |-> h, vout |-> X]

\* The fields of such an entry.
LEMMA EntryIs ==
  /\ \A t, h, X : Entry(t, h, X).vout = X
  /\ \A t, h, X, Y : [Entry(t, h, X) EXCEPT !.vout = Y] = Entry(t, h, Y)
  /\ \A t, h : CCoins(t, h) = Entry(t, h, DOMAIN Vout[t])
BY DEF Entry, CCoins

\* view holds what the transactions s leave unspent; hs[t]: where t was last.
EntryOf(view, s, hs, t) ==
  IF UnspentIn(t, s) = {} THEN ~Live(view[t])
  ELSE Live(view[t]) /\ view[t] = Entry(t, hs[t], UnspentIn(t, s))
UnspentOf(view, s, hs) == \A t \in Txs : EntryOf(view, s, hs, t)

\* g is f and one more transaction, x, and from hs to is only the height of x changes.
OneMore(f, g, x) ==
  \E m \in Nat : /\ DOMAIN f = 1 .. m /\ DOMAIN g = 1 .. m + 1
                 /\ \A j \in 1 .. m : g[j] = f[j]
                 /\ g[m + 1] = x
OneMoved(hs, is, x, h) == is[x] = h /\ \A t \in Txs \ {x} : is[t] = hs[t]

\* UpdateCoins keeps it.
LEMMA UnspentUpdated ==
  ASSUME NEW v \in View, NEW x \in Txs, NEW h \in Nat,
         NEW f, NEW g, OneMore(f, g, x), NEW hs, NEW is, OneMoved(hs, is, x, h),
         UnspentOf(v, f, hs)
  PROVE  UnspentOf(Updated(v, x, h), g, is)
<1> DEFINE w == Updated(v, x, h)
           n == Len(Vin[x])
<1>0. PICK m \in Nat : /\ DOMAIN f = 1 .. m /\ DOMAIN g = 1 .. m + 1
                       /\ \A j \in 1 .. m : g[j] = f[j]
                       /\ g[m + 1] = x
  BY DEF OneMore
<1>0a. is[x] = h /\ \A t \in Txs \ {x} : is[t] = hs[t]
  BY DEF OneMoved
<1>1. /\ w[x] = CCoins(x, h)
      /\ \A p \in Txs \ {x} : w[p] = After(v, x, n)[p]
  BY UpdatedIs
<1> HIDE DEF w
<1> SUFFICES ASSUME NEW t \in Txs PROVE EntryOf(w, g, is, t)
  BY DEF UnspentOf, w
<1>2. EntryOf(v, f, hs, t)
  BY DEF UnspentOf
<1>3. UnspentIn(t, g) = IF x = t THEN DOMAIN Vout[t]
                        ELSE {y \in UnspentIn(t, f) : <<t, y>> \notin ToSet(Vin[x])}
  <2>1. UnspentIn(t, g) = IF g[m + 1] = t THEN DOMAIN Vout[t]
                          ELSE {y \in UnspentIn(t, f) : <<t, y>> \notin ToSet(Vin[g[m + 1]])}
    BY <1>0, UnspentNext
  <2>2. g[m + 1] = x
    BY <1>0
  <2> HIDE DEF n
  <2> QED BY ONLY <2>1, <2>2
<1>4. CASE t = x
  <2>1. Live(CCoins(x, h)) /\ CCoins(x, h) = Entry(x, h, DOMAIN Vout[x]) /\ DOMAIN Vout[x] # {}
    BY CCoinsIs, EntryIs, TxInputs
  <2> QED BY <1>0a, <1>1, <1>3, <1>4, <2>1 DEF EntryOf
<1>5. CASE t # x
  <2> DEFINE U == UnspentIn(t, f)
             W == UnspentIn(t, g)
             L == Left(v, x, n, t)
  <2>1. W = {y \in U : <<t, y>> \notin ToSet(Vin[x])} /\ w[t] = After(v, x, n)[t]
    BY <1>1, <1>3, <1>5
  <2>2. /\ v[t] = Null => w[t] = Null
        /\ v[t] # Null => w[t] = [v[t] EXCEPT !.vout = L]
    BY <2>1 DEF After
  <2>3. \A y : <<t, y>> \in ToSet(Vin[x]) <=> \E i \in 1 .. n : From(x, i) = t /\ Pos(x, i) = y
    <3>1. DOMAIN Vin[x] = 1 .. n /\ \A i \in 1 .. n : Vin[x][i] = <<From(x, i), Pos(x, i)>>
      BY TxInputs
    <3> QED BY <3>1 DEF ToSet
  <2>4. L = {y \in v[t].vout : <<t, y>> \notin ToSet(Vin[x])}
    BY <2>3 DEF Left
  <2> HIDE DEF U, W, L
  <2>5. CASE U = {}
    <3>1. ~Live(v[t]) /\ W = {}
      BY <1>2, <2>1, <2>5 DEF EntryOf, U
    <3>2. ~Live(w[t])
      <4>1. CASE v[t] = Null
        BY <2>2, <4>1 DEF Live
      <4>2. CASE v[t] # Null
        <5>1. v[t] \in Coin /\ v[t].vout = {}
          BY <3>1, <4>2 DEF Live, View
        <5>2. w[t].vout = L /\ L = {}
          BY <2>2, <2>4, <4>2, <5>1, CoinFields
        <5> QED BY <5>2 DEF Live
      <4> QED BY <4>1, <4>2
    <3> QED BY <3>1, <3>2 DEF EntryOf, W
  <2>6. CASE U # {}
    <3>1. Live(v[t]) /\ v[t] = Entry(t, hs[t], U) /\ v[t] # Null /\ v[t] \in Coin
      BY <1>2, <2>6 DEF EntryOf, U, Live, View
    <3>2. v[t].vout = U /\ [v[t] EXCEPT !.vout = L] = Entry(t, hs[t], L)
      BY <3>1, EntryIs
    <3>3. L = W /\ w[t] = Entry(t, is[t], W) /\ w[t].vout = W
      BY <1>0a, <1>5, <2>1, <2>2, <2>4, <3>1, <3>2, EntryIs
    <3>4. w[t] # Null
      <4>1. w[t] \in Coin
        <5>1. After(v, x, n)[t] \in Coin
          BY <3>1, AfterEntry
        <5> QED BY <2>1, <5>1
      <4> QED BY <4>1, NullIsNoCoin
    <3> QED BY <3>3, <3>4 DEF EntryOf, W, Live
  <2> QED BY <2>5, <2>6
<1> QED BY <1>4, <1>5

\* The last block of a chain with t: its end, or on the chain before it.
LEMMA HeightOfIs ==
  ASSUME NEW b \in Blocks, b # Genesis, NEW t \in Txs
  PROVE  HeightOf(t, b) = IF t \in ToSet(Vtx[b]) THEN Height[b] ELSE HeightOf(t, Prev[b])
<1> DEFINE D(c) == {d \in Chain[c] \ {Genesis} : t \in ToSet(Vtx[d])}
           H(c) == {Height[d] : d \in D(c)}
<1>1. HeightOf(t, b) = Max(H(b)) /\ HeightOf(t, Prev[b]) = Max(H(Prev[b]))
  BY DEF HeightOf
<1>2. Prev[b] \in Blocks /\ Chain[b] = {b} \cup Chain[Prev[b]] /\ b \in Chain[b]
  BY ChainOfPrev
<1>3. CASE t \in ToSet(Vtx[b])
  <2>1. Height[b] \in H(b)
    BY <1>2, <1>3
  <2>2. \A y \in H(b) : y \in Nat /\ y <= Height[b]
    BY OnChain, HeightDef
  <2>3. H(b) \in SUBSET Int /\ Height[b] \in Nat /\ \A y \in H(b) : Height[b] >= y
    BY <2>2, HeightDef
  <2> HIDE DEF H
  <2>4. Summing!Greatest(H(b)) = Height[b]
    BY <2>1, <2>3, Summing!MaxIs
  <2>5. Max(H(b)) = Height[b]
    BY <2>4 DEF Max, Summing!Greatest
  <2> QED BY <1>1, <1>3, <2>5
<1>4. CASE t \notin ToSet(Vtx[b])
  <2>1. D(b) = D(Prev[b])
    BY <1>2, <1>4
  <2> QED BY <1>1, <1>4, <2>1
<1> QED BY <1>3, <1>4

\* What is like such a view is one.
LEMMA UnspentAlike ==
  ASSUME NEW v, NEW w, Alike(v, w), NEW s, NEW hs, UnspentOf(v, s, hs)
  PROVE  UnspentOf(w, s, hs)
<1> SUFFICES ASSUME NEW t \in Txs PROVE EntryOf(w, s, hs, t)
  BY DEF UnspentOf
<1>1. EntryOf(v, s, hs, t) /\ (Live(v[t]) \/ Live(w[t]) => v[t] = w[t])
  BY DEF UnspentOf, Alike
<1> QED BY <1>1 DEF EntryOf

\* View w, before transaction x, which comes next after the first k of s.
Before(w, s, k, x) ==
  /\ HaveInputs(w, x)
  /\ \E f, hs : UnspentOf(w, f, hs) /\ DOMAIN f = 1 .. k /\ \A j \in 1 .. k : f[j] = s[j]

\* The heights hs, once block b has come on top.
Raised(b, hs, is) == \A t \in Txs : is[t] = IF t \in ToSet(Vtx[b]) THEN Height[b] ELSE hs[t]

\* View w, before transaction i of block b, which comes on top of the heights hs: the
\* coinbases it spends are mature.
Ripe(w, hs, b, i) ==
  /\ i # 1 => CheckInputs(w, Vtx[b][i], Height[b])
  /\ \E f, gs : /\ UnspentOf(w, f, gs)
                /\ \A t \in Txs : gs[t] = IF \E j \in 1 .. i - 1 : Vtx[b][j] = t THEN Height[b] ELSE hs[t]

\* A whole block.
LEMMA UnspentConnected ==
  ASSUME NEW b \in Blocks, b # Genesis, NEW v, Sound(v), ConnectBlock(v, b).ok,
         NEW A \in Seq(Txs), NEW hs, UnspentOf(v, A, hs),
         NEW is, Raised(b, hs, is)
  PROVE  /\ UnspentOf(ConnectBlock(v, b).view, A \o Vtx[b], is)
         /\ \A i \in 1 .. Len(Vtx[b]) : \E w : /\ Before(w, A \o Vtx[b], Len(A) + i - 1, Vtx[b][i])
                                              /\ Ripe(w, hs, b, i)
<1> DEFINE n == Len(Vtx[b])
           m == Len(A)
           f(k) == [j \in 1 .. m + k |-> IF j <= m THEN A[j] ELSE Vtx[b][j - m]]
           g(k) == [t \in Txs |-> IF \E j \in 1 .. k : Vtx[b][j] = t THEN Height[b] ELSE hs[t]]
<1>0. /\ n \in Nat /\ DOMAIN Vtx[b] = 1 .. n /\ \A i \in 1 .. n : Vtx[b][i] \in Txs
      /\ \A i, j \in 1 .. n : Vtx[b][i] = Vtx[b][j] => i = j
      /\ m \in Nat /\ Height[b] \in Nat
  BY BlockTxs, HeightDef
<1>1. PICK r : /\ Connects(r, v, b)
               /\ ConnectBlock(v, b).ok = (r[n].ok /\ MayPay(b, r[n].fees))
               /\ ConnectBlock(v, b).view = r[n].view
  BY ConnectBlockIs
<1>2. r[n].ok
  BY <1>1
<1>3. /\ \A i \in 1 .. n : TxValid(r, b, i)
      /\ \A i \in 0 .. n : BlockState(r[i])
      /\ r[0].view = v
  <2>1. \A i \in 1 .. n : TxValid(r, b, i)
    BY <1>1, <1>2, ValidBlock
  <2>2. \A i \in 0 .. n : BlockState(r[i])
    BY <1>1, ConnectsStates
  <2>3. r[0] = [ok |-> Bip30(v, b), view |-> v, undo |-> <<>>, fees |-> 0]
    BY <1>1, ConnectsStep
  <2> QED BY <2>1, <2>2, <2>3
<1> DEFINE P(k) == UnspentOf(r[k].view, f(k), g(k))
           S == {k \in 0 .. n : P(k)}
<1>4. P(0)
  <2>1. A = [j \in 1 .. m |-> A[j]]
    OBVIOUS
  <2>2. f(0) = A
    BY <1>0, <2>1
  <2>3. \A t \in Txs : g(0)[t] = hs[t]
    OBVIOUS
  <2> HIDE DEF f, g
  <2> QED BY <1>3, <2>2, <2>3 DEF UnspentOf, EntryOf
<1>5. ASSUME NEW k \in 0 .. n - 1, P(k)
      PROVE  P(k + 1)
  <2> DEFINE e == k + 1
             x == Vtx[b][e]
  <2>1. e \in 1 .. n /\ e - 1 = k /\ m + k \in Nat /\ m + e = (m + k) + 1 /\ k \in 0 .. n
    BY <1>0
  <2>2. DOMAIN f(k) = 1 .. m + k /\ DOMAIN f(e) = 1 .. (m + k) + 1
    BY <2>1
  <2>3. \A j \in 1 .. m + k : f(e)[j] = f(k)[j]
    BY <1>0, <2>1
  <2>4. f(e)[(m + k) + 1] = x
    <3>1. (m + k) + 1 \in 1 .. m + e /\ ~((m + k) + 1 <= m) /\ ((m + k) + 1) - m = e
      BY <1>0
    <3> QED BY <3>1
  <2>5. g(e)[x] = Height[b] /\ \A t \in Txs \ {x} : g(e)[t] = g(k)[t]
    <3>1. x \in Txs /\ e \in 1 .. e
      BY <1>0, <2>1
    <3>2. ASSUME NEW t \in Txs \ {x}
          PROVE  (\E j \in 1 .. e : Vtx[b][j] = t) <=> (\E j \in 1 .. k : Vtx[b][j] = t)
      <4>1. \A j \in 1 .. e : j = e \/ j \in 1 .. k
        OBVIOUS
      <4>2. \A j \in 1 .. k : j \in 1 .. e
        OBVIOUS
      <4> QED BY <3>2, <4>1, <4>2
    <3> QED BY <3>1, <3>2
  <2> HIDE DEF f, g, e
  <2>6. TxValid(r, b, e) /\ BlockState(r[k]) /\ x \in Txs
    BY <1>0, <1>3, <2>1
  <2>7. r[e].view = Updated(r[k].view, x, Height[b]) /\ r[k].view \in View
    BY <2>1, <2>6 DEF TxValid, BlockState, Sound
  <2>8. UnspentOf(r[k].view, f(k), g(k))
    BY <1>5
  <2> HIDE DEF x
  <2>9. UnspentOf(Updated(r[k].view, x, Height[b]), f(e), g(e))
    <3>1. OneMore(f(k), f(e), x)
      <4> DEFINE q == m + k
      <4>1. q \in Nat /\ m + e = q + 1
        BY <2>1
      <4>2. /\ DOMAIN f(k) = 1 .. q /\ DOMAIN f(e) = 1 .. q + 1
            /\ \A j \in 1 .. q : f(e)[j] = f(k)[j]
            /\ f(e)[q + 1] = x
        BY <2>2, <2>3, <2>4
      <4> HIDE DEF q
      <4> QED BY <4>1, <4>2 DEF OneMore
    <3>2. OneMoved(g(k), g(e), x, Height[b])
      BY <2>5 DEF OneMoved
    <3> QED BY <1>0, <2>6, <2>7, <2>8, <3>1, <3>2, UnspentUpdated
  <2> QED BY <2>7, <2>9 DEF e
<1>6. \A k \in 0 .. n : P(k)
  <2> HIDE DEF P
  <2>1. 0 \in S
    BY <1>0, <1>4
  <2>2. \A k \in 0 .. n - 1 : k \in S => k + 1 \in S
    BY <1>0, <1>5
  <2>3. \A k \in 0 .. n : k \in S
    <3> HIDE DEF S
    <3> QED BY <1>0, <2>1, <2>2, Summing!UpTo
  <2> QED BY <2>3
<1>7. f(n) = A \o Vtx[b]
  <2>1. Vtx[b] \in Seq(Txs)
    BY BlockAssumption
  <2> QED BY <1>0, <2>1
<1>8. \A t \in Txs : g(n)[t] = is[t]
  <2>1. \A t \in Txs : t \in ToSet(Vtx[b]) <=> \E j \in 1 .. n : Vtx[b][j] = t
    BY <1>0 DEF ToSet
  <2> QED BY <2>1 DEF Raised
<1>9. ASSUME NEW i \in 1 .. n
      PROVE  Before(r[i - 1].view, A \o Vtx[b], m + i - 1, Vtx[b][i]) /\ Ripe(r[i - 1].view, hs, b, i)
  <2> DEFINE k == i - 1
             s == A \o Vtx[b]
  <2>1. k \in 0 .. n /\ m + i - 1 = m + k /\ m + k \in Nat /\ m + k <= m + n
    BY <1>0
  <2>2. s = f(n)
    BY <1>7
  <2>3. DOMAIN f(k) = 1 .. m + k /\ \A j \in 1 .. m + k : f(k)[j] = f(n)[j]
    BY <1>0, <2>1
  <2>4. UnspentOf(r[k].view, f(k), g(k))
    BY <1>6, <2>1
  <2>5. HaveInputs(r[k].view, Vtx[b][i])
    BY <1>3 DEF TxValid
  <2>a. i # 1 => CheckInputs(r[k].view, Vtx[b][i], Height[b])
    BY <1>3 DEF TxValid
  <2>b. \A t \in Txs : g(k)[t] = IF \E j \in 1 .. i - 1 : Vtx[b][j] = t THEN Height[b] ELSE hs[t]
    OBVIOUS
  <2> HIDE DEF f, g, k, s
  <2>6. Before(r[k].view, s, m + k, Vtx[b][i])
    BY <2>2, <2>3, <2>4, <2>5 DEF Before
  <2>7. Ripe(r[k].view, hs, b, i)
    BY <2>4, <2>a, <2>b DEF Ripe
  <2> QED BY <2>1, <2>6, <2>7 DEF k, s
<1>10. P(n)
  <2>1. n \in 0 .. n
    BY <1>0
  <2> HIDE DEF P
  <2> QED BY <1>6, <2>1
<1> HIDE DEF f, g
<1>11. UnspentOf(ConnectBlock(v, b).view, A \o Vtx[b], is)
  BY <1>1, <1>7, <1>8, <1>10 DEF UnspentOf, EntryOf
<1> QED BY <1>9, <1>11

\* Along a chain.
LEMMA UtxoAtIsUnspent ==
  ASSUME NEW b \in Blocks, Valid(b)
  PROVE  UnspentOf(UtxoAt[b], AllTxs[b], [t \in Txs |-> HeightOf(t, b)])
<1> DEFINE hs(c) == [t \in Txs |-> HeightOf(t, c)]
           P(c) == Valid(c) => UnspentOf(UtxoAt[c], AllTxs[c], hs(c))
           S == {c \in Blocks : P(c)}
<1>1. ASSUME NEW c \in Blocks, c = Genesis \/ Prev[c] \in S
      PROVE  P(c)
  <2>1. CASE c = Genesis
    <3>1. UtxoAt[c] = [t \in Txs |-> Null] /\ AllTxs[c] = <<>>
      BY <2>1, UtxoAtDef, AllTxsDef
    <3>2. \A t \in Txs : UnspentIn(t, AllTxs[c]) = {} /\ ~Live(UtxoAt[c][t])
      BY <3>1, NothingUnspent DEF Live
    <3> QED BY <3>2 DEF UnspentOf, EntryOf
  <2>2. CASE c # Genesis
    <3> SUFFICES ASSUME Valid(c) PROVE UnspentOf(UtxoAt[c], AllTxs[c], hs(c))
      OBVIOUS
    <3> DEFINE v == UtxoAt[Prev[c]]
               w == ConnectBlock(v, c).view
    <3>1. Prev[c] \in Blocks /\ Chain[c] = {c} \cup Chain[Prev[c]] /\ Prev[c] \in S
      BY <1>1, <2>2, ChainOfPrev
    <3>2. Valid(Prev[c]) /\ ConnectBlock(v, c).ok
      BY <2>2, <3>1 DEF Valid, Connects1
    <3>3. UnspentOf(v, AllTxs[Prev[c]], hs(Prev[c]))
      BY <3>1, <3>2
    <3>4. /\ Sound(v) /\ AllTxs[Prev[c]] \in Seq(Txs)
          /\ AllTxs[c] = AllTxs[Prev[c]] \o Vtx[c] /\ UtxoAt[c] = Written(w)
      BY <2>2, <3>1, UtxoAtSound, AllTxsDef, UtxoAtDef
    <3>5. Raised(c, hs(Prev[c]), hs(c))
      BY <2>2, HeightOfIs DEF Raised
    <3> HIDE DEF hs
    <3>6. UnspentOf(w, AllTxs[Prev[c]] \o Vtx[c], hs(c))
      <4> HIDE DEF v
      <4> QED BY <2>2, <3>2, <3>3, <3>4, <3>5, UnspentConnected
    <3>7. w \in View
      BY <2>2, <3>4, ConnectBlockSound
    <3> HIDE DEF w
    <3>8. Alike(w, Written(w))
      BY <3>7, WrittenIs
    <3> QED BY <3>4, <3>6, <3>8, UnspentAlike
  <2> QED BY <2>1, <2>2
<1>2. \A c \in Blocks : c \in S
  <2>1. \A c \in Blocks : (c = Genesis \/ Prev[c] \in S) => c \in S
    <3> HIDE DEF P
    <3> QED BY <1>1
  <2> HIDE DEF S
  <2> QED BY <2>1, TreeInduction
<1> QED BY <1>2

\* In the words of CoinsAreUnspent.
LEMMA ViewIsUtxoSet ==
  ASSUME NEW b \in Blocks, Valid(b), NEW v, Alike(v, UtxoAt[b])
  PROVE  IsUtxoSet(v, b)
<1> DEFINE hs == [t \in Txs |-> HeightOf(t, b)]
<1>1. UnspentOf(UtxoAt[b], AllTxs[b], hs) /\ Alike(UtxoAt[b], v)
  BY UtxoAtIsUnspent, AlikeIsAnEquivalence
<1>2. \A t \in Txs : hs[t] = HeightOf(t, b)
  OBVIOUS
<1> HIDE DEF hs
<1>3. UnspentOf(v, AllTxs[b], hs)
  BY <1>1, UnspentAlike
<1>4. \A t : Unspent(t, b) = UnspentIn(t, AllTxs[b])
  BY DEF Unspent, UnspentIn
<1> SUFFICES ASSUME NEW t \in Txs
             PROVE  IF Unspent(t, b) = {} THEN HaveCoins(v, t) => IsPruned(v[t])
                    ELSE v[t] = Entry(t, HeightOf(t, b), Unspent(t, b))
  BY DEF IsUtxoSet, Entry
<1>5. EntryOf(v, AllTxs[b], hs, t)
  BY <1>3 DEF UnspentOf
<1> QED BY <1>2, <1>4, <1>5 DEF EntryOf, Live, HaveCoins, IsPruned

(***************************************************************************)
(* pcoinsTip holds exactly the outputs that the best chain creates and     *)
(* does not spend, and so does the database for its own best block, after  *)
(* any reorganisations, failed ones and restarts.                          *)
(***************************************************************************)
THEOREM CoinsStayUnspent == Spec => []CoinsAreUnspent
<1>1. CoinInv => CoinsAreUnspent
  <2> SUFFICES ASSUME CoinInv PROVE CoinsAreUnspent
    OBVIOUS
  <2>1. /\ tip \in Blocks /\ dbTip \in Blocks /\ Alike(coins, UtxoAt[tip]) /\ db = UtxoAt[dbTip]
        /\ UndoOk(undo) /\ HasUndo(undo, tip) /\ HasUndo(undo, dbTip)
    BY DEF CoinInv
  <2>2. \A b \in Blocks : HasUndo(undo, b) => Valid(b)
    BY <2>1, OnChain DEF HasUndo, UndoOk, Valid
  <2>3. Alike(db, UtxoAt[dbTip])
    BY <2>1, AlikeIsAnEquivalence
  <2> QED BY <2>1, <2>2, <2>3, ViewIsUtxoSet DEF CoinsAreUnspent
<1> QED BY <1>1, CoinInvariant, PTL

-----------------------------------------------------------------------------
(***************************************************************************)
(* Sums over sets: MapThenSumSet, which takes the elements in an order of  *)
(* its own.  A sum is any function of subsets that grows by the value of   *)
(* an element when that is added; a finite set has one.                    *)
(***************************************************************************)
Additive(h, f, S) ==
  /\ h \in [SUBSET S -> Int]
  /\ h[{}] = 0
  /\ \A s \in SUBSET S : \A y \in S \ s : h[s \cup {y}] = h[s] + f[y]

\* One element more.
LEMMA AdditiveStep ==
  ASSUME NEW f, NEW A, NEW x \in A, \A y \in A : f[y] \in Int,
         NEW h, Additive(h, f, A \ {x})
  PROVE  \E g : Additive(g, f, A)
<1> DEFINE g == [s \in SUBSET A |-> IF x \in s THEN h[s \ {x}] + f[x] ELSE h[s]]
<1>0. \A s \in SUBSET (A \ {x}) : h[s] \in Int
  BY DEF Additive
<1>1. g \in [SUBSET A -> Int]
  <2>1. ASSUME NEW s \in SUBSET A
        PROVE  (IF x \in s THEN h[s \ {x}] + f[x] ELSE h[s]) \in Int
    <3>1. CASE x \in s
      <4>1. s \ {x} \in SUBSET (A \ {x}) /\ f[x] \in Int
        OBVIOUS
      <4>2. h[s \ {x}] \in Int
        BY <1>0, <4>1
      <4> QED BY <3>1, <4>1, <4>2
    <3>2. CASE x \notin s
      <4>1. s \in SUBSET (A \ {x})
        BY <3>2
      <4> QED BY <1>0, <3>2, <4>1
    <3> QED BY <3>1, <3>2
  <2> QED BY <2>1
<1>2. g[{}] = 0
  BY DEF Additive
<1>3. ASSUME NEW s \in SUBSET A, NEW y \in A \ s
      PROVE  g[s \cup {y}] = g[s] + f[y]
  <2>1. s \cup {y} \in SUBSET A
    OBVIOUS
  <2>2. CASE y = x
    <3>1. (s \cup {y}) \ {x} = s /\ x \notin s /\ x \in s \cup {y}
      BY <2>2
    <3> QED BY <2>1, <2>2, <3>1
  <2>3. CASE y # x /\ x \in s
    <3>1. (s \cup {y}) \ {x} = (s \ {x}) \cup {y} /\ y \in (A \ {x}) \ (s \ {x})
          /\ s \ {x} \in SUBSET (A \ {x})
      BY <2>3
    <3>2. h[(s \ {x}) \cup {y}] = h[s \ {x}] + f[y]
      BY <3>1 DEF Additive
    <3>3. h[s \ {x}] \in Int /\ f[x] \in Int /\ f[y] \in Int
      BY <1>0, <3>1
    <3>4. g[s \cup {y}] = h[(s \ {x}) \cup {y}] + f[x] /\ g[s] = h[s \ {x}] + f[x]
      BY <2>1, <2>3, <3>1
    <3> HIDE DEF g
    <3> QED BY <3>2, <3>3, <3>4
  <2>4. CASE y # x /\ x \notin s
    <3>1. s \in SUBSET (A \ {x}) /\ y \in (A \ {x}) \ s /\ x \notin s \cup {y}
      BY <2>4
    <3>2. h[s \cup {y}] = h[s] + f[y]
      BY <3>1 DEF Additive
    <3> QED BY <2>1, <2>4, <3>1, <3>2
  <2> QED BY <2>2, <2>3, <2>4
<1> HIDE DEF g
<1>4. Additive(g, f, A)
  BY <1>1, <1>2, <1>3 DEF Additive
<1> QED BY <1>4

\* A finite set has such a function.
LEMMA AdditiveExists ==
  ASSUME NEW f, NEW S, IsFiniteSet(S), \A y \in S : f[y] \in Int
  PROVE  \E h : Additive(h, f, S)
<1> DEFINE n == Cardinality(S)
           P(k) == \A A \in SUBSET S : Cardinality(A) = k => \E h : Additive(h, f, A)
           K == {k \in 0 .. n : P(k)}
<1>0. n \in Nat
  BY FS_CardinalityType
<1> HIDE DEF n
<1>1. P(0)
  <2> SUFFICES ASSUME NEW A \in SUBSET S, Cardinality(A) = 0
               PROVE  \E h : Additive(h, f, A)
    OBVIOUS
  <2>1. IsFiniteSet(A)
    BY FS_Subset
  <2>2. A = {}
    BY <2>1, FS_EmptySet
  <2> DEFINE h == [s \in SUBSET {} |-> 0]
  <2>3. Additive(h, f, {})
    BY DEF Additive
  <2> QED BY <2>2, <2>3
<1>2. ASSUME NEW k \in 0 .. n - 1, P(k)
      PROVE  P(k + 1)
  <2> SUFFICES ASSUME NEW A \in SUBSET S, Cardinality(A) = k + 1
               PROVE  \E h : Additive(h, f, A)
    OBVIOUS
  <2>1. IsFiniteSet(A)
    BY FS_Subset
  <2>2. A # {}
    BY <1>0, <2>1, FS_EmptySet
  <2>3. PICK x \in A : TRUE
    BY <2>2
  <2>4. Cardinality(A \ {x}) = k
    <3>1. Cardinality(A \ {x}) = Cardinality(A) - 1
      BY <2>1, FS_RemoveElement
    <3>2. k \in Int /\ (k + 1) - 1 = k
      BY <1>0
    <3> QED BY <3>1, <3>2
  <2>5. PICK h : Additive(h, f, A \ {x})
    BY <1>2, <2>4
  <2> QED BY <2>5, AdditiveStep
<1>3. 0 \in K /\ \A k \in 0 .. n - 1 : k \in K => k + 1 \in K
  <2> HIDE DEF P
  <2> QED BY <1>0, <1>1, <1>2
<1>4. \A k \in 0 .. n : k \in K
  <2> HIDE DEF K
  <2> QED BY <1>0, <1>3, Summing!UpTo
<1>5. P(n)
  <2> HIDE DEF P
  <2> QED BY <1>0, <1>4
<1> QED BY <1>5 DEF n

\* The sum of the values f[y] of the elements y of S.
SetSum(f, S) ==
  LET iter[s \in SUBSET S] ==
        IF s = {} THEN 0
        ELSE f[CHOOSE x \in s : TRUE] + iter[s \ {CHOOSE x \in s : TRUE}]
  IN  iter[S]

\* ... and it is the sum.
LEMMA SumIsAdditive ==
  ASSUME NEW f, NEW S, IsFiniteSet(S), NEW h, Additive(h, f, S),
         \A y \in S : f[y] \in Int
  PROVE  SetSum(f, S) = h[S]
<1> DEFINE Pick(s) == CHOOSE x \in s : TRUE
           Solves(i) == i = [s \in SUBSET S |->
                               IF s = {} THEN 0 ELSE f[Pick(s)] + i[s \ {Pick(s)}]]
           iter == CHOOSE i : Solves(i)
<1>1. ASSUME NEW s \in SUBSET S, s # {}
      PROVE  /\ Pick(s) \in s /\ s \ {Pick(s)} \in SUBSET S
             /\ h[s] = f[Pick(s)] + h[s \ {Pick(s)}]
  <2>1. Pick(s) \in s
    BY <1>1
  <2> HIDE DEF Pick
  <2>2. s \ {Pick(s)} \in SUBSET S /\ Pick(s) \in S \ (s \ {Pick(s)})
        /\ (s \ {Pick(s)}) \cup {Pick(s)} = s
    BY <2>1
  <2>3. h[s] = h[s \ {Pick(s)}] + f[Pick(s)]
    BY <2>2 DEF Additive
  <2>4. h[s \ {Pick(s)}] \in Int /\ f[Pick(s)] \in Int
    BY <2>2 DEF Additive
  <2> QED BY <2>1, <2>2, <2>3, <2>4
<1>2. SetSum(f, S) = iter[S]
  BY DEF SetSum, Pick
<1> HIDE DEF Pick
<1>3. Solves(h)
  <2>1. \A s \in SUBSET S : h[s] = IF s = {} THEN 0 ELSE f[Pick(s)] + h[s \ {Pick(s)}]
    BY <1>1 DEF Additive
  <2>2. h = [s \in SUBSET S |-> h[s]]
    BY DEF Additive
  <2> QED BY <2>1, <2>2
<1>4. Solves(iter)
  <2> HIDE DEF Solves
  <2> QED BY <1>3
<1> HIDE DEF iter
<1> DEFINE n == Cardinality(S)
           P(k) == \A A \in SUBSET S : Cardinality(A) = k => iter[A] = h[A]
           K == {k \in 0 .. n : P(k)}
<1>5. n \in Nat
  BY FS_CardinalityType
<1> HIDE DEF n
<1>6. P(0)
  <2> SUFFICES ASSUME NEW A \in SUBSET S, Cardinality(A) = 0
               PROVE  iter[A] = h[A]
    OBVIOUS
  <2>1. A = {}
    BY FS_Subset, FS_EmptySet
  <2> QED BY <1>4, <2>1 DEF Additive
<1>7. ASSUME NEW k \in 0 .. n - 1, P(k)
      PROVE  P(k + 1)
  <2> SUFFICES ASSUME NEW A \in SUBSET S, Cardinality(A) = k + 1
               PROVE  iter[A] = h[A]
    OBVIOUS
  <2>1. IsFiniteSet(A)
    BY FS_Subset
  <2>2. A # {}
    BY <1>5, <2>1, FS_EmptySet
  <2>3. /\ Pick(A) \in A /\ A \ {Pick(A)} \in SUBSET S
        /\ h[A] = f[Pick(A)] + h[A \ {Pick(A)}]
    BY <1>1, <2>2
  <2>4. Cardinality(A \ {Pick(A)}) = k
    <3>1. Cardinality(A \ {Pick(A)}) = Cardinality(A) - 1
      BY <2>1, <2>3, FS_RemoveElement
    <3>2. k \in Int /\ (k + 1) - 1 = k
      BY <1>5
    <3> QED BY <3>1, <3>2
  <2>5. iter[A \ {Pick(A)}] = h[A \ {Pick(A)}]
    BY <1>7, <2>3, <2>4
  <2>6. iter[A] = f[Pick(A)] + iter[A \ {Pick(A)}]
    BY <1>4, <2>2
  <2> QED BY <2>3, <2>5, <2>6
<1>8. 0 \in K /\ \A k \in 0 .. n - 1 : k \in K => k + 1 \in K
  <2> HIDE DEF P
  <2> QED BY <1>5, <1>6, <1>7
<1>9. \A k \in 0 .. n : k \in K
  <2> HIDE DEF K
  <2> QED BY <1>5, <1>8, Summing!UpTo
<1>10. P(n)
  <2> HIDE DEF P
  <2> QED BY <1>5, <1>9
<1> QED BY <1>2, <1>10 DEF n

\* The sum of no values, of one more, and of values one of which changes.
LEMMA SumEmpty ==
  ASSUME NEW f
  PROVE  SetSum(f, {}) = 0
<1>1. IsFiniteSet({})
  BY FS_EmptySet
<1>2. PICK h : Additive(h, f, {})
  BY <1>1, AdditiveExists
<1>3. SetSum(f, {}) = h[{}]
  BY <1>1, <1>2, SumIsAdditive
<1> QED BY <1>2, <1>3 DEF Additive

\* One value more.
LEMMA SumAdd ==
  ASSUME NEW f, NEW S, NEW x, IsFiniteSet(S), x \notin S, \A y \in S \cup {x} : f[y] \in Int
  PROVE  /\ SetSum(f, S) \in Int
         /\ SetSum(f, S \cup {x}) = SetSum(f, S) + f[x]
<1>1. IsFiniteSet(S \cup {x})
  BY FS_AddElement
<1>2. PICK h : Additive(h, f, S \cup {x})
  BY <1>1, AdditiveExists
<1> DEFINE q == [s \in SUBSET S |-> h[s]]
<1>3. Additive(q, f, S) /\ q[S] = h[S]
  BY <1>2 DEF Additive
<1> HIDE DEF q
<1>4. SetSum(f, S) = h[S]
  BY <1>3, SumIsAdditive
<1>5. SetSum(f, S \cup {x}) = h[S \cup {x}]
  BY <1>1, <1>2, SumIsAdditive
<1>6. h[S] \in Int /\ h[S \cup {x}] = h[S] + f[x]
  BY <1>2 DEF Additive
<1> QED BY <1>4, <1>5, <1>6

\* The same values.
LEMMA SumAgrees ==
  ASSUME NEW f, NEW g, NEW S, IsFiniteSet(S), \A y \in S : f[y] \in Int /\ g[y] = f[y]
  PROVE  SetSum(f, S) = SetSum(g, S)
<1>1. PICK h : Additive(h, f, S)
  BY AdditiveExists
<1>2. Additive(h, g, S)
  BY <1>1 DEF Additive
<1> QED BY <1>1, <1>2, SumIsAdditive

\* One value changes.
LEMMA SumChanges ==
  ASSUME NEW f, NEW g, NEW S, IsFiniteSet(S), NEW x \in S, \A y \in S : f[y] \in Int /\ g[y] \in Int,
         \A y \in S \ {x} : g[y] = f[y]
  PROVE  /\ SetSum(f, S) \in Int /\ SetSum(g, S) \in Int
         /\ SetSum(g, S) = SetSum(f, S) - f[x] + g[x]
<1> DEFINE R == S \ {x}
<1>1. IsFiniteSet(R) /\ x \notin R /\ R \cup {x} = S /\ \A y \in R : y \in S
  BY FS_Subset
<1>2. \A y \in R : g[y] = f[y]
  OBVIOUS
<1> HIDE DEF R
<1>3. SetSum(f, R) \in Int /\ SetSum(f, S) = SetSum(f, R) + f[x]
  BY <1>1, SumAdd
<1>4. SetSum(g, R) \in Int /\ SetSum(g, S) = SetSum(g, R) + g[x]
  BY <1>1, SumAdd
<1>5. SetSum(f, R) = SetSum(g, R)
  BY <1>1, <1>2, SumAgrees
<1>6. f[x] \in Int /\ g[x] \in Int
  OBVIOUS
<1> QED BY <1>3, <1>4, <1>5, <1>6

\* A sum of integers is one.
LEMMA SumIsInt ==
  ASSUME NEW f, NEW S, IsFiniteSet(S), \A y \in S : f[y] \in Int
  PROVE  SetSum(f, S) \in Int
<1>1. PICK h : Additive(h, f, S)
  BY AdditiveExists
<1>2. SetSum(f, S) = h[S]
  BY <1>1, SumIsAdditive
<1>3. h[S] \in Int
  BY <1>1 DEF Additive
<1> QED BY <1>2, <1>3

\* The sums a loop over a sequence goes through.
Sums(r, s, n) ==
  /\ r[0] = 0
  /\ \A k \in 1 .. n : r[k] = r[k - 1] + s[k]
  /\ \A k \in 0 .. n : r[k] \in Int

\* SumOf is such a loop.
LEMMA SumRuns ==
  ASSUME NEW n \in Nat, NEW s, DOMAIN s = 1 .. n, \A i \in 1 .. n : s[i] \in Int
  PROVE  \E r : Sums(r, s, n) /\ SumOf(s) = r[n]
<1>1. SumOf(s) = Summing!Left(0, 0, 0, s)
  BY DEF SumOf, SumStep, Summing!Left, FoldLeft, MapThenFoldSet, Max, Summing!Greatest
<1>2. PICK r : Summing!RunsLeft(r, 0, 0, 0, s, n) /\ SumOf(s) = r[n]
  BY <1>1, Summing!LeftRuns
<1>3. r[0] = 0 /\ \A k \in 1 .. n : r[k] = r[k - 1] + s[k]
  BY <1>2 DEF Summing!RunsLeft, SumStep
<1> DEFINE S == {k \in 0 .. n : r[k] \in Int}
<1>4. 0 \in S
  BY <1>3
<1>5. ASSUME NEW k \in 0 .. n - 1, k \in S
      PROVE  k + 1 \in S
  <2>1. k + 1 \in 1 .. n /\ k + 1 \in 0 .. n /\ (k + 1) - 1 = k /\ r[k] \in Int
    BY <1>5
  <2>2. r[k + 1] = r[(k + 1) - 1] + s[k + 1] /\ s[k + 1] \in Int
    BY <1>3, <2>1
  <2>3. r[k + 1] \in Int
    BY <2>1, <2>2
  <2> QED BY <2>1, <2>3
<1>6. \A k \in 0 .. n : k \in S
  <2> HIDE DEF S
  <2> QED BY <1>4, <1>5, Summing!UpTo
<1>7. Sums(r, s, n)
  BY <1>3, <1>6 DEF Sums
<1> QED BY <1>2, <1>7

\* One value more.
LEMMA SumOfNext ==
  ASSUME NEW n \in Nat, NEW f, DOMAIN f = 1 .. n, NEW g, DOMAIN g = 1 .. n + 1,
         \A i \in 1 .. n : f[i] \in Int /\ g[i] = f[i], g[n + 1] \in Int
  PROVE  /\ SumOf(f) \in Int
         /\ SumOf(g) = SumOf(f) + g[n + 1]
<1>0. \A i \in 1 .. n + 1 : i \in 1 .. n \/ i = n + 1
  OBVIOUS
<1>1. PICK r : Sums(r, f, n) /\ SumOf(f) = r[n]
  BY SumRuns
<1>2. PICK q : Sums(q, g, n + 1) /\ SumOf(g) = q[n + 1]
  <2>1. \A i \in 1 .. n + 1 : g[i] \in Int
    BY <1>0
  <2>2. n + 1 \in Nat
    OBVIOUS
  <2> QED BY <2>1, <2>2, SumRuns
<1>3. /\ r[0] = 0 /\ q[0] = 0
      /\ \A k \in 1 .. n : r[k] = r[k - 1] + f[k]
      /\ \A k \in 1 .. n + 1 : q[k] = q[k - 1] + g[k]
      /\ \A k \in 0 .. n : r[k] \in Int
  BY <1>1, <1>2 DEF Sums
<1> DEFINE S == {k \in 0 .. n : r[k] = q[k]}
<1>4. 0 \in S
  BY <1>3
<1>5. ASSUME NEW k \in 0 .. n - 1, k \in S
      PROVE  k + 1 \in S
  <2>1. k + 1 \in 1 .. n /\ k + 1 \in 1 .. n + 1 /\ (k + 1) - 1 = k /\ r[k] = q[k]
    BY <1>5
  <2>2. r[k + 1] = r[k] + f[k + 1] /\ q[k + 1] = q[k] + g[k + 1] /\ g[k + 1] = f[k + 1]
    <3> DEFINE e == k + 1
    <3>1. e \in 1 .. n /\ e \in 1 .. n + 1 /\ e - 1 = k
      BY <2>1
    <3> HIDE DEF e
    <3>2. r[e] = r[k] + f[e] /\ q[e] = q[k] + g[e] /\ g[e] = f[e]
      BY <1>3, <3>1
    <3> QED BY <3>2 DEF e
  <2> QED BY <2>1, <2>2
<1>6. \A k \in 0 .. n : k \in S
  <2> HIDE DEF S
  <2> QED BY <1>4, <1>5, Summing!UpTo
<1>7. r[n] = q[n] /\ n \in 0 .. n
  BY <1>6
<1>8. q[n + 1] = q[n] + g[n + 1]
  <2>1. n + 1 \in 1 .. n + 1 /\ (n + 1) - 1 = n
    OBVIOUS
  <2> DEFINE e == n + 1
  <2> HIDE DEF e
  <2>2. e \in 1 .. e /\ e - 1 = n
    BY <2>1 DEF e
  <2>3. q[e] = q[e - 1] + g[e]
    BY <1>3, <2>2 DEF e
  <2> QED BY <2>2, <2>3 DEF e
<1> QED BY <1>1, <1>2, <1>3, <1>7, <1>8

\* The same sum, over the set of the positions.
LEMMA SumOfPositions ==
  ASSUME NEW n \in Nat, NEW s, DOMAIN s = 1 .. n, \A i \in 1 .. n : s[i] \in Int
  PROVE  SumOf(s) = SetSum(s, 1 .. n)
<1>1. PICK r : Sums(r, s, n) /\ SumOf(s) = r[n]
  BY SumRuns
<1>2. r[0] = 0 /\ \A k \in 1 .. n : r[k] = r[k - 1] + s[k]
  BY <1>1 DEF Sums
<1> DEFINE S == {k \in 0 .. n : r[k] = SetSum(s, 1 .. k)}
<1>3. 0 \in S
  <2>1. 1 .. 0 = {} /\ 0 \in 0 .. n
    OBVIOUS
  <2> QED BY <1>2, <2>1, SumEmpty
<1>4. ASSUME NEW k \in 0 .. n - 1, k \in S
      PROVE  k + 1 \in S
  <2> DEFINE e == k + 1
  <2>1. /\ e \in 1 .. n /\ e \in 0 .. n /\ e - 1 = k /\ e \notin 1 .. k /\ 1 .. e = (1 .. k) \cup {e}
        /\ \A y \in (1 .. k) \cup {e} : y \in 1 .. n
    OBVIOUS
  <2>2. IsFiniteSet(1 .. k)
    BY FS_Interval
  <2> HIDE DEF e
  <2>3. SetSum(s, (1 .. k) \cup {e}) = SetSum(s, 1 .. k) + s[e]
    BY <2>1, <2>2, SumAdd
  <2>4. r[e] = r[k] + s[e] /\ r[k] = SetSum(s, 1 .. k)
    BY <1>2, <1>4, <2>1
  <2>5. r[e] = SetSum(s, 1 .. e)
    BY <2>1, <2>3, <2>4
  <2> QED BY <2>1, <2>5 DEF e
<1>5. \A k \in 0 .. n : k \in S
  <2> HIDE DEF S
  <2> QED BY <1>3, <1>4, Summing!UpTo
<1>6. n \in 0 .. n
  OBVIOUS
<1> QED BY <1>1, <1>5, <1>6

\* A sum of zeros.
LEMMA SumOfZeros ==
  ASSUME NEW f, NEW S, IsFiniteSet(S), \A y \in S : f[y] = 0
  PROVE  SetSum(f, S) = 0
<1> DEFINE h == [s \in SUBSET S |-> 0]
<1>1. Additive(h, f, S)
  BY DEF Additive
<1>2. h[S] = 0
  OBVIOUS
<1>3. \A y \in S : f[y] \in Int
  OBVIOUS
<1> HIDE DEF h
<1> QED BY <1>1, <1>2, <1>3, SumIsAdditive

-----------------------------------------------------------------------------
(***************************************************************************)
(* What a view is worth.                                                   *)
(***************************************************************************)
ValueOf(t, c) == SetSum(Vout[t], IF c # Null THEN c.vout ELSE {})
Value(v) == SetSum([t \in Txs |-> ValueOf(t, v[t])], Txs)

\* The outputs of an entry can be added up.
LEMMA OutputsAdd ==
  ASSUME NEW t \in Txs, NEW X, X \subseteq DOMAIN Vout[t]
  PROVE  IsFiniteSet(X) /\ \A y \in X : Vout[t][y] \in Int
<1>1. Vout[t] \in Seq(Nat)
  BY BlockAssumption
<1> DEFINE n == Len(Vout[t])
<1>2. n \in Nat /\ DOMAIN Vout[t] = 1 .. n /\ \A y \in 1 .. n : Vout[t][y] \in Nat
  BY <1>1
<1> HIDE DEF n
<1>3. IsFiniteSet(1 .. n)
  BY <1>2, FS_Interval
<1>4. IsFiniteSet(X)
  BY <1>2, <1>3, FS_Subset
<1> QED BY <1>2, <1>4

\* An entry without outputs is worth nothing.
LEMMA ValueOfIs ==
  ASSUME NEW v, Sound(v), NEW t \in Txs
  PROVE  /\ ValueOf(t, v[t]) \in Int
         /\ ~Live(v[t]) => ValueOf(t, v[t]) = 0
<1> DEFINE X == IF v[t] # Null THEN v[t].vout ELSE {}
<1>1. X \subseteq DOMAIN Vout[t] /\ (~Live(v[t]) => X = {})
  BY DEF Sound, Live
<1> HIDE DEF X
<1>2. IsFiniteSet(X) /\ \A y \in X : Vout[t][y] \in Int
  BY <1>1, OutputsAdd
<1>3. SetSum(Vout[t], X) \in Int
  BY <1>2, SumIsInt
<1>4. ~Live(v[t]) => SetSum(Vout[t], X) = 0
  BY <1>1, SumEmpty
<1> QED BY <1>3, <1>4 DEF ValueOf, X

\* One entry changes.
LEMMA ValueChanges ==
  ASSUME NEW v, NEW w, Sound(v), Sound(w), NEW t \in Txs, \A p \in Txs \ {t} : w[p] = v[p]
  PROVE  /\ Value(v) \in Int /\ Value(w) \in Int
         /\ Value(w) = Value(v) - ValueOf(t, v[t]) + ValueOf(t, w[t])
<1> DEFINE f == [p \in Txs |-> ValueOf(p, v[p])]
           g == [p \in Txs |-> ValueOf(p, w[p])]
<1>1. \A p \in Txs : f[p] \in Int /\ g[p] \in Int
  BY ValueOfIs
<1>2. \A p \in Txs \ {t} : g[p] = f[p]
  OBVIOUS
<1>3. f[t] = ValueOf(t, v[t]) /\ g[t] = ValueOf(t, w[t])
  OBVIOUS
<1>4. Value(v) = SetSum(f, Txs) /\ Value(w) = SetSum(g, Txs)
  BY DEF Value
<1> HIDE DEF f, g
<1>5. /\ SetSum(f, Txs) \in Int /\ SetSum(g, Txs) \in Int
      /\ SetSum(g, Txs) = SetSum(f, Txs) - f[t] + g[t]
  BY <1>1, <1>2, FiniteAssumption, SumChanges
<1> QED BY <1>3, <1>4, <1>5

\* Views that are alike are worth the same.
LEMMA ValueAlike ==
  ASSUME NEW v, NEW w, Sound(v), Sound(w), Alike(v, w)
  PROVE  Value(v) = Value(w) /\ Value(v) \in Int
<1> DEFINE f == [p \in Txs |-> ValueOf(p, v[p])]
           g == [p \in Txs |-> ValueOf(p, w[p])]
<1>1. ASSUME NEW p \in Txs PROVE f[p] \in Int /\ g[p] = f[p]
  <2>1. /\ ValueOf(p, v[p]) \in Int
        /\ ~Live(v[p]) => ValueOf(p, v[p]) = 0
        /\ ~Live(w[p]) => ValueOf(p, w[p]) = 0
    BY ValueOfIs
  <2>2. Live(v[p]) \/ Live(w[p]) => v[p] = w[p]
    BY DEF Alike
  <2>3. ValueOf(p, w[p]) = ValueOf(p, v[p])
    BY <2>1, <2>2
  <2> QED BY <2>1, <2>3
<1>2. Value(v) = SetSum(f, Txs) /\ Value(w) = SetSum(g, Txs)
  BY DEF Value
<1> HIDE DEF f, g
<1>3. SetSum(f, Txs) = SetSum(g, Txs)
  BY <1>1, FiniteAssumption, SumAgrees
<1>4. SetSum(f, Txs) \in Int
  BY <1>1, FiniteAssumption, SumIsInt
<1> QED BY <1>2, <1>3, <1>4

\* An input takes away what it spends.
LEMMA ValueSpent ==
  ASSUME NEW v, Sound(v), NEW t \in Txs, HaveInputs(v, t), NEW k \in 1 .. Len(Vin[t])
  PROVE  /\ Value(After(v, t, k - 1)) \in Int /\ Vout[From(t, k)][Pos(t, k)] \in Int
         /\ Value(After(v, t, k)) = Value(After(v, t, k - 1)) - Vout[From(t, k)][Pos(t, k)]
<1> DEFINE p == From(t, k)
           x == Pos(t, k)
           a == After(v, t, k - 1)
           z == After(v, t, k)
<1>0. v \in View
  BY DEF Sound
<1>1. Sound(a) /\ Sound(z)
  BY <1>0, AfterIsSound
<1>2. InputSpent(v, t, k)
  BY <1>0, AfterNext
<1>3. /\ p \in Txs /\ a[p] \in Coin /\ a[p] # Null /\ x \in a[p].vout
      /\ z[p] = [fCoinBase |-> a[p].fCoinBase, nHeight |-> a[p].nHeight, vout |-> a[p].vout \ {x}]
      /\ \A q \in Txs \ {p} : z[q] = a[q]
  BY <1>2 DEF InputSpent
<1> HIDE DEF p, x, a, z
<1>4. a[p].vout \subseteq DOMAIN Vout[p] /\ z[p].vout = a[p].vout \ {x} /\ z[p] # Null
  <2>1. Live(a[p])
    BY <1>3 DEF Live
  <2>2. z[p] \in Coin
    BY <1>3 DEF Coin
  <2>3. a[p].vout \subseteq DOMAIN Vout[p]
    BY <1>1, <1>3, <2>1 DEF Sound
  <2>4. z[p].vout = a[p].vout \ {x}
    BY <1>3
  <2> QED BY <2>2, <2>3, <2>4, NullIsNoCoin
<1>5. /\ Value(a) \in Int /\ Value(z) \in Int
      /\ Value(z) = Value(a) - ValueOf(p, a[p]) + ValueOf(p, z[p])
  BY <1>1, <1>3, ValueChanges
<1> DEFINE R == a[p].vout \ {x}
<1>6. R \cup {x} = a[p].vout /\ x \notin R /\ R \cup {x} \subseteq DOMAIN Vout[p] /\ z[p].vout = R
  BY <1>3, <1>4
<1>7. ValueOf(p, a[p]) = SetSum(Vout[p], R \cup {x}) /\ ValueOf(p, z[p]) = SetSum(Vout[p], R)
  BY <1>3, <1>4, <1>6 DEF ValueOf
<1> HIDE DEF R
<1>8. IsFiniteSet(R) /\ \A y \in R \cup {x} : Vout[p][y] \in Int
  BY <1>3, <1>6, OutputsAdd
<1>9. /\ SetSum(Vout[p], R) \in Int
      /\ SetSum(Vout[p], R \cup {x}) = SetSum(Vout[p], R) + Vout[p][x]
  BY <1>6, <1>8, SumAdd
<1>10. Vout[p][x] \in Int
  BY <1>8
<1>11. Value(z) = Value(a) - Vout[p][x]
  BY <1>5, <1>7, <1>9, <1>10
<1> QED BY <1>5, <1>10, <1>11 DEF p, x, a, z

\* A transaction takes its inputs and adds its outputs.
LEMMA ValueUpdated ==
  ASSUME NEW v, Sound(v), NEW t \in Txs, HaveInputs(v, t), ~Live(v[t]), NEW h \in Nat, h # 0
  PROVE  /\ Value(v) \in Int /\ ValueIn(t) \in Int /\ ValueOut(t) \in Int
         /\ t \in Coinbases => ValueIn(t) = 0
         /\ Value(Updated(v, t, h)) = Value(v) - ValueIn(t) + ValueOut(t)
<1> DEFINE n == Len(Vin[t])
           s == [i \in DOMAIN Vin[t] |-> Vout[Vin[t][i][1]][Vin[t][i][2]]]
           V(k) == Value(After(v, t, k))
<1>0. n \in Nat /\ DOMAIN Vin[t] = 1 .. n /\ v \in View /\ (t \in Coinbases <=> n = 0)
  BY TxInputs DEF Sound
<1>1. ASSUME NEW k \in 1 .. n
      PROVE  /\ V(k - 1) \in Int /\ s[k] \in Int
             /\ V(k) = V(k - 1) - s[k]
  <2>1. s[k] = Vout[From(t, k)][Pos(t, k)]
    BY <1>0 DEF From, Pos
  <2> HIDE DEF s
  <2> QED BY <2>1, ValueSpent
<1>2. DOMAIN s = 1 .. n /\ ValueIn(t) = SumOf(s)
  BY <1>0 DEF ValueIn
<1>3. V(0) = Value(v) /\ Value(v) \in Int
  <2>1. Alike(v, v)
    BY AlikeIsAnEquivalence
  <2> QED BY <1>0, <2>1, AfterNone, ValueAlike
<1> HIDE DEF n, s, V
<1>4. PICK r : Sums(r, s, n) /\ SumOf(s) = r[n]
  BY <1>0, <1>1, <1>2, SumRuns
<1>5. /\ r[0] = 0 /\ \A k \in 1 .. n : r[k] = r[k - 1] + s[k]
      /\ \A k \in 0 .. n : r[k] \in Int
  BY <1>4 DEF Sums
<1> DEFINE S == {k \in 0 .. n : V(k) = Value(v) - r[k]}
<1>6. 0 \in S
  BY <1>0, <1>3, <1>5
<1>7. ASSUME NEW k \in 0 .. n - 1, k \in S
      PROVE  k + 1 \in S
  <2> DEFINE e == k + 1
  <2>1. e \in 1 .. n /\ e \in 0 .. n /\ e - 1 = k /\ k \in 0 .. n
    <3>1. n \in Nat
      BY <1>0
    <3> QED BY <3>1
  <2> HIDE DEF e
  <2>2. V(e) = V(k) - s[e] /\ r[e] = r[k] + s[e] /\ s[e] \in Int /\ r[k] \in Int
    <3>1. V(e) = V(e - 1) - s[e] /\ s[e] \in Int
      BY <1>1, <2>1
    <3>2. r[e] = r[e - 1] + s[e]
      BY <1>5, <2>1
    <3>3. r[k] \in Int
      BY <1>5, <2>1
    <3> QED BY <2>1, <3>1, <3>2, <3>3
  <2>3. V(k) = Value(v) - r[k]
    BY <1>7
  <2>4. V(e) = Value(v) - r[e]
    BY <1>3, <2>2, <2>3
  <2> QED BY <2>1, <2>4 DEF e
<1>8. \A k \in 0 .. n : k \in S
  <2> HIDE DEF S
  <2> QED BY <1>0, <1>6, <1>7, Summing!UpTo
<1>9. V(n) = Value(v) - ValueIn(t) /\ ValueIn(t) \in Int /\ (t \in Coinbases => ValueIn(t) = 0)
  BY <1>0, <1>2, <1>4, <1>5, <1>8
<1> DEFINE a == After(v, t, n)
           z == Updated(v, t, h)
           c == CCoins(t, h)
<1>10. Sound(a) /\ ~Live(a[t])
  BY <1>0, AfterIsSound
<1>11. Sound(z) /\ z[t] = c /\ \A p \in Txs \ {t} : z[p] = a[p]
  BY <1>0, UpdatedIs DEF n
<1>12. ValueOf(t, c) = ValueOut(t) /\ ValueOut(t) \in Int
  <2>1. c # Null /\ c.vout = DOMAIN Vout[t]
    BY CCoinsIs DEF Live
  <2> DEFINE l == Len(Vout[t])
  <2>2. l \in Nat /\ DOMAIN Vout[t] = 1 .. l /\ \A i \in 1 .. l : Vout[t][i] \in Int
    <3>1. Vout[t] \in Seq(Nat)
      BY BlockAssumption
    <3> QED BY <3>1
  <2> HIDE DEF l, c
  <2>3. SumOf(Vout[t]) = SetSum(Vout[t], 1 .. l)
    BY <2>2, SumOfPositions
  <2>4. IsFiniteSet(1 .. l)
    BY <2>2, FS_Interval
  <2>5. SetSum(Vout[t], 1 .. l) \in Int
    BY <2>2, <2>4, SumIsInt
  <2> QED BY <2>1, <2>2, <2>3, <2>5 DEF ValueOf, ValueOut
<1>13. V(n) = Value(a)
  BY DEF V
<1> HIDE DEF a, z, c
<1>14. /\ Value(a) \in Int /\ Value(z) = Value(a) - ValueOf(t, a[t]) + ValueOf(t, z[t])
  BY <1>10, <1>11, ValueChanges
<1>15. ValueOf(t, a[t]) = 0 /\ ValueOf(t, z[t]) = ValueOut(t)
  BY <1>10, <1>11, <1>12, ValueOfIs
<1>16. Value(z) = Value(v) - ValueIn(t) + ValueOut(t)
  BY <1>3, <1>9, <1>12, <1>13, <1>14, <1>15
<1> QED BY <1>3, <1>9, <1>12, <1>16 DEF z

(***************************************************************************)
(* The fees that the transactions s pay, and a bound on them and the       *)
(* coins.                                                                  *)
(***************************************************************************)
FeeOf(t) == IF t \in Coinbases THEN 0 ELSE ValueIn(t) - ValueOut(t)
FeesIn(s) == SumOf([i \in DOMAIN s |-> FeeOf(s[i])])

Worth(v, s, x) ==
  /\ \A i \in DOMAIN s : FeeOf(s[i]) \in Int
  /\ Value(v) \in Int /\ FeesIn(s) \in Int
  /\ Value(v) + FeesIn(s) <= x

\* One transaction more.
LEMMA WorthNext ==
  ASSUME NEW v, Sound(v), NEW t \in Txs, HaveInputs(v, t), ~Live(v[t]), NEW h \in Nat, h # 0,
         NEW f, NEW g, OneMore(f, g, t), NEW x \in Int, Worth(v, f, x)
  PROVE  Worth(Updated(v, t, h), g, IF t \in Coinbases THEN x + ValueOut(t) ELSE x)
<1>1. PICK m \in Nat : /\ DOMAIN f = 1 .. m /\ DOMAIN g = 1 .. m + 1
                       /\ \A j \in 1 .. m : g[j] = f[j]
                       /\ g[m + 1] = t
  BY DEF OneMore
<1>2. /\ Value(v) \in Int /\ ValueIn(t) \in Int /\ ValueOut(t) \in Int
      /\ t \in Coinbases => ValueIn(t) = 0
      /\ Value(Updated(v, t, h)) = Value(v) - ValueIn(t) + ValueOut(t)
  BY ValueUpdated
<1>3. FeeOf(t) = (IF t \in Coinbases THEN 0 ELSE ValueIn(t) - ValueOut(t)) /\ FeeOf(t) \in Int
  BY <1>2 DEF FeeOf
<1>4. /\ \A i \in 1 .. m : FeeOf(f[i]) \in Int
      /\ FeesIn(f) \in Int /\ Value(v) + FeesIn(f) <= x
  BY <1>1 DEF Worth
<1> DEFINE fs == [i \in DOMAIN f |-> FeeOf(f[i])]
           gs == [i \in DOMAIN g |-> FeeOf(g[i])]
<1>5. \A i \in 1 .. m + 1 : i \in 1 .. m \/ i = m + 1
  OBVIOUS
<1>6. DOMAIN fs = 1 .. m /\ \A i \in 1 .. m : fs[i] \in Int /\ gs[i] = fs[i]
  <2>1. \A i \in 1 .. m : i \in 1 .. m + 1
    OBVIOUS
  <2> HIDE DEF FeeOf
  <2> QED BY <1>1, <1>4, <2>1
<1>7. DOMAIN gs = 1 .. m + 1 /\ gs[m + 1] = FeeOf(t)
  <2>1. m + 1 \in 1 .. m + 1
    OBVIOUS
  <2> QED BY <1>1, <2>1
<1>8. SumOf(fs) = FeesIn(f) /\ SumOf(gs) = FeesIn(g)
  BY DEF FeesIn
<1>9. \A i \in DOMAIN g : FeeOf(g[i]) \in Int
  BY <1>1, <1>3, <1>4, <1>5
<1> HIDE DEF fs, gs
<1>10. FeesIn(g) = FeesIn(f) + FeeOf(t)
  BY <1>3, <1>6, <1>7, <1>8, SumOfNext
<1> QED BY <1>2, <1>3, <1>4, <1>9, <1>10 DEF Worth

\* A whole block: no more than the reward is added.
LEMMA WorthConnected ==
  ASSUME NEW b \in Blocks, b # Genesis, NEW v, Sound(v), ConnectBlock(v, b).ok,
         NEW A \in Seq(Txs), NEW x \in Int, Worth(v, A, x)
  PROVE  Worth(ConnectBlock(v, b).view, A \o Vtx[b], x + Subsidy)
<1> DEFINE n == Len(Vtx[b])
           m == Len(A)
           f(k) == [j \in 1 .. m + k |-> IF j <= m THEN A[j] ELSE Vtx[b][j - m]]
           y == x + ValueOut(Vtx[b][1])
           g(k) == IF k = 0 THEN x ELSE y
<1>0. /\ n \in Nat /\ n >= 1 /\ DOMAIN Vtx[b] = 1 .. n
      /\ \A i \in 1 .. n : Vtx[b][i] \in Txs /\ (Vtx[b][i] \in Coinbases <=> i = 1)
      /\ m \in Nat /\ Height[b] \in Nat /\ Height[b] # 0 /\ Subsidy \in Nat
  <2>1. Height[b] \in Nat /\ Height[b] # 0
    BY ChainOfPrev
  <2>2. Subsidy \in Nat
    BY BlockAssumption
  <2> QED BY <2>1, <2>2, BlockTxs
<1>1. PICK r : /\ Connects(r, v, b)
               /\ ConnectBlock(v, b).ok = (r[n].ok /\ MayPay(b, r[n].fees))
               /\ ConnectBlock(v, b).view = r[n].view
  BY ConnectBlockIs
<1>2. r[n].ok /\ MayPay(b, r[n].fees)
  BY <1>1
<1>3. /\ \A i \in 1 .. n : TxValid(r, b, i)
      /\ \A i \in 0 .. n : BlockState(r[i])
      /\ r[0].view = v
  <2>1. \A i \in 1 .. n : TxValid(r, b, i)
    BY <1>1, <1>2, ValidBlock
  <2>2. \A i \in 0 .. n : BlockState(r[i])
    BY <1>1, ConnectsStates
  <2>3. r[0] = [ok |-> Bip30(v, b), view |-> v, undo |-> <<>>, fees |-> 0]
    BY <1>1, ConnectsStep
  <2> QED BY <2>1, <2>2, <2>3
<1>4. ValueOut(Vtx[b][1]) \in Nat /\ ValueOut(Vtx[b][1]) <= Subsidy /\ y \in Int
  <2>1. Vtx[b][1] \in Txs
    BY <1>0
  <2> QED BY <1>2, <2>1, ValueOutIsNat DEF MayPay
<1> DEFINE P(k) == Worth(r[k].view, f(k), g(k))
           S == {k \in 0 .. n : P(k)}
<1>5. P(0)
  <2>1. A = [j \in 1 .. m |-> A[j]]
    OBVIOUS
  <2>2. f(0) = A
    BY <1>0, <2>1
  <2>3. g(0) = x
    OBVIOUS
  <2> HIDE DEF f, g
  <2> QED BY <1>3, <2>2, <2>3
<1>6. ASSUME NEW k \in 0 .. n - 1, P(k)
      PROVE  P(k + 1)
  <2> DEFINE e == k + 1
             t == Vtx[b][e]
  <2>1. e \in 1 .. n /\ e - 1 = k /\ m + k \in Nat /\ m + e = (m + k) + 1 /\ k \in 0 .. n /\ k \in Nat
    <3>1. n \in Nat /\ m \in Nat
      BY <1>0
    <3> HIDE DEF n, m
    <3> QED BY <3>1
  <2>2. DOMAIN f(k) = 1 .. m + k /\ DOMAIN f(e) = 1 .. (m + k) + 1
    BY <2>1
  <2>3. \A j \in 1 .. m + k : f(e)[j] = f(k)[j]
    BY <1>0, <2>1
  <2>4. f(e)[(m + k) + 1] = t
    <3>1. (m + k) + 1 \in 1 .. m + e /\ ~((m + k) + 1 <= m) /\ ((m + k) + 1) - m = e
      BY <1>0
    <3> QED BY <3>1
  <2> HIDE DEF f, e
  <2>5. g(k) \in Int /\ g(e) = IF t \in Coinbases THEN g(k) + ValueOut(t) ELSE g(k)
    <3>1. t \in Coinbases <=> e = 1
      BY <1>0, <2>1
    <3>2. e = 1 <=> k = 0
      BY <2>1
    <3>3. e # 0
      BY <2>1
    <3>4. e = 1 => y = x + ValueOut(t)
      OBVIOUS
    <3> HIDE DEF y, t
    <3> QED BY <1>4, <3>1, <3>2, <3>3, <3>4
  <2> HIDE DEF g
  <2>6. TxValid(r, b, e) /\ BlockState(r[k]) /\ t \in Txs
    BY <1>0, <1>3, <2>1
  <2>7. /\ r[e].view = Updated(r[k].view, t, Height[b]) /\ Sound(r[k].view)
        /\ HaveInputs(r[k].view, t) /\ ~Live(r[k].view[t])
    BY <2>1, <2>6 DEF TxValid, BlockState
  <2>8. Worth(r[k].view, f(k), g(k))
    BY <1>6
  <2>9. OneMore(f(k), f(e), t)
    <3> DEFINE q == m + k
    <3>1. q \in Nat /\ m + e = q + 1
      BY <2>1
    <3>2. /\ DOMAIN f(k) = 1 .. q /\ DOMAIN f(e) = 1 .. q + 1
          /\ \A j \in 1 .. q : f(e)[j] = f(k)[j]
          /\ f(e)[q + 1] = t
      BY <2>2, <2>3, <2>4
    <3> HIDE DEF q, t
    <3> QED BY <3>1, <3>2 DEF OneMore
  <2> HIDE DEF t
  <2>10. Worth(Updated(r[k].view, t, Height[b]), f(e), IF t \in Coinbases THEN g(k) + ValueOut(t) ELSE g(k))
    BY <1>0, <2>5, <2>6, <2>7, <2>8, <2>9, WorthNext
  <2> QED BY <2>5, <2>7, <2>10 DEF e
<1>7. P(n)
  <2> HIDE DEF P
  <2>1. 0 \in S
    BY <1>0, <1>5
  <2>2. \A k \in 0 .. n - 1 : k \in S => k + 1 \in S
    BY <1>0, <1>6
  <2>3. \A k \in 0 .. n : k \in S
    <3> HIDE DEF S
    <3> QED BY <1>0, <2>1, <2>2, Summing!UpTo
  <2> QED BY <1>0, <2>3
<1>8. f(n) = A \o Vtx[b]
  <2>1. Vtx[b] \in Seq(Txs)
    BY BlockAssumption
  <2> QED BY <1>0, <2>1
<1>9. g(n) = y /\ y <= x + Subsidy
  BY <1>0, <1>4
<1> HIDE DEF f, g, y
<1>10. Worth(r[n].view, A \o Vtx[b], y)
  BY <1>7, <1>8, <1>9
<1>11. \A X, Y : Worth(X, Y, y) => Worth(X, Y, x + Subsidy)
  <2>1. y \in Int /\ Subsidy \in Int
    BY <1>0, <1>4
  <2> QED BY <1>9, <2>1 DEF Worth
<1>12. Worth(r[n].view, A \o Vtx[b], x + Subsidy)
  BY <1>10, <1>11
<1> QED BY <1>1, <1>12

\* Along a chain.
LEMMA UtxoAtWorth ==
  ASSUME NEW b \in Blocks, Valid(b)
  PROVE  Worth(UtxoAt[b], AllTxs[b], Height[b] * Subsidy)
<1> DEFINE P(c) == Valid(c) => Worth(UtxoAt[c], AllTxs[c], Height[c] * Subsidy)
           S == {c \in Blocks : P(c)}
<1>0. Subsidy \in Nat
  BY BlockAssumption
<1>1. ASSUME NEW c \in Blocks, c = Genesis \/ Prev[c] \in S
      PROVE  P(c)
  <2>1. CASE c = Genesis
    <3>1. UtxoAt[c] = [t \in Txs |-> Null] /\ AllTxs[c] = <<>> /\ Height[c] = 0
      BY <2>1, UtxoAtDef, AllTxsDef, HeightDef
    <3> DEFINE f == [t \in Txs |-> ValueOf(t, UtxoAt[c][t])]
    <3>2. \A t \in Txs : f[t] = 0
      <4>1. Sound(UtxoAt[c]) /\ \A t \in Txs : ~Live(UtxoAt[c][t])
        BY <3>1, UtxoAtSound DEF Live
      <4> QED BY <4>1, ValueOfIs
    <3>3. Value(UtxoAt[c]) = SetSum(f, Txs)
      BY DEF Value
    <3> HIDE DEF f
    <3>4. SetSum(f, Txs) = 0
      BY <3>2, FiniteAssumption, SumOfZeros
    <3>5. FeesIn(AllTxs[c]) = 0
      <4> DEFINE s == [i \in DOMAIN AllTxs[c] |-> FeeOf(AllTxs[c][i])]
      <4>1. DOMAIN s = 1 .. 0 /\ 1 .. 0 = {} /\ \A i \in 1 .. 0 : s[i] \in Int
        BY <3>1
      <4>2. FeesIn(AllTxs[c]) = SumOf(s)
        BY DEF FeesIn
      <4> HIDE DEF s
      <4>3. SumOf(s) = SetSum(s, 1 .. 0)
        BY <4>1, SumOfPositions
      <4> QED BY <4>1, <4>2, <4>3, SumEmpty
    <3>6. \A i \in DOMAIN AllTxs[c] : FeeOf(AllTxs[c][i]) \in Int
      BY <3>1
    <3> QED BY <1>0, <3>1, <3>3, <3>4, <3>5, <3>6 DEF Worth
  <2>2. CASE c # Genesis
    <3> SUFFICES ASSUME Valid(c) PROVE Worth(UtxoAt[c], AllTxs[c], Height[c] * Subsidy)
      OBVIOUS
    <3> DEFINE v == UtxoAt[Prev[c]]
               w == ConnectBlock(v, c).view
               h == Height[Prev[c]]
    <3>1. Prev[c] \in Blocks /\ Chain[c] = {c} \cup Chain[Prev[c]] /\ Prev[c] \in S
      BY <1>1, <2>2, ChainOfPrev
    <3>2. Valid(Prev[c]) /\ ConnectBlock(v, c).ok
      BY <2>2, <3>1 DEF Valid, Connects1
    <3>3. Worth(v, AllTxs[Prev[c]], h * Subsidy)
      BY <3>1, <3>2
    <3>4. /\ Sound(v) /\ AllTxs[Prev[c]] \in Seq(Txs)
          /\ AllTxs[c] = AllTxs[Prev[c]] \o Vtx[c] /\ UtxoAt[c] = Written(w)
      BY <2>2, <3>1, UtxoAtSound, AllTxsDef, UtxoAtDef
    <3>5. h \in Nat /\ Height[c] = h + 1
      BY <2>2, <3>1, HeightDef
    <3>6. h * Subsidy \in Int /\ h * Subsidy + Subsidy = Height[c] * Subsidy
      <4> HIDE DEF h
      <4> DEFINE S0 == Subsidy
      <4>1. S0 \in Nat
        BY <1>0
      <4> HIDE DEF S0
      <4>2. h * S0 \in Int /\ h * S0 + S0 = (h + 1) * S0
        BY <3>5, <4>1
      <4> QED BY <3>5, <4>2 DEF S0
    <3>7. w \in View /\ Sound(w)
      <4> HIDE DEF v
      <4> QED BY <2>2, <3>4, ConnectBlockSound
    <3>8. Worth(w, AllTxs[c], h * Subsidy + Subsidy)
      <4> HIDE DEF v, h
      <4> QED BY <2>2, <3>2, <3>3, <3>4, <3>6, WorthConnected
    <3> HIDE DEF w
    <3>9. Alike(w, Written(w)) /\ Sound(Written(w))
      BY <3>7, WrittenIs, AlikeIsSound
    <3>10. Value(w) = Value(Written(w))
      BY <3>7, <3>9, ValueAlike
    <3> QED BY <3>4, <3>6, <3>8, <3>10 DEF Worth
  <2> QED BY <2>1, <2>2
<1>2. \A c \in Blocks : c \in S
  <2>1. \A c \in Blocks : (c = Genesis \/ Prev[c] \in S) => c \in S
    <3> HIDE DEF P
    <3> QED BY <1>1
  <2> HIDE DEF S
  <2> QED BY <2>1, TreeInduction
<1> QED BY <1>2

\* CoinsValue is what coins are worth.
LEMMA CoinsValueIs == CoinsValue = Value(coins)
<1> DEFINE W(t) == MapThenSumSet(LAMBDA n : Vout[t][n], IF HaveCoins(coins, t) THEN coins[t].vout ELSE {})
           f == [t \in Txs |-> ValueOf(t, coins[t])]
           Pick(s) == CHOOSE x \in s : TRUE
           P(i) == i = [s \in SUBSET Txs |-> IF s = {} THEN 0 ELSE W(Pick(s)) + i[s \ {Pick(s)}]]
           Q(i) == i = [s \in SUBSET Txs |-> IF s = {} THEN 0 ELSE f[Pick(s)] + i[s \ {Pick(s)}]]
<1>1. \A t \in Txs : W(t) = f[t]
  <2> SUFFICES ASSUME NEW t \in Txs PROVE W(t) = f[t]
    OBVIOUS
  <2> DEFINE X == IF coins[t] # Null THEN coins[t].vout ELSE {}
  <2>1. W(t) = MapThenSumSet(LAMBDA n : Vout[t][n], X)
    BY DEF HaveCoins
  <2>2. f[t] = SetSum(Vout[t], X)
    BY DEF ValueOf
  <2> HIDE DEF X
  <2>3. MapThenSumSet(LAMBDA n : Vout[t][n], X) = SetSum(Vout[t], X)
    BY DEF MapThenSumSet, MapThenFoldSet, SetSum
  <2> QED BY <2>1, <2>2, <2>3
<1>2. CoinsValue = MapThenSumSet(W, Txs)
  BY DEF CoinsValue
<1>3. Value(coins) = SetSum(f, Txs)
  BY DEF Value
<1> HIDE DEF W, f
<1>4. MapThenSumSet(W, Txs) = (CHOOSE i : P(i))[Txs]
  BY DEF MapThenSumSet, MapThenFoldSet
<1>5. SetSum(f, Txs) = (CHOOSE i : Q(i))[Txs]
  BY DEF SetSum
<1>6. \A s \in SUBSET Txs : s # {} => Pick(s) \in Txs
  OBVIOUS
<1>7. \A i : P(i) <=> Q(i)
  <2> HIDE DEF Pick
  <2> QED BY <1>1, <1>6
<1>8. (CHOOSE i : P(i)) = (CHOOSE i : Q(i))
  <2> HIDE DEF P, Q
  <2> QED BY <1>7, Zenon
<1> QED BY <1>2, <1>3, <1>4, <1>5, <1>8

(***************************************************************************)
(* The unspent outputs and all the fees paid on the best chain are         *)
(* together worth no more than the rewards of its blocks: GetBlockValue    *)
(* does not count the fees, and neither a reorganisation nor a duplicate   *)
(* transaction makes money.                                                *)
(***************************************************************************)
THEOREM MoneyIsBounded == Spec => []NoInflation
<1>1. CoinInv => NoInflation
  <2> SUFFICES ASSUME CoinInv PROVE NoInflation
    OBVIOUS
  <2>1. /\ tip \in Blocks /\ coins \in View /\ Alike(coins, UtxoAt[tip])
        /\ UndoOk(undo) /\ HasUndo(undo, tip)
    BY DEF CoinInv
  <2>2. Valid(tip)
    BY <2>1, OnChain DEF HasUndo, UndoOk, Valid
  <2>3. Worth(UtxoAt[tip], AllTxs[tip], Height[tip] * Subsidy)
    BY <2>1, <2>2, UtxoAtWorth
  <2>4. Value(coins) = Value(UtxoAt[tip])
    <3>1. Sound(UtxoAt[tip]) /\ Alike(UtxoAt[tip], coins)
      BY <2>1, UtxoAtSound, AlikeIsAnEquivalence
    <3>2. Sound(coins)
      BY <2>1, <3>1, AlikeIsSound
    <3> QED BY <2>1, <3>1, <3>2, ValueAlike
  <2>5. FeesOn(tip) = FeesIn(AllTxs[tip])
    BY DEF FeesOn, FeesIn, FeeOf
  <2>6. Value(UtxoAt[tip]) + FeesIn(AllTxs[tip]) <= Height[tip] * Subsidy
    BY <2>3 DEF Worth
  <2> QED BY <2>4, <2>5, <2>6, CoinsValueIs DEF NoInflation
<1> QED BY <1>1, CoinInvariant, PTL

-----------------------------------------------------------------------------
(***************************************************************************)
(* No output is spent twice.                                               *)
(***************************************************************************)
\* o is an output that s creates before place i, and that nothing in between spends.
CreatedBefore(o, s, i) ==
  /\ o[2] \in DOMAIN Vout[o[1]]
  /\ \E k \in 1 .. i - 1 : s[k] = o[1] /\ \A j \in k + 1 .. i - 1 : o \notin ToSet(Vin[s[j]])

SpendsOnce(s) == \A i \in 1 .. Len(s) : \A o \in ToSet(Vin[s[i]]) : CreatedBefore(o, s, i)

\* What the inputs of x find in a view are outputs created and not spent.
LEMMA InputsCreated ==
  ASSUME NEW w, NEW s, NEW k \in Nat, NEW x \in Txs, Before(w, s, k, x), NEW o \in ToSet(Vin[x])
  PROVE  CreatedBefore(o, s, k + 1)
<1> DEFINE p == o[1]
           n == o[2]
<1>1. PICK f, hs : UnspentOf(w, f, hs) /\ DOMAIN f = 1 .. k /\ \A j \in 1 .. k : f[j] = s[j]
  BY DEF Before
<1>2. PICK i \in DOMAIN Vin[x] : Vin[x][i] = o
  BY DEF ToSet
<1>3. IsAvailable(w, o)
  BY <1>2 DEF Before, HaveInputs
<1>4. o \in Txs \X Nat
  <2>1. Vin[x] \in Seq(Txs \X Nat)
    BY BlockAssumption
  <2> QED BY <1>2, <2>1
<1>5. p \in Txs /\ o = <<p, n>>
  BY <1>4
<1> HIDE DEF p, n
<1>6. w[p] # Null /\ n \in w[p].vout
  <2>1. w[o[1]] # Null /\ o[2] \in w[o[1]].vout
    BY <1>3 DEF IsAvailable, HaveCoins
  <2> QED BY <2>1 DEF p, n
<1>7. Live(w[p]) /\ EntryOf(w, f, hs, p)
  BY <1>1, <1>5, <1>6 DEF Live, UnspentOf
<1>8. n \in UnspentIn(p, f)
  BY <1>6, <1>7, EntryIs DEF EntryOf
<1>9. n \in DOMAIN Vout[p] /\ \E c \in 1 .. k : LastUnspent(p, n, f, c)
  BY <1>1, <1>8, UnspentInIs
<1>10. PICK c \in 1 .. k : LastUnspent(p, n, f, c)
  BY <1>9
<1>11. s[c] = p /\ \A j \in c + 1 .. k : o \notin ToSet(Vin[s[j]])
  <2>1. f[c] = p /\ \A j \in 1 .. k : j > c => o \notin ToSet(Vin[f[j]])
    BY <1>1, <1>5, <1>10 DEF LastUnspent
  <2>2. \A j \in c + 1 .. k : j \in 1 .. k /\ j > c
    OBVIOUS
  <2> QED BY <1>1, <2>1, <2>2
<1>12. (k + 1) - 1 = k
  OBVIOUS
<1> QED BY <1>9, <1>11, <1>12 DEF CreatedBefore, p, n

\* It depends on what comes before only.
LEMMA CreatedInPrefix ==
  ASSUME NEW o, NEW s, NEW t, NEW i \in Nat, \A j \in 1 .. i - 1 : s[j] = t[j], CreatedBefore(o, s, i)
  PROVE  CreatedBefore(o, t, i)
<1>1. PICK k \in 1 .. i - 1 : s[k] = o[1] /\ \A j \in k + 1 .. i - 1 : o \notin ToSet(Vin[s[j]])
  BY DEF CreatedBefore
<1>2. \A j \in k + 1 .. i - 1 : j \in 1 .. i - 1
  OBVIOUS
<1>3. t[k] = o[1] /\ \A j \in k + 1 .. i - 1 : o \notin ToSet(Vin[t[j]])
  BY <1>1, <1>2
<1> QED BY <1>3 DEF CreatedBefore

\* A chain of blocks that connect.
LEMMA ChainSpendsOnce ==
  ASSUME NEW b \in Blocks, Valid(b)
  PROVE  SpendsOnce(AllTxs[b])
<1> DEFINE P(c) == Valid(c) => SpendsOnce(AllTxs[c])
           S == {c \in Blocks : P(c)}
<1>1. ASSUME NEW c \in Blocks, c = Genesis \/ Prev[c] \in S
      PROVE  P(c)
  <2>1. CASE c = Genesis
    <3>1. AllTxs[c] = <<>>
      BY <2>1, AllTxsDef
    <3>2. Len(<<>>) = 0 /\ 1 .. 0 = {}
      OBVIOUS
    <3> QED BY <3>1, <3>2 DEF SpendsOnce
  <2>2. CASE c # Genesis
    <3> SUFFICES ASSUME Valid(c) PROVE SpendsOnce(AllTxs[c])
      OBVIOUS
    <3> DEFINE v == UtxoAt[Prev[c]]
               A == AllTxs[Prev[c]]
               B == Vtx[c]
               hs == [t \in Txs |-> HeightOf(t, Prev[c])]
               is == [t \in Txs |-> IF t \in ToSet(B) THEN Height[c] ELSE hs[t]]
    <3>1. Prev[c] \in Blocks /\ Chain[c] = {c} \cup Chain[Prev[c]] /\ Prev[c] \in S
      BY <1>1, <2>2, ChainOfPrev
    <3>2. Valid(Prev[c]) /\ ConnectBlock(v, c).ok
      BY <2>2, <3>1 DEF Valid, Connects1
    <3>3. SpendsOnce(A) /\ UnspentOf(v, A, hs)
      BY <3>1, <3>2, UtxoAtIsUnspent
    <3>4. Sound(v) /\ A \in Seq(Txs) /\ AllTxs[c] = A \o B /\ B \in Seq(Txs)
      BY <2>2, <3>1, UtxoAtSound, AllTxsDef, BlockAssumption
    <3>5. Raised(c, hs, is)
      BY DEF Raised
    <3> HIDE DEF hs, is, v, A
    <3>6. \A i \in 1 .. Len(B) : \E w : Before(w, A \o B, Len(A) + i - 1, B[i])
      <4>1. UnspentOf(v, A, hs) /\ Sound(v) /\ ConnectBlock(v, c).ok /\ A \in Seq(Txs)
        BY <3>2, <3>3, <3>4
      <4>2. \A i \in 1 .. Len(Vtx[c]) : \E w : /\ Before(w, A \o Vtx[c], Len(A) + i - 1, Vtx[c][i])
                                               /\ Ripe(w, hs, c, i)
        BY <2>2, <3>5, <4>1, UnspentConnected
      <4> QED BY <4>2
    <3> HIDE DEF B
    <3> DEFINE s == A \o B
    <3>7. /\ Len(A) \in Nat /\ Len(B) \in Nat /\ Len(s) = Len(A) + Len(B)
          /\ \A i \in 1 .. Len(A) : s[i] = A[i]
          /\ \A i \in 1 .. Len(B) : s[Len(A) + i] = B[i] /\ B[i] \in Txs
      BY <3>4
    <3> HIDE DEF s
    <3>8. ASSUME NEW i \in 1 .. Len(s), NEW o \in ToSet(Vin[s[i]])
          PROVE  CreatedBefore(o, s, i)
      <4>1. CASE i <= Len(A)
        <5>1. i \in 1 .. Len(A) /\ i \in Nat /\ \A j \in 1 .. i - 1 : j \in 1 .. Len(A)
          BY <3>7, <4>1
        <5>2. CreatedBefore(o, A, i)
          BY <3>3, <3>7, <3>8, <5>1 DEF SpendsOnce
        <5>3. \A j \in 1 .. i - 1 : A[j] = s[j]
          BY <3>7, <5>1
        <5> QED BY <5>1, <5>2, <5>3, CreatedInPrefix
      <4>2. CASE ~(i <= Len(A))
        <5> DEFINE e == i - Len(A)
                   k == i - 1
        <5>1. e \in 1 .. Len(B) /\ Len(A) + e = i /\ Len(A) + e - 1 = k /\ k \in Nat /\ k + 1 = i
          BY <3>7, <4>2
        <5>2. s[i] = B[e] /\ B[e] \in Txs
          BY <3>7, <5>1
        <5>3. PICK w : Before(w, s, k, B[e])
          BY <3>6, <5>1 DEF s
        <5> HIDE DEF e, k
        <5>4. CreatedBefore(o, s, k + 1)
          BY <3>8, <5>1, <5>2, <5>3, InputsCreated
        <5> QED BY <5>1, <5>4
      <4> QED BY <4>1, <4>2
    <3> QED BY <3>4, <3>8 DEF SpendsOnce, s
  <2> QED BY <2>1, <2>2
<1>2. \A c \in Blocks : c \in S
  <2>1. \A c \in Blocks : (c = Genesis \/ Prev[c] \in S) => c \in S
    <3> HIDE DEF P
    <3> QED BY <1>1
  <2> HIDE DEF S
  <2> QED BY <2>1, TreeInduction
<1> QED BY <1>2

(***************************************************************************)
(* On the best chain no output is spent twice, and none is spent that no   *)
(* transaction before has created, after any reorganisations, failed ones  *)
(* and restarts.                                                           *)
(***************************************************************************)
THEOREM NoDoubleSpend == Spec => []SpendsOnce(AllTxs[tip])
<1>1. CoinInv => SpendsOnce(AllTxs[tip])
  <2> SUFFICES ASSUME CoinInv PROVE SpendsOnce(AllTxs[tip])
    OBVIOUS
  <2>1. tip \in Blocks /\ UndoOk(undo) /\ HasUndo(undo, tip)
    BY DEF CoinInv
  <2>2. Valid(tip)
    BY <2>1, OnChain DEF HasUndo, UndoOk, Valid
  <2> QED BY <2>1, <2>2, ChainSpendsOnce
<1> QED BY <1>1, CoinInvariant, PTL
=============================================================================
