-------------------------------- MODULE Coins --------------------------------
(***************************************************************************)
(* The unspent outputs of the best chain (src/src/main.cpp, main.h and     *)
(* txdb.cpp): what ConnectBlock does to the coins, the undo data it leaves *)
(* behind, how DisconnectBlock uses them, and the two layers the coins are *)
(* kept in, pcoinsTip and the coin database.                               *)
(*                                                                         *)
(* SetBestChain works on a private view under cs_main, so one call is one  *)
(* step.  Which block it is called for is ConnectBestBlock's business      *)
(* (module ChainState); here it is any block higher than the tip whose     *)
(* chain has not failed.                                                   *)
(*                                                                         *)
(* Abstractions.  A script is valid or its block is not among the blocks.  *)
(* A vout vector is the set of the positions that are not null: Cleanup()  *)
(* drops null outputs at the end, so the set determines the vector.        *)
(***************************************************************************)
EXTENDS Integers, Sequences, FiniteSets, SequencesExt

CONSTANTS
  Txs,               \* transactions
  Coinbases,         \* those that are coinbases
  Vin,               \* vin: the outpoints spent, <<transaction, position>>
  Vout,              \* vout: the values
  Blocks,            \* the blocks of this run
  Null,              \* no coins, no undo data
  Genesis,           \* hashGenesisBlock
  Prev,              \* hashPrevBlock
  Vtx,               \* vtx
  Subsidy,           \* GetProofOfWorkReward()
  MinFee,            \* GetMinFee()
  COINBASE_MATURITY,
  CanIBD,            \* IsInitialBlockDownload() may return true
  MaxStops           \* bound: restarts

Height[b \in Blocks] == IF b = Genesis THEN 0 ELSE Height[Prev[b]] + 1
Chain[b \in Blocks] == {b} \cup IF b = Genesis THEN {} ELSE Chain[Prev[b]]

\* What CheckTransaction and CheckBlock have made sure of.
ASSUME BlockAssumption ==
  /\ Coinbases \subseteq Txs /\ Null \notin Blocks
  /\ Genesis \in Blocks /\ \A b \in Blocks \ {Genesis} : Prev[b] \in Blocks
  /\ \A t \in Txs : /\ Vin[t] \in Seq(Txs \X Nat) /\ IsInjective(Vin[t])
                    /\ Vin[t] = <<>> <=> t \in Coinbases
                    /\ Vout[t] \in Seq(Nat) /\ Vout[t] # <<>>
  /\ \A b \in Blocks : /\ Vtx[b] \in Seq(Txs) /\ Vtx[b] # <<>> /\ IsInjective(Vtx[b])
                       /\ \A i \in DOMAIN Vtx[b] : Vtx[b][i] \in Coinbases <=> i = 1
  /\ Subsidy \in Nat /\ MinFee \in Nat /\ COINBASE_MATURITY \in Nat /\ MaxStops \in Nat
  /\ CanIBD \in BOOLEAN

\* A block holds the hash of its predecessor: the walk along hashPrevBlock ends.
ASSUME AcyclicAssumption ==
  \A S \in SUBSET Blocks : S # {} => \E b \in S : b = Genesis \/ Prev[b] \notin S

\* Null is neither coins nor undo data.
ASSUME NullAssumption ==
  /\ Null \notin [fCoinBase : BOOLEAN, nHeight : Nat, vout : SUBSET Nat]
  /\ Null \notin Seq(Seq([nHeight : Nat, fCoinBase : BOOLEAN]))

\* A node meets finitely many transactions: what their coins are worth can be added up.
ASSUME FiniteAssumption == IsFiniteSet(Txs)

VARIABLES
  tip,      \* best block of pcoinsTip
  coins,    \* what pcoinsTip returns for each transaction
  dbTip,    \* best block of the coin database
  db,       \* the coin database
  undo,     \* undo data by block
  failed,   \* blocks marked BLOCK_FAILED_VALID
  supply,   \* nMoneySupply by block
  stops     \* restarts so far

coinVars == <<tip, coins, dbTip, db, undo, failed, supply, stops>>

-----------------------------------------------------------------------------
(***************************************************************************)
(* CCoins.                                                                 *)
(***************************************************************************)
CCoins(t, h) == [fCoinBase |-> t \in Coinbases, nHeight |-> h, vout |-> DOMAIN Vout[t]]
Cleared == [fCoinBase |-> FALSE, nHeight |-> 0, vout |-> {}]
HaveCoins(view, t) == view[t] # Null
IsPruned(c) == c.vout = {}
IsAvailable(view, out) == HaveCoins(view, out[1]) /\ out[2] \in view[out[1]].vout

\* CCoins::Spend: the undo record says where the transaction was when its last
\* output goes.
UndoOf(c, n) == IF c.vout = {n} THEN [nHeight |-> c.nHeight, fCoinBase |-> c.fCoinBase]
                                ELSE [nHeight |-> 0, fCoinBase |-> FALSE]
Spend(c, n) == [c EXCEPT !.vout = @ \ {n}]

\* The opposite, in DisconnectBlock.
Restore(c, n, u) ==
  LET old == IF c = Null THEN Cleared ELSE c
  IN  IF u.nHeight # 0
      THEN [fCoinBase |-> u.fCoinBase, nHeight |-> u.nHeight, vout |-> {n}]
      ELSE [old EXCEPT !.vout = @ \cup {n}]
RestoreClean(c, n, u) ==
  /\ u.nHeight # 0 <=> c = Null \/ IsPruned(c)
  /\ c # Null => n \notin c.vout

-----------------------------------------------------------------------------
(***************************************************************************)
(* Connecting a block.                                                     *)
(***************************************************************************)
SumOf(s) == FoldLeft(LAMBDA x, y : x + y, 0, s)
ValueOut(t) == SumOf(Vout[t])
ValueIn(t) == SumOf([i \in DOMAIN Vin[t] |-> Vout[Vin[t][i][1]][Vin[t][i][2]]])

\* CTransaction::UpdateCoins.
UpdateCoins(view, t, h) ==
  LET spend(s, out) ==
        [view |-> [s.view EXCEPT ![out[1]] = Spend(@, out[2])],
         undo |-> Append(s.undo, UndoOf(s.view[out[1]], out[2]))]
      s == FoldLeft(spend, [view |-> view, undo |-> <<>>], Vin[t])
  IN  [s EXCEPT !.view[t] = CCoins(t, h)]

HaveInputs(view, t) == \A i \in DOMAIN Vin[t] : IsAvailable(view, Vin[t][i])

\* CheckInputs, for a block at height h.
CheckInputs(view, t, h) ==
  /\ HaveInputs(view, t)
  /\ \A i \in DOMAIN Vin[t] :
       LET from == view[Vin[t][i][1]]
       IN  from.fCoinBase => h - from.nHeight >= COINBASE_MATURITY
  /\ ValueIn(t) - ValueOut(t) >= MinFee

Bip30(view, b) ==
  \A i \in DOMAIN Vtx[b] : HaveCoins(view, Vtx[b][i]) => IsPruned(view[Vtx[b][i]])

\* Mutant: the miner may keep the fees.
MayPayFees(b, fees) == ValueOut(Vtx[b][1]) <= Subsidy + fees

\* GetBlockValue, which does not count the fees: they are destroyed.
MayPay(b, fees) == ValueOut(Vtx[b][1]) <= Subsidy

\* CBlock::ConnectBlock: the new view, and the undo data of all but the coinbase.
ConnectBlock(view, b) ==
  LET connect(s, t) ==
        IF t \in Coinbases THEN [s EXCEPT !.view = UpdateCoins(s.view, t, Height[b]).view]
        ELSE IF ~s.ok \/ ~CheckInputs(s.view, t, Height[b]) THEN [s EXCEPT !.ok = FALSE]
        ELSE LET r == UpdateCoins(s.view, t, Height[b])
             IN  [ok |-> TRUE, view |-> r.view, undo |-> Append(s.undo, r.undo),
                  fees |-> s.fees + ValueIn(t) - ValueOut(t)]
      s == FoldLeft(connect, [ok |-> Bip30(view, b), view |-> view, undo |-> <<>>, fees |-> 0], Vtx[b])
  IN  [s EXCEPT !.ok = @ /\ MayPay(b, s.fees)]

-----------------------------------------------------------------------------
(***************************************************************************)
(* CBlock::DisconnectBlock: from the last transaction to the first, remove *)
(* the outputs, then restore the inputs from the last to the first.        *)
(***************************************************************************)
UndoTx(s, t, h, u) ==
  LET restore(j, r) ==
        LET p == Vin[t][j][1]
            n == Vin[t][j][2]
        IN  [clean |-> r.clean /\ RestoreClean(r.view[p], n, u[j]),
             view |-> [r.view EXCEPT ![p] = Restore(@, n, u[j])]]
  IN  FoldRightDomain(restore, Vin[t],
                      [clean |-> s.clean /\ s.view[t] = CCoins(t, h),
                       view |-> [s.view EXCEPT ![t] = Cleared]])

UndoOfTx(b, u, i) == IF i = 1 THEN <<>> ELSE u[i - 1]

\* Mutant: the transactions are undone from the first to the last.
DisconnectBlockForward(view, b, u) ==
  FoldLeftDomain(LAMBDA s, i : UndoTx(s, Vtx[b][i], Height[b], UndoOfTx(b, u, i)),
                 [clean |-> TRUE, view |-> view], Vtx[b])

DisconnectBlock(view, b, u) ==
  FoldRightDomain(LAMBDA i, s : UndoTx(s, Vtx[b][i], Height[b], UndoOfTx(b, u, i)),
                  Vtx[b], [clean |-> TRUE, view |-> view])

-----------------------------------------------------------------------------
Init ==
  /\ tip = Genesis /\ coins = [t \in Txs |-> Null]
  /\ dbTip = Genesis /\ db = [t \in Txs |-> Null]
  /\ undo = [b \in Blocks |-> Null]
  /\ failed = {}
  /\ supply = [b \in Blocks |-> 0]
  /\ stops = 0

(***************************************************************************)
(* SetBestChain(state, pindexNew).                                         *)
(***************************************************************************)
\* The blocks of a branch: vDisconnect, and vConnect once it is reversed.
Downwards(S) ==
  [i \in 1 .. Cardinality(S) |-> CHOOSE b \in S : Cardinality({c \in S : Height[c] > Height[b]}) = i - 1]
Upwards(S) ==
  [i \in 1 .. Cardinality(S) |-> CHOOSE b \in S : Cardinality({c \in S : Height[c] < Height[b]}) = i - 1]

\* The view with the shorter branch disconnected.
Disconnected(new) ==
  LET disconnect(s, b) == LET r == DisconnectBlock(s.view, b, undo[b])
                          IN  [clean |-> s.clean /\ r.clean, view |-> r.view]
  IN  FoldLeft(disconnect, [clean |-> TRUE, view |-> coins], Downwards(Chain[tip] \ Chain[new]))

\* ... and the longer one connected, up to the first block that is invalid.  Undo
\* data already there stay; nMoneySupply counts what the coinbase pays.
Connected(new) ==
  LET connect(s, b) ==
        LET r == ConnectBlock(s.view, b)
        IN  IF s.bad # Null THEN s
            ELSE IF ~r.ok THEN [s EXCEPT !.bad = b]
            ELSE [bad |-> Null, view |-> r.view,
                  undo |-> [s.undo EXCEPT ![b] = IF @ = Null THEN r.undo ELSE @],
                  supply |-> [s.supply EXCEPT ![b] = s.supply[Prev[b]] + ValueOut(Vtx[b][1])]]
  IN  FoldLeft(connect, [bad |-> Null, view |-> Disconnected(new).view, undo |-> undo,
                         supply |-> supply],
               Upwards(Chain[new] \ Chain[tip]))

\* Mutant: a pruned entry is written instead of being erased.
WrittenPruned(view) == view

\* CCoinsViewDB::BatchWrite erases what is spent entirely ...
Written(view) ==
  [t \in Txs |-> IF HaveCoins(view, t) /\ IsPruned(view[t]) THEN Null ELSE view[t]]

\* Mutant: the best block is not written along with the coins.
BatchWriteCoinsOnly(view, b) == db' = Written(view) /\ UNCHANGED dbTip

\* One batch: the coins and their best block.
BatchWrite(view, b) == db' = Written(view) /\ dbTip' = b

SetBestChain(new) ==
  /\ Height[new] > Height[tip]
  /\ Chain[new] \cap failed = {}
  /\ Disconnected(new).clean
  /\ LET r == Connected(new)
     IN  /\ undo' = r.undo /\ supply' = r.supply
         /\ IF r.bad # Null
            THEN /\ failed' = failed \cup {r.bad}
                 /\ UNCHANGED <<tip, coins, dbTip, db>>
            ELSE /\ tip' = new
                 /\ \/ /\ coins' = Written(r.view)       \* pcoinsTip->Flush()
                       /\ BatchWrite(r.view, new)
                    \/ /\ CanIBD                         \* no flush
                       /\ coins' = r.view
                       /\ UNCHANGED <<db, dbTip>>
                 /\ UNCHANGED failed
  /\ UNCHANGED stops

\* The node stops, with Shutdown() or without, and starts again.  LoadBlockIndexGuts
\* does not read nMoneySupply.
Restart ==
  /\ stops < MaxStops
  /\ \/ BatchWrite(coins, tip)
     \/ UNCHANGED <<db, dbTip>>
  /\ coins' = db' /\ tip' = dbTip'
  /\ supply' = [b \in Blocks |-> 0]
  /\ stops' = stops + 1
  /\ UNCHANGED <<undo, failed>>

Next == (\E b \in Blocks : SetBestChain(b)) \/ Restart

Spec == Init /\ [][Next]_coinVars

-----------------------------------------------------------------------------
TypeOK ==
  /\ tip \in Blocks /\ dbTip \in Blocks
  /\ DOMAIN coins = Txs /\ DOMAIN db = Txs
  /\ \A t \in Txs : /\ HaveCoins(coins, t) => coins[t].vout \subseteq DOMAIN Vout[t]
                    /\ HaveCoins(db, t) => db[t].vout # {} /\ db[t].vout \subseteq DOMAIN Vout[t]
  /\ failed \subseteq Blocks
  /\ supply \in [Blocks -> Nat] /\ stops \in 0..MaxStops

\* The transactions of a chain in order.
AllTxs[b \in Blocks] == IF b = Genesis THEN <<>> ELSE AllTxs[Prev[b]] \o Vtx[b]

\* The outputs of t on the chain that ends in b that nothing later on it spends.
Unspent(t, b) ==
  LET s == AllTxs[b]
      here == {i \in DOMAIN s : s[i] = t}
  IN  {n \in DOMAIN Vout[t] : /\ here # {}
                              /\ \A j \in DOMAIN s : j > Max(here) =>
                                   <<t, n>> \notin ToSet(Vin[s[j]])}
HeightOf(t, b) == Max({Height[c] : c \in {d \in Chain[b] \ {Genesis} : t \in ToSet(Vtx[d])}})

IsUtxoSet(view, b) ==
  \A t \in Txs :
    IF Unspent(t, b) = {} THEN HaveCoins(view, t) => IsPruned(view[t])
    ELSE view[t] = [fCoinBase |-> t \in Coinbases, nHeight |-> HeightOf(t, b),
                    vout |-> Unspent(t, b)]

(***************************************************************************)
(* However the tip got where it is, through reorganisations, failed ones   *)
(* and restarts: pcoinsTip holds exactly the outputs that the best chain   *)
(* creates and does not spend, with the right heights, and so does the     *)
(* database for its own best block.                                        *)
(***************************************************************************)
CoinsAreUnspent == IsUtxoSet(coins, tip) /\ IsUtxoSet(db, dbTip)

(***************************************************************************)
(* VerifyDB at its default level finds nothing: the whole chain can be     *)
(* disconnected from pcoinsTip, each block of it cleanly.                  *)
(***************************************************************************)
VerifyDBPasses ==
  LET disconnect(s, b) == LET r == DisconnectBlock(s.view, b, undo[b])
                          IN  [clean |-> s.clean /\ r.clean, view |-> r.view]
  IN  FoldLeft(disconnect, [clean |-> TRUE, view |-> coins], Downwards(Chain[tip] \ {Genesis})).clean

CoinsValue ==
  MapThenSumSet(LAMBDA t : MapThenSumSet(LAMBDA n : Vout[t][n],
                                         IF HaveCoins(coins, t) THEN coins[t].vout ELSE {}), Txs)

FeesOn(b) == SumOf([i \in DOMAIN AllTxs[b] |->
                     IF AllTxs[b][i] \in Coinbases THEN 0
                     ELSE ValueIn(AllTxs[b][i]) - ValueOut(AllTxs[b][i])])

(***************************************************************************)
(* No coinbase may claim fees: the unspent outputs and all the fees ever   *)
(* paid on the best chain are together worth no more than the rewards of   *)
(* its blocks, and duplicate transactions create no money either.          *)
(***************************************************************************)
NoInflation == CoinsValue + FeesOn(tip) <= Height[tip] * Subsidy
=============================================================================
