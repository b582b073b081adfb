------------------------------- MODULE MemPool -------------------------------
(***************************************************************************)
(* The memory pool and the orphan transactions (src/src/main.cpp): what    *)
(* the "tx" message, a user's own transaction, a change of the best chain  *)
(* and a restart do to them.                                               *)
(*                                                                         *)
(* All of these hold cs_main, so each is one step, but for SetBestChain:   *)
(* the transactions it takes back and deletes are one step each, and while *)
(* there are any left nothing else happens.                                *)
(*                                                                         *)
(* A transaction that CheckTransaction or a script check refuses is not    *)
(* among Txs, and every block is above the last checkpoint.                *)
(***************************************************************************)
EXTENDS Coins

CONSTANTS
  NonStandard,   \* transactions IsStandard() refuses
  LowFee,        \* those refused when fLimitFree is set
  Large,         \* those AddOrphanTx() ignores
  Wallet,        \* the wallet's own
  MaxReorg,      \* bound: blocks disconnected at a time
  MAX_ORPHAN_TRANSACTIONS

ASSUME PoolAssumption ==
  /\ NonStandard \subseteq Txs /\ LowFee \subseteq Txs /\ Large \subseteq Txs
  /\ Wallet \subseteq Txs \ Coinbases
  /\ MAX_ORPHAN_TRANSACTIONS \in Nat
  /\ MaxReorg \in Nat /\ MaxReorg < COINBASE_MATURITY

VARIABLES
  pool,        \* mapTx, and next: mapNextTx, from outpoints to transactions
  orphans,     \* mapOrphanTransactions
  vResurrect,  \* SetBestChain's lists, empty when it is not running,
  vDelete,
  done         \* and how many of them it has dealt with

poolVars == <<coinVars, pool, orphans, vResurrect, vDelete, done>>
lists == <<vResurrect, vDelete, done>>

Idle == vResurrect = <<>> /\ vDelete = <<>>

MEMPOOL_HEIGHT == 2147483647
Inputs(t) == ToSet(Vin[t])
Parents(t) == {out[1] : out \in Inputs(t)}

-----------------------------------------------------------------------------
(***************************************************************************)
(* CTxMemPool.                                                             *)
(***************************************************************************)
\* CCoinsViewMemPool: the coins come before the pool, even those spent entirely.
PoolView(p, view) ==
  [t \in Txs |-> IF HaveCoins(view, t) THEN view[t]
                 ELSE IF t \in p.mapTx THEN CCoins(t, MEMPOOL_HEIGHT) ELSE Null]

\* Mutant: no look at mapNextTx.
AcceptableInConflict(p, t) == t \notin Coinbases \cup NonStandard /\ t \notin p.mapTx

\* The checks that do not need the inputs.
Acceptable(p, t) ==
  /\ t \notin Coinbases \cup NonStandard
  /\ t \notin p.mapTx
  /\ Inputs(t) \cap DOMAIN p.next = {}

\* CTxMemPool::accept with fCheckInputs, on top of block b.
Accept(p, view, b, t) ==
  LET v == PoolView(p, view)
  IN  IF ~Acceptable(p, t) \/ HaveCoins(v, t) THEN "no"
      ELSE IF \E x \in Parents(t) : ~HaveCoins(v, x) THEN "missing"
      ELSE IF CheckInputs(v, t, Height[b] + 1) THEN "ok" ELSE "no"

\* addUnchecked
Add(p, t) ==
  [mapTx |-> p.mapTx \cup {t},
   next |-> [out \in DOMAIN p.next \cup Inputs(t) |-> IF out \in Inputs(t) THEN t ELSE p.next[out]]]

\* Those of S that are in the pool go.
Without(p, S) ==
  LET gone == UNION {Inputs(t) : t \in S \cap p.mapTx}
  IN  [mapTx |-> p.mapTx \ S,
       next |-> [out \in DOMAIN p.next \ gone |-> p.next[out]]]

\* The transactions of the pool that spend an output of t, and so on.
Descendants(p, t) ==
  LET Spenders(x) == {p.next[out] : out \in {o \in DOMAIN p.next : o[1] = x}}
      Closed(C) == Spenders(t) \subseteq C /\ \A x \in C : Spenders(x) \subseteq C
  IN  {x \in p.mapTx : \A C \in SUBSET p.mapTx : Closed(C) => x \in C}

\* remove(tx)
RemoveTx(p, t) == Without(p, {t})

\* Mutant: the spenders of its outputs stay.
RemoveShallow(p, t) == Without(p, {t})

\* remove(tx, true)
RemoveRecursive(p, t) == Without(p, {t} \cup Descendants(p, t))

ConflictsOf(p, t) == {p.next[out] : out \in Inputs(t) \cap DOMAIN p.next} \ {t}
RemoveConflicts(p, t) ==
  Without(p, UNION {{c} \cup Descendants(p, c) : c \in ConflictsOf(p, t)})

-----------------------------------------------------------------------------
PoolInit ==
  /\ Init
  /\ pool = [mapTx |-> {}, next |-> [out \in {} |-> Null]]
  /\ orphans = {}
  /\ vResurrect = <<>> /\ vDelete = <<>> /\ done = 0

\* The orphan loop of the "tx" message retries the transaction that has just been
\* accepted, not the orphan.  It is in the pool, so the retry is refused and the
\* work queue of the loop does not grow.
Retried(t, o) == t

\* The orphans that leave: t, and each that waits for t unless its retry misses inputs.
Resolved(p, t) ==
  {t} \cup {o \in orphans : t \in Parents(o) /\ Accept(p, coins, tip, Retried(t, o)) # "missing"}

\* A "tx" message, accepted.
TxAccepted(t) ==
  /\ Idle
  /\ t \notin LowFee
  /\ Accept(pool, coins, tip, t) = "ok"
  /\ pool' = Add(pool, t)
  /\ orphans' = orphans \ Resolved(Add(pool, t), t)
  /\ UNCHANGED <<coinVars, lists>>

\* Mutant: nothing is evicted.
EvictNone(S) == {S}

\* LimitOrphanTxSize: random orphans go until the limit is met.
Evict(S) ==
  IF Cardinality(S) <= MAX_ORPHAN_TRANSACTIONS THEN {S}
  ELSE {R \in SUBSET S : Cardinality(R) = MAX_ORPHAN_TRANSACTIONS}

\* A "tx" message whose inputs are missing.
TxOrphaned(t) ==
  /\ Idle
  /\ Accept(pool, coins, tip, t) = "missing"
  /\ orphans' \in Evict(orphans \cup ({t} \ Large))
  /\ UNCHANGED <<coinVars, lists, pool>>

\* sendrawtransaction and CommitTransaction: no fee limit, no look at the orphans.
SendTx(t) ==
  /\ Idle
  /\ Accept(pool, coins, tip, t) = "ok"
  /\ pool' = Add(pool, t)
  /\ UNCHANGED <<coinVars, lists, orphans>>

\* ReacceptWalletTransactions, for one of them (at start-up it does not hold cs_main):
\* AcceptWalletTransaction(false) does not check inputs.
ReacceptWalletTransaction(t) ==
  /\ Idle
  /\ t \in Wallet
  /\ ~HaveCoins(coins, t) /\ t \notin ToSet(AllTxs[tip])
  /\ Acceptable(pool, t)
  /\ pool' = Add(pool, t)
  /\ UNCHANGED <<coinVars, lists, orphans>>

-----------------------------------------------------------------------------
(***************************************************************************)
(* SetBestChain, once the coins have moved: the transactions of the        *)
(* disconnected blocks come back, from the tip down, then those of the     *)
(* connected ones go, with all that conflicts with them.                   *)
(***************************************************************************)
TxsOf(blocks) == FoldLeft(LAMBDA s, b : s \o Vtx[b], <<>>, blocks)
NotCoinbases(txs) == FoldLeft(LAMBDA s, tx : IF tx \in Coinbases THEN s ELSE Append(s, tx), <<>>, txs)

NewBestChain(new) ==
  /\ Idle
  /\ Cardinality(Chain[tip] \ Chain[new]) <= MaxReorg
  /\ SetBestChain(new)
  /\ IF tip' # new THEN UNCHANGED <<vResurrect, vDelete>>
     ELSE /\ vResurrect' = NotCoinbases(TxsOf(Downwards(Chain[tip] \ Chain[new])))
          /\ vDelete' = TxsOf(Upwards(Chain[new] \ Chain[tip]))
  /\ UNCHANGED <<pool, orphans, done>>

\* AcceptToMemoryPool(stateDummy, true, false), or mempool.remove(tx, true).
ResurrectTx ==
  /\ done < Len(vResurrect)
  /\ LET tx == vResurrect[done + 1]
     IN  pool' = IF Accept(pool, coins, tip, tx) = "ok" THEN Add(pool, tx)
                                                       ELSE RemoveRecursive(pool, tx)
  /\ done' = done + 1
  /\ UNCHANGED <<coinVars, orphans, vResurrect, vDelete>>

\* Mutant: what the block contains stays in the pool.
DeletedConflictsOnly(p, t) == RemoveConflicts(p, t)

Deleted(p, t) == RemoveConflicts(RemoveTx(p, t), t)

\* mempool.remove(tx) and mempool.removeConflicts(tx); after the last one, return.
DeleteTx ==
  /\ ~Idle /\ done >= Len(vResurrect)
  /\ pool' = Deleted(pool, vDelete[done - Len(vResurrect) + 1])
  /\ IF done + 1 < Len(vResurrect) + Len(vDelete)
     THEN done' = done + 1 /\ UNCHANGED <<vResurrect, vDelete>>
     ELSE done' = 0 /\ vResurrect' = <<>> /\ vDelete' = <<>>
  /\ UNCHANGED <<coinVars, orphans>>

\* Neither the pool nor the orphans are on disk.
PoolRestart ==
  /\ Idle
  /\ Restart
  /\ pool' = [mapTx |-> {}, next |-> [out \in {} |-> Null]]
  /\ orphans' = {}
  /\ UNCHANGED lists

PoolNext ==
  \/ \E t \in Txs : TxAccepted(t) \/ TxOrphaned(t) \/ SendTx(t) \/ ReacceptWalletTransaction(t)
  \/ \E b \in Blocks : NewBestChain(b)
  \/ ResurrectTx \/ DeleteTx
  \/ PoolRestart

PoolSpec == PoolInit /\ [][PoolNext]_poolVars

-----------------------------------------------------------------------------
PoolTypeOK ==
  /\ pool.mapTx \subseteq Txs \ Coinbases
  /\ DOMAIN pool.next \subseteq Txs \X Nat
  /\ \A out \in DOMAIN pool.next : pool.next[out] \in pool.mapTx
  /\ orphans \subseteq Txs \ Coinbases
  /\ Cardinality(orphans) <= MAX_ORPHAN_TRANSACTIONS
  /\ vResurrect \in Seq(Txs \ Coinbases) /\ vDelete \in Seq(Txs)
  /\ IF Idle THEN done = 0 ELSE done \in 0 .. Len(vResurrect) + Len(vDelete) - 1

Exact(p) ==
  /\ DOMAIN p.next = UNION {Inputs(t) : t \in p.mapTx}
  /\ \A t \in p.mapTx : \A out \in Inputs(t) : p.next[out] = t

(***************************************************************************)
(* mapNextTx is exactly the map from the outputs the pool spends to their  *)
(* spenders: no two transactions of the pool spend the same output, and    *)
(* no entry outlives its transaction.                                      *)
(***************************************************************************)
NextTxExact == Exact(pool)

\* The pool without what came in unchecked, and what spends it.
CheckedPool == pool.mapTx \ (Wallet \cup UNION {Descendants(pool, t) : t \in Wallet})

(***************************************************************************)
(* Every input of a transaction of the pool is an unspent output of the    *)
(* best chain or an output of another transaction of the pool, whatever    *)
(* blocks have come and gone: CreateNewBlock can take all of the pool but  *)
(* the wallet's own, which are put back without a look at their inputs.    *)
(***************************************************************************)
PoolSpendable ==
  Idle => \A t \in CheckedPool : \A out \in Inputs(t) :
    IsAvailable(coins, out) \/ (out[1] \in CheckedPool /\ out[2] \in DOMAIN Vout[out[1]])

\* No coinbase comes twice on the chain of b.  Nothing enforces it: IsSuperMajority()
\* never asks for the height in the coinbase, and BIP30 lets a coinbase come again
\* whose outputs are all spent.
CoinbasesDiffer(b) ==
  \A i, j \in 1 .. Len(AllTxs[b]) :
    AllTxs[b][i] = AllTxs[b][j] /\ AllTxs[b][i] \in Coinbases => i = j

(***************************************************************************)
(* As long as no coinbase comes twice on the best chain, no transaction is *)
(* both there and in the pool, whatever has been disconnected, put back    *)
(* and mined meanwhile.  (A coinbase that comes again brings outputs back  *)
(* that are spent, and accept() takes what has spent them a second time.)  *)
(***************************************************************************)
PoolNotConfirmed ==
  Idle /\ CoinbasesDiffer(tip) => pool.mapTx \cap ToSet(AllTxs[tip]) = {}

(***************************************************************************)
(* "Recursively process any orphan transactions that depended on this      *)
(* one": an orphan whose inputs are all there once t is accepted goes to   *)
(* the pool, and is not forgotten.                                         *)
(***************************************************************************)
OrphansResolved ==
  [][\A o \in orphans :
       (Idle /\ o \notin LowFee /\ pool'.mapTx # pool.mapTx /\ stops' = stops
          /\ Accept(pool', coins, tip, o) = "ok") => o \in pool'.mapTx \cup orphans']_poolVars
=============================================================================
