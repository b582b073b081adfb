# A TLA+ model of the Manna node

Manna is a peer-to-peer currency: a fork of Bitcoin 0.8 with Peercoin code in it.
This directory holds TLA+ modules that model the node's core, the TLC configurations
that check them on small instances, and TLAPS proofs for instances of any size.

The model follows the default build of `codecoin.pro` (`BRAND_manna`): proof of work
only, `PPCOINSTAKE` and `SYNC_CHECKPOINTS` not defined. Paths below are relative to
the repository's `src/` directory.

## 1. Inventory

| Part | State | Operations | Hard behaviour |
|---|---|---|---|
| script check queue, `checkqueue.h` | `queue`, `nIdle`, `nTotal`, `fAllOk`, `nTodo`, `fQuit`, two condition variables | `Add`, `Wait`, `Loop` of N workers and the master, `CCheckQueueControl` | lost wake-ups, reports that race `Wait`, interruption at shutdown |
| block tree and best chain, `main.cpp` | `mapBlockIndex`, `setBlockIndexValid`, `pnext`, `pindexBest`, `mapOrphanBlocks`; blk and rev files, block tree database | `ProcessBlock`, `AcceptBlock`, `AddToBlockIndex`, `ConnectBestBlock`, `SetBestChain`, `LoadBlockIndexDB`, `VerifyDB`, `Shutdown` | order of arrival, failed reorganisations, crashes and power losses between four stores |
| coins and undo data, `main.cpp`, `main.h`, `txdb.cpp`, `undo.cpp` | `pcoinsTip` over the coin database, undo records, `nMoneySupply` | `UpdateCoins`, `CheckInputs`, `ConnectBlock`, `DisconnectBlock`, `Flush`, `BatchWrite` | undo in exact reverse order, duplicate coinbases, pruned entries in the cache, restart from an older tip |
| memory pool and orphan transactions, `main.cpp` | `mapTx`, `mapNextTx`, `mapOrphanTransactions` | `accept`, `addUnchecked`, `remove`, `removeConflicts`, `"tx"`, `sendrawtransaction`, re-acceptance of wallet transactions | reorganisations, conflicts with descendants, orphans, eviction |
| peer address manager, `addrman.cpp` | `mapInfo`, `mapAddr`, `vRandom`, tried and new buckets, reference counts | `Add_`, `Good_`, `MakeTried`, `ShrinkNew`, `SelectTried`, `GetAddr_`, serialisation | redundant indexes that must agree, full buckets |
| connections and messages, `net.cpp`, `net.h`, `main.cpp` | `vNodes`, reference counts, send and receive queues, `mapAskFor`, outbound semaphore | socket, open-connection and message threads, `SendMessages`, `ProcessGetData`, `getblocks`/`inv` | node deletion while in use, retries, synchronisation with a silent peer |
| wallet and key pool, `wallet.cpp`, `walletdb.cpp`, `db.cpp` | `mapWallet`, spent flags, `setKeyPool`, Berkeley DB handles | `CommitTransaction`, `AddToWallet`, `ReserveKeyFromKeyPool`, `EncryptWallet` | keys reserved and returned across threads and restarts, partial failures |
| difficulty, rewards, fees, `manna.cpp`, `main.cpp` | none | retargeting, `GetProofOfWorkReward`, `ComputeMinWork`, `GetMinFee` | boundaries and integer widths |
| compression and merkle trees, `main.cpp`, `main.h` | none | `CompressAmount`, the `CCoins` bit mask, `CPartialMerkleTree` | round trips |
| bounded containers, `mruset.h`, `limitedmap.h`, `util.h` | two views of one set | `insert`, `erase`, `update`, `CMedianFilter` | behaviour at the limit |
| miner, `main.cpp`, `rpcmining.cpp` | block template | `CreateNewBlock`, `CheckWork`, `getblocktemplate` | stale template |
| checkpoints, alerts | constants; `mapAlerts` | `CheckHardened`; `ProcessAlert` | small |
| script interpreter and signatures, proof of stake, RPC, network addresses, GUI, vendored code | | | not modelled, see section 8 |

How the parts meet. The message thread, the RPC threads, the miner and the import
thread call `ProcessBlock` and `AcceptToMemoryPool` under `cs_main`.
`SetBestChain` connects blocks on a private view over `pcoinsTip`, hands the script
checks of each block to the check queue, and on success changes the memory pool and
notifies the wallets. Stopping the node flushes `pcoinsTip`; starting it reads the
block tree, takes the best block from the coin database and calls `ConnectBestBlock`.

What makes each part right, in one sentence:

* check queue: `Wait` returns the conjunction of all verdicts, not before it is
  known, and always returns;
* block tree: after any history the best chain is the valid chain of most trust among
  what the node has, and what is on disk can be started from;
* coins: `pcoinsTip` is the set of outputs the best chain creates and does not spend,
  and undo data lead back to every earlier state;
* memory pool: `mapNextTx` mirrors `mapTx`, and the pool fits on top of the best chain;
* address manager: the redundant tables agree as `Check_` says, stay within their
  bounds and survive a restart;
* connections: a node is freed once, after its last use, and gives its slot back; nodes
  that are connected end with the same chain;
* wallet: no key is handed out twice, no coin is spent twice by this wallet.

`PROJECT.json` lists, under "hazards", the places in the code where these can go
wrong in ways that tests hardly reach.

## 2. Plan

Done:

1. `CheckQueue`, `CheckQueueProofs`.
2. `ChainState`, with the abstract specification `BestChain` it implements, and
   `ChainStateProofs`.
3. `Coins`, with `CoinsProofs`; `RecursionProofs` has the facts about folds it needs.
4. `MemPool` (extends `Coins`), with `MemPoolProofs`.
5. `AddrMan`, with `AddrManProofs`.
6. `Nodes`: the life of a `CNode` and the outbound slots, with `NodesProofs`;
   `BlockSync`: nodes that fetch each other's blocks.
7. `KeyPool`, with `KeyPoolProofs`.

To come, in this order:

* `SyncTypeOK` of `BlockSync`, whose folds and sorted sets ask for the same treatment as
  those of `Coins`.
* The spent flags of the wallet (`CommitTransaction`, `AddToWallet`).
* Compression, rewards, fees and difficulty as operators against reference definitions.
* `limitedmap` and `CMedianFilter`, and a property of `SelectTried`.
* The miner's template over `MemPool` and `ChainState`.

## 3. Modules

A comment above each definition says what it stands for; `PROJECT.json` maps each one
to its lines. Operators whose comment begins with "Mutant" are deliberate mistakes
that no action uses: each property is known to fail when one of them takes the place
of the definition that follows it.

### CheckQueue

`pc[t]` is the place of a worker or the master inside `Loop`, or of the master inside
`CCheckQueueControl`; `mutex` is `mutex`; the two condition variables are sets of
sleeping threads, `notify_one` wakes any one of them, and a thread may wake without
being notified. `batch[t]` is `vChecks`, `Bad` the checks whose `operator()` returns
false. `InterruptAll` is `threadGroup.interrupt_all()`: a worker inside `wait()`
leaves the loop by an exception. The unlocked reads of `nTotal` and `nIdle` in
`CCheckQueueControl` are two separate steps.

### ChainState

Everything from `ProcessBlock` to `SetBestChain` holds `cs_main`, so one program
counter is enough. A step ends where something has reached the disk:

| `pc` | next |
|---|---|
| `idle` | `ReceiveOrphan`, `ReceiveBlock` |
| `index` | `AddToBlockIndex` |
| `best` | `ConnectBestBlock`: `NothingToDo`, `MarkFailedChild`, `ChooseAttach` |
| `switch` | `SetBestChain`: `Disconnect`, `DisconnectFails` |
| `connect` | `ConnectBlock`, `ConnectInvalid`, `ConnectUnreadable`, `ConnectNoSpace`, then `Commit` or `CommitNoSpace` |
| `orphans` | `ProcessOrphan`, `OrphansDone` |
| `down` | `Start` |
| `corrupt` | nothing: `VerifyDB` has asked for `-reindex` |

The disk is the blk and rev files (`data`, `undo`, and which of them are committed),
the block tree and the coin database. A process crash loses memory. A power loss also
loses any suffix of the unsynchronised leveldb log of each database and any subset of
the uncommitted file contents; this is all that is assumed of leveldb and of the
operating system, and these definitions are marked external. At a first start the code
commits nothing; a start that finds no index is a first start again, so the genesis
block counts as committed from `Init` on.

After a power loss in the initial download, or with a full disk, the coin database can be
ahead of the block tree; the next start then takes it for empty, or goes on from below its
coins. `stale` remembers the blocks whose coins are in there unknown. The code judges by
the coins it finds, so from then on (`Doubtful`) a transaction that is already there
(BIP30), an input that should not be there and one that is missing can turn every verdict
either way: `ConnectBlock` may take an invalid block and refuse a valid one, anywhere in
the tree, and `DisconnectBlock` and `VerifyDB` may find undo data that do not fit.

A coins view is represented by the block it stands for; module `Coins` shows that this
is sound.

### BestChain

What all of the above promises to the rest of the node: a best block (`pindexBest`),
the best blocks that can be in the coin database after a stop, and whether the node
runs. While it runs, the best block only moves to one of more trust that ends a valid
chain; a stop may lose what was not committed; a start goes on from something that was
written. `ChainState!ImplementsBestChain` maps its variables to these three
(`pindexBest`, `coinsOld`, `Running`): every step of a reorganisation but the commit is
a stutter, crashes and shutdowns are `Stop`, and a start that ends in `corrupt` is a
`Start` of a node that stays down. With stale coins the promise cannot be kept, since an
invalid block may be taken. `ChainState!MovesAsBestChain` is what remains: the same
specification, with the blocks `AcceptBlock` lets in for the valid ones.

### Coins

`coins` is what `pcoinsTip` returns, `db` the coin database, both total functions from
transactions to `CCoins` or `Null`. `vout` vectors are sets of non-null positions
(`Cleanup` makes the vector a function of the set). `SetBestChain(new)` is one step: it
works on a private view. Whether the new view is flushed to the database is free during
the initial download. Positions start at 1.

`CheckInputs` keeps presence, maturity and fee; scripts are left to `CheckQueue`, and
values are small enough for `MoneyRange`. `MayPay` has the fees as a parameter that it
does not use, as `GetSeigniorage` does.

Three assumptions are there for the proofs, and hold of the code. `AcyclicAssumption`: a
block holds the hash of its predecessor, so every set of blocks has one whose predecessor
is not in it. `NullAssumption`: `Null` is neither an entry nor undo data.
`FiniteAssumption`: there are finitely many transactions, so their values can be added.

### MemPool

Extends `Coins`. `pool.mapTx` and `pool.next` are `mapTx` and `mapNextTx`;
`SetBestChain`'s lists `vResurrect` and `vDelete` are variables, and each of their
elements is one step. `Descendants` is the closure that the recursion of
`remove(tx, true)` reaches. `Retried(t, o)` is the transaction that the orphan loop of
the `tx` message passes to `AcceptToMemoryPool`.
`PoolAssumption` keeps reorganisations below `COINBASE_MATURITY` (500 in the code): in
deeper ones a spend of a disconnected coinbase stays in the pool.

A coinbase may come twice on a chain: BIP30 refuses it only while an output of the first
copy is unspent, and the rule that makes coinbases differ by their height asks
`IsSuperMajority`, which returns false for this brand (`main.cpp:2442`). `PoolNotConfirmed`
therefore has `CoinbasesDiffer(tip)` as its antecedent, which speaks of the best chain of
the moment and assumes nothing of the blocks: once a coinbase has come twice there, what
spent its first copy can be accepted again although it is mined. The instance has such a
chain.

### AddrMan

One variable, the `CAddrMan` object as a record, since every operation holds
`CAddrMan::cs`. `Add_` and `Good_` are the actions that move entries; `ShrinkNew`,
`SelectTried` and `MakeTried` return the set of their possible results, one for each
outcome of `GetRandInt`. `mapAddr` is keyed by address, entries have a port too, and
`Good_` ignores another port. Which entry `ShrinkNew` takes depends on time stamps and
attempts that are not modelled, and is free; so are the early returns of `Add_` that
depend on time or chance. `Restart` is a clean stop, which dumps the object, and a start:
`Unserialize(Serialize(am))`. After a crash a start finds the dump of up to 15 minutes
before; the file is replaced by a rename, so that is a whole earlier object, and all that
holds in every state holds after it. `TriedNeverDeleted` compares a state with the next
one and does not speak of this step back, which forgets what has been added or promoted
since. The bucket functions
(hashes with a secret key) are constants, `nKey` being in the file.

### Nodes

`vNodes` and `vNodesDisconnected` are sets of objects; an object that is in neither has
been deleted and can be reused by `new`. `node[n]` has the fields the threads share.
Both long-running threads work on a copy of `vNodes` with a reference to each node:
`sockCopy` and `msgCopy`. A dialer goes through `Dial` (takes the slot), `CheckPasses`
(`FindNode`), `ConnectNode` (the node becomes visible), `MoveTo` (the slot moves into the
node), `MarkNetworkNode` (the reference made by `ConnectNode` now belongs to `vNodes`)
and, for a one-shot, `MarkOneShot`. Between these steps the other threads see what has
been written so far. Any node may be closed at any time while a thread works on it.

`ConnectNode` first looks for an existing connection: `FindExisting` finds one that has come
up since `CheckPasses`, and `FindNode` gives `cs_vNodes` back before the dialer has a
reference. `pnode->AddRef()` is then a read and a write of `nRefCount` without a lock
(`AddRefReads`, `AddRefWrites`). If the node is deleted before the write, or another thread
changes the count between the two, the program has no defined behaviour any more: `raced`
says so, and the model ends there (`Undefined`). The safety properties hold as long as
`raced` is false. A connection that is found in time gets the slot by `MoveTo`, which gives
the slot it had back, and a reference that nobody ever releases.

### KeyPool

`setKeyPool` is in memory, `pool` is the set of `pool` records in `wallet.dat`; a
`CReserveKey` has an index and a key. `cs_wallet` makes every operation one step.
`Restart` loads every record, and with it the keys that were only reserved.
`overwritten`, `used` and `reused` are history: they record that a top-up or
`EncryptWallet` wrote over a record whose index was reserved, and which keys were kept
once and more than once. `EncryptWallet` with its `NewKeyPool` is one step: a crash inside it
leaves records fewer than the keys, which the next top-up makes good.

### BlockSync

`link[n][m]` is the `CNode` that `n` has for `m`, `chan[n][m]` the messages on their way.
One action is one message handled or one round of `SendMessages`. `known` is the
`mruset` `setInventoryKnown` with its queue; `due` and `later` are the parts of
`mapAskFor` whose time has come and has not: time is not counted, so a request that was
put off becomes due at any moment, in the order in which the blocks were first asked
for. A locator names the block it was made from, and `Rest` is what `getblocks` walks
over. `ProcessBlock` is one step, with orphans and the announcement of each new best
block. `Reconnect` may happen at any time; it loses what was on its way and makes new
`CNode`s on both sides, while `mapAlreadyAskedFor`, which belongs to the node and not to the
connection, remembers the requests. `news` is history: whether a block has been found, at a
moment when the nodes had nothing to say, since the last connection broke.

## 4. Runs

Twelve runs; `PROJECT.json` says in a sentence what each one shows.

| Run | Instance | Why it is enough |
|---|---|---|
| `checkqueue` | 2 workers, master, 3 checks (1 bad), batches of 2 | two workers race each other and the master; a batch can be full, partial and last |
| `chain` | 7 blocks, two branches that overtake each other twice, an invalid block with a child, two blk files, 1 stop with power loss | a reorganisation in both directions, a failed one, every order of arrival |
| `chain_crash` | 7 blocks with unequal trust and a tie, an unacceptable and an invalid block, initial download, 2 stops | a stop during recovery from a stop |
| `chain_torn` | 5 blocks, one unacceptable and one invalid with a child, initial download, power loss, full disk, 2 stops | a small tree, since a power loss multiplies states, with a reorganisation to an invalid block, which stale coins let through |
| `coins` | 13 blocks, 11 transactions, 1 restart, flushed or not | double spends on both branches, a coinbase that appears twice on a chain, an overpaid, a premature and an immature block |
| `mempool` | 10 blocks, 6 transactions and the coinbases, 1 orphan slot, reorganisations of 2 blocks | chains of three transactions with rivals for two of them; a coinbase that comes again once it is spent |
| `mempool_orphans` | as `mempool` | violation |
| `addrman` | 4 addresses (one with a second port), 2 sources, 2 new buckets of 1, 1 tried bucket of 2, 4 ids between starts | with 4 addresses an entry can be evicted from the full tried bucket while its own new bucket is full; all `nLastSuccess` are equal, which decides only between results of `SelectTried` |
| `nodes` | 2 objects, 1 peer, 2 dialers, 1 outbound and 1 inbound slot | two dialers compete for the slot, and one finds the connection of the other; an object is deleted and used again while a thread still holds an older copy of the list |
| `keypool` | 3 holders, pool of 1 (so 2 after a top-up), 7 keys | a pool drained by two holders while a third asks; encryption, locking and restarts with keys reserved |
| `keypool_locked` | as `keypool` | violation, in 8 states |
| `sync` | 2 nodes, a main chain of 4 blocks that grows to 6 and a branch of 1 that grows to 2, batches of 2, 4 known hashes, 2 broken connections | the fetched part is longer than a batch, so `hashContinue` is used; 2 to 4 is the ratio of 500 to 1000 in the code; the new node starts on the branch; the branch can become as long as a batch, and a stall after a broken connection can be followed by a block |

Named bounds: `MaxFile` (blk files), `MaxStops` (stops of the node), `MaxReorg`,
`MaxIds` (entries created by the address manager between two starts), `Objects` (memory
for nodes), `MaxKeys` (keys generated), `MaxDrops` (connections that break) and
`MaxFound` (blocks found while the nodes are at work; at rest any that is left may be
found). `addrman` uses the symmetry of the three addresses that have one port,
`keypool` that of the holders.
Deadlock is checked for the check queue and for `nodes`. The other models may stop:
there are finitely many blocks, transactions and keys, and a corrupt node waits for its
user.

What `NoStall` and `Synced` say needs a word: there are two stalls in the code, and both
properties name them as exceptions. The instance reaches both: without either exception
TLC finds `NoStall` violated.

* `Cut`. After a broken connection a batch may be announced again whose last block the
  peer is known to have already; it is left out of the `inv`, nobody asks for it, and
  `hashContinue` waits for that request. The next block that is found when the nodes are at
  rest ends this, because it arrives as an orphan or as an `inv` that makes the node ask
  again. So the exception lasts from the break to that block.
* `LongSideChain`. A node on a branch as long as a batch gets an `inv` of blocks it has.
  The rule for this case ("in case we are on a very long side-chain", `main.cpp:3764`) asks
  for the next batch from the last of them, once; the same request is filtered out the
  next time. The exception applies once such a branch has been overtaken.

`Synced` says that the exchange comes to an end, whatever breaks, and in which states. It
does not rely on blocks being found.

### What the violations show

* `mempool_orphans`: the orphan loop retries `tx` instead of `orphanTx`.
* `keypool_locked`: a pool whose last key was reserved while the wallet was locked is
  numbered from 1 again after unlocking. If the reserved key has index 1, its record is
  overwritten, two holders have the same index, and the new key is used twice.

### Other disagreements met while modelling

These were seen in the models or while writing them; no run is kept for them.

* The unlocked assertion `nTotal == nIdle` in `CCheckQueueControl` can fail while the
  queue is unused: a worker that was woken too late, or is only starting, changes the two
  counters one after the other.
* `Shutdown()` writes the coins without committing block files or block tree, which in
  the initial download nothing else has committed; `CoinsAreBacked` is therefore checked
  outside the initial download, and `chain_torn` shows what a start makes of the rest.
* `nMoneySupply` is stored and not read back, so `getinfo` counts from zero after a
  restart.
* Disconnected transactions are put back child before parent, so the child is refused.
* The dialer of a one-shot writes `fOneShot` after `fNetworkNode` has given up its
  reference: the node may be deleted by then. `HeldNodesAlive` covers a dialer up to
  `fNetworkNode`.
* A node that is closed before its dialer has set `fNetworkNode`, and every node of
  `addnode onetry`, keeps a reference that nobody releases. `ClosedIsDeleted` leaves
  them out.
* A node on a side chain as long as a batch of `getblocks` can stop fetching for good,
  against the comment at `main.cpp:3764`: the request that would continue is filtered as a
  duplicate. This is the exception `LongSideChain` of the properties of `sync`; a batch has
  500 blocks in the code.
* After a broken connection a node can wait for a batch that nobody will announce, until the
  next block is found: the exception `Cut`.
* `ConnectNode` takes its reference to an existing connection after `cs_vNodes` is released
  (`net.cpp:467`): the node may be deleted by then. The reference is never released either,
  so such a connection is not deleted once it is closed, and keeps the slot that `MoveTo`
  may give it afterwards. `ClosedIsDeleted` leaves it out, and `SlotsConserved` counts its
  slot as held.
* A coinbase whose outputs are spent may come again, since `IsSuperMajority` is always false
  for this brand; after that the pool accepts transactions that are already mined.
* After a power loss in the initial download, a start treats the coin database as empty
  although the coins are there, and judges blocks by these coins (`chain_torn`).

Smaller ones: `ProcessOneShot` loses a one-shot when no slot is free (`net.cpp:1238`); at the limit a
socket from an `addnode` peer is neither closed nor used (`net.cpp:930`); the list walk of
`ThreadOpenAddedConnections` decrements `begin()` after erasing the first element
(`net.cpp:1392`); `limitedmap` keeps one entry fewer than its limit (`limitedmap.h:35`);
`mapOrphanTransactionsByPrev` collects empty sets (`main.cpp:3899`); `nTransactionFee` is an
integer initialised with 0.01 (`main.cpp:75`); `AcceptWalletTransaction` puts parents into
the pool under an inverted condition (`main.cpp:968`).

## 5. Fairness

* `CheckQueue!FairSpec`: weak fairness of every thread's own steps outside the mutex,
  and strong fairness of its taking the mutex: a runnable thread that keeps asking for a
  mutex that others keep releasing gets it in the end. Nothing is assumed of spurious
  wake-ups or of the interruption.
* `ChainState!FairSpec`: weak fairness of the thread that holds `cs_main` (and of
  starting a node that is down), and of the delivery of each block the node does not
  have: peers announce blocks again, and `getblocks` asks for them. Crashes need no
  fairness; their number is bounded.
* `Nodes!FairSpec`: weak fairness of the socket thread, of the message thread and of each
  dialer that has begun. They block on nothing but `cs_vNodes`, which is never held
  while waiting. Nothing is assumed of new dials, of accepted connections or of closing.
* `BlockSync!FairSpec`: weak fairness of the message threads and the clock together; which
  thread goes first is free. Nothing is assumed of blocks being found or of connections
  breaking.

## 6. Proofs

`CheckQueueProofs` proves, for every set of workers, every finite set of checks and
every batch size, that the specification keeps `IInv`, and with it `TypeOK`,
`TodoCountsOutstanding`, `WaitIsVerdict` and `MasterHasWaker`.
`WaitIsVerdict` is not inductive. `IInv` adds to it which place holds the mutex
(`MutexInv`), that `nIdle` and `nTotal` count threads by place (`CountInv`), that a
thread has a batch exactly between taking it and reporting it (`BatchInv`), that `nTodo`
counts the queued checks and those in batches, and that a failing check is either still
outstanding or recorded in `fAllOk` (`FailureInv`): when `nTodo` is 0 nothing is
outstanding, so `fAllOk` is the verdict. The run `checkqueue` checks the same `IInv`.

`CoinsProofs` proves all that the run `coins` checks, for any tree of blocks, any
transactions and any number of restarts. The loops of the code are folds over sequences,
and `AllTxs`, `Height`, `Chain` are recursive functions on the tree. What these compute
cannot be had from the library's induction theorems, which take operators; so
`RecursionProofs` has the step of a fold as a constant operator and is instantiated once
for every loop: `LeftRuns` gives the sequence of intermediate results, `TreeRecursion`
the solution of a recursive equation along `Prev`.

* `UtxoAt[b]` is what connecting the chain of `b` from nothing gives. Two views are
  `Alike` if they differ only in entries without outputs, which `pcoinsTip` keeps and the
  database drops. `ConnectBlock` accepts the same blocks from alike views, with the same
  undo data and alike results (`ConnectBlockAlike`).
* `DisconnectInverse` is the heart: from any view like the one `ConnectBlock` left, and
  with its undo data, `DisconnectBlock` finds nothing unclean and restores the view from
  before. Inputs go back in reverse, so at each input the entry is in the state the
  forward loop left it in; the height and coinbase flag are in the undo data exactly for
  the last output taken; BIP30 is what makes it right to drop a transaction's entry.
* The inductive invariant `CoinInv`: `coins` is like `UtxoAt[tip]`, `db` is
  `UtxoAt[dbTip]`, and stored undo data are those `ConnectBlock` makes there, present for
  both chains. `CoinsAreUnspent` by itself is not inductive, since it says nothing of undo
  data. A reorganisation rewinds to `UtxoAt` of the fork and goes forward from there.
* `TypeOK` and `VerifyDBPasses` follow, and `ReorganisesCleanly`: the blocks that
  `SetBestChain` takes back never stop it.
* `CoinsAreUnspent`: `UtxoAt[b]` holds for each transaction the outputs that nothing
  after its last occurrence spends (`UnspentOf`), one transaction after the other.
* `NoInflation`: `Worth` adds up a view; a transaction changes it by what it creates less
  what it spends, and overwrites at most an entry without outputs.
* `NoDoubleSpend`: from `UnspentOf` before each transaction: each of its inputs is
  created earlier and spent by nothing in between.

`MemPoolProofs` extends it (`PoolImplementsCoins`: every step of the pool is one of `Coins`
or leaves the coins alone) and proves all that the run `mempool` checks.

* `NextTxExact`: `addUnchecked` keeps the map exact because `accept` has looked for
  conflicts first, and removing any set of transactions keeps it exact.
* `PoolSpendable` is stated for the moments when `SetBestChain` is done. What holds in
  between is in `PoolInv`: every input of the pool, but for the wallet's transactions, is
  `Backed`. It is an unspent output of the chain (`Settled`), an output of the pool, an
  output of a transaction still to come back, or spent by one still to be deleted, which
  then takes its conflicts along. This needs that what is still to be deleted is the end
  of the best chain (`Ends`): a transaction that leaves the pool because it is in a block is
  on the chain with its outputs unspent, unless what spends them is deleted later. And it
  needs that an output of a coinbase is `Buried` deeper than a reorganisation goes, since
  coinbases do not come back; `CheckInputs` asks for `COINBASE_MATURITY`, and the lemma
  `MinedSomewhere` finds the block.
* `PoolNotConfirmed` needs that `accept` refuses what is mined: one of its inputs is spent
  then. It would not, if the input were created and unspent a second time. The first
  transaction to come twice on a chain is a coinbase, since any other would need its own
  inputs twice (`OnceOnly`, by `NoDoubleSpend`). To be spent again, its second copy must be
  mature (`AcceptedNotMined`), so it lies deeper than a reorganisation goes (`BuriedRepeat`)
  and stays on the chain (`RepeatStays`). The invariant is `PoolOffChain`: there is such a
  coinbase, and then `CoinbasesDiffer(tip)` is false, or what is in the pool and on the chain
  is still to be deleted.
* `PoolTypeOK` includes the limit on orphans.

The proofs about `ChainState` hold for every finite block tree, with any trust values,
invalid and unacceptable blocks anywhere, any order of arrival and any number of stops.

* First come the lemmas about trees. `Height`, `ChainTrust` and `Chain` are
  recursive functions, and the library's recursion and induction theorems cannot be
  instantiated here; so `ChainStateProofs` proves, from `AcyclicAssumption`, induction along
  `Prev` for sets, then that a recursive equation along `Prev` has a solution, and with it
  the three defining equations. The rest follows: ancestors are lower and have less trust,
  a chain is linear, a block has one successor on it, `Lowest` and `Top` exist.
* The next part assumes nothing about the disk. `TypeOK` is not inductive: that a
  candidate or a tip is indexed needs that an index, and whatever a stop can leave of it,
  has with each block its whole chain (`TypeInv`). `ValidSetNotFailed` needs in addition
  that a node that is down has kept it (`CandidateInv`). The refinement
  (`MovesImplemented`) needs `SoundInv`: whatever is or may become the tip or the stored best
  block ends a chain of acceptable blocks, a valid one unless there are stale coins; `vAttach`
  is a piece of one chain with more trust than `pindexBest`, and what `SetBestChain` has
  connected so far has passed `ConnectBlock`. Then `Commit` is the only step that moves
  `pindexBest` of a running node, to a block of more trust. `PnextIsMainChain`
  is inductive (`PnextInv`); the argument is that a reorganisation touches the pointers of
  two branches only, and a block has one successor on a chain.
* The last part has the hypothesis `OrderlyDisk`: no power is ever lost (the
  process may die anywhere, the disk may fill up, the initial download may last); or power
  may be lost, but outside the initial download and with space on the disk. Both parts
  are needed: TLC finds `CoinsAreBacked` and `NeverCorrupt` violated with power losses in
  the initial download, which leaves out the commits, and with a full disk, after which
  `Shutdown()` writes coins whose block tree was never committed.
  `RecoveryInv` then says that the block tree on disk is the index, all that a power loss
  can leave of it is older, and blocks and undo records of all of these are committed
  (`StoreInv`); that there are no stale coins, and every best block the coin database can be left with, and the tip, can
  be disconnected with what any surviving block tree knows (`BackedInv`); that a node
  without best block is one whose start-up has still to connect the genesis block
  (`RestartInv`), because such a node is in "initial download" and commits nothing; that
  flags are deserved and the candidates are exactly the indexed blocks without
  (`FailInv`). This gives `CoinsAreBacked`, `NeverCorrupt` and `FailedDeserved`, and, since a
  verdict is never in doubt, makes `MovesAsBestChain` the full refinement
  (`BestChainImplemented`).
  For `BestIsMostWork`, `SettledInv` says that between two calls of `ConnectBestBlock`
  every candidate has no more trust than `pindexBest` or has a failed ancestor, and that
  while a block of a running node is being connected `vAttach` is that block alone. It
  rests on the walk of `ConnectBestBlock` stopping at the main chain being enough to see
  every failed ancestor (`WalkIsEnough`). For `NoOrphanLeftBehind`, `WaitingInv` says that
  an orphan whose parent is indexed on a valid chain has it in `vWorkQueue`, or the parent
  is the block being accepted; a block that fails leaves its orphans only if it is
  invalid, which is where `SettledInv` is needed again.

`NodesProofs` proves `NodesTypeOK`, `HeldNodesAlive` and `SlotsConserved` for any
number of nodes, dialers and slots, the latter two as far as they say something: until an
unlocked `AddRef` of `ConnectNode` has gone wrong. The invariant: the copies of `vNodes` hold
only nodes that exist, and are empty between two rounds of their thread (`CopyInv`); a node in
`vNodes` has at least one reference more than the copies that hold it, a disconnected one as
many or more (`RefInv`). A dialer in `MoveTo` or `MarkNetworkNode` has such a spare reference in
its node; if it shares the node with another dialer, or the node is already marked as one
whose reference the socket thread gives up, there are two (`PublishInv`). A dialer that has
found a connection and has no reference yet relies on `raced` alone (`FoundInv`). Only certain
places hold a slot, and a node that is deleted has given its own back (`SlotInv`). A node is
deleted when its count is zero, so nobody holds it and no dialer fills it in.

`KeyPoolProofs` proves `KeyPoolTypeOK`, `PoolExact` and `KeyUsedOnce`, for any number of
keys, holders and any pool size. The two safety properties are inductive only together: a
key that is kept is the one of its record (`PoolExact`), so that erasing the record takes
it out of the pool (`KeyUsedOnce`). They rest on bounds (`Bounded`): an index is at most
one above the number of keys, and a new key is above all old ones.

`AddrManProofs` proves all that the run `addrman` checks, for any addresses, sources,
bucket functions and sizes. The invariant (`Good`) is what `Check_` says together with
`BucketsBounded`, but with `vRandom` and `nRandomPos`, and `mapAddr` and the addresses,
inverse to each other, and with every tried bucket listing its own entries once. The
operations call helpers while the object is half way, so `Good` has a parameter: an entry
that counts more new buckets than it is in (between `nRefCount++` and the insertion in
`Add_`), and `Half` is an object whose entry is marked tried and not yet in a bucket.
`EvictKeeps` is the argument of the comment in `MakeTried`: the entry that is promoted has
just left the bucket that takes the evicted one. Three facts are about iterated or sorted
data. A shuffle is a function from steps to sets of results, whose existence follows by
induction on a set of step numbers (`<` is well-founded on `Nat`); every result of `GetAddr_` is a
reordering, every one of `SelectTried` a permutation. `InOrder` lists a finite set of
numbers by rank, so the entries of `peers.dat` are numbered by a bijection (`Numbered`).
And no tried entry finds its bucket full on reading, because the entries before it in the
file are in the same bucket (`AllFit`). `Reloaded` says what `Restart` leaves in terms of
that bijection, and `ReloadKeepsTables` is its image of the tables.

The assumptions are those the modules state on their constants, which TLC evaluates in
every run: `TreeAssumption`, `BlockAssumption`, `PoolAssumption` and the like. Those of
`Coins` that are there for the proofs are named in section 3; `ChainState` has the same
`AcyclicAssumption`. `KeyPoolAssumption` has `TargetSize <= MaxKeys`: the bound on keys leaves room for one
full pool.

Only model-checked:

* all temporal properties under fairness (`WaitTerminates`, `Converges`,
  `ClosedIsDeleted`, `Synced`), which are out of the prover's reach;
* `BlockSync`: `NoStall` says that somebody can still move, for which no inductive
  invariant has been found that is shorter than the set of reachable states. `SyncTypeOK`
  needs what `SelectSeq` and `InOrder` compute: a matter of types and closed chains, still
  to be proved.
* `OrphansResolved`, which is violated.

## 7. Not in the model

* `ChainState`: `-reindex`, `-loadblock`, the transaction index, the clock (a block
  that `CheckBlock` refuses when connected because the clock went back), failures of
  individual database writes.
* `Coins`: scripts, signature operation counts, block size, `MoneyRange`.
* `MemPool`: the race of `ReacceptWalletTransactions` (`init.cpp:1236`), which takes no
  `cs_main`, with other threads; the rate limiter for free transactions (a set of transactions is refused
  when `fLimitFree` is set), the index of orphans by parent.
* `Nodes`: sockets, buffers and what a message says; what the program does after an
  unlocked `AddRef` has gone wrong; the end of the threads at shutdown.
* `AddrMan`: a start from an older `peers.dat` after a crash.
* `KeyPool`: writes that fail, a power loss that undoes a write of Berkeley DB, the
  rewriting of the file after encryption, wallets that are upgraded; `AddReserveKey`, which
  nothing calls.
* `BlockSync`: invalid blocks, the thinning of long locators, checkpoints, transactions,
  `headers`, filtered blocks, a full `mapAlreadyAskedFor`, silent peers that neither answer
  nor close the connection (the time-out that closes them is a broken connection).

## 8. Parts that are left out

The script interpreter and the cryptography are sequential and far larger than what TLC
can enumerate; a script check is a verdict. Proof of stake (`kernel.cpp`,
`mannastake.cpp`) is not built. The RPC server, network address parsing and the GUI are
input and output around the parts above. leveldb, json_spirit and the hash functions
are third-party code.
