----------------------------- MODULE ChainState -----------------------------
(***************************************************************************)
(* The block tree and the best chain of one node (src/src/main.cpp): how   *)
(* blocks, in any order, become orphans or index entries, how              *)
(* ConnectBestBlock and SetBestChain move the tip, and what is on disk at  *)
(* every point where the process can die.                                  *)
(*                                                                         *)
(* Everything from ProcessBlock to SetBestChain runs under cs_main, so one *)
(* program counter is enough; a step ends where something has reached the  *)
(* disk, because a crash can come between any two of them.                 *)
(*                                                                         *)
(* Abstractions.  A coins view is the block it stands for: that connecting *)
(* and disconnecting blocks keeps the coins in step is module Coins.  What *)
(* CheckBlock refuses never gets here.  Transactions and the memory pool   *)
(* are in module MemPool.                                                  *)
(***************************************************************************)
EXTENDS Integers, FiniteSets

CONSTANTS
  Blocks,         \* the blocks of this run
  Null,           \* a NULL CBlockIndex pointer
  Genesis,        \* hashGenesisBlock
  Prev,           \* hashPrevBlock
  Trust,          \* GetBlockTrust()
  Hash,           \* GetHash(), as a number
  Unacceptable,   \* blocks AcceptBlock refuses: bits, time, checkpoint
  Invalid,        \* blocks ConnectBlock finds invalid in their place
  CanIBD,         \* IsInitialBlockDownload() may return true
  CanLosePower,   \* a stop may lose what was not committed to disk
  CanFillDisk,    \* CheckDiskSpace() may fail
  MaxFile,        \* bound: the last blk/rev file
  MaxStops        \* bound: shutdowns, crashes and power losses

Flags == {"HAVE_UNDO", "FAILED_VALID", "FAILED_CHILD"}
FailedMask == {"FAILED_VALID", "FAILED_CHILD"}

\* nHeight, nChainTrust and the chain that ends in a block.
Height[b \in Blocks] == IF b = Genesis THEN 0 ELSE Height[Prev[b]] + 1
ChainTrust[b \in Blocks] == Trust[b] + IF b = Genesis THEN 0 ELSE ChainTrust[Prev[b]]
Chain[b \in Blocks] == {b} \cup IF b = Genesis THEN {} ELSE Chain[Prev[b]]

ASSUME TreeAssumption ==
  /\ IsFiniteSet(Blocks)
  /\ Null \notin Blocks
  /\ Genesis \in Blocks \ (Invalid \cup Unacceptable)
  /\ Prev \in [Blocks -> Blocks \cup {Null}]
  /\ \A b \in Blocks : Prev[b] = Null <=> b = Genesis
  /\ Trust \in [Blocks -> Nat \ {0}]
  /\ Hash \in [Blocks -> Nat]
  /\ \A a, b \in Blocks : Hash[a] = Hash[b] => a = b
  /\ Invalid \subseteq Blocks /\ Unacceptable \subseteq Blocks
  /\ CanIBD \in BOOLEAN /\ CanLosePower \in BOOLEAN /\ CanFillDisk \in BOOLEAN
  /\ MaxFile \in Nat /\ MaxStops \in Nat

\* A block holds the hash of its predecessor: there are no circles of blocks.
ASSUME AcyclicAssumption ==
  \A S \in SUBSET Blocks : S # {} => \E b \in S : Prev[b] \notin S

VARIABLES
  \* memory
  index,       \* mapBlockIndex, with the flags of nStatus
  validSet,    \* setBlockIndexValid
  pnext,       \* the pnext pointers
  best,        \* pindexBest
  tip,         \* pcoinsTip->GetBestBlock()
  orphans,     \* mapOrphanBlocks
  lastFile,    \* nLastBlockFile
  fileOf,      \* nFile of each index entry
  \* disk
  data, dataSync,   \* blocks in the blk files; those committed
  undo, undoSync,   \* undo records in the rev files; those committed
  tree, treeOld,    \* the block tree database; what a power loss can leave of it
  coins, coinsOld,  \* best block of the coin database; what can be left of it
  stale,            \* blocks whose coins it holds without knowing of them
  \* control
  pc, ctx,     \* where the thread is; who called ConnectBestBlock
  cur,         \* the block AcceptBlock is working on
  attach,      \* vAttach, what is left of it
  conn,        \* vConnect, what is left of it
  queue,       \* vWorkQueue, what is left of it
  aborted,     \* why AbortNode() has been called, or "no"
  stops        \* shutdowns, crashes and power losses so far

memory == <<index, validSet, pnext, best, tip, orphans, lastFile, fileOf>>
files == <<data, dataSync, undo, undoSync>>
dbs == <<tree, treeOld, coins, coinsOld, stale>>
control == <<pc, ctx, cur, attach, conn, queue, aborted, stops>>
vars == <<memory, files, dbs, control>>

Known == DOMAIN index
ChainOf(b) == IF b = Null THEN {} ELSE Chain[b]
TrustOf(b) == IF b = Null THEN 0 ELSE ChainTrust[b]
Failed(b) == index[b] \cap FailedMask # {}
Lowest(S) == CHOOSE b \in S : \A c \in S : Height[b] <= Height[c]

\* What the block tree database holds: the index entries and the last file.
TreeOf(i, n) == [index |-> i, lastFile |-> n]

\* What can be left of a database after one more unsynchronised write (a leveldb
\* log record), and which file contents are safe: without power losses, all is.
Survivors(old, new) == IF CanLosePower THEN old \cup {new} ELSE {new}
Committed(sync, all) == IF CanLosePower THEN sync ELSE all

WriteTree(i, n) ==
  /\ tree' = TreeOf(i, n)
  /\ treeOld' = Survivors(treeOld, TreeOf(i, n))

WriteIndex(i) == WriteTree(i, tree.lastFile)

\* What IsInitialBlockDownload() may say now.
IBD == IF best = Null THEN {TRUE} ELSE IF CanIBD THEN BOOLEAN ELSE {FALSE}

-----------------------------------------------------------------------------
\* A first start: InitBlockIndex has stored and connected the genesis block.  It has
\* committed nothing, but a start that finds no index is a first start again, so the
\* genesis block counts as committed.
Init ==
  /\ index = [b \in {Genesis} |-> {}]
  /\ validSet = {Genesis}
  /\ pnext = [b \in Blocks |-> Null]
  /\ best = Genesis /\ tip = Genesis
  /\ orphans = {}
  /\ lastFile = 0 /\ fileOf = [b \in Blocks |-> 0]
  /\ data = {Genesis} /\ dataSync = {Genesis}
  /\ undo = {} /\ undoSync = {}
  /\ tree = TreeOf(index, 0) /\ treeOld = {tree}
  /\ coins = Null /\ coinsOld = {Null} /\ stale = {}
  /\ pc = "idle" /\ ctx = "block" /\ cur = Genesis
  /\ attach = {} /\ conn = {} /\ queue = {}
  /\ aborted = "no" /\ stops = 0

-----------------------------------------------------------------------------
(***************************************************************************)
(* ProcessBlock.                                                           *)
(***************************************************************************)
\* FindBlockPos: the current file or, when the block does not fit, the next one,
\* and FlushBlockFile(true) commits the old one.
FindBlockPos(roll) ==
  /\ lastFile' = IF roll THEN lastFile + 1 ELSE lastFile
  /\ lastFile' <= MaxFile
Finalized(roll) == IF roll THEN {c \in Blocks : fileOf[c] = lastFile} ELSE {}

\* FindBlockPos and WriteToDisk.
StoreBlock(b) ==
  \E roll \in BOOLEAN, ibd \in IBD :
    LET saved == (data \cap Finalized(roll)) \cup (IF ibd THEN {} ELSE {b})
    IN  /\ FindBlockPos(roll)
        /\ fileOf' = [fileOf EXCEPT ![b] = lastFile']
        /\ data' = data \cup {b}
        /\ dataSync' = Committed(dataSync \cup saved, data')
        /\ undoSync' = Committed(undoSync \cup (undo \cap Finalized(roll)), undo)
        /\ WriteTree(index, IF roll THEN lastFile' ELSE tree.lastFile)
        /\ UNCHANGED <<undo, aborted>>

\* There is no space left for it: AbortNode.
StoreFails ==
  \E roll \in BOOLEAN :
    /\ CanFillDisk
    /\ FindBlockPos(roll)
    /\ dataSync' = Committed(dataSync \cup (data \cap Finalized(roll)), data)
    /\ undoSync' = Committed(undoSync \cup (undo \cap Finalized(roll)), undo)
    /\ aborted' = "no space"
    /\ UNCHANGED <<fileOf, data, undo, tree, treeOld>>

\* A block arrives from a peer and its parent is unknown.
ReceiveOrphan(b) ==
  /\ pc = "idle"
  /\ b \notin Known \cup orphans
  /\ Prev[b] \notin Known
  /\ orphans' = orphans \cup {b}
  /\ UNCHANGED <<index, validSet, pnext, best, tip, lastFile, fileOf, files, dbs, control>>

\* A block arrives and AcceptBlock stores it, if it can.
ReceiveBlock(b) ==
  /\ pc = "idle"
  /\ b \notin Known \cup orphans
  /\ Prev[b] \in Known
  /\ b \notin Unacceptable
  /\ \/ StoreBlock(b) /\ pc' = "index" /\ ctx' = "block" /\ cur' = b
     \/ StoreFails /\ UNCHANGED <<pc, ctx, cur>>
  /\ UNCHANGED <<stale, index, validSet, pnext, best, tip, orphans, coins, coinsOld,
                 attach, conn, queue, stops>>

\* A new CBlockIndex in the map.
WithEntry(i, b) == [c \in DOMAIN i \cup {b} |-> IF c = b THEN {} ELSE i[c]]

\* Mutant: no entry in setBlockIndexValid.
AddToBlockIndexNoCandidate ==
  /\ pc = "index"
  /\ index' = WithEntry(index, cur)
  /\ WriteIndex(index')
  /\ pc' = "best"
  /\ UNCHANGED <<stale, validSet, pnext, best, tip, orphans, lastFile, fileOf, files, coins,
                 coinsOld, ctx, cur, attach, conn, queue, aborted, stops>>

\* AddToBlockIndex, up to its call of ConnectBestBlock.
AddToBlockIndex ==
  /\ pc = "index"
  /\ index' = WithEntry(index, cur)
  /\ validSet' = validSet \cup {cur}
  /\ WriteIndex(index')
  /\ pc' = "best"
  /\ UNCHANGED <<stale, pnext, best, tip, orphans, lastFile, fileOf, files, coins, coinsOld,
                 ctx, cur, attach, conn, queue, aborted, stops>>

\* Mutant: an accepted orphan is not itself looked up among the parents.
AcceptedBlockOnly(ok) == IF ok /\ ctx = "block" THEN queue \cup {cur} ELSE queue

\* vWorkQueue with the block AcceptBlock has just been called for.
Accepted(ok) == IF ok /\ ctx # "init" THEN queue \cup {cur} ELSE queue

(***************************************************************************)
(* ConnectBestBlock returns, and its caller with it.  At startup a failure *)
(* is an InitError: AppInit2 gives up and Shutdown() flushes the coins.    *)
(* Otherwise the orphans of an accepted block are next; a block that was   *)
(* not accepted leaves its orphans where they are.                         *)
(***************************************************************************)
Returned(ok, newTip) ==
  /\ IF ctx = "init" /\ ~ok
     THEN /\ pc' = "down"
          /\ coins' = newTip /\ coinsOld' = Survivors(coinsOld, newTip)
     ELSE /\ pc' = IF ctx = "init" \/ (ctx = "block" /\ ~ok) THEN "idle" ELSE "orphans"
          /\ UNCHANGED <<coins, coinsOld>>
  /\ queue' = Accepted(ok)

\* One orphan whose parent has just been accepted: AcceptBlock, then erase.
ProcessOrphan(o) ==
  /\ pc = "orphans"
  /\ o \in orphans /\ Prev[o] \in queue
  /\ orphans' = orphans \ {o}
  /\ IF o \in Unacceptable
     THEN UNCHANGED <<lastFile, fileOf, files, tree, treeOld, pc, ctx, cur, aborted>>
     ELSE \/ StoreBlock(o) /\ pc' = "index" /\ ctx' = "orphan" /\ cur' = o
          \/ StoreFails /\ UNCHANGED <<pc, ctx, cur>>
  /\ UNCHANGED <<stale, index, validSet, pnext, best, tip, coins, coinsOld,
                 attach, conn, queue, stops>>

\* No orphan waits for any of the accepted blocks any more.
OrphansDone ==
  /\ pc = "orphans"
  /\ \A o \in orphans : Prev[o] \notin queue
  /\ queue' = {}
  /\ pc' = "idle"
  /\ UNCHANGED <<memory, files, dbs, ctx, cur, attach, conn, aborted, stops>>

-----------------------------------------------------------------------------
(***************************************************************************)
(* ConnectBestBlock.                                                       *)
(***************************************************************************)
\* CBlockIndexWorkComparator: the last element of setBlockIndexValid.
Better(a, b) == ChainTrust[a] > ChainTrust[b] \/
                (ChainTrust[a] = ChainTrust[b] /\ Hash[a] < Hash[b])
Top == CHOOSE b \in validSet : \A c \in validSet \ {b} : Better(b, c)

\* The walk back from the candidate ends at a block of the main chain.
Stops(b) == Prev[b] = Null \/ pnext[b] # Null
Walked(b) == {c \in Chain[b] : \A d \in Chain[b] : Height[d] > Height[c] => ~Stops(d)}
FailedOn(b) == {c \in Walked(b) : Failed(c)}

NothingToDo ==
  /\ pc = "best"
  /\ \/ validSet = {}
     \/ Top = best
     \/ best # Null /\ ChainTrust[Top] = ChainTrust[best]
  /\ Returned(TRUE, tip)
  /\ UNCHANGED <<stale, memory, files, tree, treeOld, ctx, cur, attach, conn, aborted, stops>>

HasCandidate ==
  /\ pc = "best"
  /\ validSet # {} /\ Top # best
  /\ best # Null => ChainTrust[Top] # ChainTrust[best]

\* Mutant: the failed ancestor itself is marked as a child.
DescendantsFrom(b, high) == {c \in Chain[b] : Height[c] >= Height[high]}

\* The blocks of b's chain above the failed one.
DescendantsOn(b, high) == {c \in Chain[b] : Height[c] > Height[high]}

\* An ancestor has failed: mark the candidate and all in between, and look again.
\* InvalidChainFound reads pindexBest unchecked: without one the process dies.
MarkFailedChild ==
  /\ HasCandidate
  /\ FailedOn(Top) # {}
  /\ LET high == CHOOSE c \in FailedOn(Top) : \A d \in FailedOn(Top) : Height[d] <= Height[c]
         marked == DescendantsOn(Top, high)
     IN  /\ index' = [c \in Known |-> IF c \in marked THEN index[c] \cup {"FAILED_CHILD"}
                                                     ELSE index[c]]
         /\ validSet' = validSet \ marked
  /\ WriteIndex(index')
  /\ pc' = IF best = Null THEN "down" ELSE pc
  /\ UNCHANGED <<stale, pnext, best, tip, orphans, lastFile, fileOf, files, coins, coinsOld,
                 ctx, cur, attach, conn, queue, aborted, stops>>

\* Mutant: blocks of less trust than the best one become the tip on the way.
AttachAll(b) == Walked(b)

\* vAttach: what the walk has met above the best block's trust.
Attach(b) == {c \in Walked(b) : best = Null \/ ChainTrust[c] > ChainTrust[best]}

\* The candidate's chain is free of failures: these blocks become the tip in turn.
ChooseAttach ==
  /\ HasCandidate
  /\ FailedOn(Top) = {}
  /\ attach' = Attach(Top)
  /\ IF attach' = {}
     THEN Returned(TRUE, tip)
     ELSE pc' = "switch" /\ UNCHANGED <<queue, coins, coinsOld>>
  /\ UNCHANGED <<stale, memory, files, tree, treeOld, ctx, cur, conn, aborted, stops>>

-----------------------------------------------------------------------------
(***************************************************************************)
(* SetBestChain(state, pindexNew) for the next block of vAttach.           *)
(***************************************************************************)
New == Lowest(attach)
Disconnected == ChainOf(tip) \ Chain[New]
Readable(S) == S \subseteq data
Undoable(S) == \A b \in S : "HAVE_UNDO" \in index[b] /\ b \in undo

\* The coin database holds coins of blocks it does not know of.  The code judges by
\* the coins it finds: a transaction that is there already (BIP30), an input that
\* should not be, one that is missing, undo data that no longer fits.  From here on
\* a verdict of ConnectBlock, DisconnectBlock or VerifyDB may go either way.
Doubtful == stale # {}
Passes(b) == b \notin Invalid \/ Doubtful
Fails(b) == b # Genesis /\ (b \in Invalid \/ Doubtful)

\* Disconnect the shorter branch, in the view only, and list what to connect.
Disconnect ==
  /\ pc = "switch"
  /\ Readable(Disconnected) /\ Undoable(Disconnected)
  /\ conn' = Chain[New] \ ChainOf(tip)
  /\ pc' = "connect"
  /\ UNCHANGED <<memory, files, dbs, ctx, cur, attach, queue, aborted, stops>>

\* A block or its undo data cannot be read, or the undo data does not fit the coins:
\* the call fails, a missing block aborts.
DisconnectFails ==
  /\ pc = "switch"
  /\ \/ ~(Readable(Disconnected) /\ Undoable(Disconnected))
     \/ Disconnected # {} /\ Doubtful
  /\ aborted' = IF Readable(Disconnected) THEN aborted ELSE "unreadable"
  /\ attach' = {}
  /\ Returned(FALSE, tip)
  /\ UNCHANGED <<stale, memory, files, tree, treeOld, ctx, cur, conn, stops>>

\* Mutant: BLOCK_HAVE_UNDO is not written to the block tree.
WriteUndoMemoryOnly(b) ==
  /\ undo' = undo \cup {b}
  /\ undoSync' = Committed(undoSync \cup {b}, undo')
  /\ index' = [index EXCEPT ![b] = @ \cup {"HAVE_UNDO"}]
  /\ UNCHANGED <<tree, treeOld>>

\* The undo record, committed unless this is the initial download, and its flag.
WriteUndo(b) ==
  /\ undo' = undo \cup {b}
  /\ \E ibd \in IBD :
       undoSync' = Committed(IF ibd THEN undoSync ELSE undoSync \cup {b}, undo')
  /\ index' = [index EXCEPT ![b] = @ \cup {"HAVE_UNDO"}]
  /\ WriteIndex(index')

\* ConnectBlock succeeds; it writes the undo record unless there is one already.
ConnectBlock ==
  /\ pc = "connect"
  /\ conn # {}
  /\ LET b == Lowest(conn)
     IN  /\ b \in data /\ Passes(b)
         /\ conn' = conn \ {b}
         /\ IF b = Genesis \/ "HAVE_UNDO" \in index[b]
            THEN UNCHANGED <<index, undo, undoSync, tree, treeOld>>
            ELSE WriteUndo(b)
  /\ UNCHANGED <<stale, validSet, pnext, best, tip, orphans, lastFile, fileOf, data, dataSync,
                 coins, coinsOld, pc, ctx, cur, attach, queue, aborted, stops>>

\* FindUndoPos finds no space for the undo record.
ConnectNoSpace ==
  /\ CanFillDisk
  /\ pc = "connect"
  /\ conn # {}
  /\ Lowest(conn) \in data \ {Genesis} /\ Passes(Lowest(conn))
  /\ "HAVE_UNDO" \notin index[Lowest(conn)]
  /\ aborted' = "no space"
  /\ attach' = {} /\ conn' = {}
  /\ Returned(FALSE, tip)
  /\ UNCHANGED <<stale, memory, files, tree, treeOld, ctx, cur, stops>>

\* Mutant: the block stays a candidate.
InvalidBlockFoundKeeps(b) ==
  /\ index' = [index EXCEPT ![b] = @ \cup {"FAILED_VALID"}]
  /\ WriteIndex(index')
  /\ UNCHANGED validSet

InvalidBlockFound(b) ==
  /\ index' = [index EXCEPT ![b] = @ \cup {"FAILED_VALID"}]
  /\ WriteIndex(index')
  /\ validSet' = validSet \ {b}

\* ConnectBlock finds the block invalid: InvalidBlockFound.  The block is not in
\* the main chain, so pnext is NULL and there is no nested ConnectBestBlock.  best is
\* not NULL here: the genesis block comes first, and ConnectBlock has no question
\* about that one.
ConnectInvalid ==
  /\ pc = "connect"
  /\ conn # {}
  /\ LET b == Lowest(conn)
     IN  /\ b \in data /\ Fails(b)
         /\ InvalidBlockFound(b)
  /\ attach' = {} /\ conn' = {}
  /\ Returned(FALSE, tip)
  /\ UNCHANGED <<stale, pnext, best, tip, orphans, lastFile, fileOf, files, ctx, cur, aborted, stops>>

\* The block to connect cannot be read from disk.
ConnectUnreadable ==
  /\ pc = "connect"
  /\ conn # {} /\ Lowest(conn) \notin data
  /\ aborted' = "unreadable"
  /\ attach' = {} /\ conn' = {}
  /\ Returned(FALSE, tip)
  /\ UNCHANGED <<stale, memory, files, tree, treeOld, ctx, cur, stops>>

\* What FlushBlockFile() commits.
InLastFile == {b \in Blocks : fileOf[b] = lastFile}

\* Mutant: pblocktree->Sync() is missing.
FlushCoinsNoSync ==
  /\ dataSync' = dataSync \cup (data \cap InLastFile)
  /\ undoSync' = undoSync \cup (undo \cap InLastFile)
  /\ coins' = New /\ coinsOld' = Survivors(coinsOld, New)
  /\ UNCHANGED treeOld

\* The block files and the block tree are committed, then the coins are written.
FlushCoins ==
  /\ dataSync' = dataSync \cup (data \cap InLastFile)
  /\ undoSync' = undoSync \cup (undo \cap InLastFile)
  /\ treeOld' = {tree}
  /\ coins' = New /\ coinsOld' = Survivors(coinsOld, New)

\* Mutant: the branch that is left keeps its pnext pointers.
RelinkedOnly ==
  [b \in Blocks |->
     IF \E c \in Chain[New] \ ChainOf(tip) : Prev[c] = b
     THEN CHOOSE c \in Chain[New] \ ChainOf(tip) : Prev[c] = b
     ELSE pnext[b]]

\* pnext, with the disconnected branch cut off and the connected one linked.
Relinked ==
  [b \in Blocks |->
     IF \E c \in Chain[New] \ ChainOf(tip) : Prev[c] = b
     THEN CHOOSE c \in Chain[New] \ ChainOf(tip) : Prev[c] = b
     ELSE IF \E c \in Disconnected : Prev[c] = b THEN Null
     ELSE pnext[b]]

\* The view is flushed into pcoinsTip; the coin database follows unless this is the
\* initial download and the cache is not full.  Then the memory structures.
Commit ==
  /\ pc = "connect"
  /\ conn = {}
  /\ tip' = New
  /\ \E ibd \in IBD, cacheFull \in BOOLEAN :
       IF ~ibd \/ cacheFull
       THEN FlushCoins
       ELSE UNCHANGED <<dataSync, undoSync, treeOld, coins, coinsOld>>
  /\ pnext' = Relinked
  /\ best' = New
  /\ attach' = attach \ {New}
  /\ IF attach' # {}
     THEN pc' = "switch" /\ UNCHANGED queue
     ELSE /\ pc' = IF ctx = "init" THEN "idle" ELSE "orphans"
          /\ queue' = Accepted(TRUE)
  /\ UNCHANGED <<stale, index, validSet, orphans, lastFile, fileOf, data, undo, tree,
                 ctx, cur, conn, aborted, stops>>

\* CheckDiskSpace fails after pcoinsTip has moved: the memory structures stay behind.
CommitNoSpace ==
  /\ CanFillDisk
  /\ pc = "connect"
  /\ conn = {}
  /\ tip' = New
  /\ aborted' = "no space"
  /\ attach' = {}
  /\ Returned(FALSE, tip')
  /\ UNCHANGED <<stale, index, validSet, pnext, best, orphans, lastFile, fileOf, files,
                 tree, treeOld, ctx, cur, conn, stops>>

-----------------------------------------------------------------------------
(***************************************************************************)
(* Stopping and starting.                                                  *)
(***************************************************************************)
\* Shutdown(): the coins are flushed; nothing is committed.  ConnectBestBlock has
\* an interruption point before each SetBestChain.
Shutdown ==
  /\ pc \in {"idle", "switch"} /\ stops < MaxStops
  /\ coins' = tip /\ coinsOld' = Survivors(coinsOld, tip)
  /\ pc' = "down" /\ stops' = stops + 1
  /\ UNCHANGED <<stale, memory, files, tree, treeOld, ctx, cur, attach, conn, queue, aborted>>

\* The process dies; what it has written is there when it starts again.
Crash ==
  /\ pc \notin {"down", "corrupt"} /\ stops < MaxStops
  /\ pc' = "down" /\ stops' = stops + 1
  /\ UNCHANGED <<memory, files, dbs, ctx, cur, attach, conn, queue, aborted>>

\* The machine dies: of each database a prefix of its log is left, at least up to
\* the last sync, and of each file what was committed and perhaps more.
PowerLoss ==
  /\ CanLosePower
  /\ pc # "corrupt" /\ stops < MaxStops
  /\ tree' \in treeOld /\ treeOld' = {tree'}
  /\ coins' \in coinsOld /\ coinsOld' = {coins'}
  /\ \E D \in SUBSET (data \ dataSync), U \in SUBSET (undo \ undoSync) :
       /\ data' = dataSync \cup D /\ dataSync' = data'
       /\ undo' = undoSync \cup U /\ undoSync' = undo'
  /\ pc' = "down" /\ stops' = stops + 1
  /\ UNCHANGED <<stale, memory, ctx, cur, attach, conn, queue, aborted>>

\* VerifyDB reads and disconnects, in memory, the blocks of the stored chain.
VerifyDB(i, b) ==
  \A c \in ChainOf(b) \ {Genesis} :
    c \in DOMAIN i /\ c \in data /\ "HAVE_UNDO" \in i[c] /\ c \in undo

\* Mutants: the hash is trusted to be in mapBlockIndex; the best block of the index is
\* taken for the best one of the coins.
LoadedBestUnchecked(i) == coins

LoadedBestOfIndex(i) == CHOOSE b \in DOMAIN i : \A c \in DOMAIN i : ChainTrust[c] <= ChainTrust[b]

\* CCoinsViewDB::GetBestBlock: a hash that is not in mapBlockIndex is no block.
LoadedBest(i) == IF coins \in DOMAIN i THEN coins ELSE Null

\* "set 'next' pointers in best chain"
LoadedNext(b) ==
  [c \in Blocks |-> IF \E d \in ChainOf(b) : Prev[d] = c
                    THEN CHOOSE d \in ChainOf(b) : Prev[d] = c ELSE Null]

(***************************************************************************)
(* LoadBlockIndexDB, VerifyDB, then ConnectBestBlock ("scan for better     *)
(* chains").  Data no index entry refers to is overwritten by and by.  A   *)
(* best block of the coin database that is not in the index counts as no   *)
(* best block, whatever coins the database holds.                          *)
(***************************************************************************)
Start ==
  /\ pc = "down"
  /\ LET i == tree.index
         b == LoadedBest(i)
     IN  /\ index' = i
         /\ lastFile' = tree.lastFile
         /\ validSet' = {c \in DOMAIN i : i[c] \cap FailedMask = {}}
         /\ best' = b /\ tip' = b
         /\ stale' = stale \cup (ChainOf(coins) \ (ChainOf(b) \cup {Genesis}))
         /\ pnext' = LoadedNext(b)
         /\ data' = data \cap DOMAIN i /\ dataSync' = dataSync \cap DOMAIN i
         /\ undo' = {c \in undo \cap DOMAIN i : "HAVE_UNDO" \in i[c]}
         /\ undoSync' = undoSync \cap undo'
         /\ \/ VerifyDB(i, b) /\ pc' = "best"
            \/ /\ VerifyDB(i, b) => stale' # {} /\ b \notin {Null, Genesis}
               /\ pc' = "corrupt"
  /\ orphans' = {} /\ ctx' = "init"
  /\ attach' = {} /\ conn' = {} /\ queue' = {} /\ aborted' = "no"
  /\ UNCHANGED <<fileOf, tree, treeOld, coins, coinsOld, cur, stops>>

-----------------------------------------------------------------------------
Deliver(b) == ReceiveOrphan(b) \/ ReceiveBlock(b)

\* A step of the thread that holds cs_main, or of a start-up.
Work ==
  \/ AddToBlockIndex
  \/ \E o \in Blocks : ProcessOrphan(o)
  \/ OrphansDone
  \/ NothingToDo \/ MarkFailedChild \/ ChooseAttach
  \/ Disconnect \/ DisconnectFails
  \/ ConnectBlock \/ ConnectInvalid \/ ConnectUnreadable
  \/ Commit
  \/ Start

Next ==
  \/ \E b \in Blocks : Deliver(b)
  \/ Work
  \/ ConnectNoSpace \/ CommitNoSpace
  \/ Shutdown
  \/ Crash
  \/ PowerLoss

Spec == Init /\ [][Next]_vars

(***************************************************************************)
(* The thread that holds cs_main, and a start-up, go on; peers offer every *)
(* block again until the node has it (inv, getblocks).                     *)
(***************************************************************************)
FairSpec == Spec /\ WF_vars(Work) /\ \A b \in Blocks : WF_vars(Deliver(b))

-----------------------------------------------------------------------------
Running == pc \notin {"down", "corrupt"}
Sound(b) == Chain[b] \cap (Invalid \cup Unacceptable) = {}

TypeOK ==
  /\ DOMAIN index \subseteq Blocks
  /\ index \in [DOMAIN index -> SUBSET Flags]
  /\ DOMAIN tree.index \subseteq Blocks
  /\ tree.index \in [DOMAIN tree.index -> SUBSET Flags]
  /\ tree \in treeOld
  /\ validSet \subseteq Known
  /\ pnext \in [Blocks -> Blocks \cup {Null}]
  /\ best \in Known \cup {Null} /\ tip \in Known \cup {Null}
  /\ stale \subseteq Blocks /\ coins \in coinsOld /\ coinsOld \subseteq Blocks \cup {Null}
  /\ orphans \subseteq Blocks /\ queue \subseteq Blocks
  /\ lastFile \in 0..MaxFile /\ fileOf \in [Blocks -> 0..MaxFile]
  /\ dataSync \subseteq data /\ data \subseteq Blocks
  /\ undoSync \subseteq undo /\ undo \subseteq Blocks
  /\ pc \in {"idle", "index", "best", "switch", "connect", "orphans", "down", "corrupt"}
  /\ ctx \in {"block", "orphan", "init"} /\ cur \in Blocks
  /\ attach \subseteq Blocks /\ conn \subseteq Blocks
  /\ aborted \in {"no", "unreadable", "no space"} /\ stops \in 0..MaxStops

(***************************************************************************)
(* Whatever order the blocks came in, whatever failed on the way, and after *)
(* any restart: once ProcessBlock is done, no block the node has indexed on *)
(* a wholly valid chain has more trust than its best block.                *)
(***************************************************************************)
BestIsMostWork ==
  pc = "idle" /\ aborted = "no" =>
    \A b \in Known : Sound(b) => ChainTrust[b] <= TrustOf(best)

(***************************************************************************)
(* Once ProcessBlock is done, no orphan is left behind whose parent is     *)
(* indexed on a valid chain: nothing would ever take it up again.          *)
(***************************************************************************)
NoOrphanLeftBehind ==
  pc = "idle" /\ aborted = "no" => \A o \in orphans : Prev[o] \in Known => ~Sound(Prev[o])

(***************************************************************************)
(* The pnext pointers spell exactly the chain from genesis to pindexBest,  *)
(* and pcoinsTip stands at pindexBest: FindBlockByHeight, getblocks and the *)
(* walk in ConnectBestBlock rely on it.                                    *)
(***************************************************************************)
PnextIsMainChain ==
  Running /\ aborted = "no" =>
    /\ tip = best
    /\ \A b \in Blocks :
         IF b \in ChainOf(best) \ {best}
         THEN pnext[b] \in ChainOf(best) /\ Prev[pnext[b]] = b
         ELSE pnext[b] = Null

(***************************************************************************)
(* setBlockIndexValid never holds a failed block: ConnectBestBlock would   *)
(* pick it again and again without end.                                    *)
(***************************************************************************)
ValidSetNotFailed == Running => \A b \in validSet : ~Failed(b)

(***************************************************************************)
(* Failure marks are deserved, in memory and in whatever a stop leaves on  *)
(* disk: BLOCK_FAILED_VALID only on a block ConnectBlock refuses,          *)
(* BLOCK_FAILED_CHILD only above one.  A mark is for ever.                 *)
(***************************************************************************)
FailedDeserved ==
  \A t \in treeOld \cup {TreeOf(index, lastFile)} : \A b \in DOMAIN t.index :
    /\ "FAILED_VALID" \in t.index[b] => b \in Invalid
    /\ "FAILED_CHILD" \in t.index[b] => (Chain[b] \ {b}) \cap Invalid # {}

(***************************************************************************)
(* "Make sure it's successfully written to disk before changing memory     *)
(* structure": whatever a power loss leaves of the two databases, the coin *)
(* database's best block and all below it are indexed, readable and can be *)
(* disconnected.                                                           *)
(***************************************************************************)
CoinsAreBacked ==
  \A t \in treeOld, c \in coinsOld : \A b \in ChainOf(c) \ {Genesis} :
    /\ b \in DOMAIN t.index /\ "HAVE_UNDO" \in t.index[b]
    /\ b \in dataSync /\ b \in undoSync

(***************************************************************************)
(* After a crash of the process, which loses the cached coins but nothing  *)
(* it has written, the node starts again: the stored chain passes VerifyDB *)
(* and every block it needs can be read and disconnected.                  *)
(***************************************************************************)
NeverCorrupt == pc # "corrupt" /\ aborted # "unreadable"

(***************************************************************************)
(* As long as the disk keeps the coin database behind the block tree, the  *)
(* steps of ProcessBlock, ConnectBestBlock and SetBestChain, stopped at    *)
(* any of them, amount to this: pindexBest ends a valid chain, moves to a  *)
(* block of strictly more trust while the node runs (not even for the time *)
(* of a reorganisation to one of less), and is one the coin database has   *)
(* had after a restart.                                                    *)
(***************************************************************************)
Promise == INSTANCE BestChain WITH
  Trust <- ChainTrust, Valid <- {b \in Blocks : Sound(b)}, saved <- coinsOld, up <- Running
ImplementsBestChain == Promise!Spec

(***************************************************************************)
(* What is left of it when the coin database can be ahead of the block     *)
(* tree (power losses in the initial download, a full disk), so that       *)
(* ConnectBlock may take an invalid block: pindexBest still moves only to  *)
(* blocks AcceptBlock has let in, of strictly more trust, and a node       *)
(* starts from a best block it has written, or from nothing.  It may go    *)
(* back as far as that, and it may end an invalid chain.                   *)
(***************************************************************************)
Acceptable(b) == Chain[b] \cap Unacceptable = {}
Moves == INSTANCE BestChain WITH
  Trust <- ChainTrust, Valid <- {b \in Blocks : Acceptable(b)}, saved <- coinsOld, up <- Running
MovesAsBestChain == Moves!Spec

\* The node ends up on a valid chain of most trust, in spite of orphans, invalid
\* blocks, crashes and restarts.
MostTrust == CHOOSE n \in {ChainTrust[b] : b \in Blocks} :
  /\ \E b \in Blocks : Sound(b) /\ ChainTrust[b] = n
  /\ \A b \in Blocks : Sound(b) => ChainTrust[b] <= n
Converges == <>[](pc = "idle" /\ TrustOf(best) = MostTrust)
=============================================================================
