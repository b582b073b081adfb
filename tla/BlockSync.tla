----------------------------- MODULE BlockSync -----------------------------
(***************************************************************************)
(* How nodes get each other's blocks (src/src/main.cpp, net.h, net.cpp):   *)
(* getblocks, inv, getdata and block messages, the batches of getblocks    *)
(* and hashContinue, requests put off by AskFor, orphans, the choice of a  *)
(* sync node, and connections that break.  Every node runs the same code.  *)
(*                                                                         *)
(* Abstractions.  ProcessBlock is one step here (module ChainState has its *)
(* inside); all blocks are valid.  A connection delivers messages in order *)
(* until it breaks.  Time is not counted: a request AskFor puts off by two *)
(* minutes comes up at any later time, but these requests come in the      *)
(* order of the first ones.  Every peer may be the sync node, and is near  *)
(* enough to be told of new blocks (144 and 2000 blocks); chains are short *)
(* enough for a locator to name all their blocks, are not below the last   *)
(* checkpoint, and mapAlreadyAskedFor does not fill.                       *)
(***************************************************************************)
EXTENDS Integers, FiniteSets, Sequences, SequencesExt

CONSTANTS
  Nodes,
  Blocks,      \* numbers; the parent of a block has a smaller one
  Genesis,
  None,        \* no block (uint256(0)), no node (NULL)
  Prev,        \* hashPrevBlock
  Stored,      \* the blocks each node has at first
  Limit,       \* nLimit of getblocks
  KnownSize,   \* max_size of setInventoryKnown
  MaxFound,    \* bound: blocks that are found while the nodes are at work
  MaxDrops     \* bound: connections that break

\* The trust of a chain is its length here.
Height[b \in Blocks] == IF b = Genesis THEN 0 ELSE Height[Prev[b]] + 1
Chain[b \in Blocks] == {b} \cup IF b = Genesis THEN {} ELSE Chain[Prev[b]]

ASSUME SyncAssumption ==
  /\ Blocks \subseteq Nat /\ Genesis \in Blocks
  /\ None \notin Blocks \cup Nodes
  /\ Prev \in [Blocks -> Blocks \cup {None}]
  /\ \A b \in Blocks \ {Genesis} : Prev[b] < b
  /\ Stored \in [Nodes -> SUBSET Blocks]
  /\ \A n \in Nodes : Genesis \in Stored[n] /\ \A b \in Stored[n] : Chain[b] \subseteq Stored[n]
  /\ Limit \in Nat \ {0} /\ KnownSize \in Nat \ {0} /\ MaxFound \in Nat /\ MaxDrops \in Nat

VARIABLES
  have,       \* mapBlockIndex of each node
  orphans,    \* mapOrphanBlocks
  best,       \* pindexBest
  asked,      \* mapAlreadyAskedFor, in the order of the requests
  sync,       \* pnodeSync
  link,       \* link[n][m]: what the CNode for m holds at n
  chan,       \* chan[n][m]: messages on their way from n to m
  drops,      \* connections that have broken
  news        \* history: a block has been found at rest since the last one broke

vars == <<have, orphans, best, asked, sync, link, chan, drops, news>>

\* A CNode after the version messages: pindexLastGetBlocksBegin and
\* hashLastGetBlocksEnd, hashContinue, vInventoryToSend, setInventoryKnown (oldest
\* first), mapAskFor (the requests due, those put off), vRecvGetData.
NewLink ==
  [fStartSync |-> FALSE, lastGetBlocks |-> <<None, None>>, hashContinue |-> None,
   toSend |-> <<>>, known |-> <<>>, due |-> <<>>, later |-> {}, getData |-> <<>>]

Message(cmd, blocks, stop) == [cmd |-> cmd, blocks |-> blocks, stop |-> stop]
Messages(cmd, blocks) == IF blocks = <<>> THEN <<>> ELSE <<Message(cmd, blocks, None)>>

Highest(S) == CHOOSE b \in S : \A c \in S : Height[c] <= Height[b]

\* S by number, and so parents before children.
ByNumber == [i \in 1 .. Cardinality(Blocks) |->
               CHOOSE b \in Blocks : Cardinality({c \in Blocks : c < b}) = i - 1]
InOrder(S) == SelectSeq(ByNumber, LAMBDA b : b \in S)

Init ==
  /\ have = Stored
  /\ orphans = [n \in Nodes |-> {}]
  /\ best = [n \in Nodes |-> Highest(Stored[n])]
  /\ asked = [n \in Nodes |-> <<>>]
  /\ sync = [n \in Nodes |-> None]
  /\ link = [n \in Nodes |-> [m \in Nodes \ {n} |-> NewLink]]
  /\ chan = [n \in Nodes |-> [m \in Nodes \ {n} |-> <<>>]]
  /\ drops = 0 /\ news = FALSE

AlreadyHave(n, b) == b \in have[n] \cup orphans[n]

\* Mutant: nothing makes room.
KnownForEver(l, b) == IF b \in ToSet(l.known) THEN l ELSE [l EXCEPT !.known = Append(@, b)]

\* mruset: only a new element is queued, and the oldest one makes room for it.
Known(l, b) ==
  IF b \in ToSet(l.known) THEN l
  ELSE [l EXCEPT !.known = Append(IF Len(@) = KnownSize THEN Tail(@) ELSE @, b)]

PushInventory(l, b) == IF b \in ToSet(l.known) THEN l ELSE [l EXCEPT !.toSend = Append(@, b)]

\* "Filter out duplicate requests".  x is a CNode and what is sent to it.
PushGetBlocks(x, begin, end) ==
  IF x.link.lastGetBlocks = <<begin, end>> THEN x
  ELSE [link |-> [x.link EXCEPT !.lastGetBlocks = <<begin, end>>],
        out |-> Append(x.out, Message("getblocks", <<begin>>, end))]

\* The first block of the chain of orphans b belongs to.
GetOrphanRoot(O, b) ==
  CHOOSE r \in Chain[b] : Prev[r] \notin O /\ {r} \cup (Chain[b] \ Chain[r]) \subseteq O \cup {b}

-----------------------------------------------------------------------------
(***************************************************************************)
(* ThreadMessageHandler: StartSync and SendMessages.                       *)
(***************************************************************************)
StartSync(n, m) ==
  /\ sync[n] = None
  /\ sync' = [sync EXCEPT ![n] = m]
  /\ link' = [link EXCEPT ![n][m].fStartSync = TRUE]
  /\ UNCHANGED <<have, orphans, best, asked, chan, drops, news>>

\* The inventory that is not known to the peer, without repetitions.
NewInventory(l) == FoldLeft(LAMBDA s, b : IF b \in ToSet(s) \cup ToSet(l.known) THEN s ELSE Append(s, b),
                            <<>>, l.toSend)

\* SendMessages: getblocks to the sync node, inv, getdata.
SendMessages(n, m) ==
  LET l == link[n][m]
      begun == IF l.fStartSync THEN PushGetBlocks([link |-> l, out |-> <<>>], best[n], None)
               ELSE [link |-> l, out |-> <<>>]
      inv == NewInventory(l)
      wanted == SelectSeq(l.due, LAMBDA b : ~AlreadyHave(n, b))
  IN  /\ l.fStartSync \/ l.toSend # <<>> \/ l.due # <<>>
      /\ link' = [link EXCEPT ![n][m] = [FoldLeft(Known, begun.link, inv) EXCEPT
                                           !.fStartSync = FALSE, !.toSend = <<>>, !.due = <<>>]]
      /\ chan' = [chan EXCEPT ![n][m] = @ \o begun.out \o Messages("inv", inv)
                                          \o Messages("getdata", wanted)]
      /\ UNCHANGED <<have, orphans, best, asked, sync, drops, news>>

\* Two minutes after the last request for the block.
RetryDue(n, m) ==
  \E b \in link[n][m].later :
    /\ \A i \in DOMAIN asked[n] : asked[n][i] = b =>
         \A j \in 1 .. i - 1 : asked[n][j] \notin link[n][m].later
    /\ link' = [link EXCEPT ![n][m].later = @ \ {b}, ![n][m].due = Append(@, b)]
    /\ UNCHANGED <<have, orphans, best, asked, sync, chan, drops, news>>

-----------------------------------------------------------------------------
(***************************************************************************)
(* ProcessMessages.                                                        *)
(***************************************************************************)
\* Mutant: hashContinue is forgotten.
ServedNoContinue(n, l, b) == [link |-> l, out |-> Messages("block", <<b>>)]

\* "Trigger them to send a getblocks request for the next batch of inventory"
Served(n, l, b) ==
  IF b = l.hashContinue
  THEN [link |-> [l EXCEPT !.hashContinue = None],
        out |-> Messages("block", <<b>>) \o Messages("inv", <<best[n]>>)]
  ELSE [link |-> l, out |-> Messages("block", <<b>>)]

\* ProcessGetData serves one block at a time, before the next message is looked at.
ProcessGetData(n, m) ==
  LET l == link[n][m]
      b == Head(l.getData)
      x == IF b \in have[n] THEN Served(n, l, b) ELSE [link |-> l, out |-> <<>>]
  IN  /\ l.getData # <<>>
      /\ link' = [link EXCEPT ![n][m] = [x.link EXCEPT !.getData = Tail(@)]]
      /\ chan' = [chan EXCEPT ![n][m] = @ \o x.out]
      /\ UNCHANGED <<have, orphans, best, asked, sync, drops, news>>

\* The first message from m; n answers nothing before it has served m's requests.
Receives(n, m, cmd) ==
  /\ link[n][m].getData = <<>>
  /\ chan[m][n] # <<>>
  /\ Head(chan[m][n]).cmd = cmd

\* getdata: the request is queued, and ProcessGetData serves it now or, when the send
\* buffer is full or the peer is slow, in a later round.
ReceiveGetData(n, m) ==
  /\ Receives(n, m, "getdata")
  /\ link' = [link EXCEPT ![n][m].getData = Head(chan[m][n]).blocks]
  /\ chan' = [chan EXCEPT ![m][n] = Tail(@)]
  /\ UNCHANGED <<have, orphans, best, asked, sync, drops, news>>

\* The blocks of n's best chain after those the locator and it have in common.
Rest(n, begin) == InOrder(Chain[best[n]] \ Chain[begin])

\* "Send the rest of the chain", up to hashStop or to the limit.
ReceiveGetBlocks(n, m) ==
  LET msg == Head(chan[m][n])
      rest == Rest(n, msg.blocks[1])
      stop == {i \in 1 .. Len(rest) : rest[i] = msg.stop}
      upto == IF stop = {} THEN rest ELSE SubSeq(rest, 1, (CHOOSE i \in stop : TRUE) - 1)
      batch == SubSeq(upto, 1, IF Len(upto) < Limit THEN Len(upto) ELSE Limit)
      pushed == FoldLeft(PushInventory, link[n][m], batch)
  IN  /\ Receives(n, m, "getblocks")
      /\ link' = [link EXCEPT ![n][m] =
                    IF Len(batch) = Limit THEN [pushed EXCEPT !.hashContinue = Last(batch)] ELSE pushed]
      /\ chan' = [chan EXCEPT ![m][n] = Tail(@)]
      /\ UNCHANGED <<have, orphans, best, asked, sync, drops, news>>

\* Mutant: a block that has been asked for is left to the other peer.
AskForOnce(n, l, b) == IF b \in ToSet(asked[n]) THEN l ELSE [l EXCEPT !.due = Append(@, b)]

\* AskFor: at once, or two minutes after the last request to any peer.
AskFor(n, l, b) ==
  IF b \in ToSet(asked[n]) THEN [l EXCEPT !.later = @ \cup {b}] ELSE [l EXCEPT !.due = Append(@, b)]

\* One entry of an inv message; "it is possible that we already have the last block
\* in an inv bundle sent in response to getblocks".
ReceivedInv(n, x, b, isLast) ==
  LET y == [x EXCEPT !.link = Known(@, b)]
  IN  IF ~AlreadyHave(n, b) THEN [y EXCEPT !.link = AskFor(n, @, b)]
      ELSE IF b \in orphans[n] THEN PushGetBlocks(y, best[n], GetOrphanRoot(orphans[n], b))
      ELSE IF isLast THEN PushGetBlocks(y, b, None)
      ELSE y

ReceiveInv(n, m) ==
  LET inv == Head(chan[m][n]).blocks
      x == FoldLeft(LAMBDA acc, b : ReceivedInv(n, acc, b, b = Last(inv)),
                    [link |-> link[n][m], out |-> <<>>], inv)
  IN  /\ Receives(n, m, "inv")
      /\ link' = [link EXCEPT ![n][m] = x.link]
      /\ asked' = [asked EXCEPT ![n] = @ \o SelectSeq(inv, LAMBDA b : ~AlreadyHave(n, b) /\ b \notin ToSet(@))]
      /\ chan' = [chan EXCEPT ![m][n] = Tail(@), ![n][m] = @ \o x.out]
      /\ UNCHANGED <<have, orphans, best, sync, drops, news>>

-----------------------------------------------------------------------------
(***************************************************************************)
(* ProcessBlock.                                                           *)
(***************************************************************************)
\* The block and the orphans that can be connected with it.
Connected(n, b) == {b} \cup {o \in orphans[n] : b \in Chain[o] /\ Chain[o] \ Chain[b] \subseteq orphans[n]}

\* Those that become the best block, one after the other.
NewBests(b0, seq) ==
  FoldLeft(LAMBDA s, b : IF Height[b] > Height[IF s = <<>> THEN b0 ELSE Last(s)] THEN Append(s, b) ELSE s,
           <<>>, seq)

\* The blocks of A enter the index, and each new best block is announced to all.
Accept(n, A, links) ==
  LET bests == NewBests(best[n], InOrder(A))
  IN  /\ have' = [have EXCEPT ![n] = @ \cup A]
      /\ orphans' = [orphans EXCEPT ![n] = @ \ A]
      /\ best' = [best EXCEPT ![n] = IF bests = <<>> THEN @ ELSE Last(bests)]
      /\ link' = [link EXCEPT ![n] = [m \in DOMAIN links |-> FoldLeft(PushInventory, links[m], bests)]]

\* The block message, with ProcessBlock and its "Ask this guy to fill in what we're
\* missing".
ReceiveBlock(n, m) ==
  LET b == Head(chan[m][n]).blocks[1]
      l == Known(link[n][m], b)
      x == PushGetBlocks([link |-> l, out |-> <<>>], best[n], GetOrphanRoot(orphans[n], b))
  IN  /\ Receives(n, m, "block")
      /\ asked' = [asked EXCEPT ![n] = IF AlreadyHave(n, b) THEN @ ELSE SelectSeq(@, LAMBDA c : c # b)]
      /\ IF AlreadyHave(n, b)
         THEN /\ link' = [link EXCEPT ![n][m] = l]
              /\ chan' = [chan EXCEPT ![m][n] = Tail(@)]
              /\ UNCHANGED <<have, orphans, best>>
         ELSE IF Prev[b] \notin have[n]
         THEN /\ orphans' = [orphans EXCEPT ![n] = @ \cup {b}]
              /\ link' = [link EXCEPT ![n][m] = x.link]
              /\ chan' = [chan EXCEPT ![m][n] = Tail(@), ![n][m] = @ \o x.out]
              /\ UNCHANGED <<have, best>>
         ELSE /\ Accept(n, Connected(n, b), [link[n] EXCEPT ![m] = l])
              /\ chan' = [chan EXCEPT ![m][n] = Tail(@)]
      /\ UNCHANGED <<sync, drops, news>>

Pairs == {p \in Nodes \X Nodes : p[1] # p[2]}

\* Nothing is on its way, and nobody will ask for anything.
Quiet ==
  /\ \A n \in Nodes : sync[n] # None
  /\ \A p \in Pairs :
       LET l == link[p[1]][p[2]]
       IN  /\ chan[p[1]][p[2]] = <<>>
           /\ ~l.fStartSync /\ l.toSend = <<>> /\ l.due = <<>> /\ l.later = {} /\ l.getData = <<>>

Found == UNION {have[n] : n \in Nodes}

\* A node finds a block on its best chain (CheckWork, submitblock), at any time.
Mine(n, b) ==
  /\ Prev[b] = best[n]
  /\ b \notin Found
  /\ Quiet \/ Cardinality(Found \ UNION {Stored[m] : m \in Nodes}) < MaxFound
  /\ Accept(n, {b}, link[n])
  /\ news' = (news \/ Quiet)
  /\ UNCHANGED <<asked, sync, chan, drops>>

-----------------------------------------------------------------------------
\* The connection breaks, at any time, and a new one is made.
Reconnect(n, m) ==
  /\ drops < MaxDrops
  /\ drops' = drops + 1 /\ news' = FALSE
  /\ link' = [link EXCEPT ![n][m] = NewLink, ![m][n] = NewLink]
  /\ chan' = [chan EXCEPT ![n][m] = <<>>, ![m][n] = <<>>]
  /\ sync' = [sync EXCEPT ![n] = IF @ = m THEN None ELSE @, ![m] = IF @ = n THEN None ELSE @]
  /\ UNCHANGED <<have, orphans, best, asked>>

Handle(n, m) ==
  \/ StartSync(n, m) \/ SendMessages(n, m) \/ RetryDue(n, m)
  \/ ProcessGetData(n, m)
  \/ ReceiveGetData(n, m) \/ ReceiveGetBlocks(n, m) \/ ReceiveInv(n, m) \/ ReceiveBlock(n, m)

Work == \E p \in Pairs : Handle(p[1], p[2])

Next ==
  \/ Work
  \/ \E n \in Nodes, b \in Blocks : Mine(n, b)
  \/ \E p \in Pairs : Reconnect(p[1], p[2])

Spec == Init /\ [][Next]_vars

\* The message threads and the clock go on; blocks may be found, connections may last.
FairSpec == Spec /\ WF_vars(Work)

-----------------------------------------------------------------------------
SyncTypeOK ==
  \A n \in Nodes :
    /\ have[n] \subseteq Blocks /\ orphans[n] \subseteq Blocks \ have[n]
    /\ best[n] \in have[n] /\ \A b \in have[n] : Chain[b] \subseteq have[n]
    /\ ToSet(asked[n]) \subseteq Blocks
    /\ sync[n] \in (Nodes \ {n}) \cup {None}
    /\ \A m \in Nodes \ {n} :
         /\ ToSet(link[n][m].known) \subseteq Blocks /\ Len(link[n][m].known) <= KnownSize
         /\ link[n][m].hashContinue \in Blocks \cup {None}
         /\ ToSet(link[n][m].getData) \cup ToSet(link[n][m].due) \cup link[n][m].later \subseteq Blocks

InSync == \A m, n \in Nodes : Height[best[m]] = Height[best[n]]

\* A connection has broken, and no block has been found at rest since.
Cut == drops > 0 /\ ~news

\* A branch that is as long as a batch of getblocks has been overtaken.
LongSideChain ==
  \E b, c \in Found : Height[b] < Height[c] /\ Cardinality(Chain[b] \ Chain[c]) >= Limit

(***************************************************************************)
(* When nothing is on its way and nobody will ask for anything, no node    *)
(* has a better chain than another (hashContinue, the side-chain rule of   *)
(* inv, orphan roots and AskFor leave no gap), with two exceptions.  After *)
(* a connection has broken, a batch whose last block the peer knows        *)
(* already can hide the rest of the chain; the next block found at rest    *)
(* uncovers it.  And a node on a branch as long as a batch can stop: the   *)
(* side-chain rule asks for the next batch with the same locator again,    *)
(* and PushGetBlocks filters that request out.                             *)
(***************************************************************************)
NoStall == Quiet /\ ~Cut /\ ~LongSideChain => InSync

(***************************************************************************)
(* The exchange comes to an end: the nodes do not go on asking each other  *)
(* for ever, although batches are limited, blocks come out of order,       *)
(* requests are put off and connections break at any time.  Nodes that     *)
(* have come to rest for good have the same greatest trust, with the       *)
(* exceptions of NoStall.  No block has to be found for this.              *)
(***************************************************************************)
Synced == <>[](Quiet /\ (InSync \/ Cut \/ LongSideChain))
=============================================================================
