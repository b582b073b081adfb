------------------------------- MODULE AddrMan -------------------------------
(***************************************************************************)
(* The peer address manager of src/src/addrman.h and addrman.cpp.  Every   *)
(* operation runs under CAddrMan::cs, so each is one step on the whole     *)
(* object am.  The object keeps the same facts several times: mapInfo and  *)
(* mapAddr, vRandom and nRandomPos, the buckets and nRefCount/fInTried,    *)
(* and two counters.  Check_(), compiled only under DEBUG_ADDRMAN, says    *)
(* how they have to agree.                                                 *)
(*                                                                         *)
(* Time stamps other than nLastSuccess, attempts and services decide only  *)
(* which entry ShrinkNew takes, whether Add_ returns early and how Select_ *)
(* weighs entries; those are free choices here, so Attempt_ and            *)
(* Connected_, which write nothing else, do not appear.  Positions in      *)
(* vectors start at 1.                                                     *)
(***************************************************************************)
EXTENDS Integers, FiniteSets, Sequences, SequencesExt

CONSTANTS
  Addrs,      \* routable CService values (address and port)
  Ips,        \* CNetAddr values
  Ip,         \* the address of a service, which is what mapAddr is keyed with
  Sources,    \* who told us
  NewBucket,  \* CAddrInfo::GetNewBucket, [Ips -> [Sources -> bucket]]
  TriedBucket,                        \* CAddrInfo::GetTriedBucket, [Addrs -> bucket]
  ADDRMAN_NEW_BUCKET_COUNT, ADDRMAN_NEW_BUCKET_SIZE,
  ADDRMAN_TRIED_BUCKET_COUNT, ADDRMAN_TRIED_BUCKET_SIZE,
  ADDRMAN_NEW_BUCKETS_PER_ADDRESS,
  ADDRMAN_TRIED_ENTRIES_INSPECT_ON_EVICT,
  ADDRMAN_GETADDR_MAX_PCT, ADDRMAN_GETADDR_MAX,
  Times,      \* the clock readings passed to Good()
  MaxIds      \* bound on nIdCount between two starts

NewBuckets == 0 .. ADDRMAN_NEW_BUCKET_COUNT - 1
TriedBuckets == 0 .. ADDRMAN_TRIED_BUCKET_COUNT - 1

ASSUME AddrManAssumption ==
  /\ Ip \in [Addrs -> Ips]
  /\ NewBucket \in [Ips -> [Sources -> NewBuckets]]
  /\ TriedBucket \in [Addrs -> TriedBuckets]
  /\ \A n \in {ADDRMAN_NEW_BUCKET_COUNT, ADDRMAN_NEW_BUCKET_SIZE,
               ADDRMAN_TRIED_BUCKET_COUNT, ADDRMAN_TRIED_BUCKET_SIZE,
               ADDRMAN_NEW_BUCKETS_PER_ADDRESS,
               ADDRMAN_TRIED_ENTRIES_INSPECT_ON_EVICT} : n \in Nat \ {0}
  /\ ADDRMAN_GETADDR_MAX_PCT \in 0 .. 100 /\ ADDRMAN_GETADDR_MAX \in Nat
  /\ Times \subseteq Nat \ {0}
  /\ MaxIds \in Nat

VARIABLE am    \* the CAddrMan

Least(m, n) == IF m < n THEN m ELSE n

Empty ==
  [mapInfo |-> <<>>, mapAddr |-> <<>>, vRandom |-> <<>>, nNew |-> 0, nTried |-> 0,
   nIdCount |-> 0, vvNew |-> [b \in NewBuckets |-> {}],
   vvTried |-> [k \in TriedBuckets |-> <<>>]]

Init == am = Empty

-----------------------------------------------------------------------------
(***************************************************************************)
(* The helpers work on an object a; those that draw random numbers return  *)
(* the set of their possible results.                                      *)
(***************************************************************************)
With(f, x, y) == [z \in DOMAIN f \cup {x} |-> IF z = x THEN y ELSE f[z]]
Without(f, x) == [z \in DOMAIN f \ {x} |-> f[z]]

Create(a, addr, src) ==
  [a EXCEPT !.nIdCount = @ + 1,
            !.mapInfo = With(@, a.nIdCount,
                             [addr |-> addr, source |-> src, nLastSuccess |-> 0, nRefCount |-> 0,
                              fInTried |-> FALSE, nRandomPos |-> Len(a.vRandom) + 1]),
            !.mapAddr = With(@, Ip[addr], a.nIdCount),
            !.vRandom = Append(@, a.nIdCount)]

\* Only the vector is swapped.
SwapRandomVectorOnly(a, p, q) ==
  [a EXCEPT !.vRandom[p] = a.vRandom[q], !.vRandom[q] = a.vRandom[p]]

SwapRandom(a, p, q) ==
  [a EXCEPT !.mapInfo[a.vRandom[p]].nRandomPos = q, !.mapInfo[a.vRandom[q]].nRandomPos = p,
            !.vRandom[p] = a.vRandom[q], !.vRandom[q] = a.vRandom[p]]

\* What ShrinkNew does with an entry that is in no new bucket any more.
Erase(a, id) ==
  LET s == SwapRandom(a, a.mapInfo[id].nRandomPos, Len(a.vRandom))
  IN  [s EXCEPT !.vRandom = Front(@), !.mapAddr = Without(@, Ip[a.mapInfo[id].addr]),
                !.mapInfo = Without(@, id), !.nNew = @ - 1]

(***************************************************************************)
(* ShrinkNew takes the first entry that IsTerrible() or else the oldest of *)
(* four random ones, and does the same with it in both cases.              *)
(***************************************************************************)
ShrinkNew(a, b) ==
  {LET u == [a EXCEPT !.mapInfo[id].nRefCount = @ - 1]
   IN  [(IF u.mapInfo[id].nRefCount = 0 THEN Erase(u, id) ELSE u)
          EXCEPT !.vvNew[b] = @ \ {id}] : id \in a.vvNew[b]}

(***************************************************************************)
(* SelectTried shuffles the first few entries of a tried bucket and picks  *)
(* one: the results are the shuffled vector and the position it returns,   *)
(* which is where the least recently tried of them was before its swap.    *)
(***************************************************************************)
SelectTried(a, k) ==
  LET size == Len(a.vvTried[k])
      success(id) == a.mapInfo[id].nLastSuccess
      Inspect(r, i, p) ==
        LET found == r.vTried[p]
            older == r.nOldest = -1 \/ success(found) < success(r.nOldest)
        IN  [vTried |-> [r.vTried EXCEPT ![p] = r.vTried[i], ![i] = found],
             nOldest |-> IF older THEN found ELSE r.nOldest,
             nPos |-> IF older THEN p ELSE r.nPos]
      After[i \in 0 .. size] ==
        IF i = 0 THEN {[vTried |-> a.vvTried[k], nOldest |-> -1, nPos |-> -1]}
        ELSE {Inspect(r, i, p) : r \in After[i - 1], p \in i .. size}
  IN  After[Least(ADDRMAN_TRIED_ENTRIES_INSPECT_ON_EVICT, size)]

\* nNew is not counted down.
LeaveNewUncounted(a, id) ==
  [a EXCEPT !.vvNew = [b \in NewBuckets |-> a.vvNew[b] \ {id}],
            !.mapInfo[id].nRefCount = @ - Cardinality({b \in NewBuckets : id \in a.vvNew[b]})]

\* Leave the new buckets: nRefCount counts them down.
LeaveNew(a, id) ==
  [a EXCEPT !.vvNew = [b \in NewBuckets |-> a.vvNew[b] \ {id}],
            !.mapInfo[id].nRefCount = @ - Cardinality({b \in NewBuckets : id \in a.vvNew[b]}),
            !.nNew = @ - 1]

\* Leave the bucket it was found in, and not the others.
MakeTriedFromOrigin(a, id, origin) ==
  LET k == TriedBucket[a.mapInfo[id].addr]
  IN  {[a EXCEPT !.vvNew[origin] = @ \ {id}, !.mapInfo[id].nRefCount = @ - 1, !.nNew = @ - 1,
                 !.vvTried[k] = Append(@, id), !.nTried = @ + 1, !.mapInfo[id].fInTried = TRUE]}

\* nTried is counted up when an entry is replaced, too.
MakeTriedCountsTwice(a, id, origin) ==
  LET k == TriedBucket[a.mapInfo[id].addr]
      l == [LeaveNew(a, id) EXCEPT !.mapInfo[id].fInTried = TRUE, !.nTried = @ + 1]
  IN  IF Len(a.vvTried[k]) < ADDRMAN_TRIED_BUCKET_SIZE
      THEN {[l EXCEPT !.vvTried[k] = Append(@, id)]}
      ELSE {LET old == r.vTried[r.nPos]
            IN  [l EXCEPT !.mapInfo[old].fInTried = FALSE, !.mapInfo[old].nRefCount = 1,
                          !.vvNew[origin] = @ \cup {old}, !.nNew = @ + 1,
                          !.vvTried[k] = [r.vTried EXCEPT ![r.nPos] = id]] : r \in SelectTried(l, k)}

\* The evicted entry always goes back to its own new bucket.
MakeTriedNoPlaceCheck(a, id, origin) ==
  LET k == TriedBucket[a.mapInfo[id].addr]
      l == [LeaveNew(a, id) EXCEPT !.mapInfo[id].fInTried = TRUE]
  IN  IF Len(a.vvTried[k]) < ADDRMAN_TRIED_BUCKET_SIZE
      THEN {[l EXCEPT !.vvTried[k] = Append(@, id), !.nTried = @ + 1]}
      ELSE {LET old == r.vTried[r.nPos]
                own == NewBucket[Ip[a.mapInfo[old].addr]][a.mapInfo[old].source]
            IN  [l EXCEPT !.mapInfo[old].fInTried = FALSE, !.mapInfo[old].nRefCount = 1,
                          !.vvNew[own] = @ \cup {old}, !.nNew = @ + 1,
                          !.vvTried[k] = [r.vTried EXCEPT ![r.nPos] = id]] : r \in SelectTried(l, k)}

(***************************************************************************)
(* MakeTried: to the tried bucket if it has place; otherwise in place of   *)
(* an entry that goes back to its own new bucket or, when that is full, to *)
(* the one id came from ("there is certainly place there").                *)
(***************************************************************************)
MakeTried(a, id, origin) ==
  LET k == TriedBucket[a.mapInfo[id].addr]
      l == [LeaveNew(a, id) EXCEPT !.mapInfo[id].fInTried = TRUE]
  IN  IF Len(a.vvTried[k]) < ADDRMAN_TRIED_BUCKET_SIZE
      THEN {[l EXCEPT !.vvTried[k] = Append(@, id), !.nTried = @ + 1]}
      ELSE {LET old == r.vTried[r.nPos]
                own == NewBucket[Ip[a.mapInfo[old].addr]][a.mapInfo[old].source]
                u   == IF Cardinality(l.vvNew[own]) < ADDRMAN_NEW_BUCKET_SIZE THEN own ELSE origin
            IN  [l EXCEPT !.mapInfo[old].fInTried = FALSE, !.mapInfo[old].nRefCount = 1,
                          !.vvNew[u] = @ \cup {old}, !.nNew = @ + 1,
                          !.vvTried[k] = [r.vTried EXCEPT ![r.nPos] = id]] : r \in SelectTried(l, k)}

-----------------------------------------------------------------------------
Known(addr) == Ip[addr] \in DOMAIN am.mapAddr
IdOf(addr) == am.mapAddr[Ip[addr]]

\* The early returns of Add_ for an address that is known; time and chance add more.
MayAddAgain(addr) ==
  LET info == am.mapInfo[IdOf(addr)]
  IN  ~info.fInTried /\ info.nRefCount # ADDRMAN_NEW_BUCKETS_PER_ADDRESS

\* Put id into new bucket b, which may have to lose another entry first.
EnterNew(a, id, b) ==
  LET c == [a EXCEPT !.mapInfo[id].nRefCount = @ + 1]
  IN  \E s \in IF Cardinality(a.vvNew[b]) = ADDRMAN_NEW_BUCKET_SIZE THEN ShrinkNew(c, b) ELSE {c} :
        am' = [s EXCEPT !.vvNew[b] = @ \cup {id}]

Add_(addr, src) ==
  LET b == NewBucket[Ip[addr]][src]
  IN  \/ /\ Known(addr)
         /\ MayAddAgain(addr)
         /\ IdOf(addr) \notin am.vvNew[b]
         /\ EnterNew(am, IdOf(addr), b)
      \/ /\ ~Known(addr)
         /\ am.nIdCount < MaxIds
         /\ EnterNew([Create(am, addr, src) EXCEPT !.nNew = @ + 1], am.nIdCount, b)

\* Good_ does nothing for another port; MakeTried starts from any bucket that has the entry.
Good_(addr, time) ==
  LET id == IdOf(addr)
      a  == [am EXCEPT !.mapInfo[id].nLastSuccess = time]
      In == {b \in NewBuckets : id \in am.vvNew[b]}
  IN  /\ Known(addr)
      /\ am.mapInfo[id].addr = addr
      /\ IF am.mapInfo[id].fInTried \/ In = {}
         THEN am' = a
         ELSE \E b \in In : am' \in MakeTried(a, id, b)

\* The shuffle at the head of vRandom; the answer is its first nNodes entries.
GetAddr_ ==
  LET size   == Len(am.vRandom)
      nNodes == Least((ADDRMAN_GETADDR_MAX_PCT * size) \div 100, ADDRMAN_GETADDR_MAX)
      After[n \in 0 .. size] ==
        IF n = 0 THEN {am} ELSE {SwapRandom(a, n, p) : a \in After[n - 1], p \in n .. size}
  IN  am' \in After[nNodes]

-----------------------------------------------------------------------------
(***************************************************************************)
(* peers.dat: new entries numbered in the order of their ids, then tried   *)
(* ones, then the new buckets as sets of those numbers.                    *)
(***************************************************************************)
NewIds(a) == {id \in DOMAIN a.mapInfo : a.mapInfo[id].nRefCount # 0}
TriedIds(a) == {id \in DOMAIN a.mapInfo : a.mapInfo[id].fInTried}

\* A finite set of numbers as an increasing sequence.
InOrder(S) ==
  [i \in 1 .. Cardinality(S) |-> CHOOSE n \in S : Cardinality({m \in S : m < n}) = i - 1]
Head_(s, n) == SubSeq(s, 1, Least(n, Len(s)))

\* mapUnkIds numbers all the entries, not only the new ones.
UnkIdOfAny(a, id) == Cardinality({j \in DOMAIN a.mapInfo : j < id})

UnkId(a, id) == Cardinality({j \in NewIds(a) : j < id})

Serialize(a) ==
  LET Stored(ids) == [i \in DOMAIN ids |-> [addr |-> a.mapInfo[ids[i]].addr,
                                            source |-> a.mapInfo[ids[i]].source,
                                            nLastSuccess |-> a.mapInfo[ids[i]].nLastSuccess]]
  IN  [new |-> Stored(Head_(InOrder(NewIds(a)), a.nNew)),
       tried |-> Stored(Head_(InOrder(TriedIds(a)), a.nTried)),
       vvNew |-> [b \in NewBuckets |-> {UnkId(a, id) : id \in a.vvNew[b]}]]

(***************************************************************************)
(* Reading it: ids start again, nRefCount and fInTried are counted anew, a *)
(* tried entry is lost when its bucket is full.                            *)
(***************************************************************************)
Unserialize(f) ==
  LET bucket(i) == TriedBucket[f.tried[i].addr]
      kept == InOrder({i \in DOMAIN f.tried :
                Cardinality({j \in 1 .. i - 1 : bucket(j) = bucket(i)}) < ADDRMAN_TRIED_BUCKET_SIZE})
      nNew == Len(f.new)
      size == nNew + Len(kept)
      Record(id) == IF id < nNew THEN f.new[id + 1] ELSE f.tried[kept[id - nNew + 1]]
      vvNew == [b \in NewBuckets |->
                 {id \in f.vvNew[b] : Cardinality({c \in 0 .. b - 1 : id \in f.vvNew[c]})
                                        < ADDRMAN_NEW_BUCKETS_PER_ADDRESS}]
      Info(id) == [addr |-> Record(id).addr, source |-> Record(id).source,
                   nLastSuccess |-> Record(id).nLastSuccess,
                   nRefCount |-> Cardinality({b \in NewBuckets : id \in vvNew[b]}),
                   fInTried |-> id >= nNew, nRandomPos |-> id + 1]
      ids == [i \in 1 .. size |-> i - 1]
  IN  [mapInfo |-> [id \in 0 .. size - 1 |-> Info(id)],
       mapAddr |-> [ip \in {Ip[Record(id).addr] : id \in 0 .. size - 1} |->
                      CHOOSE id \in 0 .. size - 1 :
                        /\ Ip[Record(id).addr] = ip
                        /\ \A j \in id + 1 .. size - 1 : Ip[Record(j).addr] # ip],
       vRandom |-> ids, nNew |-> nNew, nTried |-> Len(kept), nIdCount |-> size, vvNew |-> vvNew,
       vvTried |-> [k \in TriedBuckets |->
                      InOrder({id \in nNew .. size - 1 : TriedBucket[Record(id).addr] = k})]]

(***************************************************************************)
(* The node stops, which dumps am (StopNode, net.cpp:1758), and starts     *)
(* again.  After a crash it starts from the dump of up to 15 minutes ago:  *)
(* the file is replaced by a rename, so it is whole, and the start reaches *)
(* a state that a stop and start at that moment would have.  That step     *)
(* back is not among the steps here: what holds in every state holds after *)
(* it, but TriedNeverDeleted, which compares two states, leaves it out.    *)
(***************************************************************************)
Restart == am' = Unserialize(Serialize(am))

Next ==
  \/ \E addr \in Addrs, src \in Sources : Add_(addr, src)
  \/ \E addr \in Addrs, time \in Times : Good_(addr, time)
  \/ GetAddr_
  \/ Restart

Spec == Init /\ [][Next]_am
-----------------------------------------------------------------------------
Ids == 0 .. MaxIds - 1

AddrTypeOK ==
  /\ DOMAIN am.mapInfo \subseteq Ids
  /\ \A id \in DOMAIN am.mapInfo :
       am.mapInfo[id] \in [addr : Addrs, source : Sources, nLastSuccess : {0} \cup Times,
                           nRefCount : 0 .. ADDRMAN_NEW_BUCKETS_PER_ADDRESS,
                           fInTried : BOOLEAN, nRandomPos : 1 .. MaxIds]
  /\ DOMAIN am.mapAddr \subseteq Ips
  /\ \A ip \in DOMAIN am.mapAddr : am.mapAddr[ip] \in Ids
  /\ am.vRandom \in Seq(Ids)
  /\ am.nNew \in 0 .. MaxIds /\ am.nTried \in 0 .. MaxIds /\ am.nIdCount \in 0 .. MaxIds
  /\ am.vvNew \in [NewBuckets -> SUBSET Ids]
  /\ am.vvTried \in [TriedBuckets -> Seq(Ids)]

\* Check_ -7, -9, -10: nTried and nNew count the entries, and size() their places.
CountersExact ==
  /\ am.nTried = Cardinality(TriedIds(am))
  /\ am.nNew = Cardinality(DOMAIN am.mapInfo \ TriedIds(am))
  /\ Len(am.vRandom) = am.nTried + am.nNew

\* Check_ -5, -14: mapAddr and vRandom are exact indexes of mapInfo.
IndexesAgree ==
  /\ {Ip[am.mapInfo[id].addr] : id \in DOMAIN am.mapInfo} = DOMAIN am.mapAddr
  /\ \A id \in DOMAIN am.mapInfo : am.mapAddr[Ip[am.mapInfo[id].addr]] = id
  /\ \A id \in DOMAIN am.mapInfo : am.mapInfo[id].nRandomPos \in DOMAIN am.vRandom
                                   /\ am.vRandom[am.mapInfo[id].nRandomPos] = id
  /\ \A p \in DOMAIN am.vRandom : am.vRandom[p] \in DOMAIN am.mapInfo

\* Check_ -1 to -4 and -11 to -15: a tried entry is in its own tried bucket, once, and
\* in no new bucket; any other is in nRefCount > 0 new buckets and in no tried one.
BucketsExact ==
  /\ \A k \in TriedBuckets : \A p \in DOMAIN am.vvTried[k] :
       am.vvTried[k][p] \in TriedIds(am) /\ TriedBucket[am.mapInfo[am.vvTried[k][p]].addr] = k
  /\ \A id \in TriedIds(am) :
       /\ Cardinality({at \in TriedBuckets \X (1 .. ADDRMAN_TRIED_BUCKET_SIZE) :
                         at[2] \in DOMAIN am.vvTried[at[1]] /\ am.vvTried[at[1]][at[2]] = id}) = 1
       /\ am.mapInfo[id].nRefCount = 0 /\ am.mapInfo[id].nLastSuccess # 0
  /\ \A b \in NewBuckets : am.vvNew[b] \subseteq DOMAIN am.mapInfo \ TriedIds(am)
  /\ \A id \in DOMAIN am.mapInfo \ TriedIds(am) :
       /\ am.mapInfo[id].nRefCount = Cardinality({b \in NewBuckets : id \in am.vvNew[b]})
       /\ am.mapInfo[id].nRefCount > 0

(***************************************************************************)
(* Everything Check_ looks at, which no build calls: after any sequence of *)
(* additions, promotions, evictions, shuffles and restarts the counters,   *)
(* mapAddr, vRandom, the buckets and the reference counts say the same.    *)
(* MakeTried and ShrinkNew assert parts of it.                             *)
(***************************************************************************)
CheckPasses == CountersExact /\ IndexesAgree /\ BucketsExact

(***************************************************************************)
(* "Only keep a limited number of addresses around": no bucket outgrows    *)
(* its limit, not even the new bucket that takes an entry evicted from a   *)
(* full tried bucket because its own is full ("there is certainly place").  *)
(***************************************************************************)
BucketsBounded ==
  /\ \A b \in NewBuckets : Cardinality(am.vvNew[b]) <= ADDRMAN_NEW_BUCKET_SIZE
  /\ \A k \in TriedBuckets : Len(am.vvTried[k]) <= ADDRMAN_TRIED_BUCKET_SIZE

(***************************************************************************)
(* Select_ chooses a table by the counters and then draws buckets under    *)
(* the lock until one is not empty: a table it may choose is never empty.  *)
(***************************************************************************)
SelectFindsOne ==
  Len(am.vRandom) > 0 =>
    /\ am.nTried > 0 => \E k \in TriedBuckets : am.vvTried[k] # <<>>
    /\ am.nTried = 0 \/ am.nNew > 0 => \E b \in NewBuckets : am.vvNew[b] # {}

\* What a table says, without ids and without order.
Tables(a) ==
  [new |-> [b \in NewBuckets |-> {a.mapInfo[id].addr : id \in a.vvNew[b]}],
   tried |-> [k \in TriedBuckets |-> {a.mapInfo[id].addr : id \in ToSet(a.vvTried[k])}],
   info |-> {<<a.mapInfo[id].addr, a.mapInfo[id].source, a.mapInfo[id].nLastSuccess,
               a.mapInfo[id].nRefCount, a.mapInfo[id].fInTried>> : id \in DOMAIN a.mapInfo}]

(***************************************************************************)
(* peers.dat has neither ids nor tried buckets nor reference counts, which *)
(* "are instead reconstructed": reading it back gives every address its    *)
(* buckets, count and table again.                                         *)
(***************************************************************************)
ReloadKeepsTables == Tables(Unserialize(Serialize(am))) = Tables(am)

(***************************************************************************)
(* "They are never deleted while in the tried table, only possibly evicted *)
(* back to the new table."  No operation deletes one, and a clean stop and *)
(* start does not; a start from an older dump, after a crash, forgets what *)
(* has been promoted or added since.                                       *)
(***************************************************************************)
TriedNeverDeleted ==
  [][\A id \in TriedIds(am) : Ip[am.mapInfo[id].addr] \in DOMAIN am'.mapAddr]_am
=============================================================================
