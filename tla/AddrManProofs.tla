--------------------------- MODULE AddrManProofs ---------------------------
(***************************************************************************)
(* Everything the runs check of the peer address manager, for any number   *)
(* of addresses, buckets and sources and any bucket functions.             *)
(*                                                                         *)
(* The invariant is what Check_ says, made inductive: vRandom and          *)
(* nRandomPos are inverse to each other, so are mapAddr and the addresses  *)
(* of mapInfo, and every tried bucket lists its own entries without        *)
(* repetition.  An operation changes several of these at a time and calls  *)
(* helpers while the object is half way, so the part about the new buckets *)
(* (NewOK) has an entry x that counts d buckets more than it is in.        *)
(***************************************************************************)
EXTENDS AddrMan, FiniteSetTheorems, FunctionTheorems, WellFoundedInduction, TLAPS

Info == [addr : Addrs, source : Sources, nLastSuccess : {0} \cup Times, nRefCount : Nat,
         fInTried : BOOLEAN, nRandomPos : Nat]

Object(m, r, v, n, t, c, nb, tb) ==
  [mapInfo |-> m, mapAddr |-> r, vRandom |-> v, nNew |-> n, nTried |-> t, nIdCount |-> c,
   vvNew |-> nb, vvTried |-> tb]

\* The types of the fields.
Shape(a) ==
  /\ a = Object(a.mapInfo, a.mapAddr, a.vRandom, a.nNew, a.nTried, a.nIdCount, a.vvNew, a.vvTried)
  /\ DOMAIN a.mapInfo \subseteq 0 .. a.nIdCount - 1 /\ a.mapInfo \in [DOMAIN a.mapInfo -> Info]
  /\ DOMAIN a.mapAddr \subseteq Ips /\ a.mapAddr \in [DOMAIN a.mapAddr -> Nat]
  /\ a.vRandom \in Seq(Nat)
  /\ a.nNew \in Int /\ a.nTried \in Int /\ a.nIdCount \in Nat
  /\ a.vvNew \in [NewBuckets -> SUBSET Nat]
  /\ a.vvTried \in [TriedBuckets -> Seq(Nat)]

\* vRandom and nRandomPos are inverse to each other.
RandomOK(m, v) ==
  /\ \A id \in DOMAIN m : m[id].nRandomPos \in 1 .. Len(v) /\ v[m[id].nRandomPos] = id
  /\ \A p \in 1 .. Len(v) : v[p] \in DOMAIN m /\ m[v[p]].nRandomPos = p

\* So are mapAddr and the addresses of the entries.
AddrOK(m, r) ==
  /\ \A id \in DOMAIN m : Ip[m[id].addr] \in DOMAIN r /\ r[Ip[m[id].addr]] = id
  /\ \A ip \in DOMAIN r : r[ip] \in DOMAIN m /\ Ip[m[r[ip]].addr] = ip

TriedOf(m) == {id \in DOMAIN m : m[id].fInTried}
NewOf(m) == DOMAIN m \ TriedOf(m)

\* A tried bucket lists its own entries, each of them once.
TriedOK(m, tb) ==
  /\ \A k \in TriedBuckets :
       /\ Len(tb[k]) <= ADDRMAN_TRIED_BUCKET_SIZE
       /\ \A p \in 1 .. Len(tb[k]) : tb[k][p] \in TriedOf(m) /\ TriedBucket[m[tb[k][p]].addr] = k
       /\ \A p, q \in 1 .. Len(tb[k]) : tb[k][p] = tb[k][q] => p = q
  /\ \A id \in TriedOf(m) :
       /\ \E p \in 1 .. Len(tb[TriedBucket[m[id].addr]]) : tb[TriedBucket[m[id].addr]][p] = id
       /\ m[id].nRefCount = 0 /\ m[id].nLastSuccess # 0

BucketsOf(nb, id) == {b \in NewBuckets : id \in nb[b]}

\* The others count the new buckets they are in; x counts d more.
NewOK(m, nb, x, d) ==
  /\ \A b \in NewBuckets : nb[b] \subseteq NewOf(m) /\ Cardinality(nb[b]) <= ADDRMAN_NEW_BUCKET_SIZE
  /\ \A id \in NewOf(m) :
       /\ m[id].nRefCount = Cardinality(BucketsOf(nb, id)) + (IF id = x THEN d ELSE 0)
       /\ m[id].nRefCount \in 1 .. ADDRMAN_NEW_BUCKETS_PER_ADDRESS

\* The counters.
CountOK(m, v, n, t) ==
  /\ n = Cardinality(NewOf(m)) /\ t = Cardinality(TriedOf(m))
  /\ Len(v) = n + t

Good(a, x, d) ==
  /\ Shape(a)
  /\ RandomOK(a.mapInfo, a.vRandom)
  /\ AddrOK(a.mapInfo, a.mapAddr)
  /\ TriedOK(a.mapInfo, a.vvTried)
  /\ NewOK(a.mapInfo, a.vvNew, x, d)
  /\ CountOK(a.mapInfo, a.vRandom, a.nNew, a.nTried)

\* The entries say the same but for nRandomPos.
SameButPos(m, m2) ==
  \A id \in DOMAIN m2 :
    /\ m2[id].addr = m[id].addr /\ m2[id].source = m[id].source
    /\ m2[id].nLastSuccess = m[id].nLastSuccess /\ m2[id].nRefCount = m[id].nRefCount
    /\ m2[id].fInTried = m[id].fInTried

-----------------------------------------------------------------------------
(***************************************************************************)
(* The fields of an updated object.                                        *)
(***************************************************************************)
LEMMA FieldsOf ==
  ASSUME NEW m, NEW r, NEW v, NEW n, NEW t, NEW c, NEW nb, NEW tb
  PROVE  LET a == Object(m, r, v, n, t, c, nb, tb)
         IN  /\ a.mapInfo = m /\ a.mapAddr = r /\ a.vRandom = v /\ a.nNew = n /\ a.nTried = t
             /\ a.nIdCount = c /\ a.vvNew = nb /\ a.vvTried = tb
BY DEF Object

\* An update of one field; one of several fields is several of these.
SetInfo(a, y) == [a EXCEPT !.mapInfo = y]
SetAddr(a, y) == [a EXCEPT !.mapAddr = y]
SetRandom(a, y) == [a EXCEPT !.vRandom = y]
SetNew(a, y) == [a EXCEPT !.nNew = y]
SetTried(a, y) == [a EXCEPT !.nTried = y]
SetIdCount(a, y) == [a EXCEPT !.nIdCount = y]
SetVvNew(a, y) == [a EXCEPT !.vvNew = y]
SetVvTried(a, y) == [a EXCEPT !.vvTried = y]

LEMMA SetFields ==
  ASSUME NEW x1, NEW x2, NEW x3, NEW x4, NEW x5, NEW x6, NEW x7, NEW x8, NEW y
  PROVE  LET a == Object(x1, x2, x3, x4, x5, x6, x7, x8)
         IN  /\ SetInfo(a, y) = Object(y, x2, x3, x4, x5, x6, x7, x8)
             /\ SetAddr(a, y) = Object(x1, y, x3, x4, x5, x6, x7, x8)
             /\ SetRandom(a, y) = Object(x1, x2, y, x4, x5, x6, x7, x8)
             /\ SetNew(a, y) = Object(x1, x2, x3, y, x5, x6, x7, x8)
             /\ SetTried(a, y) = Object(x1, x2, x3, x4, y, x6, x7, x8)
             /\ SetIdCount(a, y) = Object(x1, x2, x3, x4, x5, y, x7, x8)
             /\ SetVvNew(a, y) = Object(x1, x2, x3, x4, x5, x6, y, x8)
             /\ SetVvTried(a, y) = Object(x1, x2, x3, x4, x5, x6, x7, y)
<1>1. PICK a : a = Object(x1, x2, x3, x4, x5, x6, x7, x8)
  OBVIOUS
<1>2. SetInfo(a, y) = Object(y, x2, x3, x4, x5, x6, x7, x8)
  BY <1>1 DEF Object, SetInfo
<1>3. SetAddr(a, y) = Object(x1, y, x3, x4, x5, x6, x7, x8)
  BY <1>1 DEF Object, SetAddr
<1>4. SetRandom(a, y) = Object(x1, x2, y, x4, x5, x6, x7, x8)
  BY <1>1 DEF Object, SetRandom
<1>5. SetNew(a, y) = Object(x1, x2, x3, y, x5, x6, x7, x8)
  BY <1>1 DEF Object, SetNew
<1>6. SetTried(a, y) = Object(x1, x2, x3, x4, y, x6, x7, x8)
  BY <1>1 DEF Object, SetTried
<1>7. SetIdCount(a, y) = Object(x1, x2, x3, x4, x5, y, x7, x8)
  BY <1>1 DEF Object, SetIdCount
<1>8. SetVvNew(a, y) = Object(x1, x2, x3, x4, x5, x6, y, x8)
  BY <1>1 DEF Object, SetVvNew
<1>9. SetVvTried(a, y) = Object(x1, x2, x3, x4, x5, x6, x7, y)
  BY <1>1 DEF Object, SetVvTried
<1> QED BY <1>1, <1>2, <1>3, <1>4, <1>5, <1>6, <1>7, <1>8, <1>9

\* One field of one entry is changed.
PosSet(m, id, n) == [m EXCEPT ![id].nRandomPos = n]

LEMMA SetPos ==
  ASSUME NEW D, NEW m \in [D -> Info], NEW id \in D, NEW n \in Nat,
         NEW m2, m2 = PosSet(m, id, n)
  PROVE  /\ m2 \in [D -> Info] /\ SameButPos(m, m2)
         /\ \A x \in D : m2[x].nRandomPos = IF x = id THEN n ELSE m[x].nRandomPos
BY DEF Info, SameButPos, PosSet

\* The entries say the same but for nRefCount.
SameButRef(m, m2) ==
  \A id \in DOMAIN m2 :
    /\ m2[id].addr = m[id].addr /\ m2[id].source = m[id].source
    /\ m2[id].nLastSuccess = m[id].nLastSuccess /\ m2[id].fInTried = m[id].fInTried
    /\ m2[id].nRandomPos = m[id].nRandomPos

RefSet(m, id, n) == [m EXCEPT ![id].nRefCount = n]

LEMMA SetRef ==
  ASSUME NEW D, NEW m \in [D -> Info], NEW id \in D, NEW n \in Nat,
         NEW m2, m2 = RefSet(m, id, n)
  PROVE  /\ m2 \in [D -> Info] /\ SameButRef(m, m2)
         /\ \A x \in D : m2[x].nRefCount = IF x = id THEN n ELSE m[x].nRefCount
BY DEF Info, SameButRef, RefSet

\* The vector and the positions after a swap.
SwappedInfo(m, v, p, q) == [m EXCEPT ![v[p]].nRandomPos = q, ![v[q]].nRandomPos = p]
SwappedVector(v, p, q) == [v EXCEPT ![p] = v[q], ![q] = v[p]]

LEMMA SwapObject ==
  ASSUME NEW a, Shape(a), NEW p, NEW q
  PROVE  SwapRandom(a, p, q)
           = Object(SwappedInfo(a.mapInfo, a.vRandom, p, q), a.mapAddr,
                    SwappedVector(a.vRandom, p, q), a.nNew, a.nTried, a.nIdCount, a.vvNew, a.vvTried)
<1> DEFINE m == SwappedInfo(a.mapInfo, a.vRandom, p, q)
           v == SwappedVector(a.vRandom, p, q)
<1>1. SwapRandom(a, p, q) = SetRandom(SetInfo(a, m), v)
  BY DEF SwapRandom, SwappedInfo, SwappedVector, SetRandom, SetInfo
<1>2. a = Object(a.mapInfo, a.mapAddr, a.vRandom, a.nNew, a.nTried, a.nIdCount, a.vvNew, a.vvTried)
  BY DEF Shape
<1> HIDE DEF m, v
<1>3. SwapRandom(a, p, q)
        = Object(m, a.mapAddr, v, a.nNew, a.nTried, a.nIdCount, a.vvNew, a.vvTried)
  BY <1>1, <1>2, SetFields
<1> QED BY <1>3 DEF m, v

LEMMA SwappedIsRandom ==
  ASSUME NEW D, NEW m \in [D -> Info], NEW v \in Seq(Nat), RandomOK(m, v),
         NEW p \in 1 .. Len(v), NEW q \in 1 .. Len(v),
         NEW m2, m2 = SwappedInfo(m, v, p, q), NEW v2, v2 = SwappedVector(v, p, q)
  PROVE  /\ m2 \in [D -> Info] /\ SameButPos(m, m2)
         /\ v2 \in Seq(Nat) /\ Len(v2) = Len(v) /\ v2[q] = v[p]
         /\ RandomOK(m2, v2)
<1>1. DOMAIN m = D /\ v[p] \in D /\ v[q] \in D
  BY DEF RandomOK
<1>2. PICK n : n = PosSet(m, v[p], q)
  OBVIOUS
<1>3. n \in [D -> Info] /\ SameButPos(m, n)
      /\ \A id \in D : n[id].nRandomPos = IF id = v[p] THEN q ELSE m[id].nRandomPos
  BY <1>1, <1>2, SetPos
<1>4. m2 = PosSet(n, v[q], p)
  BY <1>2 DEF SwappedInfo, PosSet
<1>5. m2 \in [D -> Info] /\ SameButPos(n, m2)
      /\ \A id \in D : m2[id].nRandomPos = IF id = v[q] THEN p ELSE n[id].nRandomPos
  BY <1>1, <1>3, <1>4, SetPos
<1>6. DOMAIN m2 = D /\ DOMAIN n = D
  BY <1>3, <1>5
<1>7. SameButPos(m, m2)
  BY <1>3, <1>5, <1>6 DEF SameButPos
<1>8. v2 \in Seq(Nat) /\ Len(v2) = Len(v)
      /\ \A i \in 1 .. Len(v) : v2[i] = IF i = q THEN v[p] ELSE IF i = p THEN v[q] ELSE v[i]
  BY DEF SwappedVector
<1>9. ASSUME NEW id \in D
      PROVE  m2[id].nRandomPos \in 1 .. Len(v) /\ v2[m2[id].nRandomPos] = id
  <2>1. m[id].nRandomPos \in 1 .. Len(v) /\ v[m[id].nRandomPos] = id
    BY <1>1 DEF RandomOK
  <2>2. CASE id = v[q]
    BY <1>5, <1>8, <2>2
  <2>3. CASE id # v[q] /\ id = v[p]
    BY <1>3, <1>5, <1>8, <2>3
  <2>4. CASE id # v[q] /\ id # v[p]
    BY <1>3, <1>5, <1>8, <2>1, <2>4
  <2> QED BY <2>2, <2>3, <2>4
<1>10. ASSUME NEW i \in 1 .. Len(v)
       PROVE  v2[i] \in D /\ m2[v2[i]].nRandomPos = i
  <2>1. \A j \in 1 .. Len(v) : v[j] \in D /\ m[v[j]].nRandomPos = j
    BY <1>1 DEF RandomOK
  <2>2. \A id \in D : m2[id].nRandomPos = IF id = v[q] THEN p ELSE IF id = v[p] THEN q
                                          ELSE m[id].nRandomPos
    BY <1>3, <1>5
  <2>3. CASE i = q
    BY <1>8, <2>1, <2>2, <2>3
  <2>4. CASE i # q /\ i = p
    BY <1>8, <2>1, <2>2, <2>4
  <2>5. CASE i # q /\ i # p
    <3>1. v2[i] = v[i] /\ v[i] \in D /\ m[v[i]].nRandomPos = i
      BY <1>8, <2>1, <2>5
    <3>2. v[i] # v[q] /\ v[i] # v[p]
      BY <2>1, <2>5
    <3> QED BY <2>2, <3>1, <3>2
  <2> QED BY <2>3, <2>4, <2>5
<1> QED BY <1>5, <1>6, <1>7, <1>8, <1>9, <1>10 DEF RandomOK

\* An object with fields of the right types.
LEMMA ShapeOf ==
  ASSUME NEW m, NEW r, NEW v, NEW n \in Int, NEW t \in Int, NEW c \in Nat, NEW nb, NEW tb,
         DOMAIN m \subseteq 0 .. c - 1, m \in [DOMAIN m -> Info],
         DOMAIN r \subseteq Ips, r \in [DOMAIN r -> Nat], v \in Seq(Nat),
         nb \in [NewBuckets -> SUBSET Nat], tb \in [TriedBuckets -> Seq(Nat)]
  PROVE  Shape(Object(m, r, v, n, t, c, nb, tb))
<1> DEFINE a == Object(m, r, v, n, t, c, nb, tb)
<1>1. /\ a.mapInfo = m /\ a.mapAddr = r /\ a.vRandom = v /\ a.nNew = n /\ a.nTried = t
      /\ a.nIdCount = c /\ a.vvNew = nb /\ a.vvTried = tb
  BY FieldsOf
<1>2. a = Object(a.mapInfo, a.mapAddr, a.vRandom, a.nNew, a.nTried, a.nIdCount, a.vvNew, a.vvTried)
  BY <1>1
<1> HIDE DEF a
<1> QED BY <1>1, <1>2 DEF Shape, a

\* The two objects differ in vRandom and nRandomPos at most.
SameButOrder(a, s) ==
  /\ DOMAIN s.mapInfo = DOMAIN a.mapInfo /\ SameButPos(a.mapInfo, s.mapInfo)
  /\ Len(s.vRandom) = Len(a.vRandom)
  /\ s.mapAddr = a.mapAddr /\ s.nNew = a.nNew /\ s.nTried = a.nTried /\ s.nIdCount = a.nIdCount
  /\ s.vvNew = a.vvNew /\ s.vvTried = a.vvTried

LEMMA SwapKeeps ==
  ASSUME NEW a, Shape(a), RandomOK(a.mapInfo, a.vRandom),
         NEW p \in 1 .. Len(a.vRandom), NEW q \in 1 .. Len(a.vRandom),
         NEW s, s = SwapRandom(a, p, q)
  PROVE  /\ Shape(s) /\ RandomOK(s.mapInfo, s.vRandom) /\ SameButOrder(a, s)
         /\ s.vRandom[q] = a.vRandom[p]
<1> DEFINE m == SwappedInfo(a.mapInfo, a.vRandom, p, q)
           v == SwappedVector(a.vRandom, p, q)
           D == DOMAIN a.mapInfo
<1>1. s = Object(m, a.mapAddr, v, a.nNew, a.nTried, a.nIdCount, a.vvNew, a.vvTried)
  BY SwapObject
<1>2. a.mapInfo \in [D -> Info] /\ a.vRandom \in Seq(Nat)
  BY DEF Shape
<1>3. /\ m \in [D -> Info] /\ SameButPos(a.mapInfo, m)
      /\ v \in Seq(Nat) /\ Len(v) = Len(a.vRandom) /\ v[q] = a.vRandom[p]
      /\ RandomOK(m, v)
  <2> HIDE DEF D
  <2> QED BY <1>2, SwappedIsRandom
<1> HIDE DEF m, v
<1>4. /\ s.mapInfo = m /\ s.mapAddr = a.mapAddr /\ s.vRandom = v /\ s.nNew = a.nNew
      /\ s.nTried = a.nTried /\ s.nIdCount = a.nIdCount /\ s.vvNew = a.vvNew /\ s.vvTried = a.vvTried
  BY <1>1, FieldsOf
<1>5. DOMAIN m = D
  BY <1>3
<1>6. Shape(s)
  <2>1. DOMAIN m \subseteq 0 .. a.nIdCount - 1 /\ m \in [DOMAIN m -> Info]
    BY <1>3, <1>5 DEF Shape
  <2>2. /\ DOMAIN a.mapAddr \subseteq Ips /\ a.mapAddr \in [DOMAIN a.mapAddr -> Nat]
        /\ a.nNew \in Int /\ a.nTried \in Int /\ a.nIdCount \in Nat
        /\ a.vvNew \in [NewBuckets -> SUBSET Nat] /\ a.vvTried \in [TriedBuckets -> Seq(Nat)]
    BY DEF Shape
  <2> QED BY <1>1, <1>3, <2>1, <2>2, ShapeOf
<1> QED BY <1>3, <1>4, <1>5, <1>6 DEF SameButOrder

\* Erasing an entry takes it out of mapInfo, mapAddr and vRandom.
Erased(a, id, e) ==
  /\ DOMAIN e.mapInfo = DOMAIN a.mapInfo \ {id} /\ SameButPos(a.mapInfo, e.mapInfo)
  /\ Len(e.vRandom) = Len(a.vRandom) - 1
  /\ e.mapAddr = Without(a.mapAddr, Ip[a.mapInfo[id].addr])
  /\ e.nNew = a.nNew - 1 /\ e.nTried = a.nTried /\ e.nIdCount = a.nIdCount
  /\ e.vvNew = a.vvNew /\ e.vvTried = a.vvTried

LEMMA EraseKeeps ==
  ASSUME NEW a, Shape(a), RandomOK(a.mapInfo, a.vRandom), NEW id \in DOMAIN a.mapInfo,
         NEW e, e = Erase(a, id)
  PROVE  Shape(e) /\ RandomOK(e.mapInfo, e.vRandom) /\ Erased(a, id, e)
<1> DEFINE n == Len(a.vRandom)
           pos == a.mapInfo[id].nRandomPos
<1>0. PICK s : s = SwapRandom(a, pos, n)
  OBVIOUS
<1> DEFINE m == Without(s.mapInfo, id)
           r == Without(a.mapAddr, Ip[a.mapInfo[id].addr])
           v == Front(s.vRandom)
           k == a.nNew - 1
<1>1. n \in Nat /\ pos \in 1 .. n /\ n \in 1 .. n /\ a.vRandom[pos] = id
  BY DEF RandomOK, Shape
<1>2. Shape(s) /\ RandomOK(s.mapInfo, s.vRandom) /\ SameButOrder(a, s) /\ s.vRandom[n] = id
  <2> HIDE DEF pos
  <2> QED BY <1>0, <1>1, SwapKeeps
<1>3. e = SetNew(SetInfo(SetAddr(SetRandom(s, v), Without(s.mapAddr, Ip[a.mapInfo[id].addr])), m),
                 s.nNew - 1)
  BY <1>0 DEF Erase, SetNew, SetInfo, SetAddr, SetRandom
<1>4. e = Object(m, r, v, k, a.nTried, a.nIdCount, a.vvNew, a.vvTried)
  <2>1. s = Object(s.mapInfo, a.mapAddr, s.vRandom, a.nNew, a.nTried, a.nIdCount, a.vvNew, a.vvTried)
    BY <1>2 DEF Shape, SameButOrder
  <2>2. s.mapAddr = a.mapAddr /\ s.nNew = a.nNew
    BY <1>2 DEF SameButOrder
  <2>3. e = SetNew(SetInfo(SetAddr(SetRandom(s, v), r), m), k)
    BY <1>3, <2>2
  <2> HIDE DEF m, r, v, k
  <2> QED BY <2>1, <2>3, SetFields
<1>5. /\ DOMAIN m = DOMAIN a.mapInfo \ {id}
      /\ \A x \in DOMAIN m : m[x] = s.mapInfo[x]
      /\ m \in [DOMAIN m -> Info] /\ DOMAIN m \subseteq 0 .. a.nIdCount - 1
  <2>1. DOMAIN s.mapInfo = DOMAIN a.mapInfo /\ s.mapInfo \in [DOMAIN a.mapInfo -> Info]
        /\ DOMAIN a.mapInfo \subseteq 0 .. a.nIdCount - 1
    BY <1>2 DEF SameButOrder, Shape
  <2> QED BY <2>1 DEF Without
<1>6. DOMAIN r \subseteq Ips /\ r \in [DOMAIN r -> Nat]
  BY DEF Without, Shape
<1>7. v \in Seq(Nat) /\ Len(v) = n - 1 /\ \A i \in 1 .. n - 1 : v[i] = s.vRandom[i]
  <2>1. s.vRandom \in Seq(Nat) /\ Len(s.vRandom) = n
    BY <1>2 DEF Shape, SameButOrder
  <2> QED BY <1>1, <2>1 DEF Front
<1> HIDE DEF m, r, v, k
<1>8. /\ e.mapInfo = m /\ e.mapAddr = r /\ e.vRandom = v /\ e.nNew = k
      /\ e.nTried = a.nTried /\ e.nIdCount = a.nIdCount /\ e.vvNew = a.vvNew /\ e.vvTried = a.vvTried
  BY <1>4, FieldsOf
<1>9. Shape(e)
  <2>1. /\ k \in Int /\ a.nTried \in Int /\ a.nIdCount \in Nat
        /\ a.vvNew \in [NewBuckets -> SUBSET Nat] /\ a.vvTried \in [TriedBuckets -> Seq(Nat)]
    BY DEF Shape, k
  <2>2. Shape(Object(m, r, v, k, a.nTried, a.nIdCount, a.vvNew, a.vvTried))
    BY <1>5, <1>6, <1>7, <2>1, ShapeOf
  <2> QED BY <1>4, <2>2
<1>10. RandomOK(m, v)
  <2>1. /\ \A x \in DOMAIN a.mapInfo : /\ s.mapInfo[x].nRandomPos \in 1 .. n
                                       /\ s.vRandom[s.mapInfo[x].nRandomPos] = x
        /\ \A p \in 1 .. n : s.vRandom[p] \in DOMAIN a.mapInfo /\ s.mapInfo[s.vRandom[p]].nRandomPos = p
    BY <1>2 DEF RandomOK, SameButOrder
  <2>2. ASSUME NEW x \in DOMAIN m
        PROVE  m[x].nRandomPos \in 1 .. n - 1 /\ v[m[x].nRandomPos] = x
    <3>1. s.mapInfo[x].nRandomPos \in 1 .. n /\ s.mapInfo[x].nRandomPos # n
      BY <1>2, <1>5, <2>1
    <3>2. m[x].nRandomPos \in 1 .. n - 1
      BY <1>1, <1>5, <3>1
    <3> QED BY <1>5, <1>7, <2>1, <3>2
  <2>3. ASSUME NEW p \in 1 .. n - 1
        PROVE  v[p] \in DOMAIN m /\ m[v[p]].nRandomPos = p
    <3>1. p \in 1 .. n /\ p # n
      BY <1>1
    <3>2. s.vRandom[p] \in DOMAIN a.mapInfo /\ s.mapInfo[s.vRandom[p]].nRandomPos = p
      BY <2>1, <3>1
    <3>3. s.vRandom[p] # id
      BY <1>1, <1>2, <2>1, <3>1, <3>2
    <3> QED BY <1>5, <1>7, <3>2, <3>3
  <2> QED BY <1>7, <2>2, <2>3 DEF RandomOK
<1>11. SameButPos(a.mapInfo, m)
  BY <1>2, <1>5 DEF SameButPos, SameButOrder
<1> QED BY <1>5, <1>7, <1>8, <1>9, <1>10, <1>11 DEF Erased, r, k

-----------------------------------------------------------------------------
(***************************************************************************)
(* Leaving and entering a new bucket.                                      *)
(***************************************************************************)
LEMMA BucketsFinite ==
  /\ IsFiniteSet(NewBuckets)
  /\ \A nb, id : IsFiniteSet(BucketsOf(nb, id)) /\ Cardinality(BucketsOf(nb, id)) \in Nat
<1>1. IsFiniteSet(NewBuckets)
  BY FS_Interval, AddrManAssumption DEF NewBuckets
<1>2. ASSUME NEW nb, NEW id
      PROVE  IsFiniteSet(BucketsOf(nb, id)) /\ Cardinality(BucketsOf(nb, id)) \in Nat
  <2>1. BucketsOf(nb, id) \in SUBSET NewBuckets
    BY DEF BucketsOf
  <2>2. IsFiniteSet(BucketsOf(nb, id))
    BY <1>1, <2>1, FS_Subset
  <2> QED BY <2>2, FS_CardinalityType
<1> QED BY <1>1, <1>2

Left(nb, b, id) == [nb EXCEPT ![b] = nb[b] \ {id}]
Entered(nb, b, id) == [nb EXCEPT ![b] = nb[b] \cup {id}]

LEMMA LeaveCount ==
  ASSUME NEW nb \in [NewBuckets -> SUBSET Nat], NEW b \in NewBuckets, NEW id \in Nat, id \in nb[b]
  PROVE  /\ Cardinality(BucketsOf(Left(nb, b, id), id)) = Cardinality(BucketsOf(nb, id)) - 1
         /\ \A y : y # id => BucketsOf(Left(nb, b, id), y) = BucketsOf(nb, y)
<1>1. PICK nb2 : nb2 = Left(nb, b, id)
  OBVIOUS
<1>2. \A c \in NewBuckets : nb2[c] = IF c = b THEN nb[b] \ {id} ELSE nb[c]
  BY <1>1 DEF Left
<1>3. BucketsOf(nb2, id) = BucketsOf(nb, id) \ {b} /\ b \in BucketsOf(nb, id)
  BY <1>2 DEF BucketsOf
<1>4. \A y : y # id => BucketsOf(nb2, y) = BucketsOf(nb, y)
  BY <1>2 DEF BucketsOf
<1>5. Cardinality(BucketsOf(nb, id) \ {b}) = Cardinality(BucketsOf(nb, id)) - 1
  BY <1>3, BucketsFinite, FS_RemoveElement
<1> QED BY <1>1, <1>3, <1>4, <1>5

LEMMA EnterCount ==
  ASSUME NEW nb \in [NewBuckets -> SUBSET Nat], NEW b \in NewBuckets, NEW id \in Nat, id \notin nb[b]
  PROVE  /\ Cardinality(BucketsOf(Entered(nb, b, id), id)) = Cardinality(BucketsOf(nb, id)) + 1
         /\ \A y : y # id => BucketsOf(Entered(nb, b, id), y) = BucketsOf(nb, y)
<1>1. PICK nb2 : nb2 = Entered(nb, b, id)
  OBVIOUS
<1>2. \A c \in NewBuckets : nb2[c] = IF c = b THEN nb[b] \cup {id} ELSE nb[c]
  BY <1>1 DEF Entered
<1>3. BucketsOf(nb2, id) = BucketsOf(nb, id) \cup {b} /\ b \notin BucketsOf(nb, id)
  BY <1>2 DEF BucketsOf
<1>4. \A y : y # id => BucketsOf(nb2, y) = BucketsOf(nb, y)
  BY <1>2 DEF BucketsOf
<1>5. Cardinality(BucketsOf(nb, id) \cup {b}) = Cardinality(BucketsOf(nb, id)) + 1
  BY <1>3, BucketsFinite, FS_AddElement
<1> QED BY <1>1, <1>3, <1>4, <1>5

\* The sets of entries of an object are finite.
LEMMA EntriesFinite ==
  ASSUME NEW m, NEW c \in Nat, DOMAIN m \subseteq 0 .. c - 1
  PROVE  /\ \A S : S \subseteq DOMAIN m => IsFiniteSet(S) /\ Cardinality(S) \in Nat
         /\ Cardinality(DOMAIN m) <= c
         /\ Cardinality(DOMAIN m) = Cardinality(NewOf(m)) + Cardinality(TriedOf(m))
<1>1. IsFiniteSet(0 .. c - 1) /\ Cardinality(0 .. c - 1) = c
  BY FS_Interval
<1>2. IsFiniteSet(DOMAIN m) /\ Cardinality(DOMAIN m) <= c
  BY <1>1, FS_Subset
<1>3. \A S : S \subseteq DOMAIN m => IsFiniteSet(S) /\ Cardinality(S) \in Nat
  BY <1>2, FS_Subset, FS_CardinalityType
<1>4. /\ NewOf(m) \subseteq DOMAIN m /\ TriedOf(m) \subseteq DOMAIN m
      /\ NewOf(m) \cup TriedOf(m) = DOMAIN m /\ NewOf(m) \cap TriedOf(m) = {}
  BY DEF NewOf, TriedOf
<1>5. Cardinality(NewOf(m) \cup TriedOf(m))
        = Cardinality(NewOf(m)) + Cardinality(TriedOf(m)) - Cardinality(NewOf(m) \cap TriedOf(m))
  BY <1>3, <1>4, FS_Union
<1> QED BY <1>2, <1>3, <1>4, <1>5, FS_EmptySet

\* The tried buckets, when no tried entry changes.
LEMMA TriedUnchanged ==
  ASSUME NEW m, NEW m2, NEW tb, TriedOK(m, tb), TriedOf(m2) = TriedOf(m),
         \A y \in TriedOf(m) : m2[y].addr = m[y].addr /\ m2[y].nLastSuccess = m[y].nLastSuccess
                               /\ m2[y].nRefCount = m[y].nRefCount
  PROVE  TriedOK(m2, tb)
<1>1. ASSUME NEW k \in TriedBuckets
      PROVE  /\ Len(tb[k]) <= ADDRMAN_TRIED_BUCKET_SIZE
             /\ \A p \in 1 .. Len(tb[k]) : tb[k][p] \in TriedOf(m2) /\ TriedBucket[m2[tb[k][p]].addr] = k
             /\ \A p, q \in 1 .. Len(tb[k]) : tb[k][p] = tb[k][q] => p = q
  BY DEF TriedOK
<1>2. ASSUME NEW y \in TriedOf(m2)
      PROVE  /\ \E p \in 1 .. Len(tb[TriedBucket[m2[y].addr]]) : tb[TriedBucket[m2[y].addr]][p] = y
             /\ m2[y].nRefCount = 0 /\ m2[y].nLastSuccess # 0
  BY DEF TriedOK
<1> QED BY <1>1, <1>2 DEF TriedOK

LEMMA TriedStays ==
  ASSUME NEW m, NEW m2, NEW tb, TriedOK(m, tb),
         DOMAIN m2 \subseteq DOMAIN m, TriedOf(m) \subseteq DOMAIN m2,
         \A y \in DOMAIN m2 : m2[y].addr = m[y].addr /\ m2[y].fInTried = m[y].fInTried
                              /\ m2[y].nLastSuccess = m[y].nLastSuccess,
         \A y \in TriedOf(m) : m2[y].nRefCount = m[y].nRefCount
  PROVE  TriedOf(m2) = TriedOf(m) /\ TriedOK(m2, tb)
<1>1. TriedOf(m2) = TriedOf(m)
  BY DEF TriedOf
<1> QED BY <1>1, TriedUnchanged

-----------------------------------------------------------------------------
(***************************************************************************)
(* ShrinkNew.                                                              *)
(***************************************************************************)
\* Entry id leaves new bucket b, and the object when that was its last one.
Shrunk(a, b, id) ==
  LET u == [a EXCEPT !.mapInfo[id].nRefCount = @ - 1]
  IN  [(IF u.mapInfo[id].nRefCount = 0 THEN Erase(u, id) ELSE u) EXCEPT !.vvNew[b] = @ \ {id}]

LEMMA ShrinkNewIsShrunk ==
  ASSUME NEW a, NEW b, NEW s \in ShrinkNew(a, b)
  PROVE  \E id \in a.vvNew[b] : s = Shrunk(a, b, id)
BY DEF ShrinkNew, Shrunk

\* No tried address is forgotten.
TriedKept(a, s) == \A y \in TriedOf(a.mapInfo) : Ip[a.mapInfo[y].addr] \in DOMAIN s.mapAddr

LEMMA ShrinkKeeps ==
  ASSUME NEW a, NEW x, NEW d \in Nat, Good(a, x, d), NEW b \in NewBuckets, NEW id \in a.vvNew[b], id # x,
         NEW s, s = Shrunk(a, b, id)
  PROVE  /\ Good(s, x, d) /\ s.nIdCount = a.nIdCount
         /\ x \in DOMAIN a.mapInfo => x \in DOMAIN s.mapInfo
         /\ s.vvNew = Left(a.vvNew, b, id)
         /\ TriedKept(a, s)
         /\ \A y \in DOMAIN s.mapInfo : y \in DOMAIN a.mapInfo /\ s.mapInfo[y].fInTried = a.mapInfo[y].fInTried
<1> DEFINE m == a.mapInfo
           D == DOMAIN m
           n == m[id].nRefCount
           m1 == RefSet(m, id, n - 1)
<1>1. /\ m \in [D -> Info] /\ D \subseteq 0 .. a.nIdCount - 1 /\ a.nIdCount \in Nat
      /\ a.vvNew \in [NewBuckets -> SUBSET Nat]
      /\ a = Object(m, a.mapAddr, a.vRandom, a.nNew, a.nTried, a.nIdCount, a.vvNew, a.vvTried)
  BY DEF Good, Shape
<1>2. /\ id \in NewOf(m) /\ id \in D /\ ~m[id].fInTried
      /\ n = Cardinality(BucketsOf(a.vvNew, id)) /\ n \in 1 .. ADDRMAN_NEW_BUCKETS_PER_ADDRESS
  BY BucketsFinite DEF Good, NewOK, NewOf, TriedOf
<1>3. ADDRMAN_NEW_BUCKETS_PER_ADDRESS \in Nat /\ n \in Nat /\ n - 1 \in Nat
  BY <1>2, AddrManAssumption
<1>4. PICK nb : nb = Left(a.vvNew, b, id)
  OBVIOUS
<1>5. /\ nb \in [NewBuckets -> SUBSET Nat]
      /\ \A c \in NewBuckets : nb[c] = IF c = b THEN a.vvNew[b] \ {id} ELSE a.vvNew[c]
      /\ Cardinality(BucketsOf(nb, id)) = n - 1
      /\ \A y : y # id => BucketsOf(nb, y) = BucketsOf(a.vvNew, y)
  <2>1. /\ nb \in [NewBuckets -> SUBSET Nat]
        /\ \A c \in NewBuckets : nb[c] = IF c = b THEN a.vvNew[b] \ {id} ELSE a.vvNew[c]
        /\ Cardinality(BucketsOf(nb, id)) = Cardinality(BucketsOf(a.vvNew, id)) - 1
        /\ \A y : y # id => BucketsOf(nb, y) = BucketsOf(a.vvNew, y)
    <3>1. a.vvNew \in [NewBuckets -> SUBSET Nat]
      BY <1>1
    <3>2. id \in Nat
      BY <3>1
    <3>3. /\ nb \in [NewBuckets -> SUBSET Nat]
          /\ \A c \in NewBuckets : nb[c] = IF c = b THEN a.vvNew[b] \ {id} ELSE a.vvNew[c]
      BY <1>4, <3>1 DEF Left
    <3>4. /\ Cardinality(BucketsOf(nb, id)) = Cardinality(BucketsOf(a.vvNew, id)) - 1
          /\ \A y : y # id => BucketsOf(nb, y) = BucketsOf(a.vvNew, y)
      BY <1>4, <3>1, <3>2, LeaveCount
    <3> QED BY <3>3, <3>4
  <2> QED BY <1>2, <2>1
<1>6. /\ m1 \in [D -> Info] /\ SameButRef(m, m1)
      /\ \A y \in D : m1[y].nRefCount = IF y = id THEN n - 1 ELSE m[y].nRefCount
  <2>1. PICK k \in Nat : k = n - 1
    BY <1>3
  <2>2. m1 = RefSet(m, id, k)
    BY <2>1
  <2>3. PICK C : C = D
    OBVIOUS
  <2> HIDE DEF m, D, n, m1
  <2>4. m \in [C -> Info] /\ id \in C
    BY <1>1, <1>2, <2>3
  <2>5. /\ m1 \in [C -> Info] /\ SameButRef(m, m1)
        /\ \A y \in C : m1[y].nRefCount = IF y = id THEN k ELSE m[y].nRefCount
    BY <2>2, <2>4, SetRef
  <2> QED BY <2>1, <2>3, <2>5
<1>7. PICK u : u = [a EXCEPT !.mapInfo[id].nRefCount = @ - 1]
  OBVIOUS
<1>8. u = Object(m1, a.mapAddr, a.vRandom, a.nNew, a.nTried, a.nIdCount, a.vvNew, a.vvTried)
  <2>1. u = SetInfo(a, m1)
    BY <1>7 DEF SetInfo, RefSet
  <2> HIDE DEF m, m1
  <2> QED BY <1>1, <2>1, SetFields
<1>9. DOMAIN m1 = D
  BY <1>6
<1> HIDE DEF m1
<1>10. /\ u.mapInfo = m1 /\ u.mapAddr = a.mapAddr /\ u.vRandom = a.vRandom /\ u.nNew = a.nNew
       /\ u.nTried = a.nTried /\ u.nIdCount = a.nIdCount /\ u.vvNew = a.vvNew /\ u.vvTried = a.vvTried
  BY <1>8, FieldsOf
<1>11. Shape(u)
  <2>1. /\ DOMAIN m1 \subseteq 0 .. a.nIdCount - 1 /\ m1 \in [DOMAIN m1 -> Info]
        /\ DOMAIN a.mapAddr \subseteq Ips /\ a.mapAddr \in [DOMAIN a.mapAddr -> Nat]
        /\ a.vRandom \in Seq(Nat) /\ a.nNew \in Int /\ a.nTried \in Int /\ a.nIdCount \in Nat
        /\ a.vvTried \in [TriedBuckets -> Seq(Nat)]
    BY <1>1, <1>6, <1>9 DEF Good, Shape
  <2>2. Shape(Object(m1, a.mapAddr, a.vRandom, a.nNew, a.nTried, a.nIdCount, a.vvNew, a.vvTried))
    BY <1>1, <2>1, ShapeOf
  <2> QED BY <1>8, <2>2
<1>12. RandomOK(u.mapInfo, u.vRandom)
  BY <1>6, <1>9, <1>10 DEF Good, RandomOK, SameButRef
<1>13. CASE n - 1 = 0
  <2>1. PICK e : e = Erase(u, id)
    OBVIOUS
  <2>2. Shape(e) /\ RandomOK(e.mapInfo, e.vRandom) /\ Erased(u, id, e)
    BY <1>2, <1>9, <1>10, <1>11, <1>12, <2>1, EraseKeeps
  <2>3. s = SetVvNew(e, nb)
    <3>1. u.mapInfo[id].nRefCount = 0 /\ e.vvNew = a.vvNew
      BY <1>2, <1>6, <1>10, <1>13, <2>2 DEF Erased
    <3>2. s = SetVvNew(e, Left(e.vvNew, b, id))
      BY <1>7, <2>1, <3>1 DEF Shrunk, SetVvNew, Left
    <3> QED BY <1>4, <3>1, <3>2
  <2>4. /\ DOMAIN e.mapInfo = D \ {id} /\ SameButPos(m1, e.mapInfo)
        /\ Len(e.vRandom) = Len(a.vRandom) - 1
        /\ e.mapAddr = Without(a.mapAddr, Ip[m1[id].addr])
        /\ e.nNew = a.nNew - 1 /\ e.nTried = a.nTried /\ e.nIdCount = a.nIdCount
        /\ e.vvNew = a.vvNew /\ e.vvTried = a.vvTried
    BY <1>9, <1>10, <2>2 DEF Erased
  <2>5. s = Object(e.mapInfo, e.mapAddr, e.vRandom, e.nNew, e.nTried, e.nIdCount, nb, e.vvTried)
    <3>1. e = Object(e.mapInfo, e.mapAddr, e.vRandom, e.nNew, e.nTried, e.nIdCount, e.vvNew, e.vvTried)
      BY <2>2 DEF Shape
    <3> QED BY <2>3, <3>1, SetFields
  <2>6. /\ s.mapInfo = e.mapInfo /\ s.mapAddr = e.mapAddr /\ s.vRandom = e.vRandom /\ s.nNew = e.nNew
        /\ s.nTried = e.nTried /\ s.nIdCount = e.nIdCount /\ s.vvNew = nb /\ s.vvTried = e.vvTried
    BY <2>5, FieldsOf
  <2>7. Shape(s)
    BY <1>5, <2>2, <2>5, <2>6 DEF Shape
  <2>8. /\ \A y \in D \ {id} : /\ s.mapInfo[y].addr = m[y].addr /\ s.mapInfo[y].fInTried = m[y].fInTried
                               /\ s.mapInfo[y].nLastSuccess = m[y].nLastSuccess
                               /\ s.mapInfo[y].nRefCount = m[y].nRefCount
        /\ m1[id].addr = m[id].addr
    BY <1>2, <1>6, <1>9, <2>4, <2>6 DEF SameButPos, SameButRef
  <2>9. TriedOf(s.mapInfo) = TriedOf(m) /\ TriedOK(s.mapInfo, s.vvTried)
    <3>1. TriedOf(m) \subseteq D \ {id} /\ TriedOK(m, a.vvTried)
      BY <1>2 DEF TriedOf, Good
    <3>2. DOMAIN s.mapInfo = D \ {id} /\ s.vvTried = a.vvTried
      BY <2>4, <2>6
    <3> HIDE DEF m
    <3> QED BY <2>8, <3>1, <3>2, TriedStays
  <2>10. NewOf(s.mapInfo) = NewOf(m) \ {id}
    BY <2>4, <2>6, <2>9 DEF NewOf
  <2>11. AddrOK(s.mapInfo, s.mapAddr)
    <3>1. s.mapAddr = Without(a.mapAddr, Ip[m[id].addr]) /\ DOMAIN s.mapInfo = D \ {id}
      BY <2>4, <2>6, <2>8
    <3>2. AddrOK(m, a.mapAddr)
      BY DEF Good
    <3>3. ASSUME NEW y \in D \ {id}
          PROVE  Ip[m[y].addr] \in DOMAIN a.mapAddr \ {Ip[m[id].addr]} /\ a.mapAddr[Ip[m[y].addr]] = y
      BY <1>2, <3>2 DEF AddrOK
    <3>4. ASSUME NEW ip \in DOMAIN a.mapAddr \ {Ip[m[id].addr]}
          PROVE  a.mapAddr[ip] \in D \ {id} /\ Ip[m[a.mapAddr[ip]].addr] = ip
      BY <3>2 DEF AddrOK
    <3>5. /\ DOMAIN s.mapAddr = DOMAIN a.mapAddr \ {Ip[m[id].addr]}
          /\ \A ip \in DOMAIN s.mapAddr : s.mapAddr[ip] = a.mapAddr[ip]
      BY <3>1 DEF Without
    <3>6. \A y \in D \ {id} : s.mapInfo[y].addr = m[y].addr
      BY <2>8
    <3>7. PICK C, mm, r : C = D \ {id} /\ mm = s.mapInfo /\ r = s.mapAddr
      OBVIOUS
    <3> HIDE DEF m, D
    <3>8. \A y \in C : Ip[mm[y].addr] \in DOMAIN r /\ r[Ip[mm[y].addr]] = y
      BY <3>3, <3>5, <3>6, <3>7
    <3>9. \A ip \in DOMAIN r : r[ip] \in C /\ Ip[mm[r[ip]].addr] = ip
      BY <3>4, <3>5, <3>6, <3>7
    <3>10. DOMAIN mm = C
      BY <3>1, <3>7
    <3> QED BY <3>7, <3>8, <3>9, <3>10 DEF AddrOK
  <2>12. NewOK(s.mapInfo, s.vvNew, x, d)
    <3>1. BucketsOf(nb, id) = {}
      BY <1>5, <1>13, BucketsFinite, FS_EmptySet
    <3>2. \A c \in NewBuckets : id \notin nb[c]
      BY <3>1 DEF BucketsOf
    <3>3. \A c \in NewBuckets : nb[c] \subseteq NewOf(m) \ {id} /\ nb[c] \subseteq a.vvNew[c]
      BY <1>5, <3>2 DEF Good, NewOK
    <3>4. ASSUME NEW c \in NewBuckets
          PROVE  Cardinality(nb[c]) <= ADDRMAN_NEW_BUCKET_SIZE
      <4>1. a.vvNew[c] \subseteq D /\ Cardinality(a.vvNew[c]) <= ADDRMAN_NEW_BUCKET_SIZE
        BY DEF Good, NewOK, NewOf
      <4>2. IsFiniteSet(a.vvNew[c]) /\ Cardinality(a.vvNew[c]) \in Nat
        BY <1>1, <4>1, EntriesFinite
      <4>3. Cardinality(nb[c]) <= Cardinality(a.vvNew[c]) /\ Cardinality(nb[c]) \in Nat
        BY <3>3, <4>2, FS_Subset, FS_CardinalityType
      <4> QED BY <4>1, <4>2, <4>3, AddrManAssumption
    <3>5. ASSUME NEW y \in NewOf(m) \ {id}
          PROVE  /\ s.mapInfo[y].nRefCount = Cardinality(BucketsOf(nb, y)) + (IF y = x THEN d ELSE 0)
                 /\ s.mapInfo[y].nRefCount \in 1 .. ADDRMAN_NEW_BUCKETS_PER_ADDRESS
      <4>1. y \in D \ {id}
        BY DEF NewOf
      <4> QED BY <1>5, <2>8, <4>1 DEF Good, NewOK
    <3> QED BY <2>6, <2>10, <3>3, <3>4, <3>5 DEF NewOK
  <2>13. CountOK(s.mapInfo, s.vRandom, s.nNew, s.nTried)
    <3>1. IsFiniteSet(NewOf(m)) /\ Cardinality(NewOf(m)) \in Nat /\ Cardinality(TriedOf(m)) \in Nat
      BY <1>1, EntriesFinite DEF NewOf, TriedOf
    <3>2. Cardinality(NewOf(m) \ {id}) = Cardinality(NewOf(m)) - 1
      BY <1>2, <3>1, FS_RemoveElement
    <3>3. a.nNew = Cardinality(NewOf(m)) /\ a.nTried = Cardinality(TriedOf(m))
          /\ Len(a.vRandom) = a.nNew + a.nTried
      BY DEF Good, CountOK
    <3> HIDE DEF m
    <3> QED BY <2>4, <2>6, <2>9, <2>10, <3>1, <3>2, <3>3 DEF CountOK
  <2>14. TriedKept(a, s)
    <3>1. ASSUME NEW y \in TriedOf(m)
          PROVE  Ip[m[y].addr] \in DOMAIN s.mapAddr
      BY <2>8, <2>9, <2>11, <3>1, <2>4, <2>6 DEF AddrOK, TriedOf
    <3> QED BY <3>1 DEF TriedKept
  <2>15. Good(s, x, d)
    BY <2>2, <2>6, <2>7, <2>9, <2>11, <2>12, <2>13 DEF Good
  <2> QED BY <1>4, <2>4, <2>6, <2>8, <2>14, <2>15
<1>14. CASE n - 1 # 0
  <2>1. s = SetVvNew(u, nb)
    <3>1. u.mapInfo[id].nRefCount # 0 /\ u.vvNew = a.vvNew
      BY <1>2, <1>6, <1>10, <1>14
    <3>2. s = SetVvNew(u, Left(u.vvNew, b, id))
      BY <1>7, <3>1 DEF Shrunk, SetVvNew, Left
    <3> QED BY <1>4, <3>1, <3>2
  <2>2. s = Object(m1, a.mapAddr, a.vRandom, a.nNew, a.nTried, a.nIdCount, nb, a.vvTried)
    BY <1>8, <2>1, SetFields
  <2>3. /\ s.mapInfo = m1 /\ s.mapAddr = a.mapAddr /\ s.vRandom = a.vRandom /\ s.nNew = a.nNew
        /\ s.nTried = a.nTried /\ s.nIdCount = a.nIdCount /\ s.vvNew = nb /\ s.vvTried = a.vvTried
    BY <2>2, FieldsOf
  <2>4. Shape(s)
    BY <1>5, <1>10, <1>11, <2>2, <2>3 DEF Shape
  <2>5. RandomOK(s.mapInfo, s.vRandom)
    BY <1>10, <1>12, <2>3
  <2>6. \A y \in D : m1[y].addr = m[y].addr /\ m1[y].fInTried = m[y].fInTried
                     /\ m1[y].nLastSuccess = m[y].nLastSuccess
    BY <1>6, <1>9 DEF SameButRef
  <2>7. AddrOK(s.mapInfo, s.mapAddr)
    BY <1>9, <2>3, <2>6 DEF Good, AddrOK
  <2>8. TriedOf(m1) = TriedOf(m) /\ TriedOK(s.mapInfo, s.vvTried)
    <3>1. TriedOf(m) \subseteq D /\ TriedOK(m, a.vvTried) /\ id \notin TriedOf(m)
      BY <1>2 DEF TriedOf, Good
    <3>2. \A y \in TriedOf(m) : m1[y].nRefCount = m[y].nRefCount
      BY <1>6, <3>1
    <3> HIDE DEF m
    <3> QED BY <1>9, <2>3, <2>6, <3>1, <3>2, TriedStays
  <2>9. NewOf(m1) = NewOf(m)
    BY <1>9, <2>8 DEF NewOf
  <2>10. NewOK(s.mapInfo, s.vvNew, x, d)
    <3>1. \A c \in NewBuckets : nb[c] \subseteq NewOf(m) /\ nb[c] \subseteq a.vvNew[c]
      BY <1>5 DEF Good, NewOK
    <3>2. ASSUME NEW c \in NewBuckets
          PROVE  Cardinality(nb[c]) <= ADDRMAN_NEW_BUCKET_SIZE
      <4>1. a.vvNew[c] \subseteq D /\ Cardinality(a.vvNew[c]) <= ADDRMAN_NEW_BUCKET_SIZE
        BY DEF Good, NewOK, NewOf
      <4>2. IsFiniteSet(a.vvNew[c]) /\ Cardinality(a.vvNew[c]) \in Nat
        BY <1>1, <4>1, EntriesFinite
      <4>3. Cardinality(nb[c]) <= Cardinality(a.vvNew[c]) /\ Cardinality(nb[c]) \in Nat
        BY <3>1, <4>2, FS_Subset, FS_CardinalityType
      <4> QED BY <4>1, <4>2, <4>3, AddrManAssumption
    <3>3. ASSUME NEW y \in NewOf(m)
          PROVE  /\ m1[y].nRefCount = Cardinality(BucketsOf(nb, y)) + (IF y = x THEN d ELSE 0)
                 /\ m1[y].nRefCount \in 1 .. ADDRMAN_NEW_BUCKETS_PER_ADDRESS
      <4>1. y \in D
        BY DEF NewOf
      <4>2. CASE y = id
        BY <1>2, <1>3, <1>5, <1>6, <1>14, <4>1, <4>2
      <4>3. CASE y # id
        BY <1>5, <1>6, <4>1, <4>3 DEF Good, NewOK
      <4> QED BY <4>2, <4>3
    <3> QED BY <2>3, <2>9, <3>1, <3>2, <3>3 DEF NewOK
  <2>11. CountOK(s.mapInfo, s.vRandom, s.nNew, s.nTried)
    BY <2>3, <2>8, <2>9 DEF Good, CountOK
  <2>12. TriedKept(a, s)
    BY <2>3 DEF TriedKept, TriedOf, Good, AddrOK
  <2>13. Good(s, x, d)
    BY <2>4, <2>5, <2>7, <2>8, <2>10, <2>11 DEF Good
  <2> QED BY <1>4, <1>9, <2>3, <2>6, <2>12, <2>13
<1> QED BY <1>3, <1>13, <1>14

-----------------------------------------------------------------------------
(***************************************************************************)
(* Add_.                                                                   *)
(***************************************************************************)
\* An object that is good but for the entry id, which may be in no bucket yet.
Almost(a, id) ==
  /\ Shape(a) /\ RandomOK(a.mapInfo, a.vRandom) /\ AddrOK(a.mapInfo, a.mapAddr)
  /\ TriedOK(a.mapInfo, a.vvTried) /\ CountOK(a.mapInfo, a.vRandom, a.nNew, a.nTried)
  /\ id \in NewOf(a.mapInfo)
  /\ \A b \in NewBuckets : /\ a.vvNew[b] \subseteq NewOf(a.mapInfo)
                           /\ Cardinality(a.vvNew[b]) <= ADDRMAN_NEW_BUCKET_SIZE
  /\ \A y \in NewOf(a.mapInfo) :
       /\ a.mapInfo[y].nRefCount = Cardinality(BucketsOf(a.vvNew, y))
       /\ y # id => a.mapInfo[y].nRefCount \in 1 .. ADDRMAN_NEW_BUCKETS_PER_ADDRESS
  /\ a.mapInfo[id].nRefCount \in 0 .. ADDRMAN_NEW_BUCKETS_PER_ADDRESS - 1

\* nRefCount is counted up before the entry is in the bucket.
CountedUp(a, id) == [a EXCEPT !.mapInfo[id].nRefCount = @ + 1]

LEMMA CountUp ==
  ASSUME NEW a, NEW id, Almost(a, id), NEW c, c = CountedUp(a, id)
  PROVE  /\ Good(c, id, 1) /\ id \in NewOf(c.mapInfo) /\ c.vvNew = a.vvNew
         /\ c.nIdCount = a.nIdCount /\ c.mapAddr = a.mapAddr
         /\ TriedOf(c.mapInfo) = TriedOf(a.mapInfo)
         /\ \A y \in DOMAIN c.mapInfo : c.mapInfo[y].addr = a.mapInfo[y].addr
<1> DEFINE m == a.mapInfo
           D == DOMAIN m
           n == m[id].nRefCount
           m1 == RefSet(m, id, n + 1)
<1>1. /\ m \in [D -> Info] /\ D \subseteq 0 .. a.nIdCount - 1 /\ a.nIdCount \in Nat
      /\ a = Object(m, a.mapAddr, a.vRandom, a.nNew, a.nTried, a.nIdCount, a.vvNew, a.vvTried)
  BY DEF Almost, Shape
<1>2. id \in NewOf(m) /\ id \in D /\ id \notin TriedOf(m) /\ n \in 0 .. ADDRMAN_NEW_BUCKETS_PER_ADDRESS - 1
  BY DEF Almost, NewOf
<1>3. ADDRMAN_NEW_BUCKETS_PER_ADDRESS \in Nat /\ n \in Nat /\ n + 1 \in Nat
  BY <1>2, AddrManAssumption
<1>4. /\ m1 \in [D -> Info] /\ SameButRef(m, m1)
      /\ \A y \in D : m1[y].nRefCount = IF y = id THEN n + 1 ELSE m[y].nRefCount
  <2>1. PICK k \in Nat : k = n + 1
    BY <1>3
  <2>2. m1 = RefSet(m, id, k)
    BY <2>1
  <2>3. PICK C : C = D
    OBVIOUS
  <2> HIDE DEF m, D, n, m1
  <2>4. m \in [C -> Info] /\ id \in C
    BY <1>1, <1>2, <2>3
  <2>5. /\ m1 \in [C -> Info] /\ SameButRef(m, m1)
        /\ \A y \in C : m1[y].nRefCount = IF y = id THEN k ELSE m[y].nRefCount
    BY <2>2, <2>4, SetRef
  <2> QED BY <2>1, <2>3, <2>5
<1>5. c = Object(m1, a.mapAddr, a.vRandom, a.nNew, a.nTried, a.nIdCount, a.vvNew, a.vvTried)
  <2>1. c = SetInfo(a, m1)
    BY DEF SetInfo, RefSet, CountedUp
  <2> HIDE DEF m, m1
  <2> QED BY <1>1, <2>1, SetFields
<1>6. DOMAIN m1 = D
  BY <1>4
<1> HIDE DEF m1
<1>7. /\ c.mapInfo = m1 /\ c.mapAddr = a.mapAddr /\ c.vRandom = a.vRandom /\ c.nNew = a.nNew
      /\ c.nTried = a.nTried /\ c.nIdCount = a.nIdCount /\ c.vvNew = a.vvNew /\ c.vvTried = a.vvTried
  BY <1>5, FieldsOf
<1>8. Shape(c)
  <2>1. /\ DOMAIN m1 \subseteq 0 .. a.nIdCount - 1 /\ m1 \in [DOMAIN m1 -> Info]
        /\ DOMAIN a.mapAddr \subseteq Ips /\ a.mapAddr \in [DOMAIN a.mapAddr -> Nat]
        /\ a.vRandom \in Seq(Nat) /\ a.nNew \in Int /\ a.nTried \in Int /\ a.nIdCount \in Nat
        /\ a.vvNew \in [NewBuckets -> SUBSET Nat] /\ a.vvTried \in [TriedBuckets -> Seq(Nat)]
    BY <1>1, <1>4, <1>6 DEF Almost, Shape
  <2>2. Shape(Object(m1, a.mapAddr, a.vRandom, a.nNew, a.nTried, a.nIdCount, a.vvNew, a.vvTried))
    BY <2>1, ShapeOf
  <2> QED BY <1>5, <2>2
<1>9. RandomOK(c.mapInfo, c.vRandom)
  BY <1>4, <1>6, <1>7 DEF Almost, RandomOK, SameButRef
<1>10. \A y \in D : m1[y].addr = m[y].addr /\ m1[y].fInTried = m[y].fInTried
                    /\ m1[y].nLastSuccess = m[y].nLastSuccess
  BY <1>4, <1>6 DEF SameButRef
<1>11. AddrOK(c.mapInfo, c.mapAddr)
  BY <1>6, <1>7, <1>10 DEF Almost, AddrOK
<1>12. TriedOf(m1) = TriedOf(m) /\ TriedOK(c.mapInfo, c.vvTried)
  <2>1. TriedOf(m) \subseteq D /\ TriedOK(m, a.vvTried)
    BY DEF TriedOf, Almost
  <2>2. \A y \in TriedOf(m) : m1[y].nRefCount = m[y].nRefCount
    BY <1>2, <1>4, <2>1
  <2> HIDE DEF m
  <2> QED BY <1>6, <1>7, <1>10, <2>1, <2>2, TriedStays
<1>13. NewOf(m1) = NewOf(m)
  BY <1>6, <1>12 DEF NewOf
<1>14. NewOK(c.mapInfo, c.vvNew, id, 1)
  <2>1. ASSUME NEW y \in NewOf(m)
        PROVE  /\ m1[y].nRefCount = Cardinality(BucketsOf(a.vvNew, y)) + (IF y = id THEN 1 ELSE 0)
               /\ m1[y].nRefCount \in 1 .. ADDRMAN_NEW_BUCKETS_PER_ADDRESS
    <3>1. y \in D /\ m[y].nRefCount = Cardinality(BucketsOf(a.vvNew, y)) /\ m[y].nRefCount \in Nat
      BY BucketsFinite DEF NewOf, Almost
    <3>2. CASE y = id
      BY <1>2, <1>3, <1>4, <3>1, <3>2
    <3>3. CASE y # id
      BY <1>4, <3>1, <3>3 DEF Almost
    <3> QED BY <3>2, <3>3
  <2> QED BY <1>7, <1>13, <2>1 DEF NewOK, Almost
<1>15. CountOK(c.mapInfo, c.vRandom, c.nNew, c.nTried)
  BY <1>7, <1>12, <1>13 DEF Almost, CountOK
<1>16. Good(c, id, 1)
  BY <1>8, <1>9, <1>11, <1>12, <1>14, <1>15 DEF Good
<1> QED BY <1>2, <1>6, <1>7, <1>10, <1>12, <1>13, <1>16

\* ... and the entry goes into it.
Inserted(s, b, id) == [s EXCEPT !.vvNew[b] = @ \cup {id}]

LEMMA InsertKeeps ==
  ASSUME NEW s, NEW id, Good(s, id, 1), id \in NewOf(s.mapInfo), NEW b \in NewBuckets, id \notin s.vvNew[b],
         Cardinality(s.vvNew[b]) < ADDRMAN_NEW_BUCKET_SIZE,
         NEW t, t = Inserted(s, b, id)
  PROVE  Good(t, 0, 0) /\ t.nIdCount = s.nIdCount /\ t.mapAddr = s.mapAddr
<1> DEFINE m == s.mapInfo
           nb == Entered(s.vvNew, b, id)
<1>1. /\ s = Object(m, s.mapAddr, s.vRandom, s.nNew, s.nTried, s.nIdCount, s.vvNew, s.vvTried)
      /\ s.vvNew \in [NewBuckets -> SUBSET Nat] /\ id \in Nat /\ id \in DOMAIN m
      /\ DOMAIN m \subseteq 0 .. s.nIdCount - 1 /\ s.nIdCount \in Nat
  BY DEF Good, Shape, NewOf
<1>2. t = Object(m, s.mapAddr, s.vRandom, s.nNew, s.nTried, s.nIdCount, nb, s.vvTried)
  <2>1. t = SetVvNew(s, nb)
    BY DEF SetVvNew, Entered, Inserted
  <2> HIDE DEF m, nb
  <2> QED BY <1>1, <2>1, SetFields
<1>3. /\ nb \in [NewBuckets -> SUBSET Nat]
      /\ \A c \in NewBuckets : nb[c] = IF c = b THEN s.vvNew[b] \cup {id} ELSE s.vvNew[c]
  BY <1>1 DEF Entered
<1>4. /\ Cardinality(BucketsOf(nb, id)) = Cardinality(BucketsOf(s.vvNew, id)) + 1
      /\ \A y : y # id => BucketsOf(nb, y) = BucketsOf(s.vvNew, y)
  BY <1>1, EnterCount
<1> HIDE DEF nb
<1>5. /\ t.mapInfo = m /\ t.mapAddr = s.mapAddr /\ t.vRandom = s.vRandom /\ t.nNew = s.nNew
      /\ t.nTried = s.nTried /\ t.nIdCount = s.nIdCount /\ t.vvNew = nb /\ t.vvTried = s.vvTried
  BY <1>2, FieldsOf
<1>6. Shape(t)
  BY <1>2, <1>3, <1>5 DEF Shape, Good
<1>7. NewOK(t.mapInfo, t.vvNew, 0, 0)
  <2>1. \A c \in NewBuckets : nb[c] \subseteq NewOf(m)
    BY <1>3 DEF Good, NewOK
  <2>2. ASSUME NEW c \in NewBuckets
        PROVE  Cardinality(nb[c]) <= ADDRMAN_NEW_BUCKET_SIZE
    <3>1. CASE c = b
      <4>1. s.vvNew[b] \subseteq DOMAIN m
        BY DEF Good, NewOK, NewOf
      <4>2. IsFiniteSet(s.vvNew[b]) /\ Cardinality(s.vvNew[b]) \in Nat
        BY <1>1, <4>1, EntriesFinite
      <4>3. Cardinality(s.vvNew[b] \cup {id}) = Cardinality(s.vvNew[b]) + 1
        BY <4>2, FS_AddElement
      <4>4. nb[c] = s.vvNew[b] \cup {id} /\ ADDRMAN_NEW_BUCKET_SIZE \in Nat
        BY <1>3, <3>1, AddrManAssumption
      <4> QED BY <4>2, <4>3, <4>4
    <3>2. CASE c # b
      BY <1>3, <3>2 DEF Good, NewOK
    <3> QED BY <3>1, <3>2
  <2>3. ASSUME NEW y \in NewOf(m)
        PROVE  /\ m[y].nRefCount = Cardinality(BucketsOf(nb, y))
               /\ m[y].nRefCount \in 1 .. ADDRMAN_NEW_BUCKETS_PER_ADDRESS
    <3>1. /\ m[y].nRefCount = Cardinality(BucketsOf(s.vvNew, y)) + (IF y = id THEN 1 ELSE 0)
          /\ m[y].nRefCount \in 1 .. ADDRMAN_NEW_BUCKETS_PER_ADDRESS
          /\ Cardinality(BucketsOf(s.vvNew, y)) \in Nat
      BY BucketsFinite DEF Good, NewOK
    <3> QED BY <1>4, <3>1
  <2>4. \A y : Cardinality(BucketsOf(nb, y)) \in Nat
    BY BucketsFinite
  <2> HIDE DEF m
  <2>5. \A y \in NewOf(m) : /\ m[y].nRefCount = Cardinality(BucketsOf(nb, y)) + (IF y = 0 THEN 0 ELSE 0)
                            /\ m[y].nRefCount \in 1 .. ADDRMAN_NEW_BUCKETS_PER_ADDRESS
    BY <2>3, <2>4
  <2> QED BY <1>5, <2>1, <2>2, <2>5 DEF NewOK
<1> QED BY <1>5, <1>6, <1>7 DEF Good

LEMMA EnterKeeps ==
  ASSUME NEW a, NEW id, Almost(a, id), NEW b \in NewBuckets, id \notin a.vvNew[b], EnterNew(a, id, b)
  PROVE  Good(am', 0, 0) /\ am'.nIdCount = a.nIdCount /\ TriedKept(a, am')
<1>1. PICK c : c = CountedUp(a, id)
  OBVIOUS
<1>2. /\ Good(c, id, 1) /\ id \in NewOf(c.mapInfo) /\ c.vvNew = a.vvNew
      /\ c.nIdCount = a.nIdCount /\ c.mapAddr = a.mapAddr
      /\ TriedOf(c.mapInfo) = TriedOf(a.mapInfo)
      /\ \A y \in DOMAIN c.mapInfo : c.mapInfo[y].addr = a.mapInfo[y].addr
  BY <1>1, CountUp
<1>3. /\ Cardinality(a.vvNew[b]) \in Nat /\ Cardinality(a.vvNew[b]) <= ADDRMAN_NEW_BUCKET_SIZE
      /\ IsFiniteSet(a.vvNew[b]) /\ ADDRMAN_NEW_BUCKET_SIZE \in Nat
  <2>1. /\ a.vvNew[b] \subseteq DOMAIN a.mapInfo /\ DOMAIN a.mapInfo \subseteq 0 .. a.nIdCount - 1
        /\ a.nIdCount \in Nat /\ Cardinality(a.vvNew[b]) <= ADDRMAN_NEW_BUCKET_SIZE
    BY DEF Almost, NewOf, Shape
  <2> QED BY <2>1, EntriesFinite, AddrManAssumption
<1>4. TriedKept(a, c)
  <2>1. \A y \in TriedOf(c.mapInfo) : Ip[c.mapInfo[y].addr] \in DOMAIN c.mapAddr /\ y \in DOMAIN c.mapInfo
    BY <1>2 DEF Good, AddrOK, TriedOf
  <2> QED BY <1>2, <2>1 DEF TriedKept
<1>5. PICK s : /\ s \in (IF Cardinality(a.vvNew[b]) = ADDRMAN_NEW_BUCKET_SIZE THEN ShrinkNew(c, b) ELSE {c})
               /\ am' = Inserted(s, b, id)
  BY <1>1 DEF EnterNew, CountedUp, Inserted
<1>6. /\ Good(s, id, 1) /\ id \in NewOf(s.mapInfo) /\ s.nIdCount = a.nIdCount
      /\ id \notin s.vvNew[b] /\ Cardinality(s.vvNew[b]) < ADDRMAN_NEW_BUCKET_SIZE
      /\ TriedKept(a, s)
  <2>1. CASE Cardinality(a.vvNew[b]) # ADDRMAN_NEW_BUCKET_SIZE
    BY <1>2, <1>3, <1>4, <1>5, <2>1
  <2>2. CASE Cardinality(a.vvNew[b]) = ADDRMAN_NEW_BUCKET_SIZE
    <3>1. PICK v \in c.vvNew[b] : s = Shrunk(c, b, v)
      BY <1>5, <2>2, ShrinkNewIsShrunk
    <3>2. v # id
      BY <1>2, <3>1
    <3>3. /\ Good(s, id, 1) /\ s.nIdCount = c.nIdCount /\ (id \in DOMAIN c.mapInfo => id \in DOMAIN s.mapInfo)
          /\ s.vvNew = Left(c.vvNew, b, v) /\ TriedKept(c, s)
          /\ \A y \in DOMAIN s.mapInfo : y \in DOMAIN c.mapInfo /\ s.mapInfo[y].fInTried = c.mapInfo[y].fInTried
      BY <1>2, <3>1, <3>2, ShrinkKeeps
    <3>4. id \in NewOf(s.mapInfo)
      BY <1>2, <3>3 DEF NewOf, TriedOf
    <3>5. s.vvNew[b] = a.vvNew[b] \ {v} /\ v \in a.vvNew[b]
      <4>1. a.vvNew \in [NewBuckets -> SUBSET Nat] /\ s.vvNew = Left(a.vvNew, b, v)
        BY <1>2, <3>3 DEF Almost, Shape
      <4> QED BY <1>2, <3>1, <4>1 DEF Left
    <3>6. Cardinality(a.vvNew[b] \ {v}) = Cardinality(a.vvNew[b]) - 1
      BY <1>3, <3>5, FS_RemoveElement
    <3>7. TriedKept(a, s)
      <4>1. \A y \in TriedOf(c.mapInfo) : y \in DOMAIN c.mapInfo
        BY DEF TriedOf
      <4> QED BY <1>2, <3>3, <4>1 DEF TriedKept
    <3> QED BY <1>2, <1>3, <2>2, <3>3, <3>4, <3>5, <3>6, <3>7
  <2> QED BY <2>1, <2>2
<1>7. Good(am', 0, 0) /\ am'.nIdCount = s.nIdCount /\ am'.mapAddr = s.mapAddr
  <2>1. PICK t : t = am'
    OBVIOUS
  <2>2. Good(t, 0, 0) /\ t.nIdCount = s.nIdCount /\ t.mapAddr = s.mapAddr
    BY <1>5, <1>6, <2>1, InsertKeeps
  <2> QED BY <2>1, <2>2
<1> QED BY <1>6, <1>7 DEF TriedKept

\* A new entry, with nNew counted up.
Created(a, addr, src) == [Create(a, addr, src) EXCEPT !.nNew = @ + 1]

LEMMA CreateKeeps ==
  ASSUME NEW a, Good(a, 0, 0), NEW addr \in Addrs, NEW src \in Sources, Ip[addr] \notin DOMAIN a.mapAddr,
         NEW c, c = Created(a, addr, src)
  PROVE  /\ Almost(c, a.nIdCount) /\ c.nIdCount = a.nIdCount + 1 /\ TriedKept(a, c)
         /\ c.vvNew = a.vvNew /\ \A b \in NewBuckets : a.nIdCount \notin c.vvNew[b]
         /\ TriedOf(c.mapInfo) = TriedOf(a.mapInfo)
         /\ \A y \in DOMAIN a.mapInfo : c.mapInfo[y] = a.mapInfo[y]
<1> DEFINE m == a.mapInfo
           D == DOMAIN m
           id == a.nIdCount
           new == [addr |-> addr, source |-> src, nLastSuccess |-> 0, nRefCount |-> 0,
                   fInTried |-> FALSE, nRandomPos |-> Len(a.vRandom) + 1]
           m1 == With(m, id, new)
           r1 == With(a.mapAddr, Ip[addr], id)
           v1 == Append(a.vRandom, id)
           k1 == a.nNew + 1
           c1 == id + 1
<1>1. /\ m \in [D -> Info] /\ D \subseteq 0 .. id - 1 /\ id \in Nat
      /\ a = Object(m, a.mapAddr, a.vRandom, a.nNew, a.nTried, id, a.vvNew, a.vvTried)
      /\ a.vRandom \in Seq(Nat)
  BY DEF Good, Shape
<1>2. id \notin D /\ Ip[addr] \in Ips
  BY <1>1, AddrManAssumption
<1>3. c = Object(m1, r1, v1, k1, a.nTried, c1, a.vvNew, a.vvTried)
  <2>1. c = SetNew(SetRandom(SetAddr(SetInfo(SetIdCount(a, c1), m1), r1), v1), k1)
    BY DEF Created, Create, SetNew, SetRandom, SetAddr, SetInfo, SetIdCount
  <2> HIDE DEF m, m1, r1, v1, k1, c1
  <2> QED BY <1>1, <2>1, SetFields
<1>4. /\ DOMAIN m1 = D \cup {id} /\ m1[id] = new /\ \A y \in D : m1[y] = m[y]
      /\ m1 \in [DOMAIN m1 -> Info] /\ DOMAIN m1 \subseteq 0 .. c1 - 1
  <2>1. new \in Info
    BY <1>1 DEF Info
  <2> HIDE DEF m, D, new
  <2>2. DOMAIN m1 = D \cup {id} /\ m1[id] = new /\ \A y \in D : m1[y] = m[y]
    BY <1>1, <1>2 DEF With, D
  <2>3. m1 = [y \in DOMAIN m1 |-> m1[y]]
    BY DEF With
  <2>4. m1 \in [DOMAIN m1 -> Info]
    BY <1>1, <2>1, <2>2, <2>3
  <2> QED BY <1>1, <2>2, <2>4
<1>5. /\ DOMAIN r1 = DOMAIN a.mapAddr \cup {Ip[addr]} /\ r1[Ip[addr]] = id
      /\ \A ip \in DOMAIN a.mapAddr : r1[ip] = a.mapAddr[ip]
      /\ DOMAIN r1 \subseteq Ips /\ r1 \in [DOMAIN r1 -> Nat]
  <2>1. DOMAIN a.mapAddr \subseteq Ips /\ a.mapAddr \in [DOMAIN a.mapAddr -> Nat] /\ id \in Nat
    BY DEF Good, Shape
  <2> QED BY <1>2, <2>1 DEF With
<1>6. /\ v1 \in Seq(Nat) /\ Len(v1) = Len(a.vRandom) + 1 /\ v1[Len(a.vRandom) + 1] = id
      /\ \A p \in 1 .. Len(a.vRandom) : v1[p] = a.vRandom[p]
      /\ Len(a.vRandom) \in Nat
  BY <1>1
<1>7. k1 \in Int /\ c1 \in Nat /\ a.nTried \in Int /\ a.nNew \in Int
      /\ a.vvNew \in [NewBuckets -> SUBSET Nat] /\ a.vvTried \in [TriedBuckets -> Seq(Nat)]
  BY DEF Good, Shape
<1>8. /\ new.addr = addr /\ ~new.fInTried /\ new.nRefCount = 0 /\ new.nRandomPos = Len(a.vRandom) + 1
  OBVIOUS
<1> HIDE DEF m1, r1, v1, k1, c1, new
<1>9. /\ c.mapInfo = m1 /\ c.mapAddr = r1 /\ c.vRandom = v1 /\ c.nNew = k1
      /\ c.nTried = a.nTried /\ c.nIdCount = c1 /\ c.vvNew = a.vvNew /\ c.vvTried = a.vvTried
  BY <1>3, FieldsOf
<1>10. Shape(c)
  <2>1. Shape(Object(m1, r1, v1, k1, a.nTried, c1, a.vvNew, a.vvTried))
    BY <1>4, <1>5, <1>6, <1>7, ShapeOf
  <2> QED BY <1>3, <2>1
<1>11. RandomOK(m1, v1)
  <2>1. RandomOK(m, a.vRandom)
    BY DEF Good
  <2>2. ASSUME NEW y \in DOMAIN m1
        PROVE  m1[y].nRandomPos \in 1 .. Len(v1) /\ v1[m1[y].nRandomPos] = y
    <3>1. CASE y = id
      BY <1>4, <1>6, <1>8, <3>1
    <3>2. CASE y \in D
      <4>1. m[y].nRandomPos \in 1 .. Len(a.vRandom) /\ a.vRandom[m[y].nRandomPos] = y
        BY <2>1, <3>2 DEF RandomOK
      <4> QED BY <1>4, <1>6, <3>2, <4>1
    <3> QED BY <1>4, <3>1, <3>2
  <2>3. ASSUME NEW p \in 1 .. Len(v1)
        PROVE  v1[p] \in DOMAIN m1 /\ m1[v1[p]].nRandomPos = p
    <3>1. CASE p = Len(a.vRandom) + 1
      BY <1>4, <1>6, <1>8, <3>1
    <3>2. CASE p \in 1 .. Len(a.vRandom)
      <4>1. a.vRandom[p] \in D /\ m[a.vRandom[p]].nRandomPos = p
        BY <2>1, <3>2 DEF RandomOK
      <4> QED BY <1>4, <1>6, <3>2, <4>1
    <3> QED BY <1>6, <3>1, <3>2
  <2> QED BY <2>2, <2>3 DEF RandomOK
<1>12. AddrOK(m1, r1)
  <2>1. AddrOK(m, a.mapAddr)
    BY DEF Good
  <2>2. ASSUME NEW y \in DOMAIN m1
        PROVE  Ip[m1[y].addr] \in DOMAIN r1 /\ r1[Ip[m1[y].addr]] = y
    <3>1. CASE y = id
      BY <1>4, <1>5, <1>8, <3>1
    <3>2. CASE y \in D
      BY <1>4, <1>5, <2>1, <3>2 DEF AddrOK
    <3> QED BY <1>4, <3>1, <3>2
  <2>3. ASSUME NEW ip \in DOMAIN r1
        PROVE  r1[ip] \in DOMAIN m1 /\ Ip[m1[r1[ip]].addr] = ip
    <3>1. CASE ip = Ip[addr]
      BY <1>4, <1>5, <1>8, <3>1
    <3>2. CASE ip \in DOMAIN a.mapAddr
      BY <1>4, <1>5, <2>1, <3>2 DEF AddrOK
    <3> QED BY <1>5, <3>1, <3>2
  <2> QED BY <2>2, <2>3 DEF AddrOK
<1>13. TriedOf(m1) = TriedOf(m) /\ NewOf(m1) = NewOf(m) \cup {id} /\ id \notin NewOf(m)
  <2>1. TriedOf(m1) = TriedOf(m)
    BY <1>2, <1>4, <1>8 DEF TriedOf
  <2>2. id \notin TriedOf(m)
    BY <1>2 DEF TriedOf
  <2> QED BY <1>2, <1>4, <2>1, <2>2 DEF NewOf
<1>14. TriedOK(m1, a.vvTried)
  <2>1. TriedOK(m, a.vvTried) /\ \A y \in TriedOf(m) : m1[y] = m[y]
    BY <1>4 DEF Good, TriedOf
  <2>2. \A y \in TriedOf(m) : m1[y].addr = m[y].addr /\ m1[y].nLastSuccess = m[y].nLastSuccess
                                /\ m1[y].nRefCount = m[y].nRefCount
    BY <2>1
  <2> HIDE DEF m
  <2> QED BY <1>13, <2>1, <2>2, TriedUnchanged
<1>15. CountOK(m1, v1, k1, a.nTried)
  <2>1. IsFiniteSet(NewOf(m)) /\ Cardinality(NewOf(m)) \in Nat /\ Cardinality(TriedOf(m)) \in Nat
    BY <1>1, EntriesFinite DEF NewOf, TriedOf
  <2>2. Cardinality(NewOf(m) \cup {id}) = Cardinality(NewOf(m)) + 1
    BY <1>13, <2>1, FS_AddElement
  <2>3. a.nNew = Cardinality(NewOf(m)) /\ a.nTried = Cardinality(TriedOf(m))
        /\ Len(a.vRandom) = a.nNew + a.nTried
    BY DEF Good, CountOK
  <2> HIDE DEF m
  <2> QED BY <1>6, <1>13, <2>1, <2>2, <2>3 DEF CountOK, k1
<1>16. NewOK(m, a.vvNew, 0, 0)
  BY DEF Good
<1>17. \A b \in NewBuckets : id \notin a.vvNew[b]
  BY <1>13, <1>16 DEF NewOK
<1>18. BucketsOf(a.vvNew, id) = {} /\ Cardinality(BucketsOf(a.vvNew, id)) = 0
  BY <1>17, FS_EmptySet DEF BucketsOf
<1>19. ASSUME NEW y \in NewOf(m1)
       PROVE  /\ m1[y].nRefCount = Cardinality(BucketsOf(a.vvNew, y))
              /\ y # id => m1[y].nRefCount \in 1 .. ADDRMAN_NEW_BUCKETS_PER_ADDRESS
  <2>1. CASE y = id
    BY <1>4, <1>8, <1>18, <2>1
  <2>2. CASE y \in NewOf(m)
    <3>1. /\ m[y].nRefCount = Cardinality(BucketsOf(a.vvNew, y)) + 0
          /\ m[y].nRefCount \in 1 .. ADDRMAN_NEW_BUCKETS_PER_ADDRESS /\ y \in D
      BY <1>16, <2>2 DEF NewOK, NewOf
    <3>2. Cardinality(BucketsOf(a.vvNew, y)) \in Nat
      BY BucketsFinite
    <3> QED BY <1>4, <3>1, <3>2
  <2> QED BY <1>13, <2>1, <2>2
<1>20. \A b \in NewBuckets : /\ a.vvNew[b] \subseteq NewOf(m1)
                             /\ Cardinality(a.vvNew[b]) <= ADDRMAN_NEW_BUCKET_SIZE
  BY <1>13, <1>16 DEF NewOK
<1>21. m1[id].nRefCount \in 0 .. ADDRMAN_NEW_BUCKETS_PER_ADDRESS - 1
  BY <1>4, <1>8, AddrManAssumption
<1>22. Almost(c, id)
  <2> HIDE DEF m, id
  <2> QED BY <1>9, <1>10, <1>11, <1>12, <1>13, <1>14, <1>15, <1>19, <1>20, <1>21 DEF Almost
<1>23. TriedKept(a, c)
  <2>1. \A y \in TriedOf(m) : Ip[m[y].addr] \in DOMAIN a.mapAddr
    BY DEF Good, AddrOK, TriedOf
  <2> QED BY <1>5, <1>9, <2>1 DEF TriedKept
<1> QED BY <1>4, <1>9, <1>13, <1>17, <1>22, <1>23 DEF c1

LEMMA AddKeeps ==
  ASSUME Good(am, 0, 0), am.nIdCount <= MaxIds,
         NEW addr \in Addrs, NEW src \in Sources, Add_(addr, src)
  PROVE  Good(am', 0, 0) /\ am'.nIdCount <= MaxIds /\ TriedKept(am, am')
<1> DEFINE ip == Ip[addr]
           b == NewBucket[ip][src]
<1>1. b \in NewBuckets /\ ip \in Ips /\ MaxIds \in Nat /\ am.nIdCount \in Nat
  BY AddrManAssumption DEF Good, Shape
<1>2. CASE /\ ip \in DOMAIN am.mapAddr
           /\ MayAddAgain(addr)
           /\ IdOf(addr) \notin am.vvNew[b]
           /\ EnterNew(am, IdOf(addr), b)
  <2>1. PICK id : id = IdOf(addr)
    OBVIOUS
  <2>2. id \in DOMAIN am.mapInfo
    BY <1>2, <2>1 DEF Good, AddrOK, IdOf
  <2>3. ~am.mapInfo[id].fInTried /\ am.mapInfo[id].nRefCount # ADDRMAN_NEW_BUCKETS_PER_ADDRESS
    BY <1>2, <2>1 DEF MayAddAgain
  <2>4. id \in NewOf(am.mapInfo)
    BY <2>2, <2>3 DEF NewOf, TriedOf
  <2>5. \A y \in NewOf(am.mapInfo) :
          /\ am.mapInfo[y].nRefCount = Cardinality(BucketsOf(am.vvNew, y))
          /\ am.mapInfo[y].nRefCount \in 1 .. ADDRMAN_NEW_BUCKETS_PER_ADDRESS
    BY BucketsFinite DEF Good, NewOK
  <2>6. am.mapInfo[id].nRefCount \in 0 .. ADDRMAN_NEW_BUCKETS_PER_ADDRESS - 1
    <3>1. ADDRMAN_NEW_BUCKETS_PER_ADDRESS \in Nat
      BY AddrManAssumption
    <3>2. am.mapInfo[id].nRefCount \in 1 .. ADDRMAN_NEW_BUCKETS_PER_ADDRESS
      BY <2>4, <2>5
    <3> QED BY <2>3, <3>1, <3>2
  <2>7. Almost(am, id)
    BY <2>4, <2>5, <2>6 DEF Good, NewOK, Almost
  <2>8. id \notin am.vvNew[b] /\ EnterNew(am, id, b)
    BY <1>2, <2>1
  <2> HIDE DEF b
  <2>9. Good(am', 0, 0) /\ am'.nIdCount = am.nIdCount /\ TriedKept(am, am')
    BY <1>1, <2>7, <2>8, EnterKeeps
  <2> QED BY <2>9
<1>3. CASE /\ ip \notin DOMAIN am.mapAddr
           /\ am.nIdCount < MaxIds
           /\ EnterNew(Created(am, addr, src), am.nIdCount, b)
  <2>1. PICK c : c = Created(am, addr, src)
    OBVIOUS
  <2>2. PICK id : id = am.nIdCount
    OBVIOUS
  <2>3. /\ Almost(c, id) /\ c.nIdCount = id + 1 /\ TriedKept(am, c)
        /\ \A bb \in NewBuckets : id \notin c.vvNew[bb]
        /\ TriedOf(c.mapInfo) = TriedOf(am.mapInfo)
        /\ \A y \in DOMAIN am.mapInfo : c.mapInfo[y] = am.mapInfo[y]
    BY <1>3, <2>1, <2>2, CreateKeeps
  <2> HIDE DEF b
  <2>4. EnterNew(c, id, b)
    BY <1>3, <2>1, <2>2
  <2>5. Good(am', 0, 0) /\ am'.nIdCount = c.nIdCount /\ TriedKept(c, am')
    BY <1>1, <2>3, <2>4, EnterKeeps
  <2>6. TriedKept(am, am')
    BY <2>3, <2>5 DEF TriedKept, TriedOf
  <2> QED BY <1>1, <1>3, <2>2, <2>3, <2>5, <2>6
<1> QED BY <1>2, <1>3 DEF Add_, Known, Created

-----------------------------------------------------------------------------
(***************************************************************************)
(* Loops: induction on their counter.                                      *)
(***************************************************************************)
LEMMA SmallestOf ==
  ASSUME NEW S, S \subseteq Nat, S # {}
  PROVE  \E i \in S : \A j \in S : i <= j
<1>1. PICK i \in S : \A j \in S : ~ (<<j, i>> \in OpToRel(<, Nat))
  BY WFMin, NatLessThanWellFounded
<1>2. \A j \in S : i <= j
  <2> TAKE j \in S
  <2>1. i \in Nat /\ j \in Nat
    OBVIOUS
  <2>2. ~(j < i)
    BY <1>1, <2>1, Zenon DEF OpToRel
  <2> QED BY <2>1, <2>2
<1> QED BY <1>2

LEMMA CountingInduction ==
  ASSUME NEW N \in Nat, NEW S, 0 \in S, \A n \in 0 .. N - 1 : n \in S => n + 1 \in S
  PROVE  \A n \in 0 .. N : n \in S
<1> DEFINE T == {n \in 0 .. N : n \notin S}
<1> SUFFICES ASSUME T # {} PROVE FALSE
  OBVIOUS
<1>1. T \subseteq Nat
  OBVIOUS
<1>2. PICK n \in T : \A y \in T : n <= y
  BY <1>1, SmallestOf
<1>3. n - 1 \in 0 .. N - 1 /\ n - 1 \notin T
  BY <1>2
<1>4. (n - 1) + 1 \in S
  BY <1>3
<1> QED BY <1>2, <1>4

(***************************************************************************)
(* GetAddr_ swaps, once per answer.  Its loop has a result for every       *)
(* number of rounds, and every object in it is good.                       *)
(***************************************************************************)
SwapAt(X, n, size) == {SwapRandom(a, n, p) : a \in X, p \in n .. size}
Shuffle(f, x, size, j) ==
  \A n \in 0 .. j : f[n] = IF n = 0 THEN {x} ELSE SwapAt(f[n - 1], n, size)
ShuffleOf(x, size) ==
  CHOOSE f : f = [n \in 0 .. size |-> IF n = 0 THEN {x} ELSE SwapAt(f[n - 1], n, size)]

LEMMA ShuffleExists ==
  ASSUME NEW x, NEW size \in Nat
  PROVE  Shuffle(ShuffleOf(x, size), x, size, size)
<1> DEFINE S == {j \in 0 .. size : \E f : Shuffle(f, x, size, j)}
<1>1. 0 \in S
  <2> DEFINE f == [n \in {0} |-> {x}]
  <2>1. Shuffle(f, x, size, 0)
    BY DEF Shuffle
  <2> QED BY <2>1
<1>2. ASSUME NEW j \in 0 .. size - 1, j \in S
      PROVE  j + 1 \in S
  <2>1. PICK f : Shuffle(f, x, size, j)
    BY <1>2
  <2>2. PICK X : X = SwapAt(f[j], j + 1, size)
    OBVIOUS
  <2> DEFINE g == [n \in 0 .. j + 1 |-> IF n = j + 1 THEN X ELSE f[n]]
  <2>3. (\A n \in 0 .. j : g[n] = f[n]) /\ g[j + 1] = X
    OBVIOUS
  <2> HIDE DEF g
  <2>4. ASSUME NEW n \in 0 .. j + 1
        PROVE  g[n] = IF n = 0 THEN {x} ELSE SwapAt(g[n - 1], n, size)
    <3>1. CASE n = j + 1
      BY <2>2, <2>3, <3>1
    <3>2. CASE n \in 0 .. j
      <4>1. f[n] = IF n = 0 THEN {x} ELSE SwapAt(f[n - 1], n, size)
        BY <2>1, <3>2 DEF Shuffle
      <4>2. n # 0 => n - 1 \in 0 .. j
        BY <3>2
      <4> QED BY <2>3, <3>2, <4>1, <4>2
    <3> QED BY <3>1, <3>2
  <2>5. Shuffle(g, x, size, j + 1)
    BY <2>4 DEF Shuffle
  <2> QED BY <2>5
<1>3. size \in S
  <2> HIDE DEF S
  <2>1. \A n \in 0 .. size : n \in S
    BY <1>1, <1>2, CountingInduction
  <2> QED BY <2>1
<1>4. PICK f : Shuffle(f, x, size, size)
  BY <1>3
<1> DEFINE g == [n \in 0 .. size |-> f[n]]
<1>5. g = [n \in 0 .. size |-> IF n = 0 THEN {x} ELSE SwapAt(g[n - 1], n, size)]
  <2>1. \A n \in 0 .. size : g[n] = f[n]
    OBVIOUS
  <2>2. ASSUME NEW n \in 0 .. size
        PROVE  f[n] = IF n = 0 THEN {x} ELSE SwapAt(g[n - 1], n, size)
    <3>1. n # 0 => n - 1 \in 0 .. size
      OBVIOUS
    <3> HIDE DEF g
    <3> QED BY <1>4, <2>1, <3>1 DEF Shuffle
  <2> QED BY <2>2
<1> HIDE DEF g
<1>6. PICK h : h = ShuffleOf(x, size)
  OBVIOUS
<1>7. h = [n \in 0 .. size |-> IF n = 0 THEN {x} ELSE SwapAt(h[n - 1], n, size)]
  BY <1>5, <1>6 DEF ShuffleOf
<1>8. Shuffle(h, x, size, size)
  BY <1>7 DEF Shuffle
<1> QED BY <1>6, <1>8

LEMMA ReorderKeeps ==
  ASSUME NEW a, Good(a, 0, 0), NEW s, Shape(s), RandomOK(s.mapInfo, s.vRandom), SameButOrder(a, s)
  PROVE  Good(s, 0, 0) /\ TriedKept(a, s)
<1> DEFINE m == a.mapInfo
           n == s.mapInfo
<1>1. /\ DOMAIN n = DOMAIN m /\ s.mapAddr = a.mapAddr /\ s.vvNew = a.vvNew /\ s.vvTried = a.vvTried
      /\ s.nNew = a.nNew /\ s.nTried = a.nTried /\ Len(s.vRandom) = Len(a.vRandom)
      /\ \A y \in DOMAIN m : /\ n[y].addr = m[y].addr /\ n[y].nLastSuccess = m[y].nLastSuccess
                             /\ n[y].nRefCount = m[y].nRefCount /\ n[y].fInTried = m[y].fInTried
  BY DEF SameButOrder, SameButPos
<1>2. AddrOK(n, s.mapAddr)
  BY <1>1 DEF Good, AddrOK
<1>3. TriedOf(n) = TriedOf(m) /\ TriedOK(n, s.vvTried)
  <2>1. TriedOf(m) \subseteq DOMAIN m /\ TriedOK(m, a.vvTried)
    BY DEF TriedOf, Good
  <2> HIDE DEF m, n
  <2> QED BY <1>1, <2>1, TriedStays
<1>4. NewOf(n) = NewOf(m) /\ NewOf(m) \subseteq DOMAIN m
  BY <1>1, <1>3 DEF NewOf
<1>5. NewOK(n, s.vvNew, 0, 0)
  BY <1>1, <1>4 DEF Good, NewOK
<1>6. CountOK(n, s.vRandom, s.nNew, s.nTried)
  BY <1>1, <1>3, <1>4 DEF Good, CountOK
<1>7. TriedKept(a, s)
  BY <1>1 DEF TriedKept, TriedOf, Good, AddrOK
<1> QED BY <1>2, <1>3, <1>5, <1>6, <1>7 DEF Good

LEMMA OrderIsTransitive ==
  ASSUME NEW a, NEW s, NEW t, SameButOrder(a, s), SameButOrder(s, t)
  PROVE  SameButOrder(a, t)
BY DEF SameButOrder, SameButPos

LEMMA GetAddrKeeps ==
  ASSUME Good(am, 0, 0), GetAddr_
  PROVE  Good(am', 0, 0) /\ am'.nIdCount = am.nIdCount /\ TriedKept(am, am')
<1> DEFINE size == Len(am.vRandom)
           nNodes == Least((ADDRMAN_GETADDR_MAX_PCT * size) \div 100, ADDRMAN_GETADDR_MAX)
<1>1. size \in Nat /\ Shape(am) /\ RandomOK(am.mapInfo, am.vRandom)
  BY DEF Good, Shape
<1>2. nNodes \in 0 .. size
  <2> HIDE DEF size
  <2>1. ADDRMAN_GETADDR_MAX_PCT \in 0 .. 100 /\ ADDRMAN_GETADDR_MAX \in Nat
    BY AddrManAssumption
  <2>2. /\ ADDRMAN_GETADDR_MAX_PCT * size \in Nat
        /\ ADDRMAN_GETADDR_MAX_PCT * size <= 100 * size
    BY <1>1, <2>1
  <2>3. PICK x \in Nat : x = ADDRMAN_GETADDR_MAX_PCT * size
    BY <2>2
  <2>4. x \div 100 \in 0 .. size
    BY <1>1, <2>2, <2>3
  <2> QED BY <1>1, <2>1, <2>3, <2>4 DEF Least
<1>3. PICK f : f = ShuffleOf(am, size)
  OBVIOUS
<1>4. am' \in f[nNodes]
  BY <1>3 DEF GetAddr_, SwapAt, ShuffleOf
<1>5. Shuffle(f, am, size, size)
  <2> HIDE DEF size
  <2> QED BY <1>1, <1>3, ShuffleExists
<1> DEFINE S == {n \in 0 .. size : \A s \in f[n] :
                   Shape(s) /\ RandomOK(s.mapInfo, s.vRandom) /\ SameButOrder(am, s)}
<1> HIDE DEF nNodes
<1>6. 0 \in S
  <2>1. SameButOrder(am, am)
    BY DEF SameButOrder, SameButPos
  <2>2. f[0] = {am}
    BY <1>1, <1>5 DEF Shuffle
  <2> QED BY <1>1, <2>1, <2>2
<1>7. ASSUME NEW n \in 0 .. size - 1, n \in S
      PROVE  n + 1 \in S
  <2>1. f[n + 1] = SwapAt(f[n], n + 1, size)
    <3>1. n + 1 \in 0 .. size /\ n + 1 # 0 /\ (n + 1) - 1 = n
      BY <1>1
    <3> HIDE DEF size
    <3> QED BY <1>5, <3>1 DEF Shuffle
  <2>2. ASSUME NEW t \in f[n + 1]
        PROVE  Shape(t) /\ RandomOK(t.mapInfo, t.vRandom) /\ SameButOrder(am, t)
    <3>1. PICK s \in f[n], p \in n + 1 .. size : t = SwapRandom(s, n + 1, p)
      BY <2>1 DEF SwapAt
    <3>2. Shape(s) /\ RandomOK(s.mapInfo, s.vRandom) /\ SameButOrder(am, s)
      BY <1>7, <3>1
    <3>3. n + 1 \in 1 .. Len(s.vRandom) /\ p \in 1 .. Len(s.vRandom)
      BY <1>1, <3>1, <3>2 DEF SameButOrder
    <3>4. Shape(t) /\ RandomOK(t.mapInfo, t.vRandom) /\ SameButOrder(s, t)
      BY <3>1, <3>2, <3>3, SwapKeeps
    <3> QED BY <3>2, <3>4, OrderIsTransitive
  <2> QED BY <2>2
<1>8. nNodes \in S
  <2> HIDE DEF S, size
  <2>1. \A n \in 0 .. size : n \in S
    BY <1>1, <1>6, <1>7, CountingInduction
  <2> QED BY <1>2, <2>1
<1>9. PICK t : t = am'
  OBVIOUS
<1>10. Shape(t) /\ RandomOK(t.mapInfo, t.vRandom) /\ SameButOrder(am, t)
  BY <1>4, <1>8, <1>9
<1>11. Good(t, 0, 0) /\ TriedKept(am, t)
  BY <1>10, ReorderKeeps
<1> QED BY <1>9, <1>10, <1>11 DEF SameButOrder

-----------------------------------------------------------------------------
(***************************************************************************)
(* SelectTried: the vector stays a permutation, and the position is one of *)
(* its positions.                                                          *)
(***************************************************************************)
Inspected(m, r, i, p) ==
  LET older == r.nOldest = -1 \/ m[r.vTried[p]].nLastSuccess < m[r.nOldest].nLastSuccess
  IN  [vTried |-> SwappedVector(r.vTried, p, i),
       nOldest |-> IF older THEN r.vTried[p] ELSE r.nOldest,
       nPos |-> IF older THEN p ELSE r.nPos]
InspectAt(m, X, i, size) == {Inspected(m, r, i, p) : r \in X, p \in i .. size}
Selection(m, f, x, size, j) ==
  \A n \in 0 .. j : f[n] = IF n = 0 THEN {x} ELSE InspectAt(m, f[n - 1], n, size)
SelectionOf(m, x, size) ==
  CHOOSE f : f = [n \in 0 .. size |-> IF n = 0 THEN {x} ELSE InspectAt(m, f[n - 1], n, size)]

LEMMA SelectionExists ==
  ASSUME NEW m, NEW x, NEW size \in Nat
  PROVE  Selection(m, SelectionOf(m, x, size), x, size, size)
<1> DEFINE S == {j \in 0 .. size : \E f : Selection(m, f, x, size, j)}
<1>1. 0 \in S
  <2> DEFINE f == [n \in {0} |-> {x}]
  <2>1. Selection(m, f, x, size, 0)
    BY DEF Selection
  <2> QED BY <2>1
<1>2. ASSUME NEW j \in 0 .. size - 1, j \in S
      PROVE  j + 1 \in S
  <2>1. PICK f : Selection(m, f, x, size, j)
    BY <1>2
  <2>2. PICK X : X = InspectAt(m, f[j], j + 1, size)
    OBVIOUS
  <2> DEFINE g == [n \in 0 .. j + 1 |-> IF n = j + 1 THEN X ELSE f[n]]
  <2>3. (\A n \in 0 .. j : g[n] = f[n]) /\ g[j + 1] = X
    OBVIOUS
  <2> HIDE DEF g
  <2>4. ASSUME NEW n \in 0 .. j + 1
        PROVE  g[n] = IF n = 0 THEN {x} ELSE InspectAt(m, g[n - 1], n, size)
    <3>1. CASE n = j + 1
      BY <2>2, <2>3, <3>1
    <3>2. CASE n \in 0 .. j
      <4>1. f[n] = IF n = 0 THEN {x} ELSE InspectAt(m, f[n - 1], n, size)
        BY <2>1, <3>2 DEF Selection
      <4>2. n # 0 => n - 1 \in 0 .. j
        BY <3>2
      <4> QED BY <2>3, <3>2, <4>1, <4>2
    <3> QED BY <3>1, <3>2
  <2>5. Selection(m, g, x, size, j + 1)
    BY <2>4 DEF Selection
  <2> QED BY <2>5
<1>3. size \in S
  <2> HIDE DEF S
  <2>1. \A n \in 0 .. size : n \in S
    BY <1>1, <1>2, CountingInduction
  <2> QED BY <2>1
<1>4. PICK f : Selection(m, f, x, size, size)
  BY <1>3
<1> DEFINE g == [n \in 0 .. size |-> f[n]]
<1>5. g = [n \in 0 .. size |-> IF n = 0 THEN {x} ELSE InspectAt(m, g[n - 1], n, size)]
  <2>1. \A n \in 0 .. size : g[n] = f[n]
    OBVIOUS
  <2>2. ASSUME NEW n \in 0 .. size
        PROVE  f[n] = IF n = 0 THEN {x} ELSE InspectAt(m, g[n - 1], n, size)
    <3>1. n # 0 => n - 1 \in 0 .. size
      OBVIOUS
    <3> HIDE DEF g
    <3> QED BY <1>4, <2>1, <3>1 DEF Selection
  <2> QED BY <2>2
<1> HIDE DEF g
<1>6. PICK h : h = SelectionOf(m, x, size)
  OBVIOUS
<1>7. h = [n \in 0 .. size |-> IF n = 0 THEN {x} ELSE InspectAt(m, h[n - 1], n, size)]
  BY <1>5, <1>6 DEF SelectionOf
<1>8. Selection(m, h, x, size, size)
  BY <1>7 DEF Selection
<1> QED BY <1>6, <1>8

LEMMA SelectTriedIsSelection ==
  ASSUME NEW a, NEW k
  PROVE  LET x == [vTried |-> a.vvTried[k], nOldest |-> -1, nPos |-> -1]
             size == Len(a.vvTried[k])
         IN  SelectTried(a, k)
               = SelectionOf(a.mapInfo, x, size)[Least(ADDRMAN_TRIED_ENTRIES_INSPECT_ON_EVICT, size)]
BY DEF SelectTried, SelectionOf, InspectAt, Inspected, SwappedVector

\* v lists what w lists, each entry once.
Permuted(v, w) ==
  /\ v \in Seq(Nat) /\ Len(v) = Len(w)
  /\ \A p \in 1 .. Len(w) : \E q \in 1 .. Len(w) : v[p] = w[q]
  /\ \A q \in 1 .. Len(w) : \E p \in 1 .. Len(w) : v[p] = w[q]
  /\ \A p, q \in 1 .. Len(w) : v[p] = v[q] => p = q

LEMMA SwapPermutes ==
  ASSUME NEW w \in Seq(Nat), NEW v, Permuted(v, w), NEW p \in 1 .. Len(w), NEW i \in 1 .. Len(w),
         NEW v2, v2 = SwappedVector(v, p, i)
  PROVE  Permuted(v2, w)
<1>1. PICK n \in Nat : n = Len(w)
  OBVIOUS
<1>2. v2 \in Seq(Nat) /\ Len(v2) = n
      /\ \A j \in 1 .. n : v2[j] = IF j = i THEN v[p] ELSE IF j = p THEN v[i] ELSE v[j]
  <2>1. v \in Seq(Nat) /\ Len(v) = n /\ p \in 1 .. Len(v) /\ i \in 1 .. Len(v)
    BY <1>1 DEF Permuted
  <2>2. v2 \in Seq(Nat) /\ Len(v2) = Len(v)
    BY <2>1 DEF SwappedVector
  <2>3. \A j \in 1 .. Len(v) : v2[j] = IF j = i THEN v[p] ELSE IF j = p THEN v[i] ELSE v[j]
    BY <2>1 DEF SwappedVector
  <2> QED BY <2>1, <2>2, <2>3
<1>3. ASSUME NEW j \in 1 .. n
      PROVE  \E q \in 1 .. n : v2[j] = w[q]
  <2>1. \A x \in 1 .. n : \E q \in 1 .. n : v[x] = w[q]
    BY <1>1 DEF Permuted
  <2>2. PICK x \in 1 .. n : v2[j] = v[x]
    BY <1>1, <1>2
  <2> QED BY <2>1, <2>2
<1>4. ASSUME NEW q \in 1 .. n
      PROVE  \E j \in 1 .. n : v2[j] = w[q]
  <2>1. PICK j \in 1 .. n : v[j] = w[q]
    BY <1>1 DEF Permuted
  <2>2. CASE j = p
    BY <1>1, <1>2, <2>1, <2>2
  <2>3. CASE j = i
    BY <1>1, <1>2, <2>1, <2>3
  <2>4. CASE j # p /\ j # i
    BY <1>2, <2>1, <2>4
  <2> QED BY <2>2, <2>3, <2>4
<1>5. ASSUME NEW j \in 1 .. n, NEW l \in 1 .. n, v2[j] = v2[l]
      PROVE  j = l
  <2>1. \A x, y \in 1 .. n : v[x] = v[y] => x = y
    BY <1>1 DEF Permuted
  <2>2. p \in 1 .. n /\ i \in 1 .. n
    BY <1>1
  <2> DEFINE Src(x) == IF x = i THEN p ELSE IF x = p THEN i ELSE x
  <2>3. Src(j) \in 1 .. n /\ Src(l) \in 1 .. n
    BY <2>2
  <2>4. v2[j] = v[Src(j)] /\ v2[l] = v[Src(l)]
    BY <1>2
  <2>5. Src(j) = Src(l)
    <3> HIDE DEF Src
    <3> QED BY <1>5, <2>1, <2>3, <2>4
  <2> QED BY <2>5
<1> QED BY <1>1, <1>2, <1>3, <1>4, <1>5 DEF Permuted

LEMMA SelectTriedPermutes ==
  ASSUME NEW a, NEW k, NEW w \in Seq(Nat), w = a.vvTried[k], w # <<>>,
         \A p, q \in 1 .. Len(w) : w[p] = w[q] => p = q,
         NEW r \in SelectTried(a, k)
  PROVE  Permuted(r.vTried, w) /\ r.nPos \in 1 .. Len(w)
<1> DEFINE size == Len(w)
           N == Least(ADDRMAN_TRIED_ENTRIES_INSPECT_ON_EVICT, size)
<1>1. PICK x : x = [vTried |-> w, nOldest |-> -1, nPos |-> -1]
  OBVIOUS
<1>2. PICK m : m = a.mapInfo
  OBVIOUS
<1>3. PICK f : f = SelectionOf(m, x, size)
  OBVIOUS
<1>4. r \in f[N]
  BY <1>1, <1>2, <1>3, SelectTriedIsSelection
<1>5. size \in Nat /\ size # 0
  OBVIOUS
<1>6. N \in 1 .. size
  <2> HIDE DEF size
  <2>1. ADDRMAN_TRIED_ENTRIES_INSPECT_ON_EVICT \in Nat \ {0}
    BY AddrManAssumption
  <2> QED BY <1>5, <2>1 DEF Least
<1>7. Selection(m, f, x, size, size)
  <2> HIDE DEF size
  <2> QED BY <1>3, <1>5, SelectionExists
<1> DEFINE S == {n \in 0 .. size : \A s \in f[n] :
                   /\ Permuted(s.vTried, w)
                   /\ IF n = 0 THEN s.nOldest = -1 ELSE s.nPos \in 1 .. size}
<1> HIDE DEF N
<1>8. 0 \in S
  <2>1. Permuted(w, w)
    BY DEF Permuted
  <2>2. f[0] = {x}
    BY <1>5, <1>7 DEF Selection
  <2>3. x.vTried = w /\ x.nOldest = -1
    BY <1>1
  <2> QED BY <1>5, <2>1, <2>2, <2>3
<1>9. ASSUME NEW n \in 0 .. size - 1, n \in S
      PROVE  n + 1 \in S
  <2>1. n + 1 \in 0 .. size /\ n + 1 # 0 /\ (n + 1) - 1 = n /\ n + 1 \in 1 .. size
    BY <1>5
  <2>2. f[n + 1] = InspectAt(m, f[n], n + 1, size)
    <3> HIDE DEF size
    <3> QED BY <1>7, <2>1 DEF Selection
  <2>3. ASSUME NEW t \in f[n + 1]
        PROVE  Permuted(t.vTried, w) /\ t.nPos \in 1 .. size
    <3>1. PICK s \in f[n], p \in n + 1 .. size : t = Inspected(m, s, n + 1, p)
      BY <2>2 DEF InspectAt
    <3>2. Permuted(s.vTried, w) /\ (IF n = 0 THEN s.nOldest = -1 ELSE s.nPos \in 1 .. size)
      BY <1>9, <3>1
    <3>3. p \in 1 .. size
      BY <1>5, <3>1
    <3>4. t.vTried = SwappedVector(s.vTried, p, n + 1)
      BY <3>1 DEF Inspected
    <3>5. t.nPos = p \/ (t.nPos = s.nPos /\ s.nOldest # -1)
      BY <3>1 DEF Inspected
    <3>6. Permuted(t.vTried, w)
      BY <2>1, <3>2, <3>3, <3>4, SwapPermutes
    <3> QED BY <3>2, <3>3, <3>5, <3>6
  <2> QED BY <2>1, <2>3
<1>10. N \in S
  <2> HIDE DEF S, size
  <2>1. \A n \in 0 .. size : n \in S
    BY <1>5, <1>8, <1>9, CountingInduction
  <2> QED BY <1>5, <1>6, <2>1
<1> QED BY <1>4, <1>5, <1>6, <1>10

-----------------------------------------------------------------------------
(***************************************************************************)
(* Good_ and MakeTried.                                                    *)
(***************************************************************************)
\* The entries say the same but for nLastSuccess.
SameButSuccess(m, m2) ==
  \A id \in DOMAIN m2 :
    /\ m2[id].addr = m[id].addr /\ m2[id].source = m[id].source
    /\ m2[id].nRefCount = m[id].nRefCount /\ m2[id].fInTried = m[id].fInTried
    /\ m2[id].nRandomPos = m[id].nRandomPos

SuccessSet(m, id, time) == [m EXCEPT ![id].nLastSuccess = time]

LEMMA SetSuccess ==
  ASSUME NEW D, NEW m \in [D -> Info], NEW id \in D, NEW time \in Times,
         NEW m2, m2 = SuccessSet(m, id, time)
  PROVE  /\ m2 \in [D -> Info] /\ SameButSuccess(m, m2)
         /\ \A x \in D : m2[x].nLastSuccess = IF x = id THEN time ELSE m[x].nLastSuccess
BY DEF Info, SameButSuccess, SuccessSet

Succeeded(a, id, time) == [a EXCEPT !.mapInfo[id].nLastSuccess = time]

LEMMA SucceedKeeps ==
  ASSUME NEW a, Good(a, 0, 0), NEW id \in DOMAIN a.mapInfo, NEW time \in Times,
         NEW c, c = Succeeded(a, id, time)
  PROVE  /\ Good(c, 0, 0) /\ c.nIdCount = a.nIdCount /\ c.vvNew = a.vvNew /\ c.mapAddr = a.mapAddr
         /\ DOMAIN c.mapInfo = DOMAIN a.mapInfo /\ TriedOf(c.mapInfo) = TriedOf(a.mapInfo)
         /\ \A y \in DOMAIN c.mapInfo : c.mapInfo[y].addr = a.mapInfo[y].addr
         /\ c.mapInfo[id].nLastSuccess # 0
<1> DEFINE m == a.mapInfo
           D == DOMAIN m
           m1 == SuccessSet(m, id, time)
<1>1. /\ m \in [D -> Info] /\ D \subseteq 0 .. a.nIdCount - 1
      /\ a = Object(m, a.mapAddr, a.vRandom, a.nNew, a.nTried, a.nIdCount, a.vvNew, a.vvTried)
  BY DEF Good, Shape
<1>2. /\ m1 \in [D -> Info] /\ SameButSuccess(m, m1)
      /\ \A y \in D : m1[y].nLastSuccess = IF y = id THEN time ELSE m[y].nLastSuccess
  <2> HIDE DEF m, D
  <2> QED BY <1>1, SetSuccess DEF D, m
<1>3. c = Object(m1, a.mapAddr, a.vRandom, a.nNew, a.nTried, a.nIdCount, a.vvNew, a.vvTried)
  <2>1. c = SetInfo(a, m1)
    BY DEF SetInfo, SuccessSet, Succeeded
  <2> HIDE DEF m, m1
  <2> QED BY <1>1, <2>1, SetFields
<1>4. DOMAIN m1 = D /\ time # 0
  BY <1>2, AddrManAssumption
<1> HIDE DEF m1
<1>5. /\ c.mapInfo = m1 /\ c.mapAddr = a.mapAddr /\ c.vRandom = a.vRandom /\ c.nNew = a.nNew
      /\ c.nTried = a.nTried /\ c.nIdCount = a.nIdCount /\ c.vvNew = a.vvNew /\ c.vvTried = a.vvTried
  BY <1>3, FieldsOf
<1>6. Shape(c)
  <2>1. /\ DOMAIN m1 \subseteq 0 .. a.nIdCount - 1 /\ m1 \in [DOMAIN m1 -> Info]
        /\ DOMAIN a.mapAddr \subseteq Ips /\ a.mapAddr \in [DOMAIN a.mapAddr -> Nat]
        /\ a.vRandom \in Seq(Nat) /\ a.nNew \in Int /\ a.nTried \in Int /\ a.nIdCount \in Nat
        /\ a.vvNew \in [NewBuckets -> SUBSET Nat] /\ a.vvTried \in [TriedBuckets -> Seq(Nat)]
    BY <1>1, <1>2, <1>4 DEF Good, Shape
  <2>2. Shape(Object(m1, a.mapAddr, a.vRandom, a.nNew, a.nTried, a.nIdCount, a.vvNew, a.vvTried))
    BY <2>1, ShapeOf
  <2> QED BY <1>3, <2>2
<1>7. \A y \in D : /\ m1[y].addr = m[y].addr /\ m1[y].fInTried = m[y].fInTried
                   /\ m1[y].nRefCount = m[y].nRefCount /\ m1[y].nRandomPos = m[y].nRandomPos
  BY <1>2, <1>4 DEF SameButSuccess
<1>8. RandomOK(m1, a.vRandom)
  BY <1>4, <1>7 DEF Good, RandomOK
<1>9. AddrOK(m1, a.mapAddr)
  BY <1>4, <1>7 DEF Good, AddrOK
<1>10. TriedOf(m1) = TriedOf(m) /\ NewOf(m1) = NewOf(m) /\ TriedOf(m) \subseteq D /\ NewOf(m) \subseteq D
  BY <1>4, <1>7 DEF TriedOf, NewOf
<1>11. TriedOK(m1, a.vvTried)
  <2>1. ASSUME NEW k \in TriedBuckets
        PROVE  /\ Len(a.vvTried[k]) <= ADDRMAN_TRIED_BUCKET_SIZE
               /\ \A p \in 1 .. Len(a.vvTried[k]) :
                    a.vvTried[k][p] \in TriedOf(m1) /\ TriedBucket[m1[a.vvTried[k][p]].addr] = k
               /\ \A p, q \in 1 .. Len(a.vvTried[k]) : a.vvTried[k][p] = a.vvTried[k][q] => p = q
    BY <1>7, <1>10 DEF Good, TriedOK
  <2>2. ASSUME NEW y \in TriedOf(m1)
        PROVE  /\ \E p \in 1 .. Len(a.vvTried[TriedBucket[m1[y].addr]]) :
                    a.vvTried[TriedBucket[m1[y].addr]][p] = y
               /\ m1[y].nRefCount = 0 /\ m1[y].nLastSuccess # 0
    <3>1. y \in TriedOf(m) /\ y \in D /\ TriedOK(m, a.vvTried)
      BY <1>10 DEF Good
    <3>2. /\ \E p \in 1 .. Len(a.vvTried[TriedBucket[m[y].addr]]) : a.vvTried[TriedBucket[m[y].addr]][p] = y
          /\ m[y].nRefCount = 0 /\ m[y].nLastSuccess # 0
      BY <3>1 DEF TriedOK
    <3> QED BY <1>2, <1>4, <1>7, <3>1, <3>2
  <2> QED BY <2>1, <2>2 DEF TriedOK
<1>12. NewOK(m1, a.vvNew, 0, 0)
  BY <1>7, <1>10 DEF Good, NewOK
<1>13. CountOK(m1, a.vRandom, a.nNew, a.nTried)
  BY <1>10 DEF Good, CountOK
<1>14. Good(c, 0, 0)
  BY <1>5, <1>6, <1>8, <1>9, <1>11, <1>12, <1>13 DEF Good
<1> QED BY <1>2, <1>4, <1>5, <1>7, <1>10, <1>14

\* The entries say the same but for fInTried.
SameButTried(m, m2) ==
  \A id \in DOMAIN m2 :
    /\ m2[id].addr = m[id].addr /\ m2[id].source = m[id].source
    /\ m2[id].nLastSuccess = m[id].nLastSuccess /\ m2[id].nRefCount = m[id].nRefCount
    /\ m2[id].nRandomPos = m[id].nRandomPos

Marked(m, id) == [m EXCEPT ![id].fInTried = TRUE]
Unmarked(m, id) == [m EXCEPT ![id].fInTried = FALSE]

LEMMA SetMarked ==
  ASSUME NEW D, NEW m \in [D -> Info], NEW id \in D, NEW m2, m2 = Marked(m, id)
  PROVE  /\ m2 \in [D -> Info] /\ SameButTried(m, m2)
         /\ m2[id].fInTried /\ \A x \in D : x # id => m2[x].fInTried = m[x].fInTried
BY DEF Info, SameButTried, Marked

LEMMA SetUnmarked ==
  ASSUME NEW D, NEW m \in [D -> Info], NEW id \in D, NEW m2, m2 = Unmarked(m, id)
  PROVE  /\ m2 \in [D -> Info] /\ SameButTried(m, m2)
         /\ ~m2[id].fInTried /\ \A x \in D : x # id => m2[x].fInTried = m[x].fInTried
BY DEF Info, SameButTried, Unmarked

\* The flag and the count of one entry are changed, as it leaves the new table ...
LEMMA SetRefTried ==
  ASSUME NEW D, NEW m \in [D -> Info], NEW id \in D, NEW m1, m1 = RefSet(m, id, 0),
         NEW m2, m2 = Marked(m1, id)
  PROVE  /\ m2 \in [D -> Info] /\ m2[id].fInTried
         /\ \A x \in D : /\ m2[x].addr = m[x].addr /\ m2[x].source = m[x].source
                         /\ m2[x].nLastSuccess = m[x].nLastSuccess /\ m2[x].nRandomPos = m[x].nRandomPos
                         /\ x # id => m2[x].fInTried = m[x].fInTried
                         /\ m2[x].nRefCount = IF x = id THEN 0 ELSE m[x].nRefCount
<1>1. /\ m1 \in [D -> Info] /\ SameButRef(m, m1)
      /\ \A x \in D : m1[x].nRefCount = IF x = id THEN 0 ELSE m[x].nRefCount
  BY SetRef
<1>2. /\ m2 \in [D -> Info] /\ SameButTried(m1, m2)
      /\ m2[id].fInTried /\ \A x \in D : x # id => m2[x].fInTried = m1[x].fInTried
  BY <1>1, SetMarked
<1>3. DOMAIN m1 = D /\ DOMAIN m2 = D
  BY <1>1, <1>2
<1> QED BY <1>1, <1>2, <1>3 DEF SameButRef, SameButTried

\* ... and as it comes back to it.
LEMMA SetTriedRef ==
  ASSUME NEW D, NEW m \in [D -> Info], NEW id \in D, NEW m1, m1 = Unmarked(m, id),
         NEW m2, m2 = RefSet(m1, id, 1)
  PROVE  /\ m2 \in [D -> Info] /\ ~m2[id].fInTried
         /\ \A x \in D : /\ m2[x].addr = m[x].addr /\ m2[x].source = m[x].source
                         /\ m2[x].nLastSuccess = m[x].nLastSuccess /\ m2[x].nRandomPos = m[x].nRandomPos
                         /\ x # id => m2[x].fInTried = m[x].fInTried
                         /\ m2[x].nRefCount = IF x = id THEN 1 ELSE m[x].nRefCount
<1>1. /\ m1 \in [D -> Info] /\ SameButTried(m, m1)
      /\ ~m1[id].fInTried /\ \A x \in D : x # id => m1[x].fInTried = m[x].fInTried
  BY SetUnmarked
<1>2. /\ m2 \in [D -> Info] /\ SameButRef(m1, m2)
      /\ \A x \in D : m2[x].nRefCount = IF x = id THEN 1 ELSE m1[x].nRefCount
  BY <1>1, SetRef
<1>3. DOMAIN m1 = D /\ DOMAIN m2 = D
  BY <1>1, <1>2
<1> QED BY <1>1, <1>2, <1>3 DEF SameButRef, SameButTried

\* The tried buckets list every tried entry but id.
TriedBut(m, tb, id) ==
  /\ \A k \in TriedBuckets :
       /\ Len(tb[k]) <= ADDRMAN_TRIED_BUCKET_SIZE
       /\ \A p \in 1 .. Len(tb[k]) : tb[k][p] \in TriedOf(m) \ {id} /\ TriedBucket[m[tb[k][p]].addr] = k
       /\ \A p, q \in 1 .. Len(tb[k]) : tb[k][p] = tb[k][q] => p = q
  /\ \A y \in TriedOf(m) :
       /\ y # id => \E p \in 1 .. Len(tb[TriedBucket[m[y].addr]]) : tb[TriedBucket[m[y].addr]][p] = y
       /\ m[y].nRefCount = 0 /\ m[y].nLastSuccess # 0

\* Entry id has left the new table and is in no tried bucket yet.
Half(l, id) ==
  /\ Shape(l) /\ RandomOK(l.mapInfo, l.vRandom) /\ AddrOK(l.mapInfo, l.mapAddr)
  /\ id \in TriedOf(l.mapInfo) /\ TriedBut(l.mapInfo, l.vvTried, id)
  /\ NewOK(l.mapInfo, l.vvNew, 0, 0)
  /\ CountOK(l.mapInfo, l.vRandom, l.nNew, l.nTried + 1)

Leaving(a, id) == [LeaveNew(a, id) EXCEPT !.mapInfo[id].fInTried = TRUE]

LEMMA LeaveKeeps ==
  ASSUME NEW a, Good(a, 0, 0), NEW id \in NewOf(a.mapInfo), a.mapInfo[id].nLastSuccess # 0,
         NEW l, l = Leaving(a, id)
  PROVE  /\ Half(l, id) /\ l.nIdCount = a.nIdCount /\ l.mapAddr = a.mapAddr /\ l.vvTried = a.vvTried
         /\ DOMAIN l.mapInfo = DOMAIN a.mapInfo
         /\ \A y \in DOMAIN a.mapInfo : /\ l.mapInfo[y].addr = a.mapInfo[y].addr
                                        /\ l.mapInfo[y].source = a.mapInfo[y].source
         /\ \A b \in NewBuckets : l.vvNew[b] = a.vvNew[b] \ {id}
<1> DEFINE m == a.mapInfo
           D == DOMAIN m
           n == m[id].nRefCount - Cardinality({b \in NewBuckets : id \in a.vvNew[b]})
           nb == [b \in NewBuckets |-> a.vvNew[b] \ {id}]
           m1 == RefSet(m, id, n)
           m2 == Marked(m1, id)
           k == a.nNew - 1
<1>1. /\ m \in [D -> Info] /\ D \subseteq 0 .. a.nIdCount - 1 /\ a.nIdCount \in Nat
      /\ a.vvNew \in [NewBuckets -> SUBSET Nat]
      /\ a = Object(m, a.mapAddr, a.vRandom, a.nNew, a.nTried, a.nIdCount, a.vvNew, a.vvTried)
  BY DEF Good, Shape
<1>2. id \in D /\ id \notin TriedOf(m) /\ id \in Nat
  BY <1>1 DEF NewOf
<1>3. n = 0
  <2>1. /\ Cardinality(BucketsOf(a.vvNew, id)) \in Nat
        /\ m[id].nRefCount = Cardinality(BucketsOf(a.vvNew, id)) + 0
    BY BucketsFinite DEF Good, NewOK
  <2> QED BY <2>1 DEF BucketsOf
<1>4. /\ m2 \in [D -> Info] /\ m2[id].fInTried
      /\ \A x \in D : /\ m2[x].addr = m[x].addr /\ m2[x].source = m[x].source
                      /\ m2[x].nLastSuccess = m[x].nLastSuccess /\ m2[x].nRandomPos = m[x].nRandomPos
                      /\ x # id => m2[x].fInTried = m[x].fInTried
                      /\ m2[x].nRefCount = IF x = id THEN 0 ELSE m[x].nRefCount
  <2>1. m1 = RefSet(m, id, 0) /\ m2 = Marked(m1, id)
    BY <1>3
  <2>2. m \in [D -> Info] /\ id \in D
    BY <1>1, <1>2
  <2> HIDE DEF m, D, n, m1, m2
  <2> QED BY <2>1, <2>2, SetRefTried
<1>5. l = Object(m2, a.mapAddr, a.vRandom, k, a.nTried, a.nIdCount, nb, a.vvTried)
  <2>1. PICK x : x = LeaveNew(a, id)
    OBVIOUS
  <2>2. x = SetNew(SetInfo(SetVvNew(a, nb), m1), k)
    BY <2>1 DEF LeaveNew, SetNew, SetInfo, SetVvNew, RefSet
  <2>3. l = SetInfo(x, Marked(x.mapInfo, id))
    BY <2>1 DEF Leaving, SetInfo, Marked
  <2> HIDE DEF m, m1, nb, k
  <2>4. x = Object(m1, a.mapAddr, a.vRandom, k, a.nTried, a.nIdCount, nb, a.vvTried)
    BY <1>1, <2>2, SetFields
  <2>5. x.mapInfo = m1
    BY <2>4, FieldsOf
  <2>6. l = SetInfo(x, m2)
    BY <2>3, <2>5
  <2> HIDE DEF m2
  <2> QED BY <2>4, <2>6, SetFields
<1>6. /\ nb \in [NewBuckets -> SUBSET Nat] /\ \A b \in NewBuckets : nb[b] = a.vvNew[b] \ {id}
  BY <1>1
<1>7. DOMAIN m2 = D
  BY <1>4
<1> HIDE DEF m1, m2, nb, k, n
<1>8. /\ l.mapInfo = m2 /\ l.mapAddr = a.mapAddr /\ l.vRandom = a.vRandom /\ l.nNew = k
      /\ l.nTried = a.nTried /\ l.nIdCount = a.nIdCount /\ l.vvNew = nb /\ l.vvTried = a.vvTried
  BY <1>5, FieldsOf
<1>9. Shape(l)
  <2>1. /\ DOMAIN m2 \subseteq 0 .. a.nIdCount - 1 /\ m2 \in [DOMAIN m2 -> Info]
        /\ DOMAIN a.mapAddr \subseteq Ips /\ a.mapAddr \in [DOMAIN a.mapAddr -> Nat]
        /\ a.vRandom \in Seq(Nat) /\ k \in Int /\ a.nTried \in Int /\ a.nIdCount \in Nat
        /\ a.vvTried \in [TriedBuckets -> Seq(Nat)]
    BY <1>1, <1>4, <1>7 DEF Good, Shape, k
  <2>2. Shape(Object(m2, a.mapAddr, a.vRandom, k, a.nTried, a.nIdCount, nb, a.vvTried))
    BY <1>6, <2>1, ShapeOf
  <2> QED BY <1>5, <2>2
<1>10. RandomOK(m2, a.vRandom)
  BY <1>4, <1>7 DEF Good, RandomOK
<1>11. AddrOK(m2, a.mapAddr)
  BY <1>4, <1>7 DEF Good, AddrOK
<1>12. /\ TriedOf(m2) = TriedOf(m) \cup {id} /\ NewOf(m2) = NewOf(m) \ {id}
       /\ TriedOf(m) \subseteq D /\ NewOf(m) \subseteq D /\ id \in NewOf(m)
  BY <1>2, <1>4, <1>7 DEF TriedOf, NewOf
<1>13. TriedBut(m2, a.vvTried, id)
  <2>1. TriedOK(m, a.vvTried)
    BY DEF Good
  <2>2. ASSUME NEW j \in TriedBuckets
        PROVE  /\ Len(a.vvTried[j]) <= ADDRMAN_TRIED_BUCKET_SIZE
               /\ \A p \in 1 .. Len(a.vvTried[j]) :
                    a.vvTried[j][p] \in TriedOf(m2) \ {id} /\ TriedBucket[m2[a.vvTried[j][p]].addr] = j
               /\ \A p, q \in 1 .. Len(a.vvTried[j]) : a.vvTried[j][p] = a.vvTried[j][q] => p = q
    <3>1. \A y \in TriedOf(m) : y \in TriedOf(m2) \ {id} /\ m2[y].addr = m[y].addr
      BY <1>2, <1>4, <1>12
    <3>2. PICK w : w = a.vvTried[j]
      OBVIOUS
    <3>3. /\ Len(w) <= ADDRMAN_TRIED_BUCKET_SIZE
          /\ \A p \in 1 .. Len(w) : w[p] \in TriedOf(m) /\ TriedBucket[m[w[p]].addr] = j
          /\ \A p, q \in 1 .. Len(w) : w[p] = w[q] => p = q
      BY <2>1, <3>2 DEF TriedOK
    <3>4. \A p \in 1 .. Len(w) : w[p] \in TriedOf(m2) \ {id} /\ TriedBucket[m2[w[p]].addr] = j
      <4> HIDE DEF m, m2
      <4> QED BY <3>1, <3>3
    <3> QED BY <3>2, <3>3, <3>4, Zenon
  <2>3. ASSUME NEW y \in TriedOf(m2)
        PROVE  /\ y # id => \E p \in 1 .. Len(a.vvTried[TriedBucket[m2[y].addr]]) :
                              a.vvTried[TriedBucket[m2[y].addr]][p] = y
               /\ m2[y].nRefCount = 0 /\ m2[y].nLastSuccess # 0
    <3>1. CASE y = id
      BY <1>2, <1>4, <3>1
    <3>2. CASE y # id
      <4>1. y \in TriedOf(m) /\ y \in D
        BY <1>12, <3>2
      <4>2. m2[y].addr = m[y].addr /\ m2[y].nRefCount = m[y].nRefCount
            /\ m2[y].nLastSuccess = m[y].nLastSuccess
        BY <1>4, <3>2, <4>1
      <4> QED BY <2>1, <4>1, <4>2 DEF TriedOK
    <3> QED BY <3>1, <3>2
  <2> QED BY <2>2, <2>3 DEF TriedBut
<1>14. NewOK(m, a.vvNew, 0, 0)
  BY DEF Good
<1>15. NewOK(m2, nb, 0, 0)
  <2>1. ASSUME NEW b \in NewBuckets
        PROVE  nb[b] \subseteq NewOf(m2) /\ Cardinality(nb[b]) <= ADDRMAN_NEW_BUCKET_SIZE
    <3>1. a.vvNew[b] \subseteq NewOf(m) /\ Cardinality(a.vvNew[b]) <= ADDRMAN_NEW_BUCKET_SIZE
      BY <1>14 DEF NewOK
    <3>2. IsFiniteSet(a.vvNew[b]) /\ Cardinality(a.vvNew[b]) \in Nat
      BY <1>1, <1>12, <3>1, EntriesFinite
    <3>3. nb[b] \in SUBSET a.vvNew[b]
      BY <1>6
    <3>4. Cardinality(nb[b]) <= Cardinality(a.vvNew[b]) /\ Cardinality(nb[b]) \in Nat
      BY <3>2, <3>3, FS_Subset, FS_CardinalityType
    <3>5. ADDRMAN_NEW_BUCKET_SIZE \in Nat
      BY AddrManAssumption
    <3> QED BY <1>6, <1>12, <3>1, <3>2, <3>4, <3>5
  <2>2. ASSUME NEW y \in NewOf(m2)
        PROVE  /\ m2[y].nRefCount = Cardinality(BucketsOf(nb, y)) + (IF y = 0 THEN 0 ELSE 0)
               /\ m2[y].nRefCount \in 1 .. ADDRMAN_NEW_BUCKETS_PER_ADDRESS
    <3>1. y \in NewOf(m) /\ y \in D /\ y # id
      BY <1>12
    <3>2. BucketsOf(nb, y) = BucketsOf(a.vvNew, y)
      BY <1>6, <3>1 DEF BucketsOf
    <3>3. /\ m[y].nRefCount = Cardinality(BucketsOf(a.vvNew, y)) + (IF y = 0 THEN 0 ELSE 0)
          /\ m[y].nRefCount \in 1 .. ADDRMAN_NEW_BUCKETS_PER_ADDRESS
      BY <1>14, <3>1 DEF NewOK
    <3> QED BY <1>4, <3>1, <3>2, <3>3
  <2> QED BY <2>1, <2>2 DEF NewOK
<1>16. CountOK(m2, a.vRandom, k, a.nTried + 1)
  <2>1. /\ IsFiniteSet(NewOf(m)) /\ Cardinality(NewOf(m)) \in Nat
        /\ IsFiniteSet(TriedOf(m)) /\ Cardinality(TriedOf(m)) \in Nat
    BY <1>1, <1>12, EntriesFinite
  <2>2. Cardinality(NewOf(m) \ {id}) = Cardinality(NewOf(m)) - 1
    BY <1>12, <2>1, FS_RemoveElement
  <2>3. Cardinality(TriedOf(m) \cup {id}) = Cardinality(TriedOf(m)) + 1
    BY <1>2, <2>1, FS_AddElement
  <2>4. a.nNew = Cardinality(NewOf(m)) /\ a.nTried = Cardinality(TriedOf(m))
        /\ Len(a.vRandom) = a.nNew + a.nTried
    BY DEF Good, CountOK
  <2> HIDE DEF m
  <2> QED BY <1>12, <2>1, <2>2, <2>3, <2>4 DEF CountOK, k
<1>17. id \in TriedOf(m2)
  BY <1>12
<1>18. Half(l, id)
  BY <1>8, <1>9, <1>10, <1>11, <1>13, <1>15, <1>16, <1>17 DEF Half
<1> QED BY <1>4, <1>6, <1>7, <1>8, <1>18

\* The tried bucket has place.
Placed(l, k, id) == [l EXCEPT !.vvTried[k] = Append(@, id), !.nTried = @ + 1]

LEMMA PlaceKeeps ==
  ASSUME NEW l, NEW id, Half(l, id), NEW k, k = TriedBucket[l.mapInfo[id].addr],
         Len(l.vvTried[k]) < ADDRMAN_TRIED_BUCKET_SIZE, NEW t, t = Placed(l, k, id)
  PROVE  Good(t, 0, 0) /\ t.nIdCount = l.nIdCount /\ t.mapAddr = l.mapAddr
<1> DEFINE m == l.mapInfo
           tb == [l.vvTried EXCEPT ![k] = Append(l.vvTried[k], id)]
           n == l.nTried + 1
<1>1. /\ l = Object(m, l.mapAddr, l.vRandom, l.nNew, l.nTried, l.nIdCount, l.vvNew, l.vvTried)
      /\ l.vvTried \in [TriedBuckets -> Seq(Nat)] /\ m \in [DOMAIN m -> Info]
      /\ DOMAIN m \subseteq 0 .. l.nIdCount - 1 /\ l.nIdCount \in Nat /\ l.nTried \in Int
  BY DEF Half, Shape
<1>2. id \in TriedOf(m) /\ id \in DOMAIN m /\ id \in Nat /\ k \in TriedBuckets
  <2>1. id \in TriedOf(m) /\ id \in DOMAIN m
    BY DEF Half, TriedOf
  <2>2. m[id].addr \in Addrs
    BY <1>1, <2>1 DEF Info
  <2> QED BY <1>1, <2>1, <2>2, AddrManAssumption
<1>3. PICK w \in Seq(Nat) : w = l.vvTried[k]
  BY <1>1, <1>2
<1>4. PICK w2 : w2 = Append(w, id)
  OBVIOUS
<1>5. /\ w2 \in Seq(Nat) /\ Len(w2) = Len(w) + 1 /\ w2[Len(w) + 1] = id /\ Len(w) \in Nat
      /\ \A p \in 1 .. Len(w) : w2[p] = w[p]
  BY <1>2, <1>4
<1>6. /\ tb \in [TriedBuckets -> Seq(Nat)]
      /\ \A j \in TriedBuckets : tb[j] = IF j = k THEN w2 ELSE l.vvTried[j]
  BY <1>1, <1>2, <1>3, <1>4, <1>5
<1>7. t = Object(m, l.mapAddr, l.vRandom, l.nNew, n, l.nIdCount, l.vvNew, tb)
  <2>1. t = SetTried(SetVvTried(l, tb), n)
    BY DEF SetTried, SetVvTried, Placed
  <2> HIDE DEF m, tb, n
  <2> QED BY <1>1, <2>1, SetFields
<1>8. n \in Int
  BY <1>1
<1> HIDE DEF tb, n
<1>9. /\ t.mapInfo = m /\ t.mapAddr = l.mapAddr /\ t.vRandom = l.vRandom /\ t.nNew = l.nNew
      /\ t.nTried = n /\ t.nIdCount = l.nIdCount /\ t.vvNew = l.vvNew /\ t.vvTried = tb
  BY <1>7, FieldsOf
<1>10. Shape(t)
  BY <1>6, <1>7, <1>8, <1>9 DEF Shape, Half
<1>11. TriedBut(m, l.vvTried, id)
  BY DEF Half
<1>12. TriedOK(m, tb)
  <2>1. ASSUME NEW j \in TriedBuckets
        PROVE  /\ Len(tb[j]) <= ADDRMAN_TRIED_BUCKET_SIZE
               /\ \A p \in 1 .. Len(tb[j]) : tb[j][p] \in TriedOf(m) /\ TriedBucket[m[tb[j][p]].addr] = j
               /\ \A p, q \in 1 .. Len(tb[j]) : tb[j][p] = tb[j][q] => p = q
    <3>1. CASE j # k
      <4>1. PICK x : x = tb[j]
        OBVIOUS
      <4>2. x = l.vvTried[j]
        BY <1>6, <3>1, <4>1
      <4>3. /\ Len(x) <= ADDRMAN_TRIED_BUCKET_SIZE
            /\ \A p \in 1 .. Len(x) : x[p] \in TriedOf(m) \ {id} /\ TriedBucket[m[x[p]].addr] = j
            /\ \A p, q \in 1 .. Len(x) : x[p] = x[q] => p = q
        BY <1>11, <4>2 DEF TriedBut
      <4>4. \A p \in 1 .. Len(x) : x[p] \in TriedOf(m) /\ TriedBucket[m[x[p]].addr] = j
        BY <4>3
      <4> QED BY <4>1, <4>3, <4>4, Zenon
    <3>2. CASE j = k
      <4>1. tb[j] = w2 /\ ADDRMAN_TRIED_BUCKET_SIZE \in Nat
        BY <1>6, <3>2, AddrManAssumption
      <4>2. Len(w2) <= ADDRMAN_TRIED_BUCKET_SIZE
        BY <1>3, <1>5, <4>1
      <4>3. /\ \A p \in 1 .. Len(w) : w[p] \in TriedOf(m) \ {id} /\ TriedBucket[m[w[p]].addr] = k
            /\ \A p, q \in 1 .. Len(w) : w[p] = w[q] => p = q
        <5>1. \A i \in TriedBuckets :
                /\ \A p \in 1 .. Len(l.vvTried[i]) :
                     l.vvTried[i][p] \in TriedOf(m) \ {id} /\ TriedBucket[m[l.vvTried[i][p]].addr] = i
                /\ \A p, q \in 1 .. Len(l.vvTried[i]) : l.vvTried[i][p] = l.vvTried[i][q] => p = q
          BY <1>11 DEF TriedBut
        <5>2. k \in TriedBuckets
          BY <1>2
        <5>3. /\ \A p \in 1 .. Len(l.vvTried[k]) :
                   l.vvTried[k][p] \in TriedOf(m) \ {id} /\ TriedBucket[m[l.vvTried[k][p]].addr] = k
              /\ \A p, q \in 1 .. Len(l.vvTried[k]) : l.vvTried[k][p] = l.vvTried[k][q] => p = q
          BY <5>1, <5>2, Zenon
        <5>4. l.vvTried[k] = w
          BY <1>3
        <5> QED BY <5>3, <5>4, Zenon
      <4>4. ASSUME NEW p \in 1 .. Len(w2)
            PROVE  w2[p] \in TriedOf(m) /\ TriedBucket[m[w2[p]].addr] = k
        <5>1. CASE p = Len(w) + 1
          BY <1>2, <1>5, <5>1
        <5>2. CASE p \in 1 .. Len(w)
          BY <1>5, <4>3, <5>2
        <5> QED BY <1>5, <5>1, <5>2
      <4>5. ASSUME NEW p \in 1 .. Len(w2), NEW q \in 1 .. Len(w2), w2[p] = w2[q]
            PROVE  p = q
        <5>1. CASE p = Len(w) + 1 /\ q = Len(w) + 1
          BY <5>1
        <5>2. CASE p \in 1 .. Len(w) /\ q \in 1 .. Len(w)
          BY <1>5, <4>3, <4>5, <5>2
        <5>3. CASE p \in 1 .. Len(w) /\ q = Len(w) + 1
          BY <1>5, <4>3, <4>5, <5>3
        <5>4. CASE q \in 1 .. Len(w) /\ p = Len(w) + 1
          BY <1>5, <4>3, <4>5, <5>4
        <5> QED BY <1>5, <5>1, <5>2, <5>3, <5>4
      <4> QED BY <3>2, <4>1, <4>2, <4>4, <4>5
    <3> QED BY <3>1, <3>2
  <2>2. ASSUME NEW y \in TriedOf(m)
        PROVE  /\ \E p \in 1 .. Len(tb[TriedBucket[m[y].addr]]) : tb[TriedBucket[m[y].addr]][p] = y
               /\ m[y].nRefCount = 0 /\ m[y].nLastSuccess # 0
    <3>1. m[y].nRefCount = 0 /\ m[y].nLastSuccess # 0
      BY <1>11 DEF TriedBut
    <3>2. PICK j \in TriedBuckets : j = TriedBucket[m[y].addr]
      BY <1>1, AddrManAssumption DEF TriedOf, Info
    <3>3. CASE y = id
      <4>1. tb[j] = w2 /\ Len(w) + 1 \in 1 .. Len(w2) /\ w2[Len(w) + 1] = y
        BY <1>5, <1>6, <3>2, <3>3
      <4> QED BY <3>1, <3>2, <4>1
    <3>4. CASE y # id
      <4>1. PICK p \in 1 .. Len(l.vvTried[j]) : l.vvTried[j][p] = y
        BY <1>11, <3>2, <3>4 DEF TriedBut
      <4>2. p \in 1 .. Len(tb[j]) /\ tb[j][p] = y
        <5>1. CASE j = k
          <6>1. tb[j] = w2 /\ p \in 1 .. Len(w) /\ w[p] = y
            BY <1>3, <1>6, <4>1, <5>1
          <6> QED BY <1>5, <6>1
        <5>2. CASE j # k
          BY <1>6, <4>1, <5>2
        <5> QED BY <5>1, <5>2
      <4> QED BY <3>1, <3>2, <4>2
    <3> QED BY <3>3, <3>4
  <2> QED BY <2>1, <2>2 DEF TriedOK
<1> QED BY <1>9, <1>10, <1>12 DEF Good, Half, n

\* The tried bucket is full: the entry at pos of the shuffled bucket v goes to new bucket u.
Evicted(l, k, id, v, pos, u) ==
  [l EXCEPT !.mapInfo[v[pos]].fInTried = FALSE, !.mapInfo[v[pos]].nRefCount = 1,
            !.vvNew[u] = @ \cup {v[pos]}, !.nNew = @ + 1,
            !.vvTried[k] = [v EXCEPT ![pos] = id]]

Returned(l, old, u) ==
  [l EXCEPT !.mapInfo[old].fInTried = FALSE, !.mapInfo[old].nRefCount = 1, !.vvNew[u] = @ \cup {old}]
EvictedInfo(m, old) == [m EXCEPT ![old].fInTried = FALSE, ![old].nRefCount = 1]

LEMMA CountMoved == \A x, y \in Int : x + (y + 1) = (x + 1) + y
OBVIOUS

\* What MakeTried has found when it evicts.
MayEvict(l, id, k, v, pos, u) ==
  /\ Half(l, id) /\ k = TriedBucket[l.mapInfo[id].addr]
  /\ Permuted(v, l.vvTried[k]) /\ pos \in 1 .. Len(l.vvTried[k])
  /\ u \in NewBuckets /\ Cardinality(l.vvNew[u]) < ADDRMAN_NEW_BUCKET_SIZE

LEMMA EvictKeeps ==
  ASSUME NEW l, NEW id, NEW k, NEW v, NEW pos, NEW u, MayEvict(l, id, k, v, pos, u),
         NEW t, t = Evicted(l, k, id, v, pos, u)
  PROVE  Good(t, 0, 0) /\ t.nIdCount = l.nIdCount /\ t.mapAddr = l.mapAddr
<1> USE DEF MayEvict
<1> DEFINE m == l.mapInfo
           D == DOMAIN m
           tb == [l.vvTried EXCEPT ![k] = [v EXCEPT ![pos] = id]]
           old == v[pos]
           m1 == Unmarked(m, old)
           m2 == RefSet(m1, old, 1)
           nb == Entered(l.vvNew, u, old)
           n == l.nNew + 1
<1>1. /\ l = Object(m, l.mapAddr, l.vRandom, l.nNew, l.nTried, l.nIdCount, l.vvNew, l.vvTried)
      /\ l.vvTried \in [TriedBuckets -> Seq(Nat)] /\ m \in [D -> Info]
      /\ D \subseteq 0 .. l.nIdCount - 1 /\ l.nIdCount \in Nat /\ l.nTried \in Int
      /\ l.vvNew \in [NewBuckets -> SUBSET Nat] /\ l.nNew \in Int
  BY DEF Half, Shape
<1>2. id \in TriedOf(m) /\ id \in D /\ id \in Nat /\ k \in TriedBuckets
  <2>1. id \in TriedOf(m) /\ id \in D
    BY DEF Half, TriedOf
  <2>2. m[id].addr \in Addrs
    BY <1>1, <2>1 DEF Info
  <2> QED BY <1>1, <2>1, <2>2, AddrManAssumption
<1>3. PICK w \in Seq(Nat) : w = l.vvTried[k]
  BY <1>1, <1>2
<1>4. /\ v \in Seq(Nat) /\ Len(v) = Len(w) /\ pos \in 1 .. Len(w) /\ Len(w) \in Nat
      /\ \A p \in 1 .. Len(w) : \E q \in 1 .. Len(w) : v[p] = w[q]
      /\ \A q \in 1 .. Len(w) : \E p \in 1 .. Len(w) : v[p] = w[q]
      /\ \A p, q \in 1 .. Len(w) : v[p] = v[q] => p = q
  <2>1. Permuted(v, w) /\ pos \in 1 .. Len(w)
    BY <1>3
  <2> QED BY <2>1 DEF Permuted
<1>5. PICK w2 : w2 = [v EXCEPT ![pos] = id]
  OBVIOUS
<1>6. /\ w2 \in Seq(Nat) /\ Len(w2) = Len(w)
      /\ \A p \in 1 .. Len(w) : w2[p] = IF p = pos THEN id ELSE v[p]
  <2>1. v \in Seq(Nat) /\ pos \in 1 .. Len(v) /\ id \in Nat /\ Len(v) = Len(w)
    BY <1>2, <1>4
  <2>2. w2 \in Seq(Nat) /\ Len(w2) = Len(v)
    BY <1>5, <2>1
  <2>3. \A p \in 1 .. Len(v) : w2[p] = IF p = pos THEN id ELSE v[p]
    BY <1>5, <2>1
  <2> QED BY <2>1, <2>2, <2>3
<1>7. /\ tb \in [TriedBuckets -> Seq(Nat)]
      /\ \A j \in TriedBuckets : tb[j] = IF j = k THEN w2 ELSE l.vvTried[j]
  BY <1>1, <1>2, <1>5, <1>6
<1>8. TriedBut(m, l.vvTried, id)
  BY DEF Half
<1>9. /\ \A p \in 1 .. Len(w) : w[p] \in TriedOf(m) \ {id} /\ TriedBucket[m[w[p]].addr] = k
      /\ Len(w) <= ADDRMAN_TRIED_BUCKET_SIZE
  <2>1. \A i \in TriedBuckets :
          /\ \A p \in 1 .. Len(l.vvTried[i]) :
               l.vvTried[i][p] \in TriedOf(m) \ {id} /\ TriedBucket[m[l.vvTried[i][p]].addr] = i
          /\ Len(l.vvTried[i]) <= ADDRMAN_TRIED_BUCKET_SIZE
    BY <1>8 DEF TriedBut
  <2>2. k \in TriedBuckets
    BY <1>2
  <2>3. /\ \A p \in 1 .. Len(l.vvTried[k]) :
             l.vvTried[k][p] \in TriedOf(m) \ {id} /\ TriedBucket[m[l.vvTried[k][p]].addr] = k
        /\ Len(l.vvTried[k]) <= ADDRMAN_TRIED_BUCKET_SIZE
    BY <2>1, <2>2, Zenon
  <2>4. l.vvTried[k] = w
    BY <1>3
  <2> QED BY <2>3, <2>4, Zenon
<1>10. \A p \in 1 .. Len(w) : v[p] \in TriedOf(m) \ {id} /\ TriedBucket[m[v[p]].addr] = k
  <2> TAKE p \in 1 .. Len(w)
  <2>1. PICK q \in 1 .. Len(w) : v[p] = w[q]
    BY <1>4
  <2> QED BY <1>9, <2>1
<1>11. old \in TriedOf(m) /\ old \in D /\ old # id /\ old \in Nat /\ TriedBucket[m[old].addr] = k
  <2>1. old \in TriedOf(m) /\ old # id /\ TriedBucket[m[old].addr] = k
    BY <1>4, <1>10
  <2> QED BY <1>1, <2>1 DEF TriedOf
<1>12. /\ m2 \in [D -> Info] /\ ~m2[old].fInTried
       /\ \A x \in D : /\ m2[x].addr = m[x].addr /\ m2[x].source = m[x].source
                       /\ m2[x].nLastSuccess = m[x].nLastSuccess /\ m2[x].nRandomPos = m[x].nRandomPos
                       /\ x # old => m2[x].fInTried = m[x].fInTried
                       /\ m2[x].nRefCount = IF x = old THEN 1 ELSE m[x].nRefCount
  <2>1. m1 = Unmarked(m, old) /\ m2 = RefSet(m1, old, 1)
    OBVIOUS
  <2>2. m \in [D -> Info] /\ old \in D
    BY <1>1, <1>11
  <2> HIDE DEF m, D, old, m1, m2
  <2> QED BY <2>1, <2>2, SetTriedRef
<1>13. t = Object(m2, l.mapAddr, l.vRandom, n, l.nTried, l.nIdCount, nb, tb)
  <2>0. t = SetVvTried(SetNew(SetVvNew(SetInfo(l, EvictedInfo(m, old)), nb), n), tb)
    <3>1. t = SetVvTried(SetNew(Returned(l, old, u), n), tb)
      BY DEF SetVvTried, SetNew, Evicted, Returned
    <3>2. Returned(l, old, u) = SetVvNew(SetInfo(l, EvictedInfo(m, old)), nb)
      <4> HIDE DEF old
      <4> QED BY DEF SetVvNew, SetInfo, EvictedInfo, Entered, Returned
    <3> HIDE DEF m, n, tb, nb, old
    <3> QED BY <3>1, <3>2
  <2>1. t = SetVvTried(SetNew(SetVvNew(SetInfo(l, m2), nb), n), tb)
    <3>1. EvictedInfo(m, old) = m2
      <4> HIDE DEF m, old
      <4> QED BY DEF EvictedInfo, Unmarked, RefSet
    <3> HIDE DEF m, m2, nb, n, tb, old
    <3> QED BY <2>0, <3>1
  <2> HIDE DEF m, m2, nb, n, tb
  <2> QED BY <1>1, <2>1, SetFields
<1>14. n \in Int /\ DOMAIN m2 = D
  BY <1>1, <1>12
<1>15. /\ nb \in [NewBuckets -> SUBSET Nat]
       /\ \A b \in NewBuckets : nb[b] = IF b = u THEN l.vvNew[u] \cup {old} ELSE l.vvNew[b]
  <2> HIDE DEF old
  <2> QED BY <1>1, <1>11 DEF Entered
<1>16. NewOK(m, l.vvNew, 0, 0)
  BY DEF Half
<1>17. \A b \in NewBuckets : old \notin l.vvNew[b]
  BY <1>11, <1>16 DEF NewOK, NewOf
<1>18. /\ Cardinality(BucketsOf(nb, old)) = 1
       /\ \A y : y # old => BucketsOf(nb, y) = BucketsOf(l.vvNew, y)
  <2>1. BucketsOf(nb, old) = {u}
    BY <1>15, <1>17 DEF BucketsOf
  <2>2. \A y : y # old => BucketsOf(nb, y) = BucketsOf(l.vvNew, y)
    BY <1>15 DEF BucketsOf
  <2> QED BY <2>1, <2>2, FS_Singleton
<1> HIDE DEF m1, m2, nb, n, tb, old
<1>19. /\ t.mapInfo = m2 /\ t.mapAddr = l.mapAddr /\ t.vRandom = l.vRandom /\ t.nNew = n
       /\ t.nTried = l.nTried /\ t.nIdCount = l.nIdCount /\ t.vvNew = nb /\ t.vvTried = tb
  BY <1>13, FieldsOf
<1>20. Shape(t)
  <2>1. /\ DOMAIN m2 \subseteq 0 .. l.nIdCount - 1 /\ m2 \in [DOMAIN m2 -> Info]
        /\ DOMAIN l.mapAddr \subseteq Ips /\ l.mapAddr \in [DOMAIN l.mapAddr -> Nat]
        /\ l.vRandom \in Seq(Nat) /\ l.nTried \in Int /\ l.nIdCount \in Nat
    BY <1>1, <1>12, <1>14 DEF Half, Shape
  <2>2. Shape(Object(m2, l.mapAddr, l.vRandom, n, l.nTried, l.nIdCount, nb, tb))
    BY <1>7, <1>14, <1>15, <2>1, ShapeOf
  <2> QED BY <1>13, <2>2
<1>21. RandomOK(m2, l.vRandom)
  BY <1>12, <1>14 DEF Half, RandomOK
<1>22. AddrOK(m2, l.mapAddr)
  <2>1. AddrOK(m, l.mapAddr) /\ \A x \in D : m2[x].addr = m[x].addr
    BY <1>12 DEF Half
  <2> QED BY <1>14, <2>1 DEF AddrOK
<1>23. /\ TriedOf(m2) = TriedOf(m) \ {old} /\ NewOf(m2) = NewOf(m) \cup {old} /\ old \notin NewOf(m)
       /\ TriedOf(m) \subseteq D /\ NewOf(m) \subseteq D
  BY <1>11, <1>12, <1>14 DEF TriedOf, NewOf
<1>24. TriedOK(m2, tb)
  <2>1. ASSUME NEW j \in TriedBuckets
        PROVE  /\ Len(tb[j]) <= ADDRMAN_TRIED_BUCKET_SIZE
               /\ \A p \in 1 .. Len(tb[j]) : tb[j][p] \in TriedOf(m2) /\ TriedBucket[m2[tb[j][p]].addr] = j
               /\ \A p, q \in 1 .. Len(tb[j]) : tb[j][p] = tb[j][q] => p = q
    <3>1. CASE j # k
      <4>1. /\ Len(l.vvTried[j]) <= ADDRMAN_TRIED_BUCKET_SIZE
            /\ \A p \in 1 .. Len(l.vvTried[j]) :
                 l.vvTried[j][p] \in TriedOf(m) /\ TriedBucket[m[l.vvTried[j][p]].addr] = j
            /\ \A p, q \in 1 .. Len(l.vvTried[j]) : l.vvTried[j][p] = l.vvTried[j][q] => p = q
        BY <1>8 DEF TriedBut
      <4>2. tb[j] = l.vvTried[j]
        BY <1>7, <3>1
      <4>3. ASSUME NEW p \in 1 .. Len(tb[j])
            PROVE  tb[j][p] \in TriedOf(m2) /\ TriedBucket[m2[tb[j][p]].addr] = j
        <5>1. PICK y : y = tb[j][p]
          OBVIOUS
        <5>2. y \in TriedOf(m) /\ TriedBucket[m[y].addr] = j
          BY <4>1, <4>2, <5>1
        <5>3. y # old /\ y \in D
          BY <1>11, <1>23, <3>1, <5>2
        <5> QED BY <1>12, <1>23, <5>1, <5>2, <5>3
      <4> QED BY <4>1, <4>2, <4>3
    <3>2. CASE j = k
      <4>1. tb[j] = w2
        BY <1>7, <3>2
      <4>2. ASSUME NEW p \in 1 .. Len(w)
            PROVE  w2[p] \in TriedOf(m2) /\ TriedBucket[m2[w2[p]].addr] = k
        <5>1. CASE p = pos
          BY <1>2, <1>6, <1>11, <1>12, <1>23, <5>1
        <5>2. CASE p # pos
          <6>1. v[p] \in TriedOf(m) /\ TriedBucket[m[v[p]].addr] = k /\ v[p] # old /\ w2[p] = v[p]
            BY <1>4, <1>6, <1>10, <5>2 DEF old
          <6> QED BY <1>12, <1>23, <6>1
        <5> QED BY <5>1, <5>2
      <4>3. ASSUME NEW p \in 1 .. Len(w), NEW q \in 1 .. Len(w), w2[p] = w2[q]
            PROVE  p = q
        <5>1. v[p] # id /\ v[q] # id /\ (v[p] = v[q] => p = q)
          BY <1>4, <1>10
        <5>2. CASE p = pos
          BY <1>6, <4>3, <5>1, <5>2
        <5>3. CASE p # pos
          BY <1>6, <4>3, <5>1, <5>3
        <5> QED BY <5>2, <5>3
      <4>4. Len(w2) = Len(w) /\ Len(w) <= ADDRMAN_TRIED_BUCKET_SIZE
        BY <1>6, <1>9
      <4> QED BY <3>2, <4>1, <4>2, <4>3, <4>4
    <3> QED BY <3>1, <3>2
  <2>2. ASSUME NEW y \in TriedOf(m2)
        PROVE  /\ \E p \in 1 .. Len(tb[TriedBucket[m2[y].addr]]) : tb[TriedBucket[m2[y].addr]][p] = y
               /\ m2[y].nRefCount = 0 /\ m2[y].nLastSuccess # 0
    <3>1. y \in TriedOf(m) /\ y \in D /\ y # old
      BY <1>23
    <3>2. m[y].nRefCount = 0 /\ m[y].nLastSuccess # 0
      BY <1>8, <3>1 DEF TriedBut
    <3>3. m2[y].nRefCount = 0 /\ m2[y].nLastSuccess # 0 /\ m2[y].addr = m[y].addr
      BY <1>12, <3>1, <3>2
    <3>4. PICK j \in TriedBuckets : j = TriedBucket[m[y].addr]
      BY <1>1, <3>1, AddrManAssumption DEF Info
    <3>5. \E p \in 1 .. Len(tb[j]) : tb[j][p] = y
      <4>1. CASE y = id
        <5>1. j = k /\ tb[j] = w2 /\ pos \in 1 .. Len(w2) /\ w2[pos] = y
          BY <1>2, <1>4, <1>6, <1>7, <3>4, <4>1
        <5> QED BY <5>1
      <4>2. CASE y # id
        <5>1. PICK q \in 1 .. Len(l.vvTried[j]) : l.vvTried[j][q] = y
          BY <1>8, <3>1, <3>4, <4>2 DEF TriedBut
        <5>2. CASE j # k
          BY <1>7, <5>1, <5>2
        <5>3. CASE j = k
          <6>1. tb[j] = w2 /\ q \in 1 .. Len(w) /\ w[q] = y
            BY <1>3, <1>7, <5>1, <5>3
          <6>2. PICK p \in 1 .. Len(w) : v[p] = y
            BY <1>4, <6>1
          <6>3. p # pos
            BY <3>1, <6>2 DEF old
          <6> QED BY <1>6, <6>1, <6>2, <6>3
        <5> QED BY <5>2, <5>3
      <4> QED BY <4>1, <4>2
    <3> QED BY <3>3, <3>4, <3>5
  <2> QED BY <2>1, <2>2 DEF TriedOK
<1>25. NewOK(m2, nb, 0, 0)
  <2>1. ASSUME NEW b \in NewBuckets
        PROVE  nb[b] \subseteq NewOf(m2) /\ Cardinality(nb[b]) <= ADDRMAN_NEW_BUCKET_SIZE
    <3>1. l.vvNew[b] \subseteq NewOf(m) /\ Cardinality(l.vvNew[b]) <= ADDRMAN_NEW_BUCKET_SIZE
      BY <1>16 DEF NewOK
    <3>2. nb[b] \subseteq NewOf(m2)
      BY <1>15, <1>23, <3>1
    <3>3. CASE b # u
      BY <1>15, <3>1, <3>2, <3>3
    <3>4. CASE b = u
      <4>1. IsFiniteSet(l.vvNew[u]) /\ Cardinality(l.vvNew[u]) \in Nat
        BY <1>1, <1>23, <3>1, <3>4, EntriesFinite
      <4>2. Cardinality(l.vvNew[u] \cup {old}) = Cardinality(l.vvNew[u]) + 1
        BY <1>17, <4>1, FS_AddElement
      <4>3. ADDRMAN_NEW_BUCKET_SIZE \in Nat
        BY AddrManAssumption
      <4>4. nb[b] = l.vvNew[u] \cup {old}
        BY <1>15, <3>4
      <4> QED BY <3>2, <4>1, <4>2, <4>3, <4>4
    <3> QED BY <3>3, <3>4
  <2>2. ASSUME NEW y \in NewOf(m2)
        PROVE  /\ m2[y].nRefCount = Cardinality(BucketsOf(nb, y)) + (IF y = 0 THEN 0 ELSE 0)
               /\ m2[y].nRefCount \in 1 .. ADDRMAN_NEW_BUCKETS_PER_ADDRESS
    <3>1. CASE y = old
      <4>1. ADDRMAN_NEW_BUCKETS_PER_ADDRESS \in Nat \ {0}
        BY AddrManAssumption
      <4> QED BY <1>11, <1>12, <1>18, <3>1, <4>1
    <3>2. CASE y # old
      <4>1. y \in NewOf(m) /\ y \in D
        BY <1>23, <3>2
      <4>2. /\ m[y].nRefCount = Cardinality(BucketsOf(l.vvNew, y)) + (IF y = 0 THEN 0 ELSE 0)
            /\ m[y].nRefCount \in 1 .. ADDRMAN_NEW_BUCKETS_PER_ADDRESS
        BY <1>16, <4>1 DEF NewOK
      <4>3. BucketsOf(nb, y) = BucketsOf(l.vvNew, y) /\ m2[y].nRefCount = m[y].nRefCount
        BY <1>12, <1>18, <3>2, <4>1
      <4> QED BY <4>2, <4>3
    <3> QED BY <3>1, <3>2
  <2> QED BY <2>1, <2>2 DEF NewOK
<1>26. CountOK(m2, l.vRandom, n, l.nTried)
  <2>1. /\ IsFiniteSet(NewOf(m)) /\ Cardinality(NewOf(m)) \in Nat
        /\ IsFiniteSet(TriedOf(m)) /\ Cardinality(TriedOf(m)) \in Nat
    BY <1>1, <1>23, EntriesFinite
  <2>2. Cardinality(NewOf(m) \cup {old}) = Cardinality(NewOf(m)) + 1
    BY <1>23, <2>1, FS_AddElement
  <2>3. Cardinality(TriedOf(m) \ {old}) = Cardinality(TriedOf(m)) - 1
    BY <1>11, <2>1, FS_RemoveElement
  <2>4. l.nNew = Cardinality(NewOf(m)) /\ l.nTried + 1 = Cardinality(TriedOf(m))
        /\ Len(l.vRandom) = l.nNew + (l.nTried + 1)
    BY DEF Half, CountOK
  <2>5. l.nTried \in Int /\ l.nNew \in Int
    BY <1>1
  <2>6. n = Cardinality(NewOf(m2)) /\ l.nTried = Cardinality(TriedOf(m2))
    <3> HIDE DEF m
    <3> QED BY <1>23, <2>1, <2>2, <2>3, <2>4, <2>5 DEF n
  <2>7. Len(l.vRandom) = n + l.nTried
    <3>1. PICK x \in Int, y \in Int : x = l.nNew /\ y = l.nTried
      BY <2>5
    <3>2. Len(l.vRandom) = x + (y + 1) /\ n = x + 1
      BY <2>4, <3>1 DEF n
    <3>3. x + (y + 1) = (x + 1) + y
      BY <3>1, CountMoved, Zenon
    <3> QED BY <3>1, <3>2, <3>3, Zenon
  <2> QED BY <2>6, <2>7 DEF CountOK
<1> QED BY <1>19, <1>20, <1>21, <1>22, <1>24, <1>25, <1>26 DEF Good

Destination(a, l, old, origin) ==
  LET own == NewBucket[Ip[a.mapInfo[old].addr]][a.mapInfo[old].source]
  IN  IF Cardinality(l.vvNew[own]) < ADDRMAN_NEW_BUCKET_SIZE THEN own ELSE origin

LEMMA MakeTriedCases ==
  ASSUME NEW a, NEW id, NEW origin, NEW t \in MakeTried(a, id, origin)
  PROVE  LET k == TriedBucket[a.mapInfo[id].addr]
             l == Leaving(a, id)
         IN  IF Len(a.vvTried[k]) < ADDRMAN_TRIED_BUCKET_SIZE
             THEN t = Placed(l, k, id)
             ELSE \E r \in SelectTried(l, k) :
                    t = Evicted(l, k, id, r.vTried, r.nPos, Destination(a, l, r.vTried[r.nPos], origin))
BY DEF MakeTried, Leaving, Placed, Evicted, Destination

LEMMA MakeTriedKeeps ==
  ASSUME NEW a, Good(a, 0, 0), NEW id \in NewOf(a.mapInfo), a.mapInfo[id].nLastSuccess # 0,
         NEW origin \in NewBuckets, id \in a.vvNew[origin],
         NEW t, t \in MakeTried(a, id, origin)
  PROVE  Good(t, 0, 0) /\ t.nIdCount = a.nIdCount /\ t.mapAddr = a.mapAddr
<1>1. PICK l : l = Leaving(a, id)
  OBVIOUS
<1>2. /\ Half(l, id) /\ l.nIdCount = a.nIdCount /\ l.mapAddr = a.mapAddr /\ l.vvTried = a.vvTried
      /\ DOMAIN l.mapInfo = DOMAIN a.mapInfo
      /\ \A y \in DOMAIN a.mapInfo : /\ l.mapInfo[y].addr = a.mapInfo[y].addr
                                     /\ l.mapInfo[y].source = a.mapInfo[y].source
      /\ \A b \in NewBuckets : l.vvNew[b] = a.vvNew[b] \ {id}
  BY <1>1, LeaveKeeps
<1>3. PICK k : k = TriedBucket[a.mapInfo[id].addr]
  OBVIOUS
<1>4. k = TriedBucket[l.mapInfo[id].addr]
  BY <1>2, <1>3 DEF NewOf
<1>5. IF Len(l.vvTried[k]) < ADDRMAN_TRIED_BUCKET_SIZE
      THEN t = Placed(l, k, id)
      ELSE \E r \in SelectTried(l, k) :
             t = Evicted(l, k, id, r.vTried, r.nPos, Destination(a, l, r.vTried[r.nPos], origin))
  BY <1>1, <1>2, <1>3, MakeTriedCases
<1>6. CASE Len(l.vvTried[k]) < ADDRMAN_TRIED_BUCKET_SIZE
  <2>1. t = Placed(l, k, id)
    BY <1>5, <1>6
  <2>2. Good(t, 0, 0) /\ t.nIdCount = l.nIdCount /\ t.mapAddr = l.mapAddr
    BY <1>2, <1>4, <1>6, <2>1, PlaceKeeps
  <2> QED BY <1>2, <2>2
<1>7. CASE ~(Len(l.vvTried[k]) < ADDRMAN_TRIED_BUCKET_SIZE)
  <2>1. PICK r \in SelectTried(l, k) :
               t = Evicted(l, k, id, r.vTried, r.nPos, Destination(a, l, r.vTried[r.nPos], origin))
    BY <1>5, <1>7
  <2>2. /\ l.vvTried \in [TriedBuckets -> Seq(Nat)] /\ l.mapInfo \in [DOMAIN l.mapInfo -> Info]
        /\ DOMAIN l.mapInfo \subseteq 0 .. l.nIdCount - 1 /\ l.nIdCount \in Nat
    BY <1>2 DEF Half, Shape
  <2>3. k \in TriedBuckets
    <3>1. id \in DOMAIN l.mapInfo
      BY <1>2 DEF NewOf
    <3>2. l.mapInfo[id].addr \in Addrs
      BY <2>2, <3>1 DEF Info
    <3> QED BY <1>4, <3>2, AddrManAssumption
  <2>4. PICK w \in Seq(Nat) : w = l.vvTried[k]
    BY <2>2, <2>3
  <2>5. w # <<>>
    <3>1. ADDRMAN_TRIED_BUCKET_SIZE \in Nat \ {0}
      BY AddrManAssumption
    <3>2. Len(w) # 0
      BY <1>7, <2>4, <3>1
    <3> QED BY <3>2
  <2>6. /\ \A p \in 1 .. Len(w) : w[p] \in TriedOf(l.mapInfo)
        /\ \A p, q \in 1 .. Len(w) : w[p] = w[q] => p = q
    <3>1. \A i \in TriedBuckets :
            /\ \A p \in 1 .. Len(l.vvTried[i]) : l.vvTried[i][p] \in TriedOf(l.mapInfo)
            /\ \A p, q \in 1 .. Len(l.vvTried[i]) : l.vvTried[i][p] = l.vvTried[i][q] => p = q
      BY <1>2 DEF Half, TriedBut
    <3>2. /\ \A p \in 1 .. Len(l.vvTried[k]) : l.vvTried[k][p] \in TriedOf(l.mapInfo)
          /\ \A p, q \in 1 .. Len(l.vvTried[k]) : l.vvTried[k][p] = l.vvTried[k][q] => p = q
      BY <2>3, <3>1, Zenon
    <3>3. l.vvTried[k] = w
      BY <2>4
    <3> QED BY <3>2, <3>3, Zenon
  <2>7. Permuted(r.vTried, w) /\ r.nPos \in 1 .. Len(w)
    BY <2>4, <2>5, <2>6, SelectTriedPermutes
  <2>8. PICK old : old = r.vTried[r.nPos]
    OBVIOUS
  <2>9. old \in DOMAIN l.mapInfo
    <3>1. PICK q \in 1 .. Len(w) : old = w[q]
      BY <2>7, <2>8 DEF Permuted
    <3> QED BY <2>6, <3>1 DEF TriedOf
  <2>10. PICK u : u = Destination(a, l, old, origin)
    OBVIOUS
  <2>11. u \in NewBuckets /\ Cardinality(l.vvNew[u]) < ADDRMAN_NEW_BUCKET_SIZE
    <3>1. PICK own : own = NewBucket[Ip[a.mapInfo[old].addr]][a.mapInfo[old].source]
      OBVIOUS
    <3>2. own \in NewBuckets
      <4>1. l.mapInfo[old].addr \in Addrs /\ l.mapInfo[old].source \in Sources
        BY <2>2, <2>9 DEF Info
      <4>2. own = NewBucket[Ip[l.mapInfo[old].addr]][l.mapInfo[old].source]
        BY <1>2, <2>9, <3>1
      <4> QED BY <4>1, <4>2, AddrManAssumption
    <3>3. u = IF Cardinality(l.vvNew[own]) < ADDRMAN_NEW_BUCKET_SIZE THEN own ELSE origin
      BY <2>10, <3>1 DEF Destination
    <3>4. Cardinality(l.vvNew[origin]) < ADDRMAN_NEW_BUCKET_SIZE
      <4>1. a.vvNew[origin] \subseteq DOMAIN a.mapInfo /\ Cardinality(a.vvNew[origin]) <= ADDRMAN_NEW_BUCKET_SIZE
        BY DEF Good, NewOK, NewOf
      <4>2. IsFiniteSet(a.vvNew[origin]) /\ Cardinality(a.vvNew[origin]) \in Nat
        BY <1>2, <2>2, <4>1, EntriesFinite
      <4>3. Cardinality(a.vvNew[origin] \ {id}) = Cardinality(a.vvNew[origin]) - 1
        BY <4>2, FS_RemoveElement
      <4>4. l.vvNew[origin] = a.vvNew[origin] \ {id} /\ ADDRMAN_NEW_BUCKET_SIZE \in Nat
        BY <1>2, AddrManAssumption
      <4> QED BY <4>1, <4>2, <4>3, <4>4
    <3> QED BY <3>2, <3>3, <3>4
  <2>12. t = Evicted(l, k, id, r.vTried, r.nPos, u)
    BY <2>1, <2>8, <2>10
  <2>13. MayEvict(l, id, k, r.vTried, r.nPos, u)
    BY <1>2, <1>4, <2>4, <2>7, <2>11 DEF MayEvict
  <2>14. Good(t, 0, 0) /\ t.nIdCount = l.nIdCount /\ t.mapAddr = l.mapAddr
    BY <2>12, <2>13, EvictKeeps
  <2> QED BY <1>2, <2>14
<1> QED BY <1>6, <1>7

LEMMA GoodKeeps ==
  ASSUME Good(am, 0, 0), NEW addr \in Addrs, NEW time \in Times, Good_(addr, time)
  PROVE  Good(am', 0, 0) /\ am'.nIdCount = am.nIdCount /\ TriedKept(am, am')
<1>1. PICK id : id = IdOf(addr)
  OBVIOUS
<1>2. PICK a : a = Succeeded(am, id, time)
  OBVIOUS
<1>3. PICK t : t = am'
  OBVIOUS
<1>4. Ip[addr] \in DOMAIN am.mapAddr /\ id \in DOMAIN am.mapInfo
  BY <1>1 DEF Good_, Known, IdOf, Good, AddrOK
<1>5. /\ Good(a, 0, 0) /\ a.nIdCount = am.nIdCount /\ a.vvNew = am.vvNew /\ a.mapAddr = am.mapAddr
      /\ DOMAIN a.mapInfo = DOMAIN am.mapInfo /\ TriedOf(a.mapInfo) = TriedOf(am.mapInfo)
      /\ a.mapInfo[id].nLastSuccess # 0
  BY <1>2, <1>4, SucceedKeeps
<1>6. \/ t = a
      \/ /\ ~am.mapInfo[id].fInTried
         /\ \E b \in NewBuckets : id \in am.vvNew[b] /\ t \in MakeTried(a, id, b)
  BY <1>1, <1>2, <1>3 DEF Good_, Succeeded
<1>7. Good(t, 0, 0) /\ t.nIdCount = am.nIdCount /\ t.mapAddr = am.mapAddr
  <2>1. CASE t = a
    BY <1>5, <2>1
  <2>2. CASE /\ ~am.mapInfo[id].fInTried
             /\ \E b \in NewBuckets : id \in am.vvNew[b] /\ t \in MakeTried(a, id, b)
    <3>1. PICK b \in NewBuckets : id \in a.vvNew[b] /\ t \in MakeTried(a, id, b)
      BY <1>5, <2>2
    <3>2. id \in NewOf(a.mapInfo)
      BY <1>4, <1>5, <2>2 DEF NewOf, TriedOf
    <3>3. Good(t, 0, 0) /\ t.nIdCount = a.nIdCount /\ t.mapAddr = a.mapAddr
      BY <1>5, <3>1, <3>2, MakeTriedKeeps
    <3> QED BY <1>5, <3>3
  <2> QED BY <1>6, <2>1, <2>2
<1>8. \A y \in TriedOf(am.mapInfo) : Ip[am.mapInfo[y].addr] \in DOMAIN am.mapAddr
  BY DEF Good, AddrOK, TriedOf
<1> QED BY <1>3, <1>7, <1>8 DEF TriedKept

-----------------------------------------------------------------------------
(***************************************************************************)
(* peers.dat.  InOrder lists a finite set of numbers: the rank of a number *)
(* in the set is its position.                                             *)
(***************************************************************************)
Below(S, n) == {m \in S : m < n}
Rank(S, n) == Cardinality(Below(S, n))

LEMMA RankMonotone ==
  ASSUME NEW S \in SUBSET Nat, IsFiniteSet(S), NEW n \in S, NEW k \in S, n < k
  PROVE  Rank(S, n) \in Nat /\ Rank(S, n) < Rank(S, k) /\ Rank(S, k) <= Cardinality(S) - 1
<1>1. /\ Below(S, n) \in SUBSET S /\ Below(S, k) \in SUBSET S
      /\ n \notin Below(S, n) /\ k \notin Below(S, k)
  BY DEF Below
<1>2. /\ IsFiniteSet(Below(S, n)) /\ IsFiniteSet(Below(S, k))
      /\ Cardinality(Below(S, n)) \in Nat /\ Cardinality(Below(S, k)) \in Nat /\ Cardinality(S) \in Nat
  BY <1>1, FS_Subset, FS_CardinalityType
<1>3. Cardinality(Below(S, n) \cup {n}) = Rank(S, n) + 1
  BY <1>1, <1>2, FS_AddElement DEF Rank
<1>4. Below(S, n) \cup {n} \in SUBSET Below(S, k)
  <2>1. \A x \in S : x \in Nat
    OBVIOUS
  <2>2. \A x \in S : x < n => x < k
    BY <2>1
  <2> QED BY <2>2 DEF Below
<1>5. Cardinality(Below(S, n) \cup {n}) <= Rank(S, k)
  BY <1>2, <1>4, FS_Subset DEF Rank
<1>6. Below(S, k) \in SUBSET (S \ {k})
  BY <1>1
<1>7. IsFiniteSet(S \ {k}) /\ Cardinality(S \ {k}) = Cardinality(S) - 1
  BY FS_RemoveElement
<1>8. Rank(S, k) <= Cardinality(S) - 1
  BY <1>6, <1>7, FS_Subset DEF Rank
<1> QED BY <1>2, <1>3, <1>5, <1>8 DEF Rank

LEMMA RankBounds ==
  ASSUME NEW S \in SUBSET Nat, IsFiniteSet(S), NEW n \in S
  PROVE  Rank(S, n) \in 0 .. Cardinality(S) - 1
<1>1. Below(S, n) \in SUBSET (S \ {n})
  BY DEF Below
<1>2. IsFiniteSet(S \ {n}) /\ Cardinality(S \ {n}) = Cardinality(S) - 1 /\ Cardinality(S) \in Nat
  BY FS_RemoveElement, FS_CardinalityType
<1>3. Rank(S, n) <= Cardinality(S) - 1 /\ Rank(S, n) \in Nat
  BY <1>1, <1>2, FS_Subset, FS_CardinalityType DEF Rank
<1> QED BY <1>2, <1>3

LEMMA InOrderLists ==
  ASSUME NEW S \in SUBSET Nat, IsFiniteSet(S)
  PROVE  /\ Cardinality(S) \in Nat
         /\ InOrder(S) \in Seq(Nat) /\ Len(InOrder(S)) = Cardinality(S)
         /\ \A n \in S : Rank(S, n) \in 0 .. Cardinality(S) - 1 /\ InOrder(S)[Rank(S, n) + 1] = n
         /\ \A i \in 1 .. Cardinality(S) : InOrder(S)[i] \in S /\ Rank(S, InOrder(S)[i]) = i - 1
<1>1. Cardinality(S) \in Nat
  BY FS_CardinalityType
<1>2. PICK c \in Nat : c = Cardinality(S)
  BY <1>1
<1>3. \A n \in S : Rank(S, n) \in 0 .. c - 1
  BY <1>2, RankBounds
<1>4. ASSUME NEW n \in S, NEW k \in S, Rank(S, n) = Rank(S, k)
      PROVE  n = k
  <2>1. n \in Nat /\ k \in Nat
    OBVIOUS
  <2>2. ~(n < k)
    <3> SUFFICES ASSUME n < k PROVE FALSE
      OBVIOUS
    <3>1. Rank(S, n) \in Nat /\ Rank(S, n) < Rank(S, k)
      BY RankMonotone
    <3> QED BY <1>4, <3>1
  <2>3. ~(k < n)
    <3> SUFFICES ASSUME k < n PROVE FALSE
      OBVIOUS
    <3>1. Rank(S, k) \in Nat /\ Rank(S, k) < Rank(S, n)
      BY RankMonotone
    <3> QED BY <1>4, <3>1
  <2> QED BY <2>1, <2>2, <2>3
<1> DEFINE f == [n \in S |-> Rank(S, n)]
<1>5. f \in Injection(S, 0 .. c - 1)
  <2>1. f \in [S -> 0 .. c - 1]
    BY <1>3
  <2>2. \A n, k \in S : f[n] = f[k] => n = k
    BY <1>4
  <2> HIDE DEF f
  <2> QED BY <2>1, <2>2 DEF Injection, IsInjective
<1>6. IsFiniteSet(0 .. c - 1) /\ Cardinality(0 .. c - 1) = c
  BY FS_Interval
<1>7. f \in Surjection(S, 0 .. c - 1)
  <2> HIDE DEF f
  <2> QED BY <1>2, <1>5, <1>6, FS_Injection
<1>8. \A i \in 1 .. c : \E n \in S : Rank(S, n) = i - 1
  <2> TAKE i \in 1 .. c
  <2>1. i - 1 \in 0 .. c - 1
    BY <1>2
  <2>2. \E n \in S : f[n] = i - 1
    <3> HIDE DEF f
    <3> QED BY <1>7, <2>1 DEF Surjection
  <2> QED BY <2>2
<1>9. PICK s : s = InOrder(S)
  OBVIOUS
<1>10. s = [i \in 1 .. c |-> CHOOSE n \in S : Rank(S, n) = i - 1]
  BY <1>2, <1>9 DEF InOrder, Rank, Below
<1>11. ASSUME NEW i \in 1 .. c
       PROVE  s[i] \in S /\ Rank(S, s[i]) = i - 1
  BY <1>8, <1>10
<1>12. s \in [1 .. c -> Nat]
  <2>1. s = [i \in 1 .. c |-> s[i]]
    BY <1>10
  <2> QED BY <1>11, <2>1
<1>13. s \in Seq(Nat) /\ Len(s) = c
  BY <1>2, <1>12
<1>14. ASSUME NEW n \in S
       PROVE  s[Rank(S, n) + 1] = n
  <2>1. Rank(S, n) \in 0 .. c - 1 /\ Rank(S, n) + 1 \in 1 .. c
    BY <1>2, <1>3
  <2>2. PICK i \in 1 .. c : i = Rank(S, n) + 1
    BY <2>1
  <2>3. s[i] \in S /\ Rank(S, s[i]) = Rank(S, n)
    BY <1>11, <2>1, <2>2
  <2> QED BY <1>4, <2>2, <2>3
<1> QED BY <1>2, <1>3, <1>9, <1>11, <1>13, <1>14

\* The numbers of an interval from 1 are listed as they are.
LEMMA InOrderInterval ==
  ASSUME NEW n \in Nat
  PROVE  /\ InOrder(1 .. n) \in Seq(Nat) /\ Len(InOrder(1 .. n)) = n
         /\ \A i \in 1 .. n : InOrder(1 .. n)[i] = i
<1>1. PICK S : S = 1 .. n
  OBVIOUS
<1>2. S \in SUBSET Nat /\ IsFiniteSet(S) /\ Cardinality(S) = n
  BY <1>1, FS_Interval
<1>3. /\ InOrder(S) \in Seq(Nat) /\ Len(InOrder(S)) = n
      /\ \A i \in S : InOrder(S)[Rank(S, i) + 1] = i
  BY <1>2, InOrderLists
<1>4. ASSUME NEW i \in 1 .. n
      PROVE  Rank(S, i) = i - 1
  <2>1. Below(S, i) = 1 .. i - 1
    BY <1>1 DEF Below
  <2>2. i - 1 \in Nat /\ Cardinality(1 .. i - 1) = i - 1
    BY FS_Interval
  <2> QED BY <2>1, <2>2 DEF Rank
<1>5. \A i \in 1 .. n : InOrder(S)[i] = i
  <2> TAKE i \in 1 .. n
  <2>1. Rank(S, i) + 1 = i
    BY <1>4
  <2> QED BY <1>1, <1>3, <2>1
<1> QED BY <1>1, <1>3, <1>5

(***************************************************************************)
(* What Serialize writes and Unserialize reads, field by field.            *)
(***************************************************************************)
StoredEntry(m, id) ==
  [addr |-> m[id].addr, source |-> m[id].source, nLastSuccess |-> m[id].nLastSuccess]
File(new, tried, nb) == [new |-> new, tried |-> tried, vvNew |-> nb]

LEMMA SerializeIs ==
  ASSUME NEW a
  PROVE  LET S == Head_(InOrder(NewIds(a)), a.nNew)
             T == Head_(InOrder(TriedIds(a)), a.nTried)
         IN  Serialize(a) = File([i \in DOMAIN S |-> StoredEntry(a.mapInfo, S[i])],
                                 [i \in DOMAIN T |-> StoredEntry(a.mapInfo, T[i])],
                                 [b \in NewBuckets |-> {UnkId(a, id) : id \in a.vvNew[b]}])
BY DEF Serialize, File, StoredEntry

\* Which tried entries find place, the entry a number means, the new buckets that are kept.
Fitting(tried) ==
  {i \in DOMAIN tried :
     Cardinality({j \in 1 .. i - 1 : TriedBucket[tried[j].addr] = TriedBucket[tried[i].addr]})
       < ADDRMAN_TRIED_BUCKET_SIZE}
Record(new, tried, kept, id) ==
  IF id < Len(new) THEN new[id + 1] ELSE tried[kept[id - Len(new) + 1]]
KeptBuckets(nb) ==
  [b \in NewBuckets |-> {id \in nb[b] : Cardinality({c \in 0 .. b - 1 : id \in nb[c]})
                                          < ADDRMAN_NEW_BUCKETS_PER_ADDRESS}]
EntryOf(r, count, isTried, pos) ==
  [addr |-> r.addr, source |-> r.source, nLastSuccess |-> r.nLastSuccess,
   nRefCount |-> count, fInTried |-> isTried, nRandomPos |-> pos]

LEMMA UnserializeIs ==
  ASSUME NEW f
  PROVE  LET kept == InOrder(Fitting(f.tried))
             n    == Len(f.new)
             size == n + Len(kept)
             nb   == KeptBuckets(f.vvNew)
             R(id) == Record(f.new, f.tried, kept, id)
         IN  Unserialize(f)
               = Object([id \in 0 .. size - 1 |->
                           EntryOf(R(id), Cardinality(BucketsOf(nb, id)), id >= n, id + 1)],
                        [ip \in {Ip[R(id).addr] : id \in 0 .. size - 1} |->
                           CHOOSE id \in 0 .. size - 1 :
                             /\ Ip[R(id).addr] = ip
                             /\ \A j \in id + 1 .. size - 1 : Ip[R(j).addr] # ip],
                        [i \in 1 .. size |-> i - 1], n, Len(kept), size, nb,
                        [k \in TriedBuckets |->
                           InOrder({id \in n .. size - 1 : TriedBucket[R(id).addr] = k})])
BY Zenon DEF Unserialize, Object, Fitting, Record, KeptBuckets, EntryOf, BucketsOf

\* The file of an object whose entries and counters agree.
LEMMA FileOf ==
  ASSUME NEW a, Good(a, 0, 0), NEW f, f = Serialize(a)
  PROVE  LET m == a.mapInfo
         IN  /\ NewOf(m) \in SUBSET Nat /\ TriedOf(m) \in SUBSET Nat
             /\ IsFiniteSet(NewOf(m)) /\ IsFiniteSet(TriedOf(m))
             /\ a.nNew \in Nat /\ a.nNew = Cardinality(NewOf(m))
             /\ a.nTried \in Nat /\ a.nTried = Cardinality(TriedOf(m))
             /\ Len(f.new) = a.nNew
             /\ \A i \in 1 .. a.nNew : f.new[i] = StoredEntry(m, InOrder(NewOf(m))[i])
             /\ DOMAIN f.tried = 1 .. a.nTried
             /\ \A i \in 1 .. a.nTried : f.tried[i] = StoredEntry(m, InOrder(TriedOf(m))[i])
             /\ \A b \in NewBuckets : f.vvNew[b] = {Rank(NewOf(m), id) : id \in a.vvNew[b]}
<1>1. PICK m : m = a.mapInfo
  OBVIOUS
<1>2. PICK N, T : N = NewOf(m) /\ T = TriedOf(m)
  OBVIOUS
<1>3. PICK n, t : n = a.nNew /\ t = a.nTried
  OBVIOUS
<1>4. /\ m \in [DOMAIN m -> Info] /\ DOMAIN m \subseteq 0 .. a.nIdCount - 1 /\ a.nIdCount \in Nat
      /\ N \subseteq DOMAIN m /\ T \subseteq DOMAIN m
  BY <1>1, <1>2 DEF Good, Shape, NewOf, TriedOf
<1>5. /\ N \in SUBSET Nat /\ T \in SUBSET Nat /\ IsFiniteSet(N) /\ IsFiniteSet(T)
      /\ n \in Nat /\ n = Cardinality(N) /\ t \in Nat /\ t = Cardinality(T)
  <2>1. N \in SUBSET Nat /\ T \in SUBSET Nat
    BY <1>4
  <2>2. IsFiniteSet(N) /\ IsFiniteSet(T) /\ Cardinality(N) \in Nat /\ Cardinality(T) \in Nat
    BY <1>4, EntriesFinite
  <2>3. n = Cardinality(N) /\ t = Cardinality(T)
    BY <1>1, <1>2, <1>3 DEF Good, CountOK
  <2> QED BY <2>1, <2>2, <2>3
<1>6. TriedIds(a) = T /\ NewIds(a) = N
  <2>1. TriedIds(a) = T
    BY <1>1, <1>2 DEF TriedIds, TriedOf
  <2>2. \A id \in N : m[id].nRefCount # 0
    <3>1. \A id \in N : m[id].nRefCount \in 1 .. ADDRMAN_NEW_BUCKETS_PER_ADDRESS
      BY <1>1, <1>2 DEF Good, NewOK
    <3> QED BY <3>1
  <2>3. \A id \in T : m[id].nRefCount = 0
    BY <1>1, <1>2 DEF Good, TriedOK
  <2>4. \A id \in DOMAIN m : id \in N \/ id \in T
    BY <1>2 DEF NewOf
  <2> QED BY <1>1, <1>4, <2>1, <2>2, <2>3, <2>4 DEF NewIds
<1>7. PICK v, w : v = InOrder(N) /\ w = InOrder(T)
  OBVIOUS
<1>8. /\ v \in Seq(Nat) /\ Len(v) = n /\ \A i \in 1 .. n : v[i] \in N
      /\ w \in Seq(Nat) /\ Len(w) = t /\ \A i \in 1 .. t : w[i] \in T
  BY <1>5, <1>7, InOrderLists
<1>9. Head_(v, n) = v /\ Head_(w, t) = w
  <2>1. Least(n, n) = n /\ Least(t, t) = t
    BY DEF Least
  <2>2. SubSeq(v, 1, n) = v /\ SubSeq(w, 1, t) = w
    BY <1>5, <1>8
  <2> QED BY <1>8, <2>1, <2>2 DEF Head_
<1>10. f = File([i \in DOMAIN v |-> StoredEntry(m, v[i])], [i \in DOMAIN w |-> StoredEntry(m, w[i])],
                [b \in NewBuckets |-> {UnkId(a, id) : id \in a.vvNew[b]}])
  BY <1>1, <1>3, <1>6, <1>7, <1>9, SerializeIs
<1>11. /\ f.new = [i \in DOMAIN v |-> StoredEntry(m, v[i])]
       /\ f.tried = [i \in DOMAIN w |-> StoredEntry(m, w[i])]
       /\ f.vvNew = [b \in NewBuckets |-> {UnkId(a, id) : id \in a.vvNew[b]}]
  BY <1>10 DEF File
<1>12. /\ DOMAIN f.new = 1 .. n /\ \A i \in 1 .. n : f.new[i] = StoredEntry(m, v[i])
       /\ DOMAIN f.tried = 1 .. t /\ \A i \in 1 .. t : f.tried[i] = StoredEntry(m, w[i])
  <2>1. DOMAIN v = 1 .. n /\ DOMAIN w = 1 .. t
    BY <1>8
  <2> QED BY <1>11, <2>1
<1>13. Len(f.new) = n
  <2>1. PICK E : E = {StoredEntry(m, id) : id \in N}
    OBVIOUS
  <2>2. \A i \in 1 .. n : f.new[i] \in E
    BY <1>8, <1>12, <2>1
  <2>3. f.new = [i \in 1 .. n |-> f.new[i]]
    BY <1>11, <1>12
  <2>4. f.new \in [1 .. n -> E]
    BY <2>2, <2>3
  <2> QED BY <1>5, <2>4
<1>14. \A b \in NewBuckets : f.vvNew[b] = {Rank(N, id) : id \in a.vvNew[b]}
  <2>1. \A id : UnkId(a, id) = Rank(N, id)
    BY <1>6 DEF UnkId, Rank, Below
  <2> QED BY <1>11, <2>1
<1>15. \A i \in 1 .. n : f.new[i] = StoredEntry(m, InOrder(NewOf(m))[i])
  BY <1>2, <1>7, <1>12
<1>16. \A i \in 1 .. t : f.tried[i] = StoredEntry(m, InOrder(TriedOf(m))[i])
  BY <1>2, <1>7, <1>12
<1>17. /\ NewOf(m) \in SUBSET Nat /\ TriedOf(m) \in SUBSET Nat
       /\ IsFiniteSet(NewOf(m)) /\ IsFiniteSet(TriedOf(m))
       /\ n \in Nat /\ n = Cardinality(NewOf(m)) /\ t \in Nat /\ t = Cardinality(TriedOf(m))
  BY <1>2, <1>5
<1>18. \A b \in NewBuckets : f.vvNew[b] = {Rank(NewOf(m), id) : id \in a.vvNew[b]}
  BY <1>2, <1>14
<1>19. /\ Len(f.new) = a.nNew
       /\ \A i \in 1 .. a.nNew : f.new[i] = StoredEntry(m, InOrder(NewOf(m))[i])
       /\ DOMAIN f.tried = 1 .. a.nTried
       /\ \A i \in 1 .. a.nTried : f.tried[i] = StoredEntry(m, InOrder(TriedOf(m))[i])
  BY <1>3, <1>12, <1>13, <1>15, <1>16
<1>20. /\ a.nNew \in Nat /\ a.nNew = Cardinality(NewOf(m))
       /\ a.nTried \in Nat /\ a.nTried = Cardinality(TriedOf(m))
  BY <1>3, <1>17
<1> QED BY <1>1, <1>17, <1>18, <1>19, <1>20, Zenon

\* y numbers entries of tried bucket k.
Numbers(m, k, S, y) ==
  /\ \A j \in S : y[j] \in TriedOf(m) /\ TriedBucket[m[y[j]].addr] = k
  /\ \A i, j \in S : y[i] = y[j] => i = j

\* They are no more than the bucket holds.
LEMMA TriedFits ==
  ASSUME NEW m, NEW tb, tb \in [TriedBuckets -> Seq(Nat)], TriedOK(m, tb), NEW k \in TriedBuckets,
         NEW S, NEW y, Numbers(m, k, S, y)
  PROVE  IsFiniteSet(S) /\ Cardinality(S) <= ADDRMAN_TRIED_BUCKET_SIZE
<1> USE DEF Numbers
<1>1. PICK w \in Seq(Nat) : w = tb[k]
  OBVIOUS
<1>2. PICK c \in Nat : c = Len(w)
  OBVIOUS
<1>3. c <= ADDRMAN_TRIED_BUCKET_SIZE
  BY <1>1, <1>2 DEF TriedOK
<1> DEFINE g == [j \in S |-> CHOOSE p \in 1 .. c : w[p] = y[j]]
<1>4. ASSUME NEW j \in S
      PROVE  g[j] \in 1 .. c /\ w[g[j]] = y[j]
  <2>1. \E p \in 1 .. Len(tb[k]) : tb[k][p] = y[j]
    BY DEF TriedOK
  <2>2. \E p \in 1 .. c : w[p] = y[j]
    BY <1>1, <1>2, <2>1
  <2> QED BY <2>2
<1>5. g \in Injection(S, 1 .. c)
  <2>1. g \in [S -> 1 .. c]
    BY <1>4
  <2>2. \A i, j \in S : g[i] = g[j] => i = j
    <3> HIDE DEF g
    <3> QED BY <1>4
  <2> HIDE DEF g
  <2> QED BY <2>1, <2>2 DEF Injection, IsInjective
<1>6. IsFiniteSet(1 .. c) /\ Cardinality(1 .. c) = c
  BY FS_Interval
<1>7. IsFiniteSet(S) /\ Cardinality(S) <= c
  <2> HIDE DEF g
  <2> QED BY <1>5, <1>6, FS_Injection
<1>8. Cardinality(S) \in Nat /\ ADDRMAN_TRIED_BUCKET_SIZE \in Nat
  BY <1>7, FS_CardinalityType, AddrManAssumption
<1> QED BY <1>3, <1>7, <1>8

\* No tried entry is lost: those before it in the file leave it a place in its bucket.
LEMMA AllFit ==
  ASSUME NEW a, Good(a, 0, 0), NEW f, f = Serialize(a)
  PROVE  Fitting(f.tried) = 1 .. a.nTried
<1>1. PICK m : m = a.mapInfo
  OBVIOUS
<1>2. PICK t \in Nat : t = a.nTried
  BY FileOf
<1>3. PICK w : w = InOrder(TriedOf(m))
  OBVIOUS
<1>4. DOMAIN f.tried = 1 .. t /\ \A i \in 1 .. t : f.tried[i] = StoredEntry(m, w[i])
  BY <1>1, <1>2, <1>3, FileOf
<1>5. TriedOf(m) \in SUBSET Nat /\ IsFiniteSet(TriedOf(m)) /\ t = Cardinality(TriedOf(m))
  BY <1>1, <1>2, FileOf
<1>6. \A i \in 1 .. t : w[i] \in TriedOf(m) /\ Rank(TriedOf(m), w[i]) = i - 1
  BY <1>3, <1>5, InOrderLists
<1>7. \A i, j \in 1 .. t : w[i] = w[j] => i = j
  BY <1>6
<1>8. \A i \in 1 .. t : f.tried[i].addr = m[w[i]].addr /\ m[w[i]].addr \in Addrs
  <2>1. m \in [DOMAIN m -> Info] /\ TriedOf(m) \subseteq DOMAIN m
    BY <1>1 DEF Good, Shape, TriedOf
  <2>2. \A x : StoredEntry(m, x).addr = m[x].addr
    BY DEF StoredEntry
  <2>3. \A x \in DOMAIN m : m[x].addr \in Addrs
    BY <2>1 DEF Info
  <2> QED BY <1>4, <1>6, <2>1, <2>2, <2>3
<1>9. ASSUME NEW i \in 1 .. t
      PROVE  Cardinality({j \in 1 .. i - 1 : TriedBucket[f.tried[j].addr] = TriedBucket[f.tried[i].addr]})
               < ADDRMAN_TRIED_BUCKET_SIZE
  <2>1. PICK k \in TriedBuckets : k = TriedBucket[f.tried[i].addr]
    BY <1>8, AddrManAssumption
  <2>2. PICK J : J = {j \in 1 .. i - 1 : TriedBucket[f.tried[j].addr] = TriedBucket[f.tried[i].addr]}
    OBVIOUS
  <2>3. PICK S : S = J \cup {i}
    OBVIOUS
  <2>4. S \subseteq 1 .. t /\ i \notin J
    BY <1>2, <2>2, <2>3
  <2>5. \A j \in S : TriedBucket[f.tried[j].addr] = k
    BY <2>1, <2>2, <2>3
  <2>6. \A j \in S : w[j] \in TriedOf(m) /\ TriedBucket[m[w[j]].addr] = k
    BY <1>6, <1>8, <2>4, <2>5
  <2>7. \A p, q \in S : w[p] = w[q] => p = q
    BY <1>7, <2>4
  <2>8. a.vvTried \in [TriedBuckets -> Seq(Nat)] /\ TriedOK(m, a.vvTried)
    BY <1>1 DEF Good, Shape
  <2>9. IsFiniteSet(S) /\ Cardinality(S) <= ADDRMAN_TRIED_BUCKET_SIZE
    <3>1. Numbers(m, k, S, w)
      BY <2>6, <2>7 DEF Numbers
    <3> QED BY <2>8, <3>1, TriedFits
  <2>10. J = S \ {i} /\ i \in S
    BY <2>3, <2>4
  <2>11. Cardinality(J) = Cardinality(S) - 1 /\ Cardinality(S) \in Nat
    BY <2>9, <2>10, FS_RemoveElement, FS_CardinalityType
  <2>12. ADDRMAN_TRIED_BUCKET_SIZE \in Nat
    BY AddrManAssumption
  <2> QED BY <2>2, <2>9, <2>11, <2>12
<1> QED BY <1>2, <1>4, <1>9 DEF Fitting

\* The entry that gets the number id.
Numbered(a, id) ==
  IF id < a.nNew THEN InOrder(NewOf(a.mapInfo))[id + 1]
                 ELSE InOrder(TriedOf(a.mapInfo))[id - a.nNew + 1]
Size(a) == a.nNew + a.nTried

LEMMA NumbersEntries ==
  ASSUME NEW a, Good(a, 0, 0)
  PROVE  /\ a.nNew \in Nat /\ a.nTried \in Nat /\ Size(a) \in Nat
         /\ \A id \in 0 .. Size(a) - 1 :
              /\ Numbered(a, id) \in DOMAIN a.mapInfo
              /\ id < a.nNew => Numbered(a, id) \in NewOf(a.mapInfo)
                                /\ Rank(NewOf(a.mapInfo), Numbered(a, id)) = id
              /\ ~(id < a.nNew) => Numbered(a, id) \in TriedOf(a.mapInfo)
         /\ \A i, j \in 0 .. Size(a) - 1 : Numbered(a, i) = Numbered(a, j) => i = j
         /\ \A y \in DOMAIN a.mapInfo : \E id \in 0 .. Size(a) - 1 : Numbered(a, id) = y
<1>1. PICK N, T : N = NewOf(a.mapInfo) /\ T = TriedOf(a.mapInfo)
  OBVIOUS
<1>2. PICK n \in Nat, t \in Nat : n = a.nNew /\ t = a.nTried
  BY FileOf
<1>3. /\ N \in SUBSET Nat /\ T \in SUBSET Nat /\ IsFiniteSet(N) /\ IsFiniteSet(T)
      /\ n = Cardinality(N) /\ t = Cardinality(T)
  BY <1>1, <1>2, FileOf
<1>4. PICK v, w : v = InOrder(N) /\ w = InOrder(T)
  OBVIOUS
<1>5. /\ \A y \in N : Rank(N, y) \in 0 .. n - 1 /\ v[Rank(N, y) + 1] = y
      /\ \A i \in 1 .. n : v[i] \in N /\ Rank(N, v[i]) = i - 1
      /\ \A y \in T : Rank(T, y) \in 0 .. t - 1 /\ w[Rank(T, y) + 1] = y
      /\ \A i \in 1 .. t : w[i] \in T /\ Rank(T, w[i]) = i - 1
  BY <1>3, <1>4, InOrderLists
<1>6. N \cup T = DOMAIN a.mapInfo /\ N \cap T = {}
  BY <1>1 DEF NewOf, TriedOf
<1>7. Size(a) = n + t
  BY <1>2 DEF Size
<1>8. \A id : Numbered(a, id) = IF id < n THEN v[id + 1] ELSE w[id - n + 1]
  BY <1>1, <1>2, <1>4 DEF Numbered
<1>9. ASSUME NEW id \in 0 .. n + t - 1
      PROVE  /\ id < n => Numbered(a, id) \in N /\ Rank(N, Numbered(a, id)) = id
             /\ ~(id < n) => Numbered(a, id) \in T /\ Rank(T, Numbered(a, id)) = id - n
  <2>1. CASE id < n
    <3>1. id + 1 \in 1 .. n
      BY <2>1
    <3>2. v[id + 1] \in N /\ Rank(N, v[id + 1]) = id
      BY <1>5, <3>1
    <3> QED BY <1>8, <2>1, <3>2
  <2>2. CASE ~(id < n)
    <3>1. id - n + 1 \in 1 .. t
      BY <2>2
    <3>2. w[id - n + 1] \in T /\ Rank(T, w[id - n + 1]) = id - n
      BY <1>5, <3>1
    <3> QED BY <1>8, <2>2, <3>2
  <2> QED BY <2>1, <2>2
<1>10. ASSUME NEW i \in 0 .. n + t - 1, NEW j \in 0 .. n + t - 1, Numbered(a, i) = Numbered(a, j)
       PROVE  i = j
  <2>1. CASE i < n /\ j < n
    BY <1>9, <1>10, <2>1
  <2>2. CASE ~(i < n) /\ ~(j < n)
    <3>1. i - n = j - n
      BY <1>9, <1>10, <2>2
    <3> QED BY <3>1
  <2>3. CASE (i < n /\ ~(j < n)) \/ (~(i < n) /\ j < n)
    BY <1>6, <1>9, <1>10, <2>3
  <2> QED BY <2>1, <2>2, <2>3
<1>11. ASSUME NEW y \in DOMAIN a.mapInfo
       PROVE  \E id \in 0 .. n + t - 1 : Numbered(a, id) = y
  <2>1. CASE y \in N
    <3>1. PICK id \in 0 .. n - 1 : id = Rank(N, y)
      BY <1>5, <2>1
    <3>2. id \in 0 .. n + t - 1 /\ id < n /\ v[id + 1] = y
      BY <1>5, <2>1, <3>1
    <3> QED BY <1>8, <3>2
  <2>2. CASE y \in T
    <3>1. PICK r \in 0 .. t - 1 : r = Rank(T, y)
      BY <1>5, <2>2
    <3>2. PICK id \in 0 .. n + t - 1 : id = n + r
      BY <3>1
    <3>3. ~(id < n) /\ id - n + 1 = r + 1 /\ w[r + 1] = y
      BY <1>5, <2>2, <3>1, <3>2
    <3> QED BY <1>8, <3>3
  <2> QED BY <1>6, <2>1, <2>2
<1>12. \A id \in 0 .. n + t - 1 : Numbered(a, id) \in DOMAIN a.mapInfo
  BY <1>6, <1>9
<1> QED BY <1>1, <1>2, <1>7, <1>9, <1>10, <1>11, <1>12

\* The new buckets that are read: those of the object, in the new numbers.
LEMMA NewBucketsReload ==
  ASSUME NEW a, Good(a, 0, 0), NEW f, f = Serialize(a), NEW nb, nb = KeptBuckets(f.vvNew)
  PROVE  /\ nb \in [NewBuckets -> SUBSET Nat]
         /\ \A b \in NewBuckets : \A id :
              id \in nb[b] <=> id \in 0 .. Size(a) - 1 /\ Numbered(a, id) \in a.vvNew[b]
<1>1. PICK N : N = NewOf(a.mapInfo)
  OBVIOUS
<1>2. PICK n \in Nat, t \in Nat : n = a.nNew /\ t = a.nTried
  BY FileOf
<1>3. PICK v : v = InOrder(N)
  OBVIOUS
<1>4. /\ \A y \in N : Rank(N, y) \in 0 .. n - 1 /\ v[Rank(N, y) + 1] = y
      /\ \A i \in 1 .. n : v[i] \in N /\ Rank(N, v[i]) = i - 1
  <2>1. N \in SUBSET Nat /\ IsFiniteSet(N) /\ n = Cardinality(N)
    BY <1>1, <1>2, FileOf
  <2> QED BY <1>3, <2>1, InOrderLists
<1>5. \A b \in NewBuckets : f.vvNew[b] = {Rank(N, y) : y \in a.vvNew[b]}
  BY <1>1, FileOf
<1>6. \A b \in NewBuckets : a.vvNew[b] \subseteq N
  BY <1>1 DEF Good, NewOK
<1>7. Size(a) = n + t
  BY <1>2 DEF Size
<1>8. ASSUME NEW b \in NewBuckets, NEW y \in a.vvNew[b]
      PROVE  Rank(N, y) \in 0 .. n + t - 1 /\ Numbered(a, Rank(N, y)) = y
  <2>1. y \in N
    BY <1>6
  <2>2. PICK id \in 0 .. n - 1 : id = Rank(N, y)
    BY <1>4, <2>1
  <2>3. id < n /\ id \in 0 .. n + t - 1 /\ v[id + 1] = y
    BY <1>4, <2>1, <2>2
  <2>4. Numbered(a, id) = v[id + 1]
    BY <1>1, <1>2, <1>3, <2>3 DEF Numbered
  <2> QED BY <2>2, <2>3, <2>4
<1>9. ASSUME NEW b \in NewBuckets, NEW id, id \in f.vvNew[b]
      PROVE  id \in 0 .. n + t - 1 /\ Numbered(a, id) \in a.vvNew[b]
  <2>1. PICK y \in a.vvNew[b] : id = Rank(N, y)
    BY <1>5, <1>9
  <2> QED BY <1>8, <2>1
<1>10. ASSUME NEW b \in NewBuckets, NEW id, id \in 0 .. n + t - 1, Numbered(a, id) \in a.vvNew[b]
       PROVE  id \in f.vvNew[b]
  <2>1. Rank(N, Numbered(a, id)) \in 0 .. n + t - 1
        /\ Numbered(a, Rank(N, Numbered(a, id))) = Numbered(a, id)
    BY <1>8, <1>10
  <2>2. Rank(N, Numbered(a, id)) = id
    BY <1>7, <1>10, <2>1, NumbersEntries
  <2> QED BY <1>5, <1>10, <2>2
<1>11. ASSUME NEW b \in NewBuckets, NEW id, id \in f.vvNew[b]
       PROVE  Cardinality({c \in 0 .. b - 1 : id \in f.vvNew[c]}) < ADDRMAN_NEW_BUCKETS_PER_ADDRESS
  <2>1. PICK y : y = Numbered(a, id)
    OBVIOUS
  <2>2. PICK C : C = {c \in 0 .. b - 1 : id \in f.vvNew[c]}
    OBVIOUS
  <2>3. b \in Nat /\ \A c \in 0 .. b - 1 : c \in NewBuckets
    BY AddrManAssumption DEF NewBuckets
  <2>4. b \notin C
    BY <2>2, <2>3
  <2>5. C \in SUBSET (BucketsOf(a.vvNew, y) \ {b}) /\ b \in BucketsOf(a.vvNew, y)
    <3>1. \A c \in C : c \in NewBuckets /\ y \in a.vvNew[c]
      BY <1>9, <2>1, <2>2, <2>3
    <3>2. y \in a.vvNew[b]
      BY <1>9, <1>11, <2>1
    <3> QED BY <2>4, <3>1, <3>2 DEF BucketsOf
  <2>6. IsFiniteSet(BucketsOf(a.vvNew, y)) /\ Cardinality(BucketsOf(a.vvNew, y)) \in Nat
    BY BucketsFinite
  <2>7. /\ IsFiniteSet(BucketsOf(a.vvNew, y) \ {b})
        /\ Cardinality(BucketsOf(a.vvNew, y) \ {b}) = Cardinality(BucketsOf(a.vvNew, y)) - 1
    BY <2>5, <2>6, FS_RemoveElement
  <2>8. Cardinality(C) <= Cardinality(BucketsOf(a.vvNew, y)) - 1 /\ Cardinality(C) \in Nat
    BY <2>5, <2>7, FS_Subset, FS_CardinalityType
  <2>9. Cardinality(BucketsOf(a.vvNew, y)) \in 1 .. ADDRMAN_NEW_BUCKETS_PER_ADDRESS
    <3>1. y \in NewOf(a.mapInfo)
      BY <1>1, <1>6, <1>9, <1>11, <2>1
    <3>2. /\ a.mapInfo[y].nRefCount = Cardinality(BucketsOf(a.vvNew, y)) + (IF y = 0 THEN 0 ELSE 0)
          /\ a.mapInfo[y].nRefCount \in 1 .. ADDRMAN_NEW_BUCKETS_PER_ADDRESS
      BY <3>1 DEF Good, NewOK
    <3> QED BY <2>6, <3>2
  <2>10. ADDRMAN_NEW_BUCKETS_PER_ADDRESS \in Nat
    BY AddrManAssumption
  <2> QED BY <2>2, <2>6, <2>8, <2>9, <2>10
<1>12. nb = [b \in NewBuckets |-> f.vvNew[b]]
  <2>1. nb = [b \in NewBuckets |-> {id \in f.vvNew[b] : Cardinality({c \in 0 .. b - 1 : id \in f.vvNew[c]})
                                                         < ADDRMAN_NEW_BUCKETS_PER_ADDRESS}]
    BY DEF KeptBuckets
  <2> QED BY <1>11, <2>1
<1>13. \A b \in NewBuckets : nb[b] = f.vvNew[b] /\ nb[b] \in SUBSET Nat
  BY <1>9, <1>12
<1>14. nb \in [NewBuckets -> SUBSET Nat]
  BY <1>12, <1>13
<1> QED BY <1>7, <1>9, <1>10, <1>13, <1>14

\* What is read of the entry with number id is what was written of it.
LEMMA RecordIs ==
  ASSUME NEW a, Good(a, 0, 0), NEW f, f = Serialize(a), NEW kept, kept = InOrder(Fitting(f.tried))
  PROVE  /\ Len(f.new) = a.nNew /\ Len(kept) = a.nTried
         /\ \A id \in 0 .. Size(a) - 1 :
              Record(f.new, f.tried, kept, id) = StoredEntry(a.mapInfo, Numbered(a, id))
<1>1. PICK n \in Nat, t \in Nat : n = a.nNew /\ t = a.nTried
  BY FileOf
<1>2. kept = InOrder(1 .. t)
  BY <1>1, AllFit
<1>3. Len(kept) = t /\ \A i \in 1 .. t : kept[i] = i
  BY <1>2, InOrderInterval
<1>4. PICK v, w : v = InOrder(NewOf(a.mapInfo)) /\ w = InOrder(TriedOf(a.mapInfo))
  OBVIOUS
<1>5. /\ Len(f.new) = n
      /\ \A i \in 1 .. n : f.new[i] = StoredEntry(a.mapInfo, v[i])
      /\ \A i \in 1 .. t : f.tried[i] = StoredEntry(a.mapInfo, w[i])
  BY <1>1, <1>4, FileOf
<1>6. Size(a) = n + t
  BY <1>1 DEF Size
<1>7. \A id : Numbered(a, id) = IF id < n THEN v[id + 1] ELSE w[id - n + 1]
  BY <1>1, <1>4 DEF Numbered
<1>8. ASSUME NEW id \in 0 .. n + t - 1
      PROVE  Record(f.new, f.tried, kept, id) = StoredEntry(a.mapInfo, Numbered(a, id))
  <2>1. CASE id < n
    <3>1. id + 1 \in 1 .. n
      BY <2>1
    <3>2. Record(f.new, f.tried, kept, id) = f.new[id + 1]
      BY <1>5, <2>1 DEF Record
    <3>3. Numbered(a, id) = v[id + 1]
      BY <1>7, <2>1
    <3> QED BY <1>5, <3>1, <3>2, <3>3
  <2>2. CASE ~(id < n)
    <3>1. id - n + 1 \in 1 .. t
      BY <2>2
    <3>2. Record(f.new, f.tried, kept, id) = f.tried[kept[id - n + 1]]
      BY <1>5, <2>2 DEF Record
    <3>3. Numbered(a, id) = w[id - n + 1]
      BY <1>7, <2>2
    <3>4. f.tried[kept[id - n + 1]] = f.tried[id - n + 1]
      BY <1>3, <3>1
    <3> QED BY <1>5, <3>1, <3>2, <3>3, <3>4
  <2> QED BY <2>1, <2>2
<1> QED BY <1>1, <1>3, <1>5, <1>6, <1>8

\* The object that is read, in terms of the one that was written.
Service(a, id) == a.mapInfo[Numbered(a, id)].addr

ReadBack(a, nb, D) ==
  Object([id \in D |-> EntryOf(StoredEntry(a.mapInfo, Numbered(a, id)),
                               Cardinality(BucketsOf(nb, id)), id >= a.nNew, id + 1)],
         [ip \in {Ip[Service(a, id)] : id \in D} |->
            CHOOSE id \in D : /\ Ip[Service(a, id)] = ip
                              /\ \A j \in id + 1 .. Size(a) - 1 : Ip[Service(a, j)] # ip],
         [i \in 1 .. Size(a) |-> i - 1], a.nNew, a.nTried, Size(a), nb,
         [k \in TriedBuckets |->
            InOrder({id \in a.nNew .. Size(a) - 1 : TriedBucket[Service(a, id)] = k})])

LEMMA ReloadIs ==
  ASSUME NEW a, Good(a, 0, 0), NEW nb, nb = KeptBuckets(Serialize(a).vvNew),
         NEW D, D = 0 .. Size(a) - 1
  PROVE  Unserialize(Serialize(a)) = ReadBack(a, nb, D)
<1>1. PICK f : f = Serialize(a)
  OBVIOUS
<1>2. PICK kept : kept = InOrder(Fitting(f.tried))
  OBVIOUS
<1>3. PICK n \in Nat, t \in Nat, size \in Nat : n = a.nNew /\ t = a.nTried /\ size = n + t /\ size = Size(a)
  BY FileOf DEF Size
<1> DEFINE R(id) == Record(f.new, f.tried, kept, id)
           S(id) == Service(a, id)
           E(id) == StoredEntry(a.mapInfo, Numbered(a, id))
<1>4. Len(f.new) = n /\ Len(kept) = t
  BY <1>1, <1>2, <1>3, RecordIs
<1>5. \A id \in 0 .. size - 1 : R(id) = E(id)
  BY <1>1, <1>2, <1>3, RecordIs
<1>6. \A id \in 0 .. size - 1 : R(id).addr = S(id)
  <2>1. \A id : E(id).addr = S(id)
    BY DEF StoredEntry, Service
  <2> HIDE DEF R, E, S
  <2> QED BY <1>5, <2>1
<1> DEFINE G(kk, nn, tt, sz, bb) ==
             Object([id \in 0 .. sz - 1 |-> EntryOf(Record(f.new, f.tried, kk, id),
                                                    Cardinality(BucketsOf(bb, id)), id >= nn, id + 1)],
                    [ip \in {Ip[Record(f.new, f.tried, kk, id).addr] : id \in 0 .. sz - 1} |->
                       CHOOSE id \in 0 .. sz - 1 :
                         /\ Ip[Record(f.new, f.tried, kk, id).addr] = ip
                         /\ \A j \in id + 1 .. sz - 1 : Ip[Record(f.new, f.tried, kk, j).addr] # ip],
                    [i \in 1 .. sz |-> i - 1], nn, tt, sz, bb,
                    [k \in TriedBuckets |->
                       InOrder({id \in nn .. sz - 1 :
                                  TriedBucket[Record(f.new, f.tried, kk, id).addr] = k})])
           H(DD, nn, tt, sz) ==
             Object([id \in DD |-> EntryOf(StoredEntry(a.mapInfo, Numbered(a, id)),
                                           Cardinality(BucketsOf(nb, id)), id >= nn, id + 1)],
                    [ip \in {Ip[Service(a, id)] : id \in DD} |->
                       CHOOSE id \in DD : /\ Ip[Service(a, id)] = ip
                                          /\ \A j \in id + 1 .. sz - 1 : Ip[Service(a, j)] # ip],
                    [i \in 1 .. sz |-> i - 1], nn, tt, sz, nb,
                    [k \in TriedBuckets |->
                       InOrder({id \in nn .. sz - 1 : TriedBucket[Service(a, id)] = k})])
<1>7. Unserialize(f) = G(kept, n, t, size, nb)
  <2>1. Unserialize(f)
          = G(InOrder(Fitting(f.tried)), Len(f.new), Len(InOrder(Fitting(f.tried))),
              Len(f.new) + Len(InOrder(Fitting(f.tried))), KeptBuckets(f.vvNew))
    BY UnserializeIs
  <2> HIDE DEF G
  <2> QED BY <1>1, <1>2, <1>3, <1>4, <2>1
<1> HIDE DEF R, S, E
<1>8. [id \in 0 .. size - 1 |-> EntryOf(R(id), Cardinality(BucketsOf(nb, id)), id >= n, id + 1)]
        = [id \in 0 .. size - 1 |-> EntryOf(E(id), Cardinality(BucketsOf(nb, id)), id >= n, id + 1)]
  BY <1>5
<1>9. [ip \in {Ip[R(id).addr] : id \in 0 .. size - 1} |->
          CHOOSE id \in 0 .. size - 1 :
            /\ Ip[R(id).addr] = ip
            /\ \A j \in id + 1 .. size - 1 : Ip[R(j).addr] # ip]
        = [ip \in {Ip[S(id)] : id \in 0 .. size - 1} |->
             CHOOSE id \in 0 .. size - 1 :
               /\ Ip[S(id)] = ip
               /\ \A j \in id + 1 .. size - 1 : Ip[S(j)] # ip]
  <2> DEFINE P(ip, id) == Ip[R(id).addr] = ip /\ \A j \in id + 1 .. size - 1 : Ip[R(j).addr] # ip
             Q(ip, id) == Ip[S(id)] = ip /\ \A j \in id + 1 .. size - 1 : Ip[S(j)] # ip
  <2>1. {Ip[R(id).addr] : id \in 0 .. size - 1} = {Ip[S(id)] : id \in 0 .. size - 1}
    BY <1>6
  <2>2. ASSUME NEW ip, NEW id \in 0 .. size - 1
        PROVE  P(ip, id) <=> Q(ip, id)
    <3>1. \A j \in id + 1 .. size - 1 : j \in 0 .. size - 1
      BY <1>3
    <3> QED BY <1>6, <3>1
  <2>3. \A ip : (CHOOSE id \in 0 .. size - 1 : P(ip, id)) = (CHOOSE id \in 0 .. size - 1 : Q(ip, id))
    <3> HIDE DEF P, Q
    <3> QED BY <2>2
  <2> DEFINE CP(ip) == CHOOSE id \in 0 .. size - 1 : P(ip, id)
             CQ(ip) == CHOOSE id \in 0 .. size - 1 : Q(ip, id)
  <2>4. \A ip : CP(ip) = CQ(ip)
    BY <2>3, Zenon
  <2>5. [ip \in {Ip[R(id).addr] : id \in 0 .. size - 1} |-> CP(ip)]
          = [ip \in {Ip[S(id)] : id \in 0 .. size - 1} |-> CQ(ip)]
    <3> HIDE DEF CP, CQ
    <3> QED BY <2>1, <2>4
  <2> QED BY <2>5
<1>10. [k \in TriedBuckets |-> InOrder({id \in n .. size - 1 : TriedBucket[R(id).addr] = k})]
         = [k \in TriedBuckets |-> InOrder({id \in n .. size - 1 : TriedBucket[S(id)] = k})]
  <2>1. \A id \in n .. size - 1 : id \in 0 .. size - 1
    BY <1>3
  <2>2. \A k : {id \in n .. size - 1 : TriedBucket[R(id).addr] = k}
                 = {id \in n .. size - 1 : TriedBucket[S(id)] = k}
    BY <1>6, <2>1
  <2> QED BY <2>2
<1>11. G(kept, n, t, size, nb) = H(0 .. size - 1, n, t, size)
  BY <1>8, <1>9, <1>10, Zenon DEF R, S, E
<1>12. D = 0 .. size - 1
  BY <1>3
<1>13. Unserialize(Serialize(a)) = H(D, a.nNew, a.nTried, Size(a))
  <2> HIDE DEF G, H
  <2> QED BY <1>1, <1>3, <1>7, <1>11, <1>12
<1> QED BY <1>13, Zenon DEF ReadBack

\* s is a with its entries numbered anew.
Reloaded(a, s) ==
  LET D == 0 .. Size(a) - 1
  IN  /\ Shape(s)
      /\ DOMAIN s.mapInfo = D
      /\ \A id \in D :
           /\ s.mapInfo[id].addr = Service(a, id)
           /\ s.mapInfo[id].source = a.mapInfo[Numbered(a, id)].source
           /\ s.mapInfo[id].nLastSuccess = a.mapInfo[Numbered(a, id)].nLastSuccess
           /\ s.mapInfo[id].nRefCount = a.mapInfo[Numbered(a, id)].nRefCount
           /\ s.mapInfo[id].fInTried = a.mapInfo[Numbered(a, id)].fInTried
           /\ s.mapInfo[id].nRandomPos = id + 1
      /\ DOMAIN s.mapAddr = {Ip[Service(a, id)] : id \in D}
      /\ \A id \in D : s.mapAddr[Ip[Service(a, id)]] = id
      /\ s.vRandom = [i \in 1 .. Size(a) |-> i - 1]
      /\ s.nNew = a.nNew /\ s.nTried = a.nTried /\ s.nIdCount = Size(a)
      /\ \A b \in NewBuckets : \A id : id \in s.vvNew[b] <=> id \in D /\ Numbered(a, id) \in a.vvNew[b]
      /\ \A k \in TriedBuckets :
           s.vvTried[k] = InOrder({id \in a.nNew .. Size(a) - 1 : TriedBucket[Service(a, id)] = k})

\* A new number is in the new buckets of its entry, and these are nRefCount.
LEMMA CountReload ==
  ASSUME NEW a, Good(a, 0, 0), NEW nb, nb = KeptBuckets(Serialize(a).vvNew), NEW id \in 0 .. Size(a) - 1
  PROVE  Cardinality(BucketsOf(nb, id)) = a.mapInfo[Numbered(a, id)].nRefCount
<1>1. PICK y : y = Numbered(a, id)
  OBVIOUS
<1>2. BucketsOf(nb, id) = BucketsOf(a.vvNew, y)
  <2>1. \A b \in NewBuckets : id \in nb[b] <=> y \in a.vvNew[b]
    BY <1>1, NewBucketsReload
  <2> QED BY <2>1 DEF BucketsOf
<1>3. CASE id < a.nNew
  <2>1. y \in NewOf(a.mapInfo)
    BY <1>1, <1>3, NumbersEntries
  <2>2. a.mapInfo[y].nRefCount = Cardinality(BucketsOf(a.vvNew, y)) + (IF y = 0 THEN 0 ELSE 0)
    BY <2>1 DEF Good, NewOK
  <2>3. Cardinality(BucketsOf(a.vvNew, y)) \in Nat
    BY BucketsFinite
  <2> QED BY <1>1, <1>2, <2>2, <2>3
<1>4. CASE ~(id < a.nNew)
  <2>1. y \in TriedOf(a.mapInfo)
    BY <1>1, <1>4, NumbersEntries
  <2>2. a.mapInfo[y].nRefCount = 0
    BY <2>1 DEF Good, TriedOK
  <2>3. \A b \in NewBuckets : y \notin a.vvNew[b]
    BY <2>1 DEF Good, NewOK, NewOf
  <2>4. BucketsOf(a.vvNew, y) = {}
    BY <2>3 DEF BucketsOf
  <2> QED BY <1>1, <1>2, <2>2, <2>4, FS_EmptySet
<1> QED BY <1>3, <1>4

\* Different numbers have different IP addresses.
LEMMA ServicesDiffer ==
  ASSUME NEW a, Good(a, 0, 0)
  PROVE  /\ \A id \in 0 .. Size(a) - 1 : Service(a, id) \in Addrs /\ Ip[Service(a, id)] \in DOMAIN a.mapAddr
         /\ \A i, j \in 0 .. Size(a) - 1 : Ip[Service(a, i)] = Ip[Service(a, j)] => i = j
         /\ \A y \in DOMAIN a.mapInfo : \E id \in 0 .. Size(a) - 1 : Service(a, id) = a.mapInfo[y].addr
<1>1. /\ \A id \in 0 .. Size(a) - 1 : Numbered(a, id) \in DOMAIN a.mapInfo
      /\ \A i, j \in 0 .. Size(a) - 1 : Numbered(a, i) = Numbered(a, j) => i = j
      /\ \A y \in DOMAIN a.mapInfo : \E id \in 0 .. Size(a) - 1 : Numbered(a, id) = y
  BY NumbersEntries
<1>2. \A y \in DOMAIN a.mapInfo : Ip[a.mapInfo[y].addr] \in DOMAIN a.mapAddr /\ a.mapAddr[Ip[a.mapInfo[y].addr]] = y
  BY DEF Good, AddrOK
<1>3. \A y \in DOMAIN a.mapInfo : a.mapInfo[y].addr \in Addrs
  BY DEF Good, Shape, Info
<1> QED BY <1>1, <1>2, <1>3 DEF Service

LEMMA ReloadGives ==
  ASSUME NEW a, Good(a, 0, 0), NEW s, s = Unserialize(Serialize(a))
  PROVE  Reloaded(a, s)
<1>1. PICK D : D = 0 .. Size(a) - 1
  OBVIOUS
<1>2. PICK nb : nb = KeptBuckets(Serialize(a).vvNew)
  OBVIOUS
<1>3. PICK n \in Nat, t \in Nat, size \in Nat : n = a.nNew /\ t = a.nTried /\ size = n + t /\ size = Size(a)
  BY FileOf DEF Size
<1> DEFINE M == [id \in D |-> EntryOf(StoredEntry(a.mapInfo, Numbered(a, id)),
                                      Cardinality(BucketsOf(nb, id)), id >= a.nNew, id + 1)]
           R == [ip \in {Ip[Service(a, id)] : id \in D} |->
                   CHOOSE id \in D : /\ Ip[Service(a, id)] = ip
                                     /\ \A j \in id + 1 .. Size(a) - 1 : Ip[Service(a, j)] # ip]
           V == [i \in 1 .. Size(a) |-> i - 1]
           TB == [k \in TriedBuckets |->
                    InOrder({id \in a.nNew .. Size(a) - 1 : TriedBucket[Service(a, id)] = k})]
<1>4. PICK m : m = M
  OBVIOUS
<1>5. PICK r : r = R
  OBVIOUS
<1>6. PICK v : v = V
  OBVIOUS
<1>7. PICK tb : tb = TB
  OBVIOUS
<1>8. s = Object(m, r, v, a.nNew, a.nTried, Size(a), nb, tb)
  <2>1. Unserialize(Serialize(a)) = Object(M, R, V, a.nNew, a.nTried, Size(a), nb, TB)
    <3>1. Unserialize(Serialize(a)) = ReadBack(a, nb, D)
      BY <1>1, <1>2, ReloadIs
    <3> QED BY <3>1, Zenon DEF ReadBack
  <2> HIDE DEF M, R, V, TB
  <2> QED BY <1>4, <1>5, <1>6, <1>7, <2>1
<1>9. /\ s.mapInfo = m /\ s.mapAddr = r /\ s.vRandom = v /\ s.nNew = n /\ s.nTried = t
      /\ s.nIdCount = size /\ s.vvNew = nb /\ s.vvTried = tb
  BY <1>3, <1>8, FieldsOf
<1>10. ASSUME NEW id \in D
       PROVE  /\ m[id] \in Info
              /\ m[id].addr = Service(a, id)
              /\ m[id].source = a.mapInfo[Numbered(a, id)].source
              /\ m[id].nLastSuccess = a.mapInfo[Numbered(a, id)].nLastSuccess
              /\ m[id].nRefCount = a.mapInfo[Numbered(a, id)].nRefCount
              /\ m[id].fInTried = a.mapInfo[Numbered(a, id)].fInTried
              /\ m[id].nRandomPos = id + 1
  <2>1. PICK y : y = Numbered(a, id)
    OBVIOUS
  <2>2. PICK e : e = a.mapInfo[y]
    OBVIOUS
  <2>3. y \in DOMAIN a.mapInfo /\ e \in Info
    <3>1. y \in DOMAIN a.mapInfo
      BY <1>1, <2>1, NumbersEntries
    <3> QED BY <2>2, <3>1 DEF Good, Shape
  <2>4. (id >= a.nNew) = e.fInTried
    <3>1. e.fInTried \in BOOLEAN
      BY <2>3 DEF Info
    <3>2. id < n => y \in NewOf(a.mapInfo)
      BY <1>1, <1>3, <2>1, NumbersEntries
    <3>3. ~(id < n) => y \in TriedOf(a.mapInfo)
      BY <1>1, <1>3, <2>1, NumbersEntries
    <3>4. y \in TriedOf(a.mapInfo) <=> e.fInTried
      BY <2>2, <2>3 DEF TriedOf
    <3>5. id < n => ~e.fInTried
      BY <3>2, <3>4 DEF NewOf
    <3>6. (id >= n) <=> ~(id < n)
      BY <1>1, <1>3
    <3>7. (id >= a.nNew) <=> e.fInTried
      BY <1>3, <3>3, <3>4, <3>5, <3>6
    <3> QED BY <3>1, <3>7
  <2>5. Cardinality(BucketsOf(nb, id)) = e.nRefCount
    BY <1>1, <1>2, <2>1, <2>2, CountReload
  <2>6. m[id] = EntryOf(StoredEntry(a.mapInfo, y), e.nRefCount, e.fInTried, id + 1)
    BY <1>4, <2>1, <2>4, <2>5
  <2>7. m[id] = [addr |-> e.addr, source |-> e.source, nLastSuccess |-> e.nLastSuccess,
                 nRefCount |-> e.nRefCount, fInTried |-> e.fInTried, nRandomPos |-> id + 1]
    BY <2>2, <2>6 DEF EntryOf, StoredEntry
  <2>8. id + 1 \in Nat
    BY <1>1, <1>3
  <2>9. m[id] \in Info
    BY <2>3, <2>7, <2>8 DEF Info
  <2>10. e.addr = Service(a, id)
    BY <2>1, <2>2 DEF Service
  <2> QED BY <2>1, <2>2, <2>7, <2>9, <2>10
<1>11. DOMAIN m = D /\ m \in [D -> Info]
  <2>1. DOMAIN m = D /\ m = [id \in D |-> m[id]]
    BY <1>4
  <2> QED BY <1>10, <2>1
<1>12. /\ DOMAIN r = {Ip[Service(a, id)] : id \in D} /\ DOMAIN r \subseteq Ips
       /\ \A id \in D : r[Ip[Service(a, id)]] = id
       /\ r \in [DOMAIN r -> Nat]
  <2>1. \A id \in D : Ip[Service(a, id)] \in Ips
    BY <1>1, ServicesDiffer, AddrManAssumption
  <2>2. DOMAIN r = {Ip[Service(a, id)] : id \in D}
    BY <1>5
  <2>3. ASSUME NEW id \in D
        PROVE  r[Ip[Service(a, id)]] = id
    <3>1. PICK ip : ip = Ip[Service(a, id)]
      OBVIOUS
    <3>2. \A j \in D : Ip[Service(a, j)] = ip => j = id
      BY <1>1, <3>1, ServicesDiffer
    <3>3. \A j \in id + 1 .. Size(a) - 1 : j \in D /\ j # id
      BY <1>1, <1>3
    <3>4. \A j \in id + 1 .. Size(a) - 1 : Ip[Service(a, j)] # ip
      BY <3>2, <3>3
    <3>5. r[ip] = CHOOSE i \in D : /\ Ip[Service(a, i)] = ip
                                   /\ \A j \in i + 1 .. Size(a) - 1 : Ip[Service(a, j)] # ip
      BY <1>5, <3>1
    <3> DEFINE P(i) == Ip[Service(a, i)] = ip /\ \A j \in i + 1 .. Size(a) - 1 : Ip[Service(a, j)] # ip
    <3>6. P(id) /\ \A i \in D : P(i) => i = id
      BY <3>1, <3>2, <3>4
    <3>7. r[ip] = CHOOSE i \in D : P(i)
      BY <3>5
    <3> HIDE DEF P
    <3> QED BY <3>1, <3>6, <3>7
  <2>4. \A ip \in DOMAIN r : r[ip] \in Nat
    <3>1. \A id \in D : id \in Nat
      BY <1>1, <1>3
    <3> QED BY <2>2, <2>3, <3>1
  <2>5. r = [ip \in DOMAIN r |-> r[ip]]
    BY <1>5
  <2> QED BY <2>1, <2>2, <2>3, <2>4, <2>5
<1>13. v \in Seq(Nat)
  BY <1>3, <1>6
<1>14. nb \in [NewBuckets -> SUBSET Nat]
       /\ \A b \in NewBuckets : \A id : id \in nb[b] <=> id \in D /\ Numbered(a, id) \in a.vvNew[b]
  BY <1>1, <1>2, NewBucketsReload
<1>15. tb \in [TriedBuckets -> Seq(Nat)]
  <2>1. ASSUME NEW k \in TriedBuckets
        PROVE  tb[k] \in Seq(Nat)
    <3>1. PICK S : S = {id \in a.nNew .. Size(a) - 1 : TriedBucket[Service(a, id)] = k}
      OBVIOUS
    <3>2. S \in SUBSET (n .. size - 1) /\ S \in SUBSET Nat
      BY <1>3, <3>1
    <3>3. IsFiniteSet(S)
      <4>1. n \in Int /\ size - 1 \in Int
        BY <1>3
      <4>2. IsFiniteSet(n .. size - 1)
        BY <4>1, FS_Interval
      <4> QED BY <3>2, <4>2, FS_Subset
    <3> QED BY <1>7, <3>1, <3>2, <3>3, InOrderLists
  <2> QED BY <1>7, <2>1
<1>16. Shape(s)
  <2>1. DOMAIN m \subseteq 0 .. size - 1
    BY <1>1, <1>3, <1>11
  <2>2. m \in [DOMAIN m -> Info]
    BY <1>11
  <2>3. s = Object(m, r, v, n, t, size, nb, tb) /\ n \in Int /\ t \in Int
    BY <1>3, <1>8
  <2> HIDE DEF M, R, V, TB
  <2>4. Shape(Object(m, r, v, n, t, size, nb, tb))
    BY <1>3, <1>12, <1>13, <1>14, <1>15, <2>1, <2>2, <2>3, ShapeOf
  <2> QED BY <2>3, <2>4
<1>17. \A k \in TriedBuckets :
         tb[k] = InOrder({id \in a.nNew .. Size(a) - 1 : TriedBucket[Service(a, id)] = k})
  BY <1>7
<1> QED BY <1>1, <1>3, <1>6, <1>9, <1>10, <1>11, <1>12, <1>14, <1>16, <1>17, Zenon DEF Reloaded

\* Numbers below nNew are new entries, the others tried ones.
LEMMA ReloadTables ==
  ASSUME NEW a, Good(a, 0, 0), NEW s, Reloaded(a, s)
  PROVE  /\ NewOf(s.mapInfo) = 0 .. a.nNew - 1 /\ TriedOf(s.mapInfo) = a.nNew .. Size(a) - 1
         /\ \A id \in 0 .. Size(a) - 1 :
              /\ id \in NewOf(s.mapInfo) <=> Numbered(a, id) \in NewOf(a.mapInfo)
              /\ id \in TriedOf(s.mapInfo) <=> Numbered(a, id) \in TriedOf(a.mapInfo)
<1>1. PICK n \in Nat, t \in Nat, size \in Nat : n = a.nNew /\ t = a.nTried /\ size = n + t /\ size = Size(a)
  BY FileOf DEF Size
<1>2. /\ DOMAIN s.mapInfo = 0 .. size - 1
      /\ \A id \in 0 .. size - 1 : s.mapInfo[id].fInTried = a.mapInfo[Numbered(a, id)].fInTried
  BY <1>1 DEF Reloaded
<1>3. \A id \in 0 .. size - 1 :
        /\ Numbered(a, id) \in DOMAIN a.mapInfo
        /\ id < n => Numbered(a, id) \in NewOf(a.mapInfo)
        /\ ~(id < n) => Numbered(a, id) \in TriedOf(a.mapInfo)
  BY <1>1, NumbersEntries
<1>4. \A id \in 0 .. size - 1 : id \in TriedOf(s.mapInfo) <=> Numbered(a, id) \in TriedOf(a.mapInfo)
  BY <1>2, <1>3 DEF TriedOf
<1>5. \A id \in 0 .. size - 1 : id \in NewOf(s.mapInfo) <=> Numbered(a, id) \in NewOf(a.mapInfo)
  BY <1>2, <1>3, <1>4 DEF NewOf
<1>6. \A id \in 0 .. size - 1 : id < n <=> Numbered(a, id) \in NewOf(a.mapInfo)
  BY <1>3 DEF NewOf
<1>7. NewOf(s.mapInfo) \subseteq 0 .. size - 1 /\ TriedOf(s.mapInfo) = (0 .. size - 1) \ NewOf(s.mapInfo)
  BY <1>2 DEF NewOf, TriedOf
<1>8. NewOf(s.mapInfo) = 0 .. n - 1
  <2>1. \A id \in 0 .. size - 1 : id \in NewOf(s.mapInfo) <=> id < n
    BY <1>5, <1>6
  <2>2. \A id \in 0 .. n - 1 : id \in 0 .. size - 1 /\ id < n
    BY <1>1
  <2>3. \A id \in 0 .. size - 1 : id < n => id \in 0 .. n - 1
    OBVIOUS
  <2> QED BY <1>7, <2>1, <2>2, <2>3
<1>9. TriedOf(s.mapInfo) = n .. size - 1
  <2>1. (0 .. size - 1) \ (0 .. n - 1) = n .. size - 1
    BY <1>1
  <2> QED BY <1>7, <1>8, <2>1
<1> QED BY <1>1, <1>4, <1>5, <1>8, <1>9

LEMMA ReloadTriedOK ==
  ASSUME NEW a, Good(a, 0, 0), NEW s, Reloaded(a, s)
  PROVE  /\ TriedOK(s.mapInfo, s.vvTried)
         /\ \A k \in TriedBuckets : \A x :
              x \in {s.vvTried[k][p] : p \in 1 .. Len(s.vvTried[k])}
                <=> x \in TriedOf(s.mapInfo) /\ TriedBucket[s.mapInfo[x].addr] = k
<1>1. PICK n \in Nat, t \in Nat, size \in Nat : n = a.nNew /\ t = a.nTried /\ size = n + t /\ size = Size(a)
  BY FileOf DEF Size
<1>2. TriedOf(s.mapInfo) = n .. size - 1
  BY <1>1, ReloadTables
<1>3. \A id \in TriedOf(s.mapInfo) :
        /\ id \in 0 .. size - 1
        /\ Numbered(a, id) \in TriedOf(a.mapInfo)
        /\ s.mapInfo[id].addr = Service(a, id) /\ Service(a, id) \in Addrs
        /\ s.mapInfo[id].nRefCount = a.mapInfo[Numbered(a, id)].nRefCount
        /\ s.mapInfo[id].nLastSuccess = a.mapInfo[Numbered(a, id)].nLastSuccess
  <2>1. \A id \in TriedOf(s.mapInfo) : id \in 0 .. size - 1
    BY <1>1, <1>2
  <2>2. \A id \in TriedOf(s.mapInfo) : Numbered(a, id) \in TriedOf(a.mapInfo)
    BY <1>1, <2>1, ReloadTables
  <2>3. \A id \in 0 .. size - 1 : Service(a, id) \in Addrs
    BY <1>1, ServicesDiffer
  <2> QED BY <1>1, <2>1, <2>2, <2>3 DEF Reloaded
<1> DEFINE Own(k) == {id \in n .. size - 1 : TriedBucket[Service(a, id)] = k}
<1>4. ASSUME NEW k \in TriedBuckets
      PROVE  /\ Own(k) \in SUBSET Nat /\ IsFiniteSet(Own(k))
             /\ Cardinality(Own(k)) <= ADDRMAN_TRIED_BUCKET_SIZE
             /\ s.vvTried[k] = InOrder(Own(k))
             /\ \A x : x \in Own(k) <=> x \in TriedOf(s.mapInfo) /\ TriedBucket[s.mapInfo[x].addr] = k
  <2>0. PICK S : S = Own(k)
    OBVIOUS
  <2>1. \A x : x \in S <=> x \in TriedOf(s.mapInfo) /\ TriedBucket[s.mapInfo[x].addr] = k
    BY <1>2, <1>3, <2>0
  <2>2. S \in SUBSET Nat
    BY <1>1, <2>0
  <2>3. PICK y : y = [id \in S |-> Numbered(a, id)]
    OBVIOUS
  <2>4. \A id \in S : /\ id \in 0 .. size - 1 /\ y[id] = Numbered(a, id)
                      /\ Numbered(a, id) \in TriedOf(a.mapInfo)
                      /\ TriedBucket[a.mapInfo[Numbered(a, id)].addr] = k
    BY <1>3, <2>0, <2>1, <2>3 DEF Service
  <2>5. \A i, j \in 0 .. size - 1 : Numbered(a, i) = Numbered(a, j) => i = j
    BY <1>1, NumbersEntries
  <2>6. Numbers(a.mapInfo, k, S, y)
    BY <2>4, <2>5 DEF Numbers
  <2>7. a.vvTried \in [TriedBuckets -> Seq(Nat)] /\ TriedOK(a.mapInfo, a.vvTried)
    BY DEF Good, Shape
  <2>8. IsFiniteSet(S) /\ Cardinality(S) <= ADDRMAN_TRIED_BUCKET_SIZE
    BY <2>6, <2>7, TriedFits
  <2>9. s.vvTried[k] = InOrder(S)
    <3>1. s.vvTried[k] = InOrder(Own(k))
      BY <1>1 DEF Reloaded
    <3> HIDE DEF Own
    <3> QED BY <2>0, <3>1
  <2> HIDE DEF Own
  <2> QED BY <2>0, <2>1, <2>2, <2>8, <2>9
<1> HIDE DEF Own
<1>5. ASSUME NEW k \in TriedBuckets
      PROVE  /\ Len(s.vvTried[k]) <= ADDRMAN_TRIED_BUCKET_SIZE
             /\ \A p \in 1 .. Len(s.vvTried[k]) :
                  /\ s.vvTried[k][p] \in TriedOf(s.mapInfo)
                  /\ TriedBucket[s.mapInfo[s.vvTried[k][p]].addr] = k
             /\ \A p, q \in 1 .. Len(s.vvTried[k]) : s.vvTried[k][p] = s.vvTried[k][q] => p = q
             /\ \A x : x \in TriedOf(s.mapInfo) /\ TriedBucket[s.mapInfo[x].addr] = k
                       => \E p \in 1 .. Len(s.vvTried[k]) : s.vvTried[k][p] = x
  <2>1. PICK S : S = Own(k)
    OBVIOUS
  <2>2. /\ S \in SUBSET Nat /\ IsFiniteSet(S) /\ Cardinality(S) <= ADDRMAN_TRIED_BUCKET_SIZE
        /\ s.vvTried[k] = InOrder(S)
        /\ \A x : x \in S <=> x \in TriedOf(s.mapInfo) /\ TriedBucket[s.mapInfo[x].addr] = k
    BY <1>4, <2>1
  <2>3. PICK w : w = InOrder(S)
    OBVIOUS
  <2>4. PICK c \in Nat : c = Cardinality(S)
    BY <2>2, FS_CardinalityType
  <2>5. /\ Len(w) = c
        /\ \A x \in S : Rank(S, x) \in 0 .. c - 1 /\ w[Rank(S, x) + 1] = x
        /\ \A i \in 1 .. c : w[i] \in S /\ Rank(S, w[i]) = i - 1
    BY <2>2, <2>3, <2>4, InOrderLists
  <2>6. \A p, q \in 1 .. c : w[p] = w[q] => p = q
    BY <2>5
  <2>7. \A x \in S : \E p \in 1 .. c : w[p] = x
    <3> TAKE x \in S
    <3>1. Rank(S, x) + 1 \in 1 .. c
      BY <2>5
    <3> QED BY <2>5, <3>1
  <2>8. s.vvTried[k] = w
    BY <2>2, <2>3
  <2>9. Len(s.vvTried[k]) = c /\ c <= ADDRMAN_TRIED_BUCKET_SIZE
    BY <2>2, <2>4, <2>5, <2>8
  <2>10. \A p \in 1 .. c : w[p] \in TriedOf(s.mapInfo) /\ TriedBucket[s.mapInfo[w[p]].addr] = k
    BY <2>2, <2>5
  <2>11. \A x : x \in TriedOf(s.mapInfo) /\ TriedBucket[s.mapInfo[x].addr] = k => \E p \in 1 .. c : w[p] = x
    BY <2>2, <2>7
  <2> QED BY <2>6, <2>8, <2>9, <2>10, <2>11
<1>6. \A id \in TriedOf(a.mapInfo) : a.mapInfo[id].nRefCount = 0 /\ a.mapInfo[id].nLastSuccess # 0
  BY DEF Good, TriedOK
<1>7. \A addr \in Addrs : TriedBucket[addr] \in TriedBuckets
  BY AddrManAssumption
<1>8. ASSUME NEW id \in TriedOf(s.mapInfo), NEW k, k = TriedBucket[s.mapInfo[id].addr]
      PROVE  /\ \E p \in 1 .. Len(s.vvTried[k]) : s.vvTried[k][p] = id
             /\ s.mapInfo[id].nRefCount = 0 /\ s.mapInfo[id].nLastSuccess # 0
  <2>1. k \in TriedBuckets
    BY <1>3, <1>7, <1>8
  <2>2. \E p \in 1 .. Len(s.vvTried[k]) : s.vvTried[k][p] = id
    BY <1>5, <1>8, <2>1
  <2>3. s.mapInfo[id].nRefCount = 0 /\ s.mapInfo[id].nLastSuccess # 0
    BY <1>3, <1>6
  <2> QED BY <2>2, <2>3
<1>9. TriedOK(s.mapInfo, s.vvTried)
  <2>1. \A k \in TriedBuckets :
          /\ Len(s.vvTried[k]) <= ADDRMAN_TRIED_BUCKET_SIZE
          /\ \A p \in 1 .. Len(s.vvTried[k]) :
               s.vvTried[k][p] \in TriedOf(s.mapInfo) /\ TriedBucket[s.mapInfo[s.vvTried[k][p]].addr] = k
          /\ \A p, q \in 1 .. Len(s.vvTried[k]) : s.vvTried[k][p] = s.vvTried[k][q] => p = q
    BY <1>5
  <2> QED BY <1>8, <2>1, Zenon DEF TriedOK
<1> QED BY <1>5, <1>9

LEMMA ReloadNewOK ==
  ASSUME NEW a, Good(a, 0, 0), NEW s, Reloaded(a, s)
  PROVE  NewOK(s.mapInfo, s.vvNew, 0, 0)
<1>1. PICK D : D = 0 .. Size(a) - 1
  OBVIOUS
<1>2. PICK nb : nb = s.vvNew
  OBVIOUS
<1>3. /\ DOMAIN s.mapInfo = D
      /\ \A id \in D : s.mapInfo[id].nRefCount = a.mapInfo[Numbered(a, id)].nRefCount
      /\ \A b \in NewBuckets : \A id : id \in nb[b] <=> id \in D /\ Numbered(a, id) \in a.vvNew[b]
  BY <1>1, <1>2 DEF Reloaded
<1>4. \A b \in NewBuckets : /\ a.vvNew[b] \subseteq NewOf(a.mapInfo)
                            /\ Cardinality(a.vvNew[b]) <= ADDRMAN_NEW_BUCKET_SIZE
  BY DEF Good, NewOK
<1>5. \A id \in D : id \in NewOf(s.mapInfo) <=> Numbered(a, id) \in NewOf(a.mapInfo)
  BY <1>1, ReloadTables
<1>6. ASSUME NEW b \in NewBuckets
      PROVE  nb[b] \subseteq NewOf(s.mapInfo) /\ Cardinality(nb[b]) <= ADDRMAN_NEW_BUCKET_SIZE
  <2>1. PICK S, B : S = nb[b] /\ B = a.vvNew[b]
    OBVIOUS
  <2>2. IsFiniteSet(B) /\ Cardinality(B) \in Nat
    <3>1. DOMAIN a.mapInfo \subseteq 0 .. a.nIdCount - 1 /\ a.nIdCount \in Nat
      BY DEF Good, Shape
    <3>2. B \subseteq DOMAIN a.mapInfo
      BY <1>4, <2>1 DEF NewOf
    <3> QED BY <3>1, <3>2, EntriesFinite
  <2> DEFINE g == [id \in S |-> Numbered(a, id)]
  <2>3. g \in Injection(S, B)
    <3>1. \A id \in S : id \in D /\ Numbered(a, id) \in B
      BY <1>3, <2>1
    <3>2. \A i, j \in S : Numbered(a, i) = Numbered(a, j) => i = j
      BY <1>1, <3>1, NumbersEntries
    <3>3. g \in [S -> B]
      BY <3>1
    <3>4. \A i, j \in S : g[i] = g[j] => i = j
      BY <3>2
    <3> HIDE DEF g
    <3> QED BY <3>3, <3>4 DEF Injection, IsInjective
  <2>4. IsFiniteSet(S) /\ Cardinality(S) <= Cardinality(B)
    <3> HIDE DEF g
    <3> QED BY <2>2, <2>3, FS_Injection
  <2>5. Cardinality(S) \in Nat /\ ADDRMAN_NEW_BUCKET_SIZE \in Nat
    BY <2>4, FS_CardinalityType, AddrManAssumption
  <2>6. Cardinality(B) <= ADDRMAN_NEW_BUCKET_SIZE
    BY <1>4, <2>1
  <2>7. S \subseteq NewOf(s.mapInfo)
    BY <1>3, <1>4, <1>5, <2>1
  <2> QED BY <2>1, <2>2, <2>4, <2>5, <2>6, <2>7
<1>7. ASSUME NEW id \in NewOf(s.mapInfo)
      PROVE  /\ s.mapInfo[id].nRefCount = Cardinality(BucketsOf(nb, id)) + (IF id = 0 THEN 0 ELSE 0)
             /\ s.mapInfo[id].nRefCount \in 1 .. ADDRMAN_NEW_BUCKETS_PER_ADDRESS
  <2>1. id \in D
    BY <1>3 DEF NewOf
  <2>2. PICK y : y = Numbered(a, id)
    OBVIOUS
  <2>3. BucketsOf(nb, id) = BucketsOf(a.vvNew, y)
    BY <1>3, <2>1, <2>2 DEF BucketsOf
  <2>4. y \in NewOf(a.mapInfo)
    BY <1>5, <2>1, <2>2
  <2>5. /\ a.mapInfo[y].nRefCount = Cardinality(BucketsOf(a.vvNew, y)) + (IF y = 0 THEN 0 ELSE 0)
        /\ a.mapInfo[y].nRefCount \in 1 .. ADDRMAN_NEW_BUCKETS_PER_ADDRESS
    BY <2>4 DEF Good, NewOK
  <2>6. s.mapInfo[id].nRefCount = a.mapInfo[y].nRefCount
    BY <1>3, <2>1, <2>2
  <2>7. Cardinality(BucketsOf(a.vvNew, y)) \in Nat
    BY BucketsFinite
  <2> QED BY <2>3, <2>5, <2>6, <2>7
<1> QED BY <1>2, <1>6, <1>7 DEF NewOK

LEMMA ReloadKeeps ==
  ASSUME NEW a, Good(a, 0, 0), NEW s, Reloaded(a, s)
  PROVE  Good(s, 0, 0) /\ s.nIdCount <= a.nIdCount /\ TriedKept(a, s)
<1>1. PICK n \in Nat, t \in Nat, size \in Nat : n = a.nNew /\ t = a.nTried /\ size = n + t /\ size = Size(a)
  BY FileOf DEF Size
<1>2. PICK m : m = s.mapInfo
  OBVIOUS
<1>3. /\ DOMAIN m = 0 .. size - 1
      /\ \A id \in 0 .. size - 1 : m[id].addr = Service(a, id) /\ m[id].nRandomPos = id + 1
      /\ DOMAIN s.mapAddr = {Ip[Service(a, id)] : id \in 0 .. size - 1}
      /\ \A id \in 0 .. size - 1 : s.mapAddr[Ip[Service(a, id)]] = id
      /\ s.vRandom = [i \in 1 .. size |-> i - 1]
      /\ s.nNew = n /\ s.nTried = t /\ s.nIdCount = size
  BY <1>1, <1>2 DEF Reloaded
<1>4. RandomOK(m, s.vRandom)
  <2>1. Len(s.vRandom) = size /\ \A p \in 1 .. size : s.vRandom[p] = p - 1
    BY <1>3
  <2>2. \A id \in 0 .. size - 1 : id + 1 \in 1 .. size /\ (id + 1) - 1 = id
    BY <1>1
  <2>3. \A p \in 1 .. size : p - 1 \in 0 .. size - 1 /\ (p - 1) + 1 = p
    BY <1>1
  <2>4. \A id \in DOMAIN m : m[id].nRandomPos \in 1 .. size /\ s.vRandom[m[id].nRandomPos] = id
    BY <1>3, <2>1, <2>2
  <2>5. \A p \in 1 .. size : s.vRandom[p] \in DOMAIN m /\ m[s.vRandom[p]].nRandomPos = p
    BY <1>3, <2>1, <2>3
  <2> QED BY <2>1, <2>4, <2>5 DEF RandomOK
<1>5. AddrOK(m, s.mapAddr)
  BY <1>3 DEF AddrOK
<1>6. CountOK(m, s.vRandom, n, t)
  <2>1. NewOf(m) = 0 .. n - 1 /\ TriedOf(m) = n .. size - 1
    BY <1>1, <1>2, ReloadTables
  <2>2. Cardinality(0 .. n - 1) = n
    BY FS_Interval
  <2>3. Cardinality(n .. size - 1) = t
    <3>1. n \in Int /\ size - 1 \in Int
      BY <1>1
    <3>2. Cardinality(n .. size - 1) = IF n > size - 1 THEN 0 ELSE (size - 1) - n + 1
      BY <3>1, FS_Interval
    <3> QED BY <1>1, <3>2
  <2>4. Len(s.vRandom) = n + t
    BY <1>1, <1>3
  <2> QED BY <2>1, <2>2, <2>3, <2>4 DEF CountOK
<1>7. Good(s, 0, 0)
  <2>1. TriedOK(s.mapInfo, s.vvTried)
    BY ReloadTriedOK
  <2>2. NewOK(s.mapInfo, s.vvNew, 0, 0)
    BY ReloadNewOK
  <2>3. Shape(s)
    BY DEF Reloaded
  <2>4. CountOK(s.mapInfo, s.vRandom, s.nNew, s.nTried)
    BY <1>2, <1>3, <1>6
  <2> QED BY <1>2, <1>4, <1>5, <2>1, <2>2, <2>3, <2>4 DEF Good
<1>8. s.nIdCount <= a.nIdCount
  <2>1. DOMAIN a.mapInfo \subseteq 0 .. a.nIdCount - 1 /\ a.nIdCount \in Nat
    BY DEF Good, Shape
  <2>2. /\ Cardinality(DOMAIN a.mapInfo) <= a.nIdCount
        /\ Cardinality(DOMAIN a.mapInfo) = Cardinality(NewOf(a.mapInfo)) + Cardinality(TriedOf(a.mapInfo))
    BY <2>1, EntriesFinite
  <2>3. n = Cardinality(NewOf(a.mapInfo)) /\ t = Cardinality(TriedOf(a.mapInfo))
    BY <1>1 DEF Good, CountOK
  <2> QED BY <1>1, <1>3, <2>2, <2>3
<1>9. TriedKept(a, s)
  <2>1. \A y \in TriedOf(a.mapInfo) : y \in DOMAIN a.mapInfo
    BY DEF TriedOf
  <2>2. \A y \in TriedOf(a.mapInfo) : \E id \in 0 .. size - 1 : Service(a, id) = a.mapInfo[y].addr
    BY <1>1, <2>1, ServicesDiffer
  <2> QED BY <1>3, <2>2 DEF TriedKept
<1> QED BY <1>7, <1>8, <1>9

-----------------------------------------------------------------------------
(***************************************************************************)
(* The specification.                                                      *)
(***************************************************************************)
AddrInv == Good(am, 0, 0) /\ am.nIdCount <= MaxIds

LEMMA InitGood == Init => AddrInv
<1> SUFFICES ASSUME Init PROVE AddrInv
  OBVIOUS
<1>1. PICK nb : nb = [b \in NewBuckets |-> {}]
  OBVIOUS
<1>2. PICK tb : tb = [k \in TriedBuckets |-> <<>>]
  OBVIOUS
<1>3. PICK e : e = <<>>
  OBVIOUS
<1>4. DOMAIN e = {} /\ e \in [{} -> Info] /\ e \in [{} -> Nat] /\ e \in Seq(Nat) /\ Len(e) = 0
  BY <1>3
<1>5. am = Object(e, e, e, 0, 0, 0, nb, tb)
  BY <1>1, <1>2, <1>3 DEF Init, Empty, Object
<1>6. Shape(am)
  <2>1. nb \in [NewBuckets -> SUBSET Nat] /\ tb \in [TriedBuckets -> Seq(Nat)]
    BY <1>1, <1>2
  <2>2. PICK z \in Nat : z = 0
    OBVIOUS
  <2>3. /\ DOMAIN e \subseteq 0 .. z - 1 /\ DOMAIN e \subseteq Ips /\ e \in Seq(Nat)
        /\ e \in [DOMAIN e -> Info] /\ e \in [DOMAIN e -> Nat]
    BY <1>4
  <2>4. z \in Int
    OBVIOUS
  <2>5. Shape(Object(e, e, e, z, z, z, nb, tb))
    BY <2>1, <2>2, <2>3, <2>4, ShapeOf
  <2> QED BY <1>5, <2>2, <2>5
<1>7. /\ am.mapInfo = e /\ am.mapAddr = e /\ am.vRandom = e /\ am.nNew = 0 /\ am.nTried = 0
      /\ am.nIdCount = 0 /\ am.vvNew = nb /\ am.vvTried = tb
  BY <1>5, FieldsOf
<1>8. NewOf(e) = {} /\ TriedOf(e) = {}
  BY <1>4 DEF NewOf, TriedOf
<1>9. RandomOK(e, e) /\ AddrOK(e, e)
  BY <1>4 DEF RandomOK, AddrOK
<1>10. TriedOK(e, tb)
  <2>1. \A k \in TriedBuckets : Len(tb[k]) = 0
    BY <1>2
  <2>2. ADDRMAN_TRIED_BUCKET_SIZE \in Nat
    BY AddrManAssumption
  <2> QED BY <1>8, <2>1, <2>2 DEF TriedOK
<1>11. NewOK(e, nb, 0, 0)
  <2>1. \A b \in NewBuckets : nb[b] = {} /\ Cardinality(nb[b]) = 0
    BY <1>1, FS_EmptySet
  <2>2. ADDRMAN_NEW_BUCKET_SIZE \in Nat
    BY AddrManAssumption
  <2> QED BY <1>8, <2>1, <2>2 DEF NewOK
<1>12. CountOK(e, e, 0, 0)
  BY <1>4, <1>8, FS_EmptySet DEF CountOK
<1>13. MaxIds \in Nat
  BY AddrManAssumption
<1> QED BY <1>6, <1>7, <1>9, <1>10, <1>11, <1>12, <1>13 DEF Good, AddrInv

LEMMA StepGood == AddrInv /\ Next => AddrInv' /\ TriedKept(am, am')
<1> SUFFICES ASSUME AddrInv, Next
             PROVE  AddrInv' /\ TriedKept(am, am')
  OBVIOUS
<1>1. SUFFICES Good(am', 0, 0) /\ am'.nIdCount <= MaxIds /\ TriedKept(am, am')
  BY DEF AddrInv
<1>2. Good(am, 0, 0) /\ am.nIdCount <= MaxIds
  BY DEF AddrInv
<1>3. ASSUME NEW addr \in Addrs, NEW src \in Sources, Add_(addr, src)
      PROVE  Good(am', 0, 0) /\ am'.nIdCount <= MaxIds /\ TriedKept(am, am')
  BY <1>2, <1>3, AddKeeps
<1>4. ASSUME NEW addr \in Addrs, NEW time \in Times, Good_(addr, time)
      PROVE  Good(am', 0, 0) /\ am'.nIdCount <= MaxIds /\ TriedKept(am, am')
  BY <1>2, <1>4, GoodKeeps
<1>5. CASE GetAddr_
  BY <1>2, <1>5, GetAddrKeeps
<1>6. CASE Restart
  <2>1. PICK a, s : a = am /\ s = am'
    OBVIOUS
  <2>2. s = Unserialize(Serialize(a)) /\ Good(a, 0, 0)
    BY <1>2, <1>6, <2>1 DEF Restart
  <2>3. Reloaded(a, s)
    BY <2>2, ReloadGives
  <2>4. Good(s, 0, 0) /\ s.nIdCount <= a.nIdCount /\ TriedKept(a, s)
    BY <2>2, <2>3, ReloadKeeps
  <2>5. a.nIdCount \in Nat /\ s.nIdCount \in Nat /\ MaxIds \in Nat
    BY <2>2, <2>4, AddrManAssumption DEF Good, Shape
  <2> QED BY <1>2, <2>1, <2>4, <2>5
<1> QED BY <1>3, <1>4, <1>5, <1>6 DEF Next

(***************************************************************************)
(* What Check_ says of the object, together with the sizes of the buckets, *)
(* holds after any sequence of operations and restarts.                    *)
(***************************************************************************)
THEOREM AddrInvariant == Spec => []AddrInv
<1>1. AddrInv /\ [Next]_am => AddrInv'
  <2> SUFFICES ASSUME AddrInv, [Next]_am PROVE AddrInv'
    OBVIOUS
  <2>1. CASE Next
    BY <2>1, StepGood
  <2>2. CASE UNCHANGED am
    BY <2>2 DEF AddrInv
  <2> QED BY <2>1, <2>2
<1> QED BY <1>1, InitGood, PTL DEF Spec

(***************************************************************************)
(* No addition, promotion, eviction or shuffle removes an address that is  *)
(* in a tried bucket (addrman.h: "never deleted while in the tried table") *)
(* and neither does a clean stop and start, which dumps the table and      *)
(* reads it back.  Nothing is said of a start from an older dump.          *)
(***************************************************************************)
THEOREM TriedIsNeverDeleted == Spec => TriedNeverDeleted
<1>1. AddrInv /\ [Next]_am
        => [\A id \in TriedIds(am) : Ip[am.mapInfo[id].addr] \in DOMAIN am'.mapAddr]_am
  <2> SUFFICES ASSUME AddrInv, Next
               PROVE  \A id \in TriedIds(am) : Ip[am.mapInfo[id].addr] \in DOMAIN am'.mapAddr
    OBVIOUS
  <2>1. TriedKept(am, am')
    BY StepGood
  <2> QED BY <2>1 DEF TriedKept, TriedIds, TriedOf
<1> QED BY <1>1, AddrInvariant, PTL DEF Spec, TriedNeverDeleted

(***************************************************************************)
(* The new bucket and the tried bucket that Add_, Good_ and an eviction    *)
(* put an entry into never outgrow their sizes.                            *)
(***************************************************************************)
THEOREM BucketsStayBounded == Spec => []BucketsBounded
<1>1. AddrInv => BucketsBounded
  BY DEF AddrInv, Good, NewOK, TriedOK, BucketsBounded
<1> QED BY <1>1, AddrInvariant, PTL

(***************************************************************************)
(* The loops of Select_ find an entry in the table they draw from.         *)
(***************************************************************************)
THEOREM SelectAlwaysFinds == Spec => []SelectFindsOne
<1>1. AddrInv => SelectFindsOne
  <2> SUFFICES ASSUME AddrInv PROVE SelectFindsOne
    OBVIOUS
  <2>1. PICK m : m = am.mapInfo
    OBVIOUS
  <2>2. PICK n, t : n = am.nNew /\ t = am.nTried
    OBVIOUS
  <2>3. /\ n = Cardinality(NewOf(m)) /\ t = Cardinality(TriedOf(m)) /\ Len(am.vRandom) = n + t
        /\ DOMAIN m \subseteq 0 .. am.nIdCount - 1 /\ am.nIdCount \in Nat
        /\ TriedOK(m, am.vvTried) /\ NewOK(m, am.vvNew, 0, 0)
    BY <2>1, <2>2 DEF AddrInv, Good, CountOK, Shape
  <2>4. n \in Nat /\ t \in Nat
    BY <2>3, EntriesFinite DEF NewOf, TriedOf
  <2>5. ASSUME t > 0
        PROVE  \E k \in TriedBuckets : am.vvTried[k] # <<>>
    <3>0. TriedOf(m) # {}
      <4> SUFFICES ASSUME TriedOf(m) = {} PROVE FALSE
        OBVIOUS
      <4>1. t = Cardinality({})
        BY <2>3
      <4> QED BY <2>5, <4>1, FS_EmptySet
    <3>1. PICK id \in TriedOf(m) : TRUE
      BY <3>0
    <3>2. m[id].addr \in Addrs
      BY <2>1 DEF AddrInv, Good, Shape, Info, TriedOf
    <3>3. PICK k \in TriedBuckets : k = TriedBucket[m[id].addr]
      BY <3>2, AddrManAssumption
    <3>4. \E p \in 1 .. Len(am.vvTried[k]) : am.vvTried[k][p] = id
      BY <2>3, <3>3 DEF TriedOK
    <3> QED BY <3>4
  <2>6. ASSUME n > 0
        PROVE  \E b \in NewBuckets : am.vvNew[b] # {}
    <3>0. NewOf(m) # {}
      <4> SUFFICES ASSUME NewOf(m) = {} PROVE FALSE
        OBVIOUS
      <4>1. n = Cardinality({})
        BY <2>3
      <4> QED BY <2>6, <4>1, FS_EmptySet
    <3>1. PICK id \in NewOf(m) : TRUE
      BY <3>0
    <3>2. /\ m[id].nRefCount = Cardinality(BucketsOf(am.vvNew, id)) + (IF id = 0 THEN 0 ELSE 0)
          /\ m[id].nRefCount \in 1 .. ADDRMAN_NEW_BUCKETS_PER_ADDRESS
      BY <2>3 DEF NewOK
    <3>3. Cardinality(BucketsOf(am.vvNew, id)) # 0
      BY <3>2, BucketsFinite
    <3>4. PICK b : b \in BucketsOf(am.vvNew, id)
      BY <3>3, FS_EmptySet
    <3> QED BY <3>4 DEF BucketsOf
  <2>7. Len(am.vRandom) > 0 /\ (t = 0 \/ n > 0) => n > 0
    BY <2>3, <2>4
  <2> QED BY <2>2, <2>5, <2>6, <2>7 DEF SelectFindsOne
<1> QED BY <1>1, AddrInvariant, PTL

(***************************************************************************)
(* The counters, mapAddr, vRandom, the buckets and the reference counts    *)
(* never disagree: Check_ would return 0 in every state.                   *)
(***************************************************************************)
THEOREM CheckAlwaysPasses == Spec => []CheckPasses
<1>1. AddrInv => CheckPasses
  <2> SUFFICES ASSUME AddrInv PROVE CheckPasses
    OBVIOUS
  <2>1. PICK m, tb : m = am.mapInfo /\ tb = am.vvTried
    OBVIOUS
  <2>2. TriedIds(am) = TriedOf(m) /\ DOMAIN m \ TriedIds(am) = NewOf(m)
    BY <2>1 DEF TriedIds, TriedOf, NewOf
  <2>3. CountersExact
    <3>1. am.nNew \in Int /\ am.nTried \in Int
      BY DEF AddrInv, Good, Shape
    <3>2. am.nNew = Cardinality(NewOf(m)) /\ am.nTried = Cardinality(TriedOf(m))
          /\ Len(am.vRandom) = am.nNew + am.nTried
      BY <2>1 DEF AddrInv, Good, CountOK
    <3>3. Len(am.vRandom) = am.nTried + am.nNew
      BY <3>1, <3>2
    <3> QED BY <2>1, <2>2, <3>2, <3>3, Zenon DEF CountersExact
  <2>4. IndexesAgree
    <3>1. AddrOK(m, am.mapAddr) /\ RandomOK(m, am.vRandom) /\ am.vRandom \in Seq(Nat)
      BY <2>1 DEF AddrInv, Good, Shape
    <3>2. {Ip[m[id].addr] : id \in DOMAIN m} = DOMAIN am.mapAddr
      BY <3>1 DEF AddrOK
    <3>3. DOMAIN am.vRandom = 1 .. Len(am.vRandom)
      BY <3>1
    <3> QED BY <2>1, <3>1, <3>2, <3>3 DEF AddrOK, RandomOK, IndexesAgree
  <2>5. TriedOK(m, tb) /\ tb \in [TriedBuckets -> Seq(Nat)]
    BY <2>1 DEF AddrInv, Good, Shape
  <2>6. \A k \in TriedBuckets : DOMAIN tb[k] = 1 .. Len(tb[k])
    BY <2>5
  <2>7. ASSUME NEW id \in TriedOf(m)
        PROVE  /\ Cardinality({at \in TriedBuckets \X (1 .. ADDRMAN_TRIED_BUCKET_SIZE) :
                                 at[2] \in DOMAIN tb[at[1]] /\ tb[at[1]][at[2]] = id}) = 1
               /\ m[id].nRefCount = 0 /\ m[id].nLastSuccess # 0
    <3>1. m[id].addr \in Addrs
      BY <2>1 DEF AddrInv, Good, Shape, Info, TriedOf
    <3>2. PICK k \in TriedBuckets : k = TriedBucket[m[id].addr]
      BY <3>1, AddrManAssumption
    <3>3. PICK p \in 1 .. Len(tb[k]) : tb[k][p] = id
      BY <2>5, <3>2 DEF TriedOK
    <3>4. ADDRMAN_TRIED_BUCKET_SIZE \in Nat /\ Len(tb[k]) <= ADDRMAN_TRIED_BUCKET_SIZE /\ Len(tb[k]) \in Nat
      BY <2>5, AddrManAssumption DEF TriedOK
    <3>5. p \in 1 .. ADDRMAN_TRIED_BUCKET_SIZE
      BY <3>4
    <3>6. ASSUME NEW c \in TriedBuckets, NEW q \in 1 .. Len(tb[c]), tb[c][q] = id
          PROVE  c = k /\ q = p
      <4>1. c = k
        BY <2>5, <3>2, <3>6 DEF TriedOK
      <4> QED BY <2>5, <3>3, <3>6, <4>1 DEF TriedOK
    <3>7. PICK A : A = {at \in TriedBuckets \X (1 .. ADDRMAN_TRIED_BUCKET_SIZE) :
                          at[2] \in DOMAIN tb[at[1]] /\ tb[at[1]][at[2]] = id}
      OBVIOUS
    <3>8. <<k, p>> \in A
      BY <2>6, <3>3, <3>5, <3>7
    <3>9. ASSUME NEW at \in A
          PROVE  at = <<k, p>>
      <4>1. /\ at = <<at[1], at[2]>> /\ at[1] \in TriedBuckets
            /\ at[2] \in 1 .. Len(tb[at[1]]) /\ tb[at[1]][at[2]] = id
        BY <2>6, <3>7
      <4>2. at[1] = k /\ at[2] = p
        BY <3>6, <4>1
      <4> QED BY <4>1, <4>2
    <3>10. A = {<<k, p>>}
      BY <3>8, <3>9
    <3>11. Cardinality(A) = 1
      BY <3>10, FS_Singleton
    <3>12. m[id].nRefCount = 0 /\ m[id].nLastSuccess # 0
      BY <2>5 DEF TriedOK
    <3> QED BY <3>7, <3>11, <3>12
  <2>8. \A id \in NewOf(m) : /\ m[id].nRefCount = Cardinality({b \in NewBuckets : id \in am.vvNew[b]})
                             /\ m[id].nRefCount > 0
    <3> TAKE id \in NewOf(m)
    <3>1. /\ m[id].nRefCount = Cardinality(BucketsOf(am.vvNew, id)) + (IF id = 0 THEN 0 ELSE 0)
          /\ m[id].nRefCount \in 1 .. ADDRMAN_NEW_BUCKETS_PER_ADDRESS
      BY <2>1 DEF AddrInv, Good, NewOK
    <3>2. m[id].nRefCount = Cardinality(BucketsOf(am.vvNew, id)) /\ m[id].nRefCount > 0
      BY <3>1, BucketsFinite
    <3> QED BY <3>2 DEF BucketsOf
  <2>9. \A b \in NewBuckets : am.vvNew[b] \subseteq NewOf(m)
    BY <2>1 DEF AddrInv, Good, NewOK
  <2>10. \A k \in TriedBuckets : \A p \in DOMAIN tb[k] :
           tb[k][p] \in TriedOf(m) /\ TriedBucket[m[tb[k][p]].addr] = k
    BY <2>5, <2>6 DEF TriedOK
  <2>11. BucketsExact
    <3>1. \A id \in TriedIds(am) :
            /\ Cardinality({at \in TriedBuckets \X (1 .. ADDRMAN_TRIED_BUCKET_SIZE) :
                              at[2] \in DOMAIN am.vvTried[at[1]] /\ am.vvTried[at[1]][at[2]] = id}) = 1
            /\ am.mapInfo[id].nRefCount = 0 /\ am.mapInfo[id].nLastSuccess # 0
      BY <2>1, <2>2, <2>7
    <3>2. \A id \in DOMAIN am.mapInfo \ TriedIds(am) :
            /\ am.mapInfo[id].nRefCount = Cardinality({b \in NewBuckets : id \in am.vvNew[b]})
            /\ am.mapInfo[id].nRefCount > 0
      BY <2>1, <2>2, <2>8
    <3>3. \A b \in NewBuckets : am.vvNew[b] \subseteq DOMAIN am.mapInfo \ TriedIds(am)
      BY <2>1, <2>2, <2>9
    <3>4. \A k \in TriedBuckets : \A p \in DOMAIN am.vvTried[k] :
            am.vvTried[k][p] \in TriedIds(am) /\ TriedBucket[am.mapInfo[am.vvTried[k][p]].addr] = k
      BY <2>1, <2>2, <2>10
    <3> QED BY <3>1, <3>2, <3>3, <3>4, Zenon DEF BucketsExact
  <2> QED BY <2>3, <2>4, <2>11 DEF CheckPasses
<1> QED BY <1>1, AddrInvariant, PTL

(***************************************************************************)
(* The fields have their types; ids and positions stay below MaxIds.       *)
(***************************************************************************)
THEOREM AddrTypeCorrect == Spec => []AddrTypeOK
<1>1. AddrInv => AddrTypeOK
  <2> SUFFICES ASSUME AddrInv PROVE AddrTypeOK
    OBVIOUS
  <2>1. PICK m, v, n, t, c : m = am.mapInfo /\ v = am.vRandom /\ n = am.nNew /\ t = am.nTried /\ c = am.nIdCount
    OBVIOUS
  <2>2. /\ c \in Nat /\ c <= MaxIds /\ MaxIds \in Nat
        /\ DOMAIN m \subseteq 0 .. c - 1 /\ m \in [DOMAIN m -> Info]
        /\ v \in Seq(Nat)
    BY <2>1, AddrManAssumption DEF AddrInv, Good, Shape
  <2>3. DOMAIN m \subseteq Ids
    BY <2>2 DEF Ids
  <2>4. /\ n \in Nat /\ t \in Nat /\ n + t <= MaxIds /\ Len(v) = n + t
    <3>1. /\ Cardinality(DOMAIN m) <= c
          /\ Cardinality(DOMAIN m) = Cardinality(NewOf(m)) + Cardinality(TriedOf(m))
          /\ Cardinality(NewOf(m)) \in Nat /\ Cardinality(TriedOf(m)) \in Nat
      BY <2>2, EntriesFinite DEF NewOf, TriedOf
    <3>2. n = Cardinality(NewOf(m)) /\ t = Cardinality(TriedOf(m)) /\ Len(v) = n + t
      BY <2>1 DEF AddrInv, Good, CountOK
    <3> QED BY <2>2, <3>1, <3>2
  <2>5. ASSUME NEW id \in DOMAIN m
        PROVE  m[id] \in [addr : Addrs, source : Sources, nLastSuccess : {0} \cup Times,
                          nRefCount : 0 .. ADDRMAN_NEW_BUCKETS_PER_ADDRESS,
                          fInTried : BOOLEAN, nRandomPos : 1 .. MaxIds]
    <3>1. PICK e \in Info : e = m[id]
      BY <2>2
    <3>2. e.nRandomPos \in 1 .. MaxIds
      <4>1. e.nRandomPos \in 1 .. Len(v)
        BY <2>1, <3>1 DEF AddrInv, Good, RandomOK
      <4> QED BY <2>2, <2>4, <4>1
    <3>3. e.nRefCount \in 0 .. ADDRMAN_NEW_BUCKETS_PER_ADDRESS
      <4>1. ADDRMAN_NEW_BUCKETS_PER_ADDRESS \in Nat
        BY AddrManAssumption
      <4>2. CASE id \in TriedOf(m)
        <5>1. e.nRefCount = 0
          BY <2>1, <3>1, <4>2 DEF AddrInv, Good, TriedOK
        <5> QED BY <4>1, <5>1
      <4>3. CASE id \in NewOf(m)
        <5>1. e.nRefCount \in 1 .. ADDRMAN_NEW_BUCKETS_PER_ADDRESS
          BY <2>1, <3>1, <4>3 DEF AddrInv, Good, NewOK
        <5> QED BY <4>1, <5>1
      <4> QED BY <4>2, <4>3 DEF NewOf
    <3> QED BY <3>1, <3>2, <3>3 DEF Info
  <2>6. DOMAIN am.mapAddr \subseteq Ips /\ \A ip \in DOMAIN am.mapAddr : am.mapAddr[ip] \in Ids
    BY <2>1, <2>3 DEF AddrInv, Good, Shape, AddrOK
  <2>7. v \in Seq(Ids)
    <3>1. \A p \in 1 .. Len(v) : v[p] \in Ids
      BY <2>1, <2>3 DEF AddrInv, Good, RandomOK
    <3> QED BY <2>2, <3>1
  <2>8. am.vvNew \in [NewBuckets -> SUBSET Ids]
    <3>1. am.vvNew \in [NewBuckets -> SUBSET Nat] /\ \A b \in NewBuckets : am.vvNew[b] \subseteq NewOf(m)
      BY <2>1 DEF AddrInv, Good, Shape, NewOK
    <3> QED BY <2>3, <3>1 DEF NewOf
  <2>9. am.vvTried \in [TriedBuckets -> Seq(Ids)]
    <3>1. am.vvTried \in [TriedBuckets -> Seq(Nat)]
      BY DEF AddrInv, Good, Shape
    <3>2. \A k \in TriedBuckets : \A p \in 1 .. Len(am.vvTried[k]) : am.vvTried[k][p] \in Ids
      BY <2>1, <2>3 DEF AddrInv, Good, TriedOK, TriedOf
    <3>3. ASSUME NEW k \in TriedBuckets
          PROVE  am.vvTried[k] \in Seq(Ids)
      <4>1. PICK w \in Seq(Nat) : w = am.vvTried[k]
        BY <3>1
      <4>2. \A p \in 1 .. Len(w) : w[p] \in Ids
        BY <3>2, <4>1
      <4>3. w \in Seq(Ids)
        BY <4>2
      <4> QED BY <4>1, <4>3
    <3> QED BY <3>1, <3>3
  <2>10. n \in 0 .. MaxIds /\ t \in 0 .. MaxIds /\ c \in 0 .. MaxIds
    BY <2>2, <2>4
  <2> QED BY <2>1, <2>3, <2>5, <2>6, <2>7, <2>8, <2>9, <2>10 DEF AddrTypeOK
<1> QED BY <1>1, AddrInvariant, PTL

\* The same sets of addresses and the same facts of each, under new numbers.
LEMMA ReloadSameTables ==
  ASSUME NEW a, Good(a, 0, 0), NEW s, Reloaded(a, s)
  PROVE  Tables(s) = Tables(a)
<1>1. PICK D : D = 0 .. Size(a) - 1
  OBVIOUS
<1>2. PICK m, ms : m = a.mapInfo /\ ms = s.mapInfo
  OBVIOUS
<1>3. /\ DOMAIN ms = D
      /\ \A id \in D :
           /\ ms[id].addr = m[Numbered(a, id)].addr /\ ms[id].source = m[Numbered(a, id)].source
           /\ ms[id].nLastSuccess = m[Numbered(a, id)].nLastSuccess
           /\ ms[id].nRefCount = m[Numbered(a, id)].nRefCount
           /\ ms[id].fInTried = m[Numbered(a, id)].fInTried
      /\ \A b \in NewBuckets : \A id : id \in s.vvNew[b] <=> id \in D /\ Numbered(a, id) \in a.vvNew[b]
  BY <1>1, <1>2 DEF Reloaded, Service
<1>4. /\ \A id \in D : Numbered(a, id) \in DOMAIN m
      /\ \A y \in DOMAIN m : \E id \in D : Numbered(a, id) = y
  BY <1>1, <1>2, NumbersEntries
<1>5. \A id \in D : id \in TriedOf(ms) <=> Numbered(a, id) \in TriedOf(m)
  BY <1>1, <1>2, ReloadTables
<1>6. ASSUME NEW b \in NewBuckets
      PROVE  {ms[id].addr : id \in s.vvNew[b]} = {m[id].addr : id \in a.vvNew[b]}
  <2>1. \A id \in s.vvNew[b] : Numbered(a, id) \in a.vvNew[b] /\ ms[id].addr = m[Numbered(a, id)].addr
    BY <1>3
  <2>2. ASSUME NEW y \in a.vvNew[b]
        PROVE  \E id \in s.vvNew[b] : ms[id].addr = m[y].addr
    <3>1. y \in DOMAIN m
      BY <1>2 DEF Good, NewOK, NewOf
    <3>2. PICK id \in D : Numbered(a, id) = y
      BY <1>4, <3>1
    <3> QED BY <1>3, <3>2
  <2> QED BY <2>1, <2>2
<1>7. ASSUME NEW k \in TriedBuckets
      PROVE  {ms[id].addr : id \in ToSet(s.vvTried[k])} = {m[id].addr : id \in ToSet(a.vvTried[k])}
  <2>1. \A x : x \in ToSet(s.vvTried[k]) <=> x \in TriedOf(ms) /\ TriedBucket[ms[x].addr] = k
    <3>1. s.vvTried[k] \in Seq(Nat)
      BY DEF Reloaded, Shape
    <3>2. ToSet(s.vvTried[k]) = {s.vvTried[k][p] : p \in 1 .. Len(s.vvTried[k])}
      BY <3>1 DEF ToSet
    <3> QED BY <1>2, <3>2, ReloadTriedOK
  <2>2. \A y : y \in ToSet(a.vvTried[k]) <=> y \in TriedOf(m) /\ TriedBucket[m[y].addr] = k
    <3>1. a.vvTried[k] \in Seq(Nat) /\ TriedOK(m, a.vvTried)
      BY <1>2 DEF Good, Shape
    <3>2. ToSet(a.vvTried[k]) = {a.vvTried[k][p] : p \in 1 .. Len(a.vvTried[k])}
      BY <3>1 DEF ToSet
    <3>3. \A p \in 1 .. Len(a.vvTried[k]) :
            a.vvTried[k][p] \in TriedOf(m) /\ TriedBucket[m[a.vvTried[k][p]].addr] = k
      BY <3>1 DEF TriedOK
    <3>4. \A y \in TriedOf(m) : TriedBucket[m[y].addr] = k =>
            \E p \in 1 .. Len(a.vvTried[k]) : a.vvTried[k][p] = y
      BY <3>1 DEF TriedOK
    <3> QED BY <3>2, <3>3, <3>4
  <2>3. \A id \in ToSet(s.vvTried[k]) :
          Numbered(a, id) \in ToSet(a.vvTried[k]) /\ ms[id].addr = m[Numbered(a, id)].addr
    <3>1. \A id \in TriedOf(ms) : id \in D
      BY <1>3 DEF TriedOf
    <3> QED BY <1>3, <1>5, <2>1, <2>2, <3>1
  <2>4. ASSUME NEW y \in ToSet(a.vvTried[k])
        PROVE  \E id \in ToSet(s.vvTried[k]) : ms[id].addr = m[y].addr
    <3>1. y \in DOMAIN m
      BY <2>2 DEF TriedOf
    <3>2. PICK id \in D : Numbered(a, id) = y
      BY <1>4, <3>1
    <3> QED BY <1>3, <1>5, <2>1, <2>2, <3>2
  <2> QED BY <2>3, <2>4
<1> DEFINE F(i) == <<m[i].addr, m[i].source, m[i].nLastSuccess, m[i].nRefCount, m[i].fInTried>>
           G(i) == <<ms[i].addr, ms[i].source, ms[i].nLastSuccess, ms[i].nRefCount, ms[i].fInTried>>
<1>8. {G(id) : id \in DOMAIN ms} = {F(id) : id \in DOMAIN m}
  <2>1. \A id \in D : G(id) = F(Numbered(a, id))
    BY <1>3
  <2> HIDE DEF F, G
  <2>2. \A id \in D : Numbered(a, id) \in DOMAIN m /\ G(id) = F(Numbered(a, id))
    BY <1>4, <2>1
  <2>3. \A y \in DOMAIN m : \E id \in D : G(id) = F(y)
    BY <1>4, <2>1
  <2> QED BY <1>3, <2>2, <2>3
<1> DEFINE N(mm, nb) == [b \in NewBuckets |-> {mm[id].addr : id \in nb[b]}]
           T(mm, tb) == [k \in TriedBuckets |-> {mm[id].addr : id \in ToSet(tb[k])}]
<1>9. N(ms, s.vvNew) = N(m, a.vvNew)
  BY <1>6
<1>10. T(ms, s.vvTried) = T(m, a.vvTried)
  BY <1>7
<1>11. {<<s.mapInfo[id].addr, s.mapInfo[id].source, s.mapInfo[id].nLastSuccess,
          s.mapInfo[id].nRefCount, s.mapInfo[id].fInTried>> : id \in DOMAIN s.mapInfo}
         = {<<a.mapInfo[id].addr, a.mapInfo[id].source, a.mapInfo[id].nLastSuccess,
              a.mapInfo[id].nRefCount, a.mapInfo[id].fInTried>> : id \in DOMAIN a.mapInfo}
  BY <1>2, <1>8
<1>12. N(s.mapInfo, s.vvNew) = N(a.mapInfo, a.vvNew) /\ T(s.mapInfo, s.vvTried) = T(a.mapInfo, a.vvTried)
  <2> HIDE DEF N, T
  <2> QED BY <1>2, <1>9, <1>10
<1> QED BY <1>11, <1>12, Zenon DEF Tables

(***************************************************************************)
(* Reading peers.dat back gives every address its buckets, its reference   *)
(* count and its table again, although none of them is in the file.        *)
(***************************************************************************)
THEOREM ReloadAlwaysKeepsTables == Spec => []ReloadKeepsTables
<1>1. AddrInv => ReloadKeepsTables
  <2> SUFFICES ASSUME AddrInv PROVE ReloadKeepsTables
    OBVIOUS
  <2>1. Good(am, 0, 0)
    BY DEF AddrInv
  <2>2. Reloaded(am, Unserialize(Serialize(am)))
    BY <2>1, ReloadGives
  <2> QED BY <2>1, <2>2, ReloadSameTables DEF ReloadKeepsTables
<1> QED BY <1>1, AddrInvariant, PTL
=============================================================================
