--------------------------- MODULE KeyPoolProofs ---------------------------
(***************************************************************************)
(* The records of the key pool stay exact and no key is given out twice,   *)
(* for any number of reservations, size of the pool and number of keys, as *)
(* long as no reserved record is overwritten.                              *)
(*                                                                         *)
(* The two properties need each other: a key that is kept is the one of    *)
(* its record (PoolExact), so that erasing the record takes it out of the  *)
(* pool (KeyUsedOnce).  They are stated here for any pool (Good) on top of *)
(* bounds that hold always (Bounded): an index is at most one above the    *)
(* number of keys, because every index comes with a key, and a new key is  *)
(* above all old ones.                                                     *)
(***************************************************************************)
EXTENDS KeyPool, FiniteSetTheorems, WellFoundedInduction, TLAPS

Indexes(H) == {H[h].nIndex : h \in Holders} \ {-1}

\* Set of indexes S, records p, holders H, number of keys n, used and reused keys.
Bounded(S, p, H, n, u, r) ==
  /\ n \in Nat
  /\ S \subseteq 1 .. n + 1
  /\ DOMAIN p \subseteq 1 .. n + 1 /\ \A i \in DOMAIN p : p[i] \in 1 .. n
  /\ H \in [Holders -> [nIndex : {-1} \cup 1 .. n + 1, key : {NoKey} \cup 0 .. n]]
  /\ \A h \in Holders : H[h].nIndex = -1 => H[h].key \in {NoKey, DefaultKey}
  /\ u \subseteq 1 .. n /\ r \subseteq u

Good(S, p, H, u, r) ==
  /\ DOMAIN p = S \cup Indexes(H)
  /\ S \cap Indexes(H) = {}
  /\ \A h \in Holders : H[h].nIndex # -1 => H[h].key = p[H[h].nIndex]
  /\ \A g, h \in Holders : H[g].nIndex = H[h].nIndex => g = h \/ H[g].nIndex = -1
  /\ r = {}
  /\ \A i \in DOMAIN p : p[i] \notin u
  /\ \A i, j \in DOMAIN p : p[i] = p[j] => i = j

KeyPoolInv ==
  /\ Bounded(setKeyPool, pool, holder, nKeys, used, reused)
  /\ ~overwritten => Good(setKeyPool, pool, holder, used, reused)
  /\ nKeys <= MaxKeys
  /\ fCrypted \in BOOLEAN /\ locked \in BOOLEAN /\ (locked => fCrypted)
  /\ overwritten \in BOOLEAN

-----------------------------------------------------------------------------
(***************************************************************************)
(* The smallest and the largest index of a pool.                           *)
(***************************************************************************)
LEMMA SmallestOf ==
  ASSUME NEW S, S \subseteq Nat, S # {}
  PROVE  Smallest(S) \in S /\ \A j \in S : Smallest(S) <= j
<1>1. PICK i \in S : \A j \in S : ~ (<<j, i>> \in OpToRel(<, Nat))
  BY WFMin, NatLessThanWellFounded
<1>2. \A j \in S : i <= j
  <2> TAKE j \in S
  <2>1. i \in Nat /\ j \in Nat
    OBVIOUS
  <2>2. ~(j < i)
    BY <1>1, <2>1, Zenon DEF OpToRel
  <2> QED BY <2>1, <2>2
<1> QED BY <1>2 DEF Smallest

LEMMA LargestOf ==
  ASSUME NEW n \in Nat, NEW S, S \subseteq 1 .. n, S # {}
  PROVE  Largest(S) \in S /\ \A j \in S : j <= Largest(S)
<1> DEFINE T == {n - i : i \in S}
<1>1. T \subseteq Nat /\ T # {}
  <2>1. PICK i : i \in S
    OBVIOUS
  <2>2. n - i \in T
    BY <2>1
  <2>3. \A j \in S : n - j \in Nat
    OBVIOUS
  <2> QED BY <2>2, <2>3
<1>2. PICK t \in T : \A u \in T : t <= u
  BY <1>1, SmallestOf
<1>3. PICK i \in S : t = n - i
  OBVIOUS
<1>4. \A j \in S : j <= i
  BY <1>2, <1>3
<1> QED BY <1>4 DEF Largest

LEMMA SmallestOfRun ==
  ASSUME NEW a \in Nat, NEW b \in Int, a <= b
  PROVE  Smallest(a .. b) = a
<1>1. a .. b \subseteq Nat /\ a \in a .. b
  OBVIOUS
<1>2. Smallest(a .. b) \in a .. b /\ Smallest(a .. b) <= a
  BY <1>1, SmallestOf
<1> QED BY <1>2

\* What WritePool writes for a run of indexes.
Written(p, n, a, b) ==
  [i \in DOMAIN p \cup (a .. b) |-> IF i \in a .. b THEN n + 1 + i - a ELSE p[i]]

LEMMA WritePoolRun ==
  ASSUME NEW p, NEW a \in Nat, NEW b \in Int
  PROVE  WritePool(p, a .. b) = Written(p, nKeys, a, b)
<1>1. CASE a <= b
  BY <1>1, SmallestOfRun DEF WritePool, Written
<1>2. CASE ~(a <= b)
  <2>1. a .. b = {}
    BY <1>2
  <2> QED BY <2>1 DEF WritePool, Written
<1> QED BY <1>1, <1>2

-----------------------------------------------------------------------------
(***************************************************************************)
(* What the operations do to a pool that is Bounded and Good.              *)
(***************************************************************************)
LEMMA WriteBounded ==
  ASSUME NEW S, NEW p, NEW H, NEW n, NEW u, NEW r, Bounded(S, p, H, n, u, r),
         NEW a \in Nat \ {0}, NEW b \in Int, NEW m \in Nat,
         m = n + Cardinality(a .. b), b <= m + 1
  PROVE  Bounded(S \cup (a .. b), Written(p, n, a, b), H, m, u, r)
<1>1. n \in Nat /\ Cardinality(a .. b) = (IF a > b THEN 0 ELSE b - a + 1)
  BY FS_Interval DEF Bounded
<1>2. n <= m /\ (a <= b => m = n + 1 + b - a)
  BY <1>1
<1>3. 1 .. n \subseteq 1 .. m /\ 1 .. n + 1 \subseteq 1 .. m + 1 /\ 0 .. n \subseteq 0 .. m
  BY <1>1, <1>2
<1>4. a .. b \subseteq 1 .. m + 1
  BY <1>1, <1>2
<1>5. \A i \in a .. b : n + 1 + i - a \in 1 .. m
  BY <1>1, <1>2
<1>6. \A i \in DOMAIN Written(p, n, a, b) : Written(p, n, a, b)[i] \in 1 .. m
  BY <1>3, <1>5 DEF Written, Bounded
<1>7. H \in [Holders -> [nIndex : {-1} \cup 1 .. m + 1, key : {NoKey} \cup 0 .. m]]
  BY <1>3 DEF Bounded
<1> QED BY <1>3, <1>4, <1>6, <1>7 DEF Bounded, Written

LEMMA WriteGood ==
  ASSUME NEW S, NEW p, NEW H, NEW n, NEW u, NEW r, Bounded(S, p, H, n, u, r), Good(S, p, H, u, r),
         NEW a \in Nat \ {0}, NEW b \in Int, (a .. b) \cap Indexes(H) = {}
  PROVE  Good(S \cup (a .. b), Written(p, n, a, b), H, u, r)
<1> DEFINE w == Written(p, n, a, b)
<1>1. DOMAIN w = DOMAIN p \cup (a .. b)
  BY DEF Written
<1>2. \A i \in a .. b : w[i] = n + 1 + i - a
  BY DEF Written
<1>3. \A i \in DOMAIN p \ (a .. b) : w[i] = p[i]
  BY DEF Written
<1> HIDE DEF w
<1>4. n \in Nat /\ (\A i \in DOMAIN p : p[i] \in 1 .. n) /\ u \subseteq 1 .. n
  BY DEF Bounded
<1>5. \A i \in a .. b : w[i] > n /\ w[i] \in Nat
  BY <1>2, <1>4
<1>6. \A i, j \in a .. b : w[i] = w[j] => i = j
  BY <1>2, <1>4
<1>7. \A i \in DOMAIN w : w[i] \notin u
  BY <1>1, <1>3, <1>4, <1>5 DEF Good
<1>8. \A i, j \in DOMAIN w : w[i] = w[j] => i = j
  BY <1>1, <1>3, <1>4, <1>5, <1>6 DEF Good
<1>9. \A h \in Holders : H[h].nIndex # -1 => H[h].nIndex \in DOMAIN p \ (a .. b)
  BY DEF Good, Indexes
<1>10. \A h \in Holders : H[h].nIndex # -1 => H[h].key = w[H[h].nIndex]
  BY <1>3, <1>9 DEF Good
<1> QED BY <1>1, <1>7, <1>8, <1>10 DEF Good, w

LEMMA EraseFacts ==
  ASSUME NEW p, NEW I
  PROVE  /\ DOMAIN ErasePool(p, I) = DOMAIN p \ I
         /\ \A i \in DOMAIN ErasePool(p, I) : ErasePool(p, I)[i] = p[i]
BY DEF ErasePool, Restrict

LEMMA UnreservedFacts ==
  /\ Unreserved.nIndex = -1 /\ Unreserved.key = NoKey
  /\ \A n \in Nat : Unreserved \in [nIndex : {-1} \cup 1 .. n + 1, key : {NoKey} \cup 0 .. n]
BY DEF Unreserved, NoKey

\* The records of the pool are erased; those of reserved keys stay.
LEMMA EraseInv ==
  ASSUME NEW S, NEW p, NEW H, NEW n, NEW u, NEW r, Bounded(S, p, H, n, u, r)
  PROVE  /\ Bounded({}, ErasePool(p, S), H, n, u, r)
         /\ Good(S, p, H, u, r) => Good({}, ErasePool(p, S), H, u, r)
<1> DEFINE e == ErasePool(p, S)
<1>1. DOMAIN e = DOMAIN p \ S /\ \A i \in DOMAIN e : e[i] = p[i]
  BY EraseFacts, Zenon
<1> HIDE DEF e
<1>2. Bounded({}, e, H, n, u, r)
  BY <1>1 DEF Bounded
<1>3. ASSUME Good(S, p, H, u, r) PROVE Good({}, e, H, u, r)
  <2>1. \A h \in Holders : H[h].nIndex # -1 => H[h].nIndex \in DOMAIN e
    BY <1>1, <1>3 DEF Good, Indexes
  <2> QED BY <1>1, <1>3, <2>1 DEF Good
<1> QED BY <1>2, <1>3 DEF e

\* An index is taken out of the pool and given to a holder.
LEMMA ReserveInv ==
  ASSUME NEW S, NEW p, NEW H, NEW n, NEW u, NEW r, Bounded(S, p, H, n, u, r),
         NEW h \in Holders, H[h].nIndex = -1, NEW i \in S, i \in DOMAIN p
  PROVE  LET G == [H EXCEPT ![h] = [nIndex |-> i, key |-> p[i]]]
         IN  /\ Bounded(S \ {i}, p, G, n, u, r)
             /\ Good(S, p, H, u, r) => Good(S \ {i}, p, G, u, r)
<1> DEFINE G == [H EXCEPT ![h] = [nIndex |-> i, key |-> p[i]]]
<1>1. /\ G[h].nIndex = i /\ G[h].key = p[i] /\ i # -1
      /\ \A g \in Holders : g # h => G[g] = H[g]
  BY DEF Bounded
<1>2. G \in [Holders -> [nIndex : {-1} \cup 1 .. n + 1, key : {NoKey} \cup 0 .. n]]
  <2>1. i \in 1 .. n + 1 /\ p[i] \in 0 .. n
    BY DEF Bounded
  <2> QED BY <2>1 DEF Bounded
<1> HIDE DEF G
<1>3. Bounded(S \ {i}, p, G, n, u, r)
  BY <1>1, <1>2 DEF Bounded
<1>4. Indexes(G) = Indexes(H) \cup {i}
  <2>1. \A x \in Indexes(G) : x \in Indexes(H) \cup {i}
    BY <1>1 DEF Indexes
  <2>2. \A x \in Indexes(H) : x \in Indexes(G)
    BY <1>1 DEF Indexes
  <2>3. i \in Indexes(G)
    BY <1>1 DEF Indexes
  <2> QED BY <2>1, <2>2, <2>3
<1>5. ASSUME Good(S, p, H, u, r) PROVE Good(S \ {i}, p, G, u, r)
  <2>1. \A g \in Holders : g # h /\ G[g].nIndex # -1 => G[g].nIndex \in Indexes(H) /\ G[g].nIndex # i
    BY <1>1, <1>5 DEF Good, Indexes
  <2>2. \A g \in Holders : G[g].nIndex # -1 => G[g].key = p[G[g].nIndex]
    BY <1>1, <1>5 DEF Good
  <2>3. \A f, g \in Holders : G[f].nIndex = G[g].nIndex => f = g \/ G[f].nIndex = -1
    BY <1>1, <1>5, <2>1 DEF Good
  <2> QED BY <1>4, <1>5, <2>2, <2>3 DEF Good
<1> QED BY <1>3, <1>5 DEF G

\* A holder lets go of its reservation: what is reserved afterwards.
Released(H, h) == [H EXCEPT ![h] = Unreserved]

LEMMA ReleaseFacts ==
  ASSUME NEW S, NEW p, NEW H, NEW n, NEW u, NEW r, Bounded(S, p, H, n, u, r), NEW h \in Holders
  PROVE  /\ Bounded(S, p, Released(H, h), n, u, r)
         /\ Released(H, h)[h].nIndex = -1
         /\ \A g \in Holders : g # h => Released(H, h)[g] = H[g]
         /\ \A x \in Indexes(Released(H, h)) : x \in Indexes(H)
         /\ \A x \in Indexes(H) : x # H[h].nIndex => x \in Indexes(Released(H, h))
         /\ Good(S, p, H, u, r) => H[h].nIndex \notin Indexes(Released(H, h))
<1> DEFINE G == Released(H, h)
<1>1. /\ G[h].nIndex = -1 /\ G[h].key = NoKey
      /\ \A g \in Holders : g # h => G[g] = H[g]
  BY UnreservedFacts DEF Bounded, Released
<1>2. G \in [Holders -> [nIndex : {-1} \cup 1 .. n + 1, key : {NoKey} \cup 0 .. n]]
  BY UnreservedFacts DEF Bounded, Released
<1> HIDE DEF G
<1>3. Bounded(S, p, G, n, u, r)
  BY <1>1, <1>2 DEF Bounded
<1>4. \A x \in Indexes(G) : \E g \in Holders : g # h /\ x = H[g].nIndex /\ x # -1
  BY <1>1 DEF Indexes
<1>5. \A g \in Holders : g # h /\ H[g].nIndex # -1 => H[g].nIndex \in Indexes(G)
  BY <1>1 DEF Indexes
<1>6. \A x \in Indexes(G) : x \in Indexes(H)
  BY <1>4 DEF Indexes
<1>7. \A x \in Indexes(H) : x # H[h].nIndex => x \in Indexes(G)
  BY <1>5 DEF Indexes
<1>8. ASSUME Good(S, p, H, u, r) PROVE H[h].nIndex \notin Indexes(G)
  BY <1>4, <1>8 DEF Good
<1> QED BY <1>1, <1>3, <1>6, <1>7, <1>8 DEF G

\* A holder that has nothing reserved is reset.
LEMMA ResetInv ==
  ASSUME NEW S, NEW p, NEW H, NEW n, NEW u, NEW r, Bounded(S, p, H, n, u, r),
         NEW h \in Holders, H[h].nIndex = -1
  PROVE  /\ Bounded(S, p, Released(H, h), n, u, r)
         /\ Good(S, p, H, u, r) => Good(S, p, Released(H, h), u, r)
<1> DEFINE G == Released(H, h)
<1> HIDE DEF G
<1>1. /\ Bounded(S, p, G, n, u, r)
      /\ G[h].nIndex = -1 /\ \A g \in Holders : g # h => G[g] = H[g]
      /\ \A x \in Indexes(G) : x \in Indexes(H)
      /\ \A x \in Indexes(H) : x # H[h].nIndex => x \in Indexes(G)
  BY ReleaseFacts DEF G
<1>2. Indexes(G) = Indexes(H)
  <2>1. -1 \notin Indexes(H)
    BY DEF Indexes
  <2> QED BY <1>1, <2>1
<1>3. Good(S, p, H, u, r) => Good(S, p, G, u, r)
  BY <1>1, <1>2 DEF Good
<1> QED BY <1>1, <1>3 DEF G

\* ReturnKey: the index goes back.
LEMMA ReturnInv ==
  ASSUME NEW S, NEW p, NEW H, NEW n, NEW u, NEW r, Bounded(S, p, H, n, u, r), NEW h \in Holders
  PROVE  LET T == S \cup ({H[h].nIndex} \ {-1})
         IN  /\ Bounded(T, p, Released(H, h), n, u, r)
             /\ Good(S, p, H, u, r) => Good(T, p, Released(H, h), u, r)
<1> DEFINE G == Released(H, h)
           T == S \cup ({H[h].nIndex} \ {-1})
<1> HIDE DEF G
<1>1. /\ Bounded(S, p, G, n, u, r)
      /\ G[h].nIndex = -1 /\ \A g \in Holders : g # h => G[g] = H[g]
      /\ \A x \in Indexes(G) : x \in Indexes(H)
      /\ \A x \in Indexes(H) : x # H[h].nIndex => x \in Indexes(G)
      /\ Good(S, p, H, u, r) => H[h].nIndex \notin Indexes(G)
  BY ReleaseFacts DEF G
<1>2. T \subseteq 1 .. n + 1
  BY DEF Bounded
<1>3. Bounded(T, p, G, n, u, r)
  BY <1>1, <1>2 DEF Bounded
<1>4. ASSUME Good(S, p, H, u, r) PROVE Good(T, p, G, u, r)
  <2>1. H[h].nIndex # -1 => H[h].nIndex \in Indexes(H)
    BY DEF Indexes
  <2>2. -1 \notin Indexes(H)
    BY DEF Indexes
  <2>3. DOMAIN p = T \cup Indexes(G) /\ T \cap Indexes(G) = {}
    BY <1>1, <1>4, <2>1, <2>2 DEF Good
  <2> HIDE DEF T
  <2> QED BY <1>1, <1>4, <2>3 DEF Good
<1> QED BY <1>3, <1>4 DEF G

\* A key k is used: what that adds to the used keys.
UsedWith(u, k) == u \cup ({k} \ {DefaultKey})
ReusedWith(r, u, k) == r \cup ({k} \cap u)

\* KeepKey: the record is erased and its key used.
LEMMA KeepInv ==
  ASSUME NEW S, NEW p, NEW H, NEW n, NEW u, NEW r, Bounded(S, p, H, n, u, r),
         NEW h \in Holders, H[h].key # NoKey
  PROVE  LET e == ErasePool(p, {H[h].nIndex})
             v == UsedWith(u, H[h].key)
             s == ReusedWith(r, u, H[h].key)
         IN  /\ Bounded(S, e, Released(H, h), n, v, s)
             /\ Good(S, p, H, u, r) => Good(S, e, Released(H, h), v, s)
<1> DEFINE G == Released(H, h)
           i == H[h].nIndex
           k == H[h].key
           e == ErasePool(p, {i})
           v == UsedWith(u, k)
           s == ReusedWith(r, u, k)
<1> HIDE DEF G, i, k, e, v, s
<1>1. /\ Bounded(S, p, G, n, u, r)
      /\ G[h].nIndex = -1 /\ \A g \in Holders : g # h => G[g] = H[g]
      /\ \A x \in Indexes(G) : x \in Indexes(H)
      /\ \A x \in Indexes(H) : x # i => x \in Indexes(G)
      /\ Good(S, p, H, u, r) => i \notin Indexes(G)
  BY ReleaseFacts DEF G, i
<1>2. DOMAIN e = DOMAIN p \ {i} /\ \A j \in DOMAIN e : e[j] = p[j]
  BY EraseFacts, Zenon DEF e
<1>3. k \in 0 .. n
  BY DEF Bounded, k
<1>4. v \subseteq 1 .. n /\ s \subseteq v
  BY <1>3 DEF UsedWith, ReusedWith, Bounded, DefaultKey, v, s
<1>5. Bounded(S, e, G, n, v, s)
  BY <1>1, <1>2, <1>4 DEF Bounded
<1>6. ASSUME Good(S, p, H, u, r) PROVE Good(S, e, G, v, s)
  <2>1. CASE i = -1
    <3>1. k = DefaultKey
      BY <2>1 DEF Bounded, i, k
    <3>2. v = u /\ s = {}
      BY <3>1, <1>6 DEF UsedWith, ReusedWith, Good, Bounded, DefaultKey, v, s
    <3>3. -1 \notin DOMAIN p /\ -1 \notin Indexes(H)
      BY DEF Bounded, Indexes
    <3>4. DOMAIN e = DOMAIN p /\ Indexes(G) = Indexes(H)
      BY <1>1, <1>2, <2>1, <3>3
    <3>5. \A g \in Holders : G[g].nIndex # -1 => G[g].nIndex \in DOMAIN p
      BY <1>6, <3>4 DEF Good, Indexes
    <3> QED BY <1>1, <1>2, <1>6, <3>2, <3>4, <3>5 DEF Good
  <2>2. CASE i # -1
    <3>1. i \in Indexes(H) /\ i \in DOMAIN p /\ k = p[i] /\ i \notin S
      BY <1>6, <2>2 DEF Good, Indexes, i, k
    <3>2. s = {} /\ \A j \in DOMAIN e : e[j] \notin v
      BY <1>2, <1>6, <3>1 DEF UsedWith, ReusedWith, Good, v, s
    <3>3. DOMAIN e = S \cup Indexes(G) /\ S \cap Indexes(G) = {}
      BY <1>1, <1>2, <1>6, <3>1 DEF Good
    <3>4. \A g \in Holders : G[g].nIndex # -1 => G[g].nIndex \in DOMAIN e
      BY <3>3 DEF Indexes
    <3> QED BY <1>1, <1>2, <1>6, <3>2, <3>3, <3>4 DEF Good
  <2> QED BY <2>1, <2>2
<1> QED BY <1>5, <1>6 DEF G, e, i, k, v, s

\* GetKeyFromPool: an index of the pool is taken, its record erased, its key used.
LEMMA TakeInv ==
  ASSUME NEW S, NEW p, NEW H, NEW n, NEW u, NEW r, Bounded(S, p, H, n, u, r),
         NEW i \in S, i \in DOMAIN p
  PROVE  LET e == ErasePool(p, {i})
             v == UsedWith(u, p[i])
             s == ReusedWith(r, u, p[i])
         IN  /\ Bounded(S \ {i}, e, H, n, v, s)
             /\ Good(S, p, H, u, r) => Good(S \ {i}, e, H, v, s)
<1> DEFINE e == ErasePool(p, {i})
           v == UsedWith(u, p[i])
           s == ReusedWith(r, u, p[i])
<1>1. DOMAIN e = DOMAIN p \ {i} /\ \A j \in DOMAIN e : e[j] = p[j]
  BY EraseFacts, Zenon
<1>2. v \subseteq 1 .. n /\ s \subseteq v
  BY DEF UsedWith, ReusedWith, Bounded, DefaultKey
<1> HIDE DEF e
<1>3. Bounded(S \ {i}, e, H, n, v, s)
  BY <1>1, <1>2 DEF Bounded
<1>4. ASSUME Good(S, p, H, u, r) PROVE Good(S \ {i}, e, H, v, s)
  <2>1. i \notin Indexes(H) /\ s = {} /\ \A j \in DOMAIN e : e[j] \notin v
    BY <1>1, <1>4 DEF UsedWith, ReusedWith, Good
  <2>2. \A g \in Holders : H[g].nIndex # -1 => H[g].nIndex \in DOMAIN e
    BY <1>1, <1>4, <2>1 DEF Good, Indexes
  <2> HIDE DEF v, s
  <2> QED BY <1>1, <1>4, <2>1, <2>2 DEF Good
<1> QED BY <1>3, <1>4 DEF e

\* A restart: every record is in the pool and nothing is reserved.
LEMMA RestartInv ==
  ASSUME NEW S, NEW p, NEW H, NEW n, NEW u, NEW r, Bounded(S, p, H, n, u, r)
  PROVE  LET G == [h \in Holders |-> Unreserved]
         IN  /\ Bounded(DOMAIN p, p, G, n, u, r)
             /\ Good(S, p, H, u, r) => Good(DOMAIN p, p, G, u, r)
<1> DEFINE G == [h \in Holders |-> Unreserved]
<1>1. /\ \A h \in Holders : G[h].nIndex = -1 /\ G[h].key = NoKey
      /\ G \in [Holders -> [nIndex : {-1} \cup 1 .. n + 1, key : {NoKey} \cup 0 .. n]]
  BY UnreservedFacts DEF Bounded
<1> HIDE DEF G
<1>2. Indexes(G) = {}
  BY <1>1 DEF Indexes
<1>3. Bounded(DOMAIN p, p, G, n, u, r)
  BY <1>1 DEF Bounded
<1>4. Good(S, p, H, u, r) => Good(DOMAIN p, p, G, u, r)
  BY <1>1, <1>2 DEF Good
<1> QED BY <1>3, <1>4 DEF G

-----------------------------------------------------------------------------
(***************************************************************************)
(* The actions.                                                            *)
(***************************************************************************)
LEMMA InitInv == Init => KeyPoolInv
<1> SUFFICES ASSUME Init PROVE KeyPoolInv
  OBVIOUS
<1>1. TargetSize \in Nat /\ MaxKeys \in Nat /\ TargetSize <= MaxKeys
  BY KeyPoolAssumption
<1>2. /\ nKeys = TargetSize /\ setKeyPool = 2 .. TargetSize + 1
      /\ DOMAIN pool = 2 .. TargetSize + 1 /\ \A i \in DOMAIN pool : pool[i] = i - 1
      /\ used = {} /\ reused = {}
  BY DEF Init
<1>3. /\ \A h \in Holders : holder[h].nIndex = -1 /\ holder[h].key = NoKey
      /\ holder \in [Holders -> [nIndex : {-1} \cup 1 .. nKeys + 1, key : {NoKey} \cup 0 .. nKeys]]
  BY <1>1, UnreservedFacts DEF Init
<1>4. Bounded(setKeyPool, pool, holder, nKeys, used, reused)
  <2>1. \A i \in 2 .. TargetSize + 1 : i \in 1 .. nKeys + 1 /\ i - 1 \in 1 .. nKeys
    BY <1>1, <1>2
  <2> QED BY <1>1, <1>2, <1>3, <2>1 DEF Bounded
<1>5. Indexes(holder) = {}
  BY <1>3 DEF Indexes
<1>6. Good(setKeyPool, pool, holder, used, reused)
  BY <1>1, <1>2, <1>3, <1>5 DEF Good
<1> QED BY <1>1, <1>2, <1>4, <1>6 DEF KeyPoolInv, Init

LEMMA ReservedIndexes == Reserved = Indexes(holder)
BY DEF Reserved, Indexes

\* The indexes of a top-up are a run that starts at most one above the largest index.
LEMMA NewIndexesRun ==
  ASSUME KeyPoolInv
  PROVE  \E a \in Nat \ {0}, b \in Int :
           NewIndexes = a .. b /\ (a <= nKeys + 2) /\ (b < a => b <= nKeys + 1)
<1>1. /\ nKeys \in Nat /\ setKeyPool \subseteq 1 .. nKeys + 1 /\ TargetSize \in Nat
      /\ IsFiniteSet(setKeyPool) /\ Cardinality(setKeyPool) \in Nat
  <2>1. nKeys \in Nat /\ setKeyPool \subseteq 1 .. nKeys + 1 /\ TargetSize \in Nat
    BY KeyPoolAssumption DEF KeyPoolInv, Bounded
  <2>2. IsFiniteSet(1 .. nKeys + 1)
    BY <2>1, FS_Interval
  <2> QED BY <2>1, <2>2, FS_Subset, FS_CardinalityType
<1>2. CASE locked
  <2>1. NewIndexes = 1 .. 0
    BY <1>2 DEF NewIndexes
  <2> QED BY <1>1, <2>1
<1>3. CASE ~locked
  <2> DEFINE a == IF setKeyPool = {} THEN 1 ELSE Largest(setKeyPool) + 1
             b == a + TargetSize - Cardinality(setKeyPool)
  <2>1. a \in Nat \ {0} /\ a <= nKeys + 2
    <3>1. CASE setKeyPool = {}
      BY <1>1, <3>1
    <3>2. CASE setKeyPool # {}
      <4>1. nKeys + 1 \in Nat
        BY <1>1
      <4>2. Largest(setKeyPool) \in setKeyPool
        BY <1>1, <3>2, <4>1, LargestOf
      <4>3. Largest(setKeyPool) \in 1 .. nKeys + 1
        BY <1>1, <4>2
      <4> QED BY <1>1, <3>2, <4>3
    <3> QED BY <3>1, <3>2
  <2>2. NewIndexes = a .. b
    BY <1>3 DEF NewIndexes
  <2> HIDE DEF a
  <2>3. b \in Int /\ (b < a => b <= nKeys + 1)
    BY <1>1, <2>1
  <2> QED BY <2>1, <2>2, <2>3
<1> QED BY <1>2, <1>3

\* A run of new keys, with the records and the pool they are added to.
LEMMA GenerateInv ==
  ASSUME KeyPoolInv, NEW S, NEW p,
         Bounded(S, p, holder, nKeys, used, reused),
         ~overwritten => Good(S, p, holder, used, reused),
         NEW a \in Nat \ {0}, NEW b \in Int, a <= nKeys + 2, b < a => b <= nKeys + 1,
         Generate(a .. b)
  PROVE  /\ Bounded(S \cup (a .. b), WritePool(p, a .. b), holder, nKeys', used, reused)
         /\ ~overwritten' => Good(S \cup (a .. b), WritePool(p, a .. b), holder, used, reused)
         /\ nKeys' <= MaxKeys /\ overwritten' \in BOOLEAN
<1>1. nKeys \in Nat /\ Cardinality(a .. b) = (IF a > b THEN 0 ELSE b - a + 1)
  BY FS_Interval DEF Bounded
<1>2. /\ nKeys' = nKeys + Cardinality(a .. b) /\ nKeys' <= MaxKeys
      /\ overwritten' = (overwritten \/ (a .. b) \cap Reserved # {})
  BY DEF Generate
<1>3. nKeys' \in Nat /\ b <= nKeys' + 1
  BY <1>1, <1>2
<1>4. WritePool(p, a .. b) = Written(p, nKeys, a, b)
  BY WritePoolRun
<1>5. Bounded(S \cup (a .. b), Written(p, nKeys, a, b), holder, nKeys', used, reused)
  BY <1>2, <1>3, WriteBounded
<1>6. ASSUME ~overwritten' PROVE Good(S \cup (a .. b), Written(p, nKeys, a, b), holder, used, reused)
  <2>1. ~overwritten /\ (a .. b) \cap Indexes(holder) = {}
    BY <1>2, <1>6, ReservedIndexes, Zenon
  <2> QED BY <2>1, WriteGood
<1>7. overwritten' \in BOOLEAN
  BY <1>2, Zenon
<1> QED BY <1>2, <1>4, <1>5, <1>6, <1>7

LEMMA TopUpInv ==
  ASSUME KeyPoolInv, Generate(NewIndexes)
  PROVE  /\ Bounded(ToppedUp, WritePool(pool, NewIndexes), holder, nKeys', used, reused)
         /\ ~overwritten' => Good(ToppedUp, WritePool(pool, NewIndexes), holder, used, reused)
         /\ nKeys' <= MaxKeys /\ overwritten' \in BOOLEAN
<1>1. PICK a \in Nat \ {0}, b \in Int :
        NewIndexes = a .. b /\ (a <= nKeys + 2) /\ (b < a => b <= nKeys + 1)
  BY NewIndexesRun
<1>2. /\ Bounded(setKeyPool, pool, holder, nKeys, used, reused)
      /\ ~overwritten => Good(setKeyPool, pool, holder, used, reused)
  BY DEF KeyPoolInv
<1>3. Generate(a .. b) /\ ToppedUp = setKeyPool \cup (a .. b)
  BY <1>1 DEF ToppedUp
<1> QED BY <1>1, <1>2, <1>3, GenerateInv

LEMMA SmallestOfPool ==
  ASSUME NEW S, NEW p, NEW H, NEW n, NEW u, NEW r, Bounded(S, p, H, n, u, r), S # {}
  PROVE  Smallest(S) \in S
<1>1. S \subseteq Nat
  BY DEF Bounded
<1> QED BY <1>1, SmallestOf

LEMMA NextInv == KeyPoolInv /\ [Next]_vars => KeyPoolInv'
<1> SUFFICES ASSUME KeyPoolInv, [Next]_vars PROVE KeyPoolInv'
  OBVIOUS
<1> DEFINE topped == WritePool(pool, NewIndexes)
           i == Smallest(ToppedUp)
<1> HIDE DEF topped, i
<1>1. /\ Bounded(setKeyPool, pool, holder, nKeys, used, reused)
      /\ ~overwritten => Good(setKeyPool, pool, holder, used, reused)
      /\ nKeys <= MaxKeys /\ overwritten \in BOOLEAN
      /\ fCrypted \in BOOLEAN /\ locked \in BOOLEAN /\ (locked => fCrypted)
  BY DEF KeyPoolInv
<1>2. ASSUME Generate(NewIndexes)
      PROVE  /\ Bounded(ToppedUp, topped, holder, nKeys', used, reused)
             /\ ~overwritten' => Good(ToppedUp, topped, holder, used, reused)
             /\ nKeys' <= MaxKeys /\ overwritten' \in BOOLEAN
             /\ ToppedUp # {} => i \in ToppedUp
  <2>1. /\ Bounded(ToppedUp, topped, holder, nKeys', used, reused)
        /\ ~overwritten' => Good(ToppedUp, topped, holder, used, reused)
        /\ nKeys' <= MaxKeys /\ overwritten' \in BOOLEAN
    BY <1>2, TopUpInv DEF topped
  <2>2. ToppedUp # {} => i \in ToppedUp
    BY <2>1, SmallestOfPool DEF i
  <2> QED BY <2>1, <2>2
<1>3. CASE TopUpKeyPool
  <2>1. Generate(NewIndexes) /\ setKeyPool' = ToppedUp /\ pool' = topped
        /\ UNCHANGED <<holder, fCrypted, locked, used, reused>>
    BY <1>3 DEF TopUpKeyPool, topped
  <2> QED BY <1>1, <1>2, <2>1 DEF KeyPoolInv
<1>4. CASE GetKeyFromPool
  <2>1. /\ Generate(NewIndexes) /\ ToppedUp # {} /\ setKeyPool' = ToppedUp \ {i}
        /\ UNCHANGED <<holder, fCrypted, locked>>
    BY <1>4 DEF GetKeyFromPool, Take, i
  <2>2. i \in ToppedUp
    BY <1>2, <2>1
  <2>3. CASE i \in DOMAIN topped
    <3>1. /\ pool' = ErasePool(topped, {i})
          /\ used' = UsedWith(used, topped[i]) /\ reused' = ReusedWith(reused, used, topped[i])
      BY <1>4, <2>3 DEF GetKeyFromPool, Use, UsedWith, ReusedWith, topped, i
    <3>2. /\ Bounded(ToppedUp \ {i}, ErasePool(topped, {i}), holder, nKeys', UsedWith(used, topped[i]),
                     ReusedWith(reused, used, topped[i]))
          /\ ~overwritten' => Good(ToppedUp \ {i}, ErasePool(topped, {i}), holder, UsedWith(used, topped[i]),
                                   ReusedWith(reused, used, topped[i]))
      BY <1>2, <2>1, <2>2, <2>3, TakeInv
    <3> QED BY <1>1, <1>2, <2>1, <3>1, <3>2 DEF KeyPoolInv
  <2>4. CASE i \notin DOMAIN topped
    <3>1. pool' = topped /\ UNCHANGED <<used, reused>>
      BY <1>4, <2>4 DEF GetKeyFromPool, topped, i
    <3>2. overwritten'
      BY <1>2, <2>1, <2>2, <2>4 DEF Good
    <3>3. Bounded(ToppedUp \ {i}, topped, holder, nKeys', used, reused)
      BY <1>2, <2>1 DEF Bounded
    <3> QED BY <1>1, <1>2, <2>1, <3>1, <3>2, <3>3 DEF KeyPoolInv
  <2> QED BY <2>3, <2>4
<1>5. ASSUME NEW h \in Holders, GetReservedKey(h) PROVE KeyPoolInv'
  <2>1. /\ Generate(NewIndexes) /\ ToppedUp # {} /\ setKeyPool' = ToppedUp \ {i}
        /\ i \in DOMAIN topped /\ pool' = topped /\ holder[h].nIndex = -1
        /\ holder' = [holder EXCEPT ![h] = [nIndex |-> i, key |-> topped[i]]]
        /\ UNCHANGED <<fCrypted, locked, used, reused>>
    BY <1>5 DEF GetReservedKey, Take, topped, i
  <2>2. i \in ToppedUp
    BY <1>2, <2>1
  <2>3. /\ Bounded(ToppedUp \ {i}, topped, holder', nKeys', used, reused)
        /\ ~overwritten' => Good(ToppedUp \ {i}, topped, holder', used, reused)
    BY <1>2, <2>1, <2>2, ReserveInv
  <2> QED BY <1>1, <1>2, <2>1, <2>3 DEF KeyPoolInv
<1>6. ASSUME NEW h \in Holders, GetReservedKeyThrows(h) PROVE KeyPoolInv'
  <2>1. /\ Generate(NewIndexes) /\ setKeyPool' = ToppedUp /\ pool' = topped /\ holder[h].nIndex = -1
        /\ holder' = Released(holder, h)
        /\ UNCHANGED <<fCrypted, locked, used, reused>>
    BY <1>6 DEF GetReservedKeyThrows, topped, Released
  <2>2. /\ Bounded(ToppedUp, topped, Released(holder, h), nKeys', used, reused)
        /\ ~overwritten' => Good(ToppedUp, topped, Released(holder, h), used, reused)
    BY <1>2, <2>1, ResetInv
  <2> QED BY <1>1, <1>2, <2>1, <2>2 DEF KeyPoolInv
<1>7. ASSUME NEW h \in Holders, GetDefaultKey(h) PROVE KeyPoolInv'
  <2>1. /\ holder[h].nIndex = -1 /\ holder' = [holder EXCEPT ![h].key = DefaultKey]
        /\ UNCHANGED <<setKeyPool, pool, fCrypted, locked, nKeys, used, reused, overwritten>>
    BY <1>7, UnreservedFacts DEF GetDefaultKey
  <2>2. /\ \A g \in Holders : holder'[g].nIndex = holder[g].nIndex
        /\ \A g \in Holders : g # h => holder'[g] = holder[g]
        /\ holder'[h].key = DefaultKey
        /\ holder' \in [Holders -> [nIndex : {-1} \cup 1 .. nKeys + 1, key : {NoKey} \cup 0 .. nKeys]]
    BY <1>1, <2>1 DEF Bounded, DefaultKey
  <2>3. Bounded(setKeyPool, pool, holder', nKeys, used, reused)
    BY <1>1, <2>1, <2>2 DEF Bounded
  <2>4. Indexes(holder') = Indexes(holder)
    BY <2>2 DEF Indexes
  <2>5. ~overwritten => Good(setKeyPool, pool, holder', used, reused)
    BY <1>1, <2>1, <2>2, <2>4 DEF Good
  <2> QED BY <1>1, <2>1, <2>3, <2>5 DEF KeyPoolInv
<1>8. ASSUME NEW h \in Holders, KeepKey(h) PROVE KeyPoolInv'
  <2>1. /\ holder[h].key # NoKey /\ pool' = ErasePool(pool, {holder[h].nIndex})
        /\ holder' = Released(holder, h)
        /\ used' = UsedWith(used, holder[h].key) /\ reused' = ReusedWith(reused, used, holder[h].key)
        /\ UNCHANGED <<setKeyPool, fCrypted, locked, nKeys, overwritten>>
    BY <1>8 DEF KeepKey, Released, Use, UsedWith, ReusedWith
  <2>2. /\ Bounded(setKeyPool, pool', holder', nKeys, used', reused')
        /\ ~overwritten => Good(setKeyPool, pool', holder', used', reused')
    BY <1>1, <2>1, KeepInv
  <2> QED BY <1>1, <2>1, <2>2 DEF KeyPoolInv
<1>9. ASSUME NEW h \in Holders, ReturnKey(h) PROVE KeyPoolInv'
  <2>1. /\ setKeyPool' = setKeyPool \cup ({holder[h].nIndex} \ {-1})
        /\ holder' = Released(holder, h)
        /\ UNCHANGED <<pool, fCrypted, locked, nKeys, used, reused, overwritten>>
    BY <1>9 DEF ReturnKey, Released
  <2>2. /\ Bounded(setKeyPool', pool, holder', nKeys, used, reused)
        /\ ~overwritten => Good(setKeyPool', pool, holder', used, reused)
    BY <1>1, <2>1, ReturnInv
  <2> QED BY <1>1, <2>1, <2>2 DEF KeyPoolInv
<1>10. CASE Lock \/ Unlock
  BY <1>1, <1>10 DEF Lock, Unlock, KeyPoolInv
<1>11. CASE EncryptWallet
  <2> DEFINE e == ErasePool(pool, setKeyPool)
  <2> HIDE DEF e
  <2>1. /\ Bounded({}, e, holder, nKeys, used, reused)
        /\ ~overwritten => Good({}, e, holder, used, reused)
    BY <1>1, EraseInv DEF e
  <2>2. /\ Generate(1 .. TargetSize) /\ setKeyPool' = 1 .. TargetSize
        /\ pool' = WritePool(e, 1 .. TargetSize)
        /\ fCrypted' = TRUE /\ locked' = TRUE /\ UNCHANGED <<holder, used, reused>>
    BY <1>11 DEF EncryptWallet, NewKeyPool, e
  <2>3. 1 \in Nat \ {0} /\ TargetSize \in Int /\ 1 <= nKeys + 2 /\ (TargetSize < 1 => TargetSize <= nKeys + 1)
    BY <1>1, KeyPoolAssumption DEF Bounded
  <2>4. /\ Bounded({} \cup (1 .. TargetSize), WritePool(e, 1 .. TargetSize), holder, nKeys', used, reused)
        /\ ~overwritten' => Good({} \cup (1 .. TargetSize), WritePool(e, 1 .. TargetSize), holder, used, reused)
        /\ nKeys' <= MaxKeys /\ overwritten' \in BOOLEAN
    BY <2>1, <2>2, <2>3, GenerateInv
  <2>5. {} \cup (1 .. TargetSize) = setKeyPool'
    BY <2>2
  <2> QED BY <2>2, <2>4, <2>5 DEF KeyPoolInv
<1>12. CASE Restart
  <2>1. /\ setKeyPool' = DOMAIN pool /\ holder' = [h \in Holders |-> Unreserved] /\ locked' = fCrypted
        /\ UNCHANGED <<pool, fCrypted, nKeys, used, reused, overwritten>>
    BY <1>12 DEF Restart
  <2>2. /\ Bounded(DOMAIN pool, pool, holder', nKeys, used, reused)
        /\ ~overwritten => Good(DOMAIN pool, pool, holder', used, reused)
    BY <1>1, <2>1, RestartInv
  <2> QED BY <1>1, <2>1, <2>2 DEF KeyPoolInv
<1>13. CASE UNCHANGED vars
  BY <1>1, <1>13 DEF vars, KeyPoolInv
<1> QED BY <1>3, <1>4, <1>5, <1>6, <1>7, <1>8, <1>9, <1>10, <1>11, <1>12, <1>13 DEF Next

LEMMA KeyPoolInvariant == Spec => []KeyPoolInv
BY InitInv, NextInv, PTL DEF Spec

(***************************************************************************)
(* The variables of the key pool keep their types: every index and every   *)
(* record is within the number of keys that were generated.                *)
(***************************************************************************)
THEOREM KeyPoolTypeCorrect == Spec => []KeyPoolTypeOK
<1>1. KeyPoolInv => KeyPoolTypeOK
  <2> SUFFICES ASSUME KeyPoolInv PROVE KeyPoolTypeOK
    OBVIOUS
  <2>1. nKeys \in Nat /\ MaxKeys \in Nat /\ nKeys <= MaxKeys
    BY KeyPoolAssumption DEF KeyPoolInv, Bounded
  <2>2. 1 .. nKeys + 1 \subseteq 1 .. MaxKeys + 1
    BY <2>1
  <2>3. holder \in [Holders -> [nIndex : {-1} \cup 1 .. MaxKeys + 1, key : {NoKey} \cup 0 .. nKeys]]
    BY <2>2 DEF KeyPoolInv, Bounded
  <2> QED BY <2>1, <2>2, <2>3 DEF KeyPoolInv, Bounded, KeyPoolTypeOK
<1> QED BY <1>1, KeyPoolInvariant, PTL

(***************************************************************************)
(* While no reserved record has been overwritten, wallet.dat has a record  *)
(* for exactly the indexes in the pool and the reserved ones.              *)
(***************************************************************************)
THEOREM PoolStaysExact == Spec => []PoolExact
<1>1. KeyPoolInv => PoolExact
  BY ReservedIndexes DEF KeyPoolInv, Good, PoolExact
<1> QED BY <1>1, KeyPoolInvariant, PTL

(***************************************************************************)
(* Under the same condition no key is used twice, and none that is used    *)
(* can still be given out, now or after a restart.                         *)
(***************************************************************************)
THEOREM KeysUsedOnce == Spec => []KeyUsedOnce
<1>1. KeyPoolInv => KeyUsedOnce
  BY DEF KeyPoolInv, Good, KeyUsedOnce
<1> QED BY <1>1, KeyPoolInvariant, PTL
=============================================================================
