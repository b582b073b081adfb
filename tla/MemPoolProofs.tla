---------------------------- MODULE MemPoolProofs ----------------------------
(***************************************************************************)
(* The memory pool, for any transactions, blocks and limits.               *)
(*                                                                         *)
(* That an input of the pool can be spent is not inductive: while the tip  *)
(* has moved and the pool has not caught up, an output may be one of a     *)
(* transaction still to come back, or one that a transaction still to be   *)
(* deleted spends.  And a coinbase does not come back: what spends it must *)
(* be deeper than a reorganisation goes.  Backed says all this.            *)
(***************************************************************************)
EXTENDS MemPool, CoinsProofs

KeepStep(c, d, s, tx) == IF tx \in Coinbases THEN s ELSE Append(s, tx)
Keeping == INSTANCE RecursionProofs WITH op <- KeepStep

-----------------------------------------------------------------------------
(***************************************************************************)
(* The transactions of a stretch of a chain.                               *)
(***************************************************************************)
\* What a concatenation holds.
LEMMA Joined ==
  ASSUME NEW X, NEW s \in Seq(X), NEW t \in Seq(X)
  PROVE  /\ s \o t \in Seq(X) /\ Len(s \o t) = Len(s) + Len(t)
         /\ \A i \in 1 .. Len(s) : (s \o t)[i] = s[i]
         /\ \A i \in 1 .. Len(t) : (s \o t)[Len(s) + i] = t[i]
         /\ ToSet(s \o t) = ToSet(s) \cup ToSet(t)
<1>1. /\ s \o t \in Seq(X) /\ Len(s \o t) = Len(s) + Len(t) /\ Len(s) \in Nat /\ Len(t) \in Nat
      /\ \A i \in 1 .. Len(s) : (s \o t)[i] = s[i]
      /\ \A i \in 1 .. Len(t) : (s \o t)[Len(s) + i] = t[i]
  OBVIOUS
<1>2. DOMAIN s = 1 .. Len(s) /\ DOMAIN t = 1 .. Len(t) /\ DOMAIN (s \o t) = 1 .. Len(s \o t)
  BY <1>1
<1> DEFINE u == s \o t
<1> HIDE DEF u
<1>3. ToSet(u) \subseteq ToSet(s) \cup ToSet(t)
  <2> SUFFICES ASSUME NEW i \in 1 .. Len(s) + Len(t)
               PROVE  u[i] \in ToSet(s) \cup ToSet(t)
    BY <1>1, <1>2 DEF ToSet, u
  <2>1. CASE i <= Len(s)
    BY <1>1, <1>2, <2>1 DEF ToSet, u
  <2>2. CASE ~(i <= Len(s))
    <3>1. i - Len(s) \in 1 .. Len(t) /\ Len(s) + (i - Len(s)) = i
      BY <1>1, <2>2
    <3> QED BY <1>1, <1>2, <3>1 DEF ToSet, u
  <2> QED BY <2>1, <2>2
<1>4. ToSet(s) \cup ToSet(t) \subseteq ToSet(u)
  <2>1. \A i \in 1 .. Len(s) : i \in 1 .. Len(s) + Len(t) /\ u[i] = s[i]
    BY <1>1 DEF u
  <2>2. \A i \in 1 .. Len(t) : Len(s) + i \in 1 .. Len(s) + Len(t) /\ u[Len(s) + i] = t[i]
    BY <1>1 DEF u
  <2>3. ToSet(s) \subseteq ToSet(u)
    <3> SUFFICES ASSUME NEW i \in 1 .. Len(s) PROVE s[i] \in ToSet(u)
      BY <1>2 DEF ToSet
    <3> QED BY <1>1, <1>2, <2>1 DEF ToSet, u
  <2>4. ToSet(t) \subseteq ToSet(u)
    <3> SUFFICES ASSUME NEW i \in 1 .. Len(t) PROVE t[i] \in ToSet(u)
      BY <1>2 DEF ToSet
    <3> QED BY <1>1, <1>2, <2>2 DEF ToSet, u
  <2> QED BY <2>3, <2>4
<1> QED BY <1>1, <1>3, <1>4 DEF u

AddsTxs(r, bs, n) ==
  r[0] = <<>> /\ \A k \in 1 .. n : r[k] = r[k - 1] \o Vtx[bs[k]]

\* TxsOf is a loop over the blocks.
LEMMA TxsOfRuns ==
  ASSUME NEW n \in Nat, NEW bs, DOMAIN bs = 1 .. n
  PROVE  \E r : AddsTxs(r, bs, n) /\ TxsOf(bs) = r[n]
<1>1. TxsOf(bs) = TxLists!Left(0, 0, <<>>, bs)
  BY DEF TxsOf, TxsStep, TxLists!Left, FoldLeft, MapThenFoldSet, Max, TxLists!Greatest
<1>2. PICK r : TxLists!RunsLeft(r, 0, 0, <<>>, bs, n) /\ TxsOf(bs) = r[n]
  BY <1>1, TxLists!LeftRuns
<1> QED BY <1>2 DEF TxLists!RunsLeft, TxsStep, AddsTxs

\* It gives the transactions of these blocks.
LEMMA TxsOfIs ==
  ASSUME NEW n \in Nat, NEW bs, DOMAIN bs = 1 .. n, \A k \in 1 .. n : bs[k] \in Blocks
  PROVE  /\ TxsOf(bs) \in Seq(Txs)
         /\ ToSet(TxsOf(bs)) = UNION {ToSet(Vtx[bs[k]]) : k \in 1 .. n}
<1>1. PICK r : AddsTxs(r, bs, n) /\ TxsOf(bs) = r[n]
  BY TxsOfRuns
<1> DEFINE Holds(k) == r[k] \in Seq(Txs) /\ ToSet(r[k]) = UNION {ToSet(Vtx[bs[i]]) : i \in 1 .. k}
           S == {k \in 0 .. n : Holds(k)}
<1>2. 0 \in S
  <2>1. 1 .. 0 = {} /\ ToSet(r[0]) = {} /\ r[0] \in Seq(Txs)
    BY <1>1 DEF ToSet, AddsTxs
  <2> QED BY <2>1
<1>3. ASSUME NEW k \in 0 .. n - 1, k \in S
      PROVE  k + 1 \in S
  <2>1. k + 1 \in 1 .. n /\ k + 1 \in 0 .. n /\ (k + 1) - 1 = k
    OBVIOUS
  <2>2. r[k + 1] = r[k] \o Vtx[bs[k + 1]] /\ bs[k + 1] \in Blocks
    BY <1>1, <2>1 DEF AddsTxs
  <2>3. Vtx[bs[k + 1]] \in Seq(Txs)
    BY <2>2, BlockAssumption
  <2>4. r[k + 1] \in Seq(Txs) /\ ToSet(r[k + 1]) = ToSet(r[k]) \cup ToSet(Vtx[bs[k + 1]])
    BY <1>3, <2>2, <2>3, Joined
  <2>5. 1 .. k + 1 = (1 .. k) \cup {k + 1}
    BY <2>1
  <2>6. ToSet(r[k]) = UNION {ToSet(Vtx[bs[i]]) : i \in 1 .. k}
    BY <1>3
  <2>7. UNION {ToSet(Vtx[bs[i]]) : i \in 1 .. k + 1}
          = (UNION {ToSet(Vtx[bs[i]]) : i \in 1 .. k}) \cup ToSet(Vtx[bs[k + 1]])
    BY <2>5
  <2> QED BY <2>1, <2>4, <2>6, <2>7
<1>4. \A k \in 0 .. n : k \in S
  <2> HIDE DEF S
  <2> QED BY <1>2, <1>3, TxLists!UpTo
<1>5. n \in 0 .. n
  OBVIOUS
<1>6. Holds(n)
  BY <1>4, <1>5
<1> QED BY <1>1, <1>6

\* Concatenation is associative.
LEMMA Associative ==
  ASSUME NEW X, NEW s \in Seq(X), NEW t \in Seq(X), NEW u \in Seq(X)
  PROVE  s \o (t \o u) = (s \o t) \o u
<1> DEFINE l == s \o (t \o u)
           r == (s \o t) \o u
           k == Len(s)
           m == Len(t)
           n == Len(u)
<1>1. t \o u \in Seq(X) /\ s \o t \in Seq(X) /\ Len(t \o u) = m + n /\ Len(s \o t) = k + m
      /\ l \in Seq(X) /\ r \in Seq(X) /\ k \in Nat /\ m \in Nat /\ n \in Nat
  OBVIOUS
<1>2. Len(l) = k + (m + n) /\ Len(r) = k + m + n
  BY <1>1
<1>3. \A i \in 1 .. k + m + n : l[i] = IF i <= k THEN s[i] ELSE IF i <= k + m THEN t[i - k] ELSE u[i - k - m]
  BY <1>1
<1>4. \A i \in 1 .. k + m + n : r[i] = IF i <= k THEN s[i] ELSE IF i <= k + m THEN t[i - k] ELSE u[i - k - m]
  BY <1>1
<1> HIDE DEF l, r, k, m, n
<1>5. l = [i \in 1 .. Len(l) |-> l[i]] /\ r = [i \in 1 .. Len(r) |-> r[i]]
  BY <1>1
<1>6. Len(l) = k + m + n
  BY <1>1, <1>2
<1> QED BY <1>2, <1>3, <1>4, <1>5, <1>6 DEF l, r

\* Up a chain, they are what AllTxs has more.
LEMMA TxsAlong ==
  ASSUME NEW b \in Blocks, NEW f \in Chain[b]
  PROVE  AllTxs[b] = AllTxs[f] \o TxsOf(Upwards(Chain[b] \ Chain[f]))
<1> DEFINE n == Height[b] - Height[f]
           bs == [i \in 1 .. n |-> At(b, Height[f] + i)]
<1>1. f \in Blocks /\ Height[b] \in Nat /\ Height[f] \in Nat /\ n \in Nat
  BY OnChain, HeightDef
<1>2. Upwards(Chain[b] \ Chain[f]) = bs
  BY UpwardsIs
<1>3. \A i \in 1 .. n : bs[i] = At(b, Height[f] + i)
  OBVIOUS
<1>4. DOMAIN bs = 1 .. n
  OBVIOUS
<1> HIDE DEF bs
<1>5. PICK r : AddsTxs(r, bs, n) /\ TxsOf(bs) = r[n]
  <2> HIDE DEF n
  <2> QED BY <1>1, <1>4, TxsOfRuns
<1> DEFINE Holds(k) == r[k] \in Seq(Txs) /\ AllTxs[At(b, Height[f] + k)] = AllTxs[f] \o r[k]
           S == {k \in 0 .. n : Holds(k)}
<1>6. AllTxs[f] \in Seq(Txs)
  BY <1>1, AllTxsDef
<1>7. 0 \in S
  <2>1. r[0] = <<>> /\ Height[f] + 0 = Height[f] /\ At(b, Height[f]) = f
    BY <1>1, <1>5, BlockAt DEF AddsTxs
  <2>2. AllTxs[f] \o r[0] = AllTxs[f] /\ r[0] \in Seq(Txs)
    BY <1>6, <2>1
  <2>3. Holds(0)
    BY <2>1, <2>2
  <2>4. 0 \in 0 .. n
    BY <1>1
  <2> HIDE DEF Holds, n
  <2> QED BY <2>3, <2>4
<1>8. ASSUME NEW k \in 0 .. n - 1, k \in S
      PROVE  k + 1 \in S
  <2> DEFINE a == At(b, Height[f] + k)
             c == At(b, Height[f] + k + 1)
  <2>1. k + 1 \in 1 .. n /\ k + 1 \in 0 .. n /\ (k + 1) - 1 = k
        /\ Height[f] + k + 1 \in 1 .. Height[b] /\ Height[f] + k + 1 - 1 = Height[f] + k
        /\ Height[f] + (k + 1) = Height[f] + k + 1
    BY <1>1
  <2>2. c \in Blocks \ {Genesis} /\ Prev[c] = a
    <3>1. \A h \in 1 .. Height[b] : At(b, h) \in Blocks \ {Genesis} /\ Prev[At(b, h)] = At(b, h - 1)
      BY PrevAt
    <3>2. c \in Blocks \ {Genesis} /\ Prev[c] = At(b, (Height[f] + k + 1) - 1)
      BY <2>1, <3>1
    <3>3. (Height[f] + k + 1) - 1 = Height[f] + k
      BY <1>1
    <3>4. At(b, (Height[f] + k + 1) - 1) = At(b, Height[f] + k)
      BY <3>3, Zenon
    <3> QED BY <3>2, <3>4
  <2>3. bs[k + 1] = c
    BY <1>3, <2>1
  <2>4. r[k + 1] = r[k] \o Vtx[c]
    BY <1>5, <2>1, <2>3 DEF AddsTxs
  <2> HIDE DEF a, c
  <2>5. AllTxs[c] = AllTxs[a] \o Vtx[c] /\ Vtx[c] \in Seq(Txs)
    BY <2>2, AllTxsDef, BlockAssumption
  <2>6. r[k] \in Seq(Txs) /\ AllTxs[a] = AllTxs[f] \o r[k]
    BY <1>8 DEF a
  <2>7. r[k] \o Vtx[c] \in Seq(Txs) /\ AllTxs[f] \o (r[k] \o Vtx[c]) = (AllTxs[f] \o r[k]) \o Vtx[c]
    <3>1. r[k] \o Vtx[c] \in Seq(Txs)
      BY <2>5, <2>6, Joined
    <3>2. AllTxs[f] \o (r[k] \o Vtx[c]) = (AllTxs[f] \o r[k]) \o Vtx[c]
      <4>1. AllTxs[f] \in Seq(Txs) /\ r[k] \in Seq(Txs) /\ Vtx[c] \in Seq(Txs)
        BY <1>6, <2>5, <2>6
      <4>2. \A x, y, z \in Seq(Txs) : x \o (y \o z) = (x \o y) \o z
        BY Associative
      <4> QED BY <4>1, <4>2, Zenon
    <3> QED BY <3>1, <3>2
  <2>8. r[k + 1] \in Seq(Txs) /\ AllTxs[c] = AllTxs[f] \o r[k + 1]
    BY <2>4, <2>5, <2>6, <2>7
  <2>9. Holds(k + 1)
    BY <2>1, <2>8 DEF c
  <2> QED BY <2>1, <2>9
<1>9. \A k \in 0 .. n : k \in S
  <2> HIDE DEF S
  <2> QED BY <1>1, <1>7, <1>8, TxLists!UpTo
<1>10. Holds(n)
  <2>1. n \in 0 .. n
    BY <1>1
  <2> HIDE DEF n
  <2> QED BY <1>9, <2>1
<1>11. Height[f] + n = Height[b] /\ At(b, Height[b]) = b
  BY <1>1, BlockAt, ChainOfPrev
<1> HIDE DEF n
<1> QED BY <1>2, <1>5, <1>10, <1>11

\* One element more.
LEMMA AppendHolds ==
  ASSUME NEW X, NEW s \in Seq(X), NEW x \in X
  PROVE  ToSet(Append(s, x)) = ToSet(s) \cup {x}
<1> DEFINE t == Append(s, x)
<1>1. DOMAIN s = 1 .. Len(s) /\ DOMAIN t = 1 .. Len(s) + 1 /\ Len(s) \in Nat
      /\ (\A i \in 1 .. Len(s) : t[i] = s[i]) /\ t[Len(s) + 1] = x
  OBVIOUS
<1> HIDE DEF t
<1>2. 1 .. Len(s) + 1 = (1 .. Len(s)) \cup {Len(s) + 1}
  BY <1>1
<1> QED BY <1>1, <1>2 DEF ToSet, t

\* NotCoinbases keeps the others.
LEMMA NotCoinbasesIs ==
  ASSUME NEW s \in Seq(Txs)
  PROVE  /\ NotCoinbases(s) \in Seq(Txs \ Coinbases)
         /\ ToSet(NotCoinbases(s)) = ToSet(s) \ Coinbases
<1> DEFINE n == Len(s)
<1>1. n \in Nat /\ DOMAIN s = 1 .. n /\ \A i \in 1 .. n : s[i] \in Txs
  OBVIOUS
<1>2. NotCoinbases(s) = Keeping!Left(0, 0, <<>>, s)
  BY DEF NotCoinbases, KeepStep, Keeping!Left, FoldLeft, MapThenFoldSet, Max, Keeping!Greatest
<1> HIDE DEF n
<1>3. PICK r : Keeping!RunsLeft(r, 0, 0, <<>>, s, n) /\ NotCoinbases(s) = r[n]
  BY <1>1, <1>2, Keeping!LeftRuns
<1>4. r[0] = <<>> /\ \A k \in 1 .. n : r[k] = IF s[k] \in Coinbases THEN r[k - 1] ELSE Append(r[k - 1], s[k])
  BY <1>3 DEF Keeping!RunsLeft, KeepStep
<1> DEFINE Holds(k) == /\ r[k] \in Seq(Txs \ Coinbases)
                       /\ ToSet(r[k]) = {s[i] : i \in 1 .. k} \ Coinbases
           S == {k \in 0 .. n : Holds(k)}
<1>5. 0 \in S
  <2>1. 1 .. 0 = {} /\ ToSet(r[0]) = {} /\ r[0] \in Seq(Txs \ Coinbases) /\ 0 \in 0 .. n
    BY <1>1, <1>4 DEF ToSet
  <2> QED BY <2>1
<1>6. ASSUME NEW k \in 0 .. n - 1, k \in S
      PROVE  k + 1 \in S
  <2>1. k + 1 \in 1 .. n /\ k + 1 \in 0 .. n /\ (k + 1) - 1 = k /\ 1 .. k + 1 = (1 .. k) \cup {k + 1}
    BY <1>1
  <2>2. r[k + 1] = IF s[k + 1] \in Coinbases THEN r[k] ELSE Append(r[k], s[k + 1])
    BY <1>4, <2>1
  <2>3. r[k] \in Seq(Txs \ Coinbases) /\ ToSet(r[k]) = {s[i] : i \in 1 .. k} \ Coinbases
    BY <1>6
  <2>4. {s[i] : i \in 1 .. k + 1} = {s[i] : i \in 1 .. k} \cup {s[k + 1]}
    BY <2>1
  <2>5. s[k + 1] \in Txs
    BY <1>1, <2>1
  <2>6. CASE s[k + 1] \in Coinbases
    BY <2>1, <2>2, <2>3, <2>4, <2>6
  <2>7. CASE s[k + 1] \notin Coinbases
    <3> DEFINE x == s[k + 1]
    <3> HIDE DEF x
    <3>1. x \in Txs \ Coinbases /\ r[k + 1] = Append(r[k], x)
      BY <2>2, <2>5, <2>7 DEF x
    <3>2. r[k + 1] \in Seq(Txs \ Coinbases)
      BY <2>3, <3>1
    <3>3. ToSet(r[k + 1]) = ToSet(r[k]) \cup {x}
      BY <2>3, <3>1, AppendHolds
    <3>4. Holds(k + 1)
      BY <2>3, <2>4, <3>1, <3>2, <3>3 DEF x
    <3> QED BY <2>1, <3>4
  <2> QED BY <2>6, <2>7
<1>7. \A k \in 0 .. n : k \in S
  <2> HIDE DEF S
  <2> QED BY <1>1, <1>5, <1>6, Keeping!UpTo
<1>8. Holds(n)
  <2>1. n \in 0 .. n
    BY <1>1
  <2> QED BY <1>7, <2>1
<1>9. ToSet(s) = {s[i] : i \in 1 .. n}
  BY <1>1 DEF ToSet
<1> QED BY <1>3, <1>8, <1>9

Stretch(s, p, D, R) ==
  /\ D \in Seq(Txs) /\ p \in Seq(Txs) /\ s = p \o D
  /\ R \in Seq(Txs \ Coinbases) /\ ToSet(D) \ Coinbases \subseteq ToSet(R)

\* What SetBestChain takes back is what was there above the fork, but for the coinbases.
LEMMA StretchTxs ==
  ASSUME NEW b \in Blocks, NEW f \in Chain[b]
  PROVE  /\ Stretch(AllTxs[b], AllTxs[f], TxsOf(Upwards(Chain[b] \ Chain[f])),
                     NotCoinbases(TxsOf(Downwards(Chain[b] \ Chain[f]))))
         /\ f # b => TxsOf(Upwards(Chain[b] \ Chain[f])) # <<>>
<1> DEFINE D == TxsOf(Upwards(Chain[b] \ Chain[f]))
           R == NotCoinbases(TxsOf(Downwards(Chain[b] \ Chain[f])))
           n == Height[b] - Height[f]
           up == Upwards(Chain[b] \ Chain[f])
           down == Downwards(Chain[b] \ Chain[f])
<1>1. f \in Blocks /\ Height[b] \in Nat /\ Height[f] \in Nat /\ n \in Nat /\ (f # b => n # 0)
  BY OnChain, HeightDef
<1>2. AllTxs[f] \in Seq(Txs) /\ AllTxs[b] = AllTxs[f] \o D
  BY <1>1, AllTxsDef, TxsAlong DEF D
<1>3. DOMAIN up = 1 .. n /\ \A i \in 1 .. n : up[i] = At(b, Height[f] + i)
  BY UpwardsIs
<1>4. DOMAIN down = 1 .. n /\ \A i \in 1 .. n : down[i] = At(b, Height[b] + 1 - i)
  BY DownwardsIs
<1> HIDE DEF up, down, D, R
<1>5. \A i \in 1 .. n : n + 1 - i \in 1 .. n /\ Height[b] + 1 - (n + 1 - i) = Height[f] + i
  BY <1>1
<1>6. \A i \in 1 .. n : up[i] = down[n + 1 - i]
  <2> SUFFICES ASSUME NEW i \in 1 .. n PROVE up[i] = down[n + 1 - i]
    OBVIOUS
  <2>1. down[n + 1 - i] = At(b, Height[b] + 1 - (n + 1 - i)) /\ up[i] = At(b, Height[f] + i)
    BY <1>3, <1>4, <1>5
  <2> QED BY <1>5, <2>1
<1>7. \A i \in 1 .. n : up[i] \in Blocks
  <2> SUFFICES ASSUME NEW i \in 1 .. n PROVE up[i] \in Blocks
    OBVIOUS
  <2>1. Height[f] + i \in 1 .. Height[b]
    BY <1>1
  <2> QED BY <1>3, <2>1, PrevAt
<1>8. \A i \in 1 .. n : down[i] \in Blocks
  <2> SUFFICES ASSUME NEW i \in 1 .. n PROVE down[i] \in Blocks
    OBVIOUS
  <2>1. Height[b] + 1 - i \in 1 .. Height[b]
    BY <1>1
  <2> QED BY <1>4, <2>1, PrevAt
<1>9. D \in Seq(Txs) /\ ToSet(D) = UNION {ToSet(Vtx[up[k]]) : k \in 1 .. n}
  <2> HIDE DEF n
  <2> QED BY <1>1, <1>3, <1>7, TxsOfIs DEF up, D
<1> DEFINE E == TxsOf(down)
<1>10. E \in Seq(Txs) /\ ToSet(E) = UNION {ToSet(Vtx[down[k]]) : k \in 1 .. n}
  <2> HIDE DEF n
  <2> QED BY <1>1, <1>4, <1>8, TxsOfIs
<1>11. R \in Seq(Txs \ Coinbases) /\ ToSet(R) = ToSet(E) \ Coinbases
  BY <1>10, NotCoinbasesIs DEF down, R
<1>12. ToSet(D) \subseteq ToSet(E)
  <2> HIDE DEF n, E
  <2> SUFFICES ASSUME NEW k \in 1 .. n
               PROVE  ToSet(Vtx[up[k]]) \subseteq ToSet(E)
    BY <1>9
  <2>1. n + 1 - k \in 1 .. n /\ up[k] = down[n + 1 - k]
    BY <1>5, <1>6
  <2>2. ToSet(Vtx[down[n + 1 - k]]) \subseteq ToSet(E)
    BY <1>10, <2>1
  <2> QED BY <2>1, <2>2
<1>13. ASSUME f # b PROVE D # <<>>
  <2>1. 1 \in 1 .. n
    BY <1>1, <1>13
  <2>2. up[1] \in Blocks
    BY <1>7, <2>1
  <2>3. ToSet(Vtx[up[1]]) # {}
    <3>1. Len(Vtx[up[1]]) \in Nat /\ Len(Vtx[up[1]]) >= 1 /\ DOMAIN Vtx[up[1]] = 1 .. Len(Vtx[up[1]])
      BY <2>2, BlockTxs
    <3>2. 1 \in DOMAIN Vtx[up[1]]
      BY <3>1
    <3> QED BY <3>2 DEF ToSet
  <2>4. ToSet(D) # {}
    BY <1>9, <2>1, <2>3
  <2>5. ToSet(<<>>) = {}
    BY DEF ToSet
  <2> QED BY <2>4, <2>5
<1> QED BY <1>2, <1>9, <1>11, <1>12, <1>13 DEF Stretch, D, R

-----------------------------------------------------------------------------
(***************************************************************************)
(* Outputs of the best chain.                                              *)
(***************************************************************************)
\* The first m transactions of s create output o, and none later on in s spends it.
Lasts(o, s, m) ==
  \E i \in 1 .. m : s[i] = o[1] /\ \A j \in i + 1 .. Len(s) : o \notin Inputs(s[j])

\* o was created deeper than a reorganisation goes.
Buried(o, b) ==
  \E a \in Chain[b] : Height[a] + MaxReorg <= Height[b] /\ Lasts(o, AllTxs[b], Len(AllTxs[a]))

\* o is an unspent output on the chain of b, buried if it is a coinbase's.
Settled(o, b) ==
  Lasts(o, AllTxs[b], Len(AllTxs[b])) /\ (o[1] \in Coinbases => Buried(o, b))

\* Of two blocks of a chain the lower is on the chain of the higher.
LEMMA LowerOnChain ==
  ASSUME NEW b \in Blocks, NEW a \in Chain[b], NEW f \in Chain[b], Height[a] <= Height[f]
  PROVE  a \in Chain[f]
<1>1. a \in Blocks /\ f \in Blocks /\ Height[a] \in 0 .. Height[f] /\ Chain[f] \subseteq Chain[b]
  BY OnChain, HeightDef
<1>2. At(f, Height[a]) \in Chain[f] /\ Height[At(f, Height[a])] = Height[a]
  BY <1>1, BlockAt
<1>3. At(f, Height[a]) = a
  BY <1>1, <1>2, OneBlockAtAHeight
<1> QED BY <1>2, <1>3

\* The transactions of a lower block's chain come first.
LEMMA ShorterList ==
  ASSUME NEW b \in Blocks, NEW f \in Chain[b], NEW a \in Chain[f]
  PROVE  /\ Len(AllTxs[a]) \in Nat /\ Len(AllTxs[f]) \in Nat
         /\ Len(AllTxs[a]) <= Len(AllTxs[f])
<1>1. f \in Blocks /\ a \in Blocks
  BY OnChain
<1>2. AllTxs[a] \in Seq(Txs) /\ AllTxs[f] \in Seq(Txs)
  BY <1>1, AllTxsDef
<1>3. PICK D : D \in Seq(Txs) /\ AllTxs[f] = AllTxs[a] \o D
  BY <1>1, StretchTxs DEF Stretch
<1>4. Len(AllTxs[f]) = Len(AllTxs[a]) + Len(D) /\ Len(D) \in Nat
  BY <1>2, <1>3, Joined
<1> QED BY <1>2, <1>4

\* All of t is on the chain up to the block HeightOf tells.
MinedAt(t, b) ==
  \E a \in Chain[b] :
    /\ Height[a] = HeightOf(t, b)
    /\ \A i \in 1 .. Len(AllTxs[b]) : AllTxs[b][i] = t => i <= Len(AllTxs[a])

\* A transaction that is on a chain is there that way.
LEMMA MinedSomewhere ==
  ASSUME NEW b \in Blocks, NEW t \in Txs, t \in ToSet(AllTxs[b])
  PROVE  MinedAt(t, b)
<1> DEFINE P(x) == t \in ToSet(AllTxs[x]) => MinedAt(t, x)
           S == {x \in Blocks : P(x)}
<1>1. ASSUME NEW x \in Blocks, x = Genesis \/ Prev[x] \in S
      PROVE  P(x)
  <2>1. CASE x = Genesis
    <3>1. AllTxs[x] = <<>>
      BY <2>1, AllTxsDef
    <3>2. ToSet(AllTxs[x]) = {}
      BY <3>1 DEF ToSet
    <3> QED BY <3>2
  <2>2. CASE x # Genesis
    <3> SUFFICES ASSUME t \in ToSet(AllTxs[x]) PROVE MinedAt(t, x)
      OBVIOUS
    <3> DEFINE y == Prev[x]
    <3>1. y \in Blocks /\ AllTxs[x] = AllTxs[y] \o Vtx[x] /\ Chain[x] = {x} \cup Chain[y]
          /\ Vtx[x] \in Seq(Txs) /\ AllTxs[y] \in Seq(Txs) /\ x \in Chain[x]
      BY <2>2, ChainOfPrev, AllTxsDef, BlockAssumption
    <3>2. P(y)
      BY <1>1, <2>2
    <3> HIDE DEF y, P
    <3>3. /\ Len(AllTxs[x]) = Len(AllTxs[y]) + Len(Vtx[x])
          /\ Len(AllTxs[y]) \in Nat /\ Len(Vtx[x]) \in Nat
          /\ \A i \in 1 .. Len(AllTxs[y]) : AllTxs[x][i] = AllTxs[y][i]
          /\ \A i \in 1 .. Len(Vtx[x]) : AllTxs[x][Len(AllTxs[y]) + i] = Vtx[x][i]
          /\ ToSet(AllTxs[x]) = ToSet(AllTxs[y]) \cup ToSet(Vtx[x])
      <4> DEFINE A == AllTxs[y]
                 V == Vtx[x]
                 Z == AllTxs[x]
      <4>1. A \in Seq(Txs) /\ V \in Seq(Txs) /\ Z = A \o V
        BY <3>1
      <4> HIDE DEF A, V, Z
      <4>2. /\ Len(Z) = Len(A) + Len(V) /\ Len(A) \in Nat /\ Len(V) \in Nat
            /\ \A i \in 1 .. Len(A) : Z[i] = A[i]
            /\ \A i \in 1 .. Len(V) : Z[Len(A) + i] = V[i]
            /\ ToSet(Z) = ToSet(A) \cup ToSet(V)
        BY <4>1, Joined
      <4> QED BY <4>2 DEF A, V, Z
    <3> DEFINE l == Len(AllTxs[x])
               k == Len(AllTxs[y])
               m == Len(Vtx[x])
    <3> HIDE DEF l, k, m
    <3>l. l \in Nat /\ k \in Nat /\ m \in Nat /\ l = k + m
      <4>1. k \in Nat /\ m \in Nat /\ l = k + m
        BY <3>3 DEF l, k, m
      <4> QED BY <4>1
    <3>4. HeightOf(t, x) = IF t \in ToSet(Vtx[x]) THEN Height[x] ELSE HeightOf(t, y)
      BY <2>2, HeightOfIs DEF y
    <3>5. CASE t \in ToSet(Vtx[x])
      <4>1. Height[x] = HeightOf(t, x) /\ \A i \in 1 .. l : i <= l
        BY <3>l, <3>4, <3>5
      <4> QED BY <3>1, <4>1 DEF MinedAt, l
    <3>6. CASE t \notin ToSet(Vtx[x])
      <4>1. PICK a \in Chain[y] :
              /\ Height[a] = HeightOf(t, y)
              /\ \A i \in 1 .. k : AllTxs[y][i] = t => i <= Len(AllTxs[a])
        BY <3>2, <3>3, <3>6 DEF P, MinedAt, k
      <4>2. ASSUME NEW i \in 1 .. l, AllTxs[x][i] = t
            PROVE  i <= Len(AllTxs[a])
        <5>1. CASE i <= k
          <6>1. i \in 1 .. k
            BY <3>l, <5>1
          <6>2. AllTxs[y][i] = t
            BY <3>3, <4>2, <6>1 DEF k, l, m
          <6> QED BY <4>1, <6>1, <6>2
        <5>2. CASE ~(i <= k)
          <6>1. i - k \in 1 .. m /\ k + (i - k) = i
            BY <3>l, <5>2
          <6>2. Vtx[x][i - k] = t
            BY <3>3, <4>2, <6>1 DEF k, l, m
          <6>3. t \in ToSet(Vtx[x])
            BY <3>1, <6>1, <6>2 DEF ToSet, m
          <6> QED BY <3>6, <6>3
        <5> QED BY <5>1, <5>2
      <4> QED BY <3>1, <3>4, <3>6, <4>1, <4>2 DEF MinedAt, l
    <3> QED BY <3>5, <3>6
  <2> QED BY <2>1, <2>2
<1>2. \A x \in Blocks : x \in S
  <2> HIDE DEF P
  <2>1. \A x \in Blocks : (x = Genesis \/ Prev[x] \in S) => x \in S
    BY <1>1
  <2> HIDE DEF S
  <2> QED BY <2>1, TreeInduction
<1> QED BY <1>2

\* The outputs that last are the unspent ones.
LEMMA UnspentLasts ==
  ASSUME NEW p, NEW n, NEW s \in Seq(Txs)
  PROVE  n \in UnspentIn(p, s) <=> n \in DOMAIN Vout[p] /\ Lasts(<<p, n>>, s, Len(s))
<1> DEFINE here == {i \in DOMAIN s : s[i] = p}
<1>1. DOMAIN s = 1 .. Len(s) /\ Len(s) \in Nat
  OBVIOUS
<1>2. n \in UnspentIn(p, s) <=> /\ n \in DOMAIN Vout[p] /\ here # {}
                                /\ \A j \in 1 .. Len(s) : j > Max(here) => <<p, n>> \notin Inputs(s[j])
  BY <1>1 DEF UnspentIn, Inputs
<1>3. ASSUME here # {}
      PROVE  Max(here) \in here /\ \A y \in here : Max(here) >= y
  BY <1>1, <1>3, GreatestExists
<1>4. Lasts(<<p, n>>, s, Len(s))
        <=> \E i \in here : \A j \in 1 .. Len(s) : j > i => <<p, n>> \notin Inputs(s[j])
  BY <1>1 DEF Lasts
<1>5. here \subseteq 1 .. Len(s)
  BY <1>1
<1> HIDE DEF here
<1>6. ASSUME here # {}, NEW i \in here, \A j \in 1 .. Len(s) : j > i => <<p, n>> \notin Inputs(s[j])
      PROVE  \A j \in 1 .. Len(s) : j > Max(here) => <<p, n>> \notin Inputs(s[j])
  <2> DEFINE m == Max(here)
  <2>1. m \in here /\ m >= i
    BY <1>3, <1>6
  <2> HIDE DEF m
  <2>2. m \in Int /\ i \in Int
    BY <1>5, <2>1
  <2>3. \A j \in 1 .. Len(s) : j > m => j > i
    BY <2>1, <2>2
  <2>4. \A j \in 1 .. Len(s) : j > m => <<p, n>> \notin Inputs(s[j])
    BY <1>6, <2>3
  <2> QED BY <2>4 DEF m
<1> QED BY <1>2, <1>3, <1>4, <1>6

\* What the coins say of an output.
LEMMA AvailableIs ==
  ASSUME CoinInv, NEW p \in Txs, NEW n
  PROVE  /\ IsAvailable(coins, <<p, n>>)
              <=> n \in DOMAIN Vout[p] /\ Lasts(<<p, n>>, AllTxs[tip], Len(AllTxs[tip]))
         /\ IsAvailable(coins, <<p, n>>) =>
              coins[p].nHeight = HeightOf(p, tip) /\ (p \in Coinbases => coins[p].fCoinBase)
<1> DEFINE hs == [t \in Txs |-> HeightOf(t, tip)]
           s == AllTxs[tip]
<1>1. tip \in Blocks /\ Alike(coins, UtxoAt[tip]) /\ UndoOk(undo) /\ HasUndo(undo, tip)
  BY DEF CoinInv
<1>2. Valid(tip)
  BY <1>1, OnChain DEF HasUndo, UndoOk, Valid
<1>3. UnspentOf(UtxoAt[tip], s, hs) /\ Alike(UtxoAt[tip], coins)
  BY <1>1, <1>2, UtxoAtIsUnspent, AlikeIsAnEquivalence
<1>4. hs[p] = HeightOf(p, tip)
  OBVIOUS
<1>5. s \in Seq(Txs)
  BY <1>1, AllTxsDef
<1> HIDE DEF hs, s
<1>6. UnspentOf(coins, s, hs)
  BY <1>3, UnspentAlike
<1>7. EntryOf(coins, s, hs, p)
  BY <1>6 DEF UnspentOf
<1>8. IsAvailable(coins, <<p, n>>) <=> Live(coins[p]) /\ n \in coins[p].vout
  BY DEF IsAvailable, HaveCoins, Live
<1>9. n \in UnspentIn(p, s) <=> n \in DOMAIN Vout[p] /\ Lasts(<<p, n>>, s, Len(s))
  BY <1>5, UnspentLasts
<1>10. CASE UnspentIn(p, s) = {}
  BY <1>7, <1>8, <1>9, <1>10 DEF EntryOf, s
<1>11. CASE UnspentIn(p, s) # {}
  <2>1. Live(coins[p]) /\ coins[p] = Entry(p, hs[p], UnspentIn(p, s))
    BY <1>7, <1>11 DEF EntryOf
  <2>2. coins[p].vout = UnspentIn(p, s) /\ coins[p].nHeight = hs[p] /\ coins[p].fCoinBase = (p \in Coinbases)
    BY <2>1 DEF Entry
  <2> QED BY <1>4, <1>8, <1>9, <2>1, <2>2 DEF s
<1> QED BY <1>10, <1>11

\* What the coins give and CheckInputs lets through is settled.
LEMMA MatureIsSettled ==
  ASSUME CoinInv, NEW p \in Txs, NEW n, IsAvailable(coins, <<p, n>>),
         coins[p].fCoinBase => (Height[tip] + 1) - coins[p].nHeight >= COINBASE_MATURITY
  PROVE  n \in DOMAIN Vout[p] /\ Settled(<<p, n>>, tip)
<1> DEFINE s == AllTxs[tip]
           o == <<p, n>>
<1>1. n \in DOMAIN Vout[p] /\ Lasts(o, s, Len(s))
  BY AvailableIs
<1>2. tip \in Blocks /\ s \in Seq(Txs) /\ o[1] = p
  BY AllTxsDef DEF CoinInv
<1>3. ASSUME p \in Coinbases PROVE Buried(o, tip)
  <2>1. coins[p].nHeight = HeightOf(p, tip) /\ coins[p].fCoinBase
    BY <1>3, AvailableIs
  <2> HIDE DEF s, o
  <2>2. PICK i \in 1 .. Len(s) : s[i] = p /\ \A j \in i + 1 .. Len(s) : o \notin Inputs(s[j])
    BY <1>1, <1>2 DEF Lasts
  <2>3. p \in ToSet(s)
    BY <1>2, <2>2 DEF ToSet
  <2>4. PICK a \in Chain[tip] :
          /\ Height[a] = HeightOf(p, tip)
          /\ \A k \in 1 .. Len(s) : s[k] = p => k <= Len(AllTxs[a])
    BY <1>2, <2>3, MinedSomewhere DEF MinedAt, s
  <2>5. Height[a] + MaxReorg <= Height[tip]
    <3>1. (Height[tip] + 1) - Height[a] >= COINBASE_MATURITY
      BY <2>1, <2>4
    <3>2. Height[tip] \in Nat /\ Height[a] \in Nat
      BY <1>2, OnChain, HeightDef
    <3>3. COINBASE_MATURITY \in Nat /\ MaxReorg \in Nat /\ MaxReorg < COINBASE_MATURITY
      BY BlockAssumption, PoolAssumption
    <3> QED BY <3>1, <3>2, <3>3
  <2>6. Lasts(o, s, Len(AllTxs[a]))
    <3>1. i <= Len(AllTxs[a])
      BY <2>2, <2>4
    <3>2. Len(AllTxs[a]) \in Nat
      BY <1>2, OnChain, AllTxsDef
    <3>3. i \in 1 .. Len(AllTxs[a])
      BY <1>2, <3>1, <3>2
    <3> QED BY <1>2, <2>2, <3>3 DEF Lasts
  <2> QED BY <2>4, <2>5, <2>6 DEF Buried, s
<1> QED BY <1>1, <1>2, <1>3 DEF Settled

-----------------------------------------------------------------------------
(***************************************************************************)
(* Ways in and out of the pool.                                            *)
(***************************************************************************)
\* addUnchecked keeps mapNextTx exact when no input of t is in it yet.
LEMMA AddKeepsExact ==
  ASSUME NEW p, NEW t, Exact(p), Inputs(t) \cap DOMAIN p.next = {}
  PROVE  Exact(Add(p, t))
<1> DEFINE q == Add(p, t)
<1>1. /\ q.mapTx = p.mapTx \cup {t}
      /\ DOMAIN q.next = DOMAIN p.next \cup Inputs(t)
      /\ \A out \in DOMAIN q.next : q.next[out] = IF out \in Inputs(t) THEN t ELSE p.next[out]
  BY DEF Add
<1> HIDE DEF q
<1>2. DOMAIN q.next = UNION {Inputs(x) : x \in q.mapTx}
  BY <1>1 DEF Exact
<1>3. ASSUME NEW x \in q.mapTx, NEW out \in Inputs(x)
      PROVE  q.next[out] = x
  <2>1. out \in DOMAIN q.next
    BY <1>2
  <2>2. CASE x \in p.mapTx
    BY <1>1, <2>1, <2>2 DEF Exact
  <2>3. CASE x = t
    BY <1>1, <2>1, <2>3
  <2> QED BY <1>1, <2>2, <2>3
<1> QED BY <1>2, <1>3 DEF Exact, q

\* Erasing transactions together with their inputs keeps it exact: two
\* transactions of the pool have no input in common.
LEMMA WithoutKeepsExact ==
  ASSUME NEW p, NEW S, Exact(p)
  PROVE  Exact(Without(p, S))
<1> DEFINE gone == UNION {Inputs(t) : t \in S \cap p.mapTx}
           q == Without(p, S)
<1>1. /\ q.mapTx = p.mapTx \ S
      /\ DOMAIN q.next = DOMAIN p.next \ gone
      /\ \A out \in DOMAIN q.next : q.next[out] = p.next[out]
  BY DEF Without
<1>2. ASSUME NEW x \in q.mapTx, NEW out \in Inputs(x)
      PROVE  out \in DOMAIN p.next /\ out \notin gone
  BY <1>1 DEF Exact
<1> HIDE DEF q
<1>3. DOMAIN q.next = UNION {Inputs(x) : x \in q.mapTx}
  <2>1. ASSUME NEW out \in DOMAIN q.next
        PROVE  \E x \in q.mapTx : out \in Inputs(x)
    BY <1>1 DEF Exact
  <2> QED BY <1>1, <1>2, <2>1
<1>4. \A x \in q.mapTx : \A out \in Inputs(x) : q.next[out] = x
  BY <1>1, <1>2 DEF Exact
<1> QED BY <1>3, <1>4 DEF Exact, q

\* The transaction of o is still to come back, after the first d.
Returning(o, r, d) == \E i \in d + 1 .. Len(r) : r[i] = o[1]

\* A transaction still to be deleted spends o.
Claimed(o, r, v, d) == \E i \in 1 .. Len(v) : i > d - Len(r) /\ o \in Inputs(v[i])

Backed(o, b, S, r, v, d) ==
  Settled(o, b) \/ o[1] \in S \/ Returning(o, r, d) \/ Claimed(o, r, v, d)

\* The inputs of the transactions S, but for the wallet's.
Sources(b, S, r, v, d) ==
  \A t \in S \ Wallet : \A o \in Inputs(t) : o[2] \in DOMAIN Vout[o[1]] /\ Backed(o, b, S, r, v, d)

\* The transactions of v are the last of s.
Ends(s, v) == \E m \in Nat : Len(s) = m + Len(v) /\ \A i \in 1 .. Len(v) : s[m + i] = v[i]

\* An input is an output of a transaction.
LEMMA InputIs ==
  ASSUME NEW t \in Txs, NEW o \in Inputs(t)
  PROVE  /\ o[1] \in Txs /\ o[2] \in Nat /\ o = <<o[1], o[2]>>
         /\ \E i \in DOMAIN Vin[t] : Vin[t][i] = o
<1>1. Vin[t] \in Seq(Txs \X Nat)
  BY BlockAssumption
<1>2. PICK i \in DOMAIN Vin[t] : Vin[t][i] = o
  BY DEF Inputs, ToSet
<1>3. o \in Txs \X Nat
  BY <1>1, <1>2
<1> QED BY <1>2, <1>3

\* Descendants(p, t) holds all that spends t or one of them.
LEMMA DescendantsClosed ==
  ASSUME NEW p, Exact(p), NEW t, NEW x \in {t} \cup Descendants(p, t),
         NEW u \in p.mapTx, NEW o \in Inputs(u), o[1] = x
  PROVE  u \in Descendants(p, t)
<1> DEFINE Spenders(y) == {p.next[out] : out \in {e \in DOMAIN p.next : e[1] = y}}
           Closed(C) == Spenders(t) \subseteq C /\ \A y \in C : Spenders(y) \subseteq C
<1>1. o \in DOMAIN p.next /\ p.next[o] = u
  BY DEF Exact
<1>2. u \in Spenders(x)
  BY <1>1
<1>3. Descendants(p, t) = {y \in p.mapTx : \A C \in SUBSET p.mapTx : Closed(C) => y \in C}
  BY DEF Descendants
<1> HIDE DEF Spenders
<1>4. ASSUME NEW C \in SUBSET p.mapTx, Closed(C)
      PROVE  u \in C
  BY <1>2, <1>3, <1>4
<1> QED BY <1>3, <1>4

\* The inputs accept() lets through.
LEMMA AcceptedInputs ==
  ASSUME CoinInv, NEW p, p.mapTx \subseteq Txs, NEW t \in Txs, Accept(p, coins, tip, t) = "ok",
         NEW o \in Inputs(t)
  PROVE  o[2] \in DOMAIN Vout[o[1]] /\ (Settled(o, tip) \/ o[1] \in p.mapTx)
<1> DEFINE v == PoolView(p, coins)
           x == o[1]
           n == o[2]
<1>1. x \in Txs /\ o = <<x, n>> /\ \E i \in DOMAIN Vin[t] : Vin[t][i] = o
  BY InputIs
<1>2. CheckInputs(v, t, Height[tip] + 1)
  BY DEF Accept
<1>3. v[x] = IF HaveCoins(coins, x) THEN coins[x]
             ELSE IF x \in p.mapTx THEN CCoins(x, MEMPOOL_HEIGHT) ELSE Null
  BY <1>1 DEF PoolView
<1> HIDE DEF v, x, n
<1>4. /\ v[x] # Null /\ n \in v[x].vout
      /\ v[x].fCoinBase => (Height[tip] + 1) - v[x].nHeight >= COINBASE_MATURITY
  <2>1. PICK i \in DOMAIN Vin[t] : Vin[t][i] = o
    BY <1>1
  <2>2. o[1] = x /\ o[2] = n
    BY DEF x, n
  <2>3. IsAvailable(v, o)
    BY <1>2, <2>1 DEF CheckInputs, HaveInputs
  <2>4. v[x].fCoinBase => (Height[tip] + 1) - v[x].nHeight >= COINBASE_MATURITY
    <3>1. \A j \in DOMAIN Vin[t] :
            v[Vin[t][j][1]].fCoinBase => (Height[tip] + 1) - v[Vin[t][j][1]].nHeight >= COINBASE_MATURITY
      BY <1>2, Zenon DEF CheckInputs
    <3>2. Vin[t][i][1] = x
      BY <2>1, <2>2
    <3> QED BY <2>1, <3>1, <3>2, Zenon
  <2> QED BY <2>2, <2>3, <2>4 DEF IsAvailable, HaveCoins
<1>5. CASE HaveCoins(coins, x)
  <2>1. IsAvailable(coins, <<x, n>>)
    BY <1>3, <1>4, <1>5 DEF IsAvailable, HaveCoins
  <2>2. coins[x].fCoinBase => (Height[tip] + 1) - coins[x].nHeight >= COINBASE_MATURITY
    BY <1>3, <1>4, <1>5
  <2>3. n \in DOMAIN Vout[x] /\ Settled(<<x, n>>, tip)
    BY <1>1, <2>1, <2>2, MatureIsSettled
  <2> QED BY <1>1, <2>3 DEF x, n
<1>6. CASE ~HaveCoins(coins, x)
  <2>1. x \in p.mapTx /\ v[x] = CCoins(x, MEMPOOL_HEIGHT)
    BY <1>3, <1>4, <1>6
  <2>2. n \in DOMAIN Vout[x]
    BY <1>4, <2>1 DEF CCoins
  <2> QED BY <2>1, <2>2 DEF x, n
<1> QED BY <1>5, <1>6

\* One transaction more.
LEMMA SourcesAdd ==
  ASSUME NEW b, NEW S, NEW r, NEW v, NEW d, Sources(b, S, r, v, d), NEW t,
         t \in Wallet \/ \A o \in Inputs(t) : o[2] \in DOMAIN Vout[o[1]] /\ (Settled(o, b) \/ o[1] \in S)
  PROVE  Sources(b, S \cup {t}, r, v, d)
BY DEF Sources, Backed

\* Some less, with all that spends them.
LEMMA SourcesLess ==
  ASSUME NEW b, NEW S, NEW r, NEW v, NEW d, Sources(b, S, r, v, d), NEW G,
         \A u \in S \ G : \A o \in Inputs(u) : o[1] \notin G
  PROVE  Sources(b, S \ G, r, v, d)
BY DEF Sources, Backed

\* One of those to come back is dealt with.
LEMMA SourcesAdvance ==
  ASSUME NEW b, NEW S, NEW r, NEW v, NEW d \in Nat, Sources(b, S, r, v, d),
         Len(r) \in Nat, d < Len(r),
         \A u \in S : \A o \in Inputs(u) : o[1] = r[d + 1] => r[d + 1] \in S
  PROVE  Sources(b, S, r, v, d + 1)
<1> SUFFICES ASSUME NEW t \in S \ Wallet, NEW o \in Inputs(t)
             PROVE  o[2] \in DOMAIN Vout[o[1]] /\ Backed(o, b, S, r, v, d + 1)
  BY DEF Sources
<1>1. o[2] \in DOMAIN Vout[o[1]] /\ Backed(o, b, S, r, v, d)
  BY DEF Sources
<1>2. CASE Returning(o, r, d)
  <2>1. PICK i \in d + 1 .. Len(r) : r[i] = o[1]
    BY <1>2 DEF Returning
  <2>2. CASE i = d + 1
    BY <1>1, <2>1, <2>2 DEF Backed
  <2>3. CASE i # d + 1
    <3>1. i \in (d + 1) + 1 .. Len(r)
      BY <2>1, <2>3
    <3> QED BY <1>1, <2>1, <3>1 DEF Backed, Returning
  <2> QED BY <2>2, <2>3
<1>3. CASE Claimed(o, r, v, d)
  <2>1. PICK i \in 1 .. Len(v) : o \in Inputs(v[i])
    BY <1>3 DEF Claimed
  <2>2. i > d + 1 - Len(r)
    BY <2>1
  <2> QED BY <1>1, <2>1, <2>2 DEF Backed, Claimed
<1> QED BY <1>1, <1>2, <1>3 DEF Backed

\* What is left of the pool's inputs once the k-th of the transactions to delete
\* and its conflicts are gone.
LEMMA DeletedSources ==
  ASSUME NEW p, Exact(p), p.mapTx \subseteq Txs \ Coinbases, NEW b, NEW r, NEW v, NEW d \in Nat,
         Sources(b, p.mapTx, r, v, d), Len(r) \in Nat, Len(v) \in Nat, AllTxs[b] \in Seq(Txs), Ends(AllTxs[b], v),
         NEW k, k = d - Len(r) + 1, k \in 1 .. Len(v), NEW q, q = Deleted(p, v[k]),
         NEW t \in q.mapTx \ Wallet, NEW o \in Inputs(t)
  PROVE  /\ o[2] \in DOMAIN Vout[o[1]]
         /\ \/ Settled(o, b) \/ o[1] \in q.mapTx
            \/ \E i \in k + 1 .. Len(v) : o \in Inputs(v[i])
<1> DEFINE u == v[k]
           p1 == RemoveTx(p, u)
           G == UNION {{c} \cup Descendants(p1, c) : c \in ConflictsOf(p1, u)}
           s == AllTxs[b]
<1>1. p1.mapTx = p.mapTx \ {u} /\ Exact(p1)
  BY WithoutKeepsExact DEF RemoveTx, Without
<1>2. q.mapTx = p1.mapTx \ G
  BY DEF Deleted, RemoveConflicts, Without
<1> HIDE DEF p1, G, s
<1>3. t \in p1.mapTx /\ t \in p.mapTx \ Wallet /\ t \notin G /\ t # u
  BY <1>1, <1>2
<1>4. o[2] \in DOMAIN Vout[o[1]] /\ Backed(o, b, p.mapTx, r, v, d)
  BY <1>3 DEF Sources
<1>5. o \notin Inputs(u)
  <2> SUFFICES ASSUME o \in Inputs(u) PROVE FALSE
    OBVIOUS
  <2>1. o \in DOMAIN p1.next /\ p1.next[o] = t
    BY <1>1, <1>3 DEF Exact
  <2>2. t \in ConflictsOf(p1, u)
    BY <1>3, <2>1 DEF ConflictsOf
  <2> QED BY <1>3, <2>2 DEF G
<1>6. o[1] \notin G
  <2> SUFFICES ASSUME o[1] \in G PROVE FALSE
    OBVIOUS
  <2>1. PICK c \in ConflictsOf(p1, u) : o[1] \in {c} \cup Descendants(p1, c)
    BY DEF G
  <2>2. t \in Descendants(p1, c)
    BY <1>1, <1>3, <2>1, DescendantsClosed
  <2> QED BY <1>3, <2>2 DEF G
<1>7. CASE Settled(o, b)
  BY <1>4, <1>7
<1>8. CASE Returning(o, r, d)
  BY <1>8 DEF Returning
<1>9. CASE Claimed(o, r, v, d)
  <2>1. PICK i \in 1 .. Len(v) : i > d - Len(r) /\ o \in Inputs(v[i])
    BY <1>9 DEF Claimed
  <2>2. i # k
    BY <1>5, <2>1
  <2>3. i \in k + 1 .. Len(v)
    BY <2>1, <2>2
  <2> QED BY <1>4, <2>1, <2>3
<1>10. CASE o[1] \in p.mapTx
  <2>1. CASE o[1] # u
    BY <1>1, <1>2, <1>4, <1>6, <1>10, <2>1
  <2>2. CASE o[1] = u
    <3>1. PICK m \in Nat : Len(s) = m + Len(v) /\ \A i \in 1 .. Len(v) : s[m + i] = v[i]
      BY DEF Ends, s
    <3>2. ASSUME ~(\E i \in k + 1 .. Len(v) : o \in Inputs(v[i]))
          PROVE  Lasts(o, s, Len(s))
      <4>1. m + k \in 1 .. Len(s) /\ s[m + k] = o[1]
        BY <2>2, <3>1
      <4>2. ASSUME NEW j \in (m + k) + 1 .. Len(s)
            PROVE  o \notin Inputs(s[j])
        <5>1. j - m \in k + 1 .. Len(v) /\ j - m \in 1 .. Len(v) /\ m + (j - m) = j
          BY <3>1
        <5>2. s[m + (j - m)] = v[j - m]
          BY <3>1, <5>1
        <5>3. o \notin Inputs(v[j - m])
          BY <3>2, <5>1
        <5> QED BY <5>1, <5>2, <5>3
      <4> QED BY <4>1, <4>2 DEF Lasts
    <3>3. o[1] \notin Coinbases
      BY <1>10
    <3> QED BY <1>4, <3>2, <3>3 DEF Settled, s
  <2> QED BY <2>1, <2>2
<1> QED BY <1>4, <1>7, <1>8, <1>9, <1>10 DEF Backed

-----------------------------------------------------------------------------
(***************************************************************************)
(* The invariant.                                                          *)
(***************************************************************************)
Counting ==
  IF vDelete = <<>> THEN vResurrect = <<>> /\ done = 0
                    ELSE done \in 0 .. Len(vResurrect) + Len(vDelete) - 1

PoolInv ==
  /\ CoinInv /\ Exact(pool) /\ pool.mapTx \subseteq Txs \ Coinbases
  /\ vResurrect \in Seq(Txs \ Coinbases) /\ vDelete \in Seq(Txs) /\ Counting
  /\ Ends(AllTxs[tip], vDelete)
  /\ Sources(tip, pool.mapTx, vResurrect, vDelete, done)

\* Nothing is at the end of every list.
LEMMA EndsInNothing ==
  ASSUME NEW s \in Seq(Txs)
  PROVE  Ends(s, <<>>)
<1>1. Len(s) \in Nat /\ Len(<<>>) = 0 /\ Len(s) = Len(s) + 0 /\ 1 .. 0 = {}
  OBVIOUS
<1> QED BY <1>1 DEF Ends

\* The coins stay as they are when their variables do.
LEMMA CoinsStutter ==
  ASSUME CoinInv, UNCHANGED coinVars
  PROVE  CoinInv' /\ tip' = tip
BY DEF CoinInv, coinVars

\* Only the pool changes.
LEMMA OnlyPool ==
  ASSUME PoolInv, UNCHANGED <<coinVars, lists>>, Exact(pool'), pool'.mapTx \subseteq Txs \ Coinbases,
         Sources(tip, pool'.mapTx, vResurrect, vDelete, done)
  PROVE  PoolInv'
<1>1. CoinInv' /\ tip' = tip
  BY CoinsStutter DEF PoolInv
<1>2. vResurrect' = vResurrect /\ vDelete' = vDelete /\ done' = done
  BY DEF lists
<1>3. Counting'
  BY <1>2 DEF PoolInv, Counting
<1> QED BY <1>1, <1>2, <1>3 DEF PoolInv

\* A transaction goes in.
LEMMA PoolAdds ==
  ASSUME PoolInv, NEW t \in Txs, Acceptable(pool, t),
         t \in Wallet \/ Accept(pool, coins, tip, t) = "ok"
  PROVE  LET q == Add(pool, t)
         IN  /\ Exact(q) /\ q.mapTx \subseteq Txs \ Coinbases /\ q.mapTx = pool.mapTx \cup {t}
             /\ Sources(tip, q.mapTx, vResurrect, vDelete, done)
<1> DEFINE q == Add(pool, t)
<1>1. Exact(q)
  BY AddKeepsExact DEF PoolInv, Acceptable
<1>2. q.mapTx = pool.mapTx \cup {t}
  BY DEF Add
<1> HIDE DEF q
<1>3. q.mapTx \subseteq Txs \ Coinbases
  BY <1>2 DEF PoolInv, Acceptable
<1>4. t \in Wallet \/ \A o \in Inputs(t) : o[2] \in DOMAIN Vout[o[1]] /\ (Settled(o, tip) \/ o[1] \in pool.mapTx)
  <2> SUFFICES ASSUME t \notin Wallet, NEW o \in Inputs(t)
               PROVE  o[2] \in DOMAIN Vout[o[1]] /\ (Settled(o, tip) \/ o[1] \in pool.mapTx)
    OBVIOUS
  <2> QED BY AcceptedInputs DEF PoolInv
<1>5. Sources(tip, pool.mapTx \cup {t}, vResurrect, vDelete, done)
  <2>1. Sources(tip, pool.mapTx, vResurrect, vDelete, done)
    BY DEF PoolInv
  <2> QED BY <1>4, <2>1, SourcesAdd
<1> QED BY <1>1, <1>2, <1>3, <1>5 DEF q

\* accept() takes only what is acceptable.
LEMMA AcceptIsAcceptable ==
  ASSUME NEW p, NEW view, NEW b, NEW t, Accept(p, view, b, t) # "no"
  PROVE  Acceptable(p, t)
BY DEF Accept

\* Peers, users, the wallet.
LEMMA PoolEnters ==
  ASSUME PoolInv, NEW t \in Txs, TxAccepted(t) \/ SendTx(t) \/ ReacceptWalletTransaction(t)
  PROVE  PoolInv'
<1>1. Acceptable(pool, t) /\ (t \in Wallet \/ Accept(pool, coins, tip, t) = "ok")
  <2>1. CASE TxAccepted(t)
    BY <2>1, AcceptIsAcceptable DEF TxAccepted
  <2>2. CASE SendTx(t)
    BY <2>2, AcceptIsAcceptable DEF SendTx
  <2>3. CASE ReacceptWalletTransaction(t)
    BY <2>3 DEF ReacceptWalletTransaction
  <2> QED BY <2>1, <2>2, <2>3
<1>2. pool' = Add(pool, t) /\ UNCHANGED <<coinVars, lists>>
  BY DEF TxAccepted, SendTx, ReacceptWalletTransaction
<1>3. Exact(pool') /\ pool'.mapTx \subseteq Txs \ Coinbases
      /\ Sources(tip, pool'.mapTx, vResurrect, vDelete, done)
  BY <1>1, <1>2, PoolAdds
<1> QED BY <1>2, <1>3, OnlyPool

\* One transaction comes back, or goes with all that spends it.
LEMMA PoolResurrects ==
  ASSUME PoolInv, ResurrectTx
  PROVE  PoolInv'
<1> DEFINE t == vResurrect[done + 1]
<1>1. vResurrect \in Seq(Txs \ Coinbases) /\ vDelete \in Seq(Txs) /\ done < Len(vResurrect) /\ done' = done + 1
      /\ UNCHANGED <<coinVars, vResurrect, vDelete>>
  BY DEF PoolInv, ResurrectTx
<1>2. vDelete # <<>> /\ done \in Nat /\ Len(vResurrect) \in Nat /\ Len(vDelete) \in Nat \ {0}
  <2>1. vDelete # <<>>
    BY <1>1 DEF PoolInv, Counting
  <2>2. done \in 0 .. Len(vResurrect) + Len(vDelete) - 1
    BY <2>1 DEF PoolInv, Counting
  <2> QED BY <1>1, <2>1, <2>2
<1>3. t \in Txs
  BY <1>1, <1>2
<1>4. /\ Exact(pool') /\ pool'.mapTx \subseteq Txs \ Coinbases
      /\ Sources(tip, pool'.mapTx, vResurrect, vDelete, done)
      /\ \A u \in pool'.mapTx : \A o \in Inputs(u) : o[1] = t => t \in pool'.mapTx
  <2>1. CASE Accept(pool, coins, tip, t) = "ok"
    <3>1. pool' = Add(pool, t)
      BY <2>1 DEF ResurrectTx
    <3>2. Acceptable(pool, t)
      BY <2>1, AcceptIsAcceptable
    <3> HIDE DEF t
    <3> QED BY <1>3, <2>1, <3>1, <3>2, PoolAdds
  <2>2. CASE Accept(pool, coins, tip, t) # "ok"
    <3> DEFINE G == {t} \cup Descendants(pool, t)
    <3>1. pool' = Without(pool, G)
      BY <2>2 DEF ResurrectTx, RemoveRecursive
    <3>2. pool'.mapTx = pool.mapTx \ G
      BY <3>1 DEF Without
    <3> HIDE DEF t
    <3>3. \A u \in pool.mapTx \ G : \A o \in Inputs(u) : o[1] \notin G
      <4> SUFFICES ASSUME NEW u \in pool.mapTx \ G, NEW o \in Inputs(u), o[1] \in G
                   PROVE  FALSE
        OBVIOUS
      <4> QED BY DescendantsClosed DEF PoolInv
    <3>4. Exact(pool')
      BY <3>1, WithoutKeepsExact DEF PoolInv
    <3> HIDE DEF G
    <3>5. Sources(tip, pool'.mapTx, vResurrect, vDelete, done)
      <4>1. Sources(tip, pool.mapTx, vResurrect, vDelete, done)
        BY DEF PoolInv
      <4>2. Sources(tip, pool.mapTx \ G, vResurrect, vDelete, done)
        BY <3>3, <4>1, SourcesLess
      <4> QED BY <3>2, <4>2
    <3>6. \A u \in pool'.mapTx : \A o \in Inputs(u) : o[1] # t
      BY <3>2, <3>3 DEF G
    <3> QED BY <3>2, <3>4, <3>5, <3>6 DEF PoolInv
  <2> QED BY <2>1, <2>2
<1>5. Sources(tip, pool'.mapTx, vResurrect, vDelete, done + 1)
  BY <1>1, <1>2, <1>4, SourcesAdvance
<1>6. CoinInv' /\ tip' = tip
  BY <1>1, CoinsStutter DEF PoolInv
<1>7. Counting'
  BY <1>1, <1>2 DEF Counting
<1>8. vResurrect' = vResurrect /\ vDelete' = vDelete /\ Ends(AllTxs[tip'], vDelete')
  BY <1>1, <1>6 DEF PoolInv
<1>9. Sources(tip', pool'.mapTx, vResurrect', vDelete', done')
  BY <1>1, <1>5, <1>6, <1>8
<1> QED BY <1>1, <1>4, <1>6, <1>7, <1>8, <1>9 DEF PoolInv

\* One transaction of the new blocks goes, with all that conflicts with it.
LEMMA PoolDeletes ==
  ASSUME PoolInv, DeleteTx
  PROVE  PoolInv'
<1> DEFINE n == Len(vResurrect)
           m == Len(vDelete)
           k == done - n + 1
           s == AllTxs[tip]
<1>1. /\ vResurrect \in Seq(Txs \ Coinbases) /\ vDelete \in Seq(Txs) /\ ~Idle /\ done >= n
      /\ UNCHANGED coinVars /\ pool' = Deleted(pool, vDelete[k])
      /\ Exact(pool) /\ pool.mapTx \subseteq Txs \ Coinbases
      /\ Sources(tip, pool.mapTx, vResurrect, vDelete, done) /\ Ends(s, vDelete)
  BY DEF PoolInv, DeleteTx
<1>2. IF done + 1 < n + m THEN done' = done + 1 /\ UNCHANGED <<vResurrect, vDelete>>
                          ELSE done' = 0 /\ vResurrect' = <<>> /\ vDelete' = <<>>
  BY DEF DeleteTx
<1>3. vDelete # <<>> /\ done \in 0 .. n + m - 1
  <2>1. vDelete # <<>>
    BY <1>1 DEF PoolInv, Counting, Idle
  <2>2. done \in 0 .. n + m - 1
    BY <2>1 DEF PoolInv, Counting
  <2> QED BY <2>1, <2>2
<1>4. CoinInv' /\ tip' = tip /\ s \in Seq(Txs)
  <2>1. CoinInv' /\ tip' = tip
    BY <1>1, CoinsStutter DEF PoolInv
  <2>2. tip \in Blocks
    BY DEF PoolInv, CoinInv
  <2> QED BY <2>1, <2>2, AllTxsDef
<1>5. n \in Nat /\ m \in Nat
  BY <1>1
<1>6. Exact(pool') /\ pool'.mapTx \subseteq Txs \ Coinbases
  <2> HIDE DEF k
  <2>1. Exact(pool')
    BY <1>1, WithoutKeepsExact DEF Deleted, RemoveTx, RemoveConflicts
  <2>2. pool'.mapTx \subseteq pool.mapTx
    BY <1>1 DEF Deleted, RemoveTx, RemoveConflicts, Without
  <2> QED BY <1>1, <2>1, <2>2
<1> HIDE DEF n, m, s
<1>7. k \in 1 .. m /\ done \in Nat
  BY <1>1, <1>3, <1>5
<1>8. ASSUME NEW t \in pool'.mapTx \ Wallet, NEW o \in Inputs(t)
      PROVE  /\ o[2] \in DOMAIN Vout[o[1]]
             /\ \/ Settled(o, tip) \/ o[1] \in pool'.mapTx
                \/ \E i \in k + 1 .. m : o \in Inputs(vDelete[i])
  <2> DEFINE q == pool'
             v == vDelete
             r == vResurrect
             d == done
             p == pool
  <2>1. /\ Exact(p) /\ p.mapTx \subseteq Txs \ Coinbases /\ d \in Nat /\ Sources(tip, p.mapTx, r, v, d)
        /\ Len(r) \in Nat /\ Len(v) \in Nat /\ AllTxs[tip] \in Seq(Txs) /\ Ends(AllTxs[tip], v)
        /\ k = d - Len(r) + 1 /\ k \in 1 .. Len(v) /\ q = Deleted(p, v[k])
        /\ t \in q.mapTx \ Wallet
    BY <1>1, <1>4, <1>5, <1>7, <1>8 DEF n, m, s
  <2> HIDE DEF k, q, v, r, d, p
  <2>2. /\ o[2] \in DOMAIN Vout[o[1]]
        /\ \/ Settled(o, tip) \/ o[1] \in q.mapTx
           \/ \E i \in k + 1 .. Len(v) : o \in Inputs(v[i])
    BY <2>1, DeletedSources
  <2> QED BY <2>2 DEF q, v, m
<1>9. CASE done + 1 < n + m
  <2>1. done' = done + 1 /\ vResurrect' = vResurrect /\ vDelete' = vDelete
    BY <1>2, <1>9
  <2>2. Sources(tip, pool'.mapTx, vResurrect, vDelete, done + 1)
    <3> SUFFICES ASSUME NEW t \in pool'.mapTx \ Wallet, NEW o \in Inputs(t)
                 PROVE  o[2] \in DOMAIN Vout[o[1]]
                        /\ Backed(o, tip, pool'.mapTx, vResurrect, vDelete, done + 1)
      BY DEF Sources
    <3>1. /\ o[2] \in DOMAIN Vout[o[1]]
          /\ \/ Settled(o, tip) \/ o[1] \in pool'.mapTx
             \/ \E i \in k + 1 .. m : o \in Inputs(vDelete[i])
      BY <1>8
    <3>2. ASSUME NEW i \in k + 1 .. m
          PROVE  i \in 1 .. m /\ i > (done + 1) - n
      BY <1>5, <1>7
    <3>3. ASSUME NEW i \in k + 1 .. m, o \in Inputs(vDelete[i])
          PROVE  Claimed(o, vResurrect, vDelete, done + 1)
      BY <3>2, <3>3 DEF Claimed, n, m
    <3> HIDE DEF k
    <3> QED BY <3>1, <3>3 DEF Backed
  <2>3. Counting'
    <3>1. done + 1 \in 0 .. n + m - 1
      BY <1>5, <1>7, <1>9
    <3> QED BY <1>3, <2>1, <3>1 DEF Counting, n, m
  <2>4. Ends(AllTxs[tip'], vDelete')
    BY <1>1, <1>4, <2>1 DEF s
  <2>5. Sources(tip', pool'.mapTx, vResurrect', vDelete', done')
    BY <1>4, <2>1, <2>2
  <2> QED BY <1>1, <1>4, <1>6, <2>1, <2>3, <2>4, <2>5 DEF PoolInv
<1>10. CASE ~(done + 1 < n + m)
  <2>1. done' = 0 /\ vResurrect' = <<>> /\ vDelete' = <<>>
    BY <1>2, <1>10
  <2>2. k + 1 .. m = {}
    BY <1>3, <1>5, <1>7, <1>10
  <2>3. Sources(tip, pool'.mapTx, <<>>, <<>>, 0)
    <3> HIDE DEF k
    <3>1. ASSUME NEW t \in pool'.mapTx \ Wallet, NEW o \in Inputs(t)
          PROVE  o[2] \in DOMAIN Vout[o[1]] /\ (Settled(o, tip) \/ o[1] \in pool'.mapTx)
      BY <1>8, <2>2
    <3> QED BY <3>1 DEF Sources, Backed
  <2>4. Ends(AllTxs[tip'], vDelete') /\ Counting'
    BY <1>4, <2>1, EndsInNothing DEF Counting, s
  <2>5. Sources(tip', pool'.mapTx, vResurrect', vDelete', done')
    BY <1>4, <2>1, <2>3
  <2>6. vResurrect' \in Seq(Txs \ Coinbases) /\ vDelete' \in Seq(Txs)
    BY <2>1
  <2> QED BY <1>4, <1>6, <2>4, <2>5, <2>6 DEF PoolInv
<1> QED BY <1>9, <1>10

\* A longer beginning.
LEMMA LastsMore ==
  ASSUME NEW o, NEW s, NEW m \in Nat, NEW n \in Nat, m <= n, Lasts(o, s, m)
  PROVE  Lasts(o, s, n)
<1>1. PICK i \in 1 .. m : s[i] = o[1] /\ \A j \in i + 1 .. Len(s) : o \notin Inputs(s[j])
  BY DEF Lasts
<1>2. i \in 1 .. n
  OBVIOUS
<1> QED BY <1>1, <1>2 DEF Lasts

\* What P holds of s \o D it holds of P \o D that does not spend the output.
LEMMA LastsMoved ==
  ASSUME NEW o, NEW P \in Seq(Txs), NEW C \in Seq(Txs), NEW D \in Seq(Txs),
         \A i \in 1 .. Len(D) : o \notin Inputs(D[i]),
         NEW m \in Nat, m <= Len(P), Lasts(o, P \o C, m)
  PROVE  Lasts(o, P \o D, m)
<1> DEFINE s == P \o C
           t == P \o D
<1>1. /\ Len(P) \in Nat /\ Len(C) \in Nat /\ Len(D) \in Nat
      /\ Len(s) = Len(P) + Len(C) /\ Len(t) = Len(P) + Len(D)
      /\ \A i \in 1 .. Len(P) : s[i] = P[i] /\ t[i] = P[i]
      /\ \A i \in 1 .. Len(D) : t[Len(P) + i] = D[i]
  BY Joined
<1>2. PICK i \in 1 .. m : s[i] = o[1] /\ \A j \in i + 1 .. Len(s) : o \notin Inputs(s[j])
  BY DEF Lasts
<1> HIDE DEF s, t
<1>3. i \in 1 .. Len(P) /\ t[i] = o[1]
  BY <1>1, <1>2
<1>4. ASSUME NEW j \in i + 1 .. Len(t)
      PROVE  o \notin Inputs(t[j])
  <2>1. CASE j <= Len(P)
    <3>1. j \in 1 .. Len(P) /\ j \in i + 1 .. Len(s)
      BY <1>1, <2>1
    <3> QED BY <1>1, <1>2, <3>1
  <2>2. CASE ~(j <= Len(P))
    <3>1. j - Len(P) \in 1 .. Len(D) /\ Len(P) + (j - Len(P)) = j
      BY <1>1, <2>2
    <3>2. t[Len(P) + (j - Len(P))] = D[j - Len(P)]
      BY <1>1, <3>1
    <3> QED BY <3>1, <3>2
  <2> QED BY <2>1, <2>2
<1> QED BY <1>2, <1>3, <1>4 DEF Lasts, t

\* A settled output, when the tip goes from b to new.
LEMMA SettledMoves ==
  ASSUME NEW b \in Blocks, NEW new \in Blocks, NEW f \in Chain[b] \cap Chain[new],
         Height[b] - Height[f] <= MaxReorg, Height[new] > Height[b],
         NEW R, R = NotCoinbases(TxsOf(Downwards(Chain[b] \ Chain[f]))),
         NEW D, D = TxsOf(Upwards(Chain[new] \ Chain[f])),
         NEW o, Settled(o, b)
  PROVE  Settled(o, new) \/ Returning(o, R, 0) \/ Claimed(o, R, D, 0)
<1> DEFINE P == AllTxs[f]
           C == TxsOf(Upwards(Chain[b] \ Chain[f]))
<1>1. C \in Seq(Txs) /\ P \in Seq(Txs) /\ AllTxs[b] = P \o C
      /\ R \in Seq(Txs \ Coinbases) /\ ToSet(C) \ Coinbases \subseteq ToSet(R)
  BY StretchTxs DEF Stretch
<1>2. D \in Seq(Txs) /\ AllTxs[new] = P \o D
  BY StretchTxs DEF Stretch
<1>3. f \in Blocks /\ Height[f] \in Nat /\ Height[b] \in Nat /\ Height[new] \in Nat /\ MaxReorg \in Nat
      /\ Chain[f] \subseteq Chain[new]
  BY OnChain, HeightDef, PoolAssumption
<1> HIDE DEF P, C
<1>4. /\ Len(P) \in Nat /\ Len(C) \in Nat /\ Len(D) \in Nat /\ Len(R) \in Nat
      /\ Len(P \o C) = Len(P) + Len(C) /\ Len(P \o D) = Len(P) + Len(D)
      /\ \A i \in 1 .. Len(C) : (P \o C)[Len(P) + i] = C[i]
  BY <1>1, <1>2, Joined
<1> SUFFICES ASSUME ~Claimed(o, R, D, 0), ~Returning(o, R, 0)
             PROVE  Settled(o, new)
  OBVIOUS
<1>5. \A i \in 1 .. Len(D) : o \notin Inputs(D[i])
  <2> SUFFICES ASSUME NEW i \in 1 .. Len(D), o \in Inputs(D[i]) PROVE FALSE
    OBVIOUS
  <2>1. i > 0 - Len(R)
    BY <1>4
  <2> QED BY <2>1 DEF Claimed
<1>6. ASSUME NEW m \in Nat, m <= Len(P), Lasts(o, P \o C, m)
      PROVE  Lasts(o, P \o D, m) /\ Lasts(o, P \o D, Len(P \o D))
  <2>1. Lasts(o, P \o D, m)
    BY <1>1, <1>2, <1>5, <1>6, LastsMoved
  <2>2. Len(P \o D) \in Nat /\ m <= Len(P \o D)
    <3>1. Len(P) + Len(D) \in Nat /\ m <= Len(P) + Len(D)
      BY <1>4, <1>6
    <3> QED BY <1>4, <3>1
  <2> QED BY <2>1, <2>2, LastsMore
<1>7. CASE o[1] \in Coinbases
  <2>1. PICK a \in Chain[b] : Height[a] + MaxReorg <= Height[b] /\ Lasts(o, P \o C, Len(AllTxs[a]))
    BY <1>1, <1>7 DEF Settled, Buried
  <2>2. Height[a] \in Nat
    BY OnChain, HeightDef
  <2>3. a \in Chain[f]
    <3>1. Height[a] <= Height[f]
      BY <1>3, <2>1, <2>2
    <3> QED BY <3>1, LowerOnChain
  <2>4. Len(AllTxs[a]) \in Nat /\ Len(AllTxs[a]) <= Len(P)
    BY <2>3, ShorterList DEF P
  <2>5. Lasts(o, P \o D, Len(AllTxs[a])) /\ Lasts(o, P \o D, Len(P \o D))
    BY <1>6, <2>1, <2>4
  <2>6. a \in Chain[new] /\ Height[a] + MaxReorg <= Height[new]
    BY <1>3, <2>1, <2>2, <2>3
  <2> QED BY <1>2, <2>5, <2>6 DEF Settled, Buried
<1>8. CASE o[1] \notin Coinbases
  <2>1. PICK i \in 1 .. Len(P \o C) : /\ (P \o C)[i] = o[1]
                                      /\ \A j \in i + 1 .. Len(P \o C) : o \notin Inputs((P \o C)[j])
    BY <1>1 DEF Settled, Lasts
  <2>2. CASE i <= Len(P)
    <3>1. i \in 1 .. Len(P)
      BY <1>4, <2>2
    <3>2. Lasts(o, P \o C, Len(P))
      BY <2>1, <3>1 DEF Lasts
    <3>3. Lasts(o, P \o D, Len(P \o D))
      <4>1. Len(P) \in Nat /\ Len(P) <= Len(P)
        BY <1>4
      <4> QED BY <1>6, <3>2, <4>1
    <3> QED BY <1>2, <1>8, <3>3 DEF Settled
  <2>3. CASE ~(i <= Len(P))
    <3>1. i - Len(P) \in 1 .. Len(C) /\ Len(P) + (i - Len(P)) = i
      <4>1. i \in 1 .. Len(P) + Len(C)
        BY <1>4
      <4> QED BY <1>4, <2>3, <4>1
    <3>2. C[i - Len(P)] = o[1]
      <4>1. (P \o C)[Len(P) + (i - Len(P))] = C[i - Len(P)]
        BY <1>4, <3>1
      <4> QED BY <2>1, <3>1, <4>1
    <3>3. o[1] \in ToSet(C)
      BY <1>1, <3>1, <3>2 DEF ToSet
    <3>4. PICK j \in DOMAIN R : R[j] = o[1]
      <4>1. o[1] \in ToSet(R)
        BY <1>1, <1>8, <3>3
      <4> QED BY <4>1 DEF ToSet
    <3>5. j \in 0 + 1 .. Len(R)
      BY <1>1, <3>4
    <3> QED BY <3>4, <3>5 DEF Returning
  <2> QED BY <2>2, <2>3
<1> QED BY <1>7, <1>8

\* SetBestChain moves the coins, or gives up.
LEMMA PoolBestChain ==
  ASSUME PoolInv, NEW new \in Blocks, NewBestChain(new)
  PROVE  PoolInv'
<1>1. /\ vResurrect = <<>> /\ vDelete = <<>> /\ done = 0 /\ pool' = pool /\ done' = done
      /\ Cardinality(Chain[tip] \ Chain[new]) <= MaxReorg /\ SetBestChain(new)
      /\ Exact(pool) /\ pool.mapTx \subseteq Txs \ Coinbases
      /\ Sources(tip, pool.mapTx, <<>>, <<>>, 0)
  BY DEF PoolInv, NewBestChain, Idle, Counting
<1>2. CoinInv' /\ tip \in Blocks /\ Height[new] > Height[tip]
  BY <1>1, CoinSetBestChain DEF PoolInv, CoinInv, SetBestChain
<1>3. CASE tip' # new
  <2>1. tip' = tip /\ vResurrect' = vResurrect /\ vDelete' = vDelete
    BY <1>1, <1>3 DEF NewBestChain, SetBestChain
  <2> QED BY <1>1, <1>2, <2>1 DEF PoolInv, Counting
<1>4. CASE tip' = new
  <2>1. PICK f \in Chain[tip] \cap Chain[new] : Chain[tip] \cap Chain[new] = Chain[f]
    BY <1>2, ForkExists
  <2>2. Chain[tip] \ Chain[new] = Chain[tip] \ Chain[f] /\ Chain[new] \ Chain[tip] = Chain[new] \ Chain[f]
    BY <2>1
  <2> DEFINE R == NotCoinbases(TxsOf(Downwards(Chain[tip] \ Chain[f])))
             D == TxsOf(Upwards(Chain[new] \ Chain[f]))
  <2>3. vResurrect' = R /\ vDelete' = D
    BY <1>4, <2>2 DEF NewBestChain
  <2>4. /\ Height[tip] - Height[f] <= MaxReorg /\ f # new
    <3>1. Height[f] <= Height[tip] /\ Height[f] \in Nat /\ Height[tip] \in Nat /\ Height[new] \in Nat
      BY <1>2, <2>1, OnChain, HeightDef
    <3>2. Cardinality(Chain[tip] \ Chain[f]) = Height[tip] - Height[f]
      BY <1>2, <2>1, StretchCardinality
    <3>3. Cardinality(Chain[tip] \ Chain[f]) <= MaxReorg
      BY <1>1, <2>2
    <3>4. Height[f] # Height[new]
      BY <1>2, <3>1
    <3> QED BY <3>2, <3>3, <3>4
  <2>5. R \in Seq(Txs \ Coinbases)
    BY <1>2, <2>1, StretchTxs DEF Stretch
  <2>6. D \in Seq(Txs) /\ D # <<>> /\ AllTxs[f] \in Seq(Txs) /\ AllTxs[new] = AllTxs[f] \o D
    BY <2>1, <2>4, StretchTxs DEF Stretch
  <2>7. ASSUME NEW o, Settled(o, tip)
        PROVE  Settled(o, new) \/ Returning(o, R, 0) \/ Claimed(o, R, D, 0)
    BY <1>2, <2>1, <2>4, <2>7, SettledMoves
  <2> HIDE DEF R, D
  <2>8. Sources(new, pool.mapTx, R, D, 0)
    <3> SUFFICES ASSUME NEW t \in pool.mapTx \ Wallet, NEW o \in Inputs(t)
                 PROVE  o[2] \in DOMAIN Vout[o[1]] /\ Backed(o, new, pool.mapTx, R, D, 0)
      BY DEF Sources
    <3>1. o[2] \in DOMAIN Vout[o[1]] /\ Backed(o, tip, pool.mapTx, <<>>, <<>>, 0)
      BY <1>1 DEF Sources
    <3>2. ~Returning(o, <<>>, 0) /\ ~Claimed(o, <<>>, <<>>, 0)
      <4>1. Len(<<>>) = 0 /\ 1 .. 0 = {} /\ 0 + 1 .. 0 = {}
        OBVIOUS
      <4> QED BY <4>1 DEF Returning, Claimed
    <3> QED BY <2>7, <3>1, <3>2 DEF Backed
  <2>9. Ends(AllTxs[new], D)
    <3> DEFINE P == AllTxs[f]
    <3> HIDE DEF P
    <3>1. Len(P) \in Nat /\ Len(P \o D) = Len(P) + Len(D) /\ \A i \in 1 .. Len(D) : (P \o D)[Len(P) + i] = D[i]
      BY <2>6, Joined DEF P
    <3>2. Ends(P \o D, D)
      BY <3>1 DEF Ends
    <3> QED BY <2>6, <3>2 DEF P
  <2>10. Counting'
    <3>1. Len(R) \in Nat /\ Len(D) \in Nat \ {0}
      BY <2>5, <2>6
    <3>2. 0 \in 0 .. Len(R) + Len(D) - 1
      BY <3>1
    <3> QED BY <1>1, <2>3, <2>6, <3>2 DEF Counting
  <2> QED BY <1>1, <1>2, <1>4, <2>3, <2>5, <2>6, <2>8, <2>9, <2>10 DEF PoolInv
<1> QED BY <1>3, <1>4

\* A restart forgets the pool.
LEMMA PoolRestarts ==
  ASSUME PoolInv, PoolRestart
  PROVE  PoolInv'
<1>1. Restart /\ UNCHANGED lists /\ pool'.mapTx = {} /\ Exact(pool') /\ vDelete = <<>>
  BY DEF PoolRestart, Exact, Idle
<1>2. CoinInv'
  BY <1>1, CoinRestart DEF PoolInv
<1>3. AllTxs[tip'] \in Seq(Txs)
  BY <1>2, AllTxsDef DEF CoinInv
<1>4. vResurrect' = vResurrect /\ vDelete' = vDelete /\ done' = done
  BY <1>1 DEF lists
<1>5. Ends(AllTxs[tip'], vDelete') /\ Sources(tip', pool'.mapTx, vResurrect', vDelete', done')
  BY <1>1, <1>3, <1>4, EndsInNothing DEF Sources
<1>6. Counting'
  BY <1>4 DEF PoolInv, Counting
<1> QED BY <1>1, <1>2, <1>4, <1>5, <1>6 DEF PoolInv

\* The empty pool on the genesis block.
LEMMA PoolInvInit == PoolInit => PoolInv
<1> SUFFICES ASSUME PoolInit PROVE PoolInv
  OBVIOUS
<1>1. /\ Init /\ pool.mapTx = {} /\ Exact(pool) /\ vResurrect = <<>> /\ vDelete = <<>> /\ done = 0
  BY DEF PoolInit, Exact
<1>2. CoinInv
  BY <1>1, CoinInit
<1>3. AllTxs[tip] \in Seq(Txs)
  BY <1>2, AllTxsDef DEF CoinInv
<1>4. Ends(AllTxs[tip], vDelete) /\ Sources(tip, pool.mapTx, vResurrect, vDelete, done)
  BY <1>1, <1>3, EndsInNothing DEF Sources
<1>5. vResurrect \in Seq(Txs \ Coinbases) /\ vDelete \in Seq(Txs) /\ Counting
  BY <1>1 DEF Counting
<1> QED BY <1>1, <1>2, <1>4, <1>5 DEF PoolInv

(***************************************************************************)
(* The pool, while the best chain moves under it: every input of it is     *)
(* backed, by the chain, by the pool, or by what SetBestChain still has to *)
(* do, and what it still has to delete is the end of the best chain.       *)
(***************************************************************************)
THEOREM PoolInvariant == PoolSpec => []PoolInv
<1>1. PoolInv /\ [PoolNext]_poolVars => PoolInv'
  <2> SUFFICES ASSUME PoolInv, [PoolNext]_poolVars
               PROVE  PoolInv'
    OBVIOUS
  <2>1. ASSUME NEW t \in Txs, TxAccepted(t) \/ SendTx(t) \/ ReacceptWalletTransaction(t)
        PROVE  PoolInv'
    BY <2>1, PoolEnters
  <2>2. ASSUME NEW t \in Txs, TxOrphaned(t)
        PROVE  PoolInv'
    <3>1. UNCHANGED <<coinVars, lists>> /\ pool' = pool
      BY <2>2 DEF TxOrphaned
    <3>2. Exact(pool') /\ pool'.mapTx \subseteq Txs \ Coinbases
          /\ Sources(tip, pool'.mapTx, vResurrect, vDelete, done)
      BY <3>1 DEF PoolInv
    <3> QED BY <3>1, <3>2, OnlyPool
  <2>3. ASSUME NEW b \in Blocks, NewBestChain(b)
        PROVE  PoolInv'
    BY <2>3, PoolBestChain
  <2>4. CASE ResurrectTx
    BY <2>4, PoolResurrects
  <2>5. CASE DeleteTx
    BY <2>5, PoolDeletes
  <2>6. CASE PoolRestart
    BY <2>6, PoolRestarts
  <2>7. CASE UNCHANGED poolVars
    <3>1. UNCHANGED <<coinVars, lists>> /\ pool' = pool
      BY <2>7 DEF poolVars, lists
    <3>2. Exact(pool') /\ pool'.mapTx \subseteq Txs \ Coinbases
          /\ Sources(tip, pool'.mapTx, vResurrect, vDelete, done)
      BY <3>1 DEF PoolInv
    <3> QED BY <3>1, <3>2, OnlyPool
  <2> QED BY <2>1, <2>2, <2>3, <2>4, <2>5, <2>6, <2>7 DEF PoolNext
<1> QED BY <1>1, PoolInvInit, PTL DEF PoolSpec

-----------------------------------------------------------------------------
(***************************************************************************)
(* NextTxExact, for every way in and out of the pool: peers, the user, the *)
(* unchecked re-acceptance of wallet transactions, a reorganisation that   *)
(* is half way, a restart.                                                 *)
(***************************************************************************)
THEOREM MapNextTxIsExact == PoolSpec => []NextTxExact
<1>1. PoolInv => NextTxExact
  BY DEF PoolInv, NextTxExact
<1> QED BY <1>1, PoolInvariant, PTL

OrphansOk == orphans \subseteq Txs \ Coinbases /\ Cardinality(orphans) <= MAX_ORPHAN_TRANSACTIONS

\* The orphans stay within their limit.
LEMMA OrphansStayOk ==
  ASSUME OrphansOk, [PoolNext]_poolVars
  PROVE  OrphansOk'
<1>1. MAX_ORPHAN_TRANSACTIONS \in Nat
  BY PoolAssumption
<1>2. IsFiniteSet(orphans)
  BY FiniteAssumption, FS_Subset DEF OrphansOk
<1>3. CASE orphans' \subseteq orphans
  <2>1. Cardinality(orphans') \in Nat /\ Cardinality(orphans) \in Nat /\ Cardinality(orphans') <= Cardinality(orphans)
    BY <1>2, <1>3, FS_Subset, FS_CardinalityType
  <2> QED BY <1>1, <1>3, <2>1 DEF OrphansOk
<1>4. ASSUME NEW t \in Txs, TxOrphaned(t)
      PROVE  OrphansOk'
  <2> DEFINE S == orphans \cup ({t} \ Large)
  <2>1. t \notin Coinbases /\ orphans' \in Evict(S)
    BY <1>4, AcceptIsAcceptable DEF TxOrphaned, Acceptable
  <2>2. S \subseteq Txs \ Coinbases
    BY <2>1 DEF OrphansOk
  <2> HIDE DEF S
  <2>3. CASE Cardinality(S) <= MAX_ORPHAN_TRANSACTIONS
    BY <2>1, <2>2, <2>3 DEF Evict, OrphansOk
  <2>4. CASE ~(Cardinality(S) <= MAX_ORPHAN_TRANSACTIONS)
    <3>1. orphans' \subseteq S /\ Cardinality(orphans') = MAX_ORPHAN_TRANSACTIONS
      BY <2>1, <2>4 DEF Evict
    <3> QED BY <1>1, <2>2, <3>1 DEF OrphansOk
  <2> QED BY <2>3, <2>4
<1>5. ASSUME NEW t \in Txs, TxAccepted(t) \/ SendTx(t) \/ ReacceptWalletTransaction(t)
      PROVE  orphans' \subseteq orphans
  BY <1>5 DEF TxAccepted, SendTx, ReacceptWalletTransaction
<1>6. ASSUME \E b \in Blocks : NewBestChain(b)
      PROVE  orphans' \subseteq orphans
  BY <1>6 DEF NewBestChain
<1>7. ASSUME ResurrectTx \/ DeleteTx \/ PoolRestart \/ UNCHANGED poolVars
      PROVE  orphans' \subseteq orphans
  BY <1>7 DEF ResurrectTx, DeleteTx, PoolRestart, poolVars
<1> QED BY <1>3, <1>4, <1>5, <1>6, <1>7 DEF PoolNext

(***************************************************************************)
(* PoolTypeOK: no coinbase is in the pool or among the orphans, there are  *)
(* no more orphans than allowed, and SetBestChain's lists are run through  *)
(* within their lengths.                                                   *)
(***************************************************************************)
THEOREM PoolTypes == PoolSpec => []PoolTypeOK
<1>1. PoolInit => OrphansOk
  <2>1. MAX_ORPHAN_TRANSACTIONS \in Nat /\ Cardinality({}) = 0
    BY PoolAssumption, FS_EmptySet
  <2> QED BY <2>1 DEF PoolInit, OrphansOk
<1>2. OrphansOk /\ [PoolNext]_poolVars => OrphansOk'
  BY OrphansStayOk
<1>3. PoolInv /\ OrphansOk => PoolTypeOK
  <2> SUFFICES ASSUME PoolInv, OrphansOk PROVE PoolTypeOK
    OBVIOUS
  <2>1. DOMAIN pool.next \subseteq Txs \X Nat
    <3> SUFFICES ASSUME NEW o \in DOMAIN pool.next PROVE o \in Txs \X Nat
      OBVIOUS
    <3>1. PICK t \in pool.mapTx : o \in Inputs(t)
      BY DEF PoolInv, Exact
    <3>2. t \in Txs
      BY DEF PoolInv
    <3>3. o[1] \in Txs /\ o[2] \in Nat /\ o = <<o[1], o[2]>>
      BY <3>1, <3>2, InputIs
    <3> QED BY <3>3
  <2>2. \A o \in DOMAIN pool.next : pool.next[o] \in pool.mapTx
    <3> SUFFICES ASSUME NEW o \in DOMAIN pool.next PROVE pool.next[o] \in pool.mapTx
      OBVIOUS
    <3>1. PICK t \in pool.mapTx : o \in Inputs(t)
      BY DEF PoolInv, Exact
    <3>2. pool.next[o] = t
      BY <3>1 DEF PoolInv, Exact
    <3> QED BY <3>2
  <2>3. IF Idle THEN done = 0 ELSE done \in 0 .. Len(vResurrect) + Len(vDelete) - 1
    BY DEF PoolInv, Counting, Idle
  <2> QED BY <2>1, <2>2, <2>3 DEF PoolInv, OrphansOk, PoolTypeOK
<1> QED BY <1>1, <1>2, <1>3, PoolInvariant, PTL DEF PoolSpec

(***************************************************************************)
(* PoolSpendable: when SetBestChain is done, every input of the pool is an *)
(* unspent output of the best chain or an output of another transaction of *)
(* the pool, but for what the wallet put back unchecked and what spends it.*)
(***************************************************************************)
THEOREM PoolStaysSpendable == PoolSpec => []PoolSpendable
<1>1. PoolInv => PoolSpendable
  <2> SUFFICES ASSUME PoolInv, Idle, NEW t \in CheckedPool, NEW o \in Inputs(t)
               PROVE  IsAvailable(coins, o) \/ (o[1] \in CheckedPool /\ o[2] \in DOMAIN Vout[o[1]])
    BY DEF PoolSpendable
  <2>1. t \in pool.mapTx \ Wallet /\ \A w \in Wallet : t \notin Descendants(pool, w)
    BY DEF CheckedPool
  <2>2. t \in Txs /\ Exact(pool) /\ CoinInv
    BY <2>1 DEF PoolInv
  <2>3. o[1] \in Txs /\ o = <<o[1], o[2]>>
    BY <2>2, InputIs
  <2>4. o[2] \in DOMAIN Vout[o[1]] /\ Backed(o, tip, pool.mapTx, <<>>, <<>>, done)
    BY <2>1 DEF PoolInv, Sources, Idle
  <2>5. ~Returning(o, <<>>, done) /\ ~Claimed(o, <<>>, <<>>, done)
    <3>1. done = 0 /\ Len(<<>>) = 0 /\ 1 .. 0 = {} /\ 0 + 1 .. 0 = {}
      BY DEF PoolInv, Counting, Idle
    <3> QED BY <3>1 DEF Returning, Claimed
  <2>6. CASE Settled(o, tip)
    <3>1. Lasts(<<o[1], o[2]>>, AllTxs[tip], Len(AllTxs[tip]))
      BY <2>3, <2>6 DEF Settled
    <3>2. IsAvailable(coins, <<o[1], o[2]>>)
      BY <2>2, <2>3, <2>4, <3>1, AvailableIs
    <3> QED BY <2>3, <3>2
  <2>7. CASE o[1] \in pool.mapTx
    <3>1. o[1] \notin Wallet
      BY <2>1, <2>2, DescendantsClosed
    <3>2. ASSUME NEW w \in Wallet
          PROVE  o[1] \notin Descendants(pool, w)
      BY <2>1, <2>2, DescendantsClosed
    <3> QED BY <2>4, <2>7, <3>1, <3>2 DEF CheckedPool
  <2> QED BY <2>4, <2>5, <2>6, <2>7 DEF Backed
<1> QED BY <1>1, PoolInvariant, PTL


-----------------------------------------------------------------------------
(***************************************************************************)
(* What is in the chain is not in the pool.                                *)
(***************************************************************************)
\* All of o[1] that comes before place i of the chain of b is mature.
Mature(o, i, b) ==
  \E a \in Chain[b] :
    /\ Height[a] + COINBASE_MATURITY <= Height[b]
    /\ \A h \in 1 .. i - 1 : AllTxs[b][h] = o[1] => h <= Len(AllTxs[a])

SpendsMature(b) ==
  \A i \in 1 .. Len(AllTxs[b]) : \A o \in Inputs(AllTxs[b][i]) : o[1] \in Coinbases => Mature(o, i, b)

\* Maturity is not zero: a block cannot spend its own coinbase.
LEMMA RipeIsMature ==
  ASSUME NEW b \in Blocks, b # Genesis, NEW w,
         NEW e \in 1 .. Len(Vtx[b]), Ripe(w, [t \in Txs |-> HeightOf(t, Prev[b])], b, e),
         NEW o \in Inputs(Vtx[b][e]), o[1] \in Coinbases
  PROVE  /\ \A j \in 1 .. e - 1 : Vtx[b][j] # o[1]
         /\ Height[b] - HeightOf(o[1], Prev[b]) >= COINBASE_MATURITY
<1> DEFINE hs == [t \in Txs |-> HeightOf(t, Prev[b])]
           p == o[1]
           n == o[2]
           x == Vtx[b][e]
<1>1. x \in Txs /\ Height[b] \in Nat /\ (x \in Coinbases <=> e = 1)
  BY BlockTxs, HeightDef
<1>2. p \in Txs /\ o = <<p, n>> /\ \E i \in DOMAIN Vin[x] : Vin[x][i] = o
  BY <1>1, InputIs
<1>3. e # 1
  <2>1. e = 1 => DOMAIN Vin[x] = {}
    <3>1. e = 1 => Len(Vin[x]) = 0 /\ DOMAIN Vin[x] = 1 .. Len(Vin[x])
      BY <1>1, TxInputs
    <3> QED BY <3>1
  <2> QED BY <1>2, <2>1
<1>4. hs[p] = HeightOf(p, Prev[b])
  BY <1>2
<1> HIDE DEF hs
<1>5. PICK f, gs : /\ UnspentOf(w, f, gs)
                   /\ \A t \in Txs : gs[t] = IF \E j \in 1 .. e - 1 : Vtx[b][j] = t THEN Height[b] ELSE hs[t]
  BY DEF Ripe, hs
<1>6. CheckInputs(w, x, Height[b])
  BY <1>3 DEF Ripe
<1> HIDE DEF p, n, x
<1>7. PICK i \in DOMAIN Vin[x] : Vin[x][i] = o
  BY <1>2
<1>8. o[1] = p /\ o[2] = n
  BY DEF p, n
<1>9. w[p] # Null /\ n \in w[p].vout
  <2>1. IsAvailable(w, o)
    BY <1>6, <1>7 DEF CheckInputs, HaveInputs
  <2> QED BY <1>8, <2>1 DEF IsAvailable, HaveCoins
<1>10. w[p].fCoinBase => Height[b] - w[p].nHeight >= COINBASE_MATURITY
  <2>1. \A j \in DOMAIN Vin[x] :
          w[Vin[x][j][1]].fCoinBase => Height[b] - w[Vin[x][j][1]].nHeight >= COINBASE_MATURITY
    BY <1>6, Zenon DEF CheckInputs
  <2>2. Vin[x][i][1] = p
    BY <1>7, <1>8
  <2> QED BY <2>1, <2>2, Zenon
<1>11. w[p] = Entry(p, gs[p], UnspentIn(p, f))
  <2>1. Live(w[p]) /\ EntryOf(w, f, gs, p)
    BY <1>2, <1>5, <1>9 DEF Live, UnspentOf
  <2> QED BY <2>1 DEF EntryOf
<1>12. w[p].fCoinBase = (p \in Coinbases) /\ w[p].nHeight = gs[p]
  BY <1>11 DEF Entry
<1>13. Height[b] - gs[p] >= COINBASE_MATURITY
  BY <1>8, <1>10, <1>12
<1>14. COINBASE_MATURITY \in Nat /\ COINBASE_MATURITY > 0
  <2>1. COINBASE_MATURITY \in Nat /\ MaxReorg \in Nat /\ MaxReorg < COINBASE_MATURITY
    BY BlockAssumption, PoolAssumption
  <2> QED BY <2>1
<1>15. ~ \E j \in 1 .. e - 1 : Vtx[b][j] = p
  <2> SUFFICES ASSUME \E j \in 1 .. e - 1 : Vtx[b][j] = p PROVE FALSE
    OBVIOUS
  <2>1. gs[p] = Height[b]
    BY <1>2, <1>5
  <2> QED BY <1>1, <1>13, <1>14, <2>1
<1>16. gs[p] = HeightOf(p, Prev[b])
  BY <1>2, <1>4, <1>5, <1>15
<1> QED BY <1>8, <1>13, <1>15, <1>16

\* A chain of blocks that connect spends mature coinbases only.
LEMMA ChainSpendsMature ==
  ASSUME NEW b \in Blocks, Valid(b)
  PROVE  SpendsMature(b)
<1> DEFINE P(c) == Valid(c) => SpendsMature(c)
           S == {c \in Blocks : P(c)}
<1>1. ASSUME NEW c \in Blocks, c = Genesis \/ Prev[c] \in S
      PROVE  P(c)
  <2>1. CASE c = Genesis
    <3>1. AllTxs[c] = <<>>
      BY <2>1, AllTxsDef
    <3>2. Len(<<>>) = 0 /\ 1 .. 0 = {}
      OBVIOUS
    <3> QED BY <3>1, <3>2 DEF SpendsMature
  <2>2. CASE c # Genesis
    <3> SUFFICES ASSUME Valid(c) PROVE SpendsMature(c)
      OBVIOUS
    <3> DEFINE d == Prev[c]
               v == UtxoAt[d]
               A == AllTxs[d]
               B == Vtx[c]
               s == AllTxs[c]
               hs == [t \in Txs |-> HeightOf(t, d)]
               is == [t \in Txs |-> IF t \in ToSet(Vtx[c]) THEN Height[c] ELSE hs[t]]
    <3>1. d \in Blocks /\ Chain[c] = {c} \cup Chain[d] /\ d \in S /\ Height[c] = Height[d] + 1
          /\ Height[d] \in Nat
      BY <1>1, <2>2, ChainOfPrev, HeightDef
    <3>2. Valid(d) /\ ConnectBlock(v, c).ok
      BY <2>2, <3>1 DEF Valid, Connects1
    <3>3. SpendsMature(d) /\ UnspentOf(v, A, hs)
      BY <3>1, <3>2, UtxoAtIsUnspent
    <3>4. Sound(v) /\ A \in Seq(Txs) /\ s = A \o B /\ B \in Seq(Txs)
      BY <2>2, <3>1, UtxoAtSound, AllTxsDef, BlockAssumption
    <3>5. Raised(c, hs, is)
      BY DEF Raised
    <3> HIDE DEF is, v, P, S
    <3>6. \A i \in 1 .. Len(Vtx[c]) : \E w : Ripe(w, hs, c, i)
      <4> HIDE DEF hs, A
      <4>1. UnspentOf(v, A, hs) /\ Sound(v) /\ ConnectBlock(v, c).ok /\ A \in Seq(Txs)
        BY <3>2, <3>3, <3>4
      <4>2. \A i \in 1 .. Len(Vtx[c]) : \E w : /\ Before(w, A \o Vtx[c], Len(A) + i - 1, Vtx[c][i])
                                               /\ Ripe(w, hs, c, i)
        BY <2>2, <3>5, <4>1, UnspentConnected
      <4> QED BY <4>2
    <3>7. /\ Len(A) \in Nat /\ Len(B) \in Nat /\ Len(s) = Len(A) + Len(B)
          /\ \A i \in 1 .. Len(A) : s[i] = A[i]
          /\ \A i \in 1 .. Len(B) : s[Len(A) + i] = B[i]
      <4> HIDE DEF A, B, s
      <4> QED BY <3>4, Joined
    <3>8. ASSUME NEW i \in 1 .. Len(s), NEW o \in Inputs(s[i]), o[1] \in Coinbases
          PROVE  Mature(o, i, c)
      <4>1. CASE i <= Len(A)
        <5>1. i \in 1 .. Len(A) /\ s[i] = A[i]
          BY <3>7, <4>1
        <5>2. Mature(o, i, d)
          BY <3>3, <3>8, <5>1 DEF SpendsMature
        <5>3. PICK a \in Chain[d] : /\ Height[a] + COINBASE_MATURITY <= Height[d]
                                    /\ \A h \in 1 .. i - 1 : A[h] = o[1] => h <= Len(AllTxs[a])
          BY <5>2 DEF Mature
        <5>4. Height[a] \in Nat /\ COINBASE_MATURITY \in Nat
          BY <3>1, OnChain, HeightDef, BlockAssumption
        <5>5. a \in Chain[c] /\ Height[a] + COINBASE_MATURITY <= Height[c]
          BY <3>1, <5>3, <5>4
        <5>6. \A h \in 1 .. i - 1 : s[h] = A[h]
          BY <3>7, <5>1
        <5>7. \A h \in 1 .. i - 1 : s[h] = o[1] => h <= Len(AllTxs[a])
          <6> HIDE DEF s, A
          <6> QED BY <5>3, <5>6
        <5> QED BY <5>5, <5>7 DEF Mature
      <4>2. CASE ~(i <= Len(A))
        <5> DEFINE e == i - Len(A)
        <5> HIDE DEF A, B, s
        <5>1. e \in 1 .. Len(B) /\ Len(A) + e = i
          BY <3>7, <4>2
        <5>2. s[i] = B[e]
          BY <3>7, <5>1
        <5> HIDE DEF e
        <5> USE DEF A, B, s
        <5>3. PICK w : Ripe(w, hs, c, e)
          BY <3>6, <5>1
        <5>4. /\ \A j \in 1 .. e - 1 : B[j] # o[1]
              /\ Height[c] - HeightOf(o[1], d) >= COINBASE_MATURITY
          BY <2>2, <3>8, <5>1, <5>2, <5>3, RipeIsMature
        <5>5. CreatedBefore(o, s, i)
          BY <3>8, ChainSpendsOnce DEF SpendsOnce, Inputs
        <5>6. \A h \in 1 .. i - 1 : s[h] = o[1] => h \in 1 .. Len(A) /\ A[h] = o[1]
          <6> SUFFICES ASSUME NEW h \in 1 .. i - 1, s[h] = o[1]
                       PROVE  h \in 1 .. Len(A) /\ A[h] = o[1]
            OBVIOUS
          <6>1. CASE h <= Len(A)
            <7>1. h \in 1 .. Len(A)
              BY <6>1
            <7> QED BY <3>7, <7>1
          <6>2. CASE ~(h <= Len(A))
            <7>1. h - Len(A) \in 1 .. e - 1 /\ h - Len(A) \in 1 .. Len(B) /\ Len(A) + (h - Len(A)) = h
              BY <3>7, <5>1, <6>2
            <7>2. B[h - Len(A)] = o[1]
              BY <3>7, <7>1
            <7> QED BY <5>4, <7>1, <7>2
          <6> QED BY <6>1, <6>2
        <5>7. PICK k \in 1 .. i - 1 : s[k] = o[1]
          BY <5>5 DEF CreatedBefore
        <5>8. o[1] \in ToSet(A) /\ o[1] \in Txs
          <6> HIDE DEF A, s
          <6>1. k \in 1 .. Len(A) /\ A[k] = o[1]
            BY <5>6, <5>7
          <6>2. k \in DOMAIN A
            BY <3>4, <6>1
          <6> QED BY <3>4, <6>1, <6>2 DEF ToSet
        <5>9. PICK a \in Chain[d] : /\ Height[a] = HeightOf(o[1], d)
                                    /\ \A h \in 1 .. Len(A) : A[h] = o[1] => h <= Len(AllTxs[a])
          BY <3>1, <5>8, MinedSomewhere DEF MinedAt
        <5>10. Height[a] \in Nat /\ COINBASE_MATURITY \in Nat /\ Height[c] \in Nat
          BY <3>1, OnChain, HeightDef, BlockAssumption
        <5>11. a \in Chain[c] /\ Height[a] + COINBASE_MATURITY <= Height[c]
          BY <3>1, <5>4, <5>9, <5>10
        <5> QED BY <5>6, <5>9, <5>11 DEF Mature
      <4> QED BY <4>1, <4>2
    <3> QED BY <3>8 DEF SpendsMature
  <2> QED BY <2>1, <2>2
<1>2. \A c \in Blocks : c \in S
  <2>1. \A c \in Blocks : (c = Genesis \/ Prev[c] \in S) => c \in S
    <3> HIDE DEF P
    <3> QED BY <1>1
  <2> HIDE DEF S
  <2> QED BY <2>1, TreeInduction
<1> QED BY <1>2

\* A coinbase has come twice, deeper than a reorganisation goes.
BuriedRepeat(b) ==
  \E a \in Chain[b] :
    /\ Height[a] + MaxReorg <= Height[b]
    /\ \E i, j \in 1 .. Len(AllTxs[a]) : i < j /\ AllTxs[a][i] = AllTxs[a][j] /\ AllTxs[a][i] \in Coinbases

\* Two places of a coinbase in the list of a lower block's chain.
LEMMA RepeatBelow ==
  ASSUME NEW b \in Blocks, NEW a \in Chain[b], Height[a] + MaxReorg <= Height[b],
         NEW k \in Nat \ {0}, NEW l \in Nat, k < l, l <= Len(AllTxs[a]),
         AllTxs[b][k] = AllTxs[b][l], AllTxs[b][k] \in Coinbases
  PROVE  BuriedRepeat(b)
<1> DEFINE A == AllTxs[a]
           s == AllTxs[b]
<1>1. a \in Blocks /\ A \in Seq(Txs)
  BY OnChain, AllTxsDef
<1>2. PICK D : D \in Seq(Txs) /\ s = A \o D
  BY <1>1, StretchTxs DEF Stretch
<1>3. k \in 1 .. Len(A) /\ l \in 1 .. Len(A)
  BY <1>1
<1> HIDE DEF A, s
<1>4. s[k] = A[k] /\ s[l] = A[l]
  BY <1>1, <1>2, <1>3, Joined
<1>5. k < l /\ A[k] = A[l] /\ A[k] \in Coinbases
  BY <1>4 DEF s
<1> QED BY <1>3, <1>5 DEF BuriedRepeat, A

\* A transaction that spends comes twice only when a coinbase has, long before: its
\* inputs would have to be created again, by a transaction that comes twice and first
\* before it.
LEMMA OnceOnly ==
  ASSUME NEW b \in Blocks, Valid(b), ~BuriedRepeat(b),
         NEW x \in 1 .. Len(AllTxs[b]), NEW y \in 1 .. Len(AllTxs[b]),
         AllTxs[b][x] = AllTxs[b][y], AllTxs[b][x] \notin Coinbases
  PROVE  x = y
<1> DEFINE s == AllTxs[b]
           n == Len(s)
           Once(i) == s[i] \notin Coinbases => \A j \in 1 .. n : i < j => s[i] # s[j]
           S == {m \in 0 .. n : \A i \in 1 .. m : Once(i)}
<1>0. s \in Seq(Txs) /\ n \in Nat /\ \A i \in 1 .. n : s[i] \in Txs
  BY AllTxsDef
<1>1. SpendsOnce(s) /\ SpendsMature(b)
  BY ChainSpendsOnce, ChainSpendsMature
<1>2. 0 \in S
  BY <1>0
<1>3. ASSUME NEW m \in 0 .. n - 1, m \in S
      PROVE  m + 1 \in S
  <2>1. m + 1 \in 1 .. n /\ m \in Nat
    BY <1>0
  <2>2. ASSUME s[m + 1] \notin Coinbases, NEW j \in 1 .. n, m + 1 < j, s[m + 1] = s[j]
        PROVE  FALSE
    <3> DEFINE i == m + 1
    <3>1. PICK o : o \in Inputs(s[i])
      <4>1. s[i] \in Txs
        BY <1>0, <2>1
      <4>2. Len(Vin[s[i]]) # 0 /\ Len(Vin[s[i]]) \in Nat /\ DOMAIN Vin[s[i]] = 1 .. Len(Vin[s[i]])
        BY <2>2, <4>1, TxInputs
      <4>3. 1 \in DOMAIN Vin[s[i]]
        BY <4>2
      <4> QED BY <4>3 DEF ToSet, Inputs
    <3>2. CreatedBefore(o, s, i) /\ CreatedBefore(o, s, j)
      BY <1>1, <2>1, <2>2, <3>1 DEF SpendsOnce, Inputs
    <3>3. PICK k \in 1 .. i - 1 : s[k] = o[1]
      BY <3>2 DEF CreatedBefore
    <3>4. PICK l \in 1 .. j - 1 : s[l] = o[1] /\ \A h \in l + 1 .. j - 1 : o \notin Inputs(s[h])
      BY <3>2 DEF CreatedBefore, Inputs
    <3>5. i \notin l + 1 .. j - 1
      BY <3>1, <3>4
    <3>6. i \in Nat /\ j \in Nat /\ i < j
      BY <2>1, <2>2
    <3>7. l \in 1 .. n /\ k \in 1 .. m /\ k < l
      BY <1>0, <3>5, <3>6
    <3>8. CASE o[1] \notin Coinbases
      <4>1. Once(k)
        BY <1>3, <3>7
      <4> QED BY <3>3, <3>4, <3>7, <3>8, <4>1
    <3>9. CASE o[1] \in Coinbases
      <4>1. Mature(o, j, b)
        <5>1. o \in Inputs(s[j])
          BY <2>2, <3>1
        <5> QED BY <1>1, <3>9, <5>1 DEF SpendsMature
      <4>2. PICK a \in Chain[b] : /\ Height[a] + COINBASE_MATURITY <= Height[b]
                                  /\ \A h \in 1 .. j - 1 : s[h] = o[1] => h <= Len(AllTxs[a])
        BY <4>1 DEF Mature
      <4>3. Height[a] + MaxReorg <= Height[b]
        <5>1. Height[a] \in Nat /\ Height[b] \in Nat
          BY OnChain, HeightDef
        <5>2. COINBASE_MATURITY \in Nat /\ MaxReorg \in Nat /\ MaxReorg < COINBASE_MATURITY
          BY BlockAssumption, PoolAssumption
        <5> QED BY <4>2, <5>1, <5>2
      <4>4. l <= Len(AllTxs[a]) /\ k \in Nat \ {0} /\ l \in Nat
        BY <3>4, <3>7, <4>2
      <4>5. s[k] = s[l] /\ s[k] \in Coinbases
        BY <3>3, <3>4, <3>9
      <4> QED BY <3>7, <4>3, <4>4, <4>5, RepeatBelow
    <3> QED BY <3>8, <3>9
  <2>3. \A i \in 1 .. m + 1 : i = m + 1 \/ i \in 1 .. m
    BY <2>1
  <2>4. Once(m + 1)
    BY <2>2
  <2>5. m + 1 \in 0 .. n
    BY <2>1
  <2> HIDE DEF Once
  <2> QED BY <1>3, <2>3, <2>4, <2>5
<1>4. \A m \in 0 .. n : m \in S
  <2> HIDE DEF S, n
  <2> QED BY <1>0, <1>2, <1>3, Summing!UpTo
<1>5. \A i \in 1 .. n : Once(i)
  <2>1. n \in 0 .. n
    BY <1>0
  <2> HIDE DEF Once
  <2> QED BY <1>4, <2>1
<1>6. Once(x) /\ Once(y)
  BY <1>5
<1>7. x \in Nat /\ y \in Nat
  OBVIOUS
<1> QED BY <1>6, <1>7

\* t is still to be deleted, after the first e of v.
Leaving(t, v, e) == \E i \in 1 .. Len(v) : i > e /\ v[i] = t

\* Of S, only what is still to be deleted is in the chain of b.
NotMined(S, b, v, e) == \A t \in S : t \in ToSet(AllTxs[b]) => Leaving(t, v, e)

\* What accept() lets through is not in the chain, or leaves: spending the same
\* output a second time needs the transaction it is from a second time, too.
LEMMA AcceptedNotMined ==
  ASSUME PoolInv, ~BuriedRepeat(tip), NEW e \in Int, NotMined(pool.mapTx, tip, vDelete, e),
         NEW t \in Txs, Accept(pool, coins, tip, t) = "ok", t \in ToSet(AllTxs[tip])
  PROVE  Leaving(t, vDelete, e)
<1> DEFINE s == AllTxs[tip]
<1>1. /\ CoinInv /\ tip \in Blocks /\ pool.mapTx \subseteq Txs \ Coinbases /\ Ends(s, vDelete)
      /\ vDelete \in Seq(Txs)
  BY DEF PoolInv, CoinInv
<1>2. s \in Seq(Txs)
  BY <1>1, AllTxsDef
<1>3. Valid(tip)
  BY <1>1, OnChain DEF CoinInv, HasUndo, UndoOk, Valid
<1>4. SpendsOnce(s)
  BY <1>1, <1>3, ChainSpendsOnce
<1>5. \A i, j \in 1 .. Len(s) : s[i] = s[j] /\ s[i] \notin Coinbases => i = j
  BY <1>1, <1>3, OnceOnly
<1>6. PICK i \in 1 .. Len(s) : s[i] = t
  BY <1>2 DEF ToSet
<1>7. PICK o : o \in Inputs(t)
  <2>1. t \notin Coinbases
    BY AcceptIsAcceptable DEF Acceptable
  <2>2. Len(Vin[t]) # 0 /\ Len(Vin[t]) \in Nat /\ DOMAIN Vin[t] = 1 .. Len(Vin[t])
    BY <2>1, TxInputs
  <2>3. 1 \in DOMAIN Vin[t]
    BY <2>2
  <2> QED BY <2>3 DEF Inputs, ToSet
<1>8. PICK k \in 1 .. i - 1 : s[k] = o[1]
  BY <1>4, <1>6, <1>7 DEF SpendsOnce, CreatedBefore, Inputs
<1>9. Settled(o, tip) \/ o[1] \in pool.mapTx
  BY <1>1, <1>7, AcceptedInputs
<1>10. CASE Settled(o, tip)
  <2>1. ASSUME NEW m, m \in Nat, m <= Len(s), Lasts(o, s, m)
        PROVE  \E l \in 1 .. m : s[l] = o[1] /\ k < l
    <3> HIDE DEF s
    <3>1. PICK l \in 1 .. m : s[l] = o[1] /\ \A j \in l + 1 .. Len(s) : o \notin Inputs(s[j])
      BY <2>1 DEF Lasts
    <3>2. i \notin l + 1 .. Len(s)
      BY <1>6, <1>7, <3>1
    <3>3. Len(s) \in Nat
      BY <1>2
    <3>4. k < l
      BY <2>1, <3>2, <3>3
    <3> QED BY <3>1, <3>4
  <2>2. CASE o[1] \in Coinbases
    <3>1. PICK a \in Chain[tip] : Height[a] + MaxReorg <= Height[tip] /\ Lasts(o, s, Len(AllTxs[a]))
      BY <1>10, <2>2 DEF Settled, Buried
    <3>2. Len(AllTxs[a]) \in Nat /\ Len(AllTxs[a]) <= Len(s)
      <4>1. tip \in Blocks /\ tip \in Chain[tip]
        BY <1>1, ChainDef
      <4> QED BY <4>1, ShorterList
    <3>3. PICK l \in 1 .. Len(AllTxs[a]) : s[l] = o[1] /\ k < l
      BY <2>1, <3>1, <3>2
    <3>4. k \in Nat \ {0} /\ l \in Nat /\ l <= Len(AllTxs[a])
      BY <3>2
    <3>5. s[k] = s[l] /\ s[k] \in Coinbases
      BY <1>8, <2>2, <3>3
    <3>6. BuriedRepeat(tip)
      BY <1>1, <3>1, <3>3, <3>4, <3>5, RepeatBelow
    <3> QED BY <3>6
  <2>3. CASE o[1] \notin Coinbases
    <3>1. Lasts(o, s, Len(s))
      BY <1>10 DEF Settled
    <3> HIDE DEF s
    <3>2. Len(s) \in Nat /\ Len(s) <= Len(s)
      BY <1>2
    <3>3. PICK l \in 1 .. Len(s) : s[l] = o[1] /\ k < l
      BY <2>1, <3>1, <3>2
    <3>4. k \in 1 .. Len(s) /\ k # l
      BY <3>2, <3>3
    <3> QED BY <1>5, <1>8, <2>3, <3>3, <3>4
  <2> QED BY <2>2, <2>3
<1> HIDE DEF s
<1>11. CASE o[1] \in pool.mapTx
  <2>1. k \in 1 .. Len(s)
    BY <1>2
  <2>2. o[1] \in ToSet(s)
    BY <1>2, <1>8, <2>1 DEF ToSet
  <2>3. PICK j \in 1 .. Len(vDelete) : j > e /\ vDelete[j] = o[1]
    BY <1>11, <2>2 DEF NotMined, Leaving, s
  <2>4. PICK m \in Nat : Len(s) = m + Len(vDelete) /\ \A h \in 1 .. Len(vDelete) : s[m + h] = vDelete[h]
    BY <1>1 DEF Ends
  <2>5. Len(vDelete) \in Nat
    BY <1>1
  <2>6. m + j \in 1 .. Len(s) /\ s[m + j] = s[k]
    BY <1>8, <2>3, <2>4, <2>5
  <2>7. m + j = k
    BY <1>1, <1>5, <1>8, <1>11, <2>1, <2>6
  <2>8. i - m \in 1 .. Len(vDelete) /\ i - m > j /\ m + (i - m) = i
    BY <2>4, <2>5, <2>7
  <2>9. vDelete[i - m] = t
    BY <1>6, <2>4, <2>8
  <2>10. i - m > e
    BY <2>3, <2>8
  <2> QED BY <2>8, <2>9, <2>10 DEF Leaving
<1> QED BY <1>9, <1>10, <1>11

\* One more, which is not in the chain or leaves.
LEMMA NotMinedAdd ==
  ASSUME NEW S, NEW b, NEW v, NEW e, NotMined(S, b, v, e), NEW t,
         t \in ToSet(AllTxs[b]) => Leaving(t, v, e)
  PROVE  NotMined(S \cup {t}, b, v, e)
BY DEF NotMined

\* The invariant: e counts what is gone of vDelete.
Gone == done - Len(vResurrect)
PoolOffChain == BuriedRepeat(tip) \/ NotMined(pool.mapTx, tip, vDelete, Gone)

\* A buried coinbase stays on the chain.
LEMMA RepeatStays ==
  ASSUME NEW b \in Blocks, NEW new \in Blocks, NEW f \in Chain[b] \cap Chain[new],
         Height[b] - Height[f] <= MaxReorg, Height[new] > Height[b], BuriedRepeat(b)
  PROVE  BuriedRepeat(new)
<1>1. PICK a \in Chain[b] :
        /\ Height[a] + MaxReorg <= Height[b]
        /\ \E i, j \in 1 .. Len(AllTxs[a]) : i < j /\ AllTxs[a][i] = AllTxs[a][j] /\ AllTxs[a][i] \in Coinbases
  BY DEF BuriedRepeat
<1>2. /\ Height[a] \in Nat /\ Height[b] \in Nat /\ Height[f] \in Nat /\ Height[new] \in Nat
      /\ MaxReorg \in Nat /\ Chain[f] \subseteq Chain[new]
  BY OnChain, HeightDef, PoolAssumption
<1>3. a \in Chain[new]
  <2>1. Height[a] <= Height[f]
    BY <1>1, <1>2
  <2> QED BY <1>2, <2>1, LowerOnChain
<1>4. Height[a] + MaxReorg <= Height[new]
  BY <1>1, <1>2
<1> QED BY <1>1, <1>3, <1>4 DEF BuriedRepeat

\* Gone may be negative: transactions have still to come back.
LEMMA GoneIsInt ==
  ASSUME PoolInv
  PROVE  Gone \in Int
<1>1. Len(vResurrect) \in Nat /\ Len(vDelete) \in Nat
  BY DEF PoolInv
<1>2. done \in Int
  BY <1>1 DEF PoolInv, Counting
<1> QED BY <1>1, <1>2 DEF Gone

\* A transaction comes in.
LEMMA OffChainEnters ==
  ASSUME PoolInv, PoolOffChain, NEW t \in Txs,
         TxAccepted(t) \/ SendTx(t) \/ ReacceptWalletTransaction(t)
  PROVE  PoolOffChain'
<1>1. BuriedRepeat(tip)
        \/ /\ NotMined(pool.mapTx, tip, vDelete, Gone)
           /\ t \in ToSet(AllTxs[tip]) => Leaving(t, vDelete, Gone)
  <2>1. CASE TxAccepted(t) \/ SendTx(t)
    <3>1. Accept(pool, coins, tip, t) = "ok"
      BY <2>1 DEF TxAccepted, SendTx
    <3> QED BY <3>1, AcceptedNotMined, GoneIsInt DEF PoolOffChain
  <2>2. CASE ReacceptWalletTransaction(t)
    BY <2>2 DEF ReacceptWalletTransaction, PoolOffChain
  <2> QED BY <2>1, <2>2
<1>2. pool' = Add(pool, t) /\ UNCHANGED <<coinVars, lists>>
  BY DEF TxAccepted, SendTx, ReacceptWalletTransaction
<1>3. pool'.mapTx = pool.mapTx \cup {t} /\ tip' = tip /\ vDelete' = vDelete /\ Gone' = Gone
  BY <1>2 DEF Add, coinVars, lists, Gone
<1>4. BuriedRepeat(tip) \/ NotMined(pool.mapTx \cup {t}, tip, vDelete, Gone)
  BY <1>1, NotMinedAdd
<1> QED BY <1>3, <1>4 DEF PoolOffChain

\* The chain moves: what is new of it is what will be deleted.
LEMMA OffChainMoves ==
  ASSUME PoolInv, PoolOffChain, NEW new \in Blocks, NewBestChain(new)
  PROVE  PoolOffChain'
<1>1. /\ vResurrect = <<>> /\ vDelete = <<>> /\ done = 0 /\ pool' = pool /\ done' = done
      /\ SetBestChain(new) /\ tip \in Blocks /\ Height[new] > Height[tip]
      /\ Cardinality(Chain[tip] \ Chain[new]) <= MaxReorg
  BY DEF PoolInv, CoinInv, NewBestChain, Idle, Counting, SetBestChain
<1>2. CASE tip' # new
  BY <1>1, <1>2 DEF NewBestChain, SetBestChain, PoolOffChain, Gone
<1>3. CASE tip' = new
  <2>1. PICK f \in Chain[tip] \cap Chain[new] : Chain[tip] \cap Chain[new] = Chain[f]
    BY <1>1, ForkExists
  <2> DEFINE D == TxsOf(Upwards(Chain[new] \ Chain[f]))
             R == NotCoinbases(TxsOf(Downwards(Chain[tip] \ Chain[f])))
             P == AllTxs[f]
             C == TxsOf(Upwards(Chain[tip] \ Chain[f]))
  <2>2. Chain[tip] \ Chain[new] = Chain[tip] \ Chain[f] /\ Chain[new] \ Chain[tip] = Chain[new] \ Chain[f]
    BY <2>1
  <2>3. vDelete' = D /\ vResurrect' = R
    BY <1>3, <2>2 DEF NewBestChain
  <2>4. D \in Seq(Txs) /\ P \in Seq(Txs) /\ AllTxs[new] = P \o D
    BY <2>1, StretchTxs DEF Stretch
  <2>5. C \in Seq(Txs) /\ AllTxs[tip] = P \o C /\ R \in Seq(Txs \ Coinbases)
    BY <1>1, <2>1, StretchTxs DEF Stretch
  <2> HIDE DEF D, R, P, C
  <2>a. CASE BuriedRepeat(tip)
    <3>1. Height[f] \in Nat /\ Height[tip] \in Nat
      BY <1>1, <2>1, OnChain, HeightDef
    <3>2. Cardinality(Chain[tip] \ Chain[f]) = Height[tip] - Height[f]
      BY <1>1, <2>1, StretchCardinality
    <3>3. Height[tip] - Height[f] <= MaxReorg
      BY <1>1, <2>2, <3>2
    <3>4. BuriedRepeat(new)
      BY <1>1, <2>1, <2>a, <3>3, RepeatStays
    <3> QED BY <1>3, <3>4 DEF PoolOffChain
  <2> SUFFICES ASSUME NotMined(pool.mapTx, tip, vDelete, Gone)
               PROVE  PoolOffChain'
    BY <2>a DEF PoolOffChain
  <2>6. ToSet(P \o D) = ToSet(P) \cup ToSet(D) /\ ToSet(P \o C) = ToSet(P) \cup ToSet(C)
    BY <2>4, <2>5, Joined
  <2> SUFFICES ASSUME NEW t \in pool.mapTx, t \in ToSet(AllTxs[new])
               PROVE  Leaving(t, D, 0 - Len(R))
    BY <1>1, <1>3, <2>3 DEF PoolOffChain, NotMined, Gone
  <2>7. t \notin ToSet(P)
    <3>1. ~Leaving(t, <<>>, Gone)
      <4>1. 1 .. Len(<<>>) = {}
        OBVIOUS
      <4> QED BY <4>1 DEF Leaving
    <3>2. t \notin ToSet(AllTxs[tip])
      BY <1>1, <3>1 DEF NotMined
    <3> QED BY <2>5, <2>6, <3>2
  <2>8. PICK i \in 1 .. Len(D) : D[i] = t
    BY <2>4, <2>6, <2>7 DEF ToSet
  <2>9. Len(R) \in Nat
    BY <2>5
  <2>10. i > 0 - Len(R)
    BY <2>9
  <2> QED BY <2>8, <2>10 DEF Leaving
<1> QED BY <1>2, <1>3

\* A transaction comes back: none of vDelete is gone.
LEMMA OffChainResurrects ==
  ASSUME PoolInv, PoolOffChain, ResurrectTx
  PROVE  PoolOffChain'
<1> DEFINE t == vResurrect[done + 1]
<1>1. vResurrect \in Seq(Txs \ Coinbases) /\ done < Len(vResurrect) /\ done \in Nat
      /\ done' = done + 1 /\ UNCHANGED <<coinVars, vResurrect, vDelete>>
  BY DEF PoolInv, Counting, ResurrectTx
<1>2. t \in Txs /\ tip' = tip
  BY <1>1 DEF coinVars
<1>b. CASE BuriedRepeat(tip)
  BY <1>2, <1>b DEF PoolOffChain
<1> SUFFICES ASSUME ~BuriedRepeat(tip), NotMined(pool.mapTx, tip, vDelete, Gone)
             PROVE  PoolOffChain'
  BY <1>b DEF PoolOffChain
<1>3. NotMined(pool'.mapTx, tip, vDelete, Gone)
  <2>1. CASE Accept(pool, coins, tip, t) = "ok"
    <3>1. pool'.mapTx = pool.mapTx \cup {t}
      BY <2>1 DEF ResurrectTx, Add
    <3> HIDE DEF t
    <3>2. t \in ToSet(AllTxs[tip]) => Leaving(t, vDelete, Gone)
      BY <1>2, <2>1, AcceptedNotMined, GoneIsInt
    <3>3. NotMined(pool.mapTx \cup {t}, tip, vDelete, Gone)
      BY <3>2, NotMinedAdd
    <3> QED BY <3>1, <3>3
  <2>2. CASE Accept(pool, coins, tip, t) # "ok"
    <3>1. pool'.mapTx \subseteq pool.mapTx
      BY <2>2 DEF ResurrectTx, RemoveRecursive, Without
    <3> QED BY <3>1 DEF NotMined
  <2> QED BY <2>1, <2>2
<1>4. \A i \in 1 .. Len(vDelete) : i > (done + 1) - Len(vResurrect)
  BY <1>1
<1>5. NotMined(pool'.mapTx, tip, vDelete, (done + 1) - Len(vResurrect))
  BY <1>3, <1>4 DEF NotMined, Leaving
<1> QED BY <1>1, <1>2, <1>5 DEF PoolOffChain, Gone

\* A transaction of the new blocks leaves.
LEMMA OffChainDeletes ==
  ASSUME PoolInv, PoolOffChain, DeleteTx
  PROVE  PoolOffChain'
<1> DEFINE n == Len(vResurrect)
           m == Len(vDelete)
           k == done - n + 1
<1>1. /\ vResurrect \in Seq(Txs \ Coinbases) /\ vDelete \in Seq(Txs) /\ ~Idle /\ done >= n
      /\ UNCHANGED coinVars /\ pool' = Deleted(pool, vDelete[k])
  BY DEF PoolInv, DeleteTx
<1>2. IF done + 1 < n + m THEN done' = done + 1 /\ UNCHANGED <<vResurrect, vDelete>>
                          ELSE done' = 0 /\ vResurrect' = <<>> /\ vDelete' = <<>>
  BY DEF DeleteTx
<1>3. done \in 0 .. n + m - 1
  BY <1>1 DEF PoolInv, Counting, Idle
<1>4. n \in Nat /\ m \in Nat /\ tip' = tip
  BY <1>1 DEF coinVars
<1>5. pool'.mapTx \subseteq pool.mapTx \ {vDelete[k]}
  BY <1>1 DEF Deleted, RemoveTx, RemoveConflicts, Without
<1>a. CASE BuriedRepeat(tip)
  BY <1>4, <1>a DEF PoolOffChain
<1> SUFFICES ASSUME NotMined(pool.mapTx, tip, vDelete, Gone)
             PROVE  PoolOffChain'
  BY <1>a DEF PoolOffChain
<1>6. NotMined(pool.mapTx, tip, vDelete, done - n)
  BY DEF Gone
<1> HIDE DEF n, m
<1>7. ASSUME NEW t \in pool'.mapTx, t \in ToSet(AllTxs[tip])
      PROVE  \E i \in 1 .. m : i > k /\ vDelete[i] = t
  <2>1. PICK i \in 1 .. m : i > done - n /\ vDelete[i] = t
    BY <1>5, <1>6, <1>7 DEF NotMined, Leaving, m
  <2>2. i # k
    BY <1>5, <1>7, <2>1
  <2>3. i > k
    BY <1>3, <1>4, <2>1, <2>2
  <2> QED BY <2>1, <2>3
<1>8. CASE done + 1 < n + m
  <2>1. k = (done + 1) - n
    BY <1>3, <1>4
  <2>2. done' = done + 1 /\ vResurrect' = vResurrect /\ vDelete' = vDelete
    BY <1>2, <1>8
  <2>3. NotMined(pool'.mapTx, tip, vDelete, (done + 1) - n)
    <3> SUFFICES ASSUME NEW t \in pool'.mapTx, t \in ToSet(AllTxs[tip])
                 PROVE  Leaving(t, vDelete, (done + 1) - n)
      BY DEF NotMined
    <3>1. PICK i \in 1 .. m : i > k /\ vDelete[i] = t
      BY <1>7
    <3>2. i > (done + 1) - n
      BY <2>1, <3>1
    <3> QED BY <3>1, <3>2 DEF Leaving, m
  <2> QED BY <1>4, <2>2, <2>3 DEF PoolOffChain, Gone, n
<1>9. CASE ~(done + 1 < n + m)
  <2>1. \A i \in 1 .. m : ~(i > k)
    BY <1>3, <1>4, <1>9
  <2>2. \A t \in pool'.mapTx : t \notin ToSet(AllTxs[tip])
    <3> HIDE DEF k
    <3> QED BY <1>7, <2>1
  <2> QED BY <1>4, <2>2 DEF PoolOffChain, NotMined
<1> QED BY <1>8, <1>9

(***************************************************************************)
(* When SetBestChain is done and no coinbase has come twice on the best    *)
(* chain, no transaction of the pool is in it.  A coinbase that comes a    *)
(* second time brings outputs back that are spent, and what has spent them *)
(* may be mined and accepted again.  It can only be one that was spent, so *)
(* its first copy is mature; from there on BuriedRepeat holds for good,    *)
(* and until then nothing has been accepted that is mined.                 *)
(***************************************************************************)
THEOREM NothingMinedStays == PoolSpec => []PoolNotConfirmed
<1>1. PoolInit => PoolOffChain
  BY DEF PoolInit, PoolOffChain, NotMined
<1>2. PoolInv /\ PoolOffChain /\ [PoolNext]_poolVars => PoolOffChain'
  <2> SUFFICES ASSUME PoolInv, PoolOffChain, [PoolNext]_poolVars
               PROVE  PoolOffChain'
    OBVIOUS
  <2>1. ASSUME NEW t \in Txs, TxAccepted(t) \/ SendTx(t) \/ ReacceptWalletTransaction(t)
        PROVE  PoolOffChain'
    BY <2>1, OffChainEnters
  <2>2. ASSUME NEW t \in Txs, TxOrphaned(t)
        PROVE  PoolOffChain'
    BY <2>2 DEF TxOrphaned, coinVars, lists, PoolOffChain, Gone
  <2>3. ASSUME NEW b \in Blocks, NewBestChain(b)
        PROVE  PoolOffChain'
    BY <2>3, OffChainMoves
  <2>4. CASE ResurrectTx
    BY <2>4, OffChainResurrects
  <2>5. CASE DeleteTx
    BY <2>5, OffChainDeletes
  <2>6. CASE PoolRestart
    BY <2>6 DEF PoolRestart, PoolOffChain, NotMined
  <2>7. CASE UNCHANGED poolVars
    BY <2>7 DEF poolVars, coinVars, PoolOffChain, Gone
  <2> QED BY <2>1, <2>2, <2>3, <2>4, <2>5, <2>6, <2>7 DEF PoolNext
<1>3. PoolInv /\ PoolOffChain => PoolNotConfirmed
  <2> SUFFICES ASSUME PoolInv, PoolOffChain, Idle, CoinbasesDiffer(tip),
                      NEW t \in pool.mapTx, t \in ToSet(AllTxs[tip])
               PROVE  FALSE
    BY DEF PoolNotConfirmed
  <2>a. ~BuriedRepeat(tip)
    <3> SUFFICES ASSUME BuriedRepeat(tip) PROVE FALSE
      OBVIOUS
    <3> DEFINE s == AllTxs[tip]
    <3>1. PICK a \in Chain[tip] :
            \E i, j \in 1 .. Len(AllTxs[a]) : i < j /\ AllTxs[a][i] = AllTxs[a][j] /\ AllTxs[a][i] \in Coinbases
      BY DEF BuriedRepeat
    <3> DEFINE A == AllTxs[a]
    <3>2. PICK i \in 1 .. Len(A), j \in 1 .. Len(A) : i < j /\ A[i] = A[j] /\ A[i] \in Coinbases
      BY <3>1
    <3>3. tip \in Blocks /\ a \in Blocks
      BY OnChain DEF PoolInv, CoinInv
    <3>4. A \in Seq(Txs)
      BY <3>3, AllTxsDef
    <3>5. PICK D : D \in Seq(Txs) /\ s = A \o D
      BY <3>3, StretchTxs DEF Stretch
    <3> HIDE DEF A, s
    <3>6. s[i] = A[i] /\ s[j] = A[j] /\ i \in 1 .. Len(s) /\ j \in 1 .. Len(s)
      <4>1. Len(s) = Len(A) + Len(D) /\ Len(A) \in Nat /\ Len(D) \in Nat
        BY <3>4, <3>5, Joined
      <4> QED BY <3>4, <3>5, <4>1, Joined
    <3>7. s[i] = s[j] /\ s[i] \in Coinbases /\ i # j
      BY <3>2, <3>6
    <3> QED BY <3>6, <3>7 DEF CoinbasesDiffer, s
  <2>1. 1 .. Len(<<>>) = {}
    OBVIOUS
  <2> QED BY <2>1, <2>a DEF PoolOffChain, NotMined, Leaving, Idle
<1> QED BY <1>1, <1>2, <1>3, PoolInvariant, PTL DEF PoolSpec

(***************************************************************************)
(* The pool leaves the coins to Coins: each of its steps is a step of      *)
(* SetBestChain or a restart, or leaves the coins as they are.             *)
(***************************************************************************)
THEOREM PoolImplementsCoins == PoolSpec => Spec
<1>1. PoolInit => Init
  BY DEF PoolInit
<1>2. [PoolNext]_poolVars => [Next]_coinVars
  <2> SUFFICES ASSUME [PoolNext]_poolVars PROVE [Next]_coinVars
    OBVIOUS
  <2>1. ASSUME NEW t \in Txs, TxAccepted(t) \/ TxOrphaned(t) \/ SendTx(t) \/ ReacceptWalletTransaction(t)
        PROVE  UNCHANGED coinVars
    BY <2>1 DEF TxAccepted, TxOrphaned, SendTx, ReacceptWalletTransaction
  <2>2. ASSUME NEW b \in Blocks, NewBestChain(b)
        PROVE  Next
    BY <2>2 DEF NewBestChain, Next
  <2>3. ASSUME ResurrectTx \/ DeleteTx
        PROVE  UNCHANGED coinVars
    BY <2>3 DEF ResurrectTx, DeleteTx
  <2>4. ASSUME PoolRestart
        PROVE  Next
    BY <2>4 DEF PoolRestart, Next
  <2>5. ASSUME UNCHANGED poolVars
        PROVE  UNCHANGED coinVars
    BY <2>5 DEF poolVars
  <2> QED BY <2>1, <2>2, <2>3, <2>4, <2>5 DEF PoolNext
<1> QED BY <1>1, <1>2, PTL DEF PoolSpec, Spec
=============================================================================
