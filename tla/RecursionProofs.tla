--------------------------- MODULE RecursionProofs ---------------------------
(***************************************************************************)
(* What the folds of the community modules compute, for any step: the      *)
(* loops of main.cpp are folds over the inputs of a transaction, the       *)
(* transactions of a block and the blocks of a branch.                     *)
(*                                                                         *)
(* The step is the constant operator op, and a module that folds           *)
(* something instantiates this one with its step: a theorem with an        *)
(* operator among its hypotheses could not be cited.  The first two        *)
(* arguments of op stand for what the step takes from its context.         *)
(***************************************************************************)
EXTENDS Integers, Sequences, WellFoundedInduction

CONSTANT op(_, _, _, _)

\* Induction on a natural number, as a statement about a set.
LEMMA UpTo ==
  ASSUME NEW n \in Nat, NEW S, 0 \in S,
         \A k \in 0 .. n - 1 : k \in S => k + 1 \in S
  PROVE  \A k \in 0 .. n : k \in S
<1> DEFINE R == {k \in 0 .. n : k \notin S}
<1> SUFFICES ASSUME R # {} PROVE FALSE
  OBVIOUS
<1>1. R \subseteq Nat
  OBVIOUS
<1>2. PICK k \in R : \A j \in R : <<j, k>> \notin OpToRel(<, Nat)
  <2> HIDE DEF R
  <2> QED BY <1>1, WFMin, NatLessThanWellFounded
<1>3. \A j \in R : ~(j < k)
  BY <1>1, <1>2 DEF OpToRel
<1>4. k # 0 /\ k - 1 \in 0 .. n - 1 /\ k - 1 \notin R
  BY <1>3
<1> QED BY <1>4

\* Max and Min of FiniteSetsExt, when one knows what they are.
Greatest(S) == CHOOSE x \in S : \A y \in S : x >= y
Least(S) == CHOOSE x \in S : \A y \in S : x =< y

\* An upper bound in the set is its greatest element.
LEMMA MaxIs ==
  ASSUME NEW S \in SUBSET Int, NEW m \in S, \A y \in S : m >= y
  PROVE  Greatest(S) = m
<1>1. Greatest(S) \in S /\ \A y \in S : Greatest(S) >= y
  BY DEF Greatest
<1>2. m \in Int /\ Greatest(S) \in Int /\ m >= Greatest(S) /\ Greatest(S) >= m
  BY <1>1
<1> QED BY <1>2

\* A lower bound in the set is its least element.
LEMMA MinIs ==
  ASSUME NEW S \in SUBSET Int, NEW m \in S, \A y \in S : m <= y
  PROVE  Least(S) = m
<1>1. Least(S) \in S /\ \A y \in S : Least(S) <= y
  BY DEF Least
<1>2. m \in Int /\ Least(S) \in Int /\ m <= Least(S) /\ Least(S) <= m
  BY <1>1
<1> QED BY <1>2

-----------------------------------------------------------------------------
(***************************************************************************)
(* FoldLeft.                                                               *)
(***************************************************************************)
\* h[s] folds the elements of f at the positions in s.
FoldsLeft(h, c, d, base, f, n) ==
  /\ h = [s \in SUBSET (1 .. n) |-> h[s]]
  /\ \A s \in SUBSET (1 .. n) :
       h[s] = IF s = {} THEN base ELSE op(c, d, h[s \ {Greatest(s)}], f[Greatest(s)])

\* One element more.
LEMMA FoldsLeftStep ==
  ASSUME NEW c, NEW d, NEW base, NEW f, NEW k \in Nat, NEW h, FoldsLeft(h, c, d, base, f, k)
  PROVE  \E g : FoldsLeft(g, c, d, base, f, k + 1)
<1> DEFINE g == [s \in SUBSET (1 .. k + 1) |->
                   IF k + 1 \in s THEN op(c, d, h[s \ {k + 1}], f[k + 1]) ELSE h[s]]
<1>1. ASSUME NEW s \in SUBSET (1 .. k + 1)
      PROVE  g[s] = IF s = {} THEN base ELSE op(c, d, g[s \ {Greatest(s)}], f[Greatest(s)])
  <2>1. CASE k + 1 \in s
    <3>1. Greatest(s) = k + 1
      BY <2>1, MaxIs
    <3>2. s \ {k + 1} \in SUBSET (1 .. k + 1) /\ k + 1 \notin s \ {k + 1}
      OBVIOUS
    <3> QED BY <2>1, <3>1, <3>2
  <2>2. CASE k + 1 \notin s
    <3>1. s \in SUBSET (1 .. k)
      BY <2>2
    <3>2. g[s] = h[s]
      BY <2>2
    <3>3. h[s] = IF s = {} THEN base ELSE op(c, d, h[s \ {Greatest(s)}], f[Greatest(s)])
      BY <3>1 DEF FoldsLeft
    <3>4. g[s \ {Greatest(s)}] = h[s \ {Greatest(s)}]
      BY <2>2
    <3> QED BY <3>2, <3>3, <3>4
  <2> QED BY <2>1, <2>2
<1>2. g = [s \in SUBSET (1 .. k + 1) |-> g[s]]
  OBVIOUS
<1> HIDE DEF g
<1>3. FoldsLeft(g, c, d, base, f, k + 1)
  BY <1>1, <1>2 DEF FoldsLeft
<1> QED BY <1>3

\* There is such a function for a sequence of any length.
LEMMA FoldsLeftExists ==
  ASSUME NEW c, NEW d, NEW base, NEW f, NEW n \in Nat
  PROVE  \E h : FoldsLeft(h, c, d, base, f, n)
<1> DEFINE S == {k \in 0 .. n : \E h : FoldsLeft(h, c, d, base, f, k)}
<1>1. 0 \in S
  <2> DEFINE h == [s \in SUBSET (1 .. 0) |-> base]
  <2>1. FoldsLeft(h, c, d, base, f, 0)
    BY DEF FoldsLeft
  <2> QED BY <2>1
<1>2. ASSUME NEW k \in 0 .. n - 1, k \in S
      PROVE  k + 1 \in S
  <2>1. \E g : FoldsLeft(g, c, d, base, f, k + 1)
    BY <1>2, FoldsLeftStep
  <2> QED BY <2>1
<1>3. \A k \in 0 .. n : k \in S
  <2> HIDE DEF S
  <2> QED BY <1>1, <1>2, UpTo
<1> QED BY <1>3

(***************************************************************************)
(* The values a loop goes through: r[k] after k elements.                  *)
(***************************************************************************)
RunsLeft(r, c, d, base, f, n) ==
  /\ r = [k \in 0 .. n |-> r[k]]
  /\ r[0] = base
  /\ \A k \in 1 .. n : r[k] = op(c, d, r[k - 1], f[k])

\* Along the initial segments it is a loop.
LEMMA FoldsLeftRuns ==
  ASSUME NEW c, NEW d, NEW base, NEW f, NEW n \in Nat, NEW h, FoldsLeft(h, c, d, base, f, n)
  PROVE  RunsLeft([k \in 0 .. n |-> h[1 .. k]], c, d, base, f, n)
<1> DEFINE r == [k \in 0 .. n |-> h[1 .. k]]
<1>1. r[0] = base
  <2>1. 1 .. 0 = {} /\ {} \in SUBSET (1 .. n)
    OBVIOUS
  <2>2. h[{}] = base
    BY <2>1 DEF FoldsLeft
  <2> QED BY <2>1, <2>2
<1>2. ASSUME NEW k \in 1 .. n
      PROVE  r[k] = op(c, d, r[k - 1], f[k])
  <2>1. Greatest(1 .. k) = k
    <3>1. 1 .. k \in SUBSET Int /\ k \in 1 .. k /\ \A y \in 1 .. k : k >= y
      OBVIOUS
    <3> QED BY <3>1, MaxIs
  <2>2. (1 .. k) \ {k} = 1 .. k - 1 /\ 1 .. k # {} /\ 1 .. k \in SUBSET (1 .. n)
    OBVIOUS
  <2>3. h[1 .. k] = op(c, d, h[1 .. k - 1], f[k])
    BY <2>1, <2>2 DEF FoldsLeft
  <2> QED BY <2>3
<1> QED BY <1>1, <1>2 DEF RunsLeft

\* FoldLeft over a sequence is the last value of such a loop.
Left(c, d, base, f) ==
  LET iter[s \in SUBSET DOMAIN f] ==
        IF s = {} THEN base ELSE op(c, d, iter[s \ {Greatest(s)}], f[Greatest(s)])
  IN  iter[DOMAIN f]

\* FoldLeft is a loop from the first element to the last.
THEOREM LeftRuns ==
  ASSUME NEW c, NEW d, NEW base, NEW f, NEW n \in Nat, DOMAIN f = 1 .. n
  PROVE  \E r : RunsLeft(r, c, d, base, f, n) /\ Left(c, d, base, f) = r[n]
<1> DEFINE Solves(h) == h = [s \in SUBSET (1 .. n) |->
                               IF s = {} THEN base ELSE op(c, d, h[s \ {Greatest(s)}], f[Greatest(s)])]
           iter == CHOOSE h : Solves(h)
           r == [k \in 0 .. n |-> iter[1 .. k]]
<1>1. PICK h : FoldsLeft(h, c, d, base, f, n)
  BY FoldsLeftExists
<1>2. Solves(h)
  BY <1>1 DEF FoldsLeft
<1>3. Solves(iter)
  <2> HIDE DEF Solves
  <2> QED BY <1>2
<1>4. Left(c, d, base, f) = iter[1 .. n]
  BY DEF Left
<1> HIDE DEF iter
<1>5. FoldsLeft(iter, c, d, base, f, n)
  BY <1>3 DEF FoldsLeft
<1>6. RunsLeft(r, c, d, base, f, n) /\ r[n] = iter[1 .. n]
  BY <1>5, FoldsLeftRuns
<1> HIDE DEF r
<1> QED BY <1>4, <1>6

\* An empty loop, and a loop with one element more at either end.
THEOREM LeftEmpty ==
  ASSUME NEW c, NEW d, NEW base
  PROVE  Left(c, d, base, <<>>) = base
<1>1. PICK r : RunsLeft(r, c, d, base, <<>>, 0) /\ Left(c, d, base, <<>>) = r[0]
  BY LeftRuns
<1> QED BY <1>1 DEF RunsLeft

\* Two such loops go through the same values as long as their elements agree.
LEMMA RunsAgree ==
  ASSUME NEW c, NEW d, NEW base, NEW f, NEW g, NEW m \in Nat, NEW n \in Nat, m <= n,
         \A k \in 1 .. m : f[k] = g[k],
         NEW r, RunsLeft(r, c, d, base, f, m), NEW q, RunsLeft(q, c, d, base, g, n)
  PROVE  r[m] = q[m]
<1> DEFINE S == {k \in 0 .. m : r[k] = q[k]}
<1>1. 0 \in S
  BY DEF RunsLeft
<1>2. ASSUME NEW k \in 0 .. m - 1, k \in S
      PROVE  k + 1 \in S
  <2>1. k + 1 \in 1 .. m /\ k + 1 \in 1 .. n /\ (k + 1) - 1 = k
    OBVIOUS
  <2>2. r[k + 1] = op(c, d, r[k], f[k + 1]) /\ q[k + 1] = op(c, d, q[k], g[k + 1])
    BY <2>1 DEF RunsLeft
  <2> QED BY <1>2, <2>1, <2>2
<1>3. \A k \in 0 .. m : k \in S
  <2> HIDE DEF S
  <2> QED BY <1>1, <1>2, UpTo
<1> QED BY <1>3

\* FoldLeft, one element at a time.
THEOREM LeftAppend ==
  ASSUME NEW c, NEW d, NEW base, NEW X, NEW s \in Seq(X), NEW x \in X
  PROVE  Left(c, d, base, Append(s, x)) = op(c, d, Left(c, d, base, s), x)
<1> DEFINE n == Len(s)
           t == Append(s, x)
<1>1. n \in Nat /\ DOMAIN s = 1 .. n /\ DOMAIN t = 1 .. n + 1 /\ t[n + 1] = x
      /\ \A k \in 1 .. n : s[k] = t[k]
  OBVIOUS
<1> HIDE DEF n, t
<1>2. PICK r : RunsLeft(r, c, d, base, s, n) /\ Left(c, d, base, s) = r[n]
  BY <1>1, LeftRuns
<1>3. PICK q : RunsLeft(q, c, d, base, t, n + 1) /\ Left(c, d, base, t) = q[n + 1]
  BY <1>1, LeftRuns
<1>4. r[n] = q[n]
  BY <1>1, <1>2, <1>3, RunsAgree
<1>5. q[n + 1] = op(c, d, q[n], x)
  <2>1. n + 1 \in 1 .. n + 1 /\ (n + 1) - 1 = n
    BY <1>1
  <2> QED BY <1>1, <1>3, <2>1 DEF RunsLeft
<1> QED BY <1>2, <1>3, <1>4, <1>5 DEF t

-----------------------------------------------------------------------------
(***************************************************************************)
(* FoldRight: the same from the last element to the first.                 *)
(***************************************************************************)
FoldsRight(h, c, d, base, f, m, n) ==
  /\ h = [s \in SUBSET (m .. n) |-> h[s]]
  /\ \A s \in SUBSET (m .. n) :
       h[s] = IF s = {} THEN base ELSE op(c, d, f[Least(s)], h[s \ {Least(s)}])

\* One element more, at the front.
LEMMA FoldsRightStep ==
  ASSUME NEW c, NEW d, NEW base, NEW f, NEW m \in Int, NEW n \in Int, m <= n + 1,
         NEW h, FoldsRight(h, c, d, base, f, m, n)
  PROVE  \E g : FoldsRight(g, c, d, base, f, m - 1, n)
<1> DEFINE l == m - 1
           g == [s \in SUBSET (l .. n) |->
                   IF l \in s THEN op(c, d, f[l], h[s \ {l}]) ELSE h[s]]
<1>1. ASSUME NEW s \in SUBSET (l .. n)
      PROVE  g[s] = IF s = {} THEN base ELSE op(c, d, f[Least(s)], g[s \ {Least(s)}])
  <2>1. CASE l \in s
    <3>1. Least(s) = l
      BY <2>1, MinIs
    <3>2. s \ {l} \in SUBSET (l .. n) /\ l \notin s \ {l}
      OBVIOUS
    <3> QED BY <2>1, <3>1, <3>2
  <2>2. CASE l \notin s
    <3>1. s \in SUBSET (m .. n)
      BY <2>2
    <3>2. g[s] = h[s]
      BY <2>2
    <3>3. h[s] = IF s = {} THEN base ELSE op(c, d, f[Least(s)], h[s \ {Least(s)}])
      BY <3>1 DEF FoldsRight
    <3>4. g[s \ {Least(s)}] = h[s \ {Least(s)}]
      BY <2>2
    <3> QED BY <3>2, <3>3, <3>4
  <2> QED BY <2>1, <2>2
<1>2. g = [s \in SUBSET (l .. n) |-> g[s]]
  OBVIOUS
<1> HIDE DEF g
<1>3. FoldsRight(g, c, d, base, f, m - 1, n)
  BY <1>1, <1>2 DEF FoldsRight
<1> QED BY <1>3

\* There is such a function for a sequence of any length.
LEMMA FoldsRightExists ==
  ASSUME NEW c, NEW d, NEW base, NEW f, NEW n \in Nat
  PROVE  \E h : FoldsRight(h, c, d, base, f, 1, n)
<1> DEFINE S == {k \in 0 .. n : \E h : FoldsRight(h, c, d, base, f, n + 1 - k, n)}
<1>1. 0 \in S
  <2> DEFINE h == [s \in SUBSET (n + 1 .. n) |-> base]
  <2>1. FoldsRight(h, c, d, base, f, n + 1, n)
    BY DEF FoldsRight
  <2>2. n + 1 - 0 = n + 1
    OBVIOUS
  <2> QED BY <2>1, <2>2
<1>2. ASSUME NEW k \in 0 .. n - 1, k \in S
      PROVE  k + 1 \in S
  <2>1. n + 1 - k \in Int /\ n + 1 - k <= n + 1 /\ (n + 1 - k) - 1 = n + 1 - (k + 1)
    OBVIOUS
  <2>2. \E g : FoldsRight(g, c, d, base, f, (n + 1 - k) - 1, n)
    BY <1>2, <2>1, FoldsRightStep
  <2> QED BY <2>1, <2>2
<1>3. \A k \in 0 .. n : k \in S
  <2> HIDE DEF S
  <2> QED BY <1>1, <1>2, UpTo
<1>4. n \in S /\ n + 1 - n = 1
  BY <1>3
<1> QED BY <1>4

\* r[k] is the value once the elements from n down to k have been dealt with.
RunsRight(r, c, d, base, f, n) ==
  /\ r = [k \in 1 .. n + 1 |-> r[k]]
  /\ r[n + 1] = base
  /\ \A k \in 1 .. n : r[k] = op(c, d, f[k], r[k + 1])

\* Along the final segments it is a loop.
LEMMA FoldsRightRuns ==
  ASSUME NEW c, NEW d, NEW base, NEW f, NEW n \in Nat, NEW h, FoldsRight(h, c, d, base, f, 1, n)
  PROVE  RunsRight([k \in 1 .. n + 1 |-> h[k .. n]], c, d, base, f, n)
<1> DEFINE r == [k \in 1 .. n + 1 |-> h[k .. n]]
<1>1. r[n + 1] = base
  <2>1. n + 1 .. n = {} /\ {} \in SUBSET (1 .. n)
    OBVIOUS
  <2>2. h[{}] = base
    BY <2>1 DEF FoldsRight
  <2> QED BY <2>1, <2>2
<1>2. ASSUME NEW k \in 1 .. n
      PROVE  r[k] = op(c, d, f[k], r[k + 1])
  <2>1. Least(k .. n) = k
    <3>1. k .. n \in SUBSET Int /\ k \in k .. n /\ \A y \in k .. n : k <= y
      OBVIOUS
    <3> QED BY <3>1, MinIs
  <2>2. (k .. n) \ {k} = k + 1 .. n /\ k .. n # {} /\ k .. n \in SUBSET (1 .. n)
    OBVIOUS
  <2>3. h[k .. n] = op(c, d, f[k], h[k + 1 .. n])
    BY <2>1, <2>2 DEF FoldsRight
  <2> QED BY <2>3
<1> QED BY <1>1, <1>2 DEF RunsRight

Right(c, d, base, f) ==
  LET iter[s \in SUBSET DOMAIN f] ==
        IF s = {} THEN base ELSE op(c, d, f[Least(s)], iter[s \ {Least(s)}])
  IN  iter[DOMAIN f]

\* FoldRightDomain is a loop from the last element to the first.
THEOREM RightRuns ==
  ASSUME NEW c, NEW d, NEW base, NEW f, NEW n \in Nat, DOMAIN f = 1 .. n
  PROVE  \E r : RunsRight(r, c, d, base, f, n) /\ Right(c, d, base, f) = r[1]
<1> DEFINE Solves(h) == h = [s \in SUBSET (1 .. n) |->
                               IF s = {} THEN base ELSE op(c, d, f[Least(s)], h[s \ {Least(s)}])]
           iter == CHOOSE h : Solves(h)
           r == [k \in 1 .. n + 1 |-> iter[k .. n]]
<1>1. PICK h : FoldsRight(h, c, d, base, f, 1, n)
  BY FoldsRightExists
<1>2. Solves(h)
  BY <1>1 DEF FoldsRight
<1>3. Solves(iter)
  <2> HIDE DEF Solves
  <2> QED BY <1>2
<1>4. Right(c, d, base, f) = iter[1 .. n]
  BY DEF Right
<1> HIDE DEF iter
<1>5. FoldsRight(iter, c, d, base, f, 1, n)
  BY <1>3 DEF FoldsRight
<1>6. RunsRight(r, c, d, base, f, n) /\ r[1] = iter[1 .. n]
  BY <1>5, FoldsRightRuns
<1> HIDE DEF r
<1> QED BY <1>4, <1>6

-----------------------------------------------------------------------------
(***************************************************************************)
(* Recursion from the root g of a tree B, where p[b] is the parent of b.   *)
(* A solution on a part of the tree that is closed under parents is        *)
(* unique, and every node lies in such a part.                             *)
(***************************************************************************)
Acyclic(B, g, p) ==
  /\ g \in B /\ \A b \in B \ {g} : p[b] \in B
  /\ \A S \in SUBSET B : S # {} => \E b \in S : b = g \/ p[b] \notin S

\* Induction along the tree, as a statement about a set.
LEMMA DownTheTree ==
  ASSUME NEW B, NEW g, NEW p, Acyclic(B, g, p), NEW S,
         \A b \in B : (b = g \/ p[b] \in S) => b \in S
  PROVE  \A b \in B : b \in S
<1> DEFINE R == {b \in B : b \notin S}
<1> SUFFICES ASSUME R # {} PROVE FALSE
  OBVIOUS
<1>1. R \in SUBSET B
  OBVIOUS
<1>2. PICK b \in R : b = g \/ p[b] \notin R
  BY <1>1 DEF Acyclic
<1>3. b = g \/ p[b] \in B
  BY <1>2 DEF Acyclic
<1> QED BY <1>2, <1>3

ClosedParts(B, g, p) == {D \in SUBSET B : \A b \in D : b # g => p[b] \in D}
Grows(h, D, c, d, base, g, p) ==
  /\ h = [b \in D |-> h[b]]
  /\ \A b \in D : h[b] = IF b = g THEN base ELSE op(c, d, h[p[b]], b)

\* Two of them agree where both are defined.
LEMMA GrowthsAgree ==
  ASSUME NEW B, NEW g, NEW p, Acyclic(B, g, p), NEW c, NEW d, NEW base,
         NEW D \in ClosedParts(B, g, p), NEW E \in ClosedParts(B, g, p),
         NEW f, Grows(f, D, c, d, base, g, p), NEW h, Grows(h, E, c, d, base, g, p)
  PROVE  \A b \in D \cap E : f[b] = h[b]
<1> DEFINE S == {b \in B : b \in D \cap E => f[b] = h[b]}
<1>1. \A b \in B : (b = g \/ p[b] \in S) => b \in S
  <2> SUFFICES ASSUME NEW b \in B, b = g \/ p[b] \in S, b \in D \cap E
               PROVE  f[b] = h[b]
    OBVIOUS
  <2>1. /\ f[b] = IF b = g THEN base ELSE op(c, d, f[p[b]], b)
        /\ h[b] = IF b = g THEN base ELSE op(c, d, h[p[b]], b)
    BY DEF Grows
  <2>2. CASE b = g
    BY <2>1, <2>2
  <2>3. CASE b # g
    <3>1. p[b] \in D \cap E
      BY <2>3 DEF ClosedParts
    <3>2. f[p[b]] = h[p[b]]
      BY <2>3, <3>1
    <3> QED BY <2>1, <2>3, <3>2
  <2> QED BY <2>2, <2>3
<1>2. \A b \in B : b \in S
  <2> HIDE DEF S
  <2> QED BY <1>1, DownTheTree
<1> QED BY <1>2 DEF ClosedParts

\* Every block is in the domain of one.
LEMMA GrowthsExist ==
  ASSUME NEW B, NEW g, NEW p, Acyclic(B, g, p), NEW c, NEW d, NEW base
  PROVE  \A b \in B : \E D \in ClosedParts(B, g, p) :
           b \in D /\ \E h : Grows(h, D, c, d, base, g, p)
<1> DEFINE P(b) == \E D \in ClosedParts(B, g, p) : b \in D /\ \E h : Grows(h, D, c, d, base, g, p)
           S == {b \in B : P(b)}
<1>1. ASSUME NEW b \in B, b = g \/ p[b] \in S
      PROVE  P(b)
  <2>1. CASE b = g
    <3> DEFINE h == [x \in {g} |-> base]
    <3>1. {g} \in ClosedParts(B, g, p)
      BY DEF ClosedParts, Acyclic
    <3>2. Grows(h, {g}, c, d, base, g, p)
      BY DEF Grows
    <3> QED BY <2>1, <3>1, <3>2
  <2>2. CASE b # g
    <3>1. PICK D \in ClosedParts(B, g, p) : p[b] \in D /\ \E h : Grows(h, D, c, d, base, g, p)
      BY <1>1, <2>2
    <3>2. PICK f : Grows(f, D, c, d, base, g, p)
      BY <3>1
    <3>3. CASE b \in D
      BY <3>1, <3>3
    <3>4. CASE b \notin D
      <4> DEFINE h == [x \in D \cup {b} |-> IF x \in D THEN f[x] ELSE op(c, d, f[p[b]], b)]
      <4>1. D \cup {b} \in ClosedParts(B, g, p)
        BY <3>1 DEF ClosedParts
      <4>2. ASSUME NEW x \in D \cup {b}
            PROVE  h[x] = IF x = g THEN base ELSE op(c, d, h[p[x]], x)
        <5>1. CASE x \in D
          <6>1. x # g => p[x] \in D
            BY <5>1 DEF ClosedParts
          <6> QED BY <3>2, <5>1, <6>1 DEF Grows
        <5>2. CASE x = b
          BY <2>2, <3>1, <3>4, <5>2
        <5> QED BY <5>1, <5>2
      <4>3. h = [x \in D \cup {b} |-> h[x]] /\ b \in D \cup {b}
        OBVIOUS
      <4> HIDE DEF h
      <4>4. Grows(h, D \cup {b}, c, d, base, g, p)
        BY <4>2, <4>3 DEF Grows
      <4> QED BY <4>1, <4>3, <4>4
    <3> QED BY <3>3, <3>4
  <2> QED BY <2>1, <2>2
<1>2. \A b \in B : b \in S
  <2>1. \A b \in B : (b = g \/ p[b] \in S) => b \in S
    BY <1>1
  <2> HIDE DEF S
  <2> QED BY <2>1, DownTheTree
<1> QED BY <1>2

\* The recursive definition has a solution on the whole tree.
GrowsAlong(f, c, d, base, B, g, p) ==
  f = [b \in B |-> IF b = g THEN base ELSE op(c, d, f[p[b]], b)]

\* The recursion along hashPrevBlock has a solution on all blocks.
THEOREM TreeRecursion ==
  ASSUME NEW B, NEW g, NEW p, Acyclic(B, g, p), NEW c, NEW d, NEW base
  PROVE  \E f : GrowsAlong(f, c, d, base, B, g, p)
<1> DEFINE Val(b, v) == \E D \in ClosedParts(B, g, p) :
                          b \in D /\ \E h : Grows(h, D, c, d, base, g, p) /\ v = h[b]
           f == [b \in B |-> CHOOSE v : Val(b, v)]
<1>1. ASSUME NEW D \in ClosedParts(B, g, p), NEW h, Grows(h, D, c, d, base, g, p), NEW b \in D
      PROVE  f[b] = h[b]
  <2>1. b \in B
    BY DEF ClosedParts
  <2>2. Val(b, h[b])
    BY <1>1
  <2>3. ASSUME NEW v, Val(b, v) PROVE v = h[b]
    BY <1>1, <2>3, GrowthsAgree
  <2> HIDE DEF Val
  <2>4. f[b] = CHOOSE v : Val(b, v)
    BY <2>1
  <2>5. Val(b, f[b])
    BY <2>2, <2>4
  <2> QED BY <2>3, <2>5
<1>2. f = [b \in B |-> f[b]]
  OBVIOUS
<1> HIDE DEF f
<1>3. ASSUME NEW b \in B
      PROVE  f[b] = IF b = g THEN base ELSE op(c, d, f[p[b]], b)
  <2>1. PICK D \in ClosedParts(B, g, p) : b \in D /\ \E h : Grows(h, D, c, d, base, g, p)
    BY GrowthsExist
  <2>2. PICK h : Grows(h, D, c, d, base, g, p)
    BY <2>1
  <2>3. f[b] = h[b] /\ h[b] = IF b = g THEN base ELSE op(c, d, h[p[b]], b)
    BY <1>1, <2>1, <2>2 DEF Grows
  <2>4. b # g => f[p[b]] = h[p[b]]
    BY <1>1, <2>1, <2>2 DEF ClosedParts
  <2> QED BY <2>3, <2>4
<1>4. GrowsAlong(f, c, d, base, B, g, p)
  BY <1>2, <1>3 DEF GrowsAlong
<1> QED BY <1>4
=============================================================================
