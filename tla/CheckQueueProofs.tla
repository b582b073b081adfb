-------------------------- MODULE CheckQueueProofs --------------------------
(***************************************************************************)
(* IInv of CheckQueue is inductive, and what follows from it, for any      *)
(* number of workers, any checks and any batch size.                       *)
(***************************************************************************)
EXTENDS CheckQueue, FiniteSetTheorems, TLAPS

(***************************************************************************)
(* Facts about the constants and about counting that the steps share.      *)
(***************************************************************************)
\* The pool is finite, the master is no worker, and nobody is NoThread.
LEMMA ThreadFacts ==
  /\ IsFiniteSet(Threads)
  /\ Master \in Threads
  /\ Workers \subseteq Threads
  /\ NoThread \notin Threads
  /\ \A t \in Threads : t # Master => t \in Workers
<1>1. IsFiniteSet(Threads)
  BY CheckQueueAssumption, FS_AddElement DEF Threads
<1> QED BY <1>1, CheckQueueAssumption DEF Threads

\* What is counted is finite: a part of the pool, or of the checks.
LEMMA Finiteness ==
  /\ IsFiniteSet(IdleThreads)
  /\ IsFiniteSet(CountedThreads)
<1>1. IdleThreads \subseteq Threads /\ CountedThreads \subseteq Threads
  BY DEF IdleThreads, CountedThreads
<1> QED BY <1>1, ThreadFacts, FS_Subset

\* A thread that joins or leaves a counted set changes the count by one.
LEMMA CountOneMore ==
  ASSUME NEW S, IsFiniteSet(S), NEW t, t \notin S
  PROVE  Cardinality(S \cup {t}) = Cardinality(S) + 1
BY FS_AddElement

LEMMA CountOneLess ==
  ASSUME NEW S, IsFiniteSet(S), NEW t \in S
  PROVE  /\ Cardinality(S \ {t}) = Cardinality(S) - 1
         /\ Cardinality(S) # 0
BY FS_RemoveElement, FS_EmptySet

\* Disjoint finite sets: their sizes add up.
LEMMA CountDisjoint ==
  ASSUME NEW S, IsFiniteSet(S), NEW R, IsFiniteSet(R), S \cap R = {}
  PROVE  Cardinality(S \cup R) = Cardinality(S) + Cardinality(R)
<1>1. Cardinality(S \cap R) = 0
  BY FS_EmptySet
<1>2. /\ Cardinality(S) \in Nat /\ Cardinality(R) \in Nat
  BY FS_CardinalityType
<1>3. Cardinality(S \cup R) = Cardinality(S) + Cardinality(R) - Cardinality(S \cap R)
  BY FS_Union
<1> QED BY <1>1, <1>2, <1>3

\* Outstanding checks are in the queue or in somebody's batch.
LEMMA OutstandingIs ==
  \A x : x \in Outstanding <=> x \in queue \/ \E t \in Threads : x \in batch[t]
BY Zenon DEF Outstanding

LEMMA OutstandingFinite ==
  ASSUME TypeOK
  PROVE  /\ Outstanding \subseteq Checks
         /\ IsFiniteSet(Outstanding)
         /\ Cardinality(Outstanding) \in Nat
         /\ Cardinality(Outstanding) = 0 <=> Outstanding = {}
<1>1. Outstanding \subseteq Checks
  BY OutstandingIs DEF TypeOK
<1>2. IsFiniteSet(Outstanding)
  BY <1>1, CheckQueueAssumption, FS_Subset
<1> QED BY <1>1, <1>2, FS_CardinalityType, FS_EmptySet

\* The counters are numbers.
LEMMA CountsAreNumbers ==
  /\ Cardinality(IdleThreads) \in Nat
  /\ Cardinality(CountedThreads) \in Nat
  /\ Thrown \in Nat
BY Finiteness, FS_CardinalityType DEF Thrown

-----------------------------------------------------------------------------
\* The invariant holds when the queue has been constructed.
LEMMA InitIInv == Init => IInv
<1> SUFFICES ASSUME Init PROVE IInv
  OBVIOUS
<1> USE ThreadFacts, CheckQueueAssumption
<1>1. TypeOK
  BY DEF Init, TypeOK, MasterPlaces, LoopPlaces, Threads
<1>2. Outstanding = {}
  BY OutstandingIs DEF Init
<1>3. IdleThreads = {} /\ CountedThreads = {}
  BY DEF Init, IdleThreads, CountedThreads
<1>4. CountInv
  BY <1>3, FS_EmptySet DEF Init, CountInv, Thrown
<1>5. TodoCountsOutstanding
  BY <1>2, FS_EmptySet DEF Init, TodoCountsOutstanding
<1>6. MutexInv /\ BatchInv /\ AsleepInv
  BY DEF Init, MutexInv, BatchInv, AsleepInv
<1>7. FailureInv
  BY <1>2 DEF Init, FailureInv, InSession, LoopPlaces
<1> QED BY <1>1, <1>4, <1>5, <1>6, <1>7 DEF IInv

-----------------------------------------------------------------------------
(***************************************************************************)
(* One lemma per action: it preserves the invariant.                       *)
(***************************************************************************)
LEMMA CtorReadTotalIInv == ASSUME IInv, CtorReadTotal PROVE IInv'
<1> USE ThreadFacts DEF IInv, CtorReadTotal
<1>1. TypeOK'
  BY DEF TypeOK, MasterPlaces, LoopPlaces
<1>2. Outstanding' = Outstanding
  BY DEF Outstanding
<1>3. IdleThreads' = IdleThreads /\ CountedThreads' = CountedThreads
  BY DEF TypeOK, IdleThreads, CountedThreads
<1>4. CountInv'
  BY <1>3 DEF CountInv, Thrown
<1>5. TodoCountsOutstanding'
  BY <1>2 DEF TodoCountsOutstanding
<1>6. MutexInv' /\ BatchInv' /\ AsleepInv'
  BY DEF TypeOK, MutexInv, BatchInv, AsleepInv
<1>7. FailureInv'
  BY <1>2 DEF TypeOK, FailureInv, InSession, LoopPlaces
<1> QED BY <1>1, <1>4, <1>5, <1>6, <1>7

LEMMA CtorAssertsIInv == ASSUME IInv, CtorAsserts PROVE IInv'
<1> USE ThreadFacts DEF IInv, CtorAsserts
<1>1. TypeOK'
  BY DEF TypeOK, MasterPlaces, LoopPlaces
<1>2. Outstanding' = Outstanding
  BY DEF Outstanding
<1>3. IdleThreads' = IdleThreads /\ CountedThreads' = CountedThreads
  BY DEF TypeOK, IdleThreads, CountedThreads
<1>4. CountInv'
  BY <1>3 DEF CountInv, Thrown
<1>5. TodoCountsOutstanding'
  BY <1>2 DEF TodoCountsOutstanding
<1>6. MutexInv' /\ BatchInv' /\ AsleepInv'
  BY DEF TypeOK, MutexInv, BatchInv, AsleepInv
<1>7. Outstanding = {} /\ fAllOk
  BY DEF TypeOK, FailureInv, InSession, LoopPlaces
<1>8. \A t \in Threads : batch[t] = {}
  BY <1>7, OutstandingIs
<1>9. \A t \in Threads : pc[t] \in {"exec", "done"} => fOk[t]
  BY <1>8 DEF BatchInv
<1>10. FailureInv'
  BY <1>2, <1>7, <1>8, <1>9 DEF TypeOK, FailureInv, InSession, LoopPlaces
<1> QED BY <1>1, <1>4, <1>5, <1>6, <1>10

LEMMA WaitIInv == ASSUME IInv, Wait PROVE IInv'
<1> USE ThreadFacts DEF IInv, Wait
<1>1. TypeOK'
  BY DEF TypeOK, MasterPlaces, LoopPlaces
<1>2. Outstanding' = Outstanding
  BY DEF Outstanding
<1>3. IdleThreads' = IdleThreads /\ CountedThreads' = CountedThreads
  BY DEF TypeOK, IdleThreads, CountedThreads
<1>4. CountInv'
  BY <1>3 DEF CountInv, Thrown
<1>5. TodoCountsOutstanding'
  BY <1>2 DEF TodoCountsOutstanding
<1>6. MutexInv' /\ BatchInv' /\ AsleepInv'
  BY DEF TypeOK, MutexInv, BatchInv, AsleepInv
<1>7. FailureInv'
  BY <1>2 DEF TypeOK, FailureInv, InSession, LoopPlaces
<1> QED BY <1>1, <1>4, <1>5, <1>6, <1>7

LEMMA InterruptAllIInv == ASSUME IInv, InterruptAll PROVE IInv'
<1> USE ThreadFacts DEF IInv, InterruptAll
<1>1. TypeOK'
  BY DEF TypeOK, MasterPlaces, LoopPlaces
<1>2. Outstanding' = Outstanding
  BY DEF Outstanding
<1>3. IdleThreads' = IdleThreads /\ CountedThreads' = CountedThreads
  BY DEF TypeOK, IdleThreads, CountedThreads
<1>4. CountInv'
  BY <1>3 DEF CountInv, Thrown
<1>5. TodoCountsOutstanding'
  BY <1>2 DEF TodoCountsOutstanding
<1>6. MutexInv' /\ BatchInv' /\ AsleepInv'
  BY DEF TypeOK, MutexInv, BatchInv, AsleepInv
<1>7. FailureInv'
  BY <1>2 DEF TypeOK, FailureInv, InSession, LoopPlaces
<1> QED BY <1>1, <1>4, <1>5, <1>6, <1>7

LEMMA SpuriousWakeupIInv == ASSUME IInv, NEW t \in Threads, SpuriousWakeup(t) PROVE IInv'
<1> USE ThreadFacts DEF IInv, SpuriousWakeup
<1>1. TypeOK'
  BY DEF TypeOK, MasterPlaces, LoopPlaces
<1>2. Outstanding' = Outstanding
  BY DEF Outstanding
<1>3. IdleThreads' = IdleThreads /\ CountedThreads' = CountedThreads
  BY DEF TypeOK, IdleThreads, CountedThreads
<1>4. CountInv'
  BY <1>3 DEF CountInv, Thrown
<1>5. TodoCountsOutstanding'
  BY <1>2 DEF TodoCountsOutstanding
<1>6. MutexInv' /\ BatchInv' /\ AsleepInv'
  BY DEF TypeOK, MutexInv, BatchInv, AsleepInv
<1>7. FailureInv'
  BY <1>2 DEF TypeOK, FailureInv, InSession, LoopPlaces
<1> QED BY <1>1, <1>4, <1>5, <1>6, <1>7

LEMMA ExecuteIInv == ASSUME IInv, NEW t \in Threads, Execute(t) PROVE IInv'
<1> USE ThreadFacts DEF IInv, Execute
<1>1. TypeOK'
  BY DEF TypeOK, MasterPlaces, LoopPlaces
<1>2. Outstanding' = Outstanding
  BY DEF Outstanding
<1>3. IdleThreads' = IdleThreads /\ CountedThreads' = CountedThreads
  BY DEF TypeOK, IdleThreads, CountedThreads
<1>4. CountInv'
  BY <1>3 DEF CountInv, Thrown
<1>5. TodoCountsOutstanding'
  BY <1>2 DEF TodoCountsOutstanding
<1>6. MutexInv' /\ BatchInv' /\ AsleepInv'
  BY DEF TypeOK, MutexInv, BatchInv, AsleepInv
<1>7. FailureInv'
  <2>1. batch[t] \subseteq added
    BY OutstandingIs DEF FailureInv
  <2>2. \A u \in Threads : pc'[u] \in {"exec", "done"} /\ ~fOk'[u] => added \cap Bad # {}
    BY <2>1 DEF TypeOK, FailureInv
  <2>3. \A u \in Threads : pc'[u] = "done" /\ batch[u] \cap Bad # {} => ~fOk'[u]
    BY DEF TypeOK, FailureInv
  <2> QED BY <1>2, <2>2, <2>3 DEF TypeOK, FailureInv, InSession, LoopPlaces
<1> QED BY <1>1, <1>4, <1>5, <1>6, <1>7

LEMMA FirstIterationIInv == ASSUME IInv, NEW t \in Threads, FirstIteration(t) PROVE IInv'
<1> USE ThreadFacts DEF IInv, FirstIteration
<1>1. TypeOK'
  BY DEF TypeOK, MasterPlaces, LoopPlaces
<1>2. Outstanding' = Outstanding
  BY DEF Outstanding
<1>3. IdleThreads' = IdleThreads /\ t \notin CountedThreads /\ CountedThreads' = CountedThreads \cup {t}
  BY DEF TypeOK, IdleThreads, CountedThreads
<1>4. CountInv'
  BY <1>3, Finiteness, CountOneMore, CountsAreNumbers DEF CountInv, Thrown
<1>5. TodoCountsOutstanding'
  BY <1>2 DEF TodoCountsOutstanding
<1>6. MutexInv' /\ BatchInv' /\ AsleepInv'
  BY DEF TypeOK, MutexInv, BatchInv, AsleepInv
<1>7. FailureInv'
  BY <1>2 DEF TypeOK, FailureInv, InSession, LoopPlaces
<1> QED BY <1>1, <1>4, <1>5, <1>6, <1>7

LEMMA SleepIInv == ASSUME IInv, NEW t \in Threads, Sleep(t) PROVE IInv'
<1> USE ThreadFacts DEF IInv, Sleep
<1>1. TypeOK'
  BY DEF TypeOK, MasterPlaces, LoopPlaces
<1>2. Outstanding' = Outstanding
  BY DEF Outstanding
<1>3. CountedThreads' = CountedThreads /\ t \notin IdleThreads /\ IdleThreads' = IdleThreads \cup {t}
  BY DEF TypeOK, IdleThreads, CountedThreads
<1>4. CountInv'
  BY <1>3, Finiteness, CountOneMore, CountsAreNumbers DEF CountInv, Thrown
<1>5. TodoCountsOutstanding'
  BY <1>2 DEF TodoCountsOutstanding
<1>6. MutexInv' /\ BatchInv' /\ AsleepInv'
  BY DEF TypeOK, MutexInv, BatchInv, AsleepInv
<1>7. FailureInv'
  BY <1>2 DEF TypeOK, FailureInv, InSession, LoopPlaces
<1> QED BY <1>1, <1>4, <1>5, <1>6, <1>7

LEMMA WaitReturnsIInv == ASSUME IInv, NEW t \in Threads, WaitReturns(t) PROVE IInv'
<1> USE ThreadFacts DEF IInv, WaitReturns
<1>1. CountedThreads' = CountedThreads /\ t \in IdleThreads /\ IdleThreads' = IdleThreads \ {t}
  BY DEF TypeOK, IdleThreads, CountedThreads
<1>2. CountInv' /\ nIdle' \in Nat
  BY <1>1, Finiteness, CountOneLess, CountsAreNumbers DEF CountInv, Thrown
<1>3. TypeOK'
  BY <1>2 DEF TypeOK, MasterPlaces, LoopPlaces
<1>4. Outstanding' = Outstanding
  BY DEF Outstanding
<1>5. TodoCountsOutstanding'
  BY <1>4 DEF TodoCountsOutstanding
<1>6. MutexInv' /\ BatchInv' /\ AsleepInv'
  BY DEF TypeOK, MutexInv, BatchInv, AsleepInv
<1>7. FailureInv'
  BY <1>4 DEF TypeOK, FailureInv, InSession, LoopPlaces
<1> QED BY <1>2, <1>3, <1>5, <1>6, <1>7

LEMMA WaitThrowsIInv == ASSUME IInv, NEW t \in Threads, WaitThrows(t) PROVE IInv'
<1> USE ThreadFacts DEF IInv, WaitThrows
<1>1. TypeOK'
  <2>1. threw' \in BOOLEAN /\ inDtor' \in BOOLEAN
    BY Zenon DEF TypeOK
  <2>2. /\ pc' \in [Threads -> MasterPlaces \cup {"dead"}]
        /\ pc'[Master] # "dead"
        /\ \A w \in Workers : pc'[w] \in LoopPlaces \cup {"dead"}
    BY CheckQueueAssumption DEF TypeOK, MasterPlaces, LoopPlaces
  <2> QED BY <2>1, <2>2 DEF TypeOK
<1>2. Outstanding' = Outstanding
  BY DEF Outstanding
<1>3. CountInv'
  <2>1. CASE t # Master
    <3>1. IdleThreads' = IdleThreads /\ CountedThreads' = CountedThreads
      BY <2>1 DEF TypeOK, IdleThreads, CountedThreads
    <3> QED BY <2>1, <3>1 DEF TypeOK, CountInv, Thrown
  <2>2. CASE t = Master
    <3>1. /\ t \in IdleThreads /\ IdleThreads' = IdleThreads \ {t}
          /\ t \in CountedThreads /\ CountedThreads' = CountedThreads \ {t}
      BY <2>2 DEF TypeOK, IdleThreads, CountedThreads
    <3>2. ~threw /\ threw' /\ Master \notin intr'
      BY <2>2 DEF CountInv
    <3>3. /\ Cardinality(IdleThreads') = Cardinality(IdleThreads) - 1
          /\ Cardinality(CountedThreads') = Cardinality(CountedThreads) - 1
      BY <3>1, Finiteness, CountOneLess
    <3> QED BY <3>2, <3>3, CountsAreNumbers DEF CountInv, Thrown
  <2> QED BY <2>1, <2>2
<1>5. TodoCountsOutstanding'
  BY <1>2 DEF TodoCountsOutstanding
<1>6. MutexInv' /\ BatchInv' /\ AsleepInv'
  BY DEF TypeOK, MutexInv, BatchInv, AsleepInv
<1>7. FailureInv'
  BY <1>2 DEF TypeOK, FailureInv, InSession, LoopPlaces
<1> QED BY <1>1, <1>3, <1>5, <1>6, <1>7

LEMMA ReturnIInv == ASSUME IInv, Return PROVE IInv'
<1> USE ThreadFacts DEF IInv, Return
<1>1. IdleThreads' = IdleThreads /\ Master \in CountedThreads /\ CountedThreads' = CountedThreads \ {Master}
  BY DEF TypeOK, IdleThreads, CountedThreads
<1>2. CountInv' /\ nTotal' \in Nat
  BY <1>1, Finiteness, CountOneLess, CountsAreNumbers DEF CountInv, Thrown
<1>3. TypeOK'
  <2>1. ret' \in BOOLEAN /\ fAllOk' \in BOOLEAN
    BY Zenon DEF TypeOK
  <2> QED BY <1>2, <2>1, CheckQueueAssumption DEF TypeOK, MasterPlaces, LoopPlaces
<1>4. Outstanding' = Outstanding /\ Outstanding = {}
  BY OutstandingFinite DEF Outstanding, TodoCountsOutstanding
<1>5. TodoCountsOutstanding'
  BY <1>4 DEF TodoCountsOutstanding
<1>6. MutexInv' /\ BatchInv' /\ AsleepInv'
  BY DEF TypeOK, MutexInv, BatchInv, AsleepInv
<1>7. ret' = (added \cap Bad = {})
  <2>1. fAllOk => added \cap Bad = {}
    BY <1>4 DEF FailureInv, InSession, LoopPlaces
  <2>2. ~fAllOk => added \cap Bad # {}
    BY DEF FailureInv
  <2> QED BY <2>1, <2>2 DEF TypeOK
<1>8. \A t \in Threads : pc[t] \notin {"exec", "done"}
  BY <1>4, OutstandingIs DEF BatchInv
<1>9. FailureInv'
  BY <1>4, <1>7, <1>8 DEF TypeOK, FailureInv, InSession, LoopPlaces
<1> QED BY <1>2, <1>3, <1>5, <1>6, <1>9

LEMMA AddIInv ==
  ASSUME IInv, NEW S \in SUBSET (Checks \ added), S # {}, Add(S)
  PROVE  IInv'
<1> USE ThreadFacts DEF IInv
<1>1. \A u \in Threads : pc'[u] = pc[u] \/ (u # Master /\ pc[u] = "wait" /\ pc'[u] = "woken")
  BY CheckQueueAssumption DEF Add, NotifyWorkers, TypeOK
<1>2. pc' \in [Threads -> MasterPlaces \cup {"dead"}]
  BY DEF Add, NotifyWorkers, TypeOK, MasterPlaces, LoopPlaces
<1>3. IsFiniteSet(S) /\ Cardinality(S) \in Nat
  BY CheckQueueAssumption, FS_Subset, FS_CardinalityType
<1>4. TypeOK'
  <2>1. nTodo' \in Nat /\ queue' \subseteq Checks /\ added' \subseteq Checks
    BY <1>3 DEF Add, TypeOK
  <2>2. pc'[Master] # "dead" /\ \A w \in Workers : pc'[w] \in LoopPlaces \cup {"dead"}
    BY <1>1 DEF TypeOK, LoopPlaces
  <2> QED BY <1>2, <2>1, <2>2 DEF Add, TypeOK
<1>5. Outstanding' = Outstanding \cup S
  BY DEF Add, Outstanding
<1>6. Outstanding \cap S = {}
  BY DEF FailureInv
<1>7. nTodo' = Cardinality(Outstanding')
  BY <1>3, <1>5, <1>6, OutstandingFinite, CountDisjoint DEF Add, TodoCountsOutstanding
<1>8. TodoCountsOutstanding'
  <2>1. \A t \in Threads : batch[t] \cap S = {}
    BY <1>6, OutstandingIs
  <2> QED BY <1>7, <2>1 DEF Add, TodoCountsOutstanding
<1>9. IdleThreads' = IdleThreads /\ CountedThreads' = CountedThreads
  BY <1>1 DEF IdleThreads, CountedThreads
<1>10. CountInv'
  BY <1>9 DEF Add, CountInv, Thrown
<1>11. MutexInv' /\ BatchInv'
  BY <1>1 DEF Add, MutexInv, BatchInv
<1>12. AsleepInv'
  BY <1>1 DEF Add, AsleepInv
<1>13. FailureInv'
  BY <1>1, <1>5 DEF Add, FailureInv, InSession, LoopPlaces
<1> QED BY <1>4, <1>8, <1>10, <1>11, <1>12, <1>13

LEMMA TakeIInv == ASSUME IInv, NEW t \in Threads, Take(t) PROVE IInv'
<1> USE ThreadFacts DEF IInv
<1>1. PICK S \in SUBSET queue : /\ Cardinality(S) = NextBatch(queue, nTotal + nIdle + 1)
                               /\ batch' = [batch EXCEPT ![t] = S]
                               /\ queue' = queue \ S
  BY DEF Take
<1>2. S # {}
  <2>1. IsFiniteSet(queue) /\ Cardinality(queue) \in Nat
    BY CheckQueueAssumption, FS_Subset, FS_CardinalityType DEF TypeOK
  <2>2. nTotal + nIdle + 1 \in Nat \ {0}
    BY DEF TypeOK
  <2>3. NextBatch(queue, nTotal + nIdle + 1) # 0
    BY <2>1, <2>2, CheckQueueAssumption DEF NextBatch
  <2> QED BY <1>1, <2>3, FS_EmptySet
<1>3. pc[t] = "test" /\ batch[t] = {} /\ batch'[t] = S
  BY <1>1 DEF Take, BatchInv, TypeOK
<1>4. \A u \in Threads \ {t} : batch'[u] = batch[u] /\ pc'[u] = pc[u] /\ fOk'[u] = fOk[u]
  BY <1>1 DEF Take, TypeOK
<1>5. pc'[t] = "exec" /\ fOk'[t] = fAllOk
  BY DEF Take, TypeOK
<1>6. TypeOK'
  BY <1>1 DEF Take, TypeOK, MasterPlaces, LoopPlaces
<1>7. Outstanding' = Outstanding
  <2>1. \A x : x \in Outstanding' <=> x \in queue' \/ \E u \in Threads : x \in batch'[u]
    BY Zenon DEF Outstanding
  <2>2. \A x : x \in Outstanding' <=> x \in Outstanding
    BY <1>1, <1>3, <1>4, <2>1, OutstandingIs
  <2> QED BY <2>2
<1>8. TodoCountsOutstanding'
  BY <1>1, <1>3, <1>4, <1>7 DEF Take, TodoCountsOutstanding
<1>9. IdleThreads' = IdleThreads /\ CountedThreads' = CountedThreads
  BY <1>3, <1>4, <1>5 DEF IdleThreads, CountedThreads
<1>10. CountInv'
  BY <1>9 DEF Take, CountInv, Thrown
<1>11. MutexInv'
  BY <1>4, <1>5 DEF Take, MutexInv
<1>12. BatchInv'
  BY <1>2, <1>3, <1>4, <1>5 DEF BatchInv
<1>13. AsleepInv'
  BY <1>4, <1>5 DEF Take, AsleepInv
<1>14. FailureInv'
  <2>1. pc'[Master] = "out" => pc[Master] = "out"
    BY <1>4, <1>5
  <2>2. InSession' <=> InSession
    BY <1>3, <1>4, <1>5 DEF InSession, LoopPlaces
  <2> QED BY <1>3, <1>4, <1>5, <1>7, <2>1, <2>2 DEF Take, FailureInv
<1> QED BY <1>6, <1>8, <1>10, <1>11, <1>12, <1>13, <1>14

LEMMA CleanUpIInv == ASSUME IInv, NEW t \in Threads, CleanUp(t) PROVE IInv'
<1> USE ThreadFacts DEF IInv
<1>1. /\ pc[t] = "done" /\ pc'[t] = "test" /\ batch'[t] = {} /\ batch[t] # {}
      /\ \A u \in Threads \ {t} :
            /\ batch'[u] = batch[u]
            /\ \/ pc'[u] = pc[u] /\ ~(u = Master /\ pc[Master] = "wait" /\ nTodo' = 0)
               \/ u = Master /\ pc[u] = "wait" /\ pc'[u] = "woken"
  BY DEF CleanUp, BatchInv, TypeOK
<1>2. \A x : x \in Outstanding' <=> x \in Outstanding /\ x \notin batch[t]
  <2>1. \A x : x \in Outstanding' <=> x \in queue' \/ \E u \in Threads : x \in batch'[u]
    BY Zenon DEF Outstanding
  <2> QED BY <1>1, <2>1, OutstandingIs DEF CleanUp, TodoCountsOutstanding
<1>3. batch[t] \subseteq Outstanding
  BY OutstandingIs
<1>4. nTodo' = Cardinality(Outstanding') /\ nTodo' \in Nat
  <2>1. IsFiniteSet(Outstanding') /\ IsFiniteSet(batch[t])
    BY <1>2, <1>3, OutstandingFinite, FS_Subset
  <2>2. Outstanding = Outstanding' \cup batch[t] /\ Outstanding' \cap batch[t] = {}
    BY <1>2, <1>3
  <2>3. Cardinality(Outstanding) = Cardinality(Outstanding') + Cardinality(batch[t])
    BY <2>1, <2>2, CountDisjoint
  <2>4. Cardinality(Outstanding') \in Nat /\ Cardinality(batch[t]) \in Nat
    BY <2>1, FS_CardinalityType
  <2> QED BY <2>3, <2>4 DEF CleanUp, TodoCountsOutstanding
<1>5. TypeOK'
  <2>1. fAllOk' \in BOOLEAN
    BY Zenon DEF CleanUp, TypeOK
  <2>2. batch' \in [Threads -> SUBSET Checks]
    BY DEF CleanUp, TypeOK
  <2>3. /\ pc' \in [Threads -> MasterPlaces \cup {"dead"}]
        /\ pc'[Master] # "dead"
        /\ \A w \in Workers : pc'[w] \in LoopPlaces \cup {"dead"}
    BY CheckQueueAssumption DEF CleanUp, TypeOK, MasterPlaces, LoopPlaces
  <2> QED BY <1>4, <2>1, <2>2, <2>3 DEF CleanUp, TypeOK
<1>6. TodoCountsOutstanding'
  BY <1>1, <1>4 DEF CleanUp, TodoCountsOutstanding
<1>7. IdleThreads' = IdleThreads /\ CountedThreads' = CountedThreads
  BY <1>1 DEF IdleThreads, CountedThreads
<1>8. CountInv'
  BY <1>7 DEF CleanUp, CountInv, Thrown
<1>9. MutexInv'
  BY <1>1 DEF CleanUp, MutexInv
<1>10. BatchInv'
  BY <1>1 DEF BatchInv
<1>11. AsleepInv'
  BY <1>1 DEF CleanUp, AsleepInv
<1>12. FailureInv'
  <2>1. InSession /\ InSession'
    BY <1>1, <1>3 DEF FailureInv, InSession, LoopPlaces
  <2>2. fAllOk' => fAllOk /\ batch[t] \cap Bad = {}
    BY <1>1 DEF CleanUp, FailureInv
  <2>3. fAllOk' => added \cap Bad \subseteq Outstanding'
    BY <1>2, <2>1, <2>2 DEF FailureInv
  <2>4. ~fAllOk' => added \cap Bad # {}
    BY <1>1 DEF CleanUp, FailureInv
  <2>5. pc'[Master] # "out"
    BY <1>1, <2>1 DEF InSession, LoopPlaces
  <2> QED BY <1>1, <1>2, <2>1, <2>3, <2>4, <2>5 DEF CleanUp, FailureInv
<1> QED BY <1>5, <1>6, <1>8, <1>9, <1>10, <1>11, <1>12

-----------------------------------------------------------------------------
\* Every step of the queue preserves the invariant.
LEMMA NextIInv == ASSUME IInv, [Next]_vars PROVE IInv'
<1>1. CASE UNCHANGED vars
  BY <1>1 DEF vars, IInv, TypeOK, MutexInv, CountInv, BatchInv, TodoCountsOutstanding,
     FailureInv, AsleepInv, IdleThreads, CountedThreads, Thrown, Outstanding, InSession
<1>2. CASE CtorReadTotal \/ CtorAsserts \/ Wait \/ Return \/ InterruptAll
  BY <1>2, CtorReadTotalIInv, CtorAssertsIInv, WaitIInv, ReturnIInv, InterruptAllIInv
<1>3. ASSUME NEW S \in SUBSET (Checks \ added), S # {}, Add(S) PROVE IInv'
  BY <1>3, AddIInv
<1>4. ASSUME NEW t \in Threads, LockStep(t) \/ LocalStep(t) \/ SpuriousWakeup(t) PROVE IInv'
  BY <1>4, FirstIterationIInv, CleanUpIInv, WaitReturnsIInv, WaitThrowsIInv, SleepIInv,
     TakeIInv, ExecuteIInv, SpuriousWakeupIInv DEF LockStep, LocalStep
<1> QED BY <1>1, <1>2, <1>3, <1>4 DEF Next

(***************************************************************************)
(* The inductive invariant holds in every reachable state of the script    *)
(* check queue (CCheckQueue::Loop, Add, Wait and the control).             *)
(***************************************************************************)
THEOREM Invariance == Spec => []IInv
BY InitIInv, NextIInv, PTL DEF Spec

(***************************************************************************)
(* The members of CCheckQueue keep their types: in particular the counters *)
(* nIdle, nTotal and the unsigned nTodo never drop below zero.             *)
(***************************************************************************)
THEOREM TypeCorrect == Spec => []TypeOK
<1>1. IInv => TypeOK
  BY DEF IInv
<1> QED BY <1>1, Invariance, PTL

(***************************************************************************)
(* nTodo counts what CCheckQueue::Add put in and no Loop has accounted for *)
(* yet, every check once.                                                  *)
(***************************************************************************)
THEOREM TodoIsOutstanding == Spec => []TodoCountsOutstanding
<1>1. IInv => TodoCountsOutstanding
  BY DEF IInv
<1> QED BY <1>1, Invariance, PTL

(***************************************************************************)
(* What CCheckQueueControl::Wait() returned to ConnectBlock is the verdict *)
(* on all of the checks of that block, and on no other check.              *)
(***************************************************************************)
THEOREM VerdictIsRight == Spec => []WaitIsVerdict
<1>1. IInv => WaitIsVerdict
  BY DEF IInv, WaitIsVerdict, FailureInv, InSession, LoopPlaces
<1> QED BY <1>1, Invariance, PTL

(***************************************************************************)
(* A master asleep in Loop's cond.wait() always has a worker with a batch, *)
(* who will be the one to bring nTodo to zero and notify condMaster.       *)
(***************************************************************************)
THEOREM NoLostWakeup == Spec => []MasterHasWaker
<1>1. ASSUME IInv, pc[Master] = "wait" PROVE \E w \in Workers : pc[w] \in {"exec", "done"}
  <2>1. queue = {} /\ Outstanding # {}
    BY <1>1, OutstandingFinite DEF IInv, AsleepInv, TodoCountsOutstanding
  <2>2. PICK t \in Threads : batch[t] # {}
    BY <2>1, OutstandingIs
  <2>3. t # Master /\ pc[t] \in {"exec", "done"}
    BY <1>1, <2>2, ThreadFacts DEF IInv, BatchInv
  <2> QED BY <2>3, ThreadFacts
<1> QED BY <1>1, Invariance, PTL DEF MasterHasWaker
=============================================================================
