----------------------------- MODULE CheckQueue -----------------------------
(***************************************************************************)
(* The script verification queue of src/src/checkqueue.h: a master thread  *)
(* (whoever connects a block, under cs_main) pushes batches of checks, N-1 *)
(* worker threads execute them, and the master joins the pool in Wait()    *)
(* until every check is done and then takes the result.                    *)
(*                                                                         *)
(* The queue is a set: the code says "the order of booleans doesn't        *)
(* matter".  fQuit is never set anywhere in the program, so a worker never *)
(* returns from Loop; it ends only by boost's thread interruption, which   *)
(* cond.wait() turns into an exception (threadGroup.interrupt_all() at     *)
(* shutdown).                                                              *)
(***************************************************************************)
EXTENDS Integers, FiniteSets

CONSTANTS
  Workers,     \* the threads created on ThreadScriptCheck
  Master,      \* the thread that owns the CCheckQueueControl
  NoThread,    \* the mutex is free
  Checks,      \* the checks that can be added while one control is alive
  Bad,         \* those whose operator() returns false
  nBatchSize   \* the constructor's argument (128 in main.cpp)

ASSUME CheckQueueAssumption ==
  /\ IsFiniteSet(Workers)
  /\ IsFiniteSet(Checks)
  /\ Master \notin Workers
  /\ NoThread \notin Workers \cup {Master}
  /\ Bad \subseteq Checks
  /\ nBatchSize \in Nat \ {0}

VARIABLES
  mutex,   \* the thread that holds the mutex, or NoThread
  queue,   \* checks not yet taken by any thread
  nIdle, nTotal, nTodo, fAllOk,   \* the members of CCheckQueue
  pc,      \* where each thread is in Loop, and the master outside it
  batch,   \* vChecks of each thread: the checks it has taken
  fOk,     \* fOk of each thread
  seen,    \* what the control's constructor has read of nTotal
  added,   \* checks added since the control was constructed (history)
  ret,     \* what the last Wait() returned (history)
  intr,    \* threads with a pending interruption
  threw,   \* a Wait() has been left by an interruption
  inDtor   \* the master is in ~CCheckQueueControl

vars == <<mutex, queue, nIdle, nTotal, nTodo, fAllOk, pc, batch, fOk, seen,
          added, ret, intr, threw, inDtor>>

Threads == Workers \cup {Master}

\* Places inside Loop, then the master's places outside it.
LoopPlaces == {"start", "test", "wait", "woken", "exec", "done"}
MasterPlaces == LoopPlaces \cup {"out", "ctor", "open", "aborted", "terminated"}

\* nNow: never less than 1, never more than nBatchSize.
NextBatch(q, n) ==
  LET share == Cardinality(q) \div n
      most  == IF share < nBatchSize THEN share ELSE nBatchSize
  IN  IF most < 1 THEN 1 ELSE most

-----------------------------------------------------------------------------
Init ==
  /\ mutex = NoThread
  /\ queue = {}
  /\ nIdle = 0 /\ nTotal = 0 /\ nTodo = 0 /\ fAllOk = TRUE
  /\ pc = [t \in Threads |-> IF t = Master THEN "out" ELSE "start"]
  /\ batch = [t \in Threads |-> {}]
  /\ fOk = [t \in Threads |-> TRUE]
  /\ seen = 0
  /\ added = {}
  /\ ret = TRUE
  /\ intr = {}
  /\ threw = FALSE
  /\ inDtor = FALSE

-----------------------------------------------------------------------------
(***************************************************************************)
(* CCheckQueueControl's constructor.  Its asserts read the members without *)
(* the mutex, each member when it gets to it.                              *)
(***************************************************************************)
CtorReadTotal ==
  /\ pc[Master] = "out"
  /\ seen' = nTotal
  /\ pc' = [pc EXCEPT ![Master] = "ctor"]
  /\ UNCHANGED <<mutex, queue, nIdle, nTotal, nTodo, fAllOk, batch, fOk,
                 added, ret, intr, threw, inDtor>>

CtorAsserts ==
  /\ pc[Master] = "ctor"
  /\ pc' = [pc EXCEPT ![Master] =
              IF seen = nIdle /\ nTodo = 0 /\ fAllOk THEN "open" ELSE "aborted"]
  /\ added' = {}
  /\ inDtor' = FALSE
  /\ UNCHANGED <<mutex, queue, nIdle, nTotal, nTodo, fAllOk, batch, fOk, seen,
                 ret, intr, threw>>

\* condWorker.notify_one() for one check, notify_all() for several.
NotifyWorkers(S) ==
  LET W == {w \in Workers : pc[w] = "wait"}
  IN  IF Cardinality(S) = 1 /\ W # {}
      THEN \E w \in W : pc' = [pc EXCEPT ![w] = "woken"]
      ELSE pc' = [t \in Threads |-> IF t \in W THEN "woken" ELSE pc[t]]

Add(S) ==
  /\ pc[Master] = "open"
  /\ mutex = NoThread
  /\ queue' = queue \cup S
  /\ nTodo' = nTodo + Cardinality(S)
  /\ added' = added \cup S
  /\ NotifyWorkers(S)
  /\ UNCHANGED <<mutex, nIdle, nTotal, fAllOk, batch, fOk, seen, ret, intr, threw, inDtor>>

\* Wait(), called by ConnectBlock or, when it returns early, by ~CCheckQueueControl.
Wait ==
  /\ pc[Master] = "open"
  /\ inDtor' \in BOOLEAN
  /\ pc' = [pc EXCEPT ![Master] = "start"]
  /\ UNCHANGED <<mutex, queue, nIdle, nTotal, nTodo, fAllOk, batch, fOk, seen,
                 added, ret, intr, threw>>

-----------------------------------------------------------------------------
(***************************************************************************)
(* Loop(fMaster).                                                          *)
(***************************************************************************)
\* Lock, and on the first iteration count this thread.
FirstIteration(t) ==
  /\ pc[t] = "start"
  /\ mutex = NoThread
  /\ mutex' = t
  /\ nTotal' = nTotal + 1
  /\ pc' = [pc EXCEPT ![t] = "test"]
  /\ UNCHANGED <<queue, nIdle, nTodo, fAllOk, batch, fOk, seen, added, ret, intr, threw, inDtor>>

\* Bugs CleanUp could have, for the runs that show what the properties catch.
CleanUpNoNotify(t) ==
  /\ pc[t] = "done" /\ mutex = NoThread /\ mutex' = t
  /\ fAllOk' = (fAllOk /\ fOk[t])
  /\ nTodo' = nTodo - Cardinality(batch[t])
  /\ batch' = [batch EXCEPT ![t] = {}]
  /\ pc' = [pc EXCEPT ![t] = "test"]
  /\ UNCHANGED <<queue, nIdle, nTotal, fOk, seen, added, ret, intr, threw, inDtor>>

CleanUpOverwrites(t) ==
  /\ pc[t] = "done" /\ mutex = NoThread /\ mutex' = t
  /\ fAllOk' = fOk[t]
  /\ nTodo' = nTodo - Cardinality(batch[t])
  /\ batch' = [batch EXCEPT ![t] = {}]
  /\ pc' = [u \in Threads |->
              IF u = t THEN "test"
              ELSE IF u = Master /\ pc[Master] = "wait" /\ nTodo' = 0 THEN "woken"
              ELSE pc[u]]
  /\ UNCHANGED <<queue, nIdle, nTotal, fOk, seen, added, ret, intr, threw, inDtor>>

\* Lock, and account for the batch this thread has just executed.
CleanUp(t) ==
  /\ pc[t] = "done"
  /\ mutex = NoThread
  /\ mutex' = t
  /\ fAllOk' = (fAllOk /\ fOk[t])
  /\ nTodo' = nTodo - Cardinality(batch[t])
  /\ batch' = [batch EXCEPT ![t] = {}]
  /\ pc' = [u \in Threads |->
              IF u = t THEN "test"
              ELSE IF u = Master /\ pc[Master] = "wait" /\ nTodo' = 0 THEN "woken"
              ELSE pc[u]]
  /\ UNCHANGED <<queue, nIdle, nTotal, fOk, seen, added, ret, intr, threw, inDtor>>

\* The queue is empty and nothing is outstanding: the master leaves with the result.
Return ==
  /\ pc[Master] = "test"
  /\ queue = {} /\ nTodo = 0
  /\ nTotal' = nTotal - 1
  /\ ret' = fAllOk
  /\ fAllOk' = TRUE
  /\ mutex' = NoThread
  /\ pc' = [pc EXCEPT ![Master] = "out"]
  /\ UNCHANGED <<queue, nIdle, nTodo, batch, fOk, seen, added, intr, threw, inDtor>>

\* The queue is empty: go idle on the thread's condition variable.
Sleep(t) ==
  /\ pc[t] = "test"
  /\ queue = {} /\ ~(t = Master /\ nTodo = 0)
  /\ nIdle' = nIdle + 1
  /\ mutex' = NoThread
  /\ pc' = [pc EXCEPT ![t] = "wait"]
  /\ UNCHANGED <<queue, nTotal, nTodo, fAllOk, batch, fOk, seen, added, ret, intr, threw, inDtor>>

\* The swap without the pop_back().
TakeNoPop(t) ==
  /\ pc[t] = "test"
  /\ queue # {}
  /\ \E S \in SUBSET queue :
       /\ Cardinality(S) = NextBatch(queue, nTotal + nIdle + 1)
       /\ batch' = [batch EXCEPT ![t] = S]
  /\ fOk' = [fOk EXCEPT ![t] = fAllOk]
  /\ mutex' = NoThread
  /\ pc' = [pc EXCEPT ![t] = "exec"]
  /\ UNCHANGED <<queue, nIdle, nTotal, nTodo, fAllOk, seen, added, ret, intr, threw, inDtor>>

\* Move nNow checks from the queue to the thread's own batch and unlock.
Take(t) ==
  /\ pc[t] = "test"
  /\ queue # {}
  /\ \E S \in SUBSET queue :
       /\ Cardinality(S) = NextBatch(queue, nTotal + nIdle + 1)
       /\ batch' = [batch EXCEPT ![t] = S]
       /\ queue' = queue \ S
  /\ fOk' = [fOk EXCEPT ![t] = fAllOk]
  /\ mutex' = NoThread
  /\ pc' = [pc EXCEPT ![t] = "exec"]
  /\ UNCHANGED <<nIdle, nTotal, nTodo, fAllOk, seen, added, ret, intr, threw, inDtor>>

\* Execute the batch without the mutex; after a failure the rest is skipped.
Execute(t) ==
  /\ pc[t] = "exec"
  /\ fOk' = [fOk EXCEPT ![t] = fOk[t] /\ batch[t] \cap Bad = {}]
  /\ pc' = [pc EXCEPT ![t] = "done"]
  /\ UNCHANGED <<mutex, queue, nIdle, nTotal, nTodo, fAllOk, batch, seen,
                 added, ret, intr, threw, inDtor>>

\* cond.wait() may also return without a notification.
SpuriousWakeup(t) ==
  /\ pc[t] = "wait"
  /\ pc' = [pc EXCEPT ![t] = "woken"]
  /\ UNCHANGED <<mutex, queue, nIdle, nTotal, nTodo, fAllOk, batch, fOk, seen,
                 added, ret, intr, threw, inDtor>>

\* cond.wait() returns once it has the mutex again.
WaitReturns(t) ==
  /\ pc[t] = "woken"
  /\ t \notin intr
  /\ mutex = NoThread
  /\ mutex' = t
  /\ nIdle' = nIdle - 1
  /\ pc' = [pc EXCEPT ![t] = "test"]
  /\ UNCHANGED <<queue, nTotal, nTodo, fAllOk, batch, fOk, seen, added, ret, intr, threw, inDtor>>

(***************************************************************************)
(* cond.wait() throws thread_interrupted: nIdle and nTotal keep counting   *)
(* the thread.  A worker ends; the master unwinds into ~CCheckQueueControl *)
(* which, fDone being false, enters Loop a second time.  When the master   *)
(* was in the destructor already, the exception leaves a C++11 destructor  *)
(* and the process ends in std::terminate().                               *)
(***************************************************************************)
WaitThrows(t) ==
  /\ pc[t] \in {"wait", "woken"}
  /\ t \in intr
  /\ mutex = NoThread
  /\ intr' = intr \ {t}
  /\ threw' = (threw \/ t = Master)
  /\ pc' = [pc EXCEPT ![t] = IF t # Master THEN "dead"
                             ELSE IF inDtor THEN "terminated" ELSE "start"]
  /\ inDtor' = (inDtor \/ t = Master)
  /\ UNCHANGED <<mutex, queue, nIdle, nTotal, nTodo, fAllOk, batch, fOk, seen, added, ret>>

\* threadGroup.interrupt_all(); the master's thread is hit while it has a control.
InterruptAll ==
  /\ intr = {} /\ ~threw /\ \A w \in Workers : pc[w] # "dead"
  /\ intr' = Workers \cup (IF pc[Master] = "out" THEN {} ELSE {Master})
  /\ UNCHANGED <<mutex, queue, nIdle, nTotal, nTodo, fAllOk, pc, batch, fOk,
                 seen, added, ret, threw, inDtor>>

-----------------------------------------------------------------------------
LockStep(t) == FirstIteration(t) \/ CleanUp(t) \/ WaitReturns(t) \/ WaitThrows(t)
LocalStep(t) == Sleep(t) \/ Take(t) \/ Execute(t)

Gone == pc[Master] \in {"aborted", "terminated"}

\* After a failed assert or std::terminate() the process is gone.
Next ==
  \/ /\ ~Gone
     /\ \/ CtorReadTotal \/ CtorAsserts \/ Wait \/ Return \/ InterruptAll
        \/ \E S \in SUBSET (Checks \ added) : S # {} /\ Add(S)
        \/ \E t \in Threads : LockStep(t) \/ LocalStep(t) \/ SpuriousWakeup(t)
  \/ Gone /\ UNCHANGED vars

Spec == Init /\ [][Next]_vars

(***************************************************************************)
(* Threads that can run do run, and nobody waits for the mutex forever     *)
(* while others keep taking it.  Nothing makes the master construct        *)
(* another control, add work, or interrupt.                                *)
(***************************************************************************)
Fairness ==
  /\ WF_vars(Return)
  /\ \A t \in Threads : WF_vars(LocalStep(t)) /\ SF_vars(LockStep(t))

FairSpec == Spec /\ Fairness

-----------------------------------------------------------------------------
Outstanding == queue \cup UNION {batch[t] : t \in Threads}
InSession == pc[Master] \in LoopPlaces \cup {"open", "terminated"}

TypeOK ==
  /\ mutex \in Threads \cup {NoThread}
  /\ queue \subseteq Checks
  /\ nIdle \in Nat /\ nTotal \in Nat /\ nTodo \in Nat /\ seen \in Nat
  /\ fAllOk \in BOOLEAN /\ ret \in BOOLEAN /\ threw \in BOOLEAN
  /\ inDtor \in BOOLEAN
  /\ pc \in [Threads -> MasterPlaces \cup {"dead"}]
  /\ pc[Master] # "dead"
  /\ \A w \in Workers : pc[w] \in LoopPlaces \cup {"dead"}
  /\ batch \in [Threads -> SUBSET Checks]
  /\ fOk \in [Threads -> BOOLEAN]
  /\ added \subseteq Checks
  /\ intr \subseteq Threads

(***************************************************************************)
(* nTodo counts the checks in the queue and in the threads' own batches,   *)
(* each once ("this includes elements that are not anymore in queue").     *)
(***************************************************************************)
TodoCountsOutstanding ==
  /\ nTodo = Cardinality(Outstanding)
  /\ \A t \in Threads : batch[t] \cap queue = {}
  /\ \A t, u \in Threads : t # u => batch[t] \cap batch[u] = {}

(***************************************************************************)
(* When Wait() has returned, every check added under this control is done  *)
(* and the result is false exactly if one of them fails: a worker that is  *)
(* slow to report, or skips a batch, never turns a bad block into a good   *)
(* one, and the failure of an earlier block never leaks into this one.     *)
(***************************************************************************)
WaitIsVerdict ==
  pc[Master] = "out" => /\ Outstanding = {}
                        /\ ret = (added \cap Bad = {})
                        /\ fAllOk

(***************************************************************************)
(* The last worker's notification is never lost: a master asleep on        *)
(* condMaster always has a worker left who will report and wake it.        *)
(***************************************************************************)
MasterHasWaker ==
  pc[Master] = "wait" => \E w \in Workers : pc[w] \in {"exec", "done"}

(***************************************************************************)
(* Everything the master waits for happens: Wait() returns, at shutdown    *)
(* too, unless the interruption ends the whole process.                    *)
(***************************************************************************)
WaitTerminates == pc[Master] = "start" ~> pc[Master] \in {"out", "terminated"}

-----------------------------------------------------------------------------
(***************************************************************************)
(* The parts of the inductive invariant: the mutex is held exactly at the  *)
(* emptiness test; nIdle and nTotal count threads by place, an interrupted *)
(* thread for ever; a thread has a batch exactly from Take to CleanUp;     *)
(* failures are real and a failing check that is done has been recorded.   *)
(***************************************************************************)
MutexInv == \A t \in Threads : pc[t] = "test" <=> mutex = t

IdleThreads == {t \in Threads : pc[t] \in {"wait", "woken", "dead"}}
CountedThreads == {t \in Threads : pc[t] \in {"test", "wait", "woken", "exec", "done", "dead"}}
Thrown == IF threw THEN 1 ELSE 0

CountInv ==
  /\ nIdle = Cardinality(IdleThreads) + Thrown
  /\ nTotal = Cardinality(CountedThreads) + Thrown
  /\ threw => Master \notin intr

BatchInv == \A t \in Threads : pc[t] \in {"exec", "done"} <=> batch[t] # {}

FailureInv ==
  /\ Outstanding \subseteq added
  /\ ~fAllOk => added \cap Bad # {}
  /\ \A t \in Threads : pc[t] \in {"exec", "done"} /\ ~fOk[t] => added \cap Bad # {}
  /\ \A t \in Threads : pc[t] = "done" /\ batch[t] \cap Bad # {} => ~fOk[t]
  /\ InSession /\ fAllOk => added \cap Bad \subseteq Outstanding
  /\ ~InSession => Outstanding = {} /\ fAllOk
  /\ pc[Master] = "out" => ret = (added \cap Bad = {})

AsleepInv == pc[Master] = "wait" => queue = {} /\ nTodo # 0

(***************************************************************************)
(* What the queue relies on between any two steps of its threads: nTodo is *)
(* the number of checks queued or in some thread's batch, the counters     *)
(* count threads by place, and a failing check is either still outstanding *)
(* or recorded in fAllOk.                                                  *)
(***************************************************************************)
IInv == TypeOK /\ MutexInv /\ CountInv /\ BatchInv /\ TodoCountsOutstanding
        /\ FailureInv /\ AsleepInv
=============================================================================
