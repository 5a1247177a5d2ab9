-------------------------- MODULE ThreadPoolProofs --------------------------
(***************************************************************************)
(* Proofs about ThreadPool, for any submitters, tasks, thresholds and      *)
(* numbers of threads: nobody sleeps with work or room at hand, a task is  *)
(* in one place only, the counters are exact, and the destructor of a pool *)
(* that has workers leaves neither a worker nor a task behind.             *)
(***************************************************************************)
EXTENDS ThreadPool, FiniteSetTheorems, TLAPS

(* Where the owner is tells what there can be: nobody submits to a pool    *)
(* that is not running, and one that was not started has nothing.          *)
ControlInv ==
    /\ running <=> ownerPc \in {"running", "crashed"}
    /\ ownerPc # "running" => \A s \in Submitters : submitPc[s] = "idle"
    /\ ownerPc = "new" => /\ nextId = FirstThreadId
                          /\ taskQue = <<>>
                          /\ \A t \in ThreadIds : pc[t] = "none"
    /\ \A s \in Submitters : submitPc[s] # "idle" => submitting[s] \in Tasks
    /\ \A t \in ThreadIds : pc[t] = "run" => task[t] \in Tasks

(* No two submitters have the same task.                                   *)
SubmittedOnce ==
    \A s, r \in Submitters :
        submitting[s] = submitting[r] /\ submitting[s] # NoTask => s = r

(* The threads that exist, and those without a task.                       *)
LiveThreads == {t \in ThreadIds : pc[t] \notin {"none", "exited"}}
IdleThreads == {t \in ThreadIds : pc[t] \notin {"none", "exited", "run"}}

(* threads_ and the ids: what start() and submitTask file, threadFunc      *)
(* takes out when it ends; an id that was not given has no thread.         *)
MapInv ==
    /\ ownerPc \notin {"new", "crashed"} =>
          /\ threads = LiveThreads
          /\ \A t \in ThreadIds : t >= nextId => pc[t] = "none"
    /\ ownerPc = "destroyed" => threads = {}

(* The counters are exact as long as the pool runs, and in the destructor  *)
(* as long as there are tasks: only a worker that leaves an empty queue    *)
(* does not count itself out.                                              *)
CountInv ==
    ownerPc = "running" \/ (taskQue # <<>> /\ ownerPc # "crashed") =>
        /\ cur = Cardinality(LiveThreads)
        /\ idle = Cardinality(IdleThreads)
        /\ cur >= InitThreads
        /\ cur <= InitThreads \/ cur <= threadMax

QueueBounded == Len(taskQue) <= queMax

TaskInv == TaskInOnePlace /\ SubmittedOnce

PoolInv ==
    /\ TypeOK /\ ControlInv /\ MapInv /\ CountInv /\ QueueBounded
    /\ NobodyForgotten /\ TaskInv

-----------------------------------------------------------------------------
(* Expands Next into one disjunct per step.                                *)
LEMMA NextActions ==
    Next => \/ \E m \in Modes : SetMode(m)
            \/ \E n \in QueMaxima : SetTaskQueMaxThreshHold(n)
            \/ \E n \in ThreadMaxima : SetThreadSizeThreshHold(n)
            \/ Start \/ DtorBegin \/ DtorLock \/ DtorCheck \/ DtorSpuriousWake
            \/ \E s \in Submitters : \E k \in Tasks : SubmitCalls(s, k)
            \/ \E s \in Submitters : SubmitEnqueue(s)
            \/ \E s \in Submitters : SubmitWaits(s)
            \/ \E s \in Submitters : SubmitTimeout(s)
            \/ \E s \in Submitters : SubmitSpuriousWake(s)
            \/ \E s \in Submitters : SubmitRejects(s)
            \/ \E t \in ThreadIds : WorkerTakes(t)
            \/ \E t \in ThreadIds : WorkerFinishes(t)
            \/ \E t \in ThreadIds : WorkerExits(t)
            \/ \E t \in ThreadIds : WorkerWaits(t)
            \/ \E t \in ThreadIds : WorkerSpuriousWake(t)
            \/ \E t \in ThreadIds : WorkerTimeout(t)
            \/ \E t \in ThreadIds : WorkerReclaimed(t)
            \/ UNCHANGED vars
  BY DEF Next, Owner, Submitter, Worker, Finished

-----------------------------------------------------------------------------
LEMMA TypeInit == Init => TypeOK /\ ControlInv
  <1> SUFFICES ASSUME Init PROVE TypeOK /\ ControlInv
    OBVIOUS
  <1> USE PoolAssumption DEF Init
  <1>1. /\ pc \in [ThreadIds -> WorkerPc]
        /\ task \in [ThreadIds -> Tasks \cup {NoTask}]
        /\ submitPc \in [Submitters -> SubmitPc]
        /\ submitting \in [Submitters -> Tasks \cup {NoTask}]
    BY DEF WorkerPc, SubmitPc
  <1>2. taskQue \in Seq(Tasks)
    OBVIOUS
  <1>3. nextId \in 0..(MaxThreadId + 1)
    OBVIOUS
  <1>4. queMax \in Nat /\ threadMax \in Nat /\ cur \in Int /\ idle \in Int
    BY DEF TaskMaxThreshHold, ThreadMaxThreshHold
  <1>5. running \in BOOLEAN /\ threads \subseteq ThreadIds
    OBVIOUS
  <1>6. TypeOK
    BY <1>1, <1>2, <1>3, <1>4, <1>5 DEF TypeOK, OwnerPc
  <1>7. ControlInv
    BY DEF ControlInv
  <1> QED
    BY <1>6, <1>7

(* What notifying a condition variable makes of the waiting threads.       *)
LEMMA Notified ==
    ASSUME TypeOK
    PROVE  /\ NotifyNotEmpty(pc) \in [ThreadIds -> WorkerPc]
           /\ \A t \in ThreadIds :
                 NotifyNotEmpty(pc)[t] = IF pc[t] = "waiting" THEN "acquire" ELSE pc[t]
           /\ NotifyNotFull \in [Submitters -> SubmitPc]
           /\ \A s \in Submitters :
                 NotifyNotFull[s] = IF submitPc[s] = "waiting" THEN "woken" ELSE submitPc[s]
  BY DEF TypeOK, NotifyNotEmpty, NotifyNotFull, WorkerPc, SubmitPc

LEMMA TypeStep == TypeOK /\ ControlInv /\ [Next]_vars => TypeOK'
  <1> SUFFICES ASSUME TypeOK, ControlInv, [Next]_vars PROVE TypeOK'
    OBVIOUS
  <1> USE PoolAssumption DEF TypeOK, configVars, countVars, submitVars, historyVars
  <1>1. ASSUME NEW m \in Modes, SetMode(m) PROVE TypeOK'
    BY <1>1 DEF SetMode
  <1>2. ASSUME NEW n \in QueMaxima, SetTaskQueMaxThreshHold(n) PROVE TypeOK'
    BY <1>2 DEF SetTaskQueMaxThreshHold
  <1>3. ASSUME NEW n \in ThreadMaxima, SetThreadSizeThreshHold(n) PROVE TypeOK'
    BY <1>3 DEF SetThreadSizeThreshHold
  <1>4. CASE Start
    <2> DEFINE created == FirstThreadId .. (FirstThreadId + InitThreads - 1)
               started == 0 .. (InitThreads - 1)
    <2>1. IsFiniteSet(started) /\ started \cap created \in SUBSET started
      BY FS_Interval
    <2>2. Cardinality(started \cap created) \in Nat
      BY <2>1, FS_Subset, FS_CardinalityType
    <2>3. idle' \in Int /\ cur' \in Int
      BY <1>4, <2>2 DEF Start
    <2>4. nextId' \in 0..(MaxThreadId + 1) /\ threads' \subseteq ThreadIds
      BY <1>4 DEF Start, ControlInv, ThreadIds
    <2>5. pc' \in [ThreadIds -> WorkerPc]
      BY <1>4 DEF Start, WorkerPc
    <2>6. running' \in BOOLEAN /\ ownerPc' \in OwnerPc
      BY <1>4 DEF Start, OwnerPc
    <2> QED
      BY <1>4, <2>3, <2>4, <2>5, <2>6 DEF Start
  <1>5. CASE DtorBegin
    BY <1>5 DEF DtorBegin, OwnerPc
  <1>6. CASE DtorLock
    BY <1>6, Notified DEF DtorLock, DtorLocks, DtorTest, OwnerPc
  <1>7. CASE DtorCheck \/ DtorSpuriousWake
    BY <1>7 DEF DtorCheck, DtorSpuriousWake, DtorTest, OwnerPc
  <1>8. ASSUME NEW s \in Submitters, NEW k \in Tasks, SubmitCalls(s, k) PROVE TypeOK'
    BY <1>8 DEF SubmitCalls, SubmitPc
  <1>9. ASSUME NEW s \in Submitters, SubmitEnqueue(s) PROVE TypeOK'
    <2>1. Grow \in {0, 1}
      BY DEF Grow
    <2>2. submitting[s] \in Tasks
      BY <1>9 DEF SubmitEnqueue, Enqueues, ControlInv
    <2>3. nextId' \in 0..(MaxThreadId + 1) /\ cur' \in Int /\ idle' \in Int
      BY <1>9, <2>1 DEF SubmitEnqueue, Enqueues
    <2>4. threads' \subseteq ThreadIds
      BY <1>9, <2>1 DEF SubmitEnqueue, Enqueues, ThreadIds
    <2>5. pc' \in [ThreadIds -> WorkerPc]
      BY <1>9, Notified DEF SubmitEnqueue, Enqueues, WorkerPc
    <2> QED
      BY <1>9, <2>2, <2>3, <2>4, <2>5 DEF SubmitEnqueue, Enqueues, SubmitPc
  <1>10. ASSUME NEW s \in Submitters, SubmitWaits(s) PROVE TypeOK'
    BY <1>10 DEF SubmitWaits, SubmitPc
  <1>11. ASSUME NEW s \in Submitters, SubmitTimeout(s) \/ SubmitSpuriousWake(s)
         PROVE  TypeOK'
    BY <1>11 DEF SubmitTimeout, SubmitSpuriousWake, StopsWaiting, SubmitPc
  <1>12. ASSUME NEW s \in Submitters, SubmitRejects(s) PROVE TypeOK'
    BY <1>12 DEF SubmitRejects, SubmitPc, ControlInv
  <1>13. ASSUME NEW t \in ThreadIds, WorkerTakes(t) PROVE TypeOK'
    <2>1. Head(taskQue) \in Tasks /\ Tail(taskQue) \in Seq(Tasks)
      BY <1>13 DEF WorkerTakes, Takes
    <2> QED
      BY <1>13, <2>1, Notified DEF WorkerTakes, Takes, WorkerPc
  <1>14. ASSUME NEW t \in ThreadIds, WorkerFinishes(t) PROVE TypeOK'
    BY <1>14 DEF WorkerFinishes, WorkerPc, ControlInv
  <1>15. ASSUME NEW t \in ThreadIds, WorkerExits(t) PROVE TypeOK'
    BY <1>15 DEF WorkerExits, Exits, NotifyExit, WorkerPc, OwnerPc
  <1>16. ASSUME NEW t \in ThreadIds, WorkerWaits(t) PROVE TypeOK'
    BY <1>16 DEF WorkerWaits, WorkerPc
  <1>17. ASSUME NEW t \in ThreadIds, WorkerSpuriousWake(t) \/ WorkerTimeout(t)
         PROVE  TypeOK'
    BY <1>17 DEF WorkerSpuriousWake, WorkerTimeout, WorkerPc
  <1>18. ASSUME NEW t \in ThreadIds, WorkerReclaimed(t) PROVE TypeOK'
    BY <1>18 DEF WorkerReclaimed, Leaves, WorkerPc
  <1>19. CASE UNCHANGED vars
    BY <1>19 DEF vars
  <1> QED
    BY <1>1, <1>2, <1>3, <1>4, <1>5, <1>6, <1>7, <1>8, <1>9, <1>10, <1>11, <1>12,
       <1>13, <1>14, <1>15, <1>16, <1>17, <1>18, <1>19, NextActions

LEMMA ControlStep == TypeOK /\ ControlInv /\ [Next]_vars => ControlInv'
  <1> SUFFICES ASSUME TypeOK, ControlInv, [Next]_vars PROVE ControlInv'
    OBVIOUS
  <1> USE PoolAssumption DEF TypeOK, ControlInv, configVars, countVars, submitVars,
                             historyVars
  <1>1. ASSUME NEW m \in Modes, SetMode(m) PROVE ControlInv'
    BY <1>1 DEF SetMode
  <1>2. ASSUME NEW n \in QueMaxima, SetTaskQueMaxThreshHold(n) PROVE ControlInv'
    BY <1>2 DEF SetTaskQueMaxThreshHold
  <1>3. ASSUME NEW n \in ThreadMaxima, SetThreadSizeThreshHold(n) PROVE ControlInv'
    BY <1>3 DEF SetThreadSizeThreshHold
  <1>4. CASE Start
    BY <1>4 DEF Start
  <1>5. CASE DtorBegin
    BY <1>5 DEF DtorBegin
  <1>6. CASE DtorLock
    BY <1>6, Notified DEF DtorLock, DtorLocks, DtorTest
  <1>7. CASE DtorCheck \/ DtorSpuriousWake
    BY <1>7 DEF DtorCheck, DtorSpuriousWake, DtorTest
  <1>8. ASSUME NEW s \in Submitters, NEW k \in Tasks, SubmitCalls(s, k)
        PROVE  ControlInv'
    BY <1>8 DEF SubmitCalls
  <1>9. ASSUME NEW s \in Submitters, SubmitEnqueue(s) PROVE ControlInv'
    BY <1>9, Notified DEF SubmitEnqueue, Enqueues
  <1>10. ASSUME NEW s \in Submitters, SubmitWaits(s) PROVE ControlInv'
    BY <1>10 DEF SubmitWaits
  <1>11. ASSUME NEW s \in Submitters, SubmitTimeout(s) \/ SubmitSpuriousWake(s)
         PROVE  ControlInv'
    BY <1>11 DEF SubmitTimeout, SubmitSpuriousWake, StopsWaiting
  <1>12. ASSUME NEW s \in Submitters, SubmitRejects(s) PROVE ControlInv'
    BY <1>12 DEF SubmitRejects
  <1>13. ASSUME NEW t \in ThreadIds, WorkerTakes(t) PROVE ControlInv'
    <2>1. Head(taskQue) \in Tasks
      BY <1>13 DEF WorkerTakes, Takes
    <2> QED
      BY <1>13, <2>1, Notified DEF WorkerTakes, Takes, AboutToTest
  <1>14. ASSUME NEW t \in ThreadIds, WorkerFinishes(t) PROVE ControlInv'
    BY <1>14 DEF WorkerFinishes
  <1>15. ASSUME NEW t \in ThreadIds, WorkerExits(t) PROVE ControlInv'
    BY <1>15 DEF WorkerExits, Exits, NotifyExit, AboutToTest
  <1>16. ASSUME NEW t \in ThreadIds, WorkerWaits(t) PROVE ControlInv'
    BY <1>16 DEF WorkerWaits, AboutToTest
  <1>17. ASSUME NEW t \in ThreadIds, WorkerSpuriousWake(t) \/ WorkerTimeout(t)
         PROVE  ControlInv'
    BY <1>17 DEF WorkerSpuriousWake, WorkerTimeout
  <1>18. ASSUME NEW t \in ThreadIds, WorkerReclaimed(t) PROVE ControlInv'
    BY <1>18 DEF WorkerReclaimed, Leaves
  <1>19. CASE UNCHANGED vars
    BY <1>19 DEF vars
  <1> QED
    BY <1>1, <1>2, <1>3, <1>4, <1>5, <1>6, <1>7, <1>8, <1>9, <1>10, <1>11, <1>12,
       <1>13, <1>14, <1>15, <1>16, <1>17, <1>18, <1>19, NextActions

-----------------------------------------------------------------------------
(* notEmpty_ and notFull_, and the queue's limit.                          *)

LEMMA SleepStep ==
    TypeOK /\ ControlInv /\ NobodyForgotten /\ QueueBounded /\ [Next]_vars
        => NobodyForgotten' /\ QueueBounded'
  <1> DEFINE Good == NobodyForgotten /\ QueueBounded
  <1> SUFFICES ASSUME TypeOK, ControlInv, Good, [Next]_vars PROVE Good'
    OBVIOUS
  <1> USE PoolAssumption DEF TypeOK, NobodyForgotten, QueueBounded, configVars,
                             countVars, submitVars, historyVars
  <1>1. CASE \/ \E m \in Modes : SetMode(m)
             \/ \E n \in ThreadMaxima : SetThreadSizeThreshHold(n)
    BY <1>1 DEF SetMode, SetThreadSizeThreshHold
  <1>2. ASSUME NEW n \in QueMaxima, SetTaskQueMaxThreshHold(n) PROVE Good'
    BY <1>2 DEF SetTaskQueMaxThreshHold, ControlInv
  <1>3. CASE Start
    BY <1>3 DEF Start, ControlInv
  <1>4. CASE DtorBegin \/ DtorCheck \/ DtorSpuriousWake
    BY <1>4 DEF DtorBegin, DtorCheck, DtorSpuriousWake
  <1>5. CASE DtorLock
    BY <1>5, Notified DEF DtorLock, DtorLocks
  <1>6. ASSUME NEW s \in Submitters, NEW k \in Tasks, SubmitCalls(s, k) PROVE Good'
    BY <1>6 DEF SubmitCalls
  <1>7. ASSUME NEW s \in Submitters, SubmitEnqueue(s) PROVE Good'
    <2>1. submitting[s] \in Tasks
      BY <1>7 DEF SubmitEnqueue, Enqueues, ControlInv
    <2>2. Len(taskQue') = Len(taskQue) + 1
      BY <1>7, <2>1 DEF SubmitEnqueue, Enqueues
    <2>3. \A t \in ThreadIds : pc'[t] # "waiting"
      BY <1>7, Notified DEF SubmitEnqueue, Enqueues
    <2> QED
      BY <1>7, <2>2, <2>3 DEF SubmitEnqueue, Enqueues
  <1>8. ASSUME NEW s \in Submitters,
               \/ SubmitWaits(s) \/ SubmitTimeout(s) \/ SubmitSpuriousWake(s)
               \/ SubmitRejects(s)
        PROVE  Good'
    BY <1>8 DEF SubmitWaits, SubmitTimeout, SubmitSpuriousWake, StopsWaiting,
                SubmitRejects
  <1>9. ASSUME NEW t \in ThreadIds, WorkerTakes(t) PROVE Good'
    <2>1. Len(taskQue') = Len(taskQue) - 1
      BY <1>9 DEF WorkerTakes, Takes
    <2>2. \A s \in Submitters : submitPc'[s] # "waiting"
      BY <1>9, Notified DEF WorkerTakes, Takes
    <2>3. \A u \in ThreadIds : pc'[u] # "waiting"
      BY <1>9, Notified DEF WorkerTakes, Takes
    <2> QED
      BY <1>9, <2>1, <2>2, <2>3 DEF WorkerTakes, Takes
  <1>10. ASSUME NEW t \in ThreadIds,
                \/ WorkerFinishes(t) \/ WorkerExits(t) \/ WorkerWaits(t)
                \/ WorkerSpuriousWake(t) \/ WorkerTimeout(t) \/ WorkerReclaimed(t)
         PROVE  Good'
    BY <1>10 DEF WorkerFinishes, WorkerExits, Exits, WorkerWaits,
                 WorkerSpuriousWake, WorkerTimeout, WorkerReclaimed, Leaves
  <1>11. CASE UNCHANGED vars
    BY <1>11 DEF vars
  <1> QED
    BY <1>1, <1>2, <1>3, <1>4, <1>5, <1>6, <1>7, <1>8, <1>9, <1>10, <1>11,
       NextActions

-----------------------------------------------------------------------------
(* threads_.                                                               *)

LEMMA MapStep == TypeOK /\ ControlInv /\ MapInv /\ [Next]_vars => MapInv'
  <1> SUFFICES ASSUME TypeOK, ControlInv, MapInv, [Next]_vars PROVE MapInv'
    OBVIOUS
  <1> USE PoolAssumption DEF TypeOK, MapInv, LiveThreads, configVars, countVars,
                             submitVars, historyVars
  <1>1. CASE \/ \E m \in Modes : SetMode(m)
             \/ \E n \in QueMaxima : SetTaskQueMaxThreshHold(n)
             \/ \E n \in ThreadMaxima : SetThreadSizeThreshHold(n)
    BY <1>1 DEF SetMode, SetTaskQueMaxThreshHold, SetThreadSizeThreshHold
  <1>2. CASE Start
    <2> DEFINE created == FirstThreadId .. (FirstThreadId + InitThreads - 1)
               started == 0 .. (InitThreads - 1)
    <2>1. SUFFICES ASSUME ownerPc' = "running" PROVE MapInv'
      BY <1>2 DEF Start
    <2>2. started \subseteq created
      BY <1>2, <2>1 DEF Start
    <2>3. created = started /\ InitThreads <= FirstThreadId + InitThreads
      <3>1. CASE InitThreads = 0
        BY <3>1
      <3>2. CASE InitThreads > 0
        <4>0. 0 \in started
          BY <3>2
        <4>1. 0 \in created
          BY <2>2, <4>0, Zenon
        <4>2. FirstThreadId = 0
          BY <4>1
        <4> QED
          BY <4>2
      <3> QED
        BY <3>1, <3>2
    <2>4. nextId' = FirstThreadId + InitThreads /\ threads' = started
      BY <1>2, <2>3 DEF Start, ControlInv
    <2>5. \A t \in ThreadIds : pc'[t] = IF t \in started THEN "acquire" ELSE "none"
      BY <1>2, <2>3 DEF Start, ControlInv
    <2>6. started \subseteq ThreadIds
      BY <2>3 DEF ThreadIds
    <2>7. threads' = LiveThreads'
      BY <2>4, <2>5, <2>6
    <2>8. \A t \in ThreadIds : t >= nextId' => pc'[t] = "none"
      BY <2>3, <2>4, <2>5 DEF ThreadIds
    <2> QED
      BY <2>1, <2>7, <2>8
  <1>3. CASE DtorBegin \/ DtorCheck \/ DtorSpuriousWake
    BY <1>3 DEF DtorBegin, DtorCheck, DtorSpuriousWake, DtorTest
  <1>4. CASE DtorLock
    BY <1>4, Notified DEF DtorLock, DtorLocks, DtorTest
  <1>5. ASSUME NEW s \in Submitters,
               \/ \E k \in Tasks : SubmitCalls(s, k)
               \/ SubmitWaits(s) \/ SubmitTimeout(s) \/ SubmitSpuriousWake(s)
               \/ SubmitRejects(s)
        PROVE  MapInv'
    BY <1>5 DEF SubmitCalls, SubmitWaits, SubmitTimeout, SubmitSpuriousWake,
                StopsWaiting, SubmitRejects
  <1>6. ASSUME NEW s \in Submitters, SubmitEnqueue(s) PROVE MapInv'
    <2>1. Grow \in {0, 1} /\ nextId \in Int
      BY DEF Grow
    <2> DEFINE grown == nextId .. (nextId + Grow - 1)
    <2>2. ownerPc = "running" /\ ownerPc' = ownerPc
      BY <1>6 DEF SubmitEnqueue, Enqueues, ControlInv
    <2>3. threads' = threads \cup grown /\ nextId' = nextId + Grow
      BY <1>6 DEF SubmitEnqueue, Enqueues
    <2>4. grown \subseteq ThreadIds
      BY <1>6, <2>1 DEF SubmitEnqueue, Enqueues, ThreadIds
    <2>5. \A t \in ThreadIds :
             pc'[t] = IF t \in grown THEN "acquire"
                      ELSE IF pc[t] = "waiting" THEN "acquire" ELSE pc[t]
      BY <1>6, Notified DEF SubmitEnqueue, Enqueues
    <2>6. threads' = LiveThreads'
      BY <2>2, <2>3, <2>4, <2>5
    <2>7. \A t \in ThreadIds : t >= nextId' => t >= nextId /\ t \notin grown
      BY <2>1, <2>3 DEF ThreadIds
    <2> QED
      BY <2>2, <2>5, <2>6, <2>7
  <1>7. ASSUME NEW t \in ThreadIds, WorkerTakes(t) PROVE MapInv'
    BY <1>7, Notified DEF WorkerTakes, Takes, AboutToTest
  <1>8. ASSUME NEW t \in ThreadIds,
               \/ WorkerFinishes(t) \/ WorkerWaits(t)
               \/ WorkerSpuriousWake(t) \/ WorkerTimeout(t)
        PROVE  MapInv'
    BY <1>8 DEF WorkerFinishes, WorkerWaits, WorkerSpuriousWake, WorkerTimeout,
                AboutToTest
  <1>9. ASSUME NEW t \in ThreadIds, WorkerExits(t) PROVE MapInv'
    BY <1>9 DEF WorkerExits, Exits, AboutToTest, NotifyExit, OwnerPc
  <1>10. ASSUME NEW t \in ThreadIds, WorkerReclaimed(t) PROVE MapInv'
    BY <1>10 DEF WorkerReclaimed, Leaves
  <1>11. CASE UNCHANGED vars
    BY <1>11 DEF vars
  <1> QED
    BY <1>1, <1>2, <1>3, <1>4, <1>5, <1>6, <1>7, <1>8, <1>9, <1>10, <1>11,
       NextActions

-----------------------------------------------------------------------------
(* The counters.                                                           *)

(* There are finitely many threads.                                        *)
LEMMA ThreadsFinite ==
    /\ IsFiniteSet(LiveThreads) /\ IsFiniteSet(IdleThreads)
    /\ Cardinality(LiveThreads) \in Nat /\ Cardinality(IdleThreads) \in Nat
  <1>1. IsFiniteSet(ThreadIds)
    BY PoolAssumption, FS_Interval DEF ThreadIds
  <1>2. LiveThreads \in SUBSET ThreadIds /\ IdleThreads \in SUBSET ThreadIds
    BY DEF LiveThreads, IdleThreads
  <1>3. IsFiniteSet(LiveThreads) /\ IsFiniteSet(IdleThreads)
    BY <1>1, <1>2, FS_Subset
  <1> QED
    BY <1>3, FS_CardinalityType

LEMMA CountStep ==
    TypeOK /\ ControlInv /\ MapInv /\ CountInv /\ [Next]_vars => CountInv'
  <1> SUFFICES ASSUME TypeOK, ControlInv, MapInv, CountInv, [Next]_vars
               PROVE  CountInv'
    OBVIOUS
  <1> USE PoolAssumption DEF TypeOK, configVars, countVars, submitVars, historyVars
  <1>1. CASE \/ \E m \in Modes : SetMode(m)
             \/ \E n \in QueMaxima : SetTaskQueMaxThreshHold(n)
             \/ \E n \in ThreadMaxima : SetThreadSizeThreshHold(n)
    BY <1>1 DEF SetMode, SetTaskQueMaxThreshHold, SetThreadSizeThreshHold,
                ControlInv, CountInv
  <1>2. CASE Start
    <2> DEFINE created == FirstThreadId .. (FirstThreadId + InitThreads - 1)
               started == 0 .. (InitThreads - 1)
    <2>1. SUFFICES ASSUME ownerPc' = "running" PROVE CountInv'
      BY <1>2 DEF Start, CountInv, ControlInv
    <2>2. started \subseteq created
      BY <1>2, <2>1 DEF Start
    <2>3. idle' = Cardinality(started) /\ cur' = InitThreads
      <3>1. started \cap created = started
        BY <2>2
      <3> QED
        BY <1>2, <3>1 DEF Start
    <2>4. started \subseteq ThreadIds
      BY <2>2 DEF ThreadIds
    <2>5. \A t \in ThreadIds : pc'[t] = IF t \in started THEN "acquire" ELSE "none"
      BY <1>2, <2>2 DEF Start, ControlInv
    <2>6. LiveThreads' = started /\ IdleThreads' = started
      BY <2>4, <2>5 DEF LiveThreads, IdleThreads
    <2>7. Cardinality(started) = InitThreads
      BY FS_Interval
    <2> QED
      BY <2>3, <2>6, <2>7 DEF CountInv
  <1>3. CASE DtorBegin \/ DtorCheck \/ DtorSpuriousWake \/ UNCHANGED vars
    <2>1. UNCHANGED <<LiveThreads, IdleThreads, cur, idle, threadMax, taskQue>>
      BY <1>3 DEF DtorBegin, DtorCheck, DtorSpuriousWake, vars, LiveThreads,
                  IdleThreads
    <2>2. ownerPc' \in {"running", "crashed"} => ownerPc' = ownerPc
      BY <1>3 DEF DtorBegin, DtorCheck, DtorSpuriousWake, DtorTest, vars
    <2>3. ownerPc = "crashed" => ownerPc' = "crashed"
      BY <1>3 DEF DtorBegin, DtorCheck, DtorSpuriousWake, vars
    <2> QED
      BY <2>1, <2>2, <2>3 DEF CountInv
  <1>4. CASE DtorLock
    <2>1. UNCHANGED <<LiveThreads, IdleThreads, cur, idle, threadMax, taskQue>>
      BY <1>4, Notified DEF DtorLock, DtorLocks, LiveThreads, IdleThreads
    <2> QED
      BY <1>4, <2>1 DEF DtorLock, DtorLocks, DtorTest, CountInv
  <1>5. ASSUME NEW s \in Submitters,
               \/ \E k \in Tasks : SubmitCalls(s, k)
               \/ SubmitWaits(s) \/ SubmitTimeout(s) \/ SubmitSpuriousWake(s)
               \/ SubmitRejects(s)
        PROVE  CountInv'
    <2>1. /\ UNCHANGED <<pc, cur, idle, threadMax, taskQue, ownerPc>>
      BY <1>5 DEF SubmitCalls, SubmitWaits, SubmitTimeout, SubmitSpuriousWake,
                  StopsWaiting, SubmitRejects
    <2> QED
      BY <2>1 DEF CountInv, LiveThreads, IdleThreads
  <1>6. ASSUME NEW s \in Submitters, SubmitEnqueue(s) PROVE CountInv'
    <2>1. /\ ownerPc = "running" /\ UNCHANGED <<ownerPc, threadMax>>
          /\ cur' = cur + Grow /\ idle' = idle + Grow
      BY <1>6 DEF SubmitEnqueue, Enqueues, ControlInv
    <2>2. \A t \in ThreadIds :
             pc'[t] = IF t \in nextId .. (nextId + Grow - 1) THEN "acquire"
                      ELSE IF pc[t] = "waiting" THEN "acquire" ELSE pc[t]
      BY <1>6, Notified DEF SubmitEnqueue, Enqueues
    <2>3. CASE Grow = 0
      <3>1. LiveThreads' = LiveThreads /\ IdleThreads' = IdleThreads
        BY <2>2, <2>3 DEF LiveThreads, IdleThreads
      <3> QED
        BY <2>1, <2>3, <3>1 DEF CountInv
    <2>4. CASE Grow = 1
      <3>1. nextId \in ThreadIds /\ nextId \notin LiveThreads /\ nextId \notin IdleThreads
        BY <1>6, <2>1, <2>4 DEF SubmitEnqueue, Enqueues, MapInv, ThreadIds,
                                LiveThreads, IdleThreads
      <3>2. nextId .. (nextId + Grow - 1) = {nextId}
        BY <2>4
      <3>3. /\ LiveThreads' = LiveThreads \cup {nextId}
            /\ IdleThreads' = IdleThreads \cup {nextId}
        <4>1. \A t \in ThreadIds :
                 pc'[t] = IF t = nextId THEN "acquire"
                          ELSE IF pc[t] = "waiting" THEN "acquire" ELSE pc[t]
          BY <2>2, <3>2
        <4>2. LiveThreads' = LiveThreads \cup {nextId}
          BY <3>1, <4>1 DEF LiveThreads
        <4>3. IdleThreads' = IdleThreads \cup {nextId}
          BY <3>1, <4>1 DEF IdleThreads
        <4> QED BY <4>2, <4>3
      <3>4. /\ Cardinality(LiveThreads') = Cardinality(LiveThreads) + 1
            /\ Cardinality(IdleThreads') = Cardinality(IdleThreads) + 1
        BY <3>1, <3>3, ThreadsFinite, FS_AddElement
      <3>5. cur < threadMax
        BY <2>4 DEF Grow
      <3> QED
        BY <2>1, <2>4, <3>4, <3>5 DEF CountInv
    <2> QED
      BY <2>3, <2>4 DEF Grow
  <1>7. ASSUME NEW t \in ThreadIds, WorkerTakes(t) PROVE CountInv'
    <2>1. /\ UNCHANGED <<ownerPc, threadMax, cur>> /\ idle' = idle - 1
          /\ taskQue # <<>> /\ t \in IdleThreads
      BY <1>7 DEF WorkerTakes, Takes, AboutToTest, IdleThreads
    <2>2. LiveThreads' = LiveThreads /\ IdleThreads' = IdleThreads \ {t}
      BY <1>7, Notified DEF WorkerTakes, Takes, AboutToTest, LiveThreads, IdleThreads
    <2>3. Cardinality(IdleThreads') = Cardinality(IdleThreads) - 1
      BY <2>1, <2>2, ThreadsFinite, FS_RemoveElement
    <2> QED
      BY <2>1, <2>2, <2>3 DEF CountInv
  <1>8. ASSUME NEW t \in ThreadIds, WorkerFinishes(t) PROVE CountInv'
    <2>1. /\ UNCHANGED <<ownerPc, threadMax, cur, taskQue>> /\ idle' = idle + 1
          /\ t \notin IdleThreads
      BY <1>8 DEF WorkerFinishes, IdleThreads
    <2>2. LiveThreads' = LiveThreads /\ IdleThreads' = IdleThreads \cup {t}
      BY <1>8 DEF WorkerFinishes, LiveThreads, IdleThreads
    <2>3. Cardinality(IdleThreads') = Cardinality(IdleThreads) + 1
      BY <2>1, <2>2, ThreadsFinite, FS_AddElement
    <2> QED
      BY <2>1, <2>2, <2>3 DEF CountInv
  <1>9. ASSUME NEW t \in ThreadIds, WorkerExits(t) PROVE CountInv'
    BY <1>9 DEF WorkerExits, Exits, NotifyExit, ControlInv, CountInv
  <1>10. ASSUME NEW t \in ThreadIds,
                WorkerWaits(t) \/ WorkerSpuriousWake(t) \/ WorkerTimeout(t)
         PROVE  CountInv'
    <2>1. UNCHANGED <<LiveThreads, IdleThreads, cur, idle, threadMax, taskQue, ownerPc>>
      BY <1>10 DEF WorkerWaits, WorkerSpuriousWake, WorkerTimeout, AboutToTest,
                   LiveThreads, IdleThreads
    <2> QED
      BY <2>1 DEF CountInv
  <1>11. ASSUME NEW t \in ThreadIds, WorkerReclaimed(t) PROVE CountInv'
    <2>1. /\ UNCHANGED <<ownerPc, threadMax, taskQue>>
          /\ cur > InitThreads /\ cur' = cur - 1 /\ idle' = idle - 1
          /\ t \in LiveThreads /\ t \in IdleThreads
      BY <1>11 DEF WorkerReclaimed, Leaves, LiveThreads, IdleThreads
    <2>2. LiveThreads' = LiveThreads \ {t} /\ IdleThreads' = IdleThreads \ {t}
      BY <1>11 DEF WorkerReclaimed, Leaves, LiveThreads, IdleThreads
    <2>3. /\ Cardinality(LiveThreads') = Cardinality(LiveThreads) - 1
          /\ Cardinality(IdleThreads') = Cardinality(IdleThreads) - 1
      BY <2>1, <2>2, ThreadsFinite, FS_RemoveElement
    <2> QED
      BY <2>1, <2>3 DEF CountInv
  <1> QED
    BY <1>1, <1>2, <1>3, <1>4, <1>5, <1>6, <1>7, <1>8, <1>9, <1>10, <1>11,
       NextActions

-----------------------------------------------------------------------------
(* The tasks.  The elements of a queue, and that they differ.              *)
Elements(q) == {q[i] : i \in DOMAIN q}
Distinct(q) == \A i, j \in DOMAIN q : q[i] = q[j] => i = j

(* push: one element more, still distinct if it is new.                    *)
LEMMA PushNew ==
    ASSUME NEW S, NEW q \in Seq(S), NEW x \in S, Distinct(q), x \notin Elements(q)
    PROVE  /\ Distinct(Append(q, x))
           /\ Elements(Append(q, x)) = Elements(q) \cup {x}
  <1> DEFINE n == Len(q)
             r == Append(q, x)
  <1>1. /\ n \in Nat /\ DOMAIN q = 1..n /\ DOMAIN r = 1..(n + 1)
        /\ \A i \in 1..n : r[i] = q[i]
        /\ r[n + 1] = x
    OBVIOUS
  <1> HIDE DEF n, r
  <1>2. \A i \in 1..(n + 1) : i \in 1..n \/ i = n + 1
    BY <1>1
  <1>3. 1..n \subseteq 1..(n + 1) /\ n + 1 \in 1..(n + 1)
    BY <1>1
  <1>4. Distinct(r)
    BY <1>1, <1>2 DEF Distinct, Elements
  <1>5. Elements(r) = Elements(q) \cup {x}
    BY <1>1, <1>2, <1>3 DEF Elements
  <1> QED
    BY <1>4, <1>5 DEF r

(* pop: the head is gone, and was there only once.                         *)
LEMMA PopHead ==
    ASSUME NEW S, NEW q \in Seq(S), q # <<>>, Distinct(q)
    PROVE  /\ Distinct(Tail(q))
           /\ Elements(Tail(q)) = Elements(q) \ {Head(q)}
           /\ Head(q) \in Elements(q)
  <1> DEFINE n == Len(q)
             r == Tail(q)
  <1>1. /\ n \in Nat /\ n > 0 /\ DOMAIN q = 1..n /\ DOMAIN r = 1..(n - 1)
        /\ \A i \in 1..(n - 1) : r[i] = q[i + 1]
        /\ Head(q) = q[1]
    OBVIOUS
  <1> HIDE DEF n, r
  <1>2. /\ \A i \in 1..(n - 1) : i + 1 \in 1..n /\ i + 1 # 1
        /\ \A i \in 1..n : i # 1 => i - 1 \in 1..(n - 1) /\ (i - 1) + 1 = i
        /\ 1 \in 1..n
    BY <1>1
  <1>3. Distinct(r)
    <2> SUFFICES ASSUME NEW i \in 1..(n - 1), NEW j \in 1..(n - 1), r[i] = r[j]
                 PROVE  i = j
      BY <1>1 DEF Distinct
    <2>1. i + 1 = j + 1
      BY <1>1, <1>2 DEF Distinct
    <2> QED
      BY <2>1
  <1>4. \A i \in 1..(n - 1) : r[i] \in Elements(q) /\ r[i] # q[1]
    <2> SUFFICES ASSUME NEW i \in 1..(n - 1) PROVE r[i] \in Elements(q) /\ r[i] # q[1]
      OBVIOUS
    <2>1. r[i] = q[i + 1] /\ i + 1 \in 1..n /\ i + 1 # 1
      BY <1>1, <1>2
    <2>2. r[i] \in Elements(q)
      BY <1>1, <2>1 DEF Elements
    <2>3. r[i] # q[1]
      BY <1>1, <1>2, <2>1 DEF Distinct
    <2> QED BY <2>2, <2>3
  <1>5. \A i \in 1..n : q[i] # q[1] => q[i] \in Elements(r)
    <2> SUFFICES ASSUME NEW i \in 1..n, q[i] # q[1] PROVE q[i] \in Elements(r)
      OBVIOUS
    <2>1. i - 1 \in 1..(n - 1) /\ r[i - 1] = q[i]
      BY <1>1, <1>2
    <2> QED
      BY <1>1, <2>1 DEF Elements
  <1>6. Elements(r) = Elements(q) \ {q[1]}
    BY <1>1, <1>4, <1>5 DEF Elements
  <1> QED
    BY <1>1, <1>2, <1>3, <1>6 DEF r, Elements

(* Tasks that are queued or run are tasks.                                 *)
LEMMA OnlyTasks ==
    ASSUME TypeOK, ControlInv
    PROVE  /\ QueuedTasks = Elements(taskQue)
           /\ QueuedTasks \subseteq Tasks /\ RunningTasks \subseteq Tasks
           /\ NoTask \notin Accepted \cup rejected
  <1>1. QueuedTasks = Elements(taskQue)
    BY DEF QueuedTasks, Elements
  <1>2. QueuedTasks \subseteq Tasks
    BY DEF QueuedTasks, TypeOK
  <1>3. RunningTasks \subseteq Tasks
    BY DEF RunningTasks, ControlInv
  <1> QED
    BY <1>1, <1>2, <1>3, PoolAssumption DEF Accepted, TypeOK

(* Steps that move no task.                                                *)
LEMMA NoTaskMoves ==
    ASSUME TaskInv, UNCHANGED <<taskQue, task, submitting, done, rejected>>,
           \A t \in ThreadIds : pc'[t] = "run" <=> pc[t] = "run"
    PROVE  TaskInv'
  <1>1. UNCHANGED <<QueuedTasks, RunningTasks>>
    BY DEF QueuedTasks, RunningTasks
  <1> QED
    BY <1>1 DEF TaskInv, TaskInOnePlace, SubmittedOnce, Accepted

LEMMA TaskStep ==
    TypeOK /\ ControlInv /\ MapInv /\ TaskInv /\ [Next]_vars => TaskInv'
  <1> SUFFICES ASSUME TypeOK, ControlInv, MapInv, TaskInv, [Next]_vars
               PROVE  TaskInv'
    OBVIOUS
  <1> USE DEF TypeOK, configVars, countVars, submitVars, historyVars
  <1>1. CASE \/ \E m \in Modes : SetMode(m)
             \/ \E n \in QueMaxima : SetTaskQueMaxThreshHold(n)
             \/ \E n \in ThreadMaxima : SetThreadSizeThreshHold(n)
             \/ DtorBegin \/ DtorCheck \/ DtorSpuriousWake
    BY <1>1, NoTaskMoves DEF SetMode, SetTaskQueMaxThreshHold,
       SetThreadSizeThreshHold, DtorBegin, DtorCheck, DtorSpuriousWake
  <1>2. CASE Start
    BY <1>2, NoTaskMoves DEF Start, ControlInv
  <1>3. CASE DtorLock
    BY <1>3, NoTaskMoves, Notified DEF DtorLock, DtorLocks
  <1>4. ASSUME NEW s \in Submitters,
               SubmitWaits(s) \/ SubmitTimeout(s) \/ SubmitSpuriousWake(s)
        PROVE  TaskInv'
    BY <1>4, NoTaskMoves DEF SubmitWaits, SubmitTimeout, SubmitSpuriousWake,
                             StopsWaiting
  <1>5. ASSUME NEW s \in Submitters, NEW k \in Tasks, SubmitCalls(s, k)
        PROVE  TaskInv'
    <2>1. UNCHANGED <<QueuedTasks, RunningTasks, done, rejected, taskQue, pc, task>>
      BY <1>5 DEF SubmitCalls, QueuedTasks, RunningTasks
    <2>2. \A r \in Submitters : submitting'[r] = IF r = s THEN k ELSE submitting[r]
      BY <1>5 DEF SubmitCalls
    <2>3. k \notin Accepted \cup rejected /\ \A r \in Submitters : submitting[r] # k
      BY <1>5 DEF SubmitCalls, Fresh
    <2> QED
      BY <2>1, <2>2, <2>3 DEF TaskInv, TaskInOnePlace, SubmittedOnce, Accepted
  <1>6. ASSUME NEW s \in Submitters, SubmitEnqueue(s) PROVE TaskInv'
    <2> DEFINE k == submitting[s]
    <2>1. /\ k \in Tasks /\ k # NoTask
          /\ UNCHANGED <<task, done, rejected>> /\ taskQue' = Append(taskQue, k)
      BY <1>6, PoolAssumption DEF SubmitEnqueue, Enqueues, ControlInv
    <2>2. \A r \in Submitters : submitting'[r] = IF r = s THEN NoTask ELSE submitting[r]
      BY <1>6 DEF SubmitEnqueue, Enqueues
    <2>3. \A t \in ThreadIds : pc'[t] = "run" <=> pc[t] = "run"
      <3>1. \A t \in ThreadIds : t \in nextId .. (nextId + Grow - 1) => pc[t] # "run"
        BY <1>6, PoolAssumption DEF SubmitEnqueue, Enqueues, ControlInv, MapInv,
                                    ThreadIds
      <3> QED
        BY <1>6, <3>1, Notified DEF SubmitEnqueue, Enqueues
    <2>4. RunningTasks' = RunningTasks
      BY <2>1, <2>3 DEF RunningTasks
    <2>5. Distinct(taskQue) /\ k \notin Elements(taskQue)
      BY OnlyTasks DEF TaskInv, TaskInOnePlace, Distinct, Accepted
    <2>6. Distinct(taskQue') /\ QueuedTasks' = QueuedTasks \cup {k}
      <3>1. taskQue \in Seq(Tasks)
        BY DEF TypeOK
      <3>2. /\ Distinct(Append(taskQue, k))
            /\ Elements(Append(taskQue, k)) = Elements(taskQue) \cup {k}
        BY <2>1, <2>5, <3>1, PushNew
      <3>3. Distinct(taskQue') /\ Elements(taskQue') = Elements(taskQue) \cup {k}
        BY <2>1, <3>2
      <3> QED BY <3>3 DEF QueuedTasks, Elements
    <2>7. \A r \in Submitters : r # s => submitting[r] # k
      BY <2>1 DEF TaskInv, SubmittedOnce
    <2>8. TaskInOnePlace'
      BY <2>1, <2>2, <2>3, <2>4, <2>6, <2>7, OnlyTasks
         DEF TaskInv, TaskInOnePlace, Accepted, Distinct
    <2> QED
      BY <2>2, <2>8 DEF TaskInv, SubmittedOnce
  <1>7. ASSUME NEW s \in Submitters, SubmitRejects(s) PROVE TaskInv'
    <2> DEFINE k == submitting[s]
    <2>1. /\ k \in Tasks /\ k # NoTask /\ rejected' = rejected \cup {k}
          /\ UNCHANGED <<taskQue, pc, task, done, QueuedTasks, RunningTasks>>
      BY <1>7, PoolAssumption DEF SubmitRejects, ControlInv, QueuedTasks, RunningTasks
    <2>2. \A r \in Submitters : submitting'[r] = IF r = s THEN NoTask ELSE submitting[r]
      BY <1>7 DEF SubmitRejects
    <2>3. \A r \in Submitters : r # s => submitting[r] # k
      BY <2>1 DEF TaskInv, SubmittedOnce
    <2>4. TaskInOnePlace'
      BY <2>1, <2>2, <2>3, OnlyTasks DEF TaskInv, TaskInOnePlace, Accepted
    <2> QED
      BY <2>2, <2>4 DEF TaskInv, SubmittedOnce
  <1>8. ASSUME NEW t \in ThreadIds, WorkerTakes(t) PROVE TaskInv'
    <2> DEFINE k == Head(taskQue)
    <2>1. /\ UNCHANGED <<done, rejected, submitting>> /\ taskQue # <<>>
          /\ taskQue' = Tail(taskQue) /\ pc[t] # "run" /\ pc'[t] = "run"
          /\ task'[t] = k
      BY <1>8, Notified DEF WorkerTakes, Takes, AboutToTest
    <2>2. \A u \in ThreadIds : u # t => task'[u] = task[u] /\ (pc'[u] = "run" <=> pc[u] = "run")
      BY <1>8, Notified DEF WorkerTakes, Takes
    <2>3. RunningTasks' = RunningTasks \cup {k}
      BY <2>1, <2>2 DEF RunningTasks
    <2>4. Distinct(taskQue)
      BY DEF TaskInv, TaskInOnePlace, Distinct
    <2>5. /\ Distinct(taskQue') /\ k \in QueuedTasks
          /\ QueuedTasks' = QueuedTasks \ {k}
      BY <2>1, <2>4, PopHead DEF QueuedTasks, Elements
    <2>6. \A u \in ThreadIds : pc[u] = "run" => task[u] # k
      BY <2>5 DEF TaskInv, TaskInOnePlace, RunningTasks
    <2>7. Accepted' = Accepted
      BY <2>1, <2>3, <2>5 DEF Accepted
    <2>8. TaskInOnePlace'
      <3>1. \A u, v \in ThreadIds :
               pc'[u] = "run" /\ pc'[v] = "run" /\ task'[u] = task'[v] => u = v
        BY <2>1, <2>2, <2>6 DEF TaskInv, TaskInOnePlace
      <3>2. \A i, j \in DOMAIN taskQue' : taskQue'[i] = taskQue'[j] => i = j
        BY <2>5 DEF Distinct
      <3>3. /\ QueuedTasks' \cap RunningTasks' = {}
            /\ (QueuedTasks' \cup RunningTasks') \cap done' = {}
        BY <2>1, <2>3, <2>5 DEF TaskInv, TaskInOnePlace
      <3>4. /\ Accepted' \cap rejected' = {}
            /\ \A s \in Submitters : submitting'[s] \notin Accepted' \cup rejected'
        BY <2>1, <2>7 DEF TaskInv, TaskInOnePlace
      <3> QED
        BY <3>1, <3>2, <3>3, <3>4 DEF TaskInOnePlace
    <2> QED
      BY <2>1, <2>8 DEF TaskInv, SubmittedOnce
  <1>9. ASSUME NEW t \in ThreadIds, WorkerFinishes(t) PROVE TaskInv'
    <2> DEFINE k == task[t]
    <2>1. /\ UNCHANGED <<taskQue, rejected, submitting, QueuedTasks>>
          /\ done' = done \cup {k} /\ pc[t] = "run" /\ pc'[t] = "acquire"
      BY <1>9 DEF WorkerFinishes, QueuedTasks
    <2>2. \A u \in ThreadIds : u # t => task'[u] = task[u] /\ pc'[u] = pc[u]
      BY <1>9 DEF WorkerFinishes
    <2>3. \A u \in ThreadIds : pc[u] = "run" /\ u # t => task[u] # k
      BY <2>1 DEF TaskInv, TaskInOnePlace
    <2>4. RunningTasks' = RunningTasks \ {k} /\ k \in RunningTasks
      BY <2>1, <2>2, <2>3 DEF RunningTasks
    <2>5. Accepted' = Accepted
      BY <2>1, <2>4 DEF Accepted
    <2>6. TaskInOnePlace'
      BY <2>1, <2>2, <2>4, <2>5 DEF TaskInv, TaskInOnePlace, Accepted
    <2> QED
      BY <2>1, <2>6 DEF TaskInv, SubmittedOnce
  <1>10. ASSUME NEW t \in ThreadIds,
                \/ WorkerExits(t) \/ WorkerWaits(t) \/ WorkerSpuriousWake(t)
                \/ WorkerTimeout(t) \/ WorkerReclaimed(t)
         PROVE  TaskInv'
    BY <1>10, NoTaskMoves DEF WorkerExits, Exits, WorkerWaits, WorkerSpuriousWake,
       WorkerTimeout, WorkerReclaimed, Leaves, AboutToTest
  <1>11. CASE UNCHANGED vars
    BY <1>11, NoTaskMoves DEF vars
  <1> QED
    BY <1>1, <1>2, <1>3, <1>4, <1>5, <1>6, <1>7, <1>8, <1>9, <1>10, <1>11,
       NextActions

-----------------------------------------------------------------------------
LEMMA PoolInvAlways == Spec => []PoolInv
  <1>1. Init => PoolInv
    <2> SUFFICES ASSUME Init PROVE PoolInv
      OBVIOUS
    <2>1. TypeOK /\ ControlInv
      BY TypeInit
    <2>2. MapInv /\ CountInv
      BY DEF Init, MapInv, CountInv
    <2>3. QueueBounded /\ NobodyForgotten
      BY DEF Init, QueueBounded, NobodyForgotten, TaskMaxThreshHold
    <2>4. QueuedTasks = {} /\ RunningTasks = {}
      BY DEF Init, QueuedTasks, RunningTasks
    <2>5. TaskInv
      BY <2>4 DEF Init, TaskInv, TaskInOnePlace, SubmittedOnce, Accepted
    <2> QED
      BY <2>1, <2>2, <2>3, <2>5 DEF PoolInv
  <1>2. PoolInv /\ [Next]_vars => PoolInv'
    BY TypeStep, ControlStep, SleepStep, MapStep, CountStep, TaskStep DEF PoolInv
  <1> QED
    BY <1>1, <1>2, PTL DEF Spec

(* notEmpty_ and notFull_: for any number of submitters, workers and tasks *)
(* and any thresholds, no worker sleeps while a task waits and no          *)
(* submitter while there is room.                                          *)
THEOREM NobodySleepsOnWork == Spec => []NobodyForgotten
  <1>1. PoolInv => NobodyForgotten
    BY DEF PoolInv
  <1> QED
    BY <1>1, PoolInvAlways, PTL

(* submitTask and threadFunc: a task is never queued twice, run by two     *)
(* workers, run again, or run after it was refused.                        *)
THEOREM TasksUnique == Spec => []TaskInOnePlace
  <1>1. PoolInv => TaskInOnePlace
    BY DEF PoolInv, TaskInv
  <1> QED
    BY <1>1, PoolInvAlways, PTL

(* curThreadSize_, idleThreadSize_ and threads_ agree while the pool runs, *)
(* and stay between the initial number of threads and the threshold; the   *)
(* queue keeps to its limit.                                               *)
THEOREM CountersAgree == Spec => []CountersExact
  <1>1. ASSUME PoolInv PROVE CountersExact
    <2>1. ownerPc = "running" =>
              /\ threads = LiveThreads
              /\ IdleThreads = {t \in threads : pc[t] # "run"}
      BY <1>1 DEF PoolInv, MapInv, LiveThreads, IdleThreads
    <2> QED
      BY <1>1, <2>1 DEF PoolInv, CountersExact, QueueBounded, CountInv, LiveThreads
  <1> QED
    BY <1>1, PoolInvAlways, PTL

(* ~ThreadPool of a pool that was started with at least one thread: when   *)
(* it returns there is no worker, and no task that was not taken.  (With   *)
(* no initial thread the tasks of a fixed pool wait for nobody.)           *)
THEOREM DestructorLeavesNothing ==
    ASSUME InitThreads > 0
    PROVE  Spec => []DestroyedClean
  <1>1. ASSUME PoolInv PROVE DestroyedClean
    <2> SUFFICES ASSUME ownerPc = "destroyed"
                 PROVE  /\ \A t \in ThreadIds : pc[t] \in {"none", "exited"}
                        /\ taskQue = <<>>
      BY DEF DestroyedClean
    <2>1. LiveThreads = {}
      BY <1>1 DEF PoolInv, MapInv
    <2>2. Cardinality(LiveThreads) = 0
      BY <2>1, FS_EmptySet
    <2>3. taskQue = <<>>
      BY <1>1, <2>2, PoolAssumption DEF PoolInv, CountInv
    <2> QED
      BY <2>1, <2>3 DEF LiveThreads
  <1> QED
    BY <1>1, PoolInvAlways, PTL
=============================================================================
