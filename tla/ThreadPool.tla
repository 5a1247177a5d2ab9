----------------------------- MODULE ThreadPool -----------------------------
(***************************************************************************)
(* ThreadPool (src/common/base/ThreadPool.h, ThreadPool.cc): an owner that *)
(* configures, starts and destroys the pool, threads that submit tasks,    *)
(* and the workers that run threadFunc.                                    *)
(*                                                                         *)
(* taskQueMtx_ protects everything but the owner's store to isPoolRunning_ *)
(* and a worker's idleThreadSize_++ after a task, so each critical section *)
(* is one step; a wait on a condition variable ends one and being woken,   *)
(* timing out or waking spuriously comes before the next.  taskSize_       *)
(* changes with taskQue_ in the same critical sections and is its length.  *)
(* Clients submit between start() and the destructor.                      *)
(***************************************************************************)
EXTENDS Integers, Sequences, FiniteSets

CONSTANTS
    Submitters,      \* client threads
    Tasks,           \* what they submit; each is submitted at most once
    NoTask,
    Modes,           \* the PoolMode values setMode is called with
    QueMaxima,       \* values setTaskQueMaxThreshHold is called with
    ThreadMaxima,    \* values setThreadSizeThreshHold is called with
    InitThreads,     \* start()'s initThreadSize
    FirstThreadId,   \* Thread objects this process created before start()
    MaxThreadId      \* bound: no Thread object beyond this id is created

ASSUME PoolAssumption ==
    /\ NoTask \notin Tasks
    /\ Modes \subseteq {"FIXED", "CACHED"}
    /\ QueMaxima \subseteq Nat
    /\ ThreadMaxima \subseteq Nat
    /\ InitThreads \in Nat /\ FirstThreadId \in Nat /\ MaxThreadId \in Nat
    /\ FirstThreadId + InitThreads <= MaxThreadId + 1

ThreadIds == 0..MaxThreadId

VARIABLES
    mode,        \* poolMode_
    queMax,      \* taskQueMaxThreshHold_
    threadMax,   \* threadSizeThreshHold_
    running,     \* isPoolRunning_
    ownerPc,     \* the owner: constructed, started, in the destructor, ...
    nextId,      \* Thread::numCreated_ + 1
    threads,     \* the keys of threads_
    cur,         \* curThreadSize_
    idle,        \* idleThreadSize_
    taskQue,     \* taskQue_
    pc,          \* what each worker is doing
    task,        \* the task a worker took from the queue
    submitPc,    \* what each submitter is doing
    submitting,  \* the task a submitter is in submitTask with
    done,        \* history: tasks that have run
    rejected     \* history: tasks submitTask gave up on

configVars == <<mode, queMax, threadMax>>
countVars == <<nextId, threads, cur>>
submitVars == <<submitPc, submitting>>
historyVars == <<done, rejected>>
vars == <<mode, queMax, threadMax, running, ownerPc, nextId, threads, cur, idle,
          taskQue, pc, task, submitPc, submitting, done, rejected>>

WorkerPc == {"none", "acquire", "waiting", "timedout", "run", "exited"}
OwnerPc == {"new", "running", "crashed", "dtorLock", "dtorWait", "dtorCheck",
            "destroyed"}
SubmitPc == {"idle", "waiting", "woken", "timedout"}

QueuedTasks == {taskQue[i] : i \in DOMAIN taskQue}
RunningTasks == {task[t] : t \in {u \in ThreadIds : pc[u] = "run"}}
Accepted == QueuedTasks \cup RunningTasks \cup done

(* A task not handed to submitTask yet.                                    *)
Fresh(k) ==
    /\ k \notin Accepted \cup rejected
    /\ \A s \in Submitters : submitting[s] # k

(* TASK_MAX_THRESHHOLD and THREAD_MAX_THRESHHOLD: larger than anything the *)
(* bounded instances reach.                                                *)
TaskMaxThreshHold == 2147483647
ThreadMaxThreshHold == 1024

Init ==
    /\ mode = "FIXED"
    /\ queMax = TaskMaxThreshHold
    /\ threadMax = ThreadMaxThreshHold
    /\ running = FALSE
    /\ ownerPc = "new"
    /\ nextId = FirstThreadId
    /\ threads = {}
    /\ cur = 0
    /\ idle = 0
    /\ taskQue = <<>>
    /\ pc = [t \in ThreadIds |-> "none"]
    /\ task = [t \in ThreadIds |-> NoTask]
    /\ submitPc = [s \in Submitters |-> "idle"]
    /\ submitting = [s \in Submitters |-> NoTask]
    /\ done = {}
    /\ rejected = {}

-----------------------------------------------------------------------------
(* The owner.  The setters return early once the pool runs.                *)

SetMode(m) ==
    /\ ownerPc = "new" /\ ~running
    /\ mode' = m
    /\ UNCHANGED <<queMax, threadMax, running, ownerPc, countVars, idle,
                   taskQue, pc, task, submitVars, historyVars>>

SetTaskQueMaxThreshHold(n) ==
    /\ ownerPc = "new" /\ ~running
    /\ queMax' = n
    /\ UNCHANGED <<mode, threadMax, running, ownerPc, countVars, idle, taskQue,
                   pc, task, submitVars, historyVars>>

SetThreadSizeThreshHold(n) ==
    /\ ownerPc = "new" /\ ~running
    /\ mode = "CACHED"
    /\ threadMax' = n
    /\ UNCHANGED <<mode, queMax, running, ownerPc, countVars, idle, taskQue,
                   pc, task, submitVars, historyVars>>

(* start() files the new Thread objects under their process-wide ids and   *)
(* then starts threads_[0] to threads_[n-1]: an id in between that is not  *)
(* a key is a null shared_ptr, and start() through it crashes.  Nobody     *)
(* submits before start() returns, so its steps are one.                   *)
Start ==
    LET created == FirstThreadId .. (FirstThreadId + InitThreads - 1)
        started == 0 .. (InitThreads - 1)
    IN  /\ ownerPc = "new"
        /\ running' = TRUE
        /\ nextId' = nextId + InitThreads
        /\ cur' = InitThreads
        /\ threads' = created
        /\ ownerPc' = IF started \subseteq created THEN "running" ELSE "crashed"
        /\ pc' = [t \in ThreadIds |-> IF t \in started \cap created
                                      THEN "acquire" ELSE pc[t]]
        /\ idle' = Cardinality(started \cap created)
        /\ UNCHANGED <<configVars, taskQue, task, submitVars, historyVars>>

(* ~ThreadPool, before it takes the lock.  No submitTask is under way.     *)
DtorBegin ==
    /\ ownerPc = "running"
    /\ \A s \in Submitters : submitPc[s] = "idle"
    /\ running' = FALSE
    /\ ownerPc' = "dtorLock"
    /\ UNCHANGED <<configVars, countVars, idle, taskQue, pc, task, submitVars,
                   historyVars>>

(* What exitCond_.wait's predicate makes of the threads that are left.     *)
DtorTest == IF threads = {} THEN "destroyed" ELSE "dtorWait"

(* notEmpty_.notify_all: every waiting worker goes for the lock.           *)
NotifyNotEmpty(p) ==
    [t \in ThreadIds |-> IF p[t] = "waiting" THEN "acquire" ELSE p[t]]

DtorLocks(p) ==
    /\ ownerPc = "dtorLock"
    /\ pc' = p
    /\ ownerPc' = DtorTest
    /\ UNCHANGED <<configVars, running, countVars, idle, taskQue, task,
                   submitVars, historyVars>>

DtorLock_NoNotify == DtorLocks(pc)

DtorLock == DtorLocks(NotifyNotEmpty(pc))

DtorCheck ==
    /\ ownerPc = "dtorCheck"
    /\ ownerPc' = DtorTest
    /\ UNCHANGED <<configVars, running, countVars, idle, taskQue, pc, task,
                   submitVars, historyVars>>

DtorSpuriousWake ==
    /\ ownerPc = "dtorWait"
    /\ ownerPc' = "dtorCheck"
    /\ UNCHANGED <<configVars, running, countVars, idle, taskQue, pc, task,
                   submitVars, historyVars>>

-----------------------------------------------------------------------------
(* submitTask.                                                             *)

SubmitCalls(s, k) ==
    /\ ownerPc = "running"
    /\ submitPc[s] = "idle" /\ Fresh(k)
    /\ submitting' = [submitting EXCEPT ![s] = k]
    /\ submitPc' = [submitPc EXCEPT ![s] = "woken"]
    /\ UNCHANGED <<configVars, running, ownerPc, countVars, idle, taskQue, pc,
                   task, historyVars>>

(* cached mode, more tasks than idle workers, and room for another one:    *)
(* the number of Thread objects this submitTask creates.                   *)
Grow == IF /\ mode = "CACHED"
           /\ Len(taskQue) + 1 > idle
           /\ cur < threadMax
        THEN 1 ELSE 0

(* The task goes to the queue; p is where notEmpty_ leaves the workers.    *)
Enqueues(s, p) ==
    /\ submitPc[s] \in {"woken", "timedout"}
    /\ Len(taskQue) < queMax
    /\ nextId + Grow <= MaxThreadId + 1
    /\ taskQue' = Append(taskQue, submitting[s])
    /\ pc' = [t \in ThreadIds |-> IF t \in nextId .. (nextId + Grow - 1)
                                  THEN "acquire" ELSE p[t]]
    /\ threads' = threads \cup (nextId .. (nextId + Grow - 1))
    /\ nextId' = nextId + Grow
    /\ cur' = cur + Grow
    /\ idle' = idle + Grow
    /\ submitPc' = [submitPc EXCEPT ![s] = "idle"]
    /\ submitting' = [submitting EXCEPT ![s] = NoTask]
    /\ UNCHANGED <<configVars, running, ownerPc, task, historyVars>>

SubmitEnqueue_NoNotify(s) == Enqueues(s, pc)

SubmitEnqueue(s) == Enqueues(s, NotifyNotEmpty(pc))

SubmitWaits(s) ==
    /\ submitPc[s] = "woken"
    /\ Len(taskQue) >= queMax
    /\ submitPc' = [submitPc EXCEPT ![s] = "waiting"]
    /\ UNCHANGED <<configVars, running, ownerPc, countVars, idle, taskQue, pc,
                   task, submitting, historyVars>>

StopsWaiting(s, as) ==
    /\ submitPc[s] = "waiting"
    /\ submitPc' = [submitPc EXCEPT ![s] = as]
    /\ UNCHANGED <<configVars, running, ownerPc, countVars, idle, taskQue, pc,
                   task, submitting, historyVars>>

SubmitTimeout_RestartsWait(s) == StopsWaiting(s, "woken")

(* The second of notFull_.wait_for is over.                                *)
SubmitTimeout(s) == StopsWaiting(s, "timedout")

SubmitSpuriousWake(s) == StopsWaiting(s, "woken")

SubmitRejects(s) ==
    /\ submitPc[s] = "timedout"
    /\ Len(taskQue) >= queMax
    /\ rejected' = rejected \cup {submitting[s]}
    /\ submitPc' = [submitPc EXCEPT ![s] = "idle"]
    /\ submitting' = [submitting EXCEPT ![s] = NoTask]
    /\ UNCHANGED <<configVars, running, ownerPc, countVars, idle, taskQue, pc,
                   task, done>>

-----------------------------------------------------------------------------
(* threadFunc.  A worker that has been woken, has timed out, has just been *)
(* started or has finished a task is about to take the lock and test the   *)
(* queue.                                                                  *)

AboutToTest(t) == pc[t] \in {"acquire", "timedout"}

(* notFull_.notify_all: every waiting submitter goes for the lock.         *)
NotifyNotFull ==
    [s \in Submitters |-> IF submitPc[s] = "waiting" THEN "woken" ELSE submitPc[s]]

Takes(t, rest) ==
    /\ AboutToTest(t)
    /\ taskQue # <<>>
    /\ idle' = idle - 1
    /\ taskQue' = rest
    /\ task' = [task EXCEPT ![t] = Head(taskQue)]
    /\ pc' = [(IF Len(taskQue) > 1 THEN NotifyNotEmpty(pc) ELSE pc)
                 EXCEPT ![t] = "run"]
    /\ submitPc' = NotifyNotFull
    /\ UNCHANGED <<configVars, running, ownerPc, countVars, submitting,
                   historyVars>>

WorkerTakes_NoPop(t) == Takes(t, taskQue)

WorkerTakes(t) == Takes(t, Tail(taskQue))

WorkerFinishes(t) ==
    /\ pc[t] = "run"
    /\ done' = done \cup {task[t]}
    /\ task' = [task EXCEPT ![t] = NoTask]
    /\ idle' = idle + 1
    /\ pc' = [pc EXCEPT ![t] = "acquire"]
    /\ UNCHANGED <<configVars, running, ownerPc, countVars, taskQue,
                   submitVars, rejected>>

(* exitCond_.notify_all wakes the owner if it waits in the destructor.     *)
NotifyExit == IF ownerPc = "dtorWait" THEN "dtorCheck" ELSE ownerPc

Exits(t) ==
    /\ AboutToTest(t)
    /\ ~running
    /\ threads' = threads \ {t}
    /\ ownerPc' = NotifyExit
    /\ pc' = [pc EXCEPT ![t] = "exited"]
    /\ UNCHANGED <<configVars, running, nextId, cur, idle, taskQue, task,
                   submitVars, historyVars>>

WorkerExits_IgnoresQueue(t) == Exits(t)

WorkerExits(t) == taskQue = <<>> /\ Exits(t)

WorkerWaits(t) ==
    /\ AboutToTest(t)
    /\ taskQue = <<>>
    /\ running
    /\ pc' = [pc EXCEPT ![t] = "waiting"]
    /\ UNCHANGED <<configVars, running, ownerPc, countVars, idle, taskQue,
                   task, submitVars, historyVars>>

WorkerSpuriousWake(t) ==
    /\ pc[t] = "waiting"
    /\ pc' = [pc EXCEPT ![t] = "acquire"]
    /\ UNCHANGED <<configVars, running, ownerPc, countVars, idle, taskQue,
                   task, submitVars, historyVars>>

(* notEmpty_.wait_for's second is over; the worker still needs the lock.   *)
WorkerTimeout(t) ==
    /\ mode = "CACHED"
    /\ pc[t] = "waiting"
    /\ pc' = [pc EXCEPT ![t] = "timedout"]
    /\ UNCHANGED <<configVars, running, ownerPc, countVars, idle, taskQue,
                   task, submitVars, historyVars>>

Leaves(t) ==
    /\ pc[t] = "timedout"
    /\ threads' = threads \ {t}
    /\ cur' = cur - 1
    /\ idle' = idle - 1
    /\ pc' = [pc EXCEPT ![t] = "exited"]
    /\ UNCHANGED <<configVars, running, ownerPc, nextId, taskQue, task,
                   submitVars, historyVars>>

WorkerReclaimed_NoLimit(t) == Leaves(t)

(* It timed out, has had nothing to do for THREAD_MAX_IDLE_TIME, and the   *)
(* pool has more than its initial workers: it leaves without looking at    *)
(* the queue and without a word to exitCond_.                              *)
WorkerReclaimed(t) == cur > InitThreads /\ Leaves(t)

-----------------------------------------------------------------------------
Owner ==
    \/ \E m \in Modes : SetMode(m)
    \/ \E n \in QueMaxima : SetTaskQueMaxThreshHold(n)
    \/ \E n \in ThreadMaxima : SetThreadSizeThreshHold(n)
    \/ Start \/ DtorBegin \/ DtorLock \/ DtorCheck \/ DtorSpuriousWake

Submitter(s) ==
    \/ \E k \in Tasks : SubmitCalls(s, k)
    \/ SubmitEnqueue(s) \/ SubmitWaits(s) \/ SubmitTimeout(s)
    \/ SubmitSpuriousWake(s) \/ SubmitRejects(s)

Worker(t) ==
    \/ WorkerTakes(t) \/ WorkerFinishes(t) \/ WorkerExits(t) \/ WorkerWaits(t)
    \/ WorkerSpuriousWake(t) \/ WorkerTimeout(t) \/ WorkerReclaimed(t)

(* The pool is gone, or start() has crashed.                               *)
Finished ==
    /\ ownerPc \in {"destroyed", "crashed"}
    /\ UNCHANGED vars

Next ==
    \/ Owner
    \/ \E s \in Submitters : Submitter(s)
    \/ \E t \in ThreadIds : Worker(t)
    \/ Finished

(* Threads that can run do, tasks return, and notFull_.wait_for's deadline *)
(* passes however often the submitter is woken before it.  Nothing forces  *)
(* a call, a spurious wakeup, a worker's timeout or a reclaim.             *)
Fairness ==
    /\ WF_vars(DtorLock) /\ WF_vars(DtorCheck)
    /\ \A s \in Submitters :
          /\ WF_vars(SubmitEnqueue(s) \/ SubmitWaits(s) \/ SubmitRejects(s))
          /\ SF_vars(SubmitTimeout(s))
    /\ \A t \in ThreadIds :
          /\ WF_vars(WorkerTakes(t) \/ WorkerExits(t) \/ WorkerWaits(t))
          /\ WF_vars(WorkerFinishes(t))

Spec == Init /\ [][Next]_vars /\ Fairness

-----------------------------------------------------------------------------
(* The counters are integers, the map's keys are thread ids, every thread  *)
(* is at a line of its function.                                           *)
TypeOK ==
    /\ mode \in {"FIXED", "CACHED"}
    /\ queMax \in Nat /\ threadMax \in Nat
    /\ running \in BOOLEAN
    /\ ownerPc \in OwnerPc
    /\ nextId \in 0..(MaxThreadId + 1)
    /\ threads \subseteq ThreadIds
    /\ cur \in Int /\ idle \in Int
    /\ taskQue \in Seq(Tasks)
    /\ pc \in [ThreadIds -> WorkerPc]
    /\ task \in [ThreadIds -> Tasks \cup {NoTask}]
    /\ submitPc \in [Submitters -> SubmitPc]
    /\ submitting \in [Submitters -> Tasks \cup {NoTask}]
    /\ done \subseteq Tasks
    /\ rejected \subseteq Tasks

(* notEmpty_ and notFull_: no worker is asleep while a task waits in the   *)
(* queue, and no submitter while the queue has room, however submissions,  *)
(* wakeups and timeouts interleave.                                        *)
NobodyForgotten ==
    /\ taskQue # <<>> => \A t \in ThreadIds : pc[t] # "waiting"
    /\ Len(taskQue) < queMax => \A s \in Submitters : submitPc[s] # "waiting"

(* A task is in one place only: not submitted, in one submitTask, once in  *)
(* the queue, in one worker's hands, run, or refused.                      *)
TaskInOnePlace ==
    /\ \A i, j \in DOMAIN taskQue : taskQue[i] = taskQue[j] => i = j
    /\ \A t, u \in ThreadIds :
          pc[t] = "run" /\ pc[u] = "run" /\ task[t] = task[u] => t = u
    /\ QueuedTasks \cap RunningTasks = {}
    /\ (QueuedTasks \cup RunningTasks) \cap done = {}
    /\ Accepted \cap rejected = {}
    /\ \A s \in Submitters : submitting[s] \notin Accepted \cup rejected

(* curThreadSize_, idleThreadSize_ and threads_: while the pool runs, the  *)
(* two counters are the number of workers and of workers without a task,   *)
(* although start(), submitTask, and a worker's timeout each update them;  *)
(* reclaiming stops at the initial number and growth at the threshold.     *)
(* The queue keeps to its limit, with several submitters past the wait.    *)
CountersExact ==
    /\ TypeOK
    /\ Len(taskQue) <= queMax
    /\ ownerPc = "running" =>
        /\ threads = {t \in ThreadIds : pc[t] \notin {"none", "exited"}}
        /\ cur = Cardinality(threads)
        /\ idle = Cardinality({t \in threads : pc[t] # "run"})
        /\ cur >= InitThreads
        /\ cur <= InitThreads \/ cur <= threadMax

(* ~ThreadPool: when the destructor has returned no worker is left to      *)
(* touch the destroyed members, and every task that was accepted has run   *)
(* ("all tasks must have been executed before the pool may reclaim its     *)
(* threads", ThreadPool.cc:108).                                           *)
DestroyedClean ==
    ownerPc = "destroyed" =>
        /\ \A t \in ThreadIds : pc[t] \in {"none", "exited"}
        /\ taskQue = <<>>

(* submitTask and threadFunc: a task that is submitted runs, or submitTask *)
(* gives up on it when its second is over.                                 *)
SubmittedIsAnswered ==
    \A k \in Tasks :
        (\E s \in Submitters : submitting[s] = k) ~> (k \in done \cup rejected)

(* ~ThreadPool returns in fixed mode: every worker that waits, or is about *)
(* to, sees isPoolRunning_ and notifies exitCond_.                         *)
FixedDestructorReturns ==
    (ownerPc = "dtorLock" /\ mode = "FIXED") ~> (ownerPc = "destroyed")

(* ~ThreadPool waits for all threads to return (ThreadPool.cc:41), and     *)
(* returns itself, in either mode.                                         *)
DestructorReturns == (ownerPc = "dtorLock") ~> (ownerPc = "destroyed")
=============================================================================
