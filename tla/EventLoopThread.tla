--------------------------- MODULE EventLoopThread ---------------------------
(***************************************************************************)
(* EventLoopThread (src/common/net/EventLoopThread.cc) with the EventLoop  *)
(* it runs: the owner calls startLoop() and, later, the destructor; the    *)
(* new thread builds an EventLoop on its stack, publishes its address in   *)
(* loop_, runs it, and takes the address back when loop() returns.         *)
(*                                                                         *)
(* The steps of the loop and of the threads that use it are EventLoop's.   *)
(* The owner is one of those threads: its quit() is a store to quit_ and,  *)
(* as a second step, a wakeup().  What the clients do is chosen at first.   *)
(***************************************************************************)
EXTENDS Naturals, Sequences, FiniteSets

CONSTANTS
    Callers, Functors,  \* of EventLoop
    Owner,      \* the thread that owns the EventLoopThread, one of Callers
    Freedoms    \* what clients may do, of the following:
                \* "initQueues": the ThreadInitCallback queues on the new loop
                \* "selfQuits": callbacks on the new thread call quit()
                \* "dtorEarly": the destructor may run before loop() is past
                \*              its reset of quit_

ASSUME ThreadAssumption ==
    /\ Owner \in Callers
    /\ Freedoms \subseteq {"initQueues", "selfQuits", "dtorEarly"}

VARIABLES
    \* of EventLoop
    pc, looping, quit, calling, wakeupFd, active, pending, batch, inCallback,
    callerPc, queued, executed, ranInPlace,
    \* of EventLoopThread
    ownerPc,     \* what the owner is doing
    threadPc,    \* where the new thread is in threadFunc
    loopPtr,     \* loop_ is not null
    client       \* the freedoms the clients make use of; does not change

loopVars == <<pc, looping, quit, calling, wakeupFd, active, pending, batch,
              inCallback, callerPc, queued, executed, ranInPlace>>
vars == <<loopVars, ownerPc, threadPc, loopPtr, client>>

Loop == INSTANCE EventLoop

(* The destructor ends in "destroyed", or in a call on an object that does  *)
(* not exist, after which its behaviour is undefined: quit() on a null or  *)
(* dead loop, or the wakeup() in quit() on a loop that died in between.    *)
OwnerPc == {"new", "test", "waiting", "started", "dtor", "reread", "quit",
            "wakeup", "join", "destroyed", "deadQuit", "deadWakeup"}
ThreadPc == {"none", "begin", "loop", "clear", "leave", "exited"}

(* The EventLoop object, a local variable of threadFunc, exists.           *)
LoopAlive == threadPc \in {"begin", "loop", "clear", "leave"}

Init ==
    /\ Loop!Init
    /\ ownerPc = "new"
    /\ threadPc = "none"
    /\ loopPtr = FALSE
    /\ client \in SUBSET Freedoms

-----------------------------------------------------------------------------
(* The owner.  startLoop() starts the thread and waits for its loop.       *)

StartThread ==
    /\ ownerPc = "new"
    /\ ownerPc' = "test"
    /\ threadPc' = "begin"
    /\ UNCHANGED <<loopVars, loopPtr, client>>

StartTest ==
    /\ ownerPc = "test"
    /\ ownerPc' = IF loopPtr THEN "started" ELSE "waiting"
    /\ UNCHANGED <<loopVars, threadPc, loopPtr, client>>

StartSpuriousWake ==
    /\ ownerPc = "waiting"
    /\ ownerPc' = "test"
    /\ UNCHANGED <<loopVars, threadPc, loopPtr, client>>

(* Nobody else uses the loop any more.  The object may never have been     *)
(* started.                                                                *)
DtorBegin ==
    /\ ownerPc \in {"new", "started"}
    /\ \A c \in Callers : callerPc[c] = "idle"
    /\ "dtorEarly" \in client \/ pc \notin {"init", "reset"} \/ ownerPc = "new"
    /\ ownerPc' = "dtor"
    /\ UNCHANGED <<loopVars, threadPc, loopPtr, client>>

(* loop_ is read without the lock, for the test and again for the call.    *)
(* When the test finds null nothing is joined: the member thread_ is       *)
(* detached.  Between the two reads, and before quit() stores to quit_,    *)
(* threadFunc may set loop_ to null and destroy the loop.                  *)
DtorTest ==
    /\ ownerPc = "dtor"
    /\ ownerPc' = IF loopPtr THEN "reread" ELSE "destroyed"
    /\ UNCHANGED <<loopVars, threadPc, loopPtr, client>>

DtorReread ==
    /\ ownerPc = "reread"
    /\ ownerPc' = IF loopPtr THEN "quit" ELSE "deadQuit"
    /\ UNCHANGED <<loopVars, threadPc, loopPtr, client>>

DtorQuit_Skipped ==
    /\ ownerPc = "quit"
    /\ ownerPc' = "join"
    /\ UNCHANGED <<loopVars, threadPc, loopPtr, client>>

DtorQuit ==
    /\ ownerPc = "quit"
    /\ \/ LoopAlive /\ Loop!Quit(Owner) /\ ownerPc' = "wakeup"
       \/ ~LoopAlive /\ ownerPc' = "deadQuit" /\ UNCHANGED loopVars
    /\ UNCHANGED <<threadPc, loopPtr, client>>

DtorWakeup ==
    /\ ownerPc = "wakeup"
    /\ \/ LoopAlive /\ Loop!Wakeup(Owner) /\ ownerPc' = "join"
       \/ ~LoopAlive /\ ownerPc' = "deadWakeup" /\ UNCHANGED loopVars
    /\ UNCHANGED <<threadPc, loopPtr, client>>

DtorJoin_Detaches ==
    /\ ownerPc = "join"
    /\ ownerPc' = "destroyed"
    /\ UNCHANGED <<loopVars, threadPc, loopPtr, client>>

DtorJoin ==
    /\ ownerPc = "join"
    /\ threadPc = "exited"
    /\ ownerPc' = "destroyed"
    /\ UNCHANGED <<loopVars, threadPc, loopPtr, client>>

-----------------------------------------------------------------------------
(* threadFunc.                                                             *)

(* callback_(&loop), on the loop's own thread and before loop(): the push  *)
(* is not followed by a wakeup().                                          *)
InitCallbackQueues(f) ==
    /\ "initQueues" \in client
    /\ threadPc = "begin" /\ Loop!Fresh(f)
    /\ pending' = Append(pending, f)
    /\ queued' = Append(queued, f)
    /\ UNCHANGED <<pc, looping, quit, calling, wakeupFd, active, batch,
                   inCallback, callerPc, executed, ranInPlace, ownerPc,
                   threadPc, loopPtr, client>>

Publish_NoNotify ==
    /\ threadPc = "begin"
    /\ loopPtr' = TRUE
    /\ threadPc' = "loop"
    /\ UNCHANGED <<loopVars, ownerPc, client>>

Publish ==
    /\ threadPc = "begin"
    /\ loopPtr' = TRUE
    /\ threadPc' = "loop"
    /\ ownerPc' = IF ownerPc = "waiting" THEN "test" ELSE ownerPc
    /\ UNCHANGED <<loopVars, client>>

LoopRuns ==
    /\ threadPc = "loop"
    /\ Loop!LoopThread
    /\ UNCHANGED <<ownerPc, threadPc, loopPtr, client>>

LoopReturns ==
    /\ threadPc = "loop"
    /\ pc = "stopped"
    /\ threadPc' = "clear"
    /\ UNCHANGED <<loopVars, ownerPc, loopPtr, client>>

ClearPtr_Forgotten ==
    /\ threadPc = "clear"
    /\ threadPc' = "leave"
    /\ UNCHANGED <<loopVars, ownerPc, loopPtr, client>>

ClearPtr ==
    /\ threadPc = "clear"
    /\ loopPtr' = FALSE
    /\ threadPc' = "leave"
    /\ UNCHANGED <<loopVars, ownerPc, client>>

(* threadFunc ends: mutex_ is released and loop is destroyed.              *)
ThreadExits ==
    /\ threadPc = "leave"
    /\ threadPc' = "exited"
    /\ UNCHANGED <<loopVars, ownerPc, loopPtr, client>>

-----------------------------------------------------------------------------
(* The users of the loop: callbacks on it, and the threads that got its    *)
(* address from startLoop().                                               *)

LoopEnvironment ==
    /\ threadPc = "loop"
    /\ \/ Loop!PollIO \/ Loop!PollTimeout
       \/ \E f \in Functors : Loop!CallbackQueueInLoop(f)
       \/ "selfQuits" \in client /\ Loop!CallbackQuit
    /\ UNCHANGED <<ownerPc, threadPc, loopPtr, client>>

CallerQueues(c, f) ==
    /\ ownerPc = "started"
    /\ LoopAlive
    /\ Loop!QueueInLoop(c, f)
    /\ UNCHANGED <<ownerPc, threadPc, loopPtr, client>>

(* Of a loop that a callback ended the object may be gone by now; what a   *)
(* caller then writes to is not followed.                                  *)
CallerWakes(c) ==
    /\ ownerPc = "started"
    /\ Loop!Wakeup(c)
    /\ UNCHANGED <<ownerPc, threadPc, loopPtr, client>>

OwnerStep ==
    \/ StartThread \/ StartTest \/ StartSpuriousWake
    \/ DtorBegin \/ DtorTest \/ DtorReread
    \/ DtorQuit \/ DtorWakeup \/ DtorJoin

ThreadFunc == Publish \/ LoopRuns \/ LoopReturns \/ ClearPtr \/ ThreadExits

DtorEnded == ownerPc \in {"destroyed", "deadQuit", "deadWakeup"}

Finished ==
    /\ DtorEnded
    /\ UNCHANGED vars

Next ==
    \/ OwnerStep
    \/ ThreadFunc
    \/ \E f \in Functors : InitCallbackQueues(f)
    \/ LoopEnvironment
    \/ \E c \in Callers : CallerWakes(c) \/ \E f \in Functors : CallerQueues(c, f)
    \/ Finished

(* Both threads run whenever they can; a caller that has pushed writes the *)
(* eventfd.  Poll timeouts and ready descriptors are not relied on.        *)
Fairness ==
    /\ WF_vars(StartTest) /\ WF_vars(DtorTest) /\ WF_vars(DtorReread)
    /\ WF_vars(DtorQuit) /\ WF_vars(DtorWakeup) /\ WF_vars(DtorJoin)
    /\ WF_vars(ThreadFunc)
    /\ \A c \in Callers : WF_vars(CallerWakes(c))

Spec == Init /\ [][Next]_vars /\ Fairness

-----------------------------------------------------------------------------
(* Both threads are at a line of their functions, and loop() has been      *)
(* entered or left only as far as threadFunc has.                          *)
TypeOK ==
    /\ Loop!TypeOK
    /\ ownerPc \in OwnerPc
    /\ threadPc \in ThreadPc
    /\ loopPtr \in BOOLEAN
    /\ threadPc \in {"none", "begin"} => pc = "init"
    /\ threadPc \in {"clear", "leave", "exited"} => pc = "stopped"

(* startLoop(), threadFunc and ~EventLoopThread: what loop_ points to is   *)
(* an EventLoop that still exists, whatever ended its loop(), and the      *)
(* destructor calls quit() on a null or dead loop only where a callback    *)
(* has made the loop end by itself.  (The wakeup() in that quit() may find *)
(* the loop gone whoever ended it.)                                        *)
PtrValid ==
    /\ TypeOK
    /\ loopPtr => threadPc \in {"loop", "clear"}
    /\ ownerPc = "deadQuit" => "selfQuits" \in client

(* ~EventLoopThread: when it has returned the thread is gone, so that it   *)
(* does not use mutex_ and loop_ of the destroyed object; for loops that   *)
(* only their owner ends.                                                  *)
DestroyedThreadGone ==
    ownerPc = "destroyed" /\ "selfQuits" \notin client
        => threadPc \in {"none", "exited"}

(* startLoop() returns: the notification is not missed whether the new     *)
(* thread publishes its loop before or after the owner looks for it.       *)
StartLoopReturns ==
    (ownerPc = "test" /\ "selfQuits" \notin client) ~> (ownerPc = "started")

(* ~EventLoopThread does not wait for ever: the quit() it sends ends the   *)
(* loop, and join() with it, for a loop that is past its reset of quit_.   *)
(* It may instead have called quit() or wakeup() on a loop that is gone.   *)
DtorReturns == (ownerPc = "dtor" /\ "dtorEarly" \notin client) ~> DtorEnded

(* The same for a destructor at any time after startLoop(): quit() "ends   *)
(* the event loop ... when it is called from a thread that is not the      *)
(* loop's" (EventLoop.cc:92).                                              *)
EarlyDtorReturns == (ownerPc = "dtor") ~> DtorEnded
=============================================================================
