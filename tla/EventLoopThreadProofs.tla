------------------------ MODULE EventLoopThreadProofs ------------------------
(***************************************************************************)
(* Proofs about EventLoopThread, for any callers and functors and whatever *)
(* the clients make use of: loop_ never points to a loop that is gone, and *)
(* ~EventLoopThread leaves no thread behind.                               *)
(***************************************************************************)
EXTENDS EventLoopThread, TLAPS

(* The steps of the loop's own thread and of the callbacks on it, but for  *)
(* a quit() in a callback; and with it.                                    *)
NoQuitStep ==
    \/ Loop!LoopThread \/ Loop!PollIO \/ Loop!PollTimeout
    \/ \E f \in Functors : Loop!CallbackQueueInLoop(f)

LoopStep == NoQuitStep \/ Loop!CallbackQuit

-----------------------------------------------------------------------------
(* The loop's types.                                                       *)

LEMMA LoopTypeInit == Loop!Init => Loop!TypeOK
  <1> SUFFICES ASSUME Loop!Init PROVE Loop!TypeOK
    OBVIOUS
  <1>1. callerPc \in [Callers -> {"idle", "wakeup"}]
    BY DEF Loop!Init
  <1>2. /\ pending \in Seq(Functors) /\ batch \in Seq(Functors)
        /\ queued \in Seq(Functors) /\ executed \in Seq(Functors)
    BY DEF Loop!Init
  <1> QED
    BY <1>1, <1>2 DEF Loop!Init, Loop!TypeOK, Loop!LoopPc

LEMMA LoopTypeStep == Loop!TypeOK /\ LoopStep => Loop!TypeOK'
  <1> SUFFICES ASSUME Loop!TypeOK, LoopStep PROVE Loop!TypeOK'
    OBVIOUS
  <1> USE DEF Loop!TypeOK, Loop!LoopPc
  <1>1. CASE Loop!LoopEnter BY <1>1 DEF Loop!LoopEnter
  <1>2. CASE Loop!ResetQuit BY <1>2 DEF Loop!ResetQuit
  <1>3. CASE Loop!WhileTest BY <1>3 DEF Loop!WhileTest
  <1>4. ASSUME NEW io \in BOOLEAN, Loop!PollReturn(io) PROVE Loop!TypeOK'
    BY <1>4 DEF Loop!PollReturn
  <1>5. CASE Loop!HandleWakeup BY <1>5 DEF Loop!HandleWakeup
  <1>6. CASE Loop!HandleIO BY <1>6 DEF Loop!HandleIO
  <1>7. CASE Loop!HandleDone BY <1>7 DEF Loop!HandleDone
  <1>8. CASE Loop!StartCalling BY <1>8 DEF Loop!StartCalling
  <1>9. CASE Loop!SwapPending BY <1>9 DEF Loop!SwapPending
  <1>10. CASE Loop!RunFunctor BY <1>10 DEF Loop!RunFunctor
  <1>11. CASE Loop!RunDone BY <1>11 DEF Loop!RunDone
  <1>12. CASE Loop!CallbackReturn BY <1>12 DEF Loop!CallbackReturn
  <1>13. ASSUME NEW f \in Functors, Loop!CallbackQueueInLoop(f) PROVE Loop!TypeOK'
    BY <1>13 DEF Loop!CallbackQueueInLoop
  <1>14. CASE Loop!CallbackQuit BY <1>14 DEF Loop!CallbackQuit
  <1> QED
    BY <1>1, <1>2, <1>3, <1>4, <1>5, <1>6, <1>7, <1>8, <1>9, <1>10, <1>11,
       <1>12, <1>13, <1>14
       DEF LoopStep, NoQuitStep, Loop!LoopThread, Loop!PollWakeup, Loop!PollIO,
           Loop!PollTimeout

(* Only a quit in a callback sets quit_, and only quit_ stops the loop.    *)
LEMMA LoopStepQuits ==
    ASSUME Loop!TypeOK, NoQuitStep
    PROVE  /\ quit' => quit
           /\ pc' = "stopped" => quit \/ pc = "stopped"
  BY DEF NoQuitStep, Loop!TypeOK, Loop!LoopThread, Loop!LoopEnter, Loop!ResetQuit,
         Loop!WhileTest, Loop!PollWakeup, Loop!PollIO, Loop!PollTimeout,
         Loop!PollReturn, Loop!HandleWakeup, Loop!HandleIO, Loop!HandleDone,
         Loop!StartCalling, Loop!SwapPending, Loop!RunFunctor, Loop!RunDone,
         Loop!CallbackReturn, Loop!CallbackQueueInLoop

-----------------------------------------------------------------------------
(* The owner's progress and the new thread's.  loop_ is set exactly from   *)
(* Publish to ClearPtr.                                                    *)
OwnerInv ==
    /\ ownerPc = "new" => threadPc = "none"
    /\ threadPc = "none" => ownerPc \in {"new", "dtor", "destroyed"}
    /\ loopPtr <=> threadPc \in {"loop", "clear"}

(* A loop that only its owner ends: quit_ is not set before the destructor *)
(* does it, so the loop runs and loop_ is set when the destructor looks,   *)
(* and the destructor goes on to join().                                   *)
QuitInv ==
    "selfQuits" \notin client =>
        /\ quit \/ pc = "stopped"
             => ownerPc \in {"wakeup", "join", "destroyed", "deadWakeup"}
        /\ ownerPc \in {"started", "reread", "quit"} => loopPtr
        /\ ownerPc # "deadQuit"
        /\ ownerPc = "dtor" => threadPc = "none" \/ loopPtr

ThreadInv == PtrValid /\ OwnerInv /\ QuitInv /\ DestroyedThreadGone

LEMMA ThreadInvInit == Init => ThreadInv
  <1> SUFFICES ASSUME Init PROVE ThreadInv
    OBVIOUS
  <1>1. TypeOK
    BY LoopTypeInit DEF Init, TypeOK, OwnerPc, ThreadPc, Loop!Init
  <1> QED
    BY <1>1 DEF Init, ThreadInv, PtrValid, OwnerInv, QuitInv,
                DestroyedThreadGone, Loop!Init

(* The steps of the owner and of threadFunc that leave the loop alone.     *)
LEMMA FrameStep ==
    ASSUME ThreadInv, UNCHANGED <<loopVars, client>>,
           StartThread \/ StartTest \/ StartSpuriousWake \/ DtorBegin \/ DtorTest
             \/ DtorReread \/ DtorJoin \/ Publish \/ LoopReturns \/ ClearPtr \/ ThreadExits
             \/ UNCHANGED vars
    PROVE  ThreadInv'
  <1> USE DEF ThreadInv, PtrValid, TypeOK, OwnerPc, ThreadPc
  <1>0. Loop!TypeOK'
    BY DEF loopVars, Loop!TypeOK
  <1>1. UNCHANGED <<pc, quit, client>>
    BY DEF loopVars
  <1> USE <1>0, <1>1
  <1>2. PtrValid' /\ OwnerInv'
    <2>1. CASE StartThread \/ StartTest \/ StartSpuriousWake \/ DtorBegin
      BY <2>1 DEF StartThread, StartTest, StartSpuriousWake, DtorBegin, OwnerInv
    <2>2. CASE DtorTest \/ DtorReread \/ DtorJoin
      BY <2>2 DEF DtorTest, DtorReread, DtorJoin, OwnerInv, QuitInv
    <2>3. CASE Publish
      BY <2>3 DEF Publish, OwnerInv
    <2>4. CASE ClearPtr
      BY <2>4 DEF ClearPtr, OwnerInv
    <2>5. CASE LoopReturns \/ ThreadExits \/ UNCHANGED vars
      BY <2>5 DEF LoopReturns, ThreadExits, vars, OwnerInv
    <2> QED
      BY <2>1, <2>2, <2>3, <2>4, <2>5
  <1>3. QuitInv'
    <2>1. CASE StartThread \/ StartTest \/ StartSpuriousWake \/ DtorBegin
      BY <2>1 DEF StartThread, StartTest, StartSpuriousWake, DtorBegin, OwnerInv,
                  QuitInv
    <2>2. CASE DtorTest \/ DtorReread \/ DtorJoin
      BY <2>2 DEF DtorTest, DtorReread, DtorJoin, OwnerInv, QuitInv
    <2>3. CASE Publish \/ LoopReturns \/ ClearPtr \/ ThreadExits \/ UNCHANGED vars
      BY <2>3 DEF Publish, LoopReturns, ClearPtr, ThreadExits, vars, OwnerInv,
                  QuitInv
    <2> QED
      BY <2>1, <2>2, <2>3
  <1>4. DestroyedThreadGone'
    BY DEF StartThread, StartTest, StartSpuriousWake, DtorBegin, DtorTest,
           DtorReread, DtorJoin, Publish, LoopReturns, ClearPtr, ThreadExits, vars, OwnerInv,
           QuitInv, DestroyedThreadGone
  <1> QED
    BY <1>2, <1>3, <1>4

LEMMA ThreadInvStep == ThreadInv /\ [Next]_vars => ThreadInv'
  <1> SUFFICES ASSUME ThreadInv, [Next]_vars PROVE ThreadInv'
    OBVIOUS
  <1>0. Owner \in Callers
    BY ThreadAssumption
  <1> USE DEF ThreadInv, PtrValid, TypeOK
  <1>1. CASE StartThread \/ StartTest \/ StartSpuriousWake \/ DtorBegin \/ DtorTest
               \/ DtorReread \/ DtorJoin \/ Publish \/ LoopReturns \/ ClearPtr \/ ThreadExits
               \/ UNCHANGED vars
    <2>1. UNCHANGED <<loopVars, client>>
      BY <1>1 DEF StartThread, StartTest, StartSpuriousWake, DtorBegin, DtorTest,
                  DtorReread, DtorJoin, Publish, LoopReturns, ClearPtr, ThreadExits, vars
    <2> QED
      BY <1>1, <2>1, FrameStep
  <1>2. CASE DtorQuit
    <2>1. CASE LoopAlive /\ Loop!Quit(Owner) /\ ownerPc' = "wakeup"
      <3>1. Loop!TypeOK'
        BY <1>0, <2>1 DEF Loop!Quit, Loop!TypeOK
      <3> QED
        BY <1>2, <2>1, <3>1 DEF DtorQuit, Loop!Quit, OwnerPc, OwnerInv, QuitInv,
                                DestroyedThreadGone
    <2>2. CASE ~LoopAlive /\ ownerPc' = "deadQuit" /\ UNCHANGED loopVars
      <3>1. Loop!TypeOK' /\ UNCHANGED <<pc, quit>>
        BY <2>2 DEF loopVars, Loop!TypeOK
      <3>2. "selfQuits" \in client
        BY <1>2, <2>2 DEF DtorQuit, LoopAlive, OwnerInv, QuitInv
      <3> QED
        BY <1>2, <2>2, <3>1, <3>2 DEF DtorQuit, OwnerPc, OwnerInv, QuitInv,
                                      DestroyedThreadGone
    <2> QED
      BY <1>2, <2>1, <2>2 DEF DtorQuit
  <1>3. CASE DtorWakeup
    <2>1. CASE LoopAlive /\ Loop!Wakeup(Owner) /\ ownerPc' = "join"
      <3>1. Loop!TypeOK'
        BY <1>0, <2>1 DEF Loop!Wakeup, Loop!TypeOK
      <3> QED
        BY <1>3, <2>1, <3>1 DEF DtorWakeup, Loop!Wakeup, OwnerPc, OwnerInv,
                                QuitInv, DestroyedThreadGone
    <2>2. CASE ~LoopAlive /\ ownerPc' = "deadWakeup" /\ UNCHANGED loopVars
      <3>1. Loop!TypeOK' /\ UNCHANGED <<pc, quit>>
        BY <2>2 DEF loopVars, Loop!TypeOK
      <3> QED
        BY <1>3, <2>2, <3>1 DEF DtorWakeup, OwnerPc, OwnerInv, QuitInv,
                                DestroyedThreadGone
    <2> QED
      BY <1>3, <2>1, <2>2 DEF DtorWakeup
  <1>4. CASE LoopRuns \/ LoopEnvironment
    <2>1. /\ LoopStep /\ threadPc = "loop"
          /\ UNCHANGED <<ownerPc, threadPc, loopPtr, client>>
          /\ "selfQuits" \notin client => NoQuitStep
      BY <1>4 DEF LoopRuns, LoopEnvironment, LoopStep, NoQuitStep
    <2>2. Loop!TypeOK'
      BY <2>1, LoopTypeStep
    <2>3. (PtrValid /\ OwnerInv /\ DestroyedThreadGone)'
      BY <2>1, <2>2 DEF OwnerInv, DestroyedThreadGone
    <2>4. QuitInv'
      BY <2>1, LoopStepQuits DEF QuitInv
    <2> QED
      BY <2>3, <2>4
  <1>5. ASSUME NEW f \in Functors, InitCallbackQueues(f) PROVE ThreadInv'
    <2>1. Loop!TypeOK'
      BY <1>5 DEF InitCallbackQueues, Loop!TypeOK
    <2> QED
      BY <1>5, <2>1 DEF InitCallbackQueues, OwnerInv, QuitInv, DestroyedThreadGone
  <1>6. ASSUME NEW c \in Callers, CallerWakes(c) PROVE ThreadInv'
    <2>1. Loop!TypeOK'
      BY <1>6 DEF CallerWakes, Loop!Wakeup, Loop!TypeOK
    <2> QED
      BY <1>6, <2>1 DEF CallerWakes, Loop!Wakeup, OwnerInv, QuitInv,
                        DestroyedThreadGone
  <1>7. ASSUME NEW c \in Callers, NEW f \in Functors, CallerQueues(c, f)
        PROVE  ThreadInv'
    <2>1. Loop!TypeOK'
      BY <1>7 DEF CallerQueues, Loop!QueueInLoop, Loop!TypeOK
    <2> QED
      BY <1>7, <2>1 DEF CallerQueues, Loop!QueueInLoop, OwnerInv, QuitInv,
                        DestroyedThreadGone
  <1> QED
    BY <1>1, <1>2, <1>3, <1>4, <1>5, <1>6, <1>7
       DEF Next, OwnerStep, ThreadFunc, Finished

LEMMA ThreadInvAlways == Spec => []ThreadInv
  BY ThreadInvInit, ThreadInvStep, PTL DEF Spec

-----------------------------------------------------------------------------
(* startLoop(), threadFunc and ~EventLoopThread: loop_ is null or points   *)
(* to a loop that exists, for any callers and functors and whatever ended  *)
(* the loop, and the destructor calls quit() on no loop that is gone       *)
(* unless a callback ended it.                                             *)
THEOREM PointerValid == Spec => []PtrValid
  <1>1. ThreadInv => PtrValid
    BY DEF ThreadInv
  <1> QED
    BY <1>1, ThreadInvAlways, PTL

(* ~EventLoopThread: when it has returned, the thread of a loop that only  *)
(* its owner ends is gone, or was never started; also when the destructor  *)
(* comes before the loop's reset of quit_.                                 *)
THEOREM NoThreadLeft == Spec => []DestroyedThreadGone
  <1>1. ThreadInv => DestroyedThreadGone
    BY DEF ThreadInv
  <1> QED
    BY <1>1, ThreadInvAlways, PTL

-----------------------------------------------------------------------------
(* Every step of EventLoopThread is a step of its EventLoop or leaves it   *)
(* alone, except that the ThreadInitCallback may queue before loop().      *)
LEMMA LoopOrStutter ==
    [Next]_vars /\ "initQueues" \notin client => [Loop!Next]_(Loop!vars)
  <1> SUFFICES ASSUME [Next]_vars, "initQueues" \notin client
               PROVE  Loop!Next \/ UNCHANGED loopVars
    BY DEF Loop!vars, loopVars
  <1>0. Owner \in Callers
    BY ThreadAssumption
  <1>1. CASE OwnerStep
    <2>1. DtorQuit => Loop!Next \/ UNCHANGED loopVars
      BY <1>0 DEF DtorQuit, Loop!Next, Loop!CallerStep
    <2>2. DtorWakeup => Loop!Next \/ UNCHANGED loopVars
      BY <1>0 DEF DtorWakeup, Loop!Next, Loop!CallerStep
    <2> QED
      BY <1>1, <2>1, <2>2 DEF OwnerStep, StartThread, StartTest,
         StartSpuriousWake, DtorBegin, DtorTest, DtorReread, DtorJoin
  <1>2. CASE ThreadFunc
    BY <1>2 DEF ThreadFunc, Publish, LoopRuns, LoopReturns, ClearPtr, ThreadExits,
                Loop!Next
  <1>3. CASE LoopEnvironment
    BY <1>3 DEF LoopEnvironment, Loop!Next, Loop!Environment
  <1>4. ASSUME NEW c \in Callers, CallerWakes(c) PROVE Loop!Next
    BY <1>4 DEF CallerWakes, Loop!Next, Loop!CallerStep
  <1>5. ASSUME NEW c \in Callers, NEW f \in Functors, CallerQueues(c, f)
        PROVE  Loop!Next
    BY <1>5 DEF CallerQueues, Loop!Next, Loop!CallerStep
  <1> QED
    BY <1>1, <1>2, <1>3, <1>4, <1>5 DEF Next, InitCallbackQueues, Finished, vars

(* The loop of an EventLoopThread behaves as EventLoop says, with a        *)
(* destructor at any time and callbacks that quit: what EventLoopProofs    *)
(* shows of wakeups and of the order of functors holds of it, provided     *)
(* that the ThreadInitCallback queues nothing (a push of the loop's own    *)
(* thread before loop() has no wakeup).                                    *)
THEOREM RunsItsLoop ==
    Spec /\ "initQueues" \notin client => Loop!Init /\ [][Loop!Next]_(Loop!vars)
  <1>1. "initQueues" \notin client /\ [Next]_vars => ("initQueues" \notin client)'
    <2> SUFFICES ASSUME [Next]_vars PROVE client' = client
      OBVIOUS
    <2> QED
      BY DEF Next, OwnerStep, StartThread, StartTest, StartSpuriousWake, DtorBegin,
             DtorTest, DtorReread, DtorQuit, DtorWakeup, DtorJoin, ThreadFunc, Publish,
             LoopRuns, LoopReturns, ClearPtr, ThreadExits, InitCallbackQueues,
             LoopEnvironment, CallerWakes, CallerQueues, Finished, vars
  <1>2. Init => Loop!Init
    BY DEF Init
  <1> QED
    BY <1>1, <1>2, LoopOrStutter, PTL DEF Spec

-----------------------------------------------------------------------------
(* What EventLoopProofs shows of a loop, for the loop of the thread.       *)
LoopProofs == INSTANCE EventLoopProofs

(* The loop of threadFunc is the one EventLoopProofs speaks of: the two    *)
(* instances of EventLoop begin and step alike.                            *)
LEMMA SameLoop ==
    /\ Loop!Init => LoopProofs!Init
    /\ [Loop!Next]_(Loop!vars) => [LoopProofs!Next]_(LoopProofs!vars)
  <1>1. Loop!Init => LoopProofs!Init
    BY DEF Loop!Init, LoopProofs!Init
  <1>2. [Loop!Next]_(Loop!vars) => [LoopProofs!Next]_(LoopProofs!vars)
    BY DEF Loop!Next, Loop!LoopThread, Loop!Environment, Loop!CallerStep, Loop!LoopEnter,
         Loop!ResetQuit, Loop!WhileTest, Loop!PollWakeup, Loop!PollIO,
         Loop!PollTimeout, Loop!PollReturn, Loop!HandleWakeup, Loop!HandleIO,
         Loop!HandleDone, Loop!StartCalling, Loop!SwapPending, Loop!RunFunctor,
         Loop!RunDone, Loop!CallbackQueueInLoop, Loop!CallbackRunInLoop,
         Loop!CallbackQuit, Loop!CallbackReturn, Loop!QueueInLoop, Loop!Quit,
         Loop!Wakeup, Loop!Fresh, Loop!SeqRange, Loop!vars, LoopProofs!Next,
         LoopProofs!LoopThread, LoopProofs!Environment, LoopProofs!CallerStep,
         LoopProofs!LoopEnter, LoopProofs!ResetQuit, LoopProofs!WhileTest,
         LoopProofs!PollWakeup, LoopProofs!PollIO, LoopProofs!PollTimeout,
         LoopProofs!PollReturn, LoopProofs!HandleWakeup, LoopProofs!HandleIO,
         LoopProofs!HandleDone, LoopProofs!StartCalling, LoopProofs!SwapPending,
         LoopProofs!RunFunctor, LoopProofs!RunDone, LoopProofs!CallbackQueueInLoop,
         LoopProofs!CallbackRunInLoop, LoopProofs!CallbackQuit,
         LoopProofs!CallbackReturn, LoopProofs!QueueInLoop, LoopProofs!Quit,
         LoopProofs!Wakeup, LoopProofs!Fresh, LoopProofs!SeqRange, LoopProofs!vars
  <1> QED
    BY <1>1, <1>2

(* EventLoopThread: from startLoop() to the destructor, which may come at  *)
(* any time, its loop does not sleep on a functor or on quit_, and runs    *)
(* the functors in their order, for any number of threads that push,       *)
(* provided that the ThreadInitCallback queues nothing.                    *)
THEOREM ThreadLoopSound ==
    Spec /\ "initQueues" \notin client =>
        [](Loop!NoLostWakeup /\ Loop!NoLostQuit /\ Loop!FifoOrder)
  <1> DEFINE I == LoopProofs!TypeOK /\ LoopProofs!WakeInv /\ LoopProofs!FifoOrder
  <1>1. Loop!Init => I
    BY SameLoop, LoopProofs!TypeInit, LoopProofs!WakeInit, LoopProofs!FifoInit
  <1>2. I /\ [Loop!Next]_(Loop!vars) => I'
    BY SameLoop, LoopProofs!TypeStep, LoopProofs!WakeStep, LoopProofs!FifoStep
  <1>3. I => Loop!NoLostWakeup /\ Loop!NoLostQuit /\ Loop!FifoOrder
    BY DEF LoopProofs!WakeInv, LoopProofs!WakeupInv, LoopProofs!NoLostQuit,
           LoopProofs!FifoOrder, LoopProofs!WakeupComing,
           Loop!NoLostWakeup, Loop!NoLostQuit, Loop!FifoOrder, Loop!WakeupComing
  <1> QED
    BY <1>1, <1>2, <1>3, RunsItsLoop, PTL
=============================================================================
