--------------------------- MODULE EventLoopProofs ---------------------------
(***************************************************************************)
(* Proofs about EventLoop, for any set of callers and any set of functors: *)
(* type correctness, no lost wakeup, no lost quit, FIFO order, and that    *)
(* the loop's steps are steps of SerialExecutor.                           *)
(***************************************************************************)
EXTENDS EventLoop, TLAPS

-----------------------------------------------------------------------------
(* Sequences.                                                              *)

(* Moving the head of the second sequence to the end of the first leaves   *)
(* the concatenation as it is.                                             *)
LEMMA MoveHead ==
    ASSUME NEW S, NEW e \in Seq(S), NEW b \in Seq(S), NEW p \in Seq(S),
           b # <<>>
    PROVE  Append(e, Head(b)) \o Tail(b) \o p = e \o b \o p
  OBVIOUS

(* Appending to the last of three sequences appends to their               *)
(* concatenation.                                                          *)
LEMMA AppendLast ==
    ASSUME NEW S, NEW e \in Seq(S), NEW b \in Seq(S), NEW p \in Seq(S),
           NEW f \in S
    PROVE  e \o b \o Append(p, f) = Append(e \o b \o p, f)
  OBVIOUS

(* Appending to the second of two sequences appends to both.               *)
LEMMA ConcatAppend ==
    ASSUME NEW S, NEW b \in Seq(S), NEW p \in Seq(S), NEW f \in S
    PROVE  b \o Append(p, f) = Append(b \o p, f)
  OBVIOUS

(* The head and the tail of a concatenation are those of its first part.   *)
LEMMA ConcatHeadTail ==
    ASSUME NEW S, NEW b \in Seq(S), NEW p \in Seq(S), b # <<>>
    PROVE  /\ b \o p # <<>>
           /\ Head(b \o p) = Head(b)
           /\ Tail(b \o p) = Tail(b) \o p
  OBVIOUS

-----------------------------------------------------------------------------
(* Expands Next into one disjunct per step.                                *)
LEMMA NextActions ==
    Next <=> \/ LoopEnter \/ ResetQuit \/ WhileTest
             \/ PollWakeup \/ PollIO \/ PollTimeout
             \/ HandleWakeup \/ HandleIO \/ HandleDone
             \/ StartCalling \/ SwapPending \/ RunFunctor \/ RunDone
             \/ \E f \in Functors : CallbackQueueInLoop(f)
             \/ \E f \in Functors : CallbackRunInLoop(f)
             \/ CallbackQuit \/ CallbackReturn
             \/ \E c \in Callers : \E f \in Functors : QueueInLoop(c, f)
             \/ \E c \in Callers : Quit(c)
             \/ \E c \in Callers : Wakeup(c)
  BY DEF Next, LoopThread, Environment, CallerStep

(* The three ways out of poll() differ in the active channels only.        *)
LEMMA PollActions ==
    PollWakeup \/ PollIO \/ PollTimeout => \E io \in BOOLEAN : PollReturn(io)
  BY DEF PollWakeup, PollIO, PollTimeout

-----------------------------------------------------------------------------
LEMMA TypeInit == Init => TypeOK
  <1> SUFFICES ASSUME Init PROVE TypeOK
    OBVIOUS
  <1>1. callerPc \in [Callers -> {"idle", "wakeup"}]
    BY DEF Init
  <1>2. /\ pending \in Seq(Functors) /\ batch \in Seq(Functors)
        /\ queued \in Seq(Functors) /\ executed \in Seq(Functors)
    BY DEF Init
  <1> QED
    BY <1>1, <1>2 DEF Init, TypeOK, LoopPc

LEMMA TypeStep == TypeOK /\ [Next]_vars => TypeOK'
  <1> SUFFICES ASSUME TypeOK, [Next]_vars PROVE TypeOK'
    OBVIOUS
  <1> USE DEF TypeOK, LoopPc
  <1>1. CASE LoopEnter BY <1>1 DEF LoopEnter
  <1>2. CASE ResetQuit BY <1>2 DEF ResetQuit
  <1>3. CASE WhileTest BY <1>3 DEF WhileTest
  <1>4. CASE PollWakeup \/ PollIO \/ PollTimeout
    <2>1. PICK io \in BOOLEAN : PollReturn(io)
      BY <1>4, PollActions
    <2> QED BY <2>1 DEF PollReturn
  <1>5. CASE HandleWakeup BY <1>5 DEF HandleWakeup
  <1>6. CASE HandleIO BY <1>6 DEF HandleIO
  <1>7. CASE HandleDone BY <1>7 DEF HandleDone
  <1>8. CASE StartCalling BY <1>8 DEF StartCalling
  <1>9. CASE SwapPending BY <1>9 DEF SwapPending
  <1>10. CASE RunFunctor BY <1>10 DEF RunFunctor
  <1>11. CASE RunDone BY <1>11 DEF RunDone
  <1>12. CASE \E f \in Functors : CallbackQueueInLoop(f)
    BY <1>12 DEF CallbackQueueInLoop
  <1>13. CASE \E f \in Functors : CallbackRunInLoop(f)
    BY <1>13 DEF CallbackRunInLoop
  <1>14. CASE CallbackQuit BY <1>14 DEF CallbackQuit
  <1>15. CASE CallbackReturn BY <1>15 DEF CallbackReturn
  <1>16. CASE \E c \in Callers : \E f \in Functors : QueueInLoop(c, f)
    BY <1>16 DEF QueueInLoop
  <1>17. CASE \E c \in Callers : Quit(c) BY <1>17 DEF Quit
  <1>18. CASE \E c \in Callers : Wakeup(c) BY <1>18 DEF Wakeup
  <1>19. CASE UNCHANGED vars BY <1>19 DEF vars
  <1> QED
    BY <1>1, <1>2, <1>3, <1>4, <1>5, <1>6, <1>7, <1>8, <1>9, <1>10, <1>11,
       <1>12, <1>13, <1>14, <1>15, <1>16, <1>17, <1>18, <1>19, NextActions

(* Type correctness of EventLoop, for any callers and functors.            *)
THEOREM TypeCorrect == Spec => []TypeOK
  BY TypeInit, TypeStep, PTL DEF Spec

-----------------------------------------------------------------------------
(* Where the loop is tells what its flags are: callingPendingFunctors_ is  *)
(* set exactly between lines 179 and 191, and a batch exists only while it *)
(* is being run.                                                           *)
ControlInv ==
    /\ calling <=> pc \in {"swap", "run"}
    /\ inCallback => pc \in {"handle", "run"}
    /\ batch # <<>> => pc = "run"

(* The inductive form of NoLostWakeup: outside the stretch from poll's     *)
(* return to the swap, which looks at pendingFunctors_ anyway, a pending   *)
(* functor has its wakeup.                                                 *)
WakeupInv ==
    pending # <<>> /\ pc \notin {"handle", "calling", "swap"} => WakeupComing

WakeInv == ControlInv /\ WakeupInv /\ NoLostQuit

LEMMA WakeInit == Init => WakeInv
  BY DEF Init, WakeInv, ControlInv, WakeupInv, NoLostQuit

LEMMA WakeStep == TypeOK /\ WakeInv /\ [Next]_vars => WakeInv'
  <1> SUFFICES ASSUME TypeOK, WakeInv, [Next]_vars PROVE WakeInv'
    OBVIOUS
  <1> USE DEF TypeOK, LoopPc, WakeInv, ControlInv, WakeupInv, NoLostQuit,
              WakeupComing
  <1>1. CASE LoopEnter BY <1>1 DEF LoopEnter
  <1>2. CASE ResetQuit BY <1>2 DEF ResetQuit
  <1>3. CASE WhileTest BY <1>3 DEF WhileTest
  <1>4. CASE PollWakeup \/ PollIO \/ PollTimeout
    <2>1. PICK io \in BOOLEAN : PollReturn(io)
      BY <1>4, PollActions
    <2> QED BY <2>1 DEF PollReturn
  <1>5. CASE HandleWakeup BY <1>5 DEF HandleWakeup
  <1>6. CASE HandleIO BY <1>6 DEF HandleIO
  <1>7. CASE HandleDone BY <1>7 DEF HandleDone
  <1>8. CASE StartCalling BY <1>8 DEF StartCalling
  <1>9. CASE SwapPending BY <1>9 DEF SwapPending
  <1>10. CASE RunFunctor BY <1>10 DEF RunFunctor
  <1>11. CASE RunDone BY <1>11 DEF RunDone
  <1>12. CASE \E f \in Functors : CallbackQueueInLoop(f)
    BY <1>12 DEF CallbackQueueInLoop
  <1>13. CASE \E f \in Functors : CallbackRunInLoop(f)
    BY <1>13 DEF CallbackRunInLoop
  <1>14. CASE CallbackQuit BY <1>14 DEF CallbackQuit
  <1>15. CASE CallbackReturn BY <1>15 DEF CallbackReturn
  <1>16. CASE \E c \in Callers : \E f \in Functors : QueueInLoop(c, f)
    BY <1>16 DEF QueueInLoop
  <1>17. CASE \E c \in Callers : Quit(c) BY <1>17 DEF Quit
  <1>18. CASE \E c \in Callers : Wakeup(c) BY <1>18 DEF Wakeup
  <1>19. CASE UNCHANGED vars BY <1>19 DEF vars
  <1> QED
    BY <1>1, <1>2, <1>3, <1>4, <1>5, <1>6, <1>7, <1>8, <1>9, <1>10, <1>11,
       <1>12, <1>13, <1>14, <1>15, <1>16, <1>17, <1>18, <1>19, NextActions

LEMMA WakeAlways == Spec => [](TypeOK /\ WakeInv)
  <1>1. Init => TypeOK /\ WakeInv
    BY TypeInit, WakeInit
  <1>2. TypeOK /\ WakeInv /\ [Next]_vars => (TypeOK /\ WakeInv)'
    BY TypeStep, WakeStep
  <1> QED
    BY <1>1, <1>2, PTL DEF Spec

(* queueInLoop: for any number of threads, the loop is never blocked in    *)
(* poll() on a pending functor without a wakeup written or on its way.     *)
THEOREM NoWakeupLost == Spec => []NoLostWakeup
  <1>1. WakeInv => NoLostWakeup
    BY DEF WakeInv, WakeupInv, NoLostWakeup
  <1> QED
    BY <1>1, WakeAlways, PTL

(* quit(): for any number of threads, the loop is never blocked in poll()  *)
(* with quit_ set and no wakeup written or on its way.                     *)
THEOREM NoQuitLost == Spec => []NoLostQuit
  <1>1. WakeInv => NoLostQuit
    BY DEF WakeInv
  <1> QED
    BY <1>1, WakeAlways, PTL

-----------------------------------------------------------------------------
LEMMA FifoInit == Init => FifoOrder
  BY DEF Init, FifoOrder

LEMMA FifoStep == TypeOK /\ WakeInv /\ FifoOrder /\ [Next]_vars => FifoOrder'
  <1> SUFFICES ASSUME TypeOK, WakeInv, FifoOrder, [Next]_vars PROVE FifoOrder'
    OBVIOUS
  <1>1. CASE SwapPending
    <2>1. batch = <<>>
      BY <1>1 DEF SwapPending, WakeInv, ControlInv
    <2> QED
      BY <1>1, <2>1 DEF SwapPending, FifoOrder, TypeOK
  <1>2. CASE RunFunctor
    <2>1. Append(executed, Head(batch)) \o Tail(batch) \o pending
              = executed \o batch \o pending
      <3>1. /\ executed \in Seq(Functors) /\ batch \in Seq(Functors)
            /\ pending \in Seq(Functors) /\ batch # <<>>
        BY <1>2 DEF RunFunctor, TypeOK
      <3> QED BY <3>1, MoveHead
    <2> QED
      BY <1>2, <2>1 DEF RunFunctor, FifoOrder
  <1>3. CASE \E f \in Functors : CallbackQueueInLoop(f)
    <2>1. PICK f \in Functors : CallbackQueueInLoop(f)
      BY <1>3
    <2>2. executed \o batch \o Append(pending, f)
              = Append(executed \o batch \o pending, f)
      <3>1. /\ executed \in Seq(Functors) /\ batch \in Seq(Functors)
            /\ pending \in Seq(Functors)
        BY DEF TypeOK
      <3> QED BY <3>1, AppendLast
    <2> QED
      BY <2>1, <2>2 DEF CallbackQueueInLoop, FifoOrder
  <1>4. CASE \E c \in Callers : \E f \in Functors : QueueInLoop(c, f)
    <2>1. PICK c \in Callers, f \in Functors : QueueInLoop(c, f)
      BY <1>4
    <2>2. executed \o batch \o Append(pending, f)
              = Append(executed \o batch \o pending, f)
      <3>1. /\ executed \in Seq(Functors) /\ batch \in Seq(Functors)
            /\ pending \in Seq(Functors)
        BY DEF TypeOK
      <3> QED BY <3>1, AppendLast
    <2> QED
      BY <2>1, <2>2 DEF QueueInLoop, FifoOrder
  <1>5. CASE UNCHANGED <<queued, executed, batch, pending>>
    BY <1>5 DEF FifoOrder
  <1>6. ASSUME ~ SwapPending, ~ RunFunctor,
               ~ \E f \in Functors : CallbackQueueInLoop(f),
               ~ \E c \in Callers : \E f \in Functors : QueueInLoop(c, f)
        PROVE  UNCHANGED <<queued, executed, batch, pending>>
    BY <1>6, NextActions, PollActions
       DEF LoopEnter, ResetQuit, WhileTest, PollReturn, HandleWakeup, HandleIO,
           HandleDone, StartCalling, RunDone, CallbackRunInLoop, CallbackQuit,
           CallbackReturn, Quit, Wakeup, vars
  <1> QED
    BY <1>1, <1>2, <1>3, <1>4, <1>5, <1>6

(* queueInLoop and doPendingFunctors: functors are neither lost, repeated  *)
(* nor reordered, for any number of threads that push.                     *)
THEOREM FunctorsInOrder == Spec => []FifoOrder
  <1>1. TypeOK /\ WakeInv /\ FifoOrder /\ [Next]_vars => FifoOrder'
    BY FifoStep
  <1> QED
    BY <1>1, FifoInit, WakeAlways, PTL DEF Spec

-----------------------------------------------------------------------------
(* Every step of the loop or of a caller is a step of SerialExecutor on    *)
(* the functors that wait, or leaves them as they are.                     *)
LEMMA ExecutorStep ==
    TypeOK /\ WakeInv /\ [Next]_vars => [Executor!Next]_(Executor!execVars)
  <1> SUFFICES ASSUME TypeOK, WakeInv, [Next]_vars
               PROVE  [Executor!Next]_(Executor!execVars)
    OBVIOUS
  <1> USE DEF Executor!execVars
  <1>1. CASE WhileTest
    <2>1. CASE quit
      <3>1. Executor!Close
        BY <1>1, <2>1 DEF WhileTest, Executor!Close
      <3> QED
        BY <3>1 DEF Executor!Next
    <2>2. CASE ~quit
      BY <1>1, <2>2 DEF WhileTest
    <2> QED
      BY <2>1, <2>2
  <1>2. CASE SwapPending
    <2>1. batch = <<>>
      BY <1>2 DEF SwapPending, WakeInv, ControlInv
    <2>2. batch' \o pending' = batch \o pending
      BY <1>2, <2>1 DEF SwapPending, TypeOK
    <2> QED
      BY <1>2, <2>2 DEF SwapPending
  <1>3. CASE RunFunctor
    <2>1. /\ batch \o pending # <<>>
          /\ Head(batch \o pending) = Head(batch)
          /\ Tail(batch \o pending) = Tail(batch) \o pending
      BY <1>3, ConcatHeadTail DEF RunFunctor, TypeOK
    <2>2. Executor!Execute
      BY <1>3, <2>1 DEF RunFunctor, Executor!Execute
    <2> QED
      BY <2>2 DEF Executor!Next
  <1>4. CASE \E f \in Functors : CallbackQueueInLoop(f)
    <2>1. PICK f \in Functors : CallbackQueueInLoop(f)
      BY <1>4
    <2>2. batch \o Append(pending, f) = Append(batch \o pending, f)
      BY ConcatAppend DEF TypeOK
    <2>3. Executor!Submit(f)
      BY <2>1, <2>2 DEF CallbackQueueInLoop, Executor!Submit
    <2> QED
      BY <2>3 DEF Executor!Next
  <1>5. CASE \E c \in Callers : \E f \in Functors : QueueInLoop(c, f)
    <2>1. PICK c \in Callers, f \in Functors : QueueInLoop(c, f)
      BY <1>5
    <2>2. batch \o Append(pending, f) = Append(batch \o pending, f)
      BY ConcatAppend DEF TypeOK
    <2>3. Executor!Submit(f)
      BY <2>1, <2>2 DEF QueueInLoop, Executor!Submit
    <2> QED
      BY <2>3 DEF Executor!Next
  <1>6. CASE UNCHANGED <<batch, pending, executed, (pc = "stopped")>>
    BY <1>6
  <1>7. ASSUME ~ WhileTest, ~ SwapPending, ~ RunFunctor,
               ~ \E f \in Functors : CallbackQueueInLoop(f),
               ~ \E c \in Callers : \E f \in Functors : QueueInLoop(c, f)
        PROVE  UNCHANGED <<batch, pending, executed, (pc = "stopped")>>
    BY <1>7, NextActions, PollActions
       DEF LoopEnter, ResetQuit, PollReturn, HandleWakeup, HandleIO,
           HandleDone, StartCalling, RunDone, CallbackRunInLoop, CallbackQuit,
           CallbackReturn, Quit, Wakeup, vars
  <1> QED
    BY <1>1, <1>2, <1>3, <1>4, <1>5, <1>6, <1>7

(* The loop implements the safety part of what its callers rely on: one    *)
(* functor at a time, in the order of the pushes, until the loop stops.    *)
THEOREM LoopImplementsExecutor == Spec => Executor!SafeSpec
  <1>1. Init => Executor!Init
    BY DEF Init, Executor!Init
  <1>2. TypeOK /\ WakeInv /\ [Next]_vars => [Executor!Next]_(Executor!execVars)
    BY ExecutorStep
  <1> QED
    BY <1>1, <1>2, WakeAlways, PTL DEF Spec, Executor!SafeSpec
=============================================================================
