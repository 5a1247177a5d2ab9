--------------------------- MODULE SerialExecutor ---------------------------
(***************************************************************************)
(* What EventLoop::queueInLoop promises its callers, without the loop: any *)
(* thread hands over a functor, the functors run one at a time in the      *)
(* order they were handed over, each exactly once, until the executor is   *)
(* closed.  EventLoop.tla is shown to implement this specification.        *)
(***************************************************************************)
EXTENDS Naturals, Sequences

CONSTANT Functors

VARIABLES
    waiting,   \* handed over, not yet run, oldest first
    done,      \* run, in the order in which they were started
    closed     \* the loop has stopped; nothing runs any more

execVars == <<waiting, done, closed>>

Init ==
    /\ waiting = <<>>
    /\ done = <<>>
    /\ closed = FALSE

Submit(f) ==
    /\ waiting' = Append(waiting, f)
    /\ UNCHANGED <<done, closed>>

Execute ==
    /\ ~closed
    /\ waiting # <<>>
    /\ done' = Append(done, Head(waiting))
    /\ waiting' = Tail(waiting)
    /\ UNCHANGED closed

Close ==
    /\ ~closed
    /\ closed' = TRUE
    /\ UNCHANGED <<waiting, done>>

Next ==
    \/ \E f \in Functors : Submit(f)
    \/ Execute
    \/ Close

SafeSpec == Init /\ [][Next]_execVars

(* What has been handed over is run, unless the executor is closed.        *)
Spec == SafeSpec /\ WF_execVars(Execute)
=============================================================================
