------------------------------ MODULE EventLoop ------------------------------
(***************************************************************************)
(* EventLoop (src/common/net/EventLoop.cc): one thread that runs loop(),   *)
(* and any number of other threads that call queueInLoop(), runInLoop()    *)
(* and quit() on it.  The loop blocks in Poller::poll; an eventfd is how   *)
(* the other threads get it out of there.                                  *)
(*                                                                         *)
(* The loop thread is cut into steps at every access to state another      *)
(* thread touches (quit_, pendingFunctors_, the eventfd).  A caller's push *)
(* (or store to quit_) and the wakeup() after it are two steps, so that    *)
(* the loop may run between them.  User code called by the loop (a channel *)
(* handler or a functor) may itself queue, run functors in place, or quit. *)
(* The 1 s poll timeout is a step the loop may take at any time but is     *)
(* never relied on: no fairness is assumed of it.                          *)
(***************************************************************************)
EXTENDS Naturals, Sequences, FiniteSets

CONSTANTS
    Callers,    \* threads other than the loop's own
    Functors    \* the callbacks handed over; each is handed over at most once

VARIABLES
    pc,          \* the line loop() is at
    looping,     \* looping_
    quit,        \* quit_
    calling,     \* callingPendingFunctors_
    wakeupFd,    \* the eventfd's counter is positive
    active,      \* activeChannels_: "wakeup", and "io" for every other channel
    pending,     \* pendingFunctors_
    batch,       \* doPendingFunctors' local vector, what is left of it
    inCallback,  \* user code is running on the loop thread
    callerPc,    \* "wakeup": between the push or store and the wakeup()
    queued,      \* history: every functor pushed on pendingFunctors_, in order
    executed,    \* history: functors run by doPendingFunctors, in order
    ranInPlace   \* history: functors run by runInLoop on the loop thread

vars == <<pc, looping, quit, calling, wakeupFd, active, pending, batch,
          inCallback, callerPc, queued, executed, ranInPlace>>

LoopPc == {"init", "reset", "while", "poll", "handle", "calling", "swap",
           "run", "stopped"}

(* Inside the body of loop()'s while statement or at its test.             *)
Looping == {"while", "poll", "handle", "calling", "swap", "run"}

SeqRange(s) == {s[i] : i \in DOMAIN s}

(* A functor nobody has handed over yet.                                   *)
Fresh(f) == f \notin SeqRange(queued) \cup ranInPlace

Init ==
    /\ pc = "init"
    /\ looping = FALSE
    /\ quit = FALSE
    /\ calling = FALSE
    /\ wakeupFd = FALSE
    /\ active = {}
    /\ pending = <<>>
    /\ batch = <<>>
    /\ inCallback = FALSE
    /\ callerPc = [c \in Callers |-> "idle"]
    /\ queued = <<>>
    /\ executed = <<>>
    /\ ranInPlace = {}

-----------------------------------------------------------------------------
(* The loop thread.                                                        *)

LoopEnter ==
    /\ pc = "init"
    /\ looping' = TRUE
    /\ pc' = "reset"
    /\ UNCHANGED <<quit, calling, wakeupFd, active, pending, batch, inCallback,
                   callerPc, queued, executed, ranInPlace>>

ResetQuit ==
    /\ pc = "reset"
    /\ quit' = FALSE
    /\ pc' = "while"
    /\ UNCHANGED <<looping, calling, wakeupFd, active, pending, batch,
                   inCallback, callerPc, queued, executed, ranInPlace>>

WhileTest_IgnoresQuit ==
    /\ pc = "while"
    /\ pc' = "poll"
    /\ active' = {}
    /\ UNCHANGED <<looping, quit, calling, wakeupFd, pending, batch, inCallback,
                   callerPc, queued, executed, ranInPlace>>

WhileTest ==
    /\ pc = "while"
    /\ pc' = IF quit THEN "stopped" ELSE "poll"
    /\ looping' = ~quit
    /\ active' = {}
    /\ UNCHANGED <<quit, calling, wakeupFd, pending, batch, inCallback,
                   callerPc, queued, executed, ranInPlace>>

(* poll() returns with the ready channels.  The wakeup channel is ready    *)
(* exactly when the eventfd is readable (level triggered); io is whether   *)
(* some other descriptor is ready.                                         *)
PollReturn(io) ==
    /\ pc = "poll"
    /\ active' = (IF wakeupFd THEN {"wakeup"} ELSE {})
                     \cup (IF io THEN {"io"} ELSE {})
    /\ pc' = "handle"
    /\ UNCHANGED <<looping, quit, calling, wakeupFd, pending, batch, inCallback,
                   callerPc, queued, executed, ranInPlace>>

PollWakeup == wakeupFd /\ PollReturn(FALSE)

PollIO == PollReturn(TRUE)

PollTimeout == ~wakeupFd /\ PollReturn(FALSE)

(* The wakeup channel's read callback, EventLoop::handleRead: reading the  *)
(* eventfd resets its counter, however many wakeups it held.               *)
HandleWakeup ==
    /\ pc = "handle" /\ ~inCallback
    /\ "wakeup" \in active
    /\ active' = active \ {"wakeup"}
    /\ wakeupFd' = FALSE
    /\ UNCHANGED <<pc, looping, quit, calling, pending, batch, inCallback,
                   callerPc, queued, executed, ranInPlace>>

HandleIO ==
    /\ pc = "handle" /\ ~inCallback
    /\ "io" \in active
    /\ active' = active \ {"io"}
    /\ inCallback' = TRUE
    /\ UNCHANGED <<pc, looping, quit, calling, wakeupFd, pending, batch,
                   callerPc, queued, executed, ranInPlace>>

HandleDone ==
    /\ pc = "handle" /\ ~inCallback
    /\ active = {}
    /\ pc' = "calling"
    /\ UNCHANGED <<looping, quit, calling, wakeupFd, active, pending, batch,
                   inCallback, callerPc, queued, executed, ranInPlace>>

StartCalling ==
    /\ pc = "calling"
    /\ calling' = TRUE
    /\ pc' = "swap"
    /\ UNCHANGED <<looping, quit, wakeupFd, active, pending, batch, inCallback,
                   callerPc, queued, executed, ranInPlace>>

(* doPendingFunctors swaps the vector with an empty one in one critical    *)
(* section: what is pushed after it waits for the next round.              *)
SwapPending ==
    /\ pc = "swap"
    /\ batch' = pending
    /\ pending' = <<>>
    /\ pc' = "run"
    /\ UNCHANGED <<looping, quit, calling, wakeupFd, active, inCallback,
                   callerPc, queued, executed, ranInPlace>>

RunFunctor ==
    /\ pc = "run" /\ ~inCallback
    /\ batch # <<>>
    /\ executed' = Append(executed, Head(batch))
    /\ batch' = Tail(batch)
    /\ inCallback' = TRUE
    /\ UNCHANGED <<pc, looping, quit, calling, wakeupFd, active, pending,
                   callerPc, queued, ranInPlace>>

RunDone ==
    /\ pc = "run" /\ ~inCallback
    /\ batch = <<>>
    /\ calling' = FALSE
    /\ pc' = "while"
    /\ UNCHANGED <<looping, quit, wakeupFd, active, pending, batch, inCallback,
                   callerPc, queued, executed, ranInPlace>>

-----------------------------------------------------------------------------
(* User code on the loop thread: isInLoopThread() holds.                   *)

CallbackQueueInLoop_NeverWakes(f) ==
    /\ inCallback /\ Fresh(f)
    /\ pending' = Append(pending, f)
    /\ queued' = Append(queued, f)
    /\ UNCHANGED <<pc, looping, quit, calling, wakeupFd, active, batch,
                   inCallback, callerPc, executed, ranInPlace>>

CallbackQueueInLoop(f) ==
    /\ inCallback /\ Fresh(f)
    /\ pending' = Append(pending, f)
    /\ queued' = Append(queued, f)
    /\ wakeupFd' = (wakeupFd \/ calling)
    /\ UNCHANGED <<pc, looping, quit, calling, active, batch, inCallback,
                   callerPc, executed, ranInPlace>>

CallbackRunInLoop(f) ==
    /\ inCallback /\ Fresh(f)
    /\ ranInPlace' = ranInPlace \cup {f}
    /\ UNCHANGED <<pc, looping, quit, calling, wakeupFd, active, pending, batch,
                   inCallback, callerPc, queued, executed>>

CallbackQuit ==
    /\ inCallback
    /\ quit' = TRUE
    /\ UNCHANGED <<pc, looping, calling, wakeupFd, active, pending, batch,
                   inCallback, callerPc, queued, executed, ranInPlace>>

CallbackReturn ==
    /\ inCallback
    /\ inCallback' = FALSE
    /\ UNCHANGED <<pc, looping, quit, calling, wakeupFd, active, pending, batch,
                   callerPc, queued, executed, ranInPlace>>

-----------------------------------------------------------------------------
(* Other threads.  runInLoop is queueInLoop for them.                      *)

QueueInLoop_Prepends(c, f) ==
    /\ callerPc[c] = "idle" /\ Fresh(f)
    /\ pending' = <<f>> \o pending
    /\ queued' = Append(queued, f)
    /\ callerPc' = [callerPc EXCEPT ![c] = "wakeup"]
    /\ UNCHANGED <<pc, looping, quit, calling, wakeupFd, active, batch,
                   inCallback, executed, ranInPlace>>

QueueInLoop(c, f) ==
    /\ callerPc[c] = "idle" /\ Fresh(f)
    /\ pending' = Append(pending, f)
    /\ queued' = Append(queued, f)
    /\ callerPc' = [callerPc EXCEPT ![c] = "wakeup"]
    /\ UNCHANGED <<pc, looping, quit, calling, wakeupFd, active, batch,
                   inCallback, executed, ranInPlace>>

Quit_NoWakeup(c) ==
    /\ callerPc[c] = "idle"
    /\ quit' = TRUE
    /\ UNCHANGED <<pc, looping, calling, wakeupFd, active, pending, batch,
                   inCallback, callerPc, queued, executed, ranInPlace>>

Quit(c) ==
    /\ callerPc[c] = "idle"
    /\ quit' = TRUE
    /\ callerPc' = [callerPc EXCEPT ![c] = "wakeup"]
    /\ UNCHANGED <<pc, looping, calling, wakeupFd, active, pending, batch,
                   inCallback, queued, executed, ranInPlace>>

Wakeup(c) ==
    /\ callerPc[c] = "wakeup"
    /\ wakeupFd' = TRUE
    /\ callerPc' = [callerPc EXCEPT ![c] = "idle"]
    /\ UNCHANGED <<pc, looping, quit, calling, active, pending, batch,
                   inCallback, queued, executed, ranInPlace>>

-----------------------------------------------------------------------------
LoopThread ==
    \/ LoopEnter \/ ResetQuit \/ WhileTest
    \/ PollWakeup \/ HandleWakeup \/ HandleIO \/ HandleDone
    \/ StartCalling \/ SwapPending \/ RunFunctor \/ RunDone
    \/ CallbackReturn

Environment ==
    \/ PollIO \/ PollTimeout
    \/ \E f \in Functors : CallbackQueueInLoop(f) \/ CallbackRunInLoop(f)
    \/ CallbackQuit

CallerStep(c) ==
    \/ \E f \in Functors : QueueInLoop(c, f)
    \/ Quit(c)
    \/ Wakeup(c)

Next ==
    \/ LoopThread
    \/ Environment
    \/ \E c \in Callers : CallerStep(c)

(* The loop thread keeps running whenever it is not blocked in poll() with *)
(* nothing to wake it; a caller that has pushed gets to its wakeup().      *)
(* User callbacks return.  Nothing makes time pass or descriptors ready.   *)
Fairness ==
    /\ WF_vars(LoopThread)
    /\ \A c \in Callers : WF_vars(Wakeup(c))

Spec == Init /\ [][Next]_vars /\ Fairness

-----------------------------------------------------------------------------
(* Every variable has the type of the C++ member it stands for.            *)
TypeOK ==
    /\ pc \in LoopPc
    /\ looping \in BOOLEAN
    /\ quit \in BOOLEAN
    /\ calling \in BOOLEAN
    /\ wakeupFd \in BOOLEAN
    /\ active \subseteq {"wakeup", "io"}
    /\ pending \in Seq(Functors)
    /\ batch \in Seq(Functors)
    /\ inCallback \in BOOLEAN
    /\ callerPc \in [Callers -> {"idle", "wakeup"}]
    /\ queued \in Seq(Functors)
    /\ executed \in Seq(Functors)
    /\ ranInPlace \subseteq Functors

WakeupComing == wakeupFd \/ \E c \in Callers : callerPc[c] = "wakeup"

(* queueInLoop and poll(): the loop never blocks in poll() while a functor *)
(* waits in pendingFunctors_, unless the eventfd is readable or the caller *)
(* that pushed it is about to write the eventfd.  In particular a functor  *)
(* queued by a functor, after doPendingFunctors took its batch, does not   *)
(* wait for the poll timeout.                                              *)
NoLostWakeup == (pc = "poll" /\ pending # <<>>) => WakeupComing

(* quit() and poll(): the loop never blocks in poll() with quit_ set and   *)
(* nobody about to wake it.                                                *)
NoLostQuit == (pc = "poll" /\ quit) => WakeupComing

(* queueInLoop and doPendingFunctors: at every moment the functors that    *)
(* were pushed are those that have run, then those of the current batch,   *)
(* then those still pending, in the order of the pushes: none is lost,     *)
(* repeated or overtaken, whichever threads push while the loop swaps.     *)
FifoOrder == queued = executed \o batch \o pending

(* queueInLoop: a functor that was pushed is run, or the loop stops (with  *)
(* what is pending unrun).  Wakeups alone suffice for it: the poll timeout *)
(* and other descriptors may never fire again.                             *)
QueuedIsRun ==
    \A f \in Functors :
        f \in SeqRange(queued) ~> (f \in SeqRange(executed) \/ pc = "stopped")

(* quit(): once loop() is past its reset of quit_, a quit from any thread  *)
(* ends the loop.                                                          *)
QuitStops == (quit /\ pc \in Looping) ~> (pc = "stopped")

(* EventLoop implements SerialExecutor: the batch and the pending vector   *)
(* together are the queue of what is waiting.                              *)
Executor == INSTANCE SerialExecutor
    WITH waiting <- batch \o pending, done <- executed,
         closed <- (pc = "stopped")

ImplementsExecutor == Executor!Spec
=============================================================================
