------------------------------ MODULE TcpServer ------------------------------
(***************************************************************************)
(* TcpServer (src/common/net/TcpServer.cc) with Acceptor, the round robin  *)
(* of EventLoopThreadPool, and the objects of its connections.             *)
(*                                                                         *)
(* The base loop accepts connections and keeps connections_; each          *)
(* connection lives on one of the subloops, or on the base loop when there *)
(* are none.  A loop polls, handles the channels of its batch one by one,  *)
(* and then runs its functors; a functor for the loop's own thread runs at *)
(* once.  Of the events only those that close a connection or bring a new  *)
(* one are here; data, and the state kDisconnecting of shutdown() with the *)
(* second down it can cause, are TcpConnection's.                          *)
(*                                                                         *)
(* A TcpConnection exists as long as a shared_ptr to it does: in           *)
(* connections_, in a queued functor, or with the user.  The channels of a *)
(* batch are raw pointers; sendInLoop is queued with a raw pointer, and    *)
(* removeConnectionInLoop with a raw pointer to the server.  The user is a *)
(* thread for each connection, which may keep the TcpConnectionPtr of a    *)
(* callback and send with it.  (A loop holds on to the functors it runs a  *)
(* little longer than the model.)                                          *)
(***************************************************************************)
EXTENDS Integers, Sequences, FiniteSets

CONSTANTS
    Conns,       \* connections; each is accepted at most once
    Kept,        \* those whose TcpConnectionPtr a user may keep
    ThreadNums   \* what setThreadNum is called with

ASSUME ServerAssumption ==
    /\ Kept \subseteq Conns
    /\ ThreadNums \subseteq Nat
    /\ \E n \in ThreadNums : \A m \in ThreadNums : m <= n

VARIABLES
    dtorIn,       \* where the user may destroy the server: "after" loop()
                  \* has returned or, too, in a "functor" of the base loop
                  \* or in a "handler" of an event on it
    serverPc,     \* the server: "new", "started", in its destructor, "gone"
    numThreads,   \* numThreads_
    next,         \* next_: index in loops_ of the loop to use next
    connections,  \* connections_
    loopOf,       \* loop_ of each connection; Nowhere before it is accepted
    state,        \* state_ of each connection
    registered,   \* its channel is in the poller of its loop
    queue,        \* pendingFunctors_ of each loop
    active,       \* connections whose channel is still to be handled, in
                  \* the activeChannels_ of their loop
    accepting,    \* the acceptor's channel is, on the base loop
    loopPc,       \* each loop: see LoopPc
    userPc,       \* what the user does with each connection
    misused       \* history: what was called on an object that is gone

poolVars == <<numThreads, next>>
connVars == <<loopOf, state, registered>>
batchVars == <<active, accepting>>
vars == <<dtorIn, serverPc, poolVars, connections, connVars, queue, batchVars,
          loopPc, userPc, misused>>

Base == 0
Nowhere == -1
MaxLoop == CHOOSE n \in ThreadNums : \A m \in ThreadNums : m <= n
LoopIds == Base..MaxLoop
SubLoops == 1..numThreads

(* A subloop whose address startLoop() has returned is "starting" until    *)
(* loop() has reset quit_.  A quit() before that is forgotten: the loop    *)
(* has "missed" it.                                                        *)
LoopPc == {"none", "starting", "running", "missed", "returned", "quit",
           "stopped"}

(* ~TcpServer keeps the base loop's thread busy.                           *)
Running(l) ==
    /\ loopPc[l] \in {"running", "missed", "quit"}
    /\ l = Base => serverPc # "dtor"

(* The batch of the loop has been handled.                                 *)
Handled(l) ==
    /\ \A c \in active : loopOf[c] # l
    /\ l = Base => ~accepting

Functor(op, c) == [op |-> op, conn |-> c]
Shared == {"connectEstablished", "connectDestroyed", "removeConnection"}

(* A sendInLoop that was queued after the server had let go of the         *)
(* connection is told apart.                                               *)
Sends == {"sendInLoop", "late sendInLoop"}

Queued(l, ops, c) == \E i \in DOMAIN queue[l] : queue[l][i].op \in ops /\ queue[l][i].conn = c

(* A shared_ptr to the connection exists.                                  *)
Alive(c) ==
    \/ c \in connections
    \/ \E l \in LoopIds : Queued(l, Shared, c)
    \/ userPc[c] # "none"

Init ==
    /\ dtorIn \in {"after", "functor", "handler"}
    /\ serverPc = "new" /\ numThreads = 0 /\ next = 0
    /\ connections = {}
    /\ loopOf = [c \in Conns |-> Nowhere]
    /\ state = [c \in Conns |-> "kConnecting"]
    /\ registered = [c \in Conns |-> FALSE]
    /\ queue = [l \in LoopIds |-> <<>>]
    /\ active = {} /\ accepting = FALSE
    /\ loopPc = [l \in LoopIds |-> IF l = Base THEN "running" ELSE "none"]
    /\ userPc = [c \in Conns |-> "none"]
    /\ misused = {}

-----------------------------------------------------------------------------
(* The server, on the base loop's thread.                                  *)

SetThreadNum(n) ==
    /\ serverPc = "new" /\ numThreads # n
    /\ numThreads' = n
    /\ UNCHANGED <<dtorIn, serverPc, next, connections, connVars, queue,
                   batchVars, loopPc, userPc, misused>>

(* start(): startLoop() has the address of each subloop, and the acceptor  *)
(* listens.  A second call does nothing.                                   *)
Start ==
    /\ serverPc = "new"
    /\ serverPc' = "started"
    /\ loopPc' = [l \in LoopIds |-> IF l \in SubLoops THEN "starting" ELSE loopPc[l]]
    /\ UNCHANGED <<dtorIn, poolVars, connections, connVars, queue, batchVars,
                   userPc, misused>>

(* A subloop's thread enters loop() and resets quit_.                      *)
LoopEnters(l) ==
    /\ loopPc[l] = "starting"
    /\ loopPc' = [loopPc EXCEPT ![l] = "running"]
    /\ UNCHANGED <<dtorIn, serverPc, poolVars, connections, connVars, queue,
                   batchVars, userPc, misused>>

(* poll() returns with the channels of connections that their peers have   *)
(* closed, and the acceptor's when a peer connects.                        *)
Poll(l) ==
    /\ Running(l) /\ Handled(l)
    /\ \E S \in SUBSET {c \in Conns : registered[c] /\ loopOf[c] = l}, a \in BOOLEAN :
          /\ S # {} \/ a
          /\ a => /\ l = Base /\ serverPc = "started"
                  /\ \E c \in Conns : loopOf[c] = Nowhere
          /\ active' = active \cup S
          /\ accepting' = (accepting \/ a)
    /\ UNCHANGED <<dtorIn, serverPc, poolVars, connections, connVars, queue,
                   loopPc, userPc, misused>>

(* getNextLoop.                                                            *)
NextLoop == IF numThreads = 0 THEN Base ELSE next + 1

Advance == IF next + 1 >= numThreads THEN 0 ELSE next + 1

(* Acceptor::handleRead and newConnection, with connectEstablished in      *)
(* place when the connection is on the base loop.                          *)
NewConnection(c) ==
    /\ serverPc = "started" /\ Running(Base)
    /\ accepting /\ loopOf[c] = Nowhere
    /\ accepting' = FALSE
    /\ loopOf' = [loopOf EXCEPT ![c] = NextLoop]
    /\ next' = Advance
    /\ connections' = connections \cup {c}
    /\ IF NextLoop = Base
       THEN /\ state' = [state EXCEPT ![c] = "kConnected"]
            /\ registered' = [registered EXCEPT ![c] = TRUE]
            /\ UNCHANGED queue
       ELSE /\ queue' = [queue EXCEPT ![NextLoop] =
                            Append(@, Functor("connectEstablished", c))]
            /\ UNCHANGED <<state, registered>>
    /\ UNCHANGED <<dtorIn, serverPc, numThreads, active, loopPc, userPc, misused>>

(* The acceptor was destroyed with its server by a handler of this batch.  *)
AcceptStale ==
    /\ serverPc = "gone" /\ Running(Base)
    /\ accepting
    /\ accepting' = FALSE
    /\ misused' = misused \cup {"channel"}
    /\ UNCHANGED <<dtorIn, serverPc, poolVars, connections, connVars, queue,
                   active, loopPc, userPc>>

(* removeConnectionInLoop: q are the queues without the functor itself.    *)
Remove_KeepsEntry(c, q) ==
    /\ connections' = connections
    /\ queue' = [q EXCEPT ![loopOf[c]] = Append(@, Functor("connectDestroyed", c))]

Remove(c, q) ==
    /\ connections' = connections \ {c}
    /\ queue' = [q EXCEPT ![loopOf[c]] = Append(@, Functor("connectDestroyed", c))]

-----------------------------------------------------------------------------
(* Functors.  The queue of loop l without the first.                       *)

Popped(l) == [queue EXCEPT ![l] = Tail(@)]

Runs(l, op, c) ==
    /\ Running(l) /\ Handled(l) /\ queue[l] # <<>>
    /\ Head(queue[l]) = Functor(op, c)

ConnectEstablished(l, c) ==
    /\ Runs(l, "connectEstablished", c)
    /\ queue' = Popped(l)
    /\ state' = [state EXCEPT ![c] = "kConnected"]
    /\ registered' = [registered EXCEPT ![c] = TRUE]
    /\ UNCHANGED <<dtorIn, serverPc, poolVars, connections, loopOf, batchVars,
                   loopPc, userPc, misused>>

ConnectDestroyed(l, c) ==
    /\ Runs(l, "connectDestroyed", c)
    /\ queue' = Popped(l)
    /\ state' = [state EXCEPT ![c] = IF @ = "kConnected" THEN "kDisconnected" ELSE @]
    /\ registered' = [registered EXCEPT ![c] = FALSE]
    /\ UNCHANGED <<dtorIn, serverPc, poolVars, connections, loopOf, batchVars,
                   loopPc, userPc, misused>>

(* The server behind the functor's raw pointer may be gone; what happens   *)
(* then is not followed any further.                                       *)
RemoveConnectionInLoop(c) ==
    /\ Runs(Base, "removeConnection", c)
    /\ IF serverPc = "gone"
       THEN /\ misused' = misused \cup {"removeConnection"}
            /\ queue' = Popped(Base)
            /\ UNCHANGED connections
       ELSE /\ Remove(c, Popped(Base))
            /\ UNCHANGED misused
    /\ UNCHANGED <<dtorIn, serverPc, poolVars, connVars, batchVars, loopPc,
                   userPc>>

SendInLoop(l, c) ==
    \E op \in Sends :
        /\ Runs(l, op, c)
        /\ queue' = Popped(l)
        /\ misused' = IF Alive(c) THEN misused ELSE misused \cup {op}
        /\ UNCHANGED <<dtorIn, serverPc, poolVars, connections, connVars,
                       batchVars, loopPc, userPc>>

(* handleClose, with the state it leaves, and removeConnection.            *)
Closes(c, to) ==
    /\ c \in active /\ registered[c] /\ Running(loopOf[c])
    /\ active' = active \ {c}
    /\ state' = [state EXCEPT ![c] = to]
    /\ registered' = [registered EXCEPT ![c] = FALSE]
    /\ IF loopOf[c] = Base
       THEN Remove(c, queue)
       ELSE /\ queue' = [queue EXCEPT ![Base] =
                            Append(@, Functor("removeConnection", c))]
            /\ UNCHANGED connections
    /\ UNCHANGED <<dtorIn, serverPc, poolVars, loopOf, accepting, loopPc,
                   userPc, misused>>

HandleClose_KeepsState(c) == Closes(c, state[c])

(* The peer has closed.                                                    *)
HandleClose(c) == Closes(c, "kDisconnected")

(* The connection was destroyed with its server by a handler of this       *)
(* batch: its channel is gone or, if a user keeps the connection,          *)
(* handleClose calls removeConnection of a server that is.  What it leaves *)
(* then is not followed.                                                   *)
HandleStale(c) ==
    /\ c \in active /\ ~registered[c] /\ Running(loopOf[c])
    /\ active' = active \ {c}
    /\ misused' = misused \cup {IF Alive(c) THEN "removeConnection" ELSE "channel"}
    /\ UNCHANGED <<dtorIn, serverPc, poolVars, connections, connVars, queue,
                   accepting, loopPc, userPc>>

-----------------------------------------------------------------------------
(* The end.  The base loop's thread leaves loop(), destroys the server     *)
(* and then the loop; or it destroys the server in a callback.             *)

BaseReturns ==
    /\ loopPc[Base] = "running" /\ serverPc \in {"started", "gone"}
    /\ Handled(Base)
    /\ loopPc' = [loopPc EXCEPT ![Base] = "returned"]
    /\ UNCHANGED <<dtorIn, serverPc, poolVars, connections, connVars,
                   queue, batchVars, userPc, misused>>

(* ~TcpServer.  What a handler that destroys the server does itself after  *)
(* that is not followed.                                                   *)
DtorBegin ==
    /\ serverPc = "started"
    /\ \/ loopPc[Base] = "returned"
       \/ dtorIn = "functor" /\ Running(Base) /\ Handled(Base)
       \/ dtorIn = "handler" /\ Running(Base)
    /\ serverPc' = "dtor"
    /\ UNCHANGED <<dtorIn, poolVars, connections, connVars, queue, batchVars,
                   loopPc, userPc, misused>>

DtorConnection_Forgets(c) ==
    /\ serverPc = "dtor" /\ c \in connections
    /\ connections' = connections \ {c}
    /\ UNCHANGED <<dtorIn, serverPc, poolVars, connVars, queue, batchVars,
                   loopPc, userPc, misused>>

DtorConnection(c) ==
    /\ serverPc = "dtor" /\ c \in connections
    /\ connections' = connections \ {c}
    /\ IF loopOf[c] = Base
       THEN /\ state' = [state EXCEPT ![c] =
                            IF @ = "kConnected" THEN "kDisconnected" ELSE @]
            /\ registered' = [registered EXCEPT ![c] = FALSE]
            /\ UNCHANGED queue
       ELSE /\ queue' = [queue EXCEPT ![loopOf[c]] =
                            Append(@, Functor("connectDestroyed", c))]
            /\ UNCHANGED <<state, registered>>
    /\ UNCHANGED <<dtorIn, serverPc, poolVars, loopOf, batchVars, loopPc,
                   userPc, misused>>

DtorQuits_OnlyJoins(l) ==
    /\ serverPc = "dtor" /\ connections = {} /\ l \in SubLoops
    /\ UNCHANGED vars

(* ~EventLoopThreadPool: each thread is told to quit and joined in turn.   *)
DtorQuits(l) ==
    /\ serverPc = "dtor" /\ connections = {}
    /\ l \in SubLoops /\ loopPc[l] \in {"starting", "running"}
    /\ \A k \in SubLoops : k < l => loopPc[k] = "stopped"
    /\ loopPc' = [loopPc EXCEPT ![l] = IF @ = "starting" THEN "missed" ELSE "quit"]
    /\ UNCHANGED <<dtorIn, serverPc, poolVars, connections, connVars,
                   queue, batchVars, userPc, misused>>

Stops(l, rest) ==
    /\ loopPc[l] = "quit" /\ Handled(l)
    /\ loopPc' = [loopPc EXCEPT ![l] = "stopped"]
    /\ queue' = [queue EXCEPT ![l] = rest]
    /\ UNCHANGED <<dtorIn, serverPc, poolVars, connections, connVars,
                   batchVars, userPc, misused>>

LoopStops_KeepsFunctors(l) == Stops(l, queue[l])

(* The loop sees quit_, before or after the functors that are pending, and *)
(* ends with its thread: they are destroyed unrun.                         *)
LoopStops(l) == Stops(l, <<>>)

DtorReturns ==
    /\ serverPc = "dtor" /\ connections = {}
    /\ \A l \in SubLoops : loopPc[l] = "stopped"
    /\ serverPc' = "gone"
    /\ UNCHANGED <<dtorIn, poolVars, connections, connVars, queue, batchVars,
                   loopPc, userPc, misused>>

BaseDestroyed ==
    /\ loopPc[Base] = "returned" /\ serverPc = "gone"
    /\ loopPc' = [loopPc EXCEPT ![Base] = "stopped"]
    /\ queue' = [queue EXCEPT ![Base] = <<>>]
    /\ UNCHANGED <<dtorIn, serverPc, poolVars, connections, connVars,
                   batchVars, userPc, misused>>

-----------------------------------------------------------------------------
(* The user.                                                               *)

userFrame == <<dtorIn, serverPc, poolVars, connections, connVars, batchVars,
               loopPc>>

UserAt(c, at) == userPc' = [userPc EXCEPT ![c] = at]

(* A callback keeps its TcpConnectionPtr.                                  *)
UserKeeps(c) ==
    /\ c \in Kept /\ userPc[c] = "none" /\ registered[c] /\ Running(loopOf[c])
    /\ UserAt(c, "held")
    /\ UNCHANGED <<userFrame, queue, misused>>

(* send() from another thread, in two steps; one is queued at a time.  The *)
(* connection's loop may be gone: a connection whose connectDestroyed was  *)
(* destroyed with its loop stays kConnected.                               *)
SendTest(c) ==
    /\ userPc[c] = "held" /\ state[c] = "kConnected"
    /\ loopPc[loopOf[c]] # "stopped"
    /\ ~Queued(loopOf[c], Sends, c)
    /\ UserAt(c, "sending")
    /\ UNCHANGED <<userFrame, queue, misused>>

SendQueue(c) ==
    /\ userPc[c] = "sending" /\ loopPc[loopOf[c]] # "stopped"
    /\ \E op \in Sends :
          /\ op = "sendInLoop" <=> c \in connections
          /\ queue' = [queue EXCEPT ![loopOf[c]] = Append(@, Functor(op, c))]
    /\ UserAt(c, "held")
    /\ UNCHANGED <<userFrame, misused>>

SendDead(c) ==
    /\ \/ userPc[c] = "held" /\ state[c] = "kConnected"
       \/ userPc[c] = "sending"
    /\ loopPc[loopOf[c]] = "stopped"
    /\ misused' = misused \cup {"dead loop"}
    /\ UserAt(c, "held")
    /\ UNCHANGED <<userFrame, queue>>

UserDrops(c) ==
    /\ userPc[c] = "held"
    /\ UserAt(c, "none")
    /\ UNCHANGED <<userFrame, queue, misused>>

-----------------------------------------------------------------------------
RunFunctor(l) ==
    \E c \in Conns :
        \/ ConnectEstablished(l, c) \/ ConnectDestroyed(l, c) \/ SendInLoop(l, c)
        \/ l = Base /\ RemoveConnectionInLoop(c)

HandleBatch(l) ==
    \/ \E c \in Conns : loopOf[c] = l /\ (HandleClose(c) \/ HandleStale(c))
    \/ l = Base /\ (AcceptStale \/ \E c \in Conns : NewConnection(c))

Destructor ==
    \/ \E c \in Conns : DtorConnection(c)
    \/ \E l \in LoopIds : DtorQuits(l)
    \/ DtorReturns

User(c) ==
    UserKeeps(c) \/ SendTest(c) \/ SendQueue(c) \/ SendDead(c) \/ UserDrops(c)

(* A subloop that has missed its quit() polls for ever, and ~TcpServer     *)
(* waits for it.                                                           *)
JoinsForEver == \E l \in LoopIds : loopPc[l] = "missed"

Finished == (loopPc[Base] = "stopped" \/ JoinsForEver) /\ UNCHANGED vars

Next ==
    \/ \E n \in ThreadNums : SetThreadNum(n)
    \/ Start \/ BaseReturns \/ DtorBegin \/ Destructor \/ BaseDestroyed
    \/ \E c \in Conns : User(c)
    \/ \E l \in LoopIds :
          LoopEnters(l) \/ Poll(l) \/ HandleBatch(l) \/ RunFunctor(l) \/ LoopStops(l)
    \/ Finished

(* The threads of the loops run: they enter loop(), handle their batch,    *)
(* run their functors (a connection closes once, so no event keeps them    *)
(* from it) and end when they have seen quit_; and the destructor goes on. *)
(* Nothing makes a peer close or connect.                                  *)
Fairness ==
    /\ \A l \in LoopIds :
          /\ WF_vars(LoopEnters(l)) /\ WF_vars(HandleBatch(l))
          /\ WF_vars(RunFunctor(l)) /\ WF_vars(LoopStops(l))
    /\ WF_vars(Destructor)

Spec == Init /\ [][Next]_vars /\ Fairness

-----------------------------------------------------------------------------
(* Every member has one of its values.                                     *)
TypeOK ==
    /\ serverPc \in {"new", "started", "dtor", "gone"}
    /\ numThreads \in ThreadNums \cup {0} /\ next \in {0} \cup 0..(numThreads - 1)
    /\ connections \subseteq Conns
    /\ loopOf \in [Conns -> LoopIds \cup {Nowhere}]
    /\ state \in [Conns -> {"kConnecting", "kConnected", "kDisconnected"}]
    /\ registered \in [Conns -> BOOLEAN]
    /\ active \subseteq Conns /\ accepting \in BOOLEAN
    /\ loopPc \in [LoopIds -> LoopPc]
    /\ userPc \in [Conns -> {"none", "held", "sending"}]
    /\ misused \subseteq Sends \cup {"removeConnection", "channel", "dead loop"}

(* newConnection, removeConnectionInLoop, the destructor, and the raw      *)
(* pointers in batches and functors: while a loop polls a channel, the     *)
(* connection that owns it exists.  What is gone is used only in these     *)
(* cases.  A channel of the current batch, if a handler of the base loop   *)
(* destroys the server.  A connection, by a sendInLoop queued before the   *)
(* server let go of it, if the server is destroyed while its loop runs and *)
(* has no subloops; else connectDestroyed, which keeps the connection, is  *)
(* queued behind.  (One queued later is not told.)  The server, by a       *)
(* removeConnection, if it is destroyed while its loop runs, and has       *)
(* subloops or is destroyed by a handler.  A connection's loop, by a       *)
(* send() of a user who keeps the connection, once ~TcpServer has begun.   *)
NoUseAfterFree ==
    /\ \A c \in Conns : registered[c] /\ Running(loopOf[c]) => Alive(c)
    /\ "channel" \in misused => dtorIn = "handler"
    /\ "sendInLoop" \in misused => dtorIn # "after" /\ numThreads = 0
    /\ "removeConnection" \in misused
         => dtorIn = "handler" \/ (dtorIn = "functor" /\ numThreads > 0)
    /\ "dead loop" \in misused => serverPc \in {"dtor", "gone"}

(* When the server and its loops are gone no connection is left but with   *)
(* users who kept it, whatever was on its way between the loops.           *)
NothingLeaks ==
    /\ TypeOK
    /\ loopPc[Base] = "stopped" => \A c \in Conns : Alive(c) => userPc[c] # "none"

(* handleClose, removeConnection and connectDestroyed, over two loops: a   *)
(* connection that has closed is let go of, while the base loop runs and   *)
(* is not caught in a ~TcpServer that waits for ever.                      *)
ClosedIsFreed ==
    \A c \in Conns :
        (state[c] = "kDisconnected")
            ~> \/ ~Alive(c) \/ userPc[c] # "none"
               \/ loopPc[Base] # "running" \/ JoinsForEver

(* ~TcpServer returns, unless the quit() it sends to a subloop comes       *)
(* before that loop has reset quit_ (EventLoop.cc:66): EventLoopThread's   *)
(* EarlyDtorReturns shows that join() then waits for ever.                 *)
DestructorReturns == (serverPc = "dtor") ~> (serverPc = "gone" \/ JoinsForEver)

(* Each connection of the server lives as ConnectionLife says: one up, one *)
(* down, and nothing after it is gone.  (For connections that nobody calls *)
(* shutdown() on; TcpConnection has the second down that may then come.)   *)
LifeOf(c) ==
    CASE loopOf[c] = Nowhere -> "none"
      [] loopOf[c] # Nowhere /\ ~Alive(c) -> "gone"
      [] Alive(c) /\ state[c] = "kConnected" -> "up"
      [] Alive(c) /\ state[c] = "kDisconnected" -> "down"
      [] OTHER -> "none"

Life == INSTANCE ConnectionLife WITH
            life <- [c \in Conns |-> LifeOf(c)],
            closing <- serverPc \in {"dtor", "gone"}

ImplementsLife == Life!Spec
=============================================================================
