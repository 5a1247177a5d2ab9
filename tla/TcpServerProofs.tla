--------------------------- MODULE TcpServerProofs ---------------------------
(***************************************************************************)
(* Proofs about TcpServer, for any connections, users and numbers of       *)
(* subloops: no object is used after it is freed but in the ways that      *)
(* NoUseAfterFree leaves open, nothing leaks, and every connection lives   *)
(* as ConnectionLife says.                                                 *)
(***************************************************************************)
EXTENDS TcpServer, TLAPS

Ops == Shared \cup Sends
FunctorType == [op : Ops, conn : Conns]

(* The functors of connection c in a queue: one is there, there is at most *)
(* one, and each has connectDestroyed behind it.                           *)
Is(f, op, c) == f.op = op /\ f.conn = c
Has(q, op, c) == \E i \in 1..Len(q) : Is(q[i], op, c)
Once(q, op, c) ==
    \A i, j \in 1..Len(q) : Is(q[i], op, c) /\ Is(q[j], op, c) => i = j
Covered(q, op, c) ==
    \A i \in 1..Len(q) : Is(q[i], op, c) =>
        \E j \in 1..Len(q) : j > i /\ Is(q[j], "connectDestroyed", c)

Types ==
    /\ TypeOK
    /\ dtorIn \in {"after", "functor", "handler"}
    /\ queue \in [LoopIds -> Seq(FunctorType)]

(* The server, its destructor and its loops.                               *)
LoopInv ==
    /\ serverPc = "new" =>
          /\ next = 0 /\ \A c \in Conns : loopOf[c] = Nowhere
          /\ \A l \in LoopIds \ {Base} : loopPc[l] = "none"
    /\ loopPc[Base] \in {"running", "returned", "stopped"}
    /\ loopPc[Base] = "stopped" => serverPc = "gone"
    /\ serverPc \in {"dtor", "gone"} /\ loopPc[Base] = "running" => dtorIn # "after"
    /\ serverPc = "gone" => /\ connections = {}
                            /\ \A l \in SubLoops : loopPc[l] = "stopped"
    /\ \A l \in LoopIds \ {Base} : loopPc[l] \in {"missed", "quit", "stopped"} =>
                                      serverPc \in {"dtor", "gone"} /\ connections = {}
    /\ \A l \in LoopIds : loopPc[l] = "stopped" => queue[l] = <<>>

(* A connection's functors are on its loop, the call of removeConnection   *)
(* on the base loop.                                                       *)
Placed(c) ==
    \A l \in LoopIds :
        /\ \A op \in Ops \ {"removeConnection"} : Has(queue[l], op, c) => l = loopOf[c]
        /\ Has(queue[l], "removeConnection", c) =>
              l = Base /\ loopOf[c] # Base /\ loopOf[c] # Nowhere

(* Until it is accepted there is nothing of it.                            *)
Accepted(c) ==
    /\ loopOf[c] \in {Nowhere} \cup 0..numThreads
    /\ loopOf[c] = Nowhere =>
          c \notin connections /\ state[c] = "kConnecting" /\ userPc[c] = "none"
    /\ loopOf[c] = Base => numThreads = 0
    /\ registered[c] <=> state[c] = "kConnected"

(* connectEstablished runs once, and on a connection that will be there.   *)
Establishing(c) ==
    \A l \in LoopIds : Has(queue[l], "connectEstablished", c) =>
        /\ l # Base /\ state[c] = "kConnecting"
        /\ Once(queue[l], "connectEstablished", c)
        /\ serverPc = "started" => c \in connections
        /\ c \in connections \/ Covered(queue[l], "connectEstablished", c)

(* While its channel is registered, connections_ has it, or the functor    *)
(* that will unregister the channel.                                       *)
Up(c) ==
    state[c] = "kConnected" =>
        /\ ~Has(queue[Base], "removeConnection", c)
        /\ serverPc = "started" => c \in connections
        /\ \/ c \in connections \/ loopPc[loopOf[c]] = "stopped"
           \/ Has(queue[loopOf[c]], "connectDestroyed", c)

(* A connection is removed once, and destroyed when it is removed.         *)
Closing(c) ==
    /\ Has(queue[Base], "removeConnection", c) =>
          /\ state[c] = "kDisconnected"
          /\ Once(queue[Base], "removeConnection", c)
          /\ serverPc = "started" => c \in connections
    /\ \A l \in LoopIds : Has(queue[l], "connectDestroyed", c) =>
          c \notin connections /\ (serverPc = "started" => state[c] = "kDisconnected")

(* A send that was queued while the server had the connection has          *)
(* connectDestroyed behind it once the server lets go, but for a server    *)
(* that is destroyed on the connection's own loop.                         *)
Sending(c) ==
    /\ \A l \in LoopIds : Has(queue[l], "sendInLoop", c) =>
          \/ c \in connections \/ Covered(queue[l], "sendInLoop", c)
          \/ l = Base /\ serverPc \in {"dtor", "gone"}
    /\ userPc[c] # "none" => state[c] # "kConnecting"

ConnInv(c) ==
    Placed(c) /\ Accepted(c) /\ Establishing(c) /\ Up(c) /\ Closing(c) /\ Sending(c)

(* A channel to be handled is on a loop that polls, and registered unless  *)
(* a handler destroys the server.                                          *)
Polled(c) ==
    /\ loopOf[c] # Nowhere /\ loopPc[loopOf[c]] \in {"running", "missed", "quit"}
    /\ registered[c] \/ dtorIn = "handler"
    /\ serverPc = "dtor" /\ loopOf[c] = Base => dtorIn = "handler"

BatchInv ==
    /\ \A c \in active : Polled(c)
    /\ accepting => /\ loopPc[Base] = "running"
                    /\ serverPc \in {"dtor", "gone"} => dtorIn = "handler"

MisuseInv ==
    /\ "channel" \in misused => dtorIn = "handler"
    /\ "sendInLoop" \in misused =>
          serverPc = "gone" /\ dtorIn # "after" /\ numThreads = 0
    /\ "removeConnection" \in misused =>
          dtorIn = "handler" \/ (serverPc = "gone" /\ dtorIn # "after" /\ numThreads > 0)
    /\ "dead loop" \in misused => serverPc \in {"dtor", "gone"}

ServerInv ==
    /\ Types /\ LoopInv /\ (\A c \in Conns : ConnInv(c))
    /\ BatchInv /\ MisuseInv

-----------------------------------------------------------------------------
(* Loops.                                                                  *)

LEMMA MaxLoopNat == MaxLoop \in Nat /\ MaxLoop \in ThreadNums
                    /\ \A m \in ThreadNums : m <= MaxLoop
BY ServerAssumption DEF MaxLoop

LEMMA LoopFacts ==
    ASSUME Types
    PROVE  /\ Base \in LoopIds /\ numThreads \in Nat
           /\ SubLoops \subseteq LoopIds \ {Base}
           /\ 0..numThreads \subseteq LoopIds
           /\ Nowhere \notin LoopIds
<1>0. numThreads \in ThreadNums \cup {0}
  BY DEF Types, TypeOK
<1>1. numThreads \in Nat /\ numThreads <= MaxLoop
  BY <1>0, MaxLoopNat, ServerAssumption
<1> QED BY <1>1, MaxLoopNat DEF LoopIds, SubLoops, Base, Nowhere

-----------------------------------------------------------------------------
(* Queues.                                                                 *)

LEMMA EmptyQueue ==
    ASSUME NEW op, NEW c
    PROVE  ~Has(<<>>, op, c) /\ Once(<<>>, op, c) /\ Covered(<<>>, op, c)
BY DEF Has, Once, Covered

LEMMA TailQueue ==
    ASSUME NEW q \in Seq(FunctorType), q # <<>>, NEW op, NEW c
    PROVE  /\ Tail(q) \in Seq(FunctorType) /\ Head(q) \in FunctorType
           /\ Has(Tail(q), op, c) => Has(q, op, c)
           /\ Has(q, op, c) /\ ~Is(Head(q), op, c) => Has(Tail(q), op, c)
           /\ Is(Head(q), op, c) => Has(q, op, c)
           /\ Is(Head(q), op, c) /\ Once(q, op, c) => ~Has(Tail(q), op, c)
           /\ Once(q, op, c) => Once(Tail(q), op, c)
           /\ Covered(q, op, c) => Covered(Tail(q), op, c)
           /\ Is(Head(q), op, c) /\ Covered(q, op, c) => Has(Tail(q), "connectDestroyed", c)
<1> DEFINE t == Tail(q)
<1>1. /\ t \in Seq(FunctorType) /\ Head(q) = q[1] /\ q[1] \in FunctorType
      /\ Len(q) \in Nat /\ Len(q) > 0 /\ Len(t) = Len(q) - 1
      /\ \A i \in 1..Len(t) : t[i] = q[i + 1]
  OBVIOUS
<1>2. \A i \in 1..Len(q) : i = 1 \/ (i - 1 \in 1..Len(t) /\ t[i - 1] = q[i])
  BY <1>1
<1> HIDE DEF t
<1>3. Has(t, op, c) => Has(q, op, c)
  BY <1>1 DEF Has
<1>4. Has(q, op, c) /\ ~Is(Head(q), op, c) => Has(t, op, c)
  BY <1>1, <1>2 DEF Has
<1>5. Is(Head(q), op, c) => Has(q, op, c)
  BY <1>1 DEF Has
<1>6. Is(Head(q), op, c) /\ Once(q, op, c) => ~Has(t, op, c)
  BY <1>1 DEF Has, Once
<1>7. Once(q, op, c) => Once(t, op, c)
  BY <1>1 DEF Once
<1>8. Covered(q, op, c) => Covered(t, op, c)
  <2> SUFFICES ASSUME Covered(q, op, c), NEW i \in 1..Len(t), Is(t[i], op, c)
               PROVE  \E j \in 1..Len(t) : j > i /\ Is(t[j], "connectDestroyed", c)
    BY DEF Covered
  <2>1. i + 1 \in 1..Len(q) /\ Is(q[i + 1], op, c)
    BY <1>1
  <2>2. PICK j \in 1..Len(q) : j > i + 1 /\ Is(q[j], "connectDestroyed", c)
    BY <2>1 DEF Covered
  <2>3. j - 1 \in 1..Len(t) /\ j - 1 > i /\ Is(t[j - 1], "connectDestroyed", c)
    BY <1>1, <1>2, <2>2
  <2> QED BY <2>3
<1>9. Is(Head(q), op, c) /\ Covered(q, op, c) => Has(t, "connectDestroyed", c)
  <2> SUFFICES ASSUME Is(q[1], op, c), Covered(q, op, c)
               PROVE  Has(t, "connectDestroyed", c)
    BY <1>1
  <2>1. PICK j \in 1..Len(q) : j > 1 /\ Is(q[j], "connectDestroyed", c)
    BY <1>1 DEF Covered
  <2> QED BY <1>2, <2>1 DEF Has
<1> QED BY <1>1, <1>3, <1>4, <1>5, <1>6, <1>7, <1>8, <1>9 DEF t

LEMMA AppendQueue ==
    ASSUME NEW q \in Seq(FunctorType), NEW f \in FunctorType, NEW op, NEW c
    PROVE  /\ Append(q, f) \in Seq(FunctorType)
           /\ Has(Append(q, f), op, c) <=> Has(q, op, c) \/ Is(f, op, c)
           /\ Once(q, op, c) /\ (Is(f, op, c) => ~Has(q, op, c)) => Once(Append(q, f), op, c)
           /\ Covered(q, op, c) /\ ~Is(f, op, c) => Covered(Append(q, f), op, c)
           /\ Is(f, "connectDestroyed", c) /\ op # "connectDestroyed" =>
                Covered(Append(q, f), op, c)
<1> DEFINE a == Append(q, f)
<1>1. /\ a \in Seq(FunctorType) /\ Len(q) \in Nat /\ Len(a) = Len(q) + 1
      /\ a[Len(q) + 1] = f /\ \A i \in 1..Len(q) : a[i] = q[i]
  OBVIOUS
<1>2. \A i \in 1..Len(a) : i = Len(q) + 1 \/ i \in 1..Len(q)
  BY <1>1
<1> HIDE DEF a
<1>3. Has(a, op, c) <=> Has(q, op, c) \/ Is(f, op, c)
  BY <1>1, <1>2 DEF Has
<1>4. Once(q, op, c) /\ (Is(f, op, c) => ~Has(q, op, c)) => Once(a, op, c)
  BY <1>1, <1>2 DEF Has, Once
<1>5. Covered(q, op, c) /\ ~Is(f, op, c) => Covered(a, op, c)
  BY <1>1, <1>2 DEF Covered
<1>6. Is(f, "connectDestroyed", c) /\ op # "connectDestroyed" => Covered(a, op, c)
  BY <1>1, <1>2 DEF Covered, Is
<1> QED BY <1>1, <1>3, <1>4, <1>5, <1>6 DEF a

LEMMA FunctorFacts ==
    ASSUME NEW o \in Ops, NEW d \in Conns
    PROVE  /\ Functor(o, d) \in FunctorType
           /\ \A op, c : Is(Functor(o, d), op, c) <=> op = o /\ c = d
BY DEF Functor, FunctorType, Is

-----------------------------------------------------------------------------
(* What a change of the queues means to a connection: from Q to R.         *)

Queues == [LoopIds -> Seq(FunctorType)]

(* Its functors are where they were.                                       *)
Same(Q, R, c) ==
    \A l \in LoopIds : \A op \in Ops :
        /\ Has(R[l], op, c) <=> Has(Q[l], op, c)
        /\ Once(Q[l], op, c) => Once(R[l], op, c)
        /\ Covered(Q[l], op, c) => Covered(R[l], op, c)

Pushed(Q, l, f) == [Q EXCEPT ![l] = Append(@, f)]

LEMMA SameTransitive ==
    ASSUME NEW P, NEW Q, NEW R, NEW c, Same(P, Q, c), Same(Q, R, c)
    PROVE  Same(P, R, c)
BY DEF Same

LEMMA PushEffect ==
    ASSUME NEW Q \in Queues, NEW l \in LoopIds, NEW f \in FunctorType
    PROVE  /\ Pushed(Q, l, f) \in Queues
           /\ Pushed(Q, l, f)[l] = Append(Q[l], f)
           /\ \A k \in LoopIds \ {l} : Pushed(Q, l, f)[k] = Q[k]
           /\ Append(Q[l], f) \in Seq(FunctorType)
<1>1. Q[l] \in Seq(FunctorType)
  BY DEF Queues
<1>2. Append(Q[l], f) \in Seq(FunctorType)
  BY <1>1
<1> QED BY <1>2 DEF Queues, Pushed

LEMMA PushOther ==
    ASSUME NEW Q \in Queues, NEW l \in LoopIds, NEW o \in Ops, NEW d \in Conns,
           NEW c \in Conns \ {d}
    PROVE  Same(Q, Pushed(Q, l, Functor(o, d)), c)
<1> DEFINE R == Pushed(Q, l, Functor(o, d))
<1>1. Functor(o, d) \in FunctorType /\ \A op : ~Is(Functor(o, d), op, c)
  BY FunctorFacts
<1>2. R[l] = Append(Q[l], Functor(o, d)) /\ \A k \in LoopIds \ {l} : R[k] = Q[k]
  BY <1>1, PushEffect
<1>3. Q[l] \in Seq(FunctorType)
  BY DEF Queues
<1> HIDE DEF R
<1> SUFFICES ASSUME NEW k \in LoopIds, NEW op \in Ops
             PROVE  /\ Has(R[k], op, c) <=> Has(Q[k], op, c)
                    /\ Once(Q[k], op, c) => Once(R[k], op, c)
                    /\ Covered(Q[k], op, c) => Covered(R[k], op, c)
  BY DEF Same, R
<1>4. CASE k = l
  <2> DEFINE a == Append(Q[l], Functor(o, d))
  <2>1. /\ Has(a, op, c) <=> Has(Q[l], op, c) \/ Is(Functor(o, d), op, c)
        /\ Once(Q[l], op, c) /\ (Is(Functor(o, d), op, c) => ~Has(Q[l], op, c)) =>
              Once(a, op, c)
        /\ Covered(Q[l], op, c) /\ ~Is(Functor(o, d), op, c) => Covered(a, op, c)
    BY <1>1, <1>3, AppendQueue
  <2> HIDE DEF a
  <2> QED BY <1>1, <1>2, <1>4, <2>1 DEF a
<1>5. CASE k # l
  BY <1>2, <1>5
<1> QED BY <1>4, <1>5

LEMMA PopEffect ==
    ASSUME queue \in Queues, NEW l \in LoopIds, queue[l] # <<>>
    PROVE  /\ Popped(l) \in Queues
           /\ Popped(l)[l] = Tail(queue[l])
           /\ \A k \in LoopIds \ {l} : Popped(l)[k] = queue[k]
<1>1. queue[l] \in Seq(FunctorType)
  BY DEF Queues
<1>2. Tail(queue[l]) \in Seq(FunctorType)
  BY <1>1
<1> QED BY <1>2 DEF Queues, Popped

LEMMA PopOther ==
    ASSUME queue \in Queues, NEW l \in LoopIds, NEW o \in Ops, NEW d \in Conns,
           queue[l] # <<>>, Head(queue[l]) = Functor(o, d), NEW c \in Conns \ {d}
    PROVE  Same(queue, Popped(l), c)
<1> DEFINE R == Popped(l)
<1>1. \A op : ~Is(Head(queue[l]), op, c)
  BY FunctorFacts
<1>2. R[l] = Tail(queue[l]) /\ \A k \in LoopIds \ {l} : R[k] = queue[k]
  BY PopEffect
<1>3. queue[l] \in Seq(FunctorType)
  BY DEF Queues
<1> HIDE DEF R
<1> SUFFICES ASSUME NEW k \in LoopIds, NEW op \in Ops
             PROVE  /\ Has(R[k], op, c) <=> Has(queue[k], op, c)
                    /\ Once(queue[k], op, c) => Once(R[k], op, c)
                    /\ Covered(queue[k], op, c) => Covered(R[k], op, c)
  BY DEF Same, R
<1>4. CASE k = l
  BY <1>1, <1>2, <1>3, <1>4, TailQueue
<1>5. CASE k # l
  BY <1>2, <1>5
<1> QED BY <1>4, <1>5

(* A connection to which nothing happens.                                  *)
LEMMA ConnKept ==
    ASSUME Types, Types', NEW c \in Conns, ConnInv(c), Same(queue, queue', c),
           loopOf'[c] = loopOf[c], state'[c] = state[c], registered'[c] = registered[c],
           userPc'[c] = userPc[c], c \in connections' <=> c \in connections,
           numThreads' = numThreads \/ loopOf[c] = Nowhere,
           \/ serverPc' = serverPc \/ loopOf[c] = Nowhere
           \/ serverPc' \in {"dtor", "gone"},
           \A l \in LoopIds : loopPc[l] = "stopped" => loopPc'[l] = "stopped"
    PROVE  ConnInv(c)'
<1>0. Base \in LoopIds /\ Nowhere \notin LoopIds /\ 0..numThreads \subseteq LoopIds
  BY LoopFacts
<1>o. {"connectEstablished", "connectDestroyed", "removeConnection", "sendInLoop",
       "late sendInLoop"} = Ops
  BY DEF Ops, Shared, Sends
<1>1. Placed(c)'
  BY <1>o DEF ConnInv, Placed, Same
<1>2. Accepted(c)'
  BY <1>0 DEF ConnInv, Accepted
<1>3. loopOf[c] = Nowhere => \A l \in LoopIds : \A op \in Ops : ~Has(queue[l], op, c)
  BY <1>0, <1>o DEF ConnInv, Placed
<1>4. Establishing(c)'
  BY <1>0, <1>o, <1>3 DEF ConnInv, Establishing, Same
<1>5. Up(c)'
  BY <1>0, <1>o DEF ConnInv, Up, Same, Accepted
<1>6. Closing(c)'
  BY <1>0, <1>o, <1>3 DEF ConnInv, Closing, Same
<1>7. Sending(c)'
  BY <1>0, <1>o, <1>3 DEF ConnInv, Sending, Same, Accepted
<1> QED BY <1>1, <1>2, <1>4, <1>5, <1>6, <1>7 DEF ConnInv

(* A connection whose loop may be the one that ends, with its queue.       *)
LEMMA ConnCleared ==
    ASSUME Types, NEW c \in Conns, ConnInv(c), NEW l \in LoopIds,
           queue' = [queue EXCEPT ![l] = <<>>],
           loopPc' = [loopPc EXCEPT ![l] = "stopped"],
           UNCHANGED <<loopOf, state, registered, userPc, connections, numThreads, serverPc>>
    PROVE  ConnInv(c)'
<1>0. Base \in LoopIds /\ Nowhere \notin LoopIds /\ 0..numThreads \subseteq LoopIds
  BY LoopFacts
<1>o. {"connectEstablished", "connectDestroyed", "removeConnection", "sendInLoop",
       "late sendInLoop"} = Ops
  BY DEF Ops, Shared, Sends
<1>q. queue'[l] = <<>> /\ (\A k \in LoopIds \ {l} : queue'[k] = queue[k])
      /\ \A op : ~Has(queue'[l], op, c)
  BY EmptyQueue DEF Types
<1>p. loopPc'[l] = "stopped" /\ \A k \in LoopIds \ {l} : loopPc'[k] = loopPc[k]
  BY DEF Types, TypeOK
<1>1. Placed(c)'
  BY <1>q DEF ConnInv, Placed
<1>2. Accepted(c)'
  BY DEF ConnInv, Accepted
<1>4. Establishing(c)'
  BY <1>q DEF ConnInv, Establishing
<1>5. Up(c)'
  BY <1>0, <1>q, <1>p DEF ConnInv, Up, Accepted
<1>6. Closing(c)'
  BY <1>0, <1>q DEF ConnInv, Closing
<1>7. Sending(c)'
  BY <1>q DEF ConnInv, Sending
<1> QED BY <1>1, <1>2, <1>4, <1>5, <1>6, <1>7 DEF ConnInv

LEMMA SameReflexive ==
    ASSUME NEW Q, NEW c
    PROVE  Same(Q, Q, c)
BY DEF Same

-----------------------------------------------------------------------------
(* Types.                                                                  *)

(* getNextLoop picks one of the pool's loops.                              *)
LEMMA NextLoopFacts ==
    ASSUME Types
    PROVE  /\ NextLoop \in LoopIds /\ NextLoop \in 0..numThreads
           /\ Advance \in {0} \cup 0..(numThreads - 1)
           /\ NextLoop = Base => numThreads = 0
<1>1. numThreads \in Nat /\ next \in {0} \cup 0..(numThreads - 1)
      /\ 0..numThreads \subseteq LoopIds
  BY LoopFacts DEF Types, TypeOK
<1>2. NextLoop \in 0..numThreads /\ (NextLoop = Base => numThreads = 0)
  BY <1>1 DEF NextLoop, Base
<1> QED BY <1>1, <1>2 DEF Advance

(* A functor of connection d, in the queue of a loop it can be on.         *)
LEMMA PushTypes ==
    ASSUME Types, NEW l \in LoopIds, NEW o \in Ops, NEW d \in Conns
    PROVE  [queue EXCEPT ![l] = Append(@, Functor(o, d))] \in Queues
<1>1. Functor(o, d) \in FunctorType /\ queue \in Queues
  BY FunctorFacts DEF Types, Queues
<1> QED BY <1>1, PushEffect DEF Pushed

LEMMA OpsFacts ==
    /\ Ops = {"connectEstablished", "connectDestroyed", "removeConnection",
              "sendInLoop", "late sendInLoop"}
    /\ Sends \subseteq Ops /\ Shared \subseteq Ops
    /\ "connectEstablished" \in Ops /\ "connectDestroyed" \in Ops
    /\ "removeConnection" \in Ops /\ "sendInLoop" \in Ops
BY DEF Ops, Shared, Sends

(* The loop a functor or an event of a connection is on.                   *)
LEMMA ConnLoop ==
    ASSUME Types, NEW c \in Conns, ConnInv(c), loopOf[c] # Nowhere
    PROVE  loopOf[c] \in LoopIds /\ loopOf[c] \in 0..numThreads
BY LoopFacts DEF ConnInv, Accepted

(* The functor a loop is about to run.                                     *)
LEMMA HeadFunctor ==
    ASSUME Types, NEW l \in LoopIds, NEW o \in Ops, NEW d \in Conns, Runs(l, o, d)
    PROVE  /\ queue \in Queues /\ queue[l] \in Seq(FunctorType) /\ queue[l] # <<>>
           /\ Head(queue[l]) = Functor(o, d) /\ Is(Head(queue[l]), o, d)
           /\ Has(queue[l], o, d)
<1>1. queue \in Queues /\ queue[l] \in Seq(FunctorType) /\ queue[l] # <<>>
      /\ Head(queue[l]) = Functor(o, d)
  BY DEF Types, Queues, Runs
<1>2. Is(Functor(o, d), o, d)
  BY FunctorFacts
<1>3. Is(Head(queue[l]), o, d)
  BY <1>1, <1>2
<1>4. Has(queue[l], o, d)
  BY <1>1, <1>3, TailQueue
<1> QED BY <1>1, <1>3, <1>4

(* The steps that change nothing but the batch and what was misused.       *)
BatchOnly ==
    \/ AcceptStale \/ \E l \in LoopIds : Poll(l)
    \/ \E c \in Conns : HandleStale(c)

LEMMA BatchOnlyKeeps ==
    BatchOnly => UNCHANGED <<dtorIn, serverPc, numThreads, next, connections, loopOf,
                             state, registered, queue, loopPc, userPc>>
BY DEF BatchOnly, AcceptStale, Poll, HandleStale, poolVars, connVars

LEMMA QueueTypes ==
    ASSUME ServerInv, [Next]_vars
    PROVE  queue' \in Queues
<1>0. Types /\ queue \in Queues /\ Base \in LoopIds /\ \A c \in Conns : ConnInv(c)
  BY LoopFacts DEF ServerInv, Types, Queues
<1>1. ASSUME NEW c \in Conns, NewConnection(c) PROVE queue' \in Queues
  BY <1>0, <1>1, NextLoopFacts, PushTypes, OpsFacts DEF NewConnection
<1>2. ASSUME NEW l \in LoopIds, NEW c \in Conns,
             ConnectEstablished(l, c) \/ ConnectDestroyed(l, c) \/ SendInLoop(l, c)
      PROVE  queue' \in Queues
  BY <1>0, <1>2, PopEffect DEF ConnectEstablished, ConnectDestroyed, SendInLoop, Runs
<1>3. ASSUME NEW c \in Conns, NEW Q \in Queues, Remove(c, Q), loopOf[c] # Nowhere
      PROVE  queue' \in Queues
  <2>1. Functor("connectDestroyed", c) \in FunctorType /\ loopOf[c] \in LoopIds
    BY <1>0, <1>3, FunctorFacts, OpsFacts, ConnLoop
  <2> QED BY <1>3, <2>1, PushEffect DEF Remove, Pushed
<1>4. ASSUME NEW c \in Conns, RemoveConnectionInLoop(c) PROVE queue' \in Queues
  <2>1. Runs(Base, "removeConnection", c)
    BY <1>4 DEF RemoveConnectionInLoop
  <2>2. Popped(Base) \in Queues
    BY <1>0, <2>1, PopEffect DEF Runs
  <2>4. Has(queue[Base], "removeConnection", c)
    BY <1>0, <2>1, HeadFunctor, OpsFacts
  <2>5. loopOf[c] # Nowhere
    BY <1>0, <2>4 DEF ConnInv, Placed
  <2> QED BY <1>3, <1>4, <2>2, <2>5 DEF RemoveConnectionInLoop
<1>5. ASSUME NEW c \in Conns, HandleClose(c) PROVE queue' \in Queues
  <2>1. loopOf[c] # Nowhere
    BY <1>0, <1>5 DEF HandleClose, Closes, ConnInv, Accepted
  <2>2. CASE loopOf[c] = Base
    BY <1>0, <1>3, <1>5, <2>1, <2>2 DEF HandleClose, Closes
  <2>3. CASE loopOf[c] # Base
    BY <1>0, <1>5, <2>3, PushTypes, OpsFacts DEF HandleClose, Closes
  <2> QED BY <2>2, <2>3
<1>6. ASSUME NEW c \in Conns, DtorConnection(c) PROVE queue' \in Queues
  <2>1. loopOf[c] \in LoopIds
    BY <1>0, <1>6, ConnLoop DEF DtorConnection, ConnInv, Accepted
  <2> QED BY <1>0, <1>6, <2>1, PushTypes, OpsFacts DEF DtorConnection
<1>7. ASSUME NEW c \in Conns, SendQueue(c) PROVE queue' \in Queues
  <2>1. loopOf[c] \in LoopIds
    BY <1>0, <1>7, ConnLoop DEF SendQueue, ConnInv, Accepted
  <2>2. PICK op \in Ops : queue' = [queue EXCEPT ![loopOf[c]] = Append(@, Functor(op, c))]
    BY <1>7, OpsFacts DEF SendQueue
  <2> QED BY <1>0, <2>1, <2>2, PushTypes
<1>8. ASSUME NEW l \in LoopIds, LoopStops(l) PROVE queue' \in Queues
  BY <1>0, <1>8 DEF LoopStops, Stops, Queues
<1>9. CASE BaseDestroyed
  BY <1>0, <1>9 DEF BaseDestroyed, Queues
<1>10. ASSUME NEW c \in Conns, UserKeeps(c) \/ SendTest(c) \/ SendDead(c) \/ UserDrops(c)
       PROVE  queue' \in Queues
  BY <1>0, <1>10 DEF UserKeeps, SendTest, SendDead, UserDrops
<1>11. CASE \/ \E n \in ThreadNums : SetThreadNum(n)
            \/ Start \/ BaseReturns \/ DtorBegin \/ DtorReturns
            \/ \E l \in LoopIds : DtorQuits(l) \/ LoopEnters(l)
            \/ BatchOnly \/ UNCHANGED vars
  BY <1>0, <1>11, BatchOnlyKeeps
     DEF SetThreadNum, Start, BaseReturns, DtorBegin, DtorReturns, DtorQuits, LoopEnters, vars
<1> QED BY <1>1, <1>2, <1>4, <1>5, <1>6, <1>7, <1>8, <1>9, <1>10, <1>11
        DEF Next, Destructor, HandleBatch, BatchOnly, RunFunctor, User, Finished

LEMMA TypesStep ==
    ASSUME ServerInv, [Next]_vars
    PROVE  Types'
<1>0. Types /\ Base \in LoopIds /\ SubLoops \subseteq LoopIds
  BY LoopFacts DEF ServerInv
<1>q. queue' \in Queues
  BY QueueTypes
<1> DEFINE T == TypeOK' /\ dtorIn' \in {"after", "functor", "handler"}
<1> USE DEF Types, TypeOK
<1>1. ASSUME NEW n \in ThreadNums, SetThreadNum(n) PROVE T
  BY <1>0, <1>1 DEF SetThreadNum, connVars, batchVars, ServerInv, LoopInv
<1>2. CASE Start
  BY <1>0, <1>2 DEF Start, LoopPc, connVars, poolVars, batchVars
<1>3. ASSUME NEW c \in Conns, NewConnection(c) PROVE T
  <2>1. NextLoop \in LoopIds /\ next' \in {0} \cup 0..(numThreads' - 1)
    BY <1>0, <1>3, NextLoopFacts DEF NewConnection
  <2>2. state' \in [Conns -> {"kConnecting", "kConnected", "kDisconnected"}]
        /\ registered' \in [Conns -> BOOLEAN]
    BY <1>0, <1>3 DEF NewConnection
  <2> QED BY <1>0, <1>3, <2>1, <2>2 DEF NewConnection
<1>4. ASSUME NEW l \in LoopIds, NEW c \in Conns, ConnectEstablished(l, c) PROVE T
  BY <1>0, <1>4 DEF ConnectEstablished, poolVars, batchVars
<1>5. ASSUME NEW l \in LoopIds, NEW c \in Conns, ConnectDestroyed(l, c) PROVE T
  BY <1>0, <1>5 DEF ConnectDestroyed, poolVars, batchVars
<1>6. ASSUME NEW c \in Conns, RemoveConnectionInLoop(c) PROVE T
  BY <1>0, <1>6 DEF RemoveConnectionInLoop, Remove, connVars, poolVars, batchVars
<1>7. ASSUME NEW l \in LoopIds, NEW c \in Conns, SendInLoop(l, c) PROVE T
  BY <1>0, <1>7 DEF SendInLoop, Sends, connVars, poolVars, batchVars
<1>8. ASSUME NEW c \in Conns, HandleClose(c) PROVE T
  BY <1>0, <1>8 DEF HandleClose, Closes, Remove, poolVars
<1>9. ASSUME BaseReturns \/ BaseDestroyed PROVE T
  <2>1. CASE BaseReturns
    BY <1>0, <2>1 DEF BaseReturns, LoopPc, connVars, poolVars, batchVars
  <2>2. CASE BaseDestroyed
    BY <1>0, <2>2 DEF BaseDestroyed, LoopPc, connVars, poolVars, batchVars
  <2> QED BY <1>9, <2>1, <2>2
<1>10. CASE DtorBegin \/ DtorReturns
  BY <1>0, <1>10 DEF DtorBegin, DtorReturns, connVars, poolVars, batchVars
<1>11. ASSUME NEW c \in Conns, DtorConnection(c) PROVE T
  BY <1>0, <1>11 DEF DtorConnection, poolVars, batchVars
<1>12. ASSUME NEW l \in LoopIds, DtorQuits(l) \/ LoopStops(l) \/ LoopEnters(l) PROVE T
  BY <1>0, <1>12 DEF DtorQuits, LoopStops, Stops, LoopEnters, LoopPc, connVars, poolVars, batchVars
<1>13. ASSUME NEW c \in Conns, User(c) PROVE T
  BY <1>0, <1>13 DEF User, UserKeeps, SendTest, SendQueue, SendDead, UserDrops,
                     UserAt, userFrame, connVars, poolVars, batchVars
<1>14. CASE UNCHANGED vars
  BY <1>0, <1>14 DEF vars, connVars, poolVars, batchVars
<1>16. CASE BatchOnly
  <2>1. active' \subseteq Conns /\ accepting' \in BOOLEAN
        /\ misused' \subseteq Sends \cup {"removeConnection", "channel", "dead loop"}
    BY <1>0, <1>16 DEF BatchOnly, AcceptStale, Poll, HandleStale
  <2> QED BY <1>0, <1>16, <2>1, BatchOnlyKeeps
<1>15. T
  BY <1>1, <1>2, <1>3, <1>4, <1>5, <1>6, <1>7, <1>8, <1>9, <1>10, <1>11, <1>12, <1>13, <1>14,
     <1>16 DEF Next, Destructor, HandleBatch, BatchOnly, RunFunctor, Finished
<1> QED BY <1>15, <1>q DEF Queues

-----------------------------------------------------------------------------
(* The server and its loops.                                               *)

(* A loop that has stopped is not given any more functors.                 *)
LEMMA StoppedStaysEmpty ==
    ASSUME ServerInv, [Next]_vars, NEW l \in LoopIds, loopPc'[l] = "stopped"
    PROVE  queue'[l] = <<>>
<1>0. /\ Types /\ queue \in Queues /\ LoopInv /\ (\A c \in Conns : ConnInv(c))
      /\ Base \in LoopIds
      /\ loopPc \in [LoopIds -> LoopPc]
  BY LoopFacts DEF ServerInv, Types, TypeOK, Queues
<1>1. CASE LoopStops(l)
  BY <1>0, <1>1 DEF LoopStops, Stops, Queues
<1>2. CASE BaseDestroyed
  <2>1. /\ queue'[Base] = <<>>
        /\ \A k \in LoopIds \ {Base} : queue'[k] = queue[k] /\ loopPc'[k] = loopPc[k]
    BY <1>0, <1>2 DEF BaseDestroyed, Queues
  <2> QED BY <1>0, <2>1 DEF LoopInv
<1>3. ASSUME loopPc[l] = "stopped" PROVE queue'[l] = <<>>
  <2>0. queue[l] = <<>> /\ (l # Base => serverPc \in {"dtor", "gone"} /\ connections = {})
        /\ (l = Base => serverPc = "gone" /\ connections = {})
        /\ serverPc \in {"dtor", "gone"} /\ connections = {}
    BY <1>0, <1>3 DEF LoopInv
  <2>1. ASSUME NEW k \in LoopIds, NEW o \in Ops, NEW d \in Conns, Runs(k, o, d),
               queue' = Popped(k)
        PROVE  queue'[l] = <<>>
    <3>1. k # l
      BY <2>0, <2>1 DEF Runs
    <3> QED BY <1>0, <2>0, <2>1, <3>1, PopEffect DEF Runs
  <2>2. ASSUME NEW k \in LoopIds, NEW d \in Conns,
               \/ ConnectEstablished(k, d) \/ ConnectDestroyed(k, d) \/ SendInLoop(k, d)
        PROVE  queue'[l] = <<>>
    BY <2>1, <2>2, OpsFacts DEF ConnectEstablished, ConnectDestroyed, SendInLoop
  <2>3. ASSUME NEW d \in Conns, RemoveConnectionInLoop(d) PROVE queue'[l] = <<>>
    <3>1. serverPc = "gone"
      BY <2>0, <2>3 DEF RemoveConnectionInLoop, Runs, Running
    <3> QED BY <1>0, <2>1, <2>3, <3>1, OpsFacts DEF RemoveConnectionInLoop
  <2>4. ASSUME NEW d \in Conns, HandleClose(d) PROVE queue'[l] = <<>>
    <3>1. loopOf[d] \in LoopIds /\ loopOf[d] \in 0..numThreads /\ Running(loopOf[d])
      BY <1>0, <2>4, ConnLoop DEF HandleClose, Closes, ConnInv, Accepted
    <3>2. loopPc[loopOf[d]] # "stopped"
      BY <3>1 DEF Running
    <3>3. CASE loopOf[d] = Base
      <4>1. queue' = Pushed(queue, Base, Functor("connectDestroyed", d))
        BY <2>4, <3>3 DEF HandleClose, Closes, Remove, Pushed
      <4>2. Functor("connectDestroyed", d) \in FunctorType
        BY FunctorFacts, OpsFacts
      <4>3. \A k \in LoopIds \ {Base} : queue'[k] = queue[k]
        BY <1>0, <4>1, <4>2, PushEffect
      <4> QED BY <1>3, <2>0, <3>2, <3>3, <4>3
    <3>4. CASE loopOf[d] # Base
      <4>1. queue' = Pushed(queue, Base, Functor("removeConnection", d))
        BY <2>4, <3>4 DEF HandleClose, Closes, Pushed
      <4>2. loopOf[d] \in SubLoops
        BY <1>0, <3>1, <3>4, LoopFacts DEF SubLoops, Base
      <4>3. l # Base
        BY <1>0, <2>0, <3>2, <4>2 DEF LoopInv
      <4>4. Functor("removeConnection", d) \in FunctorType
        BY FunctorFacts, OpsFacts
      <4>5. \A k \in LoopIds \ {Base} : queue'[k] = queue[k]
        BY <1>0, <4>1, <4>4, PushEffect
      <4> QED BY <2>0, <4>3, <4>5
    <3> QED BY <3>3, <3>4
  <2>5. ASSUME NEW d \in Conns, SendQueue(d) PROVE queue'[l] = <<>>
    BY <1>0, <1>3, <2>0, <2>5 DEF SendQueue, Queues
  <2>6. ASSUME NEW k \in LoopIds, LoopStops(k) PROVE queue'[l] = <<>>
    BY <1>0, <2>0, <2>6 DEF LoopStops, Stops, Queues
  <2>7. ASSUME NEW d \in Conns, NewConnection(d) \/ DtorConnection(d) PROVE FALSE
    BY <2>0, <2>7 DEF NewConnection, DtorConnection
  <2>8. ASSUME NEW d \in Conns, UserKeeps(d) \/ SendTest(d) \/ SendDead(d) \/ UserDrops(d)
        PROVE  queue'[l] = <<>>
    BY <2>0, <2>8 DEF UserKeeps, SendTest, SendDead, UserDrops
  <2>9. CASE \/ \E n \in ThreadNums : SetThreadNum(n)
             \/ Start \/ BaseReturns \/ DtorBegin \/ DtorReturns
             \/ \E k \in LoopIds : DtorQuits(k) \/ LoopEnters(k)
             \/ BatchOnly \/ UNCHANGED vars
    BY <2>0, <2>9, BatchOnlyKeeps
       DEF SetThreadNum, Start, BaseReturns, DtorBegin, DtorReturns, DtorQuits, LoopEnters, vars
  <2> QED BY <1>2, <2>2, <2>3, <2>4, <2>5, <2>6, <2>7, <2>8, <2>9
          DEF Next, Destructor, HandleBatch, BatchOnly, RunFunctor, User, Finished
<1>4. ASSUME loopPc[l] # "stopped", ~LoopStops(l), ~BaseDestroyed PROVE FALSE
  <2>1. \/ loopPc' = loopPc
        \/ \E k \in LoopIds : k # l /\ loopPc' = [loopPc EXCEPT ![k] = "stopped"]
        \/ \E k \in LoopIds : \E v \in {"running", "missed", "quit", "returned"} :
              loopPc' = [loopPc EXCEPT ![k] = v]
        \/ loopPc' = [k \in LoopIds |-> IF k \in SubLoops THEN "starting" ELSE loopPc[k]]
    BY <1>0, <1>4, BatchOnlyKeeps DEF Next, HandleBatch, BatchOnly, LoopEnters, SetThreadNum, Start, BaseReturns, DtorBegin, Destructor,
          DtorConnection, DtorQuits, DtorReturns, NewConnection, HandleClose, Closes, User,
          UserKeeps, SendTest, SendQueue, SendDead, UserDrops, userFrame, RunFunctor,
          ConnectEstablished, ConnectDestroyed, SendInLoop, RemoveConnectionInLoop, LoopStops, Stops, Finished, vars
  <2> QED BY <1>0, <1>4, <2>1
<1> QED BY <1>1, <1>2, <1>3, <1>4

(* The steps that leave the server and the loops' control alone.           *)
LEMMA ControlKept ==
    ASSUME \/ \E l \in LoopIds : RunFunctor(l)
           \/ \E c \in Conns : HandleClose(c) \/ User(c) \/ DtorConnection(c)
           \/ BatchOnly \/ UNCHANGED vars
    PROVE  /\ UNCHANGED <<dtorIn, serverPc, numThreads, next, loopOf, loopPc>>
           /\ connections' \subseteq connections
<1>1. CASE \E l \in LoopIds : RunFunctor(l)
  BY <1>1 DEF RunFunctor, ConnectEstablished, ConnectDestroyed, SendInLoop,
              RemoveConnectionInLoop, Remove, poolVars, connVars
<1>2. ASSUME NEW c \in Conns, HandleClose(c)
      PROVE  /\ UNCHANGED <<dtorIn, serverPc, numThreads, next, loopOf, loopPc>>
             /\ connections' \subseteq connections
  BY <1>2 DEF HandleClose, Closes, Remove, poolVars
<1>3. ASSUME NEW c \in Conns, User(c)
      PROVE  /\ UNCHANGED <<dtorIn, serverPc, numThreads, next, loopOf, loopPc>>
             /\ connections' \subseteq connections
  BY <1>3 DEF User, UserKeeps, SendTest, SendQueue, SendDead, UserDrops, userFrame, poolVars,
              connVars
<1>4. ASSUME NEW c \in Conns, DtorConnection(c)
      PROVE  /\ UNCHANGED <<dtorIn, serverPc, numThreads, next, loopOf, loopPc>>
             /\ connections' \subseteq connections
  BY <1>4 DEF DtorConnection, poolVars
<1>5. CASE BatchOnly \/ UNCHANGED vars
  BY <1>5, BatchOnlyKeeps DEF vars, poolVars, connVars
<1> QED BY <1>1, <1>2, <1>3, <1>4, <1>5

LEMMA LoopStep ==
    ASSUME ServerInv, [Next]_vars
    PROVE  LoopInv'
<1>0. /\ Types /\ LoopInv /\ (\A c \in Conns : ConnInv(c))
      /\ loopPc \in [LoopIds -> LoopPc]
      /\ Base \in LoopIds /\ SubLoops \subseteq LoopIds \ {Base}
  BY LoopFacts DEF ServerInv, Types, TypeOK
<1>q. \A l \in LoopIds : loopPc'[l] = "stopped" => queue'[l] = <<>>
  BY StoppedStaysEmpty
<1>1. CASE \/ \E l \in LoopIds : RunFunctor(l)
           \/ \E c \in Conns : HandleClose(c) \/ User(c) \/ DtorConnection(c)
           \/ BatchOnly \/ UNCHANGED vars
  <2>1. UNCHANGED <<dtorIn, serverPc, numThreads, next, loopOf, loopPc>>
        /\ connections' \subseteq connections
    BY <1>1, ControlKept
  <2> QED BY <1>0, <1>q, <2>1 DEF LoopInv, SubLoops
<1>2. ASSUME NEW n \in ThreadNums, SetThreadNum(n) PROVE LoopInv'
  <2>1. serverPc = "new" /\ UNCHANGED <<dtorIn, serverPc, next, connections, loopOf, loopPc>>
    BY <1>2 DEF SetThreadNum, connVars
  <2> QED BY <1>0, <1>q, <2>1 DEF LoopInv
<1>3. CASE Start
  <2>1. /\ serverPc = "new" /\ serverPc' = "started"
        /\ UNCHANGED <<dtorIn, connections>>
        /\ loopPc' = [l \in LoopIds |-> IF l \in SubLoops THEN "starting" ELSE loopPc[l]]
    BY <1>3 DEF Start
  <2>2. loopPc'[Base] = loopPc[Base]
        /\ \A l \in LoopIds \ {Base} : loopPc'[l] \in {"none", "starting"}
    BY <1>0, <2>1 DEF LoopInv
  <2> QED BY <1>0, <1>q, <2>1, <2>2 DEF LoopInv
<1>4. ASSUME NEW c \in Conns, NewConnection(c) PROVE LoopInv'
  <2>1. serverPc = "started" /\ UNCHANGED <<dtorIn, serverPc, numThreads, loopPc>>
    BY <1>4 DEF NewConnection
  <2> QED BY <1>0, <1>q, <2>1 DEF LoopInv
<1>5. CASE BaseReturns
  <2>1. /\ loopPc[Base] = "running" /\ serverPc \in {"started", "gone"}
        /\ loopPc' = [loopPc EXCEPT ![Base] = "returned"]
        /\ UNCHANGED <<dtorIn, serverPc, numThreads, next, connections, loopOf>>
    BY <1>5 DEF BaseReturns, poolVars, connVars
  <2>2. loopPc'[Base] = "returned" /\ \A l \in LoopIds \ {Base} : loopPc'[l] = loopPc[l]
    BY <1>0, <2>1
  <2> QED BY <1>0, <1>q, <2>1, <2>2 DEF LoopInv, SubLoops
<1>6. CASE DtorBegin
  <2>1. /\ serverPc = "started" /\ serverPc' = "dtor"
        /\ loopPc[Base] = "returned" \/ dtorIn # "after"
        /\ UNCHANGED <<dtorIn, numThreads, connections, loopPc>>
    BY <1>6 DEF DtorBegin, poolVars
  <2> QED BY <1>0, <1>q, <2>1 DEF LoopInv
<1>7. ASSUME NEW l \in LoopIds, DtorQuits(l) PROVE LoopInv'
  <2>1. /\ serverPc = "dtor" /\ connections = {} /\ l \in SubLoops
        /\ loopPc' = [loopPc EXCEPT ![l] = IF @ = "starting" THEN "missed" ELSE "quit"]
        /\ UNCHANGED <<dtorIn, serverPc, numThreads, connections>>
    BY <1>7 DEF DtorQuits, poolVars
  <2>2. loopPc'[Base] = loopPc[Base]
    BY <1>0, <2>1
  <2> QED BY <1>0, <1>q, <2>1, <2>2 DEF LoopInv
<1>11. ASSUME NEW l \in LoopIds, LoopEnters(l) PROVE LoopInv'
  <2>1. /\ loopPc[l] = "starting" /\ loopPc' = [loopPc EXCEPT ![l] = "running"]
        /\ UNCHANGED <<dtorIn, serverPc, numThreads, next, connections, loopOf>>
    BY <1>11 DEF LoopEnters, poolVars, connVars
  <2>2. l # Base /\ serverPc # "new"
    BY <1>0, <2>1 DEF LoopInv
  <2>3. /\ loopPc'[l] = "running" /\ \A k \in LoopIds \ {l} : loopPc'[k] = loopPc[k]
    BY <1>0, <2>1
  <2> QED BY <1>0, <1>q, <2>1, <2>2, <2>3 DEF LoopInv, SubLoops
<1>8. ASSUME NEW l \in LoopIds, LoopStops(l) PROVE LoopInv'
  <2>1. /\ loopPc[l] = "quit" /\ loopPc' = [loopPc EXCEPT ![l] = "stopped"]
        /\ UNCHANGED <<dtorIn, serverPc, numThreads, next, connections, loopOf>>
    BY <1>8 DEF LoopStops, Stops, poolVars, connVars
  <2>2. l # Base /\ serverPc \in {"dtor", "gone"} /\ connections = {}
    BY <1>0, <2>1 DEF LoopInv
  <2>3. loopPc'[Base] = loopPc[Base] /\ loopPc'[l] = "stopped"
        /\ \A k \in LoopIds \ {l} : loopPc'[k] = loopPc[k]
    BY <1>0, <2>1, <2>2
  <2> QED BY <1>0, <1>q, <2>1, <2>2, <2>3 DEF LoopInv, SubLoops
<1>9. CASE DtorReturns
  <2>1. /\ serverPc = "dtor" /\ serverPc' = "gone" /\ connections = {}
        /\ \A l \in SubLoops : loopPc[l] = "stopped"
        /\ UNCHANGED <<dtorIn, numThreads, connections, loopPc>>
    BY <1>9 DEF DtorReturns, poolVars
  <2> QED BY <1>0, <1>q, <2>1 DEF LoopInv, SubLoops
<1>10. CASE BaseDestroyed
  <2>1. /\ serverPc = "gone" /\ loopPc' = [loopPc EXCEPT ![Base] = "stopped"]
        /\ UNCHANGED <<dtorIn, serverPc, numThreads, connections>>
    BY <1>10 DEF BaseDestroyed, poolVars
  <2>2. loopPc'[Base] = "stopped" /\ \A l \in LoopIds \ {Base} : loopPc'[l] = loopPc[l]
    BY <1>0, <2>1
  <2> QED BY <1>0, <1>q, <2>1, <2>2 DEF LoopInv, SubLoops
<1> QED BY <1>1, <1>2, <1>3, <1>4, <1>5, <1>6, <1>7, <1>8, <1>9, <1>10,
        <1>11 DEF Next, Destructor, HandleBatch, BatchOnly, Finished

-----------------------------------------------------------------------------
(* What a change of the queues means to the connection whose functor it is.*)

LEMMA PushSelf ==
    ASSUME NEW Q \in Queues, NEW l \in LoopIds, NEW o \in Ops, NEW d \in Conns,
           queue' = Pushed(Q, l, Functor(o, d))
    PROVE  /\ queue' \in Queues /\ \A k \in LoopIds \ {l} : queue'[k] = Q[k]
           /\ \A op : Has(queue'[l], op, d) <=> Has(Q[l], op, d) \/ op = o
           /\ \A op : op # o /\ Once(Q[l], op, d) => Once(queue'[l], op, d)
           /\ \A op : op # o /\ Covered(Q[l], op, d) => Covered(queue'[l], op, d)
           /\ ~Has(Q[l], o, d) => Once(queue'[l], o, d)
           /\ \A op : o = "connectDestroyed" /\ op # o => Covered(queue'[l], op, d)
<1>1. Functor(o, d) \in FunctorType /\ \A op : Is(Functor(o, d), op, d) <=> op = o
  BY FunctorFacts
<1>2. /\ queue' \in Queues /\ queue'[l] = Append(Q[l], Functor(o, d))
      /\ \A k \in LoopIds \ {l} : queue'[k] = Q[k]
  BY <1>1, PushEffect
<1>3. Q[l] \in Seq(FunctorType)
  BY DEF Queues
<1> DEFINE a == Append(Q[l], Functor(o, d))
<1>4. \A op : /\ Has(a, op, d) <=> Has(Q[l], op, d) \/ Is(Functor(o, d), op, d)
              /\ Once(Q[l], op, d) /\ (Is(Functor(o, d), op, d) => ~Has(Q[l], op, d)) =>
                    Once(a, op, d)
              /\ Covered(Q[l], op, d) /\ ~Is(Functor(o, d), op, d) => Covered(a, op, d)
              /\ Is(Functor(o, d), "connectDestroyed", d) /\ op # "connectDestroyed" =>
                    Covered(a, op, d)
  BY <1>1, <1>3, AppendQueue
<1>5. ~Has(Q[l], o, d) => Once(Q[l], o, d)
  BY DEF Has, Once
<1> HIDE DEF a
<1>6. queue'[l] = a
  BY <1>2 DEF a
<1> QED BY <1>1, <1>2, <1>4, <1>5, <1>6

LEMMA PopSelf ==
    ASSUME Types, NEW l \in LoopIds, NEW o \in Ops, NEW d \in Conns, Runs(l, o, d)
    PROVE  /\ Popped(l) \in Queues /\ \A k \in LoopIds \ {l} : Popped(l)[k] = queue[k]
           /\ Has(queue[l], o, d)
           /\ \A op : Has(Popped(l)[l], op, d) => Has(queue[l], op, d)
           /\ \A op : op # o /\ Has(queue[l], op, d) => Has(Popped(l)[l], op, d)
           /\ \A op : Once(queue[l], op, d) => Once(Popped(l)[l], op, d)
           /\ \A op : Covered(queue[l], op, d) => Covered(Popped(l)[l], op, d)
           /\ Once(queue[l], o, d) => ~Has(Popped(l)[l], o, d)
           /\ Covered(queue[l], o, d) => Has(Popped(l)[l], "connectDestroyed", d)
<1>1. /\ queue \in Queues /\ queue[l] \in Seq(FunctorType) /\ queue[l] # <<>>
      /\ Head(queue[l]) = Functor(o, d) /\ Has(queue[l], o, d)
  BY HeadFunctor
<1>2. \A op : Is(Head(queue[l]), op, d) <=> op = o
  BY <1>1, FunctorFacts
<1>3. /\ Popped(l) \in Queues /\ Popped(l)[l] = Tail(queue[l])
      /\ \A k \in LoopIds \ {l} : Popped(l)[k] = queue[k]
  BY <1>1, PopEffect
<1> DEFINE q == queue[l]
           t == Tail(queue[l])
<1>4. \A op : /\ Has(t, op, d) => Has(q, op, d)
              /\ Has(q, op, d) /\ ~Is(Head(q), op, d) => Has(t, op, d)
              /\ Is(Head(q), op, d) /\ Once(q, op, d) => ~Has(t, op, d)
              /\ Once(q, op, d) => Once(t, op, d)
              /\ Covered(q, op, d) => Covered(t, op, d)
              /\ Is(Head(q), op, d) /\ Covered(q, op, d) => Has(t, "connectDestroyed", d)
  BY <1>1, TailQueue
<1>5. Popped(l)[l] = t
  BY <1>3
<1> HIDE DEF t
<1> QED BY <1>1, <1>2, <1>3, <1>4, <1>5

(* What a step about one connection leaves of another, and of the server.  *)
Untouched(c) ==
    /\ Same(queue, queue', c)
    /\ loopOf'[c] = loopOf[c] /\ state'[c] = state[c] /\ registered'[c] = registered[c]
    /\ userPc'[c] = userPc[c] /\ (c \in connections' <=> c \in connections)
    /\ UNCHANGED <<numThreads, serverPc, loopPc>>

ConnStepOf(d) ==
    \/ NewConnection(d) \/ HandleClose(d) \/ User(d) \/ DtorConnection(d)
    \/ RemoveConnectionInLoop(d)
    \/ \E l \in LoopIds : \/ ConnectEstablished(l, d) \/ ConnectDestroyed(l, d)
                           \/ SendInLoop(l, d)

LEMMA OthersUntouched ==
    ASSUME ServerInv, NEW d \in Conns, NEW c \in Conns \ {d}, ConnStepOf(d)
    PROVE  Untouched(c)
<1>0. /\ Types /\ queue \in Queues /\ ConnInv(d) /\ Base \in LoopIds
      /\ NextLoop \in LoopIds
  BY LoopFacts, NextLoopFacts DEF ServerInv, Types, Queues
<1>l. loopOf[d] # Nowhere => loopOf[d] \in LoopIds
  BY <1>0, ConnLoop
<1>p. ASSUME NEW l \in LoopIds, NEW o \in Ops, Runs(l, o, d)
      PROVE  Popped(l) \in Queues /\ Same(queue, Popped(l), c) /\ Has(queue[l], o, d)
  BY <1>0, <1>p, HeadFunctor, PopEffect, PopOther
<1>1. CASE NewConnection(d)
  <2>1. \/ queue' = queue
        \/ queue' = Pushed(queue, NextLoop, Functor("connectEstablished", d))
    BY <1>1 DEF NewConnection, Pushed
  <2>2. Same(queue, Pushed(queue, NextLoop, Functor("connectEstablished", d)), c)
    BY <1>0, PushOther, OpsFacts
  <2>3. Same(queue, queue', c)
    BY <2>1, <2>2, SameReflexive
  <2> QED BY <1>0, <1>1, <2>3 DEF NewConnection, Untouched, Types, TypeOK
<1>2. ASSUME NEW l \in LoopIds, ConnectEstablished(l, d) PROVE Untouched(c)
  <2>1. Same(queue, queue', c)
    BY <1>p, <1>2, OpsFacts DEF ConnectEstablished
  <2> QED BY <1>0, <1>2, <2>1 DEF ConnectEstablished, Untouched, Types, TypeOK, poolVars
<1>3. ASSUME NEW l \in LoopIds, ConnectDestroyed(l, d) PROVE Untouched(c)
  <2>1. Same(queue, queue', c)
    BY <1>p, <1>3, OpsFacts DEF ConnectDestroyed
  <2> QED BY <1>0, <1>3, <2>1 DEF ConnectDestroyed, Untouched, Types, TypeOK, poolVars
<1>4. ASSUME NEW l \in LoopIds, SendInLoop(l, d) PROVE Untouched(c)
  <2>1. Same(queue, queue', c)
    BY <1>p, <1>4, OpsFacts DEF SendInLoop
  <2> QED BY <1>0, <1>4, <2>1 DEF SendInLoop, Untouched, poolVars, connVars
<1>5. CASE RemoveConnectionInLoop(d)
  <2> DEFINE P == Popped(Base)
  <2>1. P \in Queues /\ Same(queue, P, c) /\ Has(queue[Base], "removeConnection", d)
    BY <1>0, <1>p, <1>5, OpsFacts DEF RemoveConnectionInLoop
  <2>2. loopOf[d] \in LoopIds
    BY <1>0, <1>l, <2>1 DEF ConnInv, Placed
  <2>3. \/ queue' = P /\ connections' = connections
        \/ /\ connections' = connections \ {d}
           /\ queue' = Pushed(P, loopOf[d], Functor("connectDestroyed", d))
    BY <1>5 DEF RemoveConnectionInLoop, Remove, Pushed
  <2> HIDE DEF P
  <2>4. Same(P, Pushed(P, loopOf[d], Functor("connectDestroyed", d)), c)
    BY <2>1, <2>2, PushOther, OpsFacts
  <2>5. Same(queue, queue', c)
    BY <2>1, <2>3, <2>4, SameTransitive
  <2> QED BY <1>5, <2>3, <2>5 DEF RemoveConnectionInLoop, Untouched, poolVars, connVars
<1>6. CASE HandleClose(d)
  <2>1. \/ connections' = connections \ {d}
           /\ queue' = Pushed(queue, Base, Functor("connectDestroyed", d))
        \/ connections' = connections
           /\ queue' = Pushed(queue, Base, Functor("removeConnection", d))
    BY <1>6 DEF HandleClose, Closes, Remove, Pushed
  <2>2. \A o \in Ops : Same(queue, Pushed(queue, Base, Functor(o, d)), c)
    BY <1>0, PushOther
  <2>3. Same(queue, queue', c)
    BY <2>1, <2>2, OpsFacts
  <2> QED BY <1>0, <1>6, <2>1, <2>3
          DEF HandleClose, Closes, Untouched, Types, TypeOK, poolVars
<1>7. CASE DtorConnection(d)
  <2>1. loopOf[d] \in LoopIds
    BY <1>0, <1>l, <1>7 DEF DtorConnection, ConnInv, Accepted
  <2>2. \/ queue' = queue
        \/ queue' = Pushed(queue, loopOf[d], Functor("connectDestroyed", d))
    BY <1>7 DEF DtorConnection, Pushed
  <2>3. Same(queue, Pushed(queue, loopOf[d], Functor("connectDestroyed", d)), c)
    BY <1>0, <2>1, PushOther, OpsFacts
  <2>4. Same(queue, queue', c)
    BY <2>2, <2>3, SameReflexive
  <2> QED BY <1>0, <1>7, <2>4 DEF DtorConnection, Untouched, Types, TypeOK, poolVars
<1>8. CASE User(d)
  <2>1. Same(queue, queue', c)
    <3>1. CASE SendQueue(d)
      <4>1. loopOf[d] \in LoopIds
        BY <1>0, <1>l, <3>1 DEF SendQueue, ConnInv, Accepted
      <4>2. PICK o \in Ops : queue' = Pushed(queue, loopOf[d], Functor(o, d))
        BY <3>1, OpsFacts DEF SendQueue, Pushed
      <4> QED BY <1>0, <4>1, <4>2, PushOther
    <3>2. CASE queue' = queue
      BY <3>2, SameReflexive
    <3> QED BY <1>8, <3>1, <3>2 DEF User, UserKeeps, SendTest, SendDead, UserDrops
  <2>2. userPc'[c] = userPc[c]
    BY <1>0, <1>8 DEF User, UserKeeps, SendTest, SendQueue, SendDead, UserDrops, UserAt,
                      Types, TypeOK
  <2>3. UNCHANGED <<numThreads, serverPc, loopPc, loopOf, state, registered, connections>>
    BY <1>8 DEF User, UserKeeps, SendTest, SendQueue, SendDead, UserDrops, userFrame, poolVars,
                connVars
  <2> QED BY <2>1, <2>2, <2>3 DEF Untouched
<1> QED BY <1>1, <1>2, <1>3, <1>4, <1>5, <1>6, <1>7, <1>8 DEF ConnStepOf

-----------------------------------------------------------------------------
(* One connection's steps.                                                 *)

LEMMA NewConnectionStep ==
    ASSUME ServerInv, Types', NEW d \in Conns, NewConnection(d)
    PROVE  ConnInv(d)'
<1>0. /\ Types /\ queue \in Queues /\ ConnInv(d) /\ NextLoop \in LoopIds
      /\ NextLoop \in 0..numThreads /\ Base \in LoopIds /\ Nowhere \notin LoopIds
      /\ NextLoop = Base => numThreads = 0
  BY LoopFacts, NextLoopFacts DEF ServerInv, Types, Queues
<1>1. /\ serverPc = "started" /\ loopOf[d] = Nowhere
      /\ loopOf' = [loopOf EXCEPT ![d] = NextLoop]
      /\ connections' = connections \cup {d}
      /\ UNCHANGED <<serverPc, numThreads, loopPc, userPc>>
  BY DEF NewConnection
<1>2. \/ /\ NextLoop = Base /\ queue' = queue
         /\ state' = [state EXCEPT ![d] = "kConnected"]
         /\ registered' = [registered EXCEPT ![d] = TRUE]
      \/ /\ NextLoop # Base
         /\ queue' = Pushed(queue, NextLoop, Functor("connectEstablished", d))
         /\ UNCHANGED <<state, registered>>
  BY DEF NewConnection, Pushed
<1> QED
  <2>1. loopOf'[d] = NextLoop /\ loopOf'[d] # Nowhere /\ d \in connections'
    BY <1>0, <1>1 DEF Types, TypeOK
  <2>2. \A l \in LoopIds : \A op \in Ops : ~Has(queue[l], op, d)
    BY <1>0, <1>1 DEF ConnInv, Placed
  <2>3. state[d] = "kConnecting" /\ userPc'[d] = "none"
    BY <1>0, <1>1 DEF ConnInv, Accepted
  <2>4. CASE NextLoop = Base
    <3>1. queue' = queue /\ state'[d] = "kConnected" /\ registered'[d] = TRUE
      BY <1>0, <1>2, <2>4 DEF Types, TypeOK
    <3>2. Placed(d)' /\ Establishing(d)' /\ Closing(d)'
      BY <1>0, <2>2, <3>1, OpsFacts DEF Placed, Establishing, Closing
    <3>3. Accepted(d)'
      BY <1>0, <1>1, <2>1, <3>1 DEF Accepted
    <3>4. Up(d)' /\ Sending(d)'
      BY <1>0, <2>1, <2>2, <2>3, <3>1, OpsFacts DEF Up, Sending
    <3> QED BY <3>2, <3>3, <3>4 DEF ConnInv
  <2>5. CASE NextLoop # Base
    <3>1. queue' = Pushed(queue, NextLoop, Functor("connectEstablished", d))
          /\ state'[d] = "kConnecting" /\ registered'[d] = registered[d]
      BY <1>0, <1>2, <2>3, <2>5
    <3>2. /\ \A k \in LoopIds \ {NextLoop} : queue'[k] = queue[k]
          /\ \A op : Has(queue'[NextLoop], op, d) <=>
                        Has(queue[NextLoop], op, d) \/ op = "connectEstablished"
          /\ ~Has(queue[NextLoop], "connectEstablished", d) =>
                Once(queue'[NextLoop], "connectEstablished", d)
      BY <1>0, <3>1, PushSelf, OpsFacts
    <3>3. \A l \in LoopIds : \A op \in Ops :
             Has(queue'[l], op, d) => l = NextLoop /\ op = "connectEstablished"
      BY <2>2, <3>2
    <3>4. Once(queue'[NextLoop], "connectEstablished", d)
      BY <1>0, <2>2, <3>2, OpsFacts
    <3>5. registered'[d] <=> state'[d] = "kConnected"
      BY <1>0, <2>3, <3>1 DEF ConnInv, Accepted
    <3>6. Placed(d)'
      BY <2>1, <3>3, OpsFacts DEF Placed
    <3>7. Accepted(d)'
      BY <1>0, <1>1, <2>1, <3>5 DEF Accepted
    <3>8. Establishing(d)'
      BY <2>1, <2>5, <3>1, <3>3, <3>4, OpsFacts DEF Establishing
    <3>9. Up(d)' /\ Closing(d)' /\ Sending(d)'
      BY <1>0, <2>3, <3>1, <3>3, OpsFacts DEF Up, Closing, Sending
    <3> QED BY <3>6, <3>7, <3>8, <3>9 DEF ConnInv
  <2> QED BY <2>4, <2>5

LEMMA ConnectEstablishedStep ==
    ASSUME ServerInv, Types', NEW l \in LoopIds, NEW d \in Conns,
           ConnectEstablished(l, d)
    PROVE  ConnInv(d)'
<1>0. /\ Types /\ queue \in Queues /\ ConnInv(d) /\ Base \in LoopIds
      /\ Nowhere \notin LoopIds
  BY LoopFacts DEF ServerInv, Types, Queues
<1>1. /\ Runs(l, "connectEstablished", d) /\ queue' = Popped(l)
      /\ state' = [state EXCEPT ![d] = "kConnected"]
      /\ registered' = [registered EXCEPT ![d] = TRUE]
      /\ UNCHANGED <<serverPc, numThreads, connections, loopOf, loopPc, userPc>>
  BY DEF ConnectEstablished, poolVars
<1> QED
  <2>1. /\ \A k \in LoopIds \ {l} : queue'[k] = queue[k]
        /\ Has(queue[l], "connectEstablished", d)
        /\ \A op : Has(queue'[l], op, d) => Has(queue[l], op, d)
        /\ \A op : Covered(queue[l], op, d) => Covered(queue'[l], op, d)
        /\ Once(queue[l], "connectEstablished", d) => ~Has(queue'[l], "connectEstablished", d)
        /\ Covered(queue[l], "connectEstablished", d) => Has(queue'[l], "connectDestroyed", d)
    BY <1>0, <1>1, PopSelf, OpsFacts
  <2>2. state'[d] = "kConnected" /\ registered'[d] = TRUE
    BY <1>0, <1>1 DEF Types, TypeOK
  <2>3. l = loopOf[d] /\ l # Nowhere
    BY <1>0, <2>1, OpsFacts DEF ConnInv, Placed
  <2>4. /\ l # Base /\ state[d] = "kConnecting"
        /\ Once(queue[l], "connectEstablished", d)
        /\ serverPc = "started" => d \in connections
        /\ d \in connections \/ Covered(queue[l], "connectEstablished", d)
    BY <1>0, <2>1 DEF ConnInv, Establishing
  <2>5. \A k \in LoopIds : \A op : Has(queue'[k], op, d) => Has(queue[k], op, d)
    BY <2>1
  <2>6. \A k \in LoopIds : ~Has(queue'[k], "connectEstablished", d)
    BY <1>0, <2>1, <2>3, <2>4, OpsFacts DEF ConnInv, Placed
  <2>7. ~Has(queue[Base], "removeConnection", d)
    BY <1>0, <2>4 DEF ConnInv, Closing
  <2>8. Placed(d)'
    BY <1>0, <1>1, <2>5 DEF ConnInv, Placed
  <2>9. Accepted(d)'
    BY <1>0, <1>1, <2>2, <2>3 DEF ConnInv, Accepted
  <2>10. Establishing(d)'
    BY <2>6 DEF Establishing
  <2>11. Up(d)'
    BY <1>0, <1>1, <2>1, <2>3, <2>4, <2>5, <2>7 DEF Up
  <2>12. Closing(d)'
    BY <1>0, <1>1, <2>4, <2>5, <2>7 DEF ConnInv, Closing
  <2>13. Sending(d)'
    BY <1>0, <1>1, <2>1, <2>2, <2>5 DEF ConnInv, Sending
  <2> QED BY <2>8, <2>9, <2>10, <2>11, <2>12, <2>13 DEF ConnInv

LEMMA ConnectDestroyedStep ==
    ASSUME ServerInv, Types', NEW l \in LoopIds, NEW d \in Conns,
           ConnectDestroyed(l, d)
    PROVE  ConnInv(d)'
<1>0. /\ Types /\ queue \in Queues /\ ConnInv(d) /\ Base \in LoopIds
      /\ Nowhere \notin LoopIds
  BY LoopFacts DEF ServerInv, Types, Queues
<1>1. /\ Runs(l, "connectDestroyed", d) /\ queue' = Popped(l)
      /\ state' = [state EXCEPT ![d] = IF @ = "kConnected" THEN "kDisconnected" ELSE @]
      /\ registered' = [registered EXCEPT ![d] = FALSE]
      /\ UNCHANGED <<serverPc, numThreads, connections, loopOf, loopPc, userPc>>
  BY DEF ConnectDestroyed, poolVars
<1> QED
  <2>1. /\ \A k \in LoopIds \ {l} : queue'[k] = queue[k]
        /\ Has(queue[l], "connectDestroyed", d)
        /\ \A op : Has(queue'[l], op, d) => Has(queue[l], op, d)
        /\ \A op : Covered(queue[l], op, d) => Covered(queue'[l], op, d)
        /\ \A op : Once(queue[l], op, d) => Once(queue'[l], op, d)
    BY <1>0, <1>1, PopSelf, OpsFacts
  <2>2. /\ state'[d] = (IF state[d] = "kConnected" THEN "kDisconnected" ELSE state[d])
        /\ registered'[d] = FALSE
    BY <1>0, <1>1 DEF Types, TypeOK
  <2>3. l = loopOf[d] /\ l # Nowhere
    BY <1>0, <2>1, OpsFacts DEF ConnInv, Placed
  <2>4. \A k \in LoopIds : \A op : /\ Has(queue'[k], op, d) => Has(queue[k], op, d)
                                   /\ Once(queue[k], op, d) => Once(queue'[k], op, d)
                                   /\ Covered(queue[k], op, d) => Covered(queue'[k], op, d)
    BY <2>1
  <2>5. Placed(d)'
    BY <1>0, <1>1, <2>4 DEF ConnInv, Placed
  <2>6. Accepted(d)'
    BY <1>0, <1>1, <2>2, <2>3 DEF ConnInv, Accepted
  <2>7. Establishing(d)'
    BY <1>0, <1>1, <2>2, <2>4 DEF ConnInv, Establishing
  <2>8. Up(d)'
    BY <2>2 DEF Up
  <2>9. Closing(d)'
    BY <1>0, <1>1, <2>2, <2>4 DEF ConnInv, Closing
  <2>10. Sending(d)'
    BY <1>0, <1>1, <2>2, <2>4 DEF ConnInv, Sending
  <2> QED BY <2>5, <2>6, <2>7, <2>8, <2>9, <2>10 DEF ConnInv

LEMMA SendInLoopStep ==
    ASSUME ServerInv, Types', NEW l \in LoopIds, NEW d \in Conns,
           SendInLoop(l, d)
    PROVE  ConnInv(d)'
<1>0. /\ Types /\ queue \in Queues /\ ConnInv(d) /\ Base \in LoopIds
      /\ Nowhere \notin LoopIds
  BY LoopFacts DEF ServerInv, Types, Queues
<1>1. PICK o \in Sends :
      /\ Runs(l, o, d) /\ queue' = Popped(l)
      /\ UNCHANGED <<serverPc, numThreads, connections, loopOf, state, registered, loopPc,
                     userPc>>
  BY DEF SendInLoop, poolVars, connVars
<1> QED
  <2>1. /\ \A k \in LoopIds \ {l} : queue'[k] = queue[k]
        /\ \A op : Has(queue'[l], op, d) => Has(queue[l], op, d)
        /\ \A op : op # o /\ Has(queue[l], op, d) => Has(queue'[l], op, d)
        /\ \A op : Covered(queue[l], op, d) => Covered(queue'[l], op, d)
        /\ \A op : Once(queue[l], op, d) => Once(queue'[l], op, d)
    BY <1>0, <1>1, PopSelf, OpsFacts
  <2>2. \A k \in LoopIds : \A op : /\ Has(queue'[k], op, d) => Has(queue[k], op, d)
                                   /\ op # o /\ Has(queue[k], op, d) => Has(queue'[k], op, d)
                                   /\ Once(queue[k], op, d) => Once(queue'[k], op, d)
                                   /\ Covered(queue[k], op, d) => Covered(queue'[k], op, d)
    BY <2>1
  <2>3. "connectDestroyed" # o
    BY DEF Sends
  <2>4. Placed(d)'
    BY <1>0, <1>1, <2>2 DEF ConnInv, Placed
  <2>5. Accepted(d)'
    BY <1>0, <1>1 DEF ConnInv, Accepted
  <2>6. Establishing(d)'
    BY <1>0, <1>1, <2>2 DEF ConnInv, Establishing
  <2>7. Up(d)'
    <3>1. state[d] = "kConnected" => loopOf[d] \in LoopIds
      BY <1>0, ConnLoop DEF ConnInv, Accepted
    <3> QED BY <1>0, <1>1, <2>2, <2>3, <3>1 DEF ConnInv, Up
  <2>8. Closing(d)'
    BY <1>0, <1>1, <2>2 DEF ConnInv, Closing
  <2>9. Sending(d)'
    BY <1>0, <1>1, <2>2 DEF ConnInv, Sending
  <2> QED BY <2>4, <2>5, <2>6, <2>7, <2>8, <2>9 DEF ConnInv

LEMMA RemoveConnectionStep ==
    ASSUME ServerInv, Types', NEW d \in Conns, RemoveConnectionInLoop(d)
    PROVE  ConnInv(d)'
<1>0. /\ Types /\ queue \in Queues /\ ConnInv(d) /\ Base \in LoopIds
      /\ Nowhere \notin LoopIds /\ LoopInv /\ loopOf[d] \in LoopIds \cup {Nowhere}
  BY LoopFacts DEF ServerInv, Types, TypeOK, Queues
<1> DEFINE P == Popped(Base)
<1>1. /\ Runs(Base, "removeConnection", d)
      /\ UNCHANGED <<serverPc, numThreads, loopOf, state, registered, loopPc, userPc>>
  BY DEF RemoveConnectionInLoop, poolVars, connVars
<1>2. /\ P \in Queues /\ \A k \in LoopIds \ {Base} : P[k] = queue[k]
      /\ Has(queue[Base], "removeConnection", d)
      /\ \A op : Has(P[Base], op, d) => Has(queue[Base], op, d)
      /\ \A op : op # "removeConnection" /\ Has(queue[Base], op, d) => Has(P[Base], op, d)
      /\ \A op : Once(queue[Base], op, d) => Once(P[Base], op, d)
      /\ \A op : Covered(queue[Base], op, d) => Covered(P[Base], op, d)
      /\ Once(queue[Base], "removeConnection", d) => ~Has(P[Base], "removeConnection", d)
  BY <1>0, <1>1, PopSelf, OpsFacts
<1>3. /\ loopOf[d] # Base /\ loopOf[d] # Nowhere /\ loopOf[d] \in LoopIds
      /\ state[d] = "kDisconnected" /\ ~Has(P[Base], "removeConnection", d)
      /\ serverPc = "started" => d \in connections
  BY <1>0, <1>2 DEF ConnInv, Placed, Closing
<1>5. \A k \in LoopIds : \A op : /\ Has(P[k], op, d) => Has(queue[k], op, d)
                                 /\ Once(queue[k], op, d) => Once(P[k], op, d)
                                 /\ Covered(queue[k], op, d) => Covered(P[k], op, d)
  BY <1>2
<1>6. \/ queue' = P /\ connections' = connections
      \/ /\ serverPc # "gone" /\ connections' = connections \ {d}
         /\ queue' = Pushed(P, loopOf[d], Functor("connectDestroyed", d))
  BY DEF RemoveConnectionInLoop, Remove, Pushed
<1> HIDE DEF P
<1>8. CASE queue' = P /\ connections' = connections
  <2>1. Placed(d)'
    BY <1>0, <1>1, <1>5, <1>8 DEF ConnInv, Placed
  <2>2. Accepted(d)'
    BY <1>0, <1>1, <1>8 DEF ConnInv, Accepted
  <2>3. Establishing(d)' /\ Up(d)'
    BY <1>0, <1>1, <1>3, <1>5, <1>8 DEF ConnInv, Establishing, Up
  <2>4. Closing(d)'
    BY <1>0, <1>1, <1>3, <1>5, <1>8 DEF ConnInv, Closing
  <2>5. Sending(d)'
    BY <1>0, <1>1, <1>5, <1>8 DEF ConnInv, Sending
  <2> QED BY <1>8, <2>1, <2>2, <2>3, <2>4, <2>5 DEF ConnInv
<1>9. CASE /\ connections' = connections \ {d}
           /\ queue' = Pushed(P, loopOf[d], Functor("connectDestroyed", d))
  <2>1. /\ \A k \in LoopIds \ {loopOf[d]} : queue'[k] = P[k]
        /\ \A op : Has(queue'[loopOf[d]], op, d) <=>
                      Has(P[loopOf[d]], op, d) \/ op = "connectDestroyed"
        /\ \A op : op # "connectDestroyed" /\ Once(P[loopOf[d]], op, d) =>
                      Once(queue'[loopOf[d]], op, d)
        /\ \A op : op # "connectDestroyed" => Covered(queue'[loopOf[d]], op, d)
    BY <1>2, <1>3, <1>9, PushSelf, OpsFacts
  <2>2. \A k \in LoopIds : \A op :
           op # "connectDestroyed" /\ Has(queue'[k], op, d) => Has(queue[k], op, d)
    BY <1>5, <2>1
  <2>3. \A k \in LoopIds : Has(queue'[k], "connectDestroyed", d) => k = loopOf[d]
    BY <1>0, <1>5, <2>1, OpsFacts DEF ConnInv, Placed
  <2>4. Placed(d)'
    <3>1. Placed(d) /\ loopOf'[d] = loopOf[d]
      BY <1>0, <1>1 DEF ConnInv
    <3>2. ASSUME NEW k \in LoopIds, NEW op \in Ops \ {"removeConnection"},
                 Has(queue'[k], op, d)
          PROVE  k = loopOf[d]
      BY <2>2, <2>3, <3>1, <3>2 DEF Placed
    <3>3. ASSUME NEW k \in LoopIds, Has(queue'[k], "removeConnection", d)
          PROVE  k = Base /\ loopOf[d] # Base /\ loopOf[d] # Nowhere
      BY <2>2, <3>1, <3>3 DEF Placed
    <3> QED BY <3>1, <3>2, <3>3 DEF Placed
  <2>5. Accepted(d)'
    BY <1>0, <1>1, <1>9 DEF ConnInv, Accepted
  <2>6. Establishing(d)' /\ Up(d)'
    BY <1>0, <1>1, <1>3, <2>2 DEF ConnInv, Establishing, Up
  <2>7. ~Has(queue'[Base], "removeConnection", d)
    BY <1>0, <1>3, <2>1
  <2>8. Closing(d)'
    BY <1>1, <1>3, <1>9, <2>7 DEF Closing
  <2>9. Sending(d)'
    <3>1. \A k \in LoopIds : Has(queue'[k], "sendInLoop", d) =>
             Covered(queue'[k], "sendInLoop", d)
      BY <1>0, <2>1, <2>2, OpsFacts DEF ConnInv, Placed, Sending
    <3> QED BY <1>0, <1>1, <3>1 DEF ConnInv, Sending
  <2> QED BY <1>9, <2>4, <2>5, <2>6, <2>8, <2>9 DEF ConnInv
<1> QED BY <1>6, <1>8, <1>9

LEMMA HandleCloseStep ==
    ASSUME ServerInv, Types', NEW d \in Conns, HandleClose(d)
    PROVE  ConnInv(d)'
<1>0. /\ Types /\ queue \in Queues /\ ConnInv(d) /\ Base \in LoopIds
      /\ Nowhere \notin LoopIds /\ LoopInv
  BY LoopFacts DEF ServerInv, Types, TypeOK, Queues
<1>1. /\ registered[d]
      /\ state' = [state EXCEPT ![d] = "kDisconnected"]
      /\ registered' = [registered EXCEPT ![d] = FALSE]
      /\ UNCHANGED <<serverPc, numThreads, loopOf, loopPc, userPc>>
  BY DEF HandleClose, Closes, poolVars
<1>2. \/ /\ loopOf[d] = Base /\ connections' = connections \ {d}
         /\ queue' = Pushed(queue, Base, Functor("connectDestroyed", d))
      \/ /\ loopOf[d] # Base /\ connections' = connections
         /\ queue' = Pushed(queue, Base, Functor("removeConnection", d))
  BY DEF HandleClose, Closes, Remove, Pushed
<1> QED
  <2>1. state[d] = "kConnected" /\ loopOf[d] # Nowhere
    BY <1>0, <1>1 DEF ConnInv, Accepted
  <2>2. state'[d] = "kDisconnected" /\ registered'[d] = FALSE
    BY <1>0, <1>1 DEF Types, TypeOK
  <2>3. ~Has(queue[Base], "removeConnection", d) /\ (serverPc = "started" => d \in connections)
    BY <1>0, <2>1 DEF ConnInv, Up
  <2>4. \A k \in LoopIds : ~Has(queue[k], "connectEstablished", d)
    BY <1>0, <2>1 DEF ConnInv, Establishing
  <2>5. Accepted(d)'
    BY <1>0, <1>1, <2>1, <2>2 DEF ConnInv, Accepted
  <2>6. Up(d)'
    BY <2>2 DEF Up
  <2>7. CASE loopOf[d] = Base
    <3>1. connections' = connections \ {d}
          /\ queue' = Pushed(queue, Base, Functor("connectDestroyed", d))
      BY <1>2, <2>7
    <3>2. /\ \A k \in LoopIds \ {Base} : queue'[k] = queue[k]
          /\ \A op : Has(queue'[Base], op, d) <=>
                        Has(queue[Base], op, d) \/ op = "connectDestroyed"
          /\ Covered(queue'[Base], "sendInLoop", d)
      BY <1>0, <3>1, PushSelf, OpsFacts
    <3>3. Placed(d)'
      BY <1>0, <1>1, <2>7, <3>2, OpsFacts DEF ConnInv, Placed
    <3>4. Establishing(d)'
      BY <2>4, <3>2 DEF Establishing
    <3>5. Closing(d)'
      BY <1>0, <2>2, <2>3, <3>1, <3>2 DEF Closing
    <3>6. \A k \in LoopIds : Has(queue'[k], "sendInLoop", d) =>
             Covered(queue'[k], "sendInLoop", d)
      BY <1>0, <2>7, <3>2, OpsFacts DEF ConnInv, Placed
    <3>7. Sending(d)'
      BY <1>0, <1>1, <2>2, <3>6 DEF ConnInv, Sending
    <3> QED BY <2>5, <2>6, <3>3, <3>4, <3>5, <3>7 DEF ConnInv
  <2>8. CASE loopOf[d] # Base
    <3>1. connections' = connections
          /\ queue' = Pushed(queue, Base, Functor("removeConnection", d))
      BY <1>2, <2>8
    <3>2. /\ \A k \in LoopIds \ {Base} : queue'[k] = queue[k]
          /\ \A op : Has(queue'[Base], op, d) <=>
                        Has(queue[Base], op, d) \/ op = "removeConnection"
          /\ \A op : op # "removeConnection" /\ Covered(queue[Base], op, d) =>
                        Covered(queue'[Base], op, d)
          /\ ~Has(queue[Base], "removeConnection", d) =>
                Once(queue'[Base], "removeConnection", d)
      BY <1>0, <3>1, PushSelf, OpsFacts
    <3>3. Placed(d)'
      BY <1>0, <1>1, <2>1, <2>8, <3>2, OpsFacts DEF ConnInv, Placed
    <3>4. Establishing(d)'
      BY <2>4, <3>2 DEF Establishing
    <3>5. Closing(d)'
      BY <1>0, <1>1, <2>2, <2>3, <3>1, <3>2 DEF ConnInv, Closing
    <3>6. Sending(d)'
      BY <1>0, <1>1, <2>2, <3>1, <3>2 DEF ConnInv, Sending
    <3> QED BY <2>5, <2>6, <3>3, <3>4, <3>5, <3>6 DEF ConnInv
  <2> QED BY <2>7, <2>8

LEMMA DtorConnectionStep ==
    ASSUME ServerInv, Types', NEW d \in Conns, DtorConnection(d)
    PROVE  ConnInv(d)'
<1>0. /\ Types /\ queue \in Queues /\ ConnInv(d) /\ Base \in LoopIds
      /\ Nowhere \notin LoopIds
  BY LoopFacts DEF ServerInv, Types, TypeOK, Queues
<1>1. /\ serverPc = "dtor" /\ d \in connections /\ connections' = connections \ {d}
      /\ UNCHANGED <<serverPc, numThreads, loopOf, loopPc, userPc>>
  BY DEF DtorConnection, poolVars
<1>2. \/ /\ loopOf[d] = Base /\ queue' = queue
         /\ state' = [state EXCEPT ![d] = IF @ = "kConnected" THEN "kDisconnected" ELSE @]
         /\ registered' = [registered EXCEPT ![d] = FALSE]
      \/ /\ loopOf[d] # Base /\ UNCHANGED <<state, registered>>
         /\ queue' = Pushed(queue, loopOf[d], Functor("connectDestroyed", d))
  BY DEF DtorConnection, Pushed
<1>3. loopOf[d] # Nowhere /\ loopOf[d] \in LoopIds
  BY <1>0, <1>1, ConnLoop DEF ConnInv, Accepted
<1>5. CASE loopOf[d] = Base
  <2>1. /\ state'[d] = (IF state[d] = "kConnected" THEN "kDisconnected" ELSE state[d])
        /\ registered'[d] = FALSE /\ queue' = queue
    BY <1>0, <1>2, <1>5 DEF Types, TypeOK
  <2>2. \A k \in LoopIds : \A op \in {"connectEstablished", "removeConnection"} :
           ~Has(queue[k], op, d)
    BY <1>0, <1>5, OpsFacts DEF ConnInv, Placed, Establishing
  <2>3. Placed(d)'
    BY <1>0, <1>1, <2>1 DEF ConnInv, Placed
  <2>4. Accepted(d)'
    BY <1>0, <1>1, <1>3, <2>1 DEF ConnInv, Accepted
  <2>5. Establishing(d)' /\ Up(d)'
    BY <2>1, <2>2 DEF Establishing, Up
  <2>6. Closing(d)'
    BY <1>0, <1>1, <2>1, <2>2 DEF Closing
  <2>7. Sending(d)'
    BY <1>0, <1>1, <1>5, <2>1, OpsFacts DEF ConnInv, Placed, Sending
  <2> QED BY <1>5, <2>3, <2>4, <2>5, <2>6, <2>7 DEF ConnInv
<1>6. CASE loopOf[d] # Base
  <2>1. /\ state'[d] = state[d] /\ registered'[d] = registered[d]
        /\ queue' = Pushed(queue, loopOf[d], Functor("connectDestroyed", d))
    BY <1>2, <1>6
  <2>2. /\ \A k \in LoopIds \ {loopOf[d]} : queue'[k] = queue[k]
        /\ \A op : Has(queue'[loopOf[d]], op, d) <=>
                      Has(queue[loopOf[d]], op, d) \/ op = "connectDestroyed"
        /\ \A op : op # "connectDestroyed" /\ Once(queue[loopOf[d]], op, d) =>
                      Once(queue'[loopOf[d]], op, d)
        /\ \A op : op # "connectDestroyed" => Covered(queue'[loopOf[d]], op, d)
    BY <1>0, <1>3, <2>1, PushSelf, OpsFacts
  <2>3. \A k \in LoopIds : \A op :
           /\ op # "connectDestroyed" /\ Has(queue'[k], op, d) => Has(queue[k], op, d)
           /\ op # "connectDestroyed" /\ Once(queue[k], op, d) => Once(queue'[k], op, d)
    BY <2>2
  <2>4. \A k \in LoopIds : \A op \in Ops \ {"removeConnection"} :
           Has(queue'[k], op, d) => k = loopOf[d]
    BY <1>0, <2>2 DEF ConnInv, Placed
  <2>5. Placed(d)'
    BY <1>0, <1>1, <2>3, <2>4 DEF ConnInv, Placed
  <2>6. Accepted(d)'
    BY <1>0, <1>1, <1>3, <2>1 DEF ConnInv, Accepted
  <2>7. Establishing(d)'
    BY <1>0, <1>1, <2>1, <2>2, <2>3, <2>4, OpsFacts DEF ConnInv, Establishing
  <2>8. Up(d)'
    BY <1>0, <1>1, <1>6, <2>1, <2>2, <2>3 DEF ConnInv, Up
  <2>9. Closing(d)'
    BY <1>0, <1>1, <2>1, <2>3 DEF ConnInv, Closing
  <2>10. Sending(d)'
    BY <1>0, <1>1, <2>1, <2>2, <2>3, <2>4, OpsFacts DEF ConnInv, Sending
  <2> QED BY <1>6, <2>5, <2>6, <2>7, <2>8, <2>9, <2>10 DEF ConnInv
<1> QED BY <1>5, <1>6

LEMMA UserStep ==
    ASSUME ServerInv, Types', NEW d \in Conns, User(d)
    PROVE  ConnInv(d)'
<1>0. /\ Types /\ queue \in Queues /\ ConnInv(d) /\ Base \in LoopIds
      /\ Nowhere \notin LoopIds /\ userPc \in [Conns -> {"none", "held", "sending"}]
  BY LoopFacts DEF ServerInv, Types, TypeOK, Queues
<1>1. UNCHANGED <<serverPc, numThreads, connections, loopOf, state, registered, loopPc>>
  BY DEF User, UserKeeps, SendTest, SendQueue, SendDead, UserDrops, userFrame, poolVars, connVars
<1>2. /\ userPc' = [userPc EXCEPT ![d] = userPc'[d]]
      /\ userPc'[d] # "none" => state[d] # "kConnecting"
      /\ loopOf[d] # Nowhere
  <2>1. CASE UserKeeps(d)
    BY <1>0, <2>1 DEF UserKeeps, UserAt, ConnInv, Accepted
  <2>2. CASE SendTest(d)
    BY <1>0, <2>2 DEF SendTest, UserAt, ConnInv, Accepted
  <2>3. CASE SendQueue(d)
    BY <1>0, <2>3 DEF SendQueue, UserAt, ConnInv, Accepted, Sending
  <2>4. CASE UserDrops(d)
    BY <1>0, <2>4 DEF UserDrops, UserAt, ConnInv, Accepted
  <2>5. CASE SendDead(d)
    BY <1>0, <2>5 DEF SendDead, UserAt, ConnInv, Accepted, Sending
  <2> QED BY <2>1, <2>2, <2>3, <2>4, <2>5 DEF User
<1>3. loopOf[d] \in LoopIds
  BY <1>0, <1>2, ConnLoop
<1>4. ASSUME NEW o \in Sends, o = "sendInLoop" <=> d \in connections,
             queue' = Pushed(queue, loopOf[d], Functor(o, d))
      PROVE  ConnInv(d)'
  <2>1. /\ \A k \in LoopIds \ {loopOf[d]} : queue'[k] = queue[k]
        /\ \A op : Has(queue'[loopOf[d]], op, d) <=> Has(queue[loopOf[d]], op, d) \/ op = o
        /\ \A op : op # o /\ Once(queue[loopOf[d]], op, d) => Once(queue'[loopOf[d]], op, d)
        /\ \A op : op # o /\ Covered(queue[loopOf[d]], op, d) =>
                      Covered(queue'[loopOf[d]], op, d)
    <3>1. o \in Ops
      BY OpsFacts
    <3> QED BY <1>0, <1>3, <1>4, <3>1, PushSelf
  <2>2. o \notin Shared /\ o \in Ops
    BY OpsFacts DEF Shared, Sends
  <2>3. \A k \in LoopIds : \A op : op # o =>
           /\ Has(queue'[k], op, d) <=> Has(queue[k], op, d)
           /\ Once(queue[k], op, d) => Once(queue'[k], op, d)
           /\ Covered(queue[k], op, d) => Covered(queue'[k], op, d)
    BY <2>1
  <2>4. \A k \in LoopIds : Has(queue'[k], o, d) => k = loopOf[d]
    BY <1>0, <2>1, <2>2 DEF ConnInv, Placed, Shared
  <2>5. Placed(d)'
    BY <1>0, <1>1, <2>2, <2>3, <2>4 DEF ConnInv, Placed, Shared
  <2>6. Accepted(d)'
    BY <1>0, <1>1, <1>2 DEF ConnInv, Accepted
  <2>7. Establishing(d)'
    BY <1>0, <1>1, <2>2, <2>3 DEF ConnInv, Establishing, Shared
  <2>8. Up(d)'
    BY <1>0, <1>1, <1>3, <2>2, <2>3 DEF ConnInv, Up, Shared
  <2>9. Closing(d)'
    BY <1>0, <1>1, <2>2, <2>3 DEF ConnInv, Closing, Shared
  <2>10. Sending(d)'
    BY <1>0, <1>1, <1>2, <1>4, <2>3, <2>4 DEF ConnInv, Sending, Sends
  <2> QED BY <2>5, <2>6, <2>7, <2>8, <2>9, <2>10 DEF ConnInv
<1>5. CASE queue' = queue
  <2>1. Placed(d)' /\ Establishing(d)' /\ Up(d)' /\ Closing(d)'
    BY <1>0, <1>1, <1>5 DEF ConnInv, Placed, Establishing, Up, Closing
  <2>2. Accepted(d)'
    BY <1>0, <1>1, <1>2 DEF ConnInv, Accepted
  <2>3. Sending(d)'
    BY <1>0, <1>1, <1>2, <1>5 DEF ConnInv, Sending
  <2> QED BY <2>1, <2>2, <2>3 DEF ConnInv
<1>6. CASE SendQueue(d)
  BY <1>4, <1>6 DEF SendQueue, Pushed
<1>7. CASE UserKeeps(d) \/ SendTest(d) \/ SendDead(d) \/ UserDrops(d)
  BY <1>5, <1>7 DEF UserKeeps, SendTest, SendDead, UserDrops
<1> QED BY <1>6, <1>7 DEF User

LEMMA ConnStep ==
    ASSUME ServerInv, [Next]_vars, NEW c \in Conns
    PROVE  ConnInv(c)'
<1>0. /\ Types /\ Types' /\ ConnInv(c) /\ LoopInv
      /\ loopPc \in [LoopIds -> LoopPc]
      /\ Base \in LoopIds /\ SubLoops \subseteq LoopIds \ {Base}
  BY LoopFacts, TypesStep DEF ServerInv, Types, TypeOK
<1>1. ASSUME UNCHANGED <<queue, connections, loopOf, state, registered, userPc>>,
             numThreads' = numThreads \/ loopOf[c] = Nowhere,
             \/ serverPc' = serverPc \/ loopOf[c] = Nowhere
             \/ serverPc' \in {"dtor", "gone"},
             \A l \in LoopIds : loopPc[l] = "stopped" => loopPc'[l] = "stopped"
      PROVE  ConnInv(c)'
  BY <1>0, <1>1, SameReflexive, ConnKept
<1>2. ASSUME NEW n \in ThreadNums, SetThreadNum(n) PROVE ConnInv(c)'
  <2>1. loopOf[c] = Nowhere
    BY <1>0, <1>2 DEF SetThreadNum, LoopInv
  <2> QED BY <1>1, <1>2, <2>1 DEF SetThreadNum, connVars
<1>3. CASE Start
  <2>1. loopOf[c] = Nowhere /\ \A l \in SubLoops : loopPc[l] = "none"
    BY <1>0, <1>3 DEF Start, LoopInv
  <2>2. \A l \in LoopIds : loopPc[l] = "stopped" => loopPc'[l] = "stopped"
    BY <1>0, <1>3, <2>1 DEF Start
  <2> QED BY <1>1, <1>3, <2>1, <2>2 DEF Start, poolVars, connVars
<1>4. CASE BaseReturns
  <2>1. \A l \in LoopIds : loopPc[l] = "stopped" => loopPc'[l] = "stopped"
    BY <1>0, <1>4 DEF BaseReturns
  <2> QED BY <1>1, <1>4, <2>1 DEF BaseReturns, poolVars, connVars
<1>5. CASE DtorBegin
  BY <1>1, <1>5 DEF DtorBegin, poolVars, connVars
<1>6. ASSUME NEW l \in LoopIds, DtorQuits(l) PROVE ConnInv(c)'
  <2>1. \A k \in LoopIds : loopPc[k] = "stopped" => loopPc'[k] = "stopped"
    BY <1>0, <1>6 DEF DtorQuits
  <2> QED BY <1>1, <1>6, <2>1 DEF DtorQuits, poolVars, connVars
<1>7. CASE DtorReturns
  BY <1>1, <1>7 DEF DtorReturns, poolVars, connVars
<1>8. ASSUME NEW l \in LoopIds, LoopStops(l) PROVE ConnInv(c)'
  BY <1>0, <1>8, ConnCleared DEF LoopStops, Stops, poolVars, connVars
<1>9. CASE BaseDestroyed
  BY <1>0, <1>9, ConnCleared DEF BaseDestroyed, poolVars, connVars
<1>10. CASE BatchOnly \/ UNCHANGED vars
  BY <1>1, <1>10, BatchOnlyKeeps DEF vars, poolVars, connVars
<1>12. ASSUME NEW l \in LoopIds, LoopEnters(l) PROVE ConnInv(c)'
  <2>1. \A k \in LoopIds : loopPc[k] = "stopped" => loopPc'[k] = "stopped"
    BY <1>0, <1>12 DEF LoopEnters
  <2> QED BY <1>1, <1>12, <2>1 DEF LoopEnters, poolVars, connVars
<1>11. ASSUME NEW d \in Conns, ConnStepOf(d) PROVE ConnInv(c)'
  <2>1. CASE c = d
    BY <1>0, <1>11, <2>1, NewConnectionStep, HandleCloseStep, UserStep, DtorConnectionStep,
       RemoveConnectionStep, ConnectEstablishedStep, ConnectDestroyedStep, SendInLoopStep
       DEF ConnStepOf
  <2>2. CASE c # d
    <3>1. Untouched(c)
      BY <1>11, <2>2, OthersUntouched
    <3> QED BY <1>0, <3>1, ConnKept DEF Untouched
  <2> QED BY <2>1, <2>2
<1> QED BY <1>2, <1>3, <1>4, <1>5, <1>6, <1>7, <1>8, <1>9, <1>10, <1>11,
        <1>12 DEF Next, Destructor, HandleBatch, BatchOnly, Finished, RunFunctor, ConnStepOf

-----------------------------------------------------------------------------
(* The object of a connection.                                             *)

LEMMA AliveIff ==
    ASSUME Types, NEW c \in Conns
    PROVE  Alive(c) <=> \/ c \in connections \/ userPc[c] # "none"
                        \/ \E l \in LoopIds : \E op \in Shared : Has(queue[l], op, c)
<1>1. ASSUME NEW l \in LoopIds
      PROVE  Queued(l, Shared, c) <=> \E op \in Shared : Has(queue[l], op, c)
  <2>1. queue[l] \in Seq(FunctorType)
    BY DEF Types
  <2>2. DOMAIN queue[l] = 1..Len(queue[l])
    BY <2>1
  <2> QED BY <2>2 DEF Queued, Has, Is
<1> QED BY <1>1 DEF Alive

-----------------------------------------------------------------------------
(* The batches, and what is gone when it is used.                          *)

(* The steps that leave the batches, and what they are about, alone.       *)
BatchVars == <<active, accepting, loopOf, registered, loopPc, dtorIn, serverPc>>

LEMMA BatchStep ==
    ASSUME ServerInv, [Next]_vars
    PROVE  BatchInv'
<1>0. /\ Types /\ BatchInv /\ LoopInv /\ Base \in LoopIds
      /\ (\A c \in Conns : ConnInv(c)) /\ (\A c \in active : Polled(c))
      /\ active \subseteq Conns /\ registered \in [Conns -> BOOLEAN]
      /\ loopOf \in [Conns -> LoopIds \cup {Nowhere}] /\ Nowhere \notin LoopIds
      /\ loopPc \in [LoopIds -> LoopPc] /\ SubLoops \subseteq LoopIds \ {Base}
  BY LoopFacts DEF ServerInv, Types, TypeOK, BatchInv
<1>u. ASSUME UNCHANGED BatchVars PROVE BatchInv'
  BY <1>0, <1>u DEF BatchInv, Polled, BatchVars
<1>1. CASE \/ \E n \in ThreadNums : SetThreadNum(n)
           \/ \E c \in Conns : User(c) \/ RemoveConnectionInLoop(c)
           \/ \E l \in LoopIds, c \in Conns : SendInLoop(l, c)
           \/ UNCHANGED vars
  BY <1>u, <1>1 DEF SetThreadNum, User, UserKeeps, SendTest, SendQueue, SendDead, UserDrops,
        userFrame, RemoveConnectionInLoop, SendInLoop, vars, connVars, batchVars, BatchVars
<1>2. CASE Start
  <2>1. /\ serverPc = "new" /\ serverPc' = "started"
        /\ loopPc'[Base] = loopPc[Base]
        /\ UNCHANGED <<active, accepting>>
    BY <1>0, <1>2 DEF Start, batchVars
  <2>2. active = {}
    BY <1>0, <2>1 DEF LoopInv, Polled
  <2> QED BY <1>0, <2>1, <2>2 DEF BatchInv
<1>3. ASSUME NEW l \in LoopIds, LoopEnters(l) PROVE BatchInv'
  <2>1. /\ loopPc[l] = "starting" /\ \A k \in LoopIds \ {l} : loopPc'[k] = loopPc[k]
        /\ UNCHANGED <<active, accepting, loopOf, registered, dtorIn, serverPc>>
    BY <1>0, <1>3 DEF LoopEnters, batchVars, connVars
  <2>2. \A c \in active : loopOf[c] \in LoopIds \ {l}
    BY <1>0, <2>1 DEF Polled
  <2> QED BY <1>0, <2>1, <2>2 DEF BatchInv, Polled, LoopInv
<1>4. ASSUME NEW l \in LoopIds, Poll(l) PROVE BatchInv'
  <2>1. UNCHANGED <<loopOf, registered, loopPc, dtorIn, serverPc>> /\ Running(l)
    BY <1>4 DEF Poll, connVars
  <2>2. \A c \in active' : c \in active \/ (registered[c] /\ loopOf[c] = l)
    BY <1>4 DEF Poll
  <2>3. accepting' => accepting \/ (l = Base /\ serverPc = "started")
    BY <1>4 DEF Poll
  <2>4. \A c \in active' : Polled(c)
    BY <1>0, <2>1, <2>2 DEF Polled, Running
  <2> QED BY <1>0, <2>1, <2>3, <2>4 DEF BatchInv, Polled, Running, LoopInv
<1>5. ASSUME NEW d \in Conns, NewConnection(d) PROVE BatchInv'
  <2>1. /\ loopOf[d] = Nowhere /\ accepting' = FALSE
        /\ \A c \in Conns \ {d} : loopOf'[c] = loopOf[c] /\ registered'[c] = registered[c]
        /\ UNCHANGED <<active, loopPc, dtorIn, serverPc>>
    BY <1>0, <1>5 DEF NewConnection
  <2>2. d \notin active
    BY <1>0, <2>1 DEF Polled
  <2> QED BY <1>0, <2>1, <2>2 DEF BatchInv, Polled
<1>6. CASE AcceptStale
  BY <1>0, <1>6 DEF AcceptStale, connVars, BatchInv, Polled
<1>7. ASSUME NEW l \in LoopIds, NEW d \in Conns, ConnectEstablished(l, d) PROVE BatchInv'
  <2>1. /\ \A c \in Conns : registered[c] => registered'[c]
        /\ UNCHANGED <<active, accepting, loopOf, loopPc, dtorIn, serverPc>>
    BY <1>0, <1>7 DEF ConnectEstablished, batchVars
  <2> QED BY <1>0, <2>1 DEF BatchInv, Polled
<1>8. ASSUME NEW l \in LoopIds, NEW d \in Conns, ConnectDestroyed(l, d) PROVE BatchInv'
  <2>1. /\ Runs(l, "connectDestroyed", d)
        /\ \A c \in Conns \ {d} : registered'[c] = registered[c]
        /\ UNCHANGED <<active, accepting, loopOf, loopPc, dtorIn, serverPc>>
    BY <1>0, <1>8 DEF ConnectDestroyed, batchVars
  <2>2. Has(queue[l], "connectDestroyed", d)
    BY <1>0, <2>1, HeadFunctor, OpsFacts
  <2>3. loopOf[d] = l
    BY <1>0, <2>2, OpsFacts DEF ConnInv, Placed
  <2>4. d \notin active
    BY <2>1, <2>3 DEF Runs, Handled
  <2> QED BY <1>0, <2>1, <2>4 DEF BatchInv, Polled
<1>9. ASSUME NEW d \in Conns, HandleClose(d) \/ HandleStale(d) PROVE BatchInv'
  <2>1. /\ active' = active \ {d}
        /\ \A c \in Conns \ {d} : registered'[c] = registered[c]
        /\ UNCHANGED <<accepting, loopOf, loopPc, dtorIn, serverPc>>
    BY <1>0, <1>9 DEF HandleClose, Closes, HandleStale, connVars
  <2> QED BY <1>0, <2>1 DEF BatchInv, Polled
<1>10. CASE BaseReturns \/ BaseDestroyed
  <2>1. /\ \A k \in LoopIds \ {Base} : loopPc'[k] = loopPc[k]
        /\ UNCHANGED <<active, accepting, loopOf, registered, dtorIn, serverPc>>
    BY <1>0, <1>10 DEF BaseReturns, BaseDestroyed, batchVars, connVars
  <2>2. ~accepting /\ \A c \in active : loopOf[c] # Base
    BY <1>0, <1>10 DEF BaseReturns, BaseDestroyed, Handled, BatchInv, Polled
  <2>3. \A c \in active : loopOf[c] \in LoopIds \ {Base}
    BY <1>0, <2>2 DEF Polled
  <2> QED BY <1>0, <2>1, <2>2, <2>3 DEF BatchInv, Polled
<1>11. CASE DtorBegin
  <2>1. UNCHANGED <<active, accepting, loopOf, registered, loopPc, dtorIn>>
    BY <1>11 DEF DtorBegin, batchVars, connVars
  <2>2. dtorIn = "handler" \/ (~accepting /\ \A c \in active : loopOf[c] # Base)
    BY <1>0, <1>11 DEF DtorBegin, Handled, BatchInv, Polled
  <2> QED BY <1>0, <2>1, <2>2 DEF BatchInv, Polled
<1>12. ASSUME NEW d \in Conns, DtorConnection(d) PROVE BatchInv'
  <2>1. /\ serverPc = "dtor"
        /\ \A c \in Conns \ {d} : registered'[c] = registered[c]
        /\ loopOf[d] = Base \/ registered'[d] = registered[d]
        /\ UNCHANGED <<active, accepting, loopOf, loopPc, dtorIn, serverPc>>
    BY <1>0, <1>12 DEF DtorConnection, batchVars
  <2>2. d \in active /\ loopOf[d] = Base => dtorIn = "handler"
    BY <1>0, <2>1 DEF Polled
  <2> QED BY <1>0, <2>1, <2>2 DEF BatchInv, Polled
<1>13. ASSUME NEW l \in LoopIds, DtorQuits(l) PROVE BatchInv'
  <2>1. /\ l # Base /\ loopPc'[l] \in {"missed", "quit"}
        /\ \A k \in LoopIds \ {l} : loopPc'[k] = loopPc[k]
        /\ UNCHANGED <<active, accepting, loopOf, registered, dtorIn, serverPc>>
    BY <1>0, <1>13 DEF DtorQuits, batchVars, connVars
  <2> QED BY <1>0, <2>1 DEF BatchInv, Polled
<1>14. ASSUME NEW l \in LoopIds, LoopStops(l) PROVE BatchInv'
  <2>1. /\ l # Base /\ Handled(l)
        /\ \A k \in LoopIds \ {l} : loopPc'[k] = loopPc[k]
        /\ UNCHANGED <<active, accepting, loopOf, registered, dtorIn, serverPc>>
    BY <1>0, <1>14 DEF LoopStops, Stops, LoopInv, batchVars, connVars
  <2>2. \A c \in active : loopOf[c] \in LoopIds \ {l}
    BY <1>0, <2>1 DEF Handled, Polled
  <2> QED BY <1>0, <2>1, <2>2 DEF BatchInv, Polled
<1>15. CASE DtorReturns
  <2>1. /\ serverPc = "dtor" /\ serverPc' = "gone"
        /\ UNCHANGED <<active, accepting, loopOf, registered, loopPc, dtorIn>>
    BY <1>15 DEF DtorReturns, batchVars, connVars
  <2> QED BY <1>0, <2>1 DEF BatchInv, Polled
<1> QED BY <1>1, <1>2, <1>3, <1>4, <1>5, <1>6, <1>7, <1>8, <1>9, <1>10, <1>11, <1>12, <1>13,
        <1>14, <1>15 DEF Next, Destructor, HandleBatch, RunFunctor, Finished

LEMMA Steady ==
    ASSUME [Next]_vars
    PROVE  /\ dtorIn' = dtorIn
           /\ serverPc = "gone" => serverPc' = "gone" /\ numThreads' = numThreads
           /\ serverPc = "dtor" => serverPc' \in {"dtor", "gone"}
<1> DEFINE Keeps == UNCHANGED <<dtorIn, serverPc, numThreads>>
<1>1. ASSUME NEW c \in Conns, User(c) \/ DtorConnection(c) PROVE Keeps
  BY <1>1 DEF User, UserKeeps, SendTest, SendQueue, SendDead, UserDrops, userFrame,
              DtorConnection, poolVars
<1>2. ASSUME NEW l \in LoopIds, RunFunctor(l) PROVE Keeps
  BY <1>2 DEF RunFunctor, ConnectEstablished, ConnectDestroyed, SendInLoop,
              RemoveConnectionInLoop, poolVars
<1>3. ASSUME NEW l \in LoopIds,
             LoopEnters(l) \/ Poll(l) \/ HandleBatch(l) \/ LoopStops(l) \/ DtorQuits(l)
      PROVE  Keeps
  BY <1>3 DEF LoopEnters, Poll, HandleBatch, HandleClose, Closes, HandleStale, AcceptStale,
              NewConnection, LoopStops, Stops, DtorQuits, poolVars
<1>4. CASE BaseReturns \/ BaseDestroyed \/ UNCHANGED vars
  BY <1>4 DEF BaseReturns, BaseDestroyed, vars, poolVars
<1>5. CASE \/ \E n \in ThreadNums : SetThreadNum(n)
           \/ Start \/ DtorBegin \/ DtorReturns
  BY <1>5 DEF SetThreadNum, Start, DtorBegin, DtorReturns, poolVars
<1> QED BY <1>1, <1>2, <1>3, <1>4, <1>5 DEF Next, Destructor, Finished

LEMMA MisuseStep ==
    ASSUME ServerInv, [Next]_vars
    PROVE  MisuseInv'
<1>0. /\ Types /\ MisuseInv /\ LoopInv /\ BatchInv /\ (\A c \in Conns : ConnInv(c))
      /\ Base \in LoopIds /\ numThreads \in Nat
  BY LoopFacts DEF ServerInv
<1>s. /\ dtorIn' = dtorIn
      /\ serverPc = "gone" => serverPc' = "gone" /\ numThreads' = numThreads
      /\ serverPc = "dtor" => serverPc' \in {"dtor", "gone"}
  BY Steady
<1>1. ASSUME misused' \subseteq misused \cup {"late sendInLoop"} PROVE MisuseInv'
  BY <1>0, <1>s, <1>1 DEF MisuseInv
<1>2. ASSUME NEW d \in Conns, RemoveConnectionInLoop(d) PROVE MisuseInv'
  <2>1. CASE serverPc # "gone"
    BY <1>1, <1>2, <2>1 DEF RemoveConnectionInLoop
  <2>2. CASE serverPc = "gone"
    <3>1. Runs(Base, "removeConnection", d) /\ misused' = misused \cup {"removeConnection"}
      BY <1>2, <2>2 DEF RemoveConnectionInLoop
    <3>2. Has(queue[Base], "removeConnection", d)
      BY <1>0, <3>1, HeadFunctor, OpsFacts
    <3>3. loopOf[d] \in 1..numThreads
      BY <1>0, <3>2, LoopFacts DEF ConnInv, Placed, Accepted, Base
    <3>4. numThreads > 0
      BY <1>0, <3>3
    <3>5. dtorIn # "after"
      BY <1>0, <2>2, <3>1 DEF LoopInv, Runs, Running
    <3> QED BY <1>0, <1>s, <2>2, <3>1, <3>4, <3>5 DEF MisuseInv
  <2> QED BY <2>1, <2>2
<1>3. ASSUME NEW l \in LoopIds, NEW d \in Conns, SendInLoop(l, d) PROVE MisuseInv'
  <2>1. PICK o \in Sends : Runs(l, o, d)
                           /\ misused' = IF Alive(d) THEN misused ELSE misused \cup {o}
    BY <1>3 DEF SendInLoop
  <2>2. CASE o = "sendInLoop" /\ ~Alive(d)
    <3>1. /\ Has(queue[l], "sendInLoop", d)
          /\ Covered(queue[l], "sendInLoop", d) => Has(Popped(l)[l], "connectDestroyed", d)
          /\ Has(Popped(l)[l], "connectDestroyed", d) => Has(queue[l], "connectDestroyed", d)
      BY <1>0, <2>1, <2>2, PopSelf, OpsFacts
    <3>2. ~(d \in connections \/ Has(queue[l], "connectDestroyed", d))
      BY <1>0, <2>2, AliveIff DEF Shared
    <3>3. l = Base /\ serverPc \in {"dtor", "gone"}
      BY <1>0, <3>1, <3>2 DEF ConnInv, Sending
    <3>4. serverPc = "gone" /\ dtorIn # "after"
      BY <1>0, <2>1, <3>3 DEF LoopInv, Runs, Running
    <3>5. numThreads = 0
      BY <1>0, <3>1, <3>3, OpsFacts DEF ConnInv, Placed, Accepted
    <3> QED BY <1>0, <1>s, <2>1, <2>2, <3>4, <3>5 DEF MisuseInv
  <2>3. CASE o = "late sendInLoop" \/ Alive(d)
    BY <1>1, <2>1, <2>3
  <2> QED BY <2>2, <2>3 DEF Sends
<1>4. CASE AcceptStale
  BY <1>0, <1>s, <1>4 DEF AcceptStale, BatchInv, MisuseInv
<1>5. ASSUME NEW d \in Conns, HandleStale(d) PROVE MisuseInv'
  <2>1. dtorIn = "handler"
    BY <1>0, <1>5 DEF HandleStale, BatchInv, Polled
  <2> QED BY <1>0, <1>s, <1>5, <2>1 DEF HandleStale, MisuseInv
<1>6. ASSUME NEW d \in Conns, SendDead(d) PROVE MisuseInv'
  <2>1. loopOf[d] \in LoopIds /\ loopPc[loopOf[d]] = "stopped"
    BY <1>0, <1>6, ConnLoop DEF SendDead, ConnInv, Accepted
  <2>2. serverPc \in {"dtor", "gone"}
    BY <1>0, <2>1 DEF LoopInv
  <2> QED BY <1>0, <1>s, <1>6, <2>2 DEF SendDead, MisuseInv
<1>7. ASSUME NEW c \in Conns,
             \/ UserKeeps(c) \/ SendTest(c) \/ SendQueue(c) \/ UserDrops(c)
             \/ DtorConnection(c) \/ NewConnection(c) \/ HandleClose(c)
             \/ \E l \in LoopIds : ConnectEstablished(l, c) \/ ConnectDestroyed(l, c)
      PROVE  UNCHANGED misused
  BY <1>7 DEF UserKeeps, SendTest, SendQueue, UserDrops, DtorConnection, NewConnection,
              HandleClose, Closes, ConnectEstablished, ConnectDestroyed
<1>8. CASE \/ \E n \in ThreadNums : SetThreadNum(n)
           \/ Start \/ BaseReturns \/ DtorBegin \/ DtorReturns \/ BaseDestroyed
           \/ \E l \in LoopIds : LoopEnters(l) \/ Poll(l) \/ LoopStops(l) \/ DtorQuits(l)
           \/ UNCHANGED vars
  <2>1. UNCHANGED misused
    BY <1>8 DEF SetThreadNum, Start, BaseReturns, DtorBegin, DtorReturns, BaseDestroyed,
                LoopEnters, Poll, LoopStops, Stops, DtorQuits, vars
  <2> QED BY <1>1, <2>1
<1> QED BY <1>1, <1>2, <1>3, <1>4, <1>5, <1>6, <1>7, <1>8
        DEF Next, Destructor, HandleBatch, RunFunctor, User, Finished

-----------------------------------------------------------------------------
LEMMA ServerInvInit ==
    ASSUME Init
    PROVE  ServerInv
<1>1. MaxLoop \in Nat /\ Base \in LoopIds
  BY MaxLoopNat DEF LoopIds, Base
<1>2. Types
  <2>1. queue \in [LoopIds -> Seq(FunctorType)]
    BY DEF Init
  <2> QED BY <1>1, <2>1 DEF Init, Types, TypeOK, LoopPc
<1>3. LoopInv
  BY <1>1 DEF Init, LoopInv, SubLoops
<1>4. ASSUME NEW c \in Conns PROVE ConnInv(c)
  <2>1. \A l \in LoopIds : \A op : ~Has(queue[l], op, c)
    BY EmptyQueue DEF Init
  <2>2. loopOf[c] = Nowhere /\ c \notin connections /\ state[c] = "kConnecting"
        /\ registered[c] = FALSE /\ userPc[c] = "none" /\ numThreads = 0
    BY DEF Init
  <2> QED BY <1>1, <2>1, <2>2
          DEF ConnInv, Placed, Accepted, Establishing, Up, Closing, Sending
<1>5. BatchInv /\ MisuseInv
  BY DEF Init, BatchInv, MisuseInv
<1> QED BY <1>2, <1>3, <1>4, <1>5 DEF ServerInv

LEMMA ServerInvStep == ServerInv /\ [Next]_vars => ServerInv'
BY TypesStep, LoopStep, ConnStep, BatchStep, MisuseStep DEF ServerInv

LEMMA ServerInvAlways == Spec => []ServerInv
<1>1. Init => ServerInv
  BY ServerInvInit
<1> QED BY <1>1, ServerInvStep, PTL DEF Spec

(* newConnection, removeConnectionInLoop, ~TcpServer, and the raw pointers *)
(* in batches and functors: a polled channel has its connection, and what  *)
(* is gone is used only in the cases NoUseAfterFree names: all but one     *)
(* need a server that is destroyed while its loop runs, the other a user   *)
(* who sends on a connection he kept when ~TcpServer has begun.            *)
THEOREM NoneUsedAfterFree == Spec => []NoUseAfterFree
<1>1. ServerInv => NoUseAfterFree
  <2> SUFFICES ASSUME ServerInv PROVE NoUseAfterFree
    OBVIOUS
  <2>1. ASSUME NEW c \in Conns, registered[c], Running(loopOf[c]) PROVE Alive(c)
    <3>1. Types /\ ConnInv(c)
      BY DEF ServerInv
    <3>2. state[c] = "kConnected" /\ loopOf[c] # Nowhere
      BY <2>1, <3>1 DEF ConnInv, Accepted
    <3>3. loopOf[c] \in LoopIds
      BY <3>1, <3>2, ConnLoop
    <3>4. c \in connections \/ Has(queue[loopOf[c]], "connectDestroyed", c)
      BY <2>1, <3>1, <3>2 DEF ConnInv, Up, Running
    <3> QED BY <3>1, <3>3, <3>4, AliveIff DEF Shared
  <2>2. MisuseInv /\ dtorIn \in {"after", "functor", "handler"}
    BY DEF ServerInv, Types
  <2> QED BY <2>1, <2>2 DEF NoUseAfterFree, MisuseInv
<1> QED BY <1>1, ServerInvAlways, PTL

(* ~TcpServer, ~EventLoopThreadPool and the loops' ends: when all are      *)
(* gone, so is every connection that no user has kept, whatever was on its *)
(* way between the loops.                                                  *)
THEOREM NoneLeaked == Spec => []NothingLeaks
<1>1. ServerInv => NothingLeaks
  <2> SUFFICES ASSUME ServerInv PROVE NothingLeaks
    OBVIOUS
  <2>0. Types /\ LoopInv /\ TypeOK
    BY DEF ServerInv, Types
  <2>1. ASSUME loopPc[Base] = "stopped", NEW c \in Conns, Alive(c) PROVE userPc[c] # "none"
    <3>1. ConnInv(c) /\ Base \in LoopIds
      BY <2>0, LoopFacts DEF ServerInv
    <3>2. serverPc = "gone" /\ connections = {} /\ queue[Base] = <<>>
          /\ \A l \in SubLoops : loopPc[l] = "stopped"
      BY <2>0, <2>1, <3>1 DEF LoopInv
    <3>3. ASSUME NEW l \in LoopIds, NEW op \in Shared, Has(queue[l], op, c) PROVE FALSE
      <4>1. l = Base \/ l = loopOf[c]
        BY <3>1, <3>3, OpsFacts DEF ConnInv, Placed
      <4>2. l = Base \/ l \in SubLoops
        BY <2>0, <3>1, <3>3, <4>1, LoopFacts DEF ConnInv, Accepted, SubLoops, Base
      <4>3. queue[l] = <<>>
        BY <2>0, <3>2, <4>2 DEF LoopInv
      <4> QED BY <3>3, <4>3, EmptyQueue
    <3> QED BY <2>0, <2>1, <3>2, <3>3, AliveIff
  <2> QED BY <2>0, <2>1 DEF NothingLeaks
<1> QED BY <1>1, ServerInvAlways, PTL

-----------------------------------------------------------------------------
(* The life of a connection.                                               *)

closingNow == serverPc \in {"dtor", "gone"}

(* What may become of a life in a step.                                    *)
Moves(from, to) ==
    \/ to = from
    \/ from = "none" /\ to = "up"
    \/ from = "up" /\ to = "down"
    \/ from = "down" /\ to = "gone"
    \/ closingNow /\ to = "gone"

StateLife(s) ==
    IF s = "kConnected" THEN "up" ELSE IF s = "kDisconnected" THEN "down" ELSE "none"

LEMMA LifeValue ==
    ASSUME NEW c \in Conns, Accepted(c)
    PROVE  LifeOf(c) = IF loopOf[c] = Nowhere THEN "none"
                       ELSE IF Alive(c) THEN StateLife(state[c]) ELSE "gone"
BY DEF LifeOf, Accepted, StateLife

LEMMA LifeValueNext ==
    ASSUME NEW c \in Conns, Accepted(c)'
    PROVE  LifeOf(c)' = IF loopOf'[c] = Nowhere THEN "none"
                        ELSE IF Alive(c)' THEN StateLife(state'[c]) ELSE "gone"
BY DEF LifeOf, Accepted, StateLife

LEMMA AliveIffNext ==
    ASSUME Types', NEW c \in Conns
    PROVE  Alive(c)' <=> \/ c \in connections' \/ userPc'[c] # "none"
                         \/ \E l \in LoopIds : \E op \in Shared : Has(queue'[l], op, c)
<1>1. ASSUME NEW l \in LoopIds
      PROVE  Queued(l, Shared, c)' <=> \E op \in Shared : Has(queue'[l], op, c)
  <2>1. queue'[l] \in Seq(FunctorType)
    BY DEF Types
  <2>2. DOMAIN queue'[l] = 1..Len(queue'[l])
    BY <2>1
  <2> QED BY <2>2 DEF Queued, Has, Is
<1> QED BY <1>1 DEF Alive

LEMMA OthersLive ==
    ASSUME Types, Types', NEW c \in Conns, Accepted(c), Accepted(c)', Untouched(c)
    PROVE  LifeOf(c)' = LifeOf(c)
<1>1. Alive(c)' <=> Alive(c)
  BY AliveIff, AliveIffNext, OpsFacts DEF Untouched, Same
<1> QED BY <1>1, LifeValue, LifeValueNext DEF Untouched

(* The steps of a connection, and what each makes of its life.             *)
LEMMA LifeMoves ==
    ASSUME ServerInv, ServerInv', NEW d \in Conns, ConnStepOf(d)
    PROVE  Moves(LifeOf(d), LifeOf(d)')
<1>0. /\ Types /\ Types' /\ queue \in Queues /\ ConnInv(d) /\ Base \in LoopIds
      /\ Accepted(d) /\ Accepted(d)' /\ NextLoop \in LoopIds /\ Nowhere \notin LoopIds
      /\ serverPc \in {"new", "started", "dtor", "gone"}
      /\ serverPc = "new" => loopOf[d] = Nowhere
  BY LoopFacts, NextLoopFacts DEF ServerInv, Types, TypeOK, Queues, ConnInv, LoopInv
<1>a. Alive(d) <=> \/ d \in connections \/ userPc[d] # "none"
                   \/ \E l \in LoopIds : \E op \in Shared : Has(queue[l], op, d)
  BY <1>0, AliveIff
<1>b. Alive(d)' <=> \/ d \in connections' \/ userPc'[d] # "none"
                    \/ \E l \in LoopIds : \E op \in Shared : Has(queue'[l], op, d)
  BY <1>0, AliveIffNext
<1>l. loopOf[d] # Nowhere => loopOf[d] \in LoopIds
  BY <1>0, ConnLoop
<1>v. LifeOf(d) = IF loopOf[d] = Nowhere THEN "none"
                  ELSE IF Alive(d) THEN StateLife(state[d]) ELSE "gone"
  BY <1>0, LifeValue
<1>w. LifeOf(d)' = IF loopOf'[d] = Nowhere THEN "none"
                   ELSE IF Alive(d)' THEN StateLife(state'[d]) ELSE "gone"
  BY <1>0, LifeValueNext
<1>k. ASSUME loopOf'[d] = loopOf[d], state'[d] = state[d], Alive(d)' <=> Alive(d)
      PROVE  Moves(LifeOf(d), LifeOf(d)')
  BY <1>v, <1>w, <1>k DEF Moves
<1>m. ASSUME loopOf[d] # Nowhere, loopOf'[d] = loopOf[d], Alive(d),
             \/ state'[d] = state[d]
                /\ (Alive(d)' \/ closingNow \/ state[d] = "kDisconnected")
             \/ state[d] = "kConnecting" /\ state'[d] = "kConnected" /\ Alive(d)'
             \/ state[d] = "kConnected" /\ state'[d] = "kDisconnected"
                /\ (Alive(d)' \/ closingNow)
      PROVE  Moves(LifeOf(d), LifeOf(d)')
  BY <1>v, <1>w, <1>m DEF Moves, StateLife
<1>p. ASSUME NEW l \in LoopIds, NEW o \in Shared, Runs(l, o, d)
      PROVE  Alive(d) /\ Has(queue[l], o, d) /\ loopOf[d] # Nowhere
  <2>1. o \in Ops /\ Has(queue[l], o, d)
    BY <1>0, <1>p, HeadFunctor, OpsFacts
  <2> QED BY <1>0, <1>a, <2>1 DEF ConnInv, Placed
<1>1. CASE NewConnection(d)
  <2>1. loopOf[d] = Nowhere /\ loopOf'[d] = NextLoop /\ d \in connections'
        /\ state'[d] \in {"kConnected", state[d]} /\ state[d] = "kConnecting"
    BY <1>0, <1>1 DEF NewConnection, Types, TypeOK, Accepted
  <2> QED BY <1>0, <1>b, <1>v, <1>w, <2>1 DEF Moves, StateLife
<1>2. ASSUME NEW l \in LoopIds, ConnectEstablished(l, d)
      PROVE  Moves(LifeOf(d), LifeOf(d)')
  <2>1. Runs(l, "connectEstablished", d) /\ queue' = Popped(l)
        /\ connections' = connections /\ loopOf' = loopOf /\ state'[d] = "kConnected"
    BY <1>0, <1>2 DEF ConnectEstablished, Types, TypeOK
  <2>2. Alive(d) /\ Has(queue[l], "connectEstablished", d) /\ loopOf[d] # Nowhere
    BY <1>p, <2>1 DEF Shared
  <2>3. /\ state[d] = "kConnecting"
        /\ d \in connections \/ Covered(queue[l], "connectEstablished", d)
    BY <1>0, <2>2 DEF ConnInv, Establishing
  <2>4. Covered(queue[l], "connectEstablished", d) => Has(queue'[l], "connectDestroyed", d)
    BY <1>0, <2>1, PopSelf, OpsFacts
  <2>5. Alive(d)'
    BY <1>b, <2>1, <2>3, <2>4 DEF Shared
  <2> QED BY <1>m, <2>1, <2>2, <2>3, <2>5
<1>3. ASSUME NEW l \in LoopIds, ConnectDestroyed(l, d)
      PROVE  Moves(LifeOf(d), LifeOf(d)')
  <2>1. Runs(l, "connectDestroyed", d) /\ loopOf' = loopOf
        /\ state'[d] = IF state[d] = "kConnected" THEN "kDisconnected" ELSE state[d]
    BY <1>0, <1>3 DEF ConnectDestroyed, Types, TypeOK
  <2>2. Alive(d) /\ Has(queue[l], "connectDestroyed", d) /\ loopOf[d] # Nowhere
    BY <1>p, <2>1 DEF Shared
  <2>3. serverPc = "started" => state[d] = "kDisconnected"
    BY <1>0, <2>2 DEF ConnInv, Closing
  <2>4. closingNow \/ state[d] = "kDisconnected"
    BY <1>0, <2>2, <2>3 DEF closingNow
  <2> QED BY <1>m, <2>1, <2>2, <2>4
<1>4. ASSUME NEW l \in LoopIds, SendInLoop(l, d)
      PROVE  Moves(LifeOf(d), LifeOf(d)')
  <2>1. PICK o \in Sends : Runs(l, o, d) /\ queue' = Popped(l)
    BY <1>4 DEF SendInLoop
  <2>2. UNCHANGED <<connections, loopOf, state, userPc>>
    BY <1>4 DEF SendInLoop, connVars
  <2>3. /\ \A k \in LoopIds \ {l} : queue'[k] = queue[k]
        /\ \A op : op # o => (Has(queue[l], op, d) <=> Has(queue'[l], op, d))
    BY <1>0, <2>1, PopSelf, OpsFacts
  <2>4. \A op \in Shared : op # o
    BY DEF Shared, Sends
  <2>5. \A k \in LoopIds : \A op \in Shared : Has(queue[k], op, d) <=> Has(queue'[k], op, d)
    BY <2>3, <2>4
  <2> QED BY <1>a, <1>b, <1>k, <2>2, <2>5
<1>5. CASE RemoveConnectionInLoop(d)
  <2>1. Runs(Base, "removeConnection", d) /\ UNCHANGED <<loopOf, state>>
    BY <1>5 DEF RemoveConnectionInLoop, connVars
  <2>2. Alive(d) /\ Has(queue[Base], "removeConnection", d) /\ loopOf[d] # Nowhere
    BY <1>0, <1>p, <2>1 DEF Shared
  <2>3. state[d] = "kDisconnected"
    BY <1>0, <2>2 DEF ConnInv, Closing
  <2> QED BY <1>m, <2>1, <2>2, <2>3
<1>r. ASSUME registered[d], Running(loopOf[d])
      PROVE  state[d] = "kConnected" /\ loopOf[d] \in LoopIds /\ Alive(d)
  <2>1. state[d] = "kConnected" /\ loopOf[d] # Nowhere
    BY <1>0, <1>r DEF Accepted
  <2>2. d \in connections \/ Has(queue[loopOf[d]], "connectDestroyed", d)
    BY <1>0, <1>r, <2>1 DEF ConnInv, Up, Running
  <2> QED BY <1>a, <1>l, <2>1, <2>2 DEF Shared
<1>6. CASE HandleClose(d)
  <2>1. /\ registered[d] /\ Running(loopOf[d]) /\ loopOf' = loopOf
        /\ state'[d] = "kDisconnected"
        /\ \E o \in Shared : queue' = Pushed(queue, Base, Functor(o, d))
    BY <1>0, <1>6 DEF HandleClose, Closes, Remove, Pushed, Shared, Types, TypeOK
  <2>2. state[d] = "kConnected" /\ loopOf[d] # Nowhere /\ Alive(d)
    BY <1>0, <1>r, <2>1
  <2>3. PICK o \in Shared : queue' = Pushed(queue, Base, Functor(o, d))
    BY <2>1
  <2>4. Has(queue'[Base], o, d)
    BY <1>0, <2>3, PushSelf, OpsFacts
  <2>5. Alive(d)'
    BY <1>0, <1>b, <2>4
  <2> QED BY <1>m, <2>1, <2>2, <2>5
<1>7. CASE DtorConnection(d)
  <2>1. /\ serverPc = "dtor" /\ d \in connections /\ loopOf' = loopOf
        /\ \/ state'[d] = state[d]
           \/ state[d] = "kConnected" /\ state'[d] = "kDisconnected"
    BY <1>0, <1>7 DEF DtorConnection, Types, TypeOK
  <2>2. closingNow /\ Alive(d) /\ loopOf[d] # Nowhere
    BY <1>0, <1>a, <2>1 DEF closingNow, Accepted
  <2> QED BY <1>m, <2>1, <2>2
<1>8. CASE User(d)
  <2>1. UNCHANGED <<connections, loopOf, state>>
    BY <1>8 DEF User, UserKeeps, SendTest, SendQueue, SendDead, UserDrops, userFrame, connVars
  <2>2. CASE userPc'[d] # "none"
    <3>1. Alive(d)'
      BY <1>b, <2>2
    <3>2. Alive(d)
      BY <1>a, <1>8, <1>r DEF User, UserKeeps, SendTest, SendQueue, SendDead, UserDrops
    <3> QED BY <1>k, <2>1, <3>1, <3>2
  <2>3. CASE userPc'[d] = "none"
    <3>1. userPc[d] = "held"
      BY <1>0, <1>8, <2>3
         DEF User, UserKeeps, SendTest, SendQueue, SendDead, UserDrops, UserAt, Types, TypeOK
    <3>2. Alive(d) /\ loopOf[d] # Nowhere /\ state[d] # "kConnecting"
      BY <1>0, <1>a, <3>1 DEF ConnInv, Accepted, Sending
    <3>3. state[d] \in {"kConnected", "kDisconnected"}
      BY <1>0, <3>2 DEF Types, TypeOK
    <3>4. CASE state[d] = "kConnected" /\ serverPc = "started"
      <4>1. d \in connections
        BY <1>0, <3>4 DEF ConnInv, Up
      <4> QED BY <1>b, <1>m, <2>1, <3>2, <4>1
    <3>5. CASE state[d] = "kDisconnected" \/ serverPc # "started"
      <4>1. state[d] = "kDisconnected" \/ closingNow
        BY <1>0, <3>2, <3>5 DEF closingNow
      <4> QED BY <1>m, <2>1, <3>2, <4>1
    <3> QED BY <3>3, <3>4, <3>5
  <2> QED BY <2>2, <2>3
<1> QED BY <1>1, <1>2, <1>3, <1>4, <1>5, <1>6, <1>7, <1>8 DEF ConnStepOf

(* A loop that ends drops the functors it has.                             *)
LEMMA LoopDrops ==
    ASSUME ServerInv, ServerInv', NEW l \in LoopIds, queue' = [queue EXCEPT ![l] = <<>>],
           UNCHANGED <<connections, loopOf, state, userPc>>, NEW c \in Conns
    PROVE  LifeOf(c)' \in {LifeOf(c), "gone"}
<1>0. Types /\ Types' /\ Accepted(c) /\ Accepted(c)'
  BY DEF ServerInv, ConnInv
<1>1. ASSUME NEW k \in LoopIds, NEW op, Has(queue'[k], op, c) PROVE Has(queue[k], op, c)
  <2>1. queue'[k] = queue[k] \/ queue'[k] = <<>>
    BY <1>0 DEF Types
  <2> QED BY <1>1, <2>1, EmptyQueue
<1>2. Alive(c)' => Alive(c)
  BY <1>0, <1>1, AliveIff, AliveIffNext
<1>3. LifeOf(c) = IF loopOf[c] = Nowhere THEN "none"
                  ELSE IF Alive(c) THEN StateLife(state[c]) ELSE "gone"
  BY <1>0, LifeValue
<1>4. LifeOf(c)' = IF loopOf'[c] = Nowhere THEN "none"
                   ELSE IF Alive(c)' THEN StateLife(state'[c]) ELSE "gone"
  BY <1>0, LifeValueNext
<1> QED BY <1>2, <1>3, <1>4

LEMMA LifeStep ==
    ASSUME ServerInv, ServerInv', [Next]_vars
    PROVE  [Life!Next]_(Life!vars)
<1> DEFINE life == [c \in Conns |-> LifeOf(c)]
<1>0. /\ Types /\ Types' /\ LoopInv /\ Base \in LoopIds /\ SubLoops \subseteq LoopIds \ {Base}
      /\ \A c \in Conns : Accepted(c) /\ Accepted(c)'
      /\ serverPc \in {"new", "started", "dtor", "gone"}
  BY LoopFacts DEF ServerInv, Types, TypeOK, ConnInv
<1>1. ASSUME NEW d \in Conns, ConnStepOf(d) PROVE [Life!Next]_(Life!vars)
  <2>1. \A c \in Conns \ {d} : LifeOf(c)' = LifeOf(c)
    BY <1>0, <1>1, OthersUntouched, OthersLive
  <2>2. closingNow' <=> closingNow
    BY <1>1 DEF ConnStepOf, NewConnection, HandleClose, Closes, User, UserKeeps, SendTest,
           SendQueue, SendDead, UserDrops, userFrame, DtorConnection, RemoveConnectionInLoop,
           ConnectEstablished, ConnectDestroyed, SendInLoop, closingNow
  <2>3. Moves(LifeOf(d), LifeOf(d)')
    BY <1>1, LifeMoves
  <2>4. life' = [life EXCEPT ![d] = LifeOf(d)']
    BY <2>1
  <2>5. CASE LifeOf(d)' = LifeOf(d)
    <3>1. life' = life
      BY <2>1, <2>5
    <3> QED BY <2>2, <3>1 DEF Life!vars, closingNow
  <2>6. CASE closingNow /\ LifeOf(d)' = "gone"
    <3>1. life' = [c \in Conns |-> IF c \in {d} THEN "gone" ELSE life[c]]
      BY <2>1, <2>6
    <3>2. Life!DroppedTogether
      BY <2>2, <2>6, <3>1 DEF Life!DroppedTogether, closingNow
    <3> QED BY <3>2 DEF Life!Next
  <2>b. ASSUME NEW from, NEW to, LifeOf(d) = from, LifeOf(d)' = to
        PROVE  Life!Becomes(d, {from}, to)
    <3>1. life[d] \in {from}
      BY <2>b
    <3>2. life' = [life EXCEPT ![d] = to]
      BY <2>4, <2>b
    <3> QED BY <2>2, <3>1, <3>2 DEF Life!Becomes, closingNow
  <2>7. CASE LifeOf(d) = "none" /\ LifeOf(d)' = "up"
    <3>1. Life!Up(d)
      BY <2>7, <2>b DEF Life!Up
    <3> QED BY <3>1 DEF Life!Next
  <2>8. CASE LifeOf(d) = "up" /\ LifeOf(d)' = "down"
    <3>1. Life!Down(d)
      BY <2>8, <2>b DEF Life!Down
    <3> QED BY <3>1 DEF Life!Next
  <2>9. CASE LifeOf(d) = "down" /\ LifeOf(d)' = "gone"
    <3>1. Life!Gone(d)
      BY <2>9, <2>b DEF Life!Gone
    <3> QED BY <3>1 DEF Life!Next
  <2> QED BY <2>3, <2>5, <2>6, <2>7, <2>8, <2>9 DEF Moves
<1>2. ASSUME UNCHANGED <<queue, connections, loopOf, state, userPc>> PROVE life' = life
  <2>1. ASSUME NEW c \in Conns PROVE LifeOf(c)' = LifeOf(c)
    <3>1. Alive(c)' <=> Alive(c)
      BY <1>2 DEF Alive, Queued
    <3> QED BY <1>0, <1>2, <3>1, LifeValue, LifeValueNext
  <2> QED BY <2>1
<1>3. ASSUME UNCHANGED <<queue, connections, loopOf, state, userPc>>,
             closingNow' <=> closingNow
      PROVE  [Life!Next]_(Life!vars)
  BY <1>2, <1>3 DEF Life!vars, closingNow
<1>4. ASSUME NEW l \in LoopIds, queue' = [queue EXCEPT ![l] = <<>>], closingNow,
             UNCHANGED <<serverPc, connections, loopOf, state, userPc>>
      PROVE  [Life!Next]_(Life!vars)
  <2> DEFINE S == {c \in Conns : LifeOf(c)' = "gone"}
  <2>1. \A c \in Conns : LifeOf(c)' \in {LifeOf(c), "gone"}
    BY <1>4, LoopDrops
  <2>2. life' = [c \in Conns |-> IF c \in S THEN "gone" ELSE life[c]]
    BY <2>1
  <2>3. S \in SUBSET Conns
    OBVIOUS
  <2> HIDE DEF S
  <2>4. Life!DroppedTogether
    BY <1>4, <2>2, <2>3 DEF Life!DroppedTogether, closingNow
  <2> QED BY <2>4 DEF Life!Next
<1>5. CASE DtorBegin
  <2>1. life' = life
    BY <1>2, <1>5 DEF DtorBegin, connVars
  <2>2. ~closingNow /\ closingNow'
    BY <1>5 DEF DtorBegin, closingNow
  <2>3. Life!Close
    BY <2>1, <2>2 DEF Life!Close, closingNow
  <2> QED BY <2>3 DEF Life!Next
<1>6. ASSUME NEW l \in LoopIds, LoopStops(l) PROVE [Life!Next]_(Life!vars)
  <2>1. closingNow
    BY <1>0, <1>6 DEF LoopStops, Stops, LoopInv, closingNow
  <2> QED BY <1>4, <1>6, <2>1 DEF LoopStops, Stops, connVars
<1>7. CASE BaseDestroyed
  BY <1>0, <1>4, <1>7 DEF BaseDestroyed, connVars, closingNow
<1>8. ASSUME NEW n \in ThreadNums, SetThreadNum(n) PROVE [Life!Next]_(Life!vars)
  BY <1>3, <1>8 DEF SetThreadNum, connVars, closingNow
<1>9. CASE Start
  BY <1>3, <1>9 DEF Start, connVars, closingNow
<1>10. CASE BaseReturns
  BY <1>3, <1>10 DEF BaseReturns, connVars, closingNow
<1>11. ASSUME NEW l \in LoopIds, DtorQuits(l) PROVE [Life!Next]_(Life!vars)
  BY <1>3, <1>11 DEF DtorQuits, connVars, closingNow
<1>12. CASE DtorReturns
  BY <1>3, <1>12 DEF DtorReturns, connVars, closingNow
<1>13. CASE BatchOnly \/ UNCHANGED vars
  BY <1>3, <1>13, BatchOnlyKeeps DEF vars, connVars, closingNow
<1>14. ASSUME NEW l \in LoopIds, LoopEnters(l) PROVE [Life!Next]_(Life!vars)
  BY <1>3, <1>14 DEF LoopEnters, connVars, closingNow
<1> QED
  BY <1>0, <1>1, <1>5, <1>6, <1>7, <1>8, <1>9, <1>10, <1>11, <1>12, <1>13, <1>14
     DEF Next, Destructor, HandleBatch, BatchOnly, RunFunctor, Finished, ConnStepOf

(* The server, its loops and their functors: every connection comes up and *)
(* goes down at most once, in this order, and is gone for good; only a     *)
(* server that is being destroyed lets one go that was not reported down.  *)
THEOREM LivesAsPromised == Spec => ImplementsLife
<1>1. Init => Life!Init
  <2> SUFFICES ASSUME Init PROVE Life!Init
    OBVIOUS
  <2>1. \A c \in Conns : LifeOf(c) = "none"
    BY DEF Init, LifeOf
  <2> QED BY <2>1 DEF Init, Life!Init
<1>2. ServerInv /\ ServerInv' /\ [Next]_vars => [Life!Next]_(Life!vars)
  BY LifeStep
<1> QED BY <1>1, <1>2, ServerInvAlways, PTL DEF Spec, ImplementsLife, Life!Spec
=============================================================================
