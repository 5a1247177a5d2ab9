------------------------- MODULE TcpConnectionProofs -------------------------
(***************************************************************************)
(* Proofs about TcpConnection, for any workers, messages, message length   *)
(* and high-water mark: the stream is intact, a backlog always has its     *)
(* EPOLLOUT, FIN comes after the data, a connection comes up and goes down *)
(* once, and one that was closed stays out of the poller.                  *)
(***************************************************************************)
EXTENDS TcpConnection, SequenceTheorems, TLAPS

Unit == (Msgs \cup {NoMsg, Garbage}) \X (1..MsgLen)
Ops == {"connectEstablished", "sendInLoop", "shutdownInLoop", "writeComplete",
        "highWaterMark", "connectDestroyed"}
FunctorType == [op : Ops, msg : Msgs \cup {NoMsg}]
WorkerPc == {"idle", "sendQueue", "sendReturn", "shutdownSet", "shutdownQueue"}

(* The types, with those of the sequences.                                 *)
MemberTypes ==
    /\ TypeOK
    /\ inbound <= received
    /\ inCallback \in BOOLEAN /\ closed \in BOOLEAN /\ destroyed \in BOOLEAN
    /\ revived \in BOOLEAN /\ writeShut \in BOOLEAN

SeqTypes ==
    /\ pending \in Seq(FunctorType)
    /\ wire \in Seq(Unit) /\ out \in Seq(Unit) /\ accepted \in Seq(Unit)

WorkerTypes ==
    /\ workerPc \in [Workers -> WorkerPc]
    /\ \A w \in Workers :
          workerPc[w] \in {"sendQueue", "sendReturn"} => workerMsg[w] \in Msgs

Types == MemberTypes /\ SeqTypes /\ WorkerTypes

(* No connectEstablished in q, and none but at its head.                   *)
Follows(q) == \A i \in 1..Len(q) : q[i].op # "connectEstablished"
OnlyFirst(q) == \A i \in 1..Len(q) : q[i].op = "connectEstablished" => i = 1

(* connectEstablished is the first functor that runs, and runs once; until *)
(* then nothing else happens to the connection.                            *)
EstablishInv ==
    /\ OnlyFirst(pending)
    /\ IF ups = 0
       THEN /\ pending # <<>> /\ pending[1].op = "connectEstablished"
            /\ state = "kConnecting" /\ revents = {} /\ ~inCallback /\ downs = 0
            /\ index = "kNew" /\ ~closed /\ ~destroyed
            /\ \A w \in Workers : workerPc[w] = "idle"
       ELSE ups = 1 /\ state # "kConnecting" /\ Follows(pending)

(* kDisconnected is final, unless a shutdown() that has tested state_ too  *)
(* early overwrites it: the channel is off, what is left of the event will *)
(* not close again, and the connection has been reported down once.  An    *)
(* event that may still close the connection finds the channel registered, *)
(* so that disabling it takes it out of the poller.                        *)
DownInv ==
    ~revived =>
        /\ closed => state = "kDisconnected"
        /\ downs = IF state = "kDisconnected" THEN 1 ELSE 0
        /\ state = "kDisconnected" => /\ index # "kAdded" /\ events = {}
                                      /\ "hup" \notin revents
                                      /\ "in" \notin revents
        /\ "hup" \in revents \/ "in" \in revents => index = "kAdded"

(* What BacklogArmed needs: a channel that asks for EPOLLOUT is registered.*)
WritingInv == IsWriting /\ ~closed /\ ~destroyed => index = "kAdded"

ConnInv == Types /\ EstablishInv /\ DownInv /\ WritingInv /\ BacklogArmed /\ StreamIntact

-----------------------------------------------------------------------------
(* Sequences.                                                              *)

(* A message is a sequence of units; Garbage too.                          *)
LEMMA UnitsType ==
    ASSUME NEW m \in Msgs \cup {NoMsg, Garbage}
    PROVE  Units(m) \in Seq(Unit) /\ Len(Units(m)) = MsgLen /\ Len(Units(m)) > 0
<1>1. MsgLen \in Nat \ {0}
  BY ConnAssumption
<1>2. \A i \in 1..MsgLen : <<m, i>> \in Unit
  BY DEF Unit
<1>3. Units(m) \in [1..MsgLen -> Unit]
  BY <1>2 DEF Units
<1> QED BY <1>1, <1>3

(* Whatever part of it write() takes, the rest follows.                    *)
(* Concatenation as an operator of its own, for steps that only reorder    *)
(* brackets.                                                               *)
Cat(a, b) == a \o b

LEMMA UnitsAssociate ==
    \A a, b, c \in Seq(Unit) : Cat(a, Cat(b, c)) = Cat(Cat(a, b), c)
BY DEF Cat

LEMMA Split ==
    ASSUME NEW w \in Seq(Unit), NEW d \in Seq(Unit), NEW n \in 0..Len(d)
    PROVE  /\ SubSeq(d, 1, n) \in Seq(Unit) /\ SubSeq(d, n + 1, Len(d)) \in Seq(Unit)
           /\ (w \o SubSeq(d, 1, n)) \o SubSeq(d, n + 1, Len(d)) = w \o d
<1>1. SubSeq(d, 1, n) \in Seq(Unit) /\ SubSeq(d, n + 1, Len(d)) \in Seq(Unit)
  OBVIOUS
<1>2. SubSeq(d, 1, n) \o SubSeq(d, n + 1, Len(d)) = SubSeq(d, 1, Len(d))
  <2>1. 1 \in 1..(Len(d) + 1) /\ n \in (1 - 1)..Len(d) /\ Len(d) \in n..Len(d)
    OBVIOUS
  <2> QED BY <2>1, ConcatAdjacentSubSeq, Zenon
<1>3. SubSeq(d, 1, Len(d)) = d
  BY SubSeqFull
<1>4. (w \o SubSeq(d, 1, n)) \o SubSeq(d, n + 1, Len(d))
        = w \o (SubSeq(d, 1, n) \o SubSeq(d, n + 1, Len(d)))
  <2>1. Cat(w, Cat(SubSeq(d, 1, n), SubSeq(d, n + 1, Len(d))))
          = Cat(Cat(w, SubSeq(d, 1, n)), SubSeq(d, n + 1, Len(d)))
    BY <1>1, UnitsAssociate
  <2> QED BY <2>1 DEF Cat
<1> QED BY <1>1, <1>2, <1>3, <1>4

(* Following is kept by taking the head and by adding what follows.        *)
LEMMA FollowsTail ==
    ASSUME NEW q \in Seq(FunctorType), q # <<>>, OnlyFirst(q)
    PROVE  Tail(q) \in Seq(FunctorType) /\ Follows(Tail(q))
BY DEF OnlyFirst, Follows

LEMMA FollowsConcat ==
    ASSUME NEW q \in Seq(FunctorType), NEW t \in Seq(FunctorType), Follows(t)
    PROVE  /\ q \o t \in Seq(FunctorType)
           /\ Follows(q) => Follows(q \o t)
           /\ OnlyFirst(q) => OnlyFirst(q \o t)
           /\ q # <<>> => q \o t # <<>> /\ (q \o t)[1] = q[1]
BY DEF OnlyFirst, Follows

LEMMA FollowsAppend ==
    ASSUME NEW q \in Seq(FunctorType), NEW f \in FunctorType,
           f.op # "connectEstablished"
    PROVE  /\ Append(q, f) \in Seq(FunctorType)
           /\ Follows(q) => Follows(Append(q, f))
           /\ OnlyFirst(q) => OnlyFirst(Append(q, f))
           /\ q # <<>> => Append(q, f) # <<>> /\ Append(q, f)[1] = q[1]
BY DEF OnlyFirst, Follows

LEMMA FollowsFirst ==
    ASSUME NEW q \in Seq(FunctorType), Follows(q)
    PROVE  OnlyFirst(q) /\ (q # <<>> => Head(q).op # "connectEstablished")
BY DEF OnlyFirst, Follows

-----------------------------------------------------------------------------
(* sendInLoop.                                                             *)

LEMMA CallbackType ==
    /\ Callback("writeComplete") \in FunctorType
    /\ Callback("highWaterMark") \in FunctorType
    /\ Callback("shutdownInLoop") \in FunctorType
    /\ Callback("connectDestroyed") \in FunctorType
    /\ Callback("connectEstablished") \in FunctorType
    /\ \A op \in Ops : Callback(op).op = op
    /\ \A m \in Msgs : /\ Functor("sendInLoop", m) \in FunctorType
                       /\ Functor("sendInLoop", m).op = "sendInLoop"
BY DEF Callback, Functor, FunctorType, Ops

LEMMA HighWaterType ==
    ASSUME NEW rest
    PROVE  HighWater(rest) \in Seq(FunctorType) /\ Follows(HighWater(rest))
<1>1. CASE HighWater(rest) = <<>>
  BY <1>1 DEF Follows
<1>2. CASE HighWater(rest) = <<Callback("highWaterMark")>>
  BY <1>2, CallbackType DEF Follows, Ops
<1> QED BY <1>1, <1>2 DEF HighWater

(* What sendInLoop does to the stream, the channel and the queue.          *)
SendEffect(q) ==
    /\ wire' \in Seq(Unit) /\ out' \in Seq(Unit) /\ accepted' \in Seq(Unit)
    /\ wire' \o out' = accepted'
    /\ \E t \in Seq(FunctorType) : Follows(t) /\ pending' = q \o t
    /\ \/ UNCHANGED <<events, index>>
       \/ state # "kDisconnected" /\ events' = events \cup {"W"} /\ index' = "kAdded"
    /\ out' = out \/ out' = <<>> \/ "W" \in events'

LEMMA SendInLoopEffect ==
    ASSUME NEW data \in Seq(Unit), Len(data) > 0, NEW q \in Seq(FunctorType),
           SeqTypes, StreamIntact, SendInLoop(data, q)
    PROVE  SendEffect(q)
<1>0. wire \in Seq(Unit) /\ out \in Seq(Unit) /\ accepted \in Seq(Unit)
      /\ wire \o out = accepted
  BY DEF SeqTypes, StreamIntact
<1>e. <<>> \in Seq(FunctorType) /\ Follows(<<>>) /\ q \o <<>> = q
  BY DEF Follows
<1>1. CASE SendGivesUp(q)
  <2>1. pending' = q \o <<>>
    BY <1>1, <1>e DEF SendGivesUp
  <2> QED BY <1>0, <1>1, <1>e, <2>1 DEF SendGivesUp, SendEffect
<1>2. CASE SendFaults(q)
  <2>1. pending' = q \o <<>>
    BY <1>2, <1>e DEF SendFaults
  <2> QED BY <1>0, <1>2, <1>e, <2>1 DEF SendFaults, SendEffect
<1>3. CASE SendWritesAll(data, q)
  <2> DEFINE t == <<Callback("writeComplete")>>
  <2>1. t \in Seq(FunctorType) /\ Follows(t) /\ Append(q, Callback("writeComplete")) = q \o t
    <3>1. /\ Callback("writeComplete") \in FunctorType
          /\ Callback("writeComplete").op = "writeComplete"
      BY CallbackType DEF Ops
    <3>2. t \in Seq(FunctorType) /\ Len(t) = 1 /\ t[1] = Callback("writeComplete")
      BY <3>1
    <3>3. Follows(t)
      BY <3>1, <3>2 DEF Follows
    <3> QED BY <3>1, <3>2, <3>3
  <2>2. pending' = q \o t
    BY <1>3, <2>1 DEF SendWritesAll
  <2> HIDE DEF t
  <2>3. out' = <<>> /\ out = <<>> /\ wire' = wire \o data /\ accepted' = accepted \o data
        /\ UNCHANGED <<events, index>>
    BY <1>3 DEF SendWritesAll
  <2>4. wire' \in Seq(Unit) /\ accepted' \in Seq(Unit) /\ out' \in Seq(Unit)
        /\ wire' \o out' = accepted'
    BY <1>0, <2>3
  <2> QED BY <2>1, <2>2, <2>3, <2>4 DEF SendEffect
<1>4. CASE SendBuffers(data, q)
  <2>1. PICK n \in 0..(Len(data) - 1) :
          /\ n > 0 => ~IsWriting /\ out = <<>>
          /\ wire' = wire \o SubSeq(data, 1, n)
          /\ out' = out \o SubSeq(data, n + 1, Len(data))
          /\ pending' = q \o HighWater(SubSeq(data, n + 1, Len(data)))
    BY <1>4 DEF SendBuffers
  <2>2. accepted' = accepted \o data
    BY <1>4 DEF SendBuffers
  <2>3. n \in 0..Len(data)
    OBVIOUS
  <2> DEFINE a == SubSeq(data, 1, n)
             b == SubSeq(data, n + 1, Len(data))
  <2>4. a \in Seq(Unit) /\ b \in Seq(Unit) /\ (accepted \o a) \o b = accepted \o data
    <3>1. accepted \in Seq(Unit)
      BY <1>0
    <3> QED BY <2>3, <3>1, Split, Zenon
  <2>5. wire' = wire \o a /\ out' = out \o b
    BY <2>1
  <2>6. n = 0 => a = <<>>
    OBVIOUS
  <2>7. n > 0 => out = <<>>
    BY <2>1
  <2>8. \E t \in Seq(FunctorType) : Follows(t) /\ pending' = q \o t
    BY <2>1, HighWaterType
  <2> HIDE DEF a, b
  <2>9. wire' \in Seq(Unit) /\ out' \in Seq(Unit) /\ accepted' \in Seq(Unit)
    BY <1>0, <2>2, <2>4, <2>5
  <2>10. wire' \o out' = accepted'
    <3>1. CASE n = 0
      <4>1. wire' = wire /\ accepted \o b = accepted \o data
        <5>1. wire \in Seq(Unit) /\ accepted \in Seq(Unit)
          BY <1>0
        <5>2. wire \o <<>> = wire /\ accepted \o <<>> = accepted
          BY <5>1
        <5>3. a = <<>>
          BY <2>6, <3>1
        <5> QED BY <2>4, <2>5, <5>2, <5>3, Zenon
      <4>2. wire \o (out \o b) = (wire \o out) \o b
        <5>1. wire \in Seq(Unit) /\ out \in Seq(Unit) /\ b \in Seq(Unit)
          BY <1>0, <2>4
        <5>2. Cat(wire, Cat(out, b)) = Cat(Cat(wire, out), b)
          BY <5>1, UnitsAssociate
        <5> QED BY <5>2 DEF Cat
      <4> QED BY <1>0, <2>2, <2>5, <4>1, <4>2
    <3>2. CASE n > 0
      <4>1. accepted = wire /\ out' = b
        BY <1>0, <2>4, <2>5, <2>7, <3>2
      <4> QED BY <2>2, <2>4, <2>5, <4>1
    <3> QED BY <2>3, <3>1, <3>2
  <2>11. \/ UNCHANGED <<events, index>> /\ IsWriting
         \/ state # "kDisconnected" /\ events' = events \cup {"W"} /\ index' = "kAdded"
    BY <1>4 DEF SendBuffers, UpdateChannel
  <2>12. "W" \in events'
    BY <2>11 DEF IsWriting
  <2> QED BY <2>8, <2>9, <2>10, <2>11, <2>12 DEF SendEffect
<1> QED BY <1>1, <1>2, <1>3, <1>4 DEF SendInLoop

(* A queued send and one in a callback.                                    *)
LEMMA QueuedSend ==
    ASSUME ConnInv, RunSendInLoop
    PROVE  /\ pending # <<>> /\ SendEffect(Tail(pending))
<1> DEFINE m == Head(pending).msg
<1>1. pending \in Seq(FunctorType) /\ SeqTypes /\ StreamIntact
  BY DEF ConnInv, Types, SeqTypes
<1>2. pending # <<>>
  BY DEF RunSendInLoop, NextFunctor
<1>3. Tail(pending) \in Seq(FunctorType) /\ Head(pending) \in FunctorType
  BY <1>1, <1>2
<1>4. m \in Msgs \cup {NoMsg}
  BY <1>3 DEF FunctorType
<1>5. PICK x \in {m} \cup (IF m \in stale THEN {Garbage} ELSE {}) :
          SendInLoop(Units(x), Tail(pending))
  BY DEF RunSendInLoop
<1>6. x \in Msgs \cup {NoMsg, Garbage}
  BY <1>4, <1>5
<1>7. Units(x) \in Seq(Unit) /\ Len(Units(x)) > 0
  BY <1>6, UnitsType
<1> HIDE DEF m
<1> QED BY <1>1, <1>2, <1>3, <1>5, <1>7, SendInLoopEffect

LEMMA DirectSend ==
    ASSUME ConnInv, NEW m \in Msgs, CallbackSend(m)
    PROVE  SendEffect(pending)
<1>1. pending \in Seq(FunctorType) /\ SeqTypes /\ StreamIntact
  BY DEF ConnInv, Types, SeqTypes
<1>2. SendInLoop(Units(m), pending)
  BY DEF CallbackSend
<1>3. Units(m) \in Seq(Unit) /\ Len(Units(m)) > 0
  BY UnitsType
<1> QED BY <1>1, <1>2, <1>3, SendInLoopEffect

-----------------------------------------------------------------------------
(* The steps that leave the stream alone.                                  *)

QuietFunctor ==
    ConnectEstablished \/ RunShutdownInLoop \/ RunUserCallback \/ ConnectDestroyed
QuietEvent ==
    \/ \E writable \in BOOLEAN : PollEvent(writable)
    \/ HandleHup \/ HandleError \/ HandleReadData \/ HandleReadEof \/ HandleReadError
QuietOther ==
    \/ CallbackShutdown \/ CallbackReturn
    \/ \E w \in Workers : Worker(w)
    \/ RemoveConnectionInLoop \/ ServerDestroyed
    \/ PeerSends \/ PeerCloses \/ PeerResets
    \/ Finished \/ UNCHANGED vars
Sending == RunSendInLoop \/ \E m \in Msgs : CallbackSend(m)

LEMMA NextSplit ==
    [Next]_vars <=> QuietFunctor \/ QuietEvent \/ QuietOther \/ Sending \/ HandleWrite
BY DEF Next, RunFunctor, HandleEvent, QuietFunctor, QuietEvent, QuietOther, Sending

LEMMA QuietStream ==
    ASSUME QuietFunctor \/ QuietEvent \/ QuietOther
    PROVE  UNCHANGED <<out, wire, accepted>>
<1>1. CASE QuietFunctor
  BY <1>1 DEF QuietFunctor, ConnectEstablished, RunShutdownInLoop, RunUserCallback,
              ConnectDestroyed
<1>2. CASE QuietEvent
  BY <1>2 DEF QuietEvent, PollEvent, HandleHup, HandleError, HandleReadData,
              HandleReadEof, HandleReadError
<1>3. CASE QuietOther
  <2>1. CASE \E w \in Workers : Worker(w)
    BY <2>1 DEF Worker, SendTest, SendQueue, SendReturn, ShutdownTest, ShutdownSet,
                ShutdownQueue, otherVars
  <2>2. CASE PeerSends \/ PeerCloses \/ PeerResets
    BY <2>2 DEF PeerSends, PeerCloses, PeerResets, peerFrame
  <2> QED BY <1>3, <2>1, <2>2 DEF QuietOther, CallbackShutdown, CallbackReturn,
        RemoveConnectionInLoop, ServerDestroyed, Finished, vars
<1> QED BY <1>1, <1>2, <1>3

(* handleWrite: what it writes leaves the output buffer.                   *)
LEMMA HandleWriteStream ==
    ASSUME SeqTypes, StreamIntact, HandleWrite
    PROVE  /\ wire' \in Seq(Unit) /\ out' \in Seq(Unit) /\ accepted' \in Seq(Unit)
           /\ wire' \o out' = accepted'
<1>0. wire \in Seq(Unit) /\ out \in Seq(Unit) /\ accepted \in Seq(Unit)
      /\ wire \o out = accepted /\ accepted' = accepted
  BY DEF SeqTypes, StreamIntact, HandleWrite
<1>1. CASE UNCHANGED <<out, wire>>
  BY <1>0, <1>1
<1>2. CASE \E n \in 1..(Len(out) - 1) : /\ wire' = wire \o SubSeq(out, 1, n)
                                        /\ out' = SubSeq(out, n + 1, Len(out))
  <2>1. PICK n \in 1..(Len(out) - 1) : /\ wire' = wire \o SubSeq(out, 1, n)
                                       /\ out' = SubSeq(out, n + 1, Len(out))
    BY <1>2
  <2>2. n \in 0..Len(out)
    BY <1>0
  <2>3. SubSeq(out, 1, n) \in Seq(Unit) /\ SubSeq(out, n + 1, Len(out)) \in Seq(Unit)
        /\ (wire \o SubSeq(out, 1, n)) \o SubSeq(out, n + 1, Len(out)) = wire \o out
    <3>1. wire \in Seq(Unit) /\ out \in Seq(Unit)
      BY <1>0
    <3> QED BY <2>2, <3>1, Split, Zenon
  <2>4. wire' \in Seq(Unit) /\ out' \in Seq(Unit)
    BY <1>0, <2>1, <2>3
  <2> QED BY <1>0, <2>1, <2>3, <2>4
<1>3. CASE wire' = wire \o out /\ out' = <<>>
  <2>1. (wire \o out) \o <<>> = wire \o out /\ wire \o out \in Seq(Unit)
    BY <1>0
  <2> QED BY <1>0, <1>3, <2>1
<1> QED BY <1>1, <1>2, <1>3 DEF HandleWrite

LEMMA StreamStep ==
    ASSUME ConnInv, [Next]_vars
    PROVE  /\ wire' \in Seq(Unit) /\ out' \in Seq(Unit) /\ accepted' \in Seq(Unit)
           /\ StreamIntact'
<1>0. SeqTypes /\ StreamIntact
  BY DEF ConnInv, Types
<1>1. CASE QuietFunctor \/ QuietEvent \/ QuietOther
  BY <1>0, <1>1, QuietStream DEF SeqTypes, StreamIntact
<1>2. CASE RunSendInLoop
  BY <1>2, QueuedSend DEF SendEffect, StreamIntact
<1>3. ASSUME NEW m \in Msgs, CallbackSend(m)
      PROVE  /\ wire' \in Seq(Unit) /\ out' \in Seq(Unit) /\ accepted' \in Seq(Unit)
             /\ StreamIntact'
  BY <1>3, DirectSend DEF SendEffect, StreamIntact
<1>4. CASE HandleWrite
  BY <1>0, <1>4, HandleWriteStream DEF StreamIntact
<1> QED BY <1>1, <1>2, <1>3, <1>4, NextSplit DEF Sending

-----------------------------------------------------------------------------
(* Types.                                                                  *)

LEMMA ChannelTypes ==
    ASSUME NEW ev \in SUBSET {"R", "W"}, UpdateChannel(ev)
    PROVE  events' \subseteq {"R", "W"} /\ index' \in {"kNew", "kAdded", "kDeleted"}
BY DEF UpdateChannel

LEMMA ReadyTypes ==
    ASSUME NEW writable
    PROVE  Ready(writable) \subseteq {"hup", "err", "in", "out"}
BY DEF Ready

LEMMA MemberStep ==
    ASSUME ConnInv, [Next]_vars
    PROVE  MemberTypes'
<1>0. MemberTypes /\ WorkerTypes /\ MaxInbound \in Nat
  BY ConnAssumption DEF ConnInv, Types
<1> USE DEF MemberTypes, TypeOK, States
<1>1. CASE ConnectEstablished
  <2>1. events \cup {"R"} \in SUBSET {"R", "W"}
    BY <1>0
  <2>2. UpdateChannel(events \cup {"R"})
    BY <1>1 DEF ConnectEstablished
  <2>3. events' \subseteq {"R", "W"} /\ index' \in {"kNew", "kAdded", "kDeleted"}
    BY <2>1, <2>2, ChannelTypes
  <2> QED BY <1>0, <1>1, <2>3 DEF ConnectEstablished, workerVars, serverVars, sockVars
<1>2. CASE RunSendInLoop
  <2>1. events' \subseteq {"R", "W"} /\ index' \in {"kNew", "kAdded", "kDeleted"}
    BY <1>0, <1>2, QueuedSend DEF SendEffect
  <2> QED BY <1>0, <1>2, <2>1 DEF RunSendInLoop, workerVars, serverVars, sockVars, endVars
<1>3. CASE RunShutdownInLoop
  BY <1>0, <1>3 DEF RunShutdownInLoop, ShutdownInLoop, channelVars, workerVars,
                    serverVars, sockVars, endVars
<1>4. CASE RunUserCallback
  BY <1>0, <1>4 DEF RunUserCallback, channelVars, workerVars, serverVars, sockVars, endVars
<1>5. CASE ConnectDestroyed
  <2>1. /\ UNCHANGED <<revents, inCallback, workerMsg, stale, removing, peer, inbound,
                       received, writeShut, sent, ups, closed, revived>>
        /\ index' = "kNew" /\ destroyed' = TRUE
    BY <1>5 DEF ConnectDestroyed, RemoveChannel, workerVars, serverVars, sockVars
  <2>2. state' \in States /\ events' \subseteq {"R", "W"} /\ downs' \in Nat
    <3>1. CASE state = "kConnected"
      BY <1>0, <1>5, <3>1 DEF ConnectDestroyed
    <3>2. CASE state # "kConnected"
      BY <1>0, <1>5, <3>2 DEF ConnectDestroyed
    <3> QED BY <3>1, <3>2
  <2> QED BY <1>0, <2>1, <2>2
<1>6. ASSUME NEW writable \in BOOLEAN, PollEvent(writable) PROVE MemberTypes'
  <2>1. revents' \subseteq {"hup", "err", "in", "out"}
    BY <1>6, ReadyTypes DEF PollEvent
  <2> QED BY <1>0, <1>6, <2>1 DEF PollEvent, channelVars, workerVars, serverVars, sockVars,
                                  endVars
<1>7. CASE HandleHup
  <2>1. /\ UNCHANGED <<inCallback, workerMsg, stale, peer, inbound, received, writeShut,
                       sent, ups, destroyed, revived>>
        /\ revents' = revents \ {"hup"}
    BY <1>7 DEF HandleHup, workerVars, sockVars
  <2>2. CASE HandleClose
    BY <1>0, <2>1, <2>2 DEF HandleClose, UpdateChannel
  <2>3. CASE UNCHANGED <<state, channelVars, downs, closed, removing>>
    BY <1>0, <2>1, <2>3 DEF channelVars
  <2> QED BY <1>7, <2>2, <2>3 DEF HandleHup
<1>8. CASE HandleError
  BY <1>0, <1>8 DEF HandleError, channelVars, workerVars, serverVars, endVars
<1>9. CASE HandleReadData
  BY <1>0, <1>9 DEF HandleReadData, channelVars, workerVars, serverVars, endVars
<1>10. CASE HandleReadEof
  BY <1>0, <1>10 DEF HandleReadEof, HandleClose, UpdateChannel, workerVars, sockVars
<1>11. CASE HandleReadError
  BY <1>0, <1>11 DEF HandleReadError, channelVars, workerVars, serverVars, endVars
<1>12. CASE HandleWrite
  <2>1. events' \subseteq {"R", "W"} /\ index' \in {"kNew", "kAdded", "kDeleted"}
    BY <1>0, <1>12 DEF HandleWrite, UpdateChannel, channelVars
  <2>2. writeShut' \in BOOLEAN
    BY <1>0, <1>12 DEF HandleWrite
  <2> QED BY <1>0, <1>12, <2>1, <2>2 DEF HandleWrite, workerVars, serverVars, sockVars, endVars
<1>13. ASSUME NEW m \in Msgs, CallbackSend(m) PROVE MemberTypes'
  <2>1. events' \subseteq {"R", "W"} /\ index' \in {"kNew", "kAdded", "kDeleted"}
    BY <1>0, <1>13, DirectSend DEF SendEffect
  <2> QED BY <1>0, <1>13, <2>1 DEF CallbackSend, workerVars, serverVars, sockVars, endVars
<1>14. CASE CallbackShutdown
  BY <1>0, <1>14 DEF CallbackShutdown, ShutdownInLoop, channelVars, workerVars,
                     serverVars, sockVars, endVars
<1>15. CASE CallbackReturn
  BY <1>0, <1>15 DEF CallbackReturn, channelVars, workerVars, serverVars, sockVars, endVars
<1>16. ASSUME NEW w \in Workers, Worker(w) PROVE MemberTypes'
  <2>1. UNCHANGED <<events, index, revents, inCallback, inServer, removing, peer, inbound,
                    received, writeShut, ups, downs, closed, destroyed>>
    BY <1>16 DEF Worker, SendTest, SendQueue, SendReturn, ShutdownTest, ShutdownSet,
                 ShutdownQueue, otherVars, channelVars, serverVars, sockVars, endVars
  <2>2. state' \in States /\ revived' \in BOOLEAN
    BY <1>0, <1>16 DEF Worker, SendTest, SendQueue, SendReturn, ShutdownTest, ShutdownSet,
                       ShutdownQueue
  <2>3. sent' \subseteq Msgs
    BY <1>0, <1>16 DEF Worker, SendTest, SendQueue, SendReturn, ShutdownTest, ShutdownSet,
                       ShutdownQueue
  <2>4. stale' \subseteq Msgs /\ workerMsg' \in [Workers -> Msgs \cup {NoMsg}]
    BY <1>0, <1>16 DEF Worker, SendTest, SendQueue, SendReturn, ShutdownTest, ShutdownSet,
                       ShutdownQueue, WorkerTypes
  <2> QED BY <1>0, <2>1, <2>2, <2>3, <2>4
<1>17. CASE RemoveConnectionInLoop
  BY <1>0, <1>17 DEF RemoveConnectionInLoop, channelVars, workerVars, sockVars, endVars
<1>18. CASE ServerDestroyed
  BY <1>0, <1>18 DEF ServerDestroyed, channelVars, workerVars, sockVars, endVars
<1>19. CASE PeerSends \/ PeerCloses \/ PeerResets
  <2>1. UNCHANGED peerFrame
    BY <1>19 DEF PeerSends, PeerCloses, PeerResets
  <2>2. peer' \in {"open", "fin", "reset", "aborted"} /\ inbound' \in 0..MaxInbound
        /\ received' \in 0..MaxInbound /\ inbound' <= received'
    BY <1>0, <1>19 DEF PeerSends, PeerCloses, PeerResets
  <2> QED BY <1>0, <2>1, <2>2 DEF peerFrame, channelVars, workerVars, serverVars, endVars
<1>20. CASE UNCHANGED vars
  BY <1>0, <1>20 DEF vars
<1> QED BY <1>1, <1>2, <1>3, <1>4, <1>5, <1>6, <1>7, <1>8, <1>9, <1>10, <1>11, <1>12,
           <1>13, <1>14, <1>15, <1>16, <1>17, <1>18, <1>19, <1>20
        DEF Next, RunFunctor, HandleEvent, Finished

LEMMA WorkerStep ==
    ASSUME ConnInv, [Next]_vars
    PROVE  WorkerTypes'
<1>0. WorkerTypes /\ workerMsg \in [Workers -> Msgs \cup {NoMsg}]
  BY DEF ConnInv, Types, MemberTypes, TypeOK
<1>1. ASSUME NEW w \in Workers, Worker(w) PROVE WorkerTypes'
  <2> USE <1>0 DEF WorkerTypes, WorkerPc, WorkerAt
  <2>1. ASSUME NEW m \in Msgs, SendTest(w, m) PROVE WorkerTypes'
    BY <2>1 DEF SendTest
  <2>2. CASE SendQueue(w)
    BY <2>2 DEF SendQueue
  <2>3. CASE SendReturn(w)
    BY <2>3 DEF SendReturn
  <2>4. CASE ShutdownTest(w)
    BY <2>4 DEF ShutdownTest
  <2>5. CASE ShutdownSet(w)
    BY <2>5 DEF ShutdownSet
  <2>6. CASE ShutdownQueue(w)
    BY <2>6 DEF ShutdownQueue
  <2> QED BY <1>1, <2>1, <2>2, <2>3, <2>4, <2>5, <2>6 DEF Worker
<1>2. CASE ~ \E w \in Workers : Worker(w)
  <2>1. UNCHANGED <<workerPc, workerMsg>>
    <3>1. CASE QuietFunctor
      BY <3>1 DEF QuietFunctor, ConnectEstablished, RunShutdownInLoop, RunUserCallback,
                  ConnectDestroyed, workerVars
    <3>2. CASE QuietEvent
      BY <3>2 DEF QuietEvent, PollEvent, HandleHup, HandleError, HandleReadData,
                  HandleReadEof, HandleReadError, workerVars
    <3>3. CASE PeerSends \/ PeerCloses \/ PeerResets
      BY <3>3 DEF PeerSends, PeerCloses, PeerResets, peerFrame, workerVars
    <3>4. CASE QuietOther
      BY <1>2, <3>3, <3>4 DEF QuietOther, CallbackShutdown, CallbackReturn,
            RemoveConnectionInLoop, ServerDestroyed, Finished, vars, workerVars
    <3>5. CASE Sending \/ HandleWrite
      BY <3>5 DEF Sending, RunSendInLoop, CallbackSend, HandleWrite, workerVars
    <3> QED BY <3>1, <3>2, <3>4, <3>5, NextSplit
  <2> QED BY <1>0, <2>1 DEF WorkerTypes
<1> QED BY <1>1, <1>2

-----------------------------------------------------------------------------
(* connectEstablished comes first, and once.                               *)

(* A step that runs a functor other than connectEstablished, or handles an *)
(* event, or runs in a callback or in a worker, finds it has run.          *)
LEMMA RunsAfterEstablished ==
    ASSUME ConnInv
    PROVE  /\ ups = 0 => Head(pending).op = "connectEstablished" /\ state = "kConnecting"
                         /\ index = "kNew" /\ revents = {} /\ ~inCallback
                         /\ \A w \in Workers : workerPc[w] = "idle"
           /\ ups = 1 => Follows(pending)
                         /\ (pending # <<>> => Head(pending).op # "connectEstablished")
           /\ ups \in {0, 1}
<1>1. EstablishInv /\ pending \in Seq(FunctorType)
  BY DEF ConnInv, Types, SeqTypes
<1>2. ups = 1 => Follows(pending)
  BY <1>1 DEF EstablishInv
<1>3. ups = 1 /\ pending # <<>> => Head(pending).op # "connectEstablished"
  BY <1>1, <1>2, FollowsFirst
<1>4. ups = 0 => Head(pending).op = "connectEstablished"
  BY <1>1 DEF EstablishInv
<1> QED BY <1>1, <1>2, <1>3, <1>4 DEF EstablishInv

(* What is left once it has run.                                           *)
LEMMA EstablishedKept ==
    ASSUME ups' = 1, state' # "kConnecting", pending' \in Seq(FunctorType),
           Follows(pending')
    PROVE  pending' \in Seq(FunctorType) /\ EstablishInv'
<1>1. OnlyFirst(pending')
  BY FollowsFirst
<1> QED BY <1>1 DEF EstablishInv

LEMMA EstablishStep ==
    ASSUME ConnInv, [Next]_vars
    PROVE  pending' \in Seq(FunctorType) /\ EstablishInv'
<1> DEFINE Goal == pending' \in Seq(FunctorType) /\ EstablishInv'
<1>0. EstablishInv /\ pending \in Seq(FunctorType)
  BY DEF ConnInv, Types, SeqTypes
<1>q. pending # <<>> => Tail(pending) \in Seq(FunctorType) /\ Follows(Tail(pending))
  BY <1>0, FollowsTail DEF EstablishInv
<1>u. ups = 1 => state # "kConnecting"
  BY <1>0 DEF EstablishInv
<1>1. CASE ConnectEstablished
  <2>1. ups = 0
    BY <1>1, RunsAfterEstablished DEF ConnectEstablished, NextFunctor
  <2> QED BY <1>1, <1>q, <2>1, EstablishedKept DEF ConnectEstablished, NextFunctor
<1>2. CASE RunShutdownInLoop \/ RunUserCallback
  <2>1. ups = 1
    BY <1>2, RunsAfterEstablished DEF RunShutdownInLoop, RunUserCallback, NextFunctor
  <2>2. pending # <<>> /\ pending' = Tail(pending) /\ UNCHANGED <<state, ups>>
    BY <1>2 DEF RunShutdownInLoop, RunUserCallback, NextFunctor, endVars
  <2> QED BY <1>q, <1>u, <2>1, <2>2, EstablishedKept
<1>3. CASE ConnectDestroyed
  <2>1. ups = 1
    BY <1>3, RunsAfterEstablished DEF ConnectDestroyed, NextFunctor
  <2>2. pending # <<>> /\ pending' = Tail(pending) /\ ups' = ups
    BY <1>3 DEF ConnectDestroyed, NextFunctor
  <2>3. state' = state \/ state' = "kDisconnected"
    BY <1>3 DEF ConnectDestroyed
  <2> QED BY <1>q, <1>u, <2>1, <2>2, <2>3, EstablishedKept
<1>4. CASE RunSendInLoop
  <2>1. ups = 1
    BY <1>4, RunsAfterEstablished DEF RunSendInLoop, NextFunctor
  <2>2. UNCHANGED <<state, ups>>
    BY <1>4 DEF RunSendInLoop, endVars
  <2>3. PICK t \in Seq(FunctorType) : Follows(t) /\ pending' = Tail(pending) \o t
    BY <1>4, QueuedSend DEF SendEffect
  <2>4. Tail(pending) \in Seq(FunctorType) /\ Follows(Tail(pending))
    BY <1>4, <1>q, QueuedSend
  <2>5. pending' \in Seq(FunctorType) /\ Follows(pending')
    BY <2>3, <2>4, FollowsConcat
  <2> QED BY <1>u, <2>1, <2>2, <2>5, EstablishedKept
<1>5. ASSUME NEW m \in Msgs, CallbackSend(m) PROVE Goal
  <2>1. ups = 1
    BY <1>5, RunsAfterEstablished DEF CallbackSend
  <2>2. UNCHANGED <<state, ups>>
    BY <1>5 DEF CallbackSend, endVars
  <2>3. PICK t \in Seq(FunctorType) : Follows(t) /\ pending' = pending \o t
    BY <1>5, DirectSend DEF SendEffect
  <2>4. pending' \in Seq(FunctorType) /\ Follows(pending')
    BY <1>0, <2>1, <2>3, RunsAfterEstablished, FollowsConcat
  <2> QED BY <1>u, <2>1, <2>2, <2>4, EstablishedKept
<1>6. CASE QuietEvent
  <2>1. ups = 1
    BY <1>6, RunsAfterEstablished DEF QuietEvent, PollEvent, HandleHup, HandleError,
          HandleReadData, HandleReadEof, HandleReadError, ReadEvent
  <2>2. UNCHANGED <<pending, ups>>
    BY <1>6 DEF QuietEvent, PollEvent, HandleHup, HandleError, HandleReadData,
          HandleReadEof, HandleReadError, endVars
  <2>3. state' = state \/ state' = "kDisconnected"
    BY <1>6 DEF QuietEvent, PollEvent, HandleHup, HandleError, HandleReadData,
          HandleReadEof, HandleReadError, HandleClose
  <2>4. Follows(pending)
    BY <2>1, RunsAfterEstablished
  <2> QED BY <1>0, <1>u, <2>1, <2>2, <2>3, <2>4, EstablishedKept
<1>7. CASE HandleWrite
  <2>1. ups = 1
    BY <1>7, RunsAfterEstablished DEF HandleWrite
  <2>2. UNCHANGED <<state, ups>>
    BY <1>7 DEF HandleWrite, endVars
  <2>3. pending' = pending \/ pending' = Append(pending, Callback("writeComplete"))
    BY <1>7 DEF HandleWrite
  <2>4. Follows(pending)
    BY <2>1, RunsAfterEstablished
  <2>5. pending' \in Seq(FunctorType) /\ Follows(pending')
    BY <1>0, <2>3, <2>4, FollowsAppend, CallbackType DEF Ops
  <2> QED BY <1>u, <2>1, <2>2, <2>5, EstablishedKept
<1>8. CASE CallbackShutdown \/ CallbackReturn
  <2>1. ups = 1
    BY <1>8, RunsAfterEstablished DEF CallbackShutdown, CallbackReturn
  <2>2. UNCHANGED <<pending, ups>> /\ (state' = state \/ state' = "kDisconnecting")
    BY <1>8 DEF CallbackShutdown, CallbackReturn, endVars
  <2>3. Follows(pending)
    BY <2>1, RunsAfterEstablished
  <2> QED BY <1>0, <1>u, <2>1, <2>2, <2>3, EstablishedKept
<1>9. ASSUME NEW w \in Workers, Worker(w) PROVE Goal
  <2>1. ups = 1
    BY <1>9, RunsAfterEstablished DEF Worker, SendTest, SendQueue, SendReturn,
          ShutdownTest, ShutdownSet, ShutdownQueue
  <2>2. ups' = ups /\ (state' = state \/ state' = "kDisconnecting")
    BY <1>9 DEF Worker, SendTest, SendQueue, SendReturn, ShutdownTest, ShutdownSet,
          ShutdownQueue, otherVars, endVars
  <2>3. \/ pending' = pending
        \/ pending' = Append(pending, Callback("shutdownInLoop"))
        \/ workerPc[w] = "sendQueue"
           /\ pending' = Append(pending, Functor("sendInLoop", workerMsg[w]))
    BY <1>9 DEF Worker, SendTest, SendQueue, SendReturn, ShutdownTest, ShutdownSet,
          ShutdownQueue
  <2>4. workerPc[w] = "sendQueue" => workerMsg[w] \in Msgs
    BY DEF ConnInv, Types, WorkerTypes
  <2>5. PICK f \in FunctorType : f.op # "connectEstablished"
                                 /\ (pending' = pending \/ pending' = Append(pending, f))
    BY <2>3, <2>4, CallbackType DEF Ops
  <2>6. Follows(pending)
    BY <2>1, RunsAfterEstablished
  <2>7. pending' \in Seq(FunctorType) /\ Follows(pending')
    BY <1>0, <2>5, <2>6, FollowsAppend
  <2> QED BY <1>u, <2>1, <2>2, <2>7, EstablishedKept
<1>10. CASE RemoveConnectionInLoop \/ ServerDestroyed
  <2>1. UNCHANGED <<state, events, index, revents, inCallback, workerPc, ups, downs,
                    closed, destroyed>>
        /\ pending' = Append(pending, Callback("connectDestroyed"))
    BY <1>10 DEF RemoveConnectionInLoop, ServerDestroyed, channelVars, workerVars, endVars
  <2>2. /\ pending' \in Seq(FunctorType)
        /\ Follows(pending) => Follows(pending')
        /\ OnlyFirst(pending) => OnlyFirst(pending')
        /\ pending # <<>> => pending' # <<>> /\ pending'[1] = pending[1]
    BY <1>0, <2>1, FollowsAppend, CallbackType DEF Ops
  <2> QED BY <1>0, <2>1, <2>2 DEF EstablishInv
<1>11. CASE PeerSends \/ PeerCloses \/ PeerResets
  <2>1. UNCHANGED <<state, pending, index, revents, inCallback, workerPc, ups, downs,
                    closed, destroyed>>
    BY <1>11 DEF PeerSends, PeerCloses, PeerResets, peerFrame, channelVars, workerVars, endVars
  <2> QED BY <1>0, <2>1 DEF EstablishInv
<1>12. CASE UNCHANGED vars
  BY <1>0, <1>12 DEF EstablishInv, vars
<1> QED BY <1>1, <1>2, <1>3, <1>4, <1>5, <1>6, <1>7, <1>8, <1>9, <1>10, <1>11, <1>12,
           NextSplit
        DEF QuietFunctor, QuietOther, Sending, Finished

-----------------------------------------------------------------------------
(* The end of the connection.                                              *)

LEMMA DownStep ==
    ASSUME ConnInv, [Next]_vars
    PROVE  DownInv'
<1>0. /\ DownInv /\ EstablishInv
      /\ revived \in BOOLEAN /\ closed \in BOOLEAN /\ inCallback \in BOOLEAN
      /\ downs \in Nat
  BY DEF ConnInv, Types, MemberTypes, TypeOK
<1>1. CASE ConnectEstablished
  <2>1. ups = 0
    BY <1>1, RunsAfterEstablished DEF ConnectEstablished, NextFunctor
  <2>2. state = "kConnecting" /\ ~closed /\ downs = 0 /\ revents = {}
    BY <1>0, <2>1 DEF EstablishInv
  <2>3. state' = "kConnected" /\ UNCHANGED <<closed, downs, revents, revived>>
    BY <1>1 DEF ConnectEstablished
  <2> QED BY <2>2, <2>3 DEF DownInv
<1>2. CASE RunSendInLoop
  <2>1. UNCHANGED <<state, revents, downs, closed, revived>>
    BY <1>2 DEF RunSendInLoop, endVars
  <2>2. UNCHANGED <<events, index>> \/ (state # "kDisconnected" /\ index' = "kAdded")
    BY <1>2, QueuedSend DEF SendEffect
  <2> QED BY <1>0, <2>1, <2>2 DEF DownInv
<1>3. ASSUME NEW m \in Msgs, CallbackSend(m) PROVE DownInv'
  <2>1. UNCHANGED <<state, revents, downs, closed, revived>>
    BY <1>3 DEF CallbackSend, endVars
  <2>2. UNCHANGED <<events, index>> \/ (state # "kDisconnected" /\ index' = "kAdded")
    BY <1>3, DirectSend DEF SendEffect
  <2> QED BY <1>0, <2>1, <2>2 DEF DownInv
<1>4. CASE RunShutdownInLoop \/ RunUserCallback
  <2>1. UNCHANGED <<state, events, index, revents, downs, closed, revived>>
    BY <1>4 DEF RunShutdownInLoop, RunUserCallback, channelVars, endVars
  <2> QED BY <1>0, <2>1 DEF DownInv
<1>5. CASE ConnectDestroyed
  <2>1. index' = "kNew" /\ revents = {} /\ UNCHANGED <<revents, closed, revived>>
    BY <1>5 DEF ConnectDestroyed, RemoveChannel, NextFunctor, LoopIdle
  <2>2. CASE state = "kConnected"
    <3>1. state' = "kDisconnected" /\ events' = {} /\ downs' = downs + 1
      BY <1>5, <2>2 DEF ConnectDestroyed
    <3> QED BY <1>0, <2>1, <2>2, <3>1 DEF DownInv
  <2>3. CASE state # "kConnected"
    <3>1. UNCHANGED <<state, events, downs>>
      BY <1>5, <2>3 DEF ConnectDestroyed
    <3> QED BY <1>0, <2>1, <3>1 DEF DownInv
  <2> QED BY <2>2, <2>3
<1>6. ASSUME NEW writable \in BOOLEAN, PollEvent(writable) PROVE DownInv'
  <2>1. index = "kAdded" /\ UNCHANGED <<state, events, index, downs, closed, revived>>
    BY <1>6 DEF PollEvent, channelVars, endVars
  <2> QED BY <1>0, <2>1 DEF DownInv
<1>7. ASSUME HandleClose, "hup" \in revents \/ "in" \in revents, UNCHANGED revived,
             "hup" \notin revents', "in" \notin revents'
      PROVE  DownInv'
  <2>1. state' = "kDisconnected" /\ downs' = downs + 1 /\ events' = {}
        /\ index' = IF index = "kAdded" THEN "kDeleted" ELSE "kAdded"
    BY <1>7 DEF HandleClose, UpdateChannel
  <2>2. ~revived => downs = 0 /\ index = "kAdded"
    BY <1>0, <1>7 DEF DownInv
  <2> QED BY <1>7, <2>1, <2>2 DEF DownInv
<1>8. CASE HandleHup
  <2>1. "hup" \in revents /\ revents' = revents \ {"hup"} /\ UNCHANGED revived
    BY <1>8 DEF HandleHup
  <2>2. CASE "in" \in revents
    <3>1. UNCHANGED <<state, events, index, downs, closed>>
      BY <1>8, <2>2 DEF HandleHup, channelVars
    <3> QED BY <1>0, <2>1, <3>1 DEF DownInv
  <2>3. CASE "in" \notin revents
    BY <1>7, <1>8, <2>1, <2>3 DEF HandleHup
  <2> QED BY <2>2, <2>3
<1>9. CASE HandleError \/ HandleReadData \/ HandleReadError
  <2>1. UNCHANGED <<state, events, index, downs, closed, revived>>
        /\ revents' \subseteq revents
    BY <1>9 DEF HandleError, HandleReadData, HandleReadError, channelVars, endVars
  <2> QED BY <1>0, <2>1 DEF DownInv
<1>10. CASE HandleReadEof
  <2>1. "hup" \notin revents /\ "in" \in revents /\ revents' = revents \ {"in"}
        /\ UNCHANGED revived /\ HandleClose
    BY <1>10 DEF HandleReadEof, ReadEvent
  <2> QED BY <1>7, <2>1
<1>11. CASE HandleWrite
  <2>1. revents' = {} /\ UNCHANGED <<state, downs, closed, revived>>
    BY <1>11 DEF HandleWrite, endVars
  <2>2. UNCHANGED <<events, index>> \/ IsWriting
    BY <1>11 DEF HandleWrite, channelVars
  <2>3. ~revived /\ state = "kDisconnected" => UNCHANGED <<events, index>>
    BY <1>0, <2>2 DEF DownInv, IsWriting
  <2> QED BY <1>0, <2>1, <2>3 DEF DownInv
<1>12. CASE CallbackShutdown
  <2>1. state = "kConnected" /\ state' = "kDisconnecting"
        /\ UNCHANGED <<events, index, revents, downs, closed, revived>>
    BY <1>12 DEF CallbackShutdown, channelVars, endVars
  <2> QED BY <1>0, <2>1 DEF DownInv
<1>13. ASSUME NEW w \in Workers, Worker(w) PROVE DownInv'
  <2>1. UNCHANGED <<events, index, revents, downs, closed>>
    BY <1>13 DEF Worker, SendTest, SendQueue, SendReturn, ShutdownTest, ShutdownSet,
          ShutdownQueue, otherVars, channelVars, endVars
  <2>2. CASE ShutdownSet(w)
    <3>1. state' = "kDisconnecting" /\ revived' = (revived \/ state = "kDisconnected")
      BY <2>2 DEF ShutdownSet
    <3>2. CASE revived \/ state = "kDisconnected"
      BY <3>1, <3>2 DEF DownInv
    <3>3. CASE ~revived /\ state # "kDisconnected"
      BY <1>0, <2>1, <3>1, <3>3 DEF DownInv
    <3> QED BY <3>2, <3>3
  <2>3. CASE ~ShutdownSet(w)
    <3>1. UNCHANGED <<state, revived>>
      BY <1>13, <2>3 DEF Worker, SendTest, SendQueue, SendReturn, ShutdownTest, ShutdownQueue
    <3> QED BY <1>0, <2>1, <3>1 DEF DownInv
  <2> QED BY <2>2, <2>3
<1>14. CASE CallbackReturn \/ RemoveConnectionInLoop \/ ServerDestroyed
  <2>1. UNCHANGED <<state, events, index, revents, downs, closed, revived>>
    BY <1>14 DEF CallbackReturn, RemoveConnectionInLoop, ServerDestroyed, channelVars, endVars
  <2> QED BY <1>0, <2>1 DEF DownInv
<1>15. CASE PeerSends \/ PeerCloses \/ PeerResets
  <2>1. UNCHANGED <<state, events, index, revents, downs, closed, revived>>
    BY <1>15 DEF PeerSends, PeerCloses, PeerResets, peerFrame, channelVars, endVars
  <2> QED BY <1>0, <2>1 DEF DownInv
<1>16. CASE UNCHANGED vars
  BY <1>0, <1>16 DEF DownInv, vars
<1> QED BY <1>1, <1>2, <1>3, <1>4, <1>5, <1>6, <1>8, <1>9, <1>10, <1>11, <1>12, <1>13,
           <1>14, <1>15, <1>16
        DEF Next, RunFunctor, HandleEvent, Finished

-----------------------------------------------------------------------------
(* A backlog is always on its way out.                                     *)

LEMMA ArmedStep ==
    ASSUME ConnInv, [Next]_vars
    PROVE  WritingInv' /\ BacklogArmed'
<1>0. /\ WritingInv /\ BacklogArmed
      /\ closed \in BOOLEAN /\ destroyed \in BOOLEAN
      /\ out \in Seq(Unit)
  BY DEF ConnInv, Types, MemberTypes, SeqTypes
<1> USE DEF WritingInv, BacklogArmed, IsWriting
<1>1. CASE ConnectEstablished
  <2>1. index' = "kAdded" /\ events' = events \cup {"R"}
        /\ UNCHANGED <<out, closed, destroyed>>
    BY <1>1 DEF ConnectEstablished, UpdateChannel
  <2> QED BY <1>0, <2>1
<1>2. CASE Sending
  <2>1. UNCHANGED <<closed, destroyed>>
    BY <1>2 DEF Sending, RunSendInLoop, CallbackSend, endVars
  <2>2. UNCHANGED <<events, index>> \/ (events' = events \cup {"W"} /\ index' = "kAdded")
    BY <1>2, QueuedSend, DirectSend DEF Sending, SendEffect
  <2>3. out' = out \/ out' = <<>> \/ "W" \in events'
    BY <1>2, QueuedSend, DirectSend DEF Sending, SendEffect
  <2> QED BY <1>0, <2>1, <2>2, <2>3
<1>3. CASE RunShutdownInLoop \/ RunUserCallback
  <2>1. UNCHANGED <<events, index, out, closed, destroyed>>
    BY <1>3 DEF RunShutdownInLoop, RunUserCallback, channelVars, endVars
  <2> QED BY <1>0, <2>1
<1>4. CASE ConnectDestroyed
  BY <1>4 DEF ConnectDestroyed
<1>5. CASE HandleClose
  BY <1>5 DEF HandleClose
<1>6. CASE QuietEvent /\ ~HandleClose
  <2>1. UNCHANGED <<events, index, out, closed, destroyed>>
    BY <1>6 DEF QuietEvent, PollEvent, HandleHup, HandleError, HandleReadData,
          HandleReadEof, HandleReadError, channelVars, endVars
  <2> QED BY <1>0, <2>1
<1>7. CASE HandleWrite
  <2>1. UNCHANGED <<closed, destroyed>>
    BY <1>7 DEF HandleWrite, endVars
  <2>2. \/ UNCHANGED <<events, index, out>>
        \/ UNCHANGED <<events, index>> /\ IsWriting
        \/ out' = <<>> /\ events' = events \ {"W"}
    BY <1>7 DEF HandleWrite, UpdateChannel, channelVars
  <2> QED BY <1>0, <2>1, <2>2
<1>8. CASE QuietOther
  <2>1. CASE \E w \in Workers : Worker(w)
    BY <1>0, <2>1 DEF Worker, SendTest, SendQueue, SendReturn, ShutdownTest, ShutdownSet,
          ShutdownQueue, otherVars, channelVars, endVars
  <2>2. CASE ~ \E w \in Workers : Worker(w)
    <3>1. UNCHANGED <<events, index, out, closed, destroyed>>
      BY <1>8, <2>2 DEF QuietOther, CallbackShutdown, CallbackReturn,
            RemoveConnectionInLoop, ServerDestroyed, PeerSends, PeerCloses, PeerResets,
            Finished, vars, peerFrame, channelVars, endVars
    <3> QED BY <1>0, <3>1
  <2> QED BY <2>1, <2>2
<1> QED BY <1>1, <1>2, <1>3, <1>4, <1>5, <1>6, <1>7, <1>8, NextSplit DEF QuietFunctor

-----------------------------------------------------------------------------
LEMMA ConnInvInit ==
    ASSUME Init
    PROVE  ConnInv
<1>1. MemberTypes
  <2>1. /\ inbound = 0 /\ received = 0 /\ removing = 0 /\ ups = 0 /\ downs = 0
        /\ workerMsg \in [Workers -> Msgs \cup {NoMsg}]
        /\ 0 \in 0..MaxInbound
    BY ConnAssumption DEF Init
  <2>2. /\ state \in States /\ index \in {"kNew", "kAdded", "kDeleted"}
        /\ peer \in {"open", "fin", "reset", "aborted"}
        /\ events = {} /\ revents = {} /\ stale = {} /\ sent = {}
    BY DEF Init, States
  <2>3. /\ inCallback \in BOOLEAN /\ closed \in BOOLEAN /\ destroyed \in BOOLEAN
        /\ revived \in BOOLEAN /\ writeShut \in BOOLEAN
    BY DEF Init
  <2> QED BY <2>1, <2>2, <2>3 DEF MemberTypes, TypeOK
<1>2. pending = <<Callback("connectEstablished")>> /\ pending \in Seq(FunctorType)
  BY CallbackType DEF Init
<1>3. SeqTypes /\ StreamIntact
  BY <1>2 DEF Init, SeqTypes, StreamIntact
<1>4. WorkerTypes
  BY DEF Init, WorkerTypes, WorkerPc
<1>5. EstablishInv
  <2>1. Len(pending) = 1 /\ pending # <<>> /\ pending[1].op = "connectEstablished"
    BY <1>2, CallbackType DEF Ops
  <2> QED BY <2>1 DEF Init, EstablishInv, OnlyFirst
<1>6. DownInv /\ WritingInv /\ BacklogArmed
  BY DEF Init, DownInv, WritingInv, BacklogArmed, IsWriting
<1> QED BY <1>1, <1>3, <1>4, <1>5, <1>6 DEF ConnInv, Types

LEMMA ConnInvStep ==
    ConnInv /\ [Next]_vars => ConnInv'
<1> SUFFICES ASSUME ConnInv, [Next]_vars PROVE ConnInv'
  OBVIOUS
<1>1. SeqTypes' /\ EstablishInv'
  BY EstablishStep, StreamStep DEF SeqTypes
<1> QED BY <1>1, MemberStep, WorkerStep, DownStep, ArmedStep, StreamStep DEF ConnInv, Types

LEMMA ConnInvAlways == Spec => []ConnInv
<1>1. Init => ConnInv
  BY ConnInvInit
<1> QED BY <1>1, ConnInvStep, PTL DEF Spec

(* sendInLoop and handleWrite: whatever write() takes of each piece, and   *)
(* whoever sends, the wire followed by the output buffer is what was       *)
(* accepted, in order and without gaps.                                    *)
THEOREM NothingLostOrReordered == Spec => []StreamIntact
<1>1. ConnInv => StreamIntact
  BY DEF ConnInv
<1> QED BY <1>1, ConnInvAlways, PTL

(* sendInLoop, handleWrite and the poller: a backlog of a connection that  *)
(* is up has EPOLLOUT registered.                                          *)
THEOREM BacklogOnItsWay == Spec => []BacklogArmed
<1>1. ConnInv => BacklogArmed
  BY DEF ConnInv
<1> QED BY <1>1, ConnInvAlways, PTL

(* connectionCallback_: one UP, at most one DOWN, after the UP, and always *)
(* one when the connection gets to kDisconnected, unless a shutdown() that *)
(* was under way took it out of that state.                                *)
THEOREM UpAndDownOnce == Spec => []UpThenDownOnce
<1>1. ConnInv => UpThenDownOnce
  <2> SUFFICES ASSUME ConnInv PROVE UpThenDownOnce
    OBVIOUS
  <2>1. TypeOK /\ EstablishInv /\ DownInv
    BY DEF ConnInv, Types, MemberTypes
  <2>2. ups <= 1 /\ (ups = 0 => downs = 0) /\ (ups # 0 => ups = 1)
    BY <2>1 DEF EstablishInv
  <2>3. ~revived => downs <= ups /\ (state = "kDisconnected" => downs = 1)
    BY <2>1, <2>2 DEF DownInv, TypeOK
  <2> QED BY <2>1, <2>2, <2>3 DEF UpThenDownOnce
<1> QED BY <1>1, ConnInvAlways, PTL

(* handleClose: a closed connection stays out of the poller, unless that   *)
(* shutdown() undid kDisconnected.                                         *)
THEOREM ClosedIsOff == Spec => []ClosedStaysOff
<1>1. ConnInv => ClosedStaysOff
  BY DEF ConnInv, DownInv, ClosedStaysOff
<1> QED BY <1>1, ConnInvAlways, PTL

(* shutdown(), shutdownInLoop and handleWrite: the write side is closed    *)
(* only when what was accepted has been written, unless the connection has *)
(* ended.                                                                  *)
THEOREM FinFollowsData == Spec => FinAfterData
<1> DEFINE A == writeShut' # writeShut => out' = <<>> \/ closed \/ destroyed
<1>1. ConnInv /\ [Next]_vars => [A]_vars
  <2> SUFFICES ASSUME ConnInv, [Next]_vars, writeShut' # writeShut
               PROVE  out' = <<>> \/ closed \/ destroyed
    OBVIOUS
  <2>0. BacklogArmed /\ writeShut \in BOOLEAN
    BY DEF ConnInv, Types, MemberTypes
  <2>1. ASSUME ShutdownInLoop, out' = out PROVE out' = <<>> \/ closed \/ destroyed
    <3>1. ~IsWriting
      BY <2>0, <2>1 DEF ShutdownInLoop
    <3> QED BY <2>0, <2>1, <3>1 DEF BacklogArmed
  <2>2. CASE RunShutdownInLoop \/ CallbackShutdown
    BY <2>1, <2>2 DEF RunShutdownInLoop, CallbackShutdown
  <2>3. CASE HandleWrite
    BY <2>3 DEF HandleWrite
  <2>4. CASE QuietFunctor \/ Sending
    BY <2>2, <2>4 DEF QuietFunctor, ConnectEstablished, RunUserCallback, ConnectDestroyed,
          Sending, RunSendInLoop, CallbackSend
  <2>5. CASE QuietEvent
    BY <2>5 DEF QuietEvent, PollEvent, HandleHup, HandleError, HandleReadData,
          HandleReadEof, HandleReadError
  <2>6. CASE \E w \in Workers : Worker(w)
    BY <2>6 DEF Worker, SendTest, SendQueue, SendReturn, ShutdownTest, ShutdownSet,
          ShutdownQueue, otherVars
  <2>7. CASE QuietOther
    BY <2>2, <2>6, <2>7 DEF QuietOther, CallbackReturn, RemoveConnectionInLoop,
          ServerDestroyed, PeerSends, PeerCloses, PeerResets, peerFrame, Finished, vars
  <2> QED BY <2>3, <2>4, <2>5, <2>7, NextSplit
<1>2. Spec => [][A]_vars
  BY <1>1, ConnInvAlways, PTL DEF Spec
<1> QED BY <1>2 DEF FinAfterData
=============================================================================
