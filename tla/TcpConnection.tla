---------------------------- MODULE TcpConnection ----------------------------
(***************************************************************************)
(* TcpConnection (src/common/net/TcpConnection.cc) with the parts of       *)
(* Channel, EPollPoller and TcpServer it lives between: one connection, on *)
(* the event loop that owns it.                                            *)
(*                                                                         *)
(* The loop is the serial executor that EventLoop.tla implements: it runs  *)
(* the functors of pending one at a time, or handles an event the poller   *)
(* reported.  A handler runs on the loop thread and is one step up to the  *)
(* user callback it makes; other threads interleave with it only through   *)
(* state_ and pending.  Those threads call send() and shutdown(), cut at   *)
(* every access to state_ and at the push of the functor.                  *)
(*                                                                         *)
(* The socket is external: write() takes any part of what it is given,     *)
(* fails after a reset or after shutdown(SHUT_WR), and the process ignores *)
(* SIGPIPE, as the handling of EPIPE in sendInLoop presumes.  The server's *)
(* user has set all callbacks, and has subloops: the connection's loop is  *)
(* not the server's.                                                       *)
(***************************************************************************)
EXTENDS Integers, Sequences, FiniteSets

CONSTANTS
    Workers,        \* threads other than the loop's
    WorkerOps,      \* what they call: a subset of {"send", "shutdown"}
    Msgs,           \* messages; each is sent at most once
    MsgLen,         \* length of a message, in units write() may split
    HighWaterMark,  \* highWaterMark_
    MaxInbound,     \* bound: messages the peer sends
    KeepsBuffer     \* workers keep the string they gave to send() unchanged

ASSUME ConnAssumption ==
    /\ WorkerOps \subseteq {"send", "shutdown"}
    /\ {"none", "garbage"} \cap Msgs = {}
    /\ MsgLen \in Nat \ {0}
    /\ HighWaterMark \in Nat
    /\ MaxInbound \in Nat
    /\ KeepsBuffer \in BOOLEAN

VARIABLES
    state,       \* state_
    events,      \* channel_->events(): "R" for kReadEvent, "W" for kWriteEvent
    index,       \* channel_->index()
    out,         \* outputBuffer_
    pending,     \* functors queued on the loop
    revents,     \* what is left of the event being handled
    inCallback,  \* a user callback runs on the loop thread
    workerPc,    \* what each worker is doing
    workerMsg,   \* the message it is in send() with
    stale,       \* messages whose string the caller has destroyed
    inServer,    \* connections_ of TcpServer holds the connection
    removing,    \* removeConnectionInLoop calls queued on the server's loop
    peer,        \* the other end: "open", "fin" (closed), "reset", or
                 \* "aborted" once the socket's error has been fetched
    inbound,     \* messages in the socket's receive buffer
    received,    \* how many the peer has sent
    writeShut,   \* shutdown(SHUT_WR) was called
    wire,        \* history: units write() has taken
    accepted,    \* history: units sendInLoop has taken on
    sent,        \* history: messages given to send()
    ups, downs,  \* history: connectionCallback_ calls, connected and not
    closed,      \* history: handleClose has run
    destroyed,   \* history: connectDestroyed has run
    revived      \* history: shutdown() took the connection out of kDisconnected

channelVars == <<events, index>>
sockVars == <<peer, inbound, received>>
workerVars == <<workerPc, workerMsg, stale>>
serverVars == <<inServer, removing>>
endVars == <<ups, downs, closed, destroyed>>
vars == <<state, events, index, out, pending, revents, inCallback, workerPc,
          workerMsg, stale, inServer, removing, peer, inbound, received,
          writeShut, wire, accepted, sent, ups, downs, closed, destroyed,
          revived>>

NoMsg == "none"
Garbage == "garbage"

Units(m) == [i \in 1..MsgLen |-> <<m, i>>]
Functor(op, m) == [op |-> op, msg |-> m]
Callback(op) == Functor(op, NoMsg)

Init ==
    /\ state = "kConnecting"
    /\ events = {} /\ index = "kNew"
    /\ out = <<>>
    /\ pending = <<Callback("connectEstablished")>>
    /\ revents = {} /\ inCallback = FALSE
    /\ workerPc = [w \in Workers |-> "idle"]
    /\ workerMsg = [w \in Workers |-> NoMsg]
    /\ stale = {}
    /\ inServer = TRUE /\ removing = 0
    /\ peer = "open" /\ inbound = 0 /\ received = 0
    /\ writeShut = FALSE
    /\ wire = <<>> /\ accepted = <<>> /\ sent = {}
    /\ ups = 0 /\ downs = 0
    /\ closed = FALSE /\ destroyed = FALSE /\ revived = FALSE

(* The loop thread is between two events or functors.                      *)
LoopIdle == revents = {} /\ ~inCallback

-----------------------------------------------------------------------------
(* EPollPoller::updateChannel and removeChannel, called by the Channel     *)
(* setters: ev becomes the interest set.                                   *)

UpdateChannel(ev) ==
    /\ events' = ev
    /\ index' = IF index = "kAdded" /\ ev = {} THEN "kDeleted" ELSE "kAdded"

RemoveChannel == index' = "kNew"

IsWriting == "W" \in events

-----------------------------------------------------------------------------
(* sendInLoop(data, len), with q what is left of the functor queue.        *)

Broken == writeShut \/ peer \in {"reset", "aborted"}

(* state_ is kDisconnected: give up.                                       *)
SendGivesUp(q) ==
    /\ state = "kDisconnected"
    /\ pending' = q
    /\ UNCHANGED <<events, index, out, wire, accepted>>

(* Nothing is queued before it: write() at once.  EPIPE and ECONNRESET     *)
(* drop the data.                                                          *)
SendFaults(q) ==
    /\ state # "kDisconnected"
    /\ ~IsWriting /\ out = <<>>
    /\ Broken
    /\ pending' = q
    /\ UNCHANGED <<events, index, out, wire, accepted>>

SendWritesAll(data, q) ==
    /\ state # "kDisconnected"
    /\ ~IsWriting /\ out = <<>>
    /\ ~Broken
    /\ wire' = wire \o data
    /\ accepted' = accepted \o data
    /\ pending' = Append(q, Callback("writeComplete"))
    /\ UNCHANGED <<events, index, out>>

HighWater(rest) ==
    IF Len(out) + Len(rest) >= HighWaterMark /\ Len(out) < HighWaterMark
    THEN <<Callback("highWaterMark")>> ELSE <<>>

SendBuffers_NotArmed(data, q) ==
    /\ state # "kDisconnected"
    /\ \E n \in 0..(Len(data) - 1) :
          /\ n > 0 => ~IsWriting /\ out = <<>>
          /\ (~IsWriting /\ out = <<>>) => ~Broken
          /\ wire' = wire \o SubSeq(data, 1, n)
          /\ out' = out \o SubSeq(data, n + 1, Len(data))
          /\ pending' = q \o HighWater(SubSeq(data, n + 1, Len(data)))
    /\ accepted' = accepted \o data
    /\ UNCHANGED <<events, index>>

(* What write() did not take, or all of it when there is a backlog, goes   *)
(* to the output buffer, and EPOLLOUT is asked for.                        *)
SendBuffers(data, q) ==
    /\ state # "kDisconnected"
    /\ \E n \in 0..(Len(data) - 1) :
          /\ n > 0 => ~IsWriting /\ out = <<>>
          /\ (~IsWriting /\ out = <<>>) => ~Broken
          /\ wire' = wire \o SubSeq(data, 1, n)
          /\ out' = out \o SubSeq(data, n + 1, Len(data))
          /\ pending' = q \o HighWater(SubSeq(data, n + 1, Len(data)))
    /\ accepted' = accepted \o data
    /\ IF IsWriting THEN UNCHANGED <<events, index>>
                    ELSE UpdateChannel(events \cup {"W"})

(* The test of the output buffer is left out: new data overtakes it.       *)
SendInLoop_IgnoresBacklog(data, q) ==
    \/ SendGivesUp(q) \/ SendFaults(q)
    \/ SendWritesAll(data, q) \/ SendBuffers(data, q)
    \/ /\ state # "kDisconnected" /\ ~Broken
       /\ wire' = wire \o data
       /\ accepted' = accepted \o data
       /\ pending' = q
       /\ UNCHANGED <<events, index, out>>

(* The test of kDisconnected is left out.                                  *)
SendInLoop_NoStateTest(data, q) ==
    \/ SendFaults(q) \/ SendWritesAll(data, q) \/ SendBuffers(data, q)
    \/ /\ state = "kDisconnected"
       /\ out' = out \o data
       /\ accepted' = accepted \o data
       /\ pending' = q
       /\ UpdateChannel(events \cup {"W"})
       /\ UNCHANGED wire

SendInLoop(data, q) ==
    \/ SendGivesUp(q) \/ SendFaults(q)
    \/ SendWritesAll(data, q) \/ SendBuffers(data, q)

-----------------------------------------------------------------------------
(* shutdownInLoop.                                                         *)

ShutdownInLoop_Anyway == writeShut' = TRUE

ShutdownInLoop == writeShut' = (writeShut \/ ~IsWriting)

-----------------------------------------------------------------------------
(* Functors, run by the loop thread.  TcpServer::newConnection has queued  *)
(* connectEstablished.                                                     *)

NextFunctor(op) ==
    /\ LoopIdle
    /\ pending # <<>>
    /\ Head(pending).op = op

ConnectEstablished ==
    /\ NextFunctor("connectEstablished")
    /\ pending' = Tail(pending)
    /\ state' = "kConnected"
    /\ UpdateChannel(events \cup {"R"})
    /\ ups' = ups + 1
    /\ inCallback' = TRUE
    /\ UNCHANGED <<out, revents, workerVars, serverVars, sockVars, writeShut,
                   wire, accepted, sent, downs, closed, destroyed, revived>>

(* The functor holds buf.c_str(), not a copy: once the caller's string is  *)
(* gone the bytes may be anything.                                         *)
RunSendInLoop ==
    LET m == Head(pending).msg
    IN  /\ NextFunctor("sendInLoop")
        /\ \E x \in {m} \cup (IF m \in stale THEN {Garbage} ELSE {}) :
              SendInLoop(Units(x), Tail(pending))
        /\ UNCHANGED <<state, revents, inCallback, workerVars, serverVars,
                       sockVars, writeShut, sent, endVars, revived>>

RunShutdownInLoop ==
    /\ NextFunctor("shutdownInLoop")
    /\ pending' = Tail(pending)
    /\ ShutdownInLoop
    /\ UNCHANGED <<state, channelVars, out, revents, inCallback, workerVars,
                   serverVars, sockVars, wire, accepted, sent, endVars,
                   revived>>

(* writeCompleteCallback_ and highWaterMarkCallback_.                      *)
RunUserCallback ==
    /\ NextFunctor("writeComplete") \/ NextFunctor("highWaterMark")
    /\ pending' = Tail(pending)
    /\ inCallback' = TRUE
    /\ UNCHANGED <<state, channelVars, out, revents, workerVars, serverVars,
                   sockVars, writeShut, wire, accepted, sent, endVars, revived>>

(* Only a connection that is still kConnected reports that it is down.     *)
ConnectDestroyed ==
    /\ NextFunctor("connectDestroyed")
    /\ pending' = Tail(pending)
    /\ IF state = "kConnected"
       THEN state' = "kDisconnected" /\ events' = {} /\ downs' = downs + 1
       ELSE UNCHANGED <<state, events, downs>>
    /\ RemoveChannel
    /\ destroyed' = TRUE
    /\ UNCHANGED <<out, revents, inCallback, workerVars, serverVars, sockVars,
                   writeShut, wire, accepted, sent, ups, closed, revived>>

-----------------------------------------------------------------------------
(* Events.  The poller reports a channel that is registered; EPOLLHUP and  *)
(* EPOLLERR need no interest.  writable: the send buffer has room.         *)

Ready(writable) ==
    {e \in {"hup", "err", "in", "out"} :
        CASE e = "hup" -> peer \notin {"open", "fin"} \/ (peer = "fin" /\ writeShut)
          [] e = "err" -> peer = "reset"
          [] e = "in" -> "R" \in events /\ (inbound > 0 \/ peer # "open")
          [] e = "out" -> "W" \in events /\ (writable \/ Broken)}

PollEvent(writable) ==
    /\ LoopIdle
    /\ index = "kAdded"
    /\ Ready(writable) # {}
    /\ revents' = Ready(writable)
    /\ UNCHANGED <<state, channelVars, out, pending, inCallback, workerVars,
                   serverVars, sockVars, writeShut, wire, accepted, sent,
                   endVars, revived>>

(* handleClose, up to removeConnection's hand-over to the server's loop.   *)
(* The connection is no longer kConnected, so a send() or shutdown() in    *)
(* the connection callback does nothing.                                   *)
HandleClose ==
    /\ state' = "kDisconnected"
    /\ UpdateChannel({})
    /\ downs' = downs + 1
    /\ closed' = TRUE
    /\ removing' = removing + 1

HandleHup_IgnoresIn ==
    /\ ~inCallback /\ "hup" \in revents
    /\ revents' = revents \ {"hup"}
    /\ HandleClose
    /\ UNCHANGED <<out, pending, inCallback, workerVars, inServer, sockVars,
                   writeShut, wire, accepted, sent, ups, destroyed, revived>>

(* handleEventWithGuard: EPOLLHUP closes unless there is something to read *)
(* first.                                                                  *)
HandleHup ==
    /\ ~inCallback /\ "hup" \in revents
    /\ revents' = revents \ {"hup"}
    /\ IF "in" \in revents
       THEN UNCHANGED <<state, channelVars, downs, closed, removing>>
       ELSE HandleClose
    /\ UNCHANGED <<out, pending, inCallback, workerVars, inServer, sockVars,
                   writeShut, wire, accepted, sent, ups, destroyed, revived>>

(* EPOLLERR: handleError fetches the error, to log it; that clears it.     *)
HandleError ==
    /\ ~inCallback /\ "hup" \notin revents /\ "err" \in revents
    /\ revents' = revents \ {"err"}
    /\ peer' = "aborted"
    /\ UNCHANGED <<state, channelVars, out, pending, inCallback, workerVars,
                   serverVars, inbound, received, writeShut, wire, accepted,
                   sent, endVars, revived>>

(* What handleRead may be called for: EPOLLHUP and EPOLLERR are dealt with.*)
ReadEvent ==
    ~inCallback /\ {"hup", "err"} \cap revents = {} /\ "in" \in revents

(* handleRead with n > 0: the message callback.                            *)
HandleReadData ==
    /\ ReadEvent
    /\ inbound > 0
    /\ inbound' = 0
    /\ revents' = revents \ {"in"}
    /\ inCallback' = TRUE
    /\ UNCHANGED <<state, channelVars, out, pending, workerVars, serverVars,
                   peer, received, writeShut, wire, accepted, sent, endVars,
                   revived>>

(* handleRead with n = 0.                                                  *)
HandleReadEof ==
    /\ ReadEvent
    /\ inbound = 0 /\ peer \in {"fin", "aborted"}
    /\ revents' = revents \ {"in"}
    /\ HandleClose
    /\ UNCHANGED <<out, pending, inCallback, workerVars, inServer, sockVars,
                   writeShut, wire, accepted, sent, ups, destroyed, revived>>

(* handleRead with n < 0: a reset that came after the poll is an error     *)
(* once, logged, and the end of file from then on.                         *)
HandleReadError ==
    /\ ReadEvent
    /\ inbound = 0 /\ peer = "reset"
    /\ peer' = "aborted"
    /\ revents' = revents \ {"in"}
    /\ UNCHANGED <<state, channelVars, out, pending, inCallback, workerVars,
                   serverVars, inbound, received, writeShut, wire, accepted,
                   sent, endVars, revived>>

HandleWrite_NoShutdown ==
    /\ ~inCallback /\ revents = {"out"}
    /\ revents' = {}
    /\ \/ /\ ~IsWriting \/ Broken
          /\ UNCHANGED <<out, wire, pending, channelVars, writeShut>>
       \/ /\ IsWriting /\ ~Broken
          /\ wire' = wire \o out /\ out' = <<>>
          /\ UpdateChannel(events \ {"W"})
          /\ pending' = Append(pending, Callback("writeComplete"))
          /\ UNCHANGED writeShut
    /\ UNCHANGED <<state, inCallback, workerVars, serverVars, sockVars,
                   accepted, sent, endVars, revived>>

(* handleWrite.  The channel may have been closed by the read callback of  *)
(* the same event.  When the buffer is empty, shutdownInLoop finds the     *)
(* channel no longer writing.                                              *)
HandleWrite ==
    /\ ~inCallback /\ revents = {"out"}
    /\ revents' = {}
    /\ \/ /\ ~IsWriting \/ Broken
          /\ UNCHANGED <<out, wire, pending, channelVars, writeShut>>
       \/ /\ IsWriting /\ ~Broken
          /\ \E n \in 1..(Len(out) - 1) :
                /\ wire' = wire \o SubSeq(out, 1, n)
                /\ out' = SubSeq(out, n + 1, Len(out))
          /\ UNCHANGED <<pending, channelVars, writeShut>>
       \/ /\ IsWriting /\ ~Broken
          /\ wire' = wire \o out /\ out' = <<>>
          /\ UpdateChannel(events \ {"W"})
          /\ pending' = Append(pending, Callback("writeComplete"))
          /\ writeShut' = (writeShut \/ state = "kDisconnecting")
    /\ UNCHANGED <<state, inCallback, workerVars, serverVars, sockVars,
                   accepted, sent, endVars, revived>>

-----------------------------------------------------------------------------
(* User code on the loop thread, in a callback.                            *)

CallbackSend(m) ==
    /\ inCallback /\ m \notin sent
    /\ state = "kConnected"
    /\ sent' = sent \cup {m}
    /\ SendInLoop(Units(m), pending)
    /\ UNCHANGED <<state, revents, inCallback, workerVars, serverVars, sockVars,
                   writeShut, endVars, revived>>

CallbackShutdown ==
    /\ inCallback
    /\ state = "kConnected"
    /\ state' = "kDisconnecting"
    /\ ShutdownInLoop
    /\ UNCHANGED <<channelVars, out, pending, revents, inCallback, workerVars,
                   serverVars, sockVars, wire, accepted, sent, endVars, revived>>

CallbackReturn ==
    /\ inCallback
    /\ inCallback' = FALSE
    /\ UNCHANGED <<state, channelVars, out, pending, revents, workerVars,
                   serverVars, sockVars, writeShut, wire, accepted, sent,
                   endVars, revived>>

-----------------------------------------------------------------------------
(* Other threads.                                                          *)

otherVars == <<channelVars, out, revents, inCallback, serverVars, sockVars,
               writeShut, wire, accepted, endVars>>

WorkerAt(w, at) == workerPc' = [workerPc EXCEPT ![w] = at]

(* send(): the test of state_.                                             *)
SendTest(w, m) ==
    /\ "send" \in WorkerOps
    /\ workerPc[w] = "idle" /\ m \notin sent
    /\ state = "kConnected"
    /\ sent' = sent \cup {m}
    /\ workerMsg' = [workerMsg EXCEPT ![w] = m]
    /\ WorkerAt(w, "sendQueue")
    /\ UNCHANGED <<state, pending, stale, otherVars, revived>>

SendQueue(w) ==
    /\ workerPc[w] = "sendQueue"
    /\ pending' = Append(pending, Functor("sendInLoop", workerMsg[w]))
    /\ WorkerAt(w, "sendReturn")
    /\ UNCHANGED <<state, workerMsg, stale, sent, otherVars, revived>>

(* send() returns and the caller's string goes out of scope, unless the    *)
(* caller takes care to keep it.                                           *)
SendReturn(w) ==
    /\ workerPc[w] = "sendReturn"
    /\ stale' = IF KeepsBuffer THEN stale ELSE stale \cup {workerMsg[w]}
    /\ workerMsg' = [workerMsg EXCEPT ![w] = NoMsg]
    /\ WorkerAt(w, "idle")
    /\ UNCHANGED <<state, pending, sent, otherVars, revived>>

(* shutdown(): the test of state_, the store, and the push.                *)
ShutdownTest(w) ==
    /\ "shutdown" \in WorkerOps
    /\ workerPc[w] = "idle"
    /\ state = "kConnected"
    /\ WorkerAt(w, "shutdownSet")
    /\ UNCHANGED <<state, pending, workerMsg, stale, sent, otherVars, revived>>

ShutdownSet(w) ==
    /\ workerPc[w] = "shutdownSet"
    /\ state' = "kDisconnecting"
    /\ revived' = (revived \/ state = "kDisconnected")
    /\ WorkerAt(w, "shutdownQueue")
    /\ UNCHANGED <<pending, workerMsg, stale, sent, otherVars>>

ShutdownQueue(w) ==
    /\ workerPc[w] = "shutdownQueue"
    /\ pending' = Append(pending, Callback("shutdownInLoop"))
    /\ WorkerAt(w, "idle")
    /\ UNCHANGED <<state, workerMsg, stale, sent, otherVars, revived>>

-----------------------------------------------------------------------------
(* The server's loop, and the peer.                                        *)

RemoveConnectionInLoop ==
    /\ removing > 0
    /\ removing' = removing - 1
    /\ inServer' = FALSE
    /\ pending' = Append(pending, Callback("connectDestroyed"))
    /\ UNCHANGED <<state, channelVars, out, revents, inCallback, workerVars,
                   sockVars, writeShut, wire, accepted, sent, endVars, revived>>

(* ~TcpServer, while no removal is under way.                              *)
ServerDestroyed ==
    /\ inServer /\ removing = 0 /\ ~closed
    /\ inServer' = FALSE
    /\ pending' = Append(pending, Callback("connectDestroyed"))
    /\ UNCHANGED <<state, channelVars, out, revents, inCallback, workerVars,
                   removing, sockVars, writeShut, wire, accepted, sent, endVars,
                   revived>>

peerFrame == <<state, channelVars, out, pending, revents, inCallback,
               workerVars, serverVars, writeShut, wire, accepted, sent, endVars,
               revived>>

PeerSends ==
    /\ peer = "open" /\ received < MaxInbound
    /\ inbound' = inbound + 1 /\ received' = received + 1
    /\ UNCHANGED <<peer, peerFrame>>

PeerCloses ==
    /\ peer = "open"
    /\ peer' = "fin"
    /\ UNCHANGED <<inbound, received, peerFrame>>

PeerResets ==
    /\ peer \in {"open", "fin"}
    /\ peer' = "reset"
    /\ UNCHANGED <<inbound, received, peerFrame>>

-----------------------------------------------------------------------------
RunFunctor ==
    \/ ConnectEstablished \/ RunSendInLoop \/ RunShutdownInLoop
    \/ RunUserCallback \/ ConnectDestroyed

HandleEvent ==
    \/ HandleHup \/ HandleError \/ HandleReadData \/ HandleReadEof \/ HandleReadError
    \/ HandleWrite

Worker(w) ==
    \/ \E m \in Msgs : SendTest(w, m)
    \/ SendQueue(w) \/ SendReturn(w)
    \/ ShutdownTest(w) \/ ShutdownSet(w) \/ ShutdownQueue(w)

(* The connection is gone and nobody is using it.                          *)
Finished ==
    /\ destroyed /\ pending = <<>> /\ LoopIdle
    /\ \A w \in Workers : workerPc[w] = "idle"
    /\ UNCHANGED vars

Next ==
    \/ RunFunctor
    \/ \E writable \in BOOLEAN : PollEvent(writable)
    \/ HandleEvent
    \/ \E m \in Msgs : CallbackSend(m)
    \/ CallbackShutdown \/ CallbackReturn
    \/ \E w \in Workers : Worker(w)
    \/ RemoveConnectionInLoop \/ ServerDestroyed
    \/ PeerSends \/ PeerCloses \/ PeerResets
    \/ Finished

(* The loop runs its functors and its events (SerialExecutor's fairness,   *)
(* and a poller that starves no channel), callbacks return, and the peer   *)
(* reads what it is sent for as long as it is there, so that the send      *)
(* buffer drains.                                                          *)
Fairness ==
    /\ SF_vars(RunFunctor)
    /\ SF_vars(PollEvent(TRUE))
    /\ WF_vars(HandleEvent)
    /\ WF_vars(CallbackReturn)
    /\ \A w \in Workers : WF_vars(SendQueue(w) \/ ShutdownSet(w) \/ ShutdownQueue(w))

Spec == Init /\ [][Next]_vars /\ Fairness

-----------------------------------------------------------------------------
States == {"kConnecting", "kConnected", "kDisconnecting", "kDisconnected"}

(* Every member has one of its values, and the counters do not wrap.       *)
TypeOK ==
    /\ state \in States
    /\ events \subseteq {"R", "W"}
    /\ index \in {"kNew", "kAdded", "kDeleted"}
    /\ revents \subseteq {"hup", "err", "in", "out"}
    /\ workerMsg \in [Workers -> Msgs \cup {NoMsg}]
    /\ stale \subseteq Msgs /\ sent \subseteq Msgs
    /\ peer \in {"open", "fin", "reset", "aborted"}
    /\ inbound \in 0..MaxInbound /\ received \in 0..MaxInbound
    /\ removing \in Nat /\ ups \in Nat /\ downs \in Nat

(* sendInLoop and handleWrite: what the kernel has taken, followed by the  *)
(* output buffer, is what was accepted for sending, in order and without   *)
(* gaps, whatever write() took of each piece and whoever sent it.          *)
StreamIntact == wire \o out = accepted

(* sendInLoop, handleWrite and the poller: data in the output buffer of a  *)
(* connection that is up always has EPOLLOUT registered; nothing else      *)
(* would ever send it.                                                     *)
BacklogArmed ==
    out # <<>> /\ ~closed /\ ~destroyed => IsWriting /\ index = "kAdded"

(* shutdown(), shutdownInLoop and handleWrite: the write side is closed    *)
(* only when all that was accepted before has been written, unless the     *)
(* connection is closed or destroyed already.                              *)
FinAfterData == [][writeShut' # writeShut =>
                        out' = <<>> \/ closed \/ destroyed]_vars

(* connectionCallback_: one UP, at most one DOWN and only after the UP; a  *)
(* connection that got to kDisconnected has reported it.  A shutdown()     *)
(* that takes a connection out of kDisconnected voids this.                *)
UpThenDownOnce ==
    /\ TypeOK
    /\ ups <= 1
    /\ ~revived => downs <= ups /\ (state = "kDisconnected" => downs = 1)

(* handleClose: a connection that was closed stays out of the poller, so   *)
(* that no event is delivered to it any more, although sendInLoop calls    *)
(* queued before may still run; again unless a shutdown() that was under   *)
(* way has undone kDisconnected, which is what stops those calls.          *)
ClosedStaysOff == closed /\ ~revived => index # "kAdded"

(* shutdown(): a connection that is being shut down gets its write side    *)
(* closed, or ends some other way.                                         *)
ShutdownCompletes ==
    (state = "kDisconnecting") ~> (writeShut \/ closed \/ destroyed)
=============================================================================
