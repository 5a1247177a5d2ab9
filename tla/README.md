# Verification of talk_system

TLA+ models of the core of `talk_system`: the reactor network library
(`common/net`), the thread pool and the config reader (`common/base`), and the
connection pools and the start of the database proxy (`db_proxy_server`). TLC
checks the models on small instances; TLAPS proves the central invariants for
every size.

## 1. Inventory

| component | state | operations | interacts through | hard behaviour |
|---|---|---|---|---|
| `EventLoop` | `quit_`, `looping_`, `callingPendingFunctors_`, `pendingFunctors_`, eventfd, active channels | `loop`, `quit`, `runInLoop`, `queueInLoop`, `wakeup`, `handleRead`, `doPendingFunctors` | eventfd, mutex, callbacks | a push or a quit between the loop's test and its blocking poll; pushes while a batch is taken |
| `EventLoopThread` | `loop_`, mutex and condition variable, the thread | `startLoop`, `threadFunc`, destructor | owns an `EventLoop` on the new thread's stack | start and stop handshakes, life of the loop object |
| `EventLoopThreadPool` | list of loops, `next_` | `start`, `getNextLoop` | owned by `TcpServer` | wrap of `next_`; the destructor joins loops that still work |
| `Channel`, `EPollPoller` | interest set, registration index, map of channels | `update`, `remove`, `handleEvent`, `poll` | called by `EventLoop` and `TcpConnection` | order of the event bits; re-registration after a close |
| `TcpConnection` | `state_`, input and output buffer, channel, callbacks | `send`, `shutdown`, `connectEstablished`, `connectDestroyed`, four event handlers | functors on its loop, callbacks to the user, `removeConnection` to the server | unlocked tests of `state_` by other threads, partial writes, close against shutdown |
| `TcpServer`, `Acceptor` | `connections_`, next id, `started_` | `setThreadNum`, `start`, `newConnection`, `removeConnection(InLoop)`, destructor | base loop and subloops | removal crosses loops twice; raw `this` in functors; the destructor against closes |
| `Buffer` | vector, reader and writer index | `append`, `retrieve…`, `readFd`, `writeFd` | used by `TcpConnection` | index arithmetic at the boundary between moving and growing |
| `ThreadPool`, `Thread` | `threads_`, four counters, task queue, three condition variables, mode | setters, `start`, `submitTask`, `threadFunc`, destructor | mutex, condition variables, process-wide thread numbers | lost wakeups, timeouts against notifications, growth and reclaiming, orderly end |
| `CDBPool`, `CachePool` | free list, counter, condition variable | `Init`, `Get…Conn`, `Rel…Conn` | threads of the proxy | waiting at the limit, failing connects |
| `CacheConn` | `m_pContext`, `m_last_connect_time` | `Init`, eighteen commands, destructor | Redis | error paths, reconnection |
| `CDBConn` … `CResultSet` | MySQL handles | queries | MySQL | none beyond the client library |
| managers, `main` | map of pools, singleton pointer | `getInstance`, `Init` | config file, pools | half a config file, lists with empty pieces |
| `CConfigFileReader` | map of settings, `m_load_ok` | load, `GetConfigName`, `SetConfigValue` | the file | truncating rewrite under a crash or a full disk; values that do not read back |
| `CStrExplode` | array of items | constructor | managers | empty pieces |
| `Logger` | level | `setLogLevel`, `log` | all threads | shared level |
| `CDBServer`, `msg_server`, protocol messages | – | – | – | stubs, generated code |

What makes each part correct: a functor handed to a loop runs once, in order and
without waiting for a timeout, and a quit ends the loop; a thread's loop starts
and stops with its owner; a connection's byte stream arrives in order, its backlog
is always on its way, its up and down are reported once each; an accepted task
runs once, submitters and the destructor return, counters are exact; a pooled
connection has one holder, none is lost, nobody sleeps on a free one; a Redis
context is never leaked or used after it was freed and reconnects; a server's
connection exists for as long as it is polled and no longer than needed, and goes
up and down once; a buffer is a queue of bytes; the proxy comes up with the
settings last made. The list `hazards` of `PROJECT.json` gives for each place in the code
where this could fail the properties that would show it.

## 2. Modules

* **`SerialExecutor`** – the abstract promise of a loop: submitted functors run one
  at a time in the order of submission, until it is closed.
* **`EventLoop`** – `loop()` is cut at every access to state that other threads
  touch: the reset of `quit_` (`ResetQuit`), the while test (`WhileTest`), the poll
  (`PollWakeup`, `PollIO`, `PollTimeout`), each handler, the store to
  `callingPendingFunctors_` (`StartCalling`), the swap (`SwapPending`), each functor
  (`RunFunctor`). Another thread's push or store and its `wakeup()` are two steps
  (`QueueInLoop`/`Quit`, `Wakeup`). Callbacks on the loop thread may queue, run in
  place and quit. The refinement to `SerialExecutor` maps its queue to
  `batch \o pending`.
* **`EventLoopThread`** – composes `EventLoop` (`INSTANCE`) with `startLoop`,
  `threadFunc` and the destructor; the owner is one of the loop's callers, so its
  `quit()` is `EventLoop`'s two steps. `client`, any subset of `Freedoms` and chosen
  in the initial state, says what clients do: queue from the init callback
  (`initQueues`), quit from a callback (`selfQuits`), destroy before `loop()` is past
  its reset of `quit_` (`dtorEarly`). A property that needs a discipline names it.
  The destructor reads `loop_` twice without the mutex, and calls `quit()` on what
  the second read gave; `ownerPc` ends in `deadQuit` or `deadWakeup` when that loop,
  or the one it is about to wake up, is not there any more.
* **`ThreadPool`** – the owner, the submitters and the workers. Every critical
  section of `taskQueMtx_` is a step; a wait ends one. The destructor's store to
  `isPoolRunning_` and a worker's `idleThreadSize_++`, which are outside the lock,
  are steps of their own. Thread ids are those of `Thread::numCreated_`.
* **`ConnPool`** – `CDBPool` and `CachePool`, the same algorithm twice. A
  connection is its number of creation, so that "lost" can be stated.
* **`CacheConn`** – one Redis connection. `Init()` by its return value, then the
  command. Time is the seconds since the last attempt, saturating at the back-off,
  so nothing is cut off. The commands share their control; `mget`, which may stop
  early, and `isExists`, which does not reset the pointer, differ. Who uses or frees
  the context through the pointer that `isExists` leaves goes to `undefined`;
  `freedBy` records the command that freed it.
* **`TcpConnection`** – one connection with its channel's registration, the order
  of `handleEventWithGuard`, the functors of its loop (taken from `SerialExecutor`'s
  promise: one at a time, in order), the server's removal and its destructor.
  Workers are cut at their accesses to `state_` and at the push. `write()` takes any
  prefix. The history variable `revived` records that a `shutdown()` has taken the
  connection out of `kDisconnected` (a close between its test of `state_` and its store), after
  which `UpThenDownOnce` and `ClosedStaysOff` promise nothing. A handler is one step up to the user callback, because no other thread
  touches what it touches except `state_` and the functor queue.
* **`ConnectionLife`** – the abstract promise of a server for each connection: up,
  down, gone, each at most once and in this order; only a server that is being
  destroyed may let one go early.
* **`TcpServer`** – several connections over the base loop and the subloops, with
  `getNextLoop`, the loops' functor queues, and the objects: `Alive` counts the
  `shared_ptr`s in `connections_`, in queued functors and with users. A loop polls
  (`Poll`: any of its registered channels, and the acceptor's), handles the channels
  of the batch one by one (`HandleBatch`, in any order) and then runs its functors.
  The batch (`active`, `accepting`), `sendInLoop` and `removeConnectionInLoop` hold raw
  pointers, and a user's connection one to its loop; the history variable `misused`
  records what was called on an object that is gone. The server may be destroyed
  after its loop has returned, in a functor of the running loop, or in a handler in
  the middle of a batch (`dtorIn`). A subloop is `starting` from `startLoop()` until
  `loop()` has reset `quit_`; a quit that comes before that is `missed`. A functor for
  the loop's own thread runs within the step that submits it. The data of a
  connection, and `shutdown()`, are `TcpConnection`'s.
* **`ByteQueue`**, **`Buffer`** – the abstract queue and the vector with its two
  indices. `append` and `makeSpace` are functions from one state of the members to
  the next, because `readFd` calls `append` half-way. The refinement maps the
  queue to the bytes between the indices.
* **`ConfigFile`** – the file as a sequence of lines, the map, and the rewrite, one
  `fwrite` per step. What has reached the disk when the process ends, or the disk
  is full, is any prefix of what was given to `fwrite`, which may end within a line.
  Values are names for the cases that reading distinguishes: plain; empty, whose line
  is skipped; with a `#` or blanks at an end, of which a part is read; with a newline,
  which makes two lines, the second for the key `Injected`; too long for `szPaire`,
  whose line loses its newline and takes in the next one, at every save. The history
  `intended` has for each key the value set last, and those of later calls that could
  not open the file; `spoiled` the keys that a reader may find otherwise.
* **`DbProxy`** – extends `ConfigFile` with `CStrExplode`, the two managers and
  `main`, and a process that may be killed at any moment and is started again.
* **`EventLoopProofs`**, **`EventLoopThreadProofs`**, **`ThreadPoolProofs`**,
  **`ConnPoolProofs`**, **`TcpConnectionProofs`**, **`TcpServerProofs`**,
  **`BufferProofs`**, **`DbProxyProofs`** – the theorems about the module named;
  `ConnPoolProofs` has those about `CacheConn` too, and `DbProxyProofs` those about
  `ConfigFile`.
* **`MCTcpConnection`** – the symmetry set for TLC; **`MCDbProxy`** – a small config
  file. The other runs use the component's module itself.

Operators named `Operation_Variant` are faulty variants of an operation, one for
each property; replacing the operation by the variant makes TLC refute the
property.

## 3. Runs and bounds

| run | instance | shows |
|---|---|---|
| `eventloop` | 2 callers, 3 functors | no lost wakeup or quit; every functor runs, in order (refinement), and quit stops |
| `eventloopthread` | owner and 1 caller, 2 functors, every subset of the freedoms | `loop_` never dangles and the destructor quits a live loop unless a callback quits too; start and stop return, the thread is gone |
| `threadpool` | 2 submitters, 3 tasks, both modes, queue limits 0 to 2, 1 to 3 workers | nobody sleeps on work or room; one place per task; exact counters; clean end; a submitted task is run or refused, and (fixed mode) the destructor returns |
| `connpool` | 5 threads on 2 to 4 connections | one holder, none lost, no idle sleep; waiters are woken |
| `cacheconn` | back-off 4; one command of each kind of control | no leak, and a dangling context only after `isExists`; a refused SELECT is reported; recovery |
| `tcpconnection_race` | 2 workers that send and shut down, 2 messages of 2 units | stream intact, backlog armed, up and down once, closed stays off, FIN after the data |
| `tcpconnection_shutdown` | 1 worker, 2 messages, fairness | the write side is closed in the end |
| `tcpserver` | 2 connections, one of which a user may keep, 0 to 2 subloops, the server destroyed after the loop, in a functor or in a handler | a polled connection exists, what is gone is used only in the cases below; closed ones are freed, the destructor returns unless a subloop missed its quit, nothing is left; refinement to `ConnectionLife` |
| `buffer` | 2 byte values, up to 5 bytes in a vector that begins with 2 + 3, extrabuf of 3 | indices in order, bounded growth, refinement to `ByteQueue` |
| `dbproxy` | 8 keys, every instance list of up to 3 characters over two names and the comma, 2 calls of `SetConfigValue` with plain and odd values | lists are split right; what was saved reads back unless a value is odd; a proxy that comes up after any crash has all its pools, and the very values set last but for spoiled keys |

Two callers are enough for one to act between two steps of the other while the
loop runs; three functors for one in each of `executed`, `batch` and `pending`.
More threads than connections, and a maximum above the minimum, make pool threads
wait and grow. Messages of two units are the shortest that `write()` can split. A
queue limit of 0 makes every `submitTask` wait and time out. Two connections
wrap `next_` over one subloop, use both of two, and make a batch in which one channel
is left when the handler of the other, or of the acceptor, destroys the server; one
kept connection is enough for a user's send to race the removal. Five bytes exceed the buffer's first size, fill it exactly and
make it move its content; `extrabuf` is longer than some rests of the vector and
shorter than others. Two settings let a second rewrite run on what a first one has
left. The key `Injected` is one that `main` reads, and one that comes before some of
the settable keys and after others. Named bounds: `MaxThreadId` (thread ids a pool may use), `MaxInbound` (messages
from the peer), `MaxLen` (bytes in a buffer), `MaxSets` (calls of `SetConfigValue`);
a user of `TcpServer` has one send queued at a time; a config map has one
over-long value at most (two such lines and a third do not fit `fgets`' 256 bytes);
functors, tasks and messages are used once each, which bounds the histories.
Deadlock is checked in all passing runs; finished systems have a `Finished` step,
except the event loop, whose callers can always call `quit` again.

`TypeOK` of each module is a conjunct of one of the invariants its run checks, or is
proved as a theorem of its own (`EventLoop`, `ConnPool`, `Buffer`) or within the
inductive invariant (all others).

### Disagreements between code and comments

Each is a run with `expect: violation`, and an entry of `findings` with the quote.

| run | what happens |
|---|---|
| `eventloopthread_early_quit` | `loop()` resets `quit_`: a destructor right after `startLoop()` joins for ever |
| `threadpool_cached_dtor` | a reclaimed worker does not notify `exitCond_`: the destructor may hang |

### Weaknesses the properties except

The models contain these behaviours; the property named excepts them, or the
constants of its run keep clear of them.

* `EventLoop.cc:107`: the loop object may be gone between `quit()`'s store and its
  `wakeup()` (`DtorWakeup` after `ThreadExits`).
* `EventLoopThread.cc:20`: `loop_` is tested and then read again, without the mutex; when
  a callback quits at that moment `quit()` is called on a null or dead loop (`deadQuit`;
  `PtrValid` says that it takes such a callback, and `DtorReturns` counts it as an end).
* `EventLoopThread.cc:20`: after a quit on the loop's own thread the destructor may
  find `loop_` null and not join (`DestroyedThreadGone`), and `startLoop()` may miss
  a loop that came and went (`StartLoopReturns`).
* `EventLoop.cc:133`: a functor queued by the init callback waits for the poll
  timeout (the freedom `initQueues`; no property of `EventLoopThread` relies on it).
* `ThreadPool.cc:57`: `start(0)` makes no worker and accepted tasks are dropped by
  the destructor (`DestroyedClean`, `InitThreads` is 1).
* `ThreadPool.cc:69`: `threads_[i]` with ids that do not begin at 0 is a null pointer
  (`FirstThreadId` is 0).
* `CachePool.cc:576`: a configured maximum of 1 still opens 2 connections
  (`GrowthBounded`).
* `CachePool.cc:200`: `isExists` frees the context and keeps the pointer; the next command
  or the destructor uses it and frees it once more (`NoContextLeak` excepts this
  command only).
* `TcpConnection.cc:95`: a send queued behind a `shutdown()` writes to a closed write
  side (`SendFaults`).
* `TcpConnection.cc:197`: a `kDisconnecting` connection destroyed by its server
  reports no down (`UpThenDownOnce`).
* `TcpConnection.cc:168`: a `shutdown()` that tested `state_` before a close brings
  the connection back to `kDisconnecting` after it (`revived`).
* `TcpConnection.cc:78`: `send()` from another thread queues a pointer into the
  caller's string; when it is gone `Garbage` is sent.
* `TcpConnection.cc:77`: a send whose test of `state_` came before the removal and
  whose push came after it runs on a deleted connection if its user lets go
  (`NoUseAfterFree` excepts `late sendInLoop`). So does one that was pushed before the
  server let go, if a server without subloops is destroyed while its loop runs:
  `connectDestroyed` is then called at once and nothing behind the send holds the
  connection.
* `TcpConnection.cc:78`: once `~TcpServer` has begun, a user who keeps a connection may
  `send()` through the `loop_` of a subloop that is gone (`dead loop`).
* `EventLoop.cc:74`: a handler that destroys the server leaves raw pointers to its
  acceptor's channel and to its connections' in `activeChannels_`, which the loop goes
  on to handle (`channel`).
* `TcpServer.cc:115`: a server that is destroyed while its loop runs may still be called
  by a queued `removeConnectionInLoop` of a subloop's connection, or by `handleClose` of
  a connection that is left in the batch and that a user keeps (`removeConnection`).
* `EventLoop.cc:66`: `start()` returns before the subloops have reset `quit_`; a
  `~TcpServer` soon after it may send a quit that is forgotten, and joins for ever
  (`DestructorReturns` and `ClosedIsFreed` except `JoinsForEver`; it is the finding of
  `eventloopthread_early_quit`, within a server).
* `EventLoop.cc:70`: a subloop that quits drops the `connectDestroyed` of its
  connections: no down is reported, and one that a user keeps stays `kConnected`
  (`ConnectionLife!DroppedTogether`).
* `CachePool.cc:58`: after a refused SELECT the connection stays, on database 0, and
  the next command uses it (`WrongDbReported` says only that the first call fails).
* `util.cc:40`: a list with an empty piece leaves items unset, which the managers
  and `~CStrExplode` use (`NeverUndefined`).
* `CConfigFileReader.cc:117`: a line of 128 bytes or more loses its newline and takes in
  the one after it; what is read back is too long still, so the next save does the same
  to another line. A value that is empty or has a `#` or blanks at an end does not read
  back, and one with a newline sets another key as well (`SavedReadsBack` excepts maps
  with such a value; `ServesWhatWasSet` the keys concerned, through `spoiled`).
* `CConfigFileReader.cc:125`: the result of `fclose` is not looked at, so a full disk
  may go unnoticed (`SavedReadsBack`); the last line of the file may then be cut and
  be taken for whole (`ServesWhatWasSet`, through `spoiled`).
* `db_proxy_server.cc:57`: `ThreadNum` must be configured and is not used: `CDBServer`
  sets 48 threads.

## 4. Fairness

* Threads that can run do (weak fairness of each thread's steps); user callbacks
  and tasks return; clients release connections.
* `EventLoop`: the poll timeout and other descriptors are steps, but nothing is
  assumed of them; wakeups alone must do.
* `ThreadPool`: strong fairness of `SubmitTimeout`, because `wait_for` with a
  predicate keeps one deadline however often the submitter is woken. A worker's
  timeout and its reclaiming are not relied on.
* `TcpConnection`: strong fairness of running functors and of `PollEvent(TRUE)`,
  because a loop alternates between the two and starves neither, and a peer that
  stays reads what it is sent.
* `TcpServer`: the loops' threads enter `loop()`, handle their batches, run their
  functors and end once they have seen `quit_`, which are `SerialExecutor`'s fairness
  and `EventLoop`'s `QuitStops` with its exception: nothing ends a loop that has missed
  its quit. The destructor goes on. Nothing is assumed of peers and users.
* `CacheConn`: clients keep calling and time passes. `Recovers` assumes, in its
  statement, that the server stays up and the network stops breaking links.

## 5. Proofs

`EventLoopProofs` (for every set of callers and of functors):
`TypeCorrect`, `NoWakeupLost`, `NoQuitLost`, `FunctorsInOrder` and
`LoopImplementsExecutor`. `NoLostWakeup` speaks of the loop in `poll` only and is
not inductive. The strengthening `WakeupInv` follows a pending functor backwards
through the loop: from the moment its wakeup could have been consumed
(`handle`, `calling`, `swap`) the loop is still going to take the vector; after
the swap (`run`, `while`, `poll`) a pending functor must have a wakeup coming.
`ControlInv` ties `calling` and `inCallback` to the program counter, which is what
makes a functor queued by a functor write the eventfd and one queued by a handler
need none. The refinement proof maps `SwapPending` to a stutter and uses
`FifoOrder`'s types only.

`EventLoopThreadProofs` (for every set of callers with the owner in it, every set of
functors, every subset of the freedoms): `PointerValid`, `NoThreadLeft`,
`RunsItsLoop` and `ThreadLoopSound`. `DestroyedThreadGone` holds because the destructor joins, which it
does only if it finds `loop_` set. `QuitInv` says why it does: in a loop that only its
owner ends, `quit_` is not set and `loop()` has not returned before the owner is past
that test and the second read. The last conjunct of `PtrValid`, that `quit()` meets a
live loop, follows from the same. `RunsItsLoop` is the safety part of `EventLoop`'s specification: the loop
of a thread takes no step that is not one of `EventLoop`'s. `ThreadLoopSound` draws the
conclusion from it and the lemmas of `EventLoopProofs`, which it takes with `INSTANCE`:
no lost wakeup, no lost quit and the order of the functors, for the loop of a thread
whose owner may destroy it at any time. The hypothesis of both, that the init callback
does not queue (`initQueues`), is the weakness at `EventLoop.cc:133`: that push comes
before `loop()`, where `EventLoop` has none.

`ThreadPoolProofs` (for every set of submitters and tasks, all thresholds, sizes and
ids, both modes): `NobodySleepsOnWork`, `TasksUnique`, `CountersAgree` and
`DestructorLeavesNothing`. `NobodyForgotten` is inductive with the types,
`ControlInv` and the queue's limit: who pushes or takes a task notifies all who wait
within the same critical section. The counters need more:
`CountInv` holds them exact while the pool runs and, in the destructor, for as long as
there are tasks, since a worker that leaves an empty queue does not count itself out;
`MapInv` ties `threads_` to the workers that exist, and `ControlInv` the owner's
progress to what can be there. `DestroyedClean` then says that with a task left
there are `cur >= InitThreads > 0` workers in a map that is empty. The hypothesis
`InitThreads > 0` is needed: `start(0)` of a fixed pool has no worker to take what
was accepted (`ThreadPool.cc:57`).

`ConnPoolProofs` (for every set of threads and all natural `MinConn`, `MaxConn`):
`TypeCorrect`, `ConnectionsExclusive`, `NoConnectionLost`, `SleepJustified`. The
inductive invariant `PoolInv` joins `Exclusive` and `NoneLost` with `InitPhase`
(during `Init` the list is exactly 1 … its length and nobody is served):
exclusiveness of a new connection `cur + 1` needs that all others are in
`1 .. cur`, and `NoneLost` needs exclusiveness when one is taken from the list.
`LimitInv` joins `NoSleepOnFree` and `GrowthBounded`, which is proved with it only.

`BufferProofs` (for every set of bytes that has 0, all natural sizes and lengths):
`TypeCorrect`, `IndicesInOrder`, `VectorBounded` and `BufferImplementsQueue`. The
inductive invariant is the conjunction of the three: bounded growth needs the order
of the indices, and the refinement all of it. The lemmas speak of a state of the
members as a value: `EnsureMakesRoom` (after `makeSpace` there is room, and the bytes
are those that were there, wherever they are now), `WrittenAtTheEnd`,
`AppendedAtTheEnd` and `RetrievedFromTheFront`; each operation is then one or two of
them, `readFd` with `extrabuf` a `WrittenAtTheEnd` followed by an `AppendedAtTheEnd`.

`ConnPoolProofs` also extends `CacheConn`, the connection a `CachePool` holds (for every
natural back-off and every subset of the commands): `ContextNeverLeaks` and
`WrongDbNeverSilent`. `NoContextLeak`, with the types in it,
is inductive: `Init()` makes a context only where the pointer is null, the commands
and the destructor free one only where it is live, and only `isExists` leaves the
pointer to it; `InitKeepsContext` says
so of the five ways through `Init()` and is used by both ways a command begins.
The second is a step property and needs no invariant.

`TcpConnectionProofs` (for every set of workers and messages, every message length
and high-water mark): `NothingLostOrReordered`, `BacklogOnItsWay`, `UpAndDownOnce`,
`ClosedIsOff` and `FinFollowsData`. `ConnInv` adds three things to the invariants the
run checks. `EstablishInv`: `connectEstablished` is the first functor and there is no
second, and nothing else happens before it, so `ups` cannot become 2. `DownInv`:
`kDisconnected` is final unless `revived`; the channel is then off, and what is left
of the event being handled will not close again. `WritingInv`: a channel that asks for
EPOLLOUT is registered, which `BacklogArmed` needs when `sendInLoop` leaves a rest.
The lemmas on sequences (`UnitsType` and those after it) split a message where
`write()` stops. `FinAfterData` is a step property and follows from the guards of
`shutdownInLoop` and `handleWrite` with `BacklogArmed`: a channel that does not
write has nothing to write.

`TcpServerProofs` (for every set of connections, kept or not, and all numbers of
subloops that have a largest): `NoneUsedAfterFree`, `NoneLeaked` and
`LivesAsPromised`. The invariant is about each connection and the functors it has in
the queues: `Placed` (which queue they can be in), `Accepted`, `Establishing`, `Up`,
`Closing` and `Sending`. Its core is that a functor with a raw pointer, and
`connectEstablished` of a connection the server has let go of, is `Covered`: it has
`connectDestroyed`, which holds a `shared_ptr`, behind it in the same queue, so the
order of the queue keeps the object alive. `LoopInv` says when a loop may have
stopped. `BatchInv` says that a channel in a batch is on a loop that polls it, and
registered unless a handler destroys the server; `MisuseInv` is what `NoUseAfterFree`
says of `misused`, with how far the server has come. `OthersUntouched` shows once that a step about one connection leaves the
others' functors where they were; the lemmas `PushSelf`, `PopSelf`, `AppendQueue` and
`TailQueue` say what a push and a pop do to its own. `LivesAsPromised` maps each step
to a step of `ConnectionLife`: `LifeMoves` for the steps of a connection (an object
goes while it is up only if the server is being destroyed: otherwise `connections_`
has it), `LoopDrops` for a loop that ends with its functors. The assumption that
the numbers of threads have a largest one gives the model its set of loops
(`MaxLoop`); the code's `int` has it.

`DbProxyProofs` (for any keys, settable keys, plain values, lists of instances of any
length and number of calls, crashes and full disks): `ExplodesRight`,
`SavedAlwaysReadsBack`, `NoWildItem` and `ServesIntended`. What the two loops compute is
proved by induction. The library's induction theorems take an operator, so
`NatSetInduction` states induction for a *set* of numbers, which follows from the least
number outside it; `LinesToUnfolds` and `ScannedUnfolds` show that the recursive
functions satisfy their equations.

* `_WriteFIle`: `LinesShape` says that the file has one line for each key of the map, in
  the order of the keys, and one for `Injected` behind each value with a newline;
  `PartOf` is what is left of that when the end is cut (`TruncatedPartOf`), and
  `PartReads` what a reader then finds: each key that is not spoiled is read as it was
  intended, and a list that is cut is the last key. `PlainReadsBack` is the case in which
  nothing is cut and no value is odd.
* `CStrExplode`: `ScanCounts` counts the items against the separators and, if a piece is
  empty, shows that one is missing; `ScanPieces` shows that without one the items so far
  are the pieces so far. `Pieces` is the reference definition, by the borders of the
  pieces and without a loop.

The inductive invariant is `ConfigInv` and `ProcInv`. `ConfigInv` says what a reader of
the file finds (`ReadsRight`: the values intended, for the keys that are not spoiled), the
same of the map, and that a file saved with room on the disk is `Lines(map)`, from which
`SavedReadsBack` follows. `ServesWhatWasSet` is about the step in which `main` begins to
serve, and needs to know what the managers found earlier: `ProcInv` says that the pools
made so far are those of the lists, with their keys in the file. That both lists are then
whole (`CacheListWhole`, `DbListWhole`) is the argument that carries it: by `ReadsRight` a
cut list is the last key a reader finds, but after `CacheInstances` comes `DBInstances`, and
after `DBInstances` the keys of its instances, without which `CDBManager::Init` fails.
`NoWildItem` needs the same, because a list that is cut right behind a comma has one item
fewer than it counts.

Its assumptions, named in the modules and evaluated by TLC for the run's constants:
`ConfigAssumption` (the keys of a `std::map` are different) and `ListsAssumption`. Of the
latter, the order of `CacheInstances`, `DBInstances` and the keys of database instances is
the byte order of the map for names that begin with a small letter, which those of
`dbproxyserver.conf` do; with an instance name such as `Alpha`, whose keys are written
before `DBInstances`, `CDBManager` could go on with a cut list. That no list is empty is the
reader's doing, which skips such a line. No code sets a list, no value with a newline names
one, and the keys that are set come behind the lists, so that no over-long line takes one in.

Each inductive invariant was first checked by TLC as an invariant of its run's
instance.

Only model-checked: liveness, because `~>` under fairness is out of the prover's reach.
These are `QueuedIsRun`, `QuitStops`, `StartLoopReturns`, `DtorReturns`,
`SubmittedIsAnswered`, `FixedDestructorReturns`, `WaiterWoken`, `Recovers`,
`ShutdownCompletes`, `ClosedIsFreed`, `DestructorReturns` and the fairness of
`ImplementsExecutor`, whose safety is proved. Every invariant and every action property
that a run checks is a theorem.

## 6. Not modelled

The repository holds some 400,000 lines, of which about 4,000 are the program's own:
the rest is protobuf (sources and tests, `thirdparty`), the code protoc generates
(`pb/gen`, `include/protocol`) and vendored headers (`include/json`). The models cover
the stateful part of those 4,000.

* `msg_server`, `CDBServer`'s handlers, `InterLogin` (not built): stubs.
* `CDBConn`, `CPrepareStatement`, `CResultSet`: calls of the MySQL client library in
  sequence, without state of their own; what matters of a connection, who holds it,
  is in `ConnPool`.
* `Task`, `Result`, `Semaphore`, `Any`: left from an earlier thread pool, unused.
* `Logger`: two threads that log may swap their levels; the label of an output line
  is all that depends on it.
* The map of all channels in `EPollPoller` and the growth of its event array.
* Two makers of `Thread`s at the same time (`ThreadPool.cc:61`): no program of the
  repository has them.
* SIGPIPE: nothing in the program ignores it, so a write after `shutdown()` or to a
  reset connection would end the process; the model goes on with EPIPE, which
  `sendInLoop` handles.
* The user of a server is assumed to set all callbacks; `CDBServer` sets no
  connection callback, and calling an empty one throws.

## 7. Plan

Done, in the order of the plan: `SerialExecutor`, `EventLoop`, `EventLoopThread`,
`ThreadPool`, `ConnPool`, `CacheConn`, `TcpConnection`, `TcpServer` with
`ConnectionLife`, `Buffer` with `ByteQueue`, `ConfigFile` with `DbProxy`. The safety
properties of all of them are proved, with the refinements to `SerialExecutor` (its
safety), `ByteQueue` and `ConnectionLife` and the composition of `EventLoopThread` with
its loop.

Open, should the code come to need it: several makers of `Thread`s at once, and the
message handlers of `CDBServer` and `msg_server`, which are stubs today.
