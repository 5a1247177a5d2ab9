------------------------------ MODULE ConnPool ------------------------------
(***************************************************************************)
(* The connection pool of db_proxy_server: CDBPool (DBPool.cc) and         *)
(* CachePool (CachePool.cc), which are the same algorithm.  A free list    *)
(* under mutex_, a counter of the connections that exist, and cond_ for    *)
(* the threads that find the list empty and the counter at its limit.      *)
(*                                                                         *)
(* A critical section is one step.  GetDBConn connects to the server while *)
(* it holds the lock; whether that succeeds is the environment's choice.   *)
(* A connection is its number of creation.  Threads follow the discipline  *)
(* of the callers in business/: get, use, release, one at a time.          *)
(***************************************************************************)
EXTENDS Naturals, Sequences, FiniteSets

CONSTANTS
    Threads,    \* threads that use the pool
    MinConn,    \* MIN_DB_CONN_CNT, MIN_CACHE_CONN_CNT
    MaxConn     \* max_conn_cnt, from <instance>_maxconncnt of the config file

ASSUME ConnPoolAssumption == MinConn \in Nat /\ MaxConn \in Nat

NoConn == 0
Conns == Nat \ {NoConn}

VARIABLES
    phase,   \* of the pool: "new" (in Init), "ready", "failed"
    free,    \* m_free_list
    cur,     \* m_db_cur_conn_cnt, m_cur_conn_cnt
    pc,      \* what each thread is doing
    held     \* the connection a thread has got

vars == <<phase, free, cur, pc, held>>

ThreadPc == {"idle", "test", "waiting", "holding"}

FreeConns == {free[i] : i \in DOMAIN free}
HeldConns == {held[t] : t \in {u \in Threads : pc[u] = "holding"}}

(* The constructor sets the counter before any connection exists.          *)
Init ==
    /\ phase = "new"
    /\ free = <<>>
    /\ cur = MinConn
    /\ pc = [t \in Threads |-> "idle"]
    /\ held = [t \in Threads |-> NoConn]

-----------------------------------------------------------------------------
(* The pool's Init().                                                      *)

InitConnects ==
    /\ phase = "new"
    /\ Len(free) < cur
    /\ free' = Append(free, Len(free) + 1)
    /\ UNCHANGED <<phase, cur, pc, held>>

InitFails ==
    /\ phase = "new"
    /\ Len(free) < cur
    /\ phase' = "failed"
    /\ UNCHANGED <<free, cur, pc, held>>

InitReturns ==
    /\ phase = "new"
    /\ Len(free) >= cur
    /\ phase' = "ready"
    /\ UNCHANGED <<free, cur, pc, held>>

-----------------------------------------------------------------------------
(* GetDBConn, GetCacheConn.                                                *)

GetCalls(t) ==
    /\ phase = "ready"
    /\ pc[t] = "idle"
    /\ pc' = [pc EXCEPT ![t] = "test"]
    /\ UNCHANGED <<phase, free, cur, held>>

GetTakes_NoPop(t) ==
    /\ pc[t] = "test"
    /\ free # <<>>
    /\ held' = [held EXCEPT ![t] = Head(free)]
    /\ pc' = [pc EXCEPT ![t] = "holding"]
    /\ UNCHANGED <<phase, free, cur>>

GetTakes(t) ==
    /\ pc[t] = "test"
    /\ free # <<>>
    /\ held' = [held EXCEPT ![t] = Head(free)]
    /\ free' = Tail(free)
    /\ pc' = [pc EXCEPT ![t] = "holding"]
    /\ UNCHANGED <<phase, cur>>

(* The limit is tested with > where the counter is the number in use.      *)
(* The new connection goes into the free list, the loop test fails, and    *)
(* the same thread takes it out, all under the lock.                       *)
GetCreates(t) ==
    /\ pc[t] = "test"
    /\ free = <<>>
    /\ cur < MaxConn
    /\ cur' = cur + 1
    /\ held' = [held EXCEPT ![t] = cur + 1]
    /\ pc' = [pc EXCEPT ![t] = "holding"]
    /\ UNCHANGED <<phase, free>>

(* The counter goes up before the connection attempt and not down after.   *)
GetFails_Counts(t) ==
    /\ pc[t] = "test"
    /\ free = <<>>
    /\ cur < MaxConn
    /\ cur' = cur + 1
    /\ pc' = [pc EXCEPT ![t] = "idle"]
    /\ UNCHANGED <<phase, free, held>>

(* The connection that could not be made is returned all the same.         *)
(* The connection attempt fails: the caller gets NULL.                     *)
GetFails(t) ==
    /\ pc[t] = "test"
    /\ free = <<>>
    /\ cur < MaxConn
    /\ pc' = [pc EXCEPT ![t] = "idle"]
    /\ UNCHANGED <<phase, free, cur, held>>

GetWaits(t) ==
    /\ pc[t] = "test"
    /\ free = <<>>
    /\ cur >= MaxConn
    /\ pc' = [pc EXCEPT ![t] = "waiting"]
    /\ UNCHANGED <<phase, free, cur, held>>

SpuriousWake(t) ==
    /\ pc[t] = "waiting"
    /\ pc' = [pc EXCEPT ![t] = "test"]
    /\ UNCHANGED <<phase, free, cur, held>>

-----------------------------------------------------------------------------
(* RelDBConn, RelCacheConn.                                                *)

RelDBConn_NoNotify(t) ==
    /\ pc[t] = "holding"
    /\ free' = IF held[t] \in FreeConns THEN free ELSE Append(free, held[t])
    /\ held' = [held EXCEPT ![t] = NoConn]
    /\ pc' = [pc EXCEPT ![t] = "idle"]
    /\ UNCHANGED <<phase, cur>>

RelDBConn(t) ==
    /\ pc[t] = "holding"
    /\ free' = IF held[t] \in FreeConns THEN free ELSE Append(free, held[t])
    /\ held' = [held EXCEPT ![t] = NoConn]
    /\ pc' = [u \in Threads |-> IF u = t THEN "idle"
                                ELSE IF pc[u] = "waiting" THEN "test" ELSE pc[u]]
    /\ UNCHANGED <<phase, cur>>

-----------------------------------------------------------------------------
PoolInit == InitConnects \/ InitFails \/ InitReturns

GetTest(t) ==
    \/ GetTakes(t) \/ GetCreates(t) \/ GetFails(t) \/ GetWaits(t)

ThreadStep(t) == GetCalls(t) \/ GetTest(t) \/ SpuriousWake(t) \/ RelDBConn(t)

(* A failed Init makes the program exit.                                   *)
Finished == phase = "failed" /\ UNCHANGED vars

Next ==
    \/ PoolInit
    \/ \E t \in Threads : ThreadStep(t)
    \/ Finished

(* A thread in GetDBConn gets the lock, and one that holds a connection    *)
(* releases it.                                                            *)
Fairness ==
    \A t \in Threads : WF_vars(GetTest(t)) /\ WF_vars(RelDBConn(t))

Spec == Init /\ [][Next]_vars /\ Fairness

-----------------------------------------------------------------------------
(* Free connections are numbers from 1, threads are at a line of a call,   *)
(* and have a connection exactly when GetDBConn has returned one.          *)
TypeOK ==
    /\ phase \in {"new", "ready", "failed"}
    /\ free \in Seq(Conns)
    /\ cur \in Nat
    /\ pc \in [Threads -> ThreadPc]
    /\ held \in [Threads -> Nat]
    /\ \A t \in Threads : pc[t] = "holding" <=> held[t] # NoConn

(* GetDBConn, RelDBConn: a connection is in one place only.  Two threads   *)
(* never hold the same connection, and none that is held is in the list.   *)
Exclusive ==
    /\ \A t, u \in Threads :
          pc[t] = "holding" /\ pc[u] = "holding" /\ held[t] = held[u] => t = u
    /\ \A i, j \in DOMAIN free : free[i] = free[j] => i = j
    /\ FreeConns \cap HeldConns = {}

(* The counter and the connections: once the pool is ready, the            *)
(* connections that exist are the counted ones and each is free or held.   *)
(* The counter is what GetDBConn's limit is tested against, so a           *)
(* connection that is counted and lost is lost for ever.                   *)
NoneLost == phase = "ready" => FreeConns \cup HeldConns = 1..cur

(* cond_: a thread sleeps only while the list is empty and no connection   *)
(* may be added.                                                           *)
NoSleepOnFree ==
    \A t \in Threads : pc[t] = "waiting" => free = <<>> /\ cur >= MaxConn

(* The limit of the config file, except that Init opens MinConn            *)
(* connections without looking at it.                                      *)
GrowthBounded == cur <= MaxConn \/ cur = MinConn

(* cond_.notify_all: a thread that sleeps is woken, as connections are     *)
(* released.                                                               *)
WaiterWoken ==
    \A t \in Threads : (pc[t] = "waiting") ~> (pc[t] # "waiting")
=============================================================================
