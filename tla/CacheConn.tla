------------------------------ MODULE CacheConn ------------------------------
(***************************************************************************)
(* CacheConn (src/db_proxy_server/CachePool.cc): one Redis connection of a *)
(* CachePool, used by the thread that got it from the pool (ConnPool.tla   *)
(* shows that there is one at most).                                       *)
(*                                                                         *)
(* Every command begins with Init(), which reconnects when the context is  *)
(* null, at most once in Backoff seconds, and then talks to the server;    *)
(* without an answer it frees the context.  The nineteen commands differ   *)
(* in their text and in what they make of the reply, which is abstracted   *)
(* to the database it came from, except that mget may stop before it talks *)
(* to the server and isExists frees without forgetting.                    *)
(*                                                                         *)
(* The server is external: it stops, starts, and while it loads its data   *)
(* answers every command with an error.                                    *)
(***************************************************************************)
EXTENDS Naturals

CONSTANTS
    Commands,    \* the member functions the clients call
    Backoff      \* the 4 seconds between two connection attempts

ASSUME CacheConnAssumption == Backoff \in Nat

VARIABLES
    ctx,        \* m_pContext: "null", "live", or "dangling" (freed, not null)
    allocated,  \* redisContext objects that exist
    linkUp,     \* the live context's connection is healthy
    db,         \* the database the connection has selected: "own" or "zero"
    elapsed,    \* seconds since m_last_connect_time, up to Backoff
    connPc,     \* "idle", "command" (Init() succeeded), or the end
    op,         \* the command under way
    result,     \* how the last command ended
    server,     \* "down", "loading" or "up"
    freedBy     \* history: the command that freed the last context; "none"
                \* while there is one

memberVars == <<ctx, allocated, linkUp, db, elapsed, freedBy>>
connVars == <<ctx, allocated, linkUp, db, elapsed, connPc, op, result, server,
              freedBy>>

(* A command got no answer, an error of a server that loads its data, or   *)
(* an answer from a database.                                              *)
Results == {"none", "fail", "error", "own", "zero"}

AllCommands ==
    {"get", "setex", "set", "mget", "isExists", "hdel", "hget", "hgetAll",
     "hset", "hincrBy", "incrBy", "hmset", "hmget", "incr", "decr", "lpush",
     "rpush", "llen", "lrange"}

ASSUME CommandsAssumption == Commands \subseteq AllCommands

(* The constructor: m_last_connect_time is 0, long ago.                    *)
ConnInit ==
    /\ ctx = "null" /\ allocated = 0
    /\ linkUp = FALSE /\ db = "zero"
    /\ elapsed = Backoff
    /\ connPc = "idle" /\ op = "none" /\ result = "none"
    /\ server = "up"
    /\ freedBy = "none"

-----------------------------------------------------------------------------
(* CacheConn::Init(), by its return value.                                 *)

InitHasContext ==
    /\ ctx # "null"
    /\ UNCHANGED memberVars

InitTooSoon ==
    /\ ctx = "null"
    /\ elapsed < Backoff
    /\ UNCHANGED memberVars

InitMayConnect == ctx = "null" /\ elapsed >= Backoff

(* hiredis returns a context with err set; it is freed.                    *)
InitConnectFails ==
    /\ InitMayConnect
    /\ server = "down"
    /\ elapsed' = 0
    /\ UNCHANGED <<ctx, allocated, linkUp, db, freedBy>>

InitSelects ==
    /\ InitMayConnect
    /\ server = "up"
    /\ elapsed' = 0
    /\ ctx' = "live" /\ allocated' = allocated + 1 /\ freedBy' = "none"
    /\ linkUp' = TRUE /\ db' = "own"

(* SELECT is refused, or its answer never comes: 2 is returned and the     *)
(* context stays.                                                          *)
InitSelectFails ==
    /\ InitMayConnect
    /\ server # "down"
    /\ elapsed' = 0
    /\ ctx' = "live" /\ allocated' = allocated + 1 /\ freedBy' = "none"
    /\ linkUp' = (server = "loading") /\ db' = "zero"

InitReturns0_IgnoresSelect == InitHasContext \/ InitSelects \/ InitSelectFails

InitReturns0 == InitHasContext \/ InitSelects

InitReturnsError == InitTooSoon \/ InitConnectFails \/ InitSelectFails

-----------------------------------------------------------------------------
(* The commands.                                                           *)

CallFails(c) ==
    /\ connPc = "idle"
    /\ InitReturnsError
    /\ op' = c /\ result' = "fail"
    /\ UNCHANGED <<connPc, server>>

CallProceeds(c) ==
    /\ connPc = "idle"
    /\ InitReturns0
    /\ connPc' = "command" /\ op' = c
    /\ UNCHANGED <<result, server>>

(* mget with no keys, or with one empty key, returns after Init().         *)
MgetNoKeys ==
    /\ connPc = "command" /\ op = "mget"
    /\ connPc' = "idle" /\ result' = "fail"
    /\ UNCHANGED <<memberVars, op, server>>

Reply ==
    /\ connPc = "command" /\ ctx = "live"
    /\ linkUp
    /\ result' = IF server = "loading" THEN "error" ELSE db
    /\ connPc' = "idle"
    /\ UNCHANGED <<memberVars, op, server>>

NoReply_KeepsContext ==
    /\ connPc = "command" /\ ctx = "live"
    /\ ~linkUp
    /\ connPc' = "idle" /\ result' = "fail"
    /\ UNCHANGED <<memberVars, op, server>>

NoReply_NeverResets ==
    /\ connPc = "command" /\ ctx = "live"
    /\ ~linkUp
    /\ allocated' = allocated - 1
    /\ ctx' = "dangling" /\ freedBy' = op
    /\ connPc' = "idle" /\ result' = "fail"
    /\ UNCHANGED <<linkUp, db, elapsed, op, server>>

(* redisCommand returns null: the context is freed and, but in isExists,   *)
(* forgotten.                                                              *)
NoReply ==
    /\ connPc = "command" /\ ctx = "live"
    /\ ~linkUp
    /\ allocated' = allocated - 1
    /\ ctx' = IF op = "isExists" THEN "dangling" ELSE "null"
    /\ freedBy' = op
    /\ connPc' = "idle" /\ result' = "fail"
    /\ UNCHANGED <<linkUp, db, elapsed, op, server>>

(* A command, or the destructor, uses a freed context: anything may happen.*)
UseAfterFree ==
    /\ ctx = "dangling"
    /\ connPc = "command"
    /\ connPc' = "undefined"
    /\ UNCHANGED <<memberVars, op, result, server>>

Destructor ==
    /\ connPc = "idle"
    /\ connPc' = IF ctx = "dangling" THEN "undefined" ELSE "destroyed"
    /\ allocated' = IF ctx = "live" THEN allocated - 1 ELSE allocated
    /\ ctx' = IF ctx = "live" THEN "null" ELSE ctx
    /\ UNCHANGED <<linkUp, db, elapsed, op, result, server, freedBy>>

-----------------------------------------------------------------------------
(* Time, and the server.                                                   *)

Tick ==
    /\ elapsed < Backoff
    /\ elapsed' = elapsed + 1
    /\ UNCHANGED <<ctx, allocated, linkUp, db, connPc, op, result, server,
                   freedBy>>

LinkBreaks ==
    /\ linkUp
    /\ linkUp' = FALSE
    /\ UNCHANGED <<ctx, allocated, db, elapsed, connPc, op, result, server,
                   freedBy>>

ServerStops ==
    /\ server # "down"
    /\ server' = "down"
    /\ linkUp' = FALSE
    /\ UNCHANGED <<ctx, allocated, db, elapsed, connPc, op, result, freedBy>>

ServerStarts ==
    /\ server = "down"
    /\ server' = "loading"
    /\ UNCHANGED <<memberVars, connPc, op, result>>

ServerLoaded ==
    /\ server = "loading"
    /\ server' = "up"
    /\ UNCHANGED <<memberVars, connPc, op, result>>

Call == \E c \in Commands : CallFails(c) \/ CallProceeds(c)

Finish == MgetNoKeys \/ Reply \/ NoReply \/ UseAfterFree

ConnFinished == connPc \in {"destroyed", "undefined"} /\ UNCHANGED connVars

ConnNext ==
    \/ Call \/ Finish \/ Destructor
    \/ Tick \/ LinkBreaks \/ ServerStops \/ ServerStarts \/ ServerLoaded
    \/ ConnFinished

(* Clients keep calling, a call under way ends, and time passes.           *)
ConnFairness == WF_connVars(Call) /\ WF_connVars(Finish) /\ WF_connVars(Tick)

ConnSpec == ConnInit /\ [][ConnNext]_connVars /\ ConnFairness

-----------------------------------------------------------------------------
(* The members and the number of contexts have their types.                *)
ConnTypeOK ==
    /\ ctx \in {"null", "live", "dangling"}
    /\ allocated \in Nat
    /\ linkUp \in BOOLEAN /\ db \in {"own", "zero"}
    /\ elapsed \in 0..Backoff
    /\ connPc \in {"idle", "command", "destroyed", "undefined"}
    /\ op \in AllCommands \cup {"none"}
    /\ result \in Results
    /\ server \in {"down", "loading", "up"}
    /\ freedBy \in AllCommands \cup {"none"}

(* Init(), the error path of the commands and the destructor: the context  *)
(* m_pContext points to is the only one that exists, through any sequence  *)
(* of reconnections: none is leaked.  And m_pContext holds a freed         *)
(* context, which the next command or the destructor uses and frees once   *)
(* more ("undefined"), only where isExists freed it: it alone does not     *)
(* reset the pointer (CachePool.cc:200).                                   *)
NoContextLeak ==
    /\ ConnTypeOK
    /\ allocated = IF ctx = "live" THEN 1 ELSE 0
    /\ ctx = "dangling" \/ connPc = "undefined" => freedBy = "isExists"

(* Init(): a connection that is not in the pool's database, <instance>_db  *)
(* of the config file, because SELECT was refused or got no answer, never  *)
(* comes about unnoticed: the call that made it fails.  (The calls after   *)
(* it find the context and do not: they are answered from database 0.)     *)
WrongDbReported ==
    [][ctx # "live" /\ ctx' = "live" /\ db' = "zero"
          => connPc' = "idle" /\ result' = "fail"]_connVars

(* A step after which the context's connection is broken.                  *)
BreaksLink ==
    \/ linkUp /\ ~linkUp'
    \/ ctx = "null" /\ ctx' = "live" /\ ~linkUp'

(* Init() and the error path: when the server is back for good and the     *)
(* network breaks no more connections, commands are answered again: a      *)
(* context left over from the outage does not stay in the way.  (An mget   *)
(* may go without an answer because it was given no keys.)                 *)
Recovers ==
    (<>[](server = "up") /\ <>[][~BreaksLink]_connVars)
        => <>[](connPc = "idle" => result \in {"own", "zero"} \/ op = "mget")
=============================================================================
