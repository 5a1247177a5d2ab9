--------------------------- MODULE ConnPoolProofs ---------------------------
(***************************************************************************)
(* Proofs about ConnPool, for any threads and any limits: a connection is  *)
(* in one place only, none is lost, and no thread sleeps without cause.    *)
(* Then about CacheConn, the connections of the Redis pool.                *)
(***************************************************************************)
EXTENDS ConnPool, CacheConn, TLAPS

(* The elements of a sequence, and that they differ.                       *)
Elements(s) == {s[i] : i \in DOMAIN s}
Distinct(s) == \A i, j \in DOMAIN s : s[i] = s[j] => i = j

(* Appending a new element keeps the elements distinct and adds one.       *)
LEMMA AppendNew ==
    ASSUME NEW S, NEW s \in Seq(S), NEW x \in S, Distinct(s), x \notin Elements(s)
    PROVE  /\ Distinct(Append(s, x))
           /\ Elements(Append(s, x)) = Elements(s) \cup {x}
  <1>1. /\ Len(Append(s, x)) = Len(s) + 1
        /\ \A i \in 1..Len(s) : Append(s, x)[i] = s[i]
        /\ Append(s, x)[Len(s) + 1] = x
        /\ DOMAIN s = 1..Len(s)
        /\ DOMAIN Append(s, x) = 1..(Len(s) + 1)
        /\ Len(s) \in Nat
    OBVIOUS
  <1>2. \A i \in 1..(Len(s) + 1) : i \in 1..Len(s) \/ i = Len(s) + 1
    BY <1>1
  <1>3. Distinct(Append(s, x))
    BY <1>1, <1>2 DEF Distinct, Elements
  <1>4. Elements(Append(s, x)) = Elements(s) \cup {x}
    BY <1>1, <1>2 DEF Elements
  <1> QED
    BY <1>3, <1>4

(* Taking the head keeps the elements distinct and removes it.             *)
LEMMA TakeHead ==
    ASSUME NEW S, NEW s \in Seq(S), s # <<>>, Distinct(s)
    PROVE  /\ Distinct(Tail(s))
           /\ Elements(Tail(s)) = Elements(s) \ {Head(s)}
           /\ Head(s) \in Elements(s)
  <1>1. /\ Len(s) \in Nat /\ Len(s) > 0
        /\ Head(s) = s[1]
        /\ DOMAIN s = 1..Len(s)
        /\ DOMAIN Tail(s) = 1..(Len(s) - 1)
        /\ \A i \in 1..(Len(s) - 1) : Tail(s)[i] = s[i + 1]
    OBVIOUS
  <1>2. \A i \in 1..(Len(s) - 1) : i + 1 \in 1..Len(s) /\ i + 1 # 1
    BY <1>1
  <1>3. \A i \in 1..Len(s) : i = 1 \/ (i - 1 \in 1..(Len(s) - 1) /\ (i - 1) + 1 = i)
    BY <1>1
  <1>4. Distinct(Tail(s))
    <2> SUFFICES ASSUME NEW i \in 1..(Len(s) - 1), NEW j \in 1..(Len(s) - 1),
                        Tail(s)[i] = Tail(s)[j]
                 PROVE  i = j
      BY <1>1 DEF Distinct
    <2>1. s[i + 1] = s[j + 1]
      BY <1>1
    <2>2. i + 1 = j + 1
      BY <1>1, <1>2, <2>1 DEF Distinct
    <2> QED
      BY <2>2
  <1>5. Elements(Tail(s)) \subseteq Elements(s) \ {Head(s)}
    <2> SUFFICES ASSUME NEW i \in 1..(Len(s) - 1)
                 PROVE  Tail(s)[i] \in Elements(s) \ {Head(s)}
      BY <1>1 DEF Elements
    <2>1. s[i + 1] # s[1]
      BY <1>1, <1>2 DEF Distinct
    <2> QED
      BY <1>1, <1>2, <2>1 DEF Elements
  <1>6. Elements(s) \ {Head(s)} \subseteq Elements(Tail(s))
    <2> SUFFICES ASSUME NEW i \in 1..Len(s), s[i] # s[1]
                 PROVE  s[i] \in Elements(Tail(s))
      BY <1>1 DEF Elements
    <2>1. i - 1 \in 1..(Len(s) - 1) /\ Tail(s)[i - 1] = s[i]
      BY <1>1, <1>3
    <2> QED
      BY <1>1, <2>1 DEF Elements
  <1>7. Head(s) \in Elements(s)
    <2>1. 1 \in DOMAIN s
      BY <1>1
    <2> QED
      BY <1>1, <2>1 DEF Elements
  <1> QED
    BY <1>4, <1>5, <1>6, <1>7

(* Expands Next into one disjunct per step.                                *)
LEMMA NextActions ==
    Next => \/ InitConnects \/ InitFails \/ InitReturns
            \/ \E t \in Threads : GetCalls(t)
            \/ \E t \in Threads : GetTakes(t)
            \/ \E t \in Threads : GetCreates(t)
            \/ \E t \in Threads : GetFails(t)
            \/ \E t \in Threads : GetWaits(t)
            \/ \E t \in Threads : SpuriousWake(t)
            \/ \E t \in Threads : RelDBConn(t)
            \/ UNCHANGED vars
  BY DEF Next, PoolInit, ThreadStep, GetTest, Finished

LEMMA TypeInit == Init => TypeOK
  BY ConnPoolAssumption DEF Init, TypeOK, ThreadPc, NoConn, Conns

LEMMA TypeStep == TypeOK /\ [Next]_vars => TypeOK'
  <1> SUFFICES ASSUME TypeOK, [Next]_vars PROVE TypeOK'
    OBVIOUS
  <1> USE DEF TypeOK, ThreadPc, Conns, NoConn
  <1>1. CASE InitConnects BY <1>1 DEF InitConnects
  <1>2. CASE InitFails BY <1>2 DEF InitFails
  <1>3. CASE InitReturns BY <1>3 DEF InitReturns
  <1>4. CASE \E t \in Threads : GetCalls(t) BY <1>4 DEF GetCalls
  <1>5. CASE \E t \in Threads : GetTakes(t) BY <1>5 DEF GetTakes
  <1>6. CASE \E t \in Threads : GetCreates(t) BY <1>6 DEF GetCreates
  <1>7. CASE \E t \in Threads : GetFails(t) BY <1>7 DEF GetFails
  <1>8. CASE \E t \in Threads : GetWaits(t) BY <1>8 DEF GetWaits
  <1>9. CASE \E t \in Threads : SpuriousWake(t) BY <1>9 DEF SpuriousWake
  <1>10. CASE \E t \in Threads : RelDBConn(t) BY <1>10 DEF RelDBConn
  <1>11. CASE UNCHANGED vars BY <1>11 DEF vars
  <1> QED
    BY <1>1, <1>2, <1>3, <1>4, <1>5, <1>6, <1>7, <1>8, <1>9, <1>10, <1>11,
       NextActions

(* Type correctness of the pool, for any threads and limits.               *)
THEOREM TypeCorrect == Spec => []TypeOK
  BY TypeInit, TypeStep, PTL DEF Spec

-----------------------------------------------------------------------------
(* What Exclusive and NoneLost need to be inductive: during Init the list  *)
(* holds 1, 2, ... in order and no thread has called yet; and no free or   *)
(* held connection has a number that was not counted.                      *)
InitPhase ==
    phase # "ready" =>
        /\ Len(free) <= cur
        /\ \A i \in DOMAIN free : free[i] = i
        /\ \A t \in Threads : pc[t] = "idle"

PoolInv == InitPhase /\ Exclusive /\ NoneLost

LEMMA PoolInvInit == Init => PoolInv
  BY ConnPoolAssumption
     DEF Init, PoolInv, InitPhase, Exclusive, NoneLost, FreeConns, HeldConns

(* A step of a thread that changes neither the list, the counter nor who   *)
(* holds what.                                                             *)
LEMMA NeutralStep ==
    ASSUME TypeOK, PoolInv, phase = "ready",
           UNCHANGED <<phase, free, cur, held>>,
           \A t \in Threads : pc'[t] = "holding" <=> pc[t] = "holding"
    PROVE  PoolInv'
  <1>1. FreeConns' = FreeConns /\ HeldConns' = HeldConns
    BY DEF FreeConns, HeldConns
  <1> QED
    BY <1>1 DEF PoolInv, InitPhase, Exclusive, NoneLost, FreeConns

LEMMA PoolInvStep == TypeOK /\ PoolInv /\ [Next]_vars => PoolInv'
  <1> SUFFICES ASSUME TypeOK, PoolInv, [Next]_vars PROVE PoolInv'
    OBVIOUS
  <1>0. FreeConns = Elements(free) /\ Distinct(free)
    BY DEF PoolInv, Exclusive, FreeConns, Elements, Distinct
  <1>1. CASE InitConnects
    <2>1. HeldConns = {} /\ HeldConns' = {}
      BY <1>1 DEF InitConnects, PoolInv, InitPhase, HeldConns
    <2>2. /\ Len(free) \in Nat /\ cur \in Nat
          /\ DOMAIN free' = 1..(Len(free) + 1)
          /\ \A i \in DOMAIN free' : free'[i] = i
          /\ Len(free') = Len(free) + 1
      BY <1>1 DEF InitConnects, PoolInv, InitPhase, TypeOK
    <2>3. InitPhase'
      BY <1>1, <2>2 DEF InitConnects, PoolInv, InitPhase
    <2>4. Exclusive'
      BY <1>1, <2>1, <2>2 DEF InitConnects, PoolInv, InitPhase, Exclusive
    <2>5. NoneLost'
      BY <1>1 DEF InitConnects, NoneLost
    <2> QED
      BY <2>3, <2>4, <2>5 DEF PoolInv
  <1>2. CASE InitFails
    <2>1. FreeConns' = FreeConns /\ HeldConns' = HeldConns
      BY <1>2 DEF InitFails, FreeConns, HeldConns
    <2> QED
      BY <1>2, <2>1 DEF InitFails, PoolInv, InitPhase, Exclusive, NoneLost
  <1>3. CASE InitReturns
    <2>1. FreeConns' = FreeConns /\ HeldConns' = {} /\ HeldConns = {}
      BY <1>3 DEF InitReturns, PoolInv, InitPhase, FreeConns, HeldConns
    <2>2. DOMAIN free = 1..cur /\ \A i \in 1..cur : free[i] = i
      BY <1>3 DEF InitReturns, PoolInv, InitPhase, TypeOK
    <2>3. FreeConns = 1..cur
      BY <2>2 DEF FreeConns
    <2> QED
      BY <1>3, <2>1, <2>3 DEF InitReturns, PoolInv, InitPhase, Exclusive, NoneLost
  <1>4. CASE \E t \in Threads : GetCalls(t)
    BY <1>4, NeutralStep DEF GetCalls, TypeOK
  <1>5. CASE \E t \in Threads : GetTakes(t)
    <2>1. PICK t \in Threads : GetTakes(t)
      BY <1>5
    <2>2. phase = "ready"
      BY <2>1 DEF GetTakes, PoolInv, InitPhase
    <2>3. /\ Distinct(free')
          /\ FreeConns' = FreeConns \ {Head(free)}
          /\ Head(free) \in FreeConns
      BY <1>0, <2>1, TakeHead DEF GetTakes, TypeOK, FreeConns, Elements
    <2>4. HeldConns' = HeldConns \cup {Head(free)}
      BY <2>1 DEF GetTakes, TypeOK, HeldConns
    <2>5. Exclusive'
      BY <2>1, <2>3, <2>4
         DEF GetTakes, TypeOK, PoolInv, Exclusive, HeldConns, Distinct
    <2> QED
      BY <2>1, <2>2, <2>3, <2>4, <2>5 DEF GetTakes, PoolInv, InitPhase, NoneLost
  <1>6. CASE \E t \in Threads : GetCreates(t)
    <2>1. PICK t \in Threads : GetCreates(t)
      BY <1>6
    <2>2. phase = "ready"
      BY <2>1 DEF GetCreates, PoolInv, InitPhase
    <2>3. FreeConns' = FreeConns
      BY <2>1 DEF GetCreates, FreeConns
    <2>4. HeldConns' = HeldConns \cup {cur + 1}
      BY <2>1 DEF GetCreates, TypeOK, HeldConns
    <2>5. /\ cur + 1 \notin 1..cur
          /\ 1..(cur + 1) = (1..cur) \cup {cur + 1}
      BY DEF TypeOK
    <2>6. cur + 1 \notin FreeConns \cup HeldConns
      BY <2>2, <2>5 DEF PoolInv, NoneLost
    <2>7. Exclusive'
      BY <2>1, <2>3, <2>4, <2>6
         DEF GetCreates, TypeOK, PoolInv, Exclusive, HeldConns
    <2> QED
      BY <2>1, <2>2, <2>3, <2>4, <2>5, <2>7
         DEF GetCreates, PoolInv, InitPhase, NoneLost
  <1>7. CASE \E t \in Threads : GetFails(t)
    BY <1>7, NeutralStep DEF GetFails, TypeOK, PoolInv, InitPhase
  <1>8. CASE \E t \in Threads : GetWaits(t)
    BY <1>8, NeutralStep DEF GetWaits, TypeOK, PoolInv, InitPhase
  <1>9. CASE \E t \in Threads : SpuriousWake(t)
    BY <1>9, NeutralStep DEF SpuriousWake, TypeOK, PoolInv, InitPhase
  <1>10. CASE \E t \in Threads : RelDBConn(t)
    <2>1. PICK t \in Threads : RelDBConn(t)
      BY <1>10
    <2>2. phase = "ready"
      BY <2>1 DEF RelDBConn, PoolInv, InitPhase
    <2>3. held[t] \in HeldConns /\ held[t] \notin FreeConns /\ held[t] \in Conns
      BY <2>1 DEF RelDBConn, PoolInv, Exclusive, HeldConns, TypeOK, Conns
    <2>4. free' = Append(free, held[t])
      BY <2>1, <2>3 DEF RelDBConn
    <2>5. Distinct(free') /\ FreeConns' = FreeConns \cup {held[t]}
      <3>1. free \in Seq(Conns) /\ Distinct(free) /\ held[t] \notin Elements(free)
        BY <1>0, <2>3 DEF TypeOK, FreeConns, Elements
      <3>2. /\ Distinct(Append(free, held[t]))
            /\ Elements(Append(free, held[t])) = Elements(free) \cup {held[t]}
        BY <2>3, <3>1, AppendNew
      <3>3. Distinct(free') /\ Elements(free') = Elements(free) \cup {held[t]}
        BY <2>4, <3>2
      <3> QED BY <3>3 DEF FreeConns, Elements
    <2>6. \A u \in Threads : pc'[u] = "holding" <=> (pc[u] = "holding" /\ u # t)
      BY <2>1 DEF RelDBConn, TypeOK
    <2>7. HeldConns' = HeldConns \ {held[t]}
      <3>1. \A u \in Threads : u # t => held'[u] = held[u]
        BY <2>1 DEF RelDBConn, TypeOK
      <3>2. \A u \in Threads : pc[u] = "holding" /\ u # t => held[u] # held[t]
        BY <2>1 DEF RelDBConn, PoolInv, Exclusive
      <3> QED BY <2>6, <3>1, <3>2 DEF HeldConns
    <2>8. Exclusive'
      BY <2>1, <2>5, <2>6, <2>7
         DEF RelDBConn, TypeOK, PoolInv, Exclusive, Distinct
    <2> QED
      BY <2>1, <2>2, <2>3, <2>5, <2>7, <2>8
         DEF RelDBConn, PoolInv, InitPhase, NoneLost
  <1>11. CASE UNCHANGED vars
    <2>1. FreeConns' = FreeConns /\ HeldConns' = HeldConns
      BY <1>11 DEF vars, FreeConns, HeldConns
    <2> QED
      BY <1>11, <2>1 DEF vars, PoolInv, InitPhase, Exclusive, NoneLost
  <1> QED
    BY <1>1, <1>2, <1>3, <1>4, <1>5, <1>6, <1>7, <1>8, <1>9, <1>10, <1>11,
       NextActions

LEMMA PoolInvAlways == Spec => [](TypeOK /\ PoolInv)
  <1>1. Init => TypeOK /\ PoolInv
    BY TypeInit, PoolInvInit
  <1>2. TypeOK /\ PoolInv /\ [Next]_vars => (TypeOK /\ PoolInv)'
    BY TypeStep, PoolInvStep
  <1> QED
    BY <1>1, <1>2, PTL DEF Spec

(* GetDBConn and RelDBConn: for any number of threads and any limits, no   *)
(* connection is held twice, or held and free.                             *)
THEOREM ConnectionsExclusive == Spec => []Exclusive
  <1>1. PoolInv => Exclusive
    BY DEF PoolInv
  <1> QED
    BY <1>1, PoolInvAlways, PTL

(* The pool's counter: the connections that exist are exactly the counted  *)
(* ones, also after failed connection attempts.                            *)
THEOREM NoConnectionLost == Spec => []NoneLost
  <1>1. PoolInv => NoneLost
    BY DEF PoolInv
  <1> QED
    BY <1>1, PoolInvAlways, PTL

-----------------------------------------------------------------------------
(* The limits: inductive as they stand, given that nobody waits before the *)
(* pool is ready.                                                          *)
LimitInv == NoSleepOnFree /\ GrowthBounded

LEMMA LimitStep == TypeOK /\ PoolInv /\ LimitInv /\ [Next]_vars => LimitInv'
  <1> SUFFICES ASSUME TypeOK, PoolInv, LimitInv, [Next]_vars PROVE LimitInv'
    OBVIOUS
  <1> USE ConnPoolAssumption DEF TypeOK, LimitInv, NoSleepOnFree, GrowthBounded
  <1>1. CASE InitConnects BY <1>1 DEF InitConnects, PoolInv, InitPhase
  <1>2. CASE InitFails BY <1>2 DEF InitFails
  <1>3. CASE InitReturns BY <1>3 DEF InitReturns
  <1>4. CASE \E t \in Threads : GetCalls(t) BY <1>4 DEF GetCalls
  <1>5. CASE \E t \in Threads : GetTakes(t) BY <1>5 DEF GetTakes
  <1>6. CASE \E t \in Threads : GetCreates(t) BY <1>6 DEF GetCreates
  <1>7. CASE \E t \in Threads : GetFails(t) BY <1>7 DEF GetFails
  <1>8. CASE \E t \in Threads : GetWaits(t) BY <1>8 DEF GetWaits
  <1>9. CASE \E t \in Threads : SpuriousWake(t) BY <1>9 DEF SpuriousWake
  <1>10. CASE \E t \in Threads : RelDBConn(t) BY <1>10 DEF RelDBConn
  <1>11. CASE UNCHANGED vars BY <1>11 DEF vars
  <1> QED
    BY <1>1, <1>2, <1>3, <1>4, <1>5, <1>6, <1>7, <1>8, <1>9, <1>10, <1>11,
       NextActions

(* cond_: for any number of threads and any limits, a thread sleeps only   *)
(* while there is nothing to take and nothing may be added.                *)
THEOREM SleepJustified == Spec => []NoSleepOnFree
  <1>1. Init => LimitInv
    BY ConnPoolAssumption DEF Init, LimitInv, NoSleepOnFree, GrowthBounded
  <1>2. TypeOK /\ PoolInv /\ LimitInv /\ [Next]_vars => LimitInv'
    BY LimitStep
  <1>3. LimitInv => NoSleepOnFree
    BY DEF LimitInv
  <1> QED
    BY <1>1, <1>2, <1>3, PoolInvAlways, PTL DEF Spec

-----------------------------------------------------------------------------
(* A connection of the Redis pool, for every back-off and every choice of  *)
(* commands: contexts are neither leaked nor freed twice, and a refused    *)
(* SELECT is reported.  NoContextLeak is inductive: a context is made only *)
(* where m_pContext is null, and freed only where it is live.              *)

(* Init(), when it returns 0 and when it does not: the types, and the one  *)
(* context.                                                                *)
LEMMA InitKeepsContext ==
    ASSUME NoContextLeak, InitReturns0 \/ InitReturnsError
    PROVE  /\ ctx' \in {"null", "live", "dangling"}
           /\ allocated' \in Nat
           /\ linkUp' \in BOOLEAN /\ db' \in {"own", "zero"}
           /\ elapsed' \in 0..Backoff
           /\ allocated' = IF ctx' = "live" THEN 1 ELSE 0
           /\ freedBy' \in AllCommands \cup {"none"}
           /\ ctx' = "dangling" => freedBy' = "isExists"
  <1> USE CacheConnAssumption DEF NoContextLeak, ConnTypeOK
  <1>1. CASE InitHasContext
    BY <1>1 DEF InitHasContext, memberVars
  <1>2. CASE InitTooSoon
    BY <1>2 DEF InitTooSoon, memberVars
  <1>3. CASE InitConnectFails
    BY <1>3 DEF InitConnectFails, InitMayConnect
  <1>4. CASE InitSelects
    BY <1>4 DEF InitSelects, InitMayConnect
  <1>5. CASE InitSelectFails
    <2>1. linkUp' \in BOOLEAN
      BY <1>5 DEF InitSelectFails
    <2> QED
      BY <1>5, <2>1 DEF InitSelectFails, InitMayConnect
  <1> QED
    BY <1>1, <1>2, <1>3, <1>4, <1>5 DEF InitReturns0, InitReturnsError

(* Every step keeps the invariant.                                         *)
LEMMA ContextStep == NoContextLeak /\ [ConnNext]_connVars => NoContextLeak'
  <1> SUFFICES ASSUME NoContextLeak, [ConnNext]_connVars PROVE NoContextLeak'
    OBVIOUS
  <1> USE CacheConnAssumption DEF Results
  <1>1. ASSUME NEW c \in Commands, CallFails(c) PROVE NoContextLeak'
    <2>1. c \in AllCommands
      BY CommandsAssumption
    <2> QED
      BY <1>1, <2>1, InitKeepsContext DEF CallFails, NoContextLeak, ConnTypeOK
  <1>2. ASSUME NEW c \in Commands, CallProceeds(c) PROVE NoContextLeak'
    <2>1. c \in AllCommands
      BY CommandsAssumption
    <2> QED
      BY <1>2, <2>1, InitKeepsContext DEF CallProceeds, NoContextLeak, ConnTypeOK
  <1>3. CASE MgetNoKeys
    BY <1>3 DEF MgetNoKeys, memberVars, NoContextLeak, ConnTypeOK
  <1>4. CASE Reply
    BY <1>4 DEF Reply, memberVars, NoContextLeak, ConnTypeOK
  <1>5. CASE NoReply
    BY <1>5 DEF NoReply, NoContextLeak, ConnTypeOK
  <1>6. CASE UseAfterFree
    BY <1>6 DEF UseAfterFree, memberVars, NoContextLeak, ConnTypeOK
  <1>7. CASE Destructor
    BY <1>7 DEF Destructor, NoContextLeak, ConnTypeOK
  <1>8. CASE Tick
    BY <1>8 DEF Tick, NoContextLeak, ConnTypeOK
  <1>9. CASE LinkBreaks
    BY <1>9 DEF LinkBreaks, NoContextLeak, ConnTypeOK
  <1>10. CASE ServerStops
    BY <1>10 DEF ServerStops, NoContextLeak, ConnTypeOK
  <1>11. CASE ServerStarts \/ ServerLoaded
    BY <1>11 DEF ServerStarts, ServerLoaded, memberVars,
                 NoContextLeak, ConnTypeOK
  <1>12. CASE UNCHANGED connVars
    BY <1>12 DEF connVars, NoContextLeak, ConnTypeOK
  <1> QED
    BY <1>1, <1>2, <1>3, <1>4, <1>5, <1>6, <1>7, <1>8, <1>9, <1>10, <1>11, <1>12
       DEF ConnNext, Call, Finish, ConnFinished

(* Init(), the commands' error path and ~CacheConn: for any back-off and   *)
(* any commands, the context that m_pContext points to is the only one,    *)
(* and a freed one is used again only where isExists freed it.             *)
THEOREM ContextNeverLeaks == ConnSpec => []NoContextLeak
  <1>1. ASSUME ConnInit PROVE NoContextLeak
    <2>1. elapsed \in 0..Backoff
      BY <1>1, CacheConnAssumption DEF ConnInit
    <2>2. linkUp \in BOOLEAN
      BY <1>1 DEF ConnInit
    <2>3. allocated \in Nat /\ allocated = IF ctx = "live" THEN 1 ELSE 0
      BY <1>1 DEF ConnInit
    <2>4. result \in Results /\ {op, freedBy} \subseteq AllCommands \cup {"none"}
      BY <1>1 DEF ConnInit, Results
    <2> QED
      BY <1>1, <2>1, <2>2, <2>3, <2>4 DEF ConnInit, NoContextLeak, ConnTypeOK
  <1> QED
    BY <1>1, ContextStep, PTL DEF ConnSpec

(* Init(): whenever a connection comes about that is not in its own        *)
(* database, the call that made it fails.                                  *)
THEOREM WrongDbNeverSilent == ConnSpec => WrongDbReported
  <1> DEFINE Reported == ctx # "live" /\ ctx' = "live" /\ db' = "zero"
                             => connPc' = "idle" /\ result' = "fail"
  <1>1. ASSUME ConnNext PROVE Reported
    <2>1. ASSUME NEW c \in Commands, CallFails(c) PROVE Reported
      BY <2>1 DEF CallFails
    <2>2. ASSUME NEW c \in Commands, CallProceeds(c) PROVE Reported
      BY <2>2 DEF CallProceeds, InitReturns0, InitHasContext,
                  InitSelects, memberVars
    <2>3. CASE Finish \/ Destructor
      BY <2>3 DEF Finish, MgetNoKeys, Reply, NoReply,
                  UseAfterFree, Destructor, memberVars
    <2>4. CASE \/ Tick \/ LinkBreaks
               \/ ServerStops \/ ServerStarts \/ ServerLoaded
      BY <2>4 DEF Tick, LinkBreaks, ServerStops, ServerStarts,
                  ServerLoaded, memberVars
    <2>5. CASE ConnFinished
      BY <2>5 DEF ConnFinished, connVars
    <2> QED
      BY <1>1, <2>1, <2>2, <2>3, <2>4, <2>5 DEF ConnNext, Call
  <1>2. [ConnNext]_connVars => [Reported]_connVars
    BY <1>1
  <1> QED
    BY <1>2, PTL DEF ConnSpec, WrongDbReported
=============================================================================
