---------------------------- MODULE Guards_proofs ----------------------------
(***************************************************************************)
(* Proofs about the guards of the outgoing calls: the Redis level behind   *)
(* its breaker, the Groq pool, the rate limiter and the memory level, for  *)
(* any number of coroutines, models, workers, permits, tokens and slots.   *)
(***************************************************************************)
EXTENDS MCGuards, Data_proofs

(***************************************************************************)
(* The Redis level.                                                        *)
(***************************************************************************)
Circuits == [state : {"CLOSED", "OPEN", "HALF_OPEN"}, failures : 0 .. Threshold, since : 0 .. ResetTime]
Ops == [pc : {"idle", "sent", "executed"}, kind : Kinds, key : Keys]

\* Calls that have passed the breaker and may still fail.
InFlight == {c \in Clients : op[c].pc # "idle" /\ op[c].kind # "ping"}

\* What an outage has cost so far: a closed circuit has counted every failure, a
\* half open one starts a period, and an open one can only lose what was let
\* through before it tripped.
CostBound ==
  /\ circuit.state = "CLOSED" => wasted <= circuit.failures
  /\ circuit.state = "HALF_OPEN" => wasted = 0
  /\ circuit.state = "OPEN" =>
       wasted + Cardinality(InFlight) <= Threshold + Cardinality(Clients) - 1

RedisInv == RedisTypeOK /\ CostBound

LEMMA RedisFacts ==
  ASSUME RedisTypeOK
  PROVE  /\ circuit \in Circuits /\ op \in [Clients -> Ops] /\ wasted \in Nat
         /\ circuit.state \in {"CLOSED", "OPEN", "HALF_OPEN"}
         /\ circuit.failures \in Nat /\ circuit.failures <= Threshold
         /\ circuit.since \in Nat /\ circuit.since <= ResetTime
         /\ circuit.state = "CLOSED" => circuit.failures < Threshold
BY RedisAssumption DEF RedisTypeOK, Circuits, Ops

LEMMA InFlightFinite ==
  /\ IsFiniteSet(InFlight) /\ Cardinality(InFlight) \in Nat
  /\ Cardinality(Clients) \in Nat /\ Cardinality(InFlight) <= Cardinality(Clients)
<1>1. InFlight \subseteq Clients BY DEF InFlight
<1> QED BY <1>1, RedisAssumption, FS_Subset, FS_CardinalityType

\* There is at least one coroutine.
LEMMA SomeClient == Cardinality(Clients) >= 1
<1>1. Cardinality(Clients) # 0 BY RedisAssumption, FS_EmptySet
<1> QED BY <1>1, InFlightFinite

LEMMA ObservedIs ==
  ASSUME RedisTypeOK
  PROVE  \/ Observed = circuit
         \/ /\ circuit.state = "OPEN" /\ Observed \in Circuits
            /\ Observed.state = "HALF_OPEN"
BY RedisFacts DEF Observed, Circuits

LEMMA RecordedFailure ==
  ASSUME RedisTypeOK
  PROVE  /\ RecordFailure \in Circuits
         /\ circuit.state = "CLOSED" /\ RecordFailure.state = "CLOSED"
              => RecordFailure.failures = circuit.failures + 1 /\ RecordFailure.failures < Threshold
         /\ circuit.state # "CLOSED" => RecordFailure.state = "OPEN"
<1> DEFINE f == IF circuit.failures < Threshold THEN circuit.failures + 1 ELSE Threshold
           trips == circuit.state = "HALF_OPEN" \/ (circuit.state = "CLOSED" /\ f >= Threshold)
           st == IF trips THEN "OPEN" ELSE circuit.state
<1>1. RecordFailure = [state |-> st, failures |-> f, since |-> 0] BY DEF RecordFailure
<1>2. f \in 0 .. Threshold /\ 0 \in 0 .. ResetTime BY RedisFacts, RedisAssumption
<1>3. /\ st \in {"CLOSED", "OPEN", "HALF_OPEN"}
      /\ circuit.state # "CLOSED" => st = "OPEN"
      /\ circuit.state = "CLOSED" /\ st = "CLOSED" => f = circuit.failures + 1 /\ f < Threshold
  BY RedisFacts, RedisAssumption
<1> HIDE DEF f, st
<1> QED BY <1>1, <1>2, <1>3 DEF Circuits

LEMMA ClosedCircuit ==
  ASSUME NEW circ \in Circuits
  PROVE  LET closed == [circ EXCEPT !.state = "CLOSED", !.failures = 0]
         IN  closed \in Circuits /\ closed.state = "CLOSED" /\ closed.failures = 0
<1>1. 0 \in 0 .. Threshold BY RedisAssumption
<1> QED BY <1>1 DEF Circuits

LEMMA RedisInitially == RedisInit => RedisInv
<1> SUFFICES ASSUME RedisInit PROVE RedisInv
  OBVIOUS
<1> DEFINE k == CHOOSE k \in Keys : TRUE
<1>1. k \in Keys BY RedisAssumption
<1> HIDE DEF k
<1>2. op = [c \in Clients |-> Free(k)] BY DEF RedisInit, k
<1>3. Free(k) \in Ops BY <1>1 DEF Free, Ops, Kinds, Reads
<1>4. circuit \in Circuits BY RedisAssumption DEF RedisInit, Circuits
<1>5. RedisTypeOK
  <2>1. /\ up \in BOOLEAN /\ ready = FALSE /\ stored = {} /\ wasted = 0
        /\ circuit.failures = 0
    BY DEF RedisInit
  <2>2. op \in [Clients -> Ops] BY <1>2, <1>3
  <2>3. circuit.failures < Threshold BY <2>1, RedisAssumption
  <2>4. stored \subseteq Keys /\ ready \in BOOLEAN /\ wasted \in Nat BY <2>1
  <2> QED BY <2>1, <2>2, <2>3, <2>4, <1>4 DEF RedisTypeOK, Circuits, Ops
<1>6. CostBound BY DEF RedisInit, CostBound
<1> QED BY <1>5, <1>6 DEF RedisInv

\* Steps that let the circuit alone, and the calls under way.
LEMMA ServerKeeps ==
  ASSUME RedisInv,
         Connect \/ Disconnect \/ ServerChanges \/ (\E k \in Keys : Expires(k)) \/ ResetTick
  PROVE  RedisInv'
<1>1. UNCHANGED <<op, wasted>> /\ up' \in BOOLEAN /\ ready' \in BOOLEAN /\ stored' \subseteq Keys
  BY DEF Connect, Disconnect, ServerChanges, Expires, ResetTick, RedisInv, RedisTypeOK
<1>2. /\ circuit' \in Circuits
      /\ circuit'.state = circuit.state /\ circuit'.failures = circuit.failures
  <2>1. CASE ResetTick
    BY <2>1, RedisFacts, RedisAssumption DEF ResetTick, RedisInv, Circuits
  <2>2. CASE Connect \/ Disconnect \/ ServerChanges \/ (\E k \in Keys : Expires(k))
    BY <2>2, RedisFacts DEF Connect, Disconnect, ServerChanges, Expires, RedisInv
  <2> QED BY <2>1, <2>2
<1>3. RedisTypeOK' BY <1>1, <1>2 DEF RedisInv, RedisTypeOK, Circuits
<1>4. InFlight' = InFlight BY <1>1 DEF InFlight
<1>5. CostBound' BY <1>1, <1>2, <1>4 DEF RedisInv, CostBound
<1> QED BY <1>3, <1>5 DEF RedisInv

\* A call that is let through, and one that is not; a ping, which asks no
\* breaker, is not counted.
LEMMA StartKeeps ==
  ASSUME NEW c \in Clients, NEW kind \in Kinds, NEW k \in Keys, RedisInv, Start(c, kind, k)
  PROVE  RedisInv'
<1>1. /\ op[c].pc = "idle" /\ UNCHANGED <<up, ready, stored>>
      /\ op' = op \/ Sent(c, kind, k)
      /\ op' = op \/ kind = "ping" \/ Observed.state # "OPEN"
  BY DEF Start, Allows
<1>2. \/ UNCHANGED <<circuit, wasted>> /\ kind = "ping"
      \/ circuit' = Observed /\ wasted' = IF Observed.state # circuit.state THEN 0 ELSE wasted
  BY DEF Start, Observe
<1>3. op' \in [Clients -> Ops]
  <2>1. [pc |-> "sent", kind |-> kind, key |-> k] \in Ops BY DEF Ops
  <2> QED BY <2>1, <1>1, RedisFacts DEF RedisInv, Sent
<1>4. /\ circuit' \in Circuits /\ wasted' \in Nat
      /\ \/ UNCHANGED <<circuit, wasted>>
         \/ circuit'.state = "HALF_OPEN" /\ wasted' = 0
  BY <1>2, RedisFacts, ObservedIs DEF RedisInv
<1>5. RedisTypeOK' BY <1>1, <1>3, <1>4 DEF RedisInv, RedisTypeOK, Circuits, Ops
<1>6. CASE circuit'.state = "OPEN"
  <2>1. UNCHANGED <<circuit, wasted>> BY <1>4, <1>6
  <2>2. op' = op \/ kind = "ping" BY <1>1, <1>2, <1>6, <2>1
  <2>3. InFlight' = InFlight
    <3>1. CASE op' = op BY <3>1 DEF InFlight
    <3>2. CASE kind = "ping" /\ Sent(c, kind, k)
      <4>1. op'[c].kind = "ping" /\ op[c].pc = "idle" BY <3>2, <1>1, RedisFacts DEF RedisInv, Sent
      <4>2. \A d \in Clients \ {c} : op'[d] = op[d] BY <3>2, RedisFacts DEF RedisInv, Sent
      <4> QED BY <4>1, <4>2 DEF InFlight
    <3> QED BY <3>1, <3>2, <2>2, <1>1
  <2> QED BY <2>1, <2>3, <1>5 DEF RedisInv, CostBound
<1>7. CASE circuit'.state # "OPEN"
  BY <1>4, <1>5, <1>7 DEF RedisInv, CostBound
<1> QED BY <1>6, <1>7

LEMMA ExecuteKeeps ==
  ASSUME NEW c \in Clients, RedisInv, Execute(c)
  PROVE  RedisInv'
<1>1. /\ op[c].pc = "sent" /\ op' = [op EXCEPT ![c].pc = "executed"]
      /\ UNCHANGED <<up, ready, circuit, wasted>>
  BY DEF Execute
<1>2. stored' \subseteq Keys
  <2>1. op[c].key \in Keys BY RedisFacts DEF RedisInv, Ops
  <2> QED BY <2>1 DEF Execute, RedisInv, RedisTypeOK
<1> DEFINE o == [op[c] EXCEPT !.pc = "executed"]
<1>3. op[c] \in Ops BY RedisFacts DEF RedisInv
<1>4. o \in Ops /\ o.pc = "executed" /\ o.kind = op[c].kind BY <1>3 DEF Ops
<1>5. op' = [op EXCEPT ![c] = o] BY <1>1
<1> HIDE DEF o
<1>6. op' \in [Clients -> Ops] /\ \A d \in Clients : op'[d] = IF d = c THEN o ELSE op[d]
  BY <1>4, <1>5, RedisFacts DEF RedisInv
<1>7. RedisTypeOK' BY <1>1, <1>2, <1>6 DEF RedisInv, RedisTypeOK, Ops
<1>8. InFlight' = InFlight BY <1>1, <1>4, <1>6 DEF InFlight
<1> QED BY <1>1, <1>7, <1>8 DEF RedisInv, CostBound

LEMMA SucceedKeeps ==
  ASSUME NEW c \in Clients, RedisInv, Succeed(c)
  PROVE  RedisInv'
<1>1. op[c] \in Ops /\ op[c].key \in Keys /\ op \in [Clients -> Ops] BY RedisFacts DEF RedisInv, Ops
<1>2. op' \in [Clients -> Ops]
  <2>1. CASE op[c].kind = "info" /\ Allows
    <3>1. [pc |-> "sent", kind |-> "info_size", key |-> op[c].key] \in Ops
      BY <1>1 DEF Ops, Kinds
    <3> QED BY <3>1, <2>1, <1>1 DEF Succeed, Sent
  <2>2. CASE ~(op[c].kind = "info" /\ Allows)
    <3>1. Free(op[c].key) \in Ops BY <1>1 DEF Free, Ops, Kinds, Reads
    <3> QED BY <3>1, <2>2, <1>1 DEF Succeed
  <2> QED BY <2>1, <2>2
<1>3. /\ circuit' \in Circuits /\ wasted' \in Nat
      /\ \/ circuit' = circuit /\ wasted' = wasted /\ circuit.state # "OPEN"
         \/ circuit'.state = "HALF_OPEN" /\ wasted' = 0
         \/ circuit'.state = "CLOSED" /\ circuit'.failures = 0 /\ wasted' = 0
  <2>1. CASE op[c].kind = "info" /\ Allows
    BY <2>1, RedisFacts, ObservedIs DEF RedisInv, Succeed, Observe, Allows
  <2>2. CASE ~(op[c].kind = "info" /\ Allows)
    <3>1. circuit' = RecordSuccess /\ wasted' = 0 BY <2>2 DEF Succeed
    <3>2. circuit \in Circuits BY RedisFacts DEF RedisInv
    <3> QED BY <3>1, <3>2, ClosedCircuit DEF RecordSuccess
  <2> QED BY <2>1, <2>2
<1>4. UNCHANGED <<up, ready, stored>> BY DEF Succeed
<1>5. circuit'.state = "CLOSED" => circuit'.failures < Threshold
  BY <1>3, RedisAssumption DEF RedisInv, RedisTypeOK
<1>6. RedisTypeOK' BY <1>2, <1>3, <1>4, <1>5 DEF RedisInv, RedisTypeOK, Circuits, Ops
<1>7. CostBound' BY <1>3 DEF RedisInv, CostBound
<1> QED BY <1>6, <1>7 DEF RedisInv

\* A failure: the call is over, so that there is one fewer to lose.
LEMMA FailKeeps ==
  ASSUME NEW c \in Clients, RedisInv, Fail(c)
  PROVE  RedisInv'
<1>1. /\ op[c].pc # "idle" /\ circuit' = RecordFailure /\ op' = [op EXCEPT ![c] = Free(@.key)]
      /\ wasted' = IF op[c].kind = "ping" THEN wasted ELSE wasted + 1
      /\ UNCHANGED <<up, ready, stored>>
  BY DEF Fail
<1>2. op[c] \in Ops /\ op[c].key \in Keys /\ op \in [Clients -> Ops] BY RedisFacts DEF RedisInv, Ops
<1>3. Free(op[c].key) \in Ops /\ Free(op[c].key).pc = "idle"
  BY <1>2 DEF Free, Ops, Kinds, Reads
<1>4. op' \in [Clients -> Ops] /\ op'[c].pc = "idle" /\ \A d \in Clients \ {c} : op'[d] = op[d]
  BY <1>1, <1>2, <1>3
<1>5. InFlight' = InFlight \ {c} BY <1>4 DEF InFlight
<1>6. c \in InFlight <=> op[c].kind # "ping" BY <1>1 DEF InFlight
<1>7. /\ Cardinality(InFlight') \in Nat
      /\ Cardinality(InFlight') <= Cardinality(Clients) - 1
      /\ op[c].kind # "ping" => Cardinality(InFlight') = Cardinality(InFlight) - 1
      /\ op[c].kind = "ping" => InFlight' = InFlight
  <2>1. IsFiniteSet(Clients \ {c}) /\ Cardinality(Clients \ {c}) = Cardinality(Clients) - 1
    BY RedisAssumption, FS_RemoveElement
  <2>2. InFlight' \subseteq Clients \ {c} BY <1>5 DEF InFlight
  <2>3. Cardinality(InFlight') \in Nat /\ Cardinality(InFlight') <= Cardinality(Clients \ {c})
    BY <2>1, <2>2, FS_Subset, FS_CardinalityType
  <2>4. op[c].kind # "ping" => Cardinality(InFlight') = Cardinality(InFlight) - 1
    BY <1>5, <1>6, InFlightFinite, FS_RemoveElement
  <2>5. op[c].kind = "ping" => InFlight' = InFlight BY <1>5, <1>6
  <2> QED BY <2>1, <2>3, <2>4, <2>5
<1>8. circuit' \in Circuits /\ wasted' \in Nat
  BY <1>1, RecordedFailure, RedisFacts DEF RedisInv
<1>9. circuit'.state \in {"CLOSED", "OPEN"}
      /\ (circuit'.state = "CLOSED" => /\ circuit.state = "CLOSED"
                                       /\ circuit'.failures = circuit.failures + 1
                                       /\ circuit'.failures < Threshold)
  <2>1. circuit.state = "CLOSED" => circuit'.state # "HALF_OPEN"
    BY <1>1 DEF RecordFailure
  <2> QED BY <2>1, <1>1, <1>8, RecordedFailure, RedisFacts DEF RedisInv, Circuits
<1>10. RedisTypeOK' BY <1>1, <1>4, <1>8, <1>9 DEF RedisInv, RedisTypeOK, Circuits, Ops
<1>11. circuit'.state = "CLOSED" => wasted' <= circuit'.failures
  BY <1>1, <1>9, RedisFacts DEF RedisInv, CostBound
<1>12. ASSUME circuit'.state = "OPEN"
       PROVE  wasted' + Cardinality(InFlight') <= Threshold + Cardinality(Clients) - 1
  <2>1. CASE circuit.state = "OPEN"
    BY <2>1, <1>1, <1>7, InFlightFinite, RedisFacts, RedisAssumption DEF RedisInv, CostBound
  <2>2. CASE circuit.state # "OPEN"
    <3>1. wasted' <= Threshold
      BY <2>2, <1>1, RedisFacts, RedisAssumption DEF RedisInv, CostBound
    <3> QED BY <3>1, <1>7, <1>8, InFlightFinite, RedisAssumption
  <2> QED BY <2>1, <2>2
<1> QED BY <1>9, <1>10, <1>11, <1>12 DEF RedisInv, CostBound

LEMMA FailNestedSizeKeeps ==
  ASSUME NEW c \in Clients, RedisInv, FailNestedSize(c)
  PROVE  RedisInv'
<1>1. /\ circuit' = [RecordFailure EXCEPT !.state = "CLOSED", !.failures = 0]
      /\ wasted' = 0 /\ op' = [op EXCEPT ![c] = Free(@.key)]
      /\ UNCHANGED <<up, ready, stored>>
  BY DEF FailNestedSize
<1>2. op[c] \in Ops /\ op[c].key \in Keys /\ op \in [Clients -> Ops] BY RedisFacts DEF RedisInv, Ops
<1>3. op' \in [Clients -> Ops]
  <2>1. Free(op[c].key) \in Ops BY <1>2 DEF Free, Ops, Kinds, Reads
  <2> QED BY <2>1, <1>1, <1>2
<1>4. circuit' \in Circuits /\ circuit'.state = "CLOSED" /\ circuit'.failures = 0
  <2>1. RecordFailure \in Circuits BY RecordedFailure DEF RedisInv
  <2> QED BY <2>1, <1>1, ClosedCircuit
<1>5. RedisTypeOK' BY <1>1, <1>3, <1>4, RedisAssumption DEF RedisInv, RedisTypeOK, Circuits, Ops
<1>6. CostBound' BY <1>1, <1>4 DEF CostBound
<1> QED BY <1>5, <1>6 DEF RedisInv

LEMMA RedisStep == RedisInv /\ [RedisNext]_redisVars => RedisInv'
<1> SUFFICES ASSUME RedisInv, [RedisNext]_redisVars PROVE RedisInv'
  OBVIOUS
<1>1. CASE UNCHANGED redisVars
  <2>1. InFlight' = InFlight BY <1>1 DEF redisVars, InFlight
  <2> QED BY <2>1, <1>1 DEF redisVars, RedisInv, RedisTypeOK, CostBound
<1>2. ASSUME NEW c \in Clients,
             (\E kind \in Kinds, k \in Keys : Start(c, kind, k))
               \/ Execute(c) \/ Succeed(c) \/ Fail(c) \/ FailNestedSize(c)
      PROVE  RedisInv'
  BY <1>2, StartKeeps, ExecuteKeeps, SucceedKeeps, FailKeeps, FailNestedSizeKeeps
<1> QED BY <1>1, <1>2, ServerKeeps DEF RedisNext

LEMMA InvBoundsCost == RedisInv => OutageCostBounded
<1> SUFFICES ASSUME RedisInv PROVE OutageCostBounded
  OBVIOUS
<1>1. RedisTypeOK /\ CostBound BY DEF RedisInv
<1> QED BY <1>1, RedisFacts, InFlightFinite, SomeClient, RedisAssumption DEF CostBound, OutageCostBounded

\* The types of the cache level's state, and that a closed circuit is short of
\* its threshold whichever calls end late (CircuitBreaker.record_failure).
THEOREM RedisTypes == RedisSpec => []RedisTypeOK
<1>1. RedisInv => RedisTypeOK BY DEF RedisInv
<1> QED BY <1>1, RedisInitially, RedisStep, PTL DEF RedisSpec

\* A server that is down costs fewer failed calls per reset period than the
\* threshold and the number of coroutines together, however their calls overlap
\* (CircuitBreaker.allow_request, RedisCacheBackend).
THEOREM OutagesCostLittle == RedisSpec => []OutageCostBounded
<1> QED BY InvBoundsCost, RedisInitially, RedisStep, PTL DEF RedisSpec

(***************************************************************************)
(* The Groq pool.                                                          *)
(***************************************************************************)
WorkerRecs == [pc : {"idle", "routing", "calling"},
               caller : Callers \cup {None}, model : Models \cup {None}]
LimitRecs == [window : {"unknown", "enough", "low"}, cooling : BOOLEAN,
              rpd : Nat, tpd : Nat, date : Nat]

\* A call is in one place: on the queue once or with one worker.
InOnePlace ==
  /\ \A i, j \in DOMAIN queue : queue[i] = queue[j] => i = j
  /\ \A w \in Workers : worker[w].pc = "idle" <=> worker[w].caller = None
  /\ \A v, w \in Workers : worker[v].caller = worker[w].caller /\ v # w => worker[w].caller = None
  /\ \A w \in Workers, i \in DOMAIN queue : queue[i] # worker[w].caller

\* The daily counter leaves room for every call that is under way.
BudgetCovered ==
  \A m \in Models : limits[m].rpd + Cardinality(CallingModel(m)) <= RpdLimit

PoolInv == PoolTypeOK /\ InOnePlace /\ BudgetCovered

LEMMA PoolConstants ==
  /\ RpdLimit \in Nat /\ RpdGuard \in Nat /\ EstTokens \in Nat /\ QueueMax \in Nat
  /\ Cardinality(Workers) \in Nat /\ Cardinality(Workers) <= RpdGuard + 1
  /\ None \notin Models /\ None \notin Callers
BY PoolAssumption, FS_CardinalityType

LEMMA PoolFacts ==
  ASSUME PoolTypeOK
  PROVE  /\ queue \in Seq(Callers) /\ worker \in [Workers -> WorkerRecs]
         /\ limits \in [Models -> LimitRecs] /\ active \in Models
         /\ today \in Nat /\ expiries \in Nat
         /\ reply \in [Callers -> {"none", "answered", "rate_limited", "provider_error"}]
         /\ \A w \in Workers : worker[w].pc = "calling" => worker[w].model \in Models
BY DEF PoolTypeOK, WorkerRecs, LimitRecs

LEMMA CallingFinite ==
  ASSUME NEW m
  PROVE  /\ IsFiniteSet(CallingModel(m)) /\ Cardinality(CallingModel(m)) \in Nat
         /\ Cardinality(CallingModel(m)) <= Cardinality(Workers)
<1>1. CallingModel(m) \subseteq Workers BY DEF CallingModel
<1> QED BY <1>1, PoolAssumption, FS_Subset, FS_CardinalityType

LEMMA PoolInitially == PoolInit => PoolInv
<1> SUFFICES ASSUME PoolInit PROVE PoolInv
  OBVIOUS
<1>1. /\ queue = <<>> /\ worker = [w \in Workers |-> Idle]
      /\ limits = [m \in Models |-> FreshLimits] /\ reply = [c \in Callers |-> "none"]
      /\ active = StrongPool[1] /\ today = 0 /\ expiries = 0
  BY DEF PoolInit
<1>2. active \in Models
  <2>1. StrongPool \in Seq(Models) /\ StrongPool # <<>> BY PoolAssumption
  <2>2. Len(StrongPool) \in Nat \ {0} BY <2>1, EmptySeq
  <2>3. 1 \in 1 .. Len(StrongPool) BY <2>2
  <2> QED BY <1>1, <2>1, <2>3, ElementOfSeq
<1>3. worker \in [Workers -> WorkerRecs] /\ \A w \in Workers : worker[w] = Idle
  <2>1. Idle \in WorkerRecs BY DEF Idle, WorkerRecs
  <2> QED BY <2>1, <1>1
<1>4. limits \in [Models -> LimitRecs] /\ \A m \in Models : limits[m].rpd = 0
  <2>1. FreshLimits \in LimitRecs /\ FreshLimits.rpd = 0 BY DEF FreshLimits, LimitRecs
  <2> QED BY <2>1, <1>1
<1>5. PoolTypeOK
  <2>1. \A w \in Workers : worker[w].pc # "calling" BY <1>3 DEF Idle
  <2>2. queue \in Seq(Callers) BY <1>1
  <2>3. reply \in [Callers -> {"none", "answered", "rate_limited", "provider_error"}] BY <1>1
  <2> QED BY <2>1, <2>2, <2>3, <1>1, <1>2, <1>3, <1>4 DEF PoolTypeOK, WorkerRecs, LimitRecs
<1>6. InOnePlace
  <2>1. DOMAIN queue = {} BY <1>1
  <2> QED BY <2>1, <1>3 DEF InOnePlace, Idle
<1>7. BudgetCovered
  <2>1. \A m \in Models : CallingModel(m) = {} BY <1>3 DEF CallingModel, Idle
  <2> QED BY <2>1, <1>4, PoolConstants, FS_EmptySet DEF BudgetCovered
<1> QED BY <1>5, <1>6, <1>7 DEF PoolInv

\* A worker that turns to something else than a call leaves room in the budget.
LEMMA WorkerLeaves ==
  ASSUME NEW w \in Workers, NEW r \in WorkerRecs, PoolInv,
         worker' = [worker EXCEPT ![w] = r], r.pc # "calling"
  PROVE  /\ worker' \in [Workers -> WorkerRecs]
         /\ worker'[w] = r /\ \A v \in Workers \ {w} : worker'[v] = worker[v]
         /\ \A v \in Workers : worker'[v].pc = "calling" => worker'[v].model \in Models
         /\ \A m \in Models :
              /\ Cardinality(CallingModel(m)') <= Cardinality(CallingModel(m))
              /\ worker[w].pc = "calling" /\ worker[w].model = m
                   => Cardinality(CallingModel(m)') = Cardinality(CallingModel(m)) - 1
<1>1. worker \in [Workers -> WorkerRecs] BY PoolFacts DEF PoolInv
<1>2. /\ worker' \in [Workers -> WorkerRecs]
      /\ worker'[w] = r /\ \A v \in Workers \ {w} : worker'[v] = worker[v]
  BY <1>1
<1>3. \A v \in Workers : worker'[v].pc = "calling" => worker'[v].model \in Models
  BY <1>2, PoolFacts DEF PoolInv
<1>4. ASSUME NEW m \in Models
      PROVE  /\ Cardinality(CallingModel(m)') <= Cardinality(CallingModel(m))
             /\ worker[w].pc = "calling" /\ worker[w].model = m
                  => Cardinality(CallingModel(m)') = Cardinality(CallingModel(m)) - 1
  <2>1. CallingModel(m)' = CallingModel(m) \ {w} BY <1>2 DEF CallingModel
  <2>2. worker[w].pc = "calling" /\ worker[w].model = m => w \in CallingModel(m)
    BY DEF CallingModel
  <2>3. IsFiniteSet(CallingModel(m)) /\ Cardinality(CallingModel(m)) \in Nat
    BY CallingFinite
  <2>4. Cardinality(CallingModel(m) \ {w}) =
          IF w \in CallingModel(m) THEN Cardinality(CallingModel(m)) - 1
          ELSE Cardinality(CallingModel(m))
    BY <2>3, FS_RemoveElement
  <2> QED BY <2>1, <2>2, <2>3, <2>4
<1> QED BY <1>2, <1>3, <1>4

LEMMA IdleRec == Idle \in WorkerRecs /\ Idle.pc = "idle" /\ Idle.caller = None
BY DEF Idle, WorkerRecs

\* A step in which a worker is done with its call keeps the parts of the
\* invariant about workers; the limits are left to the step.
LEMMA ResolveKeeps ==
  ASSUME NEW w \in Workers, PoolInv, worker[w].pc # "idle",
         NEW outcome \in {"answered", "rate_limited", "provider_error"}, Resolve(w, outcome),
         queue' = queue
  PROVE  /\ worker[w].caller \in Callers
         /\ worker' \in [Workers -> WorkerRecs]
         /\ reply' \in [Callers -> {"none", "answered", "rate_limited", "provider_error"}]
         /\ reply' = [reply EXCEPT ![worker[w].caller] = outcome]
         /\ InOnePlace'
<1>1. worker[w] \in WorkerRecs /\ worker[w].caller \in Callers
  BY PoolFacts DEF PoolInv, InOnePlace, WorkerRecs
<1>2. /\ worker' = [worker EXCEPT ![w] = Idle]
      /\ reply' = [reply EXCEPT ![worker[w].caller] = outcome]
  BY DEF Resolve
<1>3. /\ worker' \in [Workers -> WorkerRecs]
      /\ worker'[w] = Idle /\ \A v \in Workers \ {w} : worker'[v] = worker[v]
  BY <1>2, IdleRec, WorkerLeaves
<1>4. reply' \in [Callers -> {"none", "answered", "rate_limited", "provider_error"}]
  BY <1>1, <1>2, PoolFacts DEF PoolInv
<1>5. \A i \in DOMAIN queue : queue[i] # None
  <2>1. \A i \in DOMAIN queue : queue[i] \in Callers BY PoolFacts DEF PoolInv
  <2> QED BY <2>1, PoolConstants
<1>6. InOnePlace' BY <1>3, <1>5, IdleRec DEF PoolInv, InOnePlace
<1> QED BY <1>1, <1>2, <1>3, <1>4, <1>6

LEMMA EnqueueKeeps ==
  ASSUME NEW c \in Callers, PoolInv, Enqueue(c)
  PROVE  PoolInv'
<1>1. UNCHANGED <<worker, limits, active, today, expiries>> /\ c \notin Pending
  BY DEF Enqueue
<1>2. queue' = queue \/ queue' = Append(queue, c)
  BY DEF Enqueue
<1>3. queue' \in Seq(Callers) BY <1>2, PoolFacts, AppendProperties DEF PoolInv
<1>4. reply' \in [Callers -> {"none", "answered", "rate_limited", "provider_error"}]
  <2>1. reply' = [reply EXCEPT ![c] = "none"] \/ reply' = [reply EXCEPT ![c] = "rate_limited"]
    BY DEF Enqueue
  <2> QED BY <2>1, PoolFacts DEF PoolInv
<1>5. PoolTypeOK' BY <1>1, <1>3, <1>4 DEF PoolInv, PoolTypeOK
<1>6. InOnePlace'
  <2>1. CASE queue' = queue BY <2>1, <1>1 DEF PoolInv, InOnePlace
  <2>2. CASE queue' = Append(queue, c)
    <3>1. queue \in Seq(Callers) BY PoolFacts DEF PoolInv
    <3>2. /\ Len(queue) \in Nat /\ DOMAIN queue = 1 .. Len(queue)
          /\ DOMAIN queue' = 1 .. Len(queue) + 1
          /\ \A i \in 1 .. Len(queue) : queue'[i] = queue[i]
          /\ queue'[Len(queue) + 1] = c
      BY <2>2, <3>1
    <3>3. \A i \in 1 .. Len(queue) : queue[i] # c BY <1>1, <3>2 DEF Pending, Range
    <3>4. \A w \in Workers : worker[w].caller # c BY <1>1, PoolConstants DEF Pending
    <3>5. \A i, j \in DOMAIN queue' : queue'[i] = queue'[j] => i = j
      <4>1. ASSUME NEW i \in 1 .. Len(queue), NEW j \in 1 .. Len(queue), queue'[i] = queue'[j]
            PROVE  i = j
        BY <4>1, <3>2 DEF PoolInv, InOnePlace
      <4>2. \A i \in DOMAIN queue' : i \in 1 .. Len(queue) \/ i = Len(queue) + 1 BY <3>2
      <4> QED BY <4>1, <4>2, <3>2, <3>3
    <3>6. \A w \in Workers, i \in DOMAIN queue' : queue'[i] # worker[w].caller
      <4>1. \A i \in DOMAIN queue' : i \in 1 .. Len(queue) \/ i = Len(queue) + 1 BY <3>2
      <4> QED BY <4>1, <3>2, <3>4 DEF PoolInv, InOnePlace
    <3> QED BY <3>5, <3>6, <1>1 DEF PoolInv, InOnePlace
  <2> QED BY <1>2, <2>1, <2>2
<1>7. BudgetCovered' BY <1>1 DEF PoolInv, BudgetCovered, CallingModel
<1> QED BY <1>5, <1>6, <1>7 DEF PoolInv

\* The head of the queue and what is behind it.
LEMMA QueueSplit ==
  ASSUME PoolInv, queue # <<>>
  PROVE  /\ Head(queue) \in Callers /\ Tail(queue) \in Seq(Callers)
         /\ \A i \in DOMAIN Tail(queue) : /\ i + 1 \in DOMAIN queue
                                          /\ Tail(queue)[i] = queue[i + 1]
                                          /\ Tail(queue)[i] # Head(queue)
         /\ 1 \in DOMAIN queue /\ queue[1] = Head(queue)
         /\ \A i \in DOMAIN queue : i = 1 \/ (i - 1 \in DOMAIN Tail(queue) /\ queue[i] = Tail(queue)[i - 1])
<1>1. queue \in Seq(Callers) BY PoolFacts DEF PoolInv
<1>2. /\ Len(queue) \in Nat /\ Len(queue) # 0 /\ DOMAIN queue = 1 .. Len(queue)
      /\ Head(queue) = queue[1] /\ Tail(queue) \in Seq(Callers)
      /\ DOMAIN Tail(queue) = 1 .. Len(queue) - 1
      /\ \A i \in 1 .. Len(queue) - 1 : Tail(queue)[i] = queue[i + 1]
  BY <1>1
<1>3. 1 \in DOMAIN queue /\ queue[1] \in Callers BY <1>1, <1>2
<1>4. \A i \in DOMAIN Tail(queue) : i + 1 \in DOMAIN queue /\ i + 1 # 1 BY <1>2
<1>5. \A i \in DOMAIN Tail(queue) : Tail(queue)[i] # Head(queue)
  BY <1>2, <1>3, <1>4 DEF PoolInv, InOnePlace
<1>6. \A i \in DOMAIN queue : i = 1 \/ (i - 1 \in DOMAIN Tail(queue) /\ queue[i] = Tail(queue)[i - 1])
  BY <1>2
<1> QED BY <1>2, <1>3, <1>4, <1>5, <1>6

LEMMA TakeItemKeeps ==
  ASSUME NEW w \in Workers, PoolInv, TakeItem(w)
  PROVE  PoolInv'
<1> DEFINE r == [worker[w] EXCEPT !.pc = "routing", !.caller = Head(queue)]
<1>1. /\ worker[w].pc = "idle" /\ queue # <<>> /\ queue' = Tail(queue)
      /\ worker' = [worker EXCEPT ![w] = r]
      /\ UNCHANGED <<limits, reply, active, today, expiries>>
  BY DEF TakeItem
<1>2. r \in WorkerRecs /\ r.pc = "routing" /\ r.caller = Head(queue)
  <2>1. worker[w] \in WorkerRecs BY PoolFacts DEF PoolInv
  <2>2. Head(queue) \in Callers BY <1>1, QueueSplit
  <2> QED BY <2>1, <2>2 DEF WorkerRecs
<1> HIDE DEF r
<1>3. /\ worker' \in [Workers -> WorkerRecs]
      /\ worker'[w] = r /\ \A v \in Workers \ {w} : worker'[v] = worker[v]
      /\ \A v \in Workers : worker'[v].pc = "calling" => worker'[v].model \in Models
      /\ \A m \in Models : Cardinality(CallingModel(m)') <= Cardinality(CallingModel(m))
  BY <1>1, <1>2, WorkerLeaves
<1>4. queue' \in Seq(Callers) BY <1>1, QueueSplit
<1>5. PoolTypeOK' BY <1>1, <1>3, <1>4 DEF PoolInv, PoolTypeOK, WorkerRecs
<1>6. InOnePlace'
  <2>1. \A i, j \in DOMAIN queue' : queue'[i] = queue'[j] => i = j
    <3>1. \A i, j \in DOMAIN queue' : queue'[i] = queue'[j] => i + 1 = j + 1
      BY <1>1, QueueSplit DEF PoolInv, InOnePlace
    <3>2. DOMAIN queue' \subseteq Nat BY <1>4
    <3> QED BY <3>1, <3>2
  <2>2. Head(queue) # None BY <1>1, QueueSplit, PoolConstants
  <2>3. \A v \in Workers : worker'[v].pc = "idle" <=> worker'[v].caller = None
    BY <2>2, <1>2, <1>3 DEF PoolInv, InOnePlace
  <2>4. \A v \in Workers : worker[v].caller # Head(queue)
    BY <1>1, QueueSplit DEF PoolInv, InOnePlace
  <2>5. \A u, v \in Workers : worker'[u].caller = worker'[v].caller /\ u # v => worker'[v].caller = None
    BY <2>4, <1>2, <1>3 DEF PoolInv, InOnePlace
  <2>6. \A v \in Workers, i \in DOMAIN queue' : queue'[i] # worker'[v].caller
    BY <1>1, <1>2, <1>3, QueueSplit DEF PoolInv, InOnePlace
  <2> QED BY <2>1, <2>3, <2>5, <2>6 DEF InOnePlace
<1>7. BudgetCovered'
  <2>1. ASSUME NEW m \in Models
        PROVE  limits[m].rpd + Cardinality(CallingModel(m)') <= RpdLimit
    <3>1. CallingModel(m)' = CallingModel(m)
      BY <1>1, <1>2, <1>3 DEF CallingModel
    <3> QED BY <3>1 DEF PoolInv, BudgetCovered
  <2> QED BY <2>1, <1>1 DEF BudgetCovered
<1> QED BY <1>5, <1>6, <1>7 DEF PoolInv

LEMMA RouteIsModel ==
  ASSUME NEW role, NEW i \in Routable(role)
  PROVE  RouteOrder(role)[i] \in Models /\ IsModelAvailable(RouteOrder(role)[i])
<1>1. RouteOrder(role) \in Seq(Models)
  BY PoolAssumption, ConcatProperties DEF RouteOrder
<1>2. i \in 1 .. Len(RouteOrder(role)) BY <1>1, LenProperties DEF Routable
<1> QED BY <1>1, <1>2, ElementOfSeq DEF Routable

\* The guard of the router leaves a place for every worker.
LEMMA RouteKeeps ==
  ASSUME NEW w \in Workers, PoolInv, RouteToModel(w)
  PROVE  PoolInv'
<1>1. PICK best \in Routable(RoleOf[worker[w].caller]) :
        worker' = [worker EXCEPT ![w].pc = "calling",
                                 ![w].model = RouteOrder(RoleOf[worker[w].caller])[best]]
  BY DEF RouteToModel
<1> DEFINE b == RouteOrder(RoleOf[worker[w].caller])[best]
           r == [worker[w] EXCEPT !.pc = "calling", !.model = b]
<1>2. b \in Models /\ IsModelAvailable(b) BY RouteIsModel
<1>3. worker[w] \in WorkerRecs /\ worker \in [Workers -> WorkerRecs] BY PoolFacts DEF PoolInv
<1>4. worker' = [worker EXCEPT ![w] = r] BY <1>1, <1>3
<1> HIDE DEF b
<1>5. r \in WorkerRecs /\ r.pc = "calling" /\ r.model = b /\ r.caller = worker[w].caller
  BY <1>2, <1>3 DEF WorkerRecs
<1> HIDE DEF r
<1>6. /\ worker' \in [Workers -> WorkerRecs]
      /\ worker'[w] = r /\ \A v \in Workers \ {w} : worker'[v] = worker[v]
  BY <1>3, <1>4, <1>5
<1>7. worker[w].pc = "routing" /\ UNCHANGED <<queue, limits, reply, active, today, expiries>>
  BY DEF RouteToModel
<1>8. PoolTypeOK'
  <2>1. \A v \in Workers : worker'[v].pc = "calling" => worker'[v].model \in Models
    BY <1>2, <1>5, <1>6, PoolFacts DEF PoolInv
  <2> QED BY <2>1, <1>6, <1>7 DEF PoolInv, PoolTypeOK, WorkerRecs
<1>9. InOnePlace' BY <1>5, <1>6, <1>7 DEF PoolInv, InOnePlace
<1>10. BudgetCovered'
  <2>1. ASSUME NEW m \in Models
        PROVE  limits[m].rpd + Cardinality(CallingModel(m)') <= RpdLimit
    <3>1. CASE m = b
      <4>1. limits[b] \in LimitRecs BY <1>2, PoolFacts DEF PoolInv
      <4>2. limits[b].rpd \in Nat /\ limits[b].rpd < RpdLimit - RpdGuard
        BY <4>1, <1>2 DEF IsModelAvailable, RpdCeiling, LimitRecs
      <4>3. Cardinality(CallingModel(m)') \in Nat /\ Cardinality(CallingModel(m)') <= Cardinality(Workers)
        <5>1. CallingModel(m)' \subseteq Workers BY DEF CallingModel
        <5> QED BY <5>1, PoolAssumption, FS_Subset, FS_CardinalityType
      <4> QED BY <3>1, <4>2, <4>3, PoolConstants
    <3>2. CASE m # b
      <4>1. CallingModel(m)' = CallingModel(m)
        BY <3>2, <1>5, <1>6, <1>7 DEF CallingModel
      <4> QED BY <4>1 DEF PoolInv, BudgetCovered
    <3> QED BY <3>1, <3>2
  <2> QED BY <2>1, <1>7 DEF BudgetCovered
<1> QED BY <1>8, <1>9, <1>10 DEF PoolInv

\* A worker that gives up its request without a response.
LEMMA RefuseKeeps ==
  ASSUME NEW w \in Workers, PoolInv, RefuseExhausted(w) \/ ProviderError(w)
  PROVE  PoolInv'
<1>1. PICK outcome \in {"rate_limited", "provider_error"} : Resolve(w, outcome)
  BY DEF RefuseExhausted, ProviderError
<1>2. worker[w].pc # "idle" /\ UNCHANGED <<queue, limits, active, today, expiries>>
  BY DEF RefuseExhausted, ProviderError
<1>3. worker' = [worker EXCEPT ![w] = Idle] BY <1>1 DEF Resolve
<1>4. /\ \A v \in Workers : worker'[v].pc = "calling" => worker'[v].model \in Models
      /\ \A m \in Models : Cardinality(CallingModel(m)') <= Cardinality(CallingModel(m))
  BY <1>3, IdleRec, WorkerLeaves
<1>5. /\ worker' \in [Workers -> WorkerRecs] /\ InOnePlace'
      /\ reply' \in [Callers -> {"none", "answered", "rate_limited", "provider_error"}]
  BY <1>1, <1>2, ResolveKeeps
<1>6. PoolTypeOK' BY <1>2, <1>4, <1>5 DEF PoolInv, PoolTypeOK, WorkerRecs
<1>7. BudgetCovered'
  <2>1. ASSUME NEW m \in Models
        PROVE  limits[m].rpd + Cardinality(CallingModel(m)') <= RpdLimit
    <3>1. limits[m].rpd \in Nat /\ limits[m].rpd + Cardinality(CallingModel(m)) <= RpdLimit
      BY PoolFacts DEF PoolInv, BudgetCovered, LimitRecs
    <3>2. CallingModel(m)' \subseteq Workers BY DEF CallingModel
    <3>3. Cardinality(CallingModel(m)') \in Nat
      BY <3>2, PoolAssumption, FS_Subset, FS_CardinalityType
    <3> QED BY <3>1, <3>3, <1>4, CallingFinite, PoolConstants
  <2> QED BY <2>1, <1>2 DEF BudgetCovered
<1> QED BY <1>5, <1>6, <1>7 DEF PoolInv

\* A response is accounted for when its call is over.
LEMMA RespondKeeps ==
  ASSUME NEW w \in Workers, PoolInv, Respond(w)
  PROVE  PoolInv'
<1> DEFINE m == worker[w].model
<1>1. PICK window \in {limits[m].window, "unknown", "enough", "low"}, cost \in Costs :
        limits' = [limits EXCEPT ![m] = AfterResponse(@, window, cost)]
  BY DEF Respond
<1>2. /\ worker[w].pc = "calling" /\ active' = m /\ Resolve(w, "answered")
      /\ UNCHANGED <<queue, today, expiries>>
  BY DEF Respond
<1>3. m \in Models BY <1>2, PoolFacts DEF PoolInv
<1> DEFINE l == AfterResponse(limits[m], window, cost)
<1>4. limits' = [limits EXCEPT ![m] = l] BY <1>1
<1>5. l \in LimitRecs /\ l.rpd <= limits[m].rpd + 1
  <2>1. limits[m] \in LimitRecs /\ today \in Nat /\ cost \in Nat
    BY <1>3, PoolFacts, PoolAssumption DEF PoolInv
  <2>2. window \in {"unknown", "enough", "low"} BY <2>1 DEF LimitRecs
  <2> DEFINE s == ResetDailyIfNeeded(limits[m])
  <2>3. s \in LimitRecs /\ s.rpd <= limits[m].rpd
    <3>1. CASE limits[m].date # today
      <4>1. s = [limits[m] EXCEPT !.rpd = 0, !.tpd = 0, !.date = today]
        BY <3>1 DEF ResetDailyIfNeeded
      <4> HIDE DEF s
      <4>2. s \in LimitRecs /\ s.rpd = 0 BY <4>1, <2>1 DEF LimitRecs
      <4>3. limits[m].rpd \in Nat BY <2>1 DEF LimitRecs
      <4> QED BY <4>2, <4>3
    <3>2. CASE limits[m].date = today
      <4>1. s = limits[m] BY <3>2 DEF ResetDailyIfNeeded
      <4>2. limits[m].rpd \in Nat BY <2>1 DEF LimitRecs
      <4> HIDE DEF s
      <4> QED BY <4>1, <4>2, <2>1
    <3> QED BY <3>1, <3>2
  <2>4. l = [s EXCEPT !.window = window, !.rpd = s.rpd + 1, !.tpd = s.tpd + cost]
    BY DEF AfterResponse
  <2> HIDE DEF s, l
  <2>5. /\ s.rpd \in Nat /\ s.tpd \in Nat /\ limits[m].rpd \in Nat
    BY <2>1, <2>3 DEF LimitRecs
  <2>6. s.rpd + 1 \in Nat /\ s.tpd + cost \in Nat BY <2>1, <2>5
  <2>7. l \in LimitRecs /\ l.rpd = s.rpd + 1
    BY <2>2, <2>3, <2>4, <2>6 DEF LimitRecs
  <2> QED BY <2>3, <2>5, <2>7
<1> HIDE DEF l
<1>6. limits \in [Models -> LimitRecs] BY PoolFacts DEF PoolInv
<1>7. limits' \in [Models -> LimitRecs] /\ limits'[m] = l /\ \A n \in Models \ {m} : limits'[n] = limits[n]
  BY <1>3, <1>4, <1>5, <1>6
<1>8. worker' = [worker EXCEPT ![w] = Idle] BY <1>2 DEF Resolve
<1>9. /\ \A v \in Workers : worker'[v].pc = "calling" => worker'[v].model \in Models
      /\ \A n \in Models :
           /\ Cardinality(CallingModel(n)') <= Cardinality(CallingModel(n))
           /\ worker[w].pc = "calling" /\ worker[w].model = n
                => Cardinality(CallingModel(n)') = Cardinality(CallingModel(n)) - 1
  BY <1>8, IdleRec, WorkerLeaves
<1>10. /\ worker' \in [Workers -> WorkerRecs] /\ InOnePlace'
       /\ reply' \in [Callers -> {"none", "answered", "rate_limited", "provider_error"}]
  BY <1>2, ResolveKeeps
<1>11. PoolTypeOK'
  BY <1>2, <1>3, <1>7, <1>9, <1>10 DEF PoolInv, PoolTypeOK, WorkerRecs, LimitRecs
<1>12. BudgetCovered'
  <2>1. ASSUME NEW n \in Models
        PROVE  limits'[n].rpd + Cardinality(CallingModel(n)') <= RpdLimit
    <3>1. limits[n].rpd \in Nat /\ limits[n].rpd + Cardinality(CallingModel(n)) <= RpdLimit
      BY <1>6 DEF PoolInv, BudgetCovered, LimitRecs
    <3>2. CallingModel(n)' \subseteq Workers BY DEF CallingModel
    <3>3. Cardinality(CallingModel(n)') \in Nat
      BY <3>2, PoolAssumption, FS_Subset, FS_CardinalityType
    <3>4. CASE n = m
      <4>1. limits'[n].rpd \in Nat /\ limits'[n].rpd <= limits[n].rpd + 1
        BY <3>4, <1>5, <1>7 DEF LimitRecs
      <4>2. Cardinality(CallingModel(n)') = Cardinality(CallingModel(n)) - 1
        BY <3>4, <1>2, <1>9
      <4>3. Cardinality(CallingModel(n)) \in Nat BY CallingFinite
      <4> QED BY <4>1, <4>2, <4>3, <3>1, PoolConstants
    <3>5. CASE n # m
      BY <3>1, <3>3, <3>5, <1>7, <1>9, CallingFinite, PoolConstants
    <3> QED BY <3>4, <3>5
  <2> QED BY <2>1 DEF BudgetCovered
<1> QED BY <1>10, <1>11, <1>12 DEF PoolInv

LEMMA ThrottleKeeps ==
  ASSUME NEW w \in Workers, PoolInv, On429(w)
  PROVE  PoolInv'
<1> DEFINE m == worker[w].model
           l == [limits[m] EXCEPT !.cooling = TRUE,
                                  !.window = IF @ = "unknown" THEN @ ELSE "low"]
           r == [worker[w] EXCEPT !.pc = "routing", !.model = None]
<1>1. worker[w] \in WorkerRecs /\ worker \in [Workers -> WorkerRecs] /\ limits \in [Models -> LimitRecs]
  BY PoolFacts DEF PoolInv
<1>2. worker[w].pc = "calling" /\ UNCHANGED <<queue, reply, active, today, expiries>>
  BY DEF On429
<1>3. m \in Models BY <1>2, PoolFacts DEF PoolInv
<1>4. limits' = [limits EXCEPT ![m] = l] /\ worker' = [worker EXCEPT ![w] = r]
  BY <1>1, <1>3 DEF On429
<1>5. r \in WorkerRecs /\ r.pc = "routing" /\ r.caller = worker[w].caller
  BY <1>1 DEF WorkerRecs
<1>6. l \in LimitRecs /\ l.rpd = limits[m].rpd
  <2>1. limits[m] \in LimitRecs BY <1>1, <1>3
  <2> QED BY <2>1 DEF LimitRecs
<1> HIDE DEF l, r
<1>7. limits' \in [Models -> LimitRecs] /\ \A n \in Models : limits'[n].rpd = limits[n].rpd
  BY <1>1, <1>3, <1>4, <1>6
<1>8. /\ worker' \in [Workers -> WorkerRecs]
      /\ worker'[w] = r /\ \A v \in Workers \ {w} : worker'[v] = worker[v]
      /\ \A v \in Workers : worker'[v].pc = "calling" => worker'[v].model \in Models
      /\ \A n \in Models : Cardinality(CallingModel(n)') <= Cardinality(CallingModel(n))
  BY <1>4, <1>5, WorkerLeaves
<1>9. PoolTypeOK' BY <1>2, <1>7, <1>8 DEF PoolInv, PoolTypeOK, WorkerRecs, LimitRecs
<1>10. InOnePlace' BY <1>2, <1>5, <1>8 DEF PoolInv, InOnePlace
<1>11. BudgetCovered'
  <2>1. ASSUME NEW n \in Models
        PROVE  limits'[n].rpd + Cardinality(CallingModel(n)') <= RpdLimit
    <3>1. limits[n].rpd \in Nat /\ limits[n].rpd + Cardinality(CallingModel(n)) <= RpdLimit
      BY <1>1 DEF PoolInv, BudgetCovered, LimitRecs
    <3>2. CallingModel(n)' \subseteq Workers BY DEF CallingModel
    <3>3. Cardinality(CallingModel(n)') \in Nat
      BY <3>2, PoolAssumption, FS_Subset, FS_CardinalityType
    <3> QED BY <3>1, <3>3, <1>7, <1>8, CallingFinite, PoolConstants
  <2> QED BY <2>1 DEF BudgetCovered
<1> QED BY <1>9, <1>10, <1>11 DEF PoolInv

\* Time: a cooldown or a minute ends, or the day; no counter moves.
LEMMA TimeKeeps ==
  ASSUME PoolInv, Midnight \/ \E m \in Models : CooldownExpires(m) \/ MinuteWindowEnds(m)
  PROVE  PoolInv'
<1>1. UNCHANGED <<queue, worker, reply, active>>
  BY DEF Midnight, CooldownExpires, MinuteWindowEnds
<1>2. today' \in Nat /\ expiries' \in Nat
  BY PoolFacts DEF Midnight, CooldownExpires, MinuteWindowEnds, PoolInv
<1>3. limits' \in [Models -> LimitRecs] /\ \A n \in Models : limits'[n].rpd = limits[n].rpd
  <2>1. limits \in [Models -> LimitRecs] BY PoolFacts DEF PoolInv
  <2>2. CASE Midnight BY <2>1, <2>2 DEF Midnight
  <2>3. ASSUME NEW m \in Models, CooldownExpires(m) \/ MinuteWindowEnds(m)
        PROVE  \E l \in LimitRecs : limits' = [limits EXCEPT ![m] = l] /\ l.rpd = limits[m].rpd
    <3> limits[m] \in LimitRecs BY <2>1
    <3> DEFINE warm == [limits[m] EXCEPT !.cooling = FALSE]
               blank == [limits[m] EXCEPT !.window = "unknown"]
    <3>1. /\ warm \in LimitRecs /\ warm.rpd = limits[m].rpd
          /\ blank \in LimitRecs /\ blank.rpd = limits[m].rpd
      BY DEF LimitRecs
    <3>2. limits' = [limits EXCEPT ![m] = warm] \/ limits' = [limits EXCEPT ![m] = blank]
      BY <2>1, <2>3 DEF CooldownExpires, MinuteWindowEnds
    <3> HIDE DEF warm, blank
    <3> QED BY <3>1, <3>2
  <2>4. ASSUME NEW m \in Models, CooldownExpires(m) \/ MinuteWindowEnds(m)
        PROVE  limits' \in [Models -> LimitRecs] /\ \A n \in Models : limits'[n].rpd = limits[n].rpd
    BY <2>1, <2>3, <2>4
  <2> QED BY <2>2, <2>4
<1>4. PoolTypeOK' BY <1>1, <1>2, <1>3 DEF PoolInv, PoolTypeOK, LimitRecs
<1>5. InOnePlace' BY <1>1 DEF PoolInv, InOnePlace
<1>6. BudgetCovered' BY <1>1, <1>3 DEF PoolInv, BudgetCovered, CallingModel
<1> QED BY <1>4, <1>5, <1>6 DEF PoolInv

LEMMA PoolStep == PoolInv /\ [PoolNext]_poolVars => PoolInv'
<1> SUFFICES ASSUME PoolInv, [PoolNext]_poolVars PROVE PoolInv'
  OBVIOUS
<1>1. CASE UNCHANGED poolVars
  BY <1>1 DEF poolVars, PoolInv, PoolTypeOK, InOnePlace, BudgetCovered, CallingModel
<1>2. ASSUME NEW w \in Workers, WorkerStep(w) PROVE PoolInv'
  BY <1>2, TakeItemKeeps, RouteKeeps, RefuseKeeps, RespondKeeps, ThrottleKeeps DEF WorkerStep
<1> QED BY <1>1, <1>2, EnqueueKeeps, TimeKeeps DEF PoolNext

\* The types of the pool's state, and that a worker calls a model of the pool.
THEOREM PoolTypes == PoolSpec => []PoolTypeOK
<1>1. PoolInv => PoolTypeOK BY DEF PoolInv
<1> QED BY <1>1, PoolInitially, PoolStep, PTL DEF PoolSpec

\* No daily counter passes the provider's limit, for any number of workers the
\* router's guard has room for (ModelRouter._is_model_available, _RPD_GUARD).
THEOREM DailyBudget == PoolSpec => []DailyBudgetKept
<1>1. PoolInv => DailyBudgetKept
  <2> SUFFICES ASSUME PoolInv, NEW m \in Models PROVE limits[m].rpd <= RpdLimit
    BY DEF DailyBudgetKept
  <2>1. limits[m].rpd \in Nat BY PoolFacts DEF PoolInv, LimitRecs
  <2>2. limits[m].rpd + Cardinality(CallingModel(m)) <= RpdLimit BY DEF PoolInv, BudgetCovered
  <2> QED BY <2>1, <2>2, CallingFinite, PoolConstants
<1> QED BY <1>1, PoolInitially, PoolStep, PTL DEF PoolSpec

\* A response that is accounted for leaves the cooldown of its model alone, however
\* late it arrives (update_from_headers, increment_daily).
THEOREM CooldownStays == PoolSpec => CooldownOutlivesSuccess
<1> DEFINE Step == \A m \in Models : limits[m].rpd # limits'[m].rpd /\ limits[m].cooling
                                       => limits'[m].cooling
<1>1. ASSUME PoolInv, PoolNext PROVE Step
  <2> SUFFICES ASSUME NEW m \in Models, limits[m].rpd # limits'[m].rpd, limits[m].cooling
               PROVE  limits'[m].cooling
    OBVIOUS
  <2>1. limits \in [Models -> LimitRecs] BY <1>1, PoolFacts DEF PoolInv
  <2>2. limits' # limits OBVIOUS
  <2>3. ASSUME NEW n \in Models, CooldownExpires(n) \/ MinuteWindowEnds(n) PROVE FALSE
    <3>1. PICK r \in LimitRecs : limits' = [limits EXCEPT ![n] = r] /\ r.rpd = limits[n].rpd
      <4>1. limits[n] \in LimitRecs BY <2>1
      <4> DEFINE a == [limits[n] EXCEPT !.cooling = FALSE]
                 b == [limits[n] EXCEPT !.window = "unknown"]
      <4>2. a \in LimitRecs /\ b \in LimitRecs /\ a.rpd = limits[n].rpd /\ b.rpd = limits[n].rpd
        BY <4>1 DEF LimitRecs
      <4>3. limits' = [limits EXCEPT ![n] = a] \/ limits' = [limits EXCEPT ![n] = b]
        BY <2>3 DEF CooldownExpires, MinuteWindowEnds
      <4> HIDE DEF a, b
      <4> QED BY <4>2, <4>3
    <3> QED BY <2>1, <3>1
  <2>4. ASSUME NEW w \in Workers, On429(w) PROVE FALSE
    <3> DEFINE n == worker[w].model
               r == [limits[n] EXCEPT !.cooling = TRUE,
                                      !.window = IF limits[n].window = "unknown" THEN "unknown" ELSE "low"]
    <3>1. n \in Models BY <1>1, <2>4, PoolFacts DEF PoolInv, On429
    <3>2. limits[n] \in LimitRecs BY <2>1, <3>1
    <3>3. r.rpd = limits[n].rpd BY <3>2 DEF LimitRecs
    <3>4. limits' = [limits EXCEPT ![n] = r] BY <2>4 DEF On429
    <3> HIDE DEF r, n
    <3> QED BY <2>1, <3>1, <3>3, <3>4
  <2>5. ASSUME NEW w \in Workers, Respond(w) PROVE limits'[m].cooling
    <3> DEFINE n == worker[w].model
    <3>1. n \in Models BY <1>1, <2>5, PoolFacts DEF PoolInv, Respond
    <3>2. PICK window \in {limits[n].window, "unknown", "enough", "low"}, cost \in Costs :
            limits' = [limits EXCEPT ![n] = AfterResponse(limits[n], window, cost)]
      BY <2>5 DEF Respond
    <3> DEFINE r == AfterResponse(limits[n], window, cost)
    <3>3. limits[n] \in LimitRecs BY <2>1, <3>1
    <3>4. r.cooling = limits[n].cooling
      BY <3>3 DEF AfterResponse, ResetDailyIfNeeded, LimitRecs
    <3> HIDE DEF r, n
    <3> QED BY <2>1, <3>1, <3>2, <3>4 DEF r
  <2> QED BY <1>1, <2>2, <2>3, <2>4, <2>5
          DEF PoolNext, WorkerStep, Enqueue, TakeItem, RouteToModel, RefuseExhausted,
              ProviderError, Midnight
<1>2. PoolInv /\ [PoolNext]_poolVars => [Step]_poolVars BY <1>1
<1>3. PoolSpec => [][Step]_poolVars BY <1>2, PoolInitially, PoolStep, PTL DEF PoolSpec
<1> QED BY <1>3 DEF CooldownOutlivesSuccess

(***************************************************************************)
(* The pool implements LLMService, its liveness apart.                     *)
(***************************************************************************)
AtWorkers == {worker[w].caller : w \in Workers} \ {None}

LEMMA AtWorkersFinite ==
  IsFiniteSet(AtWorkers) /\ Cardinality(AtWorkers) \in Nat
    /\ Cardinality(AtWorkers) <= Cardinality(Workers)
<1> DEFINE all == {worker[w].caller : w \in Workers}
           f == [w \in Workers |-> worker[w].caller]
<1>1. f \in Surjection(Workers, all) BY Fun_IsSurj
<1>2. IsFiniteSet(all) /\ Cardinality(all) <= Cardinality(Workers)
  BY <1>1, PoolAssumption, FS_Surjection
<1>3. AtWorkers \subseteq all BY DEF AtWorkers
<1> HIDE DEF all
<1>4. /\ IsFiniteSet(AtWorkers) /\ Cardinality(AtWorkers) <= Cardinality(all)
      /\ Cardinality(AtWorkers) \in Nat /\ Cardinality(all) \in Nat
  BY <1>2, <1>3, FS_Subset, FS_CardinalityType
<1> QED BY <1>2, <1>4, PoolConstants

\* A call is on the queue once, so that the queue is as long as its callers are
\* many.
LEMMA QueueCounts ==
  ASSUME PoolInv
  PROVE  IsFiniteSet(Range(queue)) /\ Cardinality(Range(queue)) = Len(queue)
<1>1. /\ queue \in Seq(Callers) /\ Len(queue) \in Nat
      /\ queue \in [1 .. Len(queue) -> Callers] /\ DOMAIN queue = 1 .. Len(queue)
  BY PoolFacts, LenProperties DEF PoolInv
<1>2. queue \in [1 .. Len(queue) -> Range(queue)]
  BY <1>1 DEF Range
<1>3. \A t \in Range(queue) : \E i \in 1 .. Len(queue) : queue[i] = t
  BY <1>1 DEF Range
<1>4. \A i, j \in 1 .. Len(queue) : queue[i] = queue[j] => i = j
  BY <1>1 DEF PoolInv, InOnePlace
<1>5. queue \in Bijection(1 .. Len(queue), Range(queue))
  BY <1>2, <1>3, <1>4, Fun_IsBij
<1>6. IsFiniteSet(1 .. Len(queue)) /\ Cardinality(1 .. Len(queue)) = Len(queue)
  <2>1. Cardinality(1 .. Len(queue)) = IF 1 > Len(queue) THEN 0 ELSE Len(queue) - 1 + 1
    BY <1>1, FS_Interval
  <2>2. IsFiniteSet(1 .. Len(queue))
    <3>1. 1 \in Int /\ Len(queue) \in Int BY <1>1
    <3> QED BY <3>1, FS_Interval, Zenon
  <2> QED BY <2>1, <2>2, <1>1
<1>7. ExistsBijection(1 .. Len(queue), Range(queue)) BY <1>5 DEF ExistsBijection
<1> QED BY <1>6, <1>7, FS_Bijection

LEMMA PendingCounts ==
  ASSUME PoolInv
  PROVE  /\ Cardinality(Pending) \in Nat
         /\ Len(queue) <= Cardinality(Pending)
         /\ Cardinality(Pending) <= Len(queue) + Cardinality(Workers)
<1>1. Pending = Range(queue) \cup AtWorkers BY DEF Pending, AtWorkers
<1>2. IsFiniteSet(Pending) /\ Cardinality(Pending) =
        Cardinality(Range(queue)) + Cardinality(AtWorkers) - Cardinality(Range(queue) \cap AtWorkers)
  BY <1>1, QueueCounts, AtWorkersFinite, FS_Union
<1>3. Range(queue) \subseteq Pending BY <1>1
<1>4. Cardinality(Range(queue)) <= Cardinality(Pending) BY <1>2, <1>3, FS_Subset
<1>5. Cardinality(Range(queue) \cap AtWorkers) \in Nat
  BY QueueCounts, FS_Intersection, FS_CardinalityType
<1>6. Len(queue) \in Nat BY PoolFacts, LenProperties DEF PoolInv
<1> QED BY <1>2, <1>4, <1>5, <1>6, QueueCounts, AtWorkersFinite, PoolConstants, FS_CardinalityType

\* A caller that gets its outcome is no longer pending.
LEMMA ResolveAnswers ==
  ASSUME NEW w \in Workers, PoolInv, worker[w].pc # "idle",
         NEW outcome \in {"answered", "rate_limited", "provider_error"}, Resolve(w, outcome),
         queue' = queue
  PROVE  \E c \in Callers : Service!Answer(c)
<1> DEFINE c == worker[w].caller
<1>1. c \in Callers /\ reply' = [reply EXCEPT ![c] = outcome]
  BY ResolveKeeps
<1>2. worker \in [Workers -> WorkerRecs] /\ worker' = [worker EXCEPT ![w] = Idle]
  BY PoolFacts DEF PoolInv, Resolve
<1>3. worker'[w].caller = None /\ \A v \in Workers \ {w} : worker'[v] = worker[v]
  BY <1>2, IdleRec
<1>4. \A v \in Workers \ {w} : worker[v].caller # c
  BY <1>1, PoolConstants DEF PoolInv, InOnePlace
<1>5. AtWorkers' = AtWorkers \ {c} BY <1>3, <1>4 DEF AtWorkers
<1>6. c \notin Range(queue) BY DEF Range, PoolInv, InOnePlace
<1>7. c \in AtWorkers BY <1>1, PoolConstants DEF AtWorkers
<1>8. Pending = Range(queue) \cup AtWorkers /\ Pending' = Range(queue') \cup AtWorkers'
  BY DEF Pending, AtWorkers
<1>9. c \in Pending /\ Pending' = Pending \ {c} BY <1>5, <1>6, <1>7, <1>8
<1>10. outcome \in Service!Outcomes BY DEF Service!Outcomes
<1> QED BY <1>1, <1>9, <1>10 DEF Service!Answer

LEMMA SameCount == ASSUME NEW S PROVE Service!Cardinality(S) = Cardinality(S)
BY DEF Service!Cardinality, Cardinality

LEMMA EnqueueServes ==
  ASSUME NEW c \in Callers, PoolInv, Enqueue(c)
  PROVE  Service!Accept(c) \/ Service!Refuse(c)
<1>1. c \notin Pending /\ worker' = worker BY DEF Enqueue
<1>2. queue \in Seq(Callers) /\ Len(queue) \in Nat BY PoolFacts, LenProperties DEF PoolInv
<1>3. AtWorkers' = AtWorkers BY <1>1 DEF AtWorkers
<1>4. Pending = Range(queue) \cup AtWorkers /\ Pending' = Range(queue') \cup AtWorkers'
  BY DEF Pending, AtWorkers
<1>5. CASE Len(queue) < QueueMax
  <2>1. queue' = Append(queue, c) /\ reply' = [reply EXCEPT ![c] = "none"]
    BY <1>5 DEF Enqueue
  <2>2. /\ DOMAIN queue = 1 .. Len(queue) /\ DOMAIN queue' = 1 .. Len(queue) + 1
        /\ \A i \in 1 .. Len(queue) : queue'[i] = queue[i]
        /\ queue'[Len(queue) + 1] = c
    BY <2>1, <1>2
  <2>3. Range(queue') = Range(queue) \cup {c}
    <3>1. DOMAIN queue' = DOMAIN queue \cup {Len(queue) + 1} BY <2>2, <1>2
    <3> QED BY <3>1, <2>2 DEF Range
  <2>4. Pending' = Pending \cup {c} BY <2>3, <1>3, <1>4
  <2>5. Cardinality(Pending) < QueueMax + Cardinality(Workers)
    BY <1>2, <1>5, PendingCounts, PoolConstants
  <2> QED BY <2>1, <2>4, <2>5, <1>1, SameCount DEF Service!Accept
<1>6. CASE ~(Len(queue) < QueueMax)
  <2>1. queue' = queue /\ reply' = [reply EXCEPT ![c] = "rate_limited"]
    BY <1>6 DEF Enqueue
  <2>2. Pending' = Pending BY <2>1, <1>3, <1>4
  <2>3. Cardinality(Pending) >= QueueMax BY <1>2, <1>6, PendingCounts, PoolConstants
  <2> QED BY <2>1, <2>2, <2>3, <1>1, SameCount DEF Service!Refuse
<1> QED BY <1>5, <1>6

\* A call that goes on, from the queue to a worker or from a model to another,
\* is not visible to its caller.
LEMMA WorkServes ==
  ASSUME NEW w \in Workers, PoolInv, TakeItem(w) \/ RouteToModel(w) \/ On429(w)
  PROVE  UNCHANGED Service!vars
<1>1. reply' = reply BY DEF TakeItem, RouteToModel, On429
<1>2. worker \in [Workers -> WorkerRecs] /\ worker[w] \in WorkerRecs
  BY PoolFacts DEF PoolInv
<1>3. Pending = Range(queue) \cup AtWorkers /\ Pending' = Range(queue') \cup AtWorkers'
  BY DEF Pending, AtWorkers
<1>4. CASE TakeItem(w)
  <2> DEFINE r == [worker[w] EXCEPT !.pc = "routing", !.caller = Head(queue)]
  <2>1. /\ worker[w].pc = "idle" /\ queue # <<>> /\ queue' = Tail(queue)
        /\ worker' = [worker EXCEPT ![w] = r]
    BY <1>4 DEF TakeItem
  <2>2. r.caller = Head(queue) BY <1>2 DEF WorkerRecs
  <2> HIDE DEF r
  <2>3. worker'[w].caller = Head(queue) /\ \A v \in Workers \ {w} : worker'[v] = worker[v]
    BY <2>1, <2>2, <1>2
  <2>4. worker[w].caller = None /\ Head(queue) # None
    BY <2>1, QueueSplit, PoolConstants DEF PoolInv, InOnePlace
  <2>5. AtWorkers' = AtWorkers \cup {Head(queue)}
    BY <2>3, <2>4 DEF AtWorkers
  <2>6. Range(queue) = Range(queue') \cup {Head(queue)}
    <3>1. ASSUME NEW i \in DOMAIN queue PROVE queue[i] \in Range(queue') \cup {Head(queue)}
      <4>1. CASE i = 1 BY <4>1, <2>1, QueueSplit
      <4>2. CASE i # 1
        <5>1. i - 1 \in DOMAIN queue' /\ queue[i] = queue'[i - 1] BY <4>2, <2>1, QueueSplit
        <5> QED BY <5>1 DEF Range
      <4> QED BY <4>1, <4>2
    <3>2. Range(queue') \cup {Head(queue)} \subseteq Range(queue)
      BY <2>1, QueueSplit DEF Range
    <3> QED BY <3>1, <3>2 DEF Range
  <2> QED BY <2>5, <2>6, <1>1, <1>3 DEF Service!vars
<1>5. CASE RouteToModel(w) \/ On429(w)
  <2>1. queue' = queue BY <1>5 DEF RouteToModel, On429
  <2>2. \A v \in Workers : worker'[v].caller = worker[v].caller
    <3>1. CASE RouteToModel(w)
      <4>1. PICK m : worker' = [worker EXCEPT ![w].pc = "calling", ![w].model = m]
        BY <3>1 DEF RouteToModel
      <4> QED BY <4>1, <1>2 DEF WorkerRecs
    <3>2. CASE On429(w)
      <4>1. worker' = [worker EXCEPT ![w].pc = "routing", ![w].model = None]
        BY <3>2 DEF On429
      <4> QED BY <4>1, <1>2 DEF WorkerRecs
    <3> QED BY <3>1, <3>2, <1>5
  <2>3. AtWorkers' = AtWorkers BY <2>2 DEF AtWorkers
  <2> QED BY <2>1, <2>3, <1>1, <1>3 DEF Service!vars
<1> QED BY <1>4, <1>5

LEMMA InitServes == PoolInit => Service!Init
<1> SUFFICES ASSUME PoolInit PROVE Service!Init
  OBVIOUS
<1>1. queue = <<>> /\ \A w \in Workers : worker[w].caller = None
  BY DEF PoolInit, Idle
<1>2. Range(queue) = {} BY <1>1 DEF Range
<1>3. Pending = {} BY <1>1, <1>2 DEF Pending
<1>4. reply = [c \in Callers |-> "none"] BY DEF PoolInit
<1> QED BY <1>3, <1>4 DEF Service!Init

LEMMA StepServes ==
  PoolInv /\ [PoolNext]_poolVars => [Service!Next]_(Service!vars)
<1> SUFFICES ASSUME PoolInv, [PoolNext]_poolVars PROVE [Service!Next]_(Service!vars)
  OBVIOUS
<1>1. CASE UNCHANGED poolVars
  <2>1. Pending' = Pending /\ reply' = reply BY <1>1 DEF poolVars, Pending, Range
  <2> QED BY <2>1 DEF Service!vars
<1>2. ASSUME NEW c \in Callers, Enqueue(c) PROVE Service!Next
  BY <1>2, EnqueueServes DEF Service!Next
<1>3. ASSUME NEW w \in Workers, WorkerStep(w) PROVE [Service!Next]_(Service!vars)
  <2>1. CASE TakeItem(w) \/ RouteToModel(w) \/ On429(w) BY <2>1, WorkServes
  <2>2. CASE RefuseExhausted(w) \/ Respond(w) \/ ProviderError(w)
    <3>1. PICK outcome \in {"answered", "rate_limited", "provider_error"} : Resolve(w, outcome)
      BY <2>2 DEF RefuseExhausted, Respond, ProviderError
    <3>2. worker[w].pc # "idle" /\ queue' = queue
      BY <2>2 DEF RefuseExhausted, Respond, ProviderError
    <3>3. \E c \in Callers : Service!Answer(c) BY <3>1, <3>2, ResolveAnswers
    <3> QED BY <3>3 DEF Service!Next
  <2> QED BY <1>3, <2>1, <2>2 DEF WorkerStep
<1>4. CASE Midnight \/ \E m \in Models : CooldownExpires(m) \/ MinuteWindowEnds(m)
  <2>1. UNCHANGED <<queue, worker, reply>>
    BY <1>4 DEF Midnight, CooldownExpires, MinuteWindowEnds
  <2>2. Pending' = Pending BY <2>1 DEF Pending, Range
  <2> QED BY <2>1, <2>2 DEF Service!vars
<1> QED BY <1>1, <1>2, <1>3, <1>4 DEF PoolNext

\* The pool keeps its promise to the coroutines that call it: each accepted call
\* gets one outcome and no other call's, and a call is refused at once only when
\* QueueMax calls are pending (generate, chat, _worker_loop). That the outcome
\* comes at all is left to the model checker.
THEOREM PoolServes == PoolSpec => Service!Init /\ [][Service!Next]_(Service!vars)
<1> QED BY InitServes, StepServes, PoolInitially, PoolStep, PTL DEF PoolSpec

(***************************************************************************)
(* The rate limiter.                                                       *)
(***************************************************************************)
Stages == {Idling, Queued, Calling} \cup {Acquiring(b) : b \in Buckets}
                                    \cup {Asleep(b) : b \in Buckets}

LEMMA StagesApart ==
  /\ Idling # Queued /\ Idling # Calling /\ Queued # Calling
  /\ \A b \in Buckets : /\ Acquiring(b) \notin {Idling, Queued, Calling}
                        /\ Asleep(b) \notin {Idling, Queued, Calling}
  /\ \A a, b \in Buckets : /\ Acquiring(a) # Asleep(b)
                           /\ a # b => Acquiring(a) # Acquiring(b) /\ Asleep(a) # Asleep(b)
BY DEF Idling, Queued, Calling, Acquiring, Asleep, Buckets

LEMMA Periods ==
  /\ RpmPeriod \in Nat \ {0} /\ RpmCapacity \in Nat \ {0} /\ MaxConcurrent \in Nat \ {0}
  /\ Credit \in Nat \ {0} /\ Burst \in Nat \ {0}
  /\ Period["rpm"] = RpmPeriod /\ Full["rpm"] = RpmPeriod * RpmCapacity
  /\ \A b \in Buckets : Period[b] \in Nat \ {0} /\ Full[b] \in Nat
<1>1. /\ RpmPeriod \in Nat \ {0} /\ RpmCapacity \in Nat \ {0} /\ MaxConcurrent \in Nat \ {0}
      /\ RpdPeriod \in Nat \ {0} /\ RpdCapacity \in Nat \ {0}
      /\ Credit \in Nat \ {0} /\ Burst \in Nat \ {0}
  BY LimiterAssumption
<1>2. RpmPeriod * RpmCapacity \in Nat /\ RpdPeriod * RpdCapacity \in Nat BY <1>1
<1>3. /\ Period["rpm"] = RpmPeriod /\ Period["rpd"] = RpdPeriod
      /\ Full["rpm"] = RpmPeriod * RpmCapacity /\ Full["rpd"] = RpdPeriod * RpdCapacity
  BY DEF Period, Full, Buckets
<1> QED BY <1>1, <1>2, <1>3 DEF Buckets

\* The tasks in line stand there once.
LineOnce == /\ line \in Seq(Tasks)
            /\ \A i, j \in DOMAIN line : line[i] = line[j] => i = j

\* The semaphore: no more tasks hold a permit than there are.
Permitted == IsFiniteSet(Holders) /\ Cardinality(Holders) <= MaxConcurrent

\* A sleeper sleeps on for at least as long as its bucket lacks a token: while
\* the bucket holds one, nobody who waits for it naps.
NapsCover ==
  /\ naps \in [Tasks -> Nat] /\ tokens \in [Buckets -> Nat]
  /\ \A t \in Tasks, b \in Buckets :
       stage[t] = Asleep(b) /\ naps[t] > 0 => naps[t] + tokens[b] <= Period[b]

LimiterInv == LimiterTypeOK /\ LineOnce /\ Permitted /\ NapsCover

LEMMA LimiterInitially == LimiterInit => LimiterInv
<1> SUFFICES ASSUME LimiterInit PROVE LimiterInv
  OBVIOUS
<1>1. stage = [t \in Tasks |-> Idling] /\ naps = [t \in Tasks |-> 0] /\ line = <<>> /\ tokens = Full
  BY DEF LimiterInit
<1>2. Full \in [Buckets -> Nat] BY Periods DEF Full
<1>3. LimiterTypeOK
  <2>1. {t \in Tasks : stage[t] = Queued} = {} BY <1>1, StagesApart
  <2>2. {line[i] : i \in DOMAIN line} = {} BY <1>1
  <2>3. allowance \in Int BY Periods DEF LimiterInit
  <2>4. stage \in [Tasks -> Stages] BY <1>1 DEF Stages
  <2> QED BY <1>1, <1>2, <2>1, <2>2, <2>3, <2>4 DEF LimiterTypeOK, Stages
<1>4. LineOnce BY <1>1 DEF LineOnce
<1>5. Permitted
  <2>1. Holders = {} BY <1>1 DEF Holders
  <2> QED BY <2>1, FS_EmptySet, Periods DEF Permitted
<1>6. NapsCover BY <1>1, <1>2 DEF NapsCover
<1> QED BY <1>3, <1>4, <1>5, <1>6 DEF LimiterInv

LEMMA LimiterFacts ==
  ASSUME LimiterInv
  PROVE  /\ stage \in [Tasks -> Stages] /\ naps \in [Tasks -> Nat] /\ tokens \in [Buckets -> Nat]
         /\ line \in Seq(Tasks) /\ allowance \in Int
         /\ \A b \in Buckets : tokens[b] \in 0 .. Full[b]
         /\ \A t \in Tasks : stage[t] = Queued <=> \E i \in DOMAIN line : line[i] = t
         /\ \A t \in Tasks : naps[t] > 0 => \E b \in Buckets : stage[t] = Asleep(b)
         /\ \A t \in Tasks, b \in Buckets :
              stage[t] = Asleep(b) /\ naps[t] > 0 => naps[t] + tokens[b] <= Period[b]
<1>1. LimiterTypeOK /\ LineOnce /\ NapsCover BY DEF LimiterInv
<1>2. stage \in [Tasks -> Stages] BY <1>1 DEF LimiterTypeOK, Stages
<1>3. allowance \in Int /\ \A b \in Buckets : tokens[b] \in 0 .. Full[b]
  BY <1>1 DEF LimiterTypeOK
<1>4. ASSUME NEW t \in Tasks
      PROVE  stage[t] = Queued <=> \E i \in DOMAIN line : line[i] = t
  <2>1. stage[t] = Queued <=> t \in {u \in Tasks : stage[u] = Queued} OBVIOUS
  <2>2. {u \in Tasks : stage[u] = Queued} = {line[i] : i \in DOMAIN line}
    BY <1>1 DEF LimiterTypeOK
  <2>3. t \in {line[i] : i \in DOMAIN line} <=> \E i \in DOMAIN line : line[i] = t
    OBVIOUS
  <2> QED BY <2>1, <2>2, <2>3
<1>5. \A t \in Tasks : naps[t] > 0 => \E b \in Buckets : stage[t] = Asleep(b)
  BY <1>1 DEF LimiterTypeOK
<1>6. line \in Seq(Tasks) BY <1>1 DEF LineOnce
<1>7. /\ naps \in [Tasks -> Nat] /\ tokens \in [Buckets -> Nat]
      /\ \A t \in Tasks, b \in Buckets :
           stage[t] = Asleep(b) /\ naps[t] > 0 => naps[t] + tokens[b] <= Period[b]
  BY <1>1 DEF NapsCover
<1> QED BY <1>2, <1>3, <1>4, <1>5, <1>6, <1>7

\* The tasks in line are the queued ones.
LineQueued == \A t \in Tasks : stage[t] = Queued <=> \E i \in DOMAIN line : line[i] = t

\* A step that gives task t another stage keeps the types.
LEMMA OneTask ==
  ASSUME LimiterInv, NEW t \in Tasks, NEW s \in Stages, stage' = [stage EXCEPT ![t] = s],
         LineOnce', LineQueued',
         naps' \in [Tasks -> Nat], tokens' \in [Buckets -> Nat], allowance' \in Int,
         \A b \in Buckets : tokens'[b] <= tokens[b],
         \A u \in Tasks \ {t} : naps'[u] = naps[u],
         naps'[t] > 0 => \E b \in Buckets : s = Asleep(b),
         \A b \in Buckets : s = Asleep(b) /\ naps'[t] > 0 => naps'[t] + tokens'[b] <= Period[b],
         s \in {Idling, Queued} \/ stage[t] \notin {Idling, Queued}
           \/ Cardinality(Holders) < MaxConcurrent
  PROVE  LimiterInv'
<1>1. /\ stage' \in [Tasks -> Stages] /\ stage'[t] = s
      /\ \A u \in Tasks \ {t} : stage'[u] = stage[u]
  BY LimiterFacts
<1>2. \A b \in Buckets : tokens'[b] \in 0 .. Full[b]
  BY LimiterFacts, Periods
<1>3. {u \in Tasks : stage'[u] = Queued} = {line'[i] : i \in DOMAIN line'}
  <2>1. \A u \in Tasks : stage'[u] = Queued <=> \E i \in DOMAIN line' : line'[i] = u
    BY DEF LineQueued
  <2>2. \A i \in DOMAIN line' : line'[i] \in Tasks BY DEF LineOnce
  <2> QED BY <2>1, <2>2
<1>4. \A u \in Tasks : naps'[u] > 0 => \E b \in Buckets : stage'[u] = Asleep(b)
  <2> SUFFICES ASSUME NEW u \in Tasks, naps'[u] > 0
               PROVE  \E b \in Buckets : stage'[u] = Asleep(b)
    OBVIOUS
  <2>1. CASE u = t BY <1>1, <2>1
  <2>2. CASE u # t
    <3>1. naps[u] > 0 /\ stage'[u] = stage[u] BY <1>1, <2>2
    <3>2. \E b \in Buckets : stage[u] = Asleep(b) BY <3>1, LimiterFacts
    <3> QED BY <3>1, <3>2
  <2> QED BY <2>1, <2>2
<1>5. LimiterTypeOK' BY <1>1, <1>2, <1>3, <1>4 DEF LimiterTypeOK, Stages
<1>6. LineOnce' OBVIOUS
<1>7. Permitted'
  <2>1. IsFiniteSet(Holders) /\ Cardinality(Holders) <= MaxConcurrent
    BY DEF LimiterInv, Permitted
  <2>2. Cardinality(Holders) \in Nat /\ MaxConcurrent \in Nat BY <2>1, FS_CardinalityType, Periods
  <2>3. CASE s \in {Idling, Queued} \/ stage[t] \notin {Idling, Queued}
    <3>1. Holders' \in SUBSET Holders BY <1>1, <2>3 DEF Holders
    <3>2. IsFiniteSet(Holders') /\ Cardinality(Holders') <= Cardinality(Holders)
      BY <2>1, <3>1, FS_Subset
    <3>3. Cardinality(Holders') \in Nat BY <3>2, FS_CardinalityType
    <3> QED BY <2>1, <2>2, <3>2, <3>3 DEF Permitted
  <2>4. CASE Cardinality(Holders) < MaxConcurrent
    <3>1. Holders' \in SUBSET (Holders \cup {t}) BY <1>1 DEF Holders
    <3>2. /\ IsFiniteSet(Holders \cup {t})
          /\ Cardinality(Holders \cup {t}) \in {Cardinality(Holders), Cardinality(Holders) + 1}
      BY <2>1, FS_AddElement
    <3>3. IsFiniteSet(Holders') /\ Cardinality(Holders') <= Cardinality(Holders \cup {t})
      BY <3>1, <3>2, FS_Subset
    <3>4. Cardinality(Holders') \in Nat BY <3>3, FS_CardinalityType
    <3> QED BY <2>2, <2>4, <3>2, <3>3, <3>4 DEF Permitted
  <2> QED BY <2>3, <2>4
<1>8. NapsCover'
  <2> SUFFICES ASSUME NEW u \in Tasks, NEW b \in Buckets, stage'[u] = Asleep(b), naps'[u] > 0
               PROVE  naps'[u] + tokens'[b] <= Period[b]
    BY DEF NapsCover
  <2>1. CASE u = t BY <1>1, <2>1
  <2>2. CASE u # t
    <3>1. naps[u] + tokens[b] <= Period[b] /\ naps'[u] = naps[u] /\ tokens'[b] <= tokens[b]
      BY <1>1, <2>2, LimiterFacts
    <3>2. naps[u] \in Nat /\ tokens[b] \in Nat /\ tokens'[b] \in Nat /\ Period[b] \in Nat
      BY LimiterFacts, Periods
    <3> QED BY <3>1, <3>2
  <2> QED BY <2>1, <2>2
<1> QED BY <1>5, <1>6, <1>7, <1>8 DEF LimiterInv

LEMMA LineFacts ==
  ASSUME LimiterInv
  PROVE  /\ \A t \in Tasks : stage[t] # Queued =>
              /\ Append(line, t) \in Seq(Tasks)
              /\ \A i, j \in DOMAIN Append(line, t) : Append(line, t)[i] = Append(line, t)[j] => i = j
              /\ \A u \in Tasks : (\E i \in DOMAIN Append(line, t) : Append(line, t)[i] = u)
                                    <=> IF u = t THEN TRUE ELSE \E i \in DOMAIN line : line[i] = u
         /\ line # <<>> =>
              /\ Head(line) \in Tasks /\ stage[Head(line)] = Queued
              /\ Tail(line) \in Seq(Tasks)
              /\ \A i, j \in DOMAIN Tail(line) : Tail(line)[i] = Tail(line)[j] => i = j
              /\ \A u \in Tasks : (\E i \in DOMAIN Tail(line) : Tail(line)[i] = u)
                                    <=> IF u = Head(line) THEN FALSE ELSE \E i \in DOMAIN line : line[i] = u
<1>1. /\ line \in Seq(Tasks) /\ Len(line) \in Nat /\ DOMAIN line = 1 .. Len(line)
      /\ \A i, j \in DOMAIN line : line[i] = line[j] => i = j
  BY LenProperties DEF LimiterInv, LineOnce
<1>2. ASSUME NEW t \in Tasks, stage[t] # Queued
      PROVE  /\ Append(line, t) \in Seq(Tasks)
             /\ \A i, j \in DOMAIN Append(line, t) : Append(line, t)[i] = Append(line, t)[j] => i = j
             /\ \A u \in Tasks : (\E i \in DOMAIN Append(line, t) : Append(line, t)[i] = u)
                                   <=> IF u = t THEN TRUE ELSE \E i \in DOMAIN line : line[i] = u
  <2> DEFINE q == Append(line, t)
  <2>1. /\ q \in Seq(Tasks) /\ DOMAIN q = 1 .. (Len(line) + 1)
        /\ \A i \in 1 .. Len(line) : q[i] = line[i]
        /\ q[Len(line) + 1] = t
    BY <1>1
  <2>2. \A i \in 1 .. Len(line) : line[i] # t BY <1>1, <1>2, LimiterFacts
  <2>3. \A i \in DOMAIN q : i \in 1 .. Len(line) \/ i = Len(line) + 1 BY <1>1, <2>1
  <2> HIDE DEF q
  <2>4. \A i, j \in DOMAIN q : q[i] = q[j] => i = j
    <3> SUFFICES ASSUME NEW i \in DOMAIN q, NEW j \in DOMAIN q, q[i] = q[j] PROVE i = j
      OBVIOUS
    <3>1. CASE i \in 1 .. Len(line) /\ j \in 1 .. Len(line) BY <1>1, <2>1, <3>1
    <3> QED BY <2>1, <2>2, <2>3, <3>1
  <2>5. \A u \in Tasks : (\E i \in DOMAIN q : q[i] = u)
                           <=> IF u = t THEN TRUE ELSE \E i \in DOMAIN line : line[i] = u
    <3>1. Len(line) + 1 \in DOMAIN q BY <1>1, <2>1
    <3>2. \A i \in DOMAIN line : i \in DOMAIN q BY <1>1, <2>1
    <3> QED BY <1>1, <2>1, <2>3, <3>1, <3>2
  <2> QED BY <2>1, <2>4, <2>5 DEF q
<1>3. ASSUME line # <<>>
      PROVE  /\ Head(line) \in Tasks /\ stage[Head(line)] = Queued
             /\ Tail(line) \in Seq(Tasks)
             /\ \A i, j \in DOMAIN Tail(line) : Tail(line)[i] = Tail(line)[j] => i = j
             /\ \A u \in Tasks : (\E i \in DOMAIN Tail(line) : Tail(line)[i] = u)
                  <=> IF u = Head(line) THEN FALSE ELSE \E i \in DOMAIN line : line[i] = u
  <2> DEFINE q == Tail(line)
  <2>1. /\ Len(line) # 0 /\ Head(line) = line[1] /\ q \in Seq(Tasks)
        /\ DOMAIN q = 1 .. (Len(line) - 1)
        /\ \A i \in 1 .. (Len(line) - 1) : q[i] = line[i + 1]
    BY <1>1, <1>3
  <2>2. 1 \in DOMAIN line /\ line[1] \in Tasks BY <1>1, <2>1
  <2>3. \A i \in DOMAIN q : i + 1 \in DOMAIN line /\ q[i] = line[i + 1] /\ i \in Nat /\ i + 1 # 1
    BY <1>1, <2>1
  <2>4. \A i \in DOMAIN line : i = 1 \/ (i - 1 \in DOMAIN q /\ q[i - 1] = line[i])
    BY <1>1, <2>1
  <2>5. stage[Head(line)] = Queued BY <2>1, <2>2, LimiterFacts
  <2> HIDE DEF q
  <2>6. \A i, j \in DOMAIN q : q[i] = q[j] => i = j BY <1>1, <2>3
  <2>7. \A u \in Tasks : (\E i \in DOMAIN q : q[i] = u)
          <=> IF u = Head(line) THEN FALSE ELSE \E i \in DOMAIN line : line[i] = u
    <3> SUFFICES ASSUME NEW u \in Tasks
                 PROVE  (\E i \in DOMAIN q : q[i] = u)
                          <=> u # Head(line) /\ \E i \in DOMAIN line : line[i] = u
      OBVIOUS
    <3>1. ASSUME NEW i \in DOMAIN q, q[i] = u
          PROVE  u # Head(line) /\ \E k \in DOMAIN line : line[k] = u
      <4>1. i + 1 \in DOMAIN line /\ line[i + 1] = u /\ i + 1 # 1 BY <2>3, <3>1
      <4>2. line[i + 1] # line[1] BY <1>1, <2>2, <4>1
      <4> QED BY <2>1, <4>1, <4>2
    <3>2. ASSUME NEW i \in DOMAIN line, line[i] = u, u # Head(line)
          PROVE  \E k \in DOMAIN q : q[k] = u
      BY <2>1, <2>4, <3>2
    <3> QED BY <3>1, <3>2
  <2> QED BY <2>1, <2>2, <2>5, <2>6, <2>7 DEF q
<1> QED BY <1>2, <1>3

\* Pass moves a task to another stage that holds the permit.
LEMMA PassFacts ==
  ASSUME LimiterInv, NEW t \in Tasks, NEW b \in Buckets, Pass(t, b)
  PROVE  \E s \in Stages : /\ stage' = [stage EXCEPT ![t] = s]
                           /\ s \notin {Idling, Queued} /\ \A a \in Buckets : s # Asleep(a)
                           /\ allowance' \in Int
<1>1. allowance' \in Int BY LimiterFacts, Periods DEF Pass
<1>2. CASE b = "rpm"
  <2>1. stage' = [stage EXCEPT ![t] = Acquiring("rpd")] BY <1>2 DEF Pass
  <2>2. Acquiring("rpd") \in Stages BY DEF Stages, Buckets
  <2>3. "rpd" \in Buckets BY DEF Buckets
  <2> QED BY <1>1, <2>1, <2>2, <2>3, StagesApart
<1>3. CASE b # "rpm"
  <2>1. stage' = [stage EXCEPT ![t] = Calling] BY <1>3 DEF Pass
  <2>2. Calling \in Stages BY DEF Stages
  <2> QED BY <1>1, <2>1, <2>2, StagesApart
<1> QED BY <1>2, <1>3

LEMMA ArriveKeeps ==
  ASSUME LimiterInv, NEW t \in Tasks, Arrive(t)
  PROVE  LimiterInv'
<1>1. /\ stage[t] = Idling /\ stage' = [stage EXCEPT ![t] = Queued] /\ line' = Append(line, t)
      /\ naps' = naps /\ tokens' = tokens /\ allowance' = allowance
  BY DEF Arrive
<1>2. stage[t] # Queued /\ Queued \in Stages BY <1>1, StagesApart DEF Stages
<1>3. LineOnce' BY <1>1, <1>2, LineFacts DEF LineOnce
<1>6. LineQueued'
  <2> SUFFICES ASSUME NEW u \in Tasks
               PROVE  stage'[u] = Queued <=> \E i \in DOMAIN line' : line'[i] = u
    BY DEF LineQueued
  <2>1. (\E i \in DOMAIN line' : line'[i] = u) <=> u = t \/ \E i \in DOMAIN line : line[i] = u
    BY <1>1, <1>2, LineFacts
  <2>2. stage'[u] = IF u = t THEN Queued ELSE stage[u] BY <1>1, LimiterFacts
  <2>3. stage[u] = Queued <=> \E i \in DOMAIN line : line[i] = u BY LimiterFacts
  <2> QED BY <2>1, <2>2, <2>3
<1>4. /\ naps' \in [Tasks -> Nat] /\ tokens' \in [Buckets -> Nat] /\ allowance' \in Int
      /\ \A b \in Buckets : tokens'[b] <= tokens[b]
      /\ \A u \in Tasks \ {t} : naps'[u] = naps[u]
  BY <1>1, LimiterFacts
<1>5. ~ (naps'[t] > 0) BY <1>1, LimiterFacts, StagesApart
<1> QED BY <1>1, <1>2, <1>3, <1>4, <1>5, <1>6, OneTask

LEMMA AdmitKeeps ==
  ASSUME LimiterInv, NEW t \in Tasks, Admit(t)
  PROVE  LimiterInv'
<1> DEFINE s == Acquiring("rpm")
<1>1. /\ line # <<>> /\ t = Head(line) /\ Cardinality(Holders) < MaxConcurrent
      /\ stage' = [stage EXCEPT ![t] = s] /\ line' = Tail(line)
      /\ naps' = naps /\ tokens' = tokens /\ allowance' = allowance
  BY DEF Admit
<1>2. s \in Stages /\ s # Queued /\ stage[t] = Queued
  BY <1>1, StagesApart, LineFacts DEF Stages, Buckets
<1>3. LineOnce' BY <1>1, LineFacts DEF LineOnce
<1>8. LineQueued'
  <2> SUFFICES ASSUME NEW u \in Tasks
               PROVE  stage'[u] = Queued <=> \E i \in DOMAIN line' : line'[i] = u
    BY DEF LineQueued
  <2>1. (\E i \in DOMAIN line' : line'[i] = u) <=> u # t /\ \E i \in DOMAIN line : line[i] = u
    BY <1>1, LineFacts
  <2>2. stage'[u] = IF u = t THEN s ELSE stage[u] BY <1>1, LimiterFacts
  <2>3. stage[u] = Queued <=> \E i \in DOMAIN line : line[i] = u BY LimiterFacts
  <2> QED BY <1>2, <2>1, <2>2, <2>3
<1>4. /\ naps' \in [Tasks -> Nat] /\ tokens' \in [Buckets -> Nat] /\ allowance' \in Int
      /\ \A b \in Buckets : tokens'[b] <= tokens[b]
      /\ \A u \in Tasks \ {t} : naps'[u] = naps[u]
  BY <1>1, LimiterFacts
<1>5. ~ (naps'[t] > 0) BY <1>1, <1>2, LimiterFacts, StagesApart
<1>6. /\ naps'[t] > 0 => \E b \in Buckets : s = Asleep(b)
      /\ \A b \in Buckets : s = Asleep(b) /\ naps'[t] > 0 => naps'[t] + tokens'[b] <= Period[b]
      /\ s \in {Idling, Queued} \/ stage[t] \notin {Idling, Queued}
           \/ Cardinality(Holders) < MaxConcurrent
  BY <1>1, <1>5
<1>7. s \in Stages /\ stage' = [stage EXCEPT ![t] = s] BY <1>1, <1>2
<1> HIDE DEF s
<1> QED BY <1>3, <1>4, <1>6, <1>7, <1>8, OneTask

\* A step of a task that holds a permit leaves the line alone.
LEMMA HolderStep ==
  ASSUME LimiterInv, NEW t \in Tasks, NEW s \in Stages, stage' = [stage EXCEPT ![t] = s],
         stage[t] \notin {Idling, Queued}, s # Queued, line' = line,
         naps' \in [Tasks -> Nat], tokens' \in [Buckets -> Nat], allowance' \in Int,
         \A b \in Buckets : tokens'[b] <= tokens[b],
         \A u \in Tasks \ {t} : naps'[u] = naps[u],
         naps'[t] > 0 => \E b \in Buckets : s = Asleep(b),
         \A b \in Buckets : s = Asleep(b) /\ naps'[t] > 0 => naps'[t] + tokens'[b] <= Period[b]
  PROVE  LimiterInv'
<1>1. LineOnce' BY DEF LimiterInv, LineOnce
<1>2. LineQueued'
  <2> SUFFICES ASSUME NEW u \in Tasks
               PROVE  stage'[u] = Queued <=> \E i \in DOMAIN line : line[i] = u
    BY DEF LineQueued
  <2>1. stage'[u] = IF u = t THEN s ELSE stage[u] BY LimiterFacts
  <2>2. stage[u] = Queued <=> \E i \in DOMAIN line : line[i] = u BY LimiterFacts
  <2> QED BY <2>1, <2>2
<1> QED BY <1>1, <1>2, OneTask

LEMMA TakeTokenKeeps ==
  ASSUME LimiterInv, NEW t \in Tasks, NEW b \in Buckets, TakeToken(t, b)
  PROVE  LimiterInv'
<1>1. /\ stage[t] = Acquiring(b) /\ tokens[b] >= Period[b] /\ Pass(t, b)
      /\ tokens' = [tokens EXCEPT ![b] = @ - Period[b]] /\ line' = line /\ naps' = naps
  BY DEF TakeToken
<1>2. PICK s \in Stages : /\ stage' = [stage EXCEPT ![t] = s]
                          /\ s \notin {Idling, Queued} /\ \A a \in Buckets : s # Asleep(a)
                          /\ allowance' \in Int
  BY <1>1, PassFacts
<1>3. tokens' \in [Buckets -> Nat] /\ \A a \in Buckets : tokens'[a] <= tokens[a]
  BY <1>1, LimiterFacts, Periods
<1>4. stage[t] \notin {Idling, Queued} /\ \A a \in Buckets : stage[t] # Asleep(a)
  BY <1>1, StagesApart
<1>5. naps' \in [Tasks -> Nat] /\ ~ (naps'[t] > 0) BY <1>1, <1>4, LimiterFacts
<1> QED BY <1>1, <1>2, <1>3, <1>4, <1>5, HolderStep

LEMMA FallAsleepKeeps ==
  ASSUME LimiterInv, NEW t \in Tasks, NEW b \in Buckets, FallAsleep(t, b)
  PROVE  LimiterInv'
<1> DEFINE s == Asleep(b)
<1>1. /\ stage[t] = Acquiring(b) /\ tokens[b] < Period[b] /\ stage' = [stage EXCEPT ![t] = s]
      /\ naps' = [naps EXCEPT ![t] = Period[b] - tokens[b]]
      /\ line' = line /\ tokens' = tokens /\ allowance' = allowance
  BY DEF FallAsleep
<1>2. s \in Stages /\ s # Queued /\ stage[t] \notin {Idling, Queued}
  BY <1>1, StagesApart DEF Stages
<1>3. tokens[b] \in Nat /\ Period[b] \in Nat BY LimiterFacts, Periods
<1>4. /\ naps' \in [Tasks -> Nat] /\ naps'[t] = Period[b] - tokens[b]
      /\ \A u \in Tasks \ {t} : naps'[u] = naps[u]
  BY <1>1, <1>3, LimiterFacts
<1>5. tokens' \in [Buckets -> Nat] /\ allowance' \in Int /\ \A a \in Buckets : tokens'[a] <= tokens[a]
  BY <1>1, LimiterFacts
<1>6. \A a \in Buckets : s = Asleep(a) => a = b BY StagesApart
<1>7. \A a \in Buckets : s = Asleep(a) /\ naps'[t] > 0 => naps'[t] + tokens'[a] <= Period[a]
  BY <1>1, <1>3, <1>4, <1>6
<1>8. naps'[t] > 0 => \E a \in Buckets : s = Asleep(a) OBVIOUS
<1> HIDE DEF s
<1> QED BY <1>1, <1>2, <1>4, <1>5, <1>7, <1>8, HolderStep

LEMMA WakeUpKeeps ==
  ASSUME LimiterInv, NEW t \in Tasks, NEW b \in Buckets, WakeUp(t, b)
  PROVE  LimiterInv'
<1>1. /\ stage[t] = Asleep(b) /\ naps[t] = 0 /\ Pass(t, b) /\ line' = line /\ naps' = naps
      /\ tokens' = [tokens EXCEPT ![b] = IF @ < Period[b] THEN 0 ELSE @ - Period[b]]
  BY DEF WakeUp
<1>2. PICK s \in Stages : /\ stage' = [stage EXCEPT ![t] = s]
                          /\ s \notin {Idling, Queued} /\ \A a \in Buckets : s # Asleep(a)
                          /\ allowance' \in Int
  BY <1>1, PassFacts
<1>3. tokens' \in [Buckets -> Nat] /\ \A a \in Buckets : tokens'[a] <= tokens[a]
  BY <1>1, LimiterFacts, Periods
<1>4. stage[t] \notin {Idling, Queued} BY <1>1, StagesApart
<1>5. naps' \in [Tasks -> Nat] /\ ~ (naps'[t] > 0) BY <1>1, LimiterFacts
<1> QED BY <1>1, <1>2, <1>3, <1>4, <1>5, HolderStep

LEMMA CallEndsKeeps ==
  ASSUME LimiterInv, NEW t \in Tasks, CallEnds(t)
  PROVE  LimiterInv'
<1>1. /\ stage[t] = Calling /\ stage' = [stage EXCEPT ![t] = Idling] /\ line' = line
      /\ naps' = naps /\ tokens' = tokens /\ allowance' = allowance
  BY DEF CallEnds
<1>2. /\ Idling \in Stages /\ Idling # Queued /\ stage[t] \notin {Idling, Queued}
      /\ \A a \in Buckets : stage[t] # Asleep(a)
  BY <1>1, StagesApart DEF Stages
<1>3. naps' \in [Tasks -> Nat] /\ ~ (naps'[t] > 0) BY <1>1, <1>2, LimiterFacts
<1>4. tokens' \in [Buckets -> Nat] /\ allowance' \in Int /\ \A a \in Buckets : tokens'[a] <= tokens[a]
  BY <1>1, LimiterFacts
<1> QED BY <1>1, <1>2, <1>3, <1>4, HolderStep

\* What a tick does to the bucket and to the sleepers.
LEMMA TickFacts ==
  ASSUME LimiterInv, LimiterTick
  PROVE  /\ stage' = stage /\ line' = line
         /\ tokens' \in [Buckets -> Nat] /\ naps' \in [Tasks -> Nat] /\ allowance' \in Int
         /\ \A b \in Buckets : tokens'[b] = Lesser(tokens[b] + 1, Full[b])
         /\ \A t \in Tasks : naps'[t] = IF naps[t] > 0 THEN naps[t] - 1 ELSE 0
         /\ allowance' = Lesser(allowance + Credit, Burst * RpmPeriod)
<1>1. /\ \A b \in Buckets : tokens[b] \in Nat /\ Full[b] \in Nat
      /\ \A t \in Tasks : naps[t] \in Nat
      /\ allowance \in Int /\ Burst * RpmPeriod \in Nat /\ Credit \in Nat
  BY LimiterFacts, Periods
<1>2. /\ tokens' = [b \in Buckets |-> Lesser(tokens[b] + 1, Full[b])]
      /\ naps' = [t \in Tasks |-> IF naps[t] > 0 THEN naps[t] - 1 ELSE 0]
      /\ allowance' = Lesser(allowance + Credit, Burst * RpmPeriod)
      /\ stage' = stage /\ line' = line
  BY DEF LimiterTick
<1>3. \A b \in Buckets : Lesser(tokens[b] + 1, Full[b]) \in Nat BY <1>1 DEF Lesser
<1>4. \A t \in Tasks : (IF naps[t] > 0 THEN naps[t] - 1 ELSE 0) \in Nat BY <1>1
<1>5. allowance' \in Int BY <1>1, <1>2 DEF Lesser
<1> QED BY <1>2, <1>3, <1>4, <1>5

LEMMA TickKeeps ==
  ASSUME LimiterInv, LimiterTick
  PROVE  LimiterInv'
<1>1. /\ \A t \in Tasks : naps'[t] > 0 => naps[t] > 0 /\ naps'[t] = naps[t] - 1
      /\ \A b \in Buckets : tokens'[b] \in 0 .. Full[b] /\ tokens'[b] <= tokens[b] + 1
  <2>1. ASSUME NEW t \in Tasks, naps'[t] > 0 PROVE naps[t] > 0 /\ naps'[t] = naps[t] - 1
    BY <2>1, TickFacts
  <2>2. ASSUME NEW b \in Buckets
        PROVE  tokens'[b] \in 0 .. Full[b] /\ tokens'[b] <= tokens[b] + 1
    <3>1. tokens'[b] = Lesser(tokens[b] + 1, Full[b]) BY TickFacts
    <3>2. tokens[b] \in Nat /\ Full[b] \in Nat /\ tokens[b] <= Full[b] BY LimiterFacts, Periods
    <3> QED BY <3>1, <3>2 DEF Lesser
  <2> QED BY <2>1, <2>2
<1>2. LimiterTypeOK'
  <2>1. {t \in Tasks : stage[t] = Queued}' = {t \in Tasks : stage[t] = Queued}
        /\ {line[i] : i \in DOMAIN line}' = {line[i] : i \in DOMAIN line}
    BY TickFacts
  <2> QED BY <1>1, <2>1, TickFacts DEF LimiterInv, LimiterTypeOK
<1>3. LineOnce' /\ Permitted' BY TickFacts DEF LimiterInv, LineOnce, Permitted, Holders
<1>4. NapsCover'
  <2> SUFFICES ASSUME NEW t \in Tasks, NEW b \in Buckets, stage[t] = Asleep(b), naps'[t] > 0
               PROVE  naps'[t] + tokens'[b] <= Period[b]
    BY TickFacts DEF NapsCover
  <2>1. naps[t] + tokens[b] <= Period[b] /\ naps'[t] = naps[t] - 1 /\ tokens'[b] <= tokens[b] + 1
    BY <1>1, LimiterFacts
  <2>2. naps[t] \in Nat /\ tokens[b] \in Nat /\ tokens'[b] \in Nat /\ Period[b] \in Nat
    BY LimiterFacts, Periods, TickFacts
  <2> QED BY <2>1, <2>2
<1> QED BY <1>2, <1>3, <1>4 DEF LimiterInv

LEMMA LimiterStep == LimiterInv /\ [LimiterNext]_limiterVars => LimiterInv'
<1> SUFFICES ASSUME LimiterInv, [LimiterNext]_limiterVars PROVE LimiterInv'
  OBVIOUS
<1>1. CASE LimiterTick BY <1>1, TickKeeps
<1>2. ASSUME NEW t \in Tasks, Arrive(t) PROVE LimiterInv' BY <1>2, ArriveKeeps
<1>3. ASSUME NEW t \in Tasks, TaskStep(t) PROVE LimiterInv'
  BY <1>3, AdmitKeeps, TakeTokenKeeps, FallAsleepKeeps, WakeUpKeeps, CallEndsKeeps DEF TaskStep
<1>4. CASE UNCHANGED limiterVars
  BY <1>4 DEF limiterVars, LimiterInv, LimiterTypeOK, LineOnce, Permitted, NapsCover, Holders
<1> QED BY <1>1, <1>2, <1>3, <1>4 DEF LimiterNext

\* The line holds the queued tasks, each once, no more tasks hold a permit than
\* the semaphore has, only sleepers nap, and no bucket overflows or runs into
\* debt: the code's max(0, ...) after a sleep is all the debt there is.
THEOREM LimiterTypes == LimiterSpec => []LimiterTypeOK
<1>1. LimiterInv => LimiterTypeOK BY DEF LimiterInv
<1> QED BY <1>1, LimiterInitially, LimiterStep, PTL DEF LimiterSpec

(***************************************************************************)
(* The rate. Each sleeper for the minute has waited for as many units as   *)
(* its sleep is short of a whole token (Owed, as pairs of a sleeper and a  *)
(* unit), each further task the semaphore admits may find at most one      *)
(* token's worth of units to sleep against (Part), and what the bucket     *)
(* holds beyond that passes once.                                          *)
(***************************************************************************)
Sleepers == {t \in Tasks : stage[t] = Asleep("rpm")}
Owed == {x \in Tasks \X (1 .. RpmPeriod) : x[1] \in Sleepers /\ x[2] > naps[x[1]]}
Room == MaxConcurrent - Cardinality(Sleepers)
Part == Lesser(tokens["rpm"], RpmPeriod)
Due == Cardinality(Owed) + Room * Part + (tokens["rpm"] - Part)

\* The strengthened invariant: the observer's allowance covers all of it.
Earned == allowance >= Due

LEMMA Monotone == ASSUME NEW a \in Nat, NEW b \in Nat, NEW c \in Nat, a <= b
                  PROVE  c * a <= c * b /\ a * c <= b * c
<1> DEFINE d == b - a
<1>1. d \in Nat /\ b = a + d OBVIOUS
<1> HIDE DEF d
<1>2. c * d \in Nat /\ c * (a + d) = c * a + c * d BY <1>1
<1>3. d * c \in Nat /\ (a + d) * c = a * c + d * c BY <1>1
<1>4. c * a \in Nat /\ a * c \in Nat OBVIOUS
<1> QED BY <1>1, <1>2, <1>3, <1>4

LEMMA OneMore == ASSUME NEW a \in Nat, NEW b \in Nat
                 PROVE  (a + 1) * b = a * b + b /\ a * b \in Nat
OBVIOUS

LEMMA OwedPairs == ASSUME NEW u, NEW n
                   PROVE  <<u, n>> \in Owed
                            <=> u \in Tasks /\ u \in Sleepers /\ n \in 1 .. RpmPeriod /\ n > naps[u]
BY DEF Owed

LEMMA SleeperFacts ==
  ASSUME LimiterInv
  PROVE  /\ IsFiniteSet(Sleepers) /\ Cardinality(Sleepers) \in Nat /\ Room \in Nat
         /\ Room + Cardinality(Sleepers) = MaxConcurrent
         /\ IsFiniteSet(Owed) /\ Cardinality(Owed) \in Nat
         /\ Cardinality(Owed) <= Cardinality(Sleepers) * RpmPeriod
<1>1. IsFiniteSet(Holders) /\ Cardinality(Holders) <= MaxConcurrent /\ Cardinality(Holders) \in Nat
  BY FS_CardinalityType DEF LimiterInv, Permitted
<1>2. Sleepers \in SUBSET Holders
  <2>1. "rpm" \in Buckets BY DEF Buckets
  <2> QED BY <2>1, StagesApart DEF Sleepers, Holders
<1>3. IsFiniteSet(Sleepers) /\ Cardinality(Sleepers) <= Cardinality(Holders)
  BY <1>1, <1>2, FS_Subset
<1>4. Cardinality(Sleepers) \in Nat BY <1>3, FS_CardinalityType
<1>5. RpmPeriod \in Nat /\ RpmPeriod > 0 /\ MaxConcurrent \in Nat BY Periods
<1>6. IsFiniteSet(1 .. RpmPeriod) /\ Cardinality(1 .. RpmPeriod) = RpmPeriod
  <2>1. 1 \in Int /\ RpmPeriod \in Int BY <1>5
  <2>2. Cardinality(1 .. RpmPeriod) = IF 1 > RpmPeriod THEN 0 ELSE RpmPeriod - 1 + 1
    BY <2>1, FS_Interval
  <2> QED BY <1>5, <2>1, <2>2, FS_Interval
<1>7. /\ IsFiniteSet(Sleepers \X (1 .. RpmPeriod))
      /\ Cardinality(Sleepers \X (1 .. RpmPeriod)) = Cardinality(Sleepers) * RpmPeriod
  BY <1>3, <1>6, FS_Product
<1>8. Owed \in SUBSET (Sleepers \X (1 .. RpmPeriod)) BY DEF Owed
<1>9. /\ IsFiniteSet(Owed) /\ Cardinality(Owed) <= Cardinality(Sleepers \X (1 .. RpmPeriod))
  BY <1>7, <1>8, FS_Subset
<1>10. Cardinality(Owed) \in Nat BY <1>9, FS_CardinalityType
<1> QED BY <1>1, <1>3, <1>4, <1>5, <1>7, <1>9, <1>10 DEF Room

LEMMA PartFacts ==
  ASSUME LimiterInv
  PROVE  /\ tokens["rpm"] \in Nat /\ tokens["rpm"] <= RpmPeriod * RpmCapacity
         /\ Part \in Nat /\ Part <= RpmPeriod /\ Part <= tokens["rpm"]
         /\ tokens["rpm"] - Part \in Nat
         /\ tokens["rpm"] < RpmPeriod => Part = tokens["rpm"]
         /\ tokens["rpm"] >= RpmPeriod => Part = RpmPeriod
         /\ RpmPeriod * RpmCapacity >= RpmPeriod
         /\ tokens["rpm"] - Part <= RpmPeriod * RpmCapacity - RpmPeriod
<1>1. tokens["rpm"] \in 0 .. (RpmPeriod * RpmCapacity)
  <2>1. "rpm" \in Buckets BY DEF Buckets
  <2> QED BY <2>1, LimiterFacts, Periods
<1>2. RpmPeriod \in Nat /\ RpmCapacity \in Nat /\ RpmCapacity >= 1 BY Periods
<1>3. RpmPeriod * 1 <= RpmPeriod * RpmCapacity BY <1>2, Monotone
<1>4. RpmPeriod * RpmCapacity \in Nat /\ RpmPeriod * 1 = RpmPeriod BY <1>2
<1> QED BY <1>1, <1>2, <1>3, <1>4 DEF Part, Lesser

\* What of this the steps below need of the next state.
Measured == /\ Part \in Nat /\ Part <= RpmPeriod /\ tokens["rpm"] - Part \in Nat
            /\ IsFiniteSet(Owed) /\ Cardinality(Owed) \in Nat

LEMMA MeasuredNow == LimiterInv => Measured
BY PartFacts, SleeperFacts DEF Measured

LEMMA MeasuredNext == ASSUME LimiterInv' PROVE Measured'
BY MeasuredNow, PTL

\* What is due is never negative and never more than the observer can hold.
LEMMA DueBounded ==
  ASSUME LimiterInv, Burst >= MaxConcurrent + RpmCapacity - 1
  PROVE  Due \in Nat /\ Due <= Burst * RpmPeriod
<1> DEFINE s == Cardinality(Sleepers)
           P == RpmPeriod
           T == tokens["rpm"]
<1>1. /\ s \in Nat /\ Room \in Nat /\ Room + s = MaxConcurrent
      /\ Cardinality(Owed) \in Nat /\ Cardinality(Owed) <= s * P
  BY SleeperFacts
<1>2. /\ P \in Nat /\ RpmCapacity \in Nat /\ RpmCapacity >= 1 /\ Burst \in Nat /\ MaxConcurrent \in Nat
  BY Periods
<1>3. Part \in Nat /\ Part <= P /\ T - Part \in Nat /\ T - Part <= P * RpmCapacity - P
  BY PartFacts
<1>4. Room * Part \in Nat /\ Room * Part <= Room * P BY <1>1, <1>2, <1>3, Monotone
<1>5. Due \in Nat /\ Due <= s * P + Room * P + (P * RpmCapacity - P)
  <2>1. s * P \in Nat /\ Room * P \in Nat /\ P * RpmCapacity \in Nat BY <1>1, <1>2
  <2> HIDE DEF s
  <2> QED BY <1>1, <1>2, <1>3, <1>4, <2>1 DEF Due
<1>6. s * P + Room * P + (P * RpmCapacity - P) = (s + Room + RpmCapacity - 1) * P
  BY <1>1, <1>2
<1>7. (s + Room + RpmCapacity - 1) * P <= Burst * P
  <2>1. s + Room + RpmCapacity - 1 \in Nat /\ s + Room + RpmCapacity - 1 <= Burst BY <1>1, <1>2
  <2> QED BY <1>2, <2>1, Monotone
<1>8. Burst * P \in Nat BY <1>2
<1> HIDE DEF s
<1> QED BY <1>1, <1>2, <1>5, <1>6, <1>7, <1>8

\* A step that leaves the sleepers for the minute and their bucket alone.
LEMMA Unrelated ==
  ASSUME LimiterInv, Earned, allowance' = allowance, tokens'["rpm"] = tokens["rpm"],
         \A u \in Tasks : stage'[u] = Asleep("rpm") <=> stage[u] = Asleep("rpm"),
         \A u \in Sleepers : naps'[u] = naps[u]
  PROVE  Earned'
<1>1. Sleepers' = Sleepers BY DEF Sleepers
<1>2. Owed' = Owed BY <1>1 DEF Owed
<1> QED BY <1>1, <1>2 DEF Earned, Due, Room, Part

LEMMA TakeTokenEarned ==
  ASSUME LimiterInv, LimiterInv', Earned, NEW t \in Tasks, TakeToken(t, "rpm")
  PROVE  Earned'
<1> DEFINE P == RpmPeriod
           T == tokens["rpm"]
<1>1. "rpm" \in Buckets /\ "rpd" \in Buckets BY DEF Buckets
<1>2. /\ stage[t] = Acquiring("rpm") /\ T >= P /\ tokens'["rpm"] = T - P
      /\ naps' = naps /\ stage' = [stage EXCEPT ![t] = Acquiring("rpd")]
      /\ allowance' = allowance - P
  BY <1>1, Periods, LimiterFacts DEF TakeToken, Pass
<1>3. Sleepers' = Sleepers /\ t \notin Sleepers BY <1>1, <1>2, LimiterFacts, StagesApart DEF Sleepers
<1>4. Owed' = Owed BY <1>2, <1>3 DEF Owed
<1>5. Room' = Room BY <1>3 DEF Room
<1>6. Room >= 1
  <2>1. IsFiniteSet(Holders) /\ Cardinality(Holders) <= MaxConcurrent BY DEF LimiterInv, Permitted
  <2>2. Cardinality(Holders) \in Nat BY <2>1, FS_CardinalityType
  <2>3. Sleepers \in SUBSET Holders BY <1>1, StagesApart DEF Sleepers, Holders
  <2>4. t \in Holders BY <1>1, <1>2, StagesApart DEF Holders
  <2>5. Sleepers # Holders BY <1>3, <2>4
  <2>6. Cardinality(Sleepers) <= Cardinality(Holders) /\ Cardinality(Sleepers) # Cardinality(Holders)
    BY <2>1, <2>3, <2>5, FS_Subset
  <2> QED BY <2>1, <2>2, <2>6, SleeperFacts, Periods DEF Room
<1>7. /\ T \in Nat /\ P \in Nat /\ P > 0 /\ Room \in Nat /\ allowance \in Int
      /\ Cardinality(Owed) \in Nat /\ Part = P
  BY <1>2, PartFacts, SleeperFacts, LimiterFacts, Periods
<1>8. Part' \in Nat /\ Part' <= P BY MeasuredNext DEF Measured
<1>9. (Room - 1) * Part' <= (Room - 1) * P
  <2>1. Room - 1 \in Nat BY <1>6, <1>7
  <2> QED BY <1>7, <1>8, <2>1, Monotone
<1>10. (Room - 1) * Part' = Room * Part' - Part' /\ (Room - 1) * P = Room * P - P
  BY <1>7, <1>8
<1>11. Due' = Cardinality(Owed) + Room * Part' + (T - P - Part')
  BY <1>2, <1>4, <1>5 DEF Due
<1>12. Due = Cardinality(Owed) + Room * P + (T - P) BY <1>7 DEF Due
<1>13. Room * Part' \in Int /\ Room * P \in Int BY <1>7, <1>8
<1>14. Cardinality(Owed) + Room * Part' + (T - P - Part')
         <= Cardinality(Owed) + Room * P + (T - P) - P
  <2>1. \A o, x, y, p, w, c \in Int :
          x - p <= y - c => o + x + (w - c - p) <= o + y + (w - c) - c
    OBVIOUS
  <2>2. Room * Part' - Part' <= Room * P - P BY <1>9, <1>10
  <2>3. /\ Cardinality(Owed) \in Int /\ Room * Part' \in Int /\ Room * P \in Int
        /\ Part' \in Int /\ T \in Int /\ P \in Int
    BY <1>7, <1>8, <1>13
  <2> QED BY <2>1, <2>2, <2>3, ZenonT(30)
<1>15. allowance >= Cardinality(Owed) + Room * P + (T - P) BY <1>12 DEF Earned
<1>16. allowance' >= Cardinality(Owed) + Room * Part' + (T - P - Part')
  BY <1>2, <1>7, <1>8, <1>13, <1>14, <1>15
<1> QED BY <1>11, <1>16 DEF Earned

LEMMA FallAsleepEarned ==
  ASSUME LimiterInv, LimiterInv', Earned, NEW t \in Tasks, FallAsleep(t, "rpm")
  PROVE  Earned'
<1> DEFINE P == RpmPeriod
           v == tokens["rpm"]
           I == (P - v + 1) .. P
<1>1. "rpm" \in Buckets BY DEF Buckets
<1>2. /\ stage[t] = Acquiring("rpm") /\ v < P /\ tokens' = tokens
      /\ stage' = [stage EXCEPT ![t] = Asleep("rpm")]
      /\ naps' = [naps EXCEPT ![t] = P - v] /\ allowance' = allowance
  BY <1>1, Periods DEF FallAsleep
<1>3. v \in Nat /\ P \in Nat /\ allowance \in Int BY PartFacts, Periods, LimiterFacts
<1>4. naps'[t] = P - v /\ \A u \in Tasks \ {t} : naps'[u] = naps[u] BY <1>2, LimiterFacts
<1>5. t \notin Sleepers /\ Sleepers' = Sleepers \cup {t}
  BY <1>1, <1>2, LimiterFacts, StagesApart DEF Sleepers
<1>6. IsFiniteSet(Sleepers) /\ Cardinality(Sleepers') = Cardinality(Sleepers) + 1
  BY <1>5, SleeperFacts, FS_AddElement
<1>7. Room' = Room - 1 /\ Room \in Nat /\ Room' \in Int
  BY <1>6, SleeperFacts, Periods DEF Room
<1>8. IsFiniteSet(I) /\ Cardinality(I) = v
  <2>1. P - v + 1 \in Int /\ P \in Int BY <1>3
  <2>2. IsFiniteSet(I) /\ Cardinality(I) = IF P - v + 1 > P THEN 0 ELSE P - (P - v + 1) + 1
    BY <2>1, FS_Interval
  <2> QED BY <1>3, <2>2
<1>9. IsFiniteSet({t} \X I) /\ Cardinality({t} \X I) = v
  <2>1. IsFiniteSet({t}) /\ Cardinality({t}) = 1 BY FS_Singleton
  <2>2. IsFiniteSet({t} \X I) /\ Cardinality({t} \X I) = 1 * Cardinality(I)
    BY <1>8, <2>1, FS_Product
  <2> QED BY <1>3, <1>8, <2>2
<1>10. Owed' \in SUBSET (Owed \cup ({t} \X I))
  <2> SUFFICES ASSUME NEW u \in Tasks, NEW n \in 1 .. RpmPeriod, u \in Sleepers', n > naps'[u]
               PROVE  <<u, n>> \in Owed \/ <<u, n>> \in {t} \X I
    BY DEF Owed
  <2>1. CASE u = t BY <1>3, <1>4, <2>1
  <2>2. CASE u # t BY <1>4, <1>5, <2>2, OwedPairs
  <2> QED BY <2>1, <2>2
<1>11. Cardinality(Owed') <= Cardinality(Owed) + v
  <2>1. IsFiniteSet(Owed) /\ Cardinality(Owed) \in Nat BY SleeperFacts
  <2>2. /\ IsFiniteSet(Owed \cup ({t} \X I))
        /\ Cardinality(Owed \cup ({t} \X I))
             = Cardinality(Owed) + v - Cardinality(Owed \cap ({t} \X I))
    BY <1>9, <2>1, FS_Union
  <2>3. Owed \cap ({t} \X I) \in SUBSET Owed OBVIOUS
  <2>4. Cardinality(Owed \cap ({t} \X I)) \in Nat BY <2>1, <2>3, FS_Subset, FS_CardinalityType
  <2>5. Cardinality(Owed') <= Cardinality(Owed \cup ({t} \X I)) BY <1>10, <2>2, FS_Subset
  <2>6. Cardinality(Owed') \in Nat BY MeasuredNext DEF Measured
  <2> QED BY <1>3, <2>1, <2>2, <2>4, <2>5, <2>6
<1>12. Part = v /\ Part' = v BY <1>2, PartFacts DEF Part
<1>13. Due' = Cardinality(Owed') + (Room - 1) * v + (v - v) BY <1>2, <1>7, <1>12 DEF Due
<1>14. Due = Cardinality(Owed) + Room * v + (v - v) BY <1>12 DEF Due
<1>15. (Room - 1) * v = Room * v - v /\ Room * v \in Int BY <1>3, <1>7
<1>16. Cardinality(Owed) \in Nat /\ Cardinality(Owed') \in Nat
  BY SleeperFacts, MeasuredNext DEF Measured
<1> HIDE DEF v
<1> QED BY <1>2, <1>3, <1>11, <1>13, <1>14, <1>15, <1>16 DEF Earned

LEMMA WakeUpEarned ==
  ASSUME LimiterInv, LimiterInv', Earned, NEW t \in Tasks, WakeUp(t, "rpm")
  PROVE  Earned'
<1> DEFINE P == RpmPeriod
           T == tokens["rpm"]
           I == 1 .. RpmPeriod
<1>1. "rpm" \in Buckets /\ "rpd" \in Buckets BY DEF Buckets
<1>2. /\ stage[t] = Asleep("rpm") /\ naps[t] = 0
      /\ tokens'["rpm"] = IF T < P THEN 0 ELSE T - P
      /\ naps' = naps /\ stage' = [stage EXCEPT ![t] = Acquiring("rpd")]
      /\ allowance' = allowance - P
  BY <1>1, Periods, LimiterFacts DEF WakeUp, Pass
<1>3. /\ T \in Nat /\ P \in Nat /\ P > 0 /\ allowance \in Int BY PartFacts, Periods, LimiterFacts
<1>4. t \in Sleepers /\ Sleepers' = Sleepers \ {t}
  BY <1>1, <1>2, LimiterFacts, StagesApart DEF Sleepers
<1>5. Cardinality(Sleepers') = Cardinality(Sleepers) - 1
  BY <1>4, SleeperFacts, FS_RemoveElement
<1>6. Room' = Room + 1 /\ Room \in Nat BY <1>5, SleeperFacts, Periods DEF Room
<1>7. IsFiniteSet({t} \X I) /\ Cardinality({t} \X I) = P
  <2>1. IsFiniteSet({t}) /\ Cardinality({t}) = 1 BY FS_Singleton
  <2>2. 1 \in Int /\ P \in Int BY <1>3
  <2>3. IsFiniteSet(I) /\ Cardinality(I) = IF 1 > P THEN 0 ELSE P - 1 + 1 BY <2>2, FS_Interval
  <2>4. IsFiniteSet({t} \X I) /\ Cardinality({t} \X I) = 1 * Cardinality(I)
    BY <2>1, <2>3, FS_Product
  <2> QED BY <1>3, <2>3, <2>4
<1>8. Owed' \cap ({t} \X I) = {} BY <1>4 DEF Owed
<1>9. Owed' \cup ({t} \X I) \in SUBSET Owed
  <2>1. \A x \in Owed' : x \in Owed BY <1>2, <1>4 DEF Owed
  <2>2. \A n \in I : <<t, n>> \in Owed BY <1>2, <1>4, OwedPairs
  <2> QED BY <2>1, <2>2
<1>10. Cardinality(Owed') + P <= Cardinality(Owed)
  <2>1. IsFiniteSet(Owed') /\ Cardinality(Owed') \in Nat /\ IsFiniteSet(Owed)
    BY SleeperFacts, MeasuredNext DEF Measured
  <2>2. Cardinality(Owed' \cup ({t} \X I)) = Cardinality(Owed') + P - Cardinality({})
    BY <1>7, <1>8, <2>1, FS_Union
  <2>3. Cardinality({}) = 0 BY FS_EmptySet
  <2>4. Cardinality(Owed' \cup ({t} \X I)) <= Cardinality(Owed) BY <1>9, <2>1, FS_Subset
  <2> QED BY <1>3, <2>1, <2>2, <2>3, <2>4
<1>11. Cardinality(Owed) \in Nat /\ Cardinality(Owed') \in Nat
  BY SleeperFacts, MeasuredNext DEF Measured
<1>12. Due' = Cardinality(Owed') + (Room + 1) * Part' + (tokens'["rpm"] - Part')
  BY <1>6 DEF Due
<1>13. (Room + 1) * Part' + (tokens'["rpm"] - Part') <= Room * Part + (T - Part)
  <2>1. CASE T < P
    <3>1. tokens'["rpm"] = 0 /\ Part' = 0 BY <1>2, <1>3, <2>1 DEF Part, Lesser
    <3>2. (Room + 1) * Part' = 0 BY <1>6, <3>1
    <3>3. Room * Part \in Nat /\ T - Part \in Nat BY <1>6, PartFacts
    <3> QED BY <3>1, <3>2, <3>3
  <2>2. CASE T >= P
    <3>1. tokens'["rpm"] = T - P /\ Part = P BY <1>2, <1>3, <2>2, PartFacts
    <3>2. Part' \in Nat /\ Part' <= P BY MeasuredNext DEF Measured
    <3>3. (Room + 1) * Part' = Room * Part' + Part' /\ Room * Part' \in Nat BY <1>6, <3>2, OneMore
    <3>4. Room * Part' <= Room * P /\ Room * P \in Nat
      BY <1>3, <1>6, <3>2, Monotone, OneMore
    <3> QED BY <1>3, <3>1, <3>2, <3>3, <3>4
  <2> QED BY <1>3, <2>1, <2>2
<1>14. Room * Part \in Int /\ T - Part \in Int /\ (Room + 1) * Part' \in Int
       /\ tokens'["rpm"] - Part' \in Int
  <2>1. Part \in Nat /\ Part' \in Nat BY PartFacts, MeasuredNext DEF Measured
  <2>2. T - Part \in Int /\ tokens'["rpm"] - Part' \in Int BY PartFacts, MeasuredNext DEF Measured
  <2> QED BY <1>6, <2>1, <2>2
<1> QED BY <1>2, <1>3, <1>10, <1>11, <1>12, <1>13, <1>14 DEF Earned, Due

Bounded == Due \in Nat /\ Due <= Burst * RpmPeriod

LEMMA BoundedNext ==
  ASSUME Burst >= MaxConcurrent + RpmCapacity - 1
  PROVE  (LimiterInv => Bounded) /\ (LimiterInv' => Bounded')
<1>1. LimiterInv => Bounded BY DueBounded DEF Bounded
<1> QED BY <1>1, PTL

LEMMA EarnedInitially ==
  ASSUME LimiterInit, Burst >= MaxConcurrent + RpmCapacity - 1
  PROVE  Earned
<1>1. Due <= Burst * RpmPeriod BY LimiterInitially, BoundedNext DEF Bounded
<1>2. allowance = Burst * RpmPeriod BY DEF LimiterInit
<1>3. Burst * RpmPeriod \in Nat /\ Due \in Nat
  BY LimiterInitially, BoundedNext, Periods DEF Bounded
<1> QED BY <1>1, <1>2, <1>3 DEF Earned

\* A tick earns every sleeper one more unit, and every other task the
\* semaphore admits one more to sleep against: MaxConcurrent units at most.
LEMMA TickEarned ==
  ASSUME LimiterInv, LimiterInv', Earned, LimiterTick, Credit >= MaxConcurrent,
         Burst >= MaxConcurrent + RpmCapacity - 1
  PROVE  Earned'
<1> DEFINE P == RpmPeriod
           T == tokens["rpm"]
           F == Full["rpm"]
<1>1. "rpm" \in Buckets BY DEF Buckets
<1>2. /\ stage' = stage /\ tokens'["rpm"] = Lesser(T + 1, F)
      /\ \A t \in Tasks : naps'[t] = IF naps[t] > 0 THEN naps[t] - 1 ELSE 0
      /\ allowance' = Lesser(allowance + Credit, Burst * P)
  BY <1>1, TickFacts
<1>3. /\ P \in Nat /\ P > 0 /\ T \in Nat /\ F \in Nat /\ F >= P /\ T <= F
      /\ Credit \in Nat /\ MaxConcurrent \in Nat /\ MaxConcurrent >= 1 /\ Burst * P \in Nat
      /\ allowance \in Int /\ \A t \in Tasks : naps[t] \in Nat
  <2>1. Burst * P \in Nat BY Periods
  <2> QED BY <2>1, PartFacts, Periods, LimiterFacts
<1>4. Sleepers' = Sleepers /\ Room' = Room BY <1>2 DEF Sleepers, Room
<1>5. /\ IsFiniteSet(Sleepers) /\ Room \in Nat /\ Room + Cardinality(Sleepers) = MaxConcurrent
      /\ IsFiniteSet(Owed) /\ Cardinality(Owed) \in Nat /\ Cardinality(Sleepers) \in Nat
  BY SleeperFacts
<1>6. IsFiniteSet(Owed') /\ Cardinality(Owed') \in Nat BY MeasuredNext DEF Measured
<1>7. Due' \in Nat /\ Due' <= Burst * P /\ Due \in Nat BY BoundedNext DEF Bounded
<1>8. Due' <= Due + MaxConcurrent
  <2>1. CASE T < P
    <3> DEFINE late == [u \in Sleepers |-> <<u, naps[u]>>]
               L == {late[u] : u \in Sleepers}
    <3>1. IsFiniteSet(L) /\ Cardinality(L) <= Cardinality(Sleepers)
      <4>1. late \in [Sleepers -> L] /\ \A x \in L : \E u \in Sleepers : late[u] = x OBVIOUS
      <4> HIDE DEF late, L
      <4>2. late \in Surjection(Sleepers, L) BY <4>1, Fun_IsSurj
      <4> QED BY <1>5, <4>2, FS_Surjection
    <3>2. Owed' \in SUBSET (Owed \cup L)
      <4> SUFFICES ASSUME NEW u \in Tasks, NEW n \in 1 .. P, u \in Sleepers, n > naps'[u]
                   PROVE  <<u, n>> \in Owed \cup L
        BY <1>4 DEF Owed
      <4>1. n > naps[u] \/ n = naps[u] BY <1>2, <1>3
      <4>2. CASE n > naps[u] BY <4>2, OwedPairs
      <4>3. CASE n = naps[u]
        <5>1. late[u] = <<u, n>> BY <4>3
        <5> QED BY <5>1
      <4> QED BY <4>1, <4>2, <4>3
    <3> HIDE DEF L
    <3>3. Cardinality(Owed') <= Cardinality(Owed) + Cardinality(Sleepers)
      <4>1. /\ IsFiniteSet(Owed \cup L)
            /\ Cardinality(Owed \cup L) = Cardinality(Owed) + Cardinality(L) - Cardinality(Owed \cap L)
        BY <1>5, <3>1, FS_Union
      <4>2. Owed \cap L \in SUBSET Owed OBVIOUS
      <4>3. Cardinality(Owed \cap L) \in Nat BY <1>5, <4>2, FS_Subset, FS_CardinalityType
      <4>4. Cardinality(L) \in Nat BY <3>1, FS_CardinalityType
      <4>5. Cardinality(Owed') <= Cardinality(Owed \cup L) BY <3>2, <4>1, FS_Subset
      <4> QED BY <1>5, <1>6, <3>1, <4>1, <4>3, <4>4, <4>5
    <3>4. tokens'["rpm"] = T + 1 BY <1>2, <1>3, <2>1 DEF Lesser
    <3>5. Part = T /\ Part' = T + 1 BY <1>3, <2>1, <3>4 DEF Part, Lesser
    <3>6. Due' = Cardinality(Owed') + Room * (T + 1) + ((T + 1) - (T + 1))
      BY <1>4, <3>4, <3>5 DEF Due
    <3>7. Due = Cardinality(Owed) + Room * T + (T - T) BY <3>5 DEF Due
    <3>8. Room * (T + 1) = Room * T + Room /\ Room * T \in Nat BY <1>3, <1>5
    <3> HIDE DEF T
    <3>9. Due' = Cardinality(Owed') + Room * T + Room BY <1>3, <1>5, <1>6, <3>6, <3>8
    <3>10. Due = Cardinality(Owed) + Room * T BY <1>3, <1>5, <3>7, <3>8
    <3> QED BY <1>5, <1>6, <3>3, <3>8, <3>9, <3>10
  <2>2. CASE T >= P
    <3>1. \A u \in Sleepers : naps[u] = 0
      <4> SUFFICES ASSUME NEW u \in Sleepers, naps[u] > 0 PROVE FALSE
        BY <1>3 DEF Sleepers
      <4>1. u \in Tasks /\ stage[u] = Asleep("rpm") BY DEF Sleepers
      <4>2. naps[u] + T <= Period["rpm"] BY <1>1, <4>1, LimiterFacts
      <4>3. Period["rpm"] = P BY Periods
      <4> QED BY <1>3, <2>2, <4>1, <4>2, <4>3
    <3>2. \A u \in Sleepers : naps'[u] = naps[u]
      <4>1. \A u \in Sleepers : u \in Tasks BY DEF Sleepers
      <4> QED BY <1>2, <3>1, <4>1
    <3>3. Owed' = Owed BY <1>4, <3>2 DEF Owed
    <3>4. tokens'["rpm"] \in Nat /\ tokens'["rpm"] <= T + 1 /\ tokens'["rpm"] >= P
      BY <1>2, <1>3, <2>2 DEF Lesser
    <3>5. Part = P /\ Part' = P BY <1>3, <2>2, <3>4 DEF Part, Lesser
    <3>6. Due' = Cardinality(Owed) + Room * P + (tokens'["rpm"] - P) BY <1>4, <3>3, <3>5 DEF Due
    <3>7. Due = Cardinality(Owed) + Room * P + (T - P) BY <3>5 DEF Due
    <3>8. Room * P \in Nat BY <1>3, <1>5
    <3> QED BY <1>3, <1>5, <3>4, <3>6, <3>7, <3>8
  <2> QED BY <1>3, <2>1, <2>2
<1>9. allowance >= Due BY DEF Earned
<1>10. allowance' >= Due' BY <1>2, <1>3, <1>7, <1>8, <1>9 DEF Lesser
<1> QED BY <1>10 DEF Earned

LEMMA EarnedStep ==
  ASSUME Credit >= MaxConcurrent, Burst >= MaxConcurrent + RpmCapacity - 1
  PROVE  (LimiterInv /\ Earned) /\ [LimiterNext]_limiterVars => (LimiterInv /\ Earned)'
<1> SUFFICES ASSUME LimiterInv, Earned, [LimiterNext]_limiterVars PROVE (LimiterInv /\ Earned)'
  OBVIOUS
<1>1. LimiterInv' BY LimiterStep
<1>2. "rpm" \in Buckets /\ "rpd" \in Buckets /\ \A b \in Buckets : b = "rpm" \/ b = "rpd"
  BY DEF Buckets
<1>3. \A u \in Sleepers : u \in Tasks /\ stage[u] = Asleep("rpm") BY DEF Sleepers
<1>4. CASE LimiterTick BY <1>1, <1>4, TickEarned
<1>5. ASSUME NEW t \in Tasks, Arrive(t) \/ Admit(t) \/ CallEnds(t) PROVE Earned'
  <2>1. /\ stage[t] # Asleep("rpm") /\ naps' = naps /\ tokens' = tokens /\ allowance' = allowance
        /\ \E s \in Stages : stage' = [stage EXCEPT ![t] = s] /\ s # Asleep("rpm")
    <3>1. CASE Arrive(t) BY <1>2, <3>1, StagesApart DEF Arrive, Stages
    <3>2. CASE CallEnds(t) BY <1>2, <3>2, StagesApart DEF CallEnds, Stages
    <3>3. CASE Admit(t)
      <4>1. stage[t] = Queued BY <3>3, LineFacts DEF Admit
      <4> QED BY <1>2, <3>3, <4>1, StagesApart DEF Admit, Stages
    <3> QED BY <1>5, <3>1, <3>2, <3>3
  <2>2. \A u \in Tasks : stage'[u] = Asleep("rpm") <=> stage[u] = Asleep("rpm")
    BY <2>1, LimiterFacts
  <2> QED BY <2>1, <2>2, Unrelated
<1>6. ASSUME NEW t \in Tasks, TakeToken(t, "rpd") \/ FallAsleep(t, "rpd") \/ WakeUp(t, "rpd")
      PROVE  Earned'
  <2>1. /\ stage[t] # Asleep("rpm") /\ allowance' = allowance /\ tokens'["rpm"] = tokens["rpm"]
        /\ \A u \in Tasks \ {t} : naps'[u] = naps[u]
        /\ \E s \in Stages : stage' = [stage EXCEPT ![t] = s] /\ s # Asleep("rpm")
    <3>1. CASE TakeToken(t, "rpd")
      BY <1>2, <3>1, StagesApart, LimiterFacts DEF TakeToken, Pass, Stages
    <3>2. CASE WakeUp(t, "rpd")
      BY <1>2, <3>2, StagesApart, LimiterFacts DEF WakeUp, Pass, Stages
    <3>3. CASE FallAsleep(t, "rpd")
      BY <1>2, <3>3, StagesApart, LimiterFacts DEF FallAsleep, Stages
    <3> QED BY <1>6, <3>1, <3>2, <3>3
  <2>2. \A u \in Tasks : stage'[u] = Asleep("rpm") <=> stage[u] = Asleep("rpm")
    BY <2>1, LimiterFacts
  <2>3. \A u \in Sleepers : naps'[u] = naps[u] BY <1>3, <2>1
  <2> QED BY <2>1, <2>2, <2>3, Unrelated
<1>7. ASSUME NEW t \in Tasks, TakeToken(t, "rpm") \/ FallAsleep(t, "rpm") \/ WakeUp(t, "rpm")
      PROVE  Earned'
  BY <1>1, <1>7, TakeTokenEarned, FallAsleepEarned, WakeUpEarned
<1>8. ASSUME NEW t \in Tasks, TaskStep(t) PROVE Earned'
  BY <1>2, <1>5, <1>6, <1>7, <1>8 DEF TaskStep
<1>9. ASSUME UNCHANGED limiterVars PROVE Earned'
  <2>1. stage' = stage /\ naps' = naps /\ tokens' = tokens /\ allowance' = allowance
    BY <1>9 DEF limiterVars
  <2> QED BY <2>1, Unrelated
<1> QED BY <1>1, <1>4, <1>5, <1>8, <1>9 DEF LimiterNext

\* Over any stretch of time the limiter lets no more calls through than Burst
\* tokens and Credit units per tick pay for. Credit must reach MaxConcurrent:
\* as many sleepers as there are permits may wait for the same token and all of
\* them pass, so the configured rate is exceeded up to that factor, and no more.
THEOREM RateIsKept ==
  ASSUME Credit >= MaxConcurrent, Burst >= MaxConcurrent + RpmCapacity - 1
  PROVE  LimiterSpec => []RateKept
<1> DEFINE I == LimiterInv /\ Earned
<1>1. LimiterInit => I BY LimiterInitially, EarnedInitially
<1>2. I /\ [LimiterNext]_limiterVars => I' BY EarnedStep
<1>3. I => RateKept
  <2> SUFFICES ASSUME LimiterInv, Earned PROVE RateKept
    OBVIOUS
  <2>1. Due \in Nat BY BoundedNext DEF Bounded
  <2> QED BY <2>1, LimiterFacts DEF Earned, RateKept
<1> QED BY <1>1, <1>2, <1>3, PTL DEF LimiterSpec

(***************************************************************************)
(* The memory level.                                                       *)
(***************************************************************************)
MemorySlots == [key : MemoryKeys, left : Nat]

MemoryInv == memory \in Seq(MemorySlots) /\ MemoryBounded

LEMMA MemoryFacts ==
  ASSUME MemoryInv
  PROVE  /\ memory \in Seq(MemorySlots) /\ Len(memory) \in Nat /\ DOMAIN memory = 1 .. Len(memory)
         /\ \A i \in DOMAIN memory : memory[i] \in MemorySlots
         /\ Len(memory) <= L1Max /\ L1Max \in Nat /\ OneSlotEach(memory)
<1>1. memory \in Seq(MemorySlots) BY DEF MemoryInv
<1>2. Len(memory) \in Nat /\ DOMAIN memory = 1 .. Len(memory) /\ memory \in [1 .. Len(memory) -> MemorySlots]
  BY <1>1, LenProperties
<1> QED BY <1>1, <1>2, MemoryAssumption DEF MemoryInv, MemoryBounded, OneSlotEach

LEMMA MemoryKept ==
  ASSUME memory' \in Seq(MemorySlots), Len(memory') <= L1Max, OneSlotEach(memory')
  PROVE  MemoryInv'
BY DEF MemoryInv, MemoryBounded, OneSlotEach

LEMMA MemoryStep == MemoryInv /\ [MemoryNext]_memoryVars => MemoryInv'
<1> SUFFICES ASSUME MemoryInv, [MemoryNext]_memoryVars PROVE MemoryInv'
  OBVIOUS
<1>1. ASSUME NEW k \in MemoryKeys, memory' = Drop(memory, k) PROVE MemoryInv'
  <2>1. /\ Drop(memory, k) \in Seq(MemorySlots) /\ Len(Drop(memory, k)) <= Len(memory)
        /\ OneSlotEach(Drop(memory, k))
    BY MemoryFacts, DropSlots
  <2>2. Len(Drop(memory, k)) \in Nat BY <2>1, LenProperties
  <2>3. Len(Drop(memory, k)) <= L1Max BY <2>1, <2>2, MemoryFacts
  <2> QED BY <1>1, <2>1, <2>3, MemoryKept
<1>2. ASSUME NEW k \in MemoryKeys, HasKey(memory, k), memory' = Touch(memory, k) PROVE MemoryInv'
  <2>1. /\ Touch(memory, k) \in Seq(MemorySlots) /\ Len(Touch(memory, k)) = Len(memory)
        /\ OneSlotEach(Touch(memory, k))
    BY <1>2, MemoryFacts, TouchSlots
  <2> QED BY <1>2, <2>1, MemoryFacts, MemoryKept
<1>3. ASSUME NEW k \in MemoryKeys, NEW ttl \in MemoryTtls, MemorySet(k, ttl) PROVE MemoryInv'
  <2> DEFINE x == [key |-> k, left |-> ttl]
  <2>1. x \in MemorySlots BY MemoryAssumption DEF MemorySlots
  <2>2. memory' = Put(memory, x, L1Max) BY <1>3 DEF MemorySet
  <2> HIDE DEF x
  <2>3. /\ Put(memory, x, L1Max) \in Seq(MemorySlots) /\ Len(Put(memory, x, L1Max)) <= L1Max
        /\ OneSlotEach(Put(memory, x, L1Max))
    BY <2>1, MemoryFacts, MemoryAssumption, PutSlots
  <2> QED BY <2>2, <2>3, MemoryKept
<1>4. CASE MemoryClear
  <2>1. memory' = <<>> BY <1>4 DEF MemoryClear
  <2>2. memory' \in Seq(MemorySlots) /\ Len(memory') = 0 /\ DOMAIN memory' = {}
    BY <2>1, EmptySeq
  <2>3. OneSlotEach(memory') BY <2>2 DEF OneSlotEach
  <2> QED BY <2>2, <2>3, MemoryFacts, MemoryKept
<1>5. CASE EvictExpired
  <2> DEFINE live == {i \in DOMAIN memory : Live(memory[i])}
             n == Cardinality(live)
  <2>1. PICK at \in [1 .. n -> live] : /\ \A i, j \in 1 .. n : i < j => at[i] < at[j]
                                       /\ memory' = [i \in 1 .. n |-> memory[at[i]]]
    BY <1>5 DEF EvictExpired
  <2>2. n \in Nat /\ n <= Len(memory)
    <3>1. 1 \in Int /\ Len(memory) \in Int BY MemoryFacts
    <3>2. IsFiniteSet(1 .. Len(memory))
          /\ Cardinality(1 .. Len(memory)) = IF 1 > Len(memory) THEN 0 ELSE Len(memory) - 1 + 1
      BY <3>1, FS_Interval
    <3>3. Cardinality(1 .. Len(memory)) = Len(memory) BY <3>2, MemoryFacts
    <3>4. live \in SUBSET (1 .. Len(memory)) BY MemoryFacts
    <3>5. IsFiniteSet(live) /\ n <= Cardinality(1 .. Len(memory)) BY <3>2, <3>4, FS_Subset
    <3> QED BY <3>3, <3>5, FS_CardinalityType
  <2>3. \A i \in 1 .. n : at[i] \in DOMAIN memory /\ at[i] \in Int BY <2>1, MemoryFacts
  <2> HIDE DEF n, live
  <2>4. memory' \in [1 .. n -> MemorySlots] BY <2>1, <2>3, MemoryFacts
  <2>5. memory' \in Seq(MemorySlots) /\ Len(memory') = n BY <2>2, <2>4, FunctionIsSeq
  <2>6. OneSlotEach(memory')
    <3> SUFFICES ASSUME NEW i \in 1 .. n, NEW j \in 1 .. n, memory'[i].key = memory'[j].key
                 PROVE  i = j
      BY <2>4 DEF OneSlotEach
    <3>1. memory[at[i]].key = memory[at[j]].key BY <2>1
    <3>2. at[i] = at[j] BY <2>3, <3>1, MemoryFacts DEF OneSlotEach
    <3>3. ~(i < j) /\ ~(j < i) BY <2>1, <2>3, <3>2
    <3>4. i \in Int /\ j \in Int BY <2>2
    <3> QED BY <3>3, <3>4
  <2>7. Len(memory') <= L1Max BY <2>2, <2>5, MemoryFacts
  <2> QED BY <2>5, <2>6, <2>7, MemoryKept
<1>6. CASE MemoryTick
  <2> DEFINE older(x) == [x EXCEPT !.left = IF @ > 0 THEN @ - 1 ELSE 0]
  <2>1. memory' = [i \in 1 .. Len(memory) |-> older(memory[i])] BY <1>6, MemoryFacts DEF MemoryTick
  <2>2. \A i \in 1 .. Len(memory) :
          older(memory[i]) \in MemorySlots /\ older(memory[i]).key = memory[i].key
    BY MemoryFacts DEF MemorySlots
  <2> HIDE DEF older
  <2>3. memory' \in [1 .. Len(memory) -> MemorySlots] BY <2>1, <2>2
  <2>4. memory' \in Seq(MemorySlots) /\ Len(memory') = Len(memory)
    BY <2>3, MemoryFacts, FunctionIsSeq
  <2>5. OneSlotEach(memory') BY <2>1, <2>2, <2>3, MemoryFacts DEF OneSlotEach
  <2> QED BY <2>4, <2>5, MemoryFacts, MemoryKept
<1>7. CASE UNCHANGED memoryVars BY <1>7 DEF memoryVars, MemoryInv, MemoryBounded
<1>8. ASSUME NEW k \in MemoryKeys, MemoryGet(k) \/ MemoryExists(k) \/ MemoryDelete(k)
      PROVE  MemoryInv'
  BY <1>1, <1>2, <1>8 DEF MemoryGet, MemoryExists, MemoryDelete
<1> QED BY <1>3, <1>4, <1>5, <1>6, <1>7, <1>8 DEF MemoryNext

LEMMA MemoryInitially == MemoryInit => MemoryInv
<1> SUFFICES ASSUME memory = <<>> PROVE MemoryInv
  BY DEF MemoryInit
<1>1. memory \in Seq(MemorySlots) /\ Len(memory) = 0 /\ DOMAIN memory = {} BY EmptySeq
<1>2. L1Max \in Nat BY MemoryAssumption
<1> QED BY <1>1, <1>2 DEF MemoryInv, MemoryBounded

(***************************************************************************)
(* The guards together, as the run composes them.                          *)
(***************************************************************************)
GuardsInv == PoolInv /\ LimiterInv /\ RedisInv /\ MemoryInv

LEMMA GuardsStep == GuardsInv /\ [GuardsNext]_guardVars => GuardsInv'
<1> SUFFICES ASSUME GuardsInv, [GuardsNext]_guardVars PROVE GuardsInv'
  OBVIOUS
<1>1. /\ [PoolNext]_poolVars /\ [LimiterNext]_limiterVars /\ [RedisNext]_redisVars
      /\ [MemoryNext]_memoryVars
  BY DEF GuardsNext, guardVars
<1>2. PoolInv' BY <1>1, PoolStep DEF GuardsInv
<1>3. LimiterInv' BY <1>1, LimiterStep DEF GuardsInv
<1>4. RedisInv' BY <1>1, RedisStep DEF GuardsInv
<1>5. MemoryInv' BY <1>1, MemoryStep DEF GuardsInv
<1> QED BY <1>2, <1>3, <1>4, <1>5 DEF GuardsInv

\* Every guard keeps its shape: among the rest, a queued request has one future,
\* who waits for a permit stands in line once, and the memory level holds a key
\* in one slot and no more slots than max_size through any sequence of inserts,
\* overwrites, uses, expiries and sweeps.
THEOREM GuardsTypes == GuardsSpec => []GuardsTypeOK
<1>1. GuardsInit => GuardsInv
  BY PoolInitially, LimiterInitially, RedisInitially, MemoryInitially DEF GuardsInit, GuardsInv
<1>2. GuardsInv => GuardsTypeOK
  BY DEF GuardsInv, GuardsTypeOK, PoolInv, LimiterInv, RedisInv, MemoryInv
<1> QED BY <1>1, <1>2, GuardsStep, PTL DEF GuardsSpec
=============================================================================
