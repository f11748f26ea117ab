----------------------------- MODULE RedisCache -----------------------------
(***************************************************************************)
(* The Redis cache level behind its circuit breaker: overlapping calls of  *)
(* several coroutines to a server that goes down and comes back.           *)
(* Source: cache/backend/redis_backend.py, cache/backend/circuit_breaker.py*)
(***************************************************************************)
EXTENDS Naturals, FiniteSets

CONSTANTS
  Clients,      \* coroutines that use the cache level
  Keys,         \* cache keys
  Threshold,    \* failure_threshold
  ResetTime     \* reset_seconds, in ticks

ASSUME RedisAssumption ==
  /\ IsFiniteSet(Clients) /\ Clients # {} /\ Keys # {}
  /\ Threshold \in Nat \ {0} /\ ResetTime \in Nat \ {0}

VARIABLES
  up,        \* the server answers
  ready,     \* _initialized
  stored,    \* keys the server holds
  op,        \* [Clients -> [pc, kind, key]]
  circuit,   \* [state, failures, since]: since the last failure, in ticks
  wasted     \* failed calls, pings apart, since a recorded success or a reset period

redisVars == <<up, ready, stored, op, circuit, wasted>>

(* get, exists, size and scan_recent_keys only read; ping asks no breaker; *)
(* info is the first half of stats, whose second half is a nested size.    *)
Reads == {"get", "exists", "size", "scan"}
Kinds == Reads \cup {"set", "set_no_ttl", "delete", "clear", "ping", "info", "info_size"}

Free(k) == [pc |-> "idle", kind |-> "get", key |-> k]

RedisInit ==
  /\ up \in BOOLEAN
  /\ ready = FALSE
  /\ stored = {}
  /\ op = [c \in Clients |-> Free(CHOOSE k \in Keys : TRUE)]
  /\ circuit = [state |-> "CLOSED", failures |-> 0, since |-> ResetTime]
  /\ wasted = 0

(* initialize pings the server; without it the manager runs without L2. *)
Connect ==
  /\ ~ready /\ up
  /\ ready' = TRUE
  /\ UNCHANGED <<up, stored, op, circuit, wasted>>

Disconnect ==
  /\ ready
  /\ \A c \in Clients : op[c].pc = "idle"
  /\ ready' = FALSE
  /\ UNCHANGED <<up, stored, op, circuit, wasted>>

(* CircuitBreaker.state: an open circuit becomes half open by being read. *)
Observed == IF circuit.state = "OPEN" /\ circuit.since >= ResetTime
              THEN [circuit EXCEPT !.state = "HALF_OPEN"] ELSE circuit

(* allow_request: HALF_OPEN lets every caller through. *)
Allows == Observed.state # "OPEN"

RecordSuccess == [circuit EXCEPT !.state = "CLOSED", !.failures = 0]

\* Mutant. record_failure without its HALF_OPEN branch.
RecordFailureClosedOnly ==
  LET failures == IF circuit.failures < Threshold THEN circuit.failures + 1 ELSE Threshold
      trips == circuit.state = "CLOSED" /\ failures >= Threshold
  IN  [state |-> IF trips THEN "OPEN" ELSE circuit.state,
       failures |-> failures, since |-> 0]

(* record_failure: restarts the timer in every state; only a closed or a   *)
(* half open circuit trips. The counter is cut at Threshold, past which it *)
(* is compared with nothing else.                                          *)
RecordFailure ==
  LET failures == IF circuit.failures < Threshold THEN circuit.failures + 1 ELSE Threshold
      trips == \/ circuit.state = "HALF_OPEN"
               \/ circuit.state = "CLOSED" /\ failures >= Threshold
  IN  [state |-> IF trips THEN "OPEN" ELSE circuit.state,
       failures |-> failures, since |-> 0]

\* Mutant. A rejected request counts as a failure and restarts the timer.
ObserveRestarts ==
  /\ circuit' = IF Observed.state = "OPEN" THEN [circuit EXCEPT !.since = 0] ELSE Observed
  /\ wasted' = IF Observed.state # circuit.state THEN 0 ELSE wasted

Observe == /\ circuit' = Observed
           /\ wasted' = IF Observed.state # circuit.state THEN 0 ELSE wasted

Sent(c, kind, k) == op' = [op EXCEPT ![c] = [pc |-> "sent", kind |-> kind, key |-> k]]

(* The start of a public method. A rejected call answers as a miss, and a  *)
(* set without a TTL ends before the network.                              *)
Start(c, kind, k) ==
  /\ ready
  /\ op[c].pc = "idle"
  /\ kind # "info_size"
  /\ IF kind = "ping" THEN UNCHANGED <<circuit, wasted>> ELSE Observe
  /\ IF kind = "ping" \/ (Allows /\ kind # "set_no_ttl")
       THEN Sent(c, kind, k) ELSE UNCHANGED op
  /\ UNCHANGED <<up, ready, stored>>

(* The server executes the command. *)
Execute(c) ==
  LET o == op[c]
  IN  /\ o.pc = "sent"
      /\ up
      /\ stored' = CASE o.kind = "set" -> stored \cup {o.key}
                     [] o.kind = "delete" -> stored \ {o.key}
                     [] o.kind = "clear" -> {}
                     [] OTHER -> stored
      /\ op' = [op EXCEPT ![c].pc = "executed"]
      /\ UNCHANGED <<up, ready, circuit, wasted>>

(* The reply arrives: record_success. stats goes on with size(), which asks*)
(* the breaker again and is skipped when it refuses.                       *)
Succeed(c) ==
  /\ op[c].pc = "executed"
  /\ IF op[c].kind = "info" /\ Allows
       THEN /\ Observe
            /\ Sent(c, "info_size", op[c].key)
       ELSE /\ circuit' = RecordSuccess
            /\ wasted' = 0
            /\ op' = [op EXCEPT ![c] = Free(@.key)]
  /\ UNCHANGED <<up, ready, stored>>

(* No reply while the server is down, whether or not the command was       *)
(* executed: record_failure.                                               *)
Fail(c) ==
  /\ op[c].pc \in {"sent", "executed"}
  /\ op[c].kind # "info_size"
  /\ ~up
  /\ circuit' = RecordFailure
  /\ wasted' = IF op[c].kind = "ping" THEN wasted ELSE wasted + 1
  /\ op' = [op EXCEPT ![c] = Free(@.key)]
  /\ UNCHANGED <<up, ready, stored>>

(* stats: the nested size() swallows its own failure and answers -1, and   *)
(* stats records a success after it.                                       *)
FailNestedSize(c) ==
  /\ op[c].pc \in {"sent", "executed"}
  /\ op[c].kind = "info_size"
  /\ ~up
  /\ circuit' = [RecordFailure EXCEPT !.state = "CLOSED", !.failures = 0]
  /\ wasted' = 0
  /\ op' = [op EXCEPT ![c] = Free(@.key)]
  /\ UNCHANGED <<up, ready, stored>>

ServerChanges ==
  /\ up' = ~up
  /\ UNCHANGED <<ready, stored, op, circuit, wasted>>

(* setex: the server drops a key at the end of its TTL. *)
Expires(k) ==
  /\ k \in stored
  /\ stored' = stored \ {k}
  /\ UNCHANGED <<up, ready, op, circuit, wasted>>

ResetTick ==
  /\ circuit.since < ResetTime
  /\ circuit' = [circuit EXCEPT !.since = @ + 1]
  /\ UNCHANGED <<up, ready, stored, op, wasted>>

RedisNext ==
  \/ Connect \/ Disconnect \/ ServerChanges \/ ResetTick
  \/ \E k \in Keys : Expires(k)
  \/ \E c \in Clients :
       \/ \E kind \in Kinds, k \in Keys : Start(c, kind, k)
       \/ Execute(c) \/ Succeed(c) \/ Fail(c) \/ FailNestedSize(c)

(* Time passes, a call has a socket timeout, and lookups keep coming. *)
RedisFairness ==
  /\ WF_redisVars(ResetTick)
  /\ \A c \in Clients :
       /\ WF_redisVars(Execute(c))
       /\ WF_redisVars(Succeed(c))
       /\ WF_redisVars(Fail(c) \/ FailNestedSize(c))
       /\ WF_redisVars(\E k \in Keys : Start(c, "get", k))

RedisSpec == RedisInit /\ [][RedisNext]_redisVars /\ RedisFairness

(***************************************************************************)
(* Properties.                                                             *)
(***************************************************************************)
\* The state has its type, and a closed circuit is always short of its
\* threshold, whichever calls end late.
RedisTypeOK ==
  /\ up \in BOOLEAN /\ ready \in BOOLEAN
  /\ stored \subseteq Keys
  /\ op \in [Clients -> [pc : {"idle", "sent", "executed"}, kind : Kinds, key : Keys]]
  /\ circuit \in [state : {"CLOSED", "OPEN", "HALF_OPEN"},
                  failures : 0 .. Threshold, since : 0 .. ResetTime]
  /\ wasted \in Nat
  /\ circuit.state = "CLOSED" => circuit.failures < Threshold

\* A server that is down costs a bounded number of failed calls per reset
\* period, although several calls pass the breaker before the first of them
\* fails and HALF_OPEN lets every caller through. Pings ask no breaker.
OutageCostBounded == wasted < Threshold + Cardinality(Clients)

\* Once the server stays up, the circuit ends up closed: failures of calls
\* under way restart the timer of an open circuit, but not for ever.
CircuitRecovers == <>[](up /\ ready) => <>[](circuit.state = "CLOSED")
=============================================================================
