------------------------------ MODULE GroqPool ------------------------------
(***************************************************************************)
(* The Groq multi-model pool: callers put requests on a bounded queue,     *)
(* workers route each one to a model by cooldown, minute window and daily  *)
(* budget, and retry on another model when the provider throttles.         *)
(* Source: llm/providers/groq_model_pool.py, llm/providers/model_router.py,*)
(* llm/rate_limiter/rate_limit_tracker.py and rate_limit_state.py.         *)
(***************************************************************************)
EXTENDS Naturals, Sequences, FiniteSets, Functions

CONSTANTS
  Callers,      \* coroutines that call generate or chat
  RoleOf,       \* [Callers -> {"FAST", "STRONG"}], from max_tokens
  FastPool,     \* models in priority order (_FAST_POOL)
  StrongPool,   \* models in priority order (_STRONG_POOL)
  Workers,      \* worker tasks (_NUM_WORKERS)
  QueueMax,     \* _QUEUE_MAX_SIZE
  RpdLimit,     \* requests a model grants per day
  RpdGuard,     \* _RPD_GUARD
  TpdLimit,     \* tokens a model grants per day
  TpdGuard,     \* _TPD_GUARD
  EstTokens,    \* estimate for a call
  Costs,        \* tokens a response may report
  MaxDay,       \* bound: UTC midnights
  MaxExpiries,  \* bound: cooldowns that end
  None

Models == Range(FastPool) \cup Range(StrongPool)

ASSUME PoolAssumption ==
  /\ RoleOf \in [Callers -> {"FAST", "STRONG"}]
  /\ FastPool \in Seq(Models) /\ StrongPool \in Seq(Models) /\ StrongPool # <<>>
  /\ IsFiniteSet(Workers) /\ Workers # {}
  /\ QueueMax \in Nat \ {0}
  /\ {RpdLimit, RpdGuard, TpdLimit, TpdGuard, EstTokens, MaxDay, MaxExpiries} \subseteq Nat
  /\ RpdLimit > RpdGuard /\ TpdLimit > TpdGuard
  /\ RpdGuard + 1 >= Cardinality(Workers)
  /\ Costs \subseteq Nat
  /\ None \notin Models \cup Callers

VARIABLES
  queue,      \* callers whose request waits for a worker
  worker,     \* [Workers -> [pc, caller, model]]
  limits,     \* [Models -> what the tracker knows of the model]
  reply,      \* [Callers -> outcome of its last call, or "none"]
  active,     \* _active_model, reported as the pool's model_name
  today,      \* the UTC date
  expiries    \* cooldowns that have ended (bound only)

poolVars == <<queue, worker, limits, reply, active, today, expiries>>

Idle == [pc |-> "idle", caller |-> None, model |-> None]

(* window: no fresh headers, enough headroom left, or too little. *)
FreshLimits ==
  [window |-> "unknown", cooling |-> FALSE, rpd |-> 0, tpd |-> 0, date |-> 0]

PoolInit ==
  /\ queue = <<>>
  /\ worker = [w \in Workers |-> Idle]
  /\ limits = [m \in Models |-> FreshLimits]
  /\ reply = [c \in Callers |-> "none"]
  /\ active = StrongPool[1]
  /\ today = 0
  /\ expiries = 0

Pending == Range(queue) \cup ({worker[w].caller : w \in Workers} \ {None})

(* generate, chat: a full queue refuses the call at once. *)
Enqueue(c) ==
  /\ c \notin Pending
  /\ IF Len(queue) < QueueMax
       THEN /\ queue' = Append(queue, c)
            /\ reply' = [reply EXCEPT ![c] = "none"]
       ELSE /\ reply' = [reply EXCEPT ![c] = "rate_limited"]
            /\ UNCHANGED queue
  /\ UNCHANGED <<worker, limits, active, today, expiries>>

TakeItem(w) ==
  /\ worker[w].pc = "idle"
  /\ queue # <<>>
  /\ worker' = [worker EXCEPT ![w] = [@ EXCEPT !.pc = "routing", !.caller = Head(queue)]]
  /\ queue' = Tail(queue)
  /\ UNCHANGED <<limits, reply, active, today, expiries>>

\* Mutant. The daily ceiling without its guard.
RpdCeilingUnguarded == RpdLimit

RpdCeiling == RpdLimit - RpdGuard
TpdCeiling == TpdLimit - TpdGuard

IsModelAvailable(m) ==
  /\ ~limits[m].cooling
  /\ limits[m].window # "low"
  /\ limits[m].rpd < RpdCeiling
  /\ limits[m].tpd + EstTokens < TpdCeiling

(* The pool of the role first, in priority order, then the other one. *)
RouteOrder(role) == IF role = "FAST" THEN FastPool \o StrongPool ELSE StrongPool \o FastPool

(* ModelRouter.route: the places of the available models in that order. *)
Routable(role) == {i \in DOMAIN RouteOrder(role) : IsModelAvailable(RouteOrder(role)[i])}

Resolve(w, outcome) ==
  /\ reply' = [reply EXCEPT ![worker[w].caller] = outcome]
  /\ worker' = [worker EXCEPT ![w] = Idle]

RouteToModel(w) ==
  /\ worker[w].pc = "routing"
  /\ LET role == RoleOf[worker[w].caller]
     IN  \E best \in Routable(role) :
           /\ \A i \in Routable(role) : best <= i
           /\ worker' = [worker EXCEPT ![w].pc = "calling", ![w].model = RouteOrder(role)[best]]
  /\ UNCHANGED <<queue, limits, reply, active, today, expiries>>

RefuseExhausted(w) ==
  /\ worker[w].pc = "routing"
  /\ Routable(RoleOf[worker[w].caller]) = {}
  /\ Resolve(w, "rate_limited")
  /\ UNCHANGED <<queue, limits, active, today, expiries>>

(* _reset_daily_if_needed: runs only when a response is accounted for. *)
ResetDailyIfNeeded(r) ==
  IF r.date # today THEN [r EXCEPT !.rpd = 0, !.tpd = 0, !.date = today] ELSE r

\* Mutant. Any response clears the cooldown of its model.
AfterResponseClears(r, window, cost) ==
  LET s == ResetDailyIfNeeded(r)
  IN  [s EXCEPT !.window = window, !.rpd = @ + 1, !.tpd = @ + cost, !.cooling = FALSE]

(* update_from_headers and increment_daily. A response without usable      *)
(* headers leaves the window, an unparsed reset time makes it unknown. A   *)
(* cooldown is cleared only once it has expired.                           *)
AfterResponse(r, window, cost) ==
  LET s == ResetDailyIfNeeded(r)
  IN  [s EXCEPT !.window = window, !.rpd = @ + 1, !.tpd = @ + cost]

Respond(w) ==
  LET m == worker[w].model
  IN  /\ worker[w].pc = "calling"
      /\ \E window \in {limits[m].window, "unknown", "enough", "low"}, cost \in Costs :
           limits' = [limits EXCEPT ![m] = AfterResponse(@, window, cost)]
      /\ active' = m
      /\ Resolve(w, "answered")
      /\ UNCHANGED <<queue, today, expiries>>

(* A 429, a timeout, an unknown model, an empty completion or a request    *)
(* too large: the model cools down and the request is routed again.        *)
On429(w) ==
  LET m == worker[w].model
  IN  /\ worker[w].pc = "calling"
      /\ limits' = [limits EXCEPT ![m].cooling = TRUE,
                                  ![m].window = IF @ = "unknown" THEN @ ELSE "low"]
      /\ worker' = [worker EXCEPT ![w].pc = "routing", ![w].model = None]
      /\ UNCHANGED <<queue, reply, active, today, expiries>>

\* Mutant. A worker that drops the request when the provider fails.
ProviderErrorDropped(w) ==
  /\ worker[w].pc = "calling"
  /\ worker' = [worker EXCEPT ![w] = Idle]
  /\ UNCHANGED <<queue, limits, reply, active, today, expiries>>

ProviderError(w) ==
  /\ worker[w].pc = "calling"
  /\ Resolve(w, "provider_error")
  /\ UNCHANGED <<queue, limits, active, today, expiries>>

CooldownExpires(m) ==
  /\ limits[m].cooling
  /\ expiries < MaxExpiries
  /\ expiries' = expiries + 1
  /\ limits' = [limits EXCEPT ![m].cooling = FALSE]
  /\ UNCHANGED <<queue, worker, reply, active, today>>

MinuteWindowEnds(m) ==
  /\ limits[m].window # "unknown"
  /\ limits' = [limits EXCEPT ![m].window = "unknown"]
  /\ UNCHANGED <<queue, worker, reply, active, today, expiries>>

Midnight ==
  /\ today < MaxDay
  /\ today' = today + 1
  /\ UNCHANGED <<queue, worker, limits, reply, active, expiries>>

WorkerStep(w) == \/ TakeItem(w) \/ RouteToModel(w) \/ RefuseExhausted(w)
                 \/ Respond(w)  \/ On429(w)        \/ ProviderError(w)

PoolNext ==
  \/ \E c \in Callers : Enqueue(c)
  \/ \E w \in Workers : WorkerStep(w)
  \/ \E m \in Models : CooldownExpires(m) \/ MinuteWindowEnds(m)
  \/ Midnight

(* A worker is a loop that never ends, and a provider call has a timeout.  *)
PoolFairness == \A w \in Workers : WF_poolVars(WorkerStep(w))

PoolSpec == PoolInit /\ [][PoolNext]_poolVars /\ PoolFairness

(***************************************************************************)
(* Properties.                                                             *)
(***************************************************************************)
\* The state of the pool has its type, and a worker that calls the provider
\* calls one of the pool's models.
PoolTypeOK ==
  /\ queue \in Seq(Callers)
  /\ worker \in [Workers -> [pc : {"idle", "routing", "calling"},
                             caller : Callers \cup {None}, model : Models \cup {None}]]
  /\ limits \in [Models -> [window : {"unknown", "enough", "low"}, cooling : BOOLEAN,
                            rpd : Nat, tpd : Nat, date : Nat]]
  /\ reply \in [Callers -> {"none", "answered", "rate_limited", "provider_error"}]
  /\ active \in Models
  /\ today \in Nat /\ expiries \in Nat
  /\ \A w \in Workers : worker[w].pc = "calling" => worker[w].model \in Models

(* Calls to m that a worker has sent and that are not accounted for yet. *)
CallingModel(m) == {w \in Workers : worker[w].pc = "calling" /\ worker[w].model = m}

\* The daily counter of a model never passes the provider's limit, although
\* several workers pass the check before one of them is accounted for: the
\* guard of the router (_RPD_GUARD) covers the calls under way.
DailyBudgetKept == \A m \in Models : limits[m].rpd <= RpdLimit

\* The pool gives every accepted call one outcome, whatever the provider
\* does, and refuses a call at once only when QueueMax calls are pending.
Service == INSTANCE LLMService
  WITH pending <- Pending, outcome <- reply,
       Backlog <- QueueMax, Limit <- QueueMax + Cardinality(Workers)
ImplementsService == Service!Spec

\* A response that arrives late, from a call sent before another worker was
\* throttled, does not lift the model's cooldown.
CooldownOutlivesSuccess ==
  [][\A m \in Models : limits[m].rpd # limits'[m].rpd /\ limits[m].cooling
                         => limits'[m].cooling]_poolVars
=============================================================================
