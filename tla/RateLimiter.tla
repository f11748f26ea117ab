---------------------------- MODULE RateLimiter ----------------------------
(***************************************************************************)
(* The rate limiter around the fallback and the request-scoped language    *)
(* models: a semaphore, then a token bucket per minute and one per day.    *)
(* Source: llm/rate_limiter/llm_rate_limiter.py, token_bucket.py.          *)
(*                                                                         *)
(* A bucket gains one unit per tick and a token is Period units, so that   *)
(* the fractions of a token the code accumulates are whole units here.     *)
(***************************************************************************)
EXTENDS Integers, Sequences, FiniteSets

CONSTANTS
  Tasks,           \* coroutines that call generate or chat
  MaxConcurrent,   \* permits of the semaphore
  RpmCapacity, RpmPeriod,   \* tokens held, units per token
  RpdCapacity, RpdPeriod,
  Credit,          \* units of the per-minute bucket the observer grants per tick
  Burst            \* tokens the observer lets pass at once

ASSUME LimiterAssumption ==
  {MaxConcurrent, RpmCapacity, RpmPeriod, RpdCapacity, RpdPeriod, Credit, Burst} \subseteq Nat \ {0}

VARIABLES
  line,        \* tasks that wait for a permit, in order
  stage,       \* [Tasks -> where the task is]
  naps,        \* [Tasks -> ticks its sleep still lasts]
  tokens,      \* [Buckets -> units held]
  allowance    \* units the observer has left; each token passed costs RpmPeriod

limiterVars == <<line, stage, naps, tokens, allowance>>

Buckets == {"rpm", "rpd"}
Period == [b \in Buckets |-> IF b = "rpm" THEN RpmPeriod ELSE RpdPeriod]
Full == [b \in Buckets |-> Period[b] * (IF b = "rpm" THEN RpmCapacity ELSE RpdCapacity)]

(* A stage is idle, queued, calling, or a bucket to acquire or sleep on. *)
Acquiring(b) == <<"acquire", b>>
Asleep(b) == <<"asleep", b>>
Idling == <<"idle">>
Queued == <<"queued">>
Calling == <<"calling">>

LimiterInit ==
  /\ line = <<>>
  /\ stage = [t \in Tasks |-> Idling]
  /\ naps = [t \in Tasks |-> 0]
  /\ tokens = Full
  /\ allowance = Burst * RpmPeriod

Holders == {t \in Tasks : stage[t] \notin {Idling, Queued}}
Lesser(x, y) == IF x < y THEN x ELSE y

Arrive(t) ==
  /\ stage[t] = Idling
  /\ stage' = [stage EXCEPT ![t] = Queued]
  /\ line' = Append(line, t)
  /\ UNCHANGED <<naps, tokens, allowance>>

\* Mutant. The semaphore is missing.
AdmitAll(t) ==
  /\ line # <<>> /\ t = Head(line)
  /\ line' = Tail(line)
  /\ stage' = [stage EXCEPT ![t] = Acquiring("rpm")]
  /\ UNCHANGED <<naps, tokens, allowance>>

Admit(t) ==
  /\ line # <<>> /\ t = Head(line)
  /\ Cardinality(Holders) < MaxConcurrent
  /\ line' = Tail(line)
  /\ stage' = [stage EXCEPT ![t] = Acquiring("rpm")]
  /\ UNCHANGED <<naps, tokens, allowance>>

(* _throttle: the bucket of the minute, then that of the day, then the call. *)
Pass(t, b) ==
  /\ stage' = [stage EXCEPT ![t] = IF b = "rpm" THEN Acquiring("rpd") ELSE Calling]
  /\ allowance' = IF b = "rpm" THEN allowance - Period[b] ELSE allowance

TakeToken(t, b) ==
  /\ stage[t] = Acquiring(b)
  /\ tokens[b] >= Period[b]
  /\ tokens' = [tokens EXCEPT ![b] = @ - Period[b]]
  /\ Pass(t, b)
  /\ UNCHANGED <<line, naps>>

FallAsleep(t, b) ==
  /\ stage[t] = Acquiring(b)
  /\ tokens[b] < Period[b]
  /\ stage' = [stage EXCEPT ![t] = Asleep(b)]
  /\ naps' = [naps EXCEPT ![t] = Period[b] - tokens[b]]
  /\ UNCHANGED <<line, tokens, allowance>>

\* Mutant. A sleeper that finds its token gone starts over.
WakeUpRecheck(t, b) ==
  /\ stage[t] = Asleep(b)
  /\ naps[t] = 0
  /\ IF tokens[b] >= Period[b]
       THEN /\ tokens' = [tokens EXCEPT ![b] = @ - Period[b]]
            /\ Pass(t, b)
       ELSE /\ stage' = [stage EXCEPT ![t] = Acquiring(b)]
            /\ UNCHANGED <<tokens, allowance>>
  /\ UNCHANGED <<line, naps>>

(* A sleeper passes whether or not the token it slept for is still there. *)
WakeUp(t, b) ==
  /\ stage[t] = Asleep(b)
  /\ naps[t] = 0
  /\ tokens' = [tokens EXCEPT ![b] = IF @ < Period[b] THEN 0 ELSE @ - Period[b]]
  /\ Pass(t, b)
  /\ UNCHANGED <<line, naps>>

CallEnds(t) ==
  /\ stage[t] = Calling
  /\ stage' = [stage EXCEPT ![t] = Idling]
  /\ UNCHANGED <<line, naps, tokens, allowance>>

LimiterTick ==
  /\ tokens' = [b \in Buckets |-> Lesser(tokens[b] + 1, Full[b])]
  /\ naps' = [t \in Tasks |-> IF naps[t] > 0 THEN naps[t] - 1 ELSE 0]
  /\ allowance' = Lesser(allowance + Credit, Burst * RpmPeriod)
  /\ UNCHANGED <<line, stage>>

TaskStep(t) ==
  \/ Admit(t)
  \/ \E b \in Buckets : TakeToken(t, b) \/ FallAsleep(t, b) \/ WakeUp(t, b)
  \/ CallEnds(t)

LimiterNext == LimiterTick \/ \E t \in Tasks : Arrive(t) \/ TaskStep(t)

(* Time passes; a task that can run runs; a provider call has a timeout. *)
LimiterFairness == /\ WF_limiterVars(LimiterTick)
                   /\ \A t \in Tasks : WF_limiterVars(TaskStep(t))

LimiterSpec == LimiterInit /\ [][LimiterNext]_limiterVars /\ LimiterFairness

(***************************************************************************)
(* Properties.                                                             *)
(***************************************************************************)
\* The type invariant; who waits in line is queued, and only a sleeper naps.
LimiterTypeOK ==
  /\ {t \in Tasks : stage[t] = Queued} = {line[i] : i \in DOMAIN line}
  /\ stage \in [Tasks -> {Idling, Queued, Calling} \cup {Acquiring(b) : b \in Buckets}
                         \cup {Asleep(b) : b \in Buckets}]
  /\ \A t \in Tasks : naps[t] > 0 => stage[t] \in {Asleep(b) : b \in Buckets}
  /\ \A b \in Buckets : tokens[b] \in 0 .. Full[b]
  /\ allowance \in Int

\* Over any period the limiter lets no more calls pass than a bucket of Burst
\* tokens that gains Credit per tick: the configured rate when Credit = 1, and
\* MaxConcurrent times that rate when Credit = MaxConcurrent, which is what as
\* many sleepers as the semaphore admits reach by passing on the same token.
RateKept == allowance >= 0

\* Every queued call is let through: a sleeper needs no second token check, so
\* later arrivals cannot overtake it for ever.
EveryCallPasses == \A t \in Tasks : stage[t] = Queued ~> stage[t] = Calling
=============================================================================
