------------------------------ MODULE MCGuards ------------------------------
(***************************************************************************)
(* The guards of the outgoing calls, each on its own: the Groq pool, the   *)
(* rate limiter, the Redis level behind its breaker, the memory level.     *)
(* They share no state; part says which one a behaviour exercises.         *)
(***************************************************************************)
EXTENDS GroqPool, RateLimiter, RedisCache, MemoryCache

CONSTANTS c1, c2, fast, both      \* callers and models of the pool

MCRoleOf == [c \in Callers |-> IF c = c1 THEN "STRONG" ELSE "FAST"]
MCFastPool == <<fast, both>>
MCStrongPool == <<both>>

VARIABLE part

guardVars == <<part, poolVars, limiterVars, redisVars, memoryVars>>

GuardsInit ==
  /\ part \in {"pool", "limiter", "redis", "memory"}
  /\ PoolInit /\ LimiterInit /\ RedisInit /\ MemoryInit
  /\ (part = "pool" \/ active = both) /\ (part = "redis" \/ up)

GuardsNext ==
  /\ \/ part = "pool" /\ PoolNext /\ UNCHANGED <<limiterVars, redisVars, memoryVars>>
     \/ part = "limiter" /\ LimiterNext /\ UNCHANGED <<poolVars, redisVars, memoryVars>>
     \/ part = "redis" /\ RedisNext /\ UNCHANGED <<poolVars, limiterVars, memoryVars>>
     \/ part = "memory" /\ MemoryNext /\ UNCHANGED <<poolVars, limiterVars, redisVars>>
  /\ UNCHANGED part

(* PoolFairness, LimiterFairness and RedisFairness, each for the           *)
(* behaviours that exercise its part.                                      *)
GuardsFairness ==
  /\ \A w \in Workers : WF_poolVars(part = "pool" /\ WorkerStep(w))
  /\ WF_limiterVars(part = "limiter" /\ LimiterTick)
  /\ \A t \in Tasks : WF_limiterVars(part = "limiter" /\ TaskStep(t))
  /\ WF_redisVars(part = "redis" /\ ResetTick)
  /\ \A c \in Clients :
       /\ WF_redisVars(part = "redis" /\ Execute(c))
       /\ WF_redisVars(part = "redis" /\ Succeed(c))
       /\ WF_redisVars(part = "redis" /\ (Fail(c) \/ FailNestedSize(c)))
       /\ WF_redisVars(part = "redis" /\ \E k \in Keys : Start(c, "get", k))

GuardsSpec == GuardsInit /\ [][GuardsNext]_guardVars /\ GuardsFairness

\* The type invariants of the parts: a queued request has one future, a sleeping
\* task one nap, a breaker one state, a memory slot one key.
GuardsTypeOK == PoolTypeOK /\ LimiterTypeOK /\ RedisTypeOK /\ MemoryBounded
=============================================================================
