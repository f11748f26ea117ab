---------------------------- MODULE QueryServing ----------------------------
(***************************************************************************)
(* Requests that ask the same question at the same time: coalescing on     *)
(* in-flight entries, the agent path, the direct path and the fallback     *)
(* model, over a cache any entry may leave at any time.                    *)
(* Source: pipeline/rag_pipeline.py, rag/base_rag.py,                      *)
(* cache/cache_manager.py (get_or_wait, resolve_in_flight).                *)
(*                                                                         *)
(* A cache key is made from the path's prompt and the name of the model    *)
(* the pool reports at that moment, which the last answer changes.         *)
(***************************************************************************)
EXTENDS Naturals, FiniteSets

CONSTANTS
  Requests,     \* requests under way at most; one that ended may ask again
  PoolModels,   \* models the primary client may report and use
  Spare,        \* model of the fallback client
  MaxAsks       \* bound: queries asked

ASSUME ServingAssumption == Spare \notin PoolModels /\ MaxAsks \in Nat

VARIABLES
  agentic,      \* the question is decomposed (the same for all requests)
  current,      \* model_name of the primary client
  req,          \* [Requests -> [pc, path, key, alone, kind]]; alone: computes
                \* without an entry of its own
  inFlight,     \* keys of _in_flight, the events not yet set
  cached,       \* set of [key, kind]
  asks          \* queries asked so far (bound only)

servingVars == <<agentic, current, req, inFlight, cached, asks>>

Paths == {"agent", "rag", "fallback"}
Prompt(path) == IF path = "agent" THEN "agent" ELSE "plain"
ServingKeys == {"agent", "plain"} \X (PoolModels \cup {Spare})
NoKeyYet == <<"plain", Spare>>
At(pc) == [pc |-> pc, path |-> "rag", key |-> NoKeyYet, alone |-> FALSE, kind |-> "none"]

ModelOf(path) == IF path = "fallback" THEN Spare ELSE current
KeyNow(r) == <<Prompt(req[r].path), ModelOf(req[r].path)>>

ServingInit ==
  /\ agentic \in BOOLEAN
  /\ current \in PoolModels
  /\ req = [r \in Requests |-> At("idle")]
  /\ inFlight = {}
  /\ cached = {}
  /\ asks = 0

(* The request goes on, on a path, from its cache read. *)
Takes(r, path) == req' = [req EXCEPT ![r] = [At("read") EXCEPT !.path = path]]

ThenResolve(r) == req' = [req EXCEPT ![r] = [At("resolve") EXCEPT !.path = req[r].path]]
Finish(r) == req' = [req EXCEPT ![r] = At("idle")]

(* query, _execute_query: the routing is a function of the question. *)
Ask(r) ==
  /\ req[r].pc = "idle"
  /\ asks < MaxAsks /\ asks' = asks + 1
  /\ Takes(r, IF agentic THEN "agent" ELSE "rag")
  /\ UNCHANGED <<agentic, current, inFlight, cached>>

(* get_or_wait, the lookup. The key is that of the model named now.        *)
Read(r) ==
  LET k == KeyNow(r)
      hits == {x \in cached : x.key = k}
  IN  /\ req[r].pc = "read"
      /\ IF hits # {} THEN Finish(r)
         ELSE req' = [req EXCEPT ![r].pc = "lock", ![r].key = k]
      /\ UNCHANGED <<agentic, current, inFlight, cached, asks>>

\* Mutant. Every miss registers an event of its own.
JoinNever(r) ==
  LET k == req[r].key
  IN  /\ req[r].pc = "lock"
      /\ req' = [req EXCEPT ![r].pc = "work"]
      /\ inFlight' = inFlight \cup {k}
      /\ UNCHANGED <<agentic, current, cached, asks>>

(* Under the lock: the first to miss leads, the others wait for its event. *)
Join(r) ==
  LET k == req[r].key
  IN  /\ req[r].pc = "lock"
      /\ IF k \notin inFlight
           THEN /\ req' = [req EXCEPT ![r].pc = "work"]
                /\ inFlight' = inFlight \cup {k}
           ELSE /\ req' = [req EXCEPT ![r].pc = "wait"]
                /\ UNCHANGED inFlight
      /\ UNCHANGED <<agentic, current, cached, asks>>

\* Mutant. The wait has no timeout.
TimeOutNever(r) == FALSE /\ UNCHANGED servingVars

(* wait_for: the event was not set in time; the request computes alone.    *)
TimeOut(r) ==
  /\ req[r].pc = "wait"
  /\ req' = [req EXCEPT ![r].pc = "work", ![r].alone = TRUE]
  /\ UNCHANGED <<agentic, current, inFlight, cached, asks>>

(* The event was set: the cache is read again, under the same key.         *)
ReadAgain(r) ==
  LET hits == {x \in cached : x.key = req[r].key}
  IN  /\ req[r].pc = "woken"
      /\ IF hits # {} THEN Finish(r)
         ELSE req' = [req EXCEPT ![r].pc = "work"]
      /\ UNCHANGED <<agentic, current, inFlight, cached, asks>>

Answers(r, kind) ==
  req' = [req EXCEPT ![r] = [At("write") EXCEPT !.path = req[r].path, !.kind = kind]]

(* execute or generate. The model that answers becomes the one the primary *)
(* client reports.                                                         *)
Generate(r) ==
  /\ req[r].pc = "work"
  /\ Answers(r, "answer")
  /\ IF req[r].path = "fallback" THEN UNCHANGED current ELSE current' \in PoolModels
  /\ UNCHANGED <<agentic, inFlight, cached, asks>>

(* An answer the quality gate is going to refuse.                          *)
GenerateRefusal(r) ==
  /\ req[r].pc = "work"
  /\ Answers(r, "refusal")
  /\ IF req[r].path = "fallback" THEN UNCHANGED current ELSE current' \in PoolModels
  /\ UNCHANGED <<agentic, inFlight, cached, asks>>

(* The synthesis of the agent path falls back to the spare model itself.   *)
SynthesizeSpare(r) ==
  /\ req[r].pc = "work" /\ req[r].path = "agent"
  /\ Answers(r, "answer")
  /\ UNCHANGED <<agentic, current, inFlight, cached, asks>>

(* Neither model synthesizes: the degraded answer goes on to be written.   *)
SynthesizeNothing(r) ==
  /\ req[r].pc = "work" /\ req[r].path = "agent"
  /\ Answers(r, "stub")
  /\ UNCHANGED <<agentic, current, inFlight, cached, asks>>

(* AgentError: the same request goes on with the direct path.              *)
AgentFails(r) ==
  /\ req[r].pc = "work" /\ req[r].path = "agent"
  /\ Takes(r, "rag")
  /\ UNCHANGED <<agentic, current, inFlight, cached, asks>>

(* _handle_fallback: a RAGError, RAGContextError included, or a timeout.   *)
FallBack(r) ==
  /\ req[r].pc = "work" /\ req[r].path # "fallback"
  /\ Takes(r, "fallback")
  /\ UNCHANGED <<agentic, current, inFlight, cached, asks>>

(* Any other error, or any error of the fallback, ends the query.          *)
Abort(r) ==
  /\ req[r].pc = "work" /\ req[r].path # "agent"
  /\ Finish(r)
  /\ UNCHANGED <<agentic, current, inFlight, cached, asks>>

Store(r, kind) ==
  cached' = {x \in cached : x.key # KeyNow(r)} \cup {[key |-> KeyNow(r), kind |-> kind]}

\* Mutant. A degraded answer is written like any other.
WriteDegraded(r) ==
  /\ req[r].pc = "write" /\ req[r].kind = "stub"
  /\ ThenResolve(r)
  /\ Store(r, "stub")
  /\ UNCHANGED <<agentic, current, inFlight, asks>>

(* _try_agent_cache_write: a degraded answer is neither written nor resolved. *)
SkipWrite(r) ==
  /\ req[r].pc = "write" /\ req[r].kind = "stub"
  /\ Finish(r)
  /\ UNCHANGED <<agentic, current, inFlight, cached, asks>>

(* _try_cache_write, _try_agent_cache_write: set, behind the quality gate. *)
WriteAnswer(r) ==
  /\ req[r].pc = "write" /\ req[r].kind # "stub"
  /\ ThenResolve(r)
  /\ IF req[r].kind = "answer" THEN Store(r, "answer") ELSE UNCHANGED cached
  /\ UNCHANGED <<agentic, current, inFlight, asks>>

(* resolve_in_flight: the event of the key that holds now, whoever made it.*)
Resolve(r) ==
  LET k == KeyNow(r)
  IN  /\ req[r].pc = "resolve"
      /\ req' = [s \in Requests |->
           IF s = r THEN At("idle")
           ELSE IF req[s].pc = "wait" /\ req[s].key = k
             THEN [req[s] EXCEPT !.pc = "woken", !.alone = TRUE]
           ELSE IF req[s].pc = "work" /\ req[s].key = k
             THEN [req[s] EXCEPT !.alone = TRUE]
           ELSE req[s]]
      /\ inFlight' = inFlight \ {k}
      /\ UNCHANGED <<agentic, current, cached, asks>>

(* Expiry, eviction or invalidation. *)
Expire == /\ \E x \in cached : cached' = cached \ {x}
          /\ UNCHANGED <<agentic, current, req, inFlight, asks>>

RequestStep(r) ==
  \/ Read(r) \/ Join(r) \/ TimeOut(r) \/ ReadAgain(r)
  \/ Generate(r) \/ GenerateRefusal(r) \/ SynthesizeSpare(r) \/ SynthesizeNothing(r)
  \/ AgentFails(r) \/ FallBack(r) \/ Abort(r)
  \/ SkipWrite(r) \/ WriteAnswer(r) \/ Resolve(r)

ServingNext == Expire \/ \E r \in Requests : Ask(r) \/ RequestStep(r)

(* Every await of a query has a timeout. *)
ServingFairness == \A r \in Requests : WF_servingVars(RequestStep(r))

ServingSpec == ServingInit /\ [][ServingNext]_servingVars /\ ServingFairness

(***************************************************************************)
(* Properties.                                                             *)
(***************************************************************************)
Computing(r) == req[r].pc = "work"

\* Of the requests that missed under one key, one computes: a second one does
\* so only after it waited, or after the entry of the first was released by a
\* request that did not lead it.
SingleFlight ==
  \A r, s \in Requests :
    r # s /\ Computing(r) /\ Computing(s) /\ req[r].key = req[s].key
      => req[r].alone \/ req[s].alone

\* Every query ends, whatever its leader did: the entry a failed leader leaves
\* behind delays the others by their timeout and no more.
EveryQueryEnds == \A r \in Requests : req[r].pc = "read" ~> req[r].pc = "idle"

\* The type invariant. Nothing but an accepted answer is ever cached: refusals,
\* degraded answers and errors stay with the request that met them.
ServingTypeOK ==
  /\ agentic \in BOOLEAN /\ current \in PoolModels
  /\ req \in [Requests ->
       [pc : {"idle", "read", "lock", "work", "wait", "woken", "write", "resolve"},
        path : Paths, key : ServingKeys, alone : BOOLEAN,
        kind : {"none", "answer", "refusal", "stub"}]]
  /\ inFlight \subseteq ServingKeys
  /\ cached \subseteq [key : ServingKeys, kind : {"answer"}]
  /\ asks \in 0 .. MaxAsks
=============================================================================
