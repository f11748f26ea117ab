--------------------------- MODULE AgentExecution ---------------------------
(***************************************************************************)
(* Executions of the agent orchestrator: a plan of sub-queries, retrieved  *)
(* concurrently under a semaphore the executions share, classified, the    *)
(* weak ones rewritten and retrieved once more, then fused and answered.   *)
(* Source: agents/agent_orchestrator.py, agents/retriever/                 *)
(* chunk_retriever.py, agents/quality/chunk_quality_gate.py,               *)
(* agents/planner/query_planner.py.                                        *)
(*                                                                         *)
(* What a retrieval found is one of: strong or weak (chunks the gate calls *)
(* so), empty (a success without chunks), error.                           *)
(***************************************************************************)
EXTENDS Naturals, FiniteSets

CONSTANTS
  Executions,
  MaxSubQueries,    \* _MAX_SUB_QUERIES
  MaxConcurrent     \* permits of the retriever's semaphore

ASSUME AgentAssumption ==
  MaxSubQueries \in Nat /\ MaxSubQueries >= 2 /\ MaxConcurrent \in Nat \ {0}

VARIABLES
  stage,        \* [Executions -> where execute() is]
  sub           \* [Executions -> [SubQueries -> [pc, found]]]

agentVars == <<stage, sub>>

SubQueries == 1 .. MaxSubQueries
Outcomes == {"strong", "weak", "empty", "error"}
Unplanned == [pc |-> "absent", found |-> "none"]

AgentInit ==
  /\ stage = [e \in Executions |-> "planning"]
  /\ sub = [e \in Executions |-> [i \in SubQueries |-> Unplanned]]

Planned(e) == {i \in SubQueries : sub[e][i].pc # "absent"}
AllDone(e) == \A i \in Planned(e) : sub[e][i].pc = "done"
Searching == {s \in Executions \X SubQueries :
                stage[s[1]] = "retrieving" /\ sub[s[1]][s[2]].pc = "running"}

(* plan: an unreadable answer gives one sub-query, a readable one at least *)
(* two and at most the maximum.                                            *)
Plan(e) ==
  /\ stage[e] = "planning"
  /\ \E n \in SubQueries :
       sub' = [sub EXCEPT ![e] = [i \in SubQueries |->
                 IF i <= n THEN [pc |-> "waiting", found |-> "none"] ELSE Unplanned]]
  /\ stage' = [stage EXCEPT ![e] = "retrieving"]

PlanFails(e) ==
  /\ stage[e] = "planning"
  /\ stage' = [stage EXCEPT ![e] = "unplanned"]
  /\ UNCHANGED sub

(* A first retrieval needs a permit, a second one does not ask for any.    *)
StartSearch(e, i) ==
  /\ sub[e][i].pc = "waiting"
  /\ \/ stage[e] = "retrieving" /\ Cardinality(Searching) < MaxConcurrent
     \/ stage[e] = "refetching"
  /\ sub' = [sub EXCEPT ![e][i].pc = "running"]
  /\ UNCHANGED stage

\* Mutant. A search that fails reports nothing.
EndSearchOrHang(e, i) ==
  /\ sub[e][i].pc = "running"
  /\ \E found \in Outcomes :
       sub' = [sub EXCEPT ![e][i] = [pc |-> IF found = "error" THEN "lost" ELSE "done", found |-> found]]
  /\ UNCHANGED stage

(* retrieve_one answers with a failure instead of raising.                 *)
EndSearch(e, i) ==
  /\ sub[e][i].pc = "running"
  /\ \E found \in Outcomes : sub' = [sub EXCEPT ![e][i] = [pc |-> "done", found |-> found]]
  /\ UNCHANGED stage

Weak(e) == {i \in Planned(e) : sub[e][i].found = "weak"}

(* _rewrite_and_refetch_weak: the rewritings that succeed and change the   *)
(* query lead to a second retrieval; the others keep what was found.       *)
Evaluate(e) ==
  /\ stage[e] = "retrieving" /\ AllDone(e)
  /\ \E rewritten \in SUBSET Weak(e) :
       /\ sub' = [sub EXCEPT ![e] = [i \in SubQueries |->
                    IF i \in rewritten THEN [sub[e][i] EXCEPT !.pc = "waiting"]
                    ELSE IF sub[e][i].found = "empty" THEN [sub[e][i] EXCEPT !.found = "error"]
                    ELSE sub[e][i]]]
       /\ stage' = [stage EXCEPT ![e] = "refetching"]

\* Mutant. A success without chunks is taken for one with chunks.
AnySuccessOnly(e) == \E i \in Planned(e) : sub[e][i].found # "error"

AnySuccess(e) == \E i \in Planned(e) : sub[e][i].found \in {"strong", "weak"}

(* The second retrieval replaces what was found, whatever it brings, and   *)
(* is not classified again. Fusion fails when no chunk fits the context.    *)
Fuse(e) ==
  /\ stage[e] = "refetching" /\ AllDone(e)
  /\ \E fused \in {"generating", "unfit"} :
       stage' = [stage EXCEPT ![e] = IF AnySuccess(e) THEN fused ELSE "nothing_found"]
  /\ UNCHANGED sub

(* With both models failing the answer is degraded, not an error.          *)
Synthesize(e) ==
  /\ stage[e] = "generating"
  /\ \E end \in {"answered", "degraded"} : stage' = [stage EXCEPT ![e] = end]
  /\ UNCHANGED sub

ExecutionStep(e) ==
  \/ Plan(e) \/ PlanFails(e) \/ Evaluate(e) \/ Fuse(e) \/ Synthesize(e)

SearchStep(e, i) == StartSearch(e, i) \/ EndSearch(e, i)

AgentNext ==
  \E e \in Executions : ExecutionStep(e) \/ \E i \in SubQueries : SearchStep(e, i)

(* The semaphore is fair, and every call has a timeout.                    *)
AgentFairness ==
  \A e \in Executions : /\ WF_agentVars(ExecutionStep(e))
                        /\ \A i \in SubQueries : SF_agentVars(SearchStep(e, i))

AgentSpec == AgentInit /\ [][AgentNext]_agentVars /\ AgentFairness

(***************************************************************************)
(* Properties.                                                             *)
(***************************************************************************)
Ended == {"answered", "degraded", "unplanned", "nothing_found", "unfit"}

\* An execution gives up exactly when its sub-queries are left without any
\* chunk: a second retrieval that came back empty, which nobody classifies any
\* more, does not pass for a source of the answer.
GivesUpWithoutChunks ==
  \A e \in Executions :
    /\ stage[e] = "nothing_found" => \A i \in Planned(e) : sub[e][i].found \in {"empty", "error"}
    /\ stage[e] \in {"generating", "answered", "degraded", "unfit"}
         => \E i \in Planned(e) : sub[e][i].found \in {"strong", "weak"}

\* The type invariant; what is waiting or running belongs to an execution that
\* is retrieving.
AgentTypeOK ==
  /\ stage \in [Executions -> Ended \cup {"planning", "retrieving", "refetching", "generating"}]
  /\ sub \in [Executions -> [SubQueries ->
       [pc : {"absent", "waiting", "running", "done"}, found : Outcomes \cup {"none"}]]]
  /\ \A e \in Executions, i \in SubQueries :
       sub[e][i].pc \in {"waiting", "running"} => stage[e] \in {"retrieving", "refetching"}

\* Every execution ends: a search that fails gives its permit back, so that
\* executions which share the semaphore cannot starve one another.
ExecutionsEnd == \A e \in Executions : stage[e] = "retrieving" ~> stage[e] \in Ended
=============================================================================
