------------------------------- MODULE MCQueries -------------------------------
(***************************************************************************)
(* The parts that run queries, each on its own: the coalescing of equal    *)
(* queries, the connections to the vector server, the agent orchestrator.  *)
(* part says which one a behaviour exercises.                              *)
(***************************************************************************)
EXTENDS QueryServing, QdrantConnections, AgentExecution

CONSTANT m1      \* a model of the pool

VARIABLE part

queriesVars == <<part, servingVars, connVars, agentVars>>

QueriesInit ==
  /\ part \in {"serving", "connections", "agents"}
  /\ ServingInit /\ ConnInit /\ AgentInit
  /\ part = "serving" \/ (agentic /\ current = m1)
  /\ part = "connections" \/ (loop = "off" /\ exists)

QueriesNext ==
  /\ \/ part = "serving" /\ ServingNext /\ UNCHANGED <<connVars, agentVars>>
     \/ part = "connections" /\ ConnNext /\ UNCHANGED <<servingVars, agentVars>>
     \/ part = "agents" /\ AgentNext /\ UNCHANGED <<servingVars, connVars>>
  /\ UNCHANGED part

(* ServingFairness and AgentFairness, each for the behaviours that         *)
(* exercise its part.                                                      *)
QueriesFairness ==
  /\ \A r \in Requests : WF_servingVars(part = "serving" /\ RequestStep(r))
  /\ \A e \in Executions :
       /\ WF_agentVars(part = "agents" /\ ExecutionStep(e))
       /\ \A i \in SubQueries : SF_agentVars(part = "agents" /\ SearchStep(e, i))

QueriesSpec == QueriesInit /\ [][QueriesNext]_queriesVars /\ QueriesFairness

\* The type invariants of the parts: one answer per cache key, no store
\* registered for a collection that does not exist, no search of an execution
\* that is not retrieving.
QueriesTypeOK == ServingTypeOK /\ ConnTypeOK /\ AgentTypeOK
=============================================================================
