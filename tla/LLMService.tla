----------------------------- MODULE LLMService -----------------------------
(***************************************************************************)
(* What the Groq pool promises to the coroutines that call it: a call that *)
(* is accepted gets exactly one outcome, accepted calls are bounded, and a *)
(* call is refused at once only when many are pending.                     *)
(***************************************************************************)
EXTENDS Naturals, FiniteSets

CONSTANTS
  Callers,   \* coroutines that call the language model
  Backlog,   \* calls that may wait before another one is refused
  Limit      \* calls that may be pending at all

VARIABLES
  pending,   \* callers whose call was accepted and has no outcome yet
  outcome    \* [Callers -> the outcome of its last call, or "none"]

Outcomes == {"answered", "rate_limited", "provider_error"}

Init == /\ pending = {}
        /\ outcome = [c \in Callers |-> "none"]

Accept(c) == /\ c \notin pending
             /\ Cardinality(pending) < Limit
             /\ pending' = pending \cup {c}
             /\ outcome' = [outcome EXCEPT ![c] = "none"]

Refuse(c) == /\ c \notin pending
             /\ Cardinality(pending) >= Backlog
             /\ outcome' = [outcome EXCEPT ![c] = "rate_limited"]
             /\ UNCHANGED pending

Answer(c) == /\ c \in pending
             /\ pending' = pending \ {c}
             /\ \E o \in Outcomes : outcome' = [outcome EXCEPT ![c] = o]

Next == \E c \in Callers : Accept(c) \/ Refuse(c) \/ Answer(c)

vars == <<pending, outcome>>

Spec == Init /\ [][Next]_vars /\ \A c \in Callers : WF_vars(Answer(c))
=============================================================================
