--------------------------- MODULE Queries_proofs ---------------------------
(***************************************************************************)
(* Proofs about the parts that run queries: the coalescing of equal        *)
(* queries, the connections to the vector server and the agent             *)
(* orchestrator, for any number of requests, coroutines and executions;    *)
(* and the invariants of the three together.                               *)
(***************************************************************************)
EXTENDS MCQueries, FiniteSetTheorems, TLAPS

(***************************************************************************)
(* Coalescing.                                                             *)
(***************************************************************************)
RequestStates ==
  [pc : {"idle", "read", "lock", "work", "wait", "woken", "write", "resolve"},
   path : Paths, key : ServingKeys, alone : BOOLEAN,
   kind : {"none", "answer", "refusal", "stub"}]

\* Who computes without having waited leads the entry of its key: as long as
\* it does, the entry is there for the others to find.
Leads(r) == req[r].pc = "work" /\ ~req[r].alone
LeadersRegistered == \A r \in Requests : Leads(r) => req[r].key \in inFlight

\* A request whose event was set is not the leader of its key again.
WokenAlone == \A r \in Requests : req[r].pc = "woken" => req[r].alone

ServingInv == ServingTypeOK /\ LeadersRegistered /\ WokenAlone /\ SingleFlight

LEMMA ServingFacts ==
  ASSUME ServingTypeOK
  PROVE  /\ req \in [Requests -> RequestStates]
         /\ NoKeyYet \in ServingKeys
         /\ \A pc \in {"idle", "read", "lock", "work", "wait", "woken", "write", "resolve"} :
              At(pc) \in RequestStates /\ At(pc).pc = pc
<1>1. NoKeyYet \in ServingKeys BY DEF NoKeyYet, ServingKeys
<1> QED BY <1>1 DEF ServingTypeOK, RequestStates, At, Paths

\* The key of the moment is a key.
LEMMA KeysNow ==
  ASSUME ServingTypeOK, NEW r \in Requests
  PROVE  KeyNow(r) \in ServingKeys
BY DEF ServingTypeOK, KeyNow, ServingKeys, ModelOf, Prompt

LEMMA ServingInitially == ServingInit => ServingInv
<1> SUFFICES ASSUME ServingInit PROVE ServingInv
  OBVIOUS
<1>1. \A r \in Requests : req[r].pc = "idle"
  BY DEF ServingInit, At
<1>2. ServingTypeOK
  <2>1. NoKeyYet \in ServingKeys BY DEF NoKeyYet, ServingKeys
  <2> QED BY <2>1, ServingAssumption DEF ServingInit, ServingTypeOK, At, Paths
<1> QED BY <1>1, <1>2 DEF ServingInv, LeadersRegistered, Leads, WokenAlone, SingleFlight, Computing

\* A step that gives one request r a new record, and leaves the entries in flight
\* alone or adds the one of a leader nobody else led, keeps the invariant.
LEMMA OneRequest ==
  ASSUME ServingInv, NEW r \in Requests, NEW s \in RequestStates,
         req' = [req EXCEPT ![r] = s],
         inFlight \subseteq inFlight', inFlight' \subseteq ServingKeys,
         agentic' \in BOOLEAN, current' \in PoolModels,
         cached' \subseteq [key : ServingKeys, kind : {"answer"}],
         asks' \in 0 .. MaxAsks,
         s.pc = "woken" => s.alone,
         s.pc = "work" /\ ~s.alone => s.key \in inFlight' /\ s.key \notin inFlight
  PROVE  ServingInv'
<1>1. req \in [Requests -> RequestStates] BY ServingFacts DEF ServingInv
<1>2. /\ req' \in [Requests -> RequestStates] /\ req'[r] = s
      /\ \A t \in Requests \ {r} : req'[t] = req[t]
  BY <1>1
<1>3. ServingTypeOK' BY <1>2 DEF ServingInv, ServingTypeOK, RequestStates
<1>4. LeadersRegistered' BY <1>2 DEF ServingInv, LeadersRegistered, Leads
<1>5. WokenAlone' BY <1>2 DEF ServingInv, WokenAlone
<1>6. SingleFlight'
  <2> SUFFICES ASSUME NEW t \in Requests, NEW u \in Requests, t # u,
                      req'[t].pc = "work", req'[u].pc = "work", req'[t].key = req'[u].key,
                      ~req'[t].alone, ~req'[u].alone
               PROVE  FALSE
    BY DEF SingleFlight, Computing
  <2>1. CASE t = r
    BY <2>1, <1>2 DEF ServingInv, LeadersRegistered, Leads
  <2>2. CASE u = r
    BY <2>2, <1>2 DEF ServingInv, LeadersRegistered, Leads
  <2>3. CASE t # r /\ u # r
    BY <2>3, <1>2 DEF ServingInv, SingleFlight, Computing
  <2> QED BY <2>1, <2>2, <2>3
<1> QED BY <1>3, <1>4, <1>5, <1>6 DEF ServingInv

\* What OneRequest asks for, of the variables a step of request r leaves alone,
\* and of its record.
LEMMA RequestFacts ==
  ASSUME ServingInv, NEW r \in Requests
  PROVE  /\ req[r] \in RequestStates
         /\ agentic \in BOOLEAN /\ current \in PoolModels
         /\ cached \subseteq [key : ServingKeys, kind : {"answer"}]
         /\ asks \in 0 .. MaxAsks /\ inFlight \subseteq ServingKeys
         /\ req[r].pc = "woken" => req[r].alone
<1>1. req \in [Requests -> RequestStates] BY ServingFacts DEF ServingInv
<1> QED BY <1>1 DEF ServingInv, ServingTypeOK, WokenAlone

\* A request that goes on to where it computes nothing.
GoesOn(r) ==
  \E s \in RequestStates :
    s.pc \in {"idle", "read", "write", "resolve"} /\ req' = [req EXCEPT ![r] = s]

LEMMA GoingOn ==
  ASSUME ServingInv, NEW r \in Requests,
         \/ \E path \in Paths : Takes(r, path)
         \/ ThenResolve(r) \/ Finish(r)
         \/ \E kind \in {"answer", "refusal", "stub"} : Answers(r, kind)
  PROVE  GoesOn(r)
<1>1. req[r].path \in Paths BY RequestFacts DEF RequestStates
<1>2. ASSUME NEW pc \in {"idle", "read", "write", "resolve"}, NEW path \in Paths
      PROVE  [At(pc) EXCEPT !.path = path] \in RequestStates /\ [At(pc) EXCEPT !.path = path].pc = pc
  <2>1. At(pc) \in RequestStates /\ At(pc).pc = pc BY ServingFacts DEF ServingInv
  <2> QED BY <2>1 DEF RequestStates
<1>3. ASSUME NEW path \in Paths, NEW kind \in {"answer", "refusal", "stub"}
      PROVE  /\ [At("write") EXCEPT !.path = path, !.kind = kind] \in RequestStates
             /\ [At("write") EXCEPT !.path = path, !.kind = kind].pc = "write"
  <2>1. At("write") \in RequestStates /\ At("write").pc = "write" BY ServingFacts DEF ServingInv
  <2> QED BY <2>1 DEF RequestStates
<1>4. At("idle") \in RequestStates /\ At("idle").pc = "idle" BY ServingFacts DEF ServingInv
<1> QED BY <1>1, <1>2, <1>3, <1>4 DEF GoesOn, Takes, ThenResolve, Finish, Answers

LEMMA GoesOnKeeps ==
  ASSUME ServingInv, NEW r \in Requests, GoesOn(r),
         inFlight' = inFlight, agentic' = agentic, current' \in PoolModels,
         cached' \subseteq [key : ServingKeys, kind : {"answer"}],
         asks' \in 0 .. MaxAsks
  PROVE  ServingInv'
<1>1. PICK s \in RequestStates :
        s.pc \in {"idle", "read", "write", "resolve"} /\ req' = [req EXCEPT ![r] = s]
  BY DEF GoesOn
<1> QED BY <1>1, RequestFacts, OneRequest

LEMMA AskKeepsServing ==
  ASSUME ServingInv, NEW r \in Requests, Ask(r)
  PROVE  ServingInv'
<1> DEFINE path == IF agentic THEN "agent" ELSE "rag"
<1>1. path \in Paths BY DEF Paths
<1>2. Takes(r, path) BY DEF Ask
<1> HIDE DEF path
<1>3. GoesOn(r) BY <1>1, <1>2, GoingOn
<1>4. asks' \in 0 .. MaxAsks BY RequestFacts, ServingAssumption DEF Ask
<1> QED BY <1>3, <1>4, RequestFacts, GoesOnKeeps DEF Ask

LEMMA ReadKeeps ==
  ASSUME ServingInv, NEW r \in Requests, Read(r) \/ ReadAgain(r)
  PROVE  ServingInv'
<1>1. UNCHANGED <<agentic, current, inFlight, cached, asks>> BY DEF Read, ReadAgain
<1>2. CASE Finish(r)
  BY <1>1, <1>2, GoingOn, GoesOnKeeps, RequestFacts
<1>3. CASE Read(r) /\ ~Finish(r)
  <2> DEFINE s == [req[r] EXCEPT !.pc = "lock", !.key = KeyNow(r)]
  <2>1. req' = [req EXCEPT ![r] = s] BY <1>3 DEF Read
  <2>2. KeyNow(r) \in ServingKeys BY KeysNow DEF ServingInv
  <2>3. s \in RequestStates /\ s.pc = "lock" BY <2>2, RequestFacts DEF RequestStates
  <2> HIDE DEF s
  <2> QED BY <1>1, <2>1, <2>3, RequestFacts, OneRequest
<1>4. CASE ReadAgain(r) /\ ~Finish(r)
  <2> DEFINE s == [req[r] EXCEPT !.pc = "work"]
  <2>1. req' = [req EXCEPT ![r] = s] BY <1>4 DEF ReadAgain
  <2>2. req[r].alone BY <1>4, RequestFacts DEF ReadAgain
  <2>3. s \in RequestStates /\ s.pc = "work" /\ s.alone BY <2>2, RequestFacts DEF RequestStates
  <2> HIDE DEF s
  <2> QED BY <1>1, <2>1, <2>3, RequestFacts, OneRequest
<1> QED BY <1>2, <1>3, <1>4

\* Only the first to miss under a key that is not in flight leads it.
LEMMA JoinKeeps ==
  ASSUME ServingInv, NEW r \in Requests, Join(r) \/ TimeOut(r)
  PROVE  ServingInv'
<1>1. UNCHANGED <<agentic, current, cached, asks>> BY DEF Join, TimeOut
<1>2. CASE Join(r) /\ req[r].key \notin inFlight
  <2> DEFINE s == [req[r] EXCEPT !.pc = "work"]
  <2>1. req' = [req EXCEPT ![r] = s] /\ inFlight' = inFlight \cup {req[r].key}
    BY <1>2 DEF Join
  <2>2. s \in RequestStates /\ s.pc = "work" /\ s.key = req[r].key /\ s.key \in ServingKeys
    BY RequestFacts DEF RequestStates
  <2> HIDE DEF s
  <2>3. inFlight' \subseteq ServingKeys BY <2>1, <2>2, RequestFacts
  <2> QED BY <1>1, <1>2, <2>1, <2>2, <2>3, RequestFacts, OneRequest
<1>3. CASE Join(r) /\ req[r].key \in inFlight
  <2> DEFINE s == [req[r] EXCEPT !.pc = "wait"]
  <2>1. req' = [req EXCEPT ![r] = s] /\ inFlight' = inFlight
    BY <1>3 DEF Join
  <2>2. s \in RequestStates /\ s.pc = "wait" BY RequestFacts DEF RequestStates
  <2> HIDE DEF s
  <2> QED BY <1>1, <2>1, <2>2, RequestFacts, OneRequest
<1>4. CASE TimeOut(r)
  <2> DEFINE s == [req[r] EXCEPT !.pc = "work", !.alone = TRUE]
  <2>1. req' = [req EXCEPT ![r] = s] /\ inFlight' = inFlight
    BY <1>4 DEF TimeOut
  <2>2. s \in RequestStates /\ s.pc = "work" /\ s.alone BY RequestFacts DEF RequestStates
  <2> HIDE DEF s
  <2> QED BY <1>1, <2>1, <2>2, RequestFacts, OneRequest
<1> QED BY <1>2, <1>3, <1>4

LEMMA ComputeKeeps ==
  ASSUME ServingInv, NEW r \in Requests,
         \/ Generate(r) \/ GenerateRefusal(r) \/ SynthesizeSpare(r) \/ SynthesizeNothing(r)
         \/ AgentFails(r) \/ FallBack(r) \/ Abort(r)
  PROVE  ServingInv'
<1>1. UNCHANGED <<agentic, inFlight, cached, asks>> /\ current' \in PoolModels
  BY RequestFacts DEF Generate, GenerateRefusal, SynthesizeSpare, SynthesizeNothing, AgentFails, FallBack, Abort
<1>2. ASSUME NEW kind \in {"answer", "refusal", "stub"}, Answers(r, kind)
      PROVE  ServingInv'
  BY <1>1, <1>2, RequestFacts, GoingOn, GoesOnKeeps
<1>3. ASSUME NEW path \in Paths, Takes(r, path)
      PROVE  ServingInv'
  BY <1>1, <1>3, RequestFacts, GoingOn, GoesOnKeeps
<1>4. ASSUME Finish(r) PROVE ServingInv'
  BY <1>1, <1>4, RequestFacts, GoingOn, GoesOnKeeps
<1>5. "rag" \in Paths /\ "fallback" \in Paths BY DEF Paths
<1> QED BY <1>2, <1>3, <1>4, <1>5
        DEF Generate, GenerateRefusal, SynthesizeSpare, SynthesizeNothing, AgentFails, FallBack, Abort

LEMMA WriteKeeps ==
  ASSUME ServingInv, NEW r \in Requests, SkipWrite(r) \/ WriteAnswer(r)
  PROVE  ServingInv'
<1>1. UNCHANGED <<agentic, current, inFlight, asks>> BY DEF SkipWrite, WriteAnswer
<1>2. cached' \subseteq [key : ServingKeys, kind : {"answer"}]
  <2>1. KeyNow(r) \in ServingKeys BY KeysNow DEF ServingInv
  <2> QED BY <2>1, RequestFacts DEF SkipWrite, WriteAnswer, Store
<1>3. Finish(r) \/ ThenResolve(r) BY DEF SkipWrite, WriteAnswer
<1> QED BY <1>1, <1>2, <1>3, RequestFacts, GoingOn, GoesOnKeeps

\* Releasing an entry leaves nobody who leads it.
LEMMA ResolveKeeps ==
  ASSUME ServingInv, NEW r \in Requests, Resolve(r)
  PROVE  ServingInv'
<1> DEFINE k == KeyNow(r)
           after(s) == IF s = r THEN At("idle")
                       ELSE IF req[s].pc = "wait" /\ req[s].key = k
                         THEN [req[s] EXCEPT !.pc = "woken", !.alone = TRUE]
                       ELSE IF req[s].pc = "work" /\ req[s].key = k
                         THEN [req[s] EXCEPT !.alone = TRUE]
                       ELSE req[s]
<1>1. req' = [s \in Requests |-> after(s)] /\ inFlight' = inFlight \ {k}
  BY DEF Resolve
<1>2. ASSUME NEW s \in Requests
      PROVE  /\ after(s) \in RequestStates
             /\ after(s).pc = "woken" => after(s).alone
             /\ after(s).pc = "work" /\ ~after(s).alone =>
                  /\ Leads(s) /\ req[s].key # k /\ after(s).key = req[s].key
  <2>0. req[s] \in RequestStates /\ (req[s].pc = "woken" => req[s].alone) BY RequestFacts
  <2>1. CASE s = r
    BY <2>1, ServingFacts DEF ServingInv
  <2>2. CASE s # r /\ req[s].pc = "wait" /\ req[s].key = k
    BY <2>0, <2>2 DEF RequestStates
  <2>3. CASE s # r /\ req[s].pc = "work" /\ req[s].key = k
    BY <2>0, <2>3 DEF RequestStates
  <2>4. CASE s # r /\ ~(req[s].pc \in {"wait", "work"} /\ req[s].key = k)
    <3>1. after(s) = req[s] BY <2>4
    <3> QED BY <3>1, <2>0, <2>4 DEF Leads
  <2> QED BY <2>1, <2>2, <2>3, <2>4
<1>3. \A s \in Requests : req'[s] = after(s) BY <1>1
<1> HIDE DEF after, k
<1>4. ServingTypeOK'
  <2>1. req' \in [Requests -> RequestStates] BY <1>1, <1>2
  <2>2. inFlight' \subseteq ServingKeys BY <1>1, RequestFacts
  <2> QED BY <2>1, <2>2 DEF Resolve, ServingInv, ServingTypeOK, RequestStates
<1>5. LeadersRegistered' BY <1>1, <1>2, <1>3 DEF ServingInv, LeadersRegistered, Leads
<1>6. WokenAlone' BY <1>2, <1>3 DEF WokenAlone
<1>7. SingleFlight'
  BY <1>2, <1>3 DEF ServingInv, SingleFlight, Computing, Leads
<1> QED BY <1>4, <1>5, <1>6, <1>7 DEF ServingInv

LEMMA ServingStep == ServingInv /\ [ServingNext]_servingVars => ServingInv'
<1> SUFFICES ASSUME ServingInv, [ServingNext]_servingVars PROVE ServingInv'
  OBVIOUS
<1>1. CASE UNCHANGED servingVars
  BY <1>1 DEF servingVars, ServingInv, ServingTypeOK, LeadersRegistered, Leads, WokenAlone,
              SingleFlight, Computing
<1>2. CASE Expire
  BY <1>2 DEF Expire, ServingInv, ServingTypeOK, LeadersRegistered, Leads, WokenAlone,
              SingleFlight, Computing
<1>3. ASSUME NEW r \in Requests, Ask(r) \/ RequestStep(r) PROVE ServingInv'
  BY <1>3, AskKeepsServing, ReadKeeps, JoinKeeps, ComputeKeeps, WriteKeeps, ResolveKeeps
     DEF RequestStep
<1> QED BY <1>1, <1>2, <1>3 DEF ServingNext

\* The types of the coalescing, and that nothing but an accepted answer is ever
\* cached, whatever requests fail, fall back or time out (_try_cache_write,
\* _try_agent_cache_write).
THEOREM ServingTypes == ServingSpec => []ServingTypeOK
<1>1. ServingInv => ServingTypeOK BY DEF ServingInv
<1> QED BY <1>1, ServingInitially, ServingStep, PTL DEF ServingSpec

\* For any number of requests and models: of those that missed under one key one
\* computes, and a second one only after it waited or after the first one's entry
\* was released by a request that did not lead it (get_or_wait,
\* resolve_in_flight).
THEOREM OneFlightPerKey == ServingSpec => []SingleFlight
<1>1. ServingInv => SingleFlight BY DEF ServingInv
<1> QED BY <1>1, ServingInitially, ServingStep, PTL DEF ServingSpec

(***************************************************************************)
(* Connections.                                                            *)
(***************************************************************************)
\* Clients are built one after another.
BuiltInOrder ==
  \E n \in ClientIds : \A c \in ClientIds : clients[c] # "unbuilt" <=> c <= n

\* The replaced client is out of use when the loop comes to close it, and none
\* is kept between two reconnections.
ReplacedUnused ==
  /\ main.old # NoClient => /\ main.old # main.client /\ loop \in {"wrap", "close"}
                            /\ clients[main.old] # "unbuilt"
  /\ loop = "close" => main.wrapper = main.client

\* A store that has been closed has no client and no loop.
ClosedForGood ==
  main.client = NoClient => loop = "off" /\ main.old = NoClient

Usable ==
  main.client # NoClient => main.wrapper # NoClient /\ MainStoreUsable

CreatedFirst == \A a \in Askers : getting[a].pc = "wrap" => exists

ConnInv ==
  /\ ConnTypeOK /\ BuiltInOrder /\ ReplacedUnused /\ ClosedForGood /\ Usable /\ CreatedFirst

Mains == [client : 0 .. MaxClients, wrapper : 0 .. MaxClients, old : 0 .. MaxClients]
Gettings == [pc : {"idle", "list", "create", "wrap"}, client : 0 .. MaxClients]

LEMMA NoClientIsNone == NoClient \in 0 .. MaxClients /\ \A c \in 0 .. MaxClients : c # NoClient <=> c \in ClientIds
BY ConnectionAssumption DEF NoClient, ClientIds

LEMMA ConnInitially == ConnInit => ConnInv
<1> SUFFICES ASSUME ConnInit PROVE ConnInv
  OBVIOUS
<1>1. 1 \in ClientIds /\ 1 \in 0 .. MaxClients /\ 1 # NoClient
  BY ConnectionAssumption DEF ClientIds, NoClient
<1>2. main \in Mains /\ main.client = 1 /\ main.wrapper = 1 /\ main.old = NoClient
  BY <1>1, NoClientIsNone DEF ConnInit, Mains
<1>3. getting \in [Askers -> Gettings] /\ \A a \in Askers : getting[a].pc = "idle"
  BY NoClientIsNone DEF ConnInit, Gettings
<1>4. ConnTypeOK BY <1>2, <1>3, NoClientIsNone DEF ConnInit, ConnTypeOK, Mains, Gettings
<1>5. BuiltInOrder
  <2>1. \A c \in ClientIds : clients[c] # "unbuilt" <=> c <= 1
    BY ConnectionAssumption DEF ConnInit, ClientIds
  <2> QED BY <2>1, <1>1 DEF BuiltInOrder
<1>6. ReplacedUnused BY <1>2 DEF ConnInit, ReplacedUnused
<1>7. ClosedForGood /\ CreatedFirst BY <1>1, <1>2, <1>3 DEF ClosedForGood, CreatedFirst
<1>8. Usable BY <1>1, <1>2 DEF ConnInit, Usable, MainStoreUsable
<1> QED BY <1>4, <1>5, <1>6, <1>7, <1>8 DEF ConnInv

\* A new client gets a number nobody has.
LEMMA NextClient ==
  ASSUME ConnInv, Built # ClientIds
  PROVE  LET c == Cardinality(Built) + 1
         IN  /\ c \in ClientIds /\ clients[c] = "unbuilt"
             /\ \A d \in ClientIds : clients[d] # "unbuilt" <=> d < c
<1>1. PICK n \in ClientIds : \A c \in ClientIds : clients[c] # "unbuilt" <=> c <= n
  BY DEF ConnInv, BuiltInOrder
<1>2. n \in Nat /\ MaxClients \in Nat /\ 1 <= n /\ n <= MaxClients
  BY ConnectionAssumption DEF ClientIds
<1>3. Built = 1 .. n BY <1>1, <1>2 DEF Built, ClientIds
<1>4. Cardinality(Built) = n
  <2>1. Cardinality(1 .. n) = IF 1 > n THEN 0 ELSE n - 1 + 1 BY <1>2, FS_Interval
  <2> QED BY <2>1, <1>2, <1>3
<1>5. n < MaxClients BY <1>2, <1>3 DEF ClientIds
<1>6. n + 1 \in ClientIds BY <1>2, <1>5 DEF ClientIds
<1>7. \A d \in ClientIds : d <= n <=> d < n + 1 BY <1>2 DEF ClientIds
<1> QED BY <1>1, <1>4, <1>6, <1>7, <1>2

\* Steps of the loop and of close: whoever asks for a store is left alone.
LEMMA LoopKeeps ==
  ASSUME ConnInv,
         PingFails \/ Build \/ Wrap \/ WrapFails \/ CloseOld \/ Close \/ ServerTurns
  PROVE  ConnInv'
<1> USE NoClientIsNone
<1>1. CASE PingFails
  BY <1>1 DEF PingFails, ConnInv, ConnTypeOK, BuiltInOrder, ReplacedUnused, ClosedForGood,
              Usable, MainStoreUsable, CreatedFirst
<1>2. CASE ServerTurns
  BY <1>2 DEF ServerTurns, ConnInv, ConnTypeOK, BuiltInOrder, ReplacedUnused, ClosedForGood,
              Usable, MainStoreUsable, CreatedFirst
<1>3. CASE Build
  <2> DEFINE c == Cardinality(Built) + 1
  <2>1. /\ loop = "build" /\ loop' = "wrap"
        /\ clients' = [clients EXCEPT ![c] = "open"]
        /\ main' = [main EXCEPT !.client = c, !.old = main.client]
        /\ UNCHANGED <<online, scoped, exists, getting>>
    BY <1>3 DEF Build
  <2>2. /\ c \in ClientIds /\ clients[c] = "unbuilt"
        /\ \A d \in ClientIds : clients[d] # "unbuilt" <=> d < c
    BY <1>3, NextClient DEF Build
  <2> HIDE DEF c
  <2>3. /\ main.client \in ClientIds /\ main.wrapper \in ClientIds
        /\ clients[main.client] = "open" /\ clients[main.wrapper] = "open"
    BY <2>1 DEF ConnInv, ConnTypeOK, ClosedForGood, Usable, MainStoreUsable
  <2>4. main' \in Mains /\ main'.client = c /\ main'.wrapper = main.wrapper /\ main'.old = main.client
    <3>1. main \in Mains BY DEF ConnInv, ConnTypeOK, Mains
    <3>2. c \in 0 .. MaxClients BY <2>2, ConnectionAssumption DEF ClientIds
    <3> QED BY <3>1, <3>2, <2>1 DEF Mains
  <2>5. /\ clients' \in [ClientIds -> {"unbuilt", "open", "closed"}]
        /\ \A d \in ClientIds : clients'[d] = IF d = c THEN "open" ELSE clients[d]
    BY <2>1, <2>2 DEF ConnInv, ConnTypeOK
  <2>6. ConnTypeOK' BY <2>1, <2>4, <2>5 DEF ConnInv, ConnTypeOK, Mains
  <2>7. BuiltInOrder'
    <3>1. \A d \in ClientIds : clients'[d] # "unbuilt" <=> d <= c
      BY <2>2, <2>5 DEF ClientIds
    <3> QED BY <3>1, <2>2 DEF BuiltInOrder
  <2>8. ReplacedUnused' BY <2>1, <2>2, <2>3, <2>4 DEF ReplacedUnused
  <2>9. ClosedForGood' /\ Usable'
    BY <2>2, <2>3, <2>4, <2>5 DEF ClosedForGood, Usable, MainStoreUsable, ClientIds, NoClient
  <2>10. CreatedFirst' BY <2>1 DEF ConnInv, CreatedFirst
  <2> QED BY <2>6, <2>7, <2>8, <2>9, <2>10 DEF ConnInv
<1>4. CASE Wrap
  <2>1. /\ loop = "wrap" /\ loop' = "close" /\ main' = [main EXCEPT !.wrapper = main.client]
        /\ UNCHANGED <<online, clients, scoped, exists, getting>>
    BY <1>4 DEF Wrap
  <2>2. main' \in Mains /\ main'.client = main.client /\ main'.wrapper = main.client /\ main'.old = main.old
    BY <2>1 DEF ConnInv, ConnTypeOK, Mains
  <2>3. ConnTypeOK' /\ BuiltInOrder' /\ CreatedFirst'
    BY <2>1, <2>2 DEF ConnInv, ConnTypeOK, BuiltInOrder, CreatedFirst, Mains
  <2>4. ReplacedUnused' /\ ClosedForGood' /\ Usable'
    BY <2>1, <2>2 DEF ConnInv, ReplacedUnused, ClosedForGood, Usable, MainStoreUsable
  <2> QED BY <2>3, <2>4 DEF ConnInv
<1>5. CASE WrapFails
  <2>1. /\ loop = "wrap" /\ loop' = "asleep" /\ main' = [main EXCEPT !.old = NoClient]
        /\ UNCHANGED <<online, clients, scoped, exists, getting>>
    BY <1>5 DEF WrapFails
  <2>2. main' \in Mains /\ main'.client = main.client /\ main'.wrapper = main.wrapper /\ main'.old = NoClient
    BY <2>1 DEF ConnInv, ConnTypeOK, Mains
  <2>3. ConnTypeOK' /\ BuiltInOrder' /\ CreatedFirst'
    BY <2>1, <2>2 DEF ConnInv, ConnTypeOK, BuiltInOrder, CreatedFirst, Mains
  <2>4. ReplacedUnused' /\ ClosedForGood' /\ Usable'
    BY <2>1, <2>2 DEF ConnInv, ReplacedUnused, ClosedForGood, Usable, MainStoreUsable
  <2> QED BY <2>3, <2>4 DEF ConnInv
<1>6. CASE CloseOld
  <2>1. /\ loop = "close" /\ loop' = "asleep" /\ main' = [main EXCEPT !.old = NoClient]
        /\ clients' = IF main.old = NoClient THEN clients ELSE [clients EXCEPT ![main.old] = "closed"]
        /\ UNCHANGED <<online, scoped, exists, getting>>
    BY <1>6 DEF CloseOld
  <2>2. main' \in Mains /\ main'.client = main.client /\ main'.wrapper = main.wrapper /\ main'.old = NoClient
    BY <2>1 DEF ConnInv, ConnTypeOK, Mains
  <2>3. /\ main.client \in ClientIds /\ main.wrapper = main.client /\ clients[main.client] = "open"
        /\ main.old # main.client
    BY <2>1 DEF ConnInv, ConnTypeOK, ReplacedUnused, ClosedForGood, Usable, MainStoreUsable
  <2>4. /\ clients' \in [ClientIds -> {"unbuilt", "open", "closed"}]
        /\ \A d \in ClientIds : d # main.old => clients'[d] = clients[d]
        /\ main.old \in ClientIds => clients'[main.old] = "closed"
    <3>1. CASE main.old = NoClient BY <3>1, <2>1 DEF ConnInv, ConnTypeOK
    <3>2. CASE main.old # NoClient BY <3>2, <2>1 DEF ConnInv, ConnTypeOK
    <3> QED BY <3>1, <3>2
  <2>5. ConnTypeOK' BY <2>1, <2>2, <2>4 DEF ConnInv, ConnTypeOK, Mains
  <2>6. BuiltInOrder'
    <3>1. main.old \in ClientIds => clients[main.old] # "unbuilt"
      BY <2>1 DEF ConnInv, ReplacedUnused
    <3> QED BY <3>1, <2>4 DEF ConnInv, BuiltInOrder
  <2>7. ReplacedUnused' /\ ClosedForGood' /\ Usable'
    BY <2>1, <2>2, <2>3, <2>4 DEF ConnInv, ReplacedUnused, ClosedForGood, Usable, MainStoreUsable
  <2>8. CreatedFirst' BY <2>1 DEF ConnInv, CreatedFirst
  <2> QED BY <2>5, <2>6, <2>7, <2>8 DEF ConnInv
<1>7. CASE Close
  <2>1. /\ main.client # NoClient /\ loop' = "off"
        /\ clients' = [clients EXCEPT ![main.client] = "closed"]
        /\ main' = [client |-> NoClient, wrapper |-> NoClient, old |-> NoClient]
        /\ UNCHANGED <<online, scoped, exists, getting>>
    BY <1>7 DEF Close
  <2>2. /\ main.client \in ClientIds /\ clients[main.client] = "open"
    BY <2>1 DEF ConnInv, ConnTypeOK, Usable, MainStoreUsable
  <2>3. main' \in Mains /\ main'.client = NoClient /\ main'.old = NoClient
    BY <2>1 DEF Mains
  <2>4. /\ clients' \in [ClientIds -> {"unbuilt", "open", "closed"}]
        /\ \A d \in ClientIds : clients'[d] = IF d = main.client THEN "closed" ELSE clients[d]
    BY <2>1, <2>2 DEF ConnInv, ConnTypeOK
  <2>5. ConnTypeOK' BY <2>1, <2>3, <2>4 DEF ConnInv, ConnTypeOK, Mains
  <2>6. BuiltInOrder' BY <2>2, <2>4 DEF ConnInv, BuiltInOrder
  <2>7. ReplacedUnused' /\ ClosedForGood' /\ Usable'
    BY <2>1, <2>3 DEF ReplacedUnused, ClosedForGood, Usable
  <2>8. CreatedFirst' BY <2>1 DEF ConnInv, CreatedFirst
  <2> QED BY <2>5, <2>6, <2>7, <2>8 DEF ConnInv
<1> QED BY <1>1, <1>2, <1>3, <1>4, <1>5, <1>6, <1>7

\* Steps of whoever asks for a store: the main store is left alone.
LEMMA AskKeeps ==
  ASSUME NEW a \in Askers, ConnInv,
         AskStore(a) \/ ListCollections(a) \/ CreateCollection(a) \/ Register(a) \/ GetFails(a)
  PROVE  ConnInv'
<1> USE NoClientIsNone
<1>1. UNCHANGED <<online, clients, main, loop>>
  BY DEF AskStore, ListCollections, CreateCollection, Register, GetFails
<1>2. BuiltInOrder' /\ ReplacedUnused' /\ ClosedForGood' /\ Usable'
  BY <1>1 DEF ConnInv, BuiltInOrder, ReplacedUnused, ClosedForGood, Usable, MainStoreUsable
<1>3. PICK g \in Gettings : getting' = [getting EXCEPT ![a] = g] /\ (g.pc = "wrap" => exists')
  <2>1. getting[a] \in Gettings /\ main.client \in 0 .. MaxClients
    BY DEF ConnInv, ConnTypeOK, Gettings
  <2>2. CASE AskStore(a)
    <3>1. [pc |-> "list", client |-> main.client] \in Gettings BY <2>1 DEF Gettings
    <3>2. getting' = [getting EXCEPT ![a] = [pc |-> "list", client |-> main.client]]
      BY <2>2 DEF AskStore
    <3> QED BY <3>1, <3>2
  <2>3. ASSUME NEW pc \in {"idle", "list", "create", "wrap"}, Steps(a, pc), pc = "wrap" => exists'
        PROVE  \E g \in Gettings : getting' = [getting EXCEPT ![a] = g] /\ (g.pc = "wrap" => exists')
    <3> DEFINE g == [getting[a] EXCEPT !.pc = pc]
    <3>1. g \in Gettings /\ g.pc = pc BY <2>1 DEF Gettings
    <3>2. getting' = [getting EXCEPT ![a] = g] BY <2>3 DEF Steps
    <3> HIDE DEF g
    <3> QED BY <3>1, <3>2, <2>3
  <2>4. CASE ListCollections(a)
    <3>1. CASE exists BY <3>1, <2>3, <2>4 DEF ListCollections
    <3>2. CASE ~exists BY <3>2, <2>3, <2>4 DEF ListCollections
    <3> QED BY <3>1, <3>2
  <2>5. CASE CreateCollection(a)
    <3>1. CASE exists BY <3>1, <2>3, <2>5 DEF CreateCollection
    <3>2. CASE ~exists BY <3>2, <2>3, <2>5 DEF CreateCollection
    <3> QED BY <3>1, <3>2
  <2>6. CASE Register(a) BY <2>3, <2>6 DEF Register
  <2>7. CASE GetFails(a) BY <2>3, <2>7 DEF GetFails
  <2> QED BY <2>2, <2>4, <2>5, <2>6, <2>7
<1>4. /\ getting' \in [Askers -> Gettings]
      /\ \A b \in Askers : getting'[b] = IF b = a THEN g ELSE getting[b]
  BY <1>3 DEF ConnInv, ConnTypeOK, Gettings
<1>5. (exists => exists') /\ exists' \in BOOLEAN
  BY DEF AskStore, ListCollections, CreateCollection, Register, GetFails, ConnInv, ConnTypeOK
<1>6. scoped' \in 0 .. MaxClients /\ (scoped' # NoClient => exists')
  BY DEF AskStore, ListCollections, CreateCollection, Register, GetFails,
         ConnInv, ConnTypeOK, CreatedFirst
<1>7. ConnTypeOK' BY <1>1, <1>4, <1>5, <1>6 DEF ConnInv, ConnTypeOK, Gettings
<1>8. CreatedFirst' BY <1>3, <1>4, <1>5 DEF ConnInv, CreatedFirst
<1> QED BY <1>2, <1>7, <1>8 DEF ConnInv

LEMMA ConnStep == ConnInv /\ [ConnNext]_connVars => ConnInv'
<1> SUFFICES ASSUME ConnInv, [ConnNext]_connVars PROVE ConnInv'
  OBVIOUS
<1>1. CASE UNCHANGED connVars
  BY <1>1 DEF connVars, ConnInv, ConnTypeOK, BuiltInOrder, ReplacedUnused, ClosedForGood,
              Usable, MainStoreUsable, CreatedFirst
<1> QED BY <1>1, LoopKeeps, AskKeeps DEF ConnNext

\* The types of the connections' state, and that a store is registered only for
\* a collection that exists (_get_store_for_collection).
THEOREM ConnTypes == ConnSpec => []ConnTypeOK
<1>1. ConnInv => ConnTypeOK BY DEF ConnInv
<1> QED BY <1>1, ConnInitially, ConnStep, PTL DEF ConnSpec

\* Until it is closed, the main store holds no closed client, wherever _reconnect
\* stops and whenever the server goes away (_keepalive_loop, _reconnect, close).
THEOREM MainStoreStaysUsable == ConnSpec => []MainStoreUsable
<1>1. ConnInv => MainStoreUsable BY DEF ConnInv, Usable, MainStoreUsable
<1> QED BY <1>1, ConnInitially, ConnStep, PTL DEF ConnSpec

(***************************************************************************)
(* Agents.                                                                 *)
(***************************************************************************)
Stages == Ended \cup {"planning", "retrieving", "refetching", "generating"}
Records == [pc : {"absent", "waiting", "running", "done"}, found : Outcomes \cup {"none"}]

\* What is done has found something to tell, and an execution that has fused has
\* nothing left to search: what it decided on stays as it was.
DoneHasOutcome ==
  \A e \in Executions, i \in SubQueries :
    sub[e][i].pc = "done" => sub[e][i].found \in Outcomes

AgentInv == AgentTypeOK /\ DoneHasOutcome /\ GivesUpWithoutChunks

LEMMA AgentInitially == AgentInit => AgentInv
<1> SUFFICES ASSUME AgentInit PROVE AgentInv
  OBVIOUS
<1>1. /\ stage = [e \in Executions |-> "planning"]
      /\ sub = [e \in Executions |-> [i \in SubQueries |-> Unplanned]]
  BY DEF AgentInit
<1>2. \A e \in Executions, i \in SubQueries : sub[e][i] = Unplanned
  BY <1>1
<1>3. AgentTypeOK BY <1>1, <1>2 DEF AgentTypeOK, Unplanned
<1>4. DoneHasOutcome BY <1>2 DEF DoneHasOutcome, Unplanned
<1>5. GivesUpWithoutChunks BY <1>1 DEF GivesUpWithoutChunks
<1> QED BY <1>3, <1>4, <1>5 DEF AgentInv

\* A step that gives one execution e another stage and other records keeps the
\* invariant when it holds of e: the parts of the invariant speak of one
\* execution at a time.
LEMMA OneExecution ==
  ASSUME NEW e \in Executions, AgentInv,
         NEW st \in Stages, NEW recs \in [SubQueries -> Records],
         stage' = [stage EXCEPT ![e] = st],
         sub' = [sub EXCEPT ![e] = recs],
         \A i \in SubQueries :
           /\ recs[i].pc \in {"waiting", "running"} => st \in {"retrieving", "refetching"}
           /\ recs[i].pc = "done" => recs[i].found \in Outcomes,
         st = "nothing_found" =>
           \A i \in SubQueries : recs[i].pc # "absent" => recs[i].found \in {"empty", "error"},
         st \in {"generating", "answered", "degraded", "unfit"} =>
           \E i \in SubQueries : recs[i].pc # "absent" /\ recs[i].found \in {"strong", "weak"}
  PROVE  AgentInv'
<1>1. /\ stage \in [Executions -> Stages] /\ sub \in [Executions -> [SubQueries -> Records]]
  BY DEF AgentInv, AgentTypeOK, Stages, Records
<1>2. /\ stage' \in [Executions -> Stages] /\ stage'[e] = st
      /\ \A f \in Executions \ {e} : stage'[f] = stage[f]
  BY <1>1
<1>3. /\ sub' \in [Executions -> [SubQueries -> Records]] /\ sub'[e] = recs
      /\ \A f \in Executions \ {e} : sub'[f] = sub[f]
  BY <1>1
<1>4. AgentTypeOK'
  <2>1. \A f \in Executions, i \in SubQueries :
          sub'[f][i].pc \in {"waiting", "running"} => stage'[f] \in {"retrieving", "refetching"}
    BY <1>2, <1>3 DEF AgentInv, AgentTypeOK
  <2> QED BY <2>1, <1>2, <1>3 DEF AgentTypeOK, Stages, Records
<1>5. DoneHasOutcome' BY <1>3 DEF AgentInv, DoneHasOutcome
<1>6. GivesUpWithoutChunks'
  <2>1. \A f \in Executions \ {e} : Planned(f)' = Planned(f) BY <1>3 DEF Planned
  <2>2. Planned(e)' = {i \in SubQueries : recs[i].pc # "absent"} BY <1>3 DEF Planned
  <2>3. ASSUME NEW f \in Executions, stage'[f] = "nothing_found"
        PROVE  \A i \in Planned(f)' : sub'[f][i].found \in {"empty", "error"}
    BY <2>1, <2>2, <2>3, <1>2, <1>3 DEF AgentInv, GivesUpWithoutChunks
  <2>4. ASSUME NEW f \in Executions, stage'[f] \in {"generating", "answered", "degraded", "unfit"}
        PROVE  \E i \in Planned(f)' : sub'[f][i].found \in {"strong", "weak"}
    BY <2>1, <2>2, <2>4, <1>2, <1>3 DEF AgentInv, GivesUpWithoutChunks
  <2> QED BY <2>3, <2>4 DEF GivesUpWithoutChunks
<1> QED BY <1>4, <1>5, <1>6 DEF AgentInv

\* The facts OneExecution asks for, of the state a step starts in.
LEMMA AgentFacts ==
  ASSUME AgentInv, NEW e \in Executions
  PROVE  /\ stage \in [Executions -> Stages] /\ sub \in [Executions -> [SubQueries -> Records]]
         /\ stage[e] \in Stages /\ sub[e] \in [SubQueries -> Records]
         /\ stage = [stage EXCEPT ![e] = stage[e]] /\ sub = [sub EXCEPT ![e] = sub[e]]
         /\ \A i \in SubQueries :
              /\ sub[e][i].pc \in {"waiting", "running"} => stage[e] \in {"retrieving", "refetching"}
              /\ sub[e][i].pc = "done" => sub[e][i].found \in Outcomes
         /\ stage[e] = "nothing_found" =>
              \A i \in SubQueries : sub[e][i].pc # "absent" => sub[e][i].found \in {"empty", "error"}
         /\ stage[e] \in {"generating", "answered", "degraded", "unfit"} =>
              \E i \in SubQueries : sub[e][i].pc # "absent" /\ sub[e][i].found \in {"strong", "weak"}
<1>1. stage \in [Executions -> Stages] /\ sub \in [Executions -> [SubQueries -> Records]]
  BY DEF AgentInv, AgentTypeOK, Stages, Records
<1>2. stage[e] \in Stages /\ sub[e] \in [SubQueries -> Records]
  BY <1>1
<1>3. stage = [stage EXCEPT ![e] = stage[e]] /\ sub = [sub EXCEPT ![e] = sub[e]]
  BY <1>1
<1>4. \A i \in SubQueries :
        /\ sub[e][i].pc \in {"waiting", "running"} => stage[e] \in {"retrieving", "refetching"}
        /\ sub[e][i].pc = "done" => sub[e][i].found \in Outcomes
  BY DEF AgentInv, AgentTypeOK, DoneHasOutcome
<1>5. /\ stage[e] = "nothing_found" =>
           \A i \in SubQueries : sub[e][i].pc # "absent" => sub[e][i].found \in {"empty", "error"}
      /\ stage[e] \in {"generating", "answered", "degraded", "unfit"} =>
           \E i \in SubQueries : sub[e][i].pc # "absent" /\ sub[e][i].found \in {"strong", "weak"}
  BY DEF AgentInv, GivesUpWithoutChunks, Planned
<1> QED BY <1>1, <1>2, <1>3, <1>4, <1>5

LEMMA PlanKeeps ==
  ASSUME NEW e \in Executions, AgentInv, Plan(e) \/ PlanFails(e)
  PROVE  AgentInv'
<1>1. CASE Plan(e)
  <2>1. PICK n \in SubQueries :
          sub' = [sub EXCEPT ![e] = [i \in SubQueries |->
                    IF i <= n THEN [pc |-> "waiting", found |-> "none"] ELSE Unplanned]]
    BY <1>1 DEF Plan
  <2> DEFINE recs == [i \in SubQueries |->
                        IF i <= n THEN [pc |-> "waiting", found |-> "none"] ELSE Unplanned]
  <2>2. recs \in [SubQueries -> Records] /\ \A i \in SubQueries : recs[i].pc # "done"
    BY DEF Records, Unplanned
  <2>3. stage' = [stage EXCEPT ![e] = "retrieving"] /\ sub' = [sub EXCEPT ![e] = recs]
    BY <1>1, <2>1 DEF Plan
  <2> HIDE DEF recs
  <2>4. "retrieving" \in Stages BY DEF Stages
  <2> QED BY <2>2, <2>3, <2>4, OneExecution
<1>2. CASE PlanFails(e)
  <2>1. /\ stage[e] = "planning" /\ stage' = [stage EXCEPT ![e] = "unplanned"]
        /\ sub' = [sub EXCEPT ![e] = sub[e]]
    BY <1>2, AgentFacts DEF PlanFails
  <2>2. "unplanned" \in Stages BY DEF Stages, Ended
  <2> QED BY <2>1, <2>2, AgentFacts, OneExecution
<1> QED BY <1>1, <1>2

LEMMA SearchKeeps ==
  ASSUME NEW e \in Executions, NEW i \in SubQueries, AgentInv, StartSearch(e, i) \/ EndSearch(e, i)
  PROVE  AgentInv'
<1>1. PICK r \in Records :
        /\ stage[e] \in {"retrieving", "refetching"}
        /\ stage' = [stage EXCEPT ![e] = stage[e]]
        /\ sub' = [sub EXCEPT ![e] = [sub[e] EXCEPT ![i] = r]]
        /\ r.pc = "done" => r.found \in Outcomes
  <2>1. CASE StartSearch(e, i)
    <3> DEFINE r == [sub[e][i] EXCEPT !.pc = "running"]
    <3> sub[e][i] \in Records BY AgentFacts
    <3>1. r \in Records /\ r.pc = "running" BY DEF Records
    <3>2. sub' = [sub EXCEPT ![e] = [sub[e] EXCEPT ![i] = r]] BY <2>1 DEF StartSearch
    <3> HIDE DEF r
    <3> QED BY <3>1, <3>2, <2>1, AgentFacts DEF StartSearch
  <2>2. CASE EndSearch(e, i)
    <3>1. PICK found \in Outcomes :
            sub' = [sub EXCEPT ![e] = [sub[e] EXCEPT ![i] = [pc |-> "done", found |-> found]]]
      BY <2>2 DEF EndSearch
    <3>2. [pc |-> "done", found |-> found] \in Records BY DEF Records
    <3>3. stage[e] \in {"retrieving", "refetching"} /\ stage' = [stage EXCEPT ![e] = stage[e]]
      BY <2>2, AgentFacts DEF EndSearch
    <3> QED BY <3>1, <3>2, <3>3
  <2> QED BY <2>1, <2>2
<1> DEFINE recs == [sub[e] EXCEPT ![i] = r]
<1>2. /\ recs \in [SubQueries -> Records]
      /\ \A j \in SubQueries : recs[j].pc = "done" => recs[j].found \in Outcomes
  BY <1>1, AgentFacts
<1>3. sub' = [sub EXCEPT ![e] = recs] BY <1>1
<1> HIDE DEF recs
<1>4. stage[e] \in Stages BY AgentFacts
<1> QED BY <1>1, <1>2, <1>3, <1>4, OneExecution

LEMMA EvaluateKeeps ==
  ASSUME NEW e \in Executions, AgentInv, Evaluate(e)
  PROVE  AgentInv'
<1>1. PICK rewritten \in SUBSET Weak(e) :
        sub' = [sub EXCEPT ![e] = [i \in SubQueries |->
                  IF i \in rewritten THEN [sub[e][i] EXCEPT !.pc = "waiting"]
                  ELSE IF sub[e][i].found = "empty" THEN [sub[e][i] EXCEPT !.found = "error"]
                  ELSE sub[e][i]]]
  BY DEF Evaluate
<1> DEFINE rec(i) == IF i \in rewritten THEN [sub[e][i] EXCEPT !.pc = "waiting"]
                     ELSE IF sub[e][i].found = "empty" THEN [sub[e][i] EXCEPT !.found = "error"]
                     ELSE sub[e][i]
           recs == [i \in SubQueries |-> rec(i)]
<1>2. ASSUME NEW i \in SubQueries
      PROVE  rec(i) \in Records /\ (rec(i).pc = "done" => rec(i).found \in Outcomes)
  BY AgentFacts DEF Records, Outcomes
<1>3. stage' = [stage EXCEPT ![e] = "refetching"] /\ sub' = [sub EXCEPT ![e] = recs]
  BY <1>1 DEF Evaluate
<1>4. /\ recs \in [SubQueries -> Records]
      /\ \A i \in SubQueries : recs[i].pc = "done" => recs[i].found \in Outcomes
  BY <1>2
<1> HIDE DEF recs
<1>5. "refetching" \in Stages BY DEF Stages
<1> QED BY <1>3, <1>4, <1>5, OneExecution

\* What fusion decides on is what the sub-queries found, all of them done.
LEMMA FuseKeeps ==
  ASSUME NEW e \in Executions, AgentInv, Fuse(e)
  PROVE  AgentInv'
<1>1. PICK fused \in {"generating", "unfit"} :
        stage' = [stage EXCEPT ![e] = IF AnySuccess(e) THEN fused ELSE "nothing_found"]
  BY DEF Fuse
<1> DEFINE st == IF AnySuccess(e) THEN fused ELSE "nothing_found"
<1>2. stage' = [stage EXCEPT ![e] = st] /\ sub' = [sub EXCEPT ![e] = sub[e]]
  BY <1>1, AgentFacts DEF Fuse
<1>3. st \in Stages BY DEF Stages, Ended
<1>4. \A i \in SubQueries : sub[e][i].pc # "absent" => sub[e][i].pc = "done" /\ sub[e][i].found \in Outcomes
  BY AgentFacts DEF Fuse, AllDone, Planned
<1>5. \A i \in SubQueries : sub[e][i].pc \notin {"waiting", "running"}
  BY <1>4
<1>6. st = "nothing_found" =>
        \A i \in SubQueries : sub[e][i].pc # "absent" => sub[e][i].found \in {"empty", "error"}
  BY <1>4 DEF AnySuccess, Planned, Outcomes
<1>7. st # "nothing_found" =>
        \E i \in SubQueries : sub[e][i].pc # "absent" /\ sub[e][i].found \in {"strong", "weak"}
  BY DEF AnySuccess, Planned
<1> HIDE DEF st
<1>8. sub[e] \in [SubQueries -> Records] BY AgentFacts
<1> QED BY <1>2, <1>3, <1>4, <1>5, <1>6, <1>7, <1>8, OneExecution

LEMMA SynthesizeKeeps ==
  ASSUME NEW e \in Executions, AgentInv, Synthesize(e)
  PROVE  AgentInv'
<1>1. PICK end \in {"answered", "degraded"} : stage' = [stage EXCEPT ![e] = end]
  BY DEF Synthesize
<1>2. stage[e] = "generating" /\ sub' = [sub EXCEPT ![e] = sub[e]]
  BY AgentFacts DEF Synthesize
<1>3. end \in Stages /\ end # "nothing_found" BY DEF Stages, Ended
<1> QED BY <1>1, <1>2, <1>3, AgentFacts, OneExecution

LEMMA AgentStep == AgentInv /\ [AgentNext]_agentVars => AgentInv'
<1> SUFFICES ASSUME AgentInv, [AgentNext]_agentVars PROVE AgentInv'
  OBVIOUS
<1>1. ASSUME NEW e \in Executions, ExecutionStep(e) PROVE AgentInv'
  BY <1>1, PlanKeeps, EvaluateKeeps, FuseKeeps, SynthesizeKeeps DEF ExecutionStep
<1>2. ASSUME NEW e \in Executions, NEW i \in SubQueries, SearchStep(e, i) PROVE AgentInv'
  BY <1>2, SearchKeeps DEF SearchStep
<1>3. CASE UNCHANGED agentVars
  BY <1>3 DEF agentVars, AgentInv, AgentTypeOK, DoneHasOutcome, GivesUpWithoutChunks, Planned
<1> QED BY <1>1, <1>2, <1>3 DEF AgentNext

\* The types of the orchestrator's state, and that what still waits or runs
\* belongs to an execution that is retrieving (execute, retrieve_one).
THEOREM AgentTypes == AgentSpec => []AgentTypeOK
<1>1. AgentInv => AgentTypeOK BY DEF AgentInv
<1> QED BY <1>1, AgentInitially, AgentStep, PTL DEF AgentSpec

\* An execution gives up exactly when its sub-queries are left without any
\* chunk, whatever the second retrievals brought, for any number of executions,
\* sub-queries and permits (execute, _rewrite_and_refetch_weak).
THEOREM GivesUpOnlyWithoutChunks == AgentSpec => []GivesUpWithoutChunks
<1>1. AgentInv => GivesUpWithoutChunks BY DEF AgentInv
<1> QED BY <1>1, AgentInitially, AgentStep, PTL DEF AgentSpec

(***************************************************************************)
(* The three together.                                                     *)
(***************************************************************************)
QueriesInv == ServingInv /\ ConnInv /\ AgentInv

LEMMA QueriesStep == QueriesInv /\ [QueriesNext]_queriesVars => QueriesInv'
<1> SUFFICES ASSUME QueriesInv, [QueriesNext]_queriesVars PROVE QueriesInv'
  OBVIOUS
<1>1. [ServingNext]_servingVars /\ [ConnNext]_connVars /\ [AgentNext]_agentVars
  BY DEF QueriesNext, queriesVars
<1> QED BY <1>1, ServingStep, ConnStep, AgentStep DEF QueriesInv

\* The type invariants of the parts, in the behaviours in which a part is
\* exercised and the others rest.
THEOREM QueriesTypes == QueriesSpec => []QueriesTypeOK
<1>1. QueriesInit => QueriesInv
  BY ServingInitially, ConnInitially, AgentInitially DEF QueriesInit, QueriesInv
<1>2. QueriesInv => QueriesTypeOK
  BY DEF QueriesInv, ServingInv, ConnInv, AgentInv, QueriesTypeOK
<1> QED BY <1>1, <1>2, QueriesStep, PTL DEF QueriesSpec
=============================================================================
