-------------------------- MODULE QdrantConnections --------------------------
(***************************************************************************)
(* The connections to the vector server: the main store with its keepalive *)
(* loop, which rebuilds the client after a failed ping, and a store of     *)
(* another collection, made on demand with the main store's client.        *)
(* Source: vectorstore/qdrant_store.py, pipeline/rag_pipeline.py           *)
(* (_get_store_for_collection).                                            *)
(***************************************************************************)
EXTENDS Naturals, FiniteSets

CONSTANTS
  Askers,       \* coroutines that ask for the store of the other collection
  MaxClients    \* bound: clients built

ASSUME ConnectionAssumption == MaxClients \in Nat \ {0}

NoClient == 0
ClientIds == 1 .. MaxClients

VARIABLES
  online,       \* the vector server answers
  clients,      \* [ClientIds -> "unbuilt", "open" or "closed"]
  main,         \* main store: [client, wrapper (the client _store uses), old]
  loop,         \* keepalive loop: asleep, or a step of _reconnect, or off
  scoped,       \* client of the registered store of the other collection
  exists,       \* the other collection exists on the server
  getting       \* [Askers -> [pc, client]]

connVars == <<online, clients, main, loop, scoped, exists, getting>>

(* initialize of the main store; without gRPC there is no keepalive loop.  *)
ConnInit ==
  /\ online = TRUE
  /\ clients = [c \in ClientIds |-> IF c = 1 THEN "open" ELSE "unbuilt"]
  /\ main = [client |-> 1, wrapper |-> 1, old |-> NoClient]
  /\ loop \in {"asleep", "off"}
  /\ scoped = NoClient
  /\ exists \in BOOLEAN
  /\ getting = [a \in Askers |-> [pc |-> "idle", client |-> NoClient]]

Reaches(c) == online /\ clients[c] = "open"
Built == {c \in ClientIds : clients[c] # "unbuilt"}

(* --- The keepalive loop of the main store ------------------------------- *)

(* A ping fails, because the server is away or the channel is broken.      *)
PingFails ==
  /\ loop = "asleep"
  /\ loop' = "build"
  /\ UNCHANGED <<online, clients, main, scoped, exists, getting>>

\* Mutant. The old client is closed before the new one is in use everywhere.
BuildAndClose ==
  /\ loop = "build" /\ Built # ClientIds
  /\ LET c == Cardinality(Built) + 1
     IN  /\ clients' = [clients EXCEPT ![c] = "open", ![main.client] = "closed"]
         /\ main' = [main EXCEPT !.client = c, !.old = NoClient]
  /\ loop' = "wrap"
  /\ UNCHANGED <<online, scoped, exists, getting>>

(* _build_client never fails: without an answer over gRPC it makes an HTTP *)
(* client, which is not tried out.                                         *)
Build ==
  /\ loop = "build" /\ Built # ClientIds
  /\ LET c == Cardinality(Built) + 1
     IN  /\ clients' = [clients EXCEPT ![c] = "open"]
         /\ main' = [main EXCEPT !.client = c, !.old = main.client]
  /\ loop' = "wrap"
  /\ UNCHANGED <<online, scoped, exists, getting>>

Wrap ==
  /\ loop = "wrap" /\ Reaches(main.client)
  /\ main' = [main EXCEPT !.wrapper = main.client]
  /\ loop' = "close"
  /\ UNCHANGED <<online, clients, scoped, exists, getting>>

(* The wrapper validates the collection: it keeps the client it has when   *)
(* the server is away, and the replaced client is never closed.            *)
WrapFails ==
  /\ loop = "wrap" /\ ~Reaches(main.client)
  /\ main' = [main EXCEPT !.old = NoClient]
  /\ loop' = "asleep"
  /\ UNCHANGED <<online, clients, scoped, exists, getting>>

CloseOld ==
  /\ loop = "close"
  /\ clients' = IF main.old = NoClient THEN clients ELSE [clients EXCEPT ![main.old] = "closed"]
  /\ main' = [main EXCEPT !.old = NoClient]
  /\ loop' = "asleep"
  /\ UNCHANGED <<online, scoped, exists, getting>>

(* close: the loop is cancelled at whichever await it is.                  *)
Close ==
  /\ main.client # NoClient
  /\ clients' = [clients EXCEPT ![main.client] = "closed"]
  /\ main' = [client |-> NoClient, wrapper |-> NoClient, old |-> NoClient]
  /\ loop' = "off"
  /\ UNCHANGED <<online, scoped, exists, getting>>

(* --- _get_store_for_collection ------------------------------------------ *)

Steps(a, pc) == getting' = [getting EXCEPT ![a].pc = pc]

(* A registered store is used as it is; otherwise one is made, with the    *)
(* client the main store has now.                                          *)
AskStore(a) ==
  /\ getting[a].pc = "idle" /\ main.client # NoClient /\ scoped = NoClient
  /\ getting' = [getting EXCEPT ![a] = [pc |-> "list", client |-> main.client]]
  /\ UNCHANGED <<online, clients, main, loop, scoped, exists>>

ListCollections(a) ==
  /\ getting[a].pc = "list" /\ Reaches(getting[a].client)
  /\ Steps(a, IF exists THEN "wrap" ELSE "create")
  /\ UNCHANGED <<online, clients, main, loop, scoped, exists>>

(* A collection another initialize has created meanwhile is an error.      *)
CreateCollection(a) ==
  /\ getting[a].pc = "create" /\ Reaches(getting[a].client)
  /\ exists' = TRUE
  /\ Steps(a, IF exists THEN "idle" ELSE "wrap")
  /\ UNCHANGED <<online, clients, main, loop, scoped>>

Register(a) ==
  /\ getting[a].pc = "wrap" /\ Reaches(getting[a].client)
  /\ scoped' = getting[a].client
  /\ Steps(a, "idle")
  /\ UNCHANGED <<online, clients, main, loop, exists>>

(* Any request of initialize fails: nothing is registered.                 *)
GetFails(a) ==
  /\ getting[a].pc # "idle" /\ ~Reaches(getting[a].client)
  /\ Steps(a, "idle")
  /\ UNCHANGED <<online, clients, main, loop, scoped, exists>>

ServerTurns ==
  /\ online' = ~online
  /\ UNCHANGED <<clients, main, loop, scoped, exists, getting>>

ConnNext ==
  \/ PingFails \/ Build \/ Wrap \/ WrapFails \/ CloseOld \/ Close \/ ServerTurns
  \/ \E a \in Askers : \/ AskStore(a) \/ ListCollections(a) \/ CreateCollection(a)
                       \/ Register(a) \/ GetFails(a)

ConnSpec == ConnInit /\ [][ConnNext]_connVars

(***************************************************************************)
(* Properties.                                                             *)
(***************************************************************************)
\* Until it is closed, the main store never holds a closed client, neither for
\* its own requests nor in its wrapper, wherever a reconnection stops.
MainStoreUsable ==
  main.client # NoClient
    => clients[main.client] = "open" /\ clients[main.wrapper] = "open"

\* The type invariant; a store is registered only for a collection that exists,
\* so that a failed initialize is tried again by the next request.
ConnTypeOK ==
  /\ online \in BOOLEAN /\ exists \in BOOLEAN
  /\ clients \in [ClientIds -> {"unbuilt", "open", "closed"}]
  /\ main \in [client : 0 .. MaxClients, wrapper : 0 .. MaxClients, old : 0 .. MaxClients]
  /\ loop \in {"asleep", "off", "build", "wrap", "close"}
  /\ scoped \in 0 .. MaxClients /\ (scoped # NoClient => exists)
  /\ getting \in [Askers -> [pc : {"idle", "list", "create", "wrap"}, client : 0 .. MaxClients]]
=============================================================================
