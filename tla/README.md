# A TLA+ model of the scalable RAG application

The repository is a retrieval-augmented question-answering service: a FastAPI
backend (`backend/`), an arq worker that ingests documents, a query pipeline
(`pipeline/`, `rag/`, `agents/`), a two-level answer cache (`cache/`), a pool of
rate-limited Groq models (`llm/`), a Qdrant vector store (`vectorstore/`) and a React
front end (`frontend/`). This directory models it component by component,
model-checks each model with TLC on small instances and proves the most important
results with TLAPS for every instance.

Most of the system is covered: document ingestion, where four kinds of process (API,
arq, worker, sweeper) change three stores (PostgreSQL, MinIO, Qdrant) that share no
transaction; how the browser follows it; the guards around outgoing calls; the answer
cache; the way of a query through cache, agents and fallbacks; chunking and context
assembly; the schema migrator; the chat page. What is left out is listed at the end.

## Inventory

### Document ingestion (modelled)

| Part | State | Operations |
| --- | --- | --- |
| `backend/repositories/document_repository.py`, `backend/models/document.py`, `backend/db/migrations` | the `documents` table: status, `content_hash`, `processing_started_at`, `updated_at`, `deleted_at`; a partial unique index on (user, hash) | create, find, guarded and unguarded UPDATEs, hard delete, the sweeper's lists |
| `backend/services/document_service.py` | none of its own; one transaction per request | upload session, finalize, retry, soft delete, SSE subscription, list and get |
| `backend/workers/*` and arq in Redis | one job per document (`_job_id = doc_id`), its retry counter | enqueue, start, end, timeout, redelivery |
| `backend/services/ingestion_service.py` | the local state of a run: content, remaining batches | `run`, duplicate handling, rollback, DLQ |
| `backend/services/orphan_sweeper.py` | one task in the API process, the list it is working through | three passes: stale pending, stale failed, stuck processing |
| `vectorstore/qdrant_store.py` (write side) | points with `doc_id`, `user_id`, `chunk_id` | `add_documents` with dedup and batches, `delete_by_doc_id` |
| `backend/storage/object_store.py` | objects under `user/doc/name` | presigned PUT, head and get, delete |

Hard behaviour: list-then-delete in the sweeper, a lease (600 s) shorter than the job
timeout (900 s), cancellation that no `except Exception` sees, redelivery of a job
whose first run got anywhere, a delete request whose UPDATE is uncommitted while the
vectors are already gone, two uploads of one file racing between the probe and the
claim, best-effort deletes that are logged and forgotten. Correct means: one visible
ready document per user and content; a ready document has all its chunks; a failed
document can be retried; nothing stays in `processing`; a late run does not complete
somebody else's attempt; a deleted document leaves nothing behind.

### Following an upload (modelled)

| Part | State | Operations |
| --- | --- | --- |
| `frontend/src/stores/uploadStore.js`, `api/sse.js` | jobs with a status and a `docId`, the `_running` loop, one EventSource per followed job | add, start, remove, retry, clear, apply an event |
| `backend/api/v1/documents.py`, `document_service.py::subscribe_to_events` | an open stream: snapshot, then the tail of the bus | snapshot, subscribe, deliver, end |
| `backend/services/redis_event_bus.py`, `event_bus.py` | subscribers and what they have not read | publish, subscribe |

Hard: the snapshot is read before the subscription starts and pub/sub keeps nothing; the
in-process bus drops events of a full queue; removals and retries run beside the loop; a
run may be delivered again after its document became ready; a stream request may be
refused, after which the browser hears nothing any more. Correct means: what the browser
shows as final was committed; a followed job settles; the loop reaches every file.

### Guards of outgoing calls (modelled)

| Part | State | Operations |
| --- | --- | --- |
| `llm/providers/groq_model_pool.py`, `model_router.py`, `llm/rate_limiter/rate_limit_*.py` | bounded queue, worker tasks, one future per call; cooldown, minute window and daily counters per model | enqueue, route, respond, throttle, refuse |
| `llm/rate_limiter/llm_rate_limiter.py`, `token_bucket.py` | semaphore, two buckets, sleepers | `generate`, `chat`, `acquire` |
| `cache/backend/circuit_breaker.py`, `redis_backend.py` | CLOSED, OPEN or HALF_OPEN, failures, time of the last one | all operations of the Redis level |
| `cache/backend/memory_backend.py` | an ordered dictionary of slots with an expiry | get, set, exists, delete, clear, evict |

Hard: calls overlap, so that results arrive in another state than the one they were sent
in; several callers pass a check before the first is counted. Correct means: bounds hold
all the same, every accepted call gets one outcome, no caller starves, a breaker
recovers.

### The answer cache and the way of a query (modelled)

| Part | State | Operations |
| --- | --- | --- |
| `cache/cache_manager.py`, `strategies/*`, `models/*` | L1, L2, semantic index, in-flight events | get, set, invalidate, clear, initialize, `get_or_wait`, `resolve_in_flight` |
| `pipeline/rag_pipeline.py`, `rag/base_rag.py` | the path of each query; the stores made on demand | query, fallback, cache reads and writes |
| `agents/*` | an execution: plan, sub-queries, their results | plan, retrieve, classify, rewrite, refetch, fuse, answer |
| `vectorstore/qdrant_store.py` (client) | client, wrapper, keepalive task | initialize, reconnect, close |

Hard: promotion against invalidation and restart; leaders that fail or whose model
changes its name; a reconnection that stops half-way; a second retrieval that brings
less than the first. Correct means: nothing too old, nothing made under another prompt,
nothing invalidated is served; every query and every execution ends; an answer has a
source.

### Algorithms, schema, chat page (modelled)

`chunking/*` (clean, tag, split, filter, dedup), `rag/context/*` and
`agents/fusion/context_fusion.py` (rank, fill up, assemble, fuse),
`backend/db/migrator.py` (versions against the table), `frontend/src/stores/
conversationStore.js` with `pages/ChatPage.jsx` (answers that arrive after the user has
gone elsewhere).

## Plan

1. `DocumentRepository`, `DocumentIngestion`, `DocumentLifecycle` (abstract), their
   proofs. *Done.*
2. `UploadTracking`; `GroqPool` with `LLMService` (abstract), `RateLimiter`,
   `RedisCache`, `MemoryCache`; `CacheManager`, `QueryServing`, `AgentExecution`,
   `QdrantConnections`; `PageCleaning`, `Chunking`, `ContextAssembly`,
   `SchemaMigrations`, `ChatConversations`. *Done.*
3. Proofs of every safety property and action property of the runs, of the step
   simulation of `DocumentLifecycle` by `DocumentIngestion` and of `LLMService` by
   `GroqPool`. *Done.*
4. What is left to the model checker is liveness. Worth proving next: invariants of the
   abstract specifications themselves, and the safety arguments the liveness properties
   lean on (which steps a fair scheduler can still take from a state that must end).

No module that carries theorems uses RECURSIVE operators.

## Modules

### DocumentRepository

The SQL statements as functions from row to row, and the table-level queries. A row
is `[status, deleted, hash, expired]`. Timestamps are one bit: `expired` says that
the timestamp the sweeper compares *for the present status* lies behind that status's
threshold; every statement that writes that timestamp clears the bit, and `Expire`
(in `DocumentIngestion`) sets it at any moment. Hashes are contents: SHA-256 is taken
to be injective. PostgreSQL runs at READ COMMITTED, so a guarded UPDATE is one atomic
step on one row.

### DocumentIngestion

| Variable | Code |
| --- | --- |
| `documents` | the table |
| `objects` | the MinIO object under each document's key |
| `vectors` | the Qdrant points, as pairs of document and chunk |
| `late` | upserts still running in a thread (`asyncio.to_thread`) after their run was cancelled |
| `queue`, `tries` | arq's job with id `doc_id`, its retry key |
| `admitted` | requests between the status check and `enqueue_job` |
| `deleting` | a DELETE request: its row lock and how far it has come |
| `worker` | per job slot: the step of `IngestionService.run`, its document, content, chunks to upsert |
| `sweep` | the sweeper's pass, its list and the row it is working on |

An action is what the code does between two points where another actor can run: one
transaction, one remote call, one Redis command. `documents` and the actions on it:
`CreateUploadSession`, `BeginRun`, `ClaimHash`, `MarkReady`, `RemoveRow`,
`MarkDocFailed`, `SoftDeleteCommit`, `SweepRow`, `SweepMark`. A row locked by an
uncommitted DELETE blocks writers (`WriteRow`), not readers.

The control flow of `IngestionService.run` is `RunSteps`:

    begin -> download -> probe -> claim -> filter -> upsert* -> ready -> finish
                |          |        |         \________|
                |          |        |               failPurge -> markFailed -> finish
                |          |        +-- unique index ---^
                |          +-- duplicate --> purgeVectors -> purgeBlob -> hardDelete -> finish
                +-- wrong MIME --> rollback ----^

Faults are the set `Faults`; each run says which it admits. A cancelled run
(`Timeout`, `Interrupt`) leaves the row as it is, because `CancelledError` is not an
`Exception`; the batch it was uploading may still arrive (`LateUpsert`).

Simplifications, each a choice of this model:

* The sweeper picks a row and makes its first delete in one step, and a failed delete
  has no effect at all. A *delete* left running by a cancelled thread is not modelled.
* BeginRun's SELECT and UPDATE (one transaction) are one step; a row removed between
  them behaves like one removed after the UPDATE.
* Database errors are left out: a failing transaction has no effect and ends the
  handler, which a timeout, an interrupt or a restart shows as well.
* The sweep's batch limit of 500 and its order are left out; a list is worked through
  in any order. The sleep between passes is left out: liveness does not depend on it.
* A client uploads at most once per presigned URL, while the URL is valid.
* A request's status check is one step, its effect another. A DELETE's check and its
  UPDATE are one; a second DELETE of the same document, waiting for the row lock of the
  first, is left out (it changes no row and repeats the cleanup).
* Published events are left to `UploadTracking`.

### DocumentLifecycle

The abstract specification: what the owner is promised about rows, as eight atomic
steps on one variable. A document fails only while it is being processed or is failed
already, becomes ready only from `processing` with a hash, claims a hash only when no
active document of its owner has it, and never comes back once removed.
`DocumentIngestion` implements it with `documents` as it is (no other variable is
visible), checked as the property `ImplementsLifecycle`.

### UploadTracking

One job per file, with its document, its arq job and its stream.

| Variable | Code |
| --- | --- |
| `job`, `retried` | the store's jobs; `retried` is a bound |
| `drain` | the job `start()` is working on and the request it awaits |
| `asking` | a `retryJob` or `removeJob` request under way |
| `row` | the status a snapshot can read |
| `run`, `tries` | the arq job of the document: queued, running, an event still to publish, over; how often it was started |
| `sweeper` | what the sweeper is about to do: delete a row it has listed, announce one it has failed |
| `stream`, `inbox` | the EventSource with what its snapshot read; bus events not delivered yet |
| `reopened` | history: ready documents that a later run took up again |

`ReadSnapshot` and `DeliverSnapshot` are two steps because the row is read before anything
is subscribed: what is published in between is lost. `Publish` reaches a live subscriber
with room, or nobody. `Refuse` is any answer other than 200 to the stream request, also to
that of a reconnection: the EventSource is closed and the job's status stays as it is.

The ingestion side has what `DocumentIngestion` says of it, seen from outside: a run
commits first and announces afterwards; until its arq job has ended it may be delivered again
(`WorkerDies`), also when its document is ready already, and `update_status` then takes
the row back to `processing` (`BeginIngest`); the sweeper fails a row whose lease
has expired, whatever its run is doing (`MarkStuck`), and deletes listed rows without
another look at them (`Reap`). A lease may expire, and a row be stale, at any moment.
The status check of finalize and retry and their enqueue are one step here; what happens
between the two is in `DocumentIngestion`. Heartbeats, byte progress and messages are left
out. After a retry the browser may take the snapshot of the attempt before for the outcome
of the new one; the row bears it out, so this is no violation of what is checked.

### GroqPool, LLMService

Callers, a bounded queue, workers, and what the tracker knows of each model: a cooldown,
a minute window (unknown, enough, low) and daily counters with their date. Routing
takes the first available model of the pool of the role followed by the other one. Daily counters are reset
only by `_reset_daily_if_needed`, when a response is accounted for: a model whose
counters have reached the ceiling gets no call, hence no response, and stays out until
the process restarts, also on the next day. `LLMService` is the promise to callers; the
refinement maps the accepted calls without outcome (`Pending`) and the outcomes.
Cancelled callers and the 413 and timeout variants of throttling (same effect) are not
told apart.

### RateLimiter

One unit of time per tick; a token is `Period` units, so that fractions are whole
numbers. Two sleepers may wake to the same token, and the second takes it all the same
(`max(tokens - 1, 0)`). `allowance` is an observer: a bucket of `Burst` tokens that gains
`Credit` units per tick, from which every passed token is taken.

### RedisCache, LruStore, MemoryCache

A Redis call is sent, executed if the server is up, and answered or failed later, so that
calls overlap freely. `circuit` is the breaker, whose OPEN state turns HALF_OPEN by being
looked at. `wasted` counts failed calls since a recorded success or a reset period.
`LruStore` is the ordered dictionary, as operators on a sequence of slots (`Put` takes
the bound as an argument), used by `MemoryCache` (slots with a time to live) and by the
L1 of `CacheManager`.

### CacheManager

L1 is a bounded sequence of entries, L2 a set, the semantic index a set of points. Each
coroutine has the step it is at; between steps others run. Entries carry their age and
the time they have left. Promotion to L1 starts a time to live of its own with the
default length, as `_build_entry_from_result` does. A failing Redis level reads as a
miss, writes nothing, and deletes nothing: a `delete` that the breaker rejects answers
`False`, and the entry stays in L2. Topics stand for similarity above the threshold.

### QueryServing

Requests with the same question; a key is the prompt of the path and the model name the
primary client reports at that moment, which is that of the last answer. So a leader may
release another key than the one it registered; `alone` marks the requests for which
coalescing gave way (a timeout, or an entry released by somebody else).

### QdrantConnections

The main store and its keepalive task, step by step through `_reconnect`; a store of
another collection made with whatever client the main store has when it is asked for.

### AgentExecution

Several executions that share the retriever's semaphore. A search finds something strong,
weak, empty, or fails. Refetches do not go through the semaphore and are not classified
again.

### ContextAssembly

Chunks are numbered by relevance; a ranking is any order its scores could lead to, so
scores are left out. Sizes in tokens vary. The rerankings stand for configurations:
`"cross_encoder"` for one with a reranker. Without one that setting fetches and ranks as
`"mmr"` does (`context_ranker.py:47`, `89-94`) and only lacks the second retrieval of `FillUp`,
which is not a configuration of its own here. The direct path follows `BaseRAG.query` from
retrieval to the assembled context, the agent path is `ContextFusion.fuse`. The
low-confidence return of `BaseRAG.query` (lines 145-193) is left out: it asks for an MMR
ranking without any chunk, and the ranker hands back at least one of those it is given.

### PageCleaning, Chunking

Pages as a header and a length; chunks as sequences of units. A unit is no longer than a
chunk may be: the splitter's last resort, cutting inside a unit, is left out. Regular
expressions are data: which texts are boilerplate, which have too few letters for the
alpha gate, which structure a page has. `SplitRaises` is the exception of a page that leaves the
whole file without chunks. A chunk carries the length of its `embed_content`, the line of
context included, next to what its `page_content` says. `Kept` has the branch that keeps an
oversized chunk whose re-split is ineffective; with units that fit a chunk it cannot be
taken (`FewPiecesFit` in `Texts_proofs`). Each loop of the
splitters is a left fold of an operator that stands for its body (`AddPiece`, `AddRow`,
`AddItem`, `AddNew`; in `ContextAssembly` `AddOther`, `AddFitting`, `AddUnreserved`).

### SchemaMigrations

`schema` is what the documents table has, `applied` the version table. A command reads
`applied` in one transaction and applies or reverts in others. `raced` remembers that a
`down` ran beside another command, which can break the record.

### ChatConversations

The store and the mounted page. `flights` are queries under way, each with the place its
answer will take. `overlapped` remembers conversations that had two of them at once (an
edit box opened earlier can be sent while a query runs; the page forgets its `loading`
when it is left), where pairing is lost.

### MC modules

`MCGuards`, `MCQueries` and `MCContents` put parts that share no state side by side: a
variable `part`, chosen initially, says which one a behaviour exercises, and the others
stay in one initial state. Their reachable states are those of the parts, added up.

## Runs

The ingestion runs use `MCDocumentIngestion`. TLC's deadlock check stays on in them (the
sweeper can always take its next list) and in `guards` (a caller can always call). It is
off where a system may come to rest: all uploads settled, all queries answered, all
executions ended, the file split.

| Run | Instance | Question |
| --- | --- | --- |
| `ingestion_dedup` | 2 documents of one user, same file, 2 slots, timeouts, API restarts, old failed rows; 1.09 million states | Is dedup exact (`OneActiveCopy`) and does every interleaving respect `DocumentLifecycle`? |
| `ingestion_races` | 1 document, 2 slots, all faults but evicted jobs and API restarts, all thresholds, a good and a bad file, 2 tries; 91 000 states | Types; a sweeper-failed document is not restarted under a run in flight (`NoTakeover`); a failed document keeps its object (`RetryableKeepsObject`) |
| `ingestion_complete` | 1 document, 2 slots, 2 chunks in separate batches, the same faults, no threshold passes; 31 000 states | Is a visible ready document complete in Qdrant (`ReadyIsComplete`)? |
| `ingestion_liveness` | 1 document, 1 slot, failing cleanups, timeouts, interrupts, lost job keys, all thresholds, fair schedule; 101 000 states | Does every stay in `processing`, `pending`, `failed` end? |
| `ingestion_reap_ready` | 1 document, no fault | *violated*: the sweeper deletes a document that became ready |
| `ingestion_purge_deleted` | 1 document, no fault, fair schedule | *violated*: a deleted document keeps its vectors |
| `ingestion_shared_chunks` | 2 users, same text, no fault | *violated*: the second user's ready document cannot be found |
| `guards` | pool: 2 callers, 2 models, 2 workers, queue of 1, a midnight, a cooldown that ends; limiter: 3 tasks, 2 permits; Redis: 2 clients, 1 key, threshold 2; memory: 3 keys, 2 slots; 72 000 states | Daily budgets, call rate, cost of an outage and the LRU bound under overlap; one outcome per call (`ImplementsService`); late responses leave cooldowns alone; nobody starves; the breaker recovers |
| `uploads` | 2 files, the second of them ingested, swept and streamed, 1 retry, a bus that holds 1 event, 2 tries; 348 000 states | What is shown was committed (`ShownIsCommitted`); a followed job settles (`FollowedJobsSettle`); the loop reaches all (`DrainReachesAll`) |
| `queries` | serving: 2 requests, 2 pool models and a spare one, 3 queries; connections: 2 askers, 4 clients; agents: 2 executions, 2 sub-queries, 1 permit; 142 000 states | Single-flight as far as the code gives it; every query and execution ends; the main store stays usable; no answer from nothing |
| `contents` | cache: 2 keys, 2 coroutines, 1 slot; chats: 2 conversations, 3 questions; schema: 2 runners, 5 commands; cleaning: 4 pages; chunking: a page of up to 4 units and one of 1, a line of context of 1 token; assembly: 4 chunks of 2 sizes; 373 000 states | Ages, prompts and invalidations of served answers; turns of conversations; record of the schema; text, size and units of chunks; context of the direct path |
| `fused_context` | the assembly part alone | *violated*: the fused context exceeds the budget |

Bounds. Two documents suffice for dedup: the index and the probe relate pairs. Two
slots give two runs of two documents in flight; a job id excludes two runs of one
document as long as Redis keeps its keys. Two chunks give a batch before and a batch
after every fault. `MaxTries` is 1 or 2 where the code has 3: one redelivery shows what
a second try does to the leftovers of the first. Rows and objects carry no counters, so
nothing else is bounded there. Symmetry (documents, slots) is used in safety runs only.

In the other runs the hazards are races of two: two workers of one model (its guard is
one call), two sleepers and a latecomer at a bucket, two clients of a breaker with
threshold 2 (calls that pass before and after the trip), two coroutines at a cache, two
askers of a store, two executions at one permit, two answers in one conversation, two
upgrades. In `uploads` one file in the queue behind another shows whether the loop goes
on, and two tries show what a redelivered run does to a document whose outcome is
shown; `Ingested` is the set of files with a life beyond the store's requests. Counters that the code lets grow are cut by named bounds: `MaxDay`,
`MaxExpiries`, `Retries`, `MaxAsks`, `MaxClients`, `MaxQuestions`, `MaxCommands`. Pages,
chunks and texts are exhausted over all contents within their bounds: a third page joins
two short ones, a table has a header and three rows of every length, four chunks leave
one out of both the candidates and the context.

Fairness (`Fairness`) is weak, and only on what an event loop or a poll loop keeps
doing: the requests of the store's loop, the delivery of a stream, the steps of a run, the slots' polling per document, requests past their first
statement, the sweeper, threads already started, and clocks. No client call and no
fault is fair: nobody need add, remove or retry a file, interrupt a run (`WorkerDies`,
`TimesOut`), break a connection (`Reconnect`) or refuse one (`Refuse`).
`FollowedJobsSettle` supposes that a stream does not stay connected for ever: the events a
live one has missed are made up for by the snapshot of the next one only.

Each property of a passing run has one or two mutants of the code it would catch; they
stand next to the definitions they replace.

### What the violations show

* `ReadyNeverReaped`. `_reap_status` lists stale rows, then for each deletes vectors,
  object and row without looking at the status again (`orphan_sweeper.py:97-101`). A
  document finalized between the list and its turn is ingested, becomes ready, and is
  removed. The stuck pass does re-check, in `mark_stuck_failed`. No fault is needed.
* `DeletedIsPurged`. `DELETE` purges vectors and object and then commits, while a run in
  flight goes on: neither its upserts nor `mark_ready_if_processing` look at
  `deleted_at`. Its points stay: `ready` rows are never swept. PLAN.md:228 promises
  the purge.
* `ReadyIsSearchable`. `_filter_existing_documents` looks for the chunk ids in the whole
  collection, whoever stored them, and skips what it finds, while searches filter by
  user. The second user's document becomes ready with no point of its own. The same
  happens between two collections of one user, and deleting the first document takes
  the shared chunks from the second.
* `FusedWithinBudget`. `ContextAssembler.assemble` returns the chunks that did not fit as
  well (they are shown as sources); `ContextFusion` takes everything returned for used
  and gives every sub-query a section with all it found, a shared chunk twice. The
  budget that was enforced on the string the assembler built is not that of the string
  the model gets. `context_fusion.py:30` promises a token-bounded context.

Disagreements with the documents that need no run: PLAN.md:213 and Optimizations.md
OPT-60 say stuck documents go back to `queued`, the code sets `failed`
(`document_repository.py:228`); OPT-60 asks for a lease longer than the worst ingest,
the settings give 600 s against a job timeout of 900 s; `backend/README.md` places
the sweeper in the worker process, it runs in the API.

Others met while modelling, each visible in the definition named:

* Cache. A promoted entry starts over (`Promote`), so an answer can be served for its own
  time to live and a default one more, while Optimizations.md:976 says that volatile
  facts expire hourly. An invalidation that Redis does not get is lost
  (`InvalidateL2`). Semantic seeding forgets the prompt hash (`Restart`), and lookups
  without a system prompt accept entries made with one (`Matches`). Keys ignore the
  conversation history and the collection; semantic search ignores the temperature.
* Coalescing. A leader that fails, answers degraded, or finds the model's name changed
  does not release its own entry (`Resolve`, `SkipWrite`), where OPT-16 says that it is
  released; followers wait for the timeout. Answers of the spare model are stored under
  the primary's key (`SynthesizeSpare`, `Store`).
* Pool. Daily counters of an exhausted model are never reset (`ResetDailyIfNeeded`).
* Agents. A refetch ignores the semaphore (`StartSearch`). A sub-query without a
  collection in the plan gets "default", which a store on demand creates.
* Connections. Stores of other collections keep a client that the main store has closed
  (`CloseOld`), against the comment at rag_pipeline.py:72; a failed wrapper leaks the old
  client (`WrapFails`).
* Retrieval. Metadata filters are built and not passed to the store. The downgraded
  request loses its reranker threshold and `min_context_chunks`.
* Chunking. Splitting a table row group again loses its header (`Kept`); `chunk_index`
  starts over on every page (`SplitPage`); an exception on one page makes
  `split_documents` answer with no chunks (`SplitRaises`), and the document of such a file
  becomes ready. The size filter counts `page_content`, but `embed_content` is embedded
  (`qdrant_store.py:574-588`), which has the line of context before it (`SplitPage`): a chunk
  may need `PrefixTokens + ChunkSize` (`ChunksFit`). The default chunk size is the 512 tokens at
  which `embeddings.py:143-146` cuts an input, while Optimizations.md:1476-1477 says that all
  chunks are within the model's input length.
* Uploads. An upload that failed after its session was created cannot be retried: the
  server answers 409 to the retry of a `pending` document (`RetryRefused`). A run that was
  interrupted after `mark_ready` and is delivered again takes the ready row back to
  `processing`, perhaps to `failed` (`BeginIngest`), while the browser shows ready with its
  stream closed; `ShownIsCommitted` names this exception (`reopened`). An EventSource is
  closed for good by any answer other than 200, to its first request or to a
  reconnection (an API that restarts behind its proxy, an expired session); `onError`
  then ends the listener and changes no status (`uploadStore.js:265-268`), so the job shows
  `processing` whatever becomes of its document (`Refuse`), while `sse.js:16-17` takes a
  closed connection for one whose stream ended after a terminal phase. `FollowedJobsSettle`
  names this end.
* Migrator. A `down` beside an `up` can leave a gap in the record (`raced`).

`ReadyIsComplete` is a statement about one document with chunks of its own, no sweeper
pass and no user delete in progress; `ReadyIsSearchable` and `ReadyNeverReaped` show
what happens outside these conditions. `NoTakeover` needs Redis to keep the job keys: with
`"evict"` in `Faults` a retry starts a second run beside the slow first one.

## Proofs

Every safety property and every action property of the passing runs is proved, for all
values of the constants that satisfy the assumption its module names (`...Assumption`)
and without the bounds of the runs: any number of documents, users, slots, callers,
tasks, keys, conversations, pages or chunks. Where a theorem needs more than that
assumption, the hypothesis is in its statement and is explained here. Each proof rests on
an inductive invariant; `I => P`, `Init => I` and `I /\ [Next]_vars => I'` are separate
lemmas, with one step per action. The proof modules follow the groups of the runs:

| Module | About | Main theorems |
| --- | --- | --- |
| `DocumentIngestion_proofs` | types and dedup | `TypeCorrect`, `DedupIsExact` |
| `DocumentLifecycle_proofs` | refinement, attempts, stores | `AttemptsStayApart`, `RowsImplementLifecycle`, `RetryFindsObject`, `ReadyDocumentsComplete` |
| `UploadTracking_proofs` | the browser's view | `FinalIsCommitted` |
| `Guards_proofs` | pool, limiter, breaker, memory level | `DailyBudget`, `CooldownStays`, `PoolServes`, `RateIsKept`, `OutagesCostLittle`, `GuardsTypes` |
| `Queries_proofs` | coalescing, connections, agents | `OneFlightPerKey`, `MainStoreStaysUsable`, `GivesUpOnlyWithoutChunks`, `QueriesTypes` |
| `Contents_proofs` | cache, chats, schema | `AnswersAreFresh`, `PromptsAreKept`, `InvalidationsLast`, `AnswersAtHome`, `TurnsStayPaired`, `MigrationsKeepRecord` |
| `Texts_proofs` | cleaning, chunking, assembly | `CleaningKeepsText`, `ChunksAlwaysFit`, `ChunkingKeepsUnits`, `ContextIsSound` |
| `Data_proofs` | lemmas on numbers, sequences, folds, the LRU dictionary | |

### Ingestion

* `TypeCorrect`: `TypeOK` is not inductive: an action indexes `documents` with the
  document of a run, which may be `NoDoc` by type. `TypeInv` adds that a busy run and a
  busy sweeper have a document (`Placed`) and that a run past its download has a content
  (`Downloaded`).
* `DedupIsExact`: `OneActiveCopy` only speaks of ready rows, so it says nothing of the row
  a run is about to complete. `DedupInv` adds: active rows of one user never share a hash
  (`UniqueHash`, the index); past its claim, a run's row has a hash as long as the row
  exists (`Claimed`); ready rows have one (`HashKnown`); runs, jobs and admitted requests
  are for rows inserted before (`Known`), without which a row could be inserted under a
  run past its claim. The argument: all steps but three leave the table `Plain` (no row
  inserted, no hash changed, nothing made ready: `PlainSteps`), a run gets past its claim
  only by claiming (`AllMoves`), and what remains is upload session, claim and completion.
* `AttemptsStayApart` (`NoTakeover`): a row can only go from `failed` to `processing` by a
  job, and `RunsInv` says that two runs are never of one document (`Exclusive`) and that
  between its first statement and its last a run finds its row `processing` or failed by
  the sweeper (`UnderRun`). Hypothesis:
  `"evict" \notin Faults`. Redis keeps the keys of arq's jobs; without them a retry starts a
  second run beside the slow first one, and the property is false.
* `RowsImplementLifecycle` (`ImplementsLifecycle`): the full step simulation. Initial states
  map to initial states, and every step of the ingestion is a step of `DocumentLifecycle`
  or leaves `documents` as it is. It needs `RunsInv`: that a row which a run completes or
  fails is one it may complete or fail is a fact about runs, not about the statement. Same hypothesis.
* `RetryFindsObject` (`RetryableKeepsObject`): `StoresInv` relates the table to MinIO. A row
  with a hash has that content as its object (`HashStored`), so has a run that has not
  claimed its content yet (`RunStored`), a content of another type gets no hash
  (`Sniffed`), and the cascade of a run deletes the object of a row without hash only
  (`PurgeUnclaimed`). Same hypothesis; the
  property itself excludes API restarts.
* `ReadyDocumentsComplete` (`ReadyIsComplete`): `CompleteInv` relates the table to Qdrant,
  batch by batch. Its hypotheses are the conditions of the run `ingestion_complete`, for
  any number of documents instead of one: every document has a file of its own (`File`,
  with `[]UploadsOf(File)`) that shares no chunk with another (`Disjoint`), no age
  threshold passes (`Expirable = {}`), neither `"evict"` nor `"api"` is among the faults. They
  are not there for convenience: `ingestion_shared_chunks` and `ingestion_reap_ready` show
  the property false when chunks are shared and when a threshold passes.

### Uploads

`FinalIsCommitted` (`ShownIsCommitted`): a snapshot that was read, an event that waits in
the stream and what the page shows may all be old, so the invariant `TrackInv` says of each
of them that it was committed (`SaidIsCommitted`). It adds that no run is under way on a
ready document, unless one has taken it up again (`ReadyRests`): a redelivered run may
find its document ready, but it moves the row, and is noted, with the first thing it
does. And a document has a row before anything else is known or asked of it (`RowFirst`). No
hypothesis: lost events, reconnections, refusals and retries only make the browser know
less.

### Guards

* `DailyBudget`: the counter of a model plus the calls under way to it (`BudgetCovered`)
  stay within the limit; the check in the router is strict and the guard covers all workers
  but one, which is `RpdGuard + 1 >= Cardinality(Workers)` of `PoolAssumption`.
* `PoolServes`: the pool starts and moves as `LLMService` allows, the safety half of
  `ImplementsService`. It rests on `InOnePlace` (a call is on the queue once or with one
  worker), which makes the queue as long as its callers are many, so that a full queue
  means `QueueMax` pending calls. `CooldownStays` is an action property.
* `RateIsKept` (`RateKept`): a bound over stretches of time, turned into a statement about
  states by the observer `allowance`. The invariant `Earned` says what the observer still
  holds at least (`Due`): the units its sleepers have waited for so far (`Owed`), the
  started token once for every permit that could still sleep on it (`Room`), and the rest
  of the bucket. Sleepers that woke to one token share it, at most `MaxConcurrent` of
  them; hence the hypotheses `Credit >= MaxConcurrent` and
  `Burst >= MaxConcurrent + RpmCapacity - 1`, which the run takes with equality. They are the
  strength of the promise: the configured rate times the number of permits, not the
  configured rate.
* `OutagesCostLittle`: by state of the circuit (`CostBound`), a closed one has counted at
  least the failures of this period, a half open one starts a period, and for an open one
  the failures plus the calls that passed before it tripped stay below the bound: every
  failure ends one of these calls, and a ping's failure, which may trip the circuit, ends a
  call too.
* `GuardsTypes`: the types of the four parts, with a closed circuit short of its threshold,
  the bound of the memory level and one slot per key.

### Queries

* `OneFlightPerKey` (`SingleFlight`): `ServingInv` says that the key of a leader is
  registered (`LeadersRegistered`) and that a request whose event was set is marked as
  one whose key was released (`WokenAlone`).
* `MainStoreStaysUsable`: clients are built in order, so that a new one has a fresh number
  (`BuiltInOrder`); the replaced client differs from the one in use, and from the wrapper's
  when the loop comes to close it (`ReplacedUnused`); no client means no loop
  (`ClosedForGood`).
* `GivesUpOnlyWithoutChunks`: whatever is done has an outcome (`DoneHasOutcome`), and no
  sub-query waits or runs once an execution has fused (part of `AgentTypeOK`), so that what
  it decided on stays as it was. `OneExecution` reduces every step to the execution that
  makes it.

### Contents

* `AnswersAreFresh`, `PromptsAreKept`, `InvalidationsLast` share `CacheInv`: both levels hold
  entries whose age and time left stay below the bound, and none of an invalidated key
  (`LevelsBounded`); a point of the semantic index that says it was made with a prompt was
  (`IndexHonest`); what a coroutine carries between two steps is as good as what the levels
  hold (`CallsSound`); an invalidation that met nobody has removed its key from L1 and has
  still met nobody when it comes to L2 (`Undisturbed`).
* `AnswersAtHome`, `TurnsStayPaired`: `ChatInv` says that messages and queries under way are in
  the conversation of their question (`AtHome`), that a conversation without overlap has one
  query at most (`OneFlight`), and that such a conversation is paired and the place its
  answer will take is right after the question (`Conversing`, `Awaits`), whatever edits,
  regenerations and deletions cut off.
* `MigrationsKeepRecord`: what a runner read in its first transaction is used in later
  ones, so the invariant says what of it is still true (`ReadsHold`): an upgrade's list
  contains every version that is not applied, a downgrade's is the latest version and
  nobody runs beside it. With the first, the lowest version of the list is the next one
  without a gap, also when another upgrade has applied part of the list; with the second,
  taking away the latest version leaves no gap. Both are lost by the race the property
  excludes.

### Texts and the lemmas on data

* `CleaningKeepsText`: `TextKept` is inductive with the types (`CleaningInv`); the work is in
  the lemmas about flattening sequences (`Data_proofs`).
* `ChunksAlwaysFit`, `ChunkingKeepsUnits`: lemmas about each splitter (units kept in their
  order, group within `ChunkSize`, overlap short enough to leave room) carry the invariant
  `ChunkInv`: no page raised and all chunks made are sound (`ChunksSound`), every hash is one
  of theirs (`SeenSaid`), every page that was split is kept (`PageKept`) and nothing was said
  twice (`SaidOnce`), or a page raised and there is no chunk. `FewPiecesFit` says that a
  splitter that makes no more than one piece had nothing to split: the re-split of an oversized chunk is never
  ineffective. `ChunkingAssumption` has every unit cost
  at most `ChunkSize` and no page empty.
* `ContextIsSound`: `AssemblyInv` says what the candidates are at each step (`RankedOut`: distinct,
  fetched, and not all gone; `Enough`: as many as `min_context_chunks` or all there are) and
  what the assembler made of them (`Assembling`).

What a fold computes is a statement about every sequence, hence needs induction over data.
The induction theorems of the library take a predicate as a parameter, which the provers
cannot instantiate. `Data_proofs` therefore goes another way: natural numbers have a
least element in every non-empty subset (`LeastExists`, from the well-founded orderings of
the library), so that a *set* of numbers that contains 0 and with each number the next one
is all of `Nat` (`Induction`). A fold is shown to exist as a function on the subsets of its
domain (`FoldExists`, `LeftFoldExists`), each fold of the model gets a lemma that states its
value step by step (`...InSteps`), and what is to be shown is proved for the set of numbers
of steps after which it holds.

### Only model-checked

Liveness: `ProcessingEnds`, `PendingEnds`, `FailedEnds`, `EveryCallPasses`,
`CircuitRecovers`, `FollowedJobsSettle`, `DrainReachesAll`, `EveryQueryEnds`,
`ExecutionsEnd`, and the fairness half of `ImplementsService`. They need `ENABLED` of the
fair actions, which is out of this prover's reach. The four violations are
counterexamples of TLC and have no proof to go with them.

## Not modelled

* Model vendor clients, prompts, metrics, logging, configuration classes, reranker and
  embedding maths, docker files, React components other than the chat page: pure I/O,
  numeric, declarative or layout.
* `llm/provider_health.py`: `BaseRAG.generate` marks a provider only when it was given a
  fallback model, and `RAGFactory` gives it none.
* The variant downgrade of `_handle_fallback`: `simple` is the only registered variant.
* The superseded `backend/routers`, `backend/repos`, `backend/auth` and alembic trees,
  which `backend/main.py` does not mount.
* Read-only operations: listing and getting documents, health checks, statistics of the
  caches, `migrator.status`.
