------------------------------ MODULE MCContents ------------------------------
(***************************************************************************)
(* What the system stores and shows, each part on its own: cached answers, *)
(* conversations, the schema, chunks, contexts. part says which one a      *)
(* behaviour exercises.                                                    *)
(***************************************************************************)
EXTENDS CacheManager, ChatConversations, SchemaMigrations, PageCleaning, Chunking, ContextAssembly

CONSTANTS
  plain, agent,             \* cache keys
  small, middle, large      \* texts

MCTopic == [k \in CacheKeys |-> "same"]
MCPrompted == [k \in CacheKeys |-> k = agent]

MCTokensOf == [t \in Texts |-> IF t = small THEN 1 ELSE IF t = middle THEN 2 ELSE 4]
PagesOf(has, n) == [has : has, units : BoundedSeq(Texts, n) \ {<<>>}]
MCPages == {<<p, q>> : p \in PagesOf({{}, {"code"}, {"list"}, {"table", "list"}}, 4),
                       q \in PagesOf({{"list"}}, 1)}

VARIABLE part

contentsVars == <<part, cacheVars, chatVars, migrationVars, cleaningVars, chunkingVars, assemblyVars>>

(* The choices a part starts with are made in its own behaviours only.     *)
ContentsInit ==
  /\ part \in {"cache", "chats", "schema", "cleaning", "chunking", "assembly"}
  /\ CacheInit /\ ChatInit /\ MigrationInit
  /\ IF part = "cleaning" THEN CleaningInit
     ELSE raw = <<>> /\ next = 1 /\ cleaned = <<>> /\ short = <<>>
  /\ IF part = "chunking" THEN ChunkingInit
     ELSE /\ file = <<>> /\ done = 0 /\ chunks = <<>> /\ seen = {}
          /\ raised = FALSE /\ refused = {}
  /\ IF part = "assembly" THEN AssemblyInit
     ELSE /\ path = "direct" /\ strategy = "none" /\ size = <<>> /\ found = <<>>
          /\ step = "retrieve" /\ fetched = <<>> /\ ranked = <<>> /\ context = <<>>

ContentsNext ==
  /\ \/ /\ part = "cache" /\ CacheNext
        /\ UNCHANGED <<chatVars, migrationVars, cleaningVars, chunkingVars, assemblyVars>>
     \/ /\ part = "chats" /\ ChatNext
        /\ UNCHANGED <<cacheVars, migrationVars, cleaningVars, chunkingVars, assemblyVars>>
     \/ /\ part = "schema" /\ MigrationNext
        /\ UNCHANGED <<cacheVars, chatVars, cleaningVars, chunkingVars, assemblyVars>>
     \/ /\ part = "cleaning" /\ CleaningNext
        /\ UNCHANGED <<cacheVars, chatVars, migrationVars, chunkingVars, assemblyVars>>
     \/ /\ part = "chunking" /\ ChunkingNext
        /\ UNCHANGED <<cacheVars, chatVars, migrationVars, cleaningVars, assemblyVars>>
     \/ /\ part = "assembly" /\ AssemblyNext
        /\ UNCHANGED <<cacheVars, chatVars, migrationVars, cleaningVars, chunkingVars>>
  /\ UNCHANGED part

ContentsSpec == ContentsInit /\ [][ContentsNext]_contentsVars
=============================================================================
