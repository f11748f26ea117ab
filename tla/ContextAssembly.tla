--------------------------- MODULE ContextAssembly ---------------------------
(***************************************************************************)
(* From a query to the context its answer is generated from: on the direct *)
(* path retrieve, rank, fall back to MMR, fill up and assemble; on the     *)
(* agent path the fusion of what the sub-queries found.                    *)
(* Source: rag/base_rag.py (query), rag/retrieval/*, rag/context/*,        *)
(* vectorstore/reranker.py, agents/fusion/context_fusion.py.               *)
(*                                                                         *)
(* Chunks are numbered by the relevance the store gives them, the best     *)
(* first. Scores are left out: a ranking is any order they could lead to.  *)
(* The retrievers build a filter from the metadata filters of a request    *)
(* and do not hand it to the store: it has no part in what is found.       *)
(***************************************************************************)
EXTENDS Naturals, Sequences, FiniteSets, SequencesExt

CONSTANTS
  Stored,           \* chunks the store has in the scope of a query, at most
  Sizes,            \* tokens a chunk may have
  Separator,        \* tokens between two chunks of a context
  Budget,           \* max_context_tokens
  TopK, CoarseK,    \* chunks fetched, and fetched for the cross-encoder
  MinContext,       \* min_context_chunks
  MaxFound          \* bound: chunks a sub-query finds

ASSUME AssemblyAssumption ==
  /\ {Stored, Separator, Budget, TopK, CoarseK, MinContext, MaxFound} \subseteq Nat
  /\ TopK > 0 /\ CoarseK >= TopK /\ MinContext > 0
  /\ Sizes \subseteq Nat \ {0}

VARIABLES
  path,         \* "direct", or "agent" for what the fusion is given
  strategy,     \* rerank_strategy
  size,         \* tokens of the chunks
  found,        \* direct: chunks in the scope; agent: what each sub-query found
  step,         \* where the query is
  fetched,      \* chunks
  ranked,       \* ranked_chunks
  context       \* what is in the context, part by part

assemblyVars == <<path, strategy, size, found, step, fetched, ranked, context>>

Ids == 1 .. Stored
Least(m, n) == IF m < n THEN m ELSE n
FirstN(s, n) == SubSeq(s, 1, Least(n, Len(s)))
AddOther(rest, c, S) == IF c \in S THEN rest ELSE Append(rest, c)
Without(s, S) == FoldLeft(LAMBDA rest, c : AddOther(rest, c, S), <<>>, s)
InRelevance(S) == Without([i \in Ids |-> i], Ids \ S)
NoRepeats(s) == Cardinality(ToSet(s)) = Len(s)

AssemblyInit ==
  /\ strategy \in {"none", "mmr", "cross_encoder"}
  /\ size \in [Ids -> Sizes]
  /\ \/ path = "direct" /\ found \in {[i \in 1 .. n |-> i] : n \in 0 .. Stored}
     \/ /\ path = "agent" /\ strategy = "mmr"
        /\ found \in [1 .. 2 -> {s \in BoundedSeq(Ids, MaxFound) : NoRepeats(s)}]
        /\ \E i \in 1 .. 2 : found[i] # <<>>
  /\ step = "retrieve"
  /\ fetched = <<>> /\ ranked = <<>> /\ context = <<>>

(* --- The ranker ---------------------------------------------------------- *)

Orders(S) == {s \in [1 .. Cardinality(S) -> S] : ToSet(s) = S}

(* _rank_mmr: the most relevant chunk, then the others in any order; with  *)
(* an error the order stays.                                               *)
MmrOrders(cs) ==
  LET best == CHOOSE c \in ToSet(cs) : \A d \in ToSet(cs) : c <= d
  IN  {cs} \cup {<<best>> \o s : s \in Orders(ToSet(cs) \ {best})}

(* The cross-encoder keeps the best of the candidates, at least one. *)
Reranked(cs) == {S \in SUBSET ToSet(cs) : Cardinality(S) \in 1 .. TopK}

(* rank: one chunk or none is passed on as it is. *)
RankedBy(how, cs) ==
  IF Len(cs) <= 1 \/ how = "none" THEN {cs}
  ELSE IF how = "mmr" THEN MmrOrders(cs)
  ELSE UNION {MmrOrders(InRelevance(S)) : S \in Reranked(cs)}

(* --- The direct path ----------------------------------------------------- *)

(* The hybrid search, or the dense one when it fails. *)
Retrieve ==
  /\ path = "direct" /\ step = "retrieve"
  /\ fetched' = FirstN(found, IF strategy = "cross_encoder" THEN CoarseK ELSE TopK)
  /\ step' = "rank"
  /\ UNCHANGED <<path, strategy, size, found, ranked, context>>

(* Both searches fail. *)
RetrieveFails ==
  /\ path = "direct" /\ step = "retrieve"
  /\ step' = "error"
  /\ UNCHANGED <<path, strategy, size, found, fetched, ranked, context>>

Rank ==
  /\ step = "rank"
  /\ ranked' \in RankedBy(strategy, fetched)
  /\ step' = "threshold"
  /\ UNCHANGED <<path, strategy, size, found, fetched, context>>

(* The best score of the cross-encoder is good enough, or there is none.   *)
PassThreshold ==
  /\ step = "threshold"
  /\ step' = "fill"
  /\ UNCHANGED <<path, strategy, size, found, fetched, ranked, context>>

(* It is not: everything fetched is ranked again. One chunk has no score.  *)
RankAgain ==
  /\ step = "threshold" /\ strategy = "cross_encoder" /\ Len(fetched) > 1
  /\ ranked' \in RankedBy("mmr", fetched)
  /\ step' = "fill"
  /\ UNCHANGED <<path, strategy, size, found, fetched, context>>

\* Mutant. The chunks that fill up are taken from all that was fetched.
BackfillAny == FirstN(fetched, MinContext - Len(ranked))

Backfill == FirstN(Without(InRelevance(ToSet(fetched)), ToSet(ranked)), MinContext - Len(ranked))

(* Too few chunks: those that were ranked out come back, or the store is   *)
(* asked for twice as many.                                                *)
FillUp ==
  /\ step = "fill"
  /\ IF Len(ranked) \in 1 .. MinContext - 1
       THEN IF Backfill # <<>>
              THEN ranked' = ranked \o Backfill /\ UNCHANGED fetched
            ELSE IF strategy # "cross_encoder"
              THEN /\ fetched' = FirstN(found, 2 * TopK)
                   /\ ranked' \in RankedBy(strategy, fetched')
            ELSE UNCHANGED <<fetched, ranked>>
       ELSE UNCHANGED <<fetched, ranked>>
  /\ step' = "assemble"
  /\ UNCHANGED <<path, strategy, size, found, context>>

(* --- The assembler ------------------------------------------------------- *)

TokensIn(cs, sizes) == FoldSeq(LAMBDA c, n : n + sizes[c], 0, cs)
                         + IF cs = <<>> THEN 0 ELSE (Len(cs) - 1) * Separator
Spent(cs) == TokensIn(cs, size)

Fits(used, c) == Spent(Append(used, c)) <= Budget

(* assemble: a chunk that does not fit is passed over, not the end.        *)
AddFitting(used, c) == IF Fits(used, c) THEN Append(used, c) ELSE used
Assembled(cs) == FoldLeft(AddFitting, <<>>, cs)

AssembleContext ==
  /\ step = "assemble"
  /\ context' = IF Assembled(ranked) = <<>> THEN <<>> ELSE <<Assembled(ranked)>>
  /\ step' = IF Assembled(ranked) = <<>> THEN "no context" ELSE "generate"
  /\ UNCHANGED <<path, strategy, size, found, fetched, ranked>>

(* --- The agent path ------------------------------------------------------ *)

Reserved == LET answers == Without(found, {<<>>})
            IN  [i \in DOMAIN answers |-> Head(answers[i])]
AddUnreserved(rest, c) == AddOther(rest, c, ToSet(Reserved) \cup ToSet(rest))
Remainder == FoldLeft(AddUnreserved, <<>>, FlattenSeq(found))

(* fuse: the best chunk of each sub-query first, then the ranked others.   *)
(* The assembler hands back the chunks it did not use as well, and all of  *)
(* them count as used: every sub-query gets its section with all it found. *)
Fuse ==
  /\ path = "agent" /\ step = "retrieve"
  /\ \E others \in RankedBy(strategy, Remainder) :
       LET all == Reserved \o others
       IN  /\ ranked' = all
           /\ IF Assembled(all) = <<>>
                THEN step' = "no context" /\ UNCHANGED context
                ELSE /\ step' = "generate"
                     /\ context' = [i \in DOMAIN found |->
                                      Without(found[i], Ids \ ToSet(all))]
  /\ UNCHANGED <<path, strategy, size, found, fetched>>

AssemblyNext ==
  \/ Retrieve \/ RetrieveFails \/ Rank \/ PassThreshold \/ RankAgain \/ FillUp
  \/ AssembleContext \/ Fuse

AssemblySpec == AssemblyInit /\ [][AssemblyNext]_assemblyVars

(***************************************************************************)
(* Properties.                                                             *)
(***************************************************************************)
\* What an answer is generated from on the direct path stays within the token
\* budget and says nothing twice, and it was chosen from as many chunks as are
\* asked for, where the store has them, whichever way ranking, threshold and
\* filling up went. A query has no context only when no chunk fits in.
ContextSound ==
  /\ path = "direct" /\ step = "generate"
       => /\ context # <<>> /\ Spent(context[1]) <= Budget /\ NoRepeats(context[1])
          /\ NoRepeats(ranked) /\ Len(ranked) >= Least(MinContext, Len(fetched))
  /\ step = "no context" => \A i \in DOMAIN ranked : size[ranked[i]] > Budget

\* The context of the agent path stays within the token budget.
FusedWithinBudget ==
  path = "agent" /\ step = "generate" => Spent(FlattenSeq(context)) <= Budget
=============================================================================
