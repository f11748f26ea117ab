------------------------------ MODULE Chunking ------------------------------
(***************************************************************************)
(* The chunker: cleaned pages are tagged with their structure, split       *)
(* accordingly, filtered and freed of duplicates; what is embedded of a    *)
(* chunk has a line of context before it.                                  *)
(* Source: chunking/chunker.py, chunking/structure_preserver.py.           *)
(*                                                                         *)
(* A page is a sequence of units: the rows of a table (its header first),  *)
(* the items of a list, the pieces of text that the separators of a        *)
(* splitter isolate. A unit is a text with a number of tokens, and no      *)
(* longer than a chunk may be; what a chunk says is its sequence of texts. *)
(***************************************************************************)
EXTENDS Naturals, Sequences, FiniteSets, SequencesExt

CONSTANTS
  Texts,
  TokensOf,         \* [Texts -> tokens]
  Boilerplate,      \* texts the boilerplate pattern matches
  Sparse,           \* texts with too few letters for the alpha gate
  ChunkSize, Overlap, MinTokens,
  GateTokens,       \* length from which the alpha gate lets everything pass
  PrefixTokens,     \* length of the line "Title: ... | Section: ..."
  Pages             \* files: sequences of pages [has, units], no page empty

ASSUME ChunkingAssumption ==
  /\ TokensOf \in [Texts -> 1 .. ChunkSize]
  /\ Boilerplate \subseteq Texts /\ Sparse \subseteq Texts
  /\ ChunkSize \in Nat /\ Overlap \in Nat /\ MinTokens \in Nat /\ GateTokens \in Nat
  /\ PrefixTokens \in Nat \ {0}
  /\ Pages \subseteq Seq([has : SUBSET {"table", "code", "list"}, units : Seq(Texts) \ {<<>>}])

VARIABLES
  file,         \* the cleaned pages
  done,         \* pages split so far
  chunks,       \* all_chunks: sequence of [says, page, index, embeds], the last
                \*  the length of embed_content
  seen,         \* seen_hashes
  raised,       \* split_documents has caught an exception
  refused       \* what the filter has removed (history)

chunkingVars == <<file, done, chunks, seen, raised, refused>>

ChunkingInit ==
  /\ file \in Pages
  /\ done = 0
  /\ chunks = <<>> /\ seen = {} /\ refused = {}
  /\ raised = FALSE

(* _resolve_structure_type: a page may have several of the structures.     *)
Structure(page) ==
  IF "table" \in page.has THEN "table"
  ELSE IF "code" \in page.has THEN "code"
  ELSE IF "list" \in page.has THEN "list" ELSE "text"

Cost(units) == FoldSeq(LAMBDA u, n : n + TokensOf[u], 0, units)

(* The rows of a table are joined by line ends, which count one token.     *)
Tokens(units, kind) == Cost(units) + IF kind = "table" /\ units # <<>> THEN Len(units) - 1 ELSE 0

(* Appends to the group, or closes it and opens the next one with open.    *)
Grows(g, u) == [g EXCEPT !.last = Append(@, u)]
Closes(g, open, u) == [groups |-> Append(g.groups, g.last), last |-> Append(open, u)]
NoGroups(first) == [groups |-> <<>>, last |-> first]

(* The longest end of the group that the splitter repeats before u.        *)
Repeated(g, u, overlap, kind) ==
  LET ends == {n \in 0 .. Len(g) : LET end == SubSeq(g, Len(g) - n + 1, Len(g))
                                   IN  /\ Cost(end) <= overlap
                                       /\ Tokens(Append(end, u), kind) <= ChunkSize}
      n == CHOOSE m \in ends : \A k \in ends : k <= m
  IN  SubSeq(g, Len(g) - n + 1, Len(g))

AddPiece(g, u, overlap, kind) ==
  IF g.last # <<>> /\ Tokens(Append(g.last, u), kind) > ChunkSize
    THEN Closes(g, Repeated(g.last, u, overlap, kind), u) ELSE Grows(g, u)

Pieces(units, overlap, kind) ==
  FoldLeft(LAMBDA g, u : AddPiece(g, u, overlap, kind), NoGroups(<<>>), units)

(* RecursiveCharacterTextSplitter, as the chunker uses it. *)
Merged(units, overlap, kind) ==
  LET all == Pieces(units, overlap, kind)
  IN  IF all.last = <<>> THEN all.groups ELSE Append(all.groups, all.last)

AddRow(g, u, header) ==
  IF Cost(g.last) + TokensOf[u] > ChunkSize /\ Len(g.last) > 1
    THEN Closes(g, <<header>>, u) ELSE Grows(g, u)

Rows(header, rows) == FoldLeft(LAMBDA g, u : AddRow(g, u, header), NoGroups(<<header>>), rows)

\* Mutant. The last group of rows is not emitted.
SplitTableOpen(units) ==
  LET all == Rows(Head(units), Tail(units))
  IN  IF Tokens(units, "table") <= ChunkSize \/ all.groups = <<>> THEN <<units>>
      ELSE all.groups

(* _split_table: groups of rows, each under the header. *)
SplitTable(units) ==
  LET all == Rows(Head(units), Tail(units))
  IN  IF Tokens(units, "table") <= ChunkSize \/ Len(units) = 1 THEN <<units>>
      ELSE Append(all.groups, all.last)

AddItem(g, u) ==
  IF Cost(g.last) + TokensOf[u] > ChunkSize /\ g.last # <<>>
    THEN Closes(g, <<Last(g.last)>>, u) ELSE Grows(g, u)

ListItems(units) == FoldLeft(AddItem, NoGroups(<<>>), units)

(* _split_list: groups of items, each with the last item of the one before.*)
SplitList(units) ==
  IF Cost(units) <= ChunkSize THEN <<units>>
  ELSE Append(ListItems(units).groups, ListItems(units).last)

(* _split_by_structure *)
Split(page) ==
  LET kind == Structure(page)
  IN  IF kind = "table" THEN SplitTable(page.units)
      ELSE IF kind = "list" THEN SplitList(page.units)
      ELSE Merged(page.units, Overlap, kind)

Junk(c, kind) == Tokens(c, kind) < MinTokens \/ (Len(c) = 1 /\ c[1] \in Boilerplate)

(* The alpha gate: too few letters for a chunk so short. *)
Gated(c, kind) == Tokens(c, kind) < GateTokens /\ ToSet(c) \subseteq Sparse

(* The parts of a chunk that is split again do not pass the alpha gate.    *)
Passing(cs, kind) ==
  FlattenSeq([i \in DOMAIN cs |-> IF Junk(cs[i], kind) THEN <<>> ELSE <<cs[i]>>])

Oversized(c, kind) == Tokens(c, kind) > ChunkSize

\* Mutant. Only text is split again.
KeptText(c, kind) ==
  IF Junk(c, kind) \/ Gated(c, kind) THEN <<>>
  ELSE IF Oversized(c, kind) /\ kind = "text" THEN Passing(Merged(c, 0, kind), kind)
  ELSE <<c>>

(* _filter_chunks, one chunk: refused, split again when too long and that  *)
(* makes more than one of it, or kept.                                     *)
Kept(c, kind) ==
  IF Junk(c, kind) \/ Gated(c, kind) THEN <<>>
  ELSE IF Oversized(c, kind) /\ Len(Merged(c, 0, kind)) > 1
         THEN Passing(Merged(c, 0, kind), kind)
  ELSE <<c>>

Refused(c, kind) ==
  IF Junk(c, kind) \/ Gated(c, kind) THEN {c}
  ELSE {s \in ToSet(Merged(c, 0, kind)) : Oversized(c, kind) /\ Junk(s, kind)}

AddNew(kept, c) == IF c \in seen \/ Contains(kept, c) THEN kept ELSE Append(kept, c)

(* _deduplicate: across all pages of the file. *)
Unique(cs) == FoldLeft(AddNew, <<>>, cs)

(* split_documents, one page. The index of a chunk counts from the start   *)
(* of its page; _prepend_context lengthens what is embedded of it.         *)
SplitPage ==
  /\ done < Len(file) /\ ~raised
  /\ done' = done + 1
  /\ LET page == file[done + 1]
         kind == Structure(page)
         split == Split(page)
         kept == Unique(FlattenSeq([i \in DOMAIN split |-> Kept(split[i], kind)]))
     IN  /\ chunks' = chunks \o [i \in DOMAIN kept |->
                  [says |-> kept[i], page |-> done + 1, index |-> i - 1,
                   embeds |-> PrefixTokens + Tokens(kept[i], kind)]]
         /\ seen' = seen \cup ToSet(kept)
         /\ refused' = refused \cup UNION {Refused(c, kind) : c \in ToSet(split)}
  /\ UNCHANGED <<file, raised>>

\* Mutant. The chunks of the pages before are returned.
SplitStops ==
  /\ done < Len(file) /\ ~raised
  /\ raised' = TRUE
  /\ UNCHANGED <<file, done, chunks, seen, refused>>

(* A page that cannot be split (a text the tokenizer refuses) leaves the   *)
(* file without any chunk, those of the pages before included.             *)
SplitRaises ==
  /\ done < Len(file) /\ ~raised
  /\ raised' = TRUE
  /\ chunks' = <<>>
  /\ UNCHANGED <<file, done, seen, refused>>

ChunkingNext == SplitPage \/ SplitRaises

ChunkingSpec == ChunkingInit /\ [][ChunkingNext]_chunkingVars

(***************************************************************************)
(* Properties.                                                             *)
(***************************************************************************)
\* The text of no chunk is longer than a chunk may be, although groups of rows
\* are counted without the line ends between them, a header or an item is
\* repeated, and a header may leave no room for a row (_filter_chunks). What is
\* embedded of it, which is not filtered any more, exceeds that by no more than
\* the line of context: so much room must the embedding model have.
ChunksFit ==
  \A i \in DOMAIN chunks :
    /\ Tokens(chunks[i].says, Structure(file[chunks[i].page])) <= ChunkSize
    /\ chunks[i].embeds <= PrefixTokens + ChunkSize

\* A file is chunked whole or not at all. What a split page said can be read in
\* the chunks: its groups, without what they repeat, are its units in their
\* order, and every unit is in a chunk unless the filter refused the group that
\* had it; no two chunks say the same. After an exception there is no chunk
\* (split_documents).
Regrouped(page) ==
  LET cs == Split(page)
  IN  CASE Structure(page) \in {"table", "list"} ->
             Head(cs) \o FlattenSeq([i \in 1 .. Len(cs) - 1 |-> Tail(cs[i + 1])])
        [] OTHER -> page.units

UnitsKept ==
  IF raised THEN chunks = <<>>
  ELSE /\ \A p \in 1 .. done :
            /\ Regrouped(file[p]) = file[p].units
            /\ \A u \in ToSet(file[p].units) :
                 \/ \E i \in DOMAIN chunks : Contains(chunks[i].says, u)
                 \/ \E c \in refused : Contains(c, u)
       /\ \A i, j \in DOMAIN chunks : chunks[i].says = chunks[j].says => i = j
=============================================================================
