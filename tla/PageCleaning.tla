---------------------------- MODULE PageCleaning ----------------------------
(***************************************************************************)
(* The pages of a loaded file, cleaned one by one: lines that repeat on    *)
(* many pages are stripped, short pages wait for a page to join.           *)
(* Source: chunking/document_cleaner.py.                                   *)
(*                                                                         *)
(* A page is its running header, if it has one, and the rest of its text,  *)
(* of which only the length counts; what _clean_text takes away is not     *)
(* part of the rest.                                                       *)
(***************************************************************************)
EXTENDS Naturals, Sequences, FiniteSets, SequencesExt

CONSTANTS
  MaxPages,         \* bound: pages of the file
  HeaderPages,      \* pages a line must be on to be a running header
  MinChars,         \* _min_chars_per_page; a header has length 1
  MaxChars          \* bound: length of the rest of a page

ASSUME CleaningAssumption == {MaxPages, HeaderPages, MinChars, MaxChars} \subseteq Nat

VARIABLES
  raw,          \* pages as loaded: sequence of [header, rest]
  next,         \* page to clean next
  cleaned,      \* pages kept: sequence of texts, a text being a sequence of items
  short         \* short_buffer: texts of the short pages that wait

cleaningVars == <<raw, next, cleaned, short>>

CleaningInit ==
  /\ \E n \in 0 .. MaxPages : raw \in [1 .. n -> [header : BOOLEAN, rest : 0 .. MaxChars]]
  /\ next = 1
  /\ cleaned = <<>> /\ short = <<>>

(* _detect_running_headers: looks at the pages before they are cleaned.    *)
IsRunning == Cardinality({i \in DOMAIN raw : raw[i].header}) >= HeaderPages

HeaderOf(i) == IF raw[i].header /\ ~IsRunning THEN <<[page |-> i, part |-> "header"]>> ELSE <<>>
RestOf(i) == IF raw[i].rest > 0 THEN <<[page |-> i, part |-> "rest"]>> ELSE <<>>
CleanText(i) == HeaderOf(i) \o RestOf(i)
Length(i) == Len(HeaderOf(i)) + raw[i].rest

(* _clean_documents, one page. An empty page is dropped, a short one waits *)
(* and is put in front of the next page that is long enough.               *)
CleanPage ==
  /\ next <= Len(raw)
  /\ next' = next + 1
  /\ \/ /\ CleanText(next) = <<>>
        /\ UNCHANGED <<cleaned, short>>
     \/ /\ CleanText(next) # <<>> /\ Length(next) < MinChars
        /\ short' = Append(short, CleanText(next))
        /\ UNCHANGED cleaned
     \/ /\ CleanText(next) # <<>> /\ Length(next) >= MinChars
        /\ cleaned' = Append(cleaned, FlattenSeq(short) \o CleanText(next))
        /\ short' = <<>>
  /\ UNCHANGED raw

\* Mutant. Short pages at the end are kept only when there is nothing else.
FlushNothing ==
  /\ next = Len(raw) + 1 /\ short # <<>>
  /\ cleaned' = IF cleaned = <<>> THEN short ELSE cleaned
  /\ short' = <<>>
  /\ UNCHANGED <<raw, next>>

(* After the last page: short pages join the last page kept, or are kept   *)
(* as they are when there is none.                                         *)
FlushShort ==
  /\ next = Len(raw) + 1 /\ short # <<>>
  /\ cleaned' = IF cleaned = <<>> THEN short
                ELSE [cleaned EXCEPT ![Len(cleaned)] = @ \o FlattenSeq(short)]
  /\ short' = <<>>
  /\ UNCHANGED <<raw, next>>

CleaningNext == CleanPage \/ FlushShort

CleaningSpec == CleaningInit /\ [][CleaningNext]_cleaningVars

(***************************************************************************)
(* Properties.                                                             *)
(***************************************************************************)
\* Cleaning keeps every text once and in its order, whichever pages are short:
\* nothing but running headers and empty pages is left out, neither by the
\* buffer of short pages nor by what is done with it after the last page.
TextKept ==
  FlattenSeq(cleaned) \o FlattenSeq(short) = FlattenSeq([i \in 1 .. next - 1 |-> CleanText(i)])
=============================================================================
