------------------------- MODULE DocumentRepository -------------------------
(***************************************************************************)
(* The SQL statements of backend/repositories/document_repository.py, each *)
(* as a function of the row it touches (a statement on one primary key     *)
(* changes one row) or of the whole `documents' table.  Every statement    *)
(* here is one atomic database step: READ COMMITTED re-evaluates the WHERE *)
(* clause of an UPDATE once it holds the row lock.                         *)
(*                                                                         *)
(* A row keeps status, deleted_at (as a flag), content_hash (as the        *)
(* content it is the hash of) and, for its timestamps, one flag: `expired' *)
(* says that the timestamp the sweeper compares for the present status     *)
(* (updated_at for pending and failed, processing_started_at for           *)
(* processing) is older than that status's threshold.                      *)
(***************************************************************************)

CONSTANTS
  Docs,        (* document ids: primary keys, drawn from UUIDs, never reused *)
  Users,       (* tenants                                                    *)
  Owner,       (* Owner[d]: the user_id of document d                        *)
  Contents,    (* the file contents clients upload                           *)
  NoContent    (* content_hash IS NULL, or no object under the key           *)

ASSUME RepositoryAssumption ==
  /\ Owner \in [Docs -> Users]
  /\ NoContent \notin Contents

(* "absent": not inserted yet; "removed": hard-deleted.  The others are the *)
(* values of documents.status.                                              *)
Statuses == {"absent", "pending", "processing", "ready", "failed", "removed"}

Rows == [status  : Statuses,
         deleted : BOOLEAN,
         hash    : Contents \cup {NoContent},
         expired : BOOLEAN]

BlankRow(s) == [status |-> s, deleted |-> FALSE, hash |-> NoContent, expired |-> FALSE]

Exists(row) == row.status \notin {"absent", "removed"}
Active(row) == Exists(row) /\ ~row.deleted

-----------------------------------------------------------------------------
(* Statements on one row. *)

Create(row) == BlankRow("pending")

\* update_status(doc_id, "processing"): unconditional, restarts the lease.
StartProcessing(row) ==
  IF Exists(row) THEN [row EXCEPT !.status = "processing", !.expired = FALSE] ELSE row

MarkReadyIfProcessing(row) ==
  IF row.status = "processing"
  THEN [row EXCEPT !.status = "ready", !.expired = FALSE]
  ELSE row

MarkFailed(row) ==
  IF Exists(row) THEN [row EXCEPT !.status = "failed", !.expired = FALSE] ELSE row

MarkStuckFailed(row) ==
  IF row.status = "processing" /\ row.expired
  THEN [row EXCEPT !.status = "failed", !.expired = FALSE]
  ELSE row

\* Both write updated_at, which is not the timestamp of a processing lease.
Touch(row) == IF row.status = "processing" THEN row ELSE [row EXCEPT !.expired = FALSE]

SoftDelete(row) == IF Active(row) THEN Touch([row EXCEPT !.deleted = TRUE]) ELSE row

SetContentHash(row, c) == IF Exists(row) THEN Touch([row EXCEPT !.hash = c]) ELSE row

\* Mutant: soft-deleted rows are kept.
HardDeleteVisible(row) == IF Active(row) THEN BlankRow("removed") ELSE row

HardDelete(row) == IF Exists(row) THEN BlankRow("removed") ELSE row

-----------------------------------------------------------------------------
(* Statements on the table. *)

\* find_active_by_content_hash, without d itself.
ActiveCopies(table, d, c) ==
  {e \in Docs \ {d} : /\ Owner[e] = Owner[d]
                      /\ Active(table[e])
                      /\ table[e].hash = c}

\* Mutant: the index only covers ready documents.
ViolatesUniqueReadyHash(table, d, c) ==
  Active(table[d]) /\ \E e \in ActiveCopies(table, d, c) : table[e].status = "ready"

\* The partial unique index of migration 002: an UPDATE of content_hash fails
\* when another active row of the same user holds the same hash.
ViolatesUniqueHash(table, d, c) == Active(table[d]) /\ ActiveCopies(table, d, c) # {}

\* Mutant: the sweeper, like the API, does not see soft-deleted rows.
ListStaleVisible(table, s) ==
  {d \in Docs : table[d].status = s /\ table[d].expired /\ ~table[d].deleted}

ListStaleByStatus(table, s) == {d \in Docs : table[d].status = s /\ table[d].expired}

=============================================================================
