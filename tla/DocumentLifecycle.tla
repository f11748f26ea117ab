-------------------------- MODULE DocumentLifecycle --------------------------
(***************************************************************************)
(* What the ingestion service promises the owner of a document, whatever   *)
(* the API, the workers and the sweeper do concurrently: the statuses a    *)
(* document may go through, that a document becomes ready only with a hash *)
(* that no other document its owner can see carries, and that a removed    *)
(* document never comes back.  DocumentIngestion implements it with the    *)
(* rows of the `documents' table, one change of a row at a time.           *)
(***************************************************************************)
EXTENDS DocumentRepository

VARIABLE documents

\* A document is uploaded once ...
Reserve(d) ==
  /\ documents[d].status = "absent"
  /\ documents' = [documents EXCEPT ![d] = BlankRow("pending")]

\* ... and every attempt to ingest it starts here, a redelivered one too.
Attempt(d) ==
  /\ Exists(documents[d])
  /\ documents' = [documents EXCEPT ![d].status = "processing", ![d].expired = FALSE]

\* An attempt claims the content for its document.
Claim(d, c) ==
  /\ documents[d].status \in {"processing", "failed"}
  /\ documents[d].deleted \/ ActiveCopies(documents, d, c) = {}
  /\ \E x \in BOOLEAN :
       documents' = [documents EXCEPT ![d].hash = c, ![d].expired = x]

Complete(d) ==
  /\ documents[d].status = "processing"
  /\ documents[d].hash # NoContent
  /\ documents' = [documents EXCEPT ![d].status = "ready", ![d].expired = FALSE]

\* A ready document does not fail.
Fail(d) ==
  /\ documents[d].status \in {"processing", "failed"}
  /\ documents' = [documents EXCEPT ![d].status = "failed", ![d].expired = FALSE]

Hide(d) ==
  /\ Active(documents[d])
  /\ \E x \in BOOLEAN :
       documents' = [documents EXCEPT ![d].deleted = TRUE, ![d].expired = x]

Remove(d) ==
  /\ Exists(documents[d])
  /\ documents' = [documents EXCEPT ![d] = BlankRow("removed")]

GrowOld(d) ==
  /\ documents[d].status \in {"pending", "processing", "failed"}
  /\ documents' = [documents EXCEPT ![d].expired = TRUE]

Init == documents = [d \in Docs |-> BlankRow("absent")]

Next ==
  \E d \in Docs :
    \/ Reserve(d) \/ Attempt(d) \/ Complete(d) \/ Fail(d)
    \/ Hide(d) \/ Remove(d) \/ GrowOld(d)
    \/ \E c \in Contents : Claim(d, c)

Spec == Init /\ [][Next]_documents

=============================================================================
