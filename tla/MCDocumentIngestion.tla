------------------------ MODULE MCDocumentIngestion ------------------------
(* Small instances of DocumentIngestion for TLC. *)
EXTENDS DocumentIngestion, TLC

CONSTANTS u1, scan

OneUser == [d \in Docs |-> u1]

\* Every document has a user of its own, named like the document.
OwnUser == [d \in Docs |-> d]

\* Every file is cut into the same chunks, but for a scan, whose MIME type is
\* not the declared one and which is never cut.
MCChunksOf == [c \in Contents |-> IF c = scan THEN {} ELSE Chunks]

Symmetric == Permutations(Docs) \cup Permutations(Workers)
=============================================================================
