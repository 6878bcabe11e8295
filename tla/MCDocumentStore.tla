-------------------------- MODULE MCDocumentStore --------------------------
(***************************************************************************)
(* Small instances of DocumentStore: two documents, two contents.          *)
(***************************************************************************)
EXTENDS DocumentStore

CONSTANTS n1, n2, c1, c2

MCFirstTable == [n \in Names |-> IF n = n1 THEN c1 ELSE None]

\* No documents were ever written to the default database.
MCOtherTable == [n \in Names |-> None]

MCFiles == [n \in Names |-> c2]
=============================================================================
