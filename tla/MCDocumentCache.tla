-------------------------- MODULE MCDocumentCache --------------------------
(* TLC instances of DocumentCache. *)
EXTENDS DocumentCache, TLC

(* Threads and slots are interchangeable; keys are not (AnyKey).           *)
Symmetric == Permutations(Callers) \union Permutations(Invalidators) \union Permutations(Slots)

(* The document does not exist before its first mutation. *)
FirstVersionMissing == {0}

============================================================================
