---------------------------- MODULE MCAsyncCache ----------------------------
(* TLC instances of AsyncCache. *)
EXTENDS AsyncCache, TLC

(* The document does not exist before its first mutation. *)
FirstVersionMissing == {0}

Interchangeable ==
  Permutations(Callers) \union Permutations(Slots) \union Permutations(Invalidators)
    \union Permutations(Tasks) \union Permutations(Flights)

=============================================================================
