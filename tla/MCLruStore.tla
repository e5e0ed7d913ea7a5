----------------------------- MODULE MCLruStore -----------------------------
(* TLC instances of LruStore. *)
EXTENDS LruStore, TLC

Symmetric == Permutations(Threads) \union Permutations(Keys)

=============================================================================
