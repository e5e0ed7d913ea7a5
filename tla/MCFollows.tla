----------------------------- MODULE MCFollows -----------------------------
(* TLC instances of Follows. *)
EXTENDS Follows, TLC

CONSTANTS r1, r2

(* r1 is held for approval, r2 accepted at once. *)
ManualAndAccept == r1 :> "manual" @@ r2 :> "none"

(* The callback panics for r1 and rejects r2. *)
PanicAndReject == r1 :> "panic" @@ r2 :> "reject"

BothPolicies == {ManualAndAccept, PanicAndReject}

(* Both are held for approval. *)
BothHeld == {r1 :> "manual" @@ r2 :> "panic"}

ThreadSymmetry == Permutations(Threads)

=============================================================================
