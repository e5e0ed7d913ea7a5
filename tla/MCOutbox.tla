------------------------------ MODULE MCOutbox ------------------------------
(* TLC instances of Outbox. *)
EXTENDS Outbox, TLC

CONSTANTS a1, x1, x2, x3, x4, i1, i2, i3, i4

(* x1 and x2 are reached through the shared inbox i1, never through i3; x3 *)
(* declares no shared inbox and is reached through i2, as x4 through i4.   *)
SharedInboxes == x1 :> i1 @@ x2 :> i1 @@ x3 :> NoInbox @@ x4 :> NoInbox
OwnInboxes == x1 :> i3 @@ x2 :> i3 @@ x3 :> i2 @@ x4 :> i4

(* a1 goes to the followers and mentions x3. *)
OneMention == a1 :> {x3}

=============================================================================
