----------------------------- MODULE MCMailbox -----------------------------
(* A small system for Mailbox: three threads, one above the others. *)
EXTENDS Mailbox

CONSTANTS a, b, c

MCThread == {a, b, c}

MCThreadPrio == (a :> 0) @@ (b :> 1) @@ (c :> 1)

=============================================================================
