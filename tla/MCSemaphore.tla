---------------------------- MODULE MCSemaphore ----------------------------
(* Small systems for Semaphore: an idle thread and three others. *)
EXTENDS Semaphore

CONSTANTS idle, a, b, c

MCThread == {idle, a, b, c}

(* one thread above two of the same priority *)
MCInitPrio == (idle :> 2) @@ (a :> 0) @@ (b :> 1) @@ (c :> 1)

=============================================================================
