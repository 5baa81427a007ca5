------------------------------ MODULE MCSched ------------------------------
(* Small systems for Sched: an idle thread, a manager and two workers. *)
EXTENDS Sched

CONSTANTS idle, manager, a, b, c

MCThread == {idle, manager, a, b}

(* manager above two workers of one priority above idle *)
MCInitPrio == (idle :> 2) @@ (manager :> 0) @@ (a :> 1) @@ (b :> 1)

(* three peers and the idle thread *)
MCPeers == {idle, a, b, c}
MCPeersPrio == (idle :> 1) @@ (a :> 0) @@ (b :> 0) @@ (c :> 0)

=============================================================================
