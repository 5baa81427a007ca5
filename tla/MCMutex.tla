------------------------------ MODULE MCMutex ------------------------------
(* Small systems for Mutex: an idle thread and three or four others, two   *)
(* mutexes.                                                                *)
EXTENDS Mutex

CONSTANTS idle, high, rival, mid, low, m1, m2

MCThread == {idle, high, mid, low}

MCInitPrio == (idle :> 3) @@ (high :> 0) @@ (mid :> 1) @@ (low :> 2)

(* everybody takes both *)
MCUsersAll == [t \in MCThread |-> IF t = idle THEN {} ELSE {m1, m2}]

(* a chain: high waits for mid, which waits for low *)
MCUsersChain == (idle :> {}) @@ (high :> {m1}) @@ (mid :> {m1, m2}) @@ (low :> {m2})

(* with one more, four that take both: two wait where a third is raised *)
MCRivalry == {idle, high, rival, mid, low}
MCRivalryPrio ==
    (idle :> 4) @@ (high :> 0) @@ (rival :> 1) @@ (mid :> 2) @@ (low :> 3)
MCUsersRivalry == [t \in MCRivalry |-> IF t = idle THEN {} ELSE {m1, m2}]

(* high and low share a mutex; mid takes none, it only runs *)
MCUsersHog == (idle :> {}) @@ (high :> {m1}) @@ (mid :> {}) @@ (low :> {m1})

=============================================================================
