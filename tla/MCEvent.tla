------------------------------ MODULE MCEvent ------------------------------
(* A small system for Event: three threads, one above the others.          *)
EXTENDS Event

CONSTANTS a, b, c, b1, b2

MCThread == {a, b, c}

MCThreadPrio == (a :> 0) @@ (b :> 1) @@ (c :> 1)

(* a asks for anything, b clears what it gets, c asks for both bits *)
MCWants ==
    (a :> Request)
      @@ (b :> {r \in Request : r.clear})
      @@ (c :> {r \in Request : r.want = Bit /\ r.clear})

=============================================================================
