------------------------------ MODULE MCTimer ------------------------------
(* For Timer: at what tick a timer was due before it left the list makes   *)
(* no difference to anything.                                              *)
EXTENDS Timer

MCView ==
    <<tick, list, local, [t \in Timer |-> IF Linked(t, list) THEN timeout[t] ELSE 0],
      delay, flags, stopping, pc, called, now, pm, seen>>

=============================================================================
