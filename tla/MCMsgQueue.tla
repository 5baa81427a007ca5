----------------------------- MODULE MCMsgQueue -----------------------------
(* A small system for MsgQueue: three threads, one above the others. *)
EXTENDS MsgQueue

CONSTANTS a, b, c

MCThread == {a, b, c}

MCThreadPrio == (a :> 0) @@ (b :> 1) @@ (c :> 1)

(* Neither the blocks nor the messages are told apart. *)
MCSymmetry == Permutations(Block) \cup Permutations(Msg)

=============================================================================
