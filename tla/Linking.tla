------------------------------ MODULE Linking ------------------------------
(* The lists of the kernel (rt_list_t), as sequences of what they link. *)
EXTENDS Naturals, SequencesExt

Linked(e, q) == \E i \in 1 .. Len(q) : q[i] = e

(* In a list of rt_list_t nodes nothing can be linked twice. *)
LinkedOnce(q) == \A i, j \in 1 .. Len(q) : q[i] = q[j] => i = j

=============================================================================
