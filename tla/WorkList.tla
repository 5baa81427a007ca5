------------------------------ MODULE WorkList ------------------------------
(***************************************************************************)
(* What a work queue promises its users (workqueue.c, the comments of its  *)
(* calls), without thread, timers and flags: the work that is queued is    *)
(* done one item at a time in the order of the queue, work that is delayed *)
(* joins the queue once its time is over, and work that is withdrawn is    *)
(* not done.                                                               *)
(***************************************************************************)
EXTENDS Sequences, SequencesExt

CONSTANTS Work, NoWork

VARIABLES
    queue,      \* the work to do, in order
    later,      \* the work whose delay is not over; it may be queued, too
    doing       \* the work that is being done

Init ==
    /\ queue = <<>>
    /\ later = {}
    /\ doing = NoWork

(* Submitted without delay, anew if it is there already; work that is      *)
(* being done is refused, and forgotten.                                   *)
Submit(x) ==
    /\ queue' = IF doing = x THEN RemoveFirst(queue, x)
                ELSE Append(RemoveFirst(queue, x), x)
    /\ UNCHANGED <<later, doing>>

(* Put in front of everything else; work that is being done is done again. *)
Urgent(x) ==
    /\ queue' = <<x>> \o RemoveFirst(queue, x)
    /\ UNCHANGED <<later, doing>>

Delay(x) ==
    /\ queue' = RemoveFirst(queue, x)
    /\ later' = later \cup {x}
    /\ UNCHANGED doing

(* The delay is over, and the work joins the queue.                        *)
Ripe(x) ==
    /\ x \in later /\ doing # x
    /\ later' = later \ {x}
    /\ queue' = Append(RemoveFirst(queue, x), x)
    /\ UNCHANGED doing

(* The delay is over while the work is being done.  This is no promise but *)
(* what is left open: the submission is forgotten, and one without delay   *)
(* that was made since with it.                                            *)
Miss(x) ==
    /\ x \in later /\ doing = x
    /\ later' = later \ {x}
    /\ queue' = RemoveFirst(queue, x)
    /\ UNCHANGED doing

Withdraw(x) ==
    /\ queue' = RemoveFirst(queue, x)
    /\ later' = later \ {x}
    /\ UNCHANGED doing

Begin ==
    /\ doing = NoWork
    /\ queue # <<>>
    /\ doing' = Head(queue)
    /\ queue' = Tail(queue)
    /\ UNCHANGED later

End ==
    /\ doing # NoWork
    /\ doing' = NoWork
    /\ UNCHANGED <<queue, later>>

Next ==
    \/ \E x \in Work : Submit(x) \/ Urgent(x) \/ Delay(x) \/ Ripe(x) \/ Miss(x) \/ Withdraw(x)
    \/ Begin
    \/ End

Spec == Init /\ [][Next]_<<queue, later, doing>>

=============================================================================
