----------------------------- MODULE AlarmClock -----------------------------
(***************************************************************************)
(* What the timers promise their users (timer.c, the comments of           *)
(* rt_timer_start and rt_timer_check), over time that never wraps round:   *)
(* an alarm that is set rings when its time is over and not before, alarms *)
(* ring one at a time in the order of their times, and of those set for    *)
(* the same time the one that was set first rings first.                   *)
(***************************************************************************)
EXTENDS Integers, SequencesExt

CONSTANTS
    Timer,
    NoTimer,    \* no alarm rings
    Delays,     \* the times an alarm may be set to
    Passes      \* the times that may pass at once

VARIABLES
    queue,      \* the alarms that are set, in the order they will ring
    left,       \* how long it is until each of them rings, 0 for the others
    ring        \* the alarm that rings now

Init ==
    /\ queue = <<>>
    /\ left = [t \in Timer |-> 0]
    /\ ring = NoTimer

(* The place in q of an alarm that rings in d ticks: behind all that ring  *)
(* no later.                                                               *)
Behind(q, d) ==
    LET later == {i \in 1 .. Len(q) : left[q[i]] > d}
    IN  IF later = {} THEN Len(q) + 1 ELSE CHOOSE i \in later : \A j \in later : i <= j

(* Set, anew if it is set already, and removed.                            *)
SetTo(t, d) ==
    LET rest == RemoveFirst(queue, t)
    IN  /\ queue' = InsertAt(rest, Behind(rest, d), t)
        /\ left' = [left EXCEPT ![t] = d]

Clear(t) ==
    /\ queue' = RemoveFirst(queue, t)
    /\ left' = [left EXCEPT ![t] = 0]

(* Time passes. *)
Pass ==
    /\ ring = NoTimer
    /\ \E n \in Passes :
          left' = [t \in Timer |-> IF t \in {queue[i] : i \in 1 .. Len(queue)}
                                   THEN left[t] - n ELSE left[t]]
    /\ UNCHANGED <<queue, ring>>

Ring ==
    /\ ring = NoTimer
    /\ queue # <<>>
    /\ left[Head(queue)] <= 0
    /\ ring' = Head(queue)
    /\ Clear(Head(queue))

(* The alarm has rung; a periodic one is set again. *)
Rung ==
    /\ ring # NoTimer
    /\ ring' = NoTimer
    /\ \/ UNCHANGED <<queue, left>>
       \/ \E d \in Delays : SetTo(ring, d)

Next ==
    \/ \E t \in Timer : UNCHANGED ring /\ (Clear(t) \/ \E d \in Delays : SetTo(t, d))
    \/ Pass
    \/ Ring
    \/ Rung

Spec == Init /\ [][Next]_<<queue, left, ring>>

=============================================================================
