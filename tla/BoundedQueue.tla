---------------------------- MODULE BoundedQueue ----------------------------
(***************************************************************************)
(* What mailboxes and message queues promise their users (ipc.c, the       *)
(* comments of rt_mb_send_wait, rt_mb_urgent, rt_mb_recv and of the rt_mq  *)
(* calls): messages are delivered once, in the order they were sent, an    *)
(* urgent one before all others, and at most Capacity are kept.            *)
(***************************************************************************)
EXTENDS Naturals, Sequences

CONSTANTS
    Thread,
    Msg,        \* what is sent
    NoMsg,      \* what a thread has received before its first receive
    Capacity

VARIABLES
    queue,      \* the messages sent and not received
    got         \* the message each thread received last

Init ==
    /\ queue = <<>>
    /\ got = [t \in Thread |-> NoMsg]

Send(m) ==
    /\ Len(queue) < Capacity
    /\ queue' = Append(queue, m)
    /\ UNCHANGED got

SendUrgent(m) ==
    /\ Len(queue) < Capacity
    /\ queue' = <<m>> \o queue
    /\ UNCHANGED got

Receive(t) ==
    /\ queue # <<>>
    /\ got' = [got EXCEPT ![t] = Head(queue)]
    /\ queue' = Tail(queue)

(* RT_IPC_CMD_RESET *)
Reset == queue' = <<>> /\ UNCHANGED got

Next ==
    \/ \E m \in Msg : Send(m) \/ SendUrgent(m)
    \/ \E t \in Thread : Receive(t)
    \/ Reset

Spec == Init /\ [][Next]_<<queue, got>>

=============================================================================
