------------------------------ MODULE MsgQueue ------------------------------
(***************************************************************************)
(* One message queue (the rt_mq calls of ipc.c): blocks that are linked    *)
(* through their next fields in the queue or in the free list, and that    *)
(* are in the hands of one thread while a message is copied into or out of *)
(* them with interrupts enabled.                                           *)
(*                                                                         *)
(* Steps are cut where interrupts are enabled.  Which thread runs next is  *)
(* left open: any thread that is not suspended may, which includes what    *)
(* Sched would choose; an interrupt handler is a thread that never waits.  *)
(* Where a thread is:                                                      *)
(*   user    in application code                                           *)
(*   send    in the loop of rt_mq_send_wait: linked in sendq while it is   *)
(*           suspended, no longer linked once it has been woken            *)
(*   fill    in rt_mq_send_wait with a block taken from the free list      *)
(*   link    the message has been copied into the block                    *)
(*   ufill, ulink  the same in rt_mq_urgent                                *)
(*   recv    in the loop of rt_mq_recv, with recvq                         *)
(*   drain   in rt_mq_recv with a block taken from the queue               *)
(*   free    the message has been copied out of the block                  *)
(*   lookr   in rt_mq_detach / rt_mq_delete, about to look whether recvq   *)
(*           is empty, with interrupts enabled                             *)
(*   waker   there, it was not: about to wake its first thread             *)
(*   looks, wakes  the same with sendq, when recvq is done with            *)
(*   wild    there, the list has become empty in between and its head is   *)
(*           taken for a thread; the system stops, see Semaphore           *)
(***************************************************************************)
EXTENDS Ipc, FiniteSets

CONSTANTS
    ThreadPrio,     \* the priority of each thread
    MqFlag,         \* mq->parent.parent.flag
    Block,          \* the blocks of mq->msg_pool, mq->max_msgs of them
    NoBlock,        \* RT_NULL
    Msg,            \* what is sent
    NoMsg,          \* the contents of a block that was never written
    Senders,        \* the threads that send
    Receivers,      \* the threads that receive
    Waiters,        \* those of them that call with a timeout
    Resetters,      \* the threads that reset the queue
    Owners          \* the threads that may detach it

ASSUME MsgQueueAssumption ==
    /\ ThreadPrio \in [Thread -> Prio]
    /\ MqFlag \in Flag
    /\ IsFiniteSet(Block) /\ Block # {} /\ NoBlock \notin Block
    /\ NoMsg \notin Msg
    /\ Senders \cup Receivers \cup Waiters \cup Resetters \cup Owners \subseteq Thread

VARIABLES
    next,       \* msg->next of each block
    data,       \* the message in each block
    head,       \* mq->msg_queue_head
    tail,       \* mq->msg_queue_tail
    free,       \* mq->msg_queue_free
    entry,      \* mq->entry
    recvq,      \* mq->parent.suspend_thread
    sendq,      \* mq->suspend_sender_thread
    pc,         \* where each thread is
    limited,    \* the threads whose wait has a time limit
    err,        \* thread->error
    hand,       \* the block a thread copies to or from
    msg,        \* the message a thread wants to send
    got,        \* the message each thread received last
    alive       \* the queue has not been detached, and nobody has begun to

lists == <<next, data, head, tail, free, entry>>
waits == <<recvq, sendq>>
vars == <<lists, waits, pc, limited, err, hand, msg, got, alive>>

TypeOK ==
    /\ next \in [Block -> Block \cup {NoBlock}]
    /\ data \in [Block -> Msg \cup {NoMsg}]
    /\ {head, tail, free} \subseteq Block \cup {NoBlock}
    /\ entry \in 0 .. Cardinality(Block)
    /\ recvq \in Seq(Thread) /\ sendq \in Seq(Thread)
    /\ pc \in [Thread -> {"user", "send", "fill", "link", "ufill", "ulink",
                          "recv", "drain", "free",
                          "lookr", "waker", "looks", "wakes", "wild"}]
    /\ limited \subseteq Thread
    /\ err \in [Thread -> {"ok", "timeout", "error"}]
    /\ hand \in [Thread -> Block \cup {NoBlock}]
    /\ msg \in [Thread -> Msg \cup {NoMsg}]
    /\ got \in [Thread -> Msg \cup {NoMsg}]
    /\ alive \in BOOLEAN

(* The blocks linked from b on, in order. *)
Chain(b) ==
    LET at[i \in 1 .. Cardinality(Block)] ==
            IF i = 1 THEN b
            ELSE LET last == at[i - 1] IN IF last = NoBlock THEN NoBlock ELSE next[last]
        long == Cardinality({i \in 1 .. Cardinality(Block) : at[i] # NoBlock})
    IN  [i \in 1 .. long |-> at[i]]

Position(b, q) == CHOOSE i \in 1 .. Len(q) : q[i] = b

(* rt_mq_init: the blocks are linked in the free list, in some order. *)
Init ==
    /\ \E order \in SetToSeqs(Block) :
          /\ free = order[1]
          /\ next = [b \in Block |->
                        LET i == Position(b, order)
                        IN  IF i = Len(order) THEN NoBlock ELSE order[i + 1]]
    /\ data = [b \in Block |-> NoMsg]
    /\ head = NoBlock /\ tail = NoBlock /\ entry = 0
    /\ recvq = <<>> /\ sendq = <<>>
    /\ pc = [t \in Thread |-> "user"]
    /\ limited = {}
    /\ err = [t \in Thread |-> "ok"]
    /\ hand = [t \in Thread |-> NoBlock]
    /\ msg = [t \in Thread |-> NoMsg]
    /\ got = [t \in Thread |-> NoMsg]
    /\ alive = TRUE

-----------------------------------------------------------------------------

(* t is suspended at its place in a wait list. *)
Join(q, t) == WaitInsert(MqFlag, q, t, ThreadPrio)

Calls(t) == pc[t] = "user" /\ alive

(* Nothing runs any more; alive is FALSE by then. *)
Halted == \E t \in Thread : pc[t] = "wild"

(* t was woken from a wait and told nothing but that. *)
Woken(t, p) == pc[t] = p /\ ~ Linked(t, recvq) /\ ~ Linked(t, sendq) /\ err[t] = "ok"

Goto(t, p) == pc' = [pc EXCEPT ![t] = p]

(* The call of t ends; what it was given is forgotten. *)
Return(t) ==
    /\ Goto(t, "user")
    /\ limited' = limited \ {t}
    /\ msg' = [msg EXCEPT ![t] = NoMsg]
    /\ hand' = [hand EXCEPT ![t] = NoBlock]

-----------------------------------------------------------------------------
(* Sending *)

(* A block leaves the free list. *)
PopFree(t, p) ==
    /\ free # NoBlock
    /\ hand' = [hand EXCEPT ![t] = free]
    /\ free' = next[free]
    /\ Goto(t, p)
    /\ UNCHANGED <<next, data, head, tail, entry>>

(* rt_mq_send_wait or rt_mq_urgent with a free block.  Without one and     *)
(* without time they return -RT_EFULL.                                     *)
SendTake(t, m) ==
    /\ Calls(t)
    /\ PopFree(t, "fill") \/ PopFree(t, "ufill")
    /\ msg' = [msg EXCEPT ![t] = m]
    /\ UNCHANGED <<waits, limited, err, got, alive>>

SendWait(t, m) ==
    /\ Calls(t)
    /\ free = NoBlock
    /\ sendq' = Join(sendq, t)
    /\ Goto(t, "send")
    /\ msg' = [msg EXCEPT ![t] = m]
    /\ err' = [err EXCEPT ![t] = "ok"]
    /\ limited' \in {limited, limited \cup {t}}
    /\ UNCHANGED <<lists, recvq, hand, got, alive>>

(* The woken sender finds a block ... *)
SendWoken(t) ==
    /\ ~ Halted
    /\ Woken(t, "send")
    /\ PopFree(t, "fill")
    /\ UNCHANGED <<waits, limited, err, msg, got, alive>>

(* ... or another sender has been faster, and it waits for what is left of *)
(* its time; if nothing is left it returns -RT_EFULL.                      *)
SendAgain(t) ==
    /\ ~ Halted
    /\ Woken(t, "send")
    /\ free = NoBlock
    /\ \/ sendq' = Join(sendq, t) /\ UNCHANGED <<pc, limited, msg, hand>>
       \/ t \in limited /\ Return(t) /\ UNCHANGED sendq
    /\ UNCHANGED <<lists, recvq, err, got, alive>>

(* With interrupts enabled. *)
SendCopy(t) ==
    /\ ~ Halted
    /\ pc[t] \in {"fill", "ufill"}
    /\ data' = [data EXCEPT ![hand[t]] = msg[t]]
    /\ next' = IF pc[t] = "fill" THEN [next EXCEPT ![hand[t]] = NoBlock] ELSE next
    /\ Goto(t, IF pc[t] = "fill" THEN "link" ELSE "ulink")
    /\ UNCHANGED <<head, tail, free, entry, waits, limited, err, hand, msg, got, alive>>

(* the first waiter is not woken *)
Slip_SendLink(t) ==
    /\ ~ Halted
    /\ pc[t] = "link"
    /\ next' = IF tail = NoBlock THEN next ELSE [next EXCEPT ![tail] = hand[t]]
    /\ tail' = hand[t]
    /\ head' = IF head = NoBlock THEN hand[t] ELSE head
    /\ entry' = entry + 1
    /\ Return(t)
    /\ UNCHANGED <<data, free, waits, err, got, alive>>

(* The end of rt_mq_send_wait. *)
SendLink(t) ==
    /\ ~ Halted
    /\ pc[t] = "link"
    /\ next' = IF tail = NoBlock THEN next ELSE [next EXCEPT ![tail] = hand[t]]
    /\ tail' = hand[t]
    /\ head' = IF head = NoBlock THEN hand[t] ELSE head
    /\ entry' = entry + 1
    /\ recvq' = WakeFirst(recvq)
    /\ Return(t)
    /\ UNCHANGED <<data, free, sendq, err, got, alive>>

(* The end of rt_mq_urgent. *)
UrgentLink(t) ==
    /\ ~ Halted
    /\ pc[t] = "ulink"
    /\ next' = [next EXCEPT ![hand[t]] = head]
    /\ head' = hand[t]
    /\ tail' = IF tail = NoBlock THEN hand[t] ELSE tail
    /\ entry' = entry + 1
    /\ recvq' = WakeFirst(recvq)
    /\ Return(t)
    /\ UNCHANGED <<data, free, sendq, err, got, alive>>

-----------------------------------------------------------------------------
(* Receiving; without a message and time, rt_mq_recv returns -RT_ETIMEOUT. *)

(* the block is free before the message has been copied out of it *)
Slip_UnlinkFrees(t) ==
    /\ entry > 0
    /\ hand' = [hand EXCEPT ![t] = head]
    /\ head' = next[head]
    /\ tail' = IF tail = head THEN NoBlock ELSE tail
    /\ entry' = entry - 1
    /\ free' = head
    /\ next' = [next EXCEPT ![head] = free]
    /\ Goto(t, "drain")
    /\ UNCHANGED data

(* A block leaves the queue. *)
Unlink(t) ==
    /\ entry > 0
    /\ hand' = [hand EXCEPT ![t] = head]
    /\ head' = next[head]
    /\ tail' = IF tail = head THEN NoBlock ELSE tail
    /\ entry' = entry - 1
    /\ Goto(t, "drain")
    /\ UNCHANGED <<next, data, free>>

ReceiveTake(t) ==
    /\ Calls(t)
    /\ Unlink(t)
    /\ UNCHANGED <<waits, limited, err, msg, got, alive>>

ReceiveWait(t) ==
    /\ Calls(t)
    /\ entry = 0
    /\ recvq' = Join(recvq, t)
    /\ Goto(t, "recv")
    /\ err' = [err EXCEPT ![t] = "ok"]
    /\ limited' \in {limited, limited \cup {t}}
    /\ UNCHANGED <<lists, sendq, hand, msg, got, alive>>

ReceiveWoken(t) ==
    /\ ~ Halted
    /\ Woken(t, "recv")
    /\ Unlink(t)
    /\ UNCHANGED <<waits, limited, err, msg, got, alive>>

(* As SendAgain; giving up with -RT_ETIMEOUT also sets thread->error, which *)
(* nobody reads before the next wait clears it.                             *)
ReceiveAgain(t) ==
    /\ ~ Halted
    /\ Woken(t, "recv")
    /\ entry = 0
    /\ \/ recvq' = Join(recvq, t) /\ UNCHANGED <<pc, limited, msg, hand>>
       \/ t \in limited /\ Return(t) /\ UNCHANGED recvq
    /\ UNCHANGED <<lists, sendq, err, got, alive>>

(* With interrupts enabled. *)
ReceiveCopy(t) ==
    /\ ~ Halted
    /\ pc[t] = "drain"
    /\ got' = [got EXCEPT ![t] = data[hand[t]]]
    /\ Goto(t, "free")
    /\ UNCHANGED <<lists, waits, limited, err, hand, msg, alive>>

(* The end of rt_mq_recv: the block goes back to the free list. *)
ReceiveFree(t) ==
    /\ ~ Halted
    /\ pc[t] = "free"
    /\ next' = [next EXCEPT ![hand[t]] = free]
    /\ free' = hand[t]
    /\ sendq' = WakeFirst(sendq)
    /\ Return(t)
    /\ UNCHANGED <<data, head, tail, entry, recvq, err, got, alive>>

-----------------------------------------------------------------------------
(* Waits that fail *)

(* _thread_timeout; the timer runs only while the thread is suspended. *)
TimerFire(t) ==
    /\ ~ Halted
    /\ t \in limited
    /\ Linked(t, recvq) \/ Linked(t, sendq)
    /\ err' = [err EXCEPT ![t] = "timeout"]
    /\ recvq' = RemoveFirst(recvq, t)
    /\ sendq' = RemoveFirst(sendq, t)
    /\ UNCHANGED <<lists, pc, limited, hand, msg, got, alive>>

(* The call returns thread->error. *)
Fail(t) ==
    /\ ~ Halted
    /\ pc[t] \in {"send", "recv"}
    /\ err[t] # "ok"
    /\ Return(t)
    /\ UNCHANGED <<lists, waits, err, got, alive>>

(* all blocks are put in the free list, those being copied included *)
Slip_Reset(t) ==
    /\ Calls(t)
    /\ err' = [u \in Thread |-> IF Linked(u, recvq) \/ Linked(u, sendq) THEN "error" ELSE err[u]]
    /\ recvq' = <<>> /\ sendq' = <<>>
    /\ \E order \in SetToSeqs(Block) :
          /\ free' = order[1]
          /\ next' = [b \in Block |->
                        LET i == Position(b, order)
                        IN  IF i = Len(order) THEN NoBlock ELSE order[i + 1]]
    /\ head' = NoBlock /\ tail' = NoBlock /\ entry' = 0
    /\ UNCHANGED <<data, pc, limited, hand, msg, got, alive>>

(* RT_IPC_CMD_RESET, with interrupts disabled throughout.  The queued      *)
(* blocks are pushed on the free list one by one, which turns them round.  *)
Reset(t) ==
    /\ Calls(t)
    /\ err' = [u \in Thread |-> IF Linked(u, recvq) \/ Linked(u, sendq) THEN "error" ELSE err[u]]
    /\ recvq' = <<>> /\ sendq' = <<>>
    /\ LET q == Chain(head)
       IN  /\ next' = [b \in Block |->
                          IF ~ Linked(b, q) THEN next[b]
                          ELSE IF b = head THEN free ELSE q[Position(b, q) - 1]]
           /\ free' = IF q = <<>> THEN free ELSE Last(q)
           /\ tail' = IF Linked(tail, q) THEN NoBlock ELSE tail
    /\ head' = NoBlock
    /\ entry' = 0
    /\ UNCHANGED <<data, pc, limited, hand, msg, got, alive>>

(* rt_mq_detach, rt_mq_delete: the caller vouches that no call is made on  *)
(* the queue from now on.                                                  *)
DetachBegin(t) ==
    /\ Calls(t)
    /\ alive' = FALSE
    /\ Goto(t, "lookr")
    /\ UNCHANGED <<lists, waits, limited, err, hand, msg, got>>

(* _ipc_list_resume_all, for the receivers and then for the senders: the   *)
(* test of its loop ...                                                    *)
DetachLook(t) ==
    /\ ~ Halted
    /\ \/ pc[t] = "lookr" /\ Goto(t, IF recvq = <<>> THEN "looks" ELSE "waker")
       \/ pc[t] = "looks" /\ Goto(t, IF sendq = <<>> THEN "user" ELSE "wakes")
    /\ UNCHANGED <<lists, waits, limited, err, hand, msg, got, alive>>

Cancel(t) == err' = [err EXCEPT ![t] = "error"]

(* ... and its body.                                                       *)
DetachWake(t) ==
    /\ ~ Halted
    /\ \/ /\ pc[t] = "waker" /\ recvq # <<>>
          /\ Cancel(Head(recvq)) /\ recvq' = Tail(recvq) /\ UNCHANGED sendq
          /\ Goto(t, "lookr")
       \/ /\ pc[t] = "wakes" /\ sendq # <<>>
          /\ Cancel(Head(sendq)) /\ sendq' = Tail(sendq) /\ UNCHANGED recvq
          /\ Goto(t, "looks")
    /\ UNCHANGED <<lists, limited, hand, msg, got, alive>>

DetachWild(t) ==
    /\ ~ Halted
    /\ \/ pc[t] = "waker" /\ recvq = <<>>
       \/ pc[t] = "wakes" /\ sendq = <<>>
    /\ Goto(t, "wild")
    /\ UNCHANGED <<lists, waits, limited, err, hand, msg, got, alive>>

-----------------------------------------------------------------------------

Sending(t) ==
    \/ \E m \in Msg : SendTake(t, m)
    \/ t \in Waiters /\ \E m \in Msg : SendWait(t, m)
    \/ SendWoken(t) \/ SendAgain(t)
    \/ SendCopy(t) \/ SendLink(t) \/ UrgentLink(t)

Receiving(t) ==
    \/ ReceiveTake(t)
    \/ t \in Waiters /\ ReceiveWait(t)
    \/ ReceiveWoken(t) \/ ReceiveAgain(t)
    \/ ReceiveCopy(t) \/ ReceiveFree(t)

Detaching(t) == DetachLook(t) \/ DetachWake(t) \/ DetachWild(t)

Next ==
    \/ \E t \in Senders : Sending(t)
    \/ \E t \in Receivers : Receiving(t)
    \/ \E t \in Thread : TimerFire(t) \/ Fail(t)
    \/ \E t \in Resetters : Reset(t)
    \/ \E t \in Owners : DetachBegin(t) \/ Detaching(t)

Spec == Init /\ [][Next]_vars

-----------------------------------------------------------------------------
(* Properties *)

InHand(b) == {t \in Thread : hand[t] = b}

(* Every block is in one place: once in the queue, once in the free list,  *)
(* or in the hands of the one thread that copies it.  So no block is lost  *)
(* or written by two, although blocks leave the lists while a message is   *)
(* copied and a reset may come in between.                                 *)
BlocksExact ==
    LET q == Chain(head)
        f == Chain(free)
    IN  TypeOK /\ \A b \in Block :
            Cardinality({i \in 1 .. Len(q) : q[i] = b})
              + Cardinality({i \in 1 .. Len(f) : f[i] = b})
              + Cardinality(InHand(b)) = 1

(* No lost wake-up, although a call wakes one thread at most and a thread  *)
(* that was not waiting may be faster than the one woken: while receivers  *)
(* wait, every queued message has a woken receiver on its way to it, and   *)
(* while senders wait, every free block a woken sender.                    *)
NobodyWaitsInVain ==
    /\ recvq # <<>> => entry <= Cardinality({t \in Thread : Woken(t, "recv")})
    /\ sendq # <<>> =>
          Len(Chain(free)) <= Cardinality({t \in Thread : Woken(t, "send")})

(* The message queue implements BoundedQueue.  A message is sent when its  *)
(* block is linked and received when it is unlinked, so that the bytes     *)
(* still to be copied out must not change.                                 *)
Queue == INSTANCE BoundedQueue
             WITH Capacity <- Cardinality(Block),
                  queue <- LET q == Chain(head) IN [i \in 1 .. Len(q) |-> data[q[i]]],
                  got <- [t \in Thread |->
                             IF pc[t] = "drain" THEN data[hand[t]] ELSE got[t]]

ImplementsQueue == Queue!Spec

=============================================================================
