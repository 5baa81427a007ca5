------------------------------ MODULE Mailbox ------------------------------
(***************************************************************************)
(* One mailbox (the rt_mb calls of ipc.c): a ring of Size mails with a     *)
(* list of waiting receivers and one of waiting senders.                   *)
(*                                                                         *)
(* Every critical section is one step.  Which thread runs next is left     *)
(* open: any thread that is not suspended may, which includes whatever     *)
(* Sched would choose, and interrupt handlers, whose rt_mb_send never      *)
(* waits.  Where a thread is:                                              *)
(*   user    in application code                                           *)
(*   send    in the loop of rt_mb_send_wait: linked in sendq while it is   *)
(*           suspended, no longer linked once it has been woken            *)
(*   recv    the same in rt_mb_recv, with recvq                            *)
(*   lookr   in rt_mb_detach / rt_mb_delete, about to look whether recvq   *)
(*           is empty, with interrupts enabled                             *)
(*   waker   there, it was not: about to wake its first thread             *)
(*   looks, wakes  the same with sendq, when recvq is done with            *)
(*   wild    there, the list has become empty in between and its head is   *)
(*           taken for a thread; the system stops, see Semaphore           *)
(***************************************************************************)
EXTENDS Ipc, FiniteSets

CONSTANTS
    ThreadPrio,     \* the priority of each thread
    MbFlag,         \* mb->parent.parent.flag
    Size,           \* mb->size, at most RT_MB_ENTRY_MAX
    Mail,           \* what is sent
    NoMail,         \* the contents of a slot that was never written
    Senders,        \* the threads that call rt_mb_send_wait with a timeout
    Receivers,      \* the threads that call rt_mb_recv
    Resetters,      \* the threads that reset the mailbox
    Owners          \* the threads that may detach it

ASSUME MailboxAssumption ==
    /\ ThreadPrio \in [Thread -> Prio]
    /\ MbFlag \in Flag
    /\ Size \in Nat \ {0}
    /\ NoMail \notin Mail
    /\ Senders \cup Receivers \cup Resetters \cup Owners \subseteq Thread

VARIABLES
    pool,       \* mb->msg_pool
    in,         \* mb->in_offset
    out,        \* mb->out_offset
    entry,      \* mb->entry
    recvq,      \* mb->parent.suspend_thread
    sendq,      \* mb->suspend_sender_thread
    pc,         \* where each thread is
    limited,    \* the threads whose wait has a time limit
    err,        \* thread->error
    mail,       \* the mail a thread wants to send
    got,        \* the mail each thread received last
    alive       \* the mailbox has not been detached, and nobody has begun to

ring == <<pool, in, out, entry>>
vars == <<ring, recvq, sendq, pc, limited, err, mail, got, alive>>

TypeOK ==
    /\ pool \in [0 .. Size - 1 -> Mail \cup {NoMail}]
    /\ in \in 0 .. Size - 1 /\ out \in 0 .. Size - 1 /\ entry \in 0 .. Size
    /\ recvq \in Seq(Thread) /\ sendq \in Seq(Thread)
    /\ pc \in [Thread -> {"user", "send", "recv", "lookr", "waker", "looks", "wakes", "wild"}]
    /\ limited \subseteq Thread
    /\ err \in [Thread -> {"ok", "timeout", "error"}]
    /\ mail \in [Thread -> Mail \cup {NoMail}]
    /\ got \in [Thread -> Mail \cup {NoMail}]
    /\ alive \in BOOLEAN

Init ==
    /\ pool = [i \in 0 .. Size - 1 |-> NoMail]
    /\ in = 0 /\ out = 0 /\ entry = 0
    /\ recvq = <<>> /\ sendq = <<>>
    /\ pc = [t \in Thread |-> "user"]
    /\ limited = {}
    /\ err = [t \in Thread |-> "ok"]
    /\ mail = [t \in Thread |-> NoMail]
    /\ got = [t \in Thread |-> NoMail]
    /\ alive = TRUE

-----------------------------------------------------------------------------

Following(i) == IF i + 1 >= Size THEN 0 ELSE i + 1

Calls(t) == pc[t] = "user" /\ alive

(* Nothing runs any more; alive is FALSE by then. *)
Halted == \E t \in Thread : pc[t] = "wild"

(* t was woken from a wait and told nothing but that. *)
Woken(t, p) == pc[t] = p /\ ~ Linked(t, recvq) /\ ~ Linked(t, sendq) /\ err[t] = "ok"

(* The call of t ends; what it was given is forgotten. *)
Return(t) ==
    /\ pc' = [pc EXCEPT ![t] = "user"]
    /\ limited' = limited \ {t}
    /\ mail' = [mail EXCEPT ![t] = NoMail]

(* The end of rt_mb_send_wait. *)
Put(m) ==
    /\ entry < Size
    /\ pool' = [pool EXCEPT ![in] = m]
    /\ in' = Following(in)
    /\ entry' = entry + 1
    /\ recvq' = WakeFirst(recvq)
    /\ UNCHANGED out

(* The end of rt_mb_recv. *)
Get(t) ==
    /\ entry > 0
    /\ got' = [got EXCEPT ![t] = pool[out]]
    /\ out' = Following(out)
    /\ entry' = entry - 1
    /\ sendq' = WakeFirst(sendq)
    /\ UNCHANGED <<pool, in>>

(* t is suspended at its place in a wait list. *)
Join(q, t) == WaitInsert(MbFlag, q, t, ThreadPrio)

-----------------------------------------------------------------------------
(* Sending *)

(* rt_mb_send, or rt_mb_send_wait with room in the mailbox, by a thread or *)
(* an interrupt.  Without room and time it returns -RT_EFULL.              *)
Send(m) ==
    /\ alive
    /\ Put(m)
    /\ UNCHANGED <<sendq, pc, limited, err, mail, got, alive>>

(* nobody is woken *)
Slip_SendUrgent(m) ==
    /\ alive
    /\ entry < Size
    /\ out' = IF out > 0 THEN out - 1 ELSE Size - 1
    /\ pool' = [pool EXCEPT ![out'] = m]
    /\ entry' = entry + 1
    /\ UNCHANGED <<in, recvq, sendq, pc, limited, err, mail, got, alive>>

(* the offset is not wrapped round *)
Slip_SendUrgentUnwrapped(m) ==
    /\ alive
    /\ entry < Size
    /\ out' = IF out > 0 THEN out - 1 ELSE 0
    /\ pool' = [pool EXCEPT ![out'] = m]
    /\ entry' = entry + 1
    /\ recvq' = WakeFirst(recvq)
    /\ UNCHANGED <<in, sendq, pc, limited, err, mail, got, alive>>

(* rt_mb_urgent *)
SendUrgent(m) ==
    /\ alive
    /\ entry < Size
    /\ out' = IF out > 0 THEN out - 1 ELSE Size - 1
    /\ pool' = [pool EXCEPT ![out'] = m]
    /\ entry' = entry + 1
    /\ recvq' = WakeFirst(recvq)
    /\ UNCHANGED <<in, sendq, pc, limited, err, mail, got, alive>>

SendWait(t, m) ==
    /\ Calls(t)
    /\ entry = Size
    /\ sendq' = Join(sendq, t)
    /\ pc' = [pc EXCEPT ![t] = "send"]
    /\ mail' = [mail EXCEPT ![t] = m]
    /\ err' = [err EXCEPT ![t] = "ok"]
    /\ limited' \in {limited, limited \cup {t}}
    /\ UNCHANGED <<ring, recvq, got, alive>>

(* The woken sender finds room ... *)
SendWoken(t) ==
    /\ ~ Halted
    /\ Woken(t, "send")
    /\ Put(mail[t])
    /\ Return(t)
    /\ UNCHANGED <<sendq, err, got, alive>>

(* ... or another sender has been faster, and it waits for what is left of *)
(* its time; if nothing is left it returns -RT_EFULL.                      *)
SendAgain(t) ==
    /\ ~ Halted
    /\ Woken(t, "send")
    /\ entry = Size
    /\ \/ sendq' = Join(sendq, t) /\ UNCHANGED <<pc, limited, mail>>
       \/ t \in limited /\ Return(t) /\ UNCHANGED sendq
    /\ UNCHANGED <<ring, recvq, err, got, alive>>

-----------------------------------------------------------------------------
(* Receiving; without a mail and time, rt_mb_recv returns -RT_ETIMEOUT. *)

Receive(t) ==
    /\ Calls(t)
    /\ Get(t)
    /\ UNCHANGED <<recvq, pc, limited, err, mail, alive>>

ReceiveWait(t) ==
    /\ Calls(t)
    /\ entry = 0
    /\ recvq' = Join(recvq, t)
    /\ pc' = [pc EXCEPT ![t] = "recv"]
    /\ err' = [err EXCEPT ![t] = "ok"]
    /\ limited' \in {limited, limited \cup {t}}
    /\ UNCHANGED <<ring, sendq, mail, got, alive>>

ReceiveWoken(t) ==
    /\ ~ Halted
    /\ Woken(t, "recv")
    /\ Get(t)
    /\ Return(t)
    /\ UNCHANGED <<recvq, err, alive>>

(* As SendAgain; giving up with -RT_ETIMEOUT also sets thread->error, which *)
(* nobody reads before the next wait clears it.                             *)
ReceiveAgain(t) ==
    /\ ~ Halted
    /\ Woken(t, "recv")
    /\ entry = 0
    /\ \/ recvq' = Join(recvq, t) /\ UNCHANGED <<pc, limited, mail>>
       \/ t \in limited /\ Return(t) /\ UNCHANGED recvq
    /\ UNCHANGED <<ring, sendq, err, got, alive>>

-----------------------------------------------------------------------------
(* Waits that fail *)

(* the thread stays in the list of senders *)
Slip_TimerFire(t) ==
    /\ ~ Halted
    /\ t \in limited
    /\ Linked(t, recvq) \/ Linked(t, sendq)
    /\ err' = [err EXCEPT ![t] = "timeout"]
    /\ recvq' = RemoveFirst(recvq, t)
    /\ UNCHANGED <<ring, sendq, pc, limited, mail, got, alive>>

(* _thread_timeout; the timer runs only while the thread is suspended. *)
TimerFire(t) ==
    /\ ~ Halted
    /\ t \in limited
    /\ Linked(t, recvq) \/ Linked(t, sendq)
    /\ err' = [err EXCEPT ![t] = "timeout"]
    /\ recvq' = RemoveFirst(recvq, t)
    /\ sendq' = RemoveFirst(sendq, t)
    /\ UNCHANGED <<ring, pc, limited, mail, got, alive>>

(* The call returns thread->error. *)
Fail(t) ==
    /\ ~ Halted
    /\ pc[t] \in {"send", "recv"}
    /\ err[t] # "ok"
    /\ Return(t)
    /\ UNCHANGED <<ring, recvq, sendq, err, got, alive>>

(* RT_IPC_CMD_RESET, with interrupts disabled throughout. *)
Reset(t) ==
    /\ Calls(t)
    /\ err' = [u \in Thread |-> IF Linked(u, recvq) \/ Linked(u, sendq) THEN "error" ELSE err[u]]
    /\ recvq' = <<>> /\ sendq' = <<>>
    /\ in' = 0 /\ out' = 0 /\ entry' = 0
    /\ UNCHANGED <<pool, pc, limited, mail, got, alive>>

(* rt_mb_detach, rt_mb_delete: the caller vouches that no call is made on  *)
(* the mailbox from now on.                                                *)
DetachBegin(t) ==
    /\ Calls(t)
    /\ alive' = FALSE
    /\ pc' = [pc EXCEPT ![t] = "lookr"]
    /\ UNCHANGED <<ring, recvq, sendq, limited, err, mail, got>>

(* _ipc_list_resume_all, for the receivers and then for the senders: the   *)
(* test of its loop ...                                                    *)
DetachLook(t) ==
    /\ ~ Halted
    /\ \/ pc[t] = "lookr" /\ pc' = [pc EXCEPT ![t] = IF recvq = <<>> THEN "looks" ELSE "waker"]
       \/ pc[t] = "looks" /\ pc' = [pc EXCEPT ![t] = IF sendq = <<>> THEN "user" ELSE "wakes"]
    /\ UNCHANGED <<ring, recvq, sendq, limited, err, mail, got, alive>>

Cancel(t) == err' = [err EXCEPT ![t] = "error"]

(* ... and its body.                                                       *)
DetachWake(t) ==
    /\ ~ Halted
    /\ \/ /\ pc[t] = "waker" /\ recvq # <<>>
          /\ Cancel(Head(recvq)) /\ recvq' = Tail(recvq) /\ UNCHANGED sendq
          /\ pc' = [pc EXCEPT ![t] = "lookr"]
       \/ /\ pc[t] = "wakes" /\ sendq # <<>>
          /\ Cancel(Head(sendq)) /\ sendq' = Tail(sendq) /\ UNCHANGED recvq
          /\ pc' = [pc EXCEPT ![t] = "looks"]
    /\ UNCHANGED <<ring, limited, mail, got, alive>>

DetachWild(t) ==
    /\ ~ Halted
    /\ \/ pc[t] = "waker" /\ recvq = <<>>
       \/ pc[t] = "wakes" /\ sendq = <<>>
    /\ pc' = [pc EXCEPT ![t] = "wild"]
    /\ UNCHANGED <<ring, recvq, sendq, limited, err, mail, got, alive>>

-----------------------------------------------------------------------------

Sending(t) == (\E m \in Mail : SendWait(t, m)) \/ SendWoken(t) \/ SendAgain(t)

Receiving(t) == Receive(t) \/ ReceiveWait(t) \/ ReceiveWoken(t) \/ ReceiveAgain(t)

Detaching(t) == DetachLook(t) \/ DetachWake(t) \/ DetachWild(t)

Next ==
    \/ \E m \in Mail : Send(m) \/ SendUrgent(m)
    \/ \E t \in Senders : Sending(t)
    \/ \E t \in Receivers : Receiving(t)
    \/ \E t \in Thread : TimerFire(t) \/ Fail(t)
    \/ \E t \in Resetters : Reset(t)
    \/ \E t \in Owners : DetachBegin(t) \/ Detaching(t)

Spec == Init /\ [][Next]_vars

-----------------------------------------------------------------------------
(* Properties *)

(* A wait list links, each once, the threads suspended in the call it is   *)
(* for, whatever timeouts, wake-ups and resets came between, and in the    *)
(* order of their priorities where that is asked for.                      *)
WaitListsExact ==
    /\ TypeOK
    /\ LinkedOnce(recvq) /\ LinkedOnce(sendq)
    /\ MbFlag = "PRIO" => InPrioOrder(recvq, ThreadPrio) /\ InPrioOrder(sendq, ThreadPrio)
    /\ \A t \in Thread :
          /\ Linked(t, recvq) => pc[t] = "recv" /\ err[t] = "ok"
          /\ Linked(t, sendq) => pc[t] = "send" /\ err[t] = "ok"

(* No lost wake-up, although a call wakes one thread at most and a thread  *)
(* that was not waiting may be faster than the one woken: while receivers  *)
(* wait, every mail in the box has a woken receiver on its way to it, and  *)
(* while senders wait, every free slot a woken sender.                     *)
NobodyWaitsInVain ==
    /\ recvq # <<>> => entry <= Cardinality({t \in Thread : Woken(t, "recv")})
    /\ sendq # <<>> => Size - entry <= Cardinality({t \in Thread : Woken(t, "send")})

(* The mailbox implements BoundedQueue: the mails are those of the ring    *)
(* from out_offset on.                                                     *)
Queue == INSTANCE BoundedQueue
             WITH Msg <- Mail, NoMsg <- NoMail, Capacity <- Size, got <- got,
                  queue <- [i \in 1 .. entry |-> pool[(out + i - 1) % Size]]

ImplementsQueue == Queue!Spec

=============================================================================
