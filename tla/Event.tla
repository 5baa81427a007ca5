------------------------------- MODULE Event -------------------------------
(***************************************************************************)
(* One event object (the rt_event calls of ipc.c): a set of bits, and a    *)
(* list of threads each of which waits for all or any of some of them.     *)
(*                                                                         *)
(* Every critical section is one step.  Which thread runs next is left     *)
(* open, as in Mailbox.  Where a thread is:                                *)
(*   user    in application code                                           *)
(*   wait    in rt_event_recv: linked in waitq while it is suspended, no   *)
(*           longer linked once it has been woken                          *)
(*   return  in rt_event_recv, the bits were there when it was called      *)
(*   look, cancel, wild   in rt_event_detach / rt_event_delete, before the *)
(*           test of the loop that wakes the waiters, between test and     *)
(*           wake-up, and after a wake-up that found the list empty; see   *)
(*           Semaphore                                                     *)
(***************************************************************************)
EXTENDS Ipc, FiniteSets

CONSTANTS
    ThreadPrio,     \* the priority of each thread
    EvFlag,         \* event->parent.parent.flag
    Bit,            \* the bits of event->set
    Wants,          \* what each thread may ask rt_event_recv for
    Resetters,      \* the threads that reset the event
    Owners          \* the threads that may detach it

(* The arguments of rt_event_recv: set, RT_EVENT_FLAG_AND rather than OR,  *)
(* and RT_EVENT_FLAG_CLEAR.                                                *)
Request == [want : (SUBSET Bit) \ {{}}, all : BOOLEAN, clear : BOOLEAN]

ASSUME EventAssumption ==
    /\ ThreadPrio \in [Thread -> Prio]
    /\ EvFlag \in Flag
    /\ Wants \in [Thread -> SUBSET Request]
    /\ Resetters \cup Owners \subseteq Thread

VARIABLES
    set,        \* event->set
    waitq,      \* event->parent.suspend_thread
    pc,         \* where each thread is
    bits,       \* thread->event_set
    option,     \* thread->event_info
    limited,    \* the threads whose wait has a time limit
    err,        \* thread->error
    alive       \* the event has not been detached, and nobody has begun to

vars == <<set, waitq, pc, bits, option, limited, err, alive>>

Option == [all : BOOLEAN, clear : BOOLEAN]
NoOption == [all |-> FALSE, clear |-> FALSE]

TypeOK ==
    /\ set \subseteq Bit
    /\ waitq \in Seq(Thread)
    /\ pc \in [Thread -> {"user", "wait", "return", "look", "cancel", "wild"}]
    /\ bits \in [Thread -> SUBSET Bit]
    /\ \A t \in Thread : pc[t] \in {"wait", "return"} => bits[t] # {}
    /\ option \in [Thread -> Option]
    /\ limited \subseteq Thread
    /\ err \in [Thread -> {"ok", "timeout", "error"}]
    /\ alive \in BOOLEAN

Init ==
    /\ set = {}
    /\ waitq = <<>>
    /\ pc = [t \in Thread |-> "user"]
    /\ bits = [t \in Thread |-> {}]
    /\ option = [t \in Thread |-> NoOption]
    /\ limited = {}
    /\ err = [t \in Thread |-> "ok"]
    /\ alive = TRUE

-----------------------------------------------------------------------------

Calls(t) == pc[t] = "user" /\ alive

(* Nothing runs any more; alive is FALSE by then. *)
Halted == \E t \in Thread : pc[t] = "wild"

Goto(t, p) == pc' = [pc EXCEPT ![t] = p]

(* The bits of want that are there are enough. *)
Met(want, all, there) == IF all THEN want \subseteq there ELSE want \cap there # {}

(* rt_event_send looks at the waiter t: f has the bits that are left, the  *)
(* waiters so far that stay, and what thread->event_set is now.  A waiter  *)
(* that clears takes its bits away from those behind it.                   *)
Examine(f, t) ==
    IF ~ Met(bits[t], option[t].all, f.left) THEN [f EXCEPT !.stay = Append(@, t)]
    ELSE LET given == bits[t] \cap f.left
         IN  [f EXCEPT !.left = IF option[t].clear THEN @ \ given ELSE @,
                       !.bits[t] = given]

(* It walks along the wait list from the head, the bits S added to the set. *)
Walk(S, q) ==
    LET seen[i \in 0 .. Len(q)] ==
            IF i = 0 THEN [left |-> set \cup S, stay |-> <<>>, bits |-> bits]
            ELSE Examine(seen[i - 1], q[i])
    IN  seen[Len(q)]

-----------------------------------------------------------------------------

(* rt_event_recv, the bits are there. *)
Receive(t, r) ==
    /\ Calls(t)
    /\ Met(r.want, r.all, set)
    /\ bits' = [bits EXCEPT ![t] = r.want \cap set]
    /\ option' = [option EXCEPT ![t] = [all |-> r.all, clear |-> r.clear]]
    /\ set' = IF r.clear THEN set \ r.want ELSE set
    /\ err' = [err EXCEPT ![t] = "ok"]
    /\ Goto(t, "return")
    /\ UNCHANGED <<waitq, limited, alive>>

(* They are not, and there is time; without time, -RT_ETIMEOUT.            *)
ReceiveWait(t, r) ==
    /\ Calls(t)
    /\ ~ Met(r.want, r.all, set)
    /\ bits' = [bits EXCEPT ![t] = r.want]
    /\ option' = [option EXCEPT ![t] = [all |-> r.all, clear |-> r.clear]]
    /\ waitq' = WaitInsert(EvFlag, waitq, t, ThreadPrio)
    /\ limited' \in {limited, limited \cup {t}}
    /\ err' = [err EXCEPT ![t] = "ok"]
    /\ Goto(t, "wait")
    /\ UNCHANGED <<set, alive>>

(* rt_event_recv hands thread->event_set or thread->error to its caller;   *)
(* nobody looks at the thread's fields again before its next call.         *)
Return(t) ==
    /\ ~ Halted
    /\ \/ pc[t] = "return"
       \/ pc[t] = "wait" /\ ~ Linked(t, waitq)
    /\ Goto(t, "user")
    /\ bits' = [bits EXCEPT ![t] = {}]
    /\ option' = [option EXCEPT ![t] = NoOption]
    /\ limited' = limited \ {t}
    /\ err' = [err EXCEPT ![t] = "ok"]
    /\ UNCHANGED <<set, waitq, alive>>

(* the list is walked along from its tail *)
Slip_SendBackwards(S) ==
    /\ alive
    /\ LET f == Walk(S, Reverse(waitq))
       IN  set' = f.left /\ bits' = f.bits /\ waitq' = Reverse(f.stay)
    /\ UNCHANGED <<pc, option, limited, err, alive>>

(* rt_event_send, by a thread or an interrupt.  (Its return in the middle  *)
(* of the walk, for a waiter with neither AND nor OR, cannot be reached:   *)
(* rt_event_recv asserts one of them.)                                     *)
Send(S) ==
    /\ alive
    /\ LET f == Walk(S, waitq)
       IN  set' = f.left /\ bits' = f.bits /\ waitq' = f.stay
    /\ UNCHANGED <<pc, option, limited, err, alive>>

(* the thread stays in the wait list *)
Slip_TimerFire(t) ==
    /\ ~ Halted
    /\ t \in limited /\ Linked(t, waitq)
    /\ err' = [err EXCEPT ![t] = "timeout"]
    /\ limited' = limited \ {t}
    /\ UNCHANGED <<set, waitq, pc, bits, option, alive>>

(* _thread_timeout; the timer runs only while the thread is suspended. *)
TimerFire(t) ==
    /\ ~ Halted
    /\ t \in limited /\ Linked(t, waitq)
    /\ err' = [err EXCEPT ![t] = "timeout"]
    /\ waitq' = RemoveFirst(waitq, t)
    /\ UNCHANGED <<set, pc, bits, option, limited, alive>>

(* the waiters are cancelled, the bits stay *)
Slip_Reset(t) ==
    /\ Calls(t)
    /\ err' = [u \in Thread |-> IF Linked(u, waitq) THEN "error" ELSE err[u]]
    /\ waitq' = <<>>
    /\ UNCHANGED <<set, pc, bits, option, limited, alive>>

(* RT_IPC_CMD_RESET, with interrupts disabled throughout. *)
Reset(t) ==
    /\ Calls(t)
    /\ err' = [u \in Thread |-> IF Linked(u, waitq) THEN "error" ELSE err[u]]
    /\ waitq' = <<>>
    /\ set' = {}
    /\ UNCHANGED <<pc, bits, option, limited, alive>>

-----------------------------------------------------------------------------
(* rt_event_detach, rt_event_delete: the caller vouches that no call is    *)
(* made on the event from now on.                                          *)

DetachBegin(t) ==
    /\ Calls(t)
    /\ alive' = FALSE
    /\ Goto(t, "look")
    /\ UNCHANGED <<set, waitq, bits, option, limited, err>>

DetachLook(t) ==
    /\ ~ Halted
    /\ pc[t] = "look"
    /\ Goto(t, IF waitq = <<>> THEN "user" ELSE "cancel")
    /\ UNCHANGED <<set, waitq, bits, option, limited, err, alive>>

DetachWake(t) ==
    /\ ~ Halted
    /\ pc[t] = "cancel" /\ waitq # <<>>
    /\ err' = [err EXCEPT ![Head(waitq)] = "error"]
    /\ waitq' = Tail(waitq)
    /\ Goto(t, "look")
    /\ UNCHANGED <<set, bits, option, limited, alive>>

DetachWild(t) ==
    /\ ~ Halted
    /\ pc[t] = "cancel" /\ waitq = <<>>
    /\ Goto(t, "wild")
    /\ UNCHANGED <<set, waitq, bits, option, limited, err, alive>>

-----------------------------------------------------------------------------

Next ==
    \/ \E t \in Thread : \E r \in Wants[t] : Receive(t, r) \/ ReceiveWait(t, r)
    \/ \E S \in (SUBSET Bit) \ {{}} : Send(S)
    \/ \E t \in Thread : Return(t) \/ TimerFire(t)
    \/ \E t \in Resetters : Reset(t)
    \/ \E t \in Owners : DetachBegin(t) \/ DetachLook(t) \/ DetachWake(t) \/ DetachWild(t)

Spec == Init /\ [][Next]_vars

-----------------------------------------------------------------------------
(* Properties *)

(* The wait list links, each once and in the order of priorities where     *)
(* that is asked for, threads suspended in rt_event_recv that neither a    *)
(* send nor a time-out has ended the wait of.                              *)
WaitListExact ==
    /\ TypeOK
    /\ LinkedOnce(waitq)
    /\ \A i \in 1 .. Len(waitq) : pc[waitq[i]] = "wait" /\ err[waitq[i]] = "ok"
    /\ EvFlag = "PRIO" => InPrioOrder(waitq, ThreadPrio)

(* A thread that clears takes bits away from threads behind it only: who   *)
(* is passed over by a send could not have gone on with what is left and   *)
(* what those behind it got.                                               *)
NobodyIsRobbed ==
    [][\A i, j \in 1 .. Len(waitq) :
          LET t == waitq[i]
              u == waitq[j]
          IN  i < j /\ Linked(t, waitq') /\ ~ Linked(u, waitq') /\ err'[u] = "ok"
                => ~ Met(bits[t], option[t].all, set' \cup bits'[u])]_vars

(* The event implements EventFlags: what a thread has of its receive is    *)
(* read off its place in it, the wait list and the fields of the thread.   *)
RecvState(t) ==
    IF pc[t] \notin {"wait", "return"} THEN [state |-> "idle"]
    ELSE IF Linked(t, waitq)
    THEN [state |-> "asking",
          ask |-> [want |-> bits[t], all |-> option[t].all, clear |-> option[t].clear]]
    ELSE IF err[t] = "ok" THEN [state |-> "granted", bits |-> bits[t]]
    ELSE [state |-> err[t]]

Abstract == INSTANCE EventFlags
                WITH flags <- set, st <- [t \in Thread |-> RecvState(t)]

ImplementsFlags == Abstract!Spec

=============================================================================
