----------------------------- MODULE Semaphore -----------------------------
(***************************************************************************)
(* One counting semaphore (the rt_sem calls of ipc.c) used by threads      *)
(* under the scheduler and by interrupt handlers.                          *)
(*                                                                         *)
(* A call is one step per critical section.  Where a thread is:            *)
(*   user    in application code                                           *)
(*   wait    in rt_sem_take, suspended, rt_schedule not called yet         *)
(*   return  in rt_sem_take, rt_schedule called; it returns thread->error  *)
(*   sched   in another call, with rt_schedule still to call               *)
(*   reset   in the loop of RT_IPC_CMD_RESET, interrupts disabled          *)
(*   detach  in rt_sem_detach / rt_sem_delete, about to look whether the   *)
(*           wait list is empty; interrupts are enabled here               *)
(*   cancel  there, it was not, about to disable interrupts and wake the   *)
(*           first waiter                                                  *)
(*   wild    there, the list has become empty in between: the list head    *)
(*           itself is taken for a thread.  rt_thread_resume asserts that  *)
(*           it is one, with interrupts disabled; the system stops.        *)
(* How long a timed wait lasts is left open: an armed timer may fire at    *)
(* any moment.                                                             *)
(***************************************************************************)
EXTENDS Ipc

CONSTANTS
    Idle,           \* the idle thread
    InitPrio,       \* the priority of each thread
    Flags,          \* the flags rt_sem_init may be given
    InitValue,      \* the value given to rt_sem_init
    MaxValue,       \* RT_SEM_VALUE_MAX
    Takers,         \* the threads that call rt_sem_take
    Resetters,      \* the threads that reset the semaphore
    Owners,         \* the threads that may detach it
    Reprio,         \* the threads whose priority may be changed
    NewPrio         \* the priorities they may be given

ASSUME SemaphoreAssumption ==
    /\ Idle \in Thread
    /\ InitPrio \in [Thread -> Prio]
    /\ Flags \subseteq Flag
    /\ MaxValue \in Nat \ {0} /\ InitValue \in 0 .. MaxValue
    /\ Takers \cup Reprio \cup Resetters \cup Owners \subseteq Thread \ {Idle}
    /\ NewPrio \subseteq Prio

VARIABLES
    k,          \* the kernel state, see Kernel
    pc,         \* where each thread is
    flag,       \* sem->parent.parent.flag
    value,      \* sem->value
    waitq,      \* sem->parent.suspend_thread
    err,        \* thread->error
    newValue,   \* the argument of the reset in progress
    alive       \* the semaphore has not been detached, and nobody has begun to

vars == <<k, pc, flag, value, waitq, err, newValue, alive>>

TypeOK ==
    /\ k \in KernelState
    /\ pc \in [Thread -> {"user", "wait", "return", "sched", "reset",
                            "detach", "cancel", "wild"}]
    /\ flag \in Flags
    /\ value \in 0 .. MaxValue
    /\ waitq \in Seq(Thread)
    /\ err \in [Thread -> {"ok", "timeout", "error"}]
    /\ newValue \in 0 .. MaxValue
    /\ alive \in BOOLEAN

(* The scheduler runs the idle thread; the others are about to be started. *)
Init ==
    /\ k = [cur   |-> Idle,
            stat  |-> [t \in Thread |-> IF t = Idle THEN "running" ELSE "init"],
            yield |-> {},
            prio  |-> InitPrio,
            rq    |-> [p \in Prio |-> <<>>],
            group |-> {},
            lock  |-> 0,
            armed |-> {}]
    /\ pc = [t \in Thread |-> "user"]
    /\ flag \in Flags
    /\ value = InitValue
    /\ waitq = <<>>
    /\ err = [t \in Thread |-> "ok"]
    /\ newValue = 0
    /\ alive = TRUE

-----------------------------------------------------------------------------

(* Interrupts are disabled throughout the loop of a reset, and for good    *)
(* when an assertion fails in a critical section.                          *)
Masked == \E t \in Thread : pc[t] \in {"reset", "wild"}

(* Thread t is on the processor at point p of its program. *)
At(t, p) == k.cur = t /\ pc[t] = p

Goto(t, p) == pc' = [pc EXCEPT ![t] = p]

(* Application code on a semaphore that still exists. *)
Calls(t) == ~ Masked /\ At(t, "user") /\ alive

Start(t, x) ==
    /\ ~ Masked /\ At(t, "user")
    /\ k.stat[x] = "init"
    /\ k' = ResumeThread([k EXCEPT !.stat[x] = "suspend"], x)
    /\ Goto(t, "sched")
    /\ UNCHANGED <<flag, value, waitq, err, newValue, alive>>

(* rt_sem_take of an available semaphore. *)
TakeFree(t) ==
    /\ Calls(t)
    /\ value > 0
    /\ value' = value - 1
    /\ UNCHANGED <<flag, k, pc, waitq, err, newValue, alive>>

(* rt_sem_take of an unavailable one, with a time limit or without; with   *)
(* timeout 0 the call returns -RT_ETIMEOUT and changes nothing.            *)
TakeWait(t) ==
    /\ Calls(t)
    /\ value = 0
    /\ LET asleep == SuspendThread(k, t)
       IN  \E timed \in BOOLEAN : k' = IF timed THEN StartThreadTimer(asleep, t) ELSE asleep
    /\ waitq' = WaitInsert(flag, waitq, t, k.prio)
    /\ err' = [err EXCEPT ![t] = "ok"]
    /\ Goto(t, "wait")
    /\ UNCHANGED <<flag, value, newValue, alive>>

(* rt_schedule at the end of a call; a take has its result still to read. *)
CallSchedule(t) ==
    /\ ~ Masked
    /\ pc[t] \in {"wait", "sched"} /\ k.cur = t
    /\ k' = Schedule(k)
    /\ Goto(t, IF pc[t] = "wait" THEN "return" ELSE "user")
    /\ UNCHANGED <<flag, value, waitq, err, newValue, alive>>

(* rt_sem_take returns thread->error to its caller. *)
TakeReturn(t) ==
    /\ ~ Masked /\ At(t, "return")
    /\ Goto(t, "user")
    /\ UNCHANGED <<flag, k, value, waitq, err, newValue, alive>>

(* The critical section of rt_sem_release when threads wait: the first one *)
(* gets the unit, the value stays 0.                                       *)
Woken == ResumeThread(k, Head(waitq))

(* the value is increased although a waiter gets the unit *)
Slip_HandOverCounts(k1) ==
    /\ waitq # <<>>
    /\ k' = k1
    /\ waitq' = Tail(waitq)
    /\ value' = IF value < MaxValue THEN value + 1 ELSE value

HandOver(k1) ==
    /\ waitq # <<>>
    /\ k' = k1
    /\ waitq' = Tail(waitq)
    /\ UNCHANGED value

ReleaseWake(t) ==
    /\ Calls(t)
    /\ HandOver(Woken)
    /\ Goto(t, "sched")
    /\ UNCHANGED <<flag, err, newValue, alive>>

(* The same from an interrupt handler, with the rt_schedule it ends in.    *)
(* (The quantifier makes TLC evaluate Woken once.)                         *)
IsrWake ==
    /\ ~ Masked /\ alive /\ waitq # <<>>
    /\ \E woken \in {Woken} : HandOver(Schedule(woken))
    /\ UNCHANGED <<flag, pc, err, newValue, alive>>

(* the limit is not checked *)
Slip_ReleaseOverflows ==
    /\ ~ Masked /\ alive
    /\ waitq = <<>>
    /\ value' = value + 1
    /\ UNCHANGED <<flag, k, pc, waitq, err, newValue, alive>>

(* rt_sem_release with nobody waiting, by a thread or an interrupt; at the *)
(* limit it returns -RT_EFULL and changes nothing.                         *)
ReleaseCount ==
    /\ ~ Masked /\ alive
    /\ waitq = <<>>
    /\ value < MaxValue
    /\ value' = value + 1
    /\ UNCHANGED <<flag, k, pc, waitq, err, newValue, alive>>

-----------------------------------------------------------------------------
(* Reset and detach *)

(* One round of _ipc_list_resume_all. *)
CancelFirst ==
    /\ waitq # <<>>
    /\ err' = [err EXCEPT ![Head(waitq)] = "error"]
    /\ k' = ResumeThread(k, Head(waitq))
    /\ waitq' = Tail(waitq)

ResetBegin(t, v) ==
    /\ Calls(t)
    /\ newValue' = v
    /\ Goto(t, "reset")
    /\ UNCHANGED <<flag, k, value, waitq, err, alive>>

ResetWake(t) ==
    /\ At(t, "reset")
    /\ CancelFirst
    /\ UNCHANGED <<flag, pc, value, newValue, alive>>

(* the value is set without waiting for the loop to end *)
Slip_ResetEnd(t) ==
    /\ At(t, "reset")
    /\ value' = newValue
    /\ newValue' = 0
    /\ Goto(t, "sched")
    /\ UNCHANGED <<flag, k, waitq, err, alive>>

ResetEnd(t) ==
    /\ At(t, "reset")
    /\ waitq = <<>>
    /\ value' = newValue
    /\ newValue' = 0
    /\ Goto(t, "sched")
    /\ UNCHANGED <<flag, k, waitq, err, alive>>

(* rt_sem_detach and rt_sem_delete: the caller vouches that nobody calls   *)
(* on the semaphore from now on; no rt_schedule follows.                   *)
DetachBegin(t) ==
    /\ Calls(t)
    /\ alive' = FALSE
    /\ Goto(t, "detach")
    /\ UNCHANGED <<flag, k, value, waitq, err, newValue>>

(* "while (!rt_list_isempty(list))", outside the critical section *)
DetachLook(t) ==
    /\ ~ Masked /\ At(t, "detach")
    /\ Goto(t, IF waitq = <<>> THEN "user" ELSE "cancel")
    /\ UNCHANGED <<flag, k, value, waitq, err, newValue, alive>>

(* only the first waiter is woken *)
Slip_DetachWake(t) ==
    /\ ~ Masked /\ At(t, "cancel")
    /\ CancelFirst
    /\ Goto(t, "user")
    /\ UNCHANGED <<flag, value, newValue, alive>>

DetachWake(t) ==
    /\ ~ Masked /\ At(t, "cancel")
    /\ CancelFirst
    /\ Goto(t, "detach")
    /\ UNCHANGED <<flag, value, newValue, alive>>

(* The wait of the last waiter has ended since the test. *)
DetachWild(t) ==
    /\ ~ Masked /\ At(t, "cancel")
    /\ waitq = <<>>
    /\ Goto(t, "wild")
    /\ UNCHANGED <<flag, k, value, waitq, err, newValue, alive>>

-----------------------------------------------------------------------------
(* Around the semaphore *)

(* the thread is not taken out of the wait list *)
Slip_TimerFire(t) ==
    /\ ~ Masked
    /\ t \in k.armed
    /\ err' = [err EXCEPT ![t] = "timeout"]
    /\ k' = Schedule(TimeoutThread(k, t))
    /\ UNCHANGED <<flag, pc, value, waitq, newValue, alive>>

(* _thread_timeout, from the tick interrupt. *)
TimerFire(t) ==
    /\ ~ Masked
    /\ t \in k.armed
    /\ err' = [err EXCEPT ![t] = "timeout"]
    /\ waitq' = RemoveFirst(waitq, t)
    /\ k' = Schedule(TimeoutThread(k, t))
    /\ UNCHANGED <<flag, pc, value, newValue, alive>>

(* The tick interrupt ends the current thread's time slice. *)
SliceOver ==
    /\ ~ Masked
    /\ k' = Schedule([k EXCEPT !.yield = @ \cup {k.cur}])
    /\ UNCHANGED <<flag, pc, value, waitq, err, newValue, alive>>

(* rt_thread_control(CHANGE_PRIORITY) does not sort wait lists anew.       *)
SetPriority(t, x, p) ==
    /\ ~ Masked /\ At(t, "user")
    /\ k' = ChangePriority(k, x, p)
    /\ UNCHANGED <<flag, pc, value, waitq, err, newValue, alive>>

-----------------------------------------------------------------------------

ThreadCall(t) ==
    \/ \E x \in Thread : Start(t, x)
    \/ t \in Takers /\ (TakeFree(t) \/ TakeWait(t) \/ TakeReturn(t))
    \/ ReleaseWake(t)
    \/ t \in Resetters /\ \E v \in 0 .. MaxValue : ResetBegin(t, v)
    \/ ResetWake(t) \/ ResetEnd(t)
    \/ t \in Owners /\ DetachBegin(t)
    \/ DetachLook(t) \/ DetachWake(t) \/ DetachWild(t)
    \/ \E x \in Reprio, p \in NewPrio : SetPriority(t, x, p)
    \/ CallSchedule(t)

Next ==
    \/ \E t \in Thread : ThreadCall(t)
    \/ ReleaseCount
    \/ IsrWake
    \/ \E t \in Thread : TimerFire(t)
    \/ SliceOver

Spec == Init /\ [][Next]_vars

(* Interrupt handlers keep releasing the semaphore, and a reset that has   *)
(* disabled interrupts is executed to its end.                             *)
Fairness ==
    /\ WF_vars(IsrWake)
    /\ \A t \in Resetters : WF_vars(ResetWake(t) \/ ResetEnd(t))

FairSpec == Spec /\ Fairness

-----------------------------------------------------------------------------
(* Properties *)

(* No lost wake-up: a unit is never free while a thread waits for one.     *)
(* A timeout, a release, a reset and a new take may come in any order      *)
(* between suspending and waking (rt_sem_take, rt_sem_release).            *)
NoUnitWhileWaiting == value > 0 => waitq = <<>>

(* The wait list links exactly the threads suspended in rt_sem_take that   *)
(* nobody has woken yet, each once; their timers and no others are armed   *)
(* (_ipc_list_suspend, _ipc_list_resume, _thread_timeout).                 *)
WaitListExact ==
    /\ LinkedOnce(waitq)
    /\ \A t \in Thread : k.stat[t] = "suspend" <=> Linked(t, waitq)
    /\ \A i \in 1 .. Len(waitq) :
          pc[waitq[i]] \in {"wait", "return"} /\ err[waitq[i]] = "ok"
    /\ \A t \in k.armed : Linked(t, waitq)

(* Under RT_IPC_FLAG_PRIO no newcomer, wake-up, time-out, reset or detach  *)
(* disturbs the order of priorities of the wait list (_ipc_list_suspend).  *)
(* A change of priority does: it moves nobody in the list.                 *)
WaitOrderKept ==
    [][/\ flag = "PRIO" /\ InPrioOrder(waitq, k.prio)
       /\ k'.prio = k.prio
       => InPrioOrder(waitq', k'.prio)]_vars

(* A detached semaphore keeps nobody waiting: "it will resume all          *)
(* suspended threads in the semaphore list" (rt_sem_detach).               *)
DetachedWakesAll ==
    ~ alive /\ (\A t \in Thread : pc[t] \notin {"detach", "cancel"}) => waitq = <<>>

(* What rt_thread_resume asserts of its argument: a detach resumes only    *)
(* threads.                                                                *)
ResumesThreads == \A t \in Thread : pc[t] # "wild"

(* Under RT_IPC_FLAG_FIFO a waiter is served in the end, whatever happens  *)
(* to priorities: those that come later never overtake it.                 *)
WaiterServed ==
    \A t \in Takers :
        flag = "FIFO" /\ Linked(t, waitq) ~> ~ Linked(t, waitq) \/ ~ alive

(* The semaphore implements CountingSemaphore: what a thread has of its    *)
(* take is read off its place in rt_sem_take, the wait list and its error. *)
TakeState(t) ==
    IF pc[t] \notin {"wait", "return"} THEN "idle"
    ELSE IF Linked(t, waitq) THEN "asking"
    ELSE IF err[t] = "ok" THEN "granted" ELSE err[t]

Counting == INSTANCE CountingSemaphore
                WITH free <- value, st <- [t \in Thread |-> TakeState(t)]

ImplementsCounting == Counting!Spec

=============================================================================
