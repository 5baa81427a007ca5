------------------------------- MODULE Kernel -------------------------------
(***************************************************************************)
(* The run-time state RT-Thread keeps about its threads on a single core   *)
(* (scheduler.c, thread.c, the thread timer of timer.c), as a record, and  *)
(* the kernel routines that move a thread between lists, as operators      *)
(* from one such record to the next.  Each operator is the body of the     *)
(* routine of the same name between rt_hw_interrupt_disable and            *)
(* rt_hw_interrupt_enable; the modules that use them (Sched, Semaphore,    *)
(* Mutex) decide where interrupts are enabled in between.                  *)
(*                                                                         *)
(* The record k:                                                           *)
(*   cur    rt_current_thread, NoThread before the scheduler is started    *)
(*   stat   the RT_THREAD_STAT_MASK part of thread->stat                   *)
(*   yield  the threads with RT_THREAD_STAT_YIELD set in thread->stat      *)
(*   prio   thread->current_priority, 0 is the highest                     *)
(*   rq     rt_thread_priority_table: the ready list of each priority      *)
(*   group  rt_thread_ready_priority_group: the priorities whose bit is 1  *)
(*   lock   rt_scheduler_lock_nest                                         *)
(*   armed  the threads whose thread_timer is RT_TIMER_FLAG_ACTIVATED      *)
(***************************************************************************)
EXTENDS Linking

CONSTANTS
    Thread,     \* the thread objects
    NoThread,   \* RT_NULL
    NumPrio     \* RT_THREAD_PRIORITY_MAX

ASSUME KernelAssumption ==
    /\ NoThread \notin Thread
    /\ NumPrio \in Nat \ {0}

Prio == 0 .. NumPrio - 1

Stat == {"init", "ready", "running", "suspend", "close"}

KernelState ==
    [cur   : Thread \cup {NoThread},
     stat  : [Thread -> Stat],
     yield : SUBSET Thread,
     prio  : [Thread -> Prio],
     rq    : [Prio -> Seq(Thread)],
     group : SUBSET Prio,
     lock  : Nat,
     armed : SUBSET Thread]

-----------------------------------------------------------------------------
(* Ready lists *)

(* Operators named Slip_... are the mutants that PROJECT.json names: the   *)
(* definition below each, with a slip a programmer could have made.  No    *)
(* definition uses them.                                                   *)

(* every thread goes to the tail *)
Slip_InsertTail(k, t) ==
    IF t = k.cur
    THEN [k EXCEPT !.stat[t] = "running"]
    ELSE [k EXCEPT !.stat[t] = "ready", !.rq[k.prio[t]] = Append(@, t),
                   !.group = @ \cup {k.prio[t]}]

(* rt_schedule_insert_thread.  The current thread is never put in a ready  *)
(* list.  Any other thread goes to the head of the list of its priority,   *)
(* or to its tail when its YIELD flag is set.                              *)
InsertThread(k, t) ==
    IF t = k.cur
    THEN [k EXCEPT !.stat[t] = "running"]
    ELSE [k EXCEPT !.stat[t] = "ready",
                   !.rq[k.prio[t]] = IF t \in k.yield THEN Append(@, t) ELSE <<t>> \o @,
                   !.group = @ \cup {k.prio[t]}]

(* the bit is cleared although the list may hold more threads *)
Slip_RemoveClearsBit(k, t) ==
    [k EXCEPT !.rq = [p \in Prio |-> RemoveFirst(k.rq[p], t)], !.group = @ \ {k.prio[t]}]

(* rt_schedule_remove_thread.  rt_list_remove unlinks the thread from      *)
(* whatever ready list it is in; the bit that is cleared is the one of the *)
(* thread's present priority.                                              *)
RemoveThread(k, t) ==
    LET rq == [p \in Prio |-> RemoveFirst(k.rq[p], t)]
    IN  [k EXCEPT !.rq = rq,
                  !.group = IF rq[k.prio[t]] = <<>> THEN @ \ {k.prio[t]} ELSE @]

(* _scheduler_get_highest_priority_thread: __rt_ffs of the group. *)
HighestReady(k) == CHOOSE p \in k.group : \A q \in k.group : p <= q

-----------------------------------------------------------------------------
(* rt_schedule *)

(* The current thread stays on the processor. *)
KeepsCpu(k) ==
    /\ k.stat[k.cur] = "running"
    /\ \/ k.prio[k.cur] < HighestReady(k)
       \/ k.prio[k.cur] = HighestReady(k) /\ k.cur \notin k.yield

(* "rt_current_thread->stat &= ~RT_THREAD_STAT_YIELD_MASK", which happens  *)
(* before the thread is inserted in a ready list.                          *)
ClearYield(k) ==
    IF k.stat[k.cur] = "running" THEN [k EXCEPT !.yield = @ \ {k.cur}] ELSE k

(* The thread left behind goes back to a ready list if it can still run. *)
SwitchTo(k, to) ==
    LET left == [k EXCEPT !.cur = to]
        back == IF k.stat[k.cur] = "running" THEN InsertThread(left, k.cur) ELSE left
    IN  [RemoveThread(back, to) EXCEPT !.stat[to] = "running"]

(* the scheduler lock is ignored *)
Slip_ScheduleUnlocked(k) ==
    IF k.group = {} THEN k
    ELSE IF KeepsCpu(k)
    THEN [RemoveThread(ClearYield(k), k.cur) EXCEPT !.stat[k.cur] = "running"]
    ELSE SwitchTo(ClearYield(k), Head(k.rq[HighestReady(k)]))

Schedule(k) ==
    IF k.lock # 0 \/ k.group = {} THEN k
    ELSE IF KeepsCpu(k)
    THEN [RemoveThread(ClearYield(k), k.cur) EXCEPT !.stat[k.cur] = "running"]
    ELSE SwitchTo(ClearYield(k), Head(k.rq[HighestReady(k)]))

-----------------------------------------------------------------------------
(* Thread state changes *)

(* rt_thread_suspend: only a READY or RUNNING thread is suspended, and its *)
(* timer is stopped.                                                       *)
SuspendThread(k, t) ==
    IF k.stat[t] \notin {"ready", "running"} THEN k
    ELSE [RemoveThread(k, t) EXCEPT !.stat[t] = "suspend", !.armed = @ \ {t}]

(* the timer keeps running *)
Slip_ResumeKeepsTimer(k, t) ==
    IF k.stat[t] # "suspend" THEN k ELSE InsertThread(k, t)

(* rt_thread_resume: only a SUSPEND thread is resumed.  The caller takes   *)
(* the thread out of the wait list it models.                              *)
ResumeThread(k, t) ==
    IF k.stat[t] # "suspend" THEN k
    ELSE InsertThread([k EXCEPT !.armed = @ \ {t}], t)

(* rt_timer_start on the thread's own timer. *)
StartThreadTimer(k, t) == [k EXCEPT !.armed = @ \cup {t}]

(* rt_timer_check fires the one-shot timer of a thread, which runs         *)
(* _thread_timeout up to its call of rt_schedule.                          *)
TimeoutThread(k, t) == InsertThread([k EXCEPT !.armed = @ \ {t}], t)

(* rt_thread_control(RT_THREAD_CTRL_CHANGE_PRIORITY): a READY thread moves *)
(* to the list of its new priority, no other list is touched.              *)
ChangePriority(k, t, p) ==
    IF k.stat[t] = "ready"
    THEN InsertThread([RemoveThread(k, t) EXCEPT !.prio[t] = p], t)
    ELSE [k EXCEPT !.prio[t] = p]

=============================================================================
