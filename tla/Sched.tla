------------------------------- MODULE Sched -------------------------------
(***************************************************************************)
(* Threads under the scheduler: boot, start-up, time slices, yield, sleep, *)
(* suspend and resume, the scheduler lock, priority changes, exit, delete  *)
(* and the idle thread's clean-up (scheduler.c, thread.c, clock.c, idle.c, *)
(* the thread timers of timer.c).                                          *)
(*                                                                         *)
(* A thread is in application code (pc "user") or inside a kernel call     *)
(* that has enabled interrupts again and still has to call rt_schedule     *)
(* ("sched"), or is between the two critical sections of rt_thread_delete  *)
(* ("delete").  Interrupts come between any two steps of a thread.  The    *)
(* tick interrupt is cut where rt_tick_increase enables interrupts; inside *)
(* rt_timer_check (isr "check") nothing else runs.                         *)
(***************************************************************************)
EXTENDS Kernel

CONSTANTS
    Idle,       \* the idle thread
    Manager,    \* the one thread that starts and deletes other threads
    InitPrio,   \* rt_thread_init's priority of each thread
    Slice,      \* thread->init_tick, the same for all threads
    MaxSleep,   \* bound on the ticks of one rt_thread_sleep
    MaxNest,    \* bound on rt_scheduler_lock_nest
    Sleepers,   \* the threads that call rt_thread_sleep
    Waiters,    \* the threads that suspend themselves until resumed
    Quitters,   \* the threads whose entry function may return
    Victims,    \* the threads Manager may delete
    Reprio,     \* the threads whose priority may be changed
    NewPrio     \* the priorities they may be given

ASSUME SchedAssumption ==
    /\ Idle \in Thread /\ Manager \in Thread
    /\ InitPrio \in [Thread -> Prio] /\ InitPrio[Idle] = NumPrio - 1
    /\ Slice \in Nat \ {0} /\ MaxSleep \in Nat /\ MaxNest \in Nat
    /\ Sleepers \cup Waiters \cup Quitters \cup Victims \cup Reprio \subseteq Thread \ {Idle}
    /\ Manager \notin Victims
    /\ NewPrio \subseteq Prio

VARIABLES
    k,          \* the kernel state, see Kernel
    pc,         \* where each thread is
    victim,     \* the thread Manager is deleting while its pc is "delete"
    isr,        \* the tick interrupt: "none", "tick", "gap" or "check"
    rem,        \* thread->remaining_tick
    left,       \* the ticks left until an armed thread timer is due
    defunct,    \* _rt_thread_defunct
    late        \* ghost: a call that does not reschedule changed who should run

vars == <<k, pc, victim, isr, rem, left, defunct, late>>

TypeOK ==
    /\ k \in KernelState
    /\ pc \in [Thread -> {"user", "sched", "delete"}]
    /\ victim \in Thread \cup {NoThread}
    /\ isr \in {"none", "tick", "gap", "check"}
    /\ rem \in [Thread -> 1 .. Slice]
    /\ left \in [Thread -> 0 .. MaxSleep]
    /\ defunct \in Seq(Thread)
    /\ late \in BOOLEAN

(* rt_system_scheduler_init, and rt_thread_init of every thread. *)
Init ==
    /\ k = [cur   |-> NoThread,
            stat  |-> [t \in Thread |-> "init"],
            yield |-> {},
            prio  |-> InitPrio,
            rq    |-> [p \in Prio |-> <<>>],
            group |-> {},
            lock  |-> 0,
            armed |-> {}]
    /\ pc = [t \in Thread |-> "user"]
    /\ victim = NoThread
    /\ isr = "none"
    /\ rem = [t \in Thread |-> Slice]
    /\ left = [t \in Thread |-> 0]
    /\ defunct = <<>>
    /\ late = FALSE

-----------------------------------------------------------------------------

(* A call of rt_schedule: late is settled unless the scheduler is locked. *)
Reschedule(k1) ==
    /\ k' = Schedule(k1)
    /\ late' = (late /\ k1.lock # 0)

(* Thread t executes application code. *)
InUser(t) ==
    /\ isr = "none"
    /\ k.cur = t
    /\ pc[t] = "user"
    /\ k.stat[t] = "running"

(* The call leaves its critical section and has rt_schedule still to call. *)
OwesSchedule(t) == pc' = [pc EXCEPT ![t] = "sched"]

(* A new thread becomes SUSPEND and is then resumed: rt_thread_startup. *)
StartUp(x) == ResumeThread([k EXCEPT !.stat[x] = "suspend"], x)

(* Before the scheduler runs, threads are started but nothing is scheduled. *)
Boot(x) ==
    /\ k.cur = NoThread
    /\ k.stat[x] = "init"
    /\ k' = StartUp(x)
    /\ UNCHANGED <<pc, victim, isr, rem, left, defunct, late>>

(* rt_system_scheduler_start.  rtthread_startup has started the idle thread. *)
StartScheduler ==
    /\ k.cur = NoThread
    /\ k.stat[Idle] = "ready"
    /\ LET to == Head(k.rq[HighestReady(k)])
       IN  k' = [RemoveThread([k EXCEPT !.cur = to], to) EXCEPT !.stat[to] = "running"]
    /\ UNCHANGED <<pc, victim, isr, rem, left, defunct, late>>

(* The end of every call that schedules after it enabled interrupts. *)
CallSchedule(t) ==
    /\ isr = "none"
    /\ k.cur = t
    /\ pc[t] = "sched"
    /\ Reschedule(k)
    /\ pc' = [pc EXCEPT ![t] = "user"]
    /\ UNCHANGED <<victim, isr, rem, left, defunct>>

-----------------------------------------------------------------------------
(* Calls of the running thread *)

Create(x) ==
    /\ InUser(Manager)
    /\ k.stat[x] = "init"
    /\ k' = StartUp(x)
    /\ OwesSchedule(Manager)
    /\ UNCHANGED <<victim, isr, rem, left, defunct, late>>

(* rt_thread_yield: the whole call runs with interrupts disabled. *)
Yield(t) ==
    /\ InUser(t)
    /\ Reschedule([k EXCEPT !.yield = @ \cup {t}])
    /\ rem' = [rem EXCEPT ![t] = Slice]
    /\ UNCHANGED <<pc, victim, isr, left, defunct>>

(* the timer is started before rt_thread_suspend, which stops it *)
Slip_SleepOrder(t, d) ==
    /\ InUser(t)
    /\ k.lock = 0
    /\ k' = SuspendThread(StartThreadTimer(k, t), t)
    /\ left' = [left EXCEPT ![t] = d]
    /\ OwesSchedule(t)
    /\ UNCHANGED <<victim, isr, rem, defunct, late>>

(* rt_thread_sleep; it asserts that the scheduler is not locked. *)
Sleep(t, d) ==
    /\ InUser(t)
    /\ k.lock = 0
    /\ k' = StartThreadTimer(SuspendThread(k, t), t)
    /\ left' = [left EXCEPT ![t] = d]
    /\ OwesSchedule(t)
    /\ UNCHANGED <<victim, isr, rem, defunct, late>>

(* rt_thread_suspend of the running thread followed by rt_schedule, the    *)
(* way all blocking calls use it; callers hold no scheduler lock.          *)
SuspendSelf(t) ==
    /\ InUser(t)
    /\ k.lock = 0
    /\ k' = SuspendThread(k, t)
    /\ OwesSchedule(t)
    /\ UNCHANGED <<victim, isr, rem, left, defunct, late>>

(* rt_thread_resume followed by rt_schedule, the way every IPC release     *)
(* uses it: the caller has disabled interrupts, so that the test of the    *)
(* stat before the critical section of rt_thread_resume is inside its own. *)
Resume(t, x) ==
    /\ InUser(t)
    /\ k.stat[x] = "suspend"
    /\ k' = ResumeThread(k, x)
    /\ OwesSchedule(t)
    /\ UNCHANGED <<victim, isr, rem, left, defunct, late>>

EnterCritical(t) ==
    /\ InUser(t)
    /\ k.lock < MaxNest
    /\ k' = [k EXCEPT !.lock = @ + 1]
    /\ UNCHANGED <<pc, victim, isr, rem, left, defunct, late>>

(* the nest is not kept from going below 0 *)
Slip_ExitNegative(t) ==
    /\ InUser(t)
    /\ k' = [k EXCEPT !.lock = @ - 1]
    /\ pc' = IF k.lock <= 1 THEN [pc EXCEPT ![t] = "sched"] ELSE pc
    /\ UNCHANGED <<victim, isr, rem, left, defunct, late>>

(* the last unlock does not reschedule *)
Slip_ExitSilent(t) ==
    /\ InUser(t)
    /\ k' = [k EXCEPT !.lock = IF @ = 0 THEN 0 ELSE @ - 1]
    /\ UNCHANGED <<pc, victim, isr, rem, left, defunct, late>>

(* rt_exit_critical; an unbalanced call is harmless: the nest stays 0. *)
ExitCritical(t) ==
    /\ InUser(t)
    /\ LET nest == IF k.lock <= 1 THEN 0 ELSE k.lock - 1
       IN  /\ k' = [k EXCEPT !.lock = nest]
           /\ pc' = IF nest = 0 THEN [pc EXCEPT ![t] = "sched"] ELSE pc
    /\ UNCHANGED <<victim, isr, rem, left, defunct, late>>

(* rt_thread_control(CHANGE_PRIORITY) does not reschedule. *)
SetPriority(t, x, p) ==
    /\ InUser(t)
    /\ k.stat[x] # "close"
    /\ k' = ChangePriority(k, x, p)
    /\ late' = TRUE
    /\ UNCHANGED <<pc, victim, isr, rem, left, defunct>>

(* _thread_exit: the entry function of t returned. *)
Exit(t) ==
    /\ InUser(t)
    /\ k.lock = 0
    /\ k' = [RemoveThread(k, t) EXCEPT !.stat[t] = "close", !.armed = @ \ {t}]
    /\ defunct' = <<t>> \o defunct
    /\ OwesSchedule(t)
    /\ UNCHANGED <<victim, isr, rem, left, late>>

(* rt_thread_delete / rt_thread_detach, first part: a started thread is    *)
(* removed from the scheduler, and interrupts are enabled again.  The      *)
(* tests of the stat come before the critical section; they belong to this *)
(* step since nobody but Manager closes or starts a victim.                *)
DeleteRemove(x) ==
    /\ InUser(Manager)
    /\ x # Manager
    /\ k.stat[x] # "close"
    /\ k' = IF k.stat[x] = "init" THEN k ELSE RemoveThread(k, x)
    /\ victim' = x
    /\ pc' = [pc EXCEPT ![Manager] = "delete"]
    /\ UNCHANGED <<isr, rem, left, defunct, late>>

(* Second part: the timer is detached, the thread closed and queued for    *)
(* the idle thread.  rt_thread_control(RT_THREAD_CTRL_CLOSE) then calls    *)
(* rt_schedule, the other callers need not.                                *)
DeleteClose ==
    /\ isr = "none"
    /\ k.cur = Manager
    /\ pc[Manager] = "delete"
    /\ k' = [k EXCEPT !.stat[victim] = "close", !.armed = @ \ {victim}]
    /\ defunct' = <<victim>> \o defunct
    /\ victim' = NoThread
    /\ \E next \in {"user", "sched"} : pc' = [pc EXCEPT ![Manager] = next]
    /\ UNCHANGED <<isr, rem, left, late>>

(* rt_defunct_execute, one round of its loop in the idle thread. *)
Reap ==
    /\ InUser(Idle)
    /\ defunct # <<>>
    /\ defunct' = Tail(defunct)
    /\ UNCHANGED <<k, pc, victim, isr, rem, left, late>>

-----------------------------------------------------------------------------
(* Interrupts *)

(* An interrupt resumes a thread and reschedules (rt_sem_release and such). *)
IsrResume(x) ==
    /\ isr # "check"
    /\ k.cur # NoThread
    /\ k.stat[x] = "suspend"
    /\ Reschedule(ResumeThread(k, x))
    /\ UNCHANGED <<pc, victim, isr, rem, left, defunct>>

(* a used-up time slice does not set the YIELD flag *)
Slip_TickNoYield ==
    /\ isr = "none"
    /\ k.cur # NoThread
    /\ rem' = [rem EXCEPT ![k.cur] = IF @ = 1 THEN Slice ELSE @ - 1]
    /\ isr' = IF rem[k.cur] = 1 THEN "tick" ELSE "gap"
    /\ left' = [t \in Thread |-> IF t \in k.armed /\ left[t] > 0 THEN left[t] - 1 ELSE left[t]]
    /\ UNCHANGED <<k, pc, victim, defunct, late>>

(* The first critical section of rt_tick_increase. *)
Tick ==
    /\ isr = "none"
    /\ k.cur # NoThread
    /\ IF rem[k.cur] = 1
       THEN /\ rem' = [rem EXCEPT ![k.cur] = Slice]
            /\ k' = [k EXCEPT !.yield = @ \cup {k.cur}]
            /\ isr' = "tick"
       ELSE /\ rem' = [rem EXCEPT ![k.cur] = @ - 1]
            /\ isr' = "gap"
            /\ UNCHANGED k
    /\ left' = [t \in Thread |-> IF t \in k.armed /\ left[t] > 0 THEN left[t] - 1 ELSE left[t]]
    /\ UNCHANGED <<pc, victim, defunct, late>>

(* Its call of rt_schedule when the time slice is used up. *)
TickSchedule ==
    /\ isr = "tick"
    /\ Reschedule(k)
    /\ isr' = "gap"
    /\ UNCHANGED <<pc, victim, rem, left, defunct>>

TimerCheckBegin ==
    /\ isr = "gap"
    /\ isr' = "check"
    /\ UNCHANGED <<k, pc, victim, rem, left, defunct, late>>

(* One round of rt_timer_check's loop: a due timer runs _thread_timeout. *)
TimerFire(t) ==
    /\ isr = "check"
    /\ t \in k.armed
    /\ left[t] = 0
    /\ Reschedule(TimeoutThread(k, t))
    /\ UNCHANGED <<pc, victim, isr, rem, left, defunct>>

TimerCheckEnd ==
    /\ isr = "check"
    /\ \A t \in k.armed : left[t] # 0
    /\ isr' = "none"
    /\ UNCHANGED <<k, pc, victim, rem, left, defunct, late>>

-----------------------------------------------------------------------------

ThreadCall(t) ==
    \/ CallSchedule(t)
    \/ Yield(t)
    \/ t \in Sleepers /\ \E d \in 1 .. MaxSleep : Sleep(t, d)
    \/ t \in Waiters /\ SuspendSelf(t)
    \/ \E x \in Waiters : Resume(t, x)
    \/ EnterCritical(t)
    \/ ExitCritical(t)
    \/ \E x \in Reprio, p \in NewPrio : SetPriority(t, x, p)
    \/ t \in Quitters /\ Exit(t)

Lifetime ==
    \/ \E x \in Thread : Boot(x)
    \/ StartScheduler
    \/ \E x \in Thread : Create(x)
    \/ \E x \in Victims : DeleteRemove(x)
    \/ DeleteClose
    \/ Reap

Interrupt ==
    \/ \E x \in Waiters : IsrResume(x)
    \/ Tick
    \/ TickSchedule
    \/ TimerCheckBegin
    \/ \E t \in Thread : TimerFire(t)
    \/ TimerCheckEnd

Next ==
    \/ \E t \in Thread : ThreadCall(t)
    \/ Lifetime
    \/ Interrupt

Spec == Init /\ [][Next]_vars

(* The tick keeps coming, an interrupt handler runs to its end, a thread   *)
(* that is on the processor finishes the kernel call it is in, and the     *)
(* boot code starts the scheduler.  Application code owes nothing.         *)
Fairness ==
    /\ WF_vars(StartScheduler) /\ WF_vars(Boot(Idle))
    /\ WF_vars(Tick) /\ WF_vars(TickSchedule)
    /\ WF_vars(TimerCheckBegin) /\ WF_vars(TimerCheckEnd)
    /\ \A t \in Thread : WF_vars(TimerFire(t)) /\ WF_vars(CallSchedule(t))

FairSpec == Spec /\ Fairness

-----------------------------------------------------------------------------
(* Properties *)

(* Manager has unlinked x and not closed it yet. *)
BeingDeleted(x) == pc[Manager] = "delete" /\ victim = x

(* A ready list holds ready threads of its priority, each once. *)
QueuesHoldReady ==
    \A p \in Prio :
        /\ LinkedOnce(k.rq[p])
        /\ \A t \in Thread : Linked(t, k.rq[p]) => k.stat[t] = "ready" /\ k.prio[t] = p

(* No ready thread is lost. *)
ReadyIsQueued ==
    \A t \in Thread :
        k.stat[t] = "ready" /\ ~ BeingDeleted(t) => Linked(t, k.rq[k.prio[t]])

(* The bitmap rt_schedule trusts agrees with the lists. *)
GroupExact == k.group = {p \in Prio : k.rq[p] # <<>>}

(* Only the current thread is RUNNING, and it is in no ready list. *)
OneRuns ==
    \A t \in Thread : k.stat[t] = "running" => t = k.cur

(* The ready table is exact: across interrupted calls, deletes, priority   *)
(* changes and the early return of a locked rt_schedule, the lists, the    *)
(* bitmap and the stat of the threads agree (scheduler.c, thread.c).       *)
ReadyTableExact ==
    QueuesHoldReady /\ ReadyIsQueued /\ GroupExact /\ OneRuns

(* The thread in application code has the highest priority of all that can *)
(* run, unless the scheduler is locked or a priority was changed without a *)
(* rescheduling since: no resume, timeout or unlock forgets to reschedule. *)
(* And rt_schedule never finds nothing to run: whenever the current thread *)
(* cannot go on, some thread is ready (the idle thread if no other).       *)
HighestRuns ==
    /\ k.cur # NoThread /\ k.stat[k.cur] # "running" => k.group # {}
    /\ \A t \in Thread : InUser(t) /\ k.lock = 0 /\ ~ late =>
           \A x \in Thread : k.stat[x] = "ready" /\ ~ BeingDeleted(x) => k.prio[t] <= k.prio[x]

(* The assertion of _thread_timeout: a thread whose timer is active is     *)
(* suspended, so no timer outlives the wait it was started for.            *)
ArmedIsSuspended == \A t \in k.armed : k.stat[t] = "suspend"

(* With the scheduler locked no step of anybody takes the processor away. *)
LockedKeepsCpu == [][k.lock > 0 => k'.cur = k.cur]_vars

(* A thread that lost the processor to a higher priority with "some time   *)
(* slices left" is the first of its own priority to run again              *)
(* (rt_schedule_insert_thread).                                            *)
PreemptedIsFirst ==
    [][\A t \in Thread :
          /\ t \notin k.yield /\ ~ Yield(t)
          /\ k.cur = t /\ k'.cur # t /\ k'.stat[t] = "ready"
          /\ k'.prio[k'.cur] < k'.prio[t]
          => Head(k'.rq[k'.prio[t]]) = t]_vars

(* A thread that sleeps is made ready again by its timer, whatever the     *)
(* others do.                                                              *)
SleepEnds ==
    \A t \in Sleepers \ Waiters : k.stat[t] = "suspend" ~> k.stat[t] # "suspend"

(* A time slice ends: a thread does not keep the processor while one of    *)
(* its own priority is ready, even if it never gives it up.  (It does not  *)
(* follow that each of its peers has a turn.)                              *)
SliceEnds ==
    \A t, u \in Thread :
        /\ k.cur = t /\ k.stat[t] = "running"
        /\ k.stat[u] = "ready" /\ k.prio[u] = k.prio[t]
        ~> k.cur # t \/ k.stat[u] # "ready"

=============================================================================
