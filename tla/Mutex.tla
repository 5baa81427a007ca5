------------------------------- MODULE Mutex -------------------------------
(***************************************************************************)
(* Mutexes with priority inheritance and priority ceilings (the rt_mutex   *)
(* calls of ipc.c), used by threads under the scheduler.                   *)
(*                                                                         *)
(* A call is one step per critical section.  Where a thread is:            *)
(*   user    in application code                                           *)
(*   wait    in rt_mutex_take, suspended, rt_schedule not called yet       *)
(*   return  in rt_mutex_take, rt_schedule called, the second critical     *)
(*           section still to run                                          *)
(*   sched   in another call, with rt_schedule still to call               *)
(*   delete  between the two critical sections of rt_thread_delete         *)
(* How long a timed wait lasts is left open: an armed timer may fire at    *)
(* any moment.                                                             *)
(***************************************************************************)
EXTENDS Ipc, FiniteSets

CONSTANTS
    Mutex,          \* the mutexes
    NoMutex,        \* RT_NULL
    Idle,           \* the idle thread
    InitPrio,       \* thread->init_priority
    MaxHold,        \* RT_MUTEX_HOLD_MAX
    Ceilings,       \* the ceilings that are given to mutexes
    Users,          \* which mutexes each thread takes
    Nesters,        \* the threads that wait for a mutex while they hold one
    Timed,          \* the threads that wait with a time limit
    Sleepers,       \* the threads that call rt_thread_delay
    Owners,         \* the threads that may detach a mutex
    Setters,        \* the threads that give mutexes a ceiling
    Manager,        \* the one thread that deletes threads
    Victims,        \* the threads it may delete
    Asserts         \* RT_DEBUG is defined: RT_ASSERT is checked

ASSUME MutexAssumption ==
    /\ Idle \in Thread /\ IsFiniteSet(Thread)
    /\ NoMutex \notin Mutex
    /\ InitPrio \in [Thread -> Prio]
    /\ MaxHold \in Nat \ {0}
    /\ Ceilings \subseteq Prio
    /\ Users \in [Thread -> SUBSET Mutex] /\ Users[Idle] = {}
    /\ Nesters \cup Timed \cup Sleepers \cup Owners \subseteq Thread \ {Idle}
    /\ Setters \subseteq Thread
    /\ Manager \in Thread /\ Victims \subseteq Thread \ {Idle, Manager}
    /\ Asserts \in BOOLEAN

VARIABLES
    k,          \* the kernel state, see Kernel
    pc,         \* where each thread is
    mtx,        \* the mutexes
    taken,      \* thread->taken_object_list
    pending,    \* thread->pending_object
    err,        \* thread->error
    victim,     \* the thread Manager is deleting while its pc is "delete"
    fault       \* how the system has come to a stop

vars == <<k, pc, mtx, taken, pending, err, victim, fault>>

NoPrio == NumPrio   \* 0xFF, lower than every priority

MutexRecord ==
    [owner : Thread \cup {NoThread},
     hold  : 0 .. MaxHold,
     prio  : Prio \cup {NoPrio},    \* mutex->priority
     ceil  : Prio \cup {NoPrio},    \* mutex->ceiling_priority
     waitq : Seq(Thread),
     alive : BOOLEAN]               \* not detached

TypeOK ==
    /\ k \in KernelState
    /\ pc \in [Thread -> {"user", "wait", "return", "sched", "delete"}]
    /\ mtx \in [Mutex -> MutexRecord]
    /\ taken \in [Thread -> SUBSET Mutex]
    /\ pending \in [Thread -> Mutex \cup {NoMutex}]
    /\ err \in [Thread -> {"ok", "timeout", "error"}]
    /\ victim \in Thread \cup {NoThread}
    /\ fault \in {"no", "assert", "null"}

(* The scheduler runs the idle thread; the others are about to be started, *)
(* the mutexes come from rt_mutex_init.                                    *)
Init ==
    /\ k = [cur   |-> Idle,
            stat  |-> [t \in Thread |-> IF t = Idle THEN "running" ELSE "init"],
            yield |-> {},
            prio  |-> InitPrio,
            rq    |-> [p \in Prio |-> <<>>],
            group |-> {},
            lock  |-> 0,
            armed |-> {}]
    /\ pc = [t \in Thread |-> "user"]
    /\ mtx = [x \in Mutex |-> [owner |-> NoThread, hold |-> 0, prio |-> NoPrio,
                               ceil |-> NoPrio, waitq |-> <<>>, alive |-> TRUE]]
    /\ taken = [t \in Thread |-> {}]
    /\ pending = [t \in Thread |-> NoMutex]
    /\ err = [t \in Thread |-> "ok"]
    /\ victim = NoThread
    /\ fault = "no"

-----------------------------------------------------------------------------
(* Priorities *)

(* _mutex_update_priority: the priority of the first waiter. *)
HeadPrio(k1, q) == IF q = <<>> THEN NoPrio ELSE k1.prio[Head(q)]

(* _thread_get_mutex_priority *)
MutexPriority(m, held, t) == Min({InitPrio[t]} \cup {m[x].prio : x \in held})

(* rt_list_remove of the thread's tlist, whatever wait list it is in. *)
Unlinked(m, t) == [x \in Mutex |-> [m[x] EXCEPT !.waitq = RemoveFirst(@, t)]]

(* the thread keeps its place in the wait list *)
Slip_Climb(s) ==
    LET t    == s.next
        x    == s.pending[t]
        m    == [s.mtx EXCEPT ![x].prio = HeadPrio(s.k, s.mtx[x].waitq)]
        o    == m[x].owner
        prio == MutexPriority(m, taken[o], o)
    IN  IF t = NoThread THEN s
        ELSE IF s.k.stat[t] # "suspend" \/ x = NoMutex THEN [s EXCEPT !.next = NoThread]
        ELSE IF prio = s.k.prio[o] THEN [s EXCEPT !.mtx = m, !.next = NoThread]
        ELSE [s EXCEPT !.mtx = m, !.k = ChangePriority(@, o, prio), !.next = o]

(* One level of _thread_update_priority: s.next has just been given a new  *)
(* priority.  If it waits for a mutex it is put in its place there, and    *)
(* the owner of that mutex is next.  The re-insertion calls                *)
(* rt_thread_suspend, which asserts that the thread is the current one     *)
(* and, unless that stops the system, leaves a suspended thread as it is.  *)
Climb(s) ==
    LET t    == s.next
        x    == s.pending[t]
        q    == WaitInsert("PRIO", RemoveFirst(s.mtx[x].waitq, t), t, s.k.prio)
        m    == [Unlinked(s.mtx, t) EXCEPT ![x].waitq = q, ![x].prio = HeadPrio(s.k, q)]
        o    == m[x].owner
        prio == MutexPriority(m, taken[o], o)
        stop == [s EXCEPT !.next = NoThread]
    IN  IF t = NoThread THEN s
        ELSE IF s.k.stat[t] # "suspend" \/ x = NoMutex THEN stop
        ELSE IF ~ s.mtx[x].alive THEN stop
        ELSE IF Asserts /\ t # s.k.cur THEN [stop EXCEPT !.fault = "assert"]
        ELSE IF o = NoThread THEN [stop EXCEPT !.fault = "null"]
        ELSE IF prio = s.k.prio[o] THEN [stop EXCEPT !.mtx = m]
        ELSE [s EXCEPT !.mtx = m, !.k = ChangePriority(@, o, prio), !.next = o]

(* the threads the boosted thread waits for are forgotten *)
Slip_UpdatePriority(s, t, prio) == [s EXCEPT !.k = ChangePriority(@, t, prio)]

(* _thread_update_priority.  Every level but the last changes a priority,  *)
(* so that there are at most as many levels as threads.                    *)
UpdatePriority(s, t, prio) ==
    LET level[i \in 0 .. Cardinality(Thread)] ==
            IF i = 0 THEN [s EXCEPT !.k = ChangePriority(@, t, prio), !.next = t]
            ELSE Climb(level[i - 1])
    IN  level[Cardinality(Thread)]

(* The state such an update works on, and how it becomes the next one. *)
Present(k1, m, pend) ==
    [k |-> k1, mtx |-> m, pending |-> pend, next |-> NoThread, fault |-> "no"]

Commit(s) == k' = s.k /\ mtx' = s.mtx /\ fault' = s.fault

-----------------------------------------------------------------------------
(* rt_mutex_take *)

Up == fault = "no"

At(t, p) == Up /\ k.cur = t /\ pc[t] = p

Goto(t, p) == pc' = [pc EXCEPT ![t] = p]

Calls(t, x) == At(t, "user") /\ x \in Users[t] /\ mtx[x].alive

Start(t, x) ==
    /\ At(t, "user")
    /\ k.stat[x] = "init"
    /\ k' = ResumeThread([k EXCEPT !.stat[x] = "suspend"], x)
    /\ Goto(t, "sched")
    /\ UNCHANGED <<mtx, taken, pending, err, victim, fault>>

(* By the owner; at RT_MUTEX_HOLD_MAX the call returns -RT_EFULL and       *)
(* changes nothing but thread->error.                                      *)
TakeAgain(t, x) ==
    /\ Calls(t, x)
    /\ mtx[x].owner = t /\ mtx[x].hold < MaxHold
    /\ mtx' = [mtx EXCEPT ![x].hold = @ + 1]
    /\ err' = [err EXCEPT ![t] = "ok"]
    /\ UNCHANGED <<k, pc, taken, pending, victim, fault>>

(* Of a free mutex.  One with a ceiling raises its owner to it, and is not *)
(* put in the list of taken mutexes.                                       *)
TakeFree(t, x) ==
    /\ Calls(t, x)
    /\ mtx[x].owner = NoThread
    /\ mtx' = [mtx EXCEPT ![x].owner = t, ![x].hold = 1, ![x].prio = NoPrio]
    /\ IF mtx[x].ceil = NoPrio
       THEN taken' = [taken EXCEPT ![t] = @ \cup {x}] /\ UNCHANGED k
       ELSE /\ k' = IF mtx[x].ceil < k.prio[t]
                    THEN ChangePriority(k, t, mtx[x].ceil) ELSE k
            /\ UNCHANGED taken
    /\ err' = [err EXCEPT ![t] = "ok"]
    /\ UNCHANGED <<pc, pending, victim, fault>>

(* compared the wrong way round *)
Slip_Inherit(s, t, x) ==
    IF k.prio[t] < mtx[x].prio /\ k.prio[t] > k.prio[mtx[x].owner]
    THEN UpdatePriority(s, mtx[x].owner, k.prio[t]) ELSE s

(* The waiter t passes its priority on to the owner of the mutex. *)
Inherit(s, t, x) ==
    IF k.prio[t] < mtx[x].prio /\ k.prio[t] < k.prio[mtx[x].owner]
    THEN UpdatePriority(s, mtx[x].owner, k.prio[t]) ELSE s

(* Of a mutex another thread owns, with a time limit or without; with      *)
(* timeout 0 the call returns -RT_ETIMEOUT and changes nothing but         *)
(* thread->error, which nobody reads before the next take sets it.         *)
TakeWait(t, x) ==
    /\ Calls(t, x)
    /\ mtx[x].owner \notin {NoThread, t}
    /\ t \in Nesters \/ \A y \in Mutex : mtx[y].owner # t
    /\ \E timed \in {FALSE} \cup {t \in Timed} :
          LET asleep == IF timed THEN StartThreadTimer(SuspendThread(k, t), t)
                                 ELSE SuspendThread(k, t)
              queued == [mtx EXCEPT ![x].waitq = WaitInsert("PRIO", @, t, k.prio),
                                    ![x].prio = IF k.prio[t] < @ THEN k.prio[t] ELSE @]
          IN  /\ pending' = [pending EXCEPT ![t] = x]
              /\ Commit(Inherit(Present(asleep, queued, pending'), t, x))
    /\ err' = [err EXCEPT ![t] = "ok"]
    /\ Goto(t, "wait")
    /\ UNCHANGED <<taken, victim>>

(* rt_schedule at the end of a call, or in the middle of rt_mutex_take. *)
CallSchedule(t) ==
    /\ At(t, "wait") \/ At(t, "sched")
    /\ k' = Schedule(k)
    /\ Goto(t, IF pc[t] = "wait" THEN "return" ELSE "user")
    /\ UNCHANGED <<mtx, taken, pending, err, victim, fault>>

TakeReturn(t) ==
    /\ At(t, "return")
    /\ err[t] = "ok"
    /\ Goto(t, "user")
    /\ UNCHANGED <<k, mtx, taken, pending, err, victim, fault>>

(* the other waiters are forgotten *)
Slip_Disinherit(k1, m0, t, x) ==
    LET o == m0[x].owner
        m == [m0 EXCEPT ![x].prio = HeadPrio(k1, m0[x].waitq)]
        s == Present(k1, m, pending)
    IN  IF o = NoThread THEN [Present(k1, m0, pending) EXCEPT !.fault = "null"]
        ELSE IF k1.prio[o] = k1.prio[t] THEN UpdatePriority(s, o, InitPrio[o]) ELSE s

(* The thread t waits no more for x, and may have been the one its owner   *)
(* got its priority from.  When the mutex has no owner any more, the code  *)
(* reads through a null pointer.                                           *)
Disinherit(k1, m0, t, x) ==
    LET o    == m0[x].owner
        m    == [m0 EXCEPT ![x].prio = HeadPrio(k1, m0[x].waitq)]
        prio == MutexPriority(m, taken[o], o)
        s    == Present(k1, m, pending)
    IN  IF o = NoThread THEN [Present(k1, m0, pending) EXCEPT !.fault = "null"]
        ELSE IF k1.prio[o] = k1.prio[t] /\ prio # k1.prio[o]
        THEN UpdatePriority(s, o, prio) ELSE s

(* The wait has failed.  The thread's pending_object is still the mutex.   *)
TakeFail(t) ==
    /\ At(t, "return")
    /\ err[t] # "ok"
    /\ Commit(Disinherit(k, mtx, t, pending[t]))
    /\ Goto(t, "user")
    /\ UNCHANGED <<taken, pending, err, victim>>

-----------------------------------------------------------------------------
(* rt_mutex_release by the owner; by another thread it sets thread->error *)
(* and nothing else.                                                      *)

ReleaseNested(t, x) ==
    /\ Calls(t, x)
    /\ mtx[x].owner = t /\ mtx[x].hold > 1
    /\ mtx' = [mtx EXCEPT ![x].hold = @ - 1]
    /\ UNCHANGED <<k, pc, taken, pending, err, victim, fault>>

(* The priority may have come from this mutex. *)
Lowers(t, x) == mtx[x].ceil # NoPrio \/ k.prio[t] = mtx[x].prio

Lowered(t, x) ==
    IF Lowers(t, x)
    THEN ChangePriority(k, t, MutexPriority(mtx, taken[t] \ {x}, t))
    ELSE k

(* the wait list is not looked at *)
Slip_ReleaseFree(t, x) ==
    /\ Calls(t, x)
    /\ mtx[x].owner = t /\ mtx[x].hold = 1
    /\ k' = Lowered(t, x)
    /\ mtx' = [mtx EXCEPT ![x].owner = NoThread, ![x].hold = 0, ![x].prio = NoPrio]
    /\ taken' = [taken EXCEPT ![t] = @ \ {x}]
    /\ Goto(t, IF Lowers(t, x) THEN "sched" ELSE "user")
    /\ UNCHANGED <<pending, err, victim, fault>>

ReleaseFree(t, x) ==
    /\ Calls(t, x)
    /\ mtx[x].owner = t /\ mtx[x].hold = 1
    /\ mtx[x].waitq = <<>>
    /\ k' = Lowered(t, x)
    /\ mtx' = [mtx EXCEPT ![x].owner = NoThread, ![x].hold = 0, ![x].prio = NoPrio]
    /\ taken' = [taken EXCEPT ![t] = @ \ {x}]
    /\ Goto(t, IF Lowers(t, x) THEN "sched" ELSE "user")
    /\ UNCHANGED <<pending, err, victim, fault>>

(* the mutex keeps the priority of the waiter that gets it *)
Slip_HandOver(t, x) ==
    /\ Calls(t, x)
    /\ mtx[x].owner = t /\ mtx[x].hold = 1
    /\ mtx[x].waitq # <<>>
    /\ LET q == mtx[x].waitq
           n == Head(q)
       IN  /\ k' = ResumeThread(Lowered(t, x), n)
           /\ mtx' = [mtx EXCEPT ![x].owner = n, ![x].hold = 1, ![x].waitq = Tail(q)]
           /\ taken' = [taken EXCEPT ![t] = @ \ {x}, ![n] = @ \cup {x}]
           /\ pending' = [pending EXCEPT ![n] = NoMutex]
    /\ Goto(t, "sched")
    /\ UNCHANGED <<err, victim, fault>>

(* The first waiter becomes the owner before it runs. *)
HandOver(t, x) ==
    /\ Calls(t, x)
    /\ mtx[x].owner = t /\ mtx[x].hold = 1
    /\ mtx[x].waitq # <<>>
    /\ LET q == mtx[x].waitq
           n == Head(q)
       IN  /\ k' = ResumeThread(Lowered(t, x), n)
           /\ mtx' = [mtx EXCEPT ![x].owner = n, ![x].hold = 1, ![x].waitq = Tail(q),
                                 ![x].prio = HeadPrio(k, Tail(q))]
           /\ taken' = [taken EXCEPT ![t] = @ \ {x}, ![n] = @ \cup {x}]
           /\ pending' = [pending EXCEPT ![n] = NoMutex]
    /\ Goto(t, "sched")
    /\ UNCHANGED <<err, victim, fault>>

-----------------------------------------------------------------------------
(* The other mutex calls, and what goes on around them *)

(* rt_mutex_setprioceiling *)
SetCeiling(t, x, c) ==
    /\ At(t, "user") /\ t \in Setters /\ mtx[x].alive
    /\ mtx' = [mtx EXCEPT ![x].ceil = c]
    /\ UNCHANGED <<k, pc, taken, pending, err, victim, fault>>

(* rt_thread_resume of the threads of q, one after the other. *)
ResumeAll(k1, q) ==
    LET after[i \in 0 .. Len(q)] ==
            IF i = 0 THEN k1 ELSE ResumeThread(after[i - 1], q[i])
    IN  after[Len(q)]

(* the waiters are not told *)
Slip_Detach(t, x) ==
    /\ Calls(t, x) /\ t \in Owners
    /\ k' = ResumeAll(k, mtx[x].waitq)
    /\ mtx' = [mtx EXCEPT ![x].waitq = <<>>, ![x].alive = FALSE]
    /\ taken' = [u \in Thread |-> taken[u] \ {x}]
    /\ UNCHANGED <<pc, pending, err, victim, fault>>

(* rt_mutex_detach: all waiters are resumed, no rt_schedule follows.  The  *)
(* caller vouches that nobody calls on the mutex from now on.              *)
Detach(t, x) ==
    /\ Calls(t, x) /\ t \in Owners
    /\ LET q == mtx[x].waitq
       IN  /\ k' = ResumeAll(k, q)
           /\ err' = [u \in Thread |-> IF Linked(u, q) THEN "error" ELSE err[u]]
    /\ mtx' = [mtx EXCEPT ![x].waitq = <<>>, ![x].alive = FALSE]
    /\ taken' = [u \in Thread |-> taken[u] \ {x}]
    /\ UNCHANGED <<pc, pending, victim, fault>>

(* What is assumed of who deletes a thread: rt_thread_delete leaves the    *)
(* mutexes that it owns with an owner whose memory is about to be freed.   *)
Deletable(v) ==
    /\ v \in Victims
    /\ k.stat[v] \in {"ready", "suspend"}
    /\ \A x \in Mutex : mtx[x].owner # v

(* rt_thread_delete, first part: rt_schedule_remove_thread takes the       *)
(* thread out of the list it is in, which may be a wait list.              *)
DeleteRemove(v) ==
    /\ At(Manager, "user") /\ Deletable(v)
    /\ k' = RemoveThread(k, v)
    /\ mtx' = Unlinked(mtx, v)
    /\ victim' = v
    /\ Goto(Manager, "delete")
    /\ UNCHANGED <<taken, pending, err, fault>>

(* Second part, with rt_mutex_drop_thread of the mutex the thread waits    *)
(* for.  RT_THREAD_CTRL_CLOSE then calls rt_schedule, other callers not.   *)
DeleteClose ==
    /\ At(Manager, "delete")
    /\ LET x    == pending[victim]
           shut == [k EXCEPT !.stat[victim] = "close", !.armed = @ \ {victim}]
       IN  Commit(IF x # NoMutex /\ mtx[x].alive
                  THEN Disinherit(shut, Unlinked(mtx, victim), victim, x)
                  ELSE Present(shut, mtx, pending))
    /\ pending' = [pending EXCEPT ![victim] = NoMutex]
    /\ victim' = NoThread
    /\ \E next \in {"user", "sched"} : Goto(Manager, next)
    /\ UNCHANGED <<taken, err>>

(* rt_thread_delay, which any thread may call with a mutex in its hands.   *)
Sleep(t) ==
    /\ At(t, "user")
    /\ k' = StartThreadTimer(SuspendThread(k, t), t)
    /\ err' = [err EXCEPT ![t] = "ok"]
    /\ Goto(t, "sched")
    /\ UNCHANGED <<mtx, taken, pending, victim, fault>>

(* _thread_timeout, from the tick interrupt.  rt_thread_delay takes the    *)
(* -RT_ETIMEOUT back when it returns.  Assumed: not between the two parts  *)
(* of rt_thread_delete, which would put the victim in the ready list       *)
(* again (README, departures).                                             *)
TimerFire(t) ==
    /\ Up /\ t \in k.armed /\ t # victim
    /\ err' = [err EXCEPT ![t] = IF pc[t] \in {"wait", "return"} THEN "timeout" ELSE "ok"]
    /\ mtx' = Unlinked(mtx, t)
    /\ k' = Schedule(TimeoutThread(k, t))
    /\ UNCHANGED <<pc, taken, pending, victim, fault>>

(* The tick interrupt ends the current thread's time slice. *)
SliceOver ==
    /\ Up
    /\ k' = Schedule([k EXCEPT !.yield = @ \cup {k.cur}])
    /\ UNCHANGED <<pc, mtx, taken, pending, err, victim, fault>>

-----------------------------------------------------------------------------

MutexCall(t, x) ==
    \/ TakeAgain(t, x) \/ TakeFree(t, x) \/ TakeWait(t, x)
    \/ ReleaseNested(t, x) \/ ReleaseFree(t, x) \/ HandOver(t, x)
    \/ \E c \in Ceilings : SetCeiling(t, x, c)
    \/ Detach(t, x)

Continue(t) == CallSchedule(t) \/ TakeReturn(t) \/ TakeFail(t)

Next ==
    \/ \E t \in Thread, x \in Mutex : MutexCall(t, x)
    \/ \E t \in Thread, x \in Thread : Start(t, x)
    \/ \E t \in Thread : Continue(t)
    \/ \E v \in Victims : DeleteRemove(v)
    \/ DeleteClose
    \/ \E t \in Sleepers : Sleep(t)
    \/ \E t \in Thread : TimerFire(t)
    \/ SliceOver

Spec == Init /\ [][Next]_vars

(* A thread that runs goes on to the end of the call it is in.  What the   *)
(* application owes: it releases what it took, and does not go on taking   *)
(* again a mutex it could let go.                                          *)
Fairness ==
    \A t \in Thread :
        /\ WF_vars(Continue(t))
        /\ \A x \in Mutex : WF_vars(ReleaseNested(t, x)) /\ SF_vars(HandOver(t, x))

FairSpec == Spec /\ Fairness

-----------------------------------------------------------------------------
(* Properties *)

(* The thread has been woken without the mutex, and has not run yet. *)
Failing(t, x) ==
    /\ pending[t] = x
    /\ err[t] # "ok"
    /\ pc[t] \in {"wait", "return"}
    /\ k.stat[t] # "close"

(* No lost hand-over: nobody waits for a mutex that is free, an owner does *)
(* not wait for its own, and the list of taken mutexes of a thread, from   *)
(* which its priority is computed, holds no mutex that is another's.       *)
OwnershipExact ==
    /\ TypeOK
    /\ \A x \in Mutex :
          /\ mtx[x].owner = NoThread <=> mtx[x].hold = 0
          /\ mtx[x].owner = NoThread => mtx[x].waitq = <<>>
          /\ ~ Linked(mtx[x].owner, mtx[x].waitq)
          /\ \A t \in Thread : x \in taken[t] => mtx[x].owner = t

(* The wait list of a mutex links exactly the threads suspended in         *)
(* rt_mutex_take of it: "the mutex has not been taken and thread has       *)
(* detach from the pending list" once the wait has failed (rt_mutex_take). *)
(* mutex->priority is "the maximal priority for pending thread"            *)
(* (struct rt_mutex), but for a failed wait that is still to be reported.  *)
WaitListExact ==
    Up => \A x \in Mutex :
        /\ LinkedOnce(mtx[x].waitq)
        /\ \A t \in Thread :
              Linked(t, mtx[x].waitq)
              <=> /\ k.stat[t] = "suspend" /\ t # victim
                  /\ pc[t] \in {"wait", "return"}
                  /\ pending[t] = x
        /\ mtx[x].alive /\ victim = NoThread /\ (\A t \in Thread : ~ Failing(t, x))
              => mtx[x].prio = HeadPrio(k, mtx[x].waitq)

(* The waiters of a mutex stay in the order of their priorities, although  *)
(* inheritance changes priorities while threads wait.                      *)
WaitersInPrioOrder == Up => \A x \in Mutex : InPrioOrder(mtx[x].waitq, k.prio)

(* Priority inheritance: no thread waits for a mutex whose owner runs at a *)
(* lower priority than its own, along chains of owners that wait too.      *)
OwnerInherits ==
    Up => \A x \in Mutex : \A i \in 1 .. Len(mtx[x].waitq) :
        k.prio[mtx[x].owner] <= k.prio[mtx[x].waitq[i]]

(* Nor does anybody keep a priority inherited from a wait that is over:    *)
(* once every failed wait has been reported and no thread is halfway       *)
(* through its deletion, a thread has the priority                         *)
(* that the mutexes it holds give it (rt_mutex_take, "should change the    *)
(* priority of mutex owner thread").                                       *)
PriorityReturned ==
    Up /\ victim = NoThread /\ (\A t \in Thread, x \in Mutex : ~ Failing(t, x))
        => \A t \in Thread : k.prio[t] = MutexPriority(mtx, taken[t], t)

(* Both at once: the owner of a mutex runs at the priority its waiters     *)
(* give it, no lower and for no longer.  The second half needs that no     *)
(* wait fails (README, section 6): a time-out or a detach may leave a      *)
(* priority behind.                                                        *)
Inheritance == OwnerInherits /\ PriorityReturned

(* No unbounded priority inversion: a thread that waits for a mutex stops  *)
(* waiting, whatever the threads of middle priority do.                    *)
WaitEnds ==
    \A t \in Thread, x \in Mutex :
        Linked(t, mtx[x].waitq) ~> ~ Linked(t, mtx[x].waitq)

(* The mutexes implement RecursiveLock. *)
Asking(t) == \E x \in Mutex : Linked(t, mtx[x].waitq)

AskedFor(t) == IF Asking(t) THEN pending[t] ELSE NoMutex

TakeState(t) ==
    IF t = victim \/ k.stat[t] = "close" THEN "dead"
    ELSE IF pc[t] \notin {"wait", "return"} THEN "idle"
    ELSE IF Asking(t) THEN "asking"
    ELSE IF err[t] = "ok" THEN "granted" ELSE err[t]

Lock == INSTANCE RecursiveLock
            WITH owner <- [x \in Mutex |-> mtx[x].owner],
                 hold  <- [x \in Mutex |-> mtx[x].hold],
                 asks  <- [t \in Thread |-> AskedFor(t)],
                 st    <- [t \in Thread |-> TakeState(t)]

ImplementsLock == Lock!Spec

-----------------------------------------------------------------------------
(* What is said of mutexes and does not hold of them in general: README,   *)
(* section 6, gives the instances.  No run checks these three.             *)

(* "set the priority of thread to the ceiling priority" (rt_mutex_take):   *)
(* no step lowers a thread below the ceiling of a mutex it goes on owning. *)
KeepsCeiling ==
    [][\A t \in Thread, x \in Mutex :
          k'.prio[t] > k.prio[t] /\ mtx[x].owner = t /\ mtx'[x].owner = t
              => k'.prio[t] <= mtx[x].ceil]_vars

(* "RT_ASSERT(thread == rt_thread_self())" in rt_thread_suspend holds.     *)
AssertHolds == fault # "assert"

(* A thread whose wait failed finds the owner whose priority it "should    *)
(* change" (rt_mutex_take, rt_mutex_drop_thread).                          *)
OwnerIsThere == fault # "null"

=============================================================================
