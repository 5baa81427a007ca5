# RT-Thread on the NuMaker M2L31KI: a TLA+ model of the kernel

This directory specifies the core of the repository in TLA+: the RT-Thread
kernel (`src/rt-thread/src`) as it is configured for the M2L31 board
(`src/rtconfig.h`: one core, 32 priorities, assertions on, no software timers).
Everything an application on the board does goes through this code, and what is
hard about it, interleavings of threads, interrupt handlers and the tick, is
what unit tests of the repository (`RT_USING_UTEST`) hardly reach.

All source references below are to files under `src/rt-thread/`.

## 1. The system

### Components, their state and operations

| component | state | operations | hard behaviour | what makes it correct |
|---|---|---|---|---|
| scheduler (`src/scheduler.c`) | ready list per priority, priority bitmap, current thread, lock nest | `rt_schedule`, insert, remove, enter/exit critical, start | called from threads and from handlers, with or without the lock, at any time after interrupts are enabled again | lists, bitmap and thread states agree; the highest priority runs; peers take turns |
| threads (`src/thread.c`) | `stat`, current and initial priority, `error`, thread timer, `tlist` | start-up, yield, sleep, suspend, resume, change priority, exit, delete/detach, `_thread_timeout` | a call has one or two critical sections and then `rt_schedule`; wake-ups and time-outs come in between | a thread is in the list its state says; a timer does not outlive its wait; a closed thread is in no list |
| tick (`src/clock.c`) | `rt_tick`, `remaining_tick` of the current thread | `rt_tick_increase` | enables interrupts three times on its way | a used-up slice lets the peers run |
| timers (`src/timer.c`) | sorted list of armed timers | start, stop, control, `rt_timer_check` | call-backs that start and stop timers; wrap-around of ticks | every armed timer fires, none twice |
| idle (`src/idle.c`) | queue of closed threads | `rt_defunct_execute` | frees what another thread has just closed | nothing freed is still linked |
| IPC helper (`src/ipc.c`) | the wait list of each object | `_ipc_list_suspend`, `_resume`, `_resume_all` | FIFO or priority order; wake-all enables interrupts between two threads | order; nobody linked twice |
| semaphore | value, wait list | take, release, reset, detach | release, time-out, reset and take in any order | no unit lost or made up; no unit free while somebody waits |
| mutex | owner, hold count, priority, ceiling, wait list; per thread: taken mutexes, pending object | take, release, set ceiling, detach, drop | inheritance along chains of owners; time-outs in the middle of it | one owner; nobody waits for a thread of lower priority; priorities come back |
| mailbox | ring, two offsets, count, two wait lists | send (waiting or not), urgent, receive, reset, detach | woken threads race newcomers | a bounded FIFO; no lost wake-up |
| message queue | blocks linked in a queue and a free list, count, two wait lists | the same | messages are copied with interrupts enabled, outside both lists | as above, and no block lost |
| event set | 32 bits, wait list | send, receive, reset | one send may satisfy several waiters | each waiter gets what it asked for |
| memory pool (`src/mempool.c`) | free list, waiting allocators | alloc, free | as a message queue's free list | no block lost |
| signals (`src/signal.c`) | mask, pending signals, saved stack | kill, wait, handle | run a handler on the stack of a suspended thread | no wait is cut short silently |
| work queue (`components/drivers/ipc/workqueue.c`) | list of work, list of delayed work, the item being executed, flags and timer of each item | submit (now, later, first), cancel (one, all, and wait), the worker, the call-back of the delay | submissions and cancels by threads, handlers and the work itself between the steps of the others | no work forgotten or done twice; flags, lists and timers agree |
| other device IPC (`components/drivers/ipc`) | completion, data queue, ring buffers, wait queue, pipe | | built on the kernel calls | no lost wake-up; FIFO |
| serial, PM, other frameworks (`components/drivers`) | receive and transmit buffers, DMA state; mode requests | | handlers and threads share indices | |
| port drivers (`src/libraries/m2l31/rtt_port`) | peripheral registers, PDMA channels | | | |

Vendored parts (CMSIS, StdDriver, USB host, LVGL, file systems, network stacks)
are not listed further; `PROJECT.json` has every component with its status.

### How they interact

A thread calls an IPC routine, which disables interrupts, changes the object,
moves threads between lists through `rt_thread_suspend` / `rt_thread_resume`
(`thread.c`), which call the scheduler's insert and remove, enables interrupts
and calls `rt_schedule`. Handlers call the releasing half of the same routines.
The tick interrupt ends time slices and runs `rt_timer_check`, whose call-back
`_thread_timeout` takes a thread out of *whatever* list its `tlist` is in and
makes it ready. The shared state is therefore the thread object: `stat`,
`tlist`, the timer and `error` are written by the thread itself, by others
and by the tick, and most hazards are about two of them getting out of step.
The list `hazards` in `PROJECT.json` has them one by one, with the property
that covers each or the reason why none does yet.

## 2. The modules

| module | what it models |
|---|---|
| `Linking` | lists as sequences: who is linked, once, and removal |
| `Kernel` | the kernel's state as a record and the bodies of the scheduler and thread routines as operators from record to record: insert, remove, schedule, suspend, resume, time out, change priority |
| `Sched` | the component of threads under the scheduler: boot, every call of `thread.c`, the scheduler lock, the tick in its pieces, thread timers, the defunct queue |
| `Ipc` | insertion in a wait list, in order of arrival or of priority |
| `CountingSemaphore` | abstract: what a semaphore promises |
| `Semaphore` | `rt_sem_*` over `Kernel` and `Ipc`; implements `CountingSemaphore` |
| `RecursiveLock` | abstract: what mutexes promise |
| `Mutex` | `rt_mutex_*` with inheritance and ceilings over `Kernel` and `Ipc`; implements `RecursiveLock` |
| `BoundedQueue` | abstract: a bounded FIFO with urgent messages |
| `Mailbox` | `rt_mb_*`; implements `BoundedQueue` |
| `MsgQueue` | `rt_mq_*` with the copies outside the lists; implements `BoundedQueue` |
| `EventFlags` | abstract: a set of bits that threads wait for |
| `Event` | `rt_event_*`; implements `EventFlags` |
| `AlarmClock` | abstract: alarms on a time that never wraps |
| `Timer` | `rt_timer_*` on the sorted list with ticks modulo `W`, call-backs, and the jump of the tick after a sleep; implements `AlarmClock` |
| `WorkList` | abstract: work to be done now, work to be done later |
| `WorkQueue` | `rt_workqueue_*` and its worker; implements `WorkList` |
| `MCSched`, `MCSemaphore`, `MCMutex`, `MCMailbox`, `MCMsgQueue`, `MCEvent`, `MCTimer`, `MCWorkQueue` | small instances for TLC |
| `KernelProofs` | lemmas the component proofs share: what removal and insertion do to a list and to a sorted one, folds, each kernel routine keeps the ready table exact, insertion in a wait list |
| `SchedProofs` | the theorems about `Sched` |
| `SemaphoreProofs`, `MutexProofs`, `MailboxProofs`, `MsgQueueProofs`, `EventProofs` | the theorems about `Semaphore`, `Mutex`, `Mailbox`, `MsgQueue`, `Event` |
| `DelayProofs` | the theorems about `Timer` and `WorkQueue`; the second has names of its own (`WorkSpec`, `WorkTypeOK`, ...) so that one module can speak of both |

### How state and actions correspond to the code

*One action is one critical section.* Where the code enables interrupts in the
middle of a call, the call is cut, and `pc` says where the thread is. What is
between `rt_hw_interrupt_disable` and `rt_hw_interrupt_enable` is one step with
everything it calls; nested disables do not cut. `rt_schedule` after a call
is a step of its own (`CallSchedule`), since a handler may come first. Only
`rt_thread_yield` keeps interrupts disabled through its `rt_schedule`.

*Lists* are sequences, head first. A thread has one list node (`tlist`), which
is in a ready list or a wait list; `rt_list_remove` on it is "remove from
whatever list it is in". *Armed timers* are a set of threads. `Sched` counts the
ticks that are left; `Semaphore`, `Mutex`, `Mailbox`, `MsgQueue`, `Event` and
`WorkQueue` let an armed timer fire at any moment, which contains every length
of wait. `Timer` is about the list of timers itself.

*Which thread runs.* `Sched`, `Semaphore`, `Mutex` run the kernel's scheduler:
a step of a thread needs `k.cur` to be that thread. `Mailbox`, `MsgQueue`,
`Event` and `WorkQueue` leave it open: any thread that is not linked in a wait
list may step. This allows
more behaviours than the kernel does, among them all of the kernel's, and keeps
the models small; safety that holds there holds under the scheduler.

*Handlers* release semaphores (`IsrWake`, `ReleaseCount`), resume threads
(`IsrResume`), send (`Send`, `SendUrgent`) and submit, delay and cancel work. In `Semaphore` and `Mutex` the
end of a time slice (`SliceOver`) is one step; `Sched` has the tick in its
pieces: the first critical section (`Tick`), `rt_schedule` (`TickSchedule`), then
`rt_timer_check` (`TimerCheckBegin`, `TimerFire`, `TimerCheckEnd`).

*Failure returns that change nothing* (`-RT_EFULL`, `-RT_ETIMEOUT` with timeout
0) are stuttering steps and have no action; the comment of the action that would
succeed names them. Hooks, logging, names and statistics are left out.
`RT_ASSERT` is modelled where it can fail: `fault` in `Mutex`.

*Detached objects.* The callers of the detach and delete calls vouch that no new call
is made; `alive` is that promise. Threads already inside a call go on, which is
where things can go wrong. The loop that wakes the waiters tests the list with
interrupts enabled: `DetachLook` is the test, `Cancel` or `DetachWake` the
critical section, and if the list has become empty in between, the code resumes
the list head as if it were a thread (`pc` is `"wild"`); that thread then stops
in the assertion of `rt_thread_resume` and takes no further step.

Operators named `Slip_...` are the definition that follows them with a
programmer's slip (a dropped guard, a forgotten wake-up, a wrong order). No
definition uses them; the `mutants` of `PROJECT.json` say which one makes which
property fail, so that each property is known to depend on the code.

## 3. What is checked

Each run is `tlc -config <run>.cfg MC<module>.tla`.

| run | states | what it shows |
|---|---|---|
| `Sched_core` | 1 062 456 | With every call of `thread.c`, the lock, deletion, exits, priority changes, handlers and the tick in any order: the ready table is exact (`ReadyTableExact`), `rt_schedule` always finds a thread and the highest priority runs (`HighestRuns`), a timer is only active for a suspended thread (`ArmedIsSuspended`), the lock keeps the processor (`LockedKeepsCpu`), a thread that is preempted within its slice keeps its turn (`PreemptedIsFirst`) |
| `Sched_live` | 11 743 | a sleep ends (`SleepEnds`); among three threads of one priority none keeps the processor while another is ready (`SliceEnds`) |
| `Semaphore_core` | 161 256 | in either order: no unit is free while a thread waits, the wait list is exact (`WaitListExact`), detach wakes all, the semaphore implements `CountingSemaphore`; only a change of priority puts a list in order of priority out of order (`WaitOrderKept`); in order of arrival every waiter is served in the end (`WaiterServed`) |
| `Mutex_core` | 375 020 | with time-outs, detach and the deletion of threads that wait or have waited: ownership and wait lists are exact, an owner has at least the priority of those that wait (`OwnerInherits`); implements `RecursiveLock` |
| `Mutex_chain` | 202 570 | inheritance along chains keeps owners above waiters, wait lists sorted, and is taken back (`Inheritance`), in a build without assertions |
| `Mutex_live` | 932 | a waiter gets the mutex although a thread of middle priority never stops |
| `Mailbox_core` | 641 890 | wait lists are exact and sorted, nobody waits in vain, implements `BoundedQueue` |
| `MsgQueue_core` | 1 365 304 | every block is in one place, nobody waits in vain, implements `BoundedQueue` |
| `Event_core` | 259 226 | nobody waits for what is there, nobody is robbed of bits by one behind it in the list (`NobodyIsRobbed`), implements `EventFlags` |
| `Timer_core` | 252 544 | whatever call-backs do, lists are exact and what is going to fire is active, and the flags of timers whose mode nobody changes say no more than that (`ActiveIsLinked`); no timer is overdue, implements `AlarmClock` over the wrap of the tick, each timer fires (`TimerFires`) |
| `WorkQueue_core` | 187 366 | whoever calls what, until an assertion fails: lists, flags and timers of the work agree (`QueueExact`), implements `WorkList`, no work in the list is forgotten (`WorkIsTaken`) |
| `Semaphore_wild` | | expected violation, see section 6 |

### Bounds, and why they are enough

* `Sched_core`: idle, a manager above it all, two workers of one priority. Two
  workers in one list make the order in a list matter and let the bitmap be wrong
  in both directions; the manager preempts, deletes and locks; one worker
  sleeps, waits, quits and changes its priority into a list of its own and back,
  the other is the victim of deletion. The victim does none of this: if it did,
  the gap in `rt_thread_delete` would break the ready table (section 6, item 2).
  `Slice = 2` has both a tick that ends a slice and one that does not,
  `MaxSleep = 1`, one level of locking.
* `Sched_live` has three peers and idle, so that the ready list of the peers has
  a middle. `SliceEnds` says that a slice ends, and not that each peer has a turn:
  with three that is false (section 6, item 5).
* Semaphore: three takers, two of them of one priority, so that a wait list has
  a place in the middle and a tie; the order is chosen at the start; `MaxValue`
  stands for `RT_SEM_VALUE_MAX`, and with 1 the limit is reached at once. One
  waiter changes its priority, in either order of the list.
* Mutex: three priorities and two mutexes are what a chain needs; `MaxHold = 2`
  reaches the limit of the hold count. `Mutex_core` has `Nesters = {}` (nobody
  waits while it holds a mutex) and all time-outs; `Mutex_chain` has chains and
  no time-outs, and a fourth thread: two must wait for one mutex while a third
  raises one of them. Chains and time-outs together fail, which is section 6.
  In both `low`, mostly the owner, may delete `high`, mostly the waiter, at any
  moment at which it owns no mutex: before, in and after a take, also one that has
  failed, with its timer running or not.
* Mailbox: two slots, so that the ring wraps in both directions and a slot and a
  mail can be there at once; three threads, one of which both sends and receives.
* Message queue: two blocks; with two senders and two receivers both blocks can
  be in hand at once while a reset comes. Blocks and messages are symmetric.
* Event set: two bits tell "all" from "any" and let one send satisfy one waiter
  in part; three threads, so that a send passes over one between two others.
* Timers: two timers, delays 1 and 2, ticks modulo 8, so that the tick wraps
  within one delay and the half of the range in which "late" and "ahead" are told
  apart is small. Three timers (with symmetry, safety only) pass as well, with
  2.8 million states; that run takes too long to be kept. `MCView` leaves out at
  what tick a timer was due that is no longer linked.
* Work queue: three items, a thread, a handler and the worker itself, so that an
  item can be executing, one in the list and one delayed. Each call has one or two
  callers: what is executing submits, thread and handler delay, so that two delayed
  submissions of one item meet, the thread makes work urgent, cancels and waits,
  and cancels all, the handler cancels. The proofs are for any callers.

`CHECK_DEADLOCK FALSE` is set where the system really may stop: a detached
object is used no more, `Mutex_core` has executions that end in the null pointer of
section 6, and in the work queue an assertion may fail or the cancelling of all
work take the head of an emptied list for an item (section 6), where the model
stops.

### Fairness, and why the code justifies it

* `Sched_live`: the tick keeps coming and a handler, which nothing but another
  handler interrupts, runs to its end; a thread on the processor finishes the
  call it is in; the boot code starts idle and the scheduler. Nothing is assumed
  of application code.
* `Semaphore_core`: handlers keep releasing (the premise of `WaiterServed`:
  without releases nobody is served), and a reset, which runs with interrupts
  disabled, ends. The other properties of the run are safety.
* `Mutex_live`: a thread on the processor finishes its call, and the application
  keeps its side: it undoes nested takes (weak) and releases a mutex that is
  waited for if it gets to run again and again (strong, because a thread of
  higher priority may take the processor in between). *That* it gets to run is
  what inheritance has to achieve: the hog `mid` owes nothing.
* `Timer_core`: the tick keeps coming; `rt_timer_check` runs to its end, which
  includes the call-backs, since it runs in the tick interrupt; and the idle
  thread comes back to the power manager after a sleep.
* `WorkQueue_core`: delays expire, since the tick comes; the worker and a caller
  in the middle of a call go on (strong, because the condition of a loop may
  change while they wait for the processor). The worker having the processor
  again and again is a matter of its priority, which the application chooses:
  this is the one premise about the application.

## 4. What is proved

With TLAPS, for every value of the constants that their assumptions allow (TLC
checks the same properties on small instances):

| module | theorem | states |
|---|---|---|
| `SchedProofs` | `TypeCorrect` | `Spec => []TypeOK` |
| | `ReadyTable` | `Spec => []ReadyTableExact` |
| | `HighestPriorityRuns` | `Spec => []HighestRuns` |
| | `TimersAreWaits` | `Spec => []ArmedIsSuspended` |
| | `LockKeepsProcessor` | `Spec => LockedKeepsCpu` |
| | `PreemptedKeepsTurn` | `Spec => PreemptedIsFirst` |
| `SemaphoreProofs` | `TypeCorrect` | `Spec => []TypeOK` |
| | `NoLostUnit` | `Spec => []NoUnitWhileWaiting` |
| | `WaitListCorrect` | `Spec => []WaitListExact` |
| | `OrderKept` | `Spec => WaitOrderKept` |
| | `DetachWakes` | `Spec => []DetachedWakesAll` |
| | `Counts` | `Spec => ImplementsCounting` |
| `MutexProofs` | `OwnershipCorrect` | `Asserts` or `Steady` gives `Spec => []OwnershipExact` |
| | `WaitListCorrect` | `Asserts` or `Steady` gives `Spec => []WaitListExact` |
| | `WaitOrder` | `Asserts` or `Steady` gives `Spec => []WaitersInPrioOrder` |
| | `Locks` | `Asserts` or `Steady` gives `Spec => ImplementsLock` |
| | `Heirs` | `Asserts` without ceilings, or `Steady`, gives `Spec => []OwnerInherits` |
| | `Returns` | `Steady` gives `Spec => []Inheritance` |
| `MailboxProofs` | `WaitListsCorrect` | `Spec => []WaitListsExact` |
| | `NobodyForgotten` | `Spec => []NobodyWaitsInVain` |
| | `QueuesMails` | `Spec => ImplementsQueue` |
| `MsgQueueProofs` | `BlocksCorrect` | `Spec => []BlocksExact` |
| | `NobodyForgotten` | `Spec => []NobodyWaitsInVain` |
| | `QueuesMessages` | `Spec => ImplementsQueue` |
| `EventProofs` | `WaitersCorrect` | `Spec => []WaitListExact` |
| | `SendIsFair` | `Spec => NobodyIsRobbed` |
| | `FlagsCorrect` | `Spec => ImplementsFlags` |
| `DelayProofs` | `TypeCorrect` | `Spec => []TypeOK` |
| | `FlagsAgree` | `Spec => []ActiveIsLinked` |
| | `NeverOverdue` | `Spec => []NoneOverdue` |
| | `KeepsTime` | `Spec => ImplementsAlarms` |
| | `QueueCorrect` | `WorkSpec => []QueueExact` |
| | `QueuesWork` | `WorkSpec => ImplementsWorkList` |

So every safety property of `Sched`, `Semaphore`, `Mailbox`, `MsgQueue`,
`Event`, `Timer` and `WorkQueue` that a run checks is a theorem, refinements
included, but for `ResumesThreads`, which does not hold. `Mutex` is proved under
the hypotheses of the table.

### Assumptions

* The `ASSUME`s of the modules, which say no more than what configuration and
  callers vouch for: `NoThread` is no thread, there is a priority, idle has the
  lowest one and never blocks, a slice has a tick, limits are positive.
* `TimerAssumption`: `rt_timer_start` asserts that a delay is below half the
  range of the tick. The model adds that no delay is so long that a sleep of the
  processor together with it leaves that half; section 6 shows what happens
  otherwise.
* `VictimsApart`, a hypothesis of the theorems of `SchedProofs` and not of the
  model: threads that may be deleted do not sleep, wait or have their priority
  changed. Between the two critical sections of `rt_thread_delete` a wake-up, a
  time-out or a priority change of the victim links it in a ready list again
  (section 6, item 2). The theorems therefore say nothing of that race.
* `Deletable` in `Mutex`: who deletes a thread sees to it that it owns no mutex,
  since `rt_thread_delete` would leave the mutex with an owner that is freed. And
  `TimerFire` there assumes that the timer of a thread that is being deleted does
  not expire between the two critical sections: that is the same race.
* `Asserts`, a hypothesis of theorems of `MutexProofs`: `RT_DEBUG` is
  defined, as it is for the board. A priority that is inherited by a thread which
  itself waits for a mutex then stops the system at the assertion of
  `rt_thread_suspend` (section 6), so that a change of priority ends at the first
  owner. The theorems speak of the states before that.
* `Steady`, the other hypothesis there: no ceilings, no time limits, no detach
  (`Ceilings = {}`, `Timed = {}`, `Owners = {}`), whatever `Asserts` is. Where it
  is `FALSE` a priority goes on along chains of owners that wait themselves, of
  any length. What is left out is what goes wrong in that build: a wait that fails
  leaves `pending_object` behind, which breaks the wait lists (section 6, item
  7), and in either build an inherited priority may stay behind (item 8), so that
  `Returns` needs `Steady` in both. A waiter may be deleted at any point, and
  waiters may form a cycle (a deadlock of the application).
* `Ceilings = {}`, for `Heirs` and `Returns`: a mutex with a ceiling is not in
  the list of the mutexes its owner has taken, so that the owner forgets its
  waiters when it releases another (section 6).

### The inductive invariants, and why they are needed

Only `WaitListExact` of `Event` is inductive by itself. Each invariant was
checked with TLC on the instance of the run before it was proved.

* `SchedInv`: `Table(k, D)`, the ready table is exact except for the threads of
  `D`, the one that is unlinked and not closed yet, if any; `Single(k)`, only
  the current thread is RUNNING, and it is not READY, without which
  `rt_schedule`'s removal of the thread it keeps could not be justified; every
  armed timer belongs to a sleeper that is suspended, no victim is suspended,
  the current thread is not being deleted, and no interrupt comes before the
  start.
* `Ranked`, on top of it, for `HighestRuns`: the scheduler is not locked before
  the start; the idle thread can always run, so that a READY thread exists
  whenever the current one cannot go on; and unless a call of `rt_schedule` is
  due, the current thread is the top. `RankedStep` says what each step keeps:
  `Ranked`, the processor if locked, the turn of the preempted.
* `SemInv`: the invariant of the kernel as `Semaphore` uses it (`Runs`: ready
  table exact, never locked, idle awake, the current thread running or just
  suspended), a thread that is suspended and still current is in the middle of
  its take (`Placed`), the wait list is exact with the errors its threads will
  return, and the two properties about units and detach, which depend on each
  other.
* `MutInv`: the mutexes a thread counts as taken are its own, and none that is
  waited for is free (`OwnershipExact`); the kernel as for semaphores (`Runs`);
  who is suspended and still current has `rt_schedule` to call next
  (`CurrentPlaced`); the thread that is being deleted neither runs nor owns
  (`VictimApart`), so that no mutex is handed to it between the two halves of its
  deletion; an armed timer belongs to a suspended thread (`ArmedWaits`), and a
  wait that has failed still knows its mutex (`FailedWaits`), which the second
  halves of a time-out and of a deletion read; the wait lists link exactly those
  that wait (`Lists`). `Order` says that the lists are sorted and that
  `mutex->priority` is the first waiter's; the second only when no failed wait is
  still to be reported (`Settled`): between a time-out and the waiter's own
  second critical section the field is out of date, and each step has to be shown
  to restore it or to leave it so only then. Priorities change under the lists,
  which is why `Order` needs that a change re-inserts the thread in whatever list
  it waits in.
* `HeirInv`, on top of it, for `OwnerInherits`: a mutex is in the list of its
  owner (`Held`), a thread runs at the priority of each mutex in its list or above
  (`Boosted`), and a mutex has the priority of each waiter or one above
  (`Covers`). The last two are inequalities because of failed waits, and
  inequalities are enough: what is left behind is never too low.
* `KeepInv`, on top of both, for the other half: no wait fails
  (`NothingFails`), and a thread that is above its own priority has it from a
  mutex in its list (`Earned`). Between the two halves of a deletion the mutex may
  keep the priority of the thread that is being deleted, and then that priority is
  still known (`Remembered`), which is what the second half compares with the
  owner's.
* `Sound`, which the theorems about `Mutex` rest on: `MutInv`, and in a build
  without assertions `Chained`, that is, all three of these and that a thread with
  a `pending_object` waits for it (`PendingWaits`). There the parts cannot be
  separated: whether the lists stay sorted depends on each thread having exactly
  the priority its mutexes give it. `Framed` says what inheritance may change, and
  with it both builds share the proof that each step keeps `MutInv`. The walk of
  `_thread_update_priority` is proved in three steps. `Web` describes mutexes and
  waiters in the middle of it: one thread may not have the priority its mutexes
  give it, and one mutex (`Debt`) may still have that of the thread that is being
  deleted. `ClimbIs` shows that a level leaves a `Web` in which only the next
  owner is wrong, or nobody. `Rises` says which priorities have changed so far:
  raised ones are the new waiter's, lowered ones were the deleted thread's. A
  level therefore never comes back to a thread it has changed, not even where
  waiters form a cycle, and the walk ends after as many levels as there are
  threads (`UpdateChain`). This is why the recursion in the code ends.
* `MbInv`: the ring holds the mails between its offsets (`RingExact`), and for
  each wait list `Side`: the list is exact, and the set of threads that were
  woken and have not looked yet is finite and, while others wait, at least as
  large as what there is to be had. A count is needed because a newcomer may
  take what a woken thread was woken for.
* `MqInv`: the chain from the head of the queue and the chain of free blocks are
  the links of two sequences without repetition (`ChainIs` says that the function
  `Chain`, which follows links for as many steps as there are blocks, returns the
  sequence whose links are those); each block is in exactly one of the two or in
  the hands of exactly one thread, which copies into or out of it (`Hands`); and
  `Side` for each wait list, as for the mailbox. A block that is being copied into
  counts as neither free nor queued, which is why the copy outside the critical
  section can lose nothing.
* `EventProofs`: the send walks the wait list with a set of bits that shrinks
  under its hands. `Walk` is a function of the place in the list, and the lemmas
  about it are by induction over that place: who has been found satisfied so
  far, by which bits, and that the bits which are left are those that no such
  thread has cleared. `NobodyIsRobbed` follows for every length of the list.
* Timers: `Wired` (flags and lists), and `Timely`: the list is sorted by
  the ticks that are left, nobody is late by more than the tick has jumped, and
  the tick that is not updated yet lags by a bounded amount. Order by *ticks
  left* is what survives the wrap of the tick; the comparison in the code does
  not see it directly.
* `WorkInv`: an item is in at most one list, and the worker sleeps only with an
  empty list (`Tidy`, `Working`); each delayed item has its flag and its queue, and
  a timer that runs or a caller that is about to start it (`Started`); and a
  caller in the middle of a call knows its item (`Named`). The converse of
  `Started`, that whose timer runs is delayed, is not among them: it is what the
  calls of section 6, item 11, break.

`KernelProofs` begins with what removal and insertion do to a list in which
nobody is linked twice, and to a sorted one. It then shows of each kernel routine
that it keeps `Table` and `Single` under the precondition its callers meet, that
`rt_schedule` leaves the highest priority running (`ScheduleTop`) and the
preempted thread first (`ScheduleFirst`), and that the insertion in a wait list
of `Ipc` keeps its order. The component's proofs then have one step per action.
In the refinements, each step is mapped to the abstract step its comment names,
or to a stutter. The lemmas of `MutexProofs` come by operation: what the new
priority of an owner is (`MutexPriorityIs`), the change of priority
(`UpdatePriority`), giving back, handing over, the start of a wait, its end; each
says what becomes of each of the three invariants. Those about chains come by
level of `_thread_update_priority`, then by call.

### Only model-checked

* All liveness: `SleepEnds`, `SliceEnds`, `WaiterServed`, `WaitEnds`,
  `TimerFires`, `WorkIsTaken`. Fairness and ENABLED are out of the prover's
  reach.
* `Mutex_chain` satisfies `Steady` and `Mutex_core` has `Asserts`, so that all
  their properties are theorems.

The modules contain no RECURSIVE operator.

## 5. What is not modelled

* Memory pools (`mempool.c`): the free list and its waiters are close to what
  `MsgQueue` models, with one list less.
* Signals: they switch stacks and run handlers on them, which is about the port
  more than about the kernel.
* Completion, data queue, ring buffers, wait queue, pipe; the serial framework
  and the drivers under it.
* The requests and modes of the power manager. The effect of a sleep on the tick
  and on the timers is in `Timer`.
* Of mutexes: the deletion of a thread that owns one, the expiry of a timer
  between the two parts of a deletion, and explicit priority changes of threads
  that use mutexes.
  `Detach` stands for `rt_mutex_delete`, too.
* Of `thread.c`: `rt_thread_delay_until`, `rt_thread_find`, stacks, clean-up.
* Of `timer.c`: timers with delay 0 (section 6), `rt_timer_next_timeout_tick`,
  and the soft timers and their thread, which are not compiled in.
* Of `workqueue.c`: `rt_workqueue_destroy`, and `RT_WORK_STATE_PENDING` as
  anything but membership in the list.
* SMP, which is not compiled in.
* Memory: freed objects keep their fields in the model, so that a read of a
  deleted object shows as stale data. Heap allocators are better served by tools
  that work on C.
* Priorities are constant in `Mailbox`, `MsgQueue` and `Event`. The branches for
  `RT_MB_ENTRY_MAX` and `RT_MQ_ENTRY_MAX` cannot be reached: the count is below
  the size, which is at most that limit.

## 6. Where the code departs from what is said of it

With a run (`findings` in `PROJECT.json`):

1. **`ipc.c:228`** (`Semaphore_wild`). `_ipc_list_resume_all` tests the wait
   list before it disables interrupts. If the only waiter times out in between,
   the list head itself is taken for a thread: `rt_thread_resume`, which asserts
   that it is given a thread (`thread.c:926`), is called on it, and
   `thread->error` is written before that. Every detach and delete of semaphores,
   events, mailboxes and message queues calls it so; those of mutexes keep
   interrupts disabled around it.

Met while modelling; reproducible with the constants given (the others as in the
run's `.cfg`), no run kept:

2. `thread.c:531`: `rt_thread_delete` and `rt_thread_detach` enable interrupts
   between taking the thread out of its list and closing it. If the victim
   sleeps, the tick in between makes it ready; it is then closed and handed to
   the idle thread while it is in a ready list. `Sched_core` with `Sleepers =
   {a, b}`, so that the victim `b` sleeps, violates `ReadyTableExact`.
3. `ipc.c:770`: inheritance that reaches an owner which itself waits calls
   `rt_thread_suspend` on it; the assertion there (`thread.c:883`) wants the
   current thread, and `RT_DEBUG` is defined. `Mutex_core` with `Users <-
   MCUsersChain`, `Nesters = {mid}`, `MaxHold = 1`, no `Timed`, reaches `fault =
   "assert"` (`AssertHolds` is violated).
4. `ipc.c:1240`: a waiter whose time is over reads
   `mutex->owner->current_priority`; the owner may have released the mutex
   before the waiter runs. `Mutex_core` with `Timed = {high}`, `MaxHold = 1`
   reaches `fault = "null"` (`OwnerIsThere` is violated), where the model stops.
5. `scheduler.c:757`, "there is no time slices left(YIELD), inserting thread
   before ready list": the flag is cleared at line 458, before the insertion at
   472 looks at it, so that a yielding thread goes to the *head* of its list.
   With three peers two alternate and the third never runs. `PreemptedIsFirst`
   leaves yielding threads out, although the code puts them first as well, and
   `SliceEnds` promises the third nothing: `Sched_live` violates `[]<>(k.stat[u]
   # "ready")` for each peer `u`.
6. `thread.c:795`: a priority change of a waiting thread does not move it in its
   wait list, although "the pending threads will queue in order of priority"
   (`ipc.c:105`). The model has the call; `WaitOrderKept` excepts it, and
   `Semaphore_core` violates `flag = "PRIO" => InPrioOrder(waitq, k.prio)`.
7. After a time-out `thread->pending_object` still is the mutex, and a priority
   change of that thread in a later sleep links it in the old wait list.
   `Mutex_core` with `Timed = {mid}`, `Sleepers = {mid}`, `Owners = {}`,
   `Asserts = FALSE` violates `WaitListExact`.
   Deleting a thread after its wait has failed goes wrong in the same way: if the
   mutex was detached the owner keeps the priority it was lent (`Mutex_core`, as
   it is, violates `PriorityReturned`), and if it is free by now
   `rt_mutex_drop_thread` reads `mutex->owner->current_priority` through the null
   pointer (`ipc.c:905`; with `Sleepers = {mid}`, `DeleteClose` reaches `fault =
   "null"`).
8. Inherited priorities that stay behind. The second half of a time-out looks
   whether the owner has just the priority of the thread that gives up
   (`ipc.c:1240`), and reads that priority only then; if it has changed since,
   or the owner got it from another in the meantime, nobody takes it back.
   * Two time-outs in a chain: `Mutex_core` with `Users <- MCUsersChain`,
     `Nesters = {mid}`, `Timed = {high, mid}`, `Sleepers = {}`, `Owners = {}`,
     `Asserts = FALSE` violates `Inheritance`.
   * Time-outs without chains and with assertions, three waiters of different
     priorities on one mutex, `m1`: threads `idle` (4), `high` (0), `rival` (1), `mid`
     (2), `low` (3), all but `idle` in `Timed`, `high` and `rival` in `Sleepers`,
     no `Nesters`, `Owners` and `Victims`, `MaxHold = 1`.
   * A detach alone: the waiter it fails owns another mutex and is given a higher
     priority before it reports. `Mutex_core` with two mutexes, `Timed = {}`,
     `Owners = {mid, low}`, `Nesters = {high, mid, low}`, `Sleepers = {low,
     mid}`, `Victims = {high, mid}`, `MaxHold = 1`. So does a detach, or the
     time-out of another waiter, while a waiter is being deleted.

   `OwnerInherits`, that nobody waits for a thread of lower priority, survives
   all of these (theorem `Heirs` for the last two), which is why `Mutex_core`
   checks it and not `Inheritance`.
9. A mutex with a ceiling is not in the list of taken mutexes
   (`ipc.c:1156-1166`), so that releasing an inner one drops the ceiling of the
   outer. `Mutex_core` with `Ceilings = {0}`, `Setters = {idle}`, `MaxHold = 1`,
   no `Timed`, `Sleepers` and `Owners` violates `KeepsCeiling`. Nor is the
   ceiling applied when the mutex is handed to a waiter (1402-1404).
10. Timers. A delay near `RT_TICK_MAX / 2` together with a long sleep of the
    processor leaves the half of the range in which the comparison at
    `timer.c:654` tells late from early: `Timer_core` with `W = 16`, `Delays =
    {1, 6}`, `Jumps = {1, 4}` and without the last conjunct of `TimerAssumption`
    violates `NoneOverdue`. A periodic timer with delay 0 is due again as soon
    as it is restarted, so that the loop of `rt_timer_check` does not end. A
    periodic timer that its call-back makes one-shot keeps its flag ACTIVATED,
    in no list; the model has this, and `ActiveIsLinked` claims that direction
    only for the timers outside `Tuned`, whose mode nobody changes.
11. Work queue. Submitting at once (or as urgent) an item whose delay is
    running executes it and clears its owner, and when the delay is over the
    assertion at `workqueue.c:186` fails; a cancel between 149 and 150 takes
    away the timer that 150 starts, and the assertion in `rt_timer_start` fails.
    `WorkQueue_core` reaches both (`fault = "assert"`), so that a property
    saying that no assertion fails would be violated; `QueueExact` and the
    theorems hold up to there. A delayed item that is executing when its delay
    is over is not queued (195): that is `Miss` of `WorkList`, which leaves open
    what no doc promises. Submitting the item that is executing takes it out of
    the list it may be in and then returns `-RT_EBUSY`.
12. `rt_workqueue_cancel_work_sync`, "this function will block until it is done"
    (`workqueue.c:393`): it tests `work_current` outside a critical section
    (406) and then waits or cancels. If the item has ended in between the caller
    waits for a later completion, perhaps for ever; if it has begun the call
    returns while it runs.
13. `rt_workqueue_cancel_all_work` tests its lists with interrupts enabled (434,
    440); a list emptied in between makes it take the list head for an item. It
    may also never end while others keep submitting.

## 7. Plan

Done, most important behaviour first: `Kernel` and `Sched` (the scheduler, all
its safety proved); `Semaphore` over it, proved to implement
`CountingSemaphore`; `Mutex`, proved to implement `RecursiveLock`; `Mailbox`
and `MsgQueue`, proved to implement `BoundedQueue`; `Event`, proved to
implement `EventFlags`; `Timer`, proved to implement `AlarmClock`; `WorkQueue`, proved to implement
`WorkList`.

Left, in order:

1. Deletion by two managers, of threads that sleep, own mutexes or wait for other
   objects than mutexes, and explicit priority changes of mutex users. This covers
   the hazards at `thread.c:525` and `ipc.c:734`.
2. `MemPool` and `Completion`, then `DataQueue` and `RingBuffer`.
3. Serial reception over the ring buffer; signals (`signal.c:490`); the
   allocation of PDMA channels.
4. Proofs: what `Mutex` keeps without assertions once waits can fail. `MutInv` is
   not kept (section 6, item 7); whether ownership alone is, is open.

Hazards that no property covers, or covers in part, are in `PROJECT.json` with
the reason. Some are not modelled: those at `thread.c:525` and `ipc.c:734`, the
memory of deleted queues (`ipc.c:2940`), signals. The others the model has, and
the property that would state what is promised is violated: items 2, 5, 9, 12
and 13 of section 6, and in part items 4, 6, 7, 10 and 11.
