----------------------------- MODULE WorkQueue -----------------------------
(***************************************************************************)
(* A work queue (components/drivers/ipc/workqueue.c): a thread that does,  *)
(* one after the other, the items of work that threads and handlers submit *)
(* to it at once or, with a timer in each item, after a delay.             *)
(*                                                                         *)
(* Every part with interrupts disabled is one step; timers expire in the   *)
(* tick interrupt (RT_USING_TIMER_SOFT is not defined).  Where the worker  *)
(* is:                                                                     *)
(*   look    in its loop, before it looks at the list of work              *)
(*   asleep  suspended, because the list was empty                         *)
(*   run     in the function of the item, which may use the queue itself   *)
(*   ack     work_current is cleared, _workqueue_work_completion is next   *)
(* and where another caller is:                                            *)
(*   user    in application code                                           *)
(*   start   in a delayed submission, interrupts are enabled again and     *)
(*           rt_timer_start is next                                        *)
(*   cancel  in rt_workqueue_cancel_work_sync, which has found that the    *)
(*           item is not executing                                         *)
(*   sync    there, which has found that it is                             *)
(*   wait    there, in rt_sem_take                                         *)
(*   test, get, drop   in rt_workqueue_cancel_all_work, before the test of *)
(*           the loop, between the test and the look at the first item,    *)
(*           and before that item is cancelled                             *)
(*                                                                         *)
(* RT_WORK_STATE_PENDING is left out: nobody looks at it.                  *)
(***************************************************************************)
EXTENDS Linking

CONSTANTS
    Work,       \* the items
    NoWork,
    Worker,     \* the thread of the queue
    Handlers,   \* the interrupt handlers that use it
    Caller,     \* all that use it, the worker and the handlers among them
    Submitters, Delayers, Urgents, Cancellers, Syncs, Cleaners
                \* the callers that make each of the calls

ASSUME WorkQueueAssumption ==
    /\ NoWork \notin Work
    /\ Handlers \cup {Worker} \subseteq Caller
    /\ Worker \notin Handlers
    /\ Submitters \cup Delayers \cup Urgents \cup Cancellers \subseteq Caller
    /\ Syncs \cup Cleaners \subseteq Caller \ (Handlers \cup {Worker})

VARIABLES
    workList,   \* queue->work_list
    delayed,    \* queue->delayed_list
    cur,        \* queue->work_current
    wpc,        \* where the worker is
    submitting, \* the items with RT_WORK_STATE_SUBMITTING
    owned,      \* the items with work->workqueue # RT_NULL
    ticking,    \* the items whose timer runs
    cpc, arg,   \* where each caller is, and with which item
    part,       \* which of its loops rt_workqueue_cancel_all_work is in
    fault       \* what has stopped the system

timers == <<submitting, owned, ticking>>
workVars == <<workList, delayed, cur, wpc, timers, cpc, arg, part, fault>>

WorkTypeOK ==
    /\ workList \in Seq(Work) /\ delayed \in Seq(Work)
    /\ cur \in Work \cup {NoWork}
    /\ wpc \in {"look", "asleep", "run", "ack"}
    /\ submitting \subseteq Work /\ owned \subseteq Work /\ ticking \subseteq Work
    /\ cpc \in [Caller -> {"user", "start", "cancel", "sync", "wait", "test", "get", "drop"}]
    /\ arg \in [Caller -> Work \cup {NoWork}]
    /\ part \in {"none", "work", "delayed"}
    /\ fault \in {"none", "assert", "wild"}

(* rt_work_init, rt_workqueue_create *)
WorkInit ==
    /\ workList = <<>> /\ delayed = <<>>
    /\ cur = NoWork /\ wpc = "look"
    /\ submitting = {} /\ owned = {} /\ ticking = {}
    /\ cpc = [c \in Caller |-> "user"]
    /\ arg = [c \in Caller |-> NoWork]
    /\ part = "none" /\ fault = "none"

-----------------------------------------------------------------------------

Goto(c, p, x) == cpc' = [cpc EXCEPT ![c] = p] /\ arg' = [arg EXCEPT ![c] = x]

(* A handler runs to its end before a thread goes on, and no other thread  *)
(* runs while rt_workqueue_cancel_all_work has locked the scheduler.       *)
Turn(c) ==
    /\ fault = "none"
    /\ c \notin Handlers =>
          /\ \A h \in Handlers : cpc[h] = "user"
          /\ part # "none" => cpc[c] \in {"test", "get", "drop"}

(* c makes a call; the worker does from inside the function of an item.    *)
Calls(c) ==
    /\ Turn(c)
    /\ cpc[c] = "user"
    /\ c = Worker => wpc = "run"

(* Whether the worker is woken by a change of the lists. *)
Wake == wpc' = IF cur = NoWork /\ wpc = "asleep" THEN "look" ELSE wpc

(* rt_list_remove(&work->list) *)
RestOf(q, x) == RemoveFirst(q, x)

-----------------------------------------------------------------------------
(* The calls *)

(* _workqueue_submit_work, without delay.  An item that is executing is    *)
(* refused with -RT_EBUSY, after it has been taken out of its list.  If    *)
(* the delay of an earlier submission is not over, its timer goes on.      *)
Submit(c, x) ==
    /\ Calls(c)
    /\ delayed' = RestOf(delayed, x)
    /\ IF cur # x
       THEN workList' = Append(RestOf(workList, x), x) /\ owned' = owned \cup {x}
       ELSE workList' = RestOf(workList, x) /\ UNCHANGED owned
    /\ Wake
    /\ UNCHANGED <<cur, submitting, ticking, cpc, arg, part, fault>>

(* _workqueue_submit_work with a delay, up to the enabling of interrupts:  *)
(* a timer that is there already is stopped, else it is initialised.       *)
SubmitDelayed(c, x) ==
    /\ Calls(c)
    /\ workList' = RestOf(workList, x)
    /\ delayed' = Append(RestOf(delayed, x), x)
    /\ submitting' = submitting \cup {x}
    /\ ticking' = ticking \ {x}
    /\ owned' = owned \cup {x}
    /\ Goto(c, "start", x)
    /\ UNCHANGED <<cur, wpc, part, fault>>

(* rt_timer_start, which asserts that the timer has not been detached. *)
StartDelay(c) ==
    /\ Turn(c)
    /\ cpc[c] = "start"
    /\ IF arg[c] \in submitting
       THEN ticking' = ticking \cup {arg[c]} /\ UNCHANGED fault
       ELSE fault' = "assert" /\ UNCHANGED ticking
    /\ Goto(c, "user", NoWork)
    /\ UNCHANGED <<workList, delayed, cur, wpc, submitting, owned, part>>

(* the timer is left running *)
Slip_Cancelled(x) ==
    /\ workList' = RestOf(workList, x) /\ delayed' = RestOf(delayed, x)
    /\ submitting' = submitting \ {x}
    /\ owned' = owned \ {x}
    /\ UNCHANGED ticking

(* _workqueue_cancel_work *)
Cancelled(x) ==
    /\ workList' = RestOf(workList, x) /\ delayed' = RestOf(delayed, x)
    /\ submitting' = submitting \ {x} /\ ticking' = ticking \ {x}
    /\ owned' = owned \ {x}

Cancel(c, x) ==
    /\ Calls(c)
    /\ Cancelled(x)
    /\ UNCHANGED <<cur, wpc, cpc, arg, part, fault>>

(* the worker is not woken *)
Slip_Urgent(c, x) ==
    /\ Calls(c)
    /\ delayed' = RestOf(delayed, x)
    /\ workList' = <<x>> \o RestOf(workList, x)
    /\ UNCHANGED <<cur, wpc, timers, cpc, arg, part, fault>>

(* rt_workqueue_urgent_work, which does not ask whether x is executing. *)
Urgent(c, x) ==
    /\ Calls(c)
    /\ delayed' = RestOf(delayed, x)
    /\ workList' = <<x>> \o RestOf(workList, x)
    /\ Wake
    /\ UNCHANGED <<cur, timers, cpc, arg, part, fault>>

(* rt_workqueue_cancel_work_sync looks at work_current without disabling   *)
(* interrupts, and acts on what it has seen in a later step.               *)
SyncLook(c, x) ==
    /\ Calls(c)
    /\ Goto(c, IF cur = x THEN "sync" ELSE "cancel", x)
    /\ UNCHANGED <<workList, delayed, cur, wpc, timers, part, fault>>

SyncCancel(c) ==
    /\ Turn(c)
    /\ cpc[c] = "cancel"
    /\ Cancelled(arg[c])
    /\ Goto(c, "user", NoWork)
    /\ UNCHANGED <<cur, wpc, part, fault>>

(* The value of the semaphore is 0 except in _workqueue_work_completion:   *)
(* the caller is suspended.                                                *)
SyncTake(c) ==
    /\ Turn(c)
    /\ cpc[c] = "sync"
    /\ Goto(c, "wait", arg[c])
    /\ UNCHANGED <<workList, delayed, cur, wpc, timers, part, fault>>

-----------------------------------------------------------------------------
(* rt_workqueue_cancel_all_work: the tests of its loops are made with the  *)
(* scheduler locked and interrupts enabled.                                *)

Clearing == IF part = "work" THEN workList ELSE delayed

ClearBegin(c) ==
    /\ Calls(c)
    /\ part' = "work"
    /\ Goto(c, "test", NoWork)
    /\ UNCHANGED <<workList, delayed, cur, wpc, timers, fault>>

ClearTest(c) ==
    /\ Turn(c)
    /\ cpc[c] = "test"
    /\ IF Clearing # <<>>
       THEN Goto(c, "get", NoWork) /\ UNCHANGED part
       ELSE IF part = "work"
            THEN part' = "delayed" /\ UNCHANGED <<cpc, arg>>
            ELSE part' = "none" /\ Goto(c, "user", NoWork)
    /\ UNCHANGED <<workList, delayed, cur, wpc, timers, fault>>

(* The first entry of a list that has become empty since the test is the   *)
(* head of the list itself, taken for an item of work.                     *)
ClearGet(c) ==
    /\ Turn(c)
    /\ cpc[c] = "get"
    /\ IF Clearing # <<>>
       THEN Goto(c, "drop", Head(Clearing)) /\ UNCHANGED fault
       ELSE fault' = "wild" /\ UNCHANGED <<cpc, arg>>
    /\ UNCHANGED <<workList, delayed, cur, wpc, timers, part>>

ClearDrop(c) ==
    /\ Turn(c)
    /\ cpc[c] = "drop"
    /\ Cancelled(arg[c])
    /\ Goto(c, "test", NoWork)
    /\ UNCHANGED <<cur, wpc, part, fault>>

-----------------------------------------------------------------------------
(* The worker *)

WorkerSleep ==
    /\ Turn(Worker)
    /\ wpc = "look"
    /\ workList = <<>>
    /\ wpc' = "asleep"
    /\ UNCHANGED <<workList, delayed, cur, timers, cpc, arg, part, fault>>

(* the newest item is taken *)
Slip_WorkerTake ==
    /\ Turn(Worker)
    /\ wpc = "look"
    /\ workList # <<>>
    /\ cur' = Last(workList) /\ workList' = Front(workList)
    /\ owned' = owned \ {Last(workList)}
    /\ wpc' = "run"
    /\ UNCHANGED <<delayed, submitting, ticking, cpc, arg, part, fault>>

WorkerTake ==
    /\ Turn(Worker)
    /\ wpc = "look"
    /\ workList # <<>>
    /\ cur' = Head(workList) /\ workList' = Tail(workList)
    /\ owned' = owned \ {Head(workList)}
    /\ wpc' = "run"
    /\ UNCHANGED <<delayed, submitting, ticking, cpc, arg, part, fault>>

(* The function has returned, between two calls of its own. *)
WorkerReturn ==
    /\ Turn(Worker)
    /\ wpc = "run" /\ cpc[Worker] = "user"
    /\ cur' = NoWork
    /\ wpc' = "ack"
    /\ UNCHANGED <<workList, delayed, timers, cpc, arg, part, fault>>

(* _workqueue_work_completion: with the scheduler locked, the semaphore is *)
(* released until a release meets no waiter, and taken back.               *)
WorkerAck ==
    /\ Turn(Worker)
    /\ wpc = "ack"
    /\ cpc' = [c \in Caller |-> IF cpc[c] = "wait" THEN "user" ELSE cpc[c]]
    /\ arg' = [c \in Caller |-> IF cpc[c] = "wait" THEN NoWork ELSE arg[c]]
    /\ wpc' = "look"
    /\ UNCHANGED <<workList, delayed, cur, timers, part, fault>>

-----------------------------------------------------------------------------

(* _delayed_work_timeout_handler, in the tick interrupt, which asserts     *)
(* that work->workqueue is set: it is not if the item has been executed    *)
(* since, as another submission or an urgent one.  The submission of an    *)
(* item that is executing just then is lost.                               *)
Expire(x) ==
    /\ fault = "none"
    /\ x \in ticking
    /\ IF x \in owned
       THEN /\ ticking' = ticking \ {x} /\ submitting' = submitting \ {x}
            /\ delayed' = RestOf(delayed, x)
            /\ workList' = IF cur = x THEN RestOf(workList, x) ELSE Append(RestOf(workList, x), x)
            /\ Wake
            /\ UNCHANGED fault
       ELSE fault' = "assert" /\ UNCHANGED <<workList, delayed, wpc, submitting, ticking>>
    /\ UNCHANGED <<cur, owned, cpc, arg, part>>

-----------------------------------------------------------------------------

SyncStep(c) == SyncCancel(c) \/ SyncTake(c)
ClearStep(c) == ClearTest(c) \/ ClearGet(c) \/ ClearDrop(c)
WorkerStep == WorkerSleep \/ WorkerTake \/ WorkerReturn \/ WorkerAck

WorkNext ==
    \/ \E x \in Work :
          \/ \E c \in Submitters : Submit(c, x)
          \/ \E c \in Delayers : SubmitDelayed(c, x)
          \/ \E c \in Urgents : Urgent(c, x)
          \/ \E c \in Cancellers : Cancel(c, x)
          \/ \E c \in Syncs : SyncLook(c, x)
          \/ Expire(x)
    \/ \E c \in Delayers : StartDelay(c)
    \/ \E c \in Syncs : SyncStep(c)
    \/ \E c \in Cleaners : ClearBegin(c) \/ ClearStep(c)
    \/ WorkerStep

WorkSpec == WorkInit /\ [][WorkNext]_workVars

(* The tick interrupt comes; the worker gets the processor, and functions  *)
(* return; a caller in the middle of a call goes on.                       *)
WorkFairness ==
    /\ SF_workVars(WorkerStep)
    /\ \A x \in Work : WF_workVars(Expire(x))
    /\ \A c \in Delayers : SF_workVars(StartDelay(c))
    /\ \A c \in Syncs : SF_workVars(SyncStep(c))
    /\ \A c \in Cleaners : SF_workVars(ClearStep(c))

WorkFairSpec == WorkSpec /\ WorkFairness

-----------------------------------------------------------------------------
(* Properties *)

(* In whatever order threads, handlers and the work itself submit and      *)
(* cancel an item, it is linked in one list, once, and no delayed item is  *)
(* stranded: each one in the list of delayed work has a timer, which will  *)
(* find the queue of the item, and which runs or is about to be started by *)
(* a submission that is not over.  No timer runs that a cancel would not   *)
(* stop.  The worker is asleep only if there is nothing to do.             *)
QueueExact ==
    /\ WorkTypeOK
    /\ LinkedOnce(workList) /\ LinkedOnce(delayed)
    /\ \A x \in Work :
          /\ ~ (Linked(x, workList) /\ Linked(x, delayed))
          /\ Linked(x, delayed) =>
                /\ x \in submitting /\ x \in owned
                /\ x \in ticking \/ \E c \in Caller : cpc[c] = "start" /\ arg[c] = x
          /\ x \in ticking => x \in submitting
    /\ wpc = "asleep" => workList = <<>>
    /\ cur # NoWork <=> wpc = "run"

(* Work is not forgotten: an item does not stay in the list for ever       *)
(* unless it is overtaken again and again, by urgent work or because it is *)
(* submitted anew, or somebody cancels all work and never gets to the end, *)
(* because as fast as it cancels new work is delayed.                      *)
PlaceIn(q, x) == CHOOSE i \in 1 .. Len(q) : q[i] = x

Overtaken(x) ==
    /\ Linked(x, workList) /\ Linked(x, workList')
    /\ PlaceIn(workList', x) > PlaceIn(workList, x)

WorkIsTaken ==
    \A x \in Work :
        \/ []<>(~ Linked(x, workList) \/ fault # "none")
        \/ []<><<Overtaken(x)>>_workList
        \/ <>[](part # "none")

(* The queue implements WorkList until an assertion stops the system: work *)
(* is delayed as long as RT_WORK_STATE_SUBMITTING says so.                 *)
Abstract == INSTANCE WorkList
                WITH queue <- workList, later <- submitting, doing <- cur

ImplementsWorkList == Abstract!Spec

=============================================================================
