-------------------------- MODULE SemaphoreProofs --------------------------
(***************************************************************************)
(* Theorems about Semaphore: whatever the threads, their priorities and    *)
(* the schedule are, no wake-up is lost, the wait list is exact, and the   *)
(* semaphore implements CountingSemaphore.                                 *)
(***************************************************************************)
EXTENDS Semaphore, KernelProofs

-----------------------------------------------------------------------------
(* The wait list *)

(* WaitListExact of a kernel state kk, places p, wait list w and errors e, *)
(* thread by thread.                                                       *)
Exact(kk, p, w, e) ==
    /\ w \in Seq(Thread) /\ LinkedOnce(w)
    /\ \A t \in Thread : kk.stat[t] = "suspend" <=> Linked(t, w)
    /\ \A t \in Thread : Linked(t, w) => p[t] \in {"wait", "return"} /\ e[t] = "ok"
    /\ \A t \in kk.armed : Linked(t, w)

(* A step that neither suspends nor wakes. *)
LEMMA SameExact ==
    ASSUME NEW kk, NEW p, NEW w, NEW e, Exact(kk, p, w, e),
           NEW k1, SameWaits(kk, k1, {}), k1.armed = kk.armed,
           NEW p1, \A t \in Thread : Linked(t, w) => p1[t] \in {"wait", "return"}
    PROVE  Exact(k1, p1, w, e)
BY DEF Exact, SameWaits

(* A waiter is woken. *)
LEMMA WokenExact ==
    ASSUME NEW kk, NEW p, NEW w, NEW e, Exact(kk, p, w, e),
           NEW h \in Thread,
           NEW k1, SameWaits(kk, k1, {h}), k1.armed = kk.armed \ {h},
           NEW p1, \A t \in Thread : Linked(t, w) => p1[t] \in {"wait", "return"},
           NEW e1, \A t \in Thread \ {h} : e1[t] = e[t]
    PROVE  Exact(k1, p1, RemoveFirst(w, h), e1)
<1> DEFINE w1 == RemoveFirst(w, h)
<1>1. w \in Seq(Thread) /\ LinkedOnce(w)
  BY DEF Exact
<1>2. /\ w1 \in Seq(Thread) /\ LinkedOnce(w1)
      /\ \A x : Linked(x, w1) <=> Linked(x, w) /\ x # h
  BY <1>1, RemoveFirstFacts
<1> HIDE DEF w1
<1>3. \A t \in Thread : k1.stat[t] = "suspend" <=> Linked(t, w1)
  BY <1>2 DEF Exact, SameWaits
<1>4. \A t \in Thread : Linked(t, w1) => p1[t] \in {"wait", "return"} /\ e1[t] = "ok"
  BY <1>2 DEF Exact
<1>5. \A t \in k1.armed : Linked(t, w1)
  BY <1>2 DEF Exact
<1> QED BY <1>2, <1>3, <1>4, <1>5 DEF Exact, w1

-----------------------------------------------------------------------------
(* The invariant *)

(* A thread that is suspended and still on the processor has just to call  *)
(* rt_schedule.                                                            *)
Placed == k.stat[k.cur] = "suspend" => pc[k.cur] = "wait"

SemInv ==
    /\ TypeOK /\ Runs(k, {}, Idle) /\ Placed
    /\ Exact(k, pc, waitq, err)
    /\ NoUnitWhileWaiting
    /\ DetachedWakesAll

(* A thread on the processor elsewhere than in "wait" is running. *)
LEMMA Running ==
    ASSUME SemInv, NEW t \in Thread, NEW p, At(t, p), p # "wait"
    PROVE  k.stat[t] = "running" /\ ~ Linked(t, waitq)
BY DEF SemInv, Placed, At, Runs, Exact

(* At start-up no thread waits and the idle thread runs. *)
LEMMA InitInv == Init => SemInv
<1> SUFFICES ASSUME Init PROVE SemInv
  OBVIOUS
<1>1. /\ Idle \in Thread /\ InitPrio \in [Thread -> Prio]
      /\ Flags \subseteq Flag /\ InitValue \in 0 .. MaxValue /\ MaxValue \in Nat
  BY SemaphoreAssumption
<1>2. /\ k.cur = Idle /\ k.prio = InitPrio /\ k.yield = {} /\ k.lock = 0 /\ k.armed = {}
      /\ k.stat = [t \in Thread |-> IF t = Idle THEN "running" ELSE "init"]
      /\ k.rq = [p \in Prio |-> <<>>] /\ k.group = {}
  BY DEF Init
<1>3. k \in KernelState
  <2>1. [t \in Thread |-> IF t = Idle THEN "running" ELSE "init"] \in [Thread -> Stat]
    BY DEF Stat
  <2>2. [p \in Prio |-> <<>>] \in [Prio -> Seq(Thread)]
    OBVIOUS
  <2> QED BY <1>1, <2>1, <2>2 DEF Init, KernelState
<1>4. \A x : ~ Linked(x, <<>>)
  BY DEF Linked
<1>5. LinkedOnce(<<>>)
  BY DEF LinkedOnce
<1>6. \A p \in Prio : k.rq[p] = <<>>
  BY <1>2
<1>7. \A t \in Thread : k.stat[t] = IF t = Idle THEN "running" ELSE "init"
  BY <1>2
<1>8. Table(k, {})
  BY <1>2, <1>3, <1>4, <1>5, <1>6, <1>7 DEF Table
<1>9. Single(k)
  BY <1>2, <1>7 DEF Single
<1>10. Runs(k, {}, Idle) /\ Placed
  BY <1>1, <1>2, <1>7, <1>8, <1>9 DEF Runs, Placed, Awake
<1>11. /\ flag \in Flags /\ value = InitValue /\ waitq = <<>> /\ newValue = 0 /\ alive = TRUE
       /\ pc = [t \in Thread |-> "user"] /\ err = [t \in Thread |-> "ok"]
  BY DEF Init
<1>12. TypeOK
  <2>1. waitq \in Seq(Thread)
    BY <1>11
  <2> QED BY <1>1, <1>3, <1>11, <2>1 DEF TypeOK
<1>13. Exact(k, pc, waitq, err)
  <2>1. waitq \in Seq(Thread)
    BY <1>11
  <2> QED BY <1>2, <1>4, <1>5, <1>7, <1>11, <2>1 DEF Exact
<1> QED BY <1>10, <1>11, <1>12, <1>13 DEF SemInv, NoUnitWhileWaiting, DetachedWakesAll

Place == {"user", "wait", "return", "sched", "reset", "detach", "cancel", "wild"}

(* A step that leaves the wait list alone. *)
LEMMA QuietStep ==
    ASSUME SemInv,
           Runs(k', {}, Idle), SameWaits(k, k', {}), k'.armed = k.armed, Placed',
           flag' = flag, waitq' = waitq, err' = err,
           pc' \in [Thread -> Place],
           \A t \in Thread : Linked(t, waitq) => pc'[t] \in {"wait", "return"},
           value' \in 0 .. MaxValue, newValue' \in 0 .. MaxValue, alive' \in BOOLEAN,
           value' > 0 => value > 0 \/ waitq = <<>>,
           ~ alive' /\ (\A t \in Thread : pc'[t] \notin {"detach", "cancel"})
              => waitq = <<>>
    PROVE  SemInv'
<1>1. TypeOK'
  <2>1. k' \in KernelState
    BY DEF Runs, Table
  <2> QED BY <2>1 DEF SemInv, TypeOK, Place
<1>2. Exact(k', pc', waitq', err')
  <2>1. Exact(k, pc, waitq, err)
    BY DEF SemInv
  <2>2. Exact(k', pc', waitq, err)
    BY <2>1, SameExact
  <2> QED BY <2>2
<1>3. NoUnitWhileWaiting'
  BY DEF SemInv, NoUnitWhileWaiting
<1>4. DetachedWakesAll'
  BY DEF DetachedWakesAll
<1> QED BY <1>1, <1>2, <1>3, <1>4 DEF SemInv

(* A step that wakes one waiter. *)
LEMMA WakeStep ==
    ASSUME SemInv, NEW h \in Thread, Linked(h, waitq),
           Runs(k', {}, Idle), SameWaits(k, k', {h}), k'.armed = k.armed \ {h}, Placed',
           flag' = flag, value' = value, newValue' = newValue, alive' = alive,
           waitq' = RemoveFirst(waitq, h),
           err' \in [Thread -> {"ok", "timeout", "error"}],
           \A t \in Thread \ {h} : err'[t] = err[t],
           pc' \in [Thread -> Place],
           \A t \in Thread : Linked(t, waitq) => pc'[t] \in {"wait", "return"},
           \A t \in Thread : pc[t] \in {"detach", "cancel"} => pc'[t] \in {"detach", "cancel"}
    PROVE  SemInv'
<1>1. Exact(k', pc', waitq', err')
  <2>1. Exact(k, pc, waitq, err)
    BY DEF SemInv
  <2>2. Exact(k', pc', RemoveFirst(waitq, h), err')
    BY <2>1, WokenExact
  <2> QED BY <2>2
<1>2. TypeOK'
  <2>1. k' \in KernelState
    BY DEF Runs, Table
  <2>2. waitq' \in Seq(Thread)
    BY <1>1 DEF Exact
  <2> QED BY <2>1, <2>2 DEF SemInv, TypeOK, Place
<1>3. waitq # <<>>
  BY DEF Linked
<1>4. value = 0
  BY <1>3 DEF SemInv, NoUnitWhileWaiting, TypeOK
<1>5. NoUnitWhileWaiting'
  BY <1>4 DEF NoUnitWhileWaiting
<1>6. DetachedWakesAll'
  BY <1>3 DEF SemInv, DetachedWakesAll
<1> QED BY <1>1, <1>2, <1>5, <1>6 DEF SemInv

(* The first waiter. *)
LEMMA FirstWaiter ==
    ASSUME SemInv, waitq # <<>>
    PROVE  LET h == Head(waitq)
           IN  /\ h \in Thread /\ Linked(h, waitq) /\ Tail(waitq) = RemoveFirst(waitq, h)
               /\ k.stat[h] = "suspend"
               /\ Runs(ResumeThread(k, h), {}, Idle) /\ SameWaits(k, ResumeThread(k, h), {h})
               /\ ResumeThread(k, h).cur = k.cur /\ ResumeThread(k, h).prio = k.prio
               /\ ResumeThread(k, h).armed = k.armed \ {h}
<1> DEFINE h == Head(waitq)
<1>1. waitq \in Seq(Thread) /\ LinkedOnce(waitq) /\ Runs(k, {}, Idle)
  BY DEF SemInv, Exact
<1>2. h \in Thread \ {} /\ Linked(h, waitq) /\ Tail(waitq) = RemoveFirst(waitq, h)
  BY <1>1, HeadFacts, TailFacts
<1>3. k.stat[h] = "suspend"
  BY <1>2 DEF SemInv, Exact
<1> HIDE DEF h
<1>4. /\ Runs(ResumeThread(k, h), {}, Idle) /\ SameWaits(k, ResumeThread(k, h), {h})
      /\ ResumeThread(k, h).cur = k.cur /\ ResumeThread(k, h).prio = k.prio
      /\ ResumeThread(k, h).armed = k.armed \ {h}
  <2>1. Runs(k, {}, Idle)
    BY <1>1
  <2>2. h \in Thread \ {}
    BY <1>2
  <2> QED BY <1>3, <2>1, <2>2, ResumeRuns
<1> QED BY <1>1, <1>2, <1>3, <1>4 DEF h

(* The facts of the invariant that every step starts from. *)
LEMMA Facts ==
    ASSUME SemInv
    PROVE  /\ Runs(k, {}, Idle) /\ SameWaits(k, k, {}) /\ Placed
           /\ k.cur \in Thread /\ k.armed \in SUBSET Thread
           /\ pc \in [Thread -> Place] /\ err \in [Thread -> {"ok", "timeout", "error"}]
           /\ flag \in Flag /\ value \in 0 .. MaxValue /\ newValue \in 0 .. MaxValue
           /\ alive \in BOOLEAN /\ MaxValue \in Nat
           /\ waitq \in Seq(Thread)
           /\ \A t \in Thread : Linked(t, waitq) => /\ k.stat[t] = "suspend"
                                                   /\ pc[t] \in {"wait", "return"}
                                                   /\ err[t] = "ok"
           /\ \A t \in k.armed : Linked(t, waitq)
BY SemaphoreAssumption, RunsType DEF SemInv, TypeOK, Place, Exact, SameWaits

(* The steps of a thread that leave the kernel alone. *)
LEMMA StillInv ==
    ASSUME SemInv, NEW t \in Thread,
           \/ TakeFree(t) \/ TakeReturn(t) \/ ResetEnd(t)
           \/ DetachBegin(t) \/ DetachLook(t) \/ DetachWild(t)
           \/ \E v \in 0 .. MaxValue : ResetBegin(t, v)
           \/ ReleaseCount
    PROVE  SemInv'
<1>1. /\ k' = k /\ flag' = flag /\ waitq' = waitq /\ err' = err
      /\ pc' \in [Thread -> Place]
      /\ value' \in 0 .. MaxValue /\ newValue' \in 0 .. MaxValue /\ alive' \in BOOLEAN
      /\ value' > 0 => value > 0 \/ waitq = <<>>
      /\ ~ alive' /\ (\A x \in Thread : pc'[x] \notin {"detach", "cancel"}) => waitq = <<>>
      /\ pc' = pc \/ (k.cur = t /\ pc[t] # "wait" /\ \A x \in Thread \ {t} : pc'[x] = pc[x])
  <2>1. CASE TakeFree(t)
    BY <2>1, Facts DEF TakeFree, Calls
  <2>2. CASE TakeReturn(t)
    BY <2>2, Facts DEF TakeReturn, At, Goto, Place, SemInv, DetachedWakesAll
  <2>3. CASE ResetEnd(t)
    BY <2>3, Facts DEF ResetEnd, At, Goto, Place
  <2>4. CASE DetachBegin(t)
    BY <2>4, Facts DEF DetachBegin, Calls, At, Goto, Place
  <2>5. CASE DetachLook(t)
    BY <2>5, Facts DEF DetachLook, At, Goto, Place
  <2>6. CASE DetachWild(t)
    BY <2>6, Facts DEF DetachWild, At, Goto, Place
  <2>7. CASE \E v \in 0 .. MaxValue : ResetBegin(t, v)
    BY <2>7, Facts DEF ResetBegin, Calls, At, Goto, Place
  <2>8. CASE ReleaseCount
    BY <2>8, Facts DEF ReleaseCount
  <2> QED BY <2>1, <2>2, <2>3, <2>4, <2>5, <2>6, <2>7, <2>8
<1>2. \A x \in Thread : Linked(x, waitq) => pc'[x] \in {"wait", "return"}
  BY <1>1, Facts, Running DEF At
<1>3. Placed'
  BY <1>1, Facts DEF Placed
<1> QED BY <1>1, <1>2, <1>3, Facts, QuietStep

(* The steps of a thread that wake the first waiter. *)
LEMMA HeadInv ==
    ASSUME SemInv, NEW t \in Thread, ReleaseWake(t) \/ ResetWake(t) \/ DetachWake(t)
    PROVE  /\ SemInv' /\ waitq # <<>> /\ waitq' = RemoveFirst(waitq, Head(waitq))
           /\ \A x \in Thread : Linked(x, waitq) => pc'[x] = pc[x]
           /\ Linked(Head(waitq), waitq) /\ Head(waitq) \in Thread
<1> DEFINE h == Head(waitq)
<1>1. /\ waitq # <<>> /\ k' = ResumeThread(k, h) /\ waitq' = Tail(waitq)
      /\ flag' = flag /\ value' = value /\ newValue' = newValue /\ alive' = alive
      /\ k.cur = t /\ pc[t] # "wait" /\ \A x \in Thread \ {t} : pc'[x] = pc[x]
      /\ pc' \in [Thread -> Place]
      /\ pc[t] \in {"detach", "cancel"} => pc'[t] \in {"detach", "cancel"}
  <2>1. CASE ReleaseWake(t)
    BY <2>1, Facts DEF ReleaseWake, HandOver, Woken, Calls, At, Goto, Place
  <2>2. CASE ResetWake(t)
    BY <2>2, Facts DEF ResetWake, CancelFirst, At
  <2>3. CASE DetachWake(t)
    BY <2>3, Facts DEF DetachWake, CancelFirst, At, Goto, Place
  <2> QED BY <2>1, <2>2, <2>3
<1>2. h \in Thread /\ err' \in {err, [err EXCEPT ![h] = "error"]}
  BY <1>1, FirstWaiter DEF ReleaseWake, ResetWake, DetachWake, CancelFirst
<1> HIDE DEF h
<1>3. /\ Linked(h, waitq) /\ waitq' = RemoveFirst(waitq, h) /\ Runs(k', {}, Idle)
      /\ SameWaits(k, k', {h}) /\ k'.cur = k.cur /\ k'.prio = k.prio
      /\ k'.armed = k.armed \ {h}
  BY <1>1, FirstWaiter DEF h
<1>4. k.stat[t] = "running" /\ ~ Linked(t, waitq)
  BY <1>1, Running DEF At
<1>5. /\ err' \in [Thread -> {"ok", "timeout", "error"}]
      /\ \A x \in Thread \ {h} : err'[x] = err[x]
  BY <1>2, Facts
<1>6. \A x \in Thread : Linked(x, waitq) => pc'[x] = pc[x] /\ pc'[x] \in {"wait", "return"}
  BY <1>1, <1>4, Facts
<1>7. \A x \in Thread : pc[x] \in {"detach", "cancel"} => pc'[x] \in {"detach", "cancel"}
  BY <1>1
<1>8. Placed'
  BY <1>1, <1>3, <1>4 DEF Placed, SameWaits
<1>9. SemInv'
  BY <1>1, <1>2, <1>3, <1>5, <1>6, <1>7, <1>8, WakeStep
<1> QED BY <1>1, <1>2, <1>3, <1>6, <1>9 DEF h

(* A take that waits. *)
LEMMA SleepInv ==
    ASSUME SemInv, NEW t \in Takers, TakeWait(t)
    PROVE  /\ SemInv'
           /\ \A x \in Thread : Linked(x, waitq') <=> x = t \/ Linked(x, waitq)
<1>1. /\ k.cur = t /\ pc[t] = "user" /\ value = 0 /\ alive
      /\ k' \in {SuspendThread(k, t), StartThreadTimer(SuspendThread(k, t), t)}
      /\ waitq' = WaitInsert(flag, waitq, t, k.prio)
      /\ err' = [err EXCEPT ![t] = "ok"] /\ pc' = [pc EXCEPT ![t] = "wait"]
      /\ flag' = flag /\ value' = value /\ newValue' = newValue /\ alive' = alive
  BY DEF TakeWait, Calls, At, Goto
<1>2. t \in Thread \ {Idle}
  BY SemaphoreAssumption
<1>3. k.stat[t] = "running"
  BY <1>1, <1>2, Running DEF At
<1>4. /\ Runs(k', {}, Idle) /\ k'.cur = t /\ k'.prio = k.prio
      /\ \A x \in Thread : k'.stat[x] = "suspend" <=> k.stat[x] = "suspend" \/ x = t
      /\ k'.armed \subseteq k.armed \cup {t}
  <2>1. Runs(k, {}, Idle)
    BY Facts
  <2>2. k' \in {SuspendThread(k, t), StartThreadTimer(SuspendThread(k, t), t)}
    BY <1>1
  <2>3. /\ Runs(k', {}, Idle) /\ k'.cur = t /\ k'.prio = k.prio /\ k'.stat[t] = "suspend"
        /\ \A x \in Thread \ {t} : k'.stat[x] = k.stat[x]
        /\ k'.armed \subseteq k.armed \cup {t}
    BY <1>1, <1>2, <1>3, <2>1, <2>2, SuspendRuns
  <2> QED BY <2>3
<1>5. /\ pc' \in [Thread -> Place] /\ err' \in [Thread -> {"ok", "timeout", "error"}]
      /\ pc'[t] = "wait" /\ err'[t] = "ok"
      /\ \A x \in Thread \ {t} : pc'[x] = pc[x] /\ err'[x] = err[x]
  BY <1>1, <1>2, Facts DEF Place
<1>6. /\ waitq' \in Seq(Thread) /\ LinkedOnce(waitq')
      /\ \A x : Linked(x, waitq') <=> x = t \/ Linked(x, waitq)
  <2>1. /\ flag \in Flag /\ k.prio \in [Thread -> Prio]
        /\ waitq \in Seq(Thread) /\ LinkedOnce(waitq) /\ ~ Linked(t, waitq)
    BY <1>2, <1>3, Facts, RunsType DEF SemInv, Exact
  <2> DEFINE w1 == WaitInsert(flag, waitq, t, k.prio)
  <2>2. /\ w1 \in Seq(Thread) /\ LinkedOnce(w1)
        /\ \A x : Linked(x, w1) <=> x = t \/ Linked(x, waitq)
    BY <1>2, <2>1, WaitInsertLinks
  <2>3. waitq' = w1
    BY <1>1
  <2> HIDE DEF w1
  <2> QED BY <1>4, <2>2, <2>3
<1>7. Exact(k', pc', waitq', err')
  <2>1. \A x \in Thread : k'.stat[x] = "suspend" <=> Linked(x, waitq')
    BY <1>4, <1>6, Facts DEF SemInv, Exact
  <2>2. \A x \in Thread : Linked(x, waitq') => pc'[x] \in {"wait", "return"} /\ err'[x] = "ok"
    BY <1>5, <1>6, Facts
  <2>3. \A x \in k'.armed : Linked(x, waitq')
    BY <1>4, <1>6, Facts
  <2> QED BY <1>1, <1>6, <2>1, <2>2, <2>3 DEF Exact
<1>8. TypeOK'
  <2>1. k' \in KernelState /\ waitq' \in Seq(Thread)
    BY <1>4, <1>6 DEF Runs, Table
  <2> QED BY <1>1, <1>5, <2>1 DEF SemInv, TypeOK, Place
<1>9. Placed' /\ NoUnitWhileWaiting' /\ DetachedWakesAll'
  BY <1>1, <1>4, <1>5, Facts DEF Placed, NoUnitWhileWaiting, DetachedWakesAll
<1> QED BY <1>4, <1>6, <1>7, <1>8, <1>9 DEF SemInv

(* The steps that call kernel routines and wake nobody. *)
LEMMA StartInv ==
    ASSUME SemInv, NEW t \in Thread, NEW x \in Thread, Start(t, x)
    PROVE  SemInv'
<1>1. /\ k.stat[x] = "init" /\ k' = ResumeThread([k EXCEPT !.stat[x] = "suspend"], x)
      /\ k.cur = t /\ pc[t] = "user" /\ pc' = [pc EXCEPT ![t] = "sched"]
      /\ flag' = flag /\ value' = value /\ waitq' = waitq /\ err' = err
      /\ newValue' = newValue /\ alive' = alive
  BY DEF Start, At, Goto
<1>2. x \in Thread \ {} /\ \A y \in k.armed : k.stat[y] = "suspend"
  BY Facts
<1>3. Runs(k', {}, Idle) /\ SameWaits(k, k', {}) /\ k'.cur = k.cur /\ k'.armed = k.armed /\ k'.prio = k.prio
  <2>1. Runs(k, {}, Idle)
    BY Facts
  <2> QED BY <1>1, <1>2, <2>1, StartRuns
<1>4. k.stat[t] = "running" /\ ~ Linked(t, waitq)
  BY <1>1, Running DEF At
<1>5. /\ pc' \in [Thread -> Place]
      /\ \A y \in Thread : Linked(y, waitq) => pc'[y] \in {"wait", "return"}
  BY <1>1, <1>4, Facts DEF Place
<1>6. Placed'
  BY <1>1, <1>3, <1>4 DEF Placed, SameWaits
<1>7. ~ alive' /\ (\A y \in Thread : pc'[y] \notin {"detach", "cancel"}) => waitq = <<>>
  BY <1>1 DEF SemInv, DetachedWakesAll
<1> QED BY <1>1, <1>3, <1>5, <1>6, <1>7, Facts, QuietStep

(* The rt_schedule a call ends with moves nobody in or out of the wait     *)
(* list.                                                                   *)
LEMMA CallScheduleInv ==
    ASSUME SemInv, NEW t \in Thread, CallSchedule(t)
    PROVE  SemInv'
<1>1. /\ k' = Schedule(k) /\ k.cur = t /\ pc[t] \in {"wait", "sched"}
      /\ pc' = [pc EXCEPT ![t] = IF pc[t] = "wait" THEN "return" ELSE "user"]
      /\ flag' = flag /\ value' = value /\ waitq' = waitq /\ err' = err
      /\ newValue' = newValue /\ alive' = alive
  BY DEF CallSchedule, Goto
<1>2. /\ Runs(k', {}, Idle) /\ SameWaits(k, k', {}) /\ k'.stat[k'.cur] = "running"
      /\ k'.armed = k.armed /\ k'.prio = k.prio
  BY <1>1, Facts, ScheduleRuns
<1>3. /\ pc' \in [Thread -> Place]
      /\ \A y \in Thread : Linked(y, waitq) => pc'[y] \in {"wait", "return"}
  BY <1>1, Facts DEF Place
<1>4. Placed'
  BY <1>2 DEF Placed
<1>5. ~ alive' /\ (\A y \in Thread : pc'[y] \notin {"detach", "cancel"}) => waitq = <<>>
  BY <1>1, Facts DEF SemInv, DetachedWakesAll
<1> QED BY <1>1, <1>2, <1>3, <1>4, <1>5, Facts, QuietStep

(* The end of a time slice leaves the semaphore alone. *)
LEMMA SliceOverInv ==
    ASSUME SemInv, SliceOver
    PROVE  SemInv'
<1> DEFINE k1 == [k EXCEPT !.yield = @ \cup {k.cur}]
<1>1. /\ k' = Schedule(k1) /\ flag' = flag /\ value' = value /\ waitq' = waitq
      /\ err' = err /\ newValue' = newValue /\ alive' = alive /\ pc' = pc
  BY DEF SliceOver
<1>2. Runs(k1, {}, Idle) /\ SameWaits(k, k1, {}) /\ k1.armed = k.armed /\ k1.prio = k.prio
  BY Facts, YieldRuns
<1> HIDE DEF k1
<1>3. /\ Runs(k', {}, Idle) /\ SameWaits(k1, k', {}) /\ k'.stat[k'.cur] = "running"
      /\ k'.armed = k1.armed /\ k'.prio = k1.prio
  BY <1>1, <1>2, ScheduleRuns
<1>4. SameWaits(k, k', {})
  BY <1>2, <1>3 DEF SameWaits
<1>5. Placed'
  BY <1>3 DEF Placed
<1>6. ~ alive' /\ (\A y \in Thread : pc'[y] \notin {"detach", "cancel"}) => waitq = <<>>
  BY <1>1 DEF SemInv, DetachedWakesAll
<1> QED BY <1>1, <1>2, <1>3, <1>4, <1>5, <1>6, Facts, QuietStep

(* A priority change moves a thread among the ready lists at most.         *)
LEMMA SetPriorityInv ==
    ASSUME SemInv, NEW t \in Thread, NEW x \in Reprio, NEW p \in NewPrio, SetPriority(t, x, p)
    PROVE  SemInv'
<1>1. /\ k' = ChangePriority(k, x, p) /\ flag' = flag /\ value' = value
      /\ waitq' = waitq /\ err' = err /\ newValue' = newValue /\ alive' = alive /\ pc' = pc
  BY DEF SetPriority
<1>2. x \in Thread \ {} /\ p \in Prio
  BY SemaphoreAssumption
<1>3. Runs(k', {}, Idle) /\ SameWaits(k, k', {}) /\ k'.cur = k.cur /\ k'.armed = k.armed
  <2>1. Runs(k, {}, Idle)
    BY Facts
  <2> DEFINE k1 == ChangePriority(k, x, p)
  <2>2. Runs(k1, {}, Idle) /\ SameWaits(k, k1, {}) /\ k1.cur = k.cur /\ k1.armed = k.armed
    BY <1>2, <2>1, PriorityRuns
  <2>3. k' = k1
    BY <1>1
  <2> HIDE DEF k1
  <2> QED BY <2>2, <2>3
<1>4. Placed'
  BY <1>1, <1>3, Facts DEF Placed, SameWaits
<1>5. ~ alive' /\ (\A y \in Thread : pc'[y] \notin {"detach", "cancel"}) => waitq = <<>>
  BY <1>1 DEF SemInv, DetachedWakesAll
<1> QED BY <1>1, <1>3, <1>4, <1>5, Facts, QuietStep

(* A release by an interrupt handler. *)
LEMMA IsrWakeInv ==
    ASSUME SemInv, IsrWake
    PROVE  /\ SemInv' /\ waitq # <<>> /\ waitq' = RemoveFirst(waitq, Head(waitq))
           /\ Linked(Head(waitq), waitq) /\ Head(waitq) \in Thread
<1> DEFINE h == Head(waitq)
           k1 == ResumeThread(k, h)
<1>1. /\ waitq # <<>> /\ k' = Schedule(k1) /\ waitq' = Tail(waitq)
      /\ flag' = flag /\ value' = value /\ err' = err /\ newValue' = newValue
      /\ alive' = alive /\ pc' = pc
  BY DEF IsrWake, HandOver, Woken
<1>2. /\ h \in Thread /\ Linked(h, waitq) /\ waitq' = RemoveFirst(waitq, h)
      /\ Runs(k1, {}, Idle) /\ SameWaits(k, k1, {h}) /\ k1.prio = k.prio /\ k1.armed = k.armed \ {h}
  BY <1>1, FirstWaiter
<1> HIDE DEF h, k1
<1>3. /\ Runs(k', {}, Idle) /\ SameWaits(k1, k', {}) /\ k'.stat[k'.cur] = "running"
      /\ k'.armed = k1.armed /\ k'.prio = k1.prio
  BY <1>1, <1>2, ScheduleRuns
<1>4. SameWaits(k, k', {h}) /\ Placed'
  BY <1>2, <1>3 DEF SameWaits, Placed
<1>5. SemInv'
  BY <1>1, <1>2, <1>3, <1>4, Facts, WakeStep
<1> QED BY <1>1, <1>2, <1>5 DEF h

(* A time-out. *)
LEMMA TimerFireInv ==
    ASSUME SemInv, NEW t \in Thread, TimerFire(t)
    PROVE  SemInv' /\ Linked(t, waitq)
<1> DEFINE k1 == TimeoutThread(k, t)
<1>1. /\ t \in k.armed /\ k' = Schedule(k1) /\ waitq' = RemoveFirst(waitq, t)
      /\ err' = [err EXCEPT ![t] = "timeout"]
      /\ flag' = flag /\ value' = value /\ newValue' = newValue
      /\ alive' = alive /\ pc' = pc
  BY DEF TimerFire
<1>2. Linked(t, waitq) /\ k.stat[t] = "suspend" /\ t \in Thread \ {}
  BY <1>1, Facts
<1>3. Runs(k1, {}, Idle) /\ SameWaits(k, k1, {t}) /\ k1.prio = k.prio /\ k1.armed = k.armed \ {t}
  <2>1. Runs(k, {}, Idle)
    BY Facts
  <2> QED BY <1>2, <2>1, TimeoutRuns
<1> HIDE DEF k1
<1>4. /\ Runs(k', {}, Idle) /\ SameWaits(k1, k', {}) /\ k'.stat[k'.cur] = "running"
      /\ k'.armed = k1.armed /\ k'.prio = k1.prio
  BY <1>1, <1>3, ScheduleRuns
<1>5. SameWaits(k, k', {t}) /\ Placed'
  BY <1>3, <1>4 DEF SameWaits, Placed
<1>6. /\ err' \in [Thread -> {"ok", "timeout", "error"}]
      /\ \A x \in Thread \ {t} : err'[x] = err[x]
  BY <1>1, Facts
<1>7. SemInv'
  BY <1>1, <1>2, <1>3, <1>4, <1>5, <1>6, Facts, WakeStep
<1> QED BY <1>2, <1>7

(* Every step keeps the invariant. *)
LEMMA StepInv ==
    ASSUME SemInv, [Next]_vars
    PROVE  SemInv'
<1>1. ASSUME NEW t \in Thread, ThreadCall(t) PROVE SemInv'
  BY <1>1, StartInv, StillInv, SleepInv, HeadInv, SetPriorityInv, CallScheduleInv
     DEF ThreadCall
<1>2. ASSUME NEW t \in Thread, TimerFire(t) PROVE SemInv'
  BY <1>2, TimerFireInv
<1>3. CASE ReleaseCount
  BY <1>3, StillInv, SemaphoreAssumption
<1>4. CASE UNCHANGED vars
  BY <1>4 DEF vars, SemInv, TypeOK, Placed, NoUnitWhileWaiting, DetachedWakesAll
<1> QED BY <1>1, <1>2, <1>3, <1>4, IsrWakeInv, SliceOverInv DEF Next

(* The invariant holds in every reachable state. *)
LEMMA AlwaysInv == Spec => []SemInv
<1>1. SemInv /\ [Next]_vars => SemInv'
  BY StepInv
<1> QED BY <1>1, InitInv, PTL DEF Spec

-----------------------------------------------------------------------------
(* Refinement *)

states == [t \in Thread |-> TakeState(t)]

(* Who is linked in the wait list is asking, and nobody else. *)
LEMMA AskingFacts ==
    ASSUME SemInv
    PROVE  /\ \A t \in Thread : states[t] = "asking" <=> Linked(t, waitq)
           /\ waitq = <<>> => Counting!Asking = {}
<1>1. \A t \in Thread : states[t] = "asking" <=> Linked(t, waitq)
  BY Facts DEF states, TakeState
<1>2. waitq = <<>> => \A t \in Thread : ~ Linked(t, waitq)
  BY DEF Linked
<1> QED BY <1>1, <1>2 DEF Counting!Asking, states

(* No take gets on. *)
LEMMA Stays ==
    ASSUME \A x \in Thread : TakeState(x)' = TakeState(x)
    PROVE  UNCHANGED states
BY DEF states

(* One take gets on. *)
LEMMA Becomes ==
    ASSUME NEW t \in Thread, NEW s, TakeState(t)' = s,
           \A x \in Thread \ {t} : TakeState(x)' = TakeState(x)
    PROVE  Counting!Become(t, s)
BY DEF Counting!Become

(* A waiter is woken. *)
LEMMA WokenBecomes ==
    ASSUME SemInv, NEW h \in Thread, Linked(h, waitq), waitq' = RemoveFirst(waitq, h),
           \A x \in Thread \ {h} : err'[x] = err[x],
           \A x \in Thread : Linked(x, waitq) => pc'[x] = pc[x],
           \A x \in Thread : pc'[x] \in {"wait", "return"} <=> pc[x] \in {"wait", "return"}
    PROVE  /\ states[h] = "asking"
           /\ Counting!Become(h, IF err'[h] = "ok" THEN "granted" ELSE err'[h])
<1>1. /\ ~ Linked(h, waitq')
      /\ \A x : x # h => (Linked(x, waitq') <=> Linked(x, waitq))
  BY RemoveFirstFacts DEF SemInv, Exact
<1>2. \A x \in Thread \ {h} : TakeState(x)' = TakeState(x)
  BY <1>1 DEF TakeState
<1>3. TakeState(h)' = IF err'[h] = "ok" THEN "granted" ELSE err'[h]
  BY <1>1, Facts DEF TakeState
<1> QED BY <1>2, <1>3, AskingFacts, Becomes

CountStep == [Counting!Next]_<<value, [t \in Thread |-> TakeState(t)]>>

(* Steps that the users of the semaphore do not see. *)
LEMMA Hidden ==
    ASSUME UNCHANGED <<value, waitq, err>>,
           \A x \in Thread : pc'[x] \in {"wait", "return"} <=> pc[x] \in {"wait", "return"}
    PROVE  CountStep
<1>1. \A x \in Thread : TakeState(x)' = TakeState(x)
  BY DEF TakeState
<1> QED BY <1>1, Stays DEF CountStep, states

(* Every step of the semaphore is a step of CountingSemaphore, or none. *)
LEMMA StepCounts ==
    ASSUME SemInv, [Next]_vars
    PROVE  CountStep
<1>1. ASSUME NEW t \in Thread,
             \/ \E x \in Thread : Start(t, x)
             \/ \E v \in 0 .. MaxValue : ResetBegin(t, v)
             \/ DetachBegin(t) \/ DetachLook(t) \/ DetachWild(t)
             \/ \E x \in Reprio, p \in NewPrio : SetPriority(t, x, p)
             \/ CallSchedule(t)
      PROVE  CountStep
  <2>1. /\ UNCHANGED <<value, waitq, err>>
        /\ \/ pc' = pc
           \/ /\ pc[t] \notin {"wait", "return"} /\ \E s \in Place \ {"wait", "return"} : pc' = [pc EXCEPT ![t] = s]
           \/ /\ pc[t] = "wait" /\ pc' = [pc EXCEPT ![t] = "return"]
    <3>1. CASE \E x \in Thread : Start(t, x)
      BY <3>1 DEF Start, At, Goto, Place
    <3>2. CASE \E v \in 0 .. MaxValue : ResetBegin(t, v)
      BY <3>2 DEF ResetBegin, Calls, At, Goto, Place
    <3>3. CASE DetachBegin(t)
      BY <3>3 DEF DetachBegin, Calls, At, Goto, Place
    <3>4. CASE DetachLook(t)
      BY <3>4 DEF DetachLook, At, Goto, Place
    <3>5. CASE DetachWild(t)
      BY <3>5 DEF DetachWild, At, Goto, Place
    <3>6. CASE \E x \in Reprio, p \in NewPrio : SetPriority(t, x, p)
      BY <3>6 DEF SetPriority
    <3>7. CASE CallSchedule(t)
      BY <3>7 DEF CallSchedule, Goto, Place
    <3> QED BY <1>1, <3>1, <3>2, <3>3, <3>4, <3>5, <3>6, <3>7
  <2>2. \A x \in Thread : pc'[x] \in {"wait", "return"} <=> pc[x] \in {"wait", "return"}
    BY <2>1, Facts
  <2> QED BY <2>1, <2>2, Hidden
<1>2. ASSUME NEW t \in Thread, TakeFree(t) PROVE CountStep
  <2>1. /\ pc[t] = "user" /\ value > 0 /\ value' = value - 1
        /\ UNCHANGED <<pc, waitq, err>>
    BY <1>2 DEF TakeFree, Calls, At
  <2>2. UNCHANGED states /\ states[t] = "idle"
    BY <2>1, Stays DEF TakeState, states
  <2>3. Counting!Take(t)
    BY <2>1, <2>2 DEF Counting!Take, states
  <2> QED BY <2>3 DEF CountStep, Counting!Next
<1>3. ASSUME NEW t \in Takers, TakeWait(t) PROVE CountStep
  <2>1. /\ k.cur = t /\ pc[t] = "user" /\ value = 0 /\ value' = value /\ t \in Thread
        /\ err' = [err EXCEPT ![t] = "ok"] /\ pc' = [pc EXCEPT ![t] = "wait"]
    BY <1>3, SemaphoreAssumption DEF TakeWait, Calls, At, Goto
  <2>2. /\ pc'[t] = "wait" /\ states[t] = "idle"
        /\ \A x \in Thread \ {t} : pc'[x] = pc[x] /\ err'[x] = err[x]
    BY <2>1, Facts DEF states, TakeState
  <2>3. \A x \in Thread : Linked(x, waitq') <=> x = t \/ Linked(x, waitq)
    BY <1>3, SleepInv
  <2>4. TakeState(t)' = "asking" /\ \A x \in Thread \ {t} : TakeState(x)' = TakeState(x)
    BY <2>1, <2>2, <2>3 DEF TakeState
  <2>5. Counting!Become(t, "asking")
    BY <2>1, <2>4, Becomes
  <2>6. Counting!Ask(t)
    BY <2>1, <2>2, <2>5 DEF Counting!Ask, states
  <2> QED BY <2>1, <2>6 DEF CountStep, Counting!Next
<1>4. ASSUME NEW t \in Thread, TakeReturn(t) PROVE CountStep
  <2>1. /\ k.cur = t /\ pc[t] = "return" /\ pc' = [pc EXCEPT ![t] = "user"]
        /\ UNCHANGED <<value, waitq, err>>
    BY <1>4 DEF TakeReturn, At, Goto
  <2>2. ~ Linked(t, waitq) /\ err[t] \in {"ok", "timeout", "error"}
    BY <2>1, Facts, Running DEF At
  <2>3. states[t] \in Counting!Outcome
    BY <2>1, <2>2 DEF states, TakeState, Counting!Outcome
  <2>4. TakeState(t)' = "idle" /\ \A x \in Thread \ {t} : TakeState(x)' = TakeState(x)
    BY <2>1, Facts DEF TakeState
  <2>5. Counting!Become(t, "idle")
    BY <2>4, Becomes
  <2>6. Counting!Return(t)
    BY <2>1, <2>3, <2>5 DEF Counting!Return, states
  <2> QED BY <2>6 DEF CountStep, Counting!Next
<1>5. ASSUME NEW t \in Thread, ResetEnd(t) PROVE CountStep
  <2>1. /\ pc[t] = "reset" /\ pc' = [pc EXCEPT ![t] = "sched"] /\ waitq = <<>>
        /\ value' = newValue /\ UNCHANGED <<waitq, err>>
    BY <1>5 DEF ResetEnd, At, Goto
  <2>2. \A x \in Thread : TakeState(x)' = TakeState(x)
    BY <2>1, Facts DEF TakeState
  <2>3. Counting!Reset
    BY <2>1, <2>2, Facts, AskingFacts, Stays DEF Counting!Reset, states
  <2> QED BY <2>3 DEF CountStep, Counting!Next
<1>6. CASE ReleaseCount
  <2>1. /\ value < MaxValue /\ value' = value + 1 /\ waitq = <<>>
        /\ UNCHANGED <<pc, waitq, err>>
    BY <1>6 DEF ReleaseCount
  <2>2. UNCHANGED states
    BY <2>1, Stays DEF TakeState
  <2>3. Counting!Put
    BY <2>1, <2>2, AskingFacts DEF Counting!Put, states
  <2> QED BY <2>3 DEF CountStep, Counting!Next
<1>7. ASSUME NEW t \in Thread, ReleaseWake(t) \/ ResetWake(t) \/ DetachWake(t)
      PROVE  CountStep
  <2> DEFINE h == Head(waitq)
  <2>1. /\ h \in Thread /\ Linked(h, waitq) /\ waitq' = RemoveFirst(waitq, h)
        /\ \A x \in Thread : Linked(x, waitq) => pc'[x] = pc[x]
    BY <1>7, HeadInv
  <2>2. /\ value' = value
        /\ pc[t] \notin {"wait", "return"}
        /\ pc' = pc \/ \E s \in Place \ {"wait", "return"} : pc' = [pc EXCEPT ![t] = s]
        /\ err' \in {err, [err EXCEPT ![h] = "error"]}
    <3>1. CASE ReleaseWake(t)
      BY <3>1 DEF ReleaseWake, HandOver, Calls, At, Goto, Place
    <3>2. CASE ResetWake(t)
      BY <3>2 DEF ResetWake, CancelFirst, At, Goto, Place
    <3>3. CASE DetachWake(t)
      BY <3>3 DEF DetachWake, CancelFirst, At, Goto, Place
    <3> QED BY <1>7, <3>1, <3>2, <3>3
  <2> HIDE DEF h
  <2>3. \A x \in Thread : pc'[x] \in {"wait", "return"} <=> pc[x] \in {"wait", "return"}
    BY <2>2, Facts
  <2>4. /\ \A x \in Thread \ {h} : err'[x] = err[x]
        /\ err'[h] \in {"ok", "error"}
    BY <2>1, <2>2, Facts
  <2>5. /\ states[h] = "asking"
        /\ Counting!Become(h, IF err'[h] = "ok" THEN "granted" ELSE err'[h])
    BY <2>1, <2>3, <2>4, WokenBecomes
  <2>6. Counting!Grant(h) \/ Counting!Cancel(h)
    BY <2>2, <2>4, <2>5 DEF Counting!Grant, Counting!Cancel, states
  <2> QED BY <2>1, <2>6 DEF CountStep, Counting!Next
<1>8. CASE IsrWake
  <2> DEFINE h == Head(waitq)
  <2>1. /\ h \in Thread /\ Linked(h, waitq) /\ waitq' = RemoveFirst(waitq, h)
    BY <1>8, IsrWakeInv
  <2>2. UNCHANGED <<value, pc, err>>
    BY <1>8 DEF IsrWake, HandOver
  <2> HIDE DEF h
  <2>3. err'[h] = "ok"
    BY <2>1, <2>2, Facts
  <2>4. /\ states[h] = "asking"
        /\ Counting!Become(h, IF err'[h] = "ok" THEN "granted" ELSE err'[h])
    BY <2>1, <2>2, WokenBecomes
  <2>5. Counting!Grant(h)
    BY <2>2, <2>3, <2>4 DEF Counting!Grant, states
  <2> QED BY <2>1, <2>5 DEF CountStep, Counting!Next
<1>9. ASSUME NEW t \in Thread, TimerFire(t) PROVE CountStep
  <2>1. /\ Linked(t, waitq) /\ waitq' = RemoveFirst(waitq, t)
        /\ err' = [err EXCEPT ![t] = "timeout"] /\ UNCHANGED <<value, pc>>
    BY <1>9, TimerFireInv DEF TimerFire
  <2>2. err'[t] = "timeout" /\ \A x \in Thread \ {t} : err'[x] = err[x]
    BY <2>1, Facts
  <2>3. /\ states[t] = "asking"
        /\ Counting!Become(t, IF err'[t] = "ok" THEN "granted" ELSE err'[t])
    BY <2>1, <2>2, WokenBecomes
  <2>4. Counting!Expire(t)
    BY <2>1, <2>2, <2>3 DEF Counting!Expire, states
  <2> QED BY <2>4 DEF CountStep, Counting!Next
<1>10. CASE SliceOver
  BY <1>10, Hidden DEF SliceOver
<1>11. CASE UNCHANGED vars
  BY <1>11, Hidden DEF vars
<1>12. ASSUME NEW t \in Thread, ThreadCall(t) PROVE CountStep
  BY <1>1, <1>2, <1>3, <1>4, <1>5, <1>7, <1>12 DEF ThreadCall
<1> QED BY <1>6, <1>8, <1>9, <1>10, <1>11, <1>12 DEF Next

-----------------------------------------------------------------------------
(* Theorems *)

(* Every state has the right types. *)
THEOREM TypeCorrect == Spec => []TypeOK
<1>1. SemInv => TypeOK
  BY DEF SemInv
<1> QED BY <1>1, AlwaysInv, PTL

(* No wake-up is lost: in no order of takes, releases, time-outs, resets   *)
(* and detaches does a thread wait while a unit is free.                   *)
THEOREM NoLostUnit == Spec => []NoUnitWhileWaiting
<1>1. SemInv => NoUnitWhileWaiting
  BY DEF SemInv
<1> QED BY <1>1, AlwaysInv, PTL

(* Whatever comes between a take and its wake-up, priority changes         *)
(* included, the wait list links exactly the suspended threads, each once, *)
(* and only their timers are armed.                                        *)
THEOREM WaitListCorrect == Spec => []WaitListExact
<1>1. SemInv => WaitListExact
  <2> SUFFICES ASSUME SemInv PROVE WaitListExact
    OBVIOUS
  <2>1. Exact(k, pc, waitq, err)
    BY DEF SemInv
  <2>2. ASSUME NEW i \in 1 .. Len(waitq)
        PROVE  pc[waitq[i]] \in {"wait", "return"} /\ err[waitq[i]] = "ok"
    <3>1. Linked(waitq[i], waitq) /\ waitq[i] \in Thread
      BY <2>1, ElementOfSeq DEF Linked, Exact
    <3> QED BY <2>1, <3>1 DEF Exact
  <2> QED BY <2>1, <2>2 DEF WaitListExact, Exact
<1> QED BY <1>1, AlwaysInv, PTL

(* The wait list changes by the insertion of a newcomer or by the removal  *)
(* of one thread.                                                          *)
LEMMA StepWaits ==
    ASSUME SemInv, [Next]_vars
    PROVE  \/ waitq' = waitq
           \/ \E h \in Thread : waitq' = RemoveFirst(waitq, h)
           \/ \E t \in Thread : ~ Linked(t, waitq) /\ waitq' = WaitInsert(flag, waitq, t, k.prio)
<1>1. ASSUME NEW t \in Thread, ThreadCall(t),
             ~ ReleaseWake(t), ~ ResetWake(t), ~ DetachWake(t), ~ (t \in Takers /\ TakeWait(t))
      PROVE  waitq' = waitq
  BY <1>1 DEF ThreadCall, Start, TakeFree, TakeReturn, ResetBegin, ResetEnd, DetachBegin,
              DetachLook, DetachWild, SetPriority, CallSchedule
<1>2. ASSUME NEW t \in Thread, ReleaseWake(t) \/ ResetWake(t) \/ DetachWake(t)
      PROVE  \E h \in Thread : waitq' = RemoveFirst(waitq, h)
  BY <1>2, HeadInv
<1>3. ASSUME NEW t \in Takers, TakeWait(t)
      PROVE  /\ t \in Thread /\ ~ Linked(t, waitq)
             /\ waitq' = WaitInsert(flag, waitq, t, k.prio)
  <2>1. t \in Thread /\ At(t, "user") /\ waitq' = WaitInsert(flag, waitq, t, k.prio)
    BY <1>3, SemaphoreAssumption DEF TakeWait, Calls
  <2> QED BY <2>1, Running
<1>4. CASE IsrWake
  BY <1>4, IsrWakeInv
<1>5. ASSUME NEW t \in Thread, TimerFire(t) PROVE waitq' = RemoveFirst(waitq, t)
  BY <1>5 DEF TimerFire
<1>6. CASE ReleaseCount \/ SliceOver \/ UNCHANGED vars
  BY <1>6 DEF ReleaseCount, SliceOver, vars
<1> QED BY <1>1, <1>2, <1>3, <1>4, <1>5, <1>6 DEF Next

(* In order of priority, a newcomer goes where it belongs and whoever      *)
(* leaves the list leaves the others in order, as long as no priority is   *)
(* changed (_ipc_list_suspend).                                            *)
THEOREM OrderKept == Spec => WaitOrderKept
<1> DEFINE Kept == /\ flag = "PRIO" /\ InPrioOrder(waitq, k.prio)
                   /\ k'.prio = k.prio
                   => InPrioOrder(waitq', k'.prio)
<1>1. SemInv /\ [Next]_vars => Kept
  <2> SUFFICES ASSUME SemInv, [Next]_vars, flag = "PRIO", InPrioOrder(waitq, k.prio),
                      k'.prio = k.prio
               PROVE  InPrioOrder(waitq', k.prio)
    OBVIOUS
  <2>1. /\ waitq \in Seq(Thread) /\ LinkedOnce(waitq) /\ k.prio \in [Thread -> Prio]
        /\ flag \in Flag /\ SortedBy(waitq, k.prio)
    BY Facts, RunsType DEF SemInv, Exact, SortedBy, InPrioOrder
  <2>2. CASE waitq' = waitq
    BY <2>2
  <2>3. ASSUME NEW h \in Thread, waitq' = RemoveFirst(waitq, h)
        PROVE  InPrioOrder(waitq', k.prio)
    <3>1. SortedBy(RemoveFirst(waitq, h), k.prio)
      BY <2>1, RemoveSorted
    <3> QED BY <2>3, <3>1 DEF SortedBy, InPrioOrder
  <2>4. ASSUME NEW t \in Thread, ~ Linked(t, waitq),
               waitq' = WaitInsert(flag, waitq, t, k.prio)
        PROVE  InPrioOrder(waitq', k.prio)
    <3> DEFINE w1 == WaitInsert(flag, waitq, t, k.prio)
    <3>1. SortedBy(w1, k.prio)
      BY <2>1, <2>4, WaitInsertFacts
    <3> HIDE DEF w1
    <3>2. InPrioOrder(w1, k.prio)
      BY <3>1 DEF SortedBy, InPrioOrder
    <3> QED BY <2>4, <3>2 DEF w1
  <2> QED BY <2>2, <2>3, <2>4, StepWaits
<1>2. Spec => [][Kept]_vars
  <2>1. SemInv /\ [Next]_vars => [Kept]_vars
    BY <1>1
  <2> HIDE DEF Kept
  <2> QED BY <2>1, AlwaysInv, PTL DEF Spec
<1> QED BY <1>2 DEF WaitOrderKept

(* However many threads wait, whatever comes between two rounds of the     *)
(* loop of rt_sem_detach, at its end nobody waits any more.                *)
THEOREM DetachWakes == Spec => []DetachedWakesAll
<1>1. SemInv => DetachedWakesAll
  BY DEF SemInv
<1> QED BY <1>1, AlwaysInv, PTL

(* The semaphore implements CountingSemaphore, for any number of threads:  *)
(* a take that returns RT_EOK has consumed exactly one unit, any other one *)
(* none.                                                                   *)
THEOREM Counts == Spec => ImplementsCounting
<1>1. Init => Counting!Init
  <2> SUFFICES ASSUME Init PROVE Counting!Init
    OBVIOUS
  <2>1. \A t \in Thread : TakeState(t) = "idle"
    BY DEF Init, TakeState
  <2> QED BY <2>1, SemaphoreAssumption DEF Init, Counting!Init
<1>2. SemInv /\ [Next]_vars => [Counting!Next]_<<value, [t \in Thread |-> TakeState(t)]>>
  BY StepCounts DEF CountStep
<1> QED BY <1>1, <1>2, AlwaysInv, PTL DEF Spec, ImplementsCounting, Counting!Spec

=============================================================================
