---------------------------- MODULE SchedProofs ----------------------------
(***************************************************************************)
(* The ready table of Sched is exact in every reachable state, for any     *)
(* number of threads and priorities, provided that the threads which may   *)
(* be deleted never wait with a timer or for a wake-up and keep their      *)
(* priority.  (Section 6 of the README shows that the proviso is needed.)  *)
(***************************************************************************)
EXTENDS Sched, KernelProofs

VictimsApart == Victims \cap (Sleepers \cup Waiters \cup Reprio) = {}

(* The thread that is between the two critical sections of its deletion. *)
Deleting == IF pc[Manager] = "delete" THEN {victim} ELSE {}

(* What holds of the kernel state: the ready table is exact but for the    *)
(* threads of D, only sleeping threads have timers, no victim waits.       *)
KernelInv(kk, D) ==
    /\ Table(kk, D)
    /\ Single(kk)
    /\ kk.cur \notin D
    /\ \A t \in kk.armed : t \in Sleepers /\ kk.stat[t] = "suspend"
    /\ \A t \in Victims : kk.stat[t] # "suspend"

(* The inductive invariant. *)
SchedInv ==
    /\ TypeOK
    /\ KernelInv(k, Deleting)
    /\ Deleting \subseteq Victims
    /\ k.cur = NoThread => Deleting = {} /\ isr = "none"

-----------------------------------------------------------------------------
(* The kernel routines, as the actions use them *)

(* rt_schedule keeps the invariant of the kernel. *)
LEMMA ScheduleInv ==
    ASSUME NEW D, NEW kk, KernelInv(kk, D), kk.cur \in Thread
    PROVE  KernelInv(Schedule(kk), D) /\ Schedule(kk).cur \in Thread
<1> DEFINE k1 == Schedule(kk)
<1>1. Table(k1, D) /\ Single(k1) /\ Scheduled(kk, k1) /\ k1.cur \notin D
  BY ScheduleTable DEF KernelInv
<1>2. kk.armed \in SUBSET Thread
  BY Fields DEF KernelInv, Table
<1> HIDE DEF k1
<1>3. \A t \in k1.armed : t \in Sleepers /\ k1.stat[t] = "suspend"
  BY <1>1, <1>2 DEF KernelInv, Scheduled, Awake
<1>4. \A t \in Victims : k1.stat[t] # "suspend"
  BY <1>1, SchedAssumption DEF KernelInv, Scheduled, Awake
<1> QED BY <1>1, <1>3, <1>4 DEF KernelInv, Scheduled, k1

(* Any routine that changes one thread t, which ends awake or had the      *)
(* right to be suspended.                                                  *)
LEMMA RoutineInv ==
    ASSUME VictimsApart,
           NEW D, NEW kk, KernelInv(kk, D), NEW t \in Thread,
           NEW k1, Table(k1, D), Single(k1), SameOthers(kk, k1, t),
           \/ k1.stat[t] \in Awake /\ k1.armed = kk.armed \ {t}
           \/ k1.stat[t] = "suspend" /\ k1.armed = kk.armed \ {t} /\ t \in Waiters
           \/ k1.stat[t] = "suspend" /\ k1.armed = kk.armed \cup {t} /\ t \in Sleepers
           \/ k1.stat[t] = kk.stat[t] /\ k1.armed = kk.armed
    PROVE  KernelInv(k1, D)
<1>1. kk.armed \in SUBSET Thread
  BY Fields DEF KernelInv, Table
<1>2. \A x \in k1.armed : x \in Sleepers /\ k1.stat[x] = "suspend"
  BY <1>1 DEF KernelInv, SameOthers
<1>3. \A x \in Victims : k1.stat[x] # "suspend"
  BY SchedAssumption DEF KernelInv, SameOthers, VictimsApart, Awake
<1> QED BY <1>2, <1>3 DEF KernelInv, SameOthers

-----------------------------------------------------------------------------

(* Before the scheduler is started nothing is linked. *)
LEMMA InitInv == Init => SchedInv
<1> SUFFICES ASSUME Init PROVE SchedInv
  OBVIOUS
<1>1. /\ k \in KernelState /\ k.cur = NoThread /\ k.group = {} /\ k.armed = {}
      /\ \A t \in Thread : k.stat[t] = "init"
      /\ \A p \in Prio : k.rq[p] = <<>>
  BY SchedAssumption DEF Init, KernelState, Stat
<1>2. TypeOK
  <2>1. pc \in [Thread -> {"user", "sched", "delete"}] /\ victim = NoThread
    BY DEF Init
  <2>2. rem \in [Thread -> 1 .. Slice] /\ left \in [Thread -> 0 .. MaxSleep]
    BY SchedAssumption DEF Init
  <2>3. isr \in {"none", "tick", "gap", "check"} /\ late \in BOOLEAN
    BY DEF Init
  <2>4. defunct \in Seq(Thread)
    BY EmptySeq DEF Init
  <2>5. victim \in Thread \cup {NoThread}
    BY <2>1
  <2> QED BY <1>1, <2>1, <2>2, <2>3, <2>4, <2>5 DEF TypeOK
<1>3. Deleting = {}
  BY SchedAssumption DEF Init, Deleting
<1>4. \A p \in Prio : LinkedOnce(k.rq[p]) /\ \A t \in Thread : ~ Linked(t, k.rq[p])
  BY <1>1 DEF LinkedOnce, Linked
<1>5. Table(k, {}) /\ Single(k)
  BY <1>1, <1>4, KernelAssumption DEF Table, Single
<1>6. KernelInv(k, {})
  BY <1>1, <1>5, SchedAssumption DEF KernelInv
<1>7. isr = "none"
  BY DEF Init
<1> QED BY <1>2, <1>3, <1>6, <1>7 DEF SchedInv

(* What is left to show of a step that does not begin or end a deletion. *)
LEMMA StepInv ==
    ASSUME SchedInv, KernelInv(k', Deleting), k'.cur = k.cur \/ k'.cur \in Thread,
           pc' \in [Thread -> {"user", "sched", "delete"}],
           pc'[Manager] = "delete" <=> pc[Manager] = "delete",
           victim' = victim,
           isr' \in {"none", "tick", "gap", "check"},
           isr' # "none" => isr # "none" \/ k.cur \in Thread,
           rem' \in [Thread -> 1 .. Slice],
           left' \in [Thread -> 0 .. MaxSleep],
           defunct' \in Seq(Thread),
           late' \in BOOLEAN
    PROVE  SchedInv'
<1>1. Deleting' = Deleting
  BY DEF Deleting
<1>2. k' \in KernelState
  BY DEF KernelInv, Table
<1>3. TypeOK'
  BY <1>2 DEF SchedInv, TypeOK
<1>4. KernelInv(k, Deleting)'
  BY <1>1
<1>5. (Deleting \subseteq Victims)' /\ (k.cur = NoThread => Deleting = {} /\ isr = "none")'
  BY <1>1, KernelAssumption DEF SchedInv
<1> QED BY <1>3, <1>4, <1>5 DEF SchedInv

(* A thread in application code or with a rescheduling to do is not being  *)
(* deleted, and goes from one to the other.                                *)
LEMMA Moves ==
    ASSUME SchedInv, NEW t \in Thread, NEW from \in {"user", "sched"}, NEW to \in {"user", "sched"},
           pc[t] = from, pc' = [pc EXCEPT ![t] = to]
    PROVE  /\ pc' \in [Thread -> {"user", "sched", "delete"}]
           /\ pc'[Manager] = "delete" <=> pc[Manager] = "delete"
BY SchedAssumption DEF SchedInv, TypeOK

-----------------------------------------------------------------------------
(* The calls of the running thread *)

(* The calls of the running thread keep the invariant. *)
LEMMA CallInv ==
    ASSUME VictimsApart, SchedInv, NEW t \in Thread, ThreadCall(t)
    PROVE  SchedInv'
<1>1. TypeOK /\ KernelInv(k, Deleting) /\ k \in KernelState
  BY DEF SchedInv, TypeOK
<1>2. /\ Table(k, Deleting) /\ Single(k) /\ k.cur \notin Deleting
      /\ Deleting \subseteq Victims
  BY DEF SchedInv, KernelInv
<1>3. CASE CallSchedule(t)
  <2>1. KernelInv(k', Deleting) /\ k'.cur \in Thread
    BY <1>1, <1>3, ScheduleInv DEF CallSchedule, Reschedule
  <2>2. pc[t] = "sched" /\ pc' = [pc EXCEPT ![t] = "user"]
    BY <1>3 DEF CallSchedule
  <2>3. late' \in BOOLEAN
    BY <1>3 DEF CallSchedule, Reschedule
  <2> QED BY <1>1, <1>3, <2>1, <2>2, <2>3, Moves, StepInv DEF CallSchedule, TypeOK
<1>4. CASE Yield(t)
  <2> DEFINE k0 == [k EXCEPT !.yield = @ \cup {t}]
  <2>1. /\ k0 \in KernelState
        /\ k0.rq = k.rq /\ k0.group = k.group /\ k0.prio = k.prio /\ k0.stat = k.stat
        /\ k0.cur = k.cur /\ k0.lock = k.lock /\ k0.armed = k.armed
    BY <1>1 DEF KernelState
  <2>2. k0.cur \in Thread
    BY <1>4, <2>1 DEF Yield, InUser
  <2>3. k' = Schedule(k0) /\ late' \in BOOLEAN
    BY <1>4 DEF Yield, Reschedule
  <2> HIDE DEF k0
  <2>4. KernelInv(k0, Deleting)
    BY <1>1, <1>2, <2>1, SameTable DEF KernelInv, Single
  <2>5. KernelInv(k', Deleting) /\ k'.cur \in Thread
    BY <2>2, <2>3, <2>4, ScheduleInv
  <2>6. rem' \in [Thread -> 1 .. Slice]
    BY <1>1, <1>4, SchedAssumption DEF Yield, TypeOK
  <2> QED BY <1>1, <1>4, <2>3, <2>5, <2>6, StepInv DEF Yield, TypeOK
<1>5. ASSUME NEW d \in 1 .. MaxSleep, t \in Sleepers, Sleep(t, d)
      PROVE  SchedInv'
  <2>1. pc[t] = "user" /\ t = k.cur /\ k.stat[t] = "running"
    BY <1>5 DEF Sleep, InUser
  <2> DEFINE k0 == SuspendThread(k, t)
  <2>2. /\ Table(k0, Deleting) /\ Single(k0) /\ SameOthers(k, k0, t)
        /\ k0.stat[t] = "suspend" /\ k0.armed = k.armed \ {t}
    BY <1>2, <2>1, SuspendTable DEF Awake
  <2>3. k' = [k0 EXCEPT !.armed = @ \cup {t}]
    BY <1>5 DEF Sleep, StartThreadTimer
  <2> HIDE DEF k0
  <2>4. k0 \in KernelState
    BY <2>2 DEF Table
  <2>5. /\ k' \in KernelState
        /\ k'.rq = k0.rq /\ k'.group = k0.group /\ k'.prio = k0.prio /\ k'.stat = k0.stat
        /\ k'.cur = k0.cur /\ k'.lock = k0.lock /\ k'.armed = k.armed \cup {t}
    BY <2>2, <2>3, <2>4 DEF KernelState
  <2>6. Table(k', Deleting) /\ Single(k') /\ SameOthers(k, k', t)
    BY <2>2, <2>5, SameTable DEF Single, SameOthers
  <2>7. KernelInv(k', Deleting) /\ k'.cur = k.cur
    BY <1>1, <1>5, <2>2, <2>5, <2>6, RoutineInv DEF SameOthers
  <2>8. left' \in [Thread -> 0 .. MaxSleep]
    BY <1>1, <1>5 DEF Sleep, TypeOK
  <2>9. pc' = [pc EXCEPT ![t] = "sched"]
    BY <1>5 DEF Sleep, OwesSchedule
  <2> QED BY <1>1, <1>5, <2>1, <2>7, <2>8, <2>9, Moves, StepInv DEF Sleep, TypeOK
<1>6. CASE t \in Waiters /\ SuspendSelf(t)
  <2>1. /\ pc[t] = "user" /\ t = k.cur /\ k.stat[t] = "running"
        /\ k' = SuspendThread(k, t) /\ pc' = [pc EXCEPT ![t] = "sched"]
    BY <1>6 DEF SuspendSelf, InUser, OwesSchedule
  <2>2. /\ Table(k', Deleting) /\ Single(k') /\ SameOthers(k, k', t)
        /\ k'.stat[t] = "suspend" /\ k'.armed = k.armed \ {t}
    BY <1>2, <2>1, SuspendTable DEF Awake
  <2>3. KernelInv(k', Deleting) /\ k'.cur = k.cur
    BY <1>1, <1>6, <2>2, RoutineInv DEF SameOthers
  <2> QED BY <1>1, <1>6, <2>1, <2>3, Moves, StepInv DEF SuspendSelf, TypeOK
<1>7. ASSUME NEW x \in Waiters, Resume(t, x)
      PROVE  SchedInv'
  <2>1. /\ pc[t] = "user" /\ k.stat[x] = "suspend"
        /\ k' = ResumeThread(k, x) /\ pc' = [pc EXCEPT ![t] = "sched"]
    BY <1>7 DEF Resume, InUser, OwesSchedule
  <2>2. x \in Thread \ Deleting
    BY <1>2, SchedAssumption DEF VictimsApart
  <2>3. /\ Table(k', Deleting) /\ Single(k') /\ SameOthers(k, k', x)
        /\ k'.stat[x] \in Awake /\ k'.armed = k.armed \ {x}
    BY <1>2, <2>1, <2>2, ResumeTable
  <2>4. KernelInv(k', Deleting) /\ k'.cur = k.cur
    BY <1>1, <2>2, <2>3, RoutineInv DEF SameOthers
  <2> QED BY <1>1, <1>7, <2>1, <2>4, Moves, StepInv DEF Resume, TypeOK
<1>8. ASSUME NEW n \in Nat, k' = [k EXCEPT !.lock = n]
      PROVE  KernelInv(k', Deleting) /\ k'.cur = k.cur
  <2>1. /\ k' \in KernelState
        /\ k'.rq = k.rq /\ k'.group = k.group /\ k'.prio = k.prio /\ k'.stat = k.stat
        /\ k'.cur = k.cur /\ k'.armed = k.armed
    BY <1>1, <1>8 DEF KernelState
  <2>2. Table(k', Deleting)
    BY <1>2, <2>1, SameTable
  <2> QED BY <1>1, <2>1, <2>2 DEF KernelInv, Single
<1>9. CASE EnterCritical(t)
  <2>1. k.lock + 1 \in Nat /\ k' = [k EXCEPT !.lock = k.lock + 1]
    BY <1>1, <1>9, Fields DEF EnterCritical
  <2>2. KernelInv(k', Deleting) /\ k'.cur = k.cur
    BY <1>8, <2>1
  <2> QED BY <1>1, <1>9, <2>2, StepInv DEF EnterCritical, TypeOK
<1>10. CASE ExitCritical(t)
  <2> DEFINE nest == IF k.lock <= 1 THEN 0 ELSE k.lock - 1
  <2>1. /\ pc[t] = "user" /\ k' = [k EXCEPT !.lock = nest]
        /\ pc' = IF nest = 0 THEN [pc EXCEPT ![t] = "sched"] ELSE pc
    BY <1>10 DEF ExitCritical, InUser
  <2>2. nest \in Nat
    BY <1>1, Fields
  <2> HIDE DEF nest
  <2>3. KernelInv(k', Deleting) /\ k'.cur = k.cur
    BY <1>8, <2>1, <2>2
  <2>4. /\ pc' \in [Thread -> {"user", "sched", "delete"}]
        /\ pc'[Manager] = "delete" <=> pc[Manager] = "delete"
    BY <1>1, <2>1, Moves DEF TypeOK
  <2> QED BY <1>1, <1>10, <2>3, <2>4, StepInv DEF ExitCritical, TypeOK
<1>11. ASSUME NEW x \in Reprio, NEW p \in NewPrio, SetPriority(t, x, p)
       PROVE  SchedInv'
  <2>1. x \in Thread \ Deleting /\ p \in Prio
    BY <1>2, SchedAssumption DEF VictimsApart
  <2> DEFINE k1 == ChangePriority(k, x, p)
  <2>2. /\ Table(k1, Deleting) /\ Single(k1) /\ SameOthers(k, k1, x)
        /\ k1.stat = k.stat /\ k1.armed = k.armed
    BY <1>2, <2>1, ChangePriorityTable
  <2>b. k' = k1
    BY <1>11 DEF SetPriority
  <2> HIDE DEF k1
  <2>3. /\ Table(k', Deleting) /\ Single(k') /\ SameOthers(k, k', x)
        /\ k'.stat = k.stat /\ k'.armed = k.armed
    BY <2>2, <2>b
  <2>4. KernelInv(k', Deleting) /\ k'.cur = k.cur
    BY <1>1, <2>1, <2>3, RoutineInv DEF SameOthers
  <2> QED BY <1>1, <1>11, <2>4, StepInv DEF SetPriority, TypeOK
<1>12. CASE t \in Quitters /\ Exit(t)
  <2> DEFINE k0 == RemoveThread(k, t)
  <2>1. /\ pc[t] = "user" /\ t = k.cur /\ pc' = [pc EXCEPT ![t] = "sched"]
        /\ k' = [k0 EXCEPT !.stat[t] = "close", !.armed = @ \ {t}]
    BY <1>12 DEF Exit, InUser, OwesSchedule
  <2>2. /\ Table(k0, Deleting \cup {t})
        /\ \A p \in Prio : ~ Linked(t, k0.rq[p])
        /\ k0.cur = k.cur /\ k0.stat = k.stat /\ k0.prio = k.prio
        /\ k0.lock = k.lock /\ k0.armed = k.armed
    BY <1>2, RemoveTable
  <2> HIDE DEF k0
  <2>3. k0 \in KernelState
    BY <2>2 DEF Table
  <2>4. /\ k' \in KernelState
        /\ k'.rq = k0.rq /\ k'.group = k0.group /\ k'.prio = k0.prio
        /\ k'.cur = k.cur /\ k'.lock = k.lock /\ k'.armed = k.armed \ {t}
        /\ k'.stat = [k0.stat EXCEPT ![t] = "close"]
    BY <2>1, <2>2, <2>3 DEF KernelState, Stat
  <2>5. Table(k', Deleting)
    <3>1. Table(k', (Deleting \cup {t}) \ {t})
      BY <2>2, <2>4, SettleTable DEF Stat
    <3>2. (Deleting \cup {t}) \ {t} = Deleting
      BY <1>2, <2>1
    <3> QED BY <3>1, <3>2
  <2>6. \A x \in Thread : k'.stat[x] = IF x = t THEN "close" ELSE k.stat[x]
    BY <1>1, <2>2, <2>4, Fields
  <2>7. KernelInv(k', Deleting) /\ k'.cur = k.cur
    <3>1. k.armed \in SUBSET Thread
      BY <1>1, Fields
    <3>2. \A x \in k'.armed : x \in Sleepers /\ k'.stat[x] = "suspend"
      BY <1>1, <2>4, <2>6, <3>1 DEF KernelInv
    <3>3. \A x \in Victims : k'.stat[x] # "suspend"
      BY <1>1, <2>6, SchedAssumption DEF KernelInv
    <3>4. Single(k')
      BY <1>2, <2>1, <2>4, <2>6 DEF Single
    <3> QED BY <1>2, <2>4, <2>5, <3>2, <3>3, <3>4 DEF KernelInv
  <2>8. defunct' \in Seq(Thread)
    <3>1. <<t>> \in Seq(Thread) /\ defunct \in Seq(Thread)
      BY <1>1 DEF TypeOK
    <3>2. <<t>> \o defunct \in Seq(Thread)
      BY <3>1, ConcatProperties
    <3> QED BY <1>12, <3>2 DEF Exit
  <2> QED BY <1>1, <1>12, <2>1, <2>7, <2>8, Moves, StepInv DEF Exit, TypeOK
<1> QED
  BY <1>3, <1>4, <1>5, <1>6, <1>7, <1>9, <1>10, <1>11, <1>12 DEF ThreadCall

-----------------------------------------------------------------------------
(* Start-up, deletion and the idle thread *)

(* Start-up, deletion and the work of the idle thread keep the invariant. *)
LEMMA LifetimeInv ==
    ASSUME VictimsApart, SchedInv, Lifetime
    PROVE  SchedInv'
<1>1. TypeOK /\ KernelInv(k, Deleting) /\ k \in KernelState
  BY DEF SchedInv, TypeOK
<1>2. /\ Table(k, Deleting) /\ Single(k) /\ k.cur \notin Deleting
      /\ Deleting \subseteq Victims
  BY DEF SchedInv, KernelInv
<1>3. ASSUME NEW x \in Thread \ Deleting, k.stat[x] = "init", k' = StartUp(x)
      PROVE  KernelInv(k', Deleting) /\ k'.cur = k.cur
  <2> DEFINE k1 == ResumeThread([k EXCEPT !.stat[x] = "suspend"], x)
  <2>1. /\ Table(k1, Deleting) /\ Single(k1) /\ SameOthers(k, k1, x)
        /\ k1.stat[x] \in Awake /\ k1.armed = k.armed \ {x}
    BY <1>2, <1>3, StartTable
  <2>2. k' = k1
    BY <1>3 DEF StartUp
  <2> HIDE DEF k1
  <2> QED BY <1>1, <2>1, <2>2, RoutineInv DEF SameOthers
<1>4. ASSUME NEW x \in Thread, Boot(x)
      PROVE  SchedInv'
  <2>1. Deleting = {}
    BY <1>4 DEF Boot, SchedInv
  <2>2. KernelInv(k', Deleting) /\ k'.cur = k.cur
    BY <1>3, <1>4, <2>1 DEF Boot
  <2> QED BY <1>1, <1>4, <2>2, StepInv DEF Boot, TypeOK
<1>5. ASSUME NEW x \in Thread, Create(x)
      PROVE  SchedInv'
  <2>1. Deleting = {} /\ pc[Manager] = "user" /\ pc' = [pc EXCEPT ![Manager] = "sched"]
    BY <1>5 DEF Create, InUser, OwesSchedule, Deleting
  <2>2. KernelInv(k', Deleting) /\ k'.cur = k.cur
    BY <1>3, <1>5, <2>1 DEF Create
  <2> QED BY <1>1, <1>5, <2>1, <2>2, Moves, StepInv, SchedAssumption DEF Create, TypeOK
<1>6. CASE StartScheduler
  <2> DEFINE to == Head(k.rq[HighestReady(k)])
             km == [k EXCEPT !.cur = to]
             k0 == RemoveThread(km, to)
             k1 == [k0 EXCEPT !.stat[to] = "running"]
  <2>1. Deleting = {}
    BY <1>6 DEF StartScheduler, SchedInv
  <2>2. k.group # {}
    <3>1. Linked(Idle, k.rq[k.prio[Idle]])
      BY <1>2, <1>6, <2>1, SchedAssumption DEF Table, StartScheduler
    <3>2. k.prio[Idle] \in Prio /\ k.rq[k.prio[Idle]] # <<>>
      BY <1>1, <3>1, Fields, SchedAssumption DEF Linked
    <3> QED BY <1>2, <3>2 DEF Table
  <2>3. to \in Thread /\ k.stat[to] = "ready"
    BY <1>2, <2>2, HighestFacts
  <2>4. k' = k1
    BY <1>6 DEF StartScheduler
  <2> HIDE DEF to
  <2>5. /\ km \in KernelState
        /\ km.rq = k.rq /\ km.group = k.group /\ km.prio = k.prio /\ km.stat = k.stat
        /\ km.cur = to /\ km.lock = k.lock /\ km.armed = k.armed
    BY <1>1, <2>3 DEF KernelState
  <2> HIDE DEF km
  <2>6. Table(km, Deleting)
    BY <1>2, <2>5, SameTable
  <2>7. /\ Table(k0, Deleting \cup {to})
        /\ \A p \in Prio : ~ Linked(to, k0.rq[p])
        /\ k0.cur = to /\ k0.stat = k.stat /\ k0.prio = k.prio
        /\ k0.lock = k.lock /\ k0.armed = k.armed
    <3>1. /\ Table(k0, Deleting \cup {to})
          /\ \A p \in Prio : ~ Linked(to, k0.rq[p])
          /\ k0.cur = km.cur /\ k0.stat = km.stat /\ k0.prio = km.prio
          /\ k0.lock = km.lock /\ k0.armed = km.armed
      BY <2>3, <2>6, RemoveTable
    <3>2. /\ km.cur = to /\ km.stat = k.stat /\ km.prio = k.prio
          /\ km.lock = k.lock /\ km.armed = k.armed
      BY <2>5
    <3> HIDE DEF k0, k1
    <3> QED BY ONLY <3>1, <3>2
  <2> HIDE DEF k0
  <2>8. k0 \in KernelState
    BY <2>7 DEF Table
  <2>9. /\ k1 \in KernelState
        /\ k1.rq = k0.rq /\ k1.group = k0.group /\ k1.prio = k0.prio
        /\ k1.cur = to /\ k1.armed = k.armed
        /\ k1.stat = [k0.stat EXCEPT ![to] = "running"]
    BY <2>7, <2>8 DEF KernelState, Stat
  <2>10. Table(k1, {})
    <3> HIDE DEF k1
    <3>1. Table(k1, (Deleting \cup {to}) \ {to})
      BY <2>3, <2>7, <2>9, SettleTable DEF Stat
    <3>2. (Deleting \cup {to}) \ {to} = {}
      BY <2>1
    <3> QED BY <3>1, <3>2
  <2>11. \A x \in Thread : k1.stat[x] = IF x = to THEN "running" ELSE k.stat[x]
    BY <1>1, <2>7, <2>9, Fields
  <2>12. k.cur = NoThread
    BY <1>6 DEF StartScheduler
  <2> HIDE DEF k1
  <2>13. Single(k1)
    BY <1>2, <2>3, <2>9, <2>11, <2>12, KernelAssumption DEF Single
  <2>14. KernelInv(k1, {})
    <3>1. k.armed \in SUBSET Thread
      BY <1>1, Fields
    <3>2. \A x \in k1.armed : x \in Sleepers /\ k1.stat[x] = "suspend"
      BY <1>1, <2>3, <2>9, <2>11, <3>1 DEF KernelInv
    <3>3. \A x \in Victims : k1.stat[x] # "suspend"
      BY <1>1, <2>11, SchedAssumption DEF KernelInv
    <3> QED BY <2>10, <2>13, <3>2, <3>3 DEF KernelInv
  <2> QED BY <1>1, <1>6, <2>1, <2>3, <2>4, <2>9, <2>14, StepInv DEF StartScheduler, TypeOK
<1>7. ASSUME NEW x \in Victims, DeleteRemove(x)
      PROVE  SchedInv'
  <2>1. /\ pc[Manager] = "user" /\ k.cur = Manager /\ x # Manager
        /\ pc' = [pc EXCEPT ![Manager] = "delete"] /\ victim' = x
    BY <1>7 DEF DeleteRemove, InUser
  <2>2. Deleting = {} /\ Deleting' = {x} /\ x \in Thread
    BY <1>1, <2>1, SchedAssumption DEF Deleting, TypeOK
  <2>3. ASSUME k.stat[x] = "init" PROVE KernelInv(k', {x}) /\ k'.cur = k.cur
    <3>1. k' = k
      BY <1>7, <2>3 DEF DeleteRemove
    <3>2. Table(k, {x})
      <4>1. \A p \in Prio : ~ Linked(x, k.rq[p])
        BY <1>2, <2>2, <2>3, NotLinked
      <4> QED BY <1>2, <2>2, <4>1 DEF Table
    <3> QED BY <1>1, <2>1, <3>1, <3>2 DEF KernelInv
  <2>4. ASSUME k.stat[x] # "init" PROVE KernelInv(k', {x}) /\ k'.cur = k.cur
    <3> DEFINE k0 == RemoveThread(k, x)
    <3>1. /\ Table(k0, Deleting \cup {x})
          /\ k0.cur = k.cur /\ k0.stat = k.stat /\ k0.prio = k.prio
          /\ k0.lock = k.lock /\ k0.armed = k.armed
      BY <1>2, <2>2, RemoveTable
    <3>2. k' = k0
      BY <1>7, <2>4 DEF DeleteRemove
    <3> HIDE DEF k0
    <3>3. Deleting \cup {x} = {x}
      BY <2>2
    <3>4. Table(k0, {x})
      BY <3>1, <3>3
    <3>5. Single(k0)
      BY <1>2, <3>1 DEF Single
    <3>6. k0.cur \notin {x}
      BY <2>1, <3>1
    <3>7. \A y \in k0.armed : y \in Sleepers /\ k0.stat[y] = "suspend"
      BY <1>1, <3>1 DEF KernelInv
    <3>8. \A y \in Victims : k0.stat[y] # "suspend"
      BY <1>1, <3>1 DEF KernelInv
    <3> QED BY <3>1, <3>2, <3>4, <3>5, <3>6, <3>7, <3>8 DEF KernelInv
  <2>5. KernelInv(k', {x}) /\ k'.cur = k.cur
    BY <2>3, <2>4
  <2>6. KernelInv(k, Deleting)' /\ (k.cur = NoThread => Deleting = {} /\ isr = "none")'
    BY <2>1, <2>2, <2>5, SchedAssumption, KernelAssumption
  <2>7. TypeOK'
    <3>1. k' \in KernelState
      BY <2>5 DEF KernelInv, Table
    <3>2. pc' \in [Thread -> {"user", "sched", "delete"}]
      BY <1>1, <2>1 DEF TypeOK
    <3> QED BY <1>1, <1>7, <2>1, <2>2, <3>1, <3>2 DEF DeleteRemove, TypeOK
  <2> QED BY <2>2, <2>6, <2>7 DEF SchedInv
<1>8. CASE DeleteClose
  <2>1. /\ pc[Manager] = "delete" /\ k.cur = Manager /\ victim' = NoThread
        /\ \E next \in {"user", "sched"} : pc' = [pc EXCEPT ![Manager] = next]
        /\ k' = [k EXCEPT !.stat[victim] = "close", !.armed = @ \ {victim}]
    BY <1>8 DEF DeleteClose
  <2>2. Deleting = {victim} /\ victim \in Victims /\ victim \in Thread /\ victim # Manager
    BY <1>2, <2>1, SchedAssumption DEF Deleting
  <2>3. pc' \in [Thread -> {"user", "sched", "delete"}] /\ pc'[Manager] # "delete"
    BY <1>1, <2>1, SchedAssumption DEF TypeOK
  <2>4. Deleting' = {}
    BY <2>3 DEF Deleting
  <2>5. /\ k' \in KernelState
        /\ k'.rq = k.rq /\ k'.group = k.group /\ k'.prio = k.prio
        /\ k'.cur = k.cur /\ k'.armed = k.armed \ {victim}
        /\ k'.stat = [k.stat EXCEPT ![victim] = "close"]
    BY <1>1, <2>1, <2>2 DEF KernelState, Stat
  <2>6. Table(k', {})
    <3>1. \A p \in Prio : ~ Linked(victim, k.rq[p])
      BY <1>2, <2>2 DEF Table
    <3>2. Table(k', Deleting \ {victim})
      BY <1>2, <2>2, <2>5, <3>1, SettleTable DEF Stat
    <3>3. Deleting \ {victim} = {}
      BY <2>2
    <3> QED BY <3>2, <3>3
  <2>7. \A x \in Thread : k'.stat[x] = IF x = victim THEN "close" ELSE k.stat[x]
    BY <1>1, <2>5, Fields
  <2>8. KernelInv(k', {})
    <3>1. k.armed \in SUBSET Thread
      BY <1>1, Fields
    <3>2. \A x \in k'.armed : x \in Sleepers /\ k'.stat[x] = "suspend"
      BY <1>1, <2>5, <2>7, <3>1 DEF KernelInv
    <3>3. \A x \in Victims : k'.stat[x] # "suspend"
      BY <1>1, <2>7, SchedAssumption DEF KernelInv
    <3>4. Single(k')
      BY <1>2, <2>1, <2>2, <2>5, <2>7 DEF Single
    <3> QED BY <2>6, <3>2, <3>3, <3>4 DEF KernelInv
  <2>9. defunct' \in Seq(Thread)
    <3>1. <<victim>> \in Seq(Thread) /\ defunct \in Seq(Thread)
      BY <1>1, <2>2 DEF TypeOK
    <3>2. <<victim>> \o defunct \in Seq(Thread)
      BY <3>1, ConcatProperties
    <3> QED BY <1>8, <3>2 DEF DeleteClose
  <2>10. TypeOK'
    BY <1>1, <1>8, <2>1, <2>3, <2>5, <2>9 DEF DeleteClose, TypeOK
  <2>11. KernelInv(k, Deleting)'
    BY <2>4, <2>8
  <2>12. isr' = "none"
    BY <1>8 DEF DeleteClose
  <2> QED BY <2>4, <2>10, <2>11, <2>12 DEF SchedInv
<1>9. CASE Reap
  <2>1. defunct' \in Seq(Thread)
    BY <1>1, <1>9, HeadTailProperties DEF Reap, TypeOK
  <2> QED BY <1>1, <1>9, <2>1, StepInv DEF Reap, TypeOK
<1> QED
  BY <1>4, <1>5, <1>6, <1>7, <1>8, <1>9 DEF Lifetime

-----------------------------------------------------------------------------
(* Interrupts *)

(* The tick and the other handlers keep the invariant. *)
LEMMA InterruptInv ==
    ASSUME VictimsApart, SchedInv, Interrupt
    PROVE  SchedInv'
<1>1. TypeOK /\ KernelInv(k, Deleting) /\ k \in KernelState
  BY DEF SchedInv, TypeOK
<1>2. /\ Table(k, Deleting) /\ Single(k) /\ k.cur \notin Deleting
      /\ Deleting \subseteq Victims
  BY DEF SchedInv, KernelInv
<1>3. ASSUME NEW x \in Waiters, IsrResume(x)
      PROVE  SchedInv'
  <2> DEFINE k1 == ResumeThread(k, x)
  <2>1. x \in Thread \ Deleting
    BY <1>2, SchedAssumption DEF VictimsApart
  <2>2. k.stat[x] = "suspend" /\ k.cur \in Thread /\ k' = Schedule(k1) /\ late' \in BOOLEAN
    BY <1>1, <1>3, Fields DEF IsrResume, Reschedule
  <2>3. /\ Table(k1, Deleting) /\ Single(k1) /\ SameOthers(k, k1, x)
        /\ k1.stat[x] \in Awake /\ k1.armed = k.armed \ {x}
    BY <1>2, <2>1, <2>2, ResumeTable
  <2> HIDE DEF k1
  <2>4. KernelInv(k1, Deleting) /\ k1.cur \in Thread
    BY <1>1, <2>1, <2>2, <2>3, RoutineInv DEF SameOthers
  <2>5. KernelInv(k', Deleting) /\ k'.cur \in Thread
    BY <2>2, <2>4, ScheduleInv
  <2> QED BY <1>1, <1>3, <2>2, <2>5, StepInv DEF IsrResume, TypeOK
<1>4. CASE Tick
  <2>1. k.cur \in Thread
    BY <1>1, <1>4, Fields DEF Tick
  <2>2. KernelInv(k', Deleting) /\ k'.cur \in Thread
    <3>1. CASE rem[k.cur] = 1
      <4>1. /\ k' \in KernelState
            /\ k'.rq = k.rq /\ k'.group = k.group /\ k'.prio = k.prio /\ k'.stat = k.stat
            /\ k'.cur = k.cur /\ k'.lock = k.lock /\ k'.armed = k.armed
        BY <1>1, <1>4, <2>1, <3>1 DEF Tick, KernelState
      <4> QED BY <1>1, <1>2, <2>1, <4>1, SameTable DEF KernelInv, Single
    <3>2. CASE rem[k.cur] # 1
      BY <1>1, <1>4, <2>1, <3>2 DEF Tick
    <3> QED BY <3>1, <3>2
  <2>3. rem' \in [Thread -> 1 .. Slice]
    <3>1. rem \in [Thread -> 1 .. Slice] /\ Slice \in 1 .. Slice
      BY <1>1, SchedAssumption DEF TypeOK
    <3>2. CASE rem[k.cur] = 1
      BY <1>4, <3>1, <3>2 DEF Tick
    <3>3. CASE rem[k.cur] # 1
      <4>1. rem[k.cur] - 1 \in 1 .. Slice
        BY <2>1, <3>1, <3>3, SchedAssumption
      <4> QED BY <1>4, <3>1, <3>3, <4>1 DEF Tick
    <3> QED BY <3>2, <3>3
  <2>4. left' \in [Thread -> 0 .. MaxSleep]
    <3>1. left \in [Thread -> 0 .. MaxSleep]
      BY <1>1 DEF TypeOK
    <3> QED BY <1>4, <3>1, SchedAssumption DEF Tick
  <2>5. UNCHANGED <<pc, victim, defunct, late>> /\ isr' \in {"tick", "gap"}
    BY <1>4 DEF Tick
  <2>6. /\ pc \in [Thread -> {"user", "sched", "delete"}]
        /\ defunct \in Seq(Thread) /\ late \in BOOLEAN
    BY <1>1 DEF TypeOK
  <2>7. /\ pc' \in [Thread -> {"user", "sched", "delete"}]
        /\ pc'[Manager] = "delete" <=> pc[Manager] = "delete"
        /\ defunct' \in Seq(Thread) /\ victim' = victim /\ late' \in BOOLEAN
    BY <2>5, <2>6
  <2> QED BY <2>1, <2>2, <2>3, <2>4, <2>5, <2>7, StepInv
<1>7. CASE TickSchedule
  <2>1. isr # "none" /\ k.cur \in Thread
    BY <1>1, <1>7, Fields DEF TickSchedule, SchedInv
  <2>2. k' = Schedule(k) /\ late' \in BOOLEAN
    BY <1>7 DEF TickSchedule, Reschedule
  <2>3. KernelInv(k', Deleting) /\ k'.cur \in Thread
    BY <1>1, <2>1, <2>2, ScheduleInv
  <2> QED BY <1>1, <1>7, <2>1, <2>2, <2>3, StepInv DEF TickSchedule, TypeOK
<1>5. CASE TimerCheckBegin \/ TimerCheckEnd
  BY <1>1, <1>5, StepInv DEF TimerCheckBegin, TimerCheckEnd, TypeOK
<1>6. ASSUME NEW t \in Thread, TimerFire(t)
      PROVE  SchedInv'
  <2> DEFINE k1 == InsertThread([k EXCEPT !.armed = @ \ {t}], t)
  <2>1. k.stat[t] = "suspend" /\ t \in Thread \ Deleting
    BY <1>1, <1>2, <1>6 DEF TimerFire, KernelInv, VictimsApart
  <2>2. k' = Schedule(k1) /\ late' \in BOOLEAN
    BY <1>6 DEF TimerFire, Reschedule, TimeoutThread
  <2>3. /\ Table(k1, Deleting) /\ Single(k1) /\ SameOthers(k, k1, t)
        /\ k1.stat[t] \in Awake /\ k1.armed = k.armed \ {t}
    BY <1>2, <2>1, WakeTable
  <2> HIDE DEF k1
  <2>4. KernelInv(k1, Deleting)
    BY <1>1, <2>1, <2>3, RoutineInv
  <2>5. k1.cur \in Thread
    BY <1>1, <1>6, <2>3, Fields DEF SchedInv, TimerFire, SameOthers
  <2>6. KernelInv(k', Deleting) /\ k'.cur \in Thread
    BY <2>2, <2>4, <2>5, ScheduleInv
  <2> QED BY <1>1, <1>6, <2>2, <2>6, StepInv DEF TimerFire, TypeOK
<1> QED
  BY <1>3, <1>4, <1>5, <1>6, <1>7 DEF Interrupt

-----------------------------------------------------------------------------
(* Who runs *)

(* Nothing is locked before the start, the idle thread can always run, and *)
(* unless a rescheduling is due the current thread has the highest         *)
(* priority.                                                               *)
Ranked ==
    /\ k.cur = NoThread => k.lock = 0
    /\ k.cur # NoThread => k.stat[Idle] \in Awake
    /\ k.cur # NoThread /\ k.lock = 0 /\ ~ late /\ pc[k.cur] # "sched" => Top(k, Deleting)

(* The step keeps Ranked, the processor if the scheduler is locked, and    *)
(* the turn of a thread it preempts.                                       *)
RankedStep ==
    /\ Ranked'
    /\ k.lock > 0 => k'.cur = k.cur
    /\ k.cur \in Thread => PreemptedFirst(k, k')

(* Every step that calls rt_schedule on k1, a state with the same current  *)
(* thread.                                                                 *)
LEMMA RescheduleRanked ==
    ASSUME SchedInv, Ranked,
           NEW k1, Table(k1, Deleting), Single(k1),
           k.cur \in Thread, k1.cur = k.cur, k1.lock = k.lock, k1.stat[Idle] \in Awake,
           Reschedule(k1), Deleting' = Deleting
    PROVE  RankedStep
<1>1. k1.cur \in Thread \ Deleting
  BY DEF SchedInv, KernelInv
<1>2. k' = Schedule(k1) /\ late' = (late /\ k1.lock # 0)
  BY DEF Reschedule
<1>3. Scheduled(k1, k') /\ Idle \in Thread
  BY <1>1, <1>2, ScheduleTable, SchedAssumption
<1>4. k'.cur \in Thread /\ k'.lock = k.lock /\ k'.stat[Idle] \in Awake
  BY <1>3 DEF Scheduled
<1>5. k.lock = 0 => Top(k', Deleting)
  BY <1>1, <1>2, ScheduleTop
<1>6. k.lock > 0 => k'.cur = k.cur
  <2>1. k.lock > 0 => k1.lock # 0
    BY Fields DEF SchedInv, TypeOK
  <2> QED BY <1>2, <2>1 DEF Schedule
<1>7. PreemptedFirst(k1, k')
  BY <1>1, <1>2, ScheduleFirst
<1> QED BY <1>4, <1>5, <1>6, <1>7, KernelAssumption DEF Ranked, RankedStep, PreemptedFirst

(* Every step of the current thread after which it has rt_schedule still   *)
(* to call, or that locks the scheduler or is not settled: nothing is      *)
(* claimed until then.                                                     *)
LEMMA OwingRanked ==
    ASSUME SchedInv, Ranked, k.cur \in Thread, k'.cur = k.cur, k'.stat[Idle] \in Awake,
           k'.lock # 0 \/ late' \/ pc'[k.cur] = "sched"
    PROVE  RankedStep
BY KernelAssumption DEF Ranked, RankedStep, PreemptedFirst

(* The calls of the running thread. *)
LEMMA CallRanked ==
    ASSUME VictimsApart, SchedInv, Ranked, NEW t \in Thread, ThreadCall(t)
    PROVE  RankedStep
<1>1. /\ k \in KernelState /\ pc \in [Thread -> {"user", "sched", "delete"}]
      /\ Table(k, Deleting) /\ Single(k) /\ k.cur \notin Deleting
      /\ Deleting \subseteq Victims
  BY DEF SchedInv, KernelInv, TypeOK
<1>2. k.cur = t => k.cur \in Thread /\ k.stat[Idle] \in Awake /\ Idle \in Thread
  BY SchedAssumption, KernelAssumption DEF Ranked
<1>3. CASE CallSchedule(t)
  <2>1. k.cur = t /\ pc[t] = "sched" /\ pc' = [pc EXCEPT ![t] = "user"] /\ victim' = victim
    BY <1>3 DEF CallSchedule
  <2>2. Deleting' = Deleting
    BY <1>1, <2>1, Moves DEF Deleting
  <2> QED BY <1>1, <1>2, <1>3, <2>1, <2>2, RescheduleRanked DEF CallSchedule
<1>4. CASE Yield(t)
  <2> DEFINE k0 == [k EXCEPT !.yield = @ \cup {t}]
  <2>1. /\ k0 \in KernelState
        /\ k0.rq = k.rq /\ k0.group = k.group /\ k0.prio = k.prio /\ k0.stat = k.stat
        /\ k0.cur = k.cur /\ k0.lock = k.lock /\ k0.armed = k.armed
    BY <1>1 DEF KernelState
  <2>2. Reschedule(k0) /\ k.cur = t /\ Deleting' = Deleting
    BY <1>4 DEF Yield, InUser, Deleting
  <2> HIDE DEF k0
  <2>3. Table(k0, Deleting) /\ Single(k0)
    BY <1>1, <2>1, SameTable DEF Single
  <2> QED BY <1>2, <2>1, <2>2, <2>3, RescheduleRanked
<1>5. ASSUME NEW d \in 1 .. MaxSleep, t \in Sleepers, Sleep(t, d)
      PROVE  RankedStep
  <2>1. /\ t = k.cur /\ k.stat[t] = "running" /\ pc' = [pc EXCEPT ![t] = "sched"]
        /\ k' = StartThreadTimer(SuspendThread(k, t), t)
    BY <1>5 DEF Sleep, InUser, OwesSchedule
  <2> DEFINE k0 == SuspendThread(k, t)
  <2>2. Table(k0, Deleting) /\ SameOthers(k, k0, t)
    BY <1>1, <2>1, SuspendTable DEF Awake
  <2>3. k' = [k0 EXCEPT !.armed = @ \cup {t}]
    BY <2>1 DEF StartThreadTimer
  <2> HIDE DEF k0
  <2>4. k'.cur = k0.cur /\ k'.stat = k0.stat
    BY <2>2, <2>3 DEF Table, KernelState
  <2>5. Idle # t
    BY <1>5, SchedAssumption
  <2> QED BY <1>1, <1>2, <2>1, <2>2, <2>4, <2>5, OwingRanked DEF SameOthers
<1>6. CASE t \in Waiters /\ SuspendSelf(t)
  <2>1. /\ t = k.cur /\ k.stat[t] = "running" /\ pc' = [pc EXCEPT ![t] = "sched"]
        /\ k' = SuspendThread(k, t)
    BY <1>6 DEF SuspendSelf, InUser, OwesSchedule
  <2>2. SameOthers(k, k', t)
    BY <1>1, <2>1, SuspendTable DEF Awake
  <2>3. Idle # t
    BY <1>6, SchedAssumption
  <2> QED BY <1>1, <1>2, <2>1, <2>2, <2>3, OwingRanked DEF SameOthers
<1>7. ASSUME NEW x \in Waiters, Resume(t, x)
      PROVE  RankedStep
  <2>1. /\ t = k.cur /\ k.stat[x] = "suspend" /\ pc' = [pc EXCEPT ![t] = "sched"]
        /\ k' = ResumeThread(k, x)
    BY <1>7 DEF Resume, InUser, OwesSchedule
  <2>2. x \in Thread \ Deleting
    BY <1>1, SchedAssumption DEF VictimsApart
  <2>3. SameOthers(k, k', x)
    BY <1>1, <2>1, <2>2, ResumeTable
  <2>4. Idle # x
    BY SchedAssumption
  <2> QED BY <1>1, <1>2, <2>1, <2>3, <2>4, OwingRanked DEF SameOthers
<1>8. CASE EnterCritical(t)
  <2>1. k.cur = t /\ k' = [k EXCEPT !.lock = @ + 1] /\ k.lock \in Nat
    BY <1>1, <1>8, Fields DEF EnterCritical, InUser
  <2>2. k'.cur = k.cur /\ k'.stat = k.stat /\ k'.lock # 0
    BY <1>1, <2>1 DEF KernelState
  <2> QED BY <1>2, <2>1, <2>2, OwingRanked
<1>9. CASE ExitCritical(t)
  <2> DEFINE nest == IF k.lock <= 1 THEN 0 ELSE k.lock - 1
  <2>1. /\ k.cur = t /\ k' = [k EXCEPT !.lock = nest]
        /\ pc' = IF nest = 0 THEN [pc EXCEPT ![t] = "sched"] ELSE pc
    BY <1>9 DEF ExitCritical, InUser
  <2> HIDE DEF nest
  <2>2. k'.cur = k.cur /\ k'.stat = k.stat /\ k'.lock = nest
    BY <1>1, <2>1 DEF KernelState
  <2>3. k'.lock # 0 \/ pc'[t] = "sched"
    BY <1>1, <2>1, <2>2
  <2> QED BY <1>2, <2>1, <2>2, <2>3, OwingRanked
<1>10. ASSUME NEW x \in Reprio, NEW p \in NewPrio, SetPriority(t, x, p)
       PROVE  RankedStep
  <2>1. k.cur = t /\ k' = ChangePriority(k, x, p) /\ late'
    BY <1>10 DEF SetPriority, InUser
  <2>2. x \in Thread \ Deleting /\ p \in Prio /\ x # Idle
    BY <1>1, SchedAssumption DEF VictimsApart
  <2>3. SameOthers(k, k', x)
    BY <1>1, <2>1, <2>2, ChangePriorityTable
  <2> QED BY <1>2, <2>1, <2>2, <2>3, OwingRanked DEF SameOthers
<1>11. CASE t \in Quitters /\ Exit(t)
  <2> DEFINE k0 == RemoveThread(k, t)
  <2>1. /\ t = k.cur /\ pc' = [pc EXCEPT ![t] = "sched"]
        /\ k' = [k0 EXCEPT !.stat[t] = "close", !.armed = @ \ {t}]
    BY <1>11 DEF Exit, InUser, OwesSchedule
  <2>2. Table(k0, Deleting \cup {t}) /\ k0.cur = k.cur /\ k0.stat = k.stat
    BY <1>1, RemoveTable
  <2> HIDE DEF k0
  <2>3. k'.cur = k.cur /\ k'.stat = [k.stat EXCEPT ![t] = "close"]
    BY <2>1, <2>2 DEF Table, KernelState
  <2>4. Idle # t
    BY <1>11, SchedAssumption
  <2>5. k'.stat[Idle] = k.stat[Idle]
    BY <1>1, <1>2, <2>1, <2>3, <2>4, Fields
  <2> QED BY <1>1, <1>2, <2>1, <2>3, <2>5, OwingRanked
<1> QED
  BY <1>3, <1>4, <1>5, <1>6, <1>7, <1>8, <1>9, <1>10, <1>11 DEF ThreadCall

(* Start-up, deletion and the work of the idle thread. *)
LEMMA LifetimeRanked ==
    ASSUME VictimsApart, SchedInv, Ranked, Lifetime
    PROVE  RankedStep
<1>1. /\ k \in KernelState /\ pc \in [Thread -> {"user", "sched", "delete"}]
      /\ Table(k, Deleting) /\ Single(k) /\ k.cur \notin Deleting
      /\ Deleting \subseteq Victims
  BY DEF SchedInv, KernelInv, TypeOK
<1>2. Idle \in Thread /\ Manager \in Thread /\ Manager # NoThread
  BY SchedAssumption, KernelAssumption
<1>3. ASSUME NEW x \in Thread \ Deleting, k.stat[x] = "init", k' = StartUp(x)
      PROVE  SameOthers(k, k', x) /\ k'.stat[x] \in Awake
  BY <1>1, <1>3, StartTable DEF StartUp
<1>4. ASSUME NEW x \in Thread, Boot(x)
      PROVE  RankedStep
  <2>1. k.cur = NoThread /\ Deleting = {} /\ k.stat[x] = "init" /\ k' = StartUp(x)
    BY <1>4 DEF Boot, SchedInv
  <2>2. k'.cur = NoThread /\ k'.lock = k.lock
    BY <1>3, <2>1 DEF SameOthers
  <2> QED BY <2>1, <2>2 DEF Ranked, RankedStep, PreemptedFirst
<1>5. ASSUME NEW x \in Thread, Create(x)
      PROVE  RankedStep
  <2>1. /\ k.cur = Manager /\ Deleting = {} /\ k.stat[x] = "init" /\ k' = StartUp(x)
        /\ pc' = [pc EXCEPT ![Manager] = "sched"]
    BY <1>5 DEF Create, InUser, OwesSchedule, Deleting
  <2>2. SameOthers(k, k', x) /\ k'.stat[x] \in Awake
    BY <1>3, <2>1
  <2>3. k'.cur = k.cur /\ k'.stat[Idle] \in Awake
    BY <1>2, <2>1, <2>2 DEF Ranked, SameOthers
  <2> QED BY <1>1, <1>2, <2>1, <2>3, OwingRanked
<1>6. CASE StartScheduler
  <2> DEFINE to == Head(k.rq[HighestReady(k)])
             km == [k EXCEPT !.cur = to]
             k0 == RemoveThread(km, to)
  <2>1. Deleting = {} /\ k.cur = NoThread /\ k.stat[Idle] = "ready"
    BY <1>6 DEF StartScheduler, SchedInv
  <2>2. k.group # {}
    BY <1>1, <1>2, <2>1, ReadyInGroup
  <2>3. to \in Thread /\ k.stat[to] = "ready" /\ k.prio[to] = HighestReady(k)
    BY <1>1, <2>2, HighestFacts
  <2>4. k' = [k0 EXCEPT !.stat[to] = "running"]
    BY <1>6 DEF StartScheduler
  <2>5. \A x \in Thread : k.stat[x] = "ready" => k.prio[to] <= k.prio[x]
    <3>1. \A x \in Thread : k.stat[x] = "ready" => k.prio[x] \in k.group
      BY <1>1, <2>1, ReadyInGroup
    <3> QED BY <1>1, <2>2, <2>3, <3>1, HighestFacts
  <2> HIDE DEF to
  <2>6. /\ km \in KernelState
        /\ km.rq = k.rq /\ km.group = k.group /\ km.prio = k.prio /\ km.stat = k.stat
        /\ km.cur = to /\ km.lock = k.lock
    BY <1>1, <2>3 DEF KernelState
  <2> HIDE DEF km
  <2>7. Table(km, Deleting)
    BY <1>1, <2>6, SameTable
  <2>8. /\ Table(k0, Deleting \cup {to})
        /\ k0.cur = km.cur /\ k0.stat = km.stat /\ k0.prio = km.prio /\ k0.lock = km.lock
    BY <2>3, <2>7, RemoveTable
  <2> HIDE DEF k0
  <2>9. /\ k'.cur = to /\ k'.prio = k.prio /\ k'.lock = k.lock
        /\ k'.stat = [k.stat EXCEPT ![to] = "running"]
    BY <2>4, <2>6, <2>8 DEF Table, KernelState
  <2>10. \A x \in Thread : k'.stat[x] = IF x = to THEN "running" ELSE k.stat[x]
    BY <1>1, <2>3, <2>9, Fields
  <2>11. Top(k', Deleting')
    BY <2>5, <2>9, <2>10 DEF Top
  <2>12. k'.stat[Idle] \in Awake /\ k'.cur # NoThread
    BY <1>2, <2>1, <2>3, <2>9, <2>10, KernelAssumption DEF Awake
  <2>13. k.lock = 0
    BY <2>1 DEF Ranked
  <2> QED BY <2>1, <2>11, <2>12, <2>13, KernelAssumption DEF Ranked, RankedStep
<1>7. ASSUME NEW x \in Victims, DeleteRemove(x)
      PROVE  RankedStep
  <2>1. /\ pc[Manager] = "user" /\ k.cur = Manager /\ victim' = x /\ x \in Thread
        /\ pc' = [pc EXCEPT ![Manager] = "delete"] /\ late' = late
        /\ k' = k \/ k' = RemoveThread(k, x)
    BY <1>7, SchedAssumption DEF DeleteRemove, InUser
  <2>2. Deleting = {} /\ Deleting' = {x}
    BY <1>1, <1>2, <2>1 DEF Deleting
  <2>3. k'.cur = k.cur /\ k'.stat = k.stat /\ k'.prio = k.prio /\ k'.lock = k.lock
    <3> DEFINE k0 == RemoveThread(k, x)
    <3>1. /\ Table(k0, Deleting \cup {x})
          /\ k0.cur = k.cur /\ k0.stat = k.stat /\ k0.prio = k.prio /\ k0.lock = k.lock
      <4>1. Table(k, Deleting) /\ x \in Thread
        BY <1>1, <2>1
      <4> QED BY <4>1, RemoveTable
    <3>2. k' = k \/ k' = k0
      BY <2>1
    <3> HIDE DEF k0
    <3>3. CASE k' = k
      BY <3>3
    <3>4. CASE k' = k0
      BY <3>1, <3>4
    <3> QED BY <3>2, <3>3, <3>4
  <2>4. Top(k, Deleting) => Top(k', Deleting')
    BY <2>2, <2>3 DEF Top
  <2> QED BY <1>2, <2>1, <2>3, <2>4 DEF Ranked, RankedStep, PreemptedFirst
<1>8. CASE DeleteClose
  <2>1. /\ pc[Manager] = "delete" /\ k.cur = Manager /\ late' = late
        /\ \E next \in {"user", "sched"} : pc' = [pc EXCEPT ![Manager] = next]
        /\ k' = [k EXCEPT !.stat[victim] = "close", !.armed = @ \ {victim}]
    BY <1>8 DEF DeleteClose
  <2>2. Deleting = {victim} /\ victim \in Victims /\ victim \in Thread /\ victim # Idle
    BY <1>1, <2>1, SchedAssumption DEF Deleting
  <2>3. /\ k'.cur = k.cur /\ k'.prio = k.prio /\ k'.lock = k.lock
        /\ k'.stat = [k.stat EXCEPT ![victim] = "close"]
    BY <1>1, <2>1, <2>2 DEF KernelState
  <2>4. \A x \in Thread : k'.stat[x] = IF x = victim THEN "close" ELSE k.stat[x]
    BY <1>1, <2>2, <2>3, Fields
  <2>5. k.cur # victim
    BY <1>1, <2>2
  <2>6. Top(k, Deleting) => Top(k', Deleting')
    BY <1>2, <2>1, <2>2, <2>3, <2>4, <2>5 DEF Top
  <2>7. k'.stat[Idle] \in Awake
    BY <1>2, <2>1, <2>2, <2>4 DEF Ranked
  <2> QED BY <1>2, <2>1, <2>3, <2>6, <2>7 DEF Ranked, RankedStep, PreemptedFirst
<1>9. CASE Reap
  BY <1>9 DEF Reap, Ranked, RankedStep, PreemptedFirst, Deleting
<1> QED
  BY <1>4, <1>5, <1>6, <1>7, <1>8, <1>9 DEF Lifetime

(* The tick and the other handlers. *)
LEMMA InterruptRanked ==
    ASSUME VictimsApart, SchedInv, Ranked, Interrupt
    PROVE  RankedStep
<1>1. /\ TypeOK /\ KernelInv(k, Deleting) /\ k \in KernelState
      /\ Table(k, Deleting) /\ Single(k) /\ k.cur \notin Deleting
      /\ Deleting \subseteq Victims
  BY DEF SchedInv, KernelInv, TypeOK
<1>2. Idle \in Thread /\ k.cur \in Thread \cup {NoThread}
  BY <1>1, Fields, SchedAssumption
<1>3. ASSUME NEW x \in Waiters, IsrResume(x)
      PROVE  RankedStep
  <2> DEFINE k1 == ResumeThread(k, x)
  <2>1. x \in Thread \ Deleting /\ x # Idle
    BY <1>1, SchedAssumption DEF VictimsApart
  <2>2. k.stat[x] = "suspend" /\ k.cur # NoThread /\ Reschedule(k1) /\ Deleting' = Deleting
    BY <1>3 DEF IsrResume, Deleting
  <2>3. Table(k1, Deleting) /\ Single(k1) /\ SameOthers(k, k1, x)
    BY <1>1, <2>1, <2>2, ResumeTable
  <2> HIDE DEF k1
  <2>4. k1.cur = k.cur /\ k1.lock = k.lock /\ k1.stat[Idle] \in Awake
    BY <1>2, <2>1, <2>2, <2>3 DEF SameOthers, Ranked
  <2> QED BY <1>2, <2>2, <2>3, <2>4, RescheduleRanked
<1>4. CASE Tick
  <2>1. k' = k \/ k' = [k EXCEPT !.yield = @ \cup {k.cur}]
    BY <1>4 DEF Tick
  <2>2. k'.cur = k.cur /\ k'.stat = k.stat /\ k'.prio = k.prio /\ k'.lock = k.lock
    BY <1>1, <2>1 DEF KernelState
  <2>3. Deleting' = Deleting /\ late' = late /\ pc' = pc
    BY <1>4 DEF Tick, Deleting
  <2> QED BY <2>2, <2>3 DEF Ranked, RankedStep, PreemptedFirst, Top
<1>5. CASE TickSchedule
  <2>1. isr # "none" /\ Reschedule(k) /\ Deleting' = Deleting
    BY <1>5 DEF TickSchedule, Deleting
  <2>2. k.cur \in Thread
    BY <1>2, <2>1 DEF SchedInv
  <2>3. k.stat[Idle] \in Awake
    BY <2>2, KernelAssumption DEF Ranked
  <2> QED BY <1>1, <2>1, <2>2, <2>3, RescheduleRanked
<1>6. CASE TimerCheckBegin \/ TimerCheckEnd
  BY <1>6 DEF TimerCheckBegin, TimerCheckEnd, Ranked, RankedStep, PreemptedFirst, Deleting
<1>7. ASSUME NEW t \in Thread, TimerFire(t)
      PROVE  RankedStep
  <2> DEFINE k1 == InsertThread([k EXCEPT !.armed = @ \ {t}], t)
  <2>1. k.stat[t] = "suspend" /\ t \in Thread \ Deleting /\ t # Idle
    BY <1>1, <1>7, SchedAssumption DEF TimerFire, KernelInv, VictimsApart
  <2>2. isr # "none" /\ Reschedule(k1) /\ Deleting' = Deleting
    BY <1>7 DEF TimerFire, TimeoutThread, Deleting
  <2>3. Table(k1, Deleting) /\ Single(k1) /\ SameOthers(k, k1, t)
    BY <1>1, <2>1, WakeTable
  <2> HIDE DEF k1
  <2>4. k.cur \in Thread
    BY <1>2, <2>2 DEF SchedInv
  <2>5. k1.cur = k.cur /\ k1.lock = k.lock /\ k1.stat[Idle] \in Awake
    BY <1>2, <2>1, <2>3, <2>4, KernelAssumption DEF SameOthers, Ranked
  <2> QED BY <2>2, <2>3, <2>4, <2>5, RescheduleRanked
<1> QED
  BY <1>3, <1>4, <1>5, <1>6, <1>7 DEF Interrupt

-----------------------------------------------------------------------------
(* The theorems *)

(* The invariant holds in every reachable state, if the victims keep       *)
(* apart.                                                                  *)
LEMMA Inductive == ASSUME VictimsApart PROVE Spec => []SchedInv
<1>1. Init => SchedInv
  BY InitInv
<1>2. SchedInv /\ [Next]_vars => SchedInv'
  <2> SUFFICES ASSUME SchedInv, [Next]_vars PROVE SchedInv'
    OBVIOUS
  <2>1. ASSUME NEW t \in Thread, ThreadCall(t) PROVE SchedInv'
    BY <2>1, CallInv
  <2>2. CASE Lifetime
    BY <2>2, LifetimeInv
  <2>3. CASE Interrupt
    BY <2>3, InterruptInv
  <2>4. CASE UNCHANGED vars
    BY <2>4 DEF vars, SchedInv, TypeOK, Deleting
  <2> QED BY <2>1, <2>2, <2>3, <2>4 DEF Next
<1> QED BY <1>1, <1>2, PTL DEF Spec

(* The fields of the scheduler, the thread objects and the timers keep the *)
(* values their types allow; in particular rt_scheduler_lock_nest never    *)
(* goes below 0 and a time slice is never over before the tick that ends   *)
(* it (scheduler.c, clock.c).                                              *)
THEOREM TypeCorrect == ASSUME VictimsApart PROVE Spec => []TypeOK
<1>1. SchedInv => TypeOK
  BY DEF SchedInv
<1> QED BY <1>1, Inductive, PTL

(* The ready lists, the priority bitmap and thread->stat agree whenever    *)
(* interrupts are enabled, whatever threads and handlers do.               *)
THEOREM ReadyTable == ASSUME VictimsApart PROVE Spec => []ReadyTableExact
<1>1. SchedInv => ReadyTableExact
  <2> SUFFICES ASSUME SchedInv PROVE ReadyTableExact
    OBVIOUS
  <2>1. Table(k, Deleting) /\ Single(k)
    BY DEF SchedInv, KernelInv
  <2>2. QueuesHoldReady /\ GroupExact
    BY <2>1 DEF Table, QueuesHoldReady, GroupExact
  <2>3. ReadyIsQueued
    BY <2>1 DEF Table, ReadyIsQueued, Deleting, BeingDeleted
  <2>4. OneRuns
    BY <2>1 DEF Single, OneRuns
  <2> QED BY <2>2, <2>3, <2>4 DEF ReadyTableExact
<1> QED BY <1>1, Inductive, PTL

(* The assertion of _thread_timeout never fails: no timer outlives the     *)
(* sleep it was started for.                                               *)
THEOREM TimersAreWaits == ASSUME VictimsApart PROVE Spec => []ArmedIsSuspended
<1>1. SchedInv => ArmedIsSuspended
  BY DEF SchedInv, KernelInv, ArmedIsSuspended
<1> QED BY <1>1, Inductive, PTL

(* Every step keeps Ranked, and the processor while the scheduler is       *)
(* locked.                                                                 *)
LEMMA EveryStepRanked ==
    ASSUME VictimsApart, SchedInv, Ranked, [Next]_vars
    PROVE  RankedStep
<1>1. ASSUME NEW t \in Thread, ThreadCall(t) PROVE RankedStep
  BY <1>1, CallRanked
<1>2. CASE Lifetime
  BY <1>2, LifetimeRanked
<1>3. CASE Interrupt
  BY <1>3, InterruptRanked
<1>4. CASE UNCHANGED vars
  BY <1>4 DEF vars, Ranked, RankedStep, PreemptedFirst, Deleting
<1> QED BY <1>1, <1>2, <1>3, <1>4 DEF Next

(* Ranked holds in every reachable state. *)
LEMMA RankedAlways == ASSUME VictimsApart PROVE Spec => []Ranked
<1>1. Init => Ranked
  BY DEF Init, Ranked
<1>2. SchedInv /\ Ranked /\ [Next]_vars => Ranked'
  BY EveryStepRanked DEF RankedStep
<1> QED BY <1>1, <1>2, Inductive, PTL DEF Spec

(* Whatever threads, handlers and the tick do, the thread in application   *)
(* code has the highest priority of all that can run, unless the scheduler *)
(* is locked or a priority was changed without a rescheduling; and         *)
(* rt_schedule always finds a thread to run (scheduler.c).                 *)
THEOREM HighestPriorityRuns == ASSUME VictimsApart PROVE Spec => []HighestRuns
<1>1. SchedInv /\ Ranked => HighestRuns
  <2> SUFFICES ASSUME SchedInv, Ranked PROVE HighestRuns
    OBVIOUS
  <2>1. /\ k \in KernelState /\ Table(k, Deleting) /\ Single(k)
        /\ Deleting \subseteq Victims
    BY DEF SchedInv, KernelInv, TypeOK
  <2>2. Idle \in Thread \ Deleting
    BY <2>1, SchedAssumption
  <2>3. k.cur # NoThread /\ k.stat[k.cur] # "running" => k.group # {}
    <3> SUFFICES ASSUME k.cur # NoThread, k.stat[k.cur] # "running" PROVE k.group # {}
      OBVIOUS
    <3>1. k.stat[Idle] = "ready"
      BY <2>1, <2>2 DEF Ranked, Awake, Single
    <3> QED BY <2>1, <2>2, <3>1, ReadyInGroup
  <2>4. ASSUME NEW t \in Thread, InUser(t), k.lock = 0, ~ late,
               NEW x \in Thread, k.stat[x] = "ready", ~ BeingDeleted(x)
        PROVE  k.prio[t] <= k.prio[x]
    <3>1. k.cur = t /\ pc[t] = "user" /\ k.stat[t] = "running" /\ t # NoThread
      BY <2>4, KernelAssumption DEF InUser
    <3>2. Top(k, Deleting)
      BY <2>4, <3>1 DEF Ranked
    <3>3. x \notin Deleting
      BY <2>4 DEF Deleting, BeingDeleted
    <3> QED BY <2>4, <3>1, <3>2, <3>3 DEF Top
  <2> QED BY <2>3, <2>4 DEF HighestRuns
<1> QED BY <1>1, Inductive, RankedAlways, PTL

(* Between rt_enter_critical and the last rt_exit_critical no thread,      *)
(* handler or tick takes the processor from the current thread.            *)
THEOREM LockKeepsProcessor == ASSUME VictimsApart PROVE Spec => LockedKeepsCpu
<1>1. SchedInv /\ Ranked /\ [Next]_vars => [k.lock > 0 => k'.cur = k.cur]_vars
  BY EveryStepRanked DEF RankedStep
<1> QED BY <1>1, Inductive, RankedAlways, PTL DEF Spec, LockedKeepsCpu

(* A thread that loses the processor to one of a higher priority before    *)
(* its slice is used up is the first of its list, so that it goes on       *)
(* before its peers (scheduler.c).                                         *)
THEOREM PreemptedKeepsTurn == ASSUME VictimsApart PROVE Spec => PreemptedIsFirst
<1> DEFINE First == \A t \in Thread :
                       /\ t \notin k.yield /\ ~ Yield(t)
                       /\ k.cur = t /\ k'.cur # t /\ k'.stat[t] = "ready"
                       /\ k'.prio[k'.cur] < k'.prio[t]
                       => Head(k'.rq[k'.prio[t]]) = t
<1>1. SchedInv /\ Ranked /\ [Next]_vars => [First]_vars
  BY EveryStepRanked DEF RankedStep, PreemptedFirst
<1>2. Spec => [][First]_vars
  <2> HIDE DEF First
  <2> QED BY <1>1, Inductive, RankedAlways, PTL DEF Spec
<1> QED BY <1>2 DEF PreemptedIsFirst

=============================================================================
