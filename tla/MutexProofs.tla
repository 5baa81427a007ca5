---------------------------- MODULE MutexProofs ----------------------------
(***************************************************************************)
(* Theorems about Mutex, whatever the threads, their priorities and the    *)
(* mutexes are.  Ownership and wait lists are exact and the mutexes        *)
(* implement RecursiveLock; without ceilings owners have the priority      *)
(* their waiters give them, and lose it in time if no wait fails.  This is *)
(* proved for a build with assertions, which the board's is (RT_DEBUG),    *)
(* and, where no wait fails, for one without, in which inheritance goes on *)
(* along chains of owners that wait themselves.                            *)
(***************************************************************************)
EXTENDS Mutex, KernelProofs

-----------------------------------------------------------------------------
(* Priorities *)

Records == [Mutex -> MutexRecord]

(* What the type says of a mutex. *)
LEMMA RecordFields ==
    ASSUME NEW r \in MutexRecord
    PROVE  /\ r.owner \in Thread \cup {NoThread} /\ r.hold \in 0 .. MaxHold
           /\ r.prio \in Prio \cup {NoPrio} /\ r.ceil \in Prio \cup {NoPrio}
           /\ r.waitq \in Seq(Thread) /\ r.alive \in BOOLEAN
BY DEF MutexRecord

(* Priorities are numbers, and 0xFF is the largest. *)
LEMMA Numbers ==
    /\ NumPrio \in Nat /\ NoPrio \in Int /\ NoPrio \notin Prio
    /\ \A p \in Prio \cup {NoPrio} : p \in Nat /\ p \in Int /\ p <= NoPrio
    /\ \A p \in Prio \cup {NoPrio}, q \in Prio : p <= q => p \in Prio
<1>1. NumPrio \in Nat /\ NoPrio = NumPrio
  BY KernelAssumption DEF NoPrio
<1> QED BY <1>1 DEF Prio

(* _thread_get_mutex_priority is the least of the thread's own priority    *)
(* and those of the mutexes it has taken.                                  *)
LEMMA MutexPriorityIs ==
    ASSUME NEW m \in Records, NEW held \in SUBSET Mutex, NEW t \in Thread
    PROVE  LET p == MutexPriority(m, held, t)
           IN  /\ p \in Prio /\ p <= InitPrio[t]
               /\ \A x \in held : p <= m[x].prio
               /\ p = InitPrio[t] \/ \E x \in held : p = m[x].prio
<1> DEFINE I == {InitPrio[t]} \cup {m[x].prio : x \in held}
           p == Min(I)
<1>1. InitPrio[t] \in Prio
  BY MutexAssumption
<1>2. \A x \in held : m[x].prio \in Prio \cup {NoPrio}
  BY RecordFields DEF Records
<1>3. I \in SUBSET Nat /\ I # {}
  BY <1>1, <1>2, Numbers
<1>4. p \in I /\ \A j \in I : p <= j
  BY <1>3, MinOfIndices
<1>5. p <= InitPrio[t] /\ p \in Prio \cup {NoPrio}
  BY <1>1, <1>2, <1>4
<1>6. p \in Prio
  BY <1>1, <1>5, Numbers
<1>7. MutexPriority(m, held, t) = p
  BY DEF MutexPriority
<1>8. \A x \in held : p <= m[x].prio
  BY <1>4
<1>9. p = InitPrio[t] \/ \E x \in held : p = m[x].prio
  BY <1>4
<1> HIDE DEF p
<1> QED BY <1>5, <1>6, <1>7, <1>8, <1>9

(* _mutex_update_priority finds the highest priority of a sorted list. *)
LEMMA HeadPrioIs ==
    ASSUME NEW kk, kk.prio \in [Thread -> Prio], NEW q \in Seq(Thread)
    PROVE  /\ HeadPrio(kk, q) \in Prio \cup {NoPrio}
           /\ q = <<>> => HeadPrio(kk, q) = NoPrio
           /\ q # <<>> => HeadPrio(kk, q) = kk.prio[Head(q)] /\ Head(q) \in Thread
           /\ SortedBy(q, kk.prio) =>
                 \A u \in Thread : Linked(u, q) => HeadPrio(kk, q) <= kk.prio[u]
<1>1. CASE q = <<>>
  BY <1>1 DEF HeadPrio, Linked
<1>2. CASE q # <<>>
  <2>1. Head(q) = q[1] /\ 1 \in 1 .. Len(q) /\ Head(q) \in Thread
    BY <1>2
  <2>2. HeadPrio(kk, q) = kk.prio[q[1]]
    BY <1>2, <2>1 DEF HeadPrio
  <2>3. ASSUME SortedBy(q, kk.prio), NEW u \in Thread, Linked(u, q)
        PROVE  kk.prio[q[1]] <= kk.prio[u]
    <3>1. PICK i \in 1 .. Len(q) : q[i] = u
      BY <2>3 DEF Linked
    <3>2. kk.prio[u] \in Int
      BY Numbers
    <3>3. i = 1 \/ 1 < i
      OBVIOUS
    <3> QED BY <2>1, <2>3, <3>1, <3>2, <3>3 DEF SortedBy
  <2> QED BY <1>2, <2>1, <2>2, <2>3
<1> QED BY <1>1, <1>2

(* It depends on the priorities of the threads in the list only. *)
LEMMA HeadPrioSame ==
    ASSUME NEW q \in Seq(Thread), NEW k1, NEW k2,
           \A u \in Thread : Linked(u, q) => k1.prio[u] = k2.prio[u]
    PROVE  HeadPrio(k1, q) = HeadPrio(k2, q)
<1>1. CASE q = <<>>
  BY <1>1 DEF HeadPrio
<1>2. CASE q # <<>>
  BY <1>2, HeadFacts DEF HeadPrio
<1> QED BY <1>1, <1>2

(* _thread_update_priority with assertions: one change of priority, and    *)
(* the assertion fails if the thread waits for a mutex itself.             *)
LEMMA UpdateIs ==
    ASSUME Asserts, NEW k1, NEW D, Runs(k1, D, Idle), NEW m \in Records,
           NEW pend \in [Thread -> Mutex \cup {NoMutex}],
           NEW t \in Thread \ D, NEW p \in Prio,
           t # k1.cur \/ k1.stat[t] # "suspend"
    PROVE  LET r == UpdatePriority(Present(k1, m, pend), t, p)
           IN  /\ r.k = ChangePriority(k1, t, p) /\ r.mtx = m
               /\ r.fault \in {"no", "assert"}
               /\ r.fault = "no" =>
                     \/ k1.stat[t] # "suspend" \/ pend[t] = NoMutex
                     \/ ~ m[pend[t]].alive
<1> DEFINE k2 == ChangePriority(k1, t, p)
           s0 == [k |-> k2, mtx |-> m, pending |-> pend, next |-> t, fault |-> "no"]
           safe == k1.stat[t] # "suspend" \/ pend[t] = NoMutex \/ ~ m[pend[t]].alive
           s1 == [k |-> k2, mtx |-> m, pending |-> pend, next |-> NoThread,
                  fault |-> IF safe THEN "no" ELSE "assert"]
           N == Cardinality(Thread)
           sol == [i \in 0 .. N |-> IF i = 0 THEN s0 ELSE s1]
           Eq(f) == f = [i \in 0 .. N |-> IF i = 0 THEN s0 ELSE Climb(f[i - 1])]
<1>1. k2.stat = k1.stat /\ k2.cur = k1.cur
  BY PriorityRuns
<1>2. t # NoThread
  BY KernelAssumption
<1> HIDE DEF k2
<1>3. Climb(s0) = s1
  <2>1. k2.stat[t] = "suspend" => t # k2.cur
    BY <1>1
  <2> QED BY <1>1, <1>2, <2>1 DEF Climb
<1>4. Climb(s1) = s1
  BY DEF Climb
<1>5. N \in Nat /\ N >= 1
  <2>1. IsFiniteSet(Thread) /\ Thread # {}
    BY MutexAssumption
  <2> QED BY <2>1, FS_CardinalityType, FS_EmptySet
<1> HIDE DEF N, s0, s1
<1>6. Eq(sol)
  <2> SUFFICES ASSUME NEW i \in 0 .. N, i # 0
               PROVE  sol[i] = Climb(sol[i - 1])
    OBVIOUS
  <2>1. i - 1 \in 0 .. N /\ (i - 1 = 0 \/ i - 1 # 0)
    BY <1>5
  <2>2. sol[i] = s1 /\ sol[i - 1] = IF i - 1 = 0 THEN s0 ELSE s1
    BY <2>1
  <2> QED BY <1>3, <1>4, <2>2
<1>7. ASSUME NEW f, Eq(f)
      PROVE  f = sol
  <2>1. \A i \in 0 .. N : f[i] = IF i = 0 THEN s0 ELSE Climb(f[i - 1])
    BY <1>7
  <2> DEFINE bad == {i \in 0 .. N : f[i] # sol[i]}
  <2>2. bad = {}
    <3> SUFFICES ASSUME bad # {} PROVE FALSE
      OBVIOUS
    <3>1. bad \in SUBSET Nat
      BY <1>5
    <3>2. Min(bad) \in bad /\ \A j \in bad : Min(bad) <= j
      BY <3>1, MinOfIndices
    <3>3. PICK i \in 0 .. N : f[i] # sol[i] /\ \A j \in bad : i <= j
      BY <3>2
    <3>4. i # 0
      BY <2>1, <3>3
    <3>5. i - 1 \in 0 .. N /\ ~ (i <= i - 1)
      BY <1>5, <3>4
    <3>6. f[i - 1] = sol[i - 1]
      BY <3>3, <3>5
    <3>7. sol[i] = Climb(sol[i - 1])
      BY <1>3, <1>4, <3>4, <3>5
    <3> QED BY <2>1, <3>3, <3>4, <3>6, <3>7
  <2>3. \A i \in 0 .. N : f[i] = sol[i]
    BY <2>2
  <2>4. f = [i \in 0 .. N |-> f[i]]
    BY <1>7
  <2> HIDE DEF Eq
  <2> QED BY <2>3, <2>4
<1>8. UpdatePriority(Present(k1, m, pend), t, p) = (CHOOSE f : Eq(f))[N]
  <2> DEFINE s == Present(k1, m, pend)
             b == [s EXCEPT !.k = ChangePriority(@, t, p), !.next = t]
  <2>1. b = s0
    <3> DEFINE c == [s EXCEPT !.k = k2]
    <3>1. c = [k |-> k2, mtx |-> m, pending |-> pend, next |-> NoThread, fault |-> "no"]
      BY DEF Present
    <3>2. [c EXCEPT !.next = t] = s0
      <4> HIDE DEF c
      <4> QED BY <3>1 DEF s0
    <3>3. b = [c EXCEPT !.next = t]
      <4>1. s.k = k1
        BY DEF Present
      <4>2. b = [s EXCEPT !.k = k2, !.next = t]
        <5> HIDE DEF s
        <5> QED BY <4>1 DEF k2
      <4>3. [s EXCEPT !.k = k2, !.next = t] = [c EXCEPT !.next = t]
        BY DEF Present
      <4> QED BY <4>2, <4>3
    <3> QED BY <3>2, <3>3
  <2>2. UpdatePriority(s, t, p) =
          (CHOOSE f : f = [i \in 0 .. N |-> IF i = 0 THEN b ELSE Climb(f[i - 1])])[N]
    <3> HIDE DEF s
    <3> QED BY DEF UpdatePriority, N
  <2> HIDE DEF b, s
  <2> QED BY <2>1, <2>2 DEF s
<1>9. (CHOOSE f : Eq(f)) = sol
  <2> HIDE DEF Eq, sol
  <2> QED BY <1>6, <1>7
<1>10. sol[N] = s1
  BY <1>5
<1>11. UpdatePriority(Present(k1, m, pend), t, p) = s1
  BY <1>8, <1>9, <1>10
<1>12. s1.k = k2 /\ s1.mtx = m /\ s1.fault = IF safe THEN "no" ELSE "assert"
  BY DEF s1
<1> HIDE DEF safe
<1>13. s1.fault \in {"no", "assert"} /\ (s1.fault = "no" => safe)
  BY <1>12
<1> QED BY <1>11, <1>12, <1>13 DEF k2, safe

(* An inheritance that has been passed on to o: nothing but the priority   *)
(* of o changes, and o does not wait unless the assertion has failed.      *)
Passed(k1, r, o, p, m, pend, D) ==
    /\ Runs(r.k, D, Idle) /\ Wakes(k1, r.k, {})
    /\ r.k.cur = k1.cur /\ r.k.armed = k1.armed /\ r.k.stat = k1.stat
    /\ r.k.prio = [k1.prio EXCEPT ![o] = p]
    /\ r.mtx = m
    /\ r.fault \in {"no", "assert"}
    /\ r.fault = "no" => k1.stat[o] # "suspend" \/ pend[o] = NoMutex \/ ~ m[pend[o]].alive

(* Nothing was passed on. *)
Quiet(k1, r, m, D) ==
    /\ Runs(r.k, D, Idle) /\ Wakes(k1, r.k, {})
    /\ r.k = k1 /\ r.mtx = m /\ r.fault = "no"

(* _thread_update_priority passes an inheritance on. *)
LEMMA UpdatePasses ==
    ASSUME Asserts, NEW k1, NEW D, Runs(k1, D, Idle), NEW m \in Records,
           NEW pend \in [Thread -> Mutex \cup {NoMutex}],
           NEW o \in Thread \ D, NEW p \in Prio,
           o # k1.cur \/ k1.stat[o] # "suspend"
    PROVE  Passed(k1, UpdatePriority(Present(k1, m, pend), o, p), o, p, m, pend, D)
<1> DEFINE r == UpdatePriority(Present(k1, m, pend), o, p)
           k2 == ChangePriority(k1, o, p)
<1>1. /\ r.k = k2 /\ r.mtx = m /\ r.fault \in {"no", "assert"}
      /\ r.fault = "no" => k1.stat[o] # "suspend" \/ pend[o] = NoMutex \/ ~ m[pend[o]].alive
  BY UpdateIs
<1>2. /\ Runs(k2, D, Idle) /\ Wakes(k1, k2, {})
      /\ k2.cur = k1.cur /\ k2.armed = k1.armed /\ k2.stat = k1.stat
  BY PriorityRuns
<1>3. k2.prio = [k1.prio EXCEPT ![o] = p]
  BY PriorityIs, RunsType
<1> HIDE DEF r, k2
<1>4. Passed(k1, r, o, p, m, pend, D)
  BY <1>1, <1>2, <1>3 DEF Passed
<1> QED BY <1>4 DEF r

(* A state to update that is not updated. *)
LEMMA QuietIs ==
    ASSUME NEW k1, NEW D, Runs(k1, D, Idle), NEW m, NEW pend
    PROVE  Quiet(k1, Present(k1, m, pend), m, D)
BY DEF Quiet, Present, Wakes

(* What a waiter passes on. *)
LEMMA InheritIs ==
    ASSUME Asserts, NEW k1, NEW D, Runs(k1, D, Idle), NEW m \in Records,
           NEW pend \in [Thread -> Mutex \cup {NoMutex}],
           NEW t \in Thread, NEW x \in Mutex, k.prio[t] \in Prio,
           mtx[x].owner \in Thread \ D, mtx[x].owner # k1.cur
    PROVE  LET r == Inherit(Present(k1, m, pend), t, x)
               o == mtx[x].owner
           IN  IF k.prio[t] < mtx[x].prio /\ k.prio[t] < k.prio[o]
               THEN Passed(k1, r, o, k.prio[t], m, pend, D)
               ELSE Quiet(k1, r, m, D)
BY UpdatePasses, QuietIs DEF Inherit

(* What the end of a wait takes back. *)
LEMMA DisinheritIs ==
    ASSUME Asserts, NEW k1, NEW D, Runs(k1, D, Idle), NEW m0 \in Records,
           pending \in [Thread -> Mutex \cup {NoMutex}], taken \in [Thread -> SUBSET Mutex],
           NEW t \in Thread, NEW x \in Mutex,
           m0[x].owner \notin D, k1.stat[k1.cur] # "suspend"
    PROVE  LET r == Disinherit(k1, m0, t, x)
               o == m0[x].owner
               m == [m0 EXCEPT ![x].prio = HeadPrio(k1, m0[x].waitq)]
               p == MutexPriority(m, taken[o], o)
           IN  IF o = NoThread
               THEN r.k = k1 /\ r.mtx = m0 /\ r.fault = "null"
               ELSE /\ m \in Records /\ o \in Thread
                    /\ IF k1.prio[o] = k1.prio[t] /\ p # k1.prio[o]
                       THEN p \in Prio /\ Passed(k1, r, o, p, m, pending, D)
                       ELSE Quiet(k1, r, m, D)
<1> DEFINE r == Disinherit(k1, m0, t, x)
           o == m0[x].owner
           h == HeadPrio(k1, m0[x].waitq)
           m == [m0 EXCEPT ![x].prio = h]
           p == MutexPriority(m, taken[o], o)
<1>1. o \in Thread \cup {NoThread} /\ m0[x].waitq \in Seq(Thread)
  BY RecordFields DEF Records
<1>2. CASE o = NoThread
  BY <1>2 DEF Disinherit, Present
<1>3. CASE o # NoThread
  <2>1. o \in Thread \ D
    BY <1>1, <1>3
  <2>2. m \in Records
    <3>1. h \in Prio \cup {NoPrio}
      BY <1>1, HeadPrioIs, RunsType
    <3> HIDE DEF h
    <3> QED BY <3>1 DEF Records, MutexRecord
  <2>3. p \in Prio
    <3> HIDE DEF m, o
    <3> QED BY <2>1, <2>2, MutexPriorityIs
  <2>4. r = IF k1.prio[o] = k1.prio[t] /\ p # k1.prio[o]
            THEN UpdatePriority(Present(k1, m, pending), o, p)
            ELSE Present(k1, m, pending)
    BY <1>3 DEF Disinherit
  <2>5. o # k1.cur \/ k1.stat[o] # "suspend"
    OBVIOUS
  <2> HIDE DEF r, m, p, o
  <2>6. IF k1.prio[o] = k1.prio[t] /\ p # k1.prio[o]
        THEN Passed(k1, r, o, p, m, pending, D)
        ELSE Quiet(k1, r, m, D)
    BY <2>1, <2>2, <2>3, <2>4, <2>5, UpdatePasses, QuietIs
  <2> QED BY <1>3, <2>1, <2>2, <2>3, <2>6 DEF r, m, p, o
<1> QED BY <1>2, <1>3

-----------------------------------------------------------------------------
(* The invariant *)

Place == {"user", "wait", "return", "sched", "delete"}
Code == {"ok", "timeout", "error"}

(* The thread that is being deleted is in no list any more. *)
Gone == {victim} \cap Thread

(* The thread waits for a mutex. *)
Waits(t) == k.stat[t] = "suspend" /\ t # victim /\ pc[t] \in {"wait", "return"}

(* A thread that is suspended and still on the processor has just to call  *)
(* rt_schedule.                                                            *)
CurrentPlaced == k.stat[k.cur] = "suspend" => pc[k.cur] \in {"wait", "sched"}

(* The thread that is being deleted does not run and owns nothing. *)
VictimApart ==
    /\ \A t \in Thread : pc[t] = "delete" <=> t = Manager /\ victim # NoThread
    /\ victim # NoThread =>
          /\ victim \in Victims /\ k.stat[victim] \in {"ready", "suspend"}
          /\ \A x \in Mutex : mtx[x].owner # victim

ArmedWaits == \A t \in k.armed : k.stat[t] = "suspend"

(* A thread whose wait has failed knows for which mutex it waited. *)
FailedWaits ==
    \A t \in Thread :
        pc[t] \in {"wait", "return"} /\ err[t] # "ok" /\ k.stat[t] # "close"
            => pending[t] \in Mutex

(* The wait lists link exactly the threads that wait. *)
Lists ==
    /\ \A t \in Thread : Waits(t) => pending[t] \in Mutex /\ err[t] = "ok"
    /\ \A x \in Mutex :
          /\ LinkedOnce(mtx[x].waitq)
          /\ \A t \in Thread : Linked(t, mtx[x].waitq) <=> Waits(t) /\ pending[t] = x
          /\ ~ mtx[x].alive => mtx[x].waitq = <<>>

(* No wait for x has ended that the owner has not been told of. *)
Settled(x) ==
    /\ mtx[x].alive /\ (victim = NoThread \/ pending[victim] # x)
    /\ \A t \in Thread : ~ Failing(t, x)

Order ==
    Up => \A x \in Mutex :
              /\ SortedBy(mtx[x].waitq, k.prio)
              /\ Settled(x) => mtx[x].prio = HeadPrio(k, mtx[x].waitq)

MutInv ==
    /\ OwnershipExact
    /\ Runs(k, Gone, Idle)
    /\ CurrentPlaced /\ VictimApart /\ ArmedWaits /\ FailedWaits
    /\ Lists
    /\ Order

(* At start-up the idle thread runs and no mutex is taken. *)
LEMMA InitInv == Init => MutInv
<1> SUFFICES ASSUME Init PROVE MutInv
  OBVIOUS
<1>1. Idle \in Thread /\ InitPrio \in [Thread -> Prio] /\ MaxHold \in Nat \ {0}
  BY MutexAssumption
<1>2. /\ k.cur = Idle /\ k.prio = InitPrio /\ k.yield = {} /\ k.lock = 0 /\ k.armed = {}
      /\ k.stat = [t \in Thread |-> IF t = Idle THEN "running" ELSE "init"]
      /\ k.rq = [p \in Prio |-> <<>>] /\ k.group = {}
  BY DEF Init
<1>3. k \in KernelState
  <2>1. [t \in Thread |-> IF t = Idle THEN "running" ELSE "init"] \in [Thread -> Stat]
    BY DEF Stat
  <2>2. [p \in Prio |-> <<>>] \in [Prio -> Seq(Thread)]
    OBVIOUS
  <2> QED BY <1>1, <2>1, <2>2 DEF Init, KernelState
<1>4. \A x : ~ Linked(x, <<>>)
  BY DEF Linked
<1>5. LinkedOnce(<<>>) /\ \A f : SortedBy(<<>>, f)
  BY DEF LinkedOnce, SortedBy
<1>6. \A p \in Prio : k.rq[p] = <<>>
  BY <1>2
<1>7. \A t \in Thread : k.stat[t] = IF t = Idle THEN "running" ELSE "init"
  BY <1>2
<1>8. Table(k, {})
  BY <1>2, <1>3, <1>4, <1>5, <1>6, <1>7 DEF Table
<1>9. Single(k)
  BY <1>2, <1>7 DEF Single
<1>10. /\ pc = [t \in Thread |-> "user"] /\ taken = [t \in Thread |-> {}]
       /\ pending = [t \in Thread |-> NoMutex] /\ err = [t \in Thread |-> "ok"]
       /\ victim = NoThread /\ fault = "no"
  BY DEF Init
<1>11. Gone = {}
  BY <1>10, KernelAssumption DEF Gone
<1>12. Runs(k, Gone, Idle) /\ CurrentPlaced
  BY <1>1, <1>2, <1>7, <1>8, <1>9, <1>11 DEF Runs, CurrentPlaced, Awake
<1> DEFINE new == [owner |-> NoThread, hold |-> 0, prio |-> NoPrio,
                   ceil |-> NoPrio, waitq |-> <<>>, alive |-> TRUE]
<1>13. mtx = [x \in Mutex |-> new]
  BY DEF Init
<1>14. new \in MutexRecord
  BY <1>1 DEF MutexRecord
<1>15. TypeOK
  BY <1>3, <1>10, <1>13, <1>14 DEF TypeOK
<1>16. \A x \in Mutex : mtx[x] = new
  BY <1>13
<1>17. OwnershipExact
  BY <1>4, <1>10, <1>15, <1>16 DEF OwnershipExact
<1>18. VictimApart /\ ArmedWaits /\ FailedWaits
  BY <1>2, <1>10 DEF VictimApart, ArmedWaits, FailedWaits
<1>19. Lists
  BY <1>4, <1>5, <1>7, <1>10, <1>16 DEF Lists, Waits
<1>20. Order
  BY <1>5, <1>16 DEF Order, HeadPrio
<1> QED BY <1>12, <1>17, <1>18, <1>19, <1>20 DEF MutInv

(* The types of the invariant. *)
LEMMA Types ==
    ASSUME MutInv
    PROVE  /\ k \in KernelState /\ k.cur \in Thread \ Gone /\ k.armed \in SUBSET Thread
           /\ k.stat \in [Thread -> Stat] /\ k.prio \in [Thread -> Prio]
           /\ pc \in [Thread -> Place] /\ mtx \in Records
           /\ taken \in [Thread -> SUBSET Mutex]
           /\ pending \in [Thread -> Mutex \cup {NoMutex}]
           /\ err \in [Thread -> Code] /\ victim \in Thread \cup {NoThread}
           /\ fault \in {"no", "assert", "null"}
           /\ NoThread \notin Thread /\ Idle \in Thread
BY RunsType, MutexAssumption, KernelAssumption
   DEF MutInv, OwnershipExact, TypeOK, Place, Code, Records, Runs

(* And those of one mutex. *)
LEMMA Fields1 ==
    ASSUME MutInv, NEW x \in Mutex
    PROVE  /\ mtx[x] \in MutexRecord
           /\ mtx[x].owner \in Thread \cup {NoThread} /\ mtx[x].hold \in 0 .. MaxHold
           /\ mtx[x].prio \in Prio \cup {NoPrio} /\ mtx[x].ceil \in Prio \cup {NoPrio}
           /\ mtx[x].waitq \in Seq(Thread) /\ mtx[x].alive \in BOOLEAN
           /\ LinkedOnce(mtx[x].waitq)
<1>1. mtx[x] \in MutexRecord
  BY DEF MutInv, OwnershipExact, TypeOK
<1> QED BY <1>1, RecordFields DEF MutInv, Lists

(* A thread on the processor elsewhere than before rt_schedule is running. *)
LEMMA Running ==
    ASSUME MutInv, NEW t \in Thread, NEW p, At(t, p), p \notin {"wait", "sched"}
    PROVE  /\ k.cur = t /\ k.stat[t] = "running" /\ t \in Thread \ Gone /\ t # victim
           /\ ~ Waits(t) /\ \A x \in Mutex : ~ Linked(t, mtx[x].waitq)
<1>1. k.cur = t /\ pc[t] = p
  BY DEF At
<1>2. k.stat[t] = "running"
  BY <1>1 DEF MutInv, Runs, CurrentPlaced
<1>3. t \in Thread \ Gone
  BY <1>1 DEF MutInv, Runs
<1> QED BY <1>1, <1>2, <1>3 DEF Gone, Waits, MutInv, Lists

(* A thread in a wait list is suspended, and the mutex has an owner. *)
LEMMA Waiter ==
    ASSUME MutInv, NEW x \in Mutex, NEW t \in Thread, Linked(t, mtx[x].waitq)
    PROVE  /\ Waits(t) /\ k.stat[t] = "suspend" /\ t \in Thread \ Gone /\ t # victim
           /\ pending[t] = x /\ err[t] = "ok" /\ mtx[x].alive
           /\ mtx[x].owner \in Thread /\ mtx[x].owner # t
           /\ \A y \in Mutex : Linked(t, mtx[y].waitq) => y = x
<1>1. Waits(t) /\ pending[t] = x /\ err[t] = "ok"
  BY DEF MutInv, Lists
<1>2. mtx[x].waitq # <<>>
  BY DEF Linked
<1>3. mtx[x].alive /\ mtx[x].owner \in Thread /\ mtx[x].owner # t
  BY <1>2, Fields1 DEF MutInv, Lists, OwnershipExact
<1>4. \A y \in Mutex : Linked(t, mtx[y].waitq) => y = x
  BY <1>1 DEF MutInv, Lists
<1> QED BY <1>1, <1>3, <1>4 DEF Waits, Gone

-----------------------------------------------------------------------------
(* What a step does to each part of the invariant *)

(* A step that wakes the threads of S and lets all others be. *)
LEMMA MoveFacts ==
    ASSUME MutInv, NEW S, victim \notin S, victim' = victim,
           Runs(k', Gone, Idle), Wakes(k, k', S), k'.armed \subseteq k.armed \ S,
           \A t \in Thread : k.stat[t] = "suspend" =>
              (pc'[t] \in {"wait", "return"} <=> pc[t] \in {"wait", "return"}),
           \A t \in Thread : pc'[t] = "delete" <=> pc[t] = "delete",
           victim # NoThread => \A x \in Mutex : mtx'[x].owner # victim
    PROVE  /\ Runs(k, Gone, Idle)' /\ VictimApart' /\ ArmedWaits'
           /\ \A t \in Thread : Waits(t)' <=> Waits(t) /\ t \notin S
<1>1. SameWaits(k, k', S)
  BY WakesWaits
<1>2. Gone' = Gone
  BY DEF Gone
<1>3. \A t \in Thread : Waits(t)' <=> Waits(t) /\ t \notin S
  BY <1>1 DEF Waits, SameWaits
<1>4. ArmedWaits'
  <2>1. k.armed \in SUBSET Thread
    BY Types
  <2> QED BY <1>1, <2>1 DEF MutInv, ArmedWaits, SameWaits
<1>5. VictimApart'
  <2>1. CASE victim = NoThread
    BY <2>1 DEF MutInv, VictimApart
  <2>2. CASE victim # NoThread
    <3>1. victim \in Thread /\ k.stat[victim] \in {"ready", "suspend"}
      BY <2>2, Types DEF MutInv, VictimApart
    <3>2. k'.cur # victim /\ (k'.stat[victim] = "running" => victim = k'.cur)
      BY <3>1 DEF Runs, Single, Gone
    <3>3. k'.stat[victim] \in {"ready", "suspend"}
      BY <3>1, <3>2 DEF Wakes, Awake
    <3> QED BY <2>2, <3>3 DEF MutInv, VictimApart
  <2> QED BY <2>1, <2>2
<1> QED BY <1>2, <1>3, <1>4, <1>5

(* The wait lists lose the threads of S: at most one of each, or all. *)
LEMMA ListsStep ==
    ASSUME MutInv, NEW S, NEW u,
           \A t \in Thread : Waits(t)' <=> Waits(t) /\ t \notin S,
           \A t \in Thread \ S : Waits(t) => pending'[t] = pending[t] /\ err'[t] = "ok",
           \A x \in Mutex :
              /\ \/ /\ mtx'[x].waitq = RemoveFirst(mtx[x].waitq, u)
                    /\ \A t \in Thread : Linked(t, mtx[x].waitq) => (t = u <=> t \in S)
                 \/ /\ mtx'[x].waitq = <<>>
                    /\ \A t \in Thread : Linked(t, mtx[x].waitq) => t \in S
              /\ ~ mtx'[x].alive => mtx'[x].waitq = <<>> \/ ~ mtx[x].alive
    PROVE  Lists'
<1>1. ASSUME NEW t \in Thread, Waits(t)'
      PROVE  pending'[t] \in Mutex /\ err'[t] = "ok"
  BY <1>1 DEF MutInv, Lists
<1>2. ASSUME NEW x \in Mutex
      PROVE  /\ LinkedOnce(mtx'[x].waitq)
             /\ \A t \in Thread :
                   Linked(t, mtx'[x].waitq) <=> Linked(t, mtx[x].waitq) /\ t \notin S
             /\ ~ mtx'[x].alive => mtx'[x].waitq = <<>>
  <2> DEFINE q == mtx[x].waitq
             r == RemoveFirst(q, u)
  <2>1. q \in Seq(Thread) /\ LinkedOnce(q)
    BY Fields1
  <2>2. CASE /\ mtx'[x].waitq = r
             /\ \A t \in Thread : Linked(t, q) => (t = u <=> t \in S)
    <3>1. /\ LinkedOnce(r) /\ ~ Linked(u, r)
          /\ \A t : t # u => (Linked(t, r) <=> Linked(t, q))
          /\ ~ Linked(u, q) => r = q
      BY <2>1, RemoveFirstFacts
    <3>2. ~ mtx'[x].alive => r = <<>>
      <4>1. ASSUME ~ mtx[x].alive PROVE r = <<>>
        <5>1. q = <<>>
          BY <4>1 DEF MutInv, Lists
        <5>2. ~ Linked(u, q)
          BY <5>1 DEF Linked
        <5> QED BY <3>1, <5>1, <5>2
      <4> QED BY <2>2, <4>1
    <3> HIDE DEF q, r
    <3> QED BY <2>2, <3>1, <3>2 DEF q
  <2>3. CASE mtx'[x].waitq = <<>> /\ \A t \in Thread : Linked(t, q) => t \in S
    <3>1. \A t : ~ Linked(t, <<>>)
      BY DEF Linked
    <3>2. LinkedOnce(<<>>)
      BY DEF LinkedOnce
    <3> QED BY <2>3, <3>1, <3>2
  <2> QED BY <2>2, <2>3
<1>3. ASSUME NEW x \in Mutex, NEW t \in Thread
      PROVE  Linked(t, mtx'[x].waitq) <=> Waits(t)' /\ pending'[t] = x
  <2>1. Linked(t, mtx[x].waitq) <=> Waits(t) /\ pending[t] = x
    BY DEF MutInv, Lists
  <2> QED BY <1>2, <2>1
<1> QED BY <1>1, <1>2, <1>3 DEF Lists

(* The order of the lists is kept when no waiter's priority changes, and   *)
(* mutex->priority where it is recomputed or nothing happens.              *)
LEMMA OrderStep ==
    ASSUME MutInv, Up, NEW u,
           Up' => \A x \in Mutex :
              /\ \/ mtx'[x].waitq = RemoveFirst(mtx[x].waitq, u)
                 \/ mtx'[x].waitq = <<>>
              /\ \A t \in Thread : Linked(t, mtx[x].waitq) => k'.prio[t] = k.prio[t]
              /\ \/ mtx'[x].prio = HeadPrio(k', mtx'[x].waitq)
                 \/ Settled(x)' => /\ Settled(x) /\ mtx'[x].prio = mtx[x].prio
                                   /\ mtx'[x].waitq = mtx[x].waitq
    PROVE  Order'
<1> SUFFICES ASSUME Up', NEW x \in Mutex
             PROVE  /\ SortedBy(mtx'[x].waitq, k'.prio)
                    /\ Settled(x)' => mtx'[x].prio = HeadPrio(k', mtx'[x].waitq)
  BY DEF Order
<1> DEFINE q == mtx[x].waitq
<1>1. q \in Seq(Thread) /\ LinkedOnce(q)
  BY Fields1
<1>2. SortedBy(q, k.prio) /\ (Settled(x) => mtx[x].prio = HeadPrio(k, q))
  BY DEF MutInv, Order
<1>3. \A t \in Thread : Linked(t, q) => k'.prio[t] = k.prio[t]
  OBVIOUS
<1>4. \A t : Linked(t, q) => t \in Thread
  BY <1>1 DEF Linked
<1>5. SortedBy(RemoveFirst(q, u), k'.prio)
  <2> HIDE DEF q
  <2> QED BY <1>1, <1>2, <1>3, <1>4, RemoveSorted
<1>6. SortedBy(<<>>, k'.prio)
  BY DEF SortedBy
<1>7. HeadPrio(k', q) = HeadPrio(k, q)
  <2> HIDE DEF q
  <2> QED BY <1>1, <1>3, HeadPrioSame
<1> QED BY <1>2, <1>5, <1>6, <1>7

(* A list from which nobody is taken. *)
LEMMA NobodyLeaves ==
    ASSUME MutInv, NEW x \in Mutex, NEW u, ~ Linked(u, mtx[x].waitq)
    PROVE  RemoveFirst(mtx[x].waitq, u) = mtx[x].waitq
BY Fields1, RemoveFirstFacts

(* RT_NULL is in no list. *)
LEMMA NoThreadLinked ==
    ASSUME MutInv, NEW x \in Mutex
    PROVE  ~ Linked(NoThread, mtx[x].waitq)
BY Types, Fields1 DEF Linked

(* One thread leaves the wait list it is in. *)
LEMMA LeaveLists ==
    ASSUME MutInv, NEW u,
           \A t \in Thread : Waits(t)' <=> Waits(t) /\ t # u,
           \A t \in Thread \ {u} : Waits(t) => pending'[t] = pending[t] /\ err'[t] = "ok",
           \A x \in Mutex : /\ mtx'[x].waitq = RemoveFirst(mtx[x].waitq, u)
                            /\ mtx'[x].alive = mtx[x].alive
    PROVE  Lists'
<1> DEFINE S == {u}
<1>1. \A t \in Thread : Waits(t)' <=> Waits(t) /\ t \notin S
  OBVIOUS
<1>2. \A t \in Thread \ S : Waits(t) => pending'[t] = pending[t] /\ err'[t] = "ok"
  OBVIOUS
<1>3. \A x \in Mutex :
         /\ \/ /\ mtx'[x].waitq = RemoveFirst(mtx[x].waitq, u)
               /\ \A t \in Thread : Linked(t, mtx[x].waitq) => (t = u <=> t \in S)
            \/ /\ mtx'[x].waitq = <<>>
               /\ \A t \in Thread : Linked(t, mtx[x].waitq) => t \in S
         /\ ~ mtx'[x].alive => mtx'[x].waitq = <<>> \/ ~ mtx[x].alive
  OBVIOUS
<1> HIDE DEF S
<1> QED BY <1>1, <1>2, <1>3, ListsStep

(* Nobody does. *)
LEMMA KeepLists ==
    ASSUME MutInv,
           \A t \in Thread : Waits(t)' <=> Waits(t),
           \A t \in Thread : Waits(t) => pending'[t] = pending[t] /\ err'[t] = "ok",
           \A x \in Mutex : mtx'[x].waitq = mtx[x].waitq /\ mtx'[x].alive = mtx[x].alive
    PROVE  Lists'
<1>1. \A t \in Thread : t # NoThread
  BY Types
<1>2. \A x \in Mutex : mtx'[x].waitq = RemoveFirst(mtx[x].waitq, NoThread)
  BY NobodyLeaves, NoThreadLinked
<1>3. \A t \in Thread : Waits(t)' <=> Waits(t) /\ t # NoThread
  BY <1>1
<1> QED BY <1>2, <1>3, LeaveLists

(* Where no list changes, nor the priority of a waiter. *)
LEMMA KeepOrder ==
    ASSUME MutInv, Up,
           Up' => \A x \in Mutex :
              /\ mtx'[x].waitq = mtx[x].waitq
              /\ \A t \in Thread : Linked(t, mtx[x].waitq) => k'.prio[t] = k.prio[t]
              /\ \/ mtx'[x].prio = HeadPrio(k', mtx'[x].waitq)
                 \/ Settled(x)' => Settled(x) /\ mtx'[x].prio = mtx[x].prio
    PROVE  Order'
<1>1. \A x \in Mutex : RemoveFirst(mtx[x].waitq, NoThread) = mtx[x].waitq
  BY NobodyLeaves, NoThreadLinked
<1>2. Up' => \A x \in Mutex :
        /\ \/ mtx'[x].waitq = RemoveFirst(mtx[x].waitq, NoThread)
           \/ mtx'[x].waitq = <<>>
        /\ \A t \in Thread : Linked(t, mtx[x].waitq) => k'.prio[t] = k.prio[t]
        /\ \/ mtx'[x].prio = HeadPrio(k', mtx'[x].waitq)
           \/ Settled(x)' => /\ Settled(x) /\ mtx'[x].prio = mtx[x].prio
                             /\ mtx'[x].waitq = mtx[x].waitq
  BY <1>1
<1> QED BY <1>2, OrderStep

(* Ownership is kept where owners stay and nobody joins a wait list. *)
LEMMA OwnersStep ==
    ASSUME MutInv, TypeOK',
           \A x \in Mutex :
              /\ mtx'[x].owner = mtx[x].owner
              /\ mtx'[x].hold = 0 <=> mtx[x].hold = 0
              /\ \A t : Linked(t, mtx'[x].waitq) => Linked(t, mtx[x].waitq),
           \A t \in Thread : taken'[t] \subseteq taken[t]
    PROVE  OwnershipExact'
<1>1. TypeOK' /\ \A x \in Mutex, t \in Thread : x \in taken'[t] => mtx'[x].owner = t
  BY DEF MutInv, OwnershipExact
<1>2. ASSUME NEW x \in Mutex
      PROVE  /\ mtx'[x].owner = NoThread <=> mtx'[x].hold = 0
             /\ mtx'[x].owner = NoThread => mtx'[x].waitq = <<>>
             /\ ~ Linked(mtx'[x].owner, mtx'[x].waitq)
  <2>1. mtx'[x].waitq \in Seq(Thread)
    BY <1>1, RecordFields DEF TypeOK
  <2>2. /\ mtx[x].owner = NoThread <=> mtx[x].hold = 0
        /\ mtx[x].owner = NoThread => mtx[x].waitq = <<>>
        /\ ~ Linked(mtx[x].owner, mtx[x].waitq)
    BY DEF MutInv, OwnershipExact
  <2>3. \A t : ~ Linked(t, <<>>)
    BY DEF Linked
  <2>4. mtx[x].owner = NoThread => \A t \in Thread : ~ Linked(t, mtx'[x].waitq)
    BY <2>2, <2>3
  <2>5. mtx[x].owner = NoThread => mtx'[x].waitq = <<>>
    BY <2>1, <2>4, EmptyFacts
  <2> QED BY <2>2, <2>5
<1> QED BY <1>1, <1>2 DEF OwnershipExact

-----------------------------------------------------------------------------
(* The steps *)

(* A thread that runs goes on; no place of a waiter or of a deletion       *)
(* changes.                                                                *)
LEMMA GoesOn ==
    ASSUME MutInv, NEW t \in Thread, NEW p, At(t, p), p \notin {"wait", "sched", "delete"},
           NEW q \in {"user", "wait", "return", "sched"},
           pc' = pc \/ Goto(t, q)
    PROVE  /\ pc' \in [Thread -> Place]
           /\ \A u \in Thread : k.stat[u] = "suspend" =>
                 (pc'[u] \in {"wait", "return"} <=> pc[u] \in {"wait", "return"})
           /\ \A u \in Thread : pc'[u] = "delete" <=> pc[u] = "delete"
           /\ \A u \in Thread \ {t} : pc'[u] = pc[u]
<1>1. k.stat[t] = "running" /\ pc[t] = p
  BY Running DEF At
<1>2. pc \in [Thread -> Place]
  BY Types
<1> QED BY <1>1, <1>2 DEF Goto, Place

(* Where a step leaves the kernel's lists alone. *)
LEMMA StillMoves ==
    ASSUME MutInv
    PROVE  Runs(k, Gone, Idle) /\ Wakes(k, k, {}) /\ k.armed \subseteq k.armed \ {}
BY DEF MutInv, Wakes

(* Calls that change a counter, a ceiling or nothing but the caller's      *)
(* place.                                                                  *)
LEMMA StillInv ==
    ASSUME MutInv, NEW t \in Thread,
           \/ \E x \in Mutex : TakeAgain(t, x) \/ ReleaseNested(t, x)
           \/ \E x \in Mutex, c \in Ceilings : SetCeiling(t, x, c)
           \/ TakeReturn(t)
    PROVE  /\ MutInv' /\ Wakes(k, k', {}) /\ \A u \in Thread : Waits(u)' <=> Waits(u)
           /\ \A y \in Mutex : /\ mtx'[y].waitq = mtx[y].waitq /\ mtx'[y].owner = mtx[y].owner
                               /\ mtx'[y].prio = mtx[y].prio /\ mtx'[y].alive = mtx[y].alive
<1>1. /\ k' = k /\ taken' = taken /\ pending' = pending /\ victim' = victim /\ fault' = fault
      /\ Up /\ \E p \in {"user", "return"} : At(t, p)
      /\ pc' = pc \/ Goto(t, "user")
      /\ err' = err \/ err' = [err EXCEPT ![t] = "ok"]
  BY DEF TakeAgain, ReleaseNested, SetCeiling, TakeReturn, Calls, At
<1>2. PICK p \in {"user", "return"} : At(t, p)
  BY <1>1
<1>3. /\ k.cur = t /\ k.stat[t] = "running" /\ t # victim /\ ~ Waits(t)
      /\ \A x \in Mutex : ~ Linked(t, mtx[x].waitq)
  BY <1>2, Running
<1>4. /\ pc' \in [Thread -> Place]
      /\ \A u \in Thread : k.stat[u] = "suspend" =>
            (pc'[u] \in {"wait", "return"} <=> pc[u] \in {"wait", "return"})
      /\ \A u \in Thread : pc'[u] = "delete" <=> pc[u] = "delete"
      /\ \A u \in Thread \ {t} : pc'[u] = pc[u]
  BY <1>1, <1>2, GoesOn
<1>5. /\ mtx' \in Records
      /\ \A y \in Mutex :
            /\ mtx'[y].owner = mtx[y].owner /\ mtx'[y].waitq = mtx[y].waitq
            /\ mtx'[y].prio = mtx[y].prio /\ mtx'[y].alive = mtx[y].alive
            /\ mtx'[y].hold = 0 <=> mtx[y].hold = 0
  <2>1. mtx \in Records /\ MaxHold \in Nat \ {0} /\ Ceilings \subseteq Prio
    BY Types, MutexAssumption
  <2>2. CASE TakeReturn(t)
    BY <2>1, <2>2 DEF TakeReturn
  <2>3. CASE \E x \in Mutex, c \in Ceilings : SetCeiling(t, x, c)
    <3>1. PICK x \in Mutex, c \in Prio : mtx' = [mtx EXCEPT ![x].ceil = c]
      BY <2>1, <2>3 DEF SetCeiling
    <3> QED BY <2>1, <3>1 DEF Records, MutexRecord
  <2>4. CASE \E x \in Mutex : TakeAgain(t, x) \/ ReleaseNested(t, x)
    <3>1. PICK x \in Mutex, h \in 1 .. MaxHold :
             mtx[x].hold # 0 /\ mtx' = [mtx EXCEPT ![x].hold = h]
      <4>1. PICK x \in Mutex : TakeAgain(t, x) \/ ReleaseNested(t, x)
        BY <2>4
      <4>2. mtx[x].hold \in 0 .. MaxHold /\ mtx[x].owner = t
        BY <4>1, Fields1 DEF TakeAgain, ReleaseNested
      <4>3. mtx[x].hold # 0
        BY <4>2, Types DEF MutInv, OwnershipExact
      <4>4. CASE TakeAgain(t, x)
        <5> DEFINE h == mtx[x].hold + 1
        <5>1. h \in 1 .. MaxHold /\ mtx' = [mtx EXCEPT ![x].hold = h]
          BY <2>1, <4>2, <4>3, <4>4 DEF TakeAgain
        <5> QED BY <4>3, <5>1
      <4>5. CASE ReleaseNested(t, x)
        <5> DEFINE h == mtx[x].hold - 1
        <5>1. h \in 1 .. MaxHold /\ mtx' = [mtx EXCEPT ![x].hold = h]
          BY <2>1, <4>2, <4>3, <4>5 DEF ReleaseNested
        <5> QED BY <4>3, <5>1
      <4> QED BY <4>1, <4>4, <4>5
    <3>2. h \in 0 .. MaxHold /\ h # 0
      BY <2>1
    <3> QED BY <2>1, <3>1, <3>2 DEF Records, MutexRecord
  <2> QED BY <2>2, <2>3, <2>4
<1>6. /\ err' \in [Thread -> Code] /\ \A u \in Thread : err'[u] = err[u] \/ err'[u] = "ok"
      /\ \A u \in Thread \ {t} : err'[u] = err[u]
      /\ pc[t] \in {"wait", "return"} => err[t] = "ok"
  BY <1>1, Types DEF Code, TakeAgain, ReleaseNested, SetCeiling, TakeReturn, Calls, At
<1>7. TypeOK'
  BY <1>1, <1>4, <1>5, <1>6, Types DEF TypeOK, Place, Code, Records
<1>8. OwnershipExact'
  BY <1>1, <1>5, <1>7, OwnersStep
<1>9. /\ Runs(k, Gone, Idle)' /\ VictimApart' /\ ArmedWaits'
      /\ \A u \in Thread : Waits(u)' <=> Waits(u) /\ u \notin {}
  <2>1. /\ Runs(k', Gone, Idle) /\ Wakes(k, k', {}) /\ k'.armed \subseteq k.armed \ {}
    BY <1>1, StillMoves
  <2>2. victim # NoThread => \A x \in Mutex : mtx'[x].owner # victim
    BY <1>5, <1>6, Types DEF MutInv, VictimApart
  <2> QED BY <1>1, <1>4, <2>1, <2>2, MoveFacts
<1>10. CurrentPlaced'
  BY <1>1, <1>3 DEF CurrentPlaced
<1>11. FailedWaits'
  <2>1. pc'[t] \notin {"wait", "return"} \/ pc' = pc
    BY <1>1, Types DEF Goto
  <2>2. \A u \in Thread : pc'[u] \in {"wait", "return"} => pc[u] \in {"wait", "return"}
    BY <1>4, <2>1
  <2>3. Wakes(k, k', {})
    BY <1>1, StillMoves
  <2> QED BY <1>1, <1>6, <2>2, <2>3 DEF MutInv, FailedWaits, Wakes, Awake
<1>12. Lists'
  <2>1. \A u \in Thread \ {} : Waits(u) => pending'[u] = pending[u] /\ err'[u] = "ok"
    BY <1>1, <1>6 DEF MutInv, Lists
  <2>2. \A u \in Thread : Waits(u)' <=> Waits(u)
    BY <1>9
  <2> QED BY <1>5, <2>1, <2>2, KeepLists
<1>13. Order'
  <2>1. ASSUME NEW x \in Mutex, Settled(x)' PROVE Settled(x)
    <3>1. ASSUME NEW u \in Thread, Failing(u, x) PROVE Failing(u, x)'
      <4>1. u # t
        BY <1>6, <3>1 DEF Failing
      <4> QED BY <1>1, <1>4, <1>6, <3>1, <4>1 DEF Failing
    <3> QED BY <1>1, <1>5, <2>1, <3>1 DEF Settled
  <2> QED BY <1>1, <1>5, <2>1, KeepOrder
<1>14. Wakes(k, k', {})
  BY <1>1, StillMoves
<1> QED BY <1>5, <1>8, <1>9, <1>10, <1>11, <1>12, <1>13, <1>14 DEF MutInv

(* The priority of a thread changes, or nothing. *)
LEMMA PrioMoves ==
    ASSUME MutInv, NEW t \in Thread \ Gone,
           NEW k1, k1 = k \/ \E p \in Prio : k1 = ChangePriority(k, t, p)
    PROVE  /\ Runs(k1, Gone, Idle) /\ Wakes(k, k1, {})
           /\ k1.cur = k.cur /\ k1.stat = k.stat /\ k1.armed = k.armed
           /\ \A u \in Thread \ {t} : k1.prio[u] = k.prio[u]
<1>1. Runs(k, Gone, Idle)
  BY DEF MutInv
<1>2. CASE k1 = k
  BY <1>2, StillMoves
<1>3. ASSUME NEW p \in Prio, k1 = ChangePriority(k, t, p)
      PROVE  /\ Runs(k1, Gone, Idle) /\ Wakes(k, k1, {})
             /\ k1.cur = k.cur /\ k1.stat = k.stat /\ k1.armed = k.armed
             /\ \A u \in Thread \ {t} : k1.prio[u] = k.prio[u]
  <2>1. k1.prio = [k.prio EXCEPT ![t] = p]
    BY <1>3, Types, PriorityIs
  <2>2. /\ Runs(k1, Gone, Idle) /\ Wakes(k, k1, {})
        /\ k1.cur = k.cur /\ k1.stat = k.stat /\ k1.armed = k.armed
    BY <1>1, <1>3, PriorityRuns
  <2> QED BY <2>1, <2>2, Types
<1> QED BY <1>2, <1>3

(* The priority a thread is left with. *)
LEMMA LoweredIs ==
    ASSUME MutInv, NEW t \in Thread, NEW x \in Mutex
    PROVE  Lowered(t, x) = k \/ \E p \in Prio : Lowered(t, x) = ChangePriority(k, t, p)
<1>1. taken[t] \ {x} \in SUBSET Mutex /\ mtx \in Records
  BY Types
<1>2. MutexPriority(mtx, taken[t] \ {x}, t) \in Prio
  BY <1>1, MutexPriorityIs
<1> QED BY <1>2 DEF Lowered

(* A mutex is taken, or given up, that nobody waits for. *)
LEMMA FreeInv ==
    ASSUME MutInv, NEW t \in Thread, NEW x \in Mutex, TakeFree(t, x) \/ ReleaseFree(t, x)
    PROVE  /\ MutInv' /\ Wakes(k, k', {}) /\ \A u \in Thread : Waits(u)' <=> Waits(u)
           /\ \A y \in Mutex : mtx'[y].waitq = mtx[y].waitq
           /\ k'.armed \subseteq k.armed
<1>1. /\ pending' = pending /\ victim' = victim /\ fault' = fault
      /\ At(t, "user") /\ Up
      /\ pc' = pc \/ Goto(t, "user") \/ Goto(t, "sched")
      /\ err' = err \/ err' = [err EXCEPT ![t] = "ok"]
  BY DEF TakeFree, ReleaseFree, Calls, At
<1>2. /\ k.cur = t /\ k.stat[t] = "running" /\ t \in Thread \ Gone /\ t # victim /\ ~ Waits(t)
      /\ \A y \in Mutex : ~ Linked(t, mtx[y].waitq)
  BY <1>1, Running
<1>3. /\ pc' \in [Thread -> Place]
      /\ \A u \in Thread : k.stat[u] = "suspend" =>
            (pc'[u] \in {"wait", "return"} <=> pc[u] \in {"wait", "return"})
      /\ \A u \in Thread : pc'[u] = "delete" <=> pc[u] = "delete"
      /\ \A u \in Thread \ {t} : pc'[u] = pc[u]
      /\ pc[t] \notin {"wait", "return"} /\ pc'[t] \notin {"wait", "return"}
  BY <1>1, GoesOn, Types DEF Goto, At
<1>4. k' = k \/ \E p \in Prio : k' = ChangePriority(k, t, p)
  <2>1. CASE TakeFree(t, x)
    <3>1. mtx[x].ceil \in Prio \/ mtx[x].ceil = NoPrio
      BY Fields1
    <3> QED BY <2>1, <3>1 DEF TakeFree
  <2>2. CASE ReleaseFree(t, x)
    BY <2>2, LoweredIs DEF ReleaseFree
  <2> QED BY <2>1, <2>2
<1>5. /\ Runs(k', Gone, Idle) /\ Wakes(k, k', {})
      /\ k'.cur = k.cur /\ k'.stat = k.stat /\ k'.armed = k.armed
      /\ \A u \in Thread \ {t} : k'.prio[u] = k.prio[u]
  BY <1>2, <1>4, PrioMoves
<1>6. PICK o \in {t, NoThread}, h \in {0, 1} :
                  /\ o = NoThread <=> h = 0
                  /\ mtx' = [mtx EXCEPT ![x].owner = o, ![x].hold = h, ![x].prio = NoPrio]
                  /\ mtx[x].owner \in {t, NoThread} /\ mtx[x].waitq = <<>>
                  /\ taken' \in [Thread -> SUBSET Mutex]
                  /\ \A u \in Thread \ {t} : taken'[u] = taken[u]
                  /\ taken'[t] \subseteq taken[t] \cup {x}
                  /\ o = NoThread => x \notin taken'[t]
  <2>1. CASE TakeFree(t, x)
    <3>1. mtx[x].waitq = <<>>
      BY <2>1 DEF TakeFree, MutInv, OwnershipExact
    <3>2. /\ mtx' = [mtx EXCEPT ![x].owner = t, ![x].hold = 1, ![x].prio = NoPrio]
          /\ mtx[x].owner = NoThread
          /\ taken' = taken \/ taken' = [taken EXCEPT ![t] = @ \cup {x}]
      BY <2>1 DEF TakeFree
    <3>3. /\ taken' \in [Thread -> SUBSET Mutex] /\ t # NoThread
          /\ \A u \in Thread \ {t} : taken'[u] = taken[u]
          /\ taken'[t] \subseteq taken[t] \cup {x}
      BY <3>2, Types
    <3> WITNESS t \in {t, NoThread}, 1 \in {0, 1}
    <3> QED BY <3>1, <3>2, <3>3
  <2>2. CASE ReleaseFree(t, x)
    <3>1. /\ mtx' = [mtx EXCEPT ![x].owner = NoThread, ![x].hold = 0, ![x].prio = NoPrio]
          /\ mtx[x].owner = t /\ mtx[x].waitq = <<>>
          /\ taken' = [taken EXCEPT ![t] = @ \ {x}]
      BY <2>2 DEF ReleaseFree
    <3>2. /\ taken' \in [Thread -> SUBSET Mutex] /\ x \notin taken'[t]
          /\ \A u \in Thread \ {t} : taken'[u] = taken[u]
          /\ taken'[t] \subseteq taken[t] \cup {x}
      BY <3>1, Types
    <3> WITNESS NoThread \in {t, NoThread}, 0 \in {0, 1}
    <3> QED BY <3>1, <3>2
  <2> QED BY <2>1, <2>2
<1>7. /\ o \in {t, NoThread} /\ h \in 0 .. MaxHold /\ (o = NoThread <=> h = 0)
      /\ o \in Thread \cup {NoThread}
  BY <1>6, MutexAssumption, KernelAssumption
<1>8. /\ mtx' \in Records
      /\ \A y \in Mutex : mtx'[y].waitq = mtx[y].waitq /\ mtx'[y].alive = mtx[y].alive
      /\ \A y \in Mutex \ {x} : mtx'[y] = mtx[y]
      /\ mtx'[x].owner = o /\ mtx'[x].hold = h /\ mtx'[x].prio = NoPrio
  <2> DEFINE r == [mtx[x] EXCEPT !.owner = o, !.hold = h, !.prio = NoPrio]
  <2>1. r \in MutexRecord
    BY <1>7, Fields1 DEF MutexRecord
  <2>2. mtx' = [mtx EXCEPT ![x] = r]
    BY <1>6, Types DEF Records
  <2>3. r.owner = o /\ r.hold = h /\ r.prio = NoPrio /\ r.waitq = mtx[x].waitq
    BY Fields1 DEF MutexRecord
  <2>4. r.alive = mtx[x].alive
    BY Fields1 DEF MutexRecord
  <2> HIDE DEF r
  <2> QED BY <2>1, <2>2, <2>3, <2>4, Types DEF Records
<1>9. err' \in [Thread -> Code] /\ \A u \in Thread \ {t} : err'[u] = err[u]
  BY <1>1, Types DEF Code
<1>10. TypeOK'
  <2>1. k' \in KernelState
    BY <1>5, RunsType
  <2> QED BY <1>1, <1>3, <1>6, <1>8, <1>9, <2>1, Types DEF TypeOK, Place, Code, Records
<1>11. OwnershipExact'
  <2>1. ASSUME NEW y \in Mutex
        PROVE  /\ mtx'[y].owner = NoThread <=> mtx'[y].hold = 0
               /\ mtx'[y].owner = NoThread => mtx'[y].waitq = <<>>
               /\ ~ Linked(mtx'[y].owner, mtx'[y].waitq)
               /\ \A u \in Thread : y \in taken'[u] => mtx'[y].owner = u
    <3>1. CASE y # x
      <4>1. mtx'[y] = mtx[y] /\ \A u \in Thread : y \in taken'[u] => y \in taken[u]
        BY <1>6, <1>8, <3>1
      <4>2. /\ mtx[y].owner = NoThread <=> mtx[y].hold = 0
            /\ mtx[y].owner = NoThread => mtx[y].waitq = <<>>
            /\ ~ Linked(mtx[y].owner, mtx[y].waitq)
            /\ \A u \in Thread : y \in taken[u] => mtx[y].owner = u
        BY DEF MutInv, OwnershipExact
      <4> QED BY <4>1, <4>2
    <3>2. CASE y = x
      <4>1. \A u \in Thread \ {t} : x \notin taken[u]
        BY <1>6, Types DEF MutInv, OwnershipExact
      <4>2. ~ Linked(o, <<>>)
        BY DEF Linked
      <4> QED BY <1>6, <1>7, <1>8, <3>2, <4>1, <4>2
    <3> QED BY <3>1, <3>2
  <2> QED BY <1>10, <2>1 DEF OwnershipExact
<1>12. /\ Runs(k, Gone, Idle)' /\ VictimApart' /\ ArmedWaits'
       /\ \A u \in Thread : Waits(u)' <=> Waits(u) /\ u \notin {}
  <2>1. k'.armed \subseteq k.armed \ {}
    BY <1>5
  <2>2. victim # NoThread => \A y \in Mutex : mtx'[y].owner # victim
    BY <1>2, <1>7, <1>8, <1>9, Types DEF MutInv, VictimApart
  <2> QED BY <1>1, <1>3, <1>5, <2>1, <2>2, MoveFacts
<1>13. CurrentPlaced'
  BY <1>2, <1>5 DEF CurrentPlaced
<1>14. FailedWaits'
  BY <1>1, <1>3, <1>5, <1>9 DEF MutInv, FailedWaits, Wakes, Awake
<1>15. Lists'
  <2>1. \A u \in Thread : Waits(u)' <=> Waits(u)
    BY <1>12
  <2>2. \A u \in Thread : Waits(u) => pending'[u] = pending[u] /\ err'[u] = "ok"
    BY <1>1, <1>2, <1>9 DEF MutInv, Lists
  <2> QED BY <1>8, <2>1, <2>2, KeepLists
<1>16. Order'
  <2>1. ASSUME NEW y \in Mutex, Settled(y)' PROVE Settled(y)
    <3>1. ASSUME NEW u \in Thread, Failing(u, y) PROVE Failing(u, y)'
      <4>1. u # t
        BY <1>3, <3>1 DEF Failing
      <4> QED BY <1>1, <1>3, <1>5, <1>9, <3>1, <4>1 DEF Failing
    <3> QED BY <1>1, <1>8, <2>1, <3>1 DEF Settled
  <2>2. mtx'[x].prio = HeadPrio(k', mtx'[x].waitq)
    BY <1>6, <1>8 DEF HeadPrio
  <2>3. \A y \in Mutex : \/ mtx'[y].prio = HeadPrio(k', mtx'[y].waitq)
                         \/ Settled(y)' => Settled(y) /\ mtx'[y].prio = mtx[y].prio
    BY <1>8, <2>1, <2>2
  <2> QED BY <1>1, <1>2, <1>5, <1>8, <2>3, KeepOrder
<1> QED BY <1>5, <1>8, <1>11, <1>12, <1>13, <1>14, <1>15, <1>16 DEF MutInv

(* A mutex is handed over to the first thread that waits for it. *)
LEMMA HandOverInv ==
    ASSUME MutInv, NEW t \in Thread, NEW x \in Mutex, HandOver(t, x)
    PROVE  LET n == Head(mtx[x].waitq)
           IN  /\ MutInv' /\ n \in Thread /\ Linked(n, mtx[x].waitq) /\ Wakes(k, k', {n})
               /\ \A u \in Thread : Waits(u)' <=> Waits(u) /\ u # n
               /\ \A y \in Mutex : mtx'[y].waitq = RemoveFirst(mtx[y].waitq, n)
               /\ n # t /\ k'.prio = Lowered(t, x).prio /\ k'.armed \subseteq k.armed
<1> DEFINE q == mtx[x].waitq
           n == Head(q)
           k1 == Lowered(t, x)
<1>1. /\ At(t, "user") /\ Up /\ mtx[x].owner = t /\ mtx[x].hold = 1 /\ q # <<>>
      /\ k' = ResumeThread(k1, n)
      /\ mtx' = [mtx EXCEPT ![x].owner = n, ![x].hold = 1, ![x].waitq = Tail(q),
                            ![x].prio = HeadPrio(k, Tail(q))]
      /\ taken' = [taken EXCEPT ![t] = @ \ {x}, ![n] = @ \cup {x}]
      /\ pending' = [pending EXCEPT ![n] = NoMutex]
      /\ Goto(t, "sched")
      /\ err' = err /\ victim' = victim /\ fault' = fault
  BY DEF HandOver, Calls, At
<1>2. /\ k.cur = t /\ k.stat[t] = "running" /\ t \in Thread \ Gone /\ t # victim /\ ~ Waits(t)
      /\ \A y \in Mutex : ~ Linked(t, mtx[y].waitq)
  BY <1>1, Running
<1>3. /\ pc' \in [Thread -> Place]
      /\ \A u \in Thread : k.stat[u] = "suspend" =>
            (pc'[u] \in {"wait", "return"} <=> pc[u] \in {"wait", "return"})
      /\ \A u \in Thread : pc'[u] = "delete" <=> pc[u] = "delete"
      /\ \A u \in Thread \ {t} : pc'[u] = pc[u]
      /\ pc[t] \notin {"wait", "return"} /\ pc'[t] \notin {"wait", "return"}
  BY <1>1, GoesOn, Types DEF Goto, At
<1>4. /\ Linked(n, q) /\ Tail(q) = RemoveFirst(q, n) /\ ~ Linked(n, Tail(q))
      /\ Tail(q) \in Seq(Thread) /\ n \in Thread
      /\ \A u : Linked(u, Tail(q)) => Linked(u, q)
  BY <1>1, Fields1, HeadFacts, TailFacts
<1>5. /\ Waits(n) /\ k.stat[n] = "suspend" /\ n \in Thread \ Gone /\ n # victim
      /\ pending[n] = x /\ err[n] = "ok" /\ n # t
      /\ \A y \in Mutex : Linked(n, mtx[y].waitq) => y = x
  BY <1>2, <1>4, Waiter
<1>6. /\ Runs(k1, Gone, Idle) /\ Wakes(k, k1, {})
      /\ k1.cur = k.cur /\ k1.stat = k.stat /\ k1.armed = k.armed
      /\ \A u \in Thread \ {t} : k1.prio[u] = k.prio[u]
  BY <1>2, LoweredIs, PrioMoves
<1> HIDE DEF n, k1
<1>7. /\ Runs(k', Gone, Idle) /\ Wakes(k, k', {n}) /\ k'.cur = k.cur
      /\ k'.armed = k.armed \ {n} /\ \A u \in Thread \ {t} : k'.prio[u] = k.prio[u]
      /\ k'.prio = k1.prio
  <2>1. /\ Runs(k', Gone, Idle) /\ Wakes(k1, k', {n})
        /\ k'.cur = k1.cur /\ k'.armed = k1.armed \ {n} /\ k'.prio = k1.prio
    <3>1. Runs(k1, Gone, Idle)
      BY <1>6
    <3>2. n \in Thread \ Gone /\ k1.stat[n] = "suspend"
      BY <1>5, <1>6
    <3>3. k' = ResumeThread(k1, n)
      BY <1>1 DEF n, k1
    <3> QED BY <3>1, <3>2, <3>3, ResumeRuns
  <2> QED BY <1>6, <2>1 DEF Wakes
<1>8. /\ mtx' \in Records
      /\ \A y \in Mutex \ {x} : mtx'[y] = mtx[y]
      /\ mtx'[x].owner = n /\ mtx'[x].hold = 1 /\ mtx'[x].waitq = Tail(q)
      /\ mtx'[x].prio = HeadPrio(k, Tail(q)) /\ mtx'[x].alive = mtx[x].alive
  <2> DEFINE h == HeadPrio(k, Tail(q))
             r == [mtx[x] EXCEPT !.owner = n, !.hold = 1, !.waitq = Tail(q), !.prio = h]
  <2>1. h \in Prio \cup {NoPrio} /\ 1 \in 0 .. MaxHold
    <3>1. 1 \in 0 .. MaxHold
      BY MutexAssumption
    <3>2. Tail(q) \in Seq(Thread) /\ k.prio \in [Thread -> Prio]
      BY <1>4, Types
    <3> QED BY <3>1, <3>2, HeadPrioIs
  <2> HIDE DEF h
  <2>2. r \in MutexRecord
    BY <1>4, <2>1, Fields1 DEF MutexRecord
  <2>3. mtx' = [mtx EXCEPT ![x] = r]
    BY <1>1, Types DEF Records, h
  <2>4. r.owner = n /\ r.hold = 1 /\ r.prio = h /\ r.waitq = Tail(q)
    BY Fields1 DEF MutexRecord
  <2>5. r.alive = mtx[x].alive
    BY Fields1 DEF MutexRecord
  <2> HIDE DEF r
  <2> QED BY <2>2, <2>3, <2>4, <2>5, Types DEF Records, h
<1>9. /\ taken' \in [Thread -> SUBSET Mutex]
      /\ pending' \in [Thread -> Mutex \cup {NoMutex}]
      /\ \A u \in Thread \ {n} : pending'[u] = pending[u]
      /\ \A u \in Thread, y \in Mutex :
            y \in taken'[u] <=> IF y = x /\ u \in {t, n} THEN u = n ELSE y \in taken[u]
  BY <1>1, <1>5, Types
<1>10. TypeOK'
  <2>1. k' \in KernelState
    BY <1>7, RunsType
  <2> QED BY <1>1, <1>3, <1>8, <1>9, <2>1, Types DEF TypeOK, Place, Code, Records
<1>11. OwnershipExact'
  <2>1. ASSUME NEW y \in Mutex
        PROVE  /\ mtx'[y].owner = NoThread <=> mtx'[y].hold = 0
               /\ mtx'[y].owner = NoThread => mtx'[y].waitq = <<>>
               /\ ~ Linked(mtx'[y].owner, mtx'[y].waitq)
               /\ \A u \in Thread : y \in taken'[u] => mtx'[y].owner = u
    <3>1. CASE y # x
      BY <1>8, <1>9, <3>1 DEF MutInv, OwnershipExact
    <3>2. CASE y = x
      <4>1. \A u \in Thread \ {t} : x \notin taken[u]
        BY <1>1 DEF MutInv, OwnershipExact
      <4> QED BY <1>4, <1>8, <1>9, <3>2, <4>1, Types
    <3> QED BY <3>1, <3>2
  <2> QED BY <1>10, <2>1 DEF OwnershipExact
<1>12. /\ Runs(k, Gone, Idle)' /\ VictimApart' /\ ArmedWaits'
       /\ \A u \in Thread : Waits(u)' <=> Waits(u) /\ u \notin {n}
  <2>1. k'.armed \subseteq k.armed \ {n} /\ victim \notin {n}
    BY <1>5, <1>7
  <2>2. victim # NoThread => \A y \in Mutex : mtx'[y].owner # victim
    <3>1. victim # NoThread => \A y \in Mutex : mtx[y].owner # victim
      BY DEF MutInv, VictimApart
    <3>2. \A y \in Mutex : mtx'[y].owner \in {mtx[y].owner, n}
      BY <1>8
    <3> QED BY <1>1, <1>5, <3>1, <3>2
  <2> QED BY <1>1, <1>3, <1>7, <2>1, <2>2, MoveFacts
<1>13. CurrentPlaced'
  <2>1. k'.stat[t] # "suspend"
    BY <1>2, <1>5, <1>7 DEF Wakes, Awake
  <2> QED BY <1>2, <1>7, <2>1 DEF CurrentPlaced
<1>14. FailedWaits'
  BY <1>1, <1>3, <1>5, <1>7, <1>9 DEF MutInv, FailedWaits, Wakes, Awake
<1>15. \A y \in Mutex : /\ mtx'[y].waitq = RemoveFirst(mtx[y].waitq, n)
                        /\ mtx'[y].alive = mtx[y].alive
  BY <1>4, <1>5, <1>8, NobodyLeaves
<1>16. \A u \in Thread : Waits(u)' <=> Waits(u) /\ u # n
  BY <1>12
<1>17. Lists'
  <2>1. \A u \in Thread \ {n} : Waits(u) => pending'[u] = pending[u] /\ err'[u] = "ok"
    BY <1>1, <1>9 DEF MutInv, Lists
  <2> QED BY <1>15, <1>16, <2>1, LeaveLists
<1>18. Order'
  <2>1. ASSUME NEW y \in Mutex, Settled(y)', y # x PROVE Settled(y)
    <3>1. ASSUME NEW u \in Thread, Failing(u, y) PROVE Failing(u, y)'
      <4>1. u # t /\ u # n
        BY <1>3, <1>5, <3>1 DEF Failing
      <4>2. k'.stat[u] # "close"
        BY <1>7, <3>1, <4>1 DEF Wakes, Awake, Failing
      <4> QED BY <1>1, <1>3, <1>9, <3>1, <4>1, <4>2 DEF Failing
    <3>2. victim = NoThread \/ pending[victim] # y
      BY <1>1, <1>5, <1>9, <2>1, Types DEF Settled
    <3> QED BY <1>15, <2>1, <3>1, <3>2 DEF Settled
  <2>2. mtx'[x].prio = HeadPrio(k', mtx'[x].waitq)
    <3>1. \A u \in Thread : Linked(u, Tail(q)) => k.prio[u] = k'.prio[u]
      BY <1>2, <1>4, <1>7
    <3>2. HeadPrio(k, Tail(q)) = HeadPrio(k', Tail(q))
      BY <1>4, <3>1, HeadPrioSame
    <3> QED BY <1>8, <3>2
  <2>3. \A y \in Mutex :
           \/ mtx'[y].prio = HeadPrio(k', mtx'[y].waitq)
           \/ Settled(y)' => /\ Settled(y) /\ mtx'[y].prio = mtx[y].prio
                             /\ mtx'[y].waitq = mtx[y].waitq
    BY <1>8, <2>1, <2>2
  <2>4. \A y \in Mutex, u \in Thread : Linked(u, mtx[y].waitq) => k'.prio[u] = k.prio[u]
    BY <1>2, <1>7
  <2> QED BY <1>1, <1>15, <2>3, <2>4, OrderStep
<1>19. MutInv'
  BY <1>11, <1>12, <1>13, <1>14, <1>17, <1>18 DEF MutInv
<1> QED BY <1>4, <1>5, <1>7, <1>15, <1>16, <1>19 DEF n, k1

(* A step of the scheduler, which wakes no waiter. *)
LEMMA KernelInv ==
    ASSUME MutInv, Up, NEW S, victim \notin S,
           Runs(k', Gone, Idle), Wakes(k, k', S), k'.armed \subseteq k.armed \ S,
           k'.prio = k.prio,
           \A t \in S : ~ Waits(t),
           CurrentPlaced', pc' \in [Thread -> Place],
           \A t \in Thread : pc'[t] \in {"wait", "return"} <=> pc[t] \in {"wait", "return"},
           \A t \in Thread : pc'[t] = "delete" <=> pc[t] = "delete",
           mtx' = mtx, taken' = taken, pending' = pending,
           victim' = victim, fault' = fault,
           err' \in [Thread -> Code],
           \A t \in Thread : pc[t] \in {"wait", "return"} => err'[t] = err[t],
           \A t \in S : k.stat[t] # "close" /\ err[t] = err'[t]
    PROVE  MutInv' /\ \A u \in Thread : Waits(u)' <=> Waits(u)
<1>1. TypeOK'
  <2>1. k' \in KernelState
    BY RunsType
  <2> QED BY <2>1, Types DEF TypeOK, Place, Code, Records
<1>2. OwnershipExact'
  BY <1>1, OwnersStep
<1>3. /\ Runs(k, Gone, Idle)' /\ VictimApart' /\ ArmedWaits'
      /\ \A u \in Thread : Waits(u)' <=> Waits(u) /\ u \notin S
  <2>1. victim # NoThread => \A y \in Mutex : mtx'[y].owner # victim
    BY DEF MutInv, VictimApart
  <2> QED BY <2>1, MoveFacts
<1>4. \A u \in Thread : Waits(u)' <=> Waits(u)
  BY <1>3
<1>5. FailedWaits'
  BY DEF MutInv, FailedWaits, Wakes, Awake
<1>6. Lists'
  <2>1. \A u \in Thread : Waits(u) => pending'[u] = pending[u] /\ err'[u] = "ok"
    BY DEF MutInv, Lists, Waits
  <2> QED BY <1>4, <2>1, KeepLists
<1>7. Order'
  <2>1. ASSUME NEW x \in Mutex, Settled(x)' PROVE Settled(x)
    <3>1. ASSUME NEW u \in Thread, Failing(u, x) PROVE Failing(u, x)'
      <4>1. k'.stat[u] # "close"
        BY <3>1 DEF Wakes, Awake, Failing
      <4> QED BY <3>1, <4>1 DEF Failing
    <3> QED BY <2>1, <3>1 DEF Settled
  <2> QED BY <2>1, KeepOrder
<1> QED BY <1>2, <1>3, <1>4, <1>5, <1>6, <1>7 DEF MutInv

(* rt_thread_startup *)
LEMMA StartInv ==
    ASSUME MutInv, NEW t \in Thread, NEW x \in Thread, Start(t, x)
    PROVE  /\ MutInv' /\ Wakes(k, k', {x}) /\ k.stat[x] = "init" /\ k'.prio = k.prio
           /\ k'.armed \subseteq k.armed
           /\ \A u \in Thread : Waits(u)' <=> Waits(u)
<1>1. /\ At(t, "user") /\ Up /\ k.stat[x] = "init"
      /\ k' = ResumeThread([k EXCEPT !.stat[x] = "suspend"], x) /\ Goto(t, "sched")
      /\ mtx' = mtx /\ taken' = taken /\ pending' = pending /\ err' = err
      /\ victim' = victim /\ fault' = fault
  BY DEF Start, At
<1>2. k.cur = t /\ k.stat[t] = "running"
  BY <1>1, Running
<1>3. /\ pc' \in [Thread -> Place]
      /\ \A u \in Thread : pc'[u] = "delete" <=> pc[u] = "delete"
      /\ \A u \in Thread : pc'[u] \in {"wait", "return"} <=> pc[u] \in {"wait", "return"}
      /\ \A u \in Thread \ {t} : pc'[u] = pc[u]
  BY <1>1, GoesOn, Types DEF Goto, At
<1>4. x \in Thread \ Gone /\ victim \notin {x} /\ x \notin k.armed /\ ~ Waits(x)
  <2>1. victim # x
    BY <1>1, Types DEF MutInv, VictimApart
  <2>2. x \notin k.armed
    BY <1>1 DEF MutInv, ArmedWaits
  <2> QED BY <1>1, <2>1, <2>2 DEF Gone, Waits
<1>5. /\ Runs(k', Gone, Idle) /\ Wakes(k, k', {x}) /\ k'.cur = k.cur
      /\ k'.armed = k.armed /\ k'.prio = k.prio
  <2>1. Runs(k, Gone, Idle) /\ \A u \in k.armed : k.stat[u] = "suspend"
    BY DEF MutInv, ArmedWaits
  <2> QED BY <1>1, <1>4, <2>1, StartRuns
<1>6. CurrentPlaced'
  <2>1. k'.stat[t] # "suspend"
    BY <1>2, <1>5 DEF Wakes, Awake
  <2> QED BY <1>2, <1>5, <2>1 DEF CurrentPlaced
<1>7. k'.armed \subseteq k.armed \ {x} /\ \A u \in {x} : ~ Waits(u) /\ k.stat[u] # "close"
  BY <1>1, <1>4, <1>5
<1>8. err' \in [Thread -> Code]
  BY <1>1, Types
<1>9. MutInv' /\ \A u \in Thread : Waits(u)' <=> Waits(u)
  <2> DEFINE S == {x}
  <2>1. victim \notin S /\ Wakes(k, k', S) /\ k'.armed \subseteq k.armed \ S
    BY <1>4, <1>5, <1>7
  <2>2. \A u \in S : ~ Waits(u) /\ k.stat[u] # "close" /\ err[u] = err'[u]
    BY <1>1, <1>7
  <2> HIDE DEF S
  <2> QED BY <1>1, <1>3, <1>5, <1>6, <1>8, <2>1, <2>2, KernelInv
<1> QED BY <1>1, <1>5, <1>9

(* rt_schedule, at the end of a call or from the tick interrupt. *)
LEMMA ScheduleInv ==
    ASSUME MutInv, SliceOver \/ \E t \in Thread : CallSchedule(t)
    PROVE  /\ MutInv' /\ Wakes(k, k', {}) /\ k'.prio = k.prio /\ k'.armed \subseteq k.armed
           /\ \A u \in Thread : Waits(u)' <=> Waits(u)
<1>1. PICK k1 : /\ k' = Schedule(k1) /\ Runs(k1, Gone, Idle) /\ Wakes(k, k1, {})
                /\ k1.armed = k.armed /\ k1.prio = k.prio
  <2>1. Runs(k, Gone, Idle)
    BY DEF MutInv
  <2>2. CASE SliceOver
    BY <2>1, <2>2, YieldRuns DEF SliceOver
  <2>3. CASE \E t \in Thread : CallSchedule(t)
    BY <2>1, <2>3, StillMoves DEF CallSchedule
  <2> QED BY <2>2, <2>3
<1>2. /\ Runs(k', Gone, Idle) /\ Wakes(k, k', {}) /\ k'.stat[k'.cur] = "running"
      /\ k'.armed = k.armed /\ k'.prio = k.prio
  <2>1. /\ Runs(k', Gone, Idle) /\ Wakes(k1, k', {}) /\ k'.stat[k'.cur] = "running"
        /\ k'.armed = k1.armed /\ k'.prio = k1.prio
    BY <1>1, ScheduleRuns
  <2> QED BY <1>1, <2>1 DEF Wakes
<1>3. /\ Up /\ mtx' = mtx /\ taken' = taken /\ pending' = pending /\ err' = err
      /\ victim' = victim /\ fault' = fault
  BY DEF SliceOver, CallSchedule, At
<1>4. /\ pc' \in [Thread -> Place]
      /\ \A u \in Thread : pc'[u] = "delete" <=> pc[u] = "delete"
      /\ \A u \in Thread : pc'[u] \in {"wait", "return"} <=> pc[u] \in {"wait", "return"}
  <2>1. CASE SliceOver
    BY <2>1, Types DEF SliceOver
  <2>2. CASE \E t \in Thread : CallSchedule(t)
    BY <2>2, Types DEF CallSchedule, Goto, At, Place
  <2> QED BY <2>1, <2>2
<1>5. CurrentPlaced'
  BY <1>2 DEF CurrentPlaced
<1>6. err' \in [Thread -> Code]
  BY <1>3, Types
<1>7. k'.armed \subseteq k.armed \ {} /\ victim \notin {}
  BY <1>2
<1> QED BY <1>2, <1>3, <1>4, <1>5, <1>6, <1>7, KernelInv

(* rt_thread_delay *)
LEMMA SleepInv ==
    ASSUME MutInv, NEW t \in Sleepers, Sleep(t)
    PROVE  /\ MutInv' /\ t \in Thread /\ k'.prio = k.prio
           /\ k'.armed \subseteq k.armed \cup {t}
           /\ \A u \in Thread : Waits(u)' <=> Waits(u)
           /\ \A u \in Thread : k'.stat[u] = "close" <=> k.stat[u] = "close"
<1>1. /\ At(t, "user") /\ Up /\ t \in Thread \ {Idle}
      /\ k' = StartThreadTimer(SuspendThread(k, t), t) /\ Goto(t, "sched")
      /\ err' = [err EXCEPT ![t] = "ok"]
      /\ mtx' = mtx /\ taken' = taken /\ pending' = pending
      /\ victim' = victim /\ fault' = fault
  BY MutexAssumption DEF Sleep, At
<1>2. k.cur = t /\ k.stat[t] = "running" /\ t # victim
  BY <1>1, Running
<1>3. /\ pc' \in [Thread -> Place] /\ pc'[t] = "sched"
      /\ \A u \in Thread : pc'[u] = "delete" <=> pc[u] = "delete"
      /\ \A u \in Thread : pc'[u] \in {"wait", "return"} <=> pc[u] \in {"wait", "return"}
      /\ \A u \in Thread \ {t} : pc'[u] = pc[u]
      /\ pc[t] \notin {"wait", "return"}
  BY <1>1, GoesOn, Types DEF Goto, At
<1>4. /\ Runs(k', Gone, Idle) /\ k'.cur = t /\ k'.prio = k.prio
      /\ k'.stat[t] = "suspend" /\ \A u \in Thread \ {t} : k'.stat[u] = k.stat[u]
      /\ k'.armed \subseteq k.armed \cup {t}
  <2>1. Runs(k, Gone, Idle)
    BY DEF MutInv
  <2>2. k' \in {SuspendThread(k, t), StartThreadTimer(SuspendThread(k, t), t)}
    BY <1>1
  <2>3. t \in Thread \ {Idle} /\ t = k.cur /\ k.stat[t] = "running"
    BY <1>1, <1>2
  <2> QED BY <2>1, <2>2, <2>3, SuspendRuns
<1>5. err' \in [Thread -> Code] /\ \A u \in Thread \ {t} : err'[u] = err[u]
  BY <1>1, Types DEF Code
<1>6. \A u \in Thread : Waits(u)' <=> Waits(u)
  BY <1>1, <1>3, <1>4 DEF Waits
<1>7. OwnershipExact'
  <2>1. k' \in KernelState
    BY <1>4, RunsType
  <2>2. TypeOK'
    BY <1>1, <1>3, <1>5, <2>1, Types DEF TypeOK, Place, Code, Records
  <2> QED BY <1>1, <2>2, OwnersStep
<1>8. Runs(k, Gone, Idle)'
  BY <1>1, <1>4 DEF Gone
<1>9. VictimApart' /\ ArmedWaits' /\ CurrentPlaced'
  BY <1>1, <1>2, <1>3, <1>4, <1>5, Types DEF MutInv, VictimApart, ArmedWaits, CurrentPlaced
<1>10. FailedWaits'
  <2>1. \A u \in Thread : k'.stat[u] = "close" <=> k.stat[u] = "close"
    BY <1>2, <1>4
  <2> QED BY <1>1, <1>3, <1>5, <2>1 DEF MutInv, FailedWaits
<1>11. Lists'
  <2>1. \A u \in Thread : Waits(u) => pending'[u] = pending[u] /\ err'[u] = "ok"
    BY <1>1, <1>3, <1>5 DEF MutInv, Lists, Waits
  <2> QED BY <1>1, <1>6, <2>1, KeepLists
<1>12. \A u \in Thread : k'.stat[u] = "close" <=> k.stat[u] = "close"
  BY <1>2, <1>4
<1>13. Order'
  <2>1. ASSUME NEW x \in Mutex, Settled(x)' PROVE Settled(x)
    <3>1. \A u \in Thread : Failing(u, x) => Failing(u, x)'
      BY <1>1, <1>3, <1>5, <1>12 DEF Failing
    <3> QED BY <1>1, <2>1, <3>1 DEF Settled
  <2> QED BY <1>1, <1>4, <2>1, KeepOrder
<1> QED BY <1>1, <1>4, <1>6, <1>7, <1>8, <1>9, <1>10, <1>11, <1>12, <1>13 DEF MutInv

(* A thread is taken out of the wait list it is in. *)
LEMMA UnlinkedIs ==
    ASSUME MutInv, NEW t \in Thread
    PROVE  LET m == Unlinked(mtx, t)
           IN  /\ m \in Records
               /\ \A x \in Mutex :
                     /\ m[x].waitq = RemoveFirst(mtx[x].waitq, t) /\ m[x].prio = mtx[x].prio
                     /\ m[x].owner = mtx[x].owner /\ m[x].hold = mtx[x].hold
                     /\ m[x].alive = mtx[x].alive /\ m[x].ceil = mtx[x].ceil
                     /\ m[x].waitq \in Seq(Thread)
                     /\ \A u : Linked(u, m[x].waitq) <=> Linked(u, mtx[x].waitq) /\ u # t
<1> DEFINE m == Unlinked(mtx, t)
<1>1. ASSUME NEW x \in Mutex
      PROVE  /\ m[x] \in MutexRecord
             /\ m[x].waitq = RemoveFirst(mtx[x].waitq, t) /\ m[x].prio = mtx[x].prio
             /\ m[x].owner = mtx[x].owner /\ m[x].hold = mtx[x].hold
             /\ m[x].alive = mtx[x].alive /\ m[x].ceil = mtx[x].ceil
             /\ m[x].waitq \in Seq(Thread)
             /\ \A u : Linked(u, m[x].waitq) <=> Linked(u, mtx[x].waitq) /\ u # t
  <2> DEFINE q == RemoveFirst(mtx[x].waitq, t)
  <2>1. /\ q \in Seq(Thread)
        /\ \A u : Linked(u, q) <=> Linked(u, mtx[x].waitq) /\ u # t
    BY Fields1, RemoveFirstFacts
  <2>2. m[x] = [mtx[x] EXCEPT !.waitq = q]
    BY DEF Unlinked
  <2> HIDE DEF m, q
  <2>3. mtx[x] \in MutexRecord
    BY Fields1
  <2>4. m[x] \in MutexRecord
    BY <2>1, <2>2, <2>3 DEF MutexRecord
  <2>5. /\ m[x].waitq = q /\ m[x].prio = mtx[x].prio
        /\ m[x].owner = mtx[x].owner /\ m[x].hold = mtx[x].hold
    BY <2>2, <2>3 DEF MutexRecord
  <2>6. m[x].alive = mtx[x].alive /\ m[x].ceil = mtx[x].ceil
    BY <2>2, <2>3 DEF MutexRecord
  <2> QED BY <2>1, <2>4, <2>5, <2>6 DEF q
<1>2. m = [x \in Mutex |-> m[x]]
  BY DEF Unlinked
<1> HIDE DEF m
<1>3. m \in Records
  BY <1>1, <1>2 DEF Records
<1> QED BY <1>1, <1>3 DEF m

(* A wait ends, or a sleep. *)
LEMMA TimerInv ==
    ASSUME MutInv, NEW t \in Thread, TimerFire(t)
    PROVE  /\ MutInv' /\ Wakes(k, k', {t})
           /\ \A u \in Thread : Waits(u)' <=> Waits(u) /\ u # t
           /\ \A x \in Mutex : mtx'[x].waitq = RemoveFirst(mtx[x].waitq, t)
           /\ \A x \in Mutex : /\ mtx'[x].owner = mtx[x].owner /\ mtx'[x].hold = mtx[x].hold
                               /\ mtx'[x].prio = mtx[x].prio
                               /\ mtx'[x].alive = mtx[x].alive /\ mtx'[x].ceil = mtx[x].ceil
           /\ t # victim /\ k'.prio = k.prio /\ k'.armed \subseteq k.armed
<1> DEFINE k1 == TimeoutThread(k, t)
<1>1. /\ Up /\ t \in k.armed /\ t # victim
      /\ err' = [err EXCEPT ![t] = IF pc[t] \in {"wait", "return"} THEN "timeout" ELSE "ok"]
      /\ mtx' = Unlinked(mtx, t) /\ k' = Schedule(k1)
      /\ pc' = pc /\ taken' = taken /\ pending' = pending /\ victim' = victim /\ fault' = fault
  BY DEF TimerFire
<1>2. k.stat[t] = "suspend" /\ t # victim /\ t \in Thread \ Gone
  BY <1>1 DEF MutInv, ArmedWaits, Gone
<1>3. /\ Runs(k', Gone, Idle) /\ Wakes(k, k', {t}) /\ k'.stat[k'.cur] = "running"
      /\ k'.armed = k.armed \ {t} /\ k'.prio = k.prio
  <2>1. Runs(k, Gone, Idle)
    BY DEF MutInv
  <2>2. /\ Runs(k1, Gone, Idle) /\ Wakes(k, k1, {t})
        /\ k1.armed = k.armed \ {t} /\ k1.prio = k.prio
    BY <1>2, <2>1, TimeoutRuns
  <2> HIDE DEF k1
  <2>3. /\ Runs(k', Gone, Idle) /\ Wakes(k1, k', {}) /\ k'.stat[k'.cur] = "running"
        /\ k'.armed = k1.armed /\ k'.prio = k1.prio
    BY <1>1, <2>2, ScheduleRuns
  <2> QED BY <2>2, <2>3 DEF Wakes, Awake
<1> HIDE DEF k1
<1>4. /\ mtx' \in Records
      /\ \A x \in Mutex :
            /\ mtx'[x].waitq = RemoveFirst(mtx[x].waitq, t) /\ mtx'[x].prio = mtx[x].prio
            /\ mtx'[x].owner = mtx[x].owner /\ mtx'[x].hold = mtx[x].hold
            /\ mtx'[x].alive = mtx[x].alive /\ mtx'[x].ceil = mtx[x].ceil
            /\ \A u : Linked(u, mtx'[x].waitq) <=> Linked(u, mtx[x].waitq) /\ u # t
  <2> DEFINE m == Unlinked(mtx, t)
  <2>1. /\ m \in Records
        /\ \A x \in Mutex :
              /\ m[x].waitq = RemoveFirst(mtx[x].waitq, t) /\ m[x].prio = mtx[x].prio
              /\ m[x].owner = mtx[x].owner /\ m[x].hold = mtx[x].hold
              /\ m[x].alive = mtx[x].alive /\ m[x].ceil = mtx[x].ceil
              /\ \A u : Linked(u, m[x].waitq) <=> Linked(u, mtx[x].waitq) /\ u # t
    BY UnlinkedIs
  <2>2. mtx' = m
    BY <1>1
  <2> HIDE DEF m
  <2> QED BY <2>1, <2>2
<1>5. /\ err' \in [Thread -> Code] /\ (pc[t] \in {"wait", "return"} => err'[t] = "timeout")
      /\ \A u \in Thread \ {t} : err'[u] = err[u]
  BY <1>1, Types DEF Code
<1>6. OwnershipExact'
  <2>1. k' \in KernelState
    BY <1>3, RunsType
  <2>2. TypeOK'
    BY <1>1, <1>4, <1>5, <2>1, Types DEF TypeOK, Place, Code, Records
  <2> QED BY <1>1, <1>4, <2>2, OwnersStep
<1>7. /\ Runs(k, Gone, Idle)' /\ VictimApart' /\ ArmedWaits'
      /\ \A u \in Thread : Waits(u)' <=> Waits(u) /\ u \notin {t}
  <2>1. k'.armed \subseteq k.armed \ {t} /\ victim \notin {t}
    BY <1>2, <1>3
  <2>2. victim # NoThread => \A y \in Mutex : mtx'[y].owner # victim
    BY <1>2, <1>4, <1>5, Types DEF MutInv, VictimApart
  <2> QED BY <1>1, <1>3, <2>1, <2>2, MoveFacts
<1>8. \A u \in Thread : Waits(u)' <=> Waits(u) /\ u # t
  BY <1>7
<1>9. CurrentPlaced'
  BY <1>3 DEF CurrentPlaced
<1>10. pc[t] \in {"wait", "return"} => pending[t] \in Mutex /\ err[t] = "ok"
  BY <1>2 DEF Waits, MutInv, Lists
<1>11. FailedWaits'
  BY <1>1, <1>3, <1>5, <1>10 DEF MutInv, FailedWaits, Wakes, Awake
<1>12. Lists'
  <2>1. \A u \in Thread \ {t} : Waits(u) => pending'[u] = pending[u] /\ err'[u] = "ok"
    BY <1>1, <1>5 DEF MutInv, Lists
  <2> QED BY <1>4, <1>8, <2>1, LeaveLists
<1>13. Order'
  <2>1. ASSUME NEW x \in Mutex, Settled(x)'
        PROVE  Settled(x) /\ mtx'[x].prio = mtx[x].prio /\ mtx'[x].waitq = mtx[x].waitq
    <3>1. ASSUME NEW u \in Thread, Failing(u, x) PROVE Failing(u, x)'
      <4>1. u # t
        BY <1>10, <3>1 DEF Failing
      <4>2. k'.stat[u] # "close"
        BY <1>3, <3>1, <4>1 DEF Wakes, Awake, Failing
      <4> QED BY <1>1, <1>5, <3>1, <4>1, <4>2 DEF Failing
    <3>2. ~ Linked(t, mtx[x].waitq)
      <4> SUFFICES ASSUME Linked(t, mtx[x].waitq) PROVE Failing(t, x)'
        BY <2>1 DEF Settled
      <4>1. Waits(t) /\ pending[t] = x
        BY Waiter
      <4>2. k'.stat[t] # "close"
        BY <1>3 DEF Wakes, Awake
      <4> QED BY <1>1, <1>5, <4>1, <4>2 DEF Failing, Waits
    <3>3. Settled(x)
      BY <1>1, <1>4, <2>1, <3>1 DEF Settled
    <3> QED BY <1>4, <3>2, <3>3, NobodyLeaves
  <2> QED BY <1>1, <1>3, <1>4, <2>1, OrderStep
<1> QED BY <1>2, <1>3, <1>4, <1>6, <1>7, <1>8, <1>9, <1>11, <1>12, <1>13 DEF MutInv

(* A thread whose priority is changed without a failing assertion is in no *)
(* wait list.                                                              *)
LEMMA NotWaiting ==
    ASSUME MutInv, NEW o \in Thread,
           k.stat[o] # "suspend" \/ pending[o] = NoMutex \/ ~ mtx[pending[o]].alive
    PROVE  \A x \in Mutex : ~ Linked(o, mtx[x].waitq)
BY Waiter, MutexAssumption

(* The owner of x has been told that the wait of t for x is over: it has   *)
(* the priority its mutexes give it, unless it could not have got its own  *)
(* from t.                                                                 *)
Told(t, x) ==
    LET o == mtx[x].owner
        p == MutexPriority(mtx', taken[o], o)
    IN  /\ o \in Thread
        /\ \A y \in Mutex \ {x} : mtx'[y].prio = mtx[y].prio
        /\ mtx'[x].prio = HeadPrio(k, mtx[x].waitq)
        /\ k'.prio = IF k.prio[o] = k.prio[t] /\ p # k.prio[o]
                     THEN [k.prio EXCEPT ![o] = p] ELSE k.prio

(* No waiter's priority has changed. *)
WaitersKeep ==
    \A y \in Mutex, u \in Thread : Linked(u, mtx[y].waitq) => k'.prio[u] = k.prio[u]

(* A failed wait is reported, and the owner told of it. *)
LEMMA FailInv ==
    ASSUME MutInv, Asserts, NEW t \in Thread, TakeFail(t)
    PROVE  /\ MutInv' /\ Wakes(k, k', {})
           /\ \A u \in Thread : Waits(u)' <=> Waits(u)
           /\ \A x \in Mutex : /\ mtx'[x].waitq = mtx[x].waitq
                               /\ mtx'[x].owner = mtx[x].owner /\ mtx'[x].hold = mtx[x].hold
                               /\ mtx'[x].alive = mtx[x].alive /\ mtx'[x].ceil = mtx[x].ceil
           /\ pending[t] \in Mutex
           /\ Up' => WaitersKeep /\ Told(t, pending[t])
<1> DEFINE x == pending[t]
           o == mtx[x].owner
           r == Disinherit(k, mtx, t, x)
           m == [mtx EXCEPT ![x].prio = HeadPrio(k, mtx[x].waitq)]
           p == MutexPriority(m, taken[o], o)
<1>1. /\ At(t, "return") /\ Up /\ err[t] # "ok" /\ Goto(t, "user")
      /\ k' = r.k /\ mtx' = r.mtx /\ fault' = r.fault
      /\ taken' = taken /\ pending' = pending /\ err' = err /\ victim' = victim
  BY DEF TakeFail, Commit, At
<1>2. k.cur = t /\ k.stat[t] = "running" /\ t # victim /\ ~ Waits(t)
  BY <1>1, Running
<1>3. /\ pc' \in [Thread -> Place]
      /\ \A u \in Thread : k.stat[u] = "suspend" =>
            (pc'[u] \in {"wait", "return"} <=> pc[u] \in {"wait", "return"})
      /\ \A u \in Thread : pc'[u] = "delete" <=> pc[u] = "delete"
      /\ \A u \in Thread \ {t} : pc'[u] = pc[u]
      /\ pc[t] = "return" /\ pc'[t] = "user"
  BY <1>1, GoesOn, Types DEF Goto, At
<1>4. x \in Mutex
  BY <1>1, <1>2, <1>3 DEF MutInv, FailedWaits
<1>5. o \notin Gone /\ o \in Thread \cup {NoThread}
  BY <1>4, Fields1, Types DEF MutInv, VictimApart, Gone
<1>6. IF o = NoThread
      THEN r.k = k /\ r.mtx = mtx /\ r.fault = "null"
      ELSE /\ m \in Records /\ o \in Thread
           /\ IF k.prio[o] = k.prio[t] /\ p # k.prio[o]
              THEN p \in Prio /\ Passed(k, r, o, p, m, pending, Gone)
              ELSE Quiet(k, r, m, Gone)
  <2>1. /\ Runs(k, Gone, Idle) /\ mtx \in Records
        /\ pending \in [Thread -> Mutex \cup {NoMutex}] /\ taken \in [Thread -> SUBSET Mutex]
    BY Types DEF MutInv
  <2>2. k.stat[k.cur] # "suspend"
    BY <1>2
  <2>3. mtx[x].owner \notin Gone
    BY <1>5
  <2> HIDE DEF x
  <2> QED BY <1>4, <2>1, <2>2, <2>3, DisinheritIs
<1> HIDE DEF r
<1>7. /\ Runs(k', Gone, Idle) /\ Wakes(k, k', {})
      /\ k'.cur = k.cur /\ k'.stat = k.stat /\ k'.armed = k.armed
      /\ fault' \in {"no", "assert", "null"}
      /\ (mtx' = mtx /\ ~ Up') \/ (mtx' = m /\ m \in Records)
  <2>1. CASE o = NoThread
    <3>1. k' = k /\ mtx' = mtx /\ fault' = "null"
      BY <1>1, <1>6, <2>1
    <3>2. Runs(k, Gone, Idle) /\ Wakes(k, k, {})
      BY StillMoves
    <3> HIDE DEF o, m, p
    <3> QED BY <3>1, <3>2 DEF Up
  <2>2. CASE Passed(k, r, o, p, m, pending, Gone) /\ m \in Records
    BY <1>1, <2>2 DEF Passed
  <2>3. CASE Quiet(k, r, m, Gone) /\ m \in Records
    BY <1>1, <2>3 DEF Quiet
  <2> HIDE DEF o, m, p
  <2> QED BY <1>6, <2>1, <2>2, <2>3
<1>8. Up' => \A y \in Mutex, u \in Thread : Linked(u, mtx[y].waitq) => k'.prio[u] = k.prio[u]
  <2>1. CASE k' = k
    BY <2>1
  <2>2. CASE k'.prio = [k.prio EXCEPT ![o] = p] /\ o \in Thread /\ mtx' = m /\ m \in Records
             /\ (Up' => k.stat[o] # "suspend" \/ pending[o] = NoMutex \/ ~ m[pending[o]].alive)
    <3>1. \A y \in Mutex : m[y].alive = mtx[y].alive
      BY <1>4, Types DEF Records, MutexRecord
    <3>2. pending[o] \in Mutex \cup {NoMutex}
      BY <2>2, Types
    <3>3. Up' => \A y \in Mutex : ~ Linked(o, mtx[y].waitq)
      <4> HIDE DEF o, m
      <4> QED BY <2>2, <3>1, <3>2, NotWaiting
    <3> HIDE DEF o, m, p
    <3> QED BY <2>2, <3>3, Types
  <2> QED BY <1>1, <1>6, <2>1, <2>2 DEF Passed, Quiet, Up
<1>9. /\ mtx' \in Records
      /\ \A y \in Mutex :
            /\ mtx'[y].waitq = mtx[y].waitq /\ mtx'[y].owner = mtx[y].owner
            /\ mtx'[y].hold = mtx[y].hold /\ mtx'[y].alive = mtx[y].alive
            /\ mtx'[y].ceil = mtx[y].ceil
            /\ y # x => mtx'[y].prio = mtx[y].prio
      /\ Up' => mtx'[x].prio = HeadPrio(k, mtx[x].waitq)
  <2>1. CASE mtx' = mtx /\ ~ Up'
    BY <2>1, Types
  <2>2. CASE mtx' = m /\ m \in Records
    <3> DEFINE h == HeadPrio(k, mtx[x].waitq)
    <3>1. mtx' = [mtx EXCEPT ![x].prio = h]
      BY <2>2
    <3> HIDE DEF h, x
    <3>2. /\ \A y \in Mutex :
                /\ mtx'[y].waitq = mtx[y].waitq /\ mtx'[y].owner = mtx[y].owner
                /\ mtx'[y].hold = mtx[y].hold
                /\ y # x => mtx'[y].prio = mtx[y].prio
          /\ mtx'[x].prio = h
      BY <1>4, <3>1, Types DEF Records, MutexRecord
    <3>3. \A y \in Mutex : mtx'[y].alive = mtx[y].alive /\ mtx'[y].ceil = mtx[y].ceil
      BY <1>4, <3>1, Types DEF Records, MutexRecord
    <3> QED BY <2>2, <3>2, <3>3 DEF h
  <2> QED BY <1>7, <2>1, <2>2
<1>10. Up' => Told(t, x)
  <2>1. CASE o = NoThread
    <3>1. fault' = "null"
      BY <1>1, <1>6, <2>1
    <3> QED BY <3>1 DEF Up
  <2>2. CASE /\ o \in Thread /\ r.mtx = m
             /\ r.k.prio = IF k.prio[o] = k.prio[t] /\ p # k.prio[o]
                           THEN [k.prio EXCEPT ![o] = p] ELSE k.prio
    <3>1. mtx' = m /\ p = MutexPriority(mtx', taken[o], o)
      BY <1>1, <2>2
    <3> HIDE DEF m, p
    <3>2. k'.prio = IF k.prio[o] = k.prio[t] /\ p # k.prio[o]
                    THEN [k.prio EXCEPT ![o] = p] ELSE k.prio
      BY <1>1, <2>2
    <3>3. (\A y \in Mutex \ {x} : mtx'[y].prio = mtx[y].prio)
          /\ (Up' => mtx'[x].prio = HeadPrio(k, mtx[x].waitq))
      BY <1>9
    <3> HIDE DEF x
    <3> QED BY <2>2, <3>1, <3>2, <3>3 DEF Told
  <2> HIDE DEF o, m, p
  <2> QED BY <1>6, <2>1, <2>2 DEF Passed, Quiet
<1> HIDE DEF o, m, p
<1>11. Up' => WaitersKeep
  BY <1>8 DEF WaitersKeep
<1>12. OwnershipExact'
  <2>1. k' \in KernelState
    BY <1>7, RunsType
  <2>2. TypeOK'
    BY <1>1, <1>3, <1>7, <1>9, <2>1, Types DEF TypeOK, Place, Code, Records
  <2> QED BY <1>1, <1>9, <2>2, OwnersStep
<1>13. /\ Runs(k, Gone, Idle)' /\ VictimApart' /\ ArmedWaits'
       /\ \A u \in Thread : Waits(u)' <=> Waits(u) /\ u \notin {}
  <2>1. k'.armed \subseteq k.armed \ {} /\ victim \notin {}
    BY <1>7
  <2>2. victim # NoThread => \A y \in Mutex : mtx'[y].owner # victim
    BY <1>1, <1>9 DEF MutInv, VictimApart
  <2> QED BY <1>1, <1>3, <1>7, <2>1, <2>2, MoveFacts
<1>14. \A u \in Thread : Waits(u)' <=> Waits(u)
  BY <1>13
<1>15. CurrentPlaced'
  BY <1>2, <1>7 DEF CurrentPlaced
<1>16. FailedWaits'
  BY <1>1, <1>3, <1>7 DEF MutInv, FailedWaits, Wakes, Awake
<1>17. Lists'
  <2>1. \A u \in Thread : Waits(u) => pending'[u] = pending[u] /\ err'[u] = "ok"
    BY <1>1 DEF MutInv, Lists
  <2> QED BY <1>9, <1>14, <2>1, KeepLists
<1>18. Order'
  <2>1. ASSUME NEW y \in Mutex, Settled(y)', y # x PROVE Settled(y)
    <3>1. ASSUME NEW u \in Thread, Failing(u, y) PROVE Failing(u, y)'
      <4>1. u # t
        BY <2>1, <3>1 DEF Failing
      <4> QED BY <1>1, <1>3, <1>7, <3>1, <4>1 DEF Failing
    <3> QED BY <1>1, <1>9, <2>1, <3>1 DEF Settled
  <2>2. Up' => mtx'[x].prio = HeadPrio(k', mtx'[x].waitq)
    <3>1. Up' => \A u \in Thread : Linked(u, mtx[x].waitq) => k.prio[u] = k'.prio[u]
      BY <1>4, <1>8
    <3>2. mtx[x].waitq \in Seq(Thread)
      BY <1>4, Fields1
    <3>3. Up' => HeadPrio(k, mtx[x].waitq) = HeadPrio(k', mtx[x].waitq)
      BY <3>1, <3>2, HeadPrioSame
    <3> QED BY <1>4, <1>9, <3>3
  <2> HIDE DEF x
  <2>3. Up' => \A y \in Mutex :
           /\ mtx'[y].waitq = mtx[y].waitq
           /\ \A u \in Thread : Linked(u, mtx[y].waitq) => k'.prio[u] = k.prio[u]
           /\ \/ mtx'[y].prio = HeadPrio(k', mtx'[y].waitq)
              \/ Settled(y)' => Settled(y) /\ mtx'[y].prio = mtx[y].prio
    BY <1>8, <1>9, <2>1, <2>2
  <2> QED BY <1>1, <2>3, KeepOrder
<1> QED BY <1>4, <1>7, <1>9, <1>12, <1>13, <1>14, <1>15, <1>16, <1>17, <1>18, <1>10, <1>11
        DEF MutInv

(* The priorities of a list are looked at, nothing else. *)
LEMMA SortedSame ==
    ASSUME NEW q \in Seq(Thread), NEW f, NEW g, SortedBy(q, f),
           \A u \in Thread : Linked(u, q) => g[u] = f[u]
    PROVE  SortedBy(q, g)
<1>1. \A i \in 1 .. Len(q) : q[i] \in Thread /\ Linked(q[i], q)
  BY DEF Linked
<1> QED BY <1>1 DEF SortedBy

(* The first of a list a thread has joined: the thread or the first so     *)
(* far, which is what rt_mutex_take compares.                              *)
LEMMA InsertHead ==
    ASSUME NEW kk, kk.prio \in [Thread -> Prio], NEW q \in Seq(Thread), NEW r \in Seq(Thread),
           NEW t \in Thread, SortedBy(q, kk.prio), SortedBy(r, kk.prio),
           \A u : Linked(u, r) <=> u = t \/ Linked(u, q)
    PROVE  HeadPrio(kk, r) = IF kk.prio[t] < HeadPrio(kk, q) THEN kk.prio[t] ELSE HeadPrio(kk, q)
<1>1. r # <<>>
  BY DEF Linked
<1>2. HeadPrio(kk, r) = kk.prio[Head(r)] /\ Head(r) \in Thread
  BY <1>1, HeadPrioIs
<1>3. \A u \in Thread : Linked(u, r) => HeadPrio(kk, r) <= kk.prio[u]
  BY HeadPrioIs
<1>4. Linked(Head(r), r)
  BY <1>1, HeadFacts
<1>5. /\ \A u \in Thread : Linked(u, q) => HeadPrio(kk, q) <= kk.prio[u]
      /\ HeadPrio(kk, q) \in Prio \cup {NoPrio}
      /\ q = <<>> => HeadPrio(kk, q) = NoPrio
  BY HeadPrioIs
<1>6. \A u \in Thread : kk.prio[u] \in Prio /\ kk.prio[u] \in Int /\ kk.prio[u] < NoPrio
  BY Numbers, KernelAssumption DEF Prio, NoPrio
<1>7. HeadPrio(kk, q) \in Int
  BY <1>5, Numbers
<1>8. HeadPrio(kk, r) <= kk.prio[t]
  BY <1>3
<1>9. CASE Head(r) = t
  <2>1. CASE q = <<>>
    BY <1>2, <1>5, <1>6, <1>9, <2>1
  <2>2. CASE q # <<>>
    <3>1. Linked(Head(q), q) /\ Head(q) \in Thread /\ HeadPrio(kk, q) = kk.prio[Head(q)]
      BY <2>2, HeadFacts, HeadPrioIs
    <3>2. kk.prio[t] <= HeadPrio(kk, q)
      BY <1>2, <1>3, <1>9, <3>1
    <3> QED BY <1>2, <1>6, <1>7, <1>9, <3>2
  <2> QED BY <2>1, <2>2
<1>10. CASE Head(r) # t
  <2>1. Linked(Head(r), q)
    BY <1>4, <1>10
  <2>2. q # <<>>
    BY <2>1 DEF Linked
  <2>3. Linked(Head(q), q) /\ Head(q) \in Thread /\ HeadPrio(kk, q) = kk.prio[Head(q)]
    BY <2>2, HeadFacts, HeadPrioIs
  <2>4. HeadPrio(kk, r) <= HeadPrio(kk, q) /\ HeadPrio(kk, q) <= HeadPrio(kk, r)
    BY <1>2, <1>3, <1>5, <2>1, <2>3
  <2> QED BY <1>2, <1>6, <1>7, <1>8, <2>4
<1> QED BY <1>9, <1>10

(* The thread t has joined the wait list of x, and has passed its priority *)
(* on if it is higher than that of the other waiters and of the owner.     *)
Joined(t, x) ==
    LET o == mtx[x].owner
        higher == k.prio[t] < mtx[x].prio
    IN  /\ o \in Thread /\ o # t
        /\ \A y \in Mutex \ {x} : mtx'[y].prio = mtx[y].prio /\ mtx'[y].waitq = mtx[y].waitq
        /\ mtx'[x].prio = IF higher THEN k.prio[t] ELSE mtx[x].prio
        /\ SortedBy(mtx'[x].waitq, k.prio)
        /\ \A u : Linked(u, mtx'[x].waitq) <=> u = t \/ Linked(u, mtx[x].waitq)
        /\ k'.prio = IF higher /\ k.prio[t] < k.prio[o]
                     THEN [k.prio EXCEPT ![o] = k.prio[t]] ELSE k.prio

(* A thread joins a wait list, and its priority is passed on. *)
LEMMA WaitInv ==
    ASSUME MutInv, Asserts, NEW t \in Thread, NEW x \in Mutex, TakeWait(t, x)
    PROVE  /\ MutInv' /\ Waits(t)' /\ ~ Waits(t) /\ pending' = [pending EXCEPT ![t] = x]
           /\ \A u \in Thread \ {t} : Waits(u)' <=> Waits(u)
           /\ \A u \in Thread : k'.stat[u] = "close" <=> k.stat[u] = "close"
           /\ \A y \in Mutex : /\ mtx'[y].owner = mtx[y].owner /\ mtx'[y].hold = mtx[y].hold
                               /\ mtx'[y].alive = mtx[y].alive /\ mtx'[y].ceil = mtx[y].ceil
           /\ t # victim /\ (t \notin Timed => k'.armed \subseteq k.armed)
           /\ Up' => WaitersKeep /\ Joined(t, x)
<1> DEFINE o == mtx[x].owner
           q == mtx[x].waitq
           w == WaitInsert("PRIO", q, t, k.prio)
           h == IF k.prio[t] < mtx[x].prio THEN k.prio[t] ELSE mtx[x].prio
           m == [mtx EXCEPT ![x].waitq = w, ![x].prio = h]
<1>1. PICK k1 \in {SuspendThread(k, t), StartThreadTimer(SuspendThread(k, t), t)} :
         /\ Commit(Inherit(Present(k1, m, pending'), t, x))
         /\ t \notin Timed => k1 = SuspendThread(k, t)
  <2>1. PICK timed \in {FALSE} \cup {t \in Timed} :
           LET asleep == IF timed THEN StartThreadTimer(SuspendThread(k, t), t)
                                  ELSE SuspendThread(k, t)
               queued == [mtx EXCEPT ![x].waitq = WaitInsert("PRIO", @, t, k.prio),
                                     ![x].prio = IF k.prio[t] < @ THEN k.prio[t] ELSE @]
           IN  Commit(Inherit(Present(asleep, queued, pending'), t, x))
    BY DEF TakeWait
  <2>2. m = [mtx EXCEPT ![x].waitq = WaitInsert("PRIO", @, t, k.prio),
                        ![x].prio = IF k.prio[t] < @ THEN k.prio[t] ELSE @]
    BY Types DEF Records
  <2> QED BY <2>1, <2>2
<1> DEFINE r == Inherit(Present(k1, m, pending'), t, x)
<1>2. /\ At(t, "user") /\ Up /\ x \in Users[t] /\ mtx[x].alive /\ o \notin {NoThread, t}
      /\ pending' = [pending EXCEPT ![t] = x] /\ err' = [err EXCEPT ![t] = "ok"]
      /\ Goto(t, "wait") /\ taken' = taken /\ victim' = victim
      /\ k' = r.k /\ mtx' = r.mtx /\ fault' = r.fault
  BY <1>1 DEF TakeWait, Calls, At, Commit
<1>3. /\ k.cur = t /\ k.stat[t] = "running" /\ t \in Thread \ {Idle} /\ t # victim /\ ~ Waits(t)
      /\ \A y \in Mutex : ~ Linked(t, mtx[y].waitq)
  BY <1>2, Running, MutexAssumption
<1>4. /\ pc' \in [Thread -> Place] /\ pc[t] = "user" /\ pc'[t] = "wait"
      /\ \A u \in Thread : pc'[u] = "delete" <=> pc[u] = "delete"
      /\ \A u \in Thread \ {t} : pc'[u] = pc[u]
  BY <1>2, GoesOn, Types DEF Goto, At
<1>5. /\ Runs(k1, Gone, Idle) /\ k1.cur = t /\ k1.prio = k.prio
      /\ k1.stat[t] = "suspend" /\ \A u \in Thread \ {t} : k1.stat[u] = k.stat[u]
      /\ k1.armed \subseteq k.armed \cup {t}
      /\ t \notin Timed => k1.armed \subseteq k.armed
  <2>1. Runs(k, Gone, Idle)
    BY DEF MutInv
  <2>2. t \in Thread \ {Idle} /\ t = k.cur /\ k.stat[t] = "running"
    BY <1>3
  <2> QED BY <1>1, <2>1, <2>2, SuspendRuns
<1>6. q \in Seq(Thread) /\ LinkedOnce(q) /\ SortedBy(q, k.prio) /\ k.prio \in [Thread -> Prio]
  BY <1>2, Fields1, Types DEF MutInv, Order
<1>7. /\ w \in Seq(Thread) /\ LinkedOnce(w) /\ SortedBy(w, k.prio)
      /\ \A u : Linked(u, w) <=> u = t \/ Linked(u, q)
  <2>1. "PRIO" \in Flag
    BY DEF Flag
  <2> HIDE DEF q
  <2> QED BY <1>3, <1>6, <2>1, WaitInsertFacts DEF q
<1>8. h \in Prio \cup {NoPrio}
  BY <1>6, Fields1
<1> HIDE DEF w, h
<1>9. /\ m \in Records
      /\ \A y \in Mutex : /\ m[y].owner = mtx[y].owner /\ m[y].hold = mtx[y].hold
                          /\ m[y].alive = mtx[y].alive /\ m[y].ceil = mtx[y].ceil
                          /\ y # x => m[y].waitq = mtx[y].waitq /\ m[y].prio = mtx[y].prio
      /\ m[x].waitq = w /\ m[x].prio = h
  <2> DEFINE c == [mtx[x] EXCEPT !.waitq = w, !.prio = h]
  <2>1. c \in MutexRecord
    BY <1>7, <1>8, Fields1 DEF MutexRecord
  <2>2. m = [mtx EXCEPT ![x] = c]
    BY Types DEF Records
  <2>3. c.owner = mtx[x].owner /\ c.hold = mtx[x].hold /\ c.prio = h /\ c.waitq = w
    BY Fields1 DEF MutexRecord
  <2>4. c.alive = mtx[x].alive /\ c.ceil = mtx[x].ceil
    BY Fields1 DEF MutexRecord
  <2> HIDE DEF c, m
  <2> QED BY <2>1, <2>2, <2>3, <2>4, Types DEF Records
<1>10. /\ pending' \in [Thread -> Mutex \cup {NoMutex}] /\ pending'[t] = x
       /\ \A u \in Thread \ {t} : pending'[u] = pending[u]
       /\ err' \in [Thread -> Code] /\ err'[t] = "ok"
       /\ \A u \in Thread \ {t} : err'[u] = err[u]
  BY <1>2, Types DEF Code
<1>11. o \in Thread \ Gone /\ o # t /\ ~ Linked(o, q)
  BY <1>2, Fields1, Types DEF MutInv, VictimApart, OwnershipExact, Gone
<1> HIDE DEF m, r
<1>12. IF k.prio[t] < mtx[x].prio /\ k.prio[t] < k.prio[o]
       THEN Passed(k1, r, o, k.prio[t], m, pending', Gone)
       ELSE Quiet(k1, r, m, Gone)
  <2>1. k.prio[t] \in Prio /\ mtx[x].owner \in Thread \ Gone /\ mtx[x].owner # k1.cur
    BY <1>5, <1>6, <1>11
  <2>2. Runs(k1, Gone, Idle) /\ m \in Records
    BY <1>5, <1>9
  <2> QED BY <1>10, <2>1, <2>2, InheritIs DEF r
<1>13. /\ Runs(k', Gone, Idle) /\ k'.cur = t /\ k'.armed = k1.armed /\ k'.stat = k1.stat
       /\ mtx' = m /\ fault' \in {"no", "assert", "null"}
       /\ \A u \in Thread \ {o} : k'.prio[u] = k.prio[u]
       /\ Up' => k'.prio = k.prio \/ \A y \in Mutex : ~ Linked(o, mtx[y].waitq)
       /\ k'.prio = IF k.prio[t] < mtx[x].prio /\ k.prio[t] < k.prio[o]
                    THEN [k.prio EXCEPT ![o] = k.prio[t]] ELSE k.prio
  <2>1. CASE /\ ~ (k.prio[t] < mtx[x].prio /\ k.prio[t] < k.prio[o])
             /\ Quiet(k1, r, m, Gone)
    BY <1>2, <1>5, <2>1 DEF Quiet
  <2>2. CASE /\ k.prio[t] < mtx[x].prio /\ k.prio[t] < k.prio[o]
             /\ Passed(k1, r, o, k.prio[t], m, pending', Gone)
    <3>1. Up' => k1.stat[o] # "suspend" \/ pending'[o] = NoMutex \/ ~ m[pending'[o]].alive
      BY <1>2, <2>2 DEF Passed, Up
    <3>2. Up' => k.stat[o] # "suspend" \/ pending[o] = NoMutex \/ ~ mtx[pending[o]].alive
      <4>1. pending[o] \in Mutex \cup {NoMutex} /\ pending'[o] = pending[o]
        BY <1>10, <1>11, Types
      <4> HIDE DEF o
      <4> QED BY <1>5, <1>9, <1>11, <3>1, <4>1
    <3>3. Up' => \A y \in Mutex : ~ Linked(o, mtx[y].waitq)
      <4> HIDE DEF o
      <4> QED BY <1>11, <3>2, NotWaiting
    <3>4. /\ Runs(k', Gone, Idle) /\ k'.cur = t /\ k'.armed = k1.armed /\ k'.stat = k1.stat
          /\ mtx' = m /\ fault' \in {"no", "assert", "null"}
          /\ k'.prio = [k.prio EXCEPT ![o] = k.prio[t]]
      BY <1>2, <1>5, <2>2 DEF Passed
    <3> HIDE DEF o
    <3> QED BY <1>6, <2>2, <3>3, <3>4
  <2> QED BY <1>12, <2>1, <2>2
<1>14. \A u \in Thread : Waits(u)' <=> Waits(u) \/ u = t
  BY <1>2, <1>3, <1>4, <1>5, <1>13 DEF Waits
<1>15. OwnershipExact'
  <2>1. k' \in KernelState
    BY <1>13, RunsType
  <2>2. TypeOK'
    BY <1>2, <1>4, <1>9, <1>10, <1>13, <2>1, Types DEF TypeOK, Place, Code, Records
  <2>3. \A y \in Mutex :
           /\ mtx'[y].owner = NoThread <=> mtx'[y].hold = 0
           /\ mtx'[y].owner = NoThread => mtx'[y].waitq = <<>>
           /\ ~ Linked(mtx'[y].owner, mtx'[y].waitq)
           /\ \A u \in Thread : y \in taken'[u] => mtx'[y].owner = u
    <3>1. \A y \in Mutex :
             /\ mtx[y].owner = NoThread <=> mtx[y].hold = 0
             /\ mtx[y].owner = NoThread => mtx[y].waitq = <<>>
             /\ ~ Linked(mtx[y].owner, mtx[y].waitq)
             /\ \A u \in Thread : y \in taken[u] => mtx[y].owner = u
      BY DEF MutInv, OwnershipExact
    <3>2. mtx[x].owner # NoThread /\ ~ Linked(mtx[x].owner, w)
      BY <1>2, <1>7, <1>11
    <3> QED BY <1>2, <1>9, <1>13, <3>1, <3>2
  <2> QED BY <2>2, <2>3 DEF OwnershipExact
<1>16. Runs(k, Gone, Idle)'
  BY <1>2, <1>13 DEF Gone
<1>17. CurrentPlaced' /\ ArmedWaits'
  <2>1. CurrentPlaced'
    BY <1>4, <1>13 DEF CurrentPlaced
  <2>2. \A u \in k.armed : u \in Thread /\ k.stat[u] = "suspend"
    BY Types DEF MutInv, ArmedWaits
  <2>3. \A u \in k'.armed : k'.stat[u] = "suspend"
    BY <1>2, <1>3, <1>5, <1>13, <2>2
  <2> QED BY <2>1, <2>3 DEF ArmedWaits
<1>18. VictimApart'
  BY <1>2, <1>3, <1>4, <1>5, <1>9, <1>10, <1>13, Types DEF MutInv, VictimApart
<1>19. FailedWaits'
  BY <1>2, <1>3, <1>4, <1>5, <1>10, <1>13 DEF MutInv, FailedWaits
<1>20. Lists'
  <2>1. \A u \in Thread : Waits(u)' => pending'[u] \in Mutex /\ err'[u] = "ok"
    BY <1>10, <1>14 DEF MutInv, Lists
  <2>2. ASSUME NEW y \in Mutex
        PROVE  /\ LinkedOnce(mtx'[y].waitq)
               /\ \A u \in Thread : Linked(u, mtx'[y].waitq) <=> Waits(u)' /\ pending'[u] = y
               /\ ~ mtx'[y].alive => mtx'[y].waitq = <<>>
    <3>1. /\ LinkedOnce(mtx[y].waitq)
          /\ \A u \in Thread : Linked(u, mtx[y].waitq) <=> Waits(u) /\ pending[u] = y
          /\ ~ mtx[y].alive => mtx[y].waitq = <<>>
      BY DEF MutInv, Lists
    <3>2. mtx'[y].waitq = (IF y = x THEN w ELSE mtx[y].waitq) /\ mtx'[y].alive = mtx[y].alive
      BY <1>9, <1>13
    <3> QED BY <1>2, <1>3, <1>7, <1>10, <1>14, <3>1, <3>2
  <2> QED BY <2>1, <2>2 DEF Lists
<1>21. Order'
  <2> SUFFICES ASSUME Up', NEW y \in Mutex
               PROVE  /\ SortedBy(mtx'[y].waitq, k'.prio)
                      /\ Settled(y)' => mtx'[y].prio = HeadPrio(k', mtx'[y].waitq)
    BY DEF Order
  <2> DEFINE a == IF y = x THEN w ELSE mtx[y].waitq
  <2>1. mtx'[y].waitq = a
    BY <1>9, <1>13
  <2>2. a \in Seq(Thread) /\ SortedBy(a, k.prio)
    BY <1>2, <1>7, Fields1 DEF MutInv, Order
  <2>3. \A u \in Thread : Linked(u, a) => k'.prio[u] = k.prio[u]
    BY <1>7, <1>11, <1>13
  <2>4. Settled(y)' => Settled(y)
    <3>1. ASSUME NEW u \in Thread, Failing(u, y) PROVE Failing(u, y)'
      <4>1. u # t
        BY <1>4, <3>1 DEF Failing
      <4> QED BY <1>4, <1>5, <1>10, <1>13, <3>1, <4>1 DEF Failing
    <3>2. victim # NoThread => pending'[victim] = pending[victim]
      BY <1>3, <1>10, Types
    <3> QED BY <1>2, <1>9, <1>13, <3>1, <3>2 DEF Settled
  <2>5. Settled(y) => mtx[y].prio = HeadPrio(k, mtx[y].waitq)
    BY <1>2 DEF MutInv, Order
  <2>6. Settled(y) => mtx'[y].prio = HeadPrio(k, a)
    <3>1. CASE y = x
      <4>1. HeadPrio(k, w) = IF k.prio[t] < HeadPrio(k, q) THEN k.prio[t] ELSE HeadPrio(k, q)
        <5> HIDE DEF q
        <5> QED BY <1>6, <1>7, InsertHead
      <4>2. mtx'[x].prio = IF k.prio[t] < mtx[x].prio THEN k.prio[t] ELSE mtx[x].prio
        BY <1>9, <1>13 DEF h
      <4> QED BY <2>5, <3>1, <4>1, <4>2
    <3>2. CASE y # x
      BY <1>9, <1>13, <2>5, <3>2
    <3> QED BY <3>1, <3>2
  <2> HIDE DEF a
  <2>7. SortedBy(a, k'.prio) /\ HeadPrio(k', a) = HeadPrio(k, a)
    BY <2>2, <2>3, SortedSame, HeadPrioSame
  <2> QED BY <2>1, <2>4, <2>6, <2>7
<1>22. MutInv'
  BY <1>15, <1>16, <1>17, <1>18, <1>19, <1>20, <1>21 DEF MutInv
<1>23. \A u \in Thread : k'.stat[u] = "close" <=> k.stat[u] = "close"
  BY <1>3, <1>5, <1>13
<1>24. Up' => WaitersKeep
  BY <1>13, Types DEF WaitersKeep
<1>25. Joined(t, x)
  <2>1. mtx'[x].prio = IF k.prio[t] < mtx[x].prio THEN k.prio[t] ELSE mtx[x].prio
    BY <1>9, <1>13 DEF h
  <2>2. \A y \in Mutex \ {x} : mtx'[y].prio = mtx[y].prio /\ mtx'[y].waitq = mtx[y].waitq
    BY <1>9, <1>13
  <2>3. mtx'[x].waitq = w
    BY <1>9, <1>13
  <2> QED BY <1>7, <1>11, <1>13, <2>1, <2>2, <2>3 DEF Joined
<1> QED BY <1>2, <1>3, <1>5, <1>9, <1>13, <1>14, <1>22, <1>23, <1>24, <1>25

-----------------------------------------------------------------------------
(* The end of a mutex, and of a thread *)

(* The threads of a list. *)
LinkedIn(q) == {u \in Thread : Linked(u, q)}

(* One thread is resumed: ResumeRuns, with the new state named. *)
LEMMA ResumeOne ==
    ASSUME NEW k1, NEW D, Runs(k1, D, Idle), NEW u, NEW k2,
           u \in Thread \ D /\ k1.stat[u] = "suspend" /\ k2 = ResumeThread(k1, u)
    PROVE  /\ Runs(k2, D, Idle) /\ Wakes(k1, k2, {u}) /\ k2.cur = k1.cur
           /\ k2.prio = k1.prio /\ k2.armed = k1.armed \ {u}
BY ResumeRuns

(* rt_thread_resume of all threads of a list wakes exactly those.          *)
LEMMA ResumeAllIs ==
    ASSUME NEW k0, NEW D, Runs(k0, D, Idle), NEW q \in Seq(Thread), LinkedOnce(q),
           \A u \in Thread : Linked(u, q) => u \notin D /\ k0.stat[u] = "suspend"
    PROVE  LET k1 == ResumeAll(k0, q)
               S == LinkedIn(q)
           IN  /\ Runs(k1, D, Idle) /\ Wakes(k0, k1, S)
               /\ k1.cur = k0.cur /\ k1.prio = k0.prio /\ k1.armed = k0.armed \ S
<1> DEFINE N == Len(q)
           G(s, i) == ResumeThread(s, q[i])
           Eq(f, n) == f = [i \in 0 .. n |-> IF i = 0 THEN k0 ELSE G(f[i - 1], i)]
           Some(n) == {u \in Thread : \E j \in 1 .. n : q[j] = u}
           Fine(k1, n) == /\ Runs(k1, D, Idle) /\ Wakes(k0, k1, Some(n))
                          /\ k1.cur = k0.cur /\ k1.prio = k0.prio
                          /\ k1.armed = k0.armed \ Some(n)
<1>1. N \in Nat /\ \A i \in 1 .. N : q[i] \in Thread
  OBVIOUS
<1>2. ResumeAll(k0, q) = (CHOOSE f : Eq(f, N))[N]
  BY DEF ResumeAll
<1>3. \E f : Eq(f, N)
  <2> DEFINE bad == {n \in 0 .. N : ~ \E f : Eq(f, n)}
  <2>1. bad = {}
    <3> SUFFICES ASSUME bad # {} PROVE FALSE
      OBVIOUS
    <3>1. bad \in SUBSET Nat
      BY <1>1
    <3>2. PICK n \in bad : \A j \in bad : n <= j
      BY <3>1, MinOfIndices
    <3>3. n \in 0 .. N /\ ~ \E f : Eq(f, n)
      OBVIOUS
    <3>4. n # 0
      <4>1. ASSUME n = 0 PROVE FALSE
        <5> DEFINE g == [i \in 0 .. 0 |-> k0]
        <5>1. Eq(g, 0)
          BY <1>1
        <5> HIDE DEF Eq
        <5> QED BY <3>3, <4>1, <5>1
      <4> QED BY <4>1
    <3>5. n - 1 \in 0 .. N /\ ~ (n <= n - 1)
      BY <1>1, <3>3, <3>4
    <3>6. PICK f : Eq(f, n - 1)
      <4> HIDE DEF Eq
      <4> QED BY <3>2, <3>5
    <3> DEFINE g == [i \in 0 .. n |-> IF i < n THEN f[i] ELSE G(f[n - 1], n)]
    <3>7. Eq(g, n)
      <4> SUFFICES ASSUME NEW i \in 0 .. n
                   PROVE  g[i] = IF i = 0 THEN k0 ELSE G(g[i - 1], i)
        OBVIOUS
      <4>1. i = 0 \/ i - 1 \in 0 .. n - 1
        BY <3>3
      <4>2. \A j \in 0 .. n - 1 : f[j] = IF j = 0 THEN k0 ELSE G(f[j - 1], j)
        BY <3>6
      <4> HIDE DEF G
      <4>3. CASE i = 0
        BY <3>3, <3>4, <4>2, <4>3
      <4>4. CASE i # 0 /\ i < n
        BY <3>3, <4>1, <4>2, <4>4
      <4>5. CASE i = n
        BY <3>3, <3>4, <4>5
      <4> QED BY <3>3, <4>3, <4>4, <4>5
    <3> HIDE DEF Eq, g
    <3> QED BY <3>3, <3>7
  <2> HIDE DEF Eq
  <2> QED BY <1>1, <2>1
<1>4. PICK f : Eq(f, N) /\ ResumeAll(k0, q) = f[N]
  <2> HIDE DEF Eq
  <2> QED BY <1>2, <1>3
<1>5. \A i \in 0 .. N : f[i] = IF i = 0 THEN k0 ELSE ResumeThread(f[i - 1], q[i])
  BY <1>4
<1>6. Fine(k0, 0)
  <2>1. Some(0) = {}
    OBVIOUS
  <2> QED BY <2>1 DEF Wakes
<1>7. ASSUME NEW n \in 1 .. N, Fine(f[n - 1], n - 1) PROVE Fine(f[n], n)
  <2> DEFINE k1 == f[n - 1]
             u == q[n]
  <2>1. u \in Thread /\ Linked(u, q) /\ f[n] = ResumeThread(k1, u)
    BY <1>1, <1>5 DEF Linked
  <2>2. u \notin Some(n - 1)
    <3>1. \A j \in 1 .. n - 1 : j \in 1 .. N /\ j # n
      BY <1>1
    <3> QED BY <3>1 DEF LinkedOnce
  <2>3. Some(n) = Some(n - 1) \cup {u}
    <3>1. \A j : j \in 1 .. n <=> j \in 1 .. n - 1 \/ j = n
      BY <1>1
    <3> QED BY <2>1, <3>1
  <2> HIDE DEF k1, u, Some
  <2>4. /\ Runs(k1, D, Idle) /\ Wakes(k0, k1, Some(n - 1)) /\ k1.cur = k0.cur
        /\ k1.prio = k0.prio /\ k1.armed = k0.armed \ Some(n - 1)
    BY <1>7 DEF k1
  <2>5. u \in Thread \ D /\ k1.stat[u] = "suspend"
    BY <2>1, <2>2, <2>4 DEF Wakes, Awake
  <2>6. /\ Runs(f[n], D, Idle) /\ Wakes(k1, f[n], {u}) /\ f[n].cur = k1.cur
        /\ f[n].prio = k1.prio /\ f[n].armed = k1.armed \ {u}
    <3>1. Runs(k1, D, Idle) /\ u \in Thread \ D /\ k1.stat[u] = "suspend"
      BY <2>4, <2>5
    <3>2. f[n] = ResumeThread(k1, u)
      BY <2>1
    <3> HIDE DEF Fine
    <3>3. PICK a, v, b : a = k1 /\ v = u /\ b = f[n]
      OBVIOUS
    <3>4. Runs(a, D, Idle) /\ v \in Thread \ D /\ a.stat[v] = "suspend" /\ b = ResumeThread(a, v)
      BY <3>1, <3>2, <3>3
    <3>5. /\ Runs(b, D, Idle) /\ Wakes(a, b, {v}) /\ b.cur = a.cur
          /\ b.prio = a.prio /\ b.armed = a.armed \ {v}
      BY <3>4, ResumeOne
    <3> QED BY <3>3, <3>5
  <2>7. Wakes(k0, f[n], Some(n))
    BY <2>3, <2>4, <2>6 DEF Wakes, Awake
  <2> QED BY <2>3, <2>4, <2>6, <2>7
<1>8. Fine(f[N], N)
  <2> DEFINE bad == {n \in 0 .. N : ~ Fine(f[n], n)}
  <2> HIDE DEF Fine
  <2>1. bad = {}
    <3> SUFFICES ASSUME bad # {} PROVE FALSE
      OBVIOUS
    <3>1. bad \in SUBSET Nat
      BY <1>1
    <3>2. PICK n \in bad : \A j \in bad : n <= j
      BY <3>1, MinOfIndices
    <3>3. n \in 0 .. N /\ ~ Fine(f[n], n)
      OBVIOUS
    <3>4. n # 0
      BY <1>1, <1>5, <1>6, <3>3
    <3>5. n \in 1 .. N /\ n - 1 \in 0 .. N /\ ~ (n <= n - 1)
      BY <1>1, <3>3, <3>4
    <3> QED BY <1>7, <3>2, <3>3, <3>5
  <2> QED BY <1>1, <2>1
<1>9. Some(N) = LinkedIn(q)
  BY DEF Linked, LinkedIn
<1> QED BY <1>4, <1>8, <1>9

(* A mutex is detached: all who wait for it fail together. *)
LEMMA DetachInv ==
    ASSUME MutInv, NEW t \in Thread, NEW x \in Mutex, Detach(t, x)
    PROVE  LET S == LinkedIn(mtx[x].waitq)
           IN  /\ MutInv' /\ Wakes(k, k', S) /\ victim \notin S /\ k'.prio = k.prio
               /\ \A u \in Thread : Waits(u)' <=> Waits(u) /\ u \notin S
               /\ \A y \in Mutex : mtx'[y].owner = mtx[y].owner /\ mtx'[y].hold = mtx[y].hold
               /\ \A y \in Mutex : mtx'[y].waitq = IF y = x THEN <<>> ELSE mtx[y].waitq
<1> DEFINE q == mtx[x].waitq
           S == LinkedIn(q)
<1>0. S = {u \in Thread : Linked(u, q)}
  BY DEF LinkedIn
<1>1. /\ At(t, "user") /\ Up /\ k' = ResumeAll(k, q)
      /\ err' = [u \in Thread |-> IF Linked(u, q) THEN "error" ELSE err[u]]
      /\ mtx' = [mtx EXCEPT ![x].waitq = <<>>, ![x].alive = FALSE]
      /\ taken' = [u \in Thread |-> taken[u] \ {x}]
      /\ pc' = pc /\ pending' = pending /\ victim' = victim /\ fault' = fault
  BY DEF Detach, Calls, At
<1>2. /\ k.cur = t /\ k.stat[t] = "running" /\ t # victim /\ ~ Waits(t) /\ t \notin S
  BY <1>0, <1>1, Running
<1>3. q \in Seq(Thread) /\ LinkedOnce(q)
  BY Fields1
<1>4. \A u \in S : /\ u \in Thread \ Gone /\ u # victim /\ k.stat[u] = "suspend"
                   /\ Waits(u) /\ pending[u] = x /\ err[u] = "ok"
                   /\ \A y \in Mutex : Linked(u, mtx[y].waitq) => y = x
  BY <1>0, Waiter
<1>5. /\ Runs(k', Gone, Idle) /\ Wakes(k, k', S) /\ k'.cur = k.cur /\ k'.prio = k.prio
      /\ k'.armed = k.armed \ S
  <2>1. Runs(k, Gone, Idle)
    BY DEF MutInv
  <2>2. \A u \in Thread : Linked(u, q) => u \notin Gone /\ k.stat[u] = "suspend"
    BY <1>0, <1>4
  <2> HIDE DEF q
  <2> DEFINE k1 == ResumeAll(k, q)
  <2>3. /\ Runs(k1, Gone, Idle) /\ Wakes(k, k1, S) /\ k1.cur = k.cur /\ k1.prio = k.prio
        /\ k1.armed = k.armed \ S
    BY <1>3, <2>1, <2>2, ResumeAllIs
  <2>4. k' = k1
    BY <1>1
  <2> HIDE DEF k1, S
  <2> QED BY <2>3, <2>4
<1>6. /\ mtx' \in Records
      /\ \A y \in Mutex : /\ mtx'[y].owner = mtx[y].owner /\ mtx'[y].hold = mtx[y].hold
                          /\ mtx'[y].prio = mtx[y].prio
                          /\ mtx'[y].waitq = IF y = x THEN <<>> ELSE mtx[y].waitq
                          /\ y # x => mtx'[y].alive = mtx[y].alive
      /\ ~ mtx'[x].alive
  <2> DEFINE c == [mtx[x] EXCEPT !.waitq = <<>>, !.alive = FALSE]
  <2>1. c \in MutexRecord
    <3>1. <<>> \in Seq(Thread) /\ FALSE \in BOOLEAN
      OBVIOUS
    <3> QED BY <3>1, Fields1 DEF MutexRecord
  <2>2. mtx' = [mtx EXCEPT ![x] = c]
    BY <1>1, Types DEF Records
  <2>3. c.owner = mtx[x].owner /\ c.hold = mtx[x].hold /\ c.prio = mtx[x].prio
    BY Fields1 DEF MutexRecord
  <2>4. c.waitq = <<>> /\ ~ c.alive
    BY Fields1 DEF MutexRecord
  <2> HIDE DEF c
  <2> QED BY <2>1, <2>2, <2>3, <2>4, Types DEF Records
<1>7. /\ err' \in [Thread -> Code] /\ \A u \in Thread \ S : err'[u] = err[u]
      /\ \A u \in S : err'[u] = "error"
      /\ taken' \in [Thread -> SUBSET Mutex] /\ \A u \in Thread : taken'[u] \subseteq taken[u]
  BY <1>0, <1>1, Types DEF Code
<1> HIDE DEF S, q
<1>8. \A u : ~ Linked(u, <<>>)
  BY DEF Linked
<1>9. OwnershipExact'
  <2>1. k' \in KernelState
    BY <1>5, RunsType
  <2>2. TypeOK'
    BY <1>1, <1>6, <1>7, <2>1, Types DEF TypeOK, Place, Code, Records
  <2> QED BY <1>6, <1>7, <1>8, <2>2, OwnersStep
<1>10. /\ Runs(k, Gone, Idle)' /\ VictimApart' /\ ArmedWaits'
       /\ \A u \in Thread : Waits(u)' <=> Waits(u) /\ u \notin S
  <2>1. victim \notin S /\ k'.armed \subseteq k.armed \ S
    BY <1>4, <1>5
  <2>2. victim # NoThread => \A y \in Mutex : mtx'[y].owner # victim
    BY <1>6, <1>7, <2>1, Types DEF MutInv, VictimApart
  <2> QED BY <1>1, <1>5, <2>1, <2>2, MoveFacts
<1>11. CurrentPlaced'
  <2>1. k'.stat[t] # "suspend"
    BY <1>2, <1>5 DEF Wakes, Awake
  <2> QED BY <1>2, <1>5, <2>1 DEF CurrentPlaced
<1>12. FailedWaits'
  BY <1>1, <1>4, <1>5, <1>7 DEF MutInv, FailedWaits, Wakes, Awake, Waits
<1>13. \A y \in Mutex :
          /\ \/ /\ mtx'[y].waitq = RemoveFirst(mtx[y].waitq, NoThread)
                /\ \A u \in Thread : Linked(u, mtx[y].waitq) => (u = NoThread <=> u \in S)
             \/ /\ mtx'[y].waitq = <<>>
                /\ \A u \in Thread : Linked(u, mtx[y].waitq) => u \in S
          /\ ~ mtx'[y].alive => mtx'[y].waitq = <<>> \/ ~ mtx[y].alive
  <2> SUFFICES ASSUME NEW y \in Mutex
               PROVE  /\ \/ /\ mtx'[y].waitq = RemoveFirst(mtx[y].waitq, NoThread)
                            /\ \A u \in Thread :
                                  Linked(u, mtx[y].waitq) => (u = NoThread <=> u \in S)
                         \/ /\ mtx'[y].waitq = <<>>
                            /\ \A u \in Thread : Linked(u, mtx[y].waitq) => u \in S
                      /\ ~ mtx'[y].alive => mtx'[y].waitq = <<>> \/ ~ mtx[y].alive
    OBVIOUS
  <2>1. CASE y = x
    BY <1>0, <1>6, <2>1 DEF q
  <2>2. CASE y # x
    <3>1. mtx'[y].waitq = RemoveFirst(mtx[y].waitq, NoThread)
      BY <1>6, <2>2, NobodyLeaves, NoThreadLinked
    <3>2. \A u \in Thread : Linked(u, mtx[y].waitq) => u # NoThread /\ u \notin S
      BY <1>4, <2>2, Types
    <3> QED BY <1>6, <2>2, <3>1, <3>2
  <2> QED BY <2>1, <2>2
<1>14. Lists'
  <2>1. \A u \in Thread \ S : Waits(u) => pending'[u] = pending[u] /\ err'[u] = "ok"
    BY <1>1, <1>7 DEF MutInv, Lists
  <2> QED BY <1>10, <1>13, <2>1, ListsStep
<1>15. Order'
  <2>1. ASSUME NEW y \in Mutex, Settled(y)'
        PROVE  Settled(y) /\ mtx'[y].prio = mtx[y].prio /\ mtx'[y].waitq = mtx[y].waitq
    <3>1. y # x
      BY <1>6, <2>1 DEF Settled
    <3>2. ASSUME NEW u \in Thread, Failing(u, y) PROVE Failing(u, y)'
      <4>1. u \notin S
        BY <1>4, <3>1, <3>2 DEF Failing
      <4>2. k'.stat[u] # "close"
        BY <1>5, <3>2, <4>1 DEF Wakes, Awake, Failing
      <4> QED BY <1>1, <1>7, <3>2, <4>1, <4>2 DEF Failing
    <3> QED BY <1>1, <1>6, <2>1, <3>1, <3>2 DEF Settled
  <2>2. \A y \in Mutex : \/ mtx'[y].waitq = RemoveFirst(mtx[y].waitq, NoThread)
                         \/ mtx'[y].waitq = <<>>
    BY <1>13
  <2> QED BY <1>1, <1>5, <2>1, <2>2, OrderStep
<1>16. MutInv' /\ victim \notin S
  BY <1>4, <1>9, <1>10, <1>11, <1>12, <1>14, <1>15 DEF MutInv
<1> QED BY <1>5, <1>6, <1>10, <1>16 DEF S, q

(* The first part of a deletion takes the thread out of its wait list. *)
LEMMA RemoveInv ==
    ASSUME MutInv, NEW v \in Victims, DeleteRemove(v)
    PROVE  /\ MutInv' /\ v \in Thread /\ victim = NoThread
           /\ \A u \in Thread : Waits(u)' <=> Waits(u) /\ u # v
           /\ k'.stat = k.stat /\ k'.prio = k.prio /\ k'.armed \subseteq k.armed
           /\ \A x \in Mutex : /\ mtx'[x].owner = mtx[x].owner /\ mtx'[x].hold = mtx[x].hold
                               /\ mtx'[x].prio = mtx[x].prio
                               /\ mtx'[x].alive = mtx[x].alive /\ mtx'[x].ceil = mtx[x].ceil
           /\ \A x \in Mutex : mtx'[x].waitq = RemoveFirst(mtx[x].waitq, v)
<1>1. /\ At(Manager, "user") /\ Up /\ v \in Victims
      /\ k.stat[v] \in {"ready", "suspend"} /\ \A x \in Mutex : mtx[x].owner # v
      /\ k' = RemoveThread(k, v) /\ mtx' = Unlinked(mtx, v) /\ victim' = v
      /\ pc' = [pc EXCEPT ![Manager] = "delete"]
      /\ taken' = taken /\ pending' = pending /\ err' = err /\ fault' = fault
  BY DEF DeleteRemove, Deletable, Goto, At
<1>2. Manager \in Thread /\ v \in Thread \ {Idle} /\ v # Manager /\ v # NoThread
  BY MutexAssumption, KernelAssumption
<1>3. k.cur = Manager /\ k.stat[Manager] = "running" /\ pc[Manager] = "user"
  BY <1>1, <1>2, Running DEF At
<1>4. victim = NoThread /\ Gone = {}
  BY <1>2, <1>3, Types DEF MutInv, VictimApart, Gone
<1>5. /\ Runs(k', {v}, Idle) /\ k'.cur = k.cur /\ k'.armed = k.armed
      /\ k'.prio = k.prio /\ k'.stat = k.stat
  <2>1. Runs(k, {}, Idle)
    BY <1>4 DEF MutInv
  <2>2. v \in Thread \ {Idle} /\ v # k.cur
    BY <1>2, <1>3
  <2> DEFINE D == {} \cup {v}
  <2>3. /\ Runs(k', D, Idle) /\ k'.cur = k.cur /\ k'.armed = k.armed
        /\ k'.prio = k.prio /\ k'.stat = k.stat
    BY <1>1, <2>1, <2>2, RemoveRuns
  <2>4. D = {v}
    OBVIOUS
  <2> HIDE DEF D
  <2> QED BY <2>3, <2>4
<1>6. Runs(k, Gone, Idle)'
  <2>1. {victim'} \cap Thread = {v}
    BY <1>1, <1>2
  <2> QED BY <1>5, <2>1 DEF Gone
<1>7. /\ mtx' \in Records
      /\ \A x \in Mutex :
            /\ mtx'[x].waitq = RemoveFirst(mtx[x].waitq, v) /\ mtx'[x].prio = mtx[x].prio
            /\ mtx'[x].owner = mtx[x].owner /\ mtx'[x].hold = mtx[x].hold
            /\ mtx'[x].alive = mtx[x].alive /\ mtx'[x].ceil = mtx[x].ceil
            /\ \A u : Linked(u, mtx'[x].waitq) <=> Linked(u, mtx[x].waitq) /\ u # v
  <2> DEFINE m == Unlinked(mtx, v)
  <2>1. /\ m \in Records
        /\ \A x \in Mutex :
              /\ m[x].waitq = RemoveFirst(mtx[x].waitq, v) /\ m[x].prio = mtx[x].prio
              /\ m[x].owner = mtx[x].owner /\ m[x].hold = mtx[x].hold
              /\ m[x].alive = mtx[x].alive /\ m[x].ceil = mtx[x].ceil
              /\ \A u : Linked(u, m[x].waitq) <=> Linked(u, mtx[x].waitq) /\ u # v
    BY <1>2, UnlinkedIs
  <2>2. mtx' = m
    BY <1>1
  <2> HIDE DEF m
  <2> QED BY <2>1, <2>2
<1>8. /\ pc' \in [Thread -> Place] /\ pc'[Manager] = "delete"
      /\ \A u \in Thread \ {Manager} : pc'[u] = pc[u]
  BY <1>1, <1>2, Types DEF Place
<1>9. OwnershipExact'
  <2>1. k' \in KernelState
    BY <1>5, RunsType
  <2>2. TypeOK'
    BY <1>1, <1>2, <1>7, <1>8, <2>1, Types DEF TypeOK, Place, Code, Records
  <2> QED BY <1>1, <1>7, <2>2, OwnersStep
<1>10. \A u \in Thread : Waits(u)' <=> Waits(u) /\ u # v
  BY <1>1, <1>3, <1>4, <1>5, <1>8, Types DEF Waits
<1>11. CurrentPlaced'
  BY <1>3, <1>5 DEF CurrentPlaced
<1>12. VictimApart'
  <2>1. \A u \in Thread : pc[u] # "delete"
    BY <1>4 DEF MutInv, VictimApart
  <2>2. \A x \in Mutex : mtx'[x].owner # v
    BY <1>1, <1>7
  <2> QED BY <1>1, <1>2, <1>5, <1>8, <2>1, <2>2 DEF VictimApart
<1>13. ArmedWaits'
  BY <1>1, <1>5 DEF MutInv, ArmedWaits
<1>14. FailedWaits'
  BY <1>1, <1>5, <1>8 DEF MutInv, FailedWaits
<1>15. Lists'
  <2>1. \A u \in Thread \ {v} : Waits(u) => pending'[u] = pending[u] /\ err'[u] = "ok"
    BY <1>1 DEF MutInv, Lists
  <2> QED BY <1>7, <1>10, <2>1, LeaveLists
<1>16. Order'
  <2>1. ASSUME NEW x \in Mutex, Settled(x)'
        PROVE  Settled(x) /\ mtx'[x].prio = mtx[x].prio /\ mtx'[x].waitq = mtx[x].waitq
    <3>1. ASSUME NEW u \in Thread, Failing(u, x) PROVE Failing(u, x)'
      <4>1. u # Manager
        BY <1>3, <3>1 DEF Failing
      <4> QED BY <1>1, <1>5, <1>8, <3>1, <4>1 DEF Failing
    <3>2. pending[v] # x
      BY <1>1, <1>2, <2>1 DEF Settled
    <3>3. ~ Linked(v, mtx[x].waitq)
      BY <1>2, <3>2, Waiter
    <3> QED BY <1>4, <1>7, <2>1, <3>1, <3>3, NobodyLeaves DEF Settled
  <2> QED BY <1>1, <1>5, <1>7, <2>1, OrderStep
<1>17. MutInv'
  BY <1>6, <1>9, <1>11, <1>12, <1>13, <1>14, <1>15, <1>16 DEF MutInv
<1> QED BY <1>2, <1>4, <1>5, <1>7, <1>10, <1>17

(* The last thread that is being deleted is closed. *)
LEMMA ShutOne ==
    ASSUME NEW k1, NEW v \in Thread, Runs(k1, {v}, Idle)
    PROVE  /\ Runs(Shut(k1, v), {}, Idle)
           /\ Shut(k1, v).cur = k1.cur /\ Shut(k1, v).armed = k1.armed \ {v}
           /\ Shut(k1, v).prio = k1.prio
           /\ Shut(k1, v).stat = [k1.stat EXCEPT ![v] = "close"]
<1> DEFINE D == {v}
<1>1. Runs(k1, D, Idle) /\ v \in D /\ D \ {v} = {}
  OBVIOUS
<1> HIDE DEF D
<1>2. /\ Runs(Shut(k1, v), D \ {v}, Idle)
      /\ Shut(k1, v).cur = k1.cur /\ Shut(k1, v).armed = k1.armed \ {v}
      /\ Shut(k1, v).prio = k1.prio
      /\ Shut(k1, v).stat = [k1.stat EXCEPT ![v] = "close"]
  BY <1>1, CloseRuns
<1> QED BY <1>1, <1>2

(* The second part, which tells the owner of the mutex that is waited for. *)
LEMMA CloseInv ==
    ASSUME MutInv, Asserts, DeleteClose
    PROVE  /\ MutInv' /\ victim \in Thread /\ victim' = NoThread
           /\ k'.stat[victim] = "close" /\ k'.armed \subseteq k.armed
           /\ \A u \in Thread \ {victim} : k'.stat[u] = k.stat[u]
           /\ \A u \in Thread : Waits(u)' <=> Waits(u)
           /\ \A u \in Thread \ {victim} : pending'[u] = pending[u]
           /\ \A x \in Mutex : /\ mtx'[x].waitq = mtx[x].waitq
                               /\ mtx'[x].owner = mtx[x].owner /\ mtx'[x].hold = mtx[x].hold
                               /\ mtx'[x].alive = mtx[x].alive /\ mtx'[x].ceil = mtx[x].ceil
           /\ Up' => /\ WaitersKeep
                     /\ IF pending[victim] \in Mutex /\ mtx[pending[victim]].alive
                        THEN Told(victim, pending[victim])
                        ELSE /\ k'.prio = k.prio
                             /\ \A x \in Mutex : mtx'[x].prio = mtx[x].prio
<1> DEFINE v == victim
           x == pending[v]
           shut == [k EXCEPT !.stat[v] = "close", !.armed = @ \ {v}]
           m0 == Unlinked(mtx, v)
           o == m0[x].owner
           r == Disinherit(shut, m0, v, x)
           m == [m0 EXCEPT ![x].prio = HeadPrio(shut, m0[x].waitq)]
           p == MutexPriority(m, taken[o], o)
<1>1. /\ At(Manager, "delete") /\ Up
      /\ Commit(IF x # NoMutex /\ mtx[x].alive THEN r ELSE Present(shut, mtx, pending))
      /\ pending' = [pending EXCEPT ![v] = NoMutex] /\ victim' = NoThread
      /\ taken' = taken /\ err' = err
  BY DEF DeleteClose, At
<1>2. PICK next \in {"user", "sched"} : pc' = [pc EXCEPT ![Manager] = next]
  BY DEF DeleteClose, Goto
<1>3. Manager \in Thread
  BY MutexAssumption
<1>4. /\ k.cur = Manager /\ k.stat[Manager] = "running" /\ pc[Manager] = "delete"
      /\ Manager # v
  BY <1>1, <1>3, Running DEF At
<1>5. /\ v # NoThread /\ v \in Thread /\ v \in Victims /\ k.stat[v] \in {"ready", "suspend"}
      /\ \A y \in Mutex : mtx[y].owner # v
  BY <1>3, <1>4, Types DEF MutInv, VictimApart
<1>6. Gone = {v} /\ v \in Gone \cap Thread
  BY <1>5 DEF Gone
<1>7. /\ Runs(shut, {}, Idle) /\ shut.cur = k.cur /\ shut.armed = k.armed \ {v}
      /\ shut.prio = k.prio /\ shut.stat = [k.stat EXCEPT ![v] = "close"]
  <2>1. Runs(k, {v}, Idle) /\ v \in Thread
    BY <1>5, <1>6 DEF MutInv
  <2>2. shut = Shut(k, v)
    BY DEF Shut
  <2> HIDE DEF v, shut
  <2> QED BY <2>1, <2>2, ShutOne
<1> HIDE DEF shut
<1>8. /\ m0 \in Records
      /\ \A y \in Mutex : /\ m0[y].waitq = mtx[y].waitq /\ m0[y].prio = mtx[y].prio
                          /\ m0[y].owner = mtx[y].owner /\ m0[y].hold = mtx[y].hold
                          /\ m0[y].alive = mtx[y].alive /\ m0[y].ceil = mtx[y].ceil
  <2>1. \A y \in Mutex : ~ Linked(v, mtx[y].waitq)
    BY <1>5, Waiter
  <2>2. \A y \in Mutex : RemoveFirst(mtx[y].waitq, v) = mtx[y].waitq
    BY <2>1, NobodyLeaves
  <2>3. /\ m0 \in Records
        /\ \A y \in Mutex : /\ m0[y].waitq = RemoveFirst(mtx[y].waitq, v)
                            /\ m0[y].prio = mtx[y].prio
                            /\ m0[y].owner = mtx[y].owner /\ m0[y].hold = mtx[y].hold
                            /\ m0[y].alive = mtx[y].alive /\ m0[y].ceil = mtx[y].ceil
    <3> HIDE DEF v
    <3> QED BY <1>5, UnlinkedIs
  <2> HIDE DEF m0
  <2> QED BY <2>2, <2>3
<1>9. x \in Mutex \cup {NoMutex}
  BY <1>5, Types
<1>10. x \in Mutex =>
          IF o = NoThread
          THEN r.k = shut /\ r.mtx = m0 /\ r.fault = "null"
          ELSE /\ m \in Records /\ o \in Thread
               /\ IF shut.prio[o] = shut.prio[v] /\ p # shut.prio[o]
                  THEN p \in Prio /\ Passed(shut, r, o, p, m, pending, {})
                  ELSE Quiet(shut, r, m, {})
  <2> SUFFICES ASSUME x \in Mutex
               PROVE  IF o = NoThread
                      THEN r.k = shut /\ r.mtx = m0 /\ r.fault = "null"
                      ELSE /\ m \in Records /\ o \in Thread
                           /\ IF shut.prio[o] = shut.prio[v] /\ p # shut.prio[o]
                              THEN p \in Prio /\ Passed(shut, r, o, p, m, pending, {})
                              ELSE Quiet(shut, r, m, {})
    OBVIOUS
  <2>1. /\ Runs(shut, {}, Idle) /\ m0 \in Records
        /\ pending \in [Thread -> Mutex \cup {NoMutex}] /\ taken \in [Thread -> SUBSET Mutex]
    BY <1>7, <1>8, Types
  <2>2. shut.stat[shut.cur] # "suspend"
    BY <1>3, <1>4, <1>7, Types
  <2>3. m0[x].owner \notin {}
    OBVIOUS
  <2>4. v \in Thread
    BY <1>5
  <2> HIDE DEF x, m0, v
  <2> QED BY <2>1, <2>2, <2>3, <2>4, DisinheritIs
<1>11. /\ Runs(k', {}, Idle) /\ k'.cur = k.cur /\ k'.armed = k.armed \ {v}
       /\ k'.stat = shut.stat /\ fault' \in {"no", "assert", "null"}
       /\ \/ mtx' = mtx /\ k'.prio = k.prio /\ (Up' => ~ (x \in Mutex /\ mtx[x].alive))
          \/ mtx' = m0 /\ ~ Up'
          \/ /\ mtx' = m /\ m \in Records /\ x \in Mutex /\ mtx[x].alive /\ o \in Thread
             /\ k'.prio = IF k.prio[o] = k.prio[v] /\ p # k.prio[o]
                          THEN [k.prio EXCEPT ![o] = p] ELSE k.prio
       /\ \/ k'.prio = k.prio
          \/ /\ o \in Thread /\ x \in Mutex /\ k'.prio = [k.prio EXCEPT ![o] = p]
             /\ m \in Records
             /\ Up' => \/ shut.stat[o] # "suspend" \/ pending[o] = NoMutex
                       \/ ~ m[pending[o]].alive
  <2>1. CASE x # NoMutex /\ mtx[x].alive
    <3>1. x \in Mutex /\ k' = r.k /\ mtx' = r.mtx /\ fault' = r.fault
      BY <1>1, <1>9, <2>1 DEF Commit
    <3> HIDE DEF r, m, p, x, m0, v
    <3>2. CASE o = NoThread
      BY <1>7, <1>10, <3>1, <3>2 DEF Up
    <3>3. CASE /\ Passed(shut, r, o, p, m, pending, {}) /\ m \in Records /\ o \in Thread
               /\ k.prio[o] = k.prio[v] /\ p # k.prio[o]
      BY <1>7, <2>1, <3>1, <3>3 DEF Passed, Up
    <3>4. CASE /\ Quiet(shut, r, m, {}) /\ m \in Records /\ o \in Thread
               /\ ~ (k.prio[o] = k.prio[v] /\ p # k.prio[o])
      BY <1>7, <2>1, <3>1, <3>4 DEF Quiet
    <3> HIDE DEF o
    <3> QED BY <1>7, <1>10, <3>1, <3>2, <3>3, <3>4
  <2>2. CASE ~ (x # NoMutex /\ mtx[x].alive)
    <3>1. k' = shut /\ mtx' = mtx /\ fault' = "no" /\ ~ (x \in Mutex /\ mtx[x].alive)
      BY <1>1, <2>2, MutexAssumption DEF Commit, Present
    <3> HIDE DEF r, m, p, x, m0, v, o
    <3> QED BY <1>7, <3>1
  <2> QED BY <2>1, <2>2
<1> HIDE DEF r
<1>12. Up' => \A y \in Mutex, u \in Thread : Linked(u, mtx[y].waitq) => k'.prio[u] = k.prio[u]
  <2>1. CASE k'.prio = k.prio
    BY <2>1
  <2>2. CASE /\ o \in Thread /\ x \in Mutex /\ k'.prio = [k.prio EXCEPT ![o] = p]
             /\ m \in Records
             /\ Up' => \/ shut.stat[o] # "suspend" \/ pending[o] = NoMutex
                       \/ ~ m[pending[o]].alive
    <3>1. o # v
      BY <1>5, <1>8, <2>2
    <3>2. \A y \in Mutex : m[y].alive = mtx[y].alive
      <4> HIDE DEF m0
      <4> QED BY <1>8, <2>2 DEF Records, MutexRecord
    <3>3. pending[o] \in Mutex \cup {NoMutex} /\ shut.stat[o] = k.stat[o]
      BY <1>7, <2>2, <3>1, Types
    <3>4. Up' => \A y \in Mutex : ~ Linked(o, mtx[y].waitq)
      <4> HIDE DEF o, m
      <4> QED BY <2>2, <3>2, <3>3, NotWaiting
    <3> HIDE DEF o, m, p
    <3> QED BY <2>2, <3>4, Types
  <2> QED BY <1>11, <2>1, <2>2
<1>13. /\ mtx' \in Records
       /\ \A y \in Mutex :
             /\ mtx'[y].waitq = mtx[y].waitq /\ mtx'[y].owner = mtx[y].owner
             /\ mtx'[y].hold = mtx[y].hold /\ mtx'[y].alive = mtx[y].alive
             /\ mtx'[y].ceil = mtx[y].ceil
             /\ y # x => mtx'[y].prio = mtx[y].prio
       /\ Up' => \/ x \notin Mutex \/ ~ mtx[x].alive
                 \/ mtx'[x].prio = HeadPrio(k, mtx[x].waitq)
  <2>1. CASE mtx' = mtx /\ (Up' => ~ (x \in Mutex /\ mtx[x].alive))
    BY <2>1, Types
  <2>2. CASE mtx' = m0 /\ ~ Up'
    <3> HIDE DEF m0
    <3> QED BY <1>8, <2>2
  <2>3. CASE mtx' = m /\ m \in Records /\ x \in Mutex
    <3> DEFINE h == HeadPrio(shut, m0[x].waitq)
    <3>1. h = HeadPrio(k, mtx[x].waitq)
      BY <1>7, <1>8, <2>3 DEF HeadPrio
    <3>2. mtx' = [m0 EXCEPT ![x].prio = h]
      BY <2>3
    <3> HIDE DEF h, x, m0
    <3>3. /\ \A y \in Mutex :
                /\ mtx'[y].waitq = mtx[y].waitq /\ mtx'[y].owner = mtx[y].owner
                /\ mtx'[y].hold = mtx[y].hold
                /\ y # x => mtx'[y].prio = mtx[y].prio
          /\ mtx'[x].prio = h
      BY <1>8, <2>3, <3>2 DEF Records, MutexRecord
    <3>4. \A y \in Mutex : mtx'[y].alive = mtx[y].alive /\ mtx'[y].ceil = mtx[y].ceil
      BY <1>8, <2>3, <3>2 DEF Records, MutexRecord
    <3> QED BY <2>3, <3>1, <3>3, <3>4
  <2> QED BY <1>11, <2>1, <2>2, <2>3
<1>14. Up' => IF x \in Mutex /\ mtx[x].alive
              THEN Told(v, x)
              ELSE k'.prio = k.prio /\ \A y \in Mutex : mtx'[y].prio = mtx[y].prio
  <2>1. CASE mtx' = mtx /\ k'.prio = k.prio /\ (Up' => ~ (x \in Mutex /\ mtx[x].alive))
    BY <2>1
  <2>2. CASE /\ mtx' = m /\ m \in Records /\ x \in Mutex /\ mtx[x].alive /\ o \in Thread
             /\ k'.prio = IF k.prio[o] = k.prio[v] /\ p # k.prio[o]
                          THEN [k.prio EXCEPT ![o] = p] ELSE k.prio
    <3>1. mtx' = m /\ p = MutexPriority(mtx', taken[o], o) /\ o = mtx[x].owner
      BY <1>8, <2>2
    <3> HIDE DEF o, m, p, m0
    <3>2. Up' => mtx'[x].prio = HeadPrio(k, mtx[x].waitq)
      BY <1>13, <2>2
    <3>3. \A y \in Mutex \ {x} : mtx'[y].prio = mtx[y].prio
      BY <1>13
    <3> HIDE DEF x, v
    <3> QED BY <2>2, <3>1, <3>2, <3>3 DEF Told
  <2> HIDE DEF o, m, p, m0
  <2> QED BY <1>11, <2>1, <2>2
<1> HIDE DEF o, m, p, m0
<1>15. Up' => WaitersKeep
  BY <1>12 DEF WaitersKeep
<1>16. /\ pending' \in [Thread -> Mutex \cup {NoMutex}] /\ pending'[v] = NoMutex
       /\ \A u \in Thread \ {v} : pending'[u] = pending[u]
       /\ pc' \in [Thread -> Place] /\ pc'[Manager] \in {"user", "sched"}
       /\ \A u \in Thread \ {Manager} : pc'[u] = pc[u]
       /\ k'.stat[v] = "close" /\ \A u \in Thread \ {v} : k'.stat[u] = k.stat[u]
  BY <1>1, <1>2, <1>3, <1>5, <1>7, <1>11, Types DEF Place
<1>17. OwnershipExact'
  <2>1. k' \in KernelState
    BY <1>11, RunsType
  <2>2. TypeOK'
    BY <1>1, <1>11, <1>13, <1>16, <2>1, Types DEF TypeOK, Place, Code, Records
  <2> QED BY <1>1, <1>13, <2>2, OwnersStep
<1>18. Runs(k, Gone, Idle)'
  <2>1. {victim'} \cap Thread = {}
    BY <1>1, KernelAssumption
  <2> QED BY <1>11, <2>1 DEF Gone
<1>19. \A u \in Thread : Waits(u)' <=> Waits(u)
  BY <1>1, <1>4, <1>16, Types DEF Waits
<1>20. CurrentPlaced'
  BY <1>3, <1>4, <1>11, <1>16 DEF CurrentPlaced
<1>21. VictimApart'
  <2>1. \A u \in Thread : pc[u] = "delete" => u = Manager
    BY DEF MutInv, VictimApart
  <2> QED BY <1>1, <1>16, <2>1 DEF VictimApart
<1>22. ArmedWaits'
  <2>1. k.armed \in SUBSET Thread /\ NoThread \notin Thread
    BY Types
  <2> QED BY <1>1, <1>11, <1>16, <2>1 DEF MutInv, ArmedWaits
<1>23. FailedWaits'
  BY <1>1, <1>5, <1>16 DEF MutInv, FailedWaits
<1>24. Lists'
  <2>1. \A u \in Thread : Waits(u) => pending'[u] = pending[u] /\ err'[u] = "ok"
    BY <1>1, <1>16 DEF MutInv, Lists, Waits
  <2> QED BY <1>13, <1>19, <2>1, KeepLists
<1>25. Order'
  <2> HIDE DEF x
  <2>1. ASSUME NEW y \in Mutex, Settled(y)', y # x PROVE Settled(y)
    <3>1. ASSUME NEW u \in Thread, Failing(u, y) PROVE Failing(u, y)'
      <4>1. u # v /\ u # Manager
        BY <1>4, <2>1, <3>1 DEF Failing, x
      <4> QED BY <1>1, <1>16, <3>1, <4>1 DEF Failing
    <3> QED BY <1>13, <2>1, <3>1 DEF Settled, x
  <2>2. Up' /\ x \in Mutex /\ mtx[x].alive => mtx'[x].prio = HeadPrio(k', mtx'[x].waitq)
    <3> SUFFICES ASSUME Up', x \in Mutex, mtx[x].alive
                 PROVE  mtx'[x].prio = HeadPrio(k', mtx'[x].waitq)
      OBVIOUS
    <3>1. \A u \in Thread : Linked(u, mtx[x].waitq) => k.prio[u] = k'.prio[u]
      BY <1>12
    <3>2. mtx[x].waitq \in Seq(Thread)
      BY Fields1
    <3>3. HeadPrio(k, mtx[x].waitq) = HeadPrio(k', mtx[x].waitq)
      BY <3>1, <3>2, HeadPrioSame
    <3> QED BY <1>13, <3>3
  <2>3. ASSUME Up', NEW y \in Mutex
        PROVE  \/ mtx'[y].prio = HeadPrio(k', mtx'[y].waitq)
               \/ Settled(y)' => Settled(y) /\ mtx'[y].prio = mtx[y].prio
    <3>1. CASE y # x
      BY <1>13, <2>1, <3>1
    <3>2. CASE y = x /\ mtx[x].alive
      BY <2>2, <2>3, <3>2
    <3>3. CASE y = x /\ ~ mtx[x].alive
      BY <1>13, <3>3 DEF Settled
    <3> QED BY <3>1, <3>2, <3>3
  <2> QED BY <1>1, <1>12, <1>13, <2>3, KeepOrder
<1>26. MutInv'
  BY <1>17, <1>18, <1>20, <1>21, <1>22, <1>23, <1>24, <1>25 DEF MutInv
<1> QED BY <1>1, <1>5, <1>11, <1>13, <1>16, <1>19, <1>26, <1>14, <1>15

-----------------------------------------------------------------------------
(* The invariant is inductive *)

(* What the steps that change the priority of another thread do besides:   *)
(* a wait begins, ...                                                      *)
Asks(t, x) ==
    /\ MutInv' /\ Waits(t)' /\ ~ Waits(t) /\ pending' = [pending EXCEPT ![t] = x]
    /\ \A u \in Thread \ {t} : Waits(u)' <=> Waits(u)
    /\ \A u \in Thread : k'.stat[u] = "close" <=> k.stat[u] = "close"
    /\ \A y \in Mutex : /\ mtx'[y].owner = mtx[y].owner /\ mtx'[y].hold = mtx[y].hold
                        /\ mtx'[y].alive = mtx[y].alive
    /\ t # victim /\ (t \notin Timed => k'.armed \subseteq k.armed)

(* ... a wait that has failed is reported, ...                             *)
Reports ==
    /\ MutInv' /\ Wakes(k, k', {}) /\ \A u \in Thread : Waits(u)' <=> Waits(u)
    /\ \A x \in Mutex : mtx'[x].owner = mtx[x].owner /\ mtx'[x].hold = mtx[x].hold

(* ... or a thread has been deleted.                                       *)
Closes ==
    /\ MutInv' /\ victim \in Thread /\ victim' = NoThread
    /\ k'.stat[victim] = "close" /\ k'.armed \subseteq k.armed
    /\ \A u \in Thread \ {victim} : k'.stat[u] = k.stat[u]
    /\ \A u \in Thread : Waits(u)' <=> Waits(u)
    /\ \A u \in Thread \ {victim} : pending'[u] = pending[u]
    /\ \A x \in Mutex : /\ mtx'[x].owner = mtx[x].owner /\ mtx'[x].hold = mtx[x].hold
                        /\ mtx'[x].alive = mtx[x].alive

Framed ==
    /\ \A t \in Thread, x \in Mutex : TakeWait(t, x) => Asks(t, x)
    /\ \A t \in Thread : TakeFail(t) => Reports
    /\ DeleteClose => Closes

(* They do so where the assertion of rt_thread_suspend stops the passing   *)
(* on after the first owner.                                               *)
LEMMA AssertsFramed ==
    ASSUME MutInv, Asserts
    PROVE  Framed
<1>1. ASSUME NEW t \in Thread, NEW x \in Mutex, TakeWait(t, x) PROVE Asks(t, x)
  BY <1>1, WaitInv DEF Asks
<1>2. ASSUME NEW t \in Thread, TakeFail(t) PROVE Reports
  BY <1>2, FailInv DEF Reports
<1>3. ASSUME DeleteClose PROVE Closes
  BY <1>3, CloseInv DEF Closes
<1> QED BY <1>1, <1>2, <1>3 DEF Framed

(* Then each step keeps the invariant. *)
LEMMA StepInv ==
    ASSUME MutInv, Framed, [Next]_vars
    PROVE  MutInv'
<1>1. CASE UNCHANGED vars
  BY <1>1 DEF vars, MutInv, OwnershipExact, TypeOK, Gone, CurrentPlaced, VictimApart,
              ArmedWaits, FailedWaits, Lists, Waits, Order, Settled, Failing, Up
<1>2. ASSUME NEW t \in Thread, NEW x \in Mutex, MutexCall(t, x) PROVE MutInv'
  <2>1. CASE TakeWait(t, x)
    BY <2>1 DEF Framed, Asks
  <2> QED BY <1>2, <2>1, StillInv, FreeInv, HandOverInv, DetachInv DEF MutexCall
<1>3. ASSUME NEW t \in Thread, NEW x \in Thread, Start(t, x) PROVE MutInv'
  BY <1>3, StartInv
<1>4. ASSUME NEW t \in Thread, Continue(t) PROVE MutInv'
  <2>1. CASE TakeFail(t)
    BY <2>1 DEF Framed, Reports
  <2> QED BY <1>4, <2>1, StillInv, ScheduleInv DEF Continue
<1>5. ASSUME NEW v \in Victims, DeleteRemove(v) PROVE MutInv'
  BY <1>5, RemoveInv
<1>6. CASE DeleteClose
  BY <1>6 DEF Framed, Closes
<1>7. ASSUME NEW t \in Sleepers, Sleep(t) PROVE MutInv'
  BY <1>7, SleepInv
<1>8. ASSUME NEW t \in Thread, TimerFire(t) PROVE MutInv'
  BY <1>8, TimerInv
<1>9. CASE SliceOver
  BY <1>9, ScheduleInv
<1> QED BY <1>1, <1>2, <1>3, <1>4, <1>5, <1>6, <1>7, <1>8, <1>9 DEF Next

-----------------------------------------------------------------------------
(* The refinement of RecursiveLock *)

owners == [x \in Mutex |-> mtx[x].owner]
holds == [x \in Mutex |-> mtx[x].hold]
wanted == [t \in Thread |-> AskedFor(t)]
states == [t \in Thread |-> TakeState(t)]

(* A step of RecursiveLock, or one that its users do not see. *)
LockStep == [Lock!Next]_<<[x \in Mutex |-> mtx[x].owner], [x \in Mutex |-> mtx[x].hold],
                          [t \in Thread |-> AskedFor(t)], [t \in Thread |-> TakeState(t)]>>

(* What a thread has of its take, without the wait lists. *)
LEMMA ViewIs ==
    ASSUME MutInv, NEW t \in Thread
    PROVE  /\ Asking(t) <=> Waits(t)
           /\ AskedFor(t) = IF Waits(t) THEN pending[t] ELSE NoMutex
           /\ TakeState(t) = IF t = victim \/ k.stat[t] = "close" THEN "dead"
                             ELSE IF pc[t] \notin {"wait", "return"} THEN "idle"
                             ELSE IF Waits(t) THEN "asking"
                             ELSE IF err[t] = "ok" THEN "granted" ELSE err[t]
           /\ Waits(t) => TakeState(t) = "asking" /\ pending[t] \in Mutex
<1>1. Asking(t) <=> Waits(t)
  BY DEF MutInv, Lists, Asking
<1>2. Waits(t) => t # victim /\ k.stat[t] # "close" /\ pending[t] \in Mutex
  BY DEF MutInv, Lists, Waits
<1> QED BY <1>1, <1>2 DEF AskedFor, TakeState, Waits

(* The same after a step. *)
LEMMA NextViewIs ==
    ASSUME MutInv', NEW t \in Thread
    PROVE  /\ Asking(t)' <=> Waits(t)'
           /\ AskedFor(t)' = IF Waits(t)' THEN pending'[t] ELSE NoMutex
           /\ TakeState(t)' = IF t = victim' \/ k'.stat[t] = "close" THEN "dead"
                              ELSE IF pc'[t] \notin {"wait", "return"} THEN "idle"
                              ELSE IF Waits(t)' THEN "asking"
                              ELSE IF err'[t] = "ok" THEN "granted" ELSE err'[t]
<1>1. Asking(t)' <=> Waits(t)'
  BY DEF MutInv, Lists, Asking
<1> QED BY <1>1 DEF AskedFor, TakeState

(* A step that leaves a thread in its take, or out of any. *)
LEMMA SameView ==
    ASSUME MutInv, MutInv', NEW t \in Thread, Waits(t)' <=> Waits(t),
           pending'[t] = pending[t] \/ ~ Waits(t),
           t = victim' <=> t = victim, k'.stat[t] = "close" <=> k.stat[t] = "close",
           pc'[t] \in {"wait", "return"} <=> pc[t] \in {"wait", "return"},
           pc[t] \notin {"wait", "return"} \/ err'[t] = err[t]
    PROVE  AskedFor(t)' = AskedFor(t) /\ TakeState(t)' = TakeState(t)
BY ViewIs, NextViewIs

(* No thread gets on. *)
LEMMA Stays ==
    ASSUME \A t \in Thread : AskedFor(t)' = AskedFor(t) /\ TakeState(t)' = TakeState(t)
    PROVE  UNCHANGED wanted /\ UNCHANGED states
BY DEF wanted, states

(* No mutex changes hands. *)
LEMMA Keeps ==
    ASSUME \A x \in Mutex : mtx'[x].owner = mtx[x].owner /\ mtx'[x].hold = mtx[x].hold
    PROVE  UNCHANGED owners /\ UNCHANGED holds
BY DEF owners, holds

(* One thread gets on. *)
LEMMA Becomes ==
    ASSUME NEW t \in Thread, NEW s, NEW x, AskedFor(t)' = x, TakeState(t)' = s,
           \A u \in Thread \ {t} :
               AskedFor(u)' = AskedFor(u) /\ TakeState(u)' = TakeState(u)
    PROVE  Lock!Become(t, s, x)
BY DEF Lock!Become

(* One mutex changes hands. *)
LEMMA Owns ==
    ASSUME NEW x \in Mutex,
           \A y \in Mutex \ {x} : mtx'[y].owner = mtx[y].owner /\ mtx'[y].hold = mtx[y].hold
    PROVE  Lock!Own(x, mtx'[x].owner, mtx'[x].hold)
BY DEF Lock!Own

(* Steps that the users of the mutexes do not see. *)
LEMMA Unseen ==
    ASSUME \A t \in Thread : AskedFor(t)' = AskedFor(t) /\ TakeState(t)' = TakeState(t),
           \A x \in Mutex : mtx'[x].owner = mtx[x].owner /\ mtx'[x].hold = mtx[x].hold
    PROVE  LockStep
BY Stays, Keeps DEF LockStep, wanted, states, owners, holds

(* ... and those that concern the scheduler only. *)
LEMMA UnseenPlaces ==
    ASSUME MutInv, MutInv', mtx' = mtx, pending' = pending, victim' = victim,
           \A t \in Thread : Waits(t)' <=> Waits(t),
           \A t \in Thread : k'.stat[t] = "close" <=> k.stat[t] = "close",
           \A t \in Thread : pc'[t] \in {"wait", "return"} <=> pc[t] \in {"wait", "return"},
           \A t \in Thread : pc[t] \in {"wait", "return"} => err'[t] = err[t]
    PROVE  LockStep
<1>1. \A t \in Thread : AskedFor(t)' = AskedFor(t) /\ TakeState(t)' = TakeState(t)
  BY SameView
<1> QED BY <1>1, Unseen

(* Who wakes threads closes none. *)
LEMMA WakesClose ==
    ASSUME NEW S, Wakes(k, k', S), \A t \in S \cap Thread : k.stat[t] # "close"
    PROVE  \A t \in Thread : k'.stat[t] = "close" <=> k.stat[t] = "close"
BY DEF Wakes, Awake

(* RecursiveLock's take at once ... *)
LEMMA LockTakes ==
    ASSUME NEW t \in Thread, NEW x \in Mutex, states[t] = "idle",
           owners[x] \in {NoThread, t}, holds[x] < MaxHold,
           Lock!Own(x, t, holds[x] + 1), UNCHANGED wanted, UNCHANGED states
    PROVE  Lock!Take(t, x)
BY Zenon DEF Lock!Take, owners, holds, wanted, states

(* ... and release that is not the last. *)
LEMMA LockLeaves ==
    ASSUME NEW t \in Thread, NEW x \in Mutex,
           owners[x] = t, holds[x] > 1,
           Lock!Own(x, t, holds[x] - 1), UNCHANGED wanted, UNCHANGED states
    PROVE  Lock!Leave(t, x)
BY Zenon DEF Lock!Leave, owners, holds, wanted, states

(* A take that is satisfied at once, and a release that leaves nobody the  *)
(* mutex.                                                                  *)
LEMMA FreeLocks ==
    ASSUME MutInv, NEW t \in Thread, NEW x \in Mutex,
           TakeAgain(t, x) \/ TakeFree(t, x) \/ ReleaseNested(t, x) \/ ReleaseFree(t, x)
    PROVE  LockStep
<1>1. /\ MutInv' /\ Wakes(k, k', {}) /\ \A u \in Thread : Waits(u)' <=> Waits(u)
  BY StillInv, FreeInv
<1>2. /\ At(t, "user") /\ pending' = pending /\ victim' = victim
      /\ pc' = pc \/ \E s \in {"user", "sched"} : pc' = [pc EXCEPT ![t] = s]
      /\ err' = err \/ err' = [err EXCEPT ![t] = "ok"]
  BY <1>1 DEF TakeAgain, TakeFree, ReleaseNested, ReleaseFree, Calls, Goto
<1>3. /\ t # victim /\ k.stat[t] = "running" /\ pc[t] = "user" /\ ~ Waits(t)
  BY <1>2, Running DEF At
<1>4. \A u \in Thread : k'.stat[u] = "close" <=> k.stat[u] = "close"
  BY <1>1, WakesClose
<1>5. \A u \in Thread : /\ pc'[u] \in {"wait", "return"} <=> pc[u] \in {"wait", "return"}
                        /\ pc[u] \in {"wait", "return"} => err'[u] = err[u]
  <2>1. pc'[t] \in {"user", "sched"} /\ \A u \in Thread \ {t} : pc'[u] = pc[u]
    BY <1>2, <1>3, Types
  <2>2. \A u \in Thread \ {t} : err'[u] = err[u]
    BY <1>2, Types
  <2> TAKE u \in Thread
  <2>3. CASE u = t
    BY <1>3, <2>1, <2>3
  <2>4. CASE u # t
    BY <2>1, <2>2, <2>4
  <2> QED BY <2>3, <2>4
<1>6. \A u \in Thread : AskedFor(u)' = AskedFor(u) /\ TakeState(u)' = TakeState(u)
  <2> TAKE u \in Thread
  <2>1. pending'[u] = pending[u] /\ (u = victim' <=> u = victim)
    BY <1>2
  <2>2. /\ MutInv' /\ (Waits(u)' <=> Waits(u))
        /\ (k'.stat[u] = "close" <=> k.stat[u] = "close")
    BY <1>1, <1>4
  <2>3. /\ pc'[u] \in {"wait", "return"} <=> pc[u] \in {"wait", "return"}
        /\ pc[u] \notin {"wait", "return"} \/ err'[u] = err[u]
    BY <1>5
  <2> QED BY <2>1, <2>2, <2>3, SameView
<1>7. UNCHANGED wanted /\ UNCHANGED states
  BY <1>6, Stays
<1>8. states[t] = "idle"
  BY <1>3, ViewIs DEF states
<1>9. /\ owners[x] = mtx[x].owner /\ holds[x] = mtx[x].hold
      /\ mtx \in Records /\ mtx[x].hold \in 0 .. MaxHold
      /\ mtx[x].owner = NoThread => mtx[x].hold = 0
  BY Types, Fields1 DEF owners, holds, MutInv, OwnershipExact
<1>10. MaxHold \in Nat \ {0}
  BY MutexAssumption
<1>11. CASE TakeAgain(t, x)
  <2>1. /\ mtx[x].owner = t /\ mtx[x].hold < MaxHold
        /\ mtx' = [mtx EXCEPT ![x].hold = @ + 1]
    BY <1>11 DEF TakeAgain
  <2>2. Lock!Own(x, t, holds[x] + 1)
    <3>1. /\ mtx'[x].owner = t /\ mtx'[x].hold = holds[x] + 1
          /\ \A y \in Mutex \ {x} : mtx'[y] = mtx[y]
      BY <1>9, <2>1 DEF Records, MutexRecord
    <3>2. Lock!Own(x, mtx'[x].owner, mtx'[x].hold)
      BY <3>1, Owns
    <3> QED BY <3>1, <3>2 DEF Lock!Own
  <2>3. Lock!Take(t, x)
    BY <1>7, <1>8, <1>9, <2>1, <2>2, LockTakes
  <2> QED BY <2>3 DEF LockStep, Lock!Next
<1>12. CASE TakeFree(t, x)
  <2>1. /\ mtx[x].owner = NoThread /\ mtx[x].hold = 0
        /\ mtx' = [mtx EXCEPT ![x].owner = t, ![x].hold = 1, ![x].prio = NoPrio]
    BY <1>9, <1>12 DEF TakeFree
  <2>2. Lock!Own(x, t, holds[x] + 1)
    <3>1. /\ mtx'[x].owner = t /\ mtx'[x].hold = holds[x] + 1
          /\ \A y \in Mutex \ {x} : mtx'[y] = mtx[y]
      BY <1>9, <2>1 DEF Records, MutexRecord
    <3>2. Lock!Own(x, mtx'[x].owner, mtx'[x].hold)
      BY <3>1, Owns
    <3> QED BY <3>1, <3>2 DEF Lock!Own
  <2>3. holds[x] < MaxHold
    BY <1>9, <1>10, <2>1
  <2>4. Lock!Take(t, x)
    BY <1>7, <1>8, <1>9, <2>1, <2>2, <2>3, LockTakes
  <2> QED BY <2>4 DEF LockStep, Lock!Next
<1>13. CASE ReleaseNested(t, x)
  <2>1. /\ mtx[x].owner = t /\ mtx[x].hold > 1
        /\ mtx' = [mtx EXCEPT ![x].hold = @ - 1]
    BY <1>13 DEF ReleaseNested
  <2>2. Lock!Own(x, t, holds[x] - 1)
    <3>1. /\ mtx'[x].owner = t /\ mtx'[x].hold = holds[x] - 1
          /\ \A y \in Mutex \ {x} : mtx'[y] = mtx[y]
      BY <1>9, <2>1 DEF Records, MutexRecord
    <3>2. Lock!Own(x, mtx'[x].owner, mtx'[x].hold)
      BY <3>1, Owns
    <3> QED BY <3>1, <3>2 DEF Lock!Own
  <2>3. Lock!Leave(t, x)
    BY <1>7, <1>9, <2>1, <2>2, LockLeaves
  <2> QED BY <2>3 DEF LockStep, Lock!Next
<1>14. CASE ReleaseFree(t, x)
  <2>1. /\ mtx[x].owner = t /\ mtx[x].hold = 1 /\ mtx[x].waitq = <<>>
        /\ mtx' = [mtx EXCEPT ![x].owner = NoThread, ![x].hold = 0, ![x].prio = NoPrio]
    BY <1>14 DEF ReleaseFree
  <2>2. Lock!Own(x, NoThread, 0)
    <3>1. /\ mtx'[x].owner = NoThread /\ mtx'[x].hold = 0
          /\ \A y \in Mutex \ {x} : mtx'[y] = mtx[y]
      BY <1>9, <2>1 DEF Records, MutexRecord
    <3>2. Lock!Own(x, mtx'[x].owner, mtx'[x].hold)
      BY <3>1, Owns
    <3> QED BY <3>1, <3>2 DEF Lock!Own
  <2>3. ~ Lock!Asked(x)
    <3>1. \A u \in Thread : ~ Linked(u, mtx[x].waitq)
      BY <2>1 DEF Linked
    <3>2. \A u \in Thread : ~ (Waits(u) /\ pending[u] = x)
      BY <3>1 DEF MutInv, Lists
    <3>3. \A u \in Thread : AskedFor(u) # x
      BY <3>2, ViewIs, MutexAssumption
    <3> QED BY <3>3 DEF Lock!Asked
  <2>4. Lock!Free(t, x)
    BY <1>7, <1>9, <2>1, <2>2, <2>3 DEF Lock!Free, owners, holds, wanted, states
  <2> QED BY <2>4 DEF LockStep, Lock!Next
<1> QED BY <1>11, <1>12, <1>13, <1>14

(* The first waiter becomes the owner. *)
LEMMA HandOverLocks ==
    ASSUME MutInv, NEW t \in Thread, NEW x \in Mutex, HandOver(t, x)
    PROVE  LockStep
<1> DEFINE h == Head(mtx[x].waitq)
<1>1. /\ MutInv' /\ h \in Thread /\ Linked(h, mtx[x].waitq) /\ Wakes(k, k', {h})
      /\ \A u \in Thread : Waits(u)' <=> Waits(u) /\ u # h
  BY HandOverInv
<1>2. /\ At(t, "user") /\ mtx[x].owner = t /\ mtx[x].hold = 1
      /\ mtx' = [mtx EXCEPT ![x].owner = h, ![x].hold = 1, ![x].waitq = Tail(mtx[x].waitq),
                            ![x].prio = HeadPrio(k, Tail(mtx[x].waitq))]
      /\ pending' = [pending EXCEPT ![h] = NoMutex]
      /\ pc' = [pc EXCEPT ![t] = "sched"] /\ err' = err /\ victim' = victim
  BY DEF HandOver, Calls, Goto
<1> HIDE DEF h
<1>3. PICK n \in Thread : n = h
  BY <1>1
<1>4. /\ Waits(n) /\ n # victim /\ pending[n] = x /\ err[n] = "ok" /\ k.stat[n] = "suspend"
  BY <1>1, <1>3, Waiter
<1>5. pc[t] = "user" /\ n # t /\ pc[n] \in {"wait", "return"}
  BY <1>2, <1>4, Running DEF At, Waits
<1>6. \A u \in Thread : k'.stat[u] = "close" <=> k.stat[u] = "close"
  <2>1. \A u \in {n} \cap Thread : k.stat[u] # "close"
    BY <1>4
  <2>2. Wakes(k, k', {n})
    BY <1>1, <1>3
  <2> QED BY <2>1, <2>2, WakesClose
<1>7. /\ pc'[t] = "sched" /\ \A u \in Thread \ {t} : pc'[u] = pc[u]
      /\ \A u \in Thread \ {n} : pending'[u] = pending[u]
  BY <1>2, <1>3, Types
<1>8. /\ AskedFor(n)' = NoMutex /\ TakeState(n)' = "granted"
  <2>1. ~ Waits(n)' /\ MutInv' /\ n # victim' /\ k'.stat[n] # "close"
    BY <1>1, <1>2, <1>3, <1>4, <1>6
  <2>2. pc'[n] \in {"wait", "return"} /\ err'[n] = "ok"
    BY <1>2, <1>4, <1>5, <1>7
  <2> QED BY <2>1, <2>2, NextViewIs
<1>9. \A u \in Thread \ {n} : AskedFor(u)' = AskedFor(u) /\ TakeState(u)' = TakeState(u)
  <2> TAKE u \in Thread \ {n}
  <2>1. MutInv' /\ (Waits(u)' <=> Waits(u)) /\ (u = victim' <=> u = victim)
    BY <1>1, <1>2, <1>3
  <2>2. pc'[u] \in {"wait", "return"} <=> pc[u] \in {"wait", "return"}
    BY <1>5, <1>7
  <2>3. err'[u] = err[u] /\ pending'[u] = pending[u]
    BY <1>2, <1>7
  <2> QED BY <1>6, <2>1, <2>2, <2>3, SameView
<1>10. Lock!Become(n, "granted", NoMutex)
  BY <1>8, <1>9, Becomes
<1>11. Lock!Own(x, n, 1)
  <2>1. /\ mtx'[x].owner = n /\ mtx'[x].hold = 1
        /\ \A y \in Mutex \ {x} : mtx'[y] = mtx[y]
    BY <1>2, <1>3, Types DEF Records, MutexRecord
  <2>2. Lock!Own(x, mtx'[x].owner, mtx'[x].hold)
    BY <2>1, Owns
  <2> QED BY <2>1, <2>2 DEF Lock!Own
<1>12. AskedFor(n) = x
  BY <1>4, ViewIs
<1>13. Lock!HandOver(t, x)
  BY <1>2, <1>10, <1>11, <1>12 DEF Lock!HandOver
<1> QED BY <1>13 DEF LockStep, Lock!Next

(* A thread begins to wait. *)
LEMMA AskLocks ==
    ASSUME MutInv, Framed, NEW t \in Thread, NEW x \in Mutex, TakeWait(t, x)
    PROVE  LockStep
<1>1. /\ MutInv' /\ Waits(t)' /\ ~ Waits(t) /\ pending' = [pending EXCEPT ![t] = x]
      /\ \A u \in Thread \ {t} : Waits(u)' <=> Waits(u)
      /\ \A u \in Thread : k'.stat[u] = "close" <=> k.stat[u] = "close"
      /\ \A y \in Mutex : mtx'[y].owner = mtx[y].owner /\ mtx'[y].hold = mtx[y].hold
      /\ t # victim
  BY DEF Framed, Asks
<1>2. /\ At(t, "user") /\ mtx[x].owner \notin {NoThread, t} /\ victim' = victim
      /\ pc' = [pc EXCEPT ![t] = "wait"] /\ err' = [err EXCEPT ![t] = "ok"]
  BY DEF TakeWait, Calls, Goto
<1>3. k.stat[t] = "running" /\ pc[t] = "user"
  BY <1>2, Running DEF At
<1>4. /\ pc'[t] = "wait" /\ pending'[t] = x
      /\ \A u \in Thread \ {t} :
            pc'[u] = pc[u] /\ err'[u] = err[u] /\ pending'[u] = pending[u]
  BY <1>1, <1>2, Types
<1>5. AskedFor(t)' = x /\ TakeState(t)' = "asking"
  BY <1>1, <1>2, <1>3, <1>4, NextViewIs
<1>6. \A u \in Thread \ {t} : AskedFor(u)' = AskedFor(u) /\ TakeState(u)' = TakeState(u)
  <2> TAKE u \in Thread \ {t}
  <2>1. MutInv' /\ (Waits(u)' <=> Waits(u)) /\ (u = victim' <=> u = victim)
    BY <1>1, <1>2
  <2>2. pc'[u] = pc[u] /\ err'[u] = err[u] /\ pending'[u] = pending[u]
    BY <1>4
  <2>3. k'.stat[u] = "close" <=> k.stat[u] = "close"
    BY <1>1
  <2> QED BY <2>1, <2>2, <2>3, SameView
<1>7. Lock!Become(t, "asking", x)
  BY <1>5, <1>6, Becomes
<1>8. TakeState(t) = "idle"
  BY <1>1, <1>3, ViewIs
<1>9. UNCHANGED owners /\ UNCHANGED holds
  BY <1>1, Keeps
<1>10. Lock!Ask(t, x)
  BY <1>2, <1>7, <1>8, <1>9 DEF Lock!Ask, owners, holds
<1> QED BY <1>10 DEF LockStep, Lock!Next

(* A waiting take returns, with the mutex or without. *)
LEMMA ReturnLocks ==
    ASSUME MutInv, Framed, NEW t \in Thread, TakeReturn(t) \/ TakeFail(t)
    PROVE  LockStep
<1>1. /\ MutInv' /\ Wakes(k, k', {}) /\ \A u \in Thread : Waits(u)' <=> Waits(u)
  <2>1. CASE TakeReturn(t)
    BY <2>1, StillInv
  <2>2. CASE TakeFail(t)
    BY <2>2 DEF Framed, Reports
  <2> QED BY <2>1, <2>2
<1>2. \A x \in Mutex : mtx'[x].owner = mtx[x].owner /\ mtx'[x].hold = mtx[x].hold
  <2>1. CASE TakeReturn(t)
    BY <2>1 DEF TakeReturn
  <2>2. CASE TakeFail(t)
    BY <2>2 DEF Framed, Reports
  <2> QED BY <2>1, <2>2
<1>3. /\ At(t, "return") /\ pc' = [pc EXCEPT ![t] = "user"]
      /\ pending' = pending /\ err' = err /\ victim' = victim
  BY DEF TakeReturn, TakeFail, Goto
<1>4. /\ t # victim /\ k.stat[t] = "running" /\ pc[t] = "return" /\ ~ Waits(t)
  BY <1>3, Running DEF At
<1>5. \A u \in Thread : k'.stat[u] = "close" <=> k.stat[u] = "close"
  BY <1>1, WakesClose
<1>6. pc'[t] = "user" /\ \A u \in Thread \ {t} : pc'[u] = pc[u]
  BY <1>3, Types
<1>7. AskedFor(t)' = NoMutex /\ TakeState(t)' = "idle"
  <2>1. MutInv' /\ ~ Waits(t)' /\ t # victim' /\ k'.stat[t] # "close"
    BY <1>1, <1>3, <1>4, <1>5
  <2> QED BY <1>6, <2>1, NextViewIs
<1>8. \A u \in Thread \ {t} : AskedFor(u)' = AskedFor(u) /\ TakeState(u)' = TakeState(u)
  <2> TAKE u \in Thread \ {t}
  <2>1. MutInv' /\ (Waits(u)' <=> Waits(u)) /\ (u = victim' <=> u = victim)
    BY <1>1, <1>3
  <2>2. pc'[u] = pc[u] /\ err'[u] = err[u] /\ pending'[u] = pending[u]
    BY <1>3, <1>6
  <2> QED BY <1>5, <2>1, <2>2, SameView
<1>9. Lock!Become(t, "idle", NoMutex)
  BY <1>7, <1>8, Becomes
<1>10. TakeState(t) \in Lock!Outcome
  <2>1. err[t] \in Code
    BY Types
  <2> QED BY <1>4, <2>1, ViewIs DEF Lock!Outcome, Code
<1>11. UNCHANGED owners /\ UNCHANGED holds
  BY <1>2, Keeps
<1>12. Lock!Return(t)
  BY <1>9, <1>10, <1>11 DEF Lock!Return, owners, holds
<1> QED BY <1>12 DEF LockStep, Lock!Next

(* All waiters of a mutex fail at once. *)
LEMMA CancelLocks ==
    ASSUME MutInv, NEW t \in Thread, NEW x \in Mutex, Detach(t, x)
    PROVE  LockStep
<1> DEFINE S == LinkedIn(mtx[x].waitq)
<1>1. /\ MutInv' /\ Wakes(k, k', S)
      /\ \A u \in Thread : Waits(u)' <=> Waits(u) /\ u \notin S
      /\ \A y \in Mutex : mtx'[y].owner = mtx[y].owner /\ mtx'[y].hold = mtx[y].hold
  BY DetachInv
<1>2. /\ pc' = pc /\ pending' = pending /\ victim' = victim
      /\ err' = [u \in Thread |-> IF Linked(u, mtx[x].waitq) THEN "error" ELSE err[u]]
  BY DEF Detach
<1>3. \A u \in Thread : u \in S <=> Linked(u, mtx[x].waitq)
  BY DEF LinkedIn
<1>4. \A u \in S \cap Thread : /\ Waits(u) /\ u # victim /\ pending[u] = x
                              /\ k.stat[u] # "close" /\ pc[u] \in {"wait", "return"}
  BY <1>3, Waiter DEF Waits
<1>5. \A u \in Thread : u \in S <=> Waits(u) /\ pending[u] = x
  BY <1>3 DEF MutInv, Lists
<1> HIDE DEF S
<1>6. \A u \in Thread : k'.stat[u] = "close" <=> k.stat[u] = "close"
  BY <1>1, <1>4, WakesClose
<1>7. \A u \in Thread \cap S : AskedFor(u)' = NoMutex /\ TakeState(u)' = "error"
  <2> TAKE u \in Thread \cap S
  <2>1. MutInv' /\ ~ Waits(u)' /\ u # victim' /\ k'.stat[u] # "close"
    BY <1>1, <1>2, <1>4, <1>6
  <2>2. pc'[u] \in {"wait", "return"} /\ err'[u] = "error"
    BY <1>2, <1>3, <1>4
  <2> QED BY <2>1, <2>2, NextViewIs
<1>8. \A u \in Thread \ S : AskedFor(u)' = AskedFor(u) /\ TakeState(u)' = TakeState(u)
  <2> TAKE u \in Thread \ S
  <2>1. MutInv' /\ (Waits(u)' <=> Waits(u)) /\ (u = victim' <=> u = victim)
    BY <1>1, <1>2
  <2>2. pc'[u] = pc[u] /\ err'[u] = err[u] /\ pending'[u] = pending[u]
    BY <1>2, <1>3
  <2> QED BY <1>6, <2>1, <2>2, SameView
<1>9. \A u \in Thread : wanted[u] = x <=> u \in S
  BY <1>5, ViewIs, MutexAssumption DEF wanted
<1>10. CASE S \cap Thread = {}
  <2>1. \A u \in Thread : AskedFor(u)' = AskedFor(u) /\ TakeState(u)' = TakeState(u)
    BY <1>8, <1>10
  <2> QED BY <1>1, <2>1, Unseen
<1>11. CASE S \cap Thread # {}
  <2>1. states' = [u \in Thread |-> IF wanted[u] = x THEN "error" ELSE states[u]]
    BY <1>7, <1>8, <1>9 DEF states
  <2>2. wanted' = [u \in Thread |-> IF wanted[u] = x THEN NoMutex ELSE wanted[u]]
    BY <1>7, <1>8, <1>9 DEF wanted
  <2>3. Lock!Asked(x)
    BY <1>9, <1>11 DEF Lock!Asked, wanted
  <2>4. UNCHANGED owners /\ UNCHANGED holds
    BY <1>1, Keeps
  <2>5. Lock!Cancel(x)
    BY <2>1, <2>2, <2>3, <2>4 DEF Lock!Cancel, owners, holds, wanted, states
  <2> QED BY <2>5 DEF LockStep, Lock!Next
<1> QED BY <1>10, <1>11

(* A thread is deleted, in a wait or not ... *)
LEMMA DieLocks ==
    ASSUME MutInv, NEW v \in Victims, DeleteRemove(v)
    PROVE  LockStep
<1>1. /\ MutInv' /\ v \in Thread /\ victim = NoThread /\ k'.stat = k.stat
      /\ \A u \in Thread : Waits(u)' <=> Waits(u) /\ u # v
      /\ \A x \in Mutex : mtx'[x].owner = mtx[x].owner /\ mtx'[x].hold = mtx[x].hold
  BY RemoveInv
<1>2. /\ At(Manager, "user") /\ k.stat[v] \in {"ready", "suspend"}
      /\ \A x \in Mutex : mtx[x].owner # v
      /\ victim' = v /\ pc' = [pc EXCEPT ![Manager] = "delete"]
      /\ pending' = pending /\ err' = err
  BY DEF DeleteRemove, Deletable, Goto
<1>3. v # NoThread /\ pc[Manager] = "user" /\ Manager \in Thread
  BY <1>1, <1>2, MutexAssumption, KernelAssumption DEF At
<1>4. AskedFor(v)' = NoMutex /\ TakeState(v)' = "dead"
  BY <1>1, <1>2, NextViewIs
<1>5. \A u \in Thread \ {v} : AskedFor(u)' = AskedFor(u) /\ TakeState(u)' = TakeState(u)
  <2> TAKE u \in Thread \ {v}
  <2>1. /\ MutInv' /\ (Waits(u)' <=> Waits(u)) /\ (u = victim' <=> u = victim)
        /\ (k'.stat[u] = "close" <=> k.stat[u] = "close")
    BY <1>1, <1>2, KernelAssumption
  <2>2. pc'[u] \in {"wait", "return"} <=> pc[u] \in {"wait", "return"}
    BY <1>2, <1>3, Types
  <2>3. err'[u] = err[u] /\ pending'[u] = pending[u]
    BY <1>2
  <2> QED BY <2>1, <2>2, <2>3, SameView
<1>6. Lock!Become(v, "dead", NoMutex)
  BY <1>1, <1>4, <1>5, Becomes
<1>7. TakeState(v) # "dead"
  <2>1. err[v] \in Code
    BY <1>1, Types
  <2> QED BY <1>1, <1>2, <1>3, <2>1, ViewIs DEF Code
<1>8. UNCHANGED owners /\ UNCHANGED holds
  BY <1>1, Keeps
<1>9. Lock!Die(v)
  BY <1>1, <1>2, <1>6, <1>7, <1>8 DEF Lock!Die, owners, holds
<1> QED BY <1>1, <1>9 DEF LockStep, Lock!Next

(* ... and closed. *)
LEMMA CloseLocks ==
    ASSUME MutInv, Framed, DeleteClose
    PROVE  LockStep
<1>1. /\ MutInv' /\ victim \in Thread /\ victim' = NoThread
      /\ k'.stat[victim] = "close"
      /\ \A u \in Thread \ {victim} : k'.stat[u] = k.stat[u]
      /\ \A u \in Thread : Waits(u)' <=> Waits(u)
      /\ \A u \in Thread \ {victim} : pending'[u] = pending[u]
      /\ \A x \in Mutex : mtx'[x].owner = mtx[x].owner /\ mtx'[x].hold = mtx[x].hold
  BY DEF Framed, Closes
<1>2. /\ pc[Manager] = "delete" /\ err' = err
      /\ \E next \in {"user", "sched"} : pc' = [pc EXCEPT ![Manager] = next]
  BY DEF DeleteClose, Goto, At
<1>3. \A u \in Thread : pc'[u] \in {"wait", "return"} <=> pc[u] \in {"wait", "return"}
  BY <1>2, Types, MutexAssumption
<1>4. PICK v \in Thread : v = victim
  BY <1>1
<1>5. AskedFor(v)' = AskedFor(v) /\ TakeState(v)' = TakeState(v)
  <2>1. ~ Waits(v) /\ ~ Waits(v)' /\ MutInv'
    BY <1>1, <1>4 DEF Waits
  <2>2. k'.stat[v] = "close"
    BY <1>1, <1>4
  <2> QED BY <1>4, <2>1, <2>2, ViewIs, NextViewIs
<1>6. \A u \in Thread \ {v} : AskedFor(u)' = AskedFor(u) /\ TakeState(u)' = TakeState(u)
  <2> TAKE u \in Thread \ {v}
  <2>1. /\ MutInv' /\ (Waits(u)' <=> Waits(u)) /\ u # victim /\ u # victim'
        /\ k'.stat[u] = k.stat[u]
    BY <1>1, <1>4, KernelAssumption
  <2>2. err'[u] = err[u] /\ pending'[u] = pending[u]
    BY <1>1, <1>2, <1>4
  <2> QED BY <1>3, <2>1, <2>2, SameView
<1>7. \A u \in Thread : AskedFor(u)' = AskedFor(u) /\ TakeState(u)' = TakeState(u)
  BY <1>5, <1>6
<1> QED BY <1>1, <1>7, Unseen

(* A wait, or a delay, reaches its time limit. *)
LEMMA ExpireLocks ==
    ASSUME MutInv, NEW t \in Thread, TimerFire(t)
    PROVE  LockStep
<1>1. /\ MutInv' /\ Wakes(k, k', {t})
      /\ \A u \in Thread : Waits(u)' <=> Waits(u) /\ u # t
      /\ \A x \in Mutex : mtx'[x].owner = mtx[x].owner /\ mtx'[x].hold = mtx[x].hold
      /\ t # victim
  BY TimerInv
<1>2. /\ t \in k.armed
      /\ err' = [err EXCEPT ![t] = IF pc[t] \in {"wait", "return"} THEN "timeout" ELSE "ok"]
      /\ pc' = pc /\ pending' = pending /\ victim' = victim
  BY DEF TimerFire
<1>3. k.stat[t] = "suspend"
  BY <1>2 DEF MutInv, ArmedWaits
<1>4. \A u \in Thread : k'.stat[u] = "close" <=> k.stat[u] = "close"
  <2>1. \A u \in {t} \cap Thread : k.stat[u] # "close"
    BY <1>3
  <2> QED BY <1>1, <2>1, WakesClose
<1>5. /\ pc[t] \in {"wait", "return"} => err'[t] = "timeout"
      /\ \A u \in Thread \ {t} : err'[u] = err[u]
  BY <1>2, Types
<1>6. \A u \in Thread \ {t} : AskedFor(u)' = AskedFor(u) /\ TakeState(u)' = TakeState(u)
  <2> TAKE u \in Thread \ {t}
  <2>1. MutInv' /\ (Waits(u)' <=> Waits(u)) /\ (u = victim' <=> u = victim)
    BY <1>1, <1>2
  <2>2. pc'[u] = pc[u] /\ err'[u] = err[u] /\ pending'[u] = pending[u]
    BY <1>2, <1>5
  <2> QED BY <1>4, <2>1, <2>2, SameView
<1>7. UNCHANGED owners /\ UNCHANGED holds
  BY <1>1, Keeps
<1>8. CASE Waits(t)
  <2>1. AskedFor(t)' = NoMutex /\ TakeState(t)' = "timeout"
    <3>1. MutInv' /\ ~ Waits(t)' /\ t # victim' /\ k'.stat[t] # "close"
      BY <1>1, <1>2, <1>3, <1>4
    <3>2. pc'[t] \in {"wait", "return"} /\ pc[t] \in {"wait", "return"}
      BY <1>2, <1>8 DEF Waits
    <3> QED BY <1>5, <3>1, <3>2, NextViewIs
  <2>2. Lock!Become(t, "timeout", NoMutex)
    BY <1>6, <2>1, Becomes
  <2>3. TakeState(t) = "asking"
    BY <1>8, ViewIs
  <2>4. Lock!Expire(t)
    BY <1>7, <2>2, <2>3 DEF Lock!Expire, owners, holds
  <2> QED BY <2>4 DEF LockStep, Lock!Next
<1>9. CASE ~ Waits(t)
  <2>1. pc[t] \notin {"wait", "return"}
    BY <1>1, <1>3, <1>9 DEF Waits
  <2>2. /\ MutInv' /\ (Waits(t)' <=> Waits(t)) /\ (t = victim' <=> t = victim)
        /\ (k'.stat[t] = "close" <=> k.stat[t] = "close")
        /\ pc'[t] = pc[t] /\ pending'[t] = pending[t]
    BY <1>1, <1>2, <1>4, <1>9
  <2>3. AskedFor(t)' = AskedFor(t) /\ TakeState(t)' = TakeState(t)
    BY <2>1, <2>2, SameView
  <2>4. \A u \in Thread : AskedFor(u)' = AskedFor(u) /\ TakeState(u)' = TakeState(u)
    BY <1>6, <2>3
  <2> QED BY <1>1, <2>4, Unseen
<1> QED BY <1>8, <1>9

(* What the scheduler does, and a mutex that gets a ceiling. *)
LEMMA OtherLocks ==
    ASSUME MutInv,
           \/ \E t \in Thread, x \in Thread : Start(t, x)
           \/ \E t \in Thread : CallSchedule(t)
           \/ \E t \in Thread, x \in Mutex, c \in Ceilings : SetCeiling(t, x, c)
           \/ \E t \in Sleepers : Sleep(t)
           \/ SliceOver
    PROVE  LockStep
<1>1. CASE \E t \in Thread, x \in Thread : Start(t, x)
  <2>1. PICK t \in Thread, x \in Thread : Start(t, x)
    BY <1>1
  <2>2. /\ MutInv' /\ Wakes(k, k', {x}) /\ k.stat[x] = "init"
        /\ \A u \in Thread : Waits(u)' <=> Waits(u)
    BY <2>1, StartInv
  <2>3. /\ At(t, "user") /\ pc' = [pc EXCEPT ![t] = "sched"]
        /\ UNCHANGED <<mtx, pending, err, victim>>
    BY <2>1 DEF Start, Goto
  <2>4. \A u \in Thread : k'.stat[u] = "close" <=> k.stat[u] = "close"
    <3>1. \A u \in {x} \cap Thread : k.stat[u] # "close"
      BY <2>2
    <3> QED BY <2>2, <3>1, WakesClose
  <2>5. \A u \in Thread : pc'[u] \in {"wait", "return"} <=> pc[u] \in {"wait", "return"}
    BY <2>3, Types DEF At
  <2> QED BY <2>2, <2>3, <2>4, <2>5, UnseenPlaces
<1>2. CASE SliceOver \/ \E t \in Thread : CallSchedule(t)
  <2>1. /\ MutInv' /\ Wakes(k, k', {})
        /\ \A u \in Thread : Waits(u)' <=> Waits(u)
    BY <1>2, ScheduleInv
  <2>2. UNCHANGED <<mtx, pending, err, victim>>
    BY <1>2 DEF SliceOver, CallSchedule
  <2>3. \A u \in Thread : k'.stat[u] = "close" <=> k.stat[u] = "close"
    BY <2>1, WakesClose
  <2>4. \A u \in Thread : pc'[u] \in {"wait", "return"} <=> pc[u] \in {"wait", "return"}
    <3>1. CASE SliceOver
      BY <3>1 DEF SliceOver
    <3>2. ASSUME NEW t \in Thread, CallSchedule(t)
          PROVE  \A u \in Thread : pc'[u] \in {"wait", "return"}
                                    <=> pc[u] \in {"wait", "return"}
      BY <3>2, Types DEF CallSchedule, Goto, At
    <3> QED BY <1>2, <3>1, <3>2
  <2> QED BY <2>1, <2>2, <2>3, <2>4, UnseenPlaces
<1>3. CASE \E t \in Thread, x \in Mutex, c \in Ceilings : SetCeiling(t, x, c)
  <2>1. PICK t \in Thread, x \in Mutex, c \in Ceilings : SetCeiling(t, x, c)
    BY <1>3
  <2>2. MutInv' /\ \A u \in Thread : Waits(u)' <=> Waits(u)
    BY <2>1, StillInv
  <2>3. /\ UNCHANGED <<k, pc, pending, err, victim>>
        /\ mtx' = [mtx EXCEPT ![x].ceil = c]
    BY <2>1 DEF SetCeiling
  <2>4. \A u \in Thread : AskedFor(u)' = AskedFor(u) /\ TakeState(u)' = TakeState(u)
    BY <2>2, <2>3, SameView
  <2>5. \A y \in Mutex : mtx'[y].owner = mtx[y].owner /\ mtx'[y].hold = mtx[y].hold
    BY <2>3, Types DEF Records, MutexRecord
  <2> QED BY <2>4, <2>5, Unseen
<1>4. CASE \E t \in Sleepers : Sleep(t)
  <2>1. PICK t \in Sleepers : Sleep(t)
    BY <1>4
  <2>2. /\ MutInv' /\ t \in Thread
        /\ \A u \in Thread : Waits(u)' <=> Waits(u)
        /\ \A u \in Thread : k'.stat[u] = "close" <=> k.stat[u] = "close"
    BY <2>1, SleepInv
  <2>3. /\ At(t, "user") /\ pc' = [pc EXCEPT ![t] = "sched"]
        /\ err' = [err EXCEPT ![t] = "ok"] /\ UNCHANGED <<mtx, pending, victim>>
    BY <2>1 DEF Sleep, Goto
  <2>4. /\ pc[t] = "user" /\ pc'[t] = "sched"
        /\ \A u \in Thread \ {t} : pc'[u] = pc[u] /\ err'[u] = err[u]
    BY <2>2, <2>3, Types DEF At
  <2>5. /\ \A u \in Thread : pc'[u] \in {"wait", "return"} <=> pc[u] \in {"wait", "return"}
        /\ \A u \in Thread : pc[u] \in {"wait", "return"} => err'[u] = err[u]
    BY <2>4
  <2> QED BY <2>2, <2>3, <2>5, UnseenPlaces
<1> QED BY <1>1, <1>2, <1>3, <1>4

(* Every step of the mutexes is a step of RecursiveLock, or none. *)
LEMMA StepLocks ==
    ASSUME MutInv, Framed, [Next]_vars
    PROVE  LockStep
<1>1. CASE UNCHANGED vars
  <2>1. \A u \in Thread : AskedFor(u)' = AskedFor(u) /\ TakeState(u)' = TakeState(u)
    BY <1>1 DEF vars, AskedFor, TakeState, Asking
  <2>2. \A y \in Mutex : mtx'[y].owner = mtx[y].owner /\ mtx'[y].hold = mtx[y].hold
    BY <1>1 DEF vars
  <2> QED BY <2>1, <2>2, Unseen
<1>2. ASSUME NEW t \in Thread, NEW x \in Mutex, MutexCall(t, x) PROVE LockStep
  BY <1>2, FreeLocks, AskLocks, HandOverLocks, CancelLocks, OtherLocks DEF MutexCall
<1>3. ASSUME NEW t \in Thread, Continue(t) PROVE LockStep
  BY <1>3, ReturnLocks, OtherLocks DEF Continue
<1>4. ASSUME NEW v \in Victims, DeleteRemove(v) PROVE LockStep
  BY <1>4, DieLocks
<1>5. CASE DeleteClose
  BY <1>5, CloseLocks
<1>6. ASSUME NEW t \in Thread, TimerFire(t) PROVE LockStep
  BY <1>6, ExpireLocks
<1>7. ASSUME NEW t \in Thread, NEW x \in Thread, Start(t, x) PROVE LockStep
  BY <1>7, OtherLocks
<1>8. ASSUME NEW t \in Sleepers, Sleep(t) PROVE LockStep
  BY <1>8, OtherLocks
<1>9. CASE SliceOver
  BY <1>9, OtherLocks
<1> QED BY <1>1, <1>2, <1>3, <1>4, <1>5, <1>6, <1>7, <1>8, <1>9 DEF Next

-----------------------------------------------------------------------------
(* Inheritance, where mutexes have no ceilings: one with a ceiling is not  *)
(* in the list of taken mutexes of its owner, who forgets its waiters      *)
(* when it releases another.                                               *)

NoCeilings == \A x \in Mutex : mtx[x].ceil = NoPrio

(* A mutex is in the list of taken mutexes of its owner. *)
Held ==
    \A x \in Mutex : mtx[x].alive /\ mtx[x].owner # NoThread => x \in taken[mtx[x].owner]

(* A thread runs at its own priority and those of the mutexes it has       *)
(* taken, or above.                                                        *)
Boosted ==
    Up => \A t \in Thread : /\ k.prio[t] <= InitPrio[t]
                            /\ \A x \in taken[t] : k.prio[t] <= mtx[x].prio

(* A mutex has the priority of every waiter, or a higher one. *)
Covers ==
    Up => \A x \in Mutex, u \in Thread : Linked(u, mtx[x].waitq) => mtx[x].prio <= k.prio[u]

HeirInv == NoCeilings /\ Held /\ Boosted /\ Covers

(* Priorities can be compared. *)
LEMMA PriosCompare ==
    ASSUME NEW kk \in KernelState, NEW m \in Records
    PROVE  /\ kk.prio \in [Thread -> Prio]
           /\ \A t \in Thread : kk.prio[t] \in Prio /\ kk.prio[t] \in Int /\ InitPrio[t] \in Int
           /\ \A t \in Thread : kk.prio[t] <= NoPrio
           /\ \A x \in Mutex : m[x].prio \in Int /\ m[x].prio <= NoPrio
<1>1. kk.prio \in [Thread -> Prio]
  BY DEF KernelState
<1>2. \A x \in Mutex : m[x].prio \in Prio \cup {NoPrio}
  BY RecordFields DEF Records
<1> QED BY <1>1, <1>2, Numbers, MutexAssumption

(* The types after a step that keeps the invariant. *)
LEMMA NextTypes ==
    ASSUME MutInv'
    PROVE  k' \in KernelState /\ mtx' \in Records /\ taken' \in [Thread -> SUBSET Mutex]
BY DEF MutInv, OwnershipExact, TypeOK, Records

(* At start-up nothing has been inherited. *)
LEMMA InitHeirs == Init => HeirInv
<1> SUFFICES ASSUME Init PROVE HeirInv
  OBVIOUS
<1>1. MutInv
  BY InitInv
<1>2. k.prio = InitPrio /\ \A t \in Thread : InitPrio[t] \in Int
  BY <1>1, PriosCompare, Types DEF Init
<1>3. /\ \A t \in Thread : taken[t] = {}
      /\ \A x \in Mutex : mtx[x].ceil = NoPrio /\ mtx[x].owner = NoThread /\ mtx[x].waitq = <<>>
  BY DEF Init
<1> QED BY <1>2, <1>3 DEF HeirInv, NoCeilings, Held, Boosted, Covers, Linked

(* A step that changes no priority, and at most takes threads out of wait  *)
(* lists and a mutex out of the system.                                    *)
Shrinks ==
    /\ Up /\ k'.prio = k.prio
    /\ \A x \in Mutex :
          /\ mtx'[x].prio = mtx[x].prio /\ mtx'[x].ceil = mtx[x].ceil
          /\ mtx'[x].owner = mtx[x].owner /\ (mtx'[x].alive => mtx[x].alive)
          /\ \A u \in Thread : /\ Linked(u, mtx'[x].waitq) => Linked(u, mtx[x].waitq)
                               /\ x \in taken'[u] => x \in taken[u]
                               /\ mtx'[x].alive /\ x \in taken[u] => x \in taken'[u]

(* Which steps do so. *)
LEMMA Shrinking ==
    ASSUME MutInv,
           \/ \E t \in Thread, x \in Mutex :
                 TakeAgain(t, x) \/ ReleaseNested(t, x) \/ Detach(t, x)
           \/ \E t \in Thread, x \in Thread : Start(t, x)
           \/ \E t \in Thread : CallSchedule(t) \/ TakeReturn(t) \/ TimerFire(t)
           \/ \E t \in Sleepers : Sleep(t)
           \/ \E v \in Victims : DeleteRemove(v)
           \/ SliceOver
    PROVE  Shrinks
<1>1. ASSUME NEW t \in Thread, NEW x \in Mutex, TakeAgain(t, x) \/ ReleaseNested(t, x)
      PROVE  Shrinks
  <2>1. Up /\ k' = k /\ taken' = taken
    BY <1>1 DEF TakeAgain, ReleaseNested, Calls, At
  <2>2. PICK h : mtx' = [mtx EXCEPT ![x].hold = h]
    BY <1>1, Types DEF TakeAgain, ReleaseNested, Records
  <2>3. \A y \in Mutex : /\ mtx'[y].prio = mtx[y].prio /\ mtx'[y].ceil = mtx[y].ceil
                         /\ mtx'[y].owner = mtx[y].owner /\ mtx'[y].waitq = mtx[y].waitq
    BY <2>2, Types DEF Records, MutexRecord
  <2>4. \A y \in Mutex : mtx'[y].alive = mtx[y].alive
    BY <2>2, Types DEF Records, MutexRecord
  <2> QED BY <2>1, <2>3, <2>4 DEF Shrinks
<1>2. ASSUME NEW t \in Thread, NEW x \in Mutex, Detach(t, x)
      PROVE  Shrinks
  <2>1. /\ Up /\ taken' = [u \in Thread |-> taken[u] \ {x}]
        /\ mtx' = [mtx EXCEPT ![x].waitq = <<>>, ![x].alive = FALSE]
    BY <1>2 DEF Detach, Calls, At
  <2>2. k'.prio = k.prio /\ \A y \in Mutex : mtx'[y].waitq = IF y = x THEN <<>> ELSE mtx[y].waitq
    BY <1>2, DetachInv
  <2>3. \A y \in Mutex : /\ mtx'[y].prio = mtx[y].prio /\ mtx'[y].ceil = mtx[y].ceil
                         /\ mtx'[y].owner = mtx[y].owner
    BY <2>1, Types DEF Records, MutexRecord
  <2>4. \A y \in Mutex : mtx'[y].alive <=> y # x /\ mtx[y].alive
    BY <2>1, Types DEF Records, MutexRecord
  <2>5. \A u : ~ Linked(u, <<>>)
    BY DEF Linked
  <2>6. \A y \in Mutex, u \in Thread :
           /\ Linked(u, mtx'[y].waitq) => Linked(u, mtx[y].waitq)
           /\ y \in taken'[u] => y \in taken[u]
           /\ mtx'[y].alive /\ y \in taken[u] => y \in taken'[u]
    BY <2>1, <2>2, <2>4, <2>5
  <2> QED BY <2>1, <2>2, <2>3, <2>4, <2>6 DEF Shrinks
<1>3. ASSUME NEW t \in Thread, TimerFire(t)
      PROVE  Shrinks
  <2>1. Up /\ taken' = taken
    BY <1>3 DEF TimerFire
  <2>2. /\ k'.prio = k.prio
        /\ \A x \in Mutex : /\ mtx'[x].waitq = RemoveFirst(mtx[x].waitq, t)
                            /\ mtx'[x].owner = mtx[x].owner /\ mtx'[x].prio = mtx[x].prio
                            /\ mtx'[x].alive = mtx[x].alive /\ mtx'[x].ceil = mtx[x].ceil
    BY <1>3, TimerInv
  <2>3. \A x \in Mutex, u \in Thread :
           Linked(u, RemoveFirst(mtx[x].waitq, t)) => Linked(u, mtx[x].waitq)
    BY Fields1, RemoveFirstFacts
  <2> QED BY <2>1, <2>2, <2>3 DEF Shrinks
<1>4. ASSUME NEW v \in Victims, DeleteRemove(v)
      PROVE  Shrinks
  <2>1. Up /\ taken' = taken
    BY <1>4 DEF DeleteRemove, At
  <2>2. /\ k'.prio = k.prio
        /\ \A x \in Mutex : /\ mtx'[x].waitq = RemoveFirst(mtx[x].waitq, v)
                            /\ mtx'[x].owner = mtx[x].owner /\ mtx'[x].prio = mtx[x].prio
                            /\ mtx'[x].alive = mtx[x].alive /\ mtx'[x].ceil = mtx[x].ceil
    BY <1>4, RemoveInv
  <2>3. \A x \in Mutex, u \in Thread :
           Linked(u, RemoveFirst(mtx[x].waitq, v)) => Linked(u, mtx[x].waitq)
    BY Fields1, RemoveFirstFacts
  <2> QED BY <2>1, <2>2, <2>3 DEF Shrinks
<1>5. ASSUME NEW t \in Thread, NEW x \in Thread, Start(t, x)
      PROVE  Shrinks
  BY <1>5, StartInv DEF Start, At, Shrinks
<1>6. ASSUME SliceOver \/ \E t \in Thread : CallSchedule(t)
      PROVE  Shrinks
  BY <1>6, ScheduleInv DEF SliceOver, CallSchedule, At, Shrinks
<1>7. ASSUME NEW t \in Thread, TakeReturn(t)
      PROVE  Shrinks
  BY <1>7 DEF TakeReturn, At, Shrinks
<1>8. ASSUME NEW t \in Sleepers, Sleep(t)
      PROVE  Shrinks
  BY <1>8, SleepInv DEF Sleep, At, Shrinks
<1> QED BY <1>1, <1>2, <1>3, <1>4, <1>5, <1>6, <1>7, <1>8

(* They keep all four parts. *)
LEMMA HeirShrinks ==
    ASSUME MutInv, MutInv', HeirInv, Shrinks
    PROVE  HeirInv'
<1>1. \A x \in Mutex : mtx[x].owner \in Thread \cup {NoThread}
  BY Fields1
<1>2. \A u \in Thread : taken[u] \in SUBSET Mutex
  BY Types
<1>3. NoCeilings' /\ Held'
  BY <1>1 DEF HeirInv, NoCeilings, Held, Shrinks
<1>4. Covers'
  BY DEF HeirInv, Covers, Shrinks
<1>5. \A u \in Thread : taken'[u] \in SUBSET Mutex
  BY NextTypes
<1>6. Boosted'
  BY <1>5 DEF HeirInv, Boosted, Shrinks
<1> QED BY <1>3, <1>4, <1>6 DEF HeirInv

(* The priority a thread is left with is no lower than that of its own and *)
(* of the mutexes it keeps.                                                *)
LEMMA LoweredBounds ==
    ASSUME MutInv, HeirInv, Up, NEW t \in Thread, NEW x \in Mutex
    PROVE  /\ \A u \in Thread \ {t} : Lowered(t, x).prio[u] = k.prio[u]
           /\ Lowered(t, x).prio[t] <= InitPrio[t]
           /\ \A y \in taken[t] \ {x} : Lowered(t, x).prio[t] <= mtx[y].prio
<1> DEFINE p == MutexPriority(mtx, taken[t] \ {x}, t)
           k1 == Lowered(t, x)
<1>1. /\ p \in Prio /\ p <= InitPrio[t]
      /\ \A y \in taken[t] \ {x} : p <= mtx[y].prio
  <2>1. taken[t] \ {x} \in SUBSET Mutex /\ mtx \in Records
    BY Types
  <2> QED BY <2>1, MutexPriorityIs
<1>2. k1.prio = [k.prio EXCEPT ![t] = p] \/ k1.prio = k.prio
  <2> HIDE DEF p
  <2>1. ChangePriority(k, t, p).prio = [k.prio EXCEPT ![t] = p]
    BY <1>1, Types, PriorityIs
  <2> QED BY <2>1 DEF Lowered, p
<1>3. k.prio[t] <= InitPrio[t] /\ \A y \in taken[t] : k.prio[t] <= mtx[y].prio
  BY DEF HeirInv, Boosted
<1> HIDE DEF p, k1
<1>4. /\ \A u \in Thread \ {t} : k1.prio[u] = k.prio[u]
      /\ k1.prio[t] = p \/ k1.prio[t] = k.prio[t]
  BY <1>2, Types
<1>5. /\ \A u \in Thread \ {t} : k1.prio[u] = k.prio[u]
      /\ k1.prio[t] <= InitPrio[t]
      /\ \A y \in taken[t] \ {x} : k1.prio[t] <= mtx[y].prio
  BY <1>1, <1>3, <1>4
<1> QED BY <1>5 DEF k1

(* A free mutex is taken, which changes no priority, or given up. *)
LEMMA HeirFree ==
    ASSUME MutInv, MutInv', HeirInv, NEW t \in Thread, NEW x \in Mutex,
           TakeFree(t, x) \/ ReleaseFree(t, x)
    PROVE  HeirInv'
<1>1. Up /\ fault' = fault
  BY DEF TakeFree, ReleaseFree, Calls, At
<1>2. /\ \A y \in Mutex : mtx'[y].waitq = mtx[y].waitq
      /\ mtx[x].waitq = <<>>
  <2>1. CASE TakeFree(t, x)
    BY <2>1, FreeInv DEF TakeFree, MutInv, OwnershipExact
  <2>2. CASE ReleaseFree(t, x)
    BY <2>2, FreeInv DEF ReleaseFree
  <2> QED BY <2>1, <2>2
<1>3. PICK o \in {t, NoThread}, h \in {0, 1} :
         mtx' = [mtx EXCEPT ![x].owner = o, ![x].hold = h, ![x].prio = NoPrio]
  BY DEF TakeFree, ReleaseFree
<1>4. /\ \A y \in Mutex \ {x} : mtx'[y] = mtx[y]
      /\ mtx'[x].owner = o /\ mtx'[x].prio = NoPrio /\ mtx'[x].ceil = mtx[x].ceil
  BY <1>3, Types DEF Records, MutexRecord
<1>5. /\ \A y \in Mutex \ {x}, u \in Thread : y \in taken'[u] <=> y \in taken[u]
      /\ o # NoThread => x \in taken'[t]
      /\ \A u \in Thread \ {t} : k'.prio[u] = k.prio[u]
      /\ k'.prio[t] <= InitPrio[t]
      /\ \A y \in taken'[t] \ {x} : k'.prio[t] <= mtx[y].prio
  <2>1. CASE TakeFree(t, x)
    <3>1. mtx[x].ceil = NoPrio
      BY DEF HeirInv, NoCeilings
    <3>2. taken' = [taken EXCEPT ![t] = @ \cup {x}] /\ k' = k
      BY <2>1, <3>1 DEF TakeFree
    <3> QED BY <1>1, <3>2, Types DEF HeirInv, Boosted
  <2>2. CASE ReleaseFree(t, x)
    <3>1. /\ taken' = [taken EXCEPT ![t] = @ \ {x}] /\ k' = Lowered(t, x)
          /\ mtx' = [mtx EXCEPT ![x].owner = NoThread, ![x].hold = 0, ![x].prio = NoPrio]
      BY <2>2 DEF ReleaseFree
    <3>2. mtx'[x].owner = NoThread
      BY <3>1, Types DEF Records, MutexRecord
    <3>3. taken'[t] = taken[t] \ {x} /\ \A u \in Thread \ {t} : taken'[u] = taken[u]
      BY <3>1, Types
    <3>4. /\ \A u \in Thread \ {t} : k'.prio[u] = k.prio[u]
          /\ k'.prio[t] <= InitPrio[t]
          /\ \A y \in taken[t] \ {x} : k'.prio[t] <= mtx[y].prio
      BY <1>1, <3>1, LoweredBounds
    <3> QED BY <1>4, <3>2, <3>3, <3>4
  <2> QED BY <2>1, <2>2
<1>6. NoCeilings' /\ Held'
  <2>1. \A y \in Mutex \ {x} : mtx[y].owner \in Thread \cup {NoThread}
    BY Fields1
  <2>2. o \in {t, NoThread}
    OBVIOUS
  <2> QED BY <1>4, <1>5, <2>1, <2>2 DEF HeirInv, NoCeilings, Held
<1>7. Boosted'
  <2> SUFFICES ASSUME NEW u \in Thread
               PROVE  k'.prio[u] <= InitPrio[u] /\ \A y \in taken'[u] : k'.prio[u] <= mtx'[y].prio
    BY DEF Boosted
  <2>1. k.prio[u] <= InitPrio[u] /\ \A y \in taken[u] : k.prio[u] <= mtx[y].prio
    BY <1>1 DEF HeirInv, Boosted
  <2>2. k'.prio[u] <= NoPrio /\ taken'[u] \in SUBSET Mutex
    BY NextTypes, PriosCompare
  <2>3. \A y \in taken'[u] \ {x} : k'.prio[u] <= mtx[y].prio
    BY <1>5, <2>1, <2>2
  <2> QED BY <1>4, <1>5, <2>1, <2>2, <2>3
<1>8. Covers'
  <2>1. \A y \in Mutex : ~ Linked(t, mtx[y].waitq)
    BY Running DEF TakeFree, ReleaseFree, Calls
  <2>2. \A u : ~ Linked(u, <<>>)
    BY DEF Linked
  <2> QED BY <1>1, <1>2, <1>4, <1>5, <2>1, <2>2 DEF HeirInv, Covers
<1> QED BY <1>6, <1>7, <1>8 DEF HeirInv

(* A mutex is handed over, with the waiters that are left. *)
LEMMA HeirHandOver ==
    ASSUME MutInv, MutInv', HeirInv, NEW t \in Thread, NEW x \in Mutex, HandOver(t, x)
    PROVE  HeirInv'
<1> DEFINE q == mtx[x].waitq
           n == Head(q)
           h == HeadPrio(k, Tail(q))
<1>1. /\ Up /\ q # <<>>
      /\ mtx' = [mtx EXCEPT ![x].owner = n, ![x].hold = 1, ![x].waitq = Tail(q), ![x].prio = h]
      /\ taken' = [taken EXCEPT ![t] = @ \ {x}, ![n] = @ \cup {x}]
  BY DEF HandOver, Calls, At
<1>2. /\ n \in Thread /\ Linked(n, q) /\ n # t /\ k'.prio = Lowered(t, x).prio
  BY HandOverInv
<1>3. \A y \in Mutex : ~ Linked(t, mtx[y].waitq)
  BY Running DEF HandOver, Calls
<1>4. q \in Seq(Thread) /\ LinkedOnce(q) /\ SortedBy(q, k.prio) /\ k.prio \in [Thread -> Prio]
  BY <1>1, Fields1, Types DEF MutInv, Order
<1>5. /\ Tail(q) = RemoveFirst(q, n) /\ Tail(q) \in Seq(Thread)
      /\ \A u : Linked(u, Tail(q)) => Linked(u, q)
  BY <1>1, <1>4, HeadFacts, TailFacts
<1>6. /\ \A u \in Thread : Linked(u, q) => k.prio[n] <= k.prio[u]
      /\ \A u \in Thread : Linked(u, Tail(q)) => h <= k.prio[u]
      /\ k.prio[n] <= h
  <2>1. SortedBy(Tail(q), k.prio)
    BY <1>4, <1>5, RemoveSorted
  <2>2. HeadPrio(k, q) = k.prio[n] /\ \A u \in Thread : Linked(u, q) => HeadPrio(k, q) <= k.prio[u]
    BY <1>1, <1>4, HeadPrioIs
  <2>3. /\ \A u \in Thread : Linked(u, Tail(q)) => h <= k.prio[u]
        /\ Tail(q) = <<>> => h = NoPrio
        /\ Tail(q) # <<>> => h = k.prio[Head(Tail(q))] /\ Head(Tail(q)) \in Thread
    BY <1>4, <1>5, <2>1, HeadPrioIs
  <2>4. Tail(q) # <<>> => Linked(Head(Tail(q)), q)
    BY <1>5, HeadFacts
  <2>5. k.prio[n] <= NoPrio
    BY <1>2, Types, PriosCompare
  <2> QED BY <2>2, <2>3, <2>4, <2>5
<1> HIDE DEF n, q, h
<1>7. /\ \A y \in Mutex \ {x} : mtx'[y] = mtx[y]
      /\ mtx'[x].owner = n /\ mtx'[x].waitq = Tail(q)
      /\ mtx'[x].prio = h /\ mtx'[x].ceil = mtx[x].ceil
  BY <1>1, Types DEF Records, MutexRecord
<1>8. /\ \A u \in Thread, y \in Mutex :
            y \in taken'[u] <=> IF y = x /\ u \in {t, n} THEN u = n ELSE y \in taken[u]
      /\ \A u \in Thread : x \in taken[u] => u = t
  <2>1. mtx[x].owner = t
    BY DEF HandOver
  <2> QED BY <1>1, <1>2, <2>1, Types DEF MutInv, OwnershipExact
<1>9. /\ \A u \in Thread \ {t} : k'.prio[u] = k.prio[u]
      /\ k'.prio[t] <= InitPrio[t]
      /\ \A y \in taken[t] \ {x} : k'.prio[t] <= mtx[y].prio
  BY <1>1, <1>2, LoweredBounds
<1>10. NoCeilings' /\ Held'
  <2>1. \A y \in Mutex \ {x} : mtx[y].owner \in Thread \cup {NoThread}
    BY Fields1
  <2> QED BY <1>2, <1>7, <1>8, <2>1 DEF HeirInv, NoCeilings, Held
<1>11. Boosted'
  <2> SUFFICES ASSUME NEW u \in Thread
               PROVE  k'.prio[u] <= InitPrio[u] /\ \A y \in taken'[u] : k'.prio[u] <= mtx'[y].prio
    BY DEF Boosted
  <2>1. k.prio[u] <= InitPrio[u] /\ \A y \in taken[u] : k.prio[u] <= mtx[y].prio
    BY <1>1 DEF HeirInv, Boosted
  <2>2. taken'[u] \in SUBSET Mutex
    BY NextTypes
  <2>3. ASSUME NEW y \in taken'[u] PROVE k'.prio[u] <= mtx'[y].prio
    <3>1. CASE y = x
      BY <1>2, <1>6, <1>7, <1>8, <1>9, <2>2, <3>1
    <3>2. CASE y # x
      BY <1>7, <1>8, <1>9, <2>1, <2>2, <3>2
    <3> QED BY <3>1, <3>2
  <2> QED BY <1>9, <2>1, <2>3
<1>12. Covers'
  <2> SUFFICES ASSUME NEW y \in Mutex, NEW u \in Thread, Linked(u, mtx'[y].waitq)
               PROVE  mtx'[y].prio <= k'.prio[u]
    BY DEF Covers
  <2>1. Linked(u, mtx[y].waitq)
    BY <1>5, <1>7 DEF q
  <2>2. k'.prio[u] = k.prio[u]
    BY <1>3, <1>9, <2>1
  <2>3. mtx[y].prio <= k.prio[u]
    BY <1>1, <2>1 DEF HeirInv, Covers
  <2> QED BY <1>6, <1>7, <2>2, <2>3
<1> QED BY <1>10, <1>11, <1>12 DEF HeirInv

(* What is left alone when the end of a wait is reported. *)
OthersKeep ==
    /\ taken' = taken
    /\ \A y \in Mutex : /\ mtx'[y].waitq = mtx[y].waitq /\ mtx'[y].owner = mtx[y].owner
                        /\ mtx'[y].alive = mtx[y].alive /\ mtx'[y].ceil = mtx[y].ceil

(* The priority of the first waiter is the highest of all, and that of the *)
(* mutex was at least as high.                                             *)
LEMMA HeadCovered ==
    ASSUME MutInv, HeirInv, Up, NEW x \in Mutex
    PROVE  /\ mtx[x].prio <= HeadPrio(k, mtx[x].waitq)
           /\ \A u \in Thread : Linked(u, mtx[x].waitq) => HeadPrio(k, mtx[x].waitq) <= k.prio[u]
<1> DEFINE q == mtx[x].waitq
<1>1. q \in Seq(Thread) /\ SortedBy(q, k.prio) /\ k.prio \in [Thread -> Prio]
  BY Fields1, Types DEF MutInv, Order
<1>2. /\ q = <<>> => HeadPrio(k, q) = NoPrio
      /\ q # <<>> => HeadPrio(k, q) = k.prio[Head(q)] /\ Head(q) \in Thread
      /\ \A u \in Thread : Linked(u, q) => HeadPrio(k, q) <= k.prio[u]
  BY <1>1, HeadPrioIs
<1>3. q # <<>> => Linked(Head(q), q)
  BY <1>1, HeadFacts
<1>4. mtx[x].prio <= NoPrio
  BY Types, PriosCompare
<1>5. \A u \in Thread : Linked(u, q) => mtx[x].prio <= k.prio[u]
  BY DEF HeirInv, Covers
<1> HIDE DEF q
<1>6. mtx[x].prio <= HeadPrio(k, q)
  BY <1>2, <1>3, <1>4, <1>5
<1> QED BY <1>2, <1>6 DEF q

(* The owner is told that a wait is over. *)
LEMMA HeirTold ==
    ASSUME MutInv, MutInv', HeirInv, Up, NEW t \in Thread, NEW x \in Mutex,
           OthersKeep, Up' => WaitersKeep /\ Told(t, x)
    PROVE  HeirInv'
<1>1. NoCeilings' /\ Held'
  BY DEF HeirInv, NoCeilings, Held, OthersKeep
<1>2. ASSUME Up' PROVE Boosted' /\ Covers'
  <2> DEFINE o == mtx[x].owner
             p == MutexPriority(mtx', taken[o], o)
  <2>1. /\ o \in Thread
        /\ \A y \in Mutex \ {x} : mtx'[y].prio = mtx[y].prio
        /\ mtx'[x].prio = HeadPrio(k, mtx[x].waitq)
        /\ k'.prio = k.prio \/ k'.prio = [k.prio EXCEPT ![o] = p]
    BY <1>2 DEF Told
  <2>2. p <= InitPrio[o] /\ \A y \in taken[o] : p <= mtx'[y].prio
    <3> HIDE DEF o
    <3>1. taken[o] \in SUBSET Mutex /\ mtx' \in Records
      BY <2>1, Types, NextTypes
    <3> QED BY <2>1, <3>1, MutexPriorityIs
  <2>3. \A y \in Mutex : mtx[y].prio <= mtx'[y].prio
    <3>1. mtx[x].prio <= mtx'[x].prio
      BY <2>1, HeadCovered
    <3>2. \A y \in Mutex : mtx[y].prio \in Int
      BY Types, PriosCompare
    <3> QED BY <2>1, <3>1, <3>2
  <2> HIDE DEF p, o
  <2>4. \A u \in Thread : k'.prio[u] = k.prio[u] \/ (u = o /\ k'.prio[u] = p)
    BY <2>1, Types
  <2>5. Boosted'
    <3> SUFFICES ASSUME NEW u \in Thread
                 PROVE  k'.prio[u] <= InitPrio[u] /\ \A y \in taken'[u] : k'.prio[u] <= mtx'[y].prio
      BY DEF Boosted
    <3>1. k.prio[u] <= InitPrio[u] /\ \A y \in taken[u] : k.prio[u] <= mtx[y].prio
      BY DEF HeirInv, Boosted
    <3>2. taken'[u] = taken[u] /\ taken[u] \in SUBSET Mutex
      BY Types DEF OthersKeep
    <3>3. CASE u = o /\ k'.prio[u] = p
      BY <2>2, <3>2, <3>3
    <3>4. CASE k'.prio[u] = k.prio[u]
      <4>1. \A y \in taken[u] : k.prio[u] \in Int /\ mtx[y].prio \in Int /\ mtx'[y].prio \in Int
        BY <3>2, Types, NextTypes, PriosCompare
      <4>2. \A y \in taken[u] : k.prio[u] <= mtx[y].prio /\ mtx[y].prio <= mtx'[y].prio
        BY <2>3, <3>1, <3>2
      <4>3. \A y \in taken[u] : k.prio[u] <= mtx'[y].prio
        BY <4>1, <4>2
      <4> QED BY <3>1, <3>2, <3>4, <4>3
    <3> QED BY <2>4, <3>3, <3>4
  <2>6. Covers'
    <3> SUFFICES ASSUME NEW y \in Mutex, NEW u \in Thread, Linked(u, mtx'[y].waitq)
                 PROVE  mtx'[y].prio <= k'.prio[u]
      BY DEF Covers
    <3>1. Linked(u, mtx[y].waitq)
      BY DEF OthersKeep
    <3>2. k'.prio[u] = k.prio[u]
      BY <1>2, <3>1 DEF WaitersKeep
    <3>3. CASE y = x
      BY <2>1, <3>1, <3>2, <3>3, HeadCovered
    <3>4. CASE y # x
      BY <2>1, <3>1, <3>2, <3>4 DEF HeirInv, Covers
    <3> QED BY <3>3, <3>4
  <2> QED BY <2>5, <2>6
<1> QED BY <1>1, <1>2 DEF HeirInv, Boosted, Covers

(* A thread waits, and passes its priority on. *)
LEMMA HeirWait ==
    ASSUME MutInv, MutInv', HeirInv, Asserts, NEW t \in Thread, NEW x \in Mutex, TakeWait(t, x)
    PROVE  HeirInv'
<1> DEFINE o == mtx[x].owner
           p == k.prio[t]
<1>1. Up /\ taken' = taken
  BY DEF TakeWait, Calls, At
<1>2. /\ \A y \in Mutex : /\ mtx'[y].owner = mtx[y].owner
                          /\ mtx'[y].alive = mtx[y].alive /\ mtx'[y].ceil = mtx[y].ceil
      /\ Up' => WaitersKeep /\ Joined(t, x)
  BY WaitInv
<1>3. NoCeilings' /\ Held'
  BY <1>1, <1>2 DEF HeirInv, NoCeilings, Held
<1>4. ASSUME Up' PROVE Boosted' /\ Covers'
  <2>1. /\ o \in Thread /\ o # t
        /\ \A y \in Mutex \ {x} : mtx'[y].prio = mtx[y].prio /\ mtx'[y].waitq = mtx[y].waitq
        /\ mtx'[x].prio = IF p < mtx[x].prio THEN p ELSE mtx[x].prio
        /\ \A u : Linked(u, mtx'[x].waitq) <=> u = t \/ Linked(u, mtx[x].waitq)
        /\ k'.prio = IF p < mtx[x].prio /\ p < k.prio[o] THEN [k.prio EXCEPT ![o] = p] ELSE k.prio
    BY <1>2, <1>4 DEF Joined
  <2>2. /\ p \in Int /\ k.prio \in [Thread -> Prio]
        /\ \A u \in Thread : k.prio[u] \in Int /\ InitPrio[u] \in Int
        /\ \A y \in Mutex : mtx[y].prio \in Int
    BY Types, PriosCompare
  <2> HIDE DEF o, p
  <2>3. \A u \in Thread \ {o} : k'.prio[u] = k.prio[u]
    BY <2>1, <2>2
  <2>4. k'.prio[o] = IF p < mtx[x].prio /\ p < k.prio[o] THEN p ELSE k.prio[o]
    BY <2>1, <2>2
  <2>5. Boosted'
    <3> SUFFICES ASSUME NEW u \in Thread
                 PROVE  k'.prio[u] <= InitPrio[u] /\ \A y \in taken'[u] : k'.prio[u] <= mtx'[y].prio
      BY DEF Boosted
    <3>1. k.prio[u] <= InitPrio[u] /\ \A y \in taken[u] : k.prio[u] <= mtx[y].prio
      BY <1>1 DEF HeirInv, Boosted
    <3>2. taken'[u] = taken[u] /\ taken[u] \in SUBSET Mutex /\ (x \in taken[u] => u = o)
      BY <1>1, Types DEF MutInv, OwnershipExact, o
    <3>3. ASSUME NEW y \in taken[u] PROVE k'.prio[u] <= mtx'[y].prio
      <4>1. k.prio[u] <= mtx[y].prio /\ y \in Mutex
        BY <3>1, <3>2
      <4>2. CASE y # x
        BY <2>1, <2>2, <2>3, <2>4, <4>1, <4>2
      <4>3. CASE y = x
        <5>1. u = o
          BY <3>2, <4>3
        <5> QED BY <2>1, <2>2, <2>4, <4>1, <4>3, <5>1
      <4> QED BY <4>2, <4>3
    <3>4. k'.prio[u] <= k.prio[u]
      BY <2>1, <2>2, <2>3, <2>4
    <3>5. k'.prio[u] \in Int
      BY NextTypes, PriosCompare
    <3> QED BY <2>2, <3>1, <3>2, <3>3, <3>4, <3>5
  <2>6. Covers'
    <3> SUFFICES ASSUME NEW y \in Mutex, NEW u \in Thread, Linked(u, mtx'[y].waitq)
                 PROVE  mtx'[y].prio <= k'.prio[u]
      BY DEF Covers
    <3>1. CASE Linked(u, mtx[y].waitq)
      <4>1. k'.prio[u] = k.prio[u]
        BY <1>2, <1>4, <3>1 DEF WaitersKeep
      <4>2. mtx[y].prio <= k.prio[u]
        BY <1>1, <3>1 DEF HeirInv, Covers
      <4>3. mtx'[y].prio <= mtx[y].prio
        BY <2>1, <2>2
      <4>4. mtx'[y].prio \in Int
        BY NextTypes, PriosCompare
      <4> QED BY <2>2, <4>1, <4>2, <4>3, <4>4
    <3>2. CASE ~ Linked(u, mtx[y].waitq)
      <4>1. y = x /\ u = t
        BY <2>1, <3>2
      <4>2. k'.prio[t] = p
        BY <2>1, <2>3 DEF p
      <4> QED BY <2>1, <2>2, <4>1, <4>2
    <3> QED BY <3>1, <3>2
  <2> QED BY <2>5, <2>6
<1> QED BY <1>3, <1>4 DEF HeirInv, Boosted, Covers

(* The steps that change the priority of another thread. *)
Passes ==
    \/ DeleteClose
    \/ \E t \in Thread : TakeFail(t) \/ \E x \in Mutex : TakeWait(t, x)

(* Every step keeps the heirs' priorities, these where assertions are      *)
(* checked.                                                                *)
LEMMA StepHeirs ==
    ASSUME Ceilings = {}, Passes => Asserts, MutInv, MutInv', HeirInv, [Next]_vars
    PROVE  HeirInv'
<1>1. CASE UNCHANGED vars
  BY <1>1 DEF vars, HeirInv, NoCeilings, Held, Boosted, Covers, Up
<1>2. ASSUME NEW t \in Thread, NEW x \in Mutex, MutexCall(t, x) PROVE HeirInv'
  <2>1. CASE TakeAgain(t, x) \/ ReleaseNested(t, x) \/ Detach(t, x)
    BY <2>1, Shrinking, HeirShrinks
  <2>2. CASE TakeFree(t, x) \/ ReleaseFree(t, x)
    BY <2>2, HeirFree
  <2>3. CASE HandOver(t, x)
    BY <2>3, HeirHandOver
  <2>4. CASE TakeWait(t, x)
    <3>1. Asserts
      BY <2>4 DEF Passes
    <3> QED BY <2>4, <3>1, HeirWait
  <2> QED BY <1>2, <2>1, <2>2, <2>3, <2>4 DEF MutexCall
<1>3. ASSUME NEW t \in Thread, NEW x \in Thread, Start(t, x) PROVE HeirInv'
  BY <1>3, Shrinking, HeirShrinks
<1>4. ASSUME NEW t \in Thread, Continue(t) PROVE HeirInv'
  <2>1. CASE CallSchedule(t) \/ TakeReturn(t)
    BY <2>1, Shrinking, HeirShrinks
  <2>2. CASE TakeFail(t)
    <3>1. Up /\ taken' = taken /\ Asserts
      BY <2>2 DEF TakeFail, At, Passes
    <3>2. /\ pending[t] \in Mutex /\ (Up' => WaitersKeep /\ Told(t, pending[t]))
          /\ OthersKeep
      BY <2>2, <3>1, FailInv DEF OthersKeep
    <3> QED BY <3>1, <3>2, HeirTold
  <2> QED BY <1>4, <2>1, <2>2 DEF Continue
<1>5. ASSUME NEW v \in Victims, DeleteRemove(v) PROVE HeirInv'
  BY <1>5, Shrinking, HeirShrinks
<1>6. CASE DeleteClose
  <2>1. Up /\ taken' = taken /\ Asserts
    BY <1>6 DEF DeleteClose, At, Passes
  <2>2. /\ victim \in Thread /\ OthersKeep
        /\ Up' => /\ WaitersKeep
                  /\ IF pending[victim] \in Mutex /\ mtx[pending[victim]].alive
                     THEN Told(victim, pending[victim])
                     ELSE k'.prio = k.prio /\ \A x \in Mutex : mtx'[x].prio = mtx[x].prio
    BY <1>6, <2>1, CloseInv DEF OthersKeep
  <2>3. CASE pending[victim] \in Mutex /\ mtx[pending[victim]].alive
    BY <2>1, <2>2, <2>3, HeirTold
  <2>4. CASE Up' /\ ~ (pending[victim] \in Mutex /\ mtx[pending[victim]].alive)
    <3>1. Shrinks
      BY <2>1, <2>2, <2>4 DEF Shrinks, OthersKeep
    <3> QED BY <3>1, HeirShrinks
  <2>5. CASE ~ Up'
    <3>1. NoCeilings' /\ Held'
      BY <2>2 DEF HeirInv, NoCeilings, Held, OthersKeep
    <3> QED BY <2>5, <3>1 DEF HeirInv, Boosted, Covers
  <2> QED BY <2>3, <2>4, <2>5
<1>7. ASSUME NEW t \in Sleepers, Sleep(t) PROVE HeirInv'
  BY <1>7, Shrinking, HeirShrinks
<1>8. ASSUME NEW t \in Thread, TimerFire(t) PROVE HeirInv'
  BY <1>8, Shrinking, HeirShrinks
<1>9. CASE SliceOver
  BY <1>9, Shrinking, HeirShrinks
<1> QED BY <1>1, <1>2, <1>3, <1>4, <1>5, <1>6, <1>7, <1>8, <1>9 DEF Next

-----------------------------------------------------------------------------
(* How long a priority is kept, where in addition no wait has a time limit *)
(* and no mutex is detached: with either, a wait that fails can leave its  *)
(* priority behind.  Waiting threads are still deleted.                    *)

(* Every wait ends with the mutex or with the thread. *)
NothingFails ==
    /\ \A t \in Thread : pc[t] \in {"wait", "return"} => err[t] = "ok" /\ t \notin k.armed
    /\ \A x \in Mutex : mtx[x].alive

(* A thread runs at its own priority or at that of a mutex it has taken. *)
Earned ==
    Up => \A t \in Thread :
              k.prio[t] = InitPrio[t] \/ \E x \in taken[t] : k.prio[t] = mtx[x].prio

(* A mutex a thread waited for that is being deleted has the priority of   *)
(* its first waiter or still that of this thread, whose second part of the *)
(* deletion will compare it with the owner's.                              *)
Remembered ==
    Up /\ victim # NoThread =>
        \A x \in Mutex : pending[victim] = x =>
            mtx[x].prio = HeadPrio(k, mtx[x].waitq) \/ mtx[x].prio = k.prio[victim]

KeepInv == NothingFails /\ Earned /\ Remembered

Steady == Ceilings = {} /\ Timed = {} /\ Owners = {}

(* At start-up. *)
LEMMA InitKeep == Init => KeepInv
BY DEF Init, KeepInv, NothingFails, Earned, Remembered

(* A step that lets no wait fail. *)
LEMMA NoneFails ==
    ASSUME NothingFails,
           \A y \in Mutex : mtx[y].alive => mtx'[y].alive,
           \A u \in Thread : pc'[u] \in {"wait", "return"} =>
               /\ err'[u] = "ok" \/ (pc[u] \in {"wait", "return"} /\ err'[u] = err[u])
               /\ u \in k'.armed => pc[u] \in {"wait", "return"} /\ u \in k.armed
    PROVE  NothingFails'
BY DEF NothingFails

(* The steps that change no priority and keep the wait lists as they are. *)
Calm ==
    /\ Shrinks /\ taken' = taken /\ victim' = victim
    /\ \A u \in Thread : u = victim => pending'[u] = pending[u]
    /\ \A y \in Mutex : mtx'[y].waitq = mtx[y].waitq

(* They leave everybody what they have. *)
LEMMA CalmKeeps ==
    ASSUME MutInv, MutInv', Earned, Remembered, Calm
    PROVE  Earned' /\ Remembered'
<1>1. /\ k'.prio = k.prio /\ taken' = taken /\ victim' = victim
      /\ \A y \in Mutex : mtx'[y].prio = mtx[y].prio /\ mtx'[y].waitq = mtx[y].waitq
  BY DEF Calm, Shrinks
<1>2. \A u \in Thread : taken[u] \in SUBSET Mutex
  BY Types
<1>3. Earned'
  BY <1>1, <1>2 DEF Earned, Calm, Shrinks
<1>4. \A y \in Mutex : HeadPrio(k', mtx'[y].waitq) = HeadPrio(k, mtx[y].waitq)
  BY <1>1 DEF HeadPrio
<1>5. Remembered'
  BY <1>1, <1>4, Types DEF Remembered, Calm, Shrinks
<1> QED BY <1>3, <1>5

(* Which steps they are. *)
LEMMA CalmSteps ==
    ASSUME MutInv, NothingFails,
           \/ \E t \in Thread, x \in Mutex : TakeAgain(t, x) \/ ReleaseNested(t, x)
           \/ \E t \in Thread, x \in Thread : Start(t, x)
           \/ \E t \in Thread : CallSchedule(t) \/ TakeReturn(t) \/ TimerFire(t)
           \/ \E t \in Sleepers : Sleep(t)
           \/ SliceOver
    PROVE  Calm
<1>1. Shrinks
  BY Shrinking
<1>2. taken' = taken /\ victim' = victim /\ pending' = pending
  BY DEF TakeAgain, ReleaseNested, Start, CallSchedule, TakeReturn, TimerFire, Sleep, SliceOver
<1>3. \A y \in Mutex : mtx'[y].waitq = mtx[y].waitq
  <2>1. ASSUME NEW t \in Thread, NEW x \in Mutex, TakeAgain(t, x) \/ ReleaseNested(t, x)
        PROVE  \A y \in Mutex : mtx'[y].waitq = mtx[y].waitq
    <3>1. PICK h : mtx' = [mtx EXCEPT ![x].hold = h]
      BY <2>1, Types DEF TakeAgain, ReleaseNested, Records
    <3> QED BY <3>1, Types DEF Records, MutexRecord
  <2>2. ASSUME NEW t \in Thread, TimerFire(t)
        PROVE  \A y \in Mutex : mtx'[y].waitq = mtx[y].waitq
    <3>1. t \in k.armed /\ pc[t] \notin {"wait", "return"}
      BY <2>2 DEF TimerFire, NothingFails
    <3>2. \A y \in Mutex : ~ Linked(t, mtx[y].waitq)
      BY <3>1, Waiter DEF Waits
    <3>3. \A y \in Mutex : mtx'[y].waitq = RemoveFirst(mtx[y].waitq, t)
      BY <2>2, TimerInv
    <3> QED BY <3>2, <3>3, NobodyLeaves
  <2> QED BY <2>1, <2>2 DEF Start, CallSchedule, TakeReturn, Sleep, SliceOver
<1> QED BY <1>1, <1>2, <1>3 DEF Calm

(* No wait fails, as none has a time limit and no mutex is detached. *)
LEMMA StepFails ==
    ASSUME MutInv, Framed, Ceilings = {}, Timed = {}, Owners = {}, NothingFails, [Next]_vars
    PROVE  NothingFails'
<1>1. ASSUME NEW t \in Thread, NEW x \in Mutex,
             TakeAgain(t, x) \/ TakeFree(t, x) \/ ReleaseNested(t, x) \/ ReleaseFree(t, x)
      PROVE  NothingFails'
  <2>1. \A y \in Mutex : mtx'[y].alive = mtx[y].alive
    <3>1. CASE TakeAgain(t, x) \/ ReleaseNested(t, x)
      BY <3>1, StillInv
    <3>2. CASE TakeFree(t, x) \/ ReleaseFree(t, x)
      <4>1. PICK o, h : mtx' = [mtx EXCEPT ![x].owner = o, ![x].hold = h, ![x].prio = NoPrio]
        BY <3>2 DEF TakeFree, ReleaseFree
      <4> QED BY <4>1, Types DEF Records, MutexRecord
    <3> QED BY <1>1, <3>1, <3>2
  <2>2. k'.armed \subseteq k.armed
    BY <1>1, FreeInv DEF TakeAgain, ReleaseNested
  <2>3. \A u \in Thread : pc'[u] \in {"wait", "return"} => pc[u] \in {"wait", "return"}
    BY <1>1, Types DEF TakeAgain, TakeFree, ReleaseNested, ReleaseFree, Goto
  <2>4. \A u \in Thread : err'[u] = "ok" \/ err'[u] = err[u]
    BY <1>1, Types DEF TakeAgain, TakeFree, ReleaseNested, ReleaseFree
  <2> QED BY <2>1, <2>2, <2>3, <2>4, NoneFails
<1>2. ASSUME NEW t \in Thread, NEW x \in Mutex, HandOver(t, x)
      PROVE  NothingFails'
  <2>1. \A y \in Mutex : mtx'[y].alive = mtx[y].alive
    BY <1>2, Types DEF HandOver, Records, MutexRecord
  <2>2. k'.armed \subseteq k.armed
    BY <1>2, HandOverInv
  <2>3. /\ err' = err
        /\ \A u \in Thread : pc'[u] \in {"wait", "return"} => pc[u] \in {"wait", "return"}
    BY <1>2, Types DEF HandOver, Goto
  <2> QED BY <2>1, <2>2, <2>3, NoneFails
<1>3. ASSUME NEW t \in Thread, NEW x \in Mutex, TakeWait(t, x)
      PROVE  NothingFails'
  <2>1. /\ \A y \in Mutex : mtx'[y].alive = mtx[y].alive
        /\ k'.armed \subseteq k.armed
    BY <1>3 DEF Framed, Asks
  <2>2. /\ At(t, "user") /\ Goto(t, "wait") /\ err' = [err EXCEPT ![t] = "ok"]
    BY <1>3 DEF TakeWait, Calls
  <2>3. t \notin k'.armed
    BY <2>1, <2>2, Running DEF MutInv, ArmedWaits
  <2>4. \A u \in Thread \ {t} : pc'[u] = pc[u] /\ err'[u] = err[u]
    BY <2>2, Types DEF Goto
  <2>5. err'[t] = "ok"
    BY <2>2, Types
  <2> QED BY <2>1, <2>3, <2>4, <2>5, NoneFails
<1>4. ASSUME NEW t \in Thread, NEW x \in Thread, Start(t, x)
      PROVE  NothingFails'
  <2>1. k'.armed \subseteq k.armed
    BY <1>4, StartInv
  <2>2. \A u \in Thread : pc'[u] \in {"wait", "return"} => pc[u] \in {"wait", "return"}
    BY <1>4, Types DEF Start, Goto
  <2> QED BY <1>4, <2>1, <2>2, NoneFails DEF Start
<1>5. ASSUME SliceOver \/ \E t \in Thread : CallSchedule(t)
      PROVE  NothingFails'
  <2>1. k'.armed \subseteq k.armed
    BY <1>5, ScheduleInv
  <2>2. \A u \in Thread : pc'[u] \in {"wait", "return"} => pc[u] \in {"wait", "return"}
    BY <1>5, Types DEF SliceOver, CallSchedule, Goto
  <2>3. err' = err /\ mtx' = mtx
    BY <1>5 DEF SliceOver, CallSchedule
  <2> QED BY <2>1, <2>2, <2>3, NoneFails
<1>6. ASSUME NEW t \in Thread, TakeReturn(t)
      PROVE  NothingFails'
  <2>1. \A u \in Thread : pc'[u] \in {"wait", "return"} => pc[u] \in {"wait", "return"}
    BY <1>6, Types DEF TakeReturn, Goto
  <2> QED BY <1>6, <2>1, NoneFails DEF TakeReturn
<1>7. ASSUME NEW t \in Thread PROVE ~ TakeFail(t)
  BY DEF TakeFail, At, NothingFails
<1>8. ASSUME NEW t \in Sleepers, Sleep(t)
      PROVE  NothingFails'
  <2>1. /\ t \in Thread /\ k'.armed \subseteq k.armed \cup {t}
    BY <1>8, SleepInv
  <2>2. /\ Goto(t, "sched") /\ err' = [err EXCEPT ![t] = "ok"] /\ mtx' = mtx
    BY <1>8 DEF Sleep
  <2>3. /\ pc'[t] = "sched" /\ \A u \in Thread \ {t} : pc'[u] = pc[u] /\ err'[u] = err[u]
    BY <2>1, <2>2, Types DEF Goto
  <2> QED BY <2>1, <2>2, <2>3, NoneFails
<1>9. ASSUME NEW t \in Thread, TimerFire(t)
      PROVE  NothingFails'
  <2>1. k'.armed \subseteq k.armed /\ \A y \in Mutex : mtx'[y].alive = mtx[y].alive
    BY <1>9, TimerInv
  <2>2. pc' = pc /\ pc[t] \notin {"wait", "return"} /\ \A u \in Thread \ {t} : err'[u] = err[u]
    BY <1>9, Types DEF TimerFire, NothingFails
  <2> QED BY <2>1, <2>2, NoneFails
<1>10. ASSUME NEW v \in Victims, DeleteRemove(v)
       PROVE  NothingFails'
  <2>1. k'.armed \subseteq k.armed /\ \A y \in Mutex : mtx'[y].alive = mtx[y].alive
    BY <1>10, RemoveInv
  <2>2. /\ err' = err
        /\ \A u \in Thread : pc'[u] \in {"wait", "return"} => pc[u] \in {"wait", "return"}
    BY <1>10, Types DEF DeleteRemove, Goto
  <2> QED BY <2>1, <2>2, NoneFails
<1>11. CASE DeleteClose
  <2>1. k'.armed \subseteq k.armed /\ \A y \in Mutex : mtx'[y].alive = mtx[y].alive
    BY <1>11 DEF Framed, Closes
  <2>2. /\ err' = err
        /\ \A u \in Thread : pc'[u] \in {"wait", "return"} => pc[u] \in {"wait", "return"}
    BY <1>11, Types DEF DeleteClose, Goto
  <2> QED BY <2>1, <2>2, NoneFails
<1>12. CASE UNCHANGED vars
  BY <1>12 DEF vars, NothingFails
<1>13. ASSUME NEW t \in Thread, NEW x \in Mutex, MutexCall(t, x)
       PROVE  NothingFails'
  BY <1>1, <1>2, <1>3, <1>13 DEF MutexCall, Detach
<1>14. ASSUME NEW t \in Thread, Continue(t)
       PROVE  NothingFails'
  BY <1>5, <1>6, <1>7, <1>14 DEF Continue
<1> QED BY <1>4, <1>5, <1>8, <1>9, <1>10, <1>11, <1>12, <1>13, <1>14 DEF Next

(* The priority a thread is left with when it releases x has been earned   *)
(* without x.                                                              *)
LEMMA LoweredEarned ==
    ASSUME MutInv, Earned, Up, NEW t \in Thread, NEW x \in Mutex, mtx[x].ceil = NoPrio
    PROVE  LET p == Lowered(t, x).prio[t]
           IN  p = InitPrio[t] \/ \E y \in taken[t] \ {x} : p = mtx[y].prio
<1> DEFINE p == MutexPriority(mtx, taken[t] \ {x}, t)
           k1 == Lowered(t, x)
<1>1. p \in Prio /\ (p = InitPrio[t] \/ \E y \in taken[t] \ {x} : p = mtx[y].prio)
  <2>1. taken[t] \ {x} \in SUBSET Mutex /\ mtx \in Records
    BY Types
  <2> QED BY <2>1, MutexPriorityIs
<1>2. k.prio[t] = InitPrio[t] \/ \E y \in taken[t] : k.prio[t] = mtx[y].prio
  BY DEF Earned
<1>3. CASE Lowers(t, x)
  <2> HIDE DEF p
  <2>1. ChangePriority(k, t, p).prio = [k.prio EXCEPT ![t] = p]
    BY <1>1, Types, PriorityIs
  <2>2. k1.prio[t] = p
    BY <1>3, <2>1, Types DEF Lowered, p
  <2> QED BY <1>1, <2>2
<1>4. CASE ~ Lowers(t, x)
  <2>1. k1 = k /\ k.prio[t] # mtx[x].prio
    BY <1>4 DEF Lowered, Lowers
  <2> QED BY <1>2, <2>1
<1> QED BY <1>3, <1>4

(* Who has taken x. *)
LEMMA TakenBy ==
    ASSUME MutInv, NEW x \in Mutex, NEW u \in Thread, x \in taken[u]
    PROVE  mtx[x].owner = u
BY DEF MutInv, OwnershipExact

(* Where one mutex and the priority of one thread have changed, which      *)
(* waits for none and is not the one that is being deleted.                *)
LEMMA RestRemembered ==
    ASSUME MutInv, Remembered, Up, NEW x \in Mutex, NEW o \in Thread,
           o # victim, victim' = victim,
           victim # NoThread => pending'[victim] = pending[victim],
           \A y \in Mutex \ {x} : mtx'[y].prio = mtx[y].prio /\ mtx'[y].waitq = mtx[y].waitq,
           \A u \in Thread \ {o} : k'.prio[u] = k.prio[u],
           \A y \in Mutex, u \in Thread : Linked(u, mtx[y].waitq) => k'.prio[u] = k.prio[u],
           victim # NoThread /\ pending[victim] = x =>
               \/ mtx'[x].prio = HeadPrio(k', mtx'[x].waitq)
               \/ mtx'[x].prio = k.prio[victim]
    PROVE  Remembered'
<1> SUFFICES ASSUME victim # NoThread, NEW y \in Mutex, pending[victim] = y
             PROVE  \/ mtx'[y].prio = HeadPrio(k', mtx'[y].waitq)
                    \/ mtx'[y].prio = k'.prio[victim]
  BY DEF Remembered
<1>1. victim \in Thread /\ k'.prio[victim] = k.prio[victim]
  BY Types
<1>2. CASE y = x
  BY <1>1, <1>2
<1>3. CASE y # x
  <2>1. mtx[y].prio = HeadPrio(k, mtx[y].waitq) \/ mtx[y].prio = k.prio[victim]
    BY DEF Remembered
  <2>2. HeadPrio(k', mtx[y].waitq) = HeadPrio(k, mtx[y].waitq)
    BY Fields1, HeadPrioSame
  <2> QED BY <1>1, <1>3, <2>1, <2>2
<1> QED BY <1>2, <1>3

(* A free mutex is taken, or given up. *)
LEMMA FreeKeeps ==
    ASSUME MutInv, MutInv', HeirInv, Earned, Remembered, NEW t \in Thread, NEW x \in Mutex,
           TakeFree(t, x) \/ ReleaseFree(t, x)
    PROVE  Earned' /\ Remembered'
<1>1. /\ Up /\ victim' = victim /\ pending' = pending /\ mtx[x].ceil = NoPrio
      /\ mtx[x].owner \in {t, NoThread} /\ At(t, "user")
  BY DEF TakeFree, ReleaseFree, Calls, At, HeirInv, NoCeilings
<1>2. t # victim /\ \A y \in Mutex : ~ Linked(t, mtx[y].waitq)
  BY <1>1, Running
<1>3. mtx'[x].waitq = <<>> /\ \A y \in Mutex : mtx'[y].waitq = mtx[y].waitq
  <2>1. mtx[x].waitq = <<>>
    BY DEF TakeFree, ReleaseFree, MutInv, OwnershipExact
  <2> QED BY <2>1, FreeInv
<1>4. /\ \A y \in Mutex \ {x} : mtx'[y] = mtx[y]
      /\ mtx'[x].prio = NoPrio
  <2>1. PICK o, h : mtx' = [mtx EXCEPT ![x].owner = o, ![x].hold = h, ![x].prio = NoPrio]
    BY DEF TakeFree, ReleaseFree
  <2> QED BY <2>1, Types DEF Records, MutexRecord
<1>5. /\ \A u \in Thread \ {t} : k'.prio[u] = k.prio[u] /\ taken'[u] = taken[u] /\ x \notin taken[u]
      /\ k'.prio[t] = InitPrio[t] \/ \E y \in taken'[t] \ {x} : k'.prio[t] = mtx[y].prio
  <2>1. \A u \in Thread \ {t} : x \notin taken[u]
    BY <1>1, TakenBy, Types
  <2>2. CASE TakeFree(t, x)
    <3>1. taken' = [taken EXCEPT ![t] = @ \cup {x}] /\ k' = k /\ mtx[x].owner = NoThread
      BY <1>1, <2>2 DEF TakeFree
    <3>2. x \notin taken[t] /\ taken'[t] = taken[t] \cup {x}
      BY <3>1, TakenBy, Types
    <3>3. k.prio[t] = InitPrio[t] \/ \E y \in taken[t] : k.prio[t] = mtx[y].prio
      BY <1>1 DEF Earned
    <3> QED BY <2>1, <3>1, <3>2, <3>3, Types
  <2>3. CASE ReleaseFree(t, x)
    <3>1. taken' = [taken EXCEPT ![t] = @ \ {x}] /\ k' = Lowered(t, x)
      BY <2>3 DEF ReleaseFree
    <3>2. taken'[t] \ {x} = taken[t] \ {x} /\ \A u \in Thread \ {t} : taken'[u] = taken[u]
      BY <3>1, Types
    <3>3. \A u \in Thread \ {t} : k'.prio[u] = k.prio[u]
      BY <1>1, <3>1, LoweredBounds
    <3>4. k'.prio[t] = InitPrio[t] \/ \E y \in taken[t] \ {x} : k'.prio[t] = mtx[y].prio
      BY <1>1, <3>1, LoweredEarned
    <3> QED BY <2>1, <3>2, <3>3, <3>4
  <2> QED BY <2>2, <2>3
<1>6. Earned'
  <2>1. \A u \in Thread : taken[u] \in SUBSET Mutex /\ taken'[u] \in SUBSET Mutex
    BY Types, NextTypes
  <2>2. ASSUME NEW u \in Thread \ {t}
        PROVE  k'.prio[u] = InitPrio[u] \/ \E y \in taken'[u] : k'.prio[u] = mtx'[y].prio
    BY <1>1, <1>4, <1>5, <2>1 DEF Earned
  <2>3. k'.prio[t] = InitPrio[t] \/ \E y \in taken'[t] : k'.prio[t] = mtx'[y].prio
    BY <1>4, <1>5, <2>1
  <2> QED BY <2>2, <2>3 DEF Earned
<1>7. Remembered'
  <2>1. mtx'[x].prio = HeadPrio(k', mtx'[x].waitq)
    BY <1>3, <1>4 DEF HeadPrio
  <2>2. \A y \in Mutex, u \in Thread : Linked(u, mtx[y].waitq) => k'.prio[u] = k.prio[u]
    BY <1>2, <1>5
  <2>3. \A y \in Mutex \ {x} : mtx'[y].prio = mtx[y].prio /\ mtx'[y].waitq = mtx[y].waitq
    BY <1>3, <1>4
  <2>4. \A u \in Thread \ {t} : k'.prio[u] = k.prio[u]
    BY <1>5
  <2> QED BY <1>1, <1>2, <2>1, <2>2, <2>3, <2>4, RestRemembered
<1> QED BY <1>6, <1>7

(* A mutex is handed over. *)
LEMMA HandOverKeeps ==
    ASSUME MutInv, MutInv', HeirInv, Earned, Remembered, NEW t \in Thread, NEW x \in Mutex,
           HandOver(t, x)
    PROVE  Earned' /\ Remembered'
<1> DEFINE q == mtx[x].waitq
           n == Head(q)
<1>1. /\ Up /\ At(t, "user") /\ mtx[x].owner = t /\ mtx[x].ceil = NoPrio /\ victim' = victim
      /\ mtx' = [mtx EXCEPT ![x].owner = n, ![x].hold = 1, ![x].waitq = Tail(q),
                            ![x].prio = HeadPrio(k, Tail(q))]
      /\ taken' = [taken EXCEPT ![t] = @ \ {x}, ![n] = @ \cup {x}]
      /\ pending' = [pending EXCEPT ![n] = NoMutex] /\ q # <<>>
  BY DEF HandOver, Calls, At, HeirInv, NoCeilings
<1>2. /\ n \in Thread /\ n # t /\ Linked(n, q) /\ k'.prio = Lowered(t, x).prio
      /\ \A y \in Mutex : mtx'[y].waitq = RemoveFirst(mtx[y].waitq, n)
  BY HandOverInv
<1>3. t # victim /\ \A y \in Mutex : ~ Linked(t, mtx[y].waitq)
  BY <1>1, Running
<1>4. n # victim /\ \A y \in Mutex : Linked(n, mtx[y].waitq) => y = x
  BY <1>2, Waiter
<1>5. /\ \A u \in Thread \ {t} : k'.prio[u] = k.prio[u]
      /\ k'.prio[t] = InitPrio[t] \/ \E y \in taken[t] \ {x} : k'.prio[t] = mtx[y].prio
  BY <1>1, <1>2, LoweredBounds, LoweredEarned
<1>6. /\ Tail(q) \in Seq(Thread) /\ \A u : Linked(u, Tail(q)) => Linked(u, q)
  BY <1>1, Fields1, HeadFacts
<1> HIDE DEF n, q
<1>7. /\ \A y \in Mutex \ {x} : mtx'[y] = mtx[y]
      /\ mtx'[x].prio = HeadPrio(k, Tail(q)) /\ mtx'[x].waitq = Tail(q)
  BY <1>1, Types DEF Records, MutexRecord
<1>8. \A u \in Thread : /\ taken[u] \ {x} \subseteq taken'[u]
                        /\ u # t => x \notin taken[u]
  BY <1>1, <1>2, Types, TakenBy
<1>9. Earned'
  <2>1. \A u \in Thread : taken[u] \in SUBSET Mutex
    BY Types
  <2>2. ASSUME NEW u \in Thread
        PROVE  k'.prio[u] = InitPrio[u] \/ \E y \in taken[u] \ {x} : k'.prio[u] = mtx[y].prio
    BY <1>1, <1>5, <1>8 DEF Earned
  <2> QED BY <1>7, <1>8, <2>1, <2>2 DEF Earned
<1>10. Remembered'
  <2>1. \A y \in Mutex, u \in Thread : Linked(u, mtx[y].waitq) => k'.prio[u] = k.prio[u]
    BY <1>3, <1>5
  <2>2. HeadPrio(k', Tail(q)) = HeadPrio(k, Tail(q))
    BY <1>6, <2>1, HeadPrioSame DEF q
  <2>3. mtx'[x].prio = HeadPrio(k', mtx'[x].waitq)
    BY <1>7, <2>2
  <2>4. \A y \in Mutex \ {x} : mtx'[y].prio = mtx[y].prio /\ mtx'[y].waitq = mtx[y].waitq
    BY <1>7
  <2>5. victim # NoThread => pending'[victim] = pending[victim]
    BY <1>1, <1>4, Types
  <2> QED BY <1>1, <1>3, <1>5, <2>1, <2>3, <2>4, <2>5, RestRemembered
<1> QED BY <1>9, <1>10

(* A thread waits, and passes its priority on. *)
LEMMA WaitKeeps ==
    ASSUME MutInv, MutInv', Asserts, HeirInv, NothingFails, Earned, Remembered,
           NEW t \in Thread, NEW x \in Mutex, TakeWait(t, x)
    PROVE  Earned' /\ Remembered'
<1> SUFFICES ASSUME Up' PROVE Earned' /\ Remembered'
  BY DEF Earned, Remembered
<1> DEFINE o == mtx[x].owner
           p == k.prio[t]
           q == mtx[x].waitq
           w == mtx'[x].waitq
<1>1. Up /\ taken' = taken /\ victim' = victim
  BY DEF TakeWait, Calls, At
<1>2. /\ pending' = [pending EXCEPT ![t] = x] /\ t # victim
      /\ WaitersKeep /\ Joined(t, x)
  BY WaitInv
<1>3. /\ o \in Thread /\ o # t /\ o # victim /\ x \in taken[o]
      /\ \A u \in Thread \ {o} : x \notin taken[u]
  <2>1. o \in Thread /\ o # t
    BY <1>2 DEF Joined
  <2>2. x \in taken[o]
    BY <2>1, Types DEF HeirInv, Held, NothingFails
  <2>3. o # victim
    BY <2>1, Types DEF MutInv, VictimApart
  <2> QED BY <2>1, <2>2, <2>3, TakenBy
<1>4. /\ \A y \in Mutex \ {x} : mtx'[y].prio = mtx[y].prio /\ mtx'[y].waitq = mtx[y].waitq
      /\ mtx'[x].prio = IF p < mtx[x].prio THEN p ELSE mtx[x].prio
      /\ SortedBy(w, k.prio) /\ \A u : Linked(u, w) <=> u = t \/ Linked(u, q)
      /\ k'.prio = IF p < mtx[x].prio /\ p < k.prio[o] THEN [k.prio EXCEPT ![o] = p] ELSE k.prio
  BY <1>2 DEF Joined
<1>5. /\ p \in Int /\ k.prio \in [Thread -> Prio]
      /\ \A u \in Thread : k.prio[u] \in Int
      /\ \A y \in Mutex : mtx[y].prio \in Int
  BY Types, PriosCompare
<1>6. /\ \A u \in Thread : taken[u] \in SUBSET Mutex
      /\ q \in Seq(Thread) /\ SortedBy(q, k.prio)
  BY <1>1, Types, Fields1 DEF MutInv, Order
<1>7. w \in Seq(Thread)
  BY NextTypes, RecordFields DEF Records
<1> HIDE DEF o, p, q, w
<1>8. /\ \A u \in Thread \ {o} : k'.prio[u] = k.prio[u]
      /\ k'.prio[o] = IF p < mtx[x].prio /\ p < k.prio[o] THEN p ELSE k.prio[o]
  BY <1>3, <1>4, <1>5
<1>9. Earned'
  <2> SUFFICES ASSUME NEW u \in Thread
               PROVE  k'.prio[u] = InitPrio[u] \/ \E y \in taken[u] : k'.prio[u] = mtx'[y].prio
    BY <1>1 DEF Earned
  <2>1. k.prio[u] = InitPrio[u] \/ \E y \in taken[u] : k.prio[u] = mtx[y].prio
    BY <1>1 DEF Earned
  <2>2. CASE u # o
    BY <1>3, <1>4, <1>6, <1>8, <2>1, <2>2
  <2>3. CASE u = o /\ p < mtx[x].prio /\ p < k.prio[o]
    BY <1>3, <1>4, <1>8, <2>3
  <2>4. CASE u = o /\ ~ (p < mtx[x].prio /\ p < k.prio[o])
    <3>1. k'.prio[o] = k.prio[o]
      BY <1>8, <2>4
    <3>2. CASE k.prio[o] = InitPrio[o]
      BY <2>4, <3>1, <3>2
    <3>3. ASSUME NEW y \in taken[o], k.prio[o] = mtx[y].prio
          PROVE  k.prio[o] = mtx'[y].prio
      <4>1. CASE y = x
        BY <1>4, <2>4, <3>3, <4>1
      <4>2. CASE y # x
        BY <1>3, <1>4, <1>6, <3>3, <4>2
      <4> QED BY <4>1, <4>2
    <3> QED BY <2>1, <2>4, <3>1, <3>2, <3>3
  <2> QED BY <2>2, <2>3, <2>4
<1>10. Remembered'
  <2>1. \A y \in Mutex, u \in Thread : Linked(u, mtx[y].waitq) => k'.prio[u] = k.prio[u]
    BY <1>2 DEF WaitersKeep
  <2>2. HeadPrio(k', w) = HeadPrio(k, w)
    <3>1. \A u \in Thread : Linked(u, w) => k'.prio[u] = k.prio[u]
      BY <1>3, <1>4, <1>8, <2>1 DEF q
    <3> QED BY <1>7, <3>1, HeadPrioSame
  <2>3. HeadPrio(k, w) = IF p < HeadPrio(k, q) THEN p ELSE HeadPrio(k, q)
    BY <1>4, <1>5, <1>6, <1>7, InsertHead DEF p
  <2>4. mtx[x].prio <= HeadPrio(k, q)
    BY <1>1, HeadCovered DEF q
  <2>5. HeadPrio(k, q) \in Int
    BY <1>5, <1>6, HeadPrioIs, Numbers
  <2>6. victim # NoThread => pending'[victim] = pending[victim]
    BY <1>2, Types
  <2>7. victim # NoThread /\ pending[victim] = x =>
           mtx'[x].prio = HeadPrio(k', w) \/ mtx'[x].prio = k.prio[victim]
    <3> SUFFICES ASSUME victim # NoThread, pending[victim] = x
                 PROVE  mtx'[x].prio = HeadPrio(k', w) \/ mtx'[x].prio = k.prio[victim]
      OBVIOUS
    <3>1. mtx[x].prio = HeadPrio(k, q) \/ mtx[x].prio = k.prio[victim]
      BY <1>1 DEF Remembered, q
    <3>2. CASE p < mtx[x].prio
      BY <1>4, <1>5, <2>2, <2>3, <2>4, <2>5, <3>2
    <3>3. CASE ~ (p < mtx[x].prio)
      BY <1>4, <2>2, <2>3, <3>1, <3>3
    <3> QED BY <3>2, <3>3
  <2> QED BY <1>1, <1>3, <1>4, <1>8, <2>1, <2>6, <2>7, RestRemembered DEF w
<1> QED BY <1>9, <1>10

(* A thread is taken out of the wait list it is in, to be deleted. *)
LEMMA RemoveKeeps ==
    ASSUME MutInv, MutInv', NothingFails, Earned, NEW v \in Victims, DeleteRemove(v)
    PROVE  Earned' /\ Remembered'
<1>1. /\ Up /\ taken' = taken /\ pending' = pending /\ victim' = v /\ fault' = fault
  BY DEF DeleteRemove, At
<1>2. /\ v \in Thread /\ victim = NoThread /\ k'.prio = k.prio
      /\ \A y \in Mutex : /\ mtx'[y].prio = mtx[y].prio
                          /\ mtx'[y].waitq = RemoveFirst(mtx[y].waitq, v)
  BY RemoveInv
<1>3. Earned'
  <2>1. \A u \in Thread : taken[u] \in SUBSET Mutex
    BY Types
  <2> QED BY <1>1, <1>2, <2>1 DEF Earned
<1>4. ASSUME NEW y \in Mutex, pending[v] = y
      PROVE  \/ mtx'[y].prio = HeadPrio(k', mtx'[y].waitq)
             \/ mtx'[y].prio = k'.prio[v]
  <2> DEFINE q == mtx[y].waitq
             r == RemoveFirst(q, v)
  <2>1. \A u \in Thread : ~ Failing(u, y)
    BY DEF NothingFails, Failing
  <2>2. mtx[y].prio = HeadPrio(k, q)
    BY <1>1, <1>2, <2>1 DEF MutInv, Order, Settled, NothingFails
  <2>3. q \in Seq(Thread) /\ LinkedOnce(q) /\ SortedBy(q, k.prio) /\ k.prio \in [Thread -> Prio]
    BY <1>1, Fields1, Types DEF MutInv, Order
  <2>4. /\ r \in Seq(Thread) /\ SortedBy(r, k.prio)
        /\ \A u : Linked(u, r) <=> Linked(u, q) /\ u # v
    <3> HIDE DEF q
    <3> QED BY <1>2, <2>3, RemoveSorted, RemoveFirstFacts
  <2>5. HeadPrio(k', r) = HeadPrio(k, r)
    BY <1>2 DEF HeadPrio
  <2>6. CASE Linked(v, q)
    <3> HIDE DEF q, r
    <3>1. \A u : Linked(u, q) <=> u = v \/ Linked(u, r)
      BY <2>4, <2>6
    <3>2. HeadPrio(k, q) = IF k.prio[v] < HeadPrio(k, r) THEN k.prio[v] ELSE HeadPrio(k, r)
      BY <1>2, <2>3, <2>4, <3>1, InsertHead
    <3> QED BY <1>2, <2>2, <2>5, <3>2 DEF q, r
  <2>7. CASE ~ Linked(v, q)
    <3>1. r = q
      BY <2>7, NobodyLeaves
    <3> QED BY <1>2, <2>2, <2>5, <3>1
  <2> QED BY <2>6, <2>7
<1>5. Remembered'
  BY <1>1, <1>4 DEF Remembered
<1> QED BY <1>3, <1>5

(* The owner of the mutex is told of a deletion. *)
LEMMA CloseKeeps ==
    ASSUME MutInv, MutInv', Asserts, HeirInv, NothingFails, Earned, Remembered, DeleteClose
    PROVE  Earned' /\ Remembered'
<1>1. Up /\ taken' = taken
  BY DEF DeleteClose, At
<1>2. /\ victim \in Thread /\ victim' = NoThread
      /\ Up' => IF pending[victim] \in Mutex /\ mtx[pending[victim]].alive
                THEN Told(victim, pending[victim])
                ELSE k'.prio = k.prio /\ \A x \in Mutex : mtx'[x].prio = mtx[x].prio
  BY CloseInv
<1>3. Remembered'
  BY <1>2 DEF Remembered
<1>4. /\ \A u \in Thread : taken[u] \in SUBSET Mutex
      /\ \A u \in Thread : k.prio[u] = InitPrio[u] \/ \E y \in taken[u] : k.prio[u] = mtx[y].prio
  BY <1>1, Types DEF Earned
<1>5. ASSUME Up', pending[victim] \in Mutex, Told(victim, pending[victim])
      PROVE  Earned'
  <2> DEFINE x == pending[victim]
             o == mtx[x].owner
             p == MutexPriority(mtx', taken[o], o)
  <2>1. /\ o \in Thread /\ \A y \in Mutex \ {x} : mtx'[y].prio = mtx[y].prio
        /\ mtx'[x].prio = HeadPrio(k, mtx[x].waitq)
        /\ k'.prio = IF k.prio[o] = k.prio[victim] /\ p # k.prio[o]
                     THEN [k.prio EXCEPT ![o] = p] ELSE k.prio
    BY <1>5 DEF Told
  <2>2. p = InitPrio[o] \/ \E y \in taken[o] : p = mtx'[y].prio
    <3>1. taken[o] \in SUBSET Mutex /\ mtx' \in Records
      BY <1>4, <2>1, NextTypes
    <3> HIDE DEF o
    <3> QED BY <2>1, <3>1, MutexPriorityIs
  <2>3. mtx[x].prio = HeadPrio(k, mtx[x].waitq) \/ mtx[x].prio = k.prio[victim]
    BY <1>1, <1>2, <1>5, Types DEF Remembered
  <2>4. \A u \in Thread \ {o} : x \notin taken[u]
    BY <1>5, TakenBy
  <2>5. k.prio \in [Thread -> Prio]
    BY Types
  <2>6. x \in Mutex
    BY <1>5
  <2> HIDE DEF p, o, x
  <2>7. ASSUME NEW u \in Thread \ {o}
        PROVE  k'.prio[u] = InitPrio[u] \/ \E y \in taken[u] : k'.prio[u] = mtx'[y].prio
    <3>1. k'.prio[u] = k.prio[u]
      BY <2>1, <2>5
    <3>2. \A y \in taken[u] : mtx'[y].prio = mtx[y].prio
      BY <1>4, <2>1, <2>4
    <3> QED BY <1>4, <3>1, <3>2
  <2>8. CASE k.prio[o] = k.prio[victim]
    <3>1. k'.prio[o] = p
      BY <2>1, <2>5, <2>8
    <3>2. k'.prio[o] = InitPrio[o] \/ \E y \in taken[o] : k'.prio[o] = mtx'[y].prio
      BY <2>2, <3>1
    <3> QED BY <1>1, <2>7, <3>2 DEF Earned
  <2>9. CASE k.prio[o] # k.prio[victim]
    <3>1. k'.prio[o] = k.prio[o]
      BY <2>1, <2>9
    <3>2. ASSUME NEW y \in taken[o], k.prio[o] = mtx[y].prio
          PROVE  k.prio[o] = mtx'[y].prio
      <4>1. y \in Mutex
        BY <1>4, <2>1
      <4> QED BY <2>1, <2>3, <2>9, <3>2, <4>1
    <3>3. k.prio[o] = InitPrio[o] \/ \E y \in taken[o] : k.prio[o] = mtx[y].prio
      BY <1>4, <2>1
    <3>4. k'.prio[o] = InitPrio[o] \/ \E y \in taken[o] : k'.prio[o] = mtx'[y].prio
      BY <3>1, <3>2, <3>3
    <3> QED BY <1>1, <2>7, <3>4 DEF Earned
  <2> QED BY <2>8, <2>9
<1>6. ASSUME Up', k'.prio = k.prio, \A x \in Mutex : mtx'[x].prio = mtx[x].prio
      PROVE  Earned'
  BY <1>1, <1>4, <1>6 DEF Earned
<1>7. ~ Up' => Earned'
  BY DEF Earned
<1> QED BY <1>2, <1>3, <1>5, <1>6, <1>7

(* Every step keeps all three. *)
LEMMA StepKeeps ==
    ASSUME Steady, Passes => Asserts, Framed, MutInv, MutInv', HeirInv, KeepInv, [Next]_vars
    PROVE  KeepInv'
<1> USE DEF KeepInv
<1>1. NothingFails'
  BY StepFails DEF Steady
<1>2. CASE UNCHANGED vars
  BY <1>1, <1>2 DEF vars, Earned, Remembered, Up, HeadPrio
<1>3. ASSUME NEW t \in Thread, NEW x \in Mutex, MutexCall(t, x) PROVE Earned' /\ Remembered'
  <2>1. CASE TakeAgain(t, x) \/ ReleaseNested(t, x)
    BY <2>1, CalmSteps, CalmKeeps
  <2>2. CASE TakeFree(t, x) \/ ReleaseFree(t, x)
    BY <2>2, FreeKeeps
  <2>3. CASE HandOver(t, x)
    BY <2>3, HandOverKeeps
  <2>4. CASE TakeWait(t, x)
    <3>1. Asserts
      BY <2>4 DEF Passes
    <3> QED BY <2>4, <3>1, WaitKeeps
  <2> QED BY <1>3, <2>1, <2>2, <2>3, <2>4 DEF MutexCall, Detach, Steady
<1>4. ASSUME NEW t \in Thread, Continue(t) PROVE Earned' /\ Remembered'
  <2>1. ~ TakeFail(t)
    BY DEF TakeFail, At, NothingFails
  <2> QED BY <1>4, <2>1, CalmSteps, CalmKeeps DEF Continue
<1>5. ASSUME NEW v \in Victims, DeleteRemove(v) PROVE Earned' /\ Remembered'
  BY <1>5, RemoveKeeps
<1>6. CASE DeleteClose
  <2>1. Asserts
    BY <1>6 DEF Passes
  <2> QED BY <1>1, <1>6, <2>1, CloseKeeps
<1>7. CASE \/ \E t \in Thread, x \in Thread : Start(t, x)
           \/ \E t \in Thread : TimerFire(t)
           \/ \E t \in Sleepers : Sleep(t)
           \/ SliceOver
  BY <1>1, <1>7, CalmSteps, CalmKeeps
<1> QED BY <1>1, <1>2, <1>3, <1>4, <1>5, <1>6, <1>7 DEF Next

(* Then a thread has the priority its mutexes give it. *)
LEMMA PriorityIsGiven ==
    ASSUME MutInv, HeirInv, KeepInv, Up, NEW t \in Thread
    PROVE  k.prio[t] = MutexPriority(mtx, taken[t], t)
<1> DEFINE p == MutexPriority(mtx, taken[t], t)
<1>1. taken[t] \in SUBSET Mutex /\ mtx \in Records
  BY Types
<1>2. /\ p \in Prio /\ p <= InitPrio[t] /\ \A x \in taken[t] : p <= mtx[x].prio
      /\ p = InitPrio[t] \/ \E x \in taken[t] : p = mtx[x].prio
  BY <1>1, MutexPriorityIs
<1>3. /\ k.prio[t] <= InitPrio[t] /\ \A x \in taken[t] : k.prio[t] <= mtx[x].prio
      /\ k.prio[t] = InitPrio[t] \/ \E x \in taken[t] : k.prio[t] = mtx[x].prio
  BY DEF HeirInv, Boosted, KeepInv, Earned
<1>4. k.prio[t] \in Int /\ p \in Int
  BY <1>2, Types, Numbers
<1> HIDE DEF p
<1>5. k.prio[t] <= p /\ p <= k.prio[t]
  BY <1>2, <1>3
<1> QED BY <1>4, <1>5 DEF p

-----------------------------------------------------------------------------
(* Chains: without assertions a change of priority goes on from mutex to   *)
(* mutex.                                                                  *)

(* The levels of _thread_update_priority, of which there are as many as    *)
(* threads.                                                                *)
LEMMA Levels ==
    ASSUME NEW k1, NEW m, NEW pend, NEW t, NEW p
    PROVE  LET N == Cardinality(Thread)
               s0 == [k |-> ChangePriority(k1, t, p), mtx |-> m, pending |-> pend,
                      next |-> t, fault |-> "no"]
           IN  /\ N \in Nat
               /\ \E f : /\ UpdatePriority(Present(k1, m, pend), t, p) = f[N]
                         /\ f[0] = s0
                         /\ \A i \in 1 .. N : f[i] = Climb(f[i - 1])
<1> DEFINE k2 == ChangePriority(k1, t, p)
           s0 == [k |-> k2, mtx |-> m, pending |-> pend, next |-> t, fault |-> "no"]
           N == Cardinality(Thread)
           Eq(f, n) == f = [i \in 0 .. n |-> IF i = 0 THEN s0 ELSE Climb(f[i - 1])]
<1>1. N \in Nat
  BY MutexAssumption, FS_CardinalityType
<1> HIDE DEF k2, N
<1>2. UpdatePriority(Present(k1, m, pend), t, p) = (CHOOSE f : Eq(f, N))[N]
  <2> DEFINE s == Present(k1, m, pend)
             b == [s EXCEPT !.k = ChangePriority(@, t, p), !.next = t]
  <2>1. b = s0
    <3> DEFINE c == [s EXCEPT !.k = k2]
    <3>1. c = [k |-> k2, mtx |-> m, pending |-> pend, next |-> NoThread, fault |-> "no"]
      BY DEF Present
    <3>2. [c EXCEPT !.next = t] = s0
      <4> HIDE DEF c
      <4> QED BY <3>1
    <3>3. b = [c EXCEPT !.next = t]
      <4>1. s.k = k1
        BY DEF Present
      <4>2. b = [s EXCEPT !.k = k2, !.next = t]
        <5> HIDE DEF s
        <5> QED BY <4>1 DEF k2
      <4>3. [s EXCEPT !.k = k2, !.next = t] = [c EXCEPT !.next = t]
        BY DEF Present
      <4> QED BY <4>2, <4>3
    <3> QED BY <3>2, <3>3
  <2> HIDE DEF s0
  <2>2. UpdatePriority(s, t, p) =
          (CHOOSE f : f = [i \in 0 .. N |-> IF i = 0 THEN b ELSE Climb(f[i - 1])])[N]
    <3> HIDE DEF s
    <3> QED BY DEF UpdatePriority, N
  <2> HIDE DEF b, s
  <2> QED BY <2>1, <2>2 DEF s
<1> HIDE DEF s0
<1>3. \E f : Eq(f, N)
  <2> DEFINE bad == {n \in 0 .. N : ~ \E f : Eq(f, n)}
  <2>1. bad = {}
    <3> SUFFICES ASSUME bad # {} PROVE FALSE
      OBVIOUS
    <3>1. bad \in SUBSET Nat
      BY <1>1
    <3>2. PICK n \in bad : \A j \in bad : n <= j
      BY <3>1, MinOfIndices
    <3>3. n \in 0 .. N /\ ~ \E f : Eq(f, n)
      OBVIOUS
    <3>4. n # 0
      <4>1. ASSUME n = 0 PROVE FALSE
        <5> DEFINE g == [i \in 0 .. 0 |-> s0]
        <5>1. Eq(g, 0)
          BY <1>1
        <5> HIDE DEF Eq
        <5> QED BY <3>3, <4>1, <5>1
      <4> QED BY <4>1
    <3>5. n - 1 \in 0 .. N /\ ~ (n <= n - 1)
      BY <1>1, <3>3, <3>4
    <3>6. PICK f : Eq(f, n - 1)
      <4> HIDE DEF Eq
      <4> QED BY <3>2, <3>5
    <3> DEFINE g == [i \in 0 .. n |-> IF i < n THEN f[i] ELSE Climb(f[n - 1])]
    <3>7. Eq(g, n)
      <4> SUFFICES ASSUME NEW i \in 0 .. n
                   PROVE  g[i] = IF i = 0 THEN s0 ELSE Climb(g[i - 1])
        OBVIOUS
      <4>1. i = 0 \/ i - 1 \in 0 .. n - 1
        BY <3>3
      <4>2. \A j \in 0 .. n - 1 : f[j] = IF j = 0 THEN s0 ELSE Climb(f[j - 1])
        BY <3>6
      <4>3. CASE i = 0
        BY <3>3, <3>4, <4>2, <4>3
      <4>4. CASE i # 0 /\ i < n
        BY <3>3, <4>1, <4>2, <4>4
      <4>5. CASE i = n
        BY <3>3, <3>4, <4>5
      <4> QED BY <3>3, <4>3, <4>4, <4>5
    <3> HIDE DEF Eq, g
    <3> QED BY <3>3, <3>7
  <2> HIDE DEF Eq
  <2> QED BY <1>1, <2>1
<1>4. PICK f : Eq(f, N) /\ UpdatePriority(Present(k1, m, pend), t, p) = f[N]
  <2> HIDE DEF Eq
  <2> QED BY <1>2, <1>3
<1>5. \A i \in 0 .. N : f[i] = IF i = 0 THEN s0 ELSE Climb(f[i - 1])
  BY <1>4
<1>6. f[0] = s0 /\ \A i \in 1 .. N : f[i] = Climb(f[i - 1])
  BY <1>1, <1>5
<1> QED BY <1>1, <1>4, <1>6 DEF s0, k2, N

(* _thread_get_mutex_priority looks at the priorities of mutexes only. *)
LEMMA MutexPrioritySame ==
    ASSUME NEW m1, NEW m2, NEW held, NEW t, \A x \in held : m1[x].prio = m2[x].prio
    PROVE  MutexPriority(m1, held, t) = MutexPriority(m2, held, t)
<1>1. {m1[x].prio : x \in held} = {m2[x].prio : x \in held}
  OBVIOUS
<1> QED BY <1>1 DEF MutexPriority

(* What one mutex adds to what the others give. *)
LEMMA MutexPriorityWith ==
    ASSUME NEW m, m \in Records, NEW held, held \in SUBSET Mutex, NEW t, t \in Thread,
           NEW x, x \in held, NEW rest, rest = held \ {x},
           NEW p, p = MutexPriority(m, held, t), NEW r, r = MutexPriority(m, rest, t),
           NEW a, a = m[x].prio
    PROVE  p = IF a < r THEN a ELSE r
<1>1. /\ p \in Prio /\ p <= InitPrio[t] /\ \A y \in held : p <= m[y].prio
      /\ p = InitPrio[t] \/ \E y \in held : p = m[y].prio
  BY MutexPriorityIs
<1>2. /\ r \in Prio /\ r <= InitPrio[t] /\ \A y \in rest : r <= m[y].prio
      /\ r = InitPrio[t] \/ \E y \in rest : r = m[y].prio
  <2>1. rest \in SUBSET Mutex
    OBVIOUS
  <2> QED BY <2>1, MutexPriorityIs
<1>3. p \in Int /\ r \in Int /\ a \in Int
  BY <1>1, <1>2, Numbers, RecordFields DEF Records
<1>4. p <= r /\ p <= a
  BY <1>1, <1>2
<1>5. p = a \/ r <= p
  BY <1>1, <1>2
<1> QED BY <1>3, <1>4, <1>5

(* It does not look at the mutexes a thread has not taken. *)
LEMMA MutexPriorityApart ==
    ASSUME NEW mm, NEW m, NEW x, \A y \in Mutex \ {x} : m[y] = mm[y],
           NEW held \in SUBSET Mutex, x \notin held, NEW t
    PROVE  MutexPriority(m, held, t) = MutexPriority(mm, held, t)
<1>1. \A y \in held : m[y].prio = mm[y].prio
  OBVIOUS
<1> QED BY <1>1, MutexPrioritySame

(* When only x changes, the others give the same as before.                *)
LEMMA MutexPriorityTwo ==
    ASSUME NEW mm \in Records, NEW m \in Records, NEW held \in SUBSET Mutex,
           NEW t \in Thread, NEW x \in held, \A y \in Mutex \ {x} : m[y] = mm[y],
           NEW a, a = mm[x].prio, NEW g, g = m[x].prio,
           NEW c, c = MutexPriority(mm, held, t), NEW n, n = MutexPriority(m, held, t)
    PROVE  \E r \in Int : c = (IF a < r THEN a ELSE r) /\ n = (IF g < r THEN g ELSE r)
<1>1. PICK rest : rest = held \ {x}
  OBVIOUS
<1>2. rest \in SUBSET Mutex
  BY <1>1
<1>3. PICK r : r = MutexPriority(mm, rest, t)
  OBVIOUS
<1>4. r = MutexPriority(m, rest, t)
  <2>1. \A y \in rest : m[y].prio = mm[y].prio
    BY <1>1
  <2> QED BY <1>3, <2>1, MutexPrioritySame
<1>5. r \in Int
  BY <1>2, <1>3, MutexPriorityIs, Numbers
<1>6. c = IF a < r THEN a ELSE r
  BY <1>1, <1>3, MutexPriorityWith
<1>7. n = IF g < r THEN g ELSE r
  BY <1>1, <1>4, MutexPriorityWith
<1> QED BY <1>5, <1>6, <1>7

(* Mutexes and the threads that wait for them, in the middle of a call:    *)
(* pend is what the threads wait for, those of D are in no list.  Only the *)
(* priority of o may be another one than its mutexes give it; only z may   *)
(* have another one than its waiters give it, which is then w.             *)
WebMutex(kk, mm, pend, D, z, w, y) ==
    LET q == mm[y].waitq
        h == HeadPrio(kk, q)
    IN  /\ mm[y].alive /\ mm[y].owner \notin D
        /\ LinkedOnce(q) /\ SortedBy(q, kk.prio)
        /\ mm[y].owner = NoThread => q = <<>>
        /\ ~ Linked(mm[y].owner, q)
        /\ \A v \in Thread :
              /\ Linked(v, q) <=> kk.stat[v] = "suspend" /\ v \notin D /\ pend[v] = y
              /\ y \in taken[v] <=> mm[y].owner = v
        /\ mm[y].prio = h \/ (y = z /\ mm[y].prio = w /\ w <= h)

Web(kk, mm, pend, D, z, w, o) ==
    /\ Runs(kk, D, Idle) /\ mm \in Records
    /\ \A y \in Mutex : WebMutex(kk, mm, pend, D, z, w, y)
    /\ \A v \in Thread \ {o} : kk.prio[v] = MutexPriority(mm, taken[v], v)

(* What the levels leave alone. *)
After(k0, m0, kk, mm, D) ==
    /\ kk.cur = k0.cur /\ kk.armed = k0.armed /\ kk.stat = k0.stat
    /\ \A v \in D : kk.prio[v] = k0.prio[v]
    /\ \A y \in Mutex : /\ mm[y].owner = m0[y].owner /\ mm[y].hold = m0[y].hold
                        /\ mm[y].alive = m0[y].alive /\ mm[y].ceil = m0[y].ceil

(* The wait list of x, and its priority, when u has been put in its new    *)
(* place.                                                                  *)
Placed(mm, x, q, h) == [mm EXCEPT ![x].waitq = q, ![x].prio = h]
Requeued(mm, u, x, q, h) == [Unlinked(mm, u) EXCEPT ![x].waitq = q, ![x].prio = h]

IsPlaced(m, mm, x, q, h) ==
    /\ m \in Records /\ m[x].waitq = q /\ m[x].prio = h
    /\ \A y \in Mutex : /\ m[y].owner = mm[y].owner /\ m[y].hold = mm[y].hold
                        /\ m[y].alive = mm[y].alive /\ m[y].ceil = mm[y].ceil
                        /\ y # x => m[y] = mm[y]

(* The record of x, and the others. *)
LEMMA PlacedIs ==
    ASSUME NEW mm \in Records, NEW x \in Mutex, NEW q \in Seq(Thread),
           NEW h \in Prio \cup {NoPrio}
    PROVE  IsPlaced(Placed(mm, x, q, h), mm, x, q, h)
<1> DEFINE c == [mm[x] EXCEPT !.waitq = q, !.prio = h]
           m == Placed(mm, x, q, h)
<1>1. mm[x] \in MutexRecord
  BY DEF Records
<1>2. c \in MutexRecord
  BY <1>1 DEF MutexRecord
<1>3. m = [mm EXCEPT ![x] = c]
  BY DEF Placed, Records
<1>4. c.owner = mm[x].owner /\ c.hold = mm[x].hold /\ c.prio = h /\ c.waitq = q
  BY <1>1 DEF MutexRecord
<1>5. c.alive = mm[x].alive /\ c.ceil = mm[x].ceil
  BY <1>1 DEF MutexRecord
<1> HIDE DEF c, m
<1>6. m \in Records /\ m[x] = c /\ \A y \in Mutex : y # x => m[y] = mm[y]
  BY <1>2, <1>3 DEF Records
<1> QED BY <1>4, <1>5, <1>6 DEF m, IsPlaced

(* The list b has become the wait list of x. *)
Replaced(kk, k2, u, p, mm, x, b) ==
    LET q == mm[x].waitq
        h == HeadPrio(kk, RemoveFirst(q, u))
        g == HeadPrio(k2, b)
    IN  /\ Requeued(mm, u, x, b, g) = Placed(mm, x, b, g)
        /\ b \in Seq(Thread) /\ LinkedOnce(b) /\ SortedBy(b, k2.prio)
        /\ \A v : Linked(v, b) <=> Linked(v, q)
        /\ h \in Prio \cup {NoPrio} /\ g \in Prio \cup {NoPrio}
        /\ HeadPrio(kk, q) = IF kk.prio[u] < h THEN kk.prio[u] ELSE h
        /\ g = IF p < h THEN p ELSE h

(* A thread changes its place in one wait list. *)
LEMMA Replace ==
    ASSUME NEW kk, NEW k2, kk.prio \in [Thread -> Prio], NEW u, u \in Thread,
           NEW p, p \in Prio, k2.prio \in [Thread -> Prio], k2.prio[u] = p,
           \A v \in Thread \ {u} : k2.prio[v] = kk.prio[v],
           NEW mm, mm \in Records, NEW x, x \in Mutex,
           \A y \in Mutex : LinkedOnce(mm[y].waitq) /\ (Linked(u, mm[y].waitq) <=> y = x),
           SortedBy(mm[x].waitq, kk.prio),
           NEW b, b = WaitInsert("PRIO", RemoveFirst(mm[x].waitq, u), u, k2.prio)
    PROVE  Replaced(kk, k2, u, p, mm, x, b)
<1> DEFINE q == mm[x].waitq
           r == RemoveFirst(q, u)
           h == HeadPrio(kk, r)
<1>1. q \in Seq(Thread) /\ LinkedOnce(q) /\ Linked(u, q) /\ SortedBy(q, kk.prio)
  BY RecordFields DEF Records
<1>2. k2.prio \in [Thread -> Prio] /\ k2.prio[u] = p
      /\ \A v \in Thread \ {u} : k2.prio[v] = kk.prio[v]
  OBVIOUS
<1>3. /\ r \in Seq(Thread) /\ LinkedOnce(r) /\ ~ Linked(u, r)
      /\ \A v : v # u => (Linked(v, r) <=> Linked(v, q))
  <2> HIDE DEF q
  <2> QED BY <1>1, RemoveFirstFacts
<1>4. SortedBy(r, kk.prio) /\ SortedBy(r, k2.prio)
  <2>1. \A v : Linked(v, q) /\ v # u => k2.prio[v] = kk.prio[v]
    <3>1. \A v : Linked(v, q) => v \in Thread
      BY <1>1 DEF Linked
    <3> HIDE DEF q
    <3> QED BY <1>2, <3>1
  <2> HIDE DEF q
  <2>2. SortedBy(RemoveFirst(q, u), kk.prio)
    BY <1>1, RemoveSorted
  <2>3. SortedBy(RemoveFirst(q, u), k2.prio)
    <3> DEFINE f == kk.prio
               g == k2.prio
    <3>1. SortedBy(q, f) /\ \A v : Linked(v, q) /\ v # u => g[v] = f[v]
      BY <1>1, <2>1
    <3> HIDE DEF f, g
    <3>2. SortedBy(RemoveFirst(q, u), g)
      BY <1>1, <3>1, RemoveSorted
    <3> QED BY <3>2 DEF g
  <2> QED BY <2>2, <2>3
<1> HIDE DEF q, r
<1>5. /\ b \in Seq(Thread) /\ LinkedOnce(b) /\ SortedBy(b, k2.prio)
      /\ \A v : Linked(v, b) <=> v = u \/ Linked(v, r)
  <2>1. "PRIO" \in Flag
    BY DEF Flag
  <2> DEFINE c == WaitInsert("PRIO", r, u, k2.prio)
  <2>2. /\ c \in Seq(Thread) /\ LinkedOnce(c) /\ SortedBy(c, k2.prio)
        /\ \A v : Linked(v, c) <=> v = u \/ Linked(v, r)
    BY <1>2, <1>3, <1>4, <2>1, WaitInsertFacts
  <2>3. b = c
    BY DEF r, q
  <2> HIDE DEF c
  <2> QED BY <2>2, <2>3
<1>6. \A v : Linked(v, b) <=> Linked(v, q)
  BY <1>1, <1>3, <1>5
<1>7. HeadPrio(kk, q) = IF kk.prio[u] < h THEN kk.prio[u] ELSE h
  <2>1. \A v : Linked(v, q) <=> v = u \/ Linked(v, r)
    BY <1>5, <1>6
  <2> QED BY <1>1, <1>3, <1>4, <2>1, InsertHead
<1>8. HeadPrio(k2, b) = IF p < h THEN p ELSE h
  <2>1. HeadPrio(k2, b) = IF k2.prio[u] < HeadPrio(k2, r) THEN k2.prio[u] ELSE HeadPrio(k2, r)
    BY <1>2, <1>3, <1>4, <1>5, InsertHead
  <2>2. HeadPrio(k2, r) = h
    BY <1>2, <1>3, HeadPrioSame
  <2> QED BY <1>2, <2>1, <2>2
<1>9. h \in Prio \cup {NoPrio} /\ HeadPrio(k2, b) \in Prio \cup {NoPrio}
  BY <1>2, <1>3, <1>5, HeadPrioIs
<1> DEFINE H == HeadPrio(k2, b)
<1>10. Requeued(mm, u, x, b, H) = Placed(mm, x, b, H)
  <2> DEFINE m1 == Unlinked(mm, u)
  <2>1. ASSUME NEW y \in Mutex, y # x PROVE m1[y] = mm[y]
    <3>1. RemoveFirst(mm[y].waitq, u) = mm[y].waitq
      <4>1. ~ Linked(u, mm[y].waitq)
        BY <2>1
      <4>2. mm[y].waitq \in Seq(Thread) /\ LinkedOnce(mm[y].waitq)
        BY RecordFields DEF Records
      <4> QED BY <4>1, <4>2, RemoveFirstFacts
    <3>2. mm[y] \in MutexRecord
      BY DEF Records
    <3>3. m1[y] = [mm[y] EXCEPT !.waitq = mm[y].waitq]
      BY <3>1 DEF Unlinked
    <3> QED BY <3>2, <3>3 DEF MutexRecord
  <2>2. m1[x] = [mm[x] EXCEPT !.waitq = r]
    BY DEF Unlinked, r, q
  <2>3. DOMAIN m1 = Mutex /\ m1 = [y \in Mutex |-> m1[y]]
    BY DEF Unlinked
  <2>4. mm[x] \in MutexRecord
    BY DEF Records
  <2> HIDE DEF H, m1
  <2>5. [m1 EXCEPT ![x].waitq = b, ![x].prio = H]
        = [m1 EXCEPT ![x] = [m1[x] EXCEPT !.waitq = b, !.prio = H]]
    BY <2>3
  <2>6. [mm EXCEPT ![x].waitq = b, ![x].prio = H]
        = [mm EXCEPT ![x] = [mm[x] EXCEPT !.waitq = b, !.prio = H]]
    BY DEF Records
  <2>7. [m1[x] EXCEPT !.waitq = b, !.prio = H] = [mm[x] EXCEPT !.waitq = b, !.prio = H]
    BY <2>2, <2>4 DEF MutexRecord
  <2> DEFINE c == [mm[x] EXCEPT !.waitq = b, !.prio = H]
  <2>8. [m1 EXCEPT ![x] = c] = [mm EXCEPT ![x] = c]
    <3> HIDE DEF c
    <3> QED BY <2>1, <2>3 DEF Records
  <2>9. [m1 EXCEPT ![x].waitq = b, ![x].prio = H] = [mm EXCEPT ![x].waitq = b, ![x].prio = H]
    BY <2>5, <2>6, <2>7, <2>8
  <2> QED BY <2>9 DEF Placed, Requeued, m1
<1> QED BY <1>5, <1>6, <1>7, <1>8, <1>9, <1>10 DEF Replaced, q, r

(* How a thread's change of priority from b to p changes that of the owner *)
(* it waits for, which has been old and is n.                              *)
Follows(b, p, old, n, w) ==
    IF p < b THEN (n = p /\ p < old) \/ (old = w /\ w < n /\ w < p)
    ELSE (old = b \/ old = w) /\ old < n

(* Where a is what the mutex has had to give, h what the other waiters     *)
(* have and r what the owner's other mutexes give it.                      *)
LEMMA Carried ==
    ASSUME NEW b \in Int, NEW p \in Int, NEW old \in Int, NEW n \in Int, NEW w \in Int,
           NEW a \in Int, NEW h \in Int, NEW r \in Int, NEW hd \in Int,
           hd = IF b < h THEN b ELSE h,
           a = hd \/ (a = w /\ w <= hd),
           old = IF a < r THEN a ELSE r,
           NEW g \in Int, g = IF p < h THEN p ELSE h,
           n = IF g < r THEN g ELSE r,
           p # b, n # old
    PROVE  Follows(b, p, old, n, w)
BY DEF Follows

(* A thread that waits for nothing has been given its priority. *)
LEMMA WebStays ==
    ASSUME NEW kk, NEW mm, NEW pend, NEW D, NEW z, NEW w, NEW u \in Thread \ D,
           Web(kk, mm, pend, D, z, w, u),
           NEW p \in Prio, p = MutexPriority(mm, taken[u], u),
           NEW k2, Runs(k2, D, Idle), k2.stat = kk.stat, k2.prio = [kk.prio EXCEPT ![u] = p],
           \A y \in Mutex : ~ Linked(u, mm[y].waitq)
    PROVE  Web(k2, mm, pend, D, z, w, NoThread)
<1>1. kk.prio \in [Thread -> Prio] /\ mm \in Records
  BY RunsType DEF Web
<1>2. k2.prio[u] = p /\ \A v \in Thread \ {u} : k2.prio[v] = kk.prio[v]
  BY <1>1
<1>3. ASSUME NEW y \in Mutex PROVE WebMutex(k2, mm, pend, D, z, w, y)
  <2> DEFINE q == mm[y].waitq
  <2>1. WebMutex(kk, mm, pend, D, z, w, y)
    BY DEF Web
  <2>2. q \in Seq(Thread)
    BY <1>1, RecordFields DEF Records
  <2>3. \A v \in Thread : Linked(v, q) => k2.prio[v] = kk.prio[v]
    BY <1>2
  <2> HIDE DEF q
  <2>4. SortedBy(q, kk.prio)
    BY <2>1 DEF WebMutex, q
  <2>5. SortedBy(q, k2.prio)
    <3> DEFINE f1 == kk.prio
               f2 == k2.prio
    <3>1. \A v \in Thread : Linked(v, q) => f2[v] = f1[v]
      BY <2>3
    <3>2. SortedBy(q, f1)
      BY <2>4
    <3> HIDE DEF f1, f2
    <3>3. SortedBy(q, f2)
      BY <2>2, <3>1, <3>2, SortedSame
    <3> QED BY <3>3 DEF f2
  <2>6. HeadPrio(k2, q) = HeadPrio(kk, q)
    BY <2>2, <2>3, HeadPrioSame
  <2> QED BY <2>1, <2>5, <2>6 DEF WebMutex, q
<1>4. \A v \in Thread : k2.prio[v] = MutexPriority(mm, taken[v], v)
  BY <1>2 DEF Web
<1> QED BY <1>1, <1>3, <1>4 DEF Web

(* The owner o is the next. *)
Onward(kk, k2, mm, m, pend, D, z, w, u, p, o, n) ==
    /\ m \in Records /\ After(kk, mm, k2, m, D)
    /\ o \in Thread \ D /\ o # u /\ k2.prio[o] = kk.prio[o]
    /\ n \in Prio
    /\ n # k2.prio[o] => /\ Web(k2, m, pend, D, z, w, o)
                         /\ Follows(kk.prio[u], p, k2.prio[o], n, w)
    /\ n = k2.prio[o] => Web(k2, m, pend, D, z, w, NoThread)

(* The thread u, which waits for x, has the priority p in k2; in k2 it is  *)
(* put in its new place.                                                   *)
Reprioritised(kk, k2, pend, D, u, p, x) ==
    /\ Runs(k2, D, Idle) /\ k2.stat = kk.stat /\ k2.prio = [kk.prio EXCEPT ![u] = p]
    /\ k2.cur = kk.cur /\ k2.armed = kk.armed
    /\ kk.stat[u] = "suspend" /\ pend[u] = x

Moved(kk, k2, mm, pend, D, z, w, u, p, x) ==
    LET b == WaitInsert("PRIO", RemoveFirst(mm[x].waitq, u), u, k2.prio)
        m == Requeued(mm, u, x, b, HeadPrio(k2, b))
        o == m[x].owner
        n == MutexPriority(m, taken[o], o)
    IN  mm[x].alive /\ Onward(kk, k2, mm, m, pend, D, z, w, u, p, o, n)

(* A thread that waits has been put in its new place; the owner is to be   *)
(* given its priority.                                                     *)
LEMMA WebMoves ==
    ASSUME NEW kk, NEW mm, NEW pend, NEW D, NEW z, NEW w \in Int, NEW u \in Thread \ D,
           Web(kk, mm, pend, D, z, w, u), taken \in [Thread -> SUBSET Mutex],
           NEW p \in Prio, p = MutexPriority(mm, taken[u], u), p # kk.prio[u],
           NEW x \in Mutex, NEW k2, Reprioritised(kk, k2, pend, D, u, p, x)
    PROVE  Moved(kk, k2, mm, pend, D, z, w, u, p, x)
<1> USE DEF Reprioritised
<1> DEFINE q == mm[x].waitq
           r == RemoveFirst(q, u)
           b == WaitInsert("PRIO", r, u, k2.prio)
           g == HeadPrio(k2, b)
           h == HeadPrio(kk, r)
           m == Requeued(mm, u, x, b, g)
           o == m[x].owner
           n == MutexPriority(m, taken[o], o)
<1>1. kk.prio \in [Thread -> Prio] /\ mm \in Records
  BY RunsType DEF Web
<1>2. k2.prio[u] = p /\ \A v \in Thread \ {u} : k2.prio[v] = kk.prio[v]
  BY <1>1
<1>3. \A y \in Mutex : WebMutex(kk, mm, pend, D, z, w, y)
  BY DEF Web
<1>4. \A y \in Mutex : LinkedOnce(mm[y].waitq) /\ (Linked(u, mm[y].waitq) <=> y = x)
  BY <1>3 DEF WebMutex
<1>5. SortedBy(mm[x].waitq, kk.prio)
  BY <1>3 DEF WebMutex
<1>6. /\ m = Placed(mm, x, b, g)
      /\ b \in Seq(Thread) /\ LinkedOnce(b) /\ SortedBy(b, k2.prio)
      /\ \A v : Linked(v, b) <=> Linked(v, q)
      /\ h \in Prio \cup {NoPrio} /\ g \in Prio \cup {NoPrio}
      /\ HeadPrio(kk, q) = IF kk.prio[u] < h THEN kk.prio[u] ELSE h
      /\ g = IF p < h THEN p ELSE h
  <2>1. /\ u \in Thread /\ k2.prio \in [Thread -> Prio]
        /\ b = WaitInsert("PRIO", RemoveFirst(mm[x].waitq, u), u, k2.prio)
    BY <1>1
  <2> HIDE DEF b
  <2>2. Replaced(kk, k2, u, p, mm, x, b)
    BY <1>1, <1>2, <1>4, <1>5, <2>1, Replace
  <2> QED BY <2>2 DEF Replaced
<1> DEFINE hd == HeadPrio(kk, q)
<1> HIDE DEF b, g, h, m
<1>7. /\ m \in Records /\ m[x].waitq = b /\ m[x].prio = g
      /\ \A y \in Mutex : /\ m[y].owner = mm[y].owner /\ m[y].hold = mm[y].hold
                          /\ m[y].alive = mm[y].alive /\ m[y].ceil = mm[y].ceil
                          /\ y # x => m[y] = mm[y]
  <2>1. IsPlaced(m, mm, x, b, g)
    BY <1>1, <1>6, PlacedIs
  <2> QED BY <2>1 DEF IsPlaced
<1>8. /\ mm[x].alive /\ o \in Thread \ D /\ o # u /\ Linked(u, q)
      /\ x \in taken[o] /\ \A v \in Thread \ {o} : x \notin taken[v]
  <2>1. o = mm[x].owner /\ mm[x].owner \in Thread \cup {NoThread}
    BY <1>1, <1>7, RecordFields DEF Records
  <2>2. Linked(u, q)
    BY <1>4
  <2>3. q # <<>>
    BY <2>2 DEF Linked
  <2>4. WebMutex(kk, mm, pend, D, z, w, x)
    BY <1>3
  <2> QED BY <2>1, <2>2, <2>3, <2>4 DEF WebMutex
<1>9. k2.prio[o] = kk.prio[o]
  BY <1>2, <1>8
<1>10. After(kk, mm, k2, m, D)
  BY <1>2, <1>7 DEF After
<1>11. n \in Prio
  <2> HIDE DEF o
  <2> QED BY <1>7, <1>8, MutexPriorityIs
<1>12. ASSUME NEW v \in Thread \ {o} PROVE k2.prio[v] = MutexPriority(m, taken[v], v)
  <2>1. MutexPriority(m, taken[v], v) = MutexPriority(mm, taken[v], v)
    <3>1. \A y \in taken[v] : m[y].prio = mm[y].prio
      BY <1>7, <1>8
    <3> QED BY <3>1, MutexPrioritySame
  <2>2. v = u \/ k2.prio[v] = MutexPriority(mm, taken[v], v)
    BY <1>2 DEF Web
  <2> HIDE DEF o
  <2> QED BY <1>2, <2>1, <2>2
<1>13. ASSUME NEW y \in Mutex PROVE WebMutex(k2, m, pend, D, z, w, y)
  <2>1. WebMutex(kk, mm, pend, D, z, w, y)
    BY <1>3
  <2>2. CASE y = x
    <3> DEFINE d == mm[x].owner
    <3>1. /\ mm[x].alive /\ d \notin D
          /\ d = NoThread => q = <<>>
          /\ ~ Linked(d, q)
          /\ \A v \in Thread :
                /\ Linked(v, q) <=> kk.stat[v] = "suspend" /\ v \notin D /\ pend[v] = x
                /\ x \in taken[v] <=> d = v
      BY <2>1, <2>2 DEF WebMutex
    <3>2. d # NoThread
      BY <1>7, <1>8, KernelAssumption
    <3>3. m[x].owner = d /\ m[x].alive = mm[x].alive
      BY <1>7
    <3>4. m[x].prio = HeadPrio(k2, m[x].waitq)
      BY <1>7 DEF g
    <3> HIDE DEF d, q
    <3> QED BY <1>6, <1>7, <2>2, <3>1, <3>2, <3>3, <3>4 DEF WebMutex
  <2>3. CASE y # x
    <3> DEFINE e == mm[y].waitq
    <3>1. m[y] = mm[y]
      BY <1>7, <2>3
    <3>2. e \in Seq(Thread)
      BY <1>1, RecordFields DEF Records
    <3>3. \A v \in Thread : Linked(v, e) => k2.prio[v] = kk.prio[v]
      BY <1>2, <1>4, <2>3
    <3> HIDE DEF e
    <3> DEFINE f1 == kk.prio
               f2 == k2.prio
    <3>4. SortedBy(e, f1) /\ \A v \in Thread : Linked(v, e) => f2[v] = f1[v]
      BY <2>1, <3>3 DEF WebMutex, e
    <3> HIDE DEF f1, f2
    <3>5. SortedBy(e, f2)
      BY <3>2, <3>4, SortedSame
    <3> USE DEF f2
    <3>6. HeadPrio(k2, e) = HeadPrio(kk, e)
      BY <3>2, <3>3, HeadPrioSame
    <3> QED BY <2>1, <3>1, <3>5, <3>6 DEF WebMutex, e
  <2> QED BY <2>2, <2>3
<1>14. Web(k2, m, pend, D, z, w, o)
  <2> HIDE DEF o
  <2> QED BY <1>7, <1>12, <1>13 DEF Web
<1>15. ASSUME n = k2.prio[o] PROVE Web(k2, m, pend, D, z, w, NoThread)
  <2>1. \A v \in Thread : k2.prio[v] = MutexPriority(m, taken[v], v)
    BY <1>12, <1>15
  <2> HIDE DEF o
  <2> QED BY <1>7, <1>13, <2>1 DEF Web
<1>16. ASSUME n # k2.prio[o] PROVE Follows(kk.prio[u], p, k2.prio[o], n, w)
  <2> DEFINE held == taken[o]
             c == MutexPriority(mm, held \ {x}, o)
             a == mm[x].prio
  <2>1. held \in SUBSET Mutex /\ x \in held /\ o \in Thread
    BY <1>8
  <2>2. kk.prio[o] = MutexPriority(mm, held, o)
    BY <1>8 DEF Web
  <2> HIDE DEF o, held
  <2>3. c \in Prio
    <3>1. held \ {x} \in SUBSET Mutex
      BY <2>1
    <3> QED BY <1>1, <2>1, <3>1, MutexPriorityIs
  <2>4. MutexPriority(m, held \ {x}, o) = c
    <3>1. \A y \in held \ {x} : m[y].prio = mm[y].prio
      BY <1>7, <2>1
    <3> QED BY <3>1, MutexPrioritySame
  <2> HIDE DEF c, a, n
  <2>5. kk.prio[o] = (IF a < c THEN a ELSE c) /\ n = (IF g < c THEN g ELSE c)
    <3>1. PICK g1, o1, c1, rest, a1 :
             g1 = held /\ o1 = o /\ c1 = c /\ rest = held \ {x} /\ a1 = a
      OBVIOUS
    <3>2. g1 \in SUBSET Mutex /\ x \in g1 /\ o1 \in Thread /\ mm \in Records /\ m \in Records
      BY <1>1, <1>7, <2>1, <3>1
    <3>3. rest = g1 \ {x}
      BY <3>1
    <3>4. /\ c1 = MutexPriority(mm, rest, o1) /\ kk.prio[o] = MutexPriority(mm, g1, o1)
          /\ a1 = mm[x].prio
      BY <2>2, <3>1 DEF c, a
    <3>5. /\ c1 = MutexPriority(m, rest, o1) /\ n = MutexPriority(m, g1, o1)
          /\ g = m[x].prio
      BY <1>7, <2>4, <3>1 DEF n, held
    <3>6. kk.prio[o] = IF a1 < c1 THEN a1 ELSE c1
      BY <3>2, <3>3, <3>4, MutexPriorityWith
    <3>7. n = IF g < c1 THEN g ELSE c1
      BY <3>2, <3>3, <3>5, MutexPriorityWith
    <3> QED BY <3>1, <3>6, <3>7
  <2>6. a = hd \/ (a = w /\ w <= hd)
    <3>1. WebMutex(kk, mm, pend, D, z, w, x)
      BY <1>3
    <3> QED BY <3>1 DEF WebMutex, a
  <2>7. a \in Prio \cup {NoPrio} /\ hd \in Prio \cup {NoPrio}
    <3>1. a \in Prio \cup {NoPrio} /\ q \in Seq(Thread)
      BY <1>1, RecordFields DEF Records, a
    <3> HIDE DEF q
    <3> QED BY <1>1, <3>1, HeadPrioIs
  <2>8. /\ kk.prio[u] \in Int /\ p \in Int /\ k2.prio[o] \in Int /\ n \in Int
        /\ a \in Int /\ h \in Int /\ c \in Int /\ hd \in Int /\ g \in Int
    BY <1>1, <1>6, <1>9, <1>11, <2>1, <2>3, <2>7, Numbers DEF n
  <2>9. k2.prio[o] = IF a < c THEN a ELSE c
    BY <1>9, <2>5
  <2>10. n = IF g < c THEN g ELSE c
    BY <2>5
  <2>11. hd = (IF kk.prio[u] < h THEN kk.prio[u] ELSE h) /\ g = (IF p < h THEN p ELSE h)
    BY <1>6
  <2> HIDE DEF hd
  <2>12. \E b1, p1, old, n1, a1, h1, c1, d1, g1 \in Int :
             /\ b1 = kk.prio[u] /\ p1 = p /\ old = k2.prio[o] /\ n1 = n
             /\ a1 = a /\ h1 = h /\ c1 = c /\ d1 = hd /\ g1 = g
    BY <2>8
  <2>13. PICK b1, p1, old, n1, a1, h1, c1, d1, g1 \in Int :
             /\ b1 = kk.prio[u] /\ p1 = p /\ old = k2.prio[o] /\ n1 = n
             /\ a1 = a /\ h1 = h /\ c1 = c /\ d1 = hd /\ g1 = g
    BY <2>12
  <2>14. /\ a1 = d1 \/ (a1 = w /\ w <= d1)
         /\ old = (IF a1 < c1 THEN a1 ELSE c1) /\ n1 = (IF g1 < c1 THEN g1 ELSE c1)
         /\ d1 = (IF b1 < h1 THEN b1 ELSE h1) /\ g1 = (IF p1 < h1 THEN p1 ELSE h1)
         /\ p1 # b1 /\ n1 # old
    BY <1>16, <2>6, <2>9, <2>10, <2>11, <2>13
  <2>15. Follows(b1, p1, old, n1, w)
    BY <2>14, Carried
  <2> QED BY <2>13, <2>15
<1> HIDE DEF o, n
<1>17. Onward(kk, k2, mm, m, pend, D, z, w, u, p, o, n)
  BY <1>7, <1>8, <1>9, <1>10, <1>11, <1>14, <1>15, <1>16 DEF Onward
<1> QED BY <1>8, <1>17 DEF o, n, m, g, b, r, q, Moved

(* A level of _thread_update_priority that has not failed. *)
Rung(kk, mm, pend, u) ==
    [k |-> kk, mtx |-> mm, pending |-> pend, next |-> u, fault |-> "no"]

(* One level: it is the last, or the owner of the mutex is next. *)
LEMMA ClimbIs ==
    ASSUME ~ Asserts, NEW kk, NEW mm, NEW pend, NEW D, NEW z, NEW w \in Int,
           NEW u \in Thread \ D, Web(kk, mm, pend, D, z, w, u),
           taken \in [Thread -> SUBSET Mutex], pend \in [Thread -> Mutex \cup {NoMutex}],
           NEW p \in Prio, p = MutexPriority(mm, taken[u], u), p # kk.prio[u],
           NEW k2, k2 = ChangePriority(kk, u, p)
    PROVE  LET c == Climb(Rung(k2, mm, pend, u))
           IN  \E m : /\ After(kk, mm, k2, m, D)
                      /\ \/ /\ c = Rung(k2, m, pend, NoThread)
                            /\ Web(k2, m, pend, D, z, w, NoThread)
                         \/ \E o \in Thread \ D, n \in Prio :
                               /\ c = Rung(ChangePriority(k2, o, n), m, pend, o)
                               /\ Web(k2, m, pend, D, z, w, o)
                               /\ n = MutexPriority(m, taken[o], o) /\ n # k2.prio[o]
                               /\ Follows(kk.prio[u], p, k2.prio[o], n, w)
<1> DEFINE s == Rung(k2, mm, pend, u)
<1>1. Runs(kk, D, Idle) /\ kk.prio \in [Thread -> Prio] /\ kk \in KernelState
  BY RunsType DEF Web
<1>2. /\ Runs(k2, D, Idle) /\ k2.stat = kk.stat /\ k2.cur = kk.cur /\ k2.armed = kk.armed
      /\ k2.prio = [kk.prio EXCEPT ![u] = p]
  BY <1>1, PriorityRuns, PriorityIs
<1>3. u # NoThread /\ pend[u] \in Mutex \cup {NoMutex} /\ NoMutex \notin Mutex
  BY KernelAssumption, MutexAssumption
<1>4. s.k = k2 /\ s.mtx = mm /\ s.pending = pend /\ s.next = u /\ s.fault = "no"
  BY DEF Rung
<1>5. CASE kk.stat[u] # "suspend" \/ pend[u] = NoMutex
  <2>1. Climb(s) = [s EXCEPT !.next = NoThread]
    <3> HIDE DEF s
    <3> QED BY <1>2, <1>3, <1>4, <1>5 DEF Climb
  <2>2. [s EXCEPT !.next = NoThread] = Rung(k2, mm, pend, NoThread)
    BY DEF Rung
  <2>3. \A y \in Mutex : ~ Linked(u, mm[y].waitq)
    <3>1. \A y \in Mutex : WebMutex(kk, mm, pend, D, z, w, y)
      BY DEF Web
    <3> QED BY <1>3, <1>5, <3>1 DEF WebMutex
  <2>4. Web(k2, mm, pend, D, z, w, NoThread)
    BY <1>2, <2>3, WebStays
  <2>5. After(kk, mm, k2, mm, D)
    BY <1>1, <1>2 DEF After
  <2> QED BY <2>1, <2>2, <2>4, <2>5
<1>6. CASE ~ (kk.stat[u] # "suspend" \/ pend[u] = NoMutex)
  <2>1. PICK x \in Mutex : x = pend[u]
    BY <1>3, <1>6
  <2> DEFINE b == WaitInsert("PRIO", RemoveFirst(mm[x].waitq, u), u, k2.prio)
             m == Requeued(mm, u, x, b, HeadPrio(k2, b))
             o == m[x].owner
             n == MutexPriority(m, taken[o], o)
  <2>2. mm[x].alive /\ Onward(kk, k2, mm, m, pend, D, z, w, u, p, o, n)
    <3>1. kk.stat[u] = "suspend" /\ pend[u] = x
      BY <1>6, <2>1
    <3> HIDE DEF b, m, o, n, s
    <3>2. Reprioritised(kk, k2, pend, D, u, p, x)
      BY <1>2, <3>1 DEF Reprioritised
    <3>3. Moved(kk, k2, mm, pend, D, z, w, u, p, x)
      BY <3>2, WebMoves, Zenon
    <3> QED BY <3>3 DEF Moved, b, m, o, n
  <2>3. Climb(s) = IF n = k2.prio[o] THEN [[s EXCEPT !.next = NoThread] EXCEPT !.mtx = m]
                   ELSE [s EXCEPT !.mtx = m, !.k = ChangePriority(@, o, n), !.next = o]
    <3>2. o # NoThread
      BY <2>2, KernelAssumption DEF Onward
    <3> HIDE DEF s, b, m, o, n
    <3>1. /\ s.next # NoThread /\ s.k.stat[s.next] = "suspend"
          /\ s.pending[s.next] = x /\ x # NoMutex /\ s.mtx[x].alive
      <4>1. k2.stat[u] = "suspend" /\ pend[u] = x /\ x # NoMutex /\ u # NoThread
        BY <1>2, <1>3, <1>6, <2>1
      <4>2. mm[x].alive
        BY <2>2
      <4> QED BY <1>4, <4>1, <4>2
    <3> USE DEF b, m, o, n
    <3> QED BY <1>4, <3>1, <3>2 DEF Climb, Requeued
  <2> HIDE DEF m, o, n
  <2>4. [[s EXCEPT !.next = NoThread] EXCEPT !.mtx = m] = Rung(k2, m, pend, NoThread)
    <3> DEFINE s1 == [s EXCEPT !.next = NoThread]
    <3>1. s1 = Rung(k2, mm, pend, NoThread)
      BY DEF Rung
    <3>2. [s1 EXCEPT !.mtx = m] = Rung(k2, m, pend, NoThread)
      <4> HIDE DEF s1
      <4> QED BY <3>1 DEF Rung
    <3> QED BY <3>2
  <2>5. [s EXCEPT !.mtx = m, !.k = ChangePriority(@, o, n), !.next = o]
        = Rung(ChangePriority(k2, o, n), m, pend, o)
    <3> DEFINE k3 == ChangePriority(k2, o, n)
               s1 == [s EXCEPT !.mtx = m]
               s2 == [s1 EXCEPT !.k = k3]
    <3>1. s1 = Rung(k2, m, pend, u)
      BY DEF Rung
    <3>2. s2 = Rung(k3, m, pend, u)
      <4> HIDE DEF s1, k3
      <4> QED BY <3>1 DEF Rung
    <3>3. [s2 EXCEPT !.next = o] = Rung(k3, m, pend, o)
      <4> HIDE DEF s2, k3
      <4> QED BY <3>2 DEF Rung
    <3>4. [s EXCEPT !.mtx = m, !.k = ChangePriority(@, o, n), !.next = o]
          = [s EXCEPT !.mtx = m, !.k = k3, !.next = o]
      <4> HIDE DEF s
      <4> QED BY <1>4
    <3>5. [s EXCEPT !.mtx = m, !.k = k3, !.next = o] = [s2 EXCEPT !.next = o]
      <4> HIDE DEF k3
      <4> QED BY DEF Rung
    <3> QED BY <3>3, <3>4, <3>5
  <2>6. n = MutexPriority(m, taken[o], o)
    BY DEF n
  <2>7. CASE n = k2.prio[o]
    <3>1. Climb(s) = Rung(k2, m, pend, NoThread)
      BY <2>3, <2>4, <2>7
    <3>2. After(kk, mm, k2, m, D) /\ Web(k2, m, pend, D, z, w, NoThread)
      BY <2>2, <2>7 DEF Onward
    <3> QED BY <3>1, <3>2
  <2>8. CASE n # k2.prio[o]
    <3>1. Climb(s) = Rung(ChangePriority(k2, o, n), m, pend, o)
      BY <2>3, <2>5, <2>8
    <3>2. /\ o \in Thread \ D /\ n \in Prio /\ After(kk, mm, k2, m, D)
          /\ Web(k2, m, pend, D, z, w, o) /\ Follows(kk.prio[u], p, k2.prio[o], n, w)
      BY <2>2, <2>8 DEF Onward
    <3> HIDE DEF s
    <3>3. \E o1 \in Thread \ D, n1 \in Prio :
             /\ Climb(s) = Rung(ChangePriority(k2, o1, n1), m, pend, o1)
             /\ Web(k2, m, pend, D, z, w, o1)
             /\ n1 = MutexPriority(m, taken[o1], o1) /\ n1 # k2.prio[o1]
             /\ Follows(kk.prio[u], p, k2.prio[o1], n1, w)
      BY <2>6, <2>8, <3>1, <3>2
    <3> QED BY <3>2, <3>3 DEF s
  <2> QED BY <2>7, <2>8
<1> QED BY <1>5, <1>6

(* Which priorities have changed since k0, those of kx being the present   *)
(* ones: threads have got the new priority p, or lost the old one w.       *)
Ups(k0, kx, p, v) == kx.prio[v] = p /\ p < k0.prio[v]
Downs(k0, kx, w, v) == k0.prio[v] = w /\ w < kx.prio[v]

(* The last change was that of u.  The owners of a chain get a priority,   *)
(* or lose one; after the mutex whose priority was still that of a waiter  *)
(* that is gone they may lose that one instead of getting p.               *)
Rises(k0, kx, p, w, u) ==
    \/ /\ Ups(k0, kx, p, u)
       /\ \A v \in Thread : kx.prio[v] = k0.prio[v] \/ Ups(k0, kx, p, v)
    \/ /\ Downs(k0, kx, w, u)
       /\ \A v \in Thread : \/ kx.prio[v] = k0.prio[v]
                            \/ (Ups(k0, kx, p, v) /\ w < p)
                            \/ Downs(k0, kx, w, v)

Changed(k0, kx) == {v \in Thread : kx.prio[v] # k0.prio[v]}

(* A chain never comes back to a thread: each level changes the priority   *)
(* of another one.                                                         *)
LEMMA NextRise ==
    ASSUME NEW k0, k0.prio \in [Thread -> Prio], NEW k2, k2.prio \in [Thread -> Prio],
           NEW p \in Int, NEW w \in Int, NEW u \in Thread, Rises(k0, k2, p, w, u),
           NEW o \in Thread, NEW n \in Prio, n # k2.prio[o],
           Follows(k0.prio[u], k2.prio[u], k2.prio[o], n, w),
           NEW k3, k3.prio = [k2.prio EXCEPT ![o] = n]
    PROVE  /\ k2.prio[o] = k0.prio[o] /\ Rises(k0, k3, p, w, o)
           /\ o \notin Changed(k0, k2) /\ Changed(k0, k3) = Changed(k0, k2) \cup {o}
<1>1. \A v \in Thread : k0.prio[v] \in Int /\ k2.prio[v] \in Int /\ n \in Int
  BY Numbers
<1>2. k3.prio[o] = n /\ \A v \in Thread \ {o} : k3.prio[v] = k2.prio[v]
  OBVIOUS
<1>3. CASE /\ Ups(k0, k2, p, u)
           /\ \A v \in Thread : k2.prio[v] = k0.prio[v] \/ Ups(k0, k2, p, v)
  <2>1. (n = p /\ p < k2.prio[o]) \/ (k2.prio[o] = w /\ w < n /\ w < p)
    BY <1>1, <1>3 DEF Ups, Follows
  <2>2. k2.prio[o] = k0.prio[o]
    BY <1>1, <1>3, <2>1 DEF Ups
  <2>3. ASSUME n = p, p < k2.prio[o] PROVE Rises(k0, k3, p, w, o)
    <3>1. Ups(k0, k3, p, o)
      BY <1>2, <2>2, <2>3 DEF Ups
    <3>2. \A v \in Thread : k3.prio[v] = k0.prio[v] \/ Ups(k0, k3, p, v)
      BY <1>2, <1>3, <3>1 DEF Ups
    <3> QED BY <3>1, <3>2 DEF Rises
  <2>4. ASSUME k2.prio[o] = w, w < n, w < p PROVE Rises(k0, k3, p, w, o)
    <3>1. Downs(k0, k3, w, o) /\ w < p
      BY <1>2, <2>2, <2>4 DEF Downs
    <3>2. \A v \in Thread : \/ k3.prio[v] = k0.prio[v]
                             \/ (Ups(k0, k3, p, v) /\ w < p)
                             \/ Downs(k0, k3, w, v)
      BY <1>2, <1>3, <3>1 DEF Ups
    <3> QED BY <2>2, <3>1, <3>2 DEF Rises
  <2>5. Rises(k0, k3, p, w, o)
    BY <2>1, <2>3, <2>4
  <2> QED BY <2>2, <2>5, <1>1, <1>2 DEF Changed
<1>4. CASE /\ Downs(k0, k2, w, u)
           /\ \A v \in Thread : \/ k2.prio[v] = k0.prio[v]
                                \/ (Ups(k0, k2, p, v) /\ w < p)
                                \/ Downs(k0, k2, w, v)
  <2>1. k2.prio[o] = w /\ w < n
    BY <1>1, <1>4 DEF Downs, Follows
  <2>2. k2.prio[o] = k0.prio[o]
    BY <1>1, <1>4, <2>1 DEF Ups, Downs
  <2>3. Rises(k0, k3, p, w, o)
    BY <1>2, <1>4, <2>1, <2>2 DEF Rises, Ups, Downs
  <2> QED BY <2>2, <2>3, <1>2 DEF Changed
<1> QED BY <1>3, <1>4 DEF Rises

(* The levels of an update that starts with o: every one but the last      *)
(* changes the priority of one more thread.                                *)
Ended(s, k0, m0, pend, D, z, w) ==
    \E kk, mm : /\ s = Rung(kk, mm, pend, NoThread)
                /\ Web(kk, mm, pend, D, z, w, NoThread) /\ After(k0, m0, kk, mm, D)

Goes(s, i, k0, m0, pend, D, z, w, p) ==
    \E kk, mm, kx : \E u \in Thread \ D, n \in Prio :
        /\ kx = ChangePriority(kk, u, n) /\ s = Rung(kx, mm, pend, u)
        /\ Web(kk, mm, pend, D, z, w, u) /\ After(k0, m0, kk, mm, D)
        /\ n = MutexPriority(mm, taken[u], u) /\ n # kk.prio[u] /\ kk.prio[u] = k0.prio[u]
        /\ Rises(k0, kx, p, w, u) /\ Cardinality(Changed(k0, kx)) = i + 1

(* One level after another. *)
LEMMA AfterAfter ==
    ASSUME NEW k0, NEW m0, NEW k1, NEW m1, NEW k2, NEW m2, NEW D,
           After(k0, m0, k1, m1, D), After(k1, m1, k2, m2, D)
    PROVE  After(k0, m0, k2, m2, D)
BY DEF After

(* It does so from each level to the next. *)
LEMMA NextLevel ==
    ASSUME ~ Asserts, NEW k0, k0.prio \in [Thread -> Prio], NEW m0, NEW D, NEW z,
           NEW w \in Int, NEW p \in Int,
           taken \in [Thread -> SUBSET Mutex],
           NEW pend, pend \in [Thread -> Mutex \cup {NoMutex}],
           NEW i \in Nat, NEW s, Goes(s, i, k0, m0, pend, D, z, w, p)
    PROVE  \/ Ended(Climb(s), k0, m0, pend, D, z, w)
           \/ Goes(Climb(s), i + 1, k0, m0, pend, D, z, w, p)
<1>1. PICK kk, mm, kx : \E u \in Thread \ D, n \in Prio :
        /\ kx = ChangePriority(kk, u, n) /\ s = Rung(kx, mm, pend, u)
        /\ Web(kk, mm, pend, D, z, w, u) /\ After(k0, m0, kk, mm, D)
        /\ n = MutexPriority(mm, taken[u], u) /\ n # kk.prio[u] /\ kk.prio[u] = k0.prio[u]
        /\ Rises(k0, kx, p, w, u) /\ Cardinality(Changed(k0, kx)) = i + 1
  BY DEF Goes
<1>2. PICK u \in Thread \ D, n \in Prio :
        /\ kx = ChangePriority(kk, u, n) /\ s = Rung(kx, mm, pend, u)
        /\ Web(kk, mm, pend, D, z, w, u) /\ After(k0, m0, kk, mm, D)
        /\ n = MutexPriority(mm, taken[u], u) /\ n # kk.prio[u] /\ kk.prio[u] = k0.prio[u]
        /\ Rises(k0, kx, p, w, u) /\ Cardinality(Changed(k0, kx)) = i + 1
  BY <1>1
<1> DEFINE c == Climb(s)
<1>3. \E m : /\ After(kk, mm, kx, m, D)
             /\ \/ /\ c = Rung(kx, m, pend, NoThread)
                   /\ Web(kx, m, pend, D, z, w, NoThread)
                \/ \E o \in Thread \ D, n1 \in Prio :
                      /\ c = Rung(ChangePriority(kx, o, n1), m, pend, o)
                      /\ Web(kx, m, pend, D, z, w, o)
                      /\ n1 = MutexPriority(m, taken[o], o) /\ n1 # kx.prio[o]
                      /\ Follows(kk.prio[u], n, kx.prio[o], n1, w)
  BY <1>2, ClimbIs
<1> HIDE DEF c
<1>4. PICK m : /\ After(kk, mm, kx, m, D)
               /\ \/ /\ c = Rung(kx, m, pend, NoThread)
                     /\ Web(kx, m, pend, D, z, w, NoThread)
                  \/ \E o \in Thread \ D, n1 \in Prio :
                        /\ c = Rung(ChangePriority(kx, o, n1), m, pend, o)
                        /\ Web(kx, m, pend, D, z, w, o)
                        /\ n1 = MutexPriority(m, taken[o], o) /\ n1 # kx.prio[o]
                        /\ Follows(kk.prio[u], n, kx.prio[o], n1, w)
  BY <1>3
<1>5. After(k0, m0, kx, m, D)
  BY <1>2, <1>4, AfterAfter
<1>6. CASE c = Rung(kx, m, pend, NoThread) /\ Web(kx, m, pend, D, z, w, NoThread)
  BY <1>5, <1>6 DEF Ended, c
<1>7. ASSUME NEW o \in Thread \ D, NEW n1 \in Prio,
             c = Rung(ChangePriority(kx, o, n1), m, pend, o),
             Web(kx, m, pend, D, z, w, o),
             n1 = MutexPriority(m, taken[o], o), n1 # kx.prio[o],
             Follows(kk.prio[u], n, kx.prio[o], n1, w)
      PROVE  Goes(c, i + 1, k0, m0, pend, D, z, w, p)
  <2>1. PICK k3 : k3 = ChangePriority(kx, o, n1)
    OBVIOUS
  <2>2. kk \in KernelState /\ kk.prio \in [Thread -> Prio]
    BY <1>2, RunsType DEF Web
  <2>3. kx \in KernelState /\ kx.prio \in [Thread -> Prio]
    BY <1>7, RunsType DEF Web
  <2>4. kx.prio = [kk.prio EXCEPT ![u] = n] /\ k3.prio = [kx.prio EXCEPT ![o] = n1]
    BY <1>2, <2>1, <2>2, <2>3, PriorityIs
  <2>5. kx.prio[u] = n
    BY <2>2, <2>4
  <2>6. Follows(k0.prio[u], kx.prio[u], kx.prio[o], n1, w)
    BY <1>2, <1>7, <2>5
  <2>7. u \in Thread /\ Rises(k0, kx, p, w, u)
    BY <1>2
  <2>8. /\ kx.prio[o] = k0.prio[o] /\ Rises(k0, k3, p, w, o)
        /\ o \notin Changed(k0, kx) /\ Changed(k0, k3) = Changed(k0, kx) \cup {o}
    BY <1>7, <2>3, <2>4, <2>6, <2>7, NextRise
  <2>9. Cardinality(Changed(k0, k3)) = (i + 1) + 1
    <3> DEFINE C == Changed(k0, kx)
    <3>1. IsFiniteSet(C)
      <4>1. C \in SUBSET Thread
        BY DEF Changed
      <4>2. IsFiniteSet(Thread)
        BY MutexAssumption
      <4> HIDE DEF C
      <4> QED BY <4>1, <4>2, FS_Subset
    <3>2. Cardinality(C) = i + 1 /\ o \notin C
      BY <1>2, <2>8
    <3>3. Changed(k0, k3) = C \cup {o}
      BY <2>8
    <3> HIDE DEF C
    <3>4. Cardinality(C \cup {o}) = Cardinality(C) + 1
      BY <3>1, <3>2, FS_AddElement
    <3> QED BY <3>2, <3>3, <3>4
  <2> QED BY <1>5, <1>7, <2>1, <2>8, <2>9 DEF Goes
<1> QED BY <1>4, <1>6, <1>7 DEF c

(* _thread_update_priority without assertions: when it returns everybody   *)
(* has the priority that the mutexes give him.                             *)
LEMMA UpdateChain ==
    ASSUME ~ Asserts, NEW k0, NEW m0, NEW D, NEW z, NEW w \in Int, NEW o \in Thread \ D,
           taken \in [Thread -> SUBSET Mutex],
           NEW pend, pend \in [Thread -> Mutex \cup {NoMutex}],
           Web(k0, m0, pend, D, z, w, o),
           NEW p \in Prio, p = MutexPriority(m0, taken[o], o), p # k0.prio[o],
           NEW q \in Int, (p = q /\ q < k0.prio[o]) \/ (k0.prio[o] = w /\ w < p)
    PROVE  LET r == UpdatePriority(Present(k0, m0, pend), o, p)
           IN  /\ Web(r.k, r.mtx, pend, D, z, w, NoThread)
               /\ After(k0, m0, r.k, r.mtx, D) /\ r.fault = "no"
<1> DEFINE N == Cardinality(Thread)
           r == UpdatePriority(Present(k0, m0, pend), o, p)
           Fine(s, i) == Ended(s, k0, m0, pend, D, z, w) \/ Goes(s, i, k0, m0, pend, D, z, w, q)
<1>1. PICK k1 : k1 = ChangePriority(k0, o, p)
  OBVIOUS
<1>2. PICK f : /\ r = f[N] /\ f[0] = Rung(k1, m0, pend, o)
               /\ \A i \in 1 .. N : f[i] = Climb(f[i - 1])
  BY <1>1, Levels DEF Rung
<1>3. N \in Nat /\ IsFiniteSet(Thread)
  BY MutexAssumption, FS_CardinalityType
<1>4. /\ k0 \in KernelState /\ k0.prio \in [Thread -> Prio] /\ m0 \in Records
      /\ k1.prio = [k0.prio EXCEPT ![o] = p]
  <2>1. k0 \in KernelState /\ k0.prio \in [Thread -> Prio] /\ m0 \in Records
    BY RunsType DEF Web
  <2> QED BY <1>1, <2>1, PriorityIs
<1> HIDE DEF r
<1>5. Fine(f[0], 0)
  <2>1. k1.prio[o] = p /\ \A v \in Thread \ {o} : k1.prio[v] = k0.prio[v]
    BY <1>4
  <2>2. Rises(k0, k1, q, w, o)
    <3>1. CASE p = q /\ q < k0.prio[o]
      BY <2>1, <3>1 DEF Rises, Ups
    <3>2. CASE k0.prio[o] = w /\ w < p
      BY <2>1, <3>2 DEF Rises, Downs
    <3> QED BY <3>1, <3>2
  <2>3. Cardinality(Changed(k0, k1)) = 0 + 1
    <3>1. Changed(k0, k1) = {o}
      BY <2>1 DEF Changed
    <3>2. Cardinality({o}) = 1
      BY FS_Singleton
    <3>3. 0 + 1 = 1
      OBVIOUS
    <3> QED BY <3>1, <3>2, <3>3
  <2>4. After(k0, m0, k0, m0, D)
    BY DEF After
  <2>5. Goes(f[0], 0, k0, m0, pend, D, z, w, q)
    BY <1>1, <1>2, <2>2, <2>3, <2>4 DEF Goes
  <2> QED BY <2>5
<1>6. ASSUME NEW n \in 1 .. N, Fine(f[n - 1], n - 1) PROVE Fine(f[n], n)
  <2>1. f[n] = Climb(f[n - 1]) /\ n - 1 \in Nat /\ (n - 1) + 1 = n
    BY <1>2, <1>3
  <2>2. PICK s, i : s = f[n - 1] /\ i = n - 1
    OBVIOUS
  <2>3. f[n] = Climb(s) /\ i \in Nat /\ i + 1 = n
    BY <2>1, <2>2
  <2>4. CASE Ended(s, k0, m0, pend, D, z, w)
    <3>1. PICK kk, mm : /\ s = Rung(kk, mm, pend, NoThread)
                        /\ Web(kk, mm, pend, D, z, w, NoThread) /\ After(k0, m0, kk, mm, D)
      BY <2>4 DEF Ended
    <3>2. s.next = NoThread
      BY <3>1 DEF Rung
    <3>3. Climb(s) = s
      BY <3>2 DEF Climb
    <3> QED BY <2>3, <2>4, <3>3
  <2>5. CASE Goes(s, i, k0, m0, pend, D, z, w, q)
    <3>1. \/ Ended(Climb(s), k0, m0, pend, D, z, w)
          \/ Goes(Climb(s), i + 1, k0, m0, pend, D, z, w, q)
      BY <1>4, <2>3, <2>5, NextLevel
    <3> QED BY <2>3, <3>1
  <2> QED BY <1>6, <2>2, <2>4, <2>5
<1>7. Fine(f[N], N)
  <2> DEFINE bad == {n \in 0 .. N : ~ Fine(f[n], n)}
  <2> HIDE DEF Fine
  <2>1. bad = {}
    <3> SUFFICES ASSUME bad # {} PROVE FALSE
      OBVIOUS
    <3>1. bad \in SUBSET Nat
      BY <1>3
    <3>2. PICK n \in bad : \A j \in bad : n <= j
      BY <3>1, MinOfIndices
    <3>3. n \in 0 .. N /\ ~ Fine(f[n], n)
      OBVIOUS
    <3>4. n # 0
      BY <1>5, <3>3
    <3>5. n \in 1 .. N /\ n - 1 \in 0 .. N /\ ~ (n <= n - 1)
      BY <1>3, <3>3, <3>4
    <3> QED BY <1>6, <3>2, <3>3, <3>5
  <2> QED BY <1>3, <2>1
<1>8. ~ Goes(f[N], N, k0, m0, pend, D, z, w, q)
  <2> SUFFICES ASSUME Goes(f[N], N, k0, m0, pend, D, z, w, q) PROVE FALSE
    OBVIOUS
  <2>1. PICK kx : Cardinality(Changed(k0, kx)) = N + 1
    BY DEF Goes
  <2>2. Changed(k0, kx) \in SUBSET Thread
    BY DEF Changed
  <2>3. Cardinality(Changed(k0, kx)) <= N
    BY <1>3, <2>2, FS_Subset
  <2> QED BY <1>3, <2>1, <2>3
<1>9. PICK kk, mm : /\ r = Rung(kk, mm, pend, NoThread)
                    /\ Web(kk, mm, pend, D, z, w, NoThread) /\ After(k0, m0, kk, mm, D)
  BY <1>2, <1>7, <1>8 DEF Ended
<1>10. r.k = kk /\ r.mtx = mm /\ r.fault = "no"
  BY <1>9 DEF Rung
<1> QED BY <1>9, <1>10 DEF r

-----------------------------------------------------------------------------
(* The calls, with all the levels. *)

(* A thread that has a pending_object waits for it. *)
PendingWaits == \A t \in Thread : pending[t] # NoMutex => t = victim \/ Waits(t)

(* The mutex the thread that is being deleted waited for, and what this    *)
(* thread may have left there.                                             *)
Debt == IF victim = NoThread THEN NoMutex ELSE pending[victim]
Due == IF victim = NoThread THEN 0 ELSE k.prio[victim]

(* Between two calls everybody has the priority his mutexes give him. *)
LEMMA WebIs ==
    ASSUME MutInv, HeirInv, KeepInv, PendingWaits, Up
    PROVE  Web(k, mtx, pending, Gone, Debt, Due, NoThread) /\ Due \in Int
<1>1. /\ Runs(k, Gone, Idle) /\ mtx \in Records /\ k.prio \in [Thread -> Prio]
      /\ victim \in Thread \cup {NoThread}
  BY Types DEF MutInv
<1>2. Due \in Int
  BY <1>1, Numbers DEF Due
<1>3. ASSUME NEW y \in Mutex PROVE WebMutex(k, mtx, pending, Gone, Debt, Due, y)
  <2> DEFINE q == mtx[y].waitq
             h == HeadPrio(k, q)
  <2>1. mtx[y].alive /\ mtx[y].owner \notin Gone
    BY Types DEF KeepInv, NothingFails, MutInv, VictimApart, Gone
  <2>2. LinkedOnce(q) /\ SortedBy(q, k.prio)
    BY Fields1 DEF MutInv, Order
  <2>3. (mtx[y].owner = NoThread => q = <<>>) /\ ~ Linked(mtx[y].owner, q)
    BY DEF MutInv, OwnershipExact
  <2>4. ASSUME NEW v \in Thread
        PROVE  Linked(v, q) <=> k.stat[v] = "suspend" /\ v \notin Gone /\ pending[v] = y
    <3>1. Linked(v, q) <=> Waits(v) /\ pending[v] = y
      BY DEF MutInv, Lists
    <3>2. v \in Gone <=> v = victim
      BY DEF Gone
    <3> QED BY <3>1, <3>2, MutexAssumption DEF PendingWaits, Waits
  <2>5. ASSUME NEW v \in Thread
        PROVE  y \in taken[v] <=> mtx[y].owner = v
    <3>1. y \in taken[v] => mtx[y].owner = v
      BY TakenBy
    <3>2. mtx[y].owner = v => y \in taken[v]
      BY <2>1, KernelAssumption DEF HeirInv, Held
    <3> QED BY <3>1, <3>2
  <2>6. mtx[y].prio = h \/ (y = Debt /\ mtx[y].prio = Due /\ Due <= h)
    <3>1. CASE victim = NoThread \/ pending[victim] # y
      <4>1. \A t \in Thread : ~ Failing(t, y)
        BY DEF KeepInv, NothingFails, Failing
      <4>2. Settled(y)
        BY <2>1, <3>1, <4>1 DEF Settled
      <4> QED BY <4>2 DEF MutInv, Order
    <3>2. CASE victim # NoThread /\ pending[victim] = y
      <4>1. mtx[y].prio <= h
        BY HeadCovered
      <4>2. mtx[y].prio = h \/ mtx[y].prio = k.prio[victim]
        BY <3>2 DEF KeepInv, Remembered
      <4> QED BY <3>2, <4>1, <4>2 DEF Debt, Due
    <3> QED BY <3>1, <3>2
  <2> HIDE DEF q, h
  <2> QED BY <2>1, <2>2, <2>3, <2>4, <2>5, <2>6 DEF WebMutex, q, h
<1>4. \A t \in Thread : k.prio[t] = MutexPriority(mtx, taken[t], t)
  BY PriorityIsGiven
<1> QED BY <1>1, <1>2, <1>3, <1>4 DEF Web

Settle ==
    /\ Web(k, mtx, pending, Gone, Debt, Due, NoThread)
    /\ taken \in [Thread -> SUBSET Mutex]

(* And back: what the invariants say of priorities. *)
LEMMA WebSays ==
    Settle => Order /\ Boosted /\ Covers /\ Earned /\ Remembered /\ Held
<1> SUFFICES ASSUME Settle
             PROVE  Order /\ Boosted /\ Covers /\ Earned /\ Remembered /\ Held
  OBVIOUS
<1> USE DEF Settle
<1>1. Runs(k, Gone, Idle) /\ mtx \in Records /\ k.prio \in [Thread -> Prio]
  BY RunsType DEF Web
<1>2. \A y \in Mutex : WebMutex(k, mtx, pending, Gone, Debt, Due, y)
  BY DEF Web
<1>3. \A t \in Thread : k.prio[t] = MutexPriority(mtx, taken[t], t)
  BY KernelAssumption DEF Web
<1>4. ASSUME NEW y \in Mutex
      PROVE  /\ mtx[y].waitq \in Seq(Thread) /\ SortedBy(mtx[y].waitq, k.prio)
             /\ \/ mtx[y].prio = HeadPrio(k, mtx[y].waitq)
                \/ /\ victim # NoThread /\ pending[victim] = y
                   /\ mtx[y].prio = k.prio[victim]
             /\ mtx[y].prio <= HeadPrio(k, mtx[y].waitq)
  <2>1. WebMutex(k, mtx, pending, Gone, Debt, Due, y) /\ y # NoMutex
    BY <1>2, MutexAssumption
  <2>2. mtx[y].waitq \in Seq(Thread) /\ mtx[y].prio \in Prio \cup {NoPrio}
    BY <1>1, RecordFields DEF Records
  <2>3. mtx[y].prio \in Int
    BY <2>2, Numbers
  <2> QED BY <2>1, <2>2, <2>3 DEF WebMutex, Debt, Due
<1>5. Order
  BY <1>4 DEF Order, Settled
<1>6. Remembered
  BY <1>4 DEF Remembered
<1>7. Held
  BY <1>2, RecordFields, <1>1 DEF Held, WebMutex, Records
<1>8. Covers
  <2> SUFFICES ASSUME NEW y \in Mutex, NEW u \in Thread, Linked(u, mtx[y].waitq)
               PROVE  mtx[y].prio <= k.prio[u]
    BY DEF Covers
  <2> DEFINE h == HeadPrio(k, mtx[y].waitq)
  <2>1. h <= k.prio[u] /\ h \in Prio \cup {NoPrio}
    BY <1>1, <1>4, HeadPrioIs
  <2>2. mtx[y].prio <= h
    BY <1>4
  <2>3. mtx[y].prio \in Int /\ k.prio[u] \in Int /\ h \in Int
    BY <1>1, <2>1, RecordFields, Numbers DEF Records
  <2> QED BY <2>1, <2>2, <2>3
<1>9. Boosted /\ Earned
  <2>1. \A t \in Thread : taken[t] \in SUBSET Mutex
    OBVIOUS
  <2>2. ASSUME NEW t \in Thread
        PROVE  /\ k.prio[t] <= InitPrio[t]
               /\ \A x \in taken[t] : k.prio[t] <= mtx[x].prio
               /\ k.prio[t] = InitPrio[t] \/ \E x \in taken[t] : k.prio[t] = mtx[x].prio
    <3>1. k.prio[t] = MutexPriority(mtx, taken[t], t)
      BY <1>3
    <3> QED BY <1>1, <2>1, <3>1, MutexPriorityIs
  <2> QED BY <2>2 DEF Boosted, Earned
<1> QED BY <1>5, <1>6, <1>7, <1>8, <1>9

(* The same after a step. *)
LEMMA WebSaysNext ==
    Settle' => Order' /\ Boosted' /\ Covers' /\ Earned' /\ Remembered' /\ Held'
BY WebSays, PTL

(* The owner o is to be given the priority of the waiter u, if it is       *)
(* higher than that of the mutex, which is a, and that of o.               *)
Raised(kk, m, pend, D, z, w, u, o, a) ==
    /\ Web(kk, m, pend, D, z, w, o)
    /\ IF kk.prio[u] < a /\ kk.prio[u] < kk.prio[o]
       THEN MutexPriority(m, taken[o], o) = kk.prio[u]
       ELSE Web(kk, m, pend, D, z, w, NoThread)

(* A mutex for which nobody begins or ceases to wait. *)
LEMMA WebElsewhere ==
    ASSUME NEW kk, NEW mm, NEW pend, NEW D, NEW z, NEW w, NEW y,
           WebMutex(kk, mm, pend, D, z, w, y), NEW k2, k2.prio = kk.prio,
           NEW m, m[y] = mm[y], NEW pend2,
           \A v \in Thread : k2.stat[v] = "suspend" /\ pend2[v] = y
                             <=> kk.stat[v] = "suspend" /\ pend[v] = y
    PROVE  WebMutex(k2, m, pend2, D, z, w, y)
<1>1. HeadPrio(k2, mm[y].waitq) = HeadPrio(kk, mm[y].waitq)
  BY DEF HeadPrio
<1> QED BY <1>1 DEF WebMutex

(* The thread u begins to wait for x, of which the record becomes m[x]. *)
Joins(kk, k2, pend, pend2, u, x) ==
    /\ k2.prio = kk.prio /\ k2.stat[u] = "suspend" /\ pend2[u] = x
    /\ \A v \in Thread \ {u} : k2.stat[v] = kk.stat[v] /\ pend2[v] = pend[v]

JoinedAt(kk, mm, m, z, w, u, x, o, b, g) ==
    /\ o \in Thread /\ o = mm[x].owner /\ o # u
    /\ LinkedOnce(b) /\ SortedBy(b, kk.prio)
    /\ \A v : Linked(v, b) <=> v = u \/ Linked(v, mm[x].waitq)
    /\ g = HeadPrio(kk, b) \/ (x = z /\ g = w /\ w <= HeadPrio(kk, b))
    /\ m[x].alive = mm[x].alive /\ m[x].owner = o /\ m[x].waitq = b /\ m[x].prio = g

(* A mutex for which the thread u begins to wait. *)
LEMMA WebHere ==
    ASSUME NEW kk, NEW mm, NEW pend, NEW D, NEW z, NEW w, NEW x, NEW u \in Thread \ D,
           WebMutex(kk, mm, pend, D, z, w, x),
           NEW k2, NEW pend2, Joins(kk, k2, pend, pend2, u, x),
           NEW o, NEW b, NEW g, NEW m, JoinedAt(kk, mm, m, z, w, u, x, o, b, g)
    PROVE  WebMutex(k2, m, pend2, D, z, w, x)
<1> USE DEF Joins, JoinedAt
<1> DEFINE q == mm[x].waitq
<1>1. /\ mm[x].alive /\ o \notin D /\ ~ Linked(o, q)
      /\ \A v \in Thread :
            /\ Linked(v, q) <=> kk.stat[v] = "suspend" /\ v \notin D /\ pend[v] = x
            /\ x \in taken[v] <=> o = v
  BY DEF WebMutex
<1>2. \A v \in Thread : Linked(v, b) <=> k2.stat[v] = "suspend" /\ v \notin D /\ pend2[v] = x
  BY <1>1
<1>3. o # NoThread /\ ~ Linked(o, b)
  BY <1>1, KernelAssumption
<1>4. HeadPrio(k2, b) = HeadPrio(kk, b)
  BY DEF HeadPrio
<1> HIDE DEF q
<1> QED BY <1>1, <1>2, <1>3, <1>4 DEF WebMutex

(* The thread u has joined the wait list of x, and o is its owner.         *)
LEMMA WebJoins ==
    ASSUME NEW kk, NEW mm, NEW pend, NEW D, NEW z, NEW w \in Int, NEW u \in Thread \ D,
           Web(kk, mm, pend, D, z, w, NoThread), taken \in [Thread -> SUBSET Mutex],
           pend \in [Thread -> Mutex \cup {NoMutex}], kk.stat[u] # "suspend",
           NEW k2, Runs(k2, D, Idle), k2.prio = kk.prio, k2.stat[u] = "suspend",
           \A v \in Thread \ {u} : k2.stat[v] = kk.stat[v],
           NEW x \in Mutex, NEW o \in Thread, o = mm[x].owner, o # u,
           NEW b, b = WaitInsert("PRIO", mm[x].waitq, u, kk.prio),
           NEW a, a = mm[x].prio,
           NEW g, g = IF kk.prio[u] < a THEN kk.prio[u] ELSE a,
           NEW m, m = Placed(mm, x, b, g),
           NEW pend2, pend2[u] = x, \A v \in Thread \ {u} : pend2[v] = pend[v]
    PROVE  Raised(k2, m, pend2, D, z, w, u, o, a)
<1> DEFINE q == mm[x].waitq
           p == kk.prio[u]
           h == HeadPrio(kk, q)
           n == MutexPriority(m, taken[o], o)
<1>1. kk.prio \in [Thread -> Prio] /\ mm \in Records /\ p \in Prio
  BY RunsType DEF Web
<1>2. \A y \in Mutex : WebMutex(kk, mm, pend, D, z, w, y)
  BY DEF Web
<1>3. \A y \in Mutex : ~ Linked(u, mm[y].waitq)
  BY <1>2 DEF WebMutex
<1>4. q \in Seq(Thread) /\ LinkedOnce(q) /\ SortedBy(q, kk.prio) /\ ~ Linked(u, q)
  BY <1>1, <1>2, <1>3, RecordFields DEF WebMutex, Records
<1>5. /\ b \in Seq(Thread) /\ LinkedOnce(b) /\ SortedBy(b, kk.prio)
      /\ \A v : Linked(v, b) <=> v = u \/ Linked(v, q)
  <2>1. "PRIO" \in Flag
    BY DEF Flag
  <2> HIDE DEF q
  <2> QED BY <1>1, <1>4, <2>1, WaitInsertFacts DEF q
<1>6. HeadPrio(kk, b) = IF p < h THEN p ELSE h
  <2> HIDE DEF q
  <2> QED BY <1>1, <1>4, <1>5, InsertHead
<1>7. h \in Prio \cup {NoPrio} /\ a \in Prio \cup {NoPrio} /\ g \in Prio \cup {NoPrio}
  <2>1. a \in Prio \cup {NoPrio}
    BY <1>1, RecordFields DEF Records
  <2>2. h \in Prio \cup {NoPrio}
    BY <1>1, <1>4, HeadPrioIs
  <2> QED BY <1>1, <2>1, <2>2
<1>8. p \in Int /\ h \in Int /\ a \in Int
  BY <1>1, <1>7, Numbers
<1>9. a = h \/ (x = z /\ a = w /\ w <= h)
  BY <1>2 DEF WebMutex
<1>10. g = IF p < a THEN p ELSE a
  OBVIOUS
<1>11. g = HeadPrio(kk, b) \/ (x = z /\ g = w /\ w <= HeadPrio(kk, b))
  <2> HIDE DEF h, p, q
  <2> QED BY <1>6, <1>8, <1>9, <1>10
<1>12. /\ m \in Records /\ m[x].waitq = b /\ m[x].prio = g
       /\ \A y \in Mutex : /\ m[y].owner = mm[y].owner /\ m[y].hold = mm[y].hold
                           /\ m[y].alive = mm[y].alive /\ m[y].ceil = mm[y].ceil
                           /\ y # x => m[y] = mm[y]
  <2>1. b \in Seq(Thread) /\ g \in Prio \cup {NoPrio} /\ mm \in Records
    BY <1>1, <1>5, <1>7
  <2>2. IsPlaced(Placed(mm, x, b, g), mm, x, b, g)
    BY <2>1, PlacedIs, Zenon
  <2>3. IsPlaced(m, mm, x, b, g)
    BY <2>2, Zenon
  <2> QED BY <2>3 DEF IsPlaced
<1>13. ASSUME NEW y \in Mutex PROVE WebMutex(k2, m, pend2, D, z, w, y)
  <2>1. WebMutex(kk, mm, pend, D, z, w, y)
    BY <1>2
  <2>2. CASE y # x
    <3>1. m[y] = mm[y]
      BY <1>12, <2>2
    <3>2. \A v \in Thread : k2.stat[v] = "suspend" /\ pend2[v] = y
                            <=> kk.stat[v] = "suspend" /\ pend[v] = y
      BY <2>2
    <3> QED BY <2>1, <3>1, <3>2, WebElsewhere
  <2>3. CASE y = x
    <3>1. Joins(kk, k2, pend, pend2, u, x)
      BY DEF Joins
    <3>2. JoinedAt(kk, mm, m, z, w, u, x, o, b, g)
      <4>1. o \in Thread /\ o = mm[x].owner /\ o # u
        OBVIOUS
      <4> QED BY <1>5, <1>11, <1>12, <4>1 DEF JoinedAt
    <3> HIDE DEF q, p, h, n
    <3>3. WebMutex(kk, mm, pend, D, z, w, x)
      BY <1>2
    <3>4. WebMutex(k2, m, pend2, D, z, w, x)
      BY <3>1, <3>2, <3>3, WebHere
    <3> QED BY <2>3, <3>4
  <2> QED BY <2>2, <2>3
<1>14. \A v \in Thread : taken[v] \in SUBSET Mutex
  OBVIOUS
<1>15. x \in taken[o] /\ \A v \in Thread \ {o} : x \notin taken[v]
  BY <1>2 DEF WebMutex
<1>16. ASSUME NEW v \in Thread \ {o} PROVE k2.prio[v] = MutexPriority(m, taken[v], v)
  <2>1. kk.prio[v] = MutexPriority(mm, taken[v], v)
    BY KernelAssumption DEF Web
  <2>2. PICK held : held = taken[v]
    OBVIOUS
  <2>3. held \in SUBSET Mutex /\ x \notin held
    BY <1>14, <1>15, <2>2
  <2>4. \A y \in Mutex \ {x} : m[y] = mm[y]
    BY <1>12
  <2>5. MutexPriority(m, held, v) = MutexPriority(mm, held, v)
    BY <2>3, <2>4, MutexPriorityApart
  <2> QED BY <2>1, <2>2, <2>5
<1>17. Web(k2, m, pend2, D, z, w, o)
  BY <1>12, <1>13, <1>16 DEF Web
<1>18. \E r \in Int : /\ kk.prio[o] = (IF a < r THEN a ELSE r)
                      /\ n = (IF g < r THEN g ELSE r)
  <2>1. kk.prio[o] = MutexPriority(mm, taken[o], o)
    BY KernelAssumption DEF Web
  <2> HIDE DEF n
  <2>2. PICK held, c, n1 : held = taken[o] /\ c = kk.prio[o] /\ n1 = n
    OBVIOUS
  <2>3. held \in SUBSET Mutex /\ x \in held /\ mm \in Records /\ m \in Records
    BY <1>1, <1>12, <1>14, <1>15, <2>2
  <2>4. c = MutexPriority(mm, held, o) /\ n1 = MutexPriority(m, held, o) /\ g = m[x].prio
    BY <1>12, <2>1, <2>2 DEF n
  <2>5. \A y \in Mutex \ {x} : m[y] = mm[y]
    BY <1>12
  <2>6. \E r \in Int : c = (IF a < r THEN a ELSE r) /\ n1 = (IF g < r THEN g ELSE r)
    BY <2>3, <2>4, <2>5, MutexPriorityTwo
  <2> QED BY <2>2, <2>6
<1>19. PICK r \in Int : /\ kk.prio[o] = (IF a < r THEN a ELSE r)
                        /\ n = (IF g < r THEN g ELSE r)
  BY <1>18
<1>20. IF p < a /\ p < kk.prio[o] THEN n = p ELSE n = kk.prio[o]
  <2> HIDE DEF p, n
  <2> QED BY <1>8, <1>10, <1>19
<1>21. CASE p < a /\ p < kk.prio[o]
  BY <1>17, <1>20, <1>21 DEF Raised
<1>22. CASE ~ (p < a /\ p < kk.prio[o])
  <2>1. \A v \in Thread : k2.prio[v] = MutexPriority(m, taken[v], v)
    BY <1>16, <1>20, <1>22
  <2>2. Web(k2, m, pend2, D, z, w, NoThread)
    BY <1>12, <1>13, <2>1 DEF Web
  <2> QED BY <1>17, <1>22, <2>2 DEF Raised
<1> QED BY <1>21, <1>22

(* The mutex z has got the priority h. *)
Priced(mm, z, h) == [mm EXCEPT ![z].prio = h]

(* The threads that are being deleted are closed.                          *)
LEMMA WebShuts ==
    ASSUME NEW kk, NEW mm, NEW pend, NEW D, NEW z, NEW w \in Int,
           Web(kk, mm, pend, D, z, w, NoThread),
           NEW E, E = {}, NEW k2, Runs(k2, E, Idle), k2.prio = kk.prio,
           \A v \in Thread : k2.stat[v] = "suspend" <=> kk.stat[v] = "suspend" /\ v \notin D
    PROVE  /\ \A y \in Mutex \ {z} : WebMutex(k2, mm, pend, E, NoMutex, w, y)
           /\ z = NoMutex => Web(k2, mm, pend, E, NoMutex, w, NoThread)
<1>1. kk.prio \in [Thread -> Prio] /\ mm \in Records
  BY RunsType DEF Web
<1>2. \A e : HeadPrio(k2, e) = HeadPrio(kk, e)
  BY DEF HeadPrio
<1>3. ASSUME NEW y \in Mutex \ {z} PROVE WebMutex(k2, mm, pend, E, NoMutex, w, y)
  <2>1. WebMutex(kk, mm, pend, D, z, w, y)
    BY DEF Web
  <2> QED BY <1>2, <2>1 DEF WebMutex
<1>4. CASE z = NoMutex
  <2>1. \A y \in Mutex : y # z
    BY <1>4, MutexAssumption
  <2>2. \A y \in Mutex : WebMutex(k2, mm, pend, E, NoMutex, w, y)
    BY <1>3, <2>1
  <2>3. \A v \in Thread \ {NoThread} : k2.prio[v] = MutexPriority(mm, taken[v], v)
    BY DEF Web
  <2> QED BY <1>1, <1>3, <2>2, <2>3 DEF Web
<1> QED BY <1>3, <1>4

(* The owner o of the mutex z one of them waited for is the next. *)
LEMMA WebTold ==
    ASSUME NEW kk, NEW mm, NEW pend, NEW D, NEW z \in Mutex, NEW w \in Int,
           Web(kk, mm, pend, D, z, w, NoThread), taken \in [Thread -> SUBSET Mutex],
           NEW E, E = {}, NEW k2, Runs(k2, E, Idle), k2.prio = kk.prio,
           \A v \in Thread : k2.stat[v] = "suspend" <=> kk.stat[v] = "suspend" /\ v \notin D,
           NEW o \in Thread, o = mm[z].owner,
           NEW h, h = HeadPrio(k2, mm[z].waitq), NEW m, m = Priced(mm, z, h),
           NEW n, n = MutexPriority(m, taken[o], o)
    PROVE  /\ Web(k2, m, pend, E, NoMutex, w, o) /\ n \in Prio
           /\ \/ n = kk.prio[o]
              \/ kk.prio[o] = w /\ w < n
<1>1. kk.prio \in [Thread -> Prio] /\ mm \in Records
  BY RunsType DEF Web
<1>2. \A e : HeadPrio(k2, e) = HeadPrio(kk, e)
  BY DEF HeadPrio
<1>3. WebMutex(kk, mm, pend, D, z, w, z)
  BY DEF Web
<1> DEFINE q == mm[z].waitq
<1>4. q \in Seq(Thread)
  BY <1>1, RecordFields DEF Records
<1>5. h \in Prio \cup {NoPrio} /\ h = HeadPrio(kk, q)
  BY <1>1, <1>2, <1>4, HeadPrioIs
<1>6. /\ m \in Records /\ m[z].waitq = q /\ m[z].prio = h
      /\ \A y \in Mutex : /\ m[y].owner = mm[y].owner /\ m[y].waitq = mm[y].waitq
                          /\ m[y].alive = mm[y].alive
                          /\ y # z => m[y] = mm[y]
  <2> DEFINE c == [mm[z] EXCEPT !.prio = h]
  <2>1. mm[z] \in MutexRecord
    BY <1>1 DEF Records
  <2>2. /\ c \in MutexRecord /\ c.waitq = q /\ c.prio = h /\ c.owner = mm[z].owner
        /\ c.alive = mm[z].alive
    BY <1>5, <2>1 DEF MutexRecord
  <2>3. m = [mm EXCEPT ![z] = c]
    BY <1>1 DEF Records, Priced
  <2> HIDE DEF c
  <2> QED BY <1>1, <2>2, <2>3 DEF Records
<1>7. ASSUME NEW y \in Mutex PROVE WebMutex(k2, m, pend, E, NoMutex, w, y)
  <2>1. CASE y # z
    <3>1. WebMutex(k2, mm, pend, E, NoMutex, w, y)
      BY <2>1, WebShuts
    <3>2. m[y] = mm[y]
      BY <1>6, <2>1
    <3> QED BY <3>1, <3>2 DEF WebMutex
  <2>2. CASE y = z
    BY <1>2, <1>3, <1>5, <1>6, <2>2 DEF WebMutex
  <2> QED BY <2>1, <2>2
<1>8. ASSUME NEW v \in Thread \ {o} PROVE k2.prio[v] = MutexPriority(m, taken[v], v)
  <2>1. kk.prio[v] = MutexPriority(mm, taken[v], v)
    BY KernelAssumption DEF Web
  <2>2. z \notin taken[v]
    BY <1>3 DEF WebMutex
  <2>3. \A y \in taken[v] : m[y].prio = mm[y].prio
    BY <1>6, <2>2
  <2>4. MutexPriority(m, taken[v], v) = MutexPriority(mm, taken[v], v)
    BY <2>3, MutexPrioritySame
  <2> QED BY <2>1, <2>4
<1>9. Web(k2, m, pend, E, NoMutex, w, o)
  BY <1>6, <1>7, <1>8 DEF Web
<1> DEFINE a == mm[z].prio
<1>10. /\ n \in Prio
       /\ \E r \in Int : kk.prio[o] = (IF a < r THEN a ELSE r) /\ n = (IF h < r THEN h ELSE r)
  <2>1. z \in taken[o] /\ taken[o] \in SUBSET Mutex
    BY <1>3 DEF WebMutex
  <2>2. PICK held, rest : held = taken[o] /\ rest = held \ {z}
    OBVIOUS
  <2>3. PICK r : r = MutexPriority(mm, rest, o)
    OBVIOUS
  <2>4. r = MutexPriority(m, rest, o)
    <3>1. \A y \in rest : m[y].prio = mm[y].prio
      BY <1>6, <2>1, <2>2
    <3> QED BY <2>3, <3>1, MutexPrioritySame
  <2>5. kk.prio[o] = MutexPriority(mm, held, o) /\ n = MutexPriority(m, held, o)
    BY <2>2, KernelAssumption DEF Web
  <2>6. z \in held /\ held \in SUBSET Mutex /\ rest \in SUBSET Mutex
    BY <2>1, <2>2
  <2>7. r \in Int /\ n \in Prio
    BY <1>1, <1>6, <2>3, <2>5, <2>6, MutexPriorityIs, Numbers
  <2>8. PICK c : c = kk.prio[o]
    OBVIOUS
  <2>9. c = MutexPriority(mm, held, o) /\ h = m[z].prio
    BY <1>6, <2>5, <2>8
  <2>10. c = IF a < r THEN a ELSE r
    BY <1>1, <2>2, <2>3, <2>6, <2>9, MutexPriorityWith
  <2>11. n = IF h < r THEN h ELSE r
    BY <1>6, <2>2, <2>4, <2>5, <2>6, <2>9, MutexPriorityWith
  <2> QED BY <2>7, <2>8, <2>10, <2>11
<1>11. a = h \/ (a = w /\ w <= h)
  BY <1>3, <1>5 DEF WebMutex
<1>12. h \in Int /\ a \in Int
  BY <1>1, <1>5, RecordFields, Numbers DEF Records
<1> HIDE DEF a
<1>13. n = kk.prio[o] \/ (kk.prio[o] = w /\ w < n)
  BY <1>10, <1>11, <1>12
<1> QED BY <1>9, <1>10, <1>13

(* rt_mutex_take with all the levels of _thread_update_priority. *)
LEMMA ChainWait ==
    ASSUME MutInv, HeirInv, KeepInv, PendingWaits, ~ Asserts,
           NEW t \in Thread, NEW x \in Mutex, TakeWait(t, x)
    PROVE  /\ fault' = "no" /\ Settle'
           /\ k'.stat = [k.stat EXCEPT ![t] = "suspend"] /\ k'.cur = t
           /\ k'.armed \subseteq k.armed \cup {t}
           /\ t \notin Timed => k'.armed \subseteq k.armed
           /\ \A y \in Mutex : /\ mtx'[y].owner = mtx[y].owner /\ mtx'[y].hold = mtx[y].hold
                               /\ mtx'[y].alive = mtx[y].alive /\ mtx'[y].ceil = mtx[y].ceil
<1> DEFINE a == mtx[x].prio
           p == k.prio[t]
           b == WaitInsert("PRIO", mtx[x].waitq, t, k.prio)
           m == Placed(mtx, x, b, IF p < a THEN p ELSE a)
<1>1. PICK k1 \in {SuspendThread(k, t), StartThreadTimer(SuspendThread(k, t), t)} :
         /\ Commit(Inherit(Present(k1, m, pending'), t, x))
         /\ t \notin Timed => k1 = SuspendThread(k, t)
  <2>1. PICK timed \in {FALSE} \cup {t \in Timed} :
           LET asleep == IF timed THEN StartThreadTimer(SuspendThread(k, t), t)
                                  ELSE SuspendThread(k, t)
               queued == [mtx EXCEPT ![x].waitq = WaitInsert("PRIO", @, t, k.prio),
                                     ![x].prio = IF k.prio[t] < @ THEN k.prio[t] ELSE @]
           IN  Commit(Inherit(Present(asleep, queued, pending'), t, x))
    BY DEF TakeWait
  <2>2. m = [mtx EXCEPT ![x].waitq = WaitInsert("PRIO", @, t, k.prio),
                        ![x].prio = IF k.prio[t] < @ THEN k.prio[t] ELSE @]
    BY Types DEF Records, Placed
  <2> QED BY <2>1, <2>2
<1>2. PICK o, pend : o = mtx[x].owner /\ pend = [pending EXCEPT ![t] = x]
  OBVIOUS
<1>3. /\ At(t, "user") /\ Up /\ x \in Users[t] /\ o \in Thread /\ o # t
      /\ pending' = pend /\ taken' = taken /\ victim' = victim
  BY <1>2, Fields1 DEF TakeWait, Calls, At
<1>4. k.cur = t /\ k.stat[t] = "running" /\ t \in Thread \ {Idle} /\ t \in Thread \ Gone
  BY <1>3, Running, MutexAssumption
<1>5. /\ Runs(k1, Gone, Idle) /\ k1.cur = t /\ k1.prio = k.prio
      /\ k1.stat[t] = "suspend" /\ \A u \in Thread \ {t} : k1.stat[u] = k.stat[u]
      /\ k1.armed \subseteq k.armed \cup {t}
      /\ t \notin Timed => k1.armed \subseteq k.armed
  <2>1. Runs(k, Gone, Idle)
    BY DEF MutInv
  <2>2. t \in Thread \ {Idle} /\ t = k.cur /\ k.stat[t] = "running"
    BY <1>4
  <2> QED BY <1>1, <2>1, <2>2, SuspendRuns
<1>6. PICK z, w : z = Debt /\ w = Due /\ w \in Int
  BY <1>3, WebIs
<1>7. PICK D : D = Gone
  OBVIOUS
<1>8. Web(k, mtx, pending, D, z, w, NoThread)
  BY <1>3, <1>6, <1>7, WebIs
<1>9. taken \in [Thread -> SUBSET Mutex] /\ pending \in [Thread -> Mutex \cup {NoMutex}]
      /\ pend \in [Thread -> Mutex \cup {NoMutex}]
  BY <1>2, Types
<1>10. PICK c, m1 : c = b /\ m1 = m
  OBVIOUS
<1> HIDE DEF b, m
<1>11. /\ Web(k1, m1, pend, D, z, w, o)
       /\ IF p < a /\ p < k.prio[o]
          THEN MutexPriority(m1, taken[o], o) = p
          ELSE Web(k1, m1, pend, D, z, w, NoThread)
  <2>1. PICK kk, mm, pd, e : kk = k /\ mm = mtx /\ pd = pending /\ e = a
    OBVIOUS
  <2>2. /\ Web(kk, mm, pd, D, z, w, NoThread) /\ w \in Int /\ t \in Thread \ D
        /\ taken \in [Thread -> SUBSET Mutex] /\ pd \in [Thread -> Mutex \cup {NoMutex}]
        /\ kk.stat[t] # "suspend"
    BY <1>4, <1>6, <1>7, <1>8, <1>9, <2>1
  <2>3. /\ Runs(k1, D, Idle) /\ k1.prio = kk.prio /\ k1.stat[t] = "suspend"
        /\ \A v \in Thread \ {t} : k1.stat[v] = kk.stat[v]
    BY <1>5, <1>7, <2>1
  <2>4. o \in Thread /\ o = mm[x].owner /\ o # t /\ e = mm[x].prio
    BY <1>2, <1>3, <2>1
  <2>5. c = WaitInsert("PRIO", mm[x].waitq, t, kk.prio)
    BY <1>10, <2>1 DEF b
  <2>6. PICK g : /\ g = (IF kk.prio[t] < e THEN kk.prio[t] ELSE e)
                 /\ m1 = Placed(mm, x, c, g)
    BY <1>10, <2>1 DEF m
  <2>7. pend[t] = x /\ \A v \in Thread \ {t} : pend[v] = pd[v]
    BY <1>2, <2>1, Types
  <2> HIDE DEF a, p
  <2>8. Raised(k1, m1, pend, D, z, w, t, o, e)
    BY <2>2, <2>3, <2>4, <2>5, <2>6, <2>7, WebJoins
  <2>9. e = a /\ k1.prio[t] = p /\ k1.prio[o] = k.prio[o]
    BY <1>5, <2>1 DEF p
  <2> QED BY <2>8, <2>9 DEF Raised
<1>12. p \in Prio /\ p \in Int
  BY Types, Numbers
<1>13. PICK r : r = Inherit(Present(k1, m1, pend), t, x)
  OBVIOUS
<1>14. Web(r.k, r.mtx, pend, D, z, w, NoThread) /\ After(k1, m1, r.k, r.mtx, D) /\ r.fault = "no"
  <2>1. CASE p < a /\ p < k.prio[o]
    <3>1. r = UpdatePriority(Present(k1, m1, pend), o, p)
      BY <1>2, <1>13, <2>1 DEF Inherit
    <3>2. p = MutexPriority(m1, taken[o], o) /\ p < k1.prio[o]
      BY <1>5, <1>11, <2>1
    <3>3. p # k1.prio[o] /\ o \in Thread \ D
      <4>1. k1.prio[o] \in Int /\ o \notin Gone
        BY <1>2, <1>3, <1>5, Types, Numbers DEF MutInv, VictimApart, Gone
      <4> QED BY <1>3, <1>7, <1>12, <3>2, <4>1
    <3> HIDE DEF p
    <3> QED BY <1>6, <1>9, <1>11, <1>12, <3>1, <3>2, <3>3, UpdateChain
  <2>2. CASE ~ (p < a /\ p < k.prio[o])
    <3>1. r = Present(k1, m1, pend)
      BY <1>2, <1>13, <2>2 DEF Inherit
    <3>2. Web(k1, m1, pend, D, z, w, NoThread)
      BY <1>11, <2>2
    <3>3. r.k = k1 /\ r.mtx = m1 /\ r.fault = "no"
      BY <3>1 DEF Present
    <3> QED BY <3>2, <3>3 DEF After
  <2> QED BY <2>1, <2>2
<1>15. k' = r.k /\ mtx' = r.mtx /\ fault' = "no"
  BY <1>1, <1>3, <1>10, <1>13, <1>14 DEF Commit
<1>16. \A y \in Mutex : /\ m1[y].owner = mtx[y].owner /\ m1[y].hold = mtx[y].hold
                        /\ m1[y].alive = mtx[y].alive /\ m1[y].ceil = mtx[y].ceil
  <2>1. mtx \in Records /\ m1 = Placed(mtx, x, b, IF p < a THEN p ELSE a)
    BY <1>10, Types DEF m
  <2>2. b \in Seq(Thread)
    <3>1. /\ mtx[x].waitq \in Seq(Thread) /\ LinkedOnce(mtx[x].waitq)
          /\ SortedBy(mtx[x].waitq, k.prio) /\ k.prio \in [Thread -> Prio]
          /\ ~ Linked(t, mtx[x].waitq) /\ "PRIO" \in Flag
      BY <1>3, Fields1, Types, Running DEF MutInv, Order, Flag
    <3> QED BY <3>1, WaitInsertFacts DEF b
  <2>3. (IF p < a THEN p ELSE a) \in Prio \cup {NoPrio}
    BY <1>12, Fields1
  <2> HIDE DEF p, a
  <2>4. IsPlaced(m1, mtx, x, b, IF p < a THEN p ELSE a)
    BY <2>1, <2>2, <2>3, PlacedIs
  <2> QED BY <2>4 DEF IsPlaced
<1>17. /\ k'.cur = t /\ k'.armed = k1.armed /\ k'.stat = k1.stat
       /\ \A v \in D : k'.prio[v] = k.prio[v]
       /\ \A y \in Mutex : /\ mtx'[y].owner = mtx[y].owner /\ mtx'[y].hold = mtx[y].hold
                           /\ mtx'[y].alive = mtx[y].alive /\ mtx'[y].ceil = mtx[y].ceil
  BY <1>5, <1>14, <1>15, <1>16 DEF After
<1>18. Gone' = D /\ Debt' = z /\ Due' = w
  <2>1. Gone' = D
    BY <1>3, <1>7 DEF Gone
  <2>2. CASE victim = NoThread
    BY <1>3, <1>6, <2>1, <2>2 DEF Debt, Due
  <2>3. CASE victim # NoThread
    <3>1. victim \in D /\ victim \in Thread /\ victim # t
      BY <1>4, <1>7, <2>3, Types DEF Gone
    <3>2. pending'[victim] = pending[victim]
      BY <1>2, <1>3, <1>9, <3>1
    <3> QED BY <1>3, <1>6, <1>17, <2>1, <2>3, <3>1, <3>2 DEF Debt, Due
  <2> QED BY <2>2, <2>3
<1>19. Settle'
  <2>1. Web(k', mtx', pending', Gone', Debt', Due', NoThread)
    BY <1>3, <1>14, <1>15, <1>18
  <2> QED BY <1>3, <1>9, <2>1 DEF Settle, Web, WebMutex
<1>20. k'.stat = [k.stat EXCEPT ![t] = "suspend"]
  <2>1. k.stat \in [Thread -> Stat] /\ k1.stat \in [Thread -> Stat]
    BY <1>5, Types, RunsType
  <2> QED BY <1>5, <1>17, <2>1
<1> QED BY <1>5, <1>15, <1>17, <1>19, <1>20

(* The second part of rt_thread_delete, with all the levels. *)
LEMMA ChainClose ==
    ASSUME MutInv, HeirInv, KeepInv, PendingWaits, ~ Asserts, DeleteClose
    PROVE  /\ victim \in Thread /\ fault' \in {"no", "null"} /\ Runs(k', {}, Idle)
           /\ k'.stat = [k.stat EXCEPT ![victim] = "close"] /\ k'.cur = k.cur
           /\ k'.armed = k.armed \ {victim}
           /\ mtx' \in Records
           /\ \A y \in Mutex : /\ mtx'[y].owner = mtx[y].owner /\ mtx'[y].hold = mtx[y].hold
                               /\ mtx'[y].alive = mtx[y].alive /\ mtx'[y].ceil = mtx[y].ceil
           /\ mtx' = mtx \/ Settle'
           /\ Up' => Settle'
<1> DEFINE shut == [k EXCEPT !.stat[victim] = "close", !.armed = @ \ {victim}]
           m0 == Unlinked(mtx, victim)
<1>1. /\ At(Manager, "delete") /\ Up
      /\ LET x == pending[victim]
         IN  Commit(IF x # NoMutex /\ mtx[x].alive THEN Disinherit(shut, m0, victim, x)
                    ELSE Present(shut, mtx, pending))
      /\ pending' = [pending EXCEPT ![victim] = NoMutex] /\ victim' = NoThread
      /\ taken' = taken
  BY DEF DeleteClose, At
<1>2. Manager \in Thread
  BY MutexAssumption
<1>3. /\ k.cur = Manager /\ pc[Manager] = "delete" /\ Manager # victim
  BY <1>1, <1>2, Running DEF At
<1>4. victim # NoThread /\ victim \in Thread
  BY <1>2, <1>3, Types DEF MutInv, VictimApart
<1>5. PICK v \in Thread : v = victim
  BY <1>4
<1>6. Gone = {v}
  BY <1>5 DEF Gone
<1>7. PICK s1 : /\ s1 = shut
                /\ Runs(s1, {}, Idle) /\ s1.cur = k.cur /\ s1.armed = k.armed \ {v}
                /\ s1.prio = k.prio /\ s1.stat = [k.stat EXCEPT ![v] = "close"]
  <2>1. Runs(k, {v}, Idle)
    BY <1>6 DEF MutInv
  <2>2. shut = Shut(k, v)
    BY <1>5 DEF Shut
  <2> HIDE DEF shut
  <2> QED BY <2>1, <2>2, ShutOne
<1>8. m0 = mtx
  <2>1. \A y \in Mutex : ~ Linked(victim, mtx[y].waitq)
    BY <1>4, Waiter
  <2>2. \A y \in Mutex : RemoveFirst(mtx[y].waitq, victim) = mtx[y].waitq
    BY <2>1, NobodyLeaves
  <2>3. mtx \in Records
    BY Types
  <2>4. ASSUME NEW y \in Mutex
        PROVE  [mtx[y] EXCEPT !.waitq = RemoveFirst(mtx[y].waitq, victim)] = mtx[y]
    <3>1. RemoveFirst(mtx[y].waitq, victim) = mtx[y].waitq
      BY <2>2
    <3>2. mtx[y] \in MutexRecord
      BY <2>3 DEF Records
    <3> QED BY <3>1, <3>2 DEF MutexRecord
  <2> QED BY <2>3, <2>4 DEF Unlinked, Records
<1>9. PICK z, w : z = Debt /\ w = Due /\ w \in Int
  BY <1>1, WebIs
<1>10. PICK D : D = Gone
  OBVIOUS
<1>11. Web(k, mtx, pending, D, z, w, NoThread)
  BY <1>1, <1>9, <1>10, WebIs
<1>12. z = pending[v] /\ w = k.prio[v] /\ z \in Mutex \cup {NoMutex}
  BY <1>4, <1>5, <1>9, Types DEF Debt, Due
<1>13. /\ taken \in [Thread -> SUBSET Mutex] /\ pending \in [Thread -> Mutex \cup {NoMutex}]
       /\ k.stat \in [Thread -> Stat] /\ mtx \in Records /\ k.prio \in [Thread -> Prio]
  BY Types
<1>14. \A u \in Thread : s1.stat[u] = "suspend" <=> k.stat[u] = "suspend" /\ u \notin D
  BY <1>6, <1>7, <1>10, <1>13
<1>15. PICK r : r = IF z # NoMutex /\ mtx[z].alive THEN Disinherit(s1, mtx, v, z)
                    ELSE Present(s1, mtx, pending)
  OBVIOUS
<1> HIDE DEF shut, m0
<1>16. k' = r.k /\ mtx' = r.mtx /\ fault' = r.fault
  BY <1>1, <1>5, <1>7, <1>8, <1>12, <1>15 DEF Commit
<1>23. PICK E : E = {}
  OBVIOUS
<1>24. Runs(s1, E, Idle)
  BY <1>7, <1>23
<1> DEFINE Done == /\ Web(r.k, r.mtx, pending, E, NoMutex, w, NoThread)
                   /\ After(s1, mtx, r.k, r.mtx, E) /\ r.fault = "no"
           Stopped == r.k = s1 /\ r.mtx = mtx /\ r.fault = "null"
<1>17. ASSUME z = NoMutex PROVE Done
  <2>1. r.k = s1 /\ r.mtx = mtx /\ r.fault = "no"
    BY <1>15, <1>17 DEF Present
  <2>2. Web(s1, mtx, pending, E, NoMutex, w, NoThread)
    <3>1. PICK kk, mm, pd : kk = k /\ mm = mtx /\ pd = pending
      OBVIOUS
    <3>2. /\ Web(kk, mm, pd, D, z, w, NoThread) /\ s1.prio = kk.prio
          /\ \A u \in Thread : s1.stat[u] = "suspend" <=> kk.stat[u] = "suspend" /\ u \notin D
      BY <1>7, <1>11, <1>14, <3>1
    <3>3. Web(s1, mm, pd, E, NoMutex, w, NoThread)
      <4>1. PICK zz : zz = z
        OBVIOUS
      <4>2. zz = NoMutex /\ Web(kk, mm, pd, D, zz, w, NoThread) /\ w \in Int
        BY <1>9, <1>17, <3>2, <4>1
      <4>3. zz = NoMutex => Web(s1, mm, pd, E, NoMutex, w, NoThread)
        BY <1>23, <1>24, <3>2, <4>2, WebShuts
      <4> QED BY <4>2, <4>3
    <3> QED BY <3>1, <3>3
  <2>3. Done
    BY <2>1, <2>2 DEF After
  <2> QED BY <2>3
<1>18. ASSUME z # NoMutex PROVE Done \/ Stopped
  <2>1. z \in Mutex /\ mtx[z].alive
    BY <1>12, <1>18 DEF KeepInv, NothingFails
  <2>2. PICK o, h, m, n : /\ o = mtx[z].owner /\ h = HeadPrio(s1, mtx[z].waitq)
                          /\ m = Priced(mtx, z, h) /\ n = MutexPriority(m, taken[o], o)
    OBVIOUS
  <2>3. r = IF o = NoThread THEN [Present(s1, mtx, pending) EXCEPT !.fault = "null"]
            ELSE IF s1.prio[o] = s1.prio[v] /\ n # s1.prio[o]
            THEN UpdatePriority(Present(s1, m, pending), o, n) ELSE Present(s1, m, pending)
    BY <1>15, <1>18, <2>1, <2>2 DEF Disinherit, Priced
  <2>4. CASE o = NoThread
    BY <2>3, <2>4 DEF Present
  <2>5. CASE o # NoThread
    <3>1. o \in Thread
      BY <2>1, <2>2, <2>5, Fields1
    <3>2. /\ Web(s1, m, pending, E, NoMutex, w, o) /\ n \in Prio
          /\ \/ n = k.prio[o]
             \/ k.prio[o] = w /\ w < n
      BY <1>7, <1>9, <1>11, <1>13, <1>14, <2>1, <2>2, <3>1, <1>23, <1>24, WebTold
    <3>3. After(s1, mtx, s1, m, E)
      BY <1>13, <2>1, <2>2 DEF After, Priced, Records, MutexRecord
    <3>4. k.prio[o] \in Int /\ n \in Int
      BY <1>13, <3>1, <3>2, Numbers
    <3>5. CASE k.prio[o] = w /\ w < n
      <4>1. r = UpdatePriority(Present(s1, m, pending), o, n)
        BY <1>7, <1>9, <1>12, <2>3, <2>5, <3>4, <3>5
      <4>2. o \in Thread \ E /\ n # s1.prio[o] /\ s1.prio[o] = w
        BY <1>23, <1>7, <1>9, <3>1, <3>4, <3>5
      <4>3. /\ Web(r.k, r.mtx, pending, E, NoMutex, w, NoThread)
            /\ After(s1, m, r.k, r.mtx, E) /\ r.fault = "no"
        <5>1. PICK pd, q, zz : pd = pending /\ q = w /\ zz = NoMutex
          OBVIOUS
        <5>2. /\ pd \in [Thread -> Mutex \cup {NoMutex}] /\ Web(s1, m, pd, E, zz, w, o)
              /\ r = UpdatePriority(Present(s1, m, pd), o, n) /\ q \in Int /\ w \in Int
          BY <1>9, <1>13, <3>2, <4>1, <5>1
        <5>3. /\ taken \in [Thread -> SUBSET Mutex] /\ o \in Thread \ E
              /\ n \in Prio /\ n = MutexPriority(m, taken[o], o) /\ n # s1.prio[o]
              /\ (n = q /\ q < s1.prio[o]) \/ (s1.prio[o] = w /\ w < n)
          BY <1>13, <2>2, <3>2, <3>5, <4>2
        <5>4. LET u == UpdatePriority(Present(s1, m, pd), o, n)
              IN  /\ Web(u.k, u.mtx, pd, E, zz, w, NoThread)
                  /\ After(s1, m, u.k, u.mtx, E) /\ u.fault = "no"
          BY <5>2, <5>3, UpdateChain
        <5> QED BY <5>1, <5>2, <5>4
      <4>4. Done
        BY <3>3, <4>3, AfterAfter
      <4> QED BY <4>4
    <3>6. CASE n = k.prio[o]
      <4>1. r.k = s1 /\ r.mtx = m /\ r.fault = "no"
        BY <1>7, <2>3, <2>5, <3>6 DEF Present
      <4>2. Web(s1, m, pending, E, NoMutex, w, NoThread)
        BY <1>7, <2>2, <3>1, <3>2, <3>6 DEF Web
      <4>3. Done
        BY <3>3, <4>1, <4>2
      <4> QED BY <4>3
    <3> QED BY <3>2, <3>5, <3>6
  <2> QED BY <2>4, <2>5
<1>19. Done \/ Stopped
  BY <1>17, <1>18
<1>20. /\ Runs(k', {}, Idle) /\ k'.stat = s1.stat /\ k'.cur = s1.cur /\ k'.armed = s1.armed
       /\ mtx' \in Records /\ fault' \in {"no", "null"}
       /\ \A y \in Mutex : /\ mtx'[y].owner = mtx[y].owner /\ mtx'[y].hold = mtx[y].hold
                           /\ mtx'[y].alive = mtx[y].alive /\ mtx'[y].ceil = mtx[y].ceil
  <2>1. CASE Done
    BY <1>16, <1>23, <2>1 DEF After, Web
  <2>2. CASE Stopped
    BY <1>7, <1>13, <1>16, <2>2
  <2> QED BY <1>19, <2>1, <2>2
<1>21. Done => Settle'
  <2> SUFFICES ASSUME Done PROVE Settle'
    OBVIOUS
  <2>1. /\ Web(k', mtx', pending, {}, NoMutex, w, NoThread)
    BY <1>16, <1>23
  <2>2. Gone' = {} /\ Debt' = NoMutex /\ Due' = 0
    BY <1>1, KernelAssumption DEF Gone, Debt, Due
  <2>3. ASSUME NEW y \in Mutex PROVE WebMutex(k', mtx', pending', {}, NoMutex, 0, y)
    <3>1. WebMutex(k', mtx', pending, {}, NoMutex, w, y) /\ y # NoMutex
      BY <2>1, MutexAssumption DEF Web
    <3>2. ASSUME NEW u \in Thread
          PROVE  k'.stat[u] = "suspend" /\ pending'[u] = y <=> k'.stat[u] = "suspend" /\ pending[u] = y
      BY <1>1, <1>5, <1>7, <1>13, <1>20
    <3> HIDE DEF Done
    <3> QED BY <3>1, <3>2 DEF WebMutex
  <2>4. Web(k', mtx', pending', {}, NoMutex, 0, NoThread)
    BY <2>1, <2>3 DEF Web
  <2>5. taken' \in [Thread -> SUBSET Mutex]
    BY <1>1, <1>13
  <2> QED BY <1>1, <2>2, <2>4, <2>5 DEF Settle, Web, WebMutex
<1>22. (mtx' = mtx \/ Settle') /\ (Up' => Settle')
  BY <1>16, <1>19, <1>21 DEF Up
<1> QED BY <1>4, <1>5, <1>7, <1>20, <1>22

(* The four invariants together. *)
Chained == MutInv /\ HeirInv /\ KeepInv /\ PendingWaits

(* A wait begins. *)
LEMMA ChainAsks ==
    ASSUME Chained, ~ Asserts, Timed = {}, NEW t \in Thread, NEW x \in Mutex, TakeWait(t, x)
    PROVE  Asks(t, x) /\ Chained'
<1>1. MutInv /\ HeirInv /\ KeepInv /\ PendingWaits
  BY DEF Chained
<1>2. /\ At(t, "user") /\ Up /\ x \in Users[t]
      /\ pending' = [pending EXCEPT ![t] = x] /\ err' = [err EXCEPT ![t] = "ok"]
      /\ Goto(t, "wait") /\ taken' = taken /\ victim' = victim
  BY DEF TakeWait, Calls, At
<1>3. /\ k.cur = t /\ k.stat[t] = "running" /\ t \in Thread \ {Idle} /\ t # victim /\ ~ Waits(t)
  BY <1>1, <1>2, Running, MutexAssumption
<1>4. /\ pc' \in [Thread -> Place] /\ pc[t] = "user" /\ pc'[t] = "wait"
      /\ \A u \in Thread : pc'[u] = "delete" <=> pc[u] = "delete"
      /\ \A u \in Thread \ {t} : pc'[u] = pc[u]
  BY <1>1, <1>2, GoesOn, Types DEF Goto, At
<1>5. /\ fault' = "no" /\ Settle'
      /\ k'.stat = [k.stat EXCEPT ![t] = "suspend"] /\ k'.cur = t
      /\ k'.armed \subseteq k.armed
      /\ \A y \in Mutex : /\ mtx'[y].owner = mtx[y].owner /\ mtx'[y].hold = mtx[y].hold
                          /\ mtx'[y].alive = mtx[y].alive /\ mtx'[y].ceil = mtx[y].ceil
  BY <1>1, ChainWait
<1>6. k'.stat[t] = "suspend" /\ \A u \in Thread \ {t} : k'.stat[u] = k.stat[u]
  BY <1>1, <1>5, Types
<1>7. /\ pending' \in [Thread -> Mutex \cup {NoMutex}] /\ pending'[t] = x
      /\ \A u \in Thread \ {t} : pending'[u] = pending[u]
      /\ err' \in [Thread -> Code] /\ err'[t] = "ok"
      /\ \A u \in Thread \ {t} : err'[u] = err[u]
  BY <1>1, <1>2, Types DEF Code
<1>8. Gone' = Gone
  BY <1>2 DEF Gone
<1>9. /\ Runs(k', Gone, Idle) /\ mtx' \in Records
      /\ \A y \in Mutex : WebMutex(k', mtx', pending', Gone, Debt', Due', y)
  BY <1>2, <1>5, <1>8 DEF Settle, Web, WebMutex
<1>10. /\ Order' /\ Boosted' /\ Covers' /\ Earned' /\ Remembered' /\ Held'
  BY <1>5, WebSaysNext
<1>11. \A u \in Thread : Waits(u)' <=> Waits(u) \/ u = t
  BY <1>2, <1>3, <1>4, <1>6 DEF Waits
<1>12. PendingWaits'
  BY <1>1, <1>2, <1>7, <1>11 DEF PendingWaits
<1>13. \A y \in Mutex :
          /\ LinkedOnce(mtx'[y].waitq)
          /\ mtx'[y].owner = NoThread => mtx'[y].waitq = <<>>
          /\ ~ Linked(mtx'[y].owner, mtx'[y].waitq)
          /\ mtx'[y].alive
          /\ \A u \in Thread :
                Linked(u, mtx'[y].waitq) <=> k'.stat[u] = "suspend" /\ u \notin Gone /\ pending'[u] = y
  BY <1>9 DEF WebMutex
<1>14. OwnershipExact'
  <2>1. k' \in KernelState
    BY <1>9, RunsType
  <2>2. TypeOK'
    BY <1>1, <1>2, <1>4, <1>5, <1>7, <1>9, <2>1, Types DEF TypeOK, Place, Code, Records
  <2>3. \A y \in Mutex :
           /\ mtx[y].owner = NoThread <=> mtx[y].hold = 0
           /\ \A u \in Thread : y \in taken[u] => mtx[y].owner = u
    BY <1>1 DEF MutInv, OwnershipExact
  <2> QED BY <1>2, <1>5, <1>13, <2>2, <2>3 DEF OwnershipExact
<1>15. Runs(k, Gone, Idle)'
  BY <1>8, <1>9
<1>16. CurrentPlaced' /\ ArmedWaits'
  <2>1. CurrentPlaced'
    BY <1>4, <1>5 DEF CurrentPlaced
  <2>2. \A u \in k.armed : u \in Thread /\ k.stat[u] = "suspend"
    BY <1>1, Types DEF MutInv, ArmedWaits
  <2>3. \A u \in k'.armed : k'.stat[u] = "suspend"
    BY <1>2, <1>3, <1>5, <1>6, <2>2
  <2> QED BY <2>1, <2>3 DEF ArmedWaits
<1>17. VictimApart'
  BY <1>1, <1>2, <1>3, <1>4, <1>5, <1>6, <1>7, Types DEF MutInv, VictimApart
<1>18. FailedWaits'
  BY <1>1, <1>4, <1>5, <1>6, <1>7 DEF MutInv, FailedWaits
<1>19. Lists'
  <2>1. \A u \in Thread : Waits(u)' => pending'[u] \in Mutex /\ err'[u] = "ok"
    BY <1>1, <1>7, <1>11 DEF MutInv, Lists
  <2>2. ASSUME NEW y \in Mutex, NEW u \in Thread
        PROVE  Linked(u, mtx'[y].waitq) <=> Waits(u)' /\ pending'[u] = y
    <3>1. u \notin Gone <=> u # victim'
      BY <1>2 DEF Gone
    <3>2. y # NoMutex
      BY MutexAssumption
    <3> QED BY <1>12, <1>13, <3>1, <3>2 DEF PendingWaits, Waits
  <2> QED BY <1>13, <2>1, <2>2 DEF Lists
<1>20. MutInv'
  BY <1>10, <1>14, <1>15, <1>16, <1>17, <1>18, <1>19 DEF MutInv
<1>21. HeirInv'
  BY <1>1, <1>5, <1>10 DEF HeirInv, NoCeilings
<1>22. KeepInv'
  <2>1. t \notin k'.armed
    BY <1>1, <1>3, <1>5 DEF MutInv, ArmedWaits
  <2>2. NothingFails'
    BY <1>1, <1>4, <1>5, <1>7, <1>13, <2>1 DEF KeepInv, NothingFails
  <2> QED BY <1>10, <2>2 DEF KeepInv
<1>23. Asks(t, x)
  BY <1>2, <1>3, <1>5, <1>6, <1>11, <1>20 DEF Asks
<1> QED BY <1>12, <1>20, <1>21, <1>22, <1>23 DEF Chained

(* A thread has been deleted.  The mutex it waited for may have been       *)
(* released meanwhile, and reading its owner stops the system.             *)
LEMMA ChainCloses ==
    ASSUME Chained, ~ Asserts, DeleteClose
    PROVE  Closes /\ Chained'
<1>1. MutInv /\ HeirInv /\ KeepInv /\ PendingWaits
  BY DEF Chained
<1>2. /\ At(Manager, "delete") /\ Up
      /\ pending' = [pending EXCEPT ![victim] = NoMutex] /\ victim' = NoThread
      /\ taken' = taken /\ err' = err
      /\ \E next \in {"user", "sched"} : Goto(Manager, next)
  BY DEF DeleteClose, At
<1>3. Manager \in Thread
  BY MutexAssumption
<1>4. /\ k.cur = Manager /\ pc[Manager] = "delete" /\ k.stat[Manager] = "running"
      /\ Manager # victim
  BY <1>1, <1>2, <1>3, Running DEF At
<1>5. /\ victim \in Thread /\ fault' \in {"no", "null"} /\ Runs(k', {}, Idle)
      /\ k'.stat = [k.stat EXCEPT ![victim] = "close"] /\ k'.cur = k.cur
      /\ k'.armed = k.armed \ {victim}
      /\ mtx' \in Records
      /\ \A y \in Mutex : /\ mtx'[y].owner = mtx[y].owner /\ mtx'[y].hold = mtx[y].hold
                          /\ mtx'[y].alive = mtx[y].alive /\ mtx'[y].ceil = mtx[y].ceil
      /\ mtx' = mtx \/ Settle'
      /\ Up' => Settle'
  BY <1>1, ChainClose
<1>6. PICK v \in Thread : v = victim
  BY <1>5
<1>7. /\ pending' \in [Thread -> Mutex \cup {NoMutex}] /\ pending'[v] = NoMutex
      /\ \A u \in Thread \ {v} : pending'[u] = pending[u]
      /\ pc' \in [Thread -> Place] /\ pc'[Manager] \in {"user", "sched"}
      /\ \A u \in Thread \ {Manager} : pc'[u] = pc[u]
      /\ k'.stat[v] = "close" /\ \A u \in Thread \ {v} : k'.stat[u] = k.stat[u]
  BY <1>1, <1>2, <1>3, <1>5, <1>6, Types DEF Place, Goto
<1>8. Gone' = {}
  BY <1>2, KernelAssumption DEF Gone
<1>9. k.stat[v] \in {"ready", "suspend"}
  BY <1>1, <1>5, <1>6, Types DEF MutInv, VictimApart
<1>10. \A u \in Thread : Waits(u)' <=> Waits(u)
  BY <1>2, <1>4, <1>6, <1>7, KernelAssumption DEF Waits
<1>11. PendingWaits'
  BY <1>1, <1>2, <1>6, <1>7, <1>10 DEF PendingWaits
<1>12. \A u \in Thread : u # NoThread
  BY KernelAssumption
<1>13. ASSUME NEW y \in Mutex, NEW u \in Thread
       PROVE  /\ LinkedOnce(mtx'[y].waitq)
              /\ mtx'[y].owner = NoThread => mtx'[y].waitq = <<>>
              /\ ~ Linked(mtx'[y].owner, mtx'[y].waitq)
              /\ Linked(u, mtx'[y].waitq) <=> Waits(u)' /\ pending'[u] = y
  <2>1. CASE mtx' = mtx
    <3>1. /\ LinkedOnce(mtx[y].waitq)
          /\ mtx[y].owner = NoThread => mtx[y].waitq = <<>>
          /\ ~ Linked(mtx[y].owner, mtx[y].waitq)
          /\ Linked(u, mtx[y].waitq) <=> Waits(u) /\ pending[u] = y
      BY <1>1 DEF MutInv, Lists, OwnershipExact
    <3>2. ~ Waits(v)
      BY <1>6 DEF Waits
    <3> QED BY <1>7, <1>10, <2>1, <3>1, <3>2
  <2>2. CASE Settle'
    <3>1. WebMutex(k', mtx', pending', {}, Debt', Due', y)
      BY <1>2, <1>8, <2>2 DEF Settle, Web, WebMutex
    <3>2. y # NoMutex
      BY MutexAssumption
    <3>3. /\ LinkedOnce(mtx'[y].waitq)
          /\ mtx'[y].owner = NoThread => mtx'[y].waitq = <<>>
          /\ ~ Linked(mtx'[y].owner, mtx'[y].waitq)
          /\ Linked(u, mtx'[y].waitq) <=> k'.stat[u] = "suspend" /\ pending'[u] = y
      BY <3>1 DEF WebMutex
    <3> QED BY <1>2, <1>11, <1>12, <3>2, <3>3 DEF PendingWaits, Waits
  <2> QED BY <1>5, <2>1, <2>2
<1>14. OwnershipExact'
  <2>1. k' \in KernelState
    BY <1>5, RunsType
  <2>2. TypeOK'
    BY <1>1, <1>2, <1>5, <1>7, <2>1, Types DEF TypeOK, Place, Code, Records
  <2>3. \A y \in Mutex :
           /\ mtx[y].owner = NoThread <=> mtx[y].hold = 0
           /\ \A u \in Thread : y \in taken[u] => mtx[y].owner = u
    BY <1>1 DEF MutInv, OwnershipExact
  <2> QED BY <1>2, <1>5, <1>13, <1>3, <2>2, <2>3 DEF OwnershipExact
<1>15. Runs(k, Gone, Idle)'
  BY <1>5, <1>8
<1>16. CurrentPlaced'
  BY <1>4, <1>5, <1>6, <1>7 DEF CurrentPlaced
<1>17. VictimApart'
  <2>1. \A u \in Thread : pc[u] = "delete" => u = Manager
    BY <1>1 DEF MutInv, VictimApart
  <2> QED BY <1>2, <1>7, <2>1 DEF VictimApart
<1>18. ArmedWaits'
  <2>1. k.armed \in SUBSET Thread
    BY <1>1, Types
  <2> QED BY <1>1, <1>2, <1>5, <1>6, <1>7, <1>12, <2>1 DEF MutInv, ArmedWaits
<1>19. FailedWaits'
  BY <1>1, <1>2, <1>4, <1>7, <1>9 DEF MutInv, FailedWaits
<1>20. Lists'
  <2>1. \A u \in Thread : Waits(u)' => pending'[u] \in Mutex /\ err'[u] = "ok"
    BY <1>1, <1>2, <1>6, <1>7, <1>10 DEF MutInv, Lists, Waits
  <2>2. \A y \in Mutex : LinkedOnce(mtx'[y].waitq) /\ mtx'[y].alive
    BY <1>1, <1>3, <1>5, <1>13 DEF KeepInv, NothingFails
  <2> QED BY <1>13, <2>1, <2>2 DEF Lists
<1>21. Order' /\ Boosted' /\ Covers' /\ Earned' /\ Remembered'
  <2>1. CASE Settle'
    BY <2>1, WebSaysNext
  <2>2. CASE ~ Up'
    BY <2>2 DEF Order, Boosted, Covers, Earned, Remembered
  <2> QED BY <1>5, <2>1, <2>2
<1>22. MutInv'
  BY <1>14, <1>15, <1>16, <1>17, <1>18, <1>19, <1>20, <1>21 DEF MutInv
<1>23. HeirInv'
  BY <1>1, <1>2, <1>5, <1>21 DEF HeirInv, NoCeilings, Held
<1>24. KeepInv'
  <2>1. NothingFails'
    BY <1>1, <1>2, <1>3, <1>5, <1>7 DEF KeepInv, NothingFails
  <2> QED BY <1>21, <2>1 DEF KeepInv
<1>25. Closes
  BY <1>2, <1>5, <1>6, <1>7, <1>10, <1>22 DEF Closes
<1> QED BY <1>11, <1>22, <1>23, <1>24, <1>25 DEF Chained

(* Nobody has a pending_object without waiting. *)
LEMMA StepPending ==
    ASSUME MutInv, NothingFails, Owners = {}, PendingWaits, ~ Passes, [Next]_vars
    PROVE  PendingWaits'
<1>1. ASSUME \A u \in Thread : Waits(u)' <=> Waits(u), pending' = pending, victim' = victim
      PROVE  PendingWaits'
  BY <1>1 DEF PendingWaits
<1>2. CASE UNCHANGED vars
  BY <1>2 DEF vars, PendingWaits, Waits
<1>3. ASSUME NEW t \in Thread, NEW x \in Mutex, HandOver(t, x) PROVE PendingWaits'
  <2> DEFINE n == Head(mtx[x].waitq)
  <2>1. n \in Thread /\ \A u \in Thread : Waits(u)' <=> Waits(u) /\ u # n
    BY <1>3, HandOverInv
  <2>2. victim' = victim /\ pending' = [pending EXCEPT ![n] = NoMutex]
    BY <1>3 DEF HandOver
  <2> HIDE DEF n
  <2> QED BY <2>1, <2>2, Types DEF PendingWaits
<1>4. ASSUME NEW t \in Thread, NEW x \in Mutex, MutexCall(t, x) PROVE PendingWaits'
  <2>1. CASE TakeAgain(t, x) \/ ReleaseNested(t, x)
    BY <1>1, <2>1, StillInv DEF TakeAgain, ReleaseNested
  <2>2. CASE \E c \in Ceilings : SetCeiling(t, x, c)
    BY <1>1, <2>2, StillInv DEF SetCeiling
  <2>3. CASE TakeFree(t, x) \/ ReleaseFree(t, x)
    BY <1>1, <2>3, FreeInv DEF TakeFree, ReleaseFree
  <2> QED BY <1>3, <1>4, <2>1, <2>2, <2>3 DEF MutexCall, Detach, Passes
<1>5. ASSUME NEW t \in Thread, NEW x \in Thread, Start(t, x) PROVE PendingWaits'
  BY <1>1, <1>5, StartInv DEF Start
<1>6. ASSUME NEW t \in Thread, Continue(t) PROVE PendingWaits'
  <2>1. CASE CallSchedule(t)
    BY <1>1, <2>1, ScheduleInv DEF CallSchedule
  <2>2. CASE TakeReturn(t)
    BY <1>1, <2>2, StillInv DEF TakeReturn
  <2> QED BY <1>6, <2>1, <2>2 DEF Continue, Passes
<1>7. ASSUME NEW v \in Victims, DeleteRemove(v) PROVE PendingWaits'
  <2>1. v \in Thread /\ victim = NoThread /\ \A u \in Thread : Waits(u)' <=> Waits(u) /\ u # v
    BY <1>7, RemoveInv
  <2>2. victim' = v /\ pending' = pending
    BY <1>7 DEF DeleteRemove
  <2> QED BY <2>1, <2>2, KernelAssumption DEF PendingWaits
<1>8. ASSUME NEW t \in Sleepers, Sleep(t) PROVE PendingWaits'
  BY <1>1, <1>8, SleepInv DEF Sleep
<1>9. ASSUME NEW t \in Thread, TimerFire(t) PROVE PendingWaits'
  <2>1. /\ t \in k.armed /\ pending' = pending /\ victim' = victim
        /\ \A u \in Thread : Waits(u)' <=> Waits(u) /\ u # t
    BY <1>9, TimerInv DEF TimerFire
  <2>2. ~ Waits(t)
    BY <2>1 DEF NothingFails, Waits
  <2> QED BY <1>1, <2>1, <2>2
<1>10. CASE SliceOver
  BY <1>1, <1>10, ScheduleInv DEF SliceOver
<1> QED BY <1>2, <1>4, <1>5, <1>6, <1>7, <1>8, <1>9, <1>10 DEF Next, Passes

(* Without assertions, too, the other steps are those of the mutexes only. *)
LEMMA ChainFramed ==
    ASSUME Chained, ~ Asserts, Steady
    PROVE  Framed
<1>1. ASSUME NEW t \in Thread, NEW x \in Mutex, TakeWait(t, x) PROVE Asks(t, x)
  BY <1>1, ChainAsks DEF Steady
<1>2. ASSUME NEW t \in Thread PROVE ~ TakeFail(t)
  BY DEF TakeFail, At, Chained, KeepInv, NothingFails
<1>3. ASSUME DeleteClose PROVE Closes
  BY <1>3, ChainCloses
<1> QED BY <1>1, <1>2, <1>3 DEF Framed

(* The four invariants are inductive. *)
LEMMA StepChain ==
    ASSUME Chained, ~ Asserts, Steady, [Next]_vars
    PROVE  Chained'
<1>1. MutInv /\ HeirInv /\ KeepInv /\ PendingWaits /\ Framed
  BY ChainFramed DEF Chained
<1>2. MutInv'
  BY <1>1, StepInv
<1>3. CASE Passes
  <2>1. ASSUME NEW t \in Thread PROVE ~ TakeFail(t)
    BY <1>1 DEF TakeFail, At, KeepInv, NothingFails
  <2>2. ASSUME NEW t \in Thread, NEW x \in Mutex, TakeWait(t, x) PROVE Chained'
    BY <2>2, ChainAsks DEF Steady
  <2>3. CASE DeleteClose
    BY <2>3, ChainCloses
  <2> QED BY <1>3, <2>1, <2>2, <2>3 DEF Passes
<1>4. CASE ~ Passes
  <2>1. HeirInv'
    BY <1>1, <1>2, <1>4, StepHeirs DEF Steady
  <2>2. KeepInv'
    BY <1>1, <1>2, <1>4, StepKeeps
  <2>3. PendingWaits'
    BY <1>1, <1>4, StepPending DEF KeepInv, Steady
  <2> QED BY <1>2, <2>1, <2>2, <2>3 DEF Chained
<1> QED BY <1>3, <1>4

-----------------------------------------------------------------------------
(* Theorems.  They are about a build that checks its assertions (Asserts), *)
(* where a change of priority that would have to go on to a second mutex   *)
(* stops at the assertion of rt_thread_suspend, or about one that does     *)
(* not, where it goes on along the chain of owners, while no wait can fail *)
(* and no mutex has a ceiling (Steady).                                    *)

(* The invariant of either. *)
Sound == MutInv /\ (Asserts \/ Chained)

(* It is inductive, and allows inheritance nothing but priorities. *)
LEMMA StepSound ==
    ASSUME Asserts \/ Steady, Sound, [Next]_vars
    PROVE  Framed /\ Sound'
<1>1. CASE Asserts
  <2>1. MutInv /\ Framed
    BY <1>1, AssertsFramed DEF Sound
  <2>2. MutInv'
    BY <2>1, StepInv
  <2> QED BY <1>1, <2>1, <2>2 DEF Sound
<1>2. CASE ~ Asserts
  <2>1. Chained /\ Steady
    BY <1>2 DEF Sound
  <2>2. Framed /\ Chained'
    BY <1>2, <2>1, ChainFramed, StepChain
  <2>3. MutInv'
    BY <2>2 DEF Chained
  <2> QED BY <2>2, <2>3 DEF Sound
<1> QED BY <1>1, <1>2

(* It holds at start-up ... *)
LEMMA InitSound == Init => Sound
BY InitInv, InitHeirs, InitKeep DEF Sound, Chained, PendingWaits, Init

(* ... and always. *)
LEMMA AlwaysSound == Asserts \/ Steady => (Spec => []Sound)
<1> SUFFICES ASSUME Asserts \/ Steady PROVE Spec => []Sound
  OBVIOUS
<1>1. Init => Sound
  BY InitSound
<1>2. Sound /\ [Next]_vars => Sound'
  BY StepSound
<1> QED BY <1>1, <1>2, PTL DEF Spec

(* Ownership is exact, whatever is taken, released, timed out, detached or *)
(* deleted in whatever order: nobody waits for a mutex that is free, and   *)
(* no thread counts a mutex of another one among those it has taken.       *)
THEOREM OwnershipCorrect == Asserts \/ Steady => (Spec => []OwnershipExact)
<1>1. Sound => OwnershipExact
  BY DEF Sound, MutInv
<1> SUFFICES ASSUME Asserts \/ Steady PROVE Spec => []OwnershipExact
  OBVIOUS
<1>2. Spec => []Sound
  BY AlwaysSound
<1> QED BY <1>1, <1>2, PTL

(* The wait list of a mutex links exactly the threads that wait for it,    *)
(* and mutex->priority is that of the first of them once every failed wait *)
(* has been reported.                                                      *)
THEOREM WaitListCorrect == Asserts \/ Steady => (Spec => []WaitListExact)
<1>1. Sound => WaitListExact
  <2> SUFFICES ASSUME MutInv, Up, NEW x \in Mutex
               PROVE  /\ LinkedOnce(mtx[x].waitq)
                      /\ \A t \in Thread :
                            Linked(t, mtx[x].waitq)
                            <=> /\ k.stat[t] = "suspend" /\ t # victim
                                /\ pc[t] \in {"wait", "return"}
                                /\ pending[t] = x
                      /\ mtx[x].alive /\ victim = NoThread
                              /\ (\A t \in Thread : ~ Failing(t, x))
                            => mtx[x].prio = HeadPrio(k, mtx[x].waitq)
    BY DEF WaitListExact, Sound
  <2>1. LinkedOnce(mtx[x].waitq)
    BY DEF MutInv, Lists
  <2>2. \A t \in Thread : Linked(t, mtx[x].waitq) <=> Waits(t) /\ pending[t] = x
    BY DEF MutInv, Lists
  <2>3. Settled(x) => mtx[x].prio = HeadPrio(k, mtx[x].waitq)
    BY DEF MutInv, Order
  <2> QED BY <2>1, <2>2, <2>3 DEF Waits, Settled
<1> SUFFICES ASSUME Asserts \/ Steady PROVE Spec => []WaitListExact
  OBVIOUS
<1>2. Spec => []Sound
  BY AlwaysSound
<1> QED BY <1>1, <1>2, PTL

(* The waiters are served in the order of their priorities, although       *)
(* inheritance changes priorities while they wait: it puts a waiter whose  *)
(* priority it changes in its new place.                                   *)
THEOREM WaitOrder == Asserts \/ Steady => (Spec => []WaitersInPrioOrder)
<1>1. Sound => WaitersInPrioOrder
  BY DEF Sound, MutInv, Order, WaitersInPrioOrder, SortedBy, InPrioOrder
<1> SUFFICES ASSUME Asserts \/ Steady PROVE Spec => []WaitersInPrioOrder
  OBVIOUS
<1>2. Spec => []Sound
  BY AlwaysSound
<1> QED BY <1>1, <1>2, PTL

(* The mutexes implement RecursiveLock for any number of threads and       *)
(* mutexes: one owner at a time, a take that returns RT_EOK has made the   *)
(* caller the owner and any other has not, a mutex that somebody waits for *)
(* is handed over and never left free.                                     *)
THEOREM Locks == Asserts \/ Steady => (Spec => ImplementsLock)
<1>1. Init => Lock!Init
  <2> SUFFICES ASSUME Init PROVE Lock!Init
    OBVIOUS
  <2>1. \A t \in Thread : AskedFor(t) = NoMutex /\ TakeState(t) = "idle"
    <3> TAKE t \in Thread
    <3>1. /\ pending[t] = NoMutex /\ pc[t] = "user" /\ t # victim
          /\ k.stat[t] # "close"
      BY KernelAssumption DEF Init
    <3> QED BY <3>1 DEF AskedFor, TakeState
  <2>2. \A x \in Mutex : mtx[x].owner = NoThread /\ mtx[x].hold = 0
    BY DEF Init
  <2> QED BY <2>1, <2>2 DEF Lock!Init
<1> SUFFICES ASSUME Asserts \/ Steady PROVE Spec => ImplementsLock
  OBVIOUS
<1>2. Sound /\ [Next]_vars
      => [Lock!Next]_<<[x \in Mutex |-> mtx[x].owner], [x \in Mutex |-> mtx[x].hold],
                       [t \in Thread |-> AskedFor(t)], [t \in Thread |-> TakeState(t)]>>
  BY StepSound, StepLocks DEF LockStep, Sound
<1>3. Spec => []Sound
  BY AlwaysSound
<1> QED BY <1>1, <1>2, <1>3, PTL DEF Spec, ImplementsLock, Lock!Spec

(* Where mutexes have no ceilings, owners have inherited. *)
LEMMA AlwaysHeirs ==
    (Asserts /\ Ceilings = {}) \/ Steady => (Spec => [](MutInv /\ HeirInv))
<1> SUFFICES ASSUME (Asserts /\ Ceilings = {}) \/ Steady PROVE Spec => [](MutInv /\ HeirInv)
  OBVIOUS
<1>1. Init => HeirInv
  BY InitHeirs
<1>2. Sound /\ HeirInv /\ [Next]_vars => HeirInv'
  <2> SUFFICES ASSUME Sound, HeirInv, [Next]_vars PROVE HeirInv'
    OBVIOUS
  <2>1. CASE Asserts
    <3>1. MutInv /\ MutInv' /\ Ceilings = {}
      BY <2>1, StepSound DEF Sound, Steady
    <3> QED BY <2>1, <3>1, StepHeirs
  <2>2. CASE ~ Asserts
    <3>1. Sound'
      BY <2>2, StepSound
    <3> QED BY <2>2, <3>1 DEF Sound, Chained
  <2> QED BY <2>1, <2>2
<1>3. Spec => []Sound
  BY AlwaysSound
<1>4. Sound => MutInv
  BY DEF Sound
<1> QED BY <1>1, <1>2, <1>3, <1>4, PTL DEF Spec

(* Nobody waits for a mutex whose owner runs at a lower priority than its  *)
(* own: what rt_mutex_take, rt_mutex_release, a wait that fails and        *)
(* rt_mutex_drop_thread do to the priorities of owners keeps every owner   *)
(* above its waiters, whatever times out or is deleted meanwhile, and in   *)
(* the second kind of build along the whole chain of owners that wait.     *)
THEOREM Heirs == (Asserts /\ Ceilings = {}) \/ Steady => (Spec => []OwnerInherits)
<1> SUFFICES ASSUME (Asserts /\ Ceilings = {}) \/ Steady PROVE Spec => []OwnerInherits
  OBVIOUS
<1>1. MutInv /\ HeirInv => OwnerInherits
  <2> SUFFICES ASSUME MutInv, HeirInv, Up, NEW x \in Mutex, NEW i \in 1 .. Len(mtx[x].waitq)
               PROVE  k.prio[mtx[x].owner] <= k.prio[mtx[x].waitq[i]]
    BY DEF OwnerInherits
  <2> DEFINE u == mtx[x].waitq[i]
             o == mtx[x].owner
  <2>1. u \in Thread /\ Linked(u, mtx[x].waitq)
    BY Fields1 DEF Linked
  <2>2. o \in Thread /\ x \in taken[o]
    BY <2>1, Waiter, Types DEF HeirInv, Held
  <2>3. k.prio[o] <= mtx[x].prio /\ mtx[x].prio <= k.prio[u]
    BY <2>1, <2>2 DEF HeirInv, Boosted, Covers
  <2>4. k.prio[o] \in Int /\ mtx[x].prio \in Int /\ k.prio[u] \in Int
    BY <2>1, <2>2, Types, PriosCompare
  <2> QED BY <2>3, <2>4
<1>2. Spec => [](MutInv /\ HeirInv)
  BY AlwaysHeirs
<1> QED BY <1>1, <1>2, PTL

(* Without ceilings, time limits and detached mutexes a thread runs at the *)
(* priority its waiters give it, no lower and for no longer: whatever is   *)
(* released, in whatever order, along whatever chain of owners, and        *)
(* whichever waiter is deleted (when both parts of the deletion are over). *)
(* Each of the other two leaves an inherited priority behind in some run   *)
(* (README, findings).                                                     *)
THEOREM Returns == Steady => (Spec => []Inheritance)
<1> SUFFICES ASSUME Steady PROVE Spec => []Inheritance
  OBVIOUS
<1>1. Spec => [](MutInv /\ HeirInv)
  BY AlwaysHeirs
<1>2. Spec => []Sound
  BY AlwaysSound
<1>3. Spec => []KeepInv
  <2>1. Init => KeepInv
    BY InitKeep
  <2>2. Sound /\ HeirInv /\ KeepInv /\ [Next]_vars => KeepInv'
    <3> SUFFICES ASSUME Sound, HeirInv, KeepInv, [Next]_vars PROVE KeepInv'
      OBVIOUS
    <3>1. Sound' /\ Framed
      BY StepSound
    <3>2. CASE Asserts
      <4>1. MutInv /\ MutInv' /\ (Passes => Asserts)
        BY <3>1, <3>2 DEF Sound
      <4> QED BY <3>1, <4>1, StepKeeps
    <3>3. CASE ~ Asserts
      BY <3>1, <3>3 DEF Sound, Chained
    <3> QED BY <3>2, <3>3
  <2> QED BY <1>1, <1>2, <2>1, <2>2, PTL DEF Spec
<1>4. MutInv /\ HeirInv /\ KeepInv => PriorityReturned
  <2> SUFFICES ASSUME MutInv, HeirInv, KeepInv, Up, NEW t \in Thread
               PROVE  k.prio[t] = MutexPriority(mtx, taken[t], t)
    BY DEF PriorityReturned
  <2> QED BY PriorityIsGiven
<1>5. Spec => []OwnerInherits
  BY Heirs
<1>6. OwnerInherits /\ PriorityReturned => Inheritance
  BY DEF Inheritance
<1> QED BY <1>1, <1>3, <1>4, <1>5, <1>6, PTL

=============================================================================
