---------------------------- MODULE DelayProofs ----------------------------
(***************************************************************************)
(* Theorems about what is done at its time.                                *)
(*                                                                         *)
(* Timer: the flags of the timers agree with the lists, no timer is        *)
(* overlooked when its time has come, and the sorted list with ticks that  *)
(* wrap round implements AlarmClock, whose time does not.                  *)
(*                                                                         *)
(* WorkQueue: for any number of items and callers each item is linked in   *)
(* one list, no delayed item is stranded, and the queue implements         *)
(* WorkList.                                                               *)
(***************************************************************************)
EXTENDS Timer, WorkQueue, KernelProofs

-----------------------------------------------------------------------------
(* The lists and the flags *)

(* The local list of rt_timer_check has the timer in the call-back, if any. *)
OneCalled ==
    /\ pc = "call" => called \in Timer
    /\ pc # "call" => called = NoTimer
    /\ \A t \in Timer : Linked(t, local) => pc = "call" /\ t = called

Wired == TypeOK /\ ActiveIsLinked /\ OneCalled /\ stopping \subseteq alive

(* A sum of ticks is a tick. *)
LEMMA PlusType ==
    ASSUME NEW a \in TickType, NEW n \in 0 .. W - 1
    PROVE  Plus(a, n) \in TickType
BY TimerAssumption DEF Plus, TickType

(* RT_TICK_MAX / 2 is half of the range, rounded down. *)
LEMMA HalfFacts ==
    /\ W \in Nat /\ W > 4 /\ Half \in Nat /\ Half >= 2
    /\ 2 * Half <= W - 1 /\ W - 2 <= 2 * Half
BY TimerAssumption DEF Half

(* Delays and jumps are ticks. *)
LEMMA DelayFacts ==
    /\ \A d \in Delays : d \in 1 .. Half - 1 /\ d \in 0 .. W - 1 /\ d \in Int
    /\ \A n \in Jumps \cup {1} : n \in 1 .. W - 1 /\ n \in 0 .. W - 1 /\ n \in Int
BY HalfFacts, TimerAssumption

(* The place where a timer goes is one of the list, or its end. *)
LEMMA PlaceType ==
    ASSUME NEW q \in Seq(Timer), NEW at
    PROVE  Place(q, at) \in 1 .. Len(q) + 1
<1> DEFINE later == {i \in 1 .. Len(q) : LET ahead == Minus(timeout[q[i]], at)
                                         IN  ahead # 0 /\ ahead < Half}
<1>1. CASE later = {}
  BY <1>1 DEF Place
<1>2. CASE later # {}
  <2>1. later \in SUBSET Nat /\ \A i \in later : i \in 1 .. Len(q)
    OBVIOUS
  <2>2. Place(q, at) = CHOOSE i \in later : \A j \in later : i <= j
    BY <1>2, Zenon DEF Place
  <2> HIDE DEF later
  <2>3. \E i \in later : \A j \in later : i <= j
    BY <1>2, <2>1, MinOfIndices
  <2>4. Place(q, at) \in later
    BY <2>2, <2>3
  <2>5. Place(q, at) \in 1 .. Len(q)
    BY <2>1, <2>4
  <2> QED BY <2>5
<1> QED BY <1>1, <1>2

(* rt_timer_start links the timer. *)
LEMMA StartWires ==
    ASSUME Wired, NEW t \in alive, StartTimer(t), alive' = alive,
           tick' = tick, periodic' = periodic
    PROVE  /\ list' \in Seq(Timer) /\ local' \in Seq(Timer)
           /\ timeout' \in [Timer -> TickType]
           /\ active' \subseteq Timer
           /\ ActiveIsLinked'
           /\ ~ Linked(t, local')
           /\ \A x \in Timer : Linked(x, local') => Linked(x, local)
<1> DEFINE at == Plus(tick, delay[t])
           rest == RemoveFirst(list, t)
           i == Place(rest, at)
<1>1. /\ TypeOK /\ t \in Timer /\ at \in TickType
      /\ LinkedOnce(list) /\ LinkedOnce(local)
  BY DelayFacts, PlusType DEF Wired, TypeOK, ActiveIsLinked
<1>2. /\ rest \in Seq(Timer) /\ LinkedOnce(rest) /\ ~ Linked(t, rest)
      /\ \A x : x # t => (Linked(x, rest) <=> Linked(x, list))
  BY <1>1, RemoveFirstFacts DEF TypeOK
<1>3. /\ local' \in Seq(Timer) /\ LinkedOnce(local') /\ ~ Linked(t, local')
      /\ \A x : x # t => (Linked(x, local') <=> Linked(x, local))
  BY <1>1, RemoveFirstFacts DEF TypeOK, StartTimer
<1>4. /\ list' = InsertAt(rest, i, t) /\ timeout' = [timeout EXCEPT ![t] = at]
      /\ active' = active \cup {t}
  BY DEF StartTimer
<1> HIDE DEF rest, at
<1>5. i \in 1 .. Len(rest) + 1
  BY <1>2, PlaceType
<1> HIDE DEF i
<1>6. /\ list' \in Seq(Timer) /\ LinkedOnce(list')
      /\ \A x : Linked(x, list') <=> x = t \/ Linked(x, rest)
  BY <1>1, <1>2, <1>4, <1>5, InsertAtFacts
<1>7. ActiveIsLinked'
  <2> SUFFICES ASSUME NEW x \in Timer
               PROVE  /\ ~ (Linked(x, list') /\ Linked(x, local'))
                      /\ Linked(x, list') \/ Linked(x, local') => x \in alive'
                      /\ Linked(x, list') => x \in active'
                      /\ x \notin Tuned =>
                         (x \in active' <=> Linked(x, list') \/ (Linked(x, local') /\ x \in periodic'))
    BY <1>3, <1>6 DEF ActiveIsLinked
  <2>1. /\ ~ (Linked(x, list) /\ Linked(x, local))
        /\ Linked(x, list) \/ Linked(x, local) => x \in alive
        /\ Linked(x, list) => x \in active
        /\ x \notin Tuned => (x \in active <=> Linked(x, list) \/ (Linked(x, local) /\ x \in periodic))
    BY DEF Wired, ActiveIsLinked
  <2>2. CASE x = t
    BY <1>3, <1>4, <1>6, <2>2
  <2>3. CASE x # t
    BY <1>2, <1>3, <1>4, <1>6, <2>1, <2>3
  <2> QED BY <2>2, <2>3
<1>8. timeout' \in [Timer -> TickType] /\ active' \subseteq Timer
  BY <1>1, <1>4 DEF TypeOK
<1> QED BY <1>1, <1>3, <1>6, <1>7, <1>8

(* _timer_remove unlinks it. *)
LEMMA StopWires ==
    ASSUME Wired, NEW t \in Timer, StopTimer(t), periodic' = periodic,
           alive' = alive \/ alive' = alive \ {t}
    PROVE  /\ list' \in Seq(Timer) /\ local' \in Seq(Timer)
           /\ active' \subseteq Timer
           /\ ActiveIsLinked'
           /\ \A x \in Timer : Linked(x, local') => Linked(x, local)
<1>1. TypeOK /\ LinkedOnce(list) /\ LinkedOnce(local)
  BY DEF Wired, ActiveIsLinked
<1>2. /\ list' \in Seq(Timer) /\ LinkedOnce(list') /\ ~ Linked(t, list')
      /\ \A x : x # t => (Linked(x, list') <=> Linked(x, list))
  BY <1>1, RemoveFirstFacts DEF TypeOK, StopTimer
<1>3. /\ local' \in Seq(Timer) /\ LinkedOnce(local') /\ ~ Linked(t, local')
      /\ \A x : x # t => (Linked(x, local') <=> Linked(x, local))
  BY <1>1, RemoveFirstFacts DEF TypeOK, StopTimer
<1>4. active' = active \ {t}
  BY DEF StopTimer
<1>5. ActiveIsLinked'
  <2> SUFFICES ASSUME NEW x \in Timer
               PROVE  /\ ~ (Linked(x, list') /\ Linked(x, local'))
                      /\ Linked(x, list') \/ Linked(x, local') => x \in alive'
                      /\ Linked(x, list') => x \in active'
                      /\ x \notin Tuned =>
                         (x \in active' <=> Linked(x, list') \/ (Linked(x, local') /\ x \in periodic'))
    BY <1>2, <1>3 DEF ActiveIsLinked
  <2>1. /\ ~ (Linked(x, list) /\ Linked(x, local))
        /\ Linked(x, list) \/ Linked(x, local) => x \in alive
        /\ Linked(x, list) => x \in active
        /\ x \notin Tuned => (x \in active <=> Linked(x, list) \/ (Linked(x, local) /\ x \in periodic))
    BY DEF Wired, ActiveIsLinked
  <2>2. CASE x = t
    BY <1>2, <1>3, <1>4, <2>2
  <2>3. CASE x # t
    BY <1>2, <1>3, <1>4, <2>1, <2>3
  <2> QED BY <2>2, <2>3
<1> QED BY <1>1, <1>2, <1>3, <1>4, <1>5 DEF TypeOK

(* With no timer started, flags and lists agree. *)
LEMMA WiredInit == Init => Wired
<1> SUFFICES ASSUME Init PROVE Wired
  OBVIOUS
<1>1. TypeOK
  BY HalfFacts DEF Init, TypeOK, TickType
<1>2. list = <<>> /\ local = <<>> /\ active = {} /\ pc = "open" /\ called = NoTimer
      /\ stopping = {}
  BY DEF Init
<1>3. /\ \A t : ~ Linked(t, list) /\ ~ Linked(t, local)
      /\ LinkedOnce(list) /\ LinkedOnce(local)
  BY <1>2 DEF Linked, LinkedOnce
<1> QED BY <1>1, <1>2, <1>3 DEF Wired, ActiveIsLinked, OneCalled

(* One step per action: what changes no list and no flag is easy, what     *)
(* starts or stops a timer has its lemma.                                  *)
LEMMA WiredStep == Wired /\ [Next]_vars => Wired'
<1> SUFFICES ASSUME Wired, [Next]_vars
             PROVE  Wired'
  OBVIOUS
<1>1. TypeOK /\ ActiveIsLinked /\ OneCalled /\ stopping \subseteq alive
  BY DEF Wired
<1>2. ASSUME NEW t \in Timer, Start(t) PROVE Wired'
  <2>1. /\ t \in alive /\ StartTimer(t)
        /\ UNCHANGED <<tick, delay, periodic, alive, stopping, pc, called, now, pm, seen>>
    BY <1>2 DEF Start
  <2>2. /\ list' \in Seq(Timer) /\ local' \in Seq(Timer)
        /\ timeout' \in [Timer -> TickType] /\ active' \subseteq Timer
        /\ ActiveIsLinked'
        /\ \A x \in Timer : Linked(x, local') => Linked(x, local)
    BY <2>1, StartWires
  <2>3. TypeOK'
    BY <1>1, <2>1, <2>2 DEF TypeOK
  <2>4. OneCalled'
    BY <1>1, <2>1, <2>2 DEF OneCalled
  <2> QED BY <1>1, <2>1, <2>2, <2>3, <2>4 DEF Wired
<1>3. ASSUME NEW t \in Timer, StopLook(t) PROVE Wired'
  <2>1. TypeOK'
    BY <1>1, <1>3 DEF StopLook, TypeOK, flags
  <2> QED BY <1>1, <1>3, <2>1 DEF StopLook, Wired, ActiveIsLinked, OneCalled, flags
<1>4. ASSUME NEW t \in Timer, StopTimer(t), stopping' \subseteq stopping,
             UNCHANGED <<tick, timeout, delay, periodic, alive, pc, called, now, pm, seen>>
      PROVE  Wired'
  <2>1. /\ list' \in Seq(Timer) /\ local' \in Seq(Timer) /\ active' \subseteq Timer
        /\ ActiveIsLinked'
        /\ \A x \in Timer : Linked(x, local') => Linked(x, local)
    BY <1>4, StopWires
  <2>2. TypeOK'
    BY <1>1, <1>4, <2>1 DEF TypeOK
  <2>3. OneCalled'
    BY <1>1, <1>4, <2>1 DEF OneCalled
  <2> QED BY <1>1, <1>4, <2>1, <2>2, <2>3 DEF Wired
<1>5. ASSUME NEW t \in Timer, StopEnd(t) PROVE Wired'
  BY <1>4, <1>5 DEF StopEnd
<1>6. ASSUME NEW t \in Timer, StopInCall(t) PROVE Wired'
  BY <1>4, <1>6 DEF StopInCall
<1>7. ASSUME NEW t \in Timer, Detach(t) PROVE Wired'
  <2>1. /\ t \notin stopping /\ StopTimer(t) /\ alive' = alive \ {t}
        /\ UNCHANGED <<tick, timeout, delay, periodic, stopping, pc, called, now, pm, seen>>
    BY <1>7 DEF Detach
  <2>2. /\ list' \in Seq(Timer) /\ local' \in Seq(Timer) /\ active' \subseteq Timer
        /\ ActiveIsLinked'
        /\ \A x \in Timer : Linked(x, local') => Linked(x, local)
    BY <2>1, StopWires
  <2>3. TypeOK'
    BY <1>1, <2>1, <2>2 DEF TypeOK
  <2>4. OneCalled'
    BY <1>1, <2>1, <2>2 DEF OneCalled
  <2> QED BY <1>1, <2>1, <2>2, <2>3, <2>4 DEF Wired
<1>8. ASSUME NEW t \in Timer, t \in Tuned, NEW d \in Delays, NEW p \in BOOLEAN, InitTimer(t, d, p)
      PROVE  Wired'
  <2>1. /\ t \notin alive /\ alive' = alive \cup {t} /\ active' = active \ {t}
        /\ delay' = [delay EXCEPT ![t] = d] /\ timeout' = [timeout EXCEPT ![t] = 0]
        /\ periodic' \subseteq periodic \cup {t} /\ periodic \subseteq periodic' \cup {t}
        /\ UNCHANGED <<tick, list, local, stopping, pc, called, now, pm, seen>>
    BY <1>8 DEF InitTimer
  <2>2. TypeOK'
    <3>1. 0 \in TickType
      BY HalfFacts DEF TickType
    <3> QED BY <1>1, <2>1, <3>1 DEF TypeOK
  <2>3. ~ Linked(t, list) /\ ~ Linked(t, local)
    BY <1>1, <2>1 DEF ActiveIsLinked
  <2>4. ActiveIsLinked'
    BY <1>1, <2>1, <2>3 DEF ActiveIsLinked
  <2> QED BY <1>1, <2>1, <2>2, <2>4 DEF Wired, OneCalled
<1>9. ASSUME NEW t \in Timer, NEW d \in Delays, SetTime(t, d) PROVE Wired'
  <2>1. TypeOK'
    BY <1>1, <1>9 DEF SetTime, TypeOK, flags
  <2> QED BY <1>1, <1>9, <2>1 DEF SetTime, Wired, ActiveIsLinked, OneCalled, flags
<1>10. ASSUME NEW t \in Timer, t \in Tuned, NEW p \in BOOLEAN, SetMode(t, p) PROVE Wired'
  <2>1. /\ periodic' \subseteq periodic \cup {t} /\ periodic \subseteq periodic' \cup {t}
        /\ UNCHANGED <<tick, list, local, timeout, delay, active, alive, stopping, pc, called,
                       now, pm, seen>>
    BY <1>10 DEF SetMode
  <2>2. TypeOK'
    BY <1>1, <2>1 DEF TypeOK
  <2>3. ActiveIsLinked'
    <3>1. \A x \in Timer \ Tuned : x \in periodic' <=> x \in periodic
      BY <1>10, <2>1
    <3>2. /\ LinkedOnce(list) /\ LinkedOnce(local)
          /\ list' = list /\ local' = local /\ active' = active /\ alive' = alive
      BY <1>1, <2>1 DEF ActiveIsLinked
    <3>3. \A x \in Timer \ Tuned :
             x \in active' <=> Linked(x, list') \/ (Linked(x, local') /\ x \in periodic')
      BY <1>1, <3>1, <3>2 DEF ActiveIsLinked
    <3>4. \A x \in Timer :
             /\ ~ (Linked(x, list') /\ Linked(x, local'))
             /\ Linked(x, list') \/ Linked(x, local') => x \in alive'
             /\ Linked(x, list') => x \in active'
      BY <1>1, <3>2 DEF ActiveIsLinked
    <3> QED BY <3>2, <3>3, <3>4 DEF ActiveIsLinked
  <2> QED BY <1>1, <2>1, <2>2, <2>3 DEF Wired, OneCalled
<1>11. ASSUME NEW n \in 0 .. W - 1, tick' = Plus(tick, n),
              pc = "open", pc' \in {"open", "ticked"}, pm' \in {"awake", "slept", "read"},
              UNCHANGED <<list, local, timeout, delay, flags, stopping, called, now, seen>>
       PROVE  Wired'
  <2>1. TypeOK'
    <3>1. tick' \in TickType
      BY <1>1, <1>11, PlusType DEF TypeOK
    <3> QED BY <1>1, <1>11, <3>1 DEF TypeOK, flags
  <2> QED BY <1>1, <1>11, <2>1 DEF Wired, ActiveIsLinked, OneCalled, flags
<1>12. CASE Tick
  <2>1. 1 \in 0 .. W - 1
    BY HalfFacts
  <2>2. /\ tick' = Plus(tick, 1) /\ pc = "open"
        /\ pc' \in {"open", "ticked"} /\ pm' \in {"awake", "slept", "read"}
        /\ UNCHANGED <<list, local, timeout, delay, flags, stopping, called, now, seen>>
    BY <1>1, <1>12 DEF Tick, TypeOK
  <2> QED BY <1>11, <2>1, <2>2
<1>13. ASSUME NEW n \in Jumps, Sleep(n) PROVE Wired'
  <2>1. n \in 0 .. W - 1
    BY DelayFacts
  <2>2. /\ tick' = Plus(tick, n) /\ pc = "open"
        /\ pc' \in {"open", "ticked"} /\ pm' \in {"awake", "slept", "read"}
        /\ UNCHANGED <<list, local, timeout, delay, flags, stopping, called, now, seen>>
    BY <1>13 DEF Sleep
  <2> QED BY <1>11, <2>1, <2>2
<1>14. CASE CheckBegin
  <2>1. TypeOK'
    BY <1>1, <1>14 DEF CheckBegin, TypeOK, flags
  <2> QED BY <1>1, <1>14, <2>1 DEF CheckBegin, Wired, ActiveIsLinked, OneCalled, flags
<1>15. CASE CheckCall
  <2> DEFINE h == Head(list)
  <2>1. /\ pc = "check" /\ list # <<>> /\ list' = Tail(list) /\ local' = <<h>>
        /\ active' = (IF h \in periodic THEN active ELSE active \ {h})
        /\ called' = h /\ pc' = "call"
        /\ UNCHANGED <<tick, timeout, delay, periodic, alive, stopping, now, pm, seen>>
    BY <1>15 DEF CheckCall
  <2>2. /\ h \in Timer /\ Linked(h, list) /\ list' \in Seq(Timer) /\ LinkedOnce(list')
        /\ \A x : Linked(x, list') <=> Linked(x, list) /\ x # h
    BY <1>1, <2>1, HeadFacts DEF TypeOK, ActiveIsLinked
  <2> HIDE DEF h
  <2>3. /\ local' \in Seq(Timer) /\ LinkedOnce(local')
        /\ \A x : Linked(x, local') <=> x = h
    BY <2>1, <2>2 DEF Linked, LinkedOnce
  <2>4. \A x \in Timer : ~ Linked(x, local)
    BY <1>1, <2>1 DEF OneCalled
  <2>5. TypeOK'
    BY <1>1, <2>1, <2>2, <2>3 DEF TypeOK
  <2>6. ActiveIsLinked'
    BY <1>1, <2>1, <2>2, <2>3, <2>4 DEF ActiveIsLinked
  <2> QED BY <1>1, <2>1, <2>2, <2>3, <2>5, <2>6 DEF Wired, OneCalled
<1>16. CASE CallEnd
  <2>1. /\ pc = "call" /\ now' = tick /\ pc' = "check" /\ called' = NoTimer
        /\ UNCHANGED <<tick, delay, periodic, alive, stopping, pm, seen>>
    BY <1>16 DEF CallEnd
  <2>2. CASE local # <<>> /\ called \in active /\ StartTimer(called)
    <3>1. called \in alive
      BY <1>1, <2>1, <2>2, EmptyFacts DEF ActiveIsLinked, OneCalled, TypeOK
    <3>2. /\ list' \in Seq(Timer) /\ local' \in Seq(Timer)
          /\ timeout' \in [Timer -> TickType] /\ active' \subseteq Timer
          /\ ActiveIsLinked' /\ ~ Linked(called, local')
          /\ \A x \in Timer : Linked(x, local') => Linked(x, local)
      BY <2>1, <2>2, <3>1, StartWires
    <3>3. TypeOK'
      BY <1>1, <2>1, <3>2 DEF TypeOK
    <3>4. OneCalled'
      BY <1>1, <2>1, <3>2 DEF OneCalled
    <3> QED BY <1>1, <2>1, <3>2, <3>3, <3>4 DEF Wired
  <2>3. CASE /\ ~ (local # <<>> /\ called \in periodic /\ called \in active)
             /\ local' = <<>> /\ UNCHANGED <<list, timeout, active>>
    <3>1. local' \in Seq(Timer) /\ LinkedOnce(local') /\ \A x : ~ Linked(x, local')
      BY <2>3 DEF Linked, LinkedOnce
    <3>2. TypeOK'
      BY <1>1, <2>1, <2>3, <3>1 DEF TypeOK
    <3>3. \A x \in Timer : ~ (Linked(x, local) /\ x \in periodic /\ x \in active)
      BY <1>1, <2>3, EmptyFacts DEF OneCalled, TypeOK
    <3>4. ActiveIsLinked'
      BY <1>1, <2>1, <2>3, <3>1, <3>3 DEF ActiveIsLinked
    <3> QED BY <1>1, <2>1, <3>1, <3>2, <3>4 DEF Wired, OneCalled
  <2> QED BY <1>16, <2>2, <2>3 DEF CallEnd
<1>17. CASE CheckEnd
  <2>1. TypeOK'
    BY <1>1, <1>17, HalfFacts DEF CheckEnd, TypeOK, TickType, flags
  <2> QED BY <1>1, <1>17, <2>1 DEF CheckEnd, Wired, ActiveIsLinked, OneCalled, flags
<1>18. CASE PmRead
  <2>1. TypeOK'
    BY <1>1, <1>18 DEF PmRead, TypeOK, flags
  <2> QED BY <1>1, <1>18, <2>1 DEF PmRead, Wired, ActiveIsLinked, OneCalled, flags
<1>19. CASE PmCheck
  <2>1. TypeOK'
    BY <1>1, <1>19, HalfFacts DEF PmCheck, TypeOK, TickType, flags
  <2> QED BY <1>1, <1>19, <2>1 DEF PmCheck, Wired, ActiveIsLinked, OneCalled, flags
<1>20. CASE UNCHANGED vars
  <2>1. TypeOK'
    BY <1>1, <1>20 DEF vars, flags, TypeOK
  <2> QED BY <1>1, <1>20, <2>1 DEF vars, flags, Wired, ActiveIsLinked, OneCalled
<1>21. ASSUME NEW t \in Timer, Stop(t) PROVE Wired'
  BY <1>3, <1>5, <1>6, <1>21 DEF Stop
<1>22. ASSUME NEW t \in Timer, t \in Tuned, Tune(t) PROVE Wired'
  BY <1>7, <1>8, <1>9, <1>10, <1>22 DEF Tune
<1>23. CASE Check
  BY <1>14, <1>15, <1>16, <1>17, <1>23 DEF Check
<1>24. CASE PowerManager
  BY <1>13, <1>18, <1>19, <1>24 DEF PowerManager
<1> QED
  <2>1. Stopped \subseteq Timer /\ Tuned \subseteq Timer
    BY TimerAssumption
  <2> QED BY <1>2, <1>12, <1>20, <1>21, <1>22, <1>23, <1>24, <2>1 DEF Next

(* The lists are wired in every reachable state. *)
LEMMA WiredAlways == Spec => []Wired
BY WiredInit, WiredStep, PTL DEF Spec

(* The variables keep their types. *)
THEOREM TypeCorrect == Spec => []TypeOK
<1>1. Wired => TypeOK
  BY DEF Wired
<1> QED BY <1>1, WiredAlways, PTL

(* Whatever the call-backs do, no timer is in two lists or in one twice,   *)
(* none that is gone is linked, and rt_timer_stop finds each that is going *)
(* to fire; and none that nobody controls keeps its flag outside a list.   *)
THEOREM FlagsAgree == Spec => []ActiveIsLinked
<1>1. Wired => ActiveIsLinked
  BY DEF Wired
<1> QED BY <1>1, WiredAlways, PTL

-----------------------------------------------------------------------------
(* Ticks that wrap round *)

(* From the tick a to the tick b, negative if b is the earlier one. *)
Dist(a, b) == IF Minus(a, b) < Half THEN 0 - Minus(a, b) ELSE Minus(b, a)

(* A difference of ticks is a tick. *)
LEMMA MinusType ==
    ASSUME NEW a \in TickType, NEW b \in TickType
    PROVE  Minus(a, b) \in 0 .. W - 1
BY HalfFacts DEF Minus, TickType

(* A signed distance of ticks is an integer. *)
LEMMA DistType ==
    ASSUME NEW a \in TickType, NEW b \in TickType
    PROVE  Dist(a, b) \in Int
BY HalfFacts DEF Dist, Minus, TickType

(* When n ticks pass, what is ahead is n nearer, or late by n more, until  *)
(* half of the range is reached.                                           *)
LEMMA DistPass ==
    ASSUME NEW a \in TickType, NEW b \in TickType, NEW n \in 0 .. W - 1,
           0 - Half < Dist(a, b) - n
    PROVE  Dist(Plus(a, n), b) = Dist(a, b) - n
BY HalfFacts DEF Dist, Minus, Plus, TickType

(* A timer is due a delay after it is started. *)
LEMMA DistOfPlus ==
    ASSUME NEW a \in TickType, NEW d \in 1 .. Half - 1
    PROVE  Dist(a, Plus(a, d)) = d
BY HalfFacts DEF Dist, Minus, Plus, TickType

(* The comparison of two ticks in rt_timer_start. *)
LEMMA DistCompare ==
    ASSUME NEW a \in TickType, NEW b \in TickType, NEW d \in 1 .. Half - 1,
           Dist(a, b) <= Half - 1, d - Dist(a, b) <= W - Half
    PROVE  Minus(b, Plus(a, d)) # 0 /\ Minus(b, Plus(a, d)) < Half <=> d < Dist(a, b)
BY HalfFacts DEF Dist, Minus, Plus, TickType

(* The comparison in rt_timer_check. *)
LEMMA DistDue ==
    ASSUME NEW a \in TickType, NEW b \in TickType
    PROVE  Minus(a, b) < Half <=> Dist(a, b) <= 0
BY HalfFacts DEF Dist, Minus, TickType

(* The same by a tick s that is k old: it does not show what lies ahead as *)
(* due.                                                                    *)
LEMMA DistStale ==
    ASSUME NEW a \in TickType, NEW b \in TickType, NEW s \in TickType, NEW k \in Nat,
           Minus(a, s) <= k, 0 < Dist(a, b), Dist(a, b) + k <= W - Half
    PROVE  ~ (Minus(s, b) < Half)
BY HalfFacts DEF Dist, Minus, TickType

(* After one tick more a stale tick is one tick older. *)
LEMMA MinusPass ==
    ASSUME NEW a \in TickType, NEW b \in TickType, NEW k \in Nat, Minus(a, b) < k
    PROVE  Minus(Plus(a, 1), b) <= k
BY HalfFacts DEF Minus, Plus, TickType

-----------------------------------------------------------------------------
(* The list is sorted, and nothing in it is overlooked *)

left == [t \in Timer |-> Left(t)]

(* No timer in the list is late by more than n ticks; if n is -1, none is  *)
(* due.                                                                    *)
LateBy(n) == \A t \in Timer : Linked(t, list) => 0 <= Left(t) + n

WithinDelays == \A t \in Timer : Linked(t, list) => \E d \in Delays : Left(t) <= d

(* What rt_timer_check rests on: the list is sorted; a timer is late by as *)
(* much as the system slept, one tick less until the tick comes; none is   *)
(* due in between, except for the idle thread on its way from rt_tick_set  *)
(* to rt_timer_check; and if the tick has come before that, what the idle  *)
(* thread has read is stale, but nothing is due.                           *)
Timely ==
    /\ SortedBy(list, left)
    /\ WithinDelays
    /\ \E n \in Jumps \cup {0} : LateBy(n) /\ (pc = "open" => LateBy(n - 1))
    /\ pc = "open" /\ pm = "awake" => LateBy(0 - 1)
    /\ pc = "open" /\ pm = "read" => LateBy(0 - 1) \/ tick = seen
    /\ pm = "read" => Minus(tick, seen) <= Stale
    /\ pc = "check" => now = tick \/ (LateBy(0 - 1) /\ Minus(tick, now) <= Stale)

(* The ticks that are left, of a timer that is linked and of one that is   *)
(* not.                                                                    *)
LEMMA LeftFacts ==
    ASSUME TypeOK
    PROVE  /\ \A t \in Timer : Left(t) = IF Linked(t, list) THEN Dist(tick, timeout[t]) ELSE 0
           /\ left \in [Timer -> Int]
           /\ \A t \in Timer : left[t] = Left(t) /\ Left(t) \in Int
<1>1. \A t \in Timer : Left(t) = IF Linked(t, list) THEN Dist(tick, timeout[t]) ELSE 0
  BY DEF Left, Due, Dist
<1>2. \A t \in Timer : Left(t) \in Int
  <2> TAKE t \in Timer
  <2>1. Dist(tick, timeout[t]) \in Int
    BY DistType DEF TypeOK
  <2> QED BY <1>1, <2>1
<1> QED BY <1>1, <1>2 DEF left

(* Whatever is late by n ticks is late by m at most if n <= m. *)
LEMMA LateByMore ==
    ASSUME TypeOK, NEW n \in Int, NEW m \in Int, n <= m, LateBy(n)
    PROVE  LateBy(m)
<1> SUFFICES ASSUME NEW t \in Timer, Linked(t, list)
             PROVE  0 <= Left(t) + m
  BY DEF LateBy
<1>1. Left(t) \in Int /\ 0 <= Left(t) + n
  BY LeftFacts DEF LateBy
<1> QED BY <1>1

(* Wherever a timer is in the list, its time is in the range in which two  *)
(* ticks can be compared.                                                  *)
LEMMA InRange ==
    ASSUME TypeOK, Timely, NEW t \in Timer, Linked(t, list), NEW d \in Delays
    PROVE  /\ Left(t) = Dist(tick, timeout[t])
           /\ Left(t) <= Half - 1 /\ d - Left(t) <= W - Half /\ 0 - Half < Left(t)
<1>1. Left(t) = Dist(tick, timeout[t]) /\ Left(t) \in Int
  BY LeftFacts
<1>2. Left(t) <= Half - 1
  <2>1. PICK e \in Delays : Left(t) <= e
    BY DEF Timely, WithinDelays
  <2>2. e \in 1 .. Half - 1
    BY DelayFacts
  <2> QED BY <1>1, <2>1, <2>2, HalfFacts
<1>3. PICK n \in Jumps \cup {0} : 0 <= Left(t) + n
  BY DEF Timely, LateBy
<1>4. n \in Int /\ n < Half /\ d \in Int /\ d + n <= W - Half
  <2>1. d \in 1 .. Half - 1
    BY DelayFacts
  <2>2. CASE n \in Jumps
    <3>1. n \in 1 .. Half - 2 /\ d + n <= W - Half
      BY <2>2, TimerAssumption
    <3> QED BY <2>1, <3>1, HalfFacts
  <2>3. CASE n = 0
    BY <2>1, <2>3, HalfFacts
  <2> QED BY <2>2, <2>3
<1> QED BY <1>1, <1>2, <1>3, <1>4, HalfFacts

-----------------------------------------------------------------------------
(* What the operations do to the list and to what is left *)

(* The comparison of wrapping ticks finds the place that AlarmClock means: *)
(* behind what is due no later, before what is due later.                  *)
LEMMA PlaceFacts ==
    ASSUME TypeOK, Timely, NEW rest \in Seq(Timer), SortedBy(rest, left),
           \A x \in Timer : Linked(x, rest) => Linked(x, list), NEW d \in Delays
    PROVE  /\ Place(rest, Plus(tick, d)) = Clock!Behind(rest, d)
           /\ \A j \in 1 .. Len(rest) :
                 IF j < Place(rest, Plus(tick, d)) THEN left[rest[j]] <= d
                                                   ELSE d <= left[rest[j]]
<1> DEFINE at == Plus(tick, d)
           later == {i \in 1 .. Len(rest) : LET ahead == Minus(timeout[rest[i]], at)
                                             IN  ahead # 0 /\ ahead < Half}
           behind == {i \in 1 .. Len(rest) : left[rest[i]] > d}
<1>1. d \in 1 .. Half - 1 /\ d \in Int
  BY DelayFacts
<1>2. ASSUME NEW i \in 1 .. Len(rest)
      PROVE  /\ left[rest[i]] \in Int
             /\ Minus(timeout[rest[i]], at) # 0 /\ Minus(timeout[rest[i]], at) < Half
                   <=> d < left[rest[i]]
  <2> DEFINE x == rest[i]
  <2>1. x \in Timer /\ Linked(x, rest)
    BY ElementOfSeq DEF Linked
  <2> HIDE DEF x
  <2>2. Linked(x, list)
    BY <2>1
  <2>3. /\ Left(x) = Dist(tick, timeout[x])
        /\ Left(x) <= Half - 1 /\ d - Left(x) <= W - Half
    BY <2>1, <2>2, InRange
  <2>4. tick \in TickType /\ timeout[x] \in TickType
    BY <2>1 DEF TypeOK
  <2>5. Minus(timeout[x], at) # 0 /\ Minus(timeout[x], at) < Half <=> d < Left(x)
    BY <1>1, <2>3, <2>4, DistCompare
  <2>6. left[x] = Left(x) /\ left[x] \in Int
    BY <2>1, LeftFacts
  <2> QED BY <2>5, <2>6 DEF x
<1> HIDE DEF at
<1>3. later = behind
  <2>1. \A i \in 1 .. Len(rest) : left[rest[i]] > d <=> d < left[rest[i]]
    BY <1>1, <1>2
  <2> QED BY <1>2, <2>1
<1>4. Place(rest, at) = IF later = {} THEN Len(rest) + 1
                        ELSE CHOOSE i \in later : \A j \in later : i <= j
  BY Zenon DEF Place
<1>5. Clock!Behind(rest, d) = IF behind = {} THEN Len(rest) + 1
                              ELSE CHOOSE i \in behind : \A j \in behind : i <= j
  BY Zenon DEF Clock!Behind, left
<1>6. Place(rest, at) = Clock!Behind(rest, d)
  <2> HIDE DEF later, behind
  <2> QED BY <1>3, <1>4, <1>5
<1>7. ASSUME NEW j \in 1 .. Len(rest)
      PROVE  IF j < Place(rest, at) THEN left[rest[j]] <= d ELSE d <= left[rest[j]]
  <2>1. CASE later = {}
    <3>1. Place(rest, at) = Len(rest) + 1
      BY <1>4, <2>1
    <3>2. ~ (left[rest[j]] > d) /\ left[rest[j]] \in Int
      BY <1>2, <1>3, <2>1
    <3> QED BY <1>1, <3>1, <3>2
  <2>2. CASE later # {}
    <3> DEFINE i == Place(rest, at)
    <3>1. later \in SUBSET Nat
      OBVIOUS
    <3>2. i = CHOOSE m \in later : \A n \in later : m <= n
      BY <1>4, <2>2
    <3>3. \E m \in later : \A n \in later : m <= n
      <4> HIDE DEF later
      <4> QED BY <2>2, <3>1, MinOfIndices
    <3>4. i \in later /\ \A n \in later : i <= n
      <4> HIDE DEF later, i
      <4> QED BY <3>2, <3>3
    <3>5. i \in 1 .. Len(rest) /\ left[rest[i]] > d
      BY <1>3, <3>4
    <3> HIDE DEF i
    <3>6. CASE j < i
      <4>1. j \notin later
        <5> HIDE DEF later
        <5> QED BY <3>4, <3>5, <3>6
      <4>2. ~ (d < left[rest[j]]) /\ left[rest[j]] \in Int
        BY <1>2, <4>1
      <4> QED BY <1>1, <3>6, <4>2 DEF i
    <3>7. CASE j = i
      BY <1>1, <1>2, <3>5, <3>7 DEF i
    <3>8. CASE i < j
      <4>1. left[rest[i]] <= left[rest[j]]
        BY <3>5, <3>8 DEF SortedBy
      <4>2. left[rest[i]] \in Int /\ left[rest[j]] \in Int
        BY <1>2, <3>5
      <4>3. d <= left[rest[j]] /\ ~ (j < i)
        BY <1>1, <3>5, <3>8, <4>1, <4>2
      <4> QED BY <4>3 DEF i
    <3>9. j < i \/ j = i \/ i < j
      BY <3>5
    <3> QED BY <3>6, <3>7, <3>8, <3>9
  <2> QED BY <2>1, <2>2
<1> QED BY <1>6, <1>7 DEF at

(* The lists of AlarmClock are these lists. *)
LEMMA ClockLists ==
    ASSUME NEW q, NEW e
    PROVE  /\ Clock!RemoveFirst(q, e) = RemoveFirst(q, e)
           /\ \A i : Clock!InsertAt(q, i, e) = InsertAt(q, i, e)
BY Zenon DEF Clock!RemoveFirst, RemoveFirst, Clock!InsertAt, InsertAt, Clock!RemoveAt, RemoveAt,
       Clock!SelectInSeq, SelectInSeq, Clock!Min, Min

(* rt_timer_start is SetTo. *)
LEMMA StartSets ==
    ASSUME Wired, Wired', Timely, NEW t \in alive, StartTimer(t), tick' = tick
    PROVE  /\ Clock!SetTo(t, delay[t])
           /\ SortedBy(list', left') /\ WithinDelays'
           /\ \A n \in Int : 0 - 1 <= n /\ LateBy(n) => LateBy(n)'
<1> DEFINE d == delay[t]
           at == Plus(tick, d)
           rest == RemoveFirst(list, t)
           i == Place(rest, at)
           g == [left EXCEPT ![t] = d]
<1>1. /\ TypeOK /\ TypeOK' /\ t \in Timer /\ d \in Delays /\ d \in 1 .. Half - 1 /\ d \in Int
      /\ at \in TickType /\ LinkedOnce(list)
  BY DelayFacts, PlusType DEF Wired, TypeOK, ActiveIsLinked
<1>2. /\ rest \in Seq(Timer) /\ LinkedOnce(rest) /\ ~ Linked(t, rest)
      /\ \A x : x # t => (Linked(x, rest) <=> Linked(x, list))
  BY <1>1, RemoveFirstFacts DEF TypeOK
<1>3. list' = InsertAt(rest, i, t) /\ timeout' = [timeout EXCEPT ![t] = at]
  BY DEF StartTimer
<1>4. SortedBy(rest, left)
  BY <1>1, RemoveSorted DEF TypeOK, Timely
<1> HIDE DEF d
<1>5. /\ i = Clock!Behind(rest, d)
      /\ \A j \in 1 .. Len(rest) : IF j < i THEN left[rest[j]] <= d ELSE d <= left[rest[j]]
  <2> HIDE DEF rest
  <2>1. \A x \in Timer : Linked(x, rest) => Linked(x, list)
    BY <1>2
  <2> QED BY <1>1, <1>2, <1>4, <2>1, PlaceFacts
<1> HIDE DEF rest, at
<1>6. i \in 1 .. Len(rest) + 1
  BY <1>2, PlaceType
<1> HIDE DEF i
<1>7. \A x : Linked(x, list') <=> x = t \/ Linked(x, rest)
  BY <1>1, <1>2, <1>3, <1>6, InsertAtFacts
<1>8. left \in [Timer -> Int] /\ left' \in [Timer -> Int]
  <2>1. left \in [Timer -> Int]
    BY <1>1, LeftFacts
  <2>2. ASSUME NEW x \in Timer PROVE left'[x] \in Int
    <3>1. left'[x] = IF Linked(x, list') THEN Dist(tick, timeout'[x]) ELSE 0
      BY DEF left, Left, Due, Dist
    <3>2. tick \in TickType /\ timeout'[x] \in TickType
      BY <1>1 DEF TypeOK
    <3> QED BY <3>1, <3>2, DistType
  <2>3. left' = [x \in Timer |-> left'[x]]
    BY DEF left
  <2> QED BY <2>1, <2>2, <2>3
<1>9. \A x \in Timer : left'[x] = g[x]
  <2> TAKE x \in Timer
  <2>1. left'[x] = IF Linked(x, list') THEN Dist(tick, timeout'[x]) ELSE 0
    BY DEF left, Left, Due, Dist
  <2>2. left[x] = IF Linked(x, list) THEN Dist(tick, timeout[x]) ELSE 0
    BY DEF left, Left, Due, Dist
  <2>3. CASE x = t
    <3>1. Dist(tick, at) = d
      BY <1>1, DistOfPlus DEF TypeOK, at
    <3>2. timeout'[t] = at
      BY <1>1, <1>3 DEF TypeOK
    <3> QED BY <1>7, <1>8, <2>1, <2>3, <3>1, <3>2
  <2>4. CASE x # t
    <3>1. timeout'[x] = timeout[x]
      BY <1>1, <1>3, <2>4 DEF TypeOK
    <3>2. Linked(x, list') <=> Linked(x, list)
      BY <1>2, <1>7, <2>4
    <3>3. g[x] = left[x]
      BY <1>8, <2>4
    <3> QED BY <2>1, <2>2, <3>1, <3>2, <3>3
  <2> QED BY <2>3, <2>4
<1>10. left' = g /\ g \in [Timer -> Int] /\ g[t] = d
  BY <1>1, <1>8, <1>9
<1>11. Clock!SetTo(t, d)
  <2>1. list' = Clock!InsertAt(Clock!RemoveFirst(list, t), Clock!Behind(Clock!RemoveFirst(list, t), d), t)
    BY <1>3, <1>5, ClockLists DEF rest
  <2> QED BY <1>10, <2>1 DEF Clock!SetTo, left
<1>12. SortedBy(list', left')
  <2>1. SortedBy(InsertAt(rest, i, t), g)
    <3>1. \A j \in 1 .. Len(rest) : g[rest[j]] = left[rest[j]]
      <4> TAKE j \in 1 .. Len(rest)
      <4>1. rest[j] \in Timer /\ rest[j] # t
        BY <1>2, ElementOfSeq DEF Linked
      <4> QED BY <1>8, <4>1
    <3>2. \A j \in 1 .. Len(rest) : IF j < i THEN g[rest[j]] <= g[t] ELSE g[t] <= g[rest[j]]
      BY <1>5, <1>10, <3>1
    <3>3. SortedBy(rest, g)
      BY <1>4, <3>1 DEF SortedBy
    <3> HIDE DEF g
    <3> QED BY <1>1, <1>2, <1>6, <1>10, <3>2, <3>3, InsertSorted
  <2> QED BY <1>3, <1>10, <2>1
<1>13. ASSUME NEW x \in Timer, Linked(x, list')
       PROVE  \/ Left(x)' = d
              \/ Linked(x, list) /\ Left(x)' = Left(x)
  <2>1. left'[x] = Left(x)' /\ left[x] = Left(x)
    BY DEF left
  <2>2. CASE x = t
    BY <1>1, <1>10, <2>1, <2>2
  <2>3. CASE x # t
    <3>1. Linked(x, list)
      BY <1>2, <1>7, <1>13, <2>3
    <3>2. g[x] = left[x]
      BY <1>8, <2>3
    <3> QED BY <1>10, <2>1, <3>1, <3>2
  <2> QED BY <2>2, <2>3
<1>14. WithinDelays'
  <2> SUFFICES ASSUME NEW x \in Timer, Linked(x, list')
               PROVE  \E e \in Delays : Left(x)' <= e
    BY DEF WithinDelays
  <2>1. CASE Left(x)' = d
    BY <1>1, <2>1
  <2>2. CASE Linked(x, list) /\ Left(x)' = Left(x)
    BY <2>2 DEF Timely, WithinDelays
  <2> QED BY <1>13, <2>1, <2>2
<1>15. ASSUME NEW n \in Int, 0 - 1 <= n, LateBy(n)
       PROVE  LateBy(n)'
  <2> SUFFICES ASSUME NEW x \in Timer, Linked(x, list')
               PROVE  0 <= Left(x)' + n
    BY DEF LateBy
  <2>1. CASE Left(x)' = d
    BY <1>1, <1>15, <2>1
  <2>2. CASE Linked(x, list) /\ Left(x)' = Left(x)
    BY <1>15, <2>2 DEF LateBy
  <2> QED BY <1>13, <2>1, <2>2
<1> QED BY <1>11, <1>12, <1>14, <1>15 DEF d

(* _timer_remove is Clear. *)
LEMMA StopClears ==
    ASSUME Wired, Wired', Timely, NEW t \in Timer, list' = RemoveFirst(list, t),
           timeout' = timeout, tick' = tick
    PROVE  /\ Clock!Clear(t)
           /\ SortedBy(list', left') /\ WithinDelays'
           /\ \A n \in Int : LateBy(n) => LateBy(n)'
<1>1. TypeOK /\ LinkedOnce(list)
  BY DEF Wired, ActiveIsLinked
<1>2. /\ ~ Linked(t, list')
      /\ \A x : x # t => (Linked(x, list') <=> Linked(x, list))
  BY <1>1, RemoveFirstFacts DEF TypeOK
<1>3. ASSUME NEW x \in Timer
      PROVE  Left(x)' = IF x = t THEN 0 ELSE Left(x)
  <2>1. Left(x)' = IF Linked(x, list') THEN Dist(tick, timeout[x]) ELSE 0
    BY DEF Left, Due, Dist
  <2>2. Left(x) = IF Linked(x, list) THEN Dist(tick, timeout[x]) ELSE 0
    BY DEF Left, Due, Dist
  <2> QED BY <1>2, <2>1, <2>2
<1>4. Clock!Clear(t)
  <2>1. list' = Clock!RemoveFirst(list, t)
    BY ClockLists
  <2> QED BY <1>3, <2>1 DEF Clock!Clear
<1>5. SortedBy(list', left')
  <2>1. \A x : Linked(x, list) /\ x # t => left'[x] = left[x]
    <3> SUFFICES ASSUME NEW x, Linked(x, list), x # t PROVE left'[x] = left[x]
      OBVIOUS
    <3>1. x \in Timer
      BY <1>1, ElementOfSeq DEF Linked, TypeOK
    <3> QED BY <1>3, <3>1 DEF left
  <2>2. list \in Seq(Timer) /\ SortedBy(list, left)
    BY <1>1 DEF TypeOK, Timely
  <2> QED BY <1>1, <2>1, <2>2, RemoveSorted
<1>6. \A x \in Timer : Linked(x, list') => Linked(x, list) /\ Left(x)' = Left(x)
  BY <1>2, <1>3
<1>7. WithinDelays'
  BY <1>6 DEF WithinDelays, Timely
<1>8. \A n \in Int : LateBy(n) => LateBy(n)'
  BY <1>6 DEF LateBy
<1> QED BY <1>4, <1>5, <1>7, <1>8

(* Nothing happens for AlarmClock when neither the list nor the tick nor   *)
(* the timers in the list change.                                          *)
LEMMA NothingMoves ==
    ASSUME Timely, list' = list, tick' = tick,
           \A t \in Timer : Linked(t, list) => timeout'[t] = timeout[t]
    PROVE  /\ left' = left
           /\ SortedBy(list', left') /\ WithinDelays'
           /\ \A n \in Int : LateBy(n) => LateBy(n)'
<1>1. \A x \in Timer : Left(x)' = Left(x)
  BY DEF Left, Due
<1>2. left' = left
  BY <1>1 DEF left
<1>3. SortedBy(list', left')
  BY <1>2 DEF Timely
<1>4. WithinDelays' /\ \A n \in Int : LateBy(n) => LateBy(n)'
  BY <1>1 DEF Timely, WithinDelays, LateBy
<1> QED BY <1>2, <1>3, <1>4

(* n ticks pass, and everything in the list is n ticks nearer or later.    *)
LEMMA TicksPass ==
    ASSUME Wired, Timely, NEW n \in Jumps \cup {1}, NEW m \in Int, LateBy(m), m + n < Half,
           tick' = Plus(tick, n), UNCHANGED <<list, timeout, called>>, called = NoTimer
    PROVE  /\ Clock!Pass
           /\ SortedBy(list', left') /\ WithinDelays'
           /\ LateBy(m + n)'
<1>1. TypeOK /\ n \in 1 .. W - 1 /\ n \in 0 .. W - 1 /\ n \in Int
  BY DelayFacts DEF Wired
<1>2. ASSUME NEW x \in Timer, Linked(x, list)
      PROVE  Left(x)' = Left(x) - n /\ Left(x) \in Int /\ 0 <= Left(x) + m
  <2>1. Left(x) = Dist(tick, timeout[x]) /\ Left(x) \in Int
    BY <1>1, <1>2, LeftFacts
  <2>2. 0 <= Left(x) + m
    BY <1>2 DEF LateBy
  <2>3. 0 - Half < Dist(tick, timeout[x]) - n
    BY <1>1, <2>1, <2>2, HalfFacts
  <2>4. tick \in TickType /\ timeout[x] \in TickType
    BY <1>1 DEF TypeOK
  <2>5. Dist(Plus(tick, n), timeout[x]) = Dist(tick, timeout[x]) - n
    BY <1>1, <2>3, <2>4, DistPass
  <2>6. Left(x)' = Dist(tick', timeout[x])
    BY <1>2 DEF Left, Due, Dist
  <2> QED BY <2>1, <2>2, <2>5, <2>6
<1>3. \A x \in Timer : ~ Linked(x, list) => Left(x)' = Left(x)
  BY DEF Left
<1>4. Clock!Pass
  <2>1. \A x \in Timer : x \in {list[j] : j \in 1 .. Len(list)} <=> Linked(x, list)
    BY DEF Linked
  <2>2. \A x \in Timer : Left(x)' = IF x \in {list[j] : j \in 1 .. Len(list)}
                                   THEN left[x] - n ELSE left[x]
    BY <1>2, <1>3, <2>1 DEF left
  <2> DEFINE now1 == [x \in Timer |-> IF x \in {list[j] : j \in 1 .. Len(list)}
                                      THEN left[x] - n ELSE left[x]]
  <2>3. left' = now1
    BY <2>2 DEF left
  <2> QED BY <2>3 DEF Clock!Pass, left
<1>5. \A j \in 1 .. Len(list) : left'[list[j]] = left[list[j]] - n /\ left[list[j]] \in Int
  <2> TAKE j \in 1 .. Len(list)
  <2> DEFINE x == list[j]
  <2>1. x \in Timer /\ Linked(x, list)
    BY <1>1, ElementOfSeq DEF TypeOK, Linked
  <2> HIDE DEF x
  <2>2. left'[x] = left[x] - n /\ left[x] \in Int
    BY <1>2, <2>1 DEF left
  <2> QED BY <2>2 DEF x
<1>6. SortedBy(list', left')
  <2> SUFFICES ASSUME NEW a \in 1 .. Len(list), NEW b \in 1 .. Len(list), a < b
               PROVE  left'[list[a]] <= left'[list[b]]
    BY DEF SortedBy
  <2>1. left[list[a]] <= left[list[b]]
    BY DEF Timely, SortedBy
  <2> QED BY <1>1, <1>5, <2>1
<1>7. WithinDelays'
  <2> SUFFICES ASSUME NEW x \in Timer, Linked(x, list)
               PROVE  \E d \in Delays : Left(x)' <= d
    BY DEF WithinDelays
  <2>1. PICK d \in Delays : Left(x) <= d
    BY DEF Timely, WithinDelays
  <2>2. d \in Int
    BY DelayFacts
  <2> QED BY <1>1, <1>2, <2>1, <2>2
<1>8. LateBy(m + n)'
  <2> SUFFICES ASSUME NEW x \in Timer, Linked(x, list)
               PROVE  0 <= Left(x)' + (m + n)
    BY DEF LateBy
  <2> QED BY <1>1, <1>2
<1> QED BY <1>4, <1>6, <1>7, <1>8

(* What runs while the tick stands still keeps Timely if it keeps the list *)
(* sorted and makes nothing late.                                          *)
LEMMA StaysTimely ==
    ASSUME Timely, SortedBy(list', left'), WithinDelays',
           \A n \in Int : 0 - 1 <= n /\ LateBy(n) => LateBy(n)',
           UNCHANGED <<tick, pc, pm, seen, now>>
    PROVE  Timely'
<1>1. PICK n \in Jumps \cup {0} : LateBy(n) /\ (pc = "open" => LateBy(n - 1))
  BY DEF Timely
<1>2. n \in Int /\ n - 1 \in Int /\ 0 - 1 <= n /\ 0 - 1 <= n - 1 /\ (0 - 1) \in Int
  BY DelayFacts
<1>3. LateBy(n)' /\ (pc = "open" => LateBy(n - 1)')
  BY <1>1, <1>2
<1>4. LateBy(0 - 1) => LateBy(0 - 1)'
  BY <1>2
<1> QED BY <1>3, <1>4 DEF Timely

-----------------------------------------------------------------------------
(* Every step keeps Timely and is a step of AlarmClock, or none *)

AlarmStep == [Clock!Next]_<<list, [t \in Timer |-> Left(t)], called>>

(* At the start nothing is due, in the timers and in the alarm clock. *)
LEMMA TimelyInit == Init => Timely /\ Clock!Init
<1> SUFFICES ASSUME Init PROVE Timely /\ Clock!Init
  OBVIOUS
<1>1. /\ list = <<>> /\ tick = 0 /\ now = 0 /\ pm = "awake" /\ pc = "open"
      /\ called = NoTimer
  BY DEF Init
<1>2. \A t \in Timer : ~ Linked(t, list)
  BY <1>1 DEF Linked
<1>3. \A n \in Int : LateBy(n)
  BY <1>2 DEF LateBy
<1>4. SortedBy(list, left) /\ WithinDelays
  BY <1>1, <1>2 DEF SortedBy, WithinDelays
<1>5. Timely
  <2>1. LateBy(0) /\ LateBy(0 - 1)
    BY <1>3
  <2> QED BY <1>1, <1>4, <2>1 DEF Timely
<1>6. Clock!Init
  BY <1>1, <1>2 DEF Clock!Init, Left
<1> QED BY <1>5, <1>6

(* What rt_timer_check finds due by the tick it has read is due, although  *)
(* that tick may be stale.                                                 *)
LEMMA DueIsDue ==
    ASSUME Wired, Timely, pc = "check", NEW t \in Timer, Linked(t, list), Due(t, now)
    PROVE  Left(t) <= 0
<1>1. TypeOK /\ tick \in TickType /\ now \in TickType /\ timeout[t] \in TickType
  BY DEF Wired, TypeOK
<1>2. Left(t) = Dist(tick, timeout[t]) /\ Left(t) \in Int
  BY <1>1, LeftFacts
<1>3. CASE now = tick
  BY <1>1, <1>2, <1>3, DistDue DEF Due
<1>4. CASE LateBy(0 - 1) /\ Minus(tick, now) <= Stale
  <2>1. PICK d \in Delays : Left(t) <= d
    BY DEF Timely, WithinDelays
  <2>2. d \in Int /\ d + Stale <= W - Half /\ Stale \in Nat
    BY DelayFacts, TimerAssumption
  <2>3. 0 < Left(t)
    BY <1>2, <1>4 DEF LateBy
  <2>4. Left(t) + Stale <= W - Half
    BY <1>2, <2>1, <2>2, HalfFacts
  <2>5. ~ (Minus(now, timeout[t]) < Half)
    BY <1>1, <1>2, <1>4, <2>2, <2>3, <2>4, DistStale
  <2> QED BY <2>5 DEF Due
<1> QED BY <1>3, <1>4 DEF Timely

(* When the first timer is not due, none is. *)
LEMMA CheckLeavesNone ==
    ASSUME Wired, Timely, pc = "check", list # <<>> => ~ Due(Head(list), now)
    PROVE  LateBy(0 - 1)
<1>1. TypeOK /\ list \in Seq(Timer)
  BY DEF Wired, TypeOK
<1>2. CASE list = <<>>
  BY <1>2 DEF LateBy, Linked
<1>3. CASE list # <<>> /\ now = tick
  <2> DEFINE h == Head(list)
  <2>1. h \in Timer /\ Linked(h, list) /\ h = list[1] /\ 1 \in 1 .. Len(list) /\ Len(list) \in Nat
    BY <1>1, <1>3, HeadFacts, HeadTailProperties
  <2>2. ~ Due(h, tick)
    BY <1>3
  <2> HIDE DEF h
  <2>3. tick \in TickType /\ timeout[h] \in TickType
    BY <1>1, <2>1 DEF TypeOK
  <2>4. Left(h) = Dist(tick, timeout[h]) /\ Left(h) \in Int
    BY <1>1, <2>1, LeftFacts
  <2>5. 0 < Left(h)
    BY <2>2, <2>3, <2>4, DistDue DEF Due
  <2> SUFFICES ASSUME NEW t \in Timer, Linked(t, list)
               PROVE  0 <= Left(t) + (0 - 1)
    BY DEF LateBy
  <2>6. PICK j \in 1 .. Len(list) : list[j] = t
    BY DEF Linked
  <2>7. left[h] = Left(h) /\ left[t] = Left(t) /\ Left(t) \in Int
    BY <1>1, <2>1, LeftFacts
  <2>8. j = 1 \/ 1 < j
    BY <2>6
  <2>9. Left(h) <= Left(t)
    <3>1. CASE j = 1
      BY <2>1, <2>4, <2>6, <3>1
    <3>2. CASE 1 < j
      <4>1. left[list[1]] <= left[list[j]]
        BY <2>1, <2>6, <3>2 DEF Timely, SortedBy
      <4> QED BY <2>1, <2>6, <2>7, <4>1
    <3> QED BY <2>8, <3>1, <3>2
  <2> QED BY <2>4, <2>5, <2>7, <2>9
<1> QED BY <1>2, <1>3 DEF Timely

(* Every step keeps the times in order and is a step of AlarmClock, or     *)
(* none.                                                                   *)
LEMMA TimelyStep ==
    ASSUME Wired, Wired', Timely, [Next]_vars
    PROVE  Timely' /\ AlarmStep
<1>1. TypeOK /\ ActiveIsLinked /\ OneCalled
  BY DEF Wired
<1>2. PICK n \in Jumps \cup {0} : LateBy(n) /\ (pc = "open" => LateBy(n - 1))
  BY DEF Timely
<1>3. n \in Int /\ 0 <= n /\ n < Half /\ (0 - 1) \in Int
  <2>1. CASE n = 0
    BY <2>1, HalfFacts
  <2>2. CASE n \in Jumps
    <3>1. n \in 1 .. Half - 2
      BY <2>2, TimerAssumption
    <3> QED BY <3>1, HalfFacts
  <2> QED BY <2>1, <2>2
<1>4. ASSUME NEW t \in Timer, Start(t) PROVE Timely' /\ AlarmStep
  <2>1. /\ t \in alive /\ StartTimer(t)
        /\ UNCHANGED <<tick, delay, pc, called, now, pm, seen>>
    BY <1>4 DEF Start
  <2>2. /\ Clock!SetTo(t, delay[t])
        /\ SortedBy(list', left') /\ WithinDelays'
        /\ \A m \in Int : 0 - 1 <= m /\ LateBy(m) => LateBy(m)'
    BY <2>1, StartSets
  <2>3. Timely'
    BY <2>1, <2>2, StaysTimely
  <2>4. delay[t] \in Delays
    BY <1>1 DEF TypeOK
  <2>5. Clock!Next
    BY <2>1, <2>2, <2>4 DEF Clock!Next
  <2> QED BY <2>3, <2>5 DEF AlarmStep
<1>5. ASSUME NEW t \in Timer, StopTimer(t),
             UNCHANGED <<tick, timeout, pc, called, now, pm, seen>>
      PROVE  Timely' /\ AlarmStep
  <2>1. list' = RemoveFirst(list, t) /\ timeout' = timeout /\ tick' = tick
    BY <1>5 DEF StopTimer
  <2>2. /\ Clock!Clear(t)
        /\ SortedBy(list', left') /\ WithinDelays'
        /\ \A m \in Int : LateBy(m) => LateBy(m)'
    BY <2>1, StopClears
  <2>3. Timely'
    BY <1>5, <2>2, StaysTimely
  <2>4. Clock!Next
    BY <1>5, <2>2 DEF Clock!Next
  <2> QED BY <2>3, <2>4 DEF AlarmStep
<1>6. ASSUME list' = list, tick' = tick,
             \A t \in Timer : Linked(t, list) => timeout'[t] = timeout[t]
      PROVE  /\ left' = left /\ (called' = called => AlarmStep)
             /\ SortedBy(list', left') /\ WithinDelays'
             /\ \A m \in Int : LateBy(m) => LateBy(m)'
  <2>1. /\ left' = left
        /\ SortedBy(list', left') /\ WithinDelays'
        /\ \A m \in Int : LateBy(m) => LateBy(m)'
    BY <1>6, NothingMoves
  <2> QED BY <1>6, <2>1 DEF AlarmStep, left
<1>7. ASSUME list' = list, UNCHANGED <<tick, pc, called, now, pm, seen>>,
             \A t \in Timer : Linked(t, list) => timeout'[t] = timeout[t]
      PROVE  Timely' /\ AlarmStep
  <2>1. /\ AlarmStep /\ SortedBy(list', left') /\ WithinDelays'
        /\ \A m \in Int : LateBy(m) => LateBy(m)'
    BY <1>6, <1>7
  <2>2. Timely'
    BY <1>7, <2>1, StaysTimely
  <2> QED BY <2>1, <2>2
<1>8. ASSUME NEW t \in Timer, Stop(t) PROVE Timely' /\ AlarmStep
  <2>1. CASE StopLook(t)
    BY <1>7, <2>1 DEF StopLook
  <2>2. CASE StopEnd(t)
    BY <1>5, <2>2 DEF StopEnd
  <2>3. CASE StopInCall(t)
    BY <1>5, <2>3 DEF StopInCall
  <2> QED BY <1>8, <2>1, <2>2, <2>3 DEF Stop
<1>9. ASSUME NEW t \in Timer, Tune(t) PROVE Timely' /\ AlarmStep
  <2>1. CASE Detach(t)
    BY <1>5, <2>1 DEF Detach
  <2>2. ASSUME NEW d \in Delays, NEW p \in BOOLEAN, InitTimer(t, d, p)
        PROVE  Timely' /\ AlarmStep
    <3>1. /\ t \notin alive /\ timeout' = [timeout EXCEPT ![t] = 0]
          /\ UNCHANGED <<tick, list, pc, called, now, pm, seen>>
      BY <2>2 DEF InitTimer
    <3>2. \A x \in Timer : Linked(x, list) => timeout'[x] = timeout[x]
      BY <1>1, <3>1 DEF ActiveIsLinked, TypeOK
    <3> QED BY <1>7, <3>1, <3>2
  <2>3. ASSUME NEW d \in Delays, SetTime(t, d) PROVE Timely' /\ AlarmStep
    BY <1>7, <2>3 DEF SetTime
  <2>4. ASSUME NEW p \in BOOLEAN, SetMode(t, p) PROVE Timely' /\ AlarmStep
    BY <1>7, <2>4 DEF SetMode
  <2> QED BY <1>9, <2>1, <2>2, <2>3, <2>4 DEF Tune
<1>10. CASE Tick
  <2>1. /\ pc = "open" /\ (pm = "read" => Minus(tick, seen) < Stale)
        /\ tick' = Plus(tick, 1) /\ pc' = "ticked"
        /\ UNCHANGED <<list, timeout, called, pm, seen>>
    BY <1>10 DEF Tick
  <2>2. called = NoTimer /\ n - 1 \in Int /\ (n - 1) + 1 = n /\ (n - 1) + 1 < Half /\ LateBy(n - 1)
    BY <1>1, <1>2, <1>3, <2>1 DEF OneCalled
  <2>3. /\ Clock!Pass /\ SortedBy(list', left') /\ WithinDelays'
        /\ LateBy((n - 1) + 1)'
    BY <2>1, <2>2, TicksPass
  <2>4. LateBy(n)'
    BY <1>3, <2>3 DEF LateBy
  <2>5. pm = "read" => Minus(tick', seen) <= Stale
    <3>1. tick \in TickType /\ seen \in TickType /\ Stale \in Nat
      BY <1>1, TimerAssumption DEF TypeOK
    <3> QED BY <2>1, <3>1, MinusPass
  <2>6. Timely'
    BY <1>2, <2>1, <2>3, <2>4, <2>5 DEF Timely
  <2> QED BY <2>3, <2>6 DEF AlarmStep, Clock!Next
<1>11. ASSUME NEW k \in Jumps, Sleep(k) PROVE Timely' /\ AlarmStep
  <2>1. /\ pc = "open" /\ pm = "awake" /\ tick' = Plus(tick, k) /\ pm' = "slept" /\ pc' = pc
        /\ UNCHANGED <<list, timeout, called>>
    BY <1>11 DEF Sleep
  <2>2. k \in Jumps \cup {1} /\ k \in Int /\ 0 + k < Half /\ (0 - 1) + k < Half
    <3>1. k \in 1 .. Half - 2
      BY TimerAssumption
    <3> QED BY <3>1, HalfFacts
  <2>3. called = NoTimer /\ LateBy(0 - 1)
    BY <1>1, <2>1 DEF OneCalled, Timely
  <2>4. LateBy(0)
    BY <1>1, <2>3, LateByMore
  <2>5. /\ Clock!Pass /\ SortedBy(list', left') /\ WithinDelays'
        /\ LateBy((0 - 1) + k)'
    BY <2>1, <2>2, <2>3, TicksPass
  <2>6. LateBy(0 + k)'
    BY <2>1, <2>2, <2>3, <2>4, TicksPass
  <2>7. LateBy(k)' /\ LateBy(k - 1)'
    BY <2>2, <2>5, <2>6 DEF LateBy
  <2>8. Timely'
    BY <2>1, <2>5, <2>7 DEF Timely
  <2> QED BY <2>5, <2>8 DEF AlarmStep, Clock!Next
<1>12. CASE CheckBegin
  <2>1. /\ pc' = "check" /\ now' = tick /\ UNCHANGED <<tick, list, timeout, called, pm, seen>>
    BY <1>12 DEF CheckBegin
  <2>2. /\ AlarmStep /\ SortedBy(list', left') /\ WithinDelays' /\ LateBy(n)'
    BY <1>2, <1>3, <1>6, <2>1
  <2>3. Timely'
    BY <1>2, <2>1, <2>2 DEF Timely
  <2> QED BY <2>2, <2>3
<1>13. CASE CheckCall
  <2> DEFINE h == Head(list)
  <2>1. /\ pc = "check" /\ list # <<>> /\ Due(h, now) /\ called' = h /\ list' = Tail(list)
        /\ pc' = "call" /\ UNCHANGED <<tick, timeout, now, pm, seen>>
    BY <1>13 DEF CheckCall
  <2>2. h \in Timer /\ Linked(h, list) /\ Tail(list) = RemoveFirst(list, h)
    BY <1>1, <2>1, HeadFacts, TailFacts DEF TypeOK, ActiveIsLinked
  <2>3. called = NoTimer
    BY <1>1, <2>1 DEF OneCalled
  <2>4. left[h] <= 0
    BY <2>1, <2>2, DueIsDue DEF left
  <2>5. /\ Clock!Clear(h) /\ SortedBy(list', left') /\ WithinDelays'
        /\ \A m \in Int : LateBy(m) => LateBy(m)'
    BY <2>1, <2>2, StopClears
  <2>6. Timely'
    BY <1>2, <1>3, <2>1, <2>5 DEF Timely
  <2>7. Clock!Ring
    BY <2>1, <2>3, <2>4, <2>5 DEF Clock!Ring, left
  <2> QED BY <2>6, <2>7 DEF AlarmStep, Clock!Next
<1>14. CASE CallEnd
  <2>1. /\ pc = "call" /\ now' = tick /\ pc' = "check" /\ called' = NoTimer
        /\ UNCHANGED <<tick, delay, pm, seen>>
    BY <1>14 DEF CallEnd
  <2>2. called \in Timer /\ called # NoTimer
    BY <1>1, <2>1, TimerAssumption DEF OneCalled
  <2>3. ASSUME SortedBy(list', left'), WithinDelays',
               \A m \in Int : 0 - 1 <= m /\ LateBy(m) => LateBy(m)'
        PROVE  Timely'
    <3>1. LateBy(n)'
      BY <1>2, <1>3, <2>3
    <3> QED BY <1>2, <2>1, <2>3, <3>1 DEF Timely
  <2>4. CASE local # <<>> /\ called \in active /\ StartTimer(called)
    <3>1. called \in alive /\ delay[called] \in Delays
      BY <1>1, <2>2, <2>4, EmptyFacts DEF ActiveIsLinked, OneCalled, TypeOK
    <3>2. /\ Clock!SetTo(called, delay[called])
          /\ SortedBy(list', left') /\ WithinDelays'
          /\ \A m \in Int : 0 - 1 <= m /\ LateBy(m) => LateBy(m)'
      BY <2>1, <2>4, <3>1, StartSets
    <3>3. Clock!Rung
      BY <2>1, <2>2, <3>1, <3>2 DEF Clock!Rung
    <3> QED BY <2>3, <3>2, <3>3 DEF AlarmStep, Clock!Next
  <2>5. CASE UNCHANGED <<list, timeout, active>>
    <3>1. /\ left' = left /\ SortedBy(list', left') /\ WithinDelays'
          /\ \A m \in Int : LateBy(m) => LateBy(m)'
      BY <1>6, <2>1, <2>5
    <3>2. Clock!Rung
      BY <2>1, <2>2, <2>5, <3>1 DEF Clock!Rung, left
    <3> QED BY <2>3, <3>1, <3>2 DEF AlarmStep, Clock!Next
  <2> QED BY <1>14, <2>4, <2>5 DEF CallEnd
<1>15. CASE CheckEnd
  <2>1. /\ pc = "check" /\ (list # <<>> => ~ Due(Head(list), now)) /\ pc' = "open"
        /\ UNCHANGED <<tick, list, timeout, called, pm, seen>>
    BY <1>15 DEF CheckEnd
  <2>2. LateBy(0 - 1)
    BY <2>1, CheckLeavesNone
  <2>3. LateBy(0)
    BY <1>1, <2>2, LateByMore
  <2>4. /\ AlarmStep /\ SortedBy(list', left') /\ WithinDelays'
        /\ LateBy(0 - 1)' /\ LateBy(0)'
    BY <1>3, <1>6, <2>1, <2>2, <2>3
  <2>5. Timely'
    BY <2>1, <2>4 DEF Timely
  <2> QED BY <2>4, <2>5
<1>16. CASE PmRead
  <2>1. /\ pc = "open" /\ seen' = tick /\ pm' = "read" /\ pc' = pc
        /\ UNCHANGED <<tick, list, timeout, called, now>>
    BY <1>16 DEF PmRead
  <2>2. /\ AlarmStep /\ SortedBy(list', left') /\ WithinDelays'
        /\ LateBy(n)' /\ LateBy(n - 1)'
    BY <1>2, <1>3, <1>6, <2>1
  <2>3. Minus(tick, tick) <= Stale
    BY <1>1, HalfFacts, TimerAssumption DEF Minus, TypeOK, TickType
  <2>4. Timely'
    BY <1>2, <2>1, <2>2, <2>3 DEF Timely
  <2> QED BY <2>2, <2>4
<1>17. CASE PmCheck
  <2>1. /\ pc = "open" /\ pm = "read" /\ now' = seen /\ pm' = "awake" /\ pc' = "check"
        /\ UNCHANGED <<tick, list, timeout, called>>
    BY <1>17 DEF PmCheck
  <2>2. /\ AlarmStep /\ SortedBy(list', left') /\ WithinDelays' /\ LateBy(n)'
        /\ (LateBy(0 - 1) => LateBy(0 - 1)')
    BY <1>2, <1>3, <1>6, <2>1
  <2>3. (LateBy(0 - 1) \/ tick = seen) /\ Minus(tick, seen) <= Stale
    BY <2>1 DEF Timely
  <2>4. Timely'
    BY <1>2, <2>1, <2>2, <2>3 DEF Timely
  <2> QED BY <2>2, <2>4
<1>18. CASE UNCHANGED vars
  BY <1>7, <1>18 DEF vars
<1>19. CASE Check
  BY <1>12, <1>13, <1>14, <1>15, <1>19 DEF Check
<1>20. CASE PowerManager
  BY <1>11, <1>16, <1>17, <1>20 DEF PowerManager
<1> QED
  <2>1. Stopped \subseteq Timer /\ Tuned \subseteq Timer
    BY TimerAssumption
  <2> QED BY <1>4, <1>8, <1>9, <1>10, <1>18, <1>19, <1>20, <2>1 DEF Next

(* The times are in order in every reachable state. *)
LEMMA TimelyAlways == Spec => []Timely
<1>1. Wired /\ Wired' /\ Timely /\ [Next]_vars => Timely'
  BY TimelyStep
<1>2. Init => Timely
  BY TimelyInit
<1> QED BY <1>1, <1>2, WiredAlways, PTL DEF Spec

(* Whenever interrupts are enabled again, no timer is due any more, unless *)
(* the system has just slept: neither the wrap-around of the tick, nor     *)
(* stale ticks, nor what call-backs start and stop make rt_timer_check     *)
(* pass over one.                                                          *)
THEOREM NeverOverdue == Spec => []NoneOverdue
<1>1. Wired /\ Timely => NoneOverdue
  <2> SUFFICES ASSUME Wired, Timely, pc = "open", pm = "awake", NEW i \in 1 .. Len(list)
               PROVE  ~ Due(list[i], tick)
    BY DEF NoneOverdue
  <2> DEFINE t == list[i]
  <2>1. TypeOK /\ t \in Timer /\ Linked(t, list)
    BY ElementOfSeq DEF Wired, TypeOK, Linked
  <2> HIDE DEF t
  <2>2. Left(t) = Dist(tick, timeout[t]) /\ Left(t) \in Int /\ 0 <= Left(t) + (0 - 1)
    BY <2>1, LeftFacts DEF Timely, LateBy
  <2>3. tick \in TickType /\ timeout[t] \in TickType
    BY <2>1 DEF TypeOK
  <2>4. ~ Due(t, tick)
    BY <2>2, <2>3, DistDue DEF Due
  <2> QED BY <2>4 DEF t
<1> QED BY <1>1, WiredAlways, TimelyAlways, PTL

(* The timers implement AlarmClock: with any number of timers and whatever *)
(* the width of the tick, each rings when its time is over and not before, *)
(* in the order of their times and, for equal times, in the order in which *)
(* they were started.                                                      *)
THEOREM KeepsTime == Spec => ImplementsAlarms
<1>1. Init => Clock!Init
  BY TimelyInit
<1>2. Wired /\ Wired' /\ Timely /\ [Next]_vars
         => [Clock!Next]_<<list, [t \in Timer |-> Left(t)], called>>
  BY TimelyStep DEF AlarmStep
<1> QED BY <1>1, <1>2, WiredAlways, TimelyAlways, PTL DEF Spec, ImplementsAlarms, Clock!Spec

-----------------------------------------------------------------------------
(***************************************************************************)
(* The work queue                                                          *)
(***************************************************************************)

-----------------------------------------------------------------------------
(* The invariant *)

(* The lists, and the flags and timers of what is linked in them. *)
Tidy(l, d, s, t, o) ==
    /\ l \in Seq(Work) /\ d \in Seq(Work) /\ LinkedOnce(l) /\ LinkedOnce(d)
    /\ s \subseteq Work /\ t \subseteq s /\ o \subseteq Work
    /\ \A x \in Work : ~ (Linked(x, l) /\ Linked(x, d))
    /\ \A x \in Work : Linked(x, d) => x \in s /\ x \in o

(* A caller for each delayed item whose timer does not run yet. *)
Started(p, a, d, t) ==
    \A x \in Work : Linked(x, d) /\ x \notin t => \E c \in Caller : p[c] = "start" /\ a[c] = x

(* Those that are about to cancel an item have one. *)
Named(p, a) == \A c \in Caller : p[c] \in {"cancel", "drop"} => a[c] \in Work

Working(l, c, w) == (w = "asleep" => l = <<>>) /\ (c # NoWork <=> w = "run")

WorkInv ==
    /\ WorkTypeOK
    /\ Tidy(workList, delayed, submitting, ticking, owned)
    /\ Started(cpc, arg, delayed, ticking)
    /\ Named(cpc, arg)
    /\ Working(workList, cur, wpc)

-----------------------------------------------------------------------------
(* Lists and flags *)

(* What is left of the lists when an item is taken out of them. *)
LEMMA RestFacts ==
    ASSUME NEW l, NEW d, NEW s, NEW t, NEW o, Tidy(l, d, s, t, o), NEW x \in Work
    PROVE  /\ RestOf(l, x) \in Seq(Work) /\ LinkedOnce(RestOf(l, x))
           /\ RestOf(d, x) \in Seq(Work) /\ LinkedOnce(RestOf(d, x))
           /\ \A y : Linked(y, RestOf(l, x)) <=> Linked(y, l) /\ y # x
           /\ \A y : Linked(y, RestOf(d, x)) <=> Linked(y, d) /\ y # x
<1>1. l \in Seq(Work) /\ d \in Seq(Work) /\ LinkedOnce(l) /\ LinkedOnce(d)
  BY DEF Tidy
<1>2. /\ RestOf(l, x) \in Seq(Work) /\ LinkedOnce(RestOf(l, x)) /\ ~ Linked(x, RestOf(l, x))
      /\ \A y : y # x => (Linked(y, RestOf(l, x)) <=> Linked(y, l))
  BY <1>1, RemoveFirstFacts DEF RestOf
<1>3. /\ RestOf(d, x) \in Seq(Work) /\ LinkedOnce(RestOf(d, x)) /\ ~ Linked(x, RestOf(d, x))
      /\ \A y : y # x => (Linked(y, RestOf(d, x)) <=> Linked(y, d))
  BY <1>1, RemoveFirstFacts DEF RestOf
<1> QED BY <1>2, <1>3

(* An item that is in no list may lose its flags. *)
LEMMA RestTidy ==
    ASSUME NEW l, NEW d, NEW s, NEW t, NEW o, Tidy(l, d, s, t, o), NEW x \in Work
    PROVE  /\ Tidy(RestOf(l, x), RestOf(d, x), s, t, o)
           /\ Tidy(RestOf(l, x), RestOf(d, x), s \ {x}, t \ {x}, o)
           /\ Tidy(RestOf(l, x), RestOf(d, x), s \ {x}, t \ {x}, o \ {x})
<1> DEFINE l1 == RestOf(l, x)
           d1 == RestOf(d, x)
<1>1. /\ l1 \in Seq(Work) /\ LinkedOnce(l1) /\ d1 \in Seq(Work) /\ LinkedOnce(d1)
      /\ \A y : Linked(y, l1) <=> Linked(y, l) /\ y # x
      /\ \A y : Linked(y, d1) <=> Linked(y, d) /\ y # x
  BY RestFacts
<1> HIDE DEF l1, d1
<1>2. /\ Tidy(l1, d1, s, t, o) /\ Tidy(l1, d1, s \ {x}, t \ {x}, o)
      /\ Tidy(l1, d1, s \ {x}, t \ {x}, o \ {x})
  BY <1>1 DEF Tidy
<1> QED BY <1>2 DEF l1, d1

(* An item joins the list of work, at the end or in front. *)
LEMMA JoinTidy ==
    ASSUME NEW l, NEW d, NEW s, NEW t, NEW o, Tidy(l, d, s, t, o), NEW x \in Work
    PROVE  /\ Tidy(Append(RestOf(l, x), x), RestOf(d, x), s, t, o \cup {x})
           /\ Tidy(Append(RestOf(l, x), x), RestOf(d, x), s \ {x}, t \ {x}, o)
           /\ Tidy(<<x>> \o RestOf(l, x), RestOf(d, x), s, t, o)
<1> DEFINE l1 == RestOf(l, x)
           d1 == RestOf(d, x)
           l2 == Append(l1, x)
           l3 == <<x>> \o l1
<1>1. /\ l1 \in Seq(Work) /\ LinkedOnce(l1) /\ d1 \in Seq(Work) /\ LinkedOnce(d1)
      /\ \A y : Linked(y, l1) <=> Linked(y, l) /\ y # x
      /\ \A y : Linked(y, d1) <=> Linked(y, d) /\ y # x
  BY RestFacts
<1> HIDE DEF l1, d1
<1>2. l2 \in Seq(Work) /\ LinkedOnce(l2) /\ \A y : Linked(y, l2) <=> y = x \/ Linked(y, l1)
  BY <1>1, AppendFacts
<1>3. l3 \in Seq(Work) /\ LinkedOnce(l3) /\ \A y : Linked(y, l3) <=> y = x \/ Linked(y, l1)
  BY <1>1, PushFacts
<1> HIDE DEF l2, l3
<1>4. Tidy(l2, d1, s, t, o \cup {x}) /\ Tidy(l2, d1, s \ {x}, t \ {x}, o)
  BY <1>1, <1>2 DEF Tidy
<1>5. Tidy(l3, d1, s, t, o)
  BY <1>1, <1>3 DEF Tidy
<1> QED BY <1>4, <1>5 DEF l1, d1, l2, l3

(* An item joins the list of delayed work, without a timer as yet. *)
LEMMA DelayTidy ==
    ASSUME NEW l, NEW d, NEW s, NEW t, NEW o, Tidy(l, d, s, t, o), NEW x \in Work
    PROVE  /\ Tidy(RestOf(l, x), Append(RestOf(d, x), x), s \cup {x}, t \ {x}, o \cup {x})
           /\ \A y : Linked(y, Append(RestOf(d, x), x)) <=> y = x \/ Linked(y, d)
<1> DEFINE l1 == RestOf(l, x)
           d1 == RestOf(d, x)
           d2 == Append(d1, x)
<1>1. /\ l1 \in Seq(Work) /\ LinkedOnce(l1) /\ d1 \in Seq(Work) /\ LinkedOnce(d1)
      /\ \A y : Linked(y, l1) <=> Linked(y, l) /\ y # x
      /\ \A y : Linked(y, d1) <=> Linked(y, d) /\ y # x
  BY RestFacts
<1> HIDE DEF l1, d1
<1>2. d2 \in Seq(Work) /\ LinkedOnce(d2) /\ \A y : Linked(y, d2) <=> y = x \/ Linked(y, d1)
  BY <1>1, AppendFacts
<1> HIDE DEF d2
<1>3. Tidy(l1, d2, s \cup {x}, t \ {x}, o \cup {x})
  BY <1>1, <1>2 DEF Tidy
<1>4. \A y : Linked(y, d2) <=> y = x \/ Linked(y, d)
  BY <1>1, <1>2
<1> QED BY <1>3, <1>4 DEF l1, d1, d2

(* The worker takes the first item, which is not in the list of delayed    *)
(* work: no other list loses what it needs.                                *)
LEMMA TakeTidy ==
    ASSUME NEW l, NEW d, NEW s, NEW t, NEW o, Tidy(l, d, s, t, o), l # <<>>
    PROVE  Head(l) \in Work /\ Tidy(Tail(l), d, s, t, o \ {Head(l)})
<1> DEFINE l1 == Tail(l)
           h == Head(l)
<1>1. l \in Seq(Work) /\ LinkedOnce(l)
  BY DEF Tidy
<1>2. /\ h \in Work /\ Linked(h, l) /\ l1 \in Seq(Work) /\ LinkedOnce(l1)
      /\ \A y : Linked(y, l1) <=> Linked(y, l) /\ y # h
  BY <1>1, HeadFacts
<1> HIDE DEF l1, h
<1>3. Tidy(l1, d, s, t, o \ {h})
  BY <1>2 DEF Tidy
<1> QED BY <1>2, <1>3 DEF l1, h

(* An empty list stays empty when an item is taken out of it. *)
LEMMA EmptyRest ==
    ASSUME NEW x \in Work
    PROVE  RestOf(<<>>, x) = <<>>
<1>1. <<>> \in Seq(Work) /\ LinkedOnce(<<>>) /\ ~ Linked(x, <<>>)
  BY DEF LinkedOnce, Linked
<1> QED BY <1>1, RemoveFirstFacts DEF RestOf

(* Nothing is delayed that was not, and no other timer is stopped. *)
LEMMA StartedRest ==
    ASSUME NEW p, NEW a, NEW l, NEW d, NEW s, NEW t, NEW o,
           Tidy(l, d, s, t, o), Started(p, a, d, t), NEW x \in Work
    PROVE  Started(p, a, RestOf(d, x), t) /\ Started(p, a, RestOf(d, x), t \ {x})
<1>1. \A y : Linked(y, RestOf(d, x)) <=> Linked(y, d) /\ y # x
  BY RestFacts
<1> QED BY <1>1 DEF Started

-----------------------------------------------------------------------------
(* What every step starts from, and what it has to show *)

(* What the invariant says. *)
LEMMA Facts ==
    ASSUME WorkInv
    PROVE  /\ Tidy(workList, delayed, submitting, ticking, owned)
           /\ workList \in Seq(Work) /\ delayed \in Seq(Work)
           /\ cur \in Work \cup {NoWork} /\ wpc \in {"look", "asleep", "run", "ack"}
           /\ submitting \subseteq Work /\ ticking \subseteq submitting
           /\ cpc \in [Caller -> {"user", "start", "cancel", "sync", "wait", "test", "get", "drop"}]
           /\ arg \in [Caller -> Work \cup {NoWork}]
           /\ part \in {"none", "work", "delayed"} /\ fault \in {"none", "assert", "wild"}
           /\ Started(cpc, arg, delayed, ticking)
           /\ Named(cpc, arg) /\ Working(workList, cur, wpc)
BY DEF WorkInv, WorkTypeOK, Tidy

(* What makes the invariant hold again. *)
LEMMA Together ==
    ASSUME Tidy(workList', delayed', submitting', ticking', owned'),
           cur' \in Work \cup {NoWork}, wpc' \in {"look", "asleep", "run", "ack"},
           cpc' \in [Caller -> {"user", "start", "cancel", "sync", "wait", "test", "get", "drop"}],
           arg' \in [Caller -> Work \cup {NoWork}],
           part' \in {"none", "work", "delayed"}, fault' \in {"none", "assert", "wild"},
           Started(cpc', arg', delayed', ticking'), Named(cpc', arg'),
           Working(workList', cur', wpc')
    PROVE  WorkInv'
<1>1. /\ workList' \in Seq(Work) /\ delayed' \in Seq(Work)
      /\ submitting' \subseteq Work /\ owned' \subseteq Work /\ ticking' \subseteq Work
  BY DEF Tidy
<1>2. WorkTypeOK'
  BY <1>1 DEF WorkTypeOK
<1> QED BY <1>2 DEF WorkInv

(* A worker that is woken does not sleep. *)
LEMMA WakeWorks ==
    ASSUME Working(workList, cur, wpc), wpc \in {"look", "asleep", "run", "ack"}, Wake, NEW l
    PROVE  wpc' \in {"look", "asleep", "run", "ack"} /\ Working(l, cur, wpc')
BY DEF Working, Wake

QueueStep == [Abstract!Next]_<<workList, submitting, cur>>

(* The lists of WorkList are those of WorkQueue. *)
LEMMA SameRemove ==
    ASSUME NEW q, NEW e
    PROVE  Abstract!RemoveFirst(q, e) = RestOf(q, e)
BY Zenon DEF Abstract!RemoveFirst, RestOf, RemoveFirst, Abstract!RemoveAt, RemoveAt,
       Abstract!SelectInSeq, SelectInSeq, Abstract!Min, Min

(* A caller that is not in a delayed submission goes somewhere else. *)
LEMMA MoveStep ==
    ASSUME WorkInv, NEW c \in Caller, cpc[c] # "start",
           NEW q \in {"user", "cancel", "sync", "wait", "test", "get", "drop"},
           NEW x \in Work \cup {NoWork}, Goto(c, q, x), q \in {"cancel", "drop"} => x \in Work
    PROVE  /\ cpc' \in [Caller -> {"user", "start", "cancel", "sync", "wait", "test", "get", "drop"}]
           /\ arg' \in [Caller -> Work \cup {NoWork}]
           /\ \A d, t : Started(cpc, arg, d, t) => Started(cpc', arg', d, t)
           /\ Named(cpc', arg')
<1>1. /\ cpc' = [cpc EXCEPT ![c] = q] /\ arg' = [arg EXCEPT ![c] = x]
  BY DEF Goto
<1>2. \A e \in Caller : /\ cpc'[e] = IF e = c THEN q ELSE cpc[e]
                        /\ arg'[e] = IF e = c THEN x ELSE arg[e]
  BY <1>1, Facts
<1>3. ASSUME NEW d, NEW t, Started(cpc, arg, d, t) PROVE Started(cpc', arg', d, t)
  <2>1. \A e \in Caller : cpc[e] = "start" => cpc'[e] = "start" /\ arg'[e] = arg[e]
    BY <1>2
  <2> QED BY <1>3, <2>1 DEF Started
<1>4. Named(cpc', arg')
  BY <1>2, Facts DEF Named
<1>5. /\ cpc' \in [Caller -> {"user", "start", "cancel", "sync", "wait", "test", "get", "drop"}]
      /\ arg' \in [Caller -> Work \cup {NoWork}]
  BY <1>1, Facts
<1> QED BY <1>3, <1>4, <1>5

-----------------------------------------------------------------------------
(* The calls *)

(* An item is submitted, anew perhaps, or refused. *)
LEMMA SubmitStep ==
    ASSUME WorkInv, NEW c \in Caller, NEW x \in Work, Submit(c, x)
    PROVE  WorkInv' /\ QueueStep
<1>1. /\ workList' = IF cur = x THEN RestOf(workList, x) ELSE Append(RestOf(workList, x), x)
      /\ owned' = IF cur = x THEN owned ELSE owned \cup {x}
      /\ delayed' = RestOf(delayed, x) /\ Wake
      /\ cur' = cur /\ submitting' = submitting /\ ticking' = ticking
      /\ cpc' = cpc /\ arg' = arg /\ part' = part /\ fault' = fault
  BY DEF Submit
<1>2. Tidy(workList', delayed', submitting', ticking', owned')
  <2>1. CASE cur = x
    BY <1>1, <2>1, Facts, RestTidy
  <2>2. CASE cur # x
    BY <1>1, <2>2, Facts, JoinTidy
  <2> QED BY <2>1, <2>2
<1>3. Started(cpc', arg', delayed', ticking')
  BY <1>1, Facts, StartedRest
<1>4. wpc' \in {"look", "asleep", "run", "ack"} /\ Working(workList', cur', wpc')
  BY <1>1, Facts, WakeWorks
<1>5. WorkInv'
  BY <1>1, <1>2, <1>3, <1>4, Facts, Together
<1>6. Abstract!Submit(x)
  BY <1>1, SameRemove DEF Abstract!Submit
<1> QED BY <1>5, <1>6 DEF QueueStep, Abstract!Next

(* An item is put in front. *)
LEMMA UrgentStep ==
    ASSUME WorkInv, NEW c \in Caller, NEW x \in Work, Urgent(c, x)
    PROVE  WorkInv' /\ QueueStep
<1>1. /\ workList' = <<x>> \o RestOf(workList, x) /\ delayed' = RestOf(delayed, x) /\ Wake
      /\ cur' = cur /\ submitting' = submitting /\ ticking' = ticking /\ owned' = owned
      /\ cpc' = cpc /\ arg' = arg /\ part' = part /\ fault' = fault
  BY DEF Urgent, timers
<1>2. /\ Tidy(workList', delayed', submitting', ticking', owned')
      /\ Started(cpc', arg', delayed', ticking')
  BY <1>1, Facts, JoinTidy, StartedRest
<1>3. wpc' \in {"look", "asleep", "run", "ack"} /\ Working(workList', cur', wpc')
  BY <1>1, Facts, WakeWorks
<1>4. WorkInv'
  BY <1>1, <1>2, <1>3, Facts, Together
<1>5. Abstract!Urgent(x)
  BY <1>1, SameRemove DEF Abstract!Urgent
<1> QED BY <1>4, <1>5 DEF QueueStep, Abstract!Next

(* The first half of a delayed submission. *)
LEMMA DelayStep ==
    ASSUME WorkInv, NEW c \in Caller, NEW x \in Work, SubmitDelayed(c, x)
    PROVE  WorkInv' /\ QueueStep
<1>1. /\ workList' = RestOf(workList, x) /\ delayed' = Append(RestOf(delayed, x), x)
      /\ submitting' = submitting \cup {x} /\ ticking' = ticking \ {x}
      /\ owned' = owned \cup {x}
      /\ cpc' = [cpc EXCEPT ![c] = "start"] /\ arg' = [arg EXCEPT ![c] = x]
      /\ cur' = cur /\ wpc' = wpc /\ part' = part /\ fault' = fault
      /\ cpc[c] = "user"
  BY DEF SubmitDelayed, Calls, Goto
<1>2. /\ Tidy(workList', delayed', submitting', ticking', owned')
      /\ \A y : Linked(y, delayed') <=> y = x \/ Linked(y, delayed)
  BY <1>1, Facts, DelayTidy
<1>3. \A e \in Caller : /\ cpc'[e] = IF e = c THEN "start" ELSE cpc[e]
                        /\ arg'[e] = IF e = c THEN x ELSE arg[e]
  BY <1>1, Facts
<1>4. Started(cpc', arg', delayed', ticking')
  <2> SUFFICES ASSUME NEW y \in Work, Linked(y, delayed'), y \notin ticking'
               PROVE  \E e \in Caller : cpc'[e] = "start" /\ arg'[e] = y
    BY DEF Started
  <2>1. CASE y = x
    BY <1>3, <2>1
  <2>2. CASE y # x
    <3>1. Linked(y, delayed) /\ y \notin ticking
      BY <1>1, <1>2, <2>2
    <3>2. PICK e \in Caller : cpc[e] = "start" /\ arg[e] = y
      BY <3>1, Facts DEF Started
    <3>3. e # c
      BY <1>1, <3>2
    <3> QED BY <1>3, <3>2, <3>3
  <2> QED BY <2>1, <2>2
<1>5. Named(cpc', arg')
  BY <1>3, Facts DEF Named
<1>6. Working(workList', cur', wpc')
  BY <1>1, Facts, EmptyRest DEF Working
<1>7. WorkInv'
  BY <1>1, <1>2, <1>4, <1>5, <1>6, Facts, Together
<1>8. Abstract!Delay(x)
  BY <1>1, SameRemove DEF Abstract!Delay
<1> QED BY <1>7, <1>8 DEF QueueStep, Abstract!Next

(* The second half: an item that is no more in the list of delayed work    *)
(* needs no timer, whoever has taken it out in between.                    *)
LEMMA StartTimerStep ==
    ASSUME WorkInv, NEW c \in Caller, StartDelay(c)
    PROVE  WorkInv' /\ QueueStep
<1> DEFINE x == arg[c]
<1>1. /\ cpc[c] = "start" /\ fault' \in {"none", "assert", "wild"}
      /\ ticking' = IF x \in submitting THEN ticking \cup {x} ELSE ticking
      /\ cpc' = [cpc EXCEPT ![c] = "user"] /\ arg' = [arg EXCEPT ![c] = NoWork]
      /\ workList' = workList /\ delayed' = delayed /\ cur' = cur /\ wpc' = wpc
      /\ submitting' = submitting /\ owned' = owned /\ part' = part
  BY Facts DEF StartDelay, Goto
<1>2. Tidy(workList', delayed', submitting', ticking', owned')
  BY <1>1, Facts DEF Tidy
<1>3. \A e \in Caller : /\ cpc'[e] = IF e = c THEN "user" ELSE cpc[e]
                        /\ e # c => arg'[e] = arg[e]
  BY <1>1, Facts
<1>4. Started(cpc', arg', delayed', ticking')
  <2> SUFFICES ASSUME NEW y \in Work, Linked(y, delayed), y \notin ticking'
               PROVE  \E e \in Caller : cpc'[e] = "start" /\ arg'[e] = y
    BY <1>1 DEF Started
  <2>1. y \in submitting
    BY Facts DEF Tidy
  <2>2. y \notin ticking /\ y # x
    BY <1>1, <2>1
  <2>3. PICK e \in Caller : cpc[e] = "start" /\ arg[e] = y
    BY <2>2, Facts DEF Started
  <2> QED BY <1>3, <2>2, <2>3
<1>5. Named(cpc', arg')
  BY <1>1, <1>3, Facts DEF Named
<1>6. WorkInv'
  <2>1. /\ cpc' \in [Caller -> {"user", "start", "cancel", "sync", "wait", "test", "get", "drop"}]
        /\ arg' \in [Caller -> Work \cup {NoWork}] /\ Working(workList', cur', wpc')
    BY <1>1, Facts
  <2> QED BY <1>1, <1>2, <1>4, <1>5, <2>1, Facts, Together
<1> QED BY <1>1, <1>6 DEF QueueStep

(* The heart of every cancellation. *)
LEMMA CancelledFacts ==
    ASSUME WorkInv, NEW x \in Work, Cancelled(x), cur' = cur, wpc' = wpc
    PROVE  /\ Tidy(workList', delayed', submitting', ticking', owned')
           /\ Started(cpc, arg, delayed', ticking')
           /\ Working(workList', cur', wpc')
           /\ QueueStep
<1>1. /\ workList' = RestOf(workList, x) /\ delayed' = RestOf(delayed, x)
      /\ submitting' = submitting \ {x} /\ ticking' = ticking \ {x} /\ owned' = owned \ {x}
  BY DEF Cancelled
<1>2. /\ Tidy(workList', delayed', submitting', ticking', owned')
      /\ Started(cpc, arg, delayed', ticking')
  BY <1>1, Facts, RestTidy, StartedRest
<1>3. Working(workList', cur', wpc')
  BY <1>1, Facts, EmptyRest DEF Working
<1>4. Abstract!Withdraw(x)
  BY <1>1, SameRemove DEF Abstract!Withdraw
<1> QED BY <1>2, <1>3, <1>4 DEF QueueStep, Abstract!Next

(* An item is cancelled, by a call of its own or in one of the longer ones *)
(* that goes on afterwards.                                                *)
LEMMA CancelStep ==
    ASSUME WorkInv, NEW c \in Caller,
           SyncCancel(c) \/ ClearDrop(c) \/ \E x \in Work : Cancel(c, x)
    PROVE  WorkInv' /\ QueueStep
<1>1. ASSUME NEW x \in Work, Cancel(c, x) PROVE WorkInv' /\ QueueStep
  <2>1. /\ Cancelled(x) /\ cur' = cur /\ wpc' = wpc /\ cpc' = cpc /\ arg' = arg
        /\ part' = part /\ fault' = fault
    BY <1>1 DEF Cancel
  <2>2. /\ Tidy(workList', delayed', submitting', ticking', owned')
        /\ Started(cpc, arg, delayed', ticking')
        /\ Working(workList', cur', wpc') /\ QueueStep
    BY <2>1, CancelledFacts
  <2>3. WorkInv'
    BY <2>1, <2>2, Facts, Together
  <2> QED BY <2>2, <2>3
<1>2. ASSUME SyncCancel(c) \/ ClearDrop(c) PROVE WorkInv' /\ QueueStep
  <2> DEFINE x == arg[c]
  <2>1. /\ Cancelled(x) /\ cur' = cur /\ wpc' = wpc /\ part' = part /\ fault' = fault
        /\ cpc[c] \in {"cancel", "drop"}
    BY <1>2 DEF SyncCancel, ClearDrop
  <2>2. PICK q \in {"user", "test"} : Goto(c, q, NoWork)
    BY <1>2 DEF SyncCancel, ClearDrop
  <2>3. x \in Work /\ cpc[c] # "start"
    BY <2>1, Facts DEF Named
  <2> HIDE DEF x
  <2>4. /\ Tidy(workList', delayed', submitting', ticking', owned')
        /\ Started(cpc, arg, delayed', ticking')
        /\ Working(workList', cur', wpc') /\ QueueStep
    BY <2>1, <2>3, CancelledFacts
  <2>5. /\ cpc' \in [Caller -> {"user", "start", "cancel", "sync", "wait", "test", "get", "drop"}]
        /\ arg' \in [Caller -> Work \cup {NoWork}]
        /\ Started(cpc', arg', delayed', ticking')
        /\ Named(cpc', arg')
    BY <2>2, <2>3, <2>4, MoveStep
  <2>6. WorkInv'
    BY <2>1, <2>4, <2>5, Facts, Together
  <2> QED BY <2>4, <2>6
<1> QED BY <1>1, <1>2

(* The looks and tests of the longer calls change nothing but where the    *)
(* caller is.                                                              *)
LEMMA LookStep ==
    ASSUME WorkInv, NEW c \in Caller,
           \/ SyncTake(c) \/ ClearBegin(c) \/ ClearTest(c) \/ ClearGet(c)
           \/ \E x \in Work : SyncLook(c, x)
    PROVE  WorkInv' /\ QueueStep
<1>1. /\ workList' = workList /\ delayed' = delayed /\ cur' = cur /\ wpc' = wpc
      /\ submitting' = submitting /\ ticking' = ticking /\ owned' = owned
      /\ part' \in {"none", "work", "delayed"} /\ fault' \in {"none", "assert", "wild"}
      /\ cpc[c] # "start"
  BY Facts DEF SyncTake, SyncLook, ClearBegin, ClearTest, ClearGet, Calls, timers
<1>2. CASE cpc' = cpc /\ arg' = arg
  <2>1. WorkInv'
    BY <1>1, <1>2, Facts, Together
  <2> QED BY <1>1, <2>1 DEF QueueStep
<1>3. CASE \E q \in {"user", "cancel", "sync", "wait", "test", "get", "drop"},
              x \in Work \cup {NoWork} :
              Goto(c, q, x) /\ (q \in {"cancel", "drop"} => x \in Work)
  <2>1. PICK q \in {"user", "cancel", "sync", "wait", "test", "get", "drop"},
             x \in Work \cup {NoWork} :
             Goto(c, q, x) /\ (q \in {"cancel", "drop"} => x \in Work)
    BY <1>3
  <2>2. /\ cpc' \in [Caller -> {"user", "start", "cancel", "sync", "wait", "test", "get", "drop"}]
        /\ arg' \in [Caller -> Work \cup {NoWork}]
        /\ Started(cpc', arg', delayed, ticking)
        /\ Named(cpc', arg')
    BY <1>1, <2>1, Facts, MoveStep
  <2>3. WorkInv'
    BY <1>1, <2>2, Facts, Together
  <2> QED BY <1>1, <2>3 DEF QueueStep
<1>4. CASE SyncTake(c)
  <2>1. Goto(c, "wait", arg[c]) /\ arg[c] \in Work \cup {NoWork}
    BY <1>4, Facts DEF SyncTake
  <2> QED BY <1>3, <2>1
<1>5. ASSUME NEW x \in Work, SyncLook(c, x) PROVE WorkInv' /\ QueueStep
  BY <1>3, <1>5 DEF SyncLook
<1>6. CASE ClearBegin(c)
  BY <1>3, <1>6 DEF ClearBegin
<1>7. CASE ClearTest(c)
  BY <1>2, <1>3, <1>7 DEF ClearTest
<1>8. CASE ClearGet(c)
  <2>1. Clearing # <<>> => Head(Clearing) \in Work
    BY Facts, HeadFacts DEF Clearing
  <2> QED BY <1>2, <1>3, <1>8, <2>1 DEF ClearGet
<1> QED BY <1>4, <1>5, <1>6, <1>7, <1>8

-----------------------------------------------------------------------------
(* The worker, and the timers *)

(* The worker begins with the first item. *)
LEMMA WorkerTakeStep ==
    ASSUME WorkInv, WorkerTake
    PROVE  WorkInv' /\ QueueStep
<1>1. /\ wpc = "look" /\ workList # <<>> /\ cur' = Head(workList) /\ workList' = Tail(workList)
      /\ owned' = owned \ {Head(workList)} /\ wpc' = "run" /\ delayed' = delayed
      /\ submitting' = submitting /\ ticking' = ticking /\ cpc' = cpc /\ arg' = arg
      /\ part' = part /\ fault' = fault /\ fault = "none"
  BY DEF WorkerTake, Turn
<1>2. Head(workList) \in Work /\ Tidy(workList', delayed', submitting', ticking', owned')
  BY <1>1, Facts, TakeTidy
<1>3. cur = NoWork /\ Working(workList', cur', wpc')
  BY <1>1, <1>2, Facts, WorkQueueAssumption DEF Working
<1>4. WorkInv'
  BY <1>1, <1>2, <1>3, Facts, Together
<1>5. Abstract!Begin
  BY <1>1, <1>3 DEF Abstract!Begin
<1> QED BY <1>4, <1>5 DEF QueueStep, Abstract!Next

(* The function of an item returns. *)
LEMMA WorkerReturnStep ==
    ASSUME WorkInv, WorkerReturn
    PROVE  WorkInv' /\ QueueStep
<1>1. /\ wpc = "run" /\ cur' = NoWork /\ wpc' = "ack"
      /\ workList' = workList /\ delayed' = delayed
      /\ submitting' = submitting /\ ticking' = ticking /\ owned' = owned
      /\ cpc' = cpc /\ arg' = arg /\ part' = part /\ fault' = fault /\ fault = "none"
  BY DEF WorkerReturn, Turn, timers
<1>2. cur # NoWork /\ Working(workList', cur', wpc')
  BY <1>1, Facts DEF Working
<1>3. WorkInv'
  BY <1>1, <1>2, Facts, Together
<1>4. Abstract!End
  BY <1>1, <1>2 DEF Abstract!End
<1> QED BY <1>3, <1>4 DEF QueueStep, Abstract!Next

(* The worker goes to sleep, or wakes those that wait for an item to end. *)
LEMMA WorkerRestStep ==
    ASSUME WorkInv, WorkerSleep \/ WorkerAck
    PROVE  WorkInv' /\ QueueStep
<1>1. /\ workList' = workList /\ delayed' = delayed /\ cur' = cur
      /\ submitting' = submitting /\ ticking' = ticking /\ owned' = owned
      /\ part' = part /\ fault' = fault /\ fault = "none"
      /\ wpc \in {"look", "ack"} /\ wpc' \in {"asleep", "look"}
      /\ wpc' = "asleep" => workList = <<>>
  BY DEF WorkerSleep, WorkerAck, Turn, timers
<1>2. Working(workList', cur', wpc')
  BY <1>1, Facts DEF Working
<1>3. /\ cpc' \in [Caller -> {"user", "start", "cancel", "sync", "wait", "test", "get", "drop"}]
      /\ arg' \in [Caller -> Work \cup {NoWork}]
      /\ \A e \in Caller : cpc[e] # "wait" => cpc'[e] = cpc[e] /\ arg'[e] = arg[e]
      /\ \A e \in Caller : cpc[e] = "wait" => cpc'[e] \in {"user", "wait"}
  <2>1. CASE WorkerSleep
    BY <2>1, Facts DEF WorkerSleep
  <2>2. CASE WorkerAck
    <3>1. /\ cpc' = [c \in Caller |-> IF cpc[c] = "wait" THEN "user" ELSE cpc[c]]
          /\ arg' = [c \in Caller |-> IF cpc[c] = "wait" THEN NoWork ELSE arg[c]]
      BY <2>2 DEF WorkerAck
    <3>2. /\ \A e \in Caller :
                cpc[e] \in {"user", "start", "cancel", "sync", "wait", "test", "get", "drop"}
          /\ \A e \in Caller : arg[e] \in Work \cup {NoWork}
      BY Facts
    <3> QED BY <3>1, <3>2
  <2> QED BY <2>1, <2>2
<1>4. Started(cpc', arg', delayed', ticking')
  <2>1. \A e \in Caller : cpc[e] = "start" => cpc'[e] = "start" /\ arg'[e] = arg[e]
    BY <1>3
  <2> QED BY <1>1, <2>1, Facts DEF Started
<1>5. Named(cpc', arg')
  BY <1>3, Facts DEF Named
<1>6. WorkInv'
  <2>1. /\ cur' \in Work \cup {NoWork} /\ wpc' \in {"look", "asleep", "run", "ack"}
        /\ part' \in {"none", "work", "delayed"} /\ fault' \in {"none", "assert", "wild"}
        /\ Tidy(workList', delayed', submitting', ticking', owned')
    BY <1>1, Facts
  <2> QED BY <1>2, <1>3, <1>4, <1>5, <2>1, Together
<1> QED BY <1>1, <1>6 DEF QueueStep

(* A delay is over: an item that has lost its queue stops the system, any  *)
(* other one joins the list of work, or is missed.                         *)
LEMMA ExpireStep ==
    ASSUME WorkInv, NEW x \in Work, Expire(x)
    PROVE  WorkInv' /\ QueueStep
<1>1. cur' = cur /\ owned' = owned /\ cpc' = cpc /\ arg' = arg /\ part' = part /\ x \in submitting
  BY Facts DEF Expire
<1>2. CASE x \notin owned
  <2>1. /\ workList' = workList /\ delayed' = delayed /\ wpc' = wpc
        /\ submitting' = submitting /\ ticking' = ticking /\ fault' = "assert"
    BY <1>2 DEF Expire
  <2>2. WorkInv'
    BY <1>1, <2>1, Facts, Together
  <2> QED BY <1>1, <2>1, <2>2 DEF QueueStep
<1>3. CASE x \in owned
  <2>1. /\ ticking' = ticking \ {x} /\ submitting' = submitting \ {x}
        /\ delayed' = RestOf(delayed, x) /\ Wake /\ fault' = fault
        /\ workList' = IF cur = x THEN RestOf(workList, x) ELSE Append(RestOf(workList, x), x)
    BY <1>3 DEF Expire
  <2>2. Tidy(workList', delayed', submitting', ticking', owned')
    <3>1. CASE cur = x
      BY <1>1, <2>1, <3>1, Facts, RestTidy
    <3>2. CASE cur # x
      BY <1>1, <2>1, <3>2, Facts, JoinTidy
    <3> QED BY <3>1, <3>2
  <2>3. Started(cpc', arg', delayed', ticking')
    BY <1>1, <2>1, Facts, StartedRest
  <2>4. wpc' \in {"look", "asleep", "run", "ack"} /\ Working(workList', cur', wpc')
    BY <1>1, <2>1, Facts, WakeWorks
  <2>5. WorkInv'
    BY <1>1, <2>1, <2>2, <2>3, <2>4, Facts, Together
  <2>6. Abstract!Ripe(x) \/ Abstract!Miss(x)
    BY <1>1, <2>1, SameRemove DEF Abstract!Ripe, Abstract!Miss
  <2> QED BY <2>5, <2>6 DEF QueueStep, Abstract!Next
<1> QED BY <1>2, <1>3

-----------------------------------------------------------------------------
(* The invariant *)

(* A queue that has just been created is empty. *)
LEMMA WorkInitInv == WorkInit => WorkInv /\ Abstract!Init
<1> SUFFICES ASSUME WorkInit PROVE WorkInv /\ Abstract!Init
  OBVIOUS
<1>1. /\ workList = <<>> /\ delayed = <<>> /\ cur = NoWork /\ wpc = "look"
      /\ submitting = {} /\ owned = {} /\ ticking = {}
      /\ cpc = [c \in Caller |-> "user"] /\ arg = [c \in Caller |-> NoWork]
      /\ part = "none" /\ fault = "none"
  BY DEF WorkInit
<1>2. \A x : ~ Linked(x, workList) /\ ~ Linked(x, delayed)
  BY <1>1 DEF Linked
<1>3. Tidy(workList, delayed, submitting, ticking, owned)
  <2>1. workList \in Seq(Work) /\ delayed \in Seq(Work) /\ LinkedOnce(workList) /\ LinkedOnce(delayed)
    BY <1>1 DEF LinkedOnce
  <2> QED BY <1>1, <1>2, <2>1 DEF Tidy
<1>4. WorkTypeOK
  BY <1>1 DEF WorkTypeOK
<1>5. WorkInv
  BY <1>1, <1>2, <1>3, <1>4 DEF WorkInv, Started, Named, Working
<1>6. Abstract!Init
  BY <1>1, <1>2 DEF Abstract!Init
<1> QED BY <1>5, <1>6

(* Every step keeps the invariant and is a step of WorkList, or none. *)
LEMMA WorkStepInv ==
    ASSUME WorkInv, [WorkNext]_workVars
    PROVE  WorkInv' /\ QueueStep
<1>1. /\ Submitters \subseteq Caller /\ Delayers \subseteq Caller /\ Urgents \subseteq Caller
      /\ Cancellers \subseteq Caller /\ Syncs \subseteq Caller /\ Cleaners \subseteq Caller
  BY WorkQueueAssumption
<1>2. ASSUME NEW x \in Work, NEW c \in Caller,
             Submit(c, x) \/ SubmitDelayed(c, x) \/ Urgent(c, x) \/ Cancel(c, x) \/ SyncLook(c, x)
      PROVE  WorkInv' /\ QueueStep
  BY <1>2, SubmitStep, DelayStep, UrgentStep, CancelStep, LookStep
<1>3. ASSUME NEW c \in Caller, StartDelay(c) \/ SyncStep(c) \/ ClearBegin(c) \/ ClearStep(c)
      PROVE  WorkInv' /\ QueueStep
  BY <1>3, StartTimerStep, CancelStep, LookStep DEF SyncStep, ClearStep
<1>4. CASE WorkerStep
  BY <1>4, WorkerTakeStep, WorkerReturnStep, WorkerRestStep DEF WorkerStep
<1>5. CASE UNCHANGED workVars
  <2>1. /\ workList' = workList /\ delayed' = delayed /\ cur' = cur /\ wpc' = wpc
        /\ submitting' = submitting /\ ticking' = ticking /\ owned' = owned
        /\ cpc' = cpc /\ arg' = arg /\ part' = part /\ fault' = fault
    BY <1>5 DEF workVars, timers
  <2>2. WorkInv'
    BY <2>1, Facts, Together
  <2> QED BY <2>1, <2>2 DEF QueueStep
<1>6. CASE \E x \in Work :
              \/ \E c \in Submitters : Submit(c, x)
              \/ \E c \in Delayers : SubmitDelayed(c, x)
              \/ \E c \in Urgents : Urgent(c, x)
              \/ \E c \in Cancellers : Cancel(c, x)
              \/ \E c \in Syncs : SyncLook(c, x)
              \/ Expire(x)
  BY <1>1, <1>2, <1>6, ExpireStep
<1>7. CASE \/ \E c \in Delayers : StartDelay(c)
           \/ \E c \in Syncs : SyncStep(c)
           \/ \E c \in Cleaners : ClearBegin(c) \/ ClearStep(c)
  BY <1>1, <1>3, <1>7
<1> QED BY <1>4, <1>5, <1>6, <1>7 DEF WorkNext

-----------------------------------------------------------------------------
(* Theorems *)

(* Each item is linked in one list, once, and no delayed item is stranded, *)
(* for any number of items, threads and handlers that submit and cancel    *)
(* work at will, while delays run and while submissions go on.             *)
THEOREM QueueCorrect == WorkSpec => []QueueExact
<1>1. WorkInv /\ [WorkNext]_workVars => WorkInv'
  BY WorkStepInv
<1>2. WorkInv => QueueExact
  <2> SUFFICES ASSUME WorkInv PROVE QueueExact
    OBVIOUS
  <2>1. /\ LinkedOnce(workList) /\ LinkedOnce(delayed)
        /\ \A x \in Work : /\ ~ (Linked(x, workList) /\ Linked(x, delayed))
                           /\ Linked(x, delayed) => x \in submitting /\ x \in owned
                           /\ x \in ticking => x \in submitting
    BY DEF WorkInv, Tidy
  <2>2. \A x \in Work : Linked(x, delayed) =>
            x \in ticking \/ \E c \in Caller : cpc[c] = "start" /\ arg[c] = x
    BY DEF WorkInv, Started
  <2> QED BY <2>1, <2>2 DEF WorkInv, Working, QueueExact
<1>3. WorkInit => WorkInv
  BY WorkInitInv
<1> QED BY <1>1, <1>2, <1>3, PTL DEF WorkSpec

(* The work queue implements WorkList, whoever submits and cancels what    *)
(* and when: work is done in the order of the queue, one item at a time,   *)
(* and delayed work joins it when its time is over, unless it is missed.   *)
THEOREM QueuesWork == WorkSpec => ImplementsWorkList
<1>1. WorkInv /\ [WorkNext]_workVars => WorkInv' /\ QueueStep
  BY WorkStepInv
<1>2. WorkInit => WorkInv /\ Abstract!Init
  BY WorkInitInv
<1> QED BY <1>1, <1>2, PTL DEF WorkSpec, ImplementsWorkList, Abstract!Spec, QueueStep

=============================================================================
