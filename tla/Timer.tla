------------------------------- MODULE Timer -------------------------------
(***************************************************************************)
(* The system timers (timer.c): one list sorted by the tick at which each  *)
(* timer is due (RT_TIMER_SKIP_LIST_LEVEL is 1), with ticks that wrap      *)
(* round.  It is used by threads and handlers, by the call-backs that      *)
(* rt_timer_check runs with interrupts disabled, by the tick interrupt,    *)
(* and by the power manager, which moves the tick by as much as the system *)
(* has slept (pm.c).                                                       *)
(*                                                                         *)
(* Where the processor is:                                                 *)
(*   open    interrupts are enabled                                        *)
(*   ticked  in rt_tick_increase, between ++rt_tick and rt_timer_check;    *)
(*           other handlers may come, no other tick                        *)
(*   check   in the loop of rt_timer_check, interrupts disabled            *)
(*   call    there, in the call-back of a timer                            *)
(* and where the idle thread is in the power manager:                      *)
(*   awake   anywhere else                                                 *)
(*   slept   rt_tick_set has been called, interrupts are enabled again     *)
(*   read    in rt_timer_check, the tick has been read, and interrupts are *)
(*           still enabled                                                 *)
(* (once the power manager's rt_timer_check has disabled interrupts, only  *)
(* pc tells where it is).                                                  *)
(***************************************************************************)
EXTENDS Integers, Linking

CONSTANTS
    Timer,      \* the timer objects
    NoTimer,
    W,          \* the number of ticks before rt_tick wraps round
    Delays,     \* the values of init_tick
    Jumps,      \* how many ticks the system may sleep
    Tuned,      \* the timers that are controlled, detached and initialised
    Stopped,    \* the timers that are stopped
    Stale       \* for how many ticks the idle thread may be interrupted
                \* between reading the tick and disabling interrupts

(* RT_TICK_MAX / 2 *)
Half == (W - 1) \div 2

(* "The max timeout tick should be no more than (RT_TICK_MAX/2 - 1)" and   *)
(* "the new tick shall less than the half duration of tick max".  A timer  *)
(* may be started while others are late, by as much as the system has      *)
(* slept, and one that is not due may be looked at by a stale tick; the    *)
(* last two conjuncts keep the sums within the half of the range in which  *)
(* one tick still counts as earlier than another.  A delay of 0 is left    *)
(* out: a periodic timer with that delay keeps rt_timer_check in its loop  *)
(* for ever.                                                               *)
ASSUME TimerAssumption ==
    /\ NoTimer \notin Timer
    /\ W \in Nat /\ W > 4
    /\ Delays \subseteq 1 .. Half - 1
    /\ Jumps \subseteq 1 .. Half - 2
    /\ Tuned \cup Stopped \subseteq Timer
    /\ Stale \in Nat
    /\ \A d \in Delays : d + Stale <= W - Half
    /\ \A d \in Delays, n \in Jumps : d + n <= W - Half

VARIABLES
    tick,       \* rt_tick
    list,       \* _timer_list
    local,      \* the list in rt_timer_check, for the timer it calls back
    timeout,    \* timer->timeout_tick
    delay,      \* timer->init_tick
    periodic,   \* the timers with RT_TIMER_FLAG_PERIODIC
    active,     \* the timers with RT_TIMER_FLAG_ACTIVATED
    alive,      \* the timers that are initialised
    stopping,   \* the timers that somebody has found active in rt_timer_stop
    pc,         \* where the processor is
    called,     \* the timer in the call-back, in rt_timer_check
    now,        \* current_tick in the rt_timer_check that runs, or 0
    pm,         \* where the idle thread is
    seen        \* the tick it has read, or 0

flags == <<periodic, active, alive>>
vars == <<tick, list, local, timeout, delay, flags, stopping, pc, called, now, pm, seen>>

TickType == 0 .. W - 1

TypeOK ==
    /\ tick \in TickType
    /\ list \in Seq(Timer)
    /\ local \in Seq(Timer)
    /\ timeout \in [Timer -> TickType]
    /\ delay \in [Timer -> Delays]
    /\ periodic \subseteq Timer /\ active \subseteq Timer /\ alive \subseteq Timer
    /\ stopping \subseteq Timer
    /\ pc \in {"open", "ticked", "check", "call"}
    /\ called \in Timer \cup {NoTimer}
    /\ pm \in {"awake", "slept", "read"}
    /\ now \in TickType /\ seen \in TickType

Init ==
    /\ tick = 0
    /\ list = <<>> /\ local = <<>>
    /\ timeout = [t \in Timer |-> 0]
    /\ delay \in [Timer -> Delays]
    /\ periodic \in SUBSET Timer
    /\ active = {} /\ alive = Timer
    /\ stopping = {}
    /\ pc = "open" /\ called = NoTimer
    /\ now = 0 /\ pm = "awake" /\ seen = 0

-----------------------------------------------------------------------------

(* the tick does not wrap round *)
Slip_Plus(a, n) == a + n

(* Sum and difference of rt_tick_t. *)
Plus(a, n) == IF a + n < W THEN a + n ELSE a + n - W
Minus(a, b) == IF a >= b THEN a - b ELSE a - b + W

(* Due by the tick at, as rt_timer_check sees it. *)
Due(t, at) == Minus(at, timeout[t]) < Half

(* timers that are due at the same tick are not passed by *)
Slip_Place(q, at) ==
    LET later == {i \in 1 .. Len(q) : Minus(timeout[q[i]], at) < Half}
    IN  IF later = {} THEN Len(q) + 1 ELSE CHOOSE i \in later : \A j \in later : i <= j

(* The place in q of a timer that is due at the tick at: before the first  *)
(* that is due later.                                                      *)
Place(q, at) ==
    LET later == {i \in 1 .. Len(q) : LET ahead == Minus(timeout[q[i]], at)
                                      IN  ahead # 0 /\ ahead < Half}
    IN  IF later = {} THEN Len(q) + 1 ELSE CHOOSE i \in later : \A j \in later : i <= j

(* rt_timer_start *)
StartTimer(t) ==
    LET rest == RemoveFirst(list, t)
        at == Plus(tick, delay[t])
    IN  /\ list' = InsertAt(rest, Place(rest, at), t)
        /\ local' = RemoveFirst(local, t)
        /\ timeout' = [timeout EXCEPT ![t] = at]
        /\ active' = active \cup {t}

(* _timer_remove, and the flag is cleared *)
StopTimer(t) ==
    /\ list' = RemoveFirst(list, t)
    /\ local' = RemoveFirst(local, t)
    /\ active' = active \ {t}

(* Threads, handlers and call-backs run here. *)
Running == pc \in {"open", "ticked", "call"}

-----------------------------------------------------------------------------
(* The calls *)

Start(t) ==
    /\ Running /\ t \in alive
    /\ StartTimer(t)
    /\ UNCHANGED <<tick, delay, periodic, alive, stopping, pc, called, now, pm, seen>>

(* rt_timer_stop looks at the flag before it disables interrupts; in a     *)
(* call-back they are disabled anyway.  Of an inactive timer it returns    *)
(* -RT_ERROR.                                                              *)
StopLook(t) ==
    /\ pc \in {"open", "ticked"} /\ t \in alive
    /\ t \in active
    /\ stopping' = stopping \cup {t}
    /\ UNCHANGED <<tick, list, local, timeout, delay, flags, pc, called, now, pm, seen>>

StopEnd(t) ==
    /\ pc \in {"open", "ticked"}
    /\ t \in stopping
    /\ StopTimer(t)
    /\ stopping' = stopping \ {t}
    /\ UNCHANGED <<tick, timeout, delay, periodic, alive, pc, called, now, pm, seen>>

StopInCall(t) ==
    /\ pc = "call" /\ t \in alive
    /\ t \in active
    /\ StopTimer(t)
    /\ UNCHANGED <<tick, timeout, delay, periodic, alive, stopping, pc, called, now, pm, seen>>

(* rt_timer_detach, rt_timer_delete; nobody else is using the timer. *)
Detach(t) ==
    /\ Running /\ t \in alive \ stopping
    /\ StopTimer(t)
    /\ alive' = alive \ {t}
    /\ UNCHANGED <<tick, timeout, delay, periodic, stopping, pc, called, now, pm, seen>>

(* rt_timer_init, rt_timer_create *)
InitTimer(t, d, p) ==
    /\ Running /\ t \notin alive
    /\ alive' = alive \cup {t}
    /\ active' = active \ {t}
    /\ delay' = [delay EXCEPT ![t] = d]
    /\ periodic' = IF p THEN periodic \cup {t} ELSE periodic \ {t}
    /\ timeout' = [timeout EXCEPT ![t] = 0]
    /\ UNCHANGED <<tick, list, local, stopping, pc, called, now, pm, seen>>

(* rt_timer_control: a running timer keeps the tick at which it is due.    *)
SetTime(t, d) ==
    /\ Running /\ t \in alive
    /\ delay' = [delay EXCEPT ![t] = d]
    /\ UNCHANGED <<tick, list, local, timeout, flags, stopping, pc, called, now, pm, seen>>

(* RT_TIMER_CTRL_SET_ONESHOT and _PERIODIC.  A periodic timer that its     *)
(* call-back makes a one-shot one keeps the flag ACTIVATED, although it is *)
(* in no list any more.                                                    *)
SetMode(t, p) ==
    /\ Running /\ t \in alive
    /\ periodic' = IF p THEN periodic \cup {t} ELSE periodic \ {t}
    /\ UNCHANGED <<tick, list, local, timeout, delay, active, alive, stopping, pc, called, now, pm, seen>>

-----------------------------------------------------------------------------
(* The tick and rt_timer_check *)

(* rt_tick_increase, before it checks the timers; the bound is Stale.      *)
Tick ==
    /\ pc = "open"
    /\ pm = "read" => Minus(tick, seen) < Stale
    /\ tick' = Plus(tick, 1)
    /\ pc' = "ticked"
    /\ UNCHANGED <<list, local, timeout, delay, flags, stopping, called, now, pm, seen>>

CheckBegin ==
    /\ pc = "ticked"
    /\ now' = tick
    /\ pc' = "check"
    /\ UNCHANGED <<tick, list, local, timeout, delay, flags, stopping, called, pm, seen>>

(* the flag of a periodic timer is cleared as well *)
Slip_CheckCall ==
    /\ pc = "check"
    /\ list # <<>>
    /\ Due(Head(list), now)
    /\ active' = active \ {Head(list)}
    /\ local' = <<Head(list)>>
    /\ called' = Head(list)
    /\ list' = Tail(list)
    /\ pc' = "call"
    /\ UNCHANGED <<tick, timeout, delay, periodic, alive, stopping, now, pm, seen>>

(* The first timer is due: it is moved to the local list and called back.  *)
CheckCall ==
    /\ pc = "check"
    /\ list # <<>>
    /\ Due(Head(list), now)
    /\ active' = IF Head(list) \in periodic THEN active ELSE active \ {Head(list)}
    /\ local' = <<Head(list)>>
    /\ called' = Head(list)
    /\ list' = Tail(list)
    /\ pc' = "call"
    /\ UNCHANGED <<tick, timeout, delay, periodic, alive, stopping, now, pm, seen>>

(* The call-back returns and the tick is read again.  The timer is started *)
(* again if it is periodic; but if it has been stopped, restarted or       *)
(* detached meanwhile, the local list is empty and it is left alone.       *)
CallEnd ==
    /\ pc = "call"
    /\ IF local # <<>> /\ called \in periodic /\ called \in active
       THEN StartTimer(called)
       ELSE local' = <<>> /\ UNCHANGED <<list, timeout, active>>
    /\ now' = tick
    /\ pc' = "check" /\ called' = NoTimer
    /\ UNCHANGED <<tick, delay, periodic, alive, stopping, pm, seen>>

(* one timer is looked at, not all *)
Slip_CheckEnd ==
    /\ pc = "check"
    /\ pc' = "open" /\ now' = 0
    /\ UNCHANGED <<tick, list, local, timeout, delay, flags, stopping, called, pm, seen>>

CheckEnd ==
    /\ pc = "check"
    /\ list # <<>> => ~ Due(Head(list), now)
    /\ pc' = "open" /\ now' = 0
    /\ UNCHANGED <<tick, list, local, timeout, delay, flags, stopping, called, pm, seen>>

-----------------------------------------------------------------------------
(* _pm_change_sleep_mode, in the idle thread *)

Sleep(n) ==
    /\ pc = "open" /\ pm = "awake"
    /\ tick' = Plus(tick, n)
    /\ pm' = "slept"
    /\ UNCHANGED <<list, local, timeout, delay, flags, stopping, pc, called, now, seen>>

PmRead ==
    /\ pc = "open" /\ pm = "slept"
    /\ seen' = tick
    /\ pm' = "read"
    /\ UNCHANGED <<tick, list, local, timeout, delay, flags, stopping, pc, called, now>>

PmCheck ==
    /\ pc = "open" /\ pm = "read"
    /\ now' = seen
    /\ pm' = "awake" /\ seen' = 0
    /\ pc' = "check"
    /\ UNCHANGED <<tick, list, local, timeout, delay, flags, stopping, called>>

-----------------------------------------------------------------------------

Stop(t) == StopLook(t) \/ StopEnd(t) \/ StopInCall(t)

Tune(t) ==
    \/ Detach(t)
    \/ \E d \in Delays, p \in BOOLEAN : InitTimer(t, d, p)
    \/ \E d \in Delays : SetTime(t, d)
    \/ \E p \in BOOLEAN : SetMode(t, p)

Check == CheckBegin \/ CheckCall \/ CallEnd \/ CheckEnd

PowerManager == (\E n \in Jumps : Sleep(n)) \/ PmRead \/ PmCheck

Next ==
    \/ \E t \in Timer : Start(t)
    \/ \E t \in Stopped : Stop(t)
    \/ \E t \in Tuned : Tune(t)
    \/ Tick
    \/ Check
    \/ PowerManager

Spec == Init /\ [][Next]_vars

(* The tick keeps coming; a handler that nothing but another handler       *)
(* interrupts runs to its end, which includes the call-backs; and the idle *)
(* thread comes back to the power manager.                                 *)
Fairness == WF_vars(Tick) /\ WF_vars(Check) /\ WF_vars(PmRead \/ PmCheck)

FairSpec == Spec /\ Fairness

-----------------------------------------------------------------------------
(* Properties *)

(* Whatever call-backs do to their own timer and to others, a timer is in  *)
(* one list at most, only timers that exist are linked, and a timer that   *)
(* is going to fire is active, so that rt_timer_stop finds it.  A timer    *)
(* that nobody controls is active only if it is in the list of running     *)
(* timers or is a periodic one in its call-back, which will go on.         *)
ActiveIsLinked ==
    /\ LinkedOnce(list) /\ LinkedOnce(local)
    /\ \A t \in Timer :
          /\ ~ (Linked(t, list) /\ Linked(t, local))
          /\ Linked(t, list) \/ Linked(t, local) => t \in alive
          /\ Linked(t, list) => t \in active
    /\ \A t \in Timer \ Tuned :
          t \in active <=> Linked(t, list) \/ (Linked(t, local) /\ t \in periodic)

(* When interrupts are enabled again, every timer that is due has been     *)
(* called back, unless the system has just slept.                          *)
NoneOverdue ==
    pc = "open" /\ pm = "awake" => \A i \in 1 .. Len(list) : ~ Due(list[i], tick)

(* A timer does not stay in the list for ever, unless somebody starts it   *)
(* anew again and again: in the end it is called back, or stopped.         *)
TimerFires ==
    \A t \in Timer :
        []<>(~ Linked(t, list)) \/ []<><<timeout'[t] # timeout[t]>>_timeout

(* The timers implement AlarmClock: what is left until a timer is due is   *)
(* the distance of two ticks, taken as negative if it is due already.      *)
Left(t) ==
    IF ~ Linked(t, list) THEN 0
    ELSE IF Due(t, tick) THEN 0 - Minus(tick, timeout[t])
    ELSE Minus(timeout[t], tick)

Clock == INSTANCE AlarmClock
             WITH queue <- list, left <- [t \in Timer |-> Left(t)], ring <- called,
                  Passes <- Jumps \cup {1}

ImplementsAlarms == Clock!Spec

=============================================================================
