--------------------------- MODULE RecursiveLock ---------------------------
(***************************************************************************)
(* What the mutexes promise their users (ipc.c, the comments of            *)
(* rt_mutex_take, rt_mutex_release and rt_mutex_detach), with neither      *)
(* scheduler nor priorities: one owner at a time, which may take its mutex *)
(* again; a take that returns RT_EOK leaves the caller the owner, any      *)
(* other leaves the mutex alone; a mutex that somebody asks for is handed  *)
(* over when it is released, never left free.                              *)
(***************************************************************************)
EXTENDS Naturals

CONSTANTS
    Thread,
    NoThread,
    Mutex,
    NoMutex,
    MaxHold     \* RT_MUTEX_HOLD_MAX

VARIABLES
    owner,      \* who holds each mutex
    hold,       \* how many times
    asks,       \* the mutex each thread is waiting for
    st          \* what each thread has of its pending take

Outcome == {"granted", "timeout", "error"}

Init ==
    /\ owner = [x \in Mutex |-> NoThread]
    /\ hold = [x \in Mutex |-> 0]
    /\ asks = [t \in Thread |-> NoMutex]
    /\ st = [t \in Thread |-> "idle"]

Own(x, t, n) ==
    /\ owner' = [owner EXCEPT ![x] = t]
    /\ hold' = [hold EXCEPT ![x] = n]

Become(t, s, x) ==
    /\ st' = [st EXCEPT ![t] = s]
    /\ asks' = [asks EXCEPT ![t] = x]

Asked(x) == \E t \in Thread : asks[t] = x

(* A take that succeeds at once. *)
Take(t, x) ==
    /\ st[t] = "idle"
    /\ owner[x] \in {NoThread, t} /\ hold[x] < MaxHold
    /\ Own(x, t, hold[x] + 1)
    /\ UNCHANGED <<asks, st>>

(* A take that has to wait for another thread. *)
Ask(t, x) ==
    /\ st[t] = "idle"
    /\ owner[x] \notin {NoThread, t}
    /\ Become(t, "asking", x)
    /\ UNCHANGED <<owner, hold>>

(* A release that is not the last. *)
Leave(t, x) ==
    /\ owner[x] = t /\ hold[x] > 1
    /\ Own(x, t, hold[x] - 1)
    /\ UNCHANGED <<asks, st>>

(* The last release of a mutex nobody asks for. *)
Free(t, x) ==
    /\ owner[x] = t /\ hold[x] = 1 /\ ~ Asked(x)
    /\ Own(x, NoThread, 0)
    /\ UNCHANGED <<asks, st>>

(* The last release of one that somebody asks for. *)
HandOver(t, x) ==
    /\ owner[x] = t /\ hold[x] = 1
    /\ \E u \in Thread :
          /\ asks[u] = x
          /\ Own(x, u, 1)
          /\ Become(u, "granted", NoMutex)

Expire(t) ==
    /\ st[t] = "asking"
    /\ Become(t, "timeout", NoMutex)
    /\ UNCHANGED <<owner, hold>>

(* The mutex is detached: all those asking for it fail together. *)
Cancel(x) ==
    /\ Asked(x)
    /\ st' = [t \in Thread |-> IF asks[t] = x THEN "error" ELSE st[t]]
    /\ asks' = [t \in Thread |-> IF asks[t] = x THEN NoMutex ELSE asks[t]]
    /\ UNCHANGED <<owner, hold>>

(* A thread that owns nothing is deleted, in the middle of a take or not;  *)
(* no mutex is ever its own again.                                         *)
Die(t) ==
    /\ st[t] # "dead" /\ (\A x \in Mutex : owner[x] # t)
    /\ Become(t, "dead", NoMutex)
    /\ UNCHANGED <<owner, hold>>

(* The waiting take returns. *)
Return(t) ==
    /\ st[t] \in Outcome
    /\ Become(t, "idle", NoMutex)
    /\ UNCHANGED <<owner, hold>>

Next ==
    \/ \E t \in Thread : Expire(t) \/ Die(t) \/ Return(t)
    \/ \E x \in Mutex : Cancel(x)
    \/ \E t \in Thread, x \in Mutex :
          Take(t, x) \/ Ask(t, x) \/ Leave(t, x) \/ Free(t, x) \/ HandOver(t, x)

Spec == Init /\ [][Next]_<<owner, hold, asks, st>>

=============================================================================
