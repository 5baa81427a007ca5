------------------------- MODULE CountingSemaphore -------------------------
(***************************************************************************)
(* What a semaphore promises its users (ipc.c, the comments of             *)
(* rt_sem_take, rt_sem_release, rt_sem_control and rt_sem_detach), with    *)
(* neither scheduler nor wait list: a release adds one unit or hands it    *)
(* to one asking thread; a take that returns RT_EOK has consumed exactly   *)
(* one, any other take none; nobody is kept asking while a unit is free.   *)
(***************************************************************************)
EXTENDS Naturals

CONSTANTS
    Thread,
    MaxValue    \* RT_SEM_VALUE_MAX

VARIABLES
    free,       \* units nobody has taken
    st          \* what each thread has of its pending take

Outcome == {"granted", "timeout", "error"}

Init ==
    /\ free \in 0 .. MaxValue
    /\ st = [t \in Thread |-> "idle"]

Asking == {t \in Thread : st[t] = "asking"}

Become(t, s) == st' = [st EXCEPT ![t] = s]

(* A take that finds a unit. *)
Take(t) == st[t] = "idle" /\ free > 0 /\ free' = free - 1 /\ UNCHANGED st

(* A take that has to wait. *)
Ask(t) == st[t] = "idle" /\ free = 0 /\ Become(t, "asking") /\ UNCHANGED free

(* A release: to a waiter if there is one, else to the free units. *)
Grant(t) == st[t] = "asking" /\ Become(t, "granted") /\ UNCHANGED free
Put == Asking = {} /\ free < MaxValue /\ free' = free + 1 /\ UNCHANGED st

(* A wait that fails: its time is over, or the semaphore is reset or gone. *)
Expire(t) == st[t] = "asking" /\ Become(t, "timeout") /\ UNCHANGED free
Cancel(t) == st[t] = "asking" /\ Become(t, "error") /\ UNCHANGED free

(* The waiting take returns. *)
Return(t) == st[t] \in Outcome /\ Become(t, "idle") /\ UNCHANGED free

(* RT_IPC_CMD_RESET, once all waits are cancelled. *)
Reset == Asking = {} /\ free' \in 0 .. MaxValue /\ UNCHANGED st

Next ==
    \/ \E t \in Thread :
          Take(t) \/ Ask(t) \/ Grant(t) \/ Expire(t) \/ Cancel(t) \/ Return(t)
    \/ Put
    \/ Reset

Spec == Init /\ [][Next]_<<free, st>>

=============================================================================
