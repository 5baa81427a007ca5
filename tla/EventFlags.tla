----------------------------- MODULE EventFlags -----------------------------
(***************************************************************************)
(* What an event object promises its users (ipc.c, the comments of         *)
(* rt_event_send and rt_event_recv), with neither wait list nor order:     *)
(* a thread asks for all or any of some bits and is granted them when they *)
(* are there; what is granted to be cleared is granted to one thread only; *)
(* nobody is kept asking for what is there.                                *)
(***************************************************************************)
EXTENDS Integers, FiniteSets

CONSTANTS
    Thread,
    Bit         \* the bits of the set

VARIABLES
    flags,      \* the bits that are set
    st          \* what each thread has of its pending receive

Ask == [want : (SUBSET Bit) \ {{}}, all : BOOLEAN, clear : BOOLEAN]

Idle == [state |-> "idle"]
Asks(a) == [state |-> "asking", ask |-> a]
Granted(b) == [state |-> "granted", bits |-> b]
Failed(e) == [state |-> e]

Init ==
    /\ flags = {}
    /\ st = [t \in Thread |-> Idle]

Asking == {t \in Thread : st[t].state = "asking"}

Meets(a, f) == IF a.all THEN a.want \subseteq f ELSE a.want \cap f # {}

Become(t, s) == st' = [st EXCEPT ![t] = s]

(* A receive that need not wait gets all it wants that is there. *)
Receive(t, a) ==
    /\ st[t] = Idle
    /\ Meets(a, flags)
    /\ Become(t, Granted(a.want \cap flags))
    /\ flags' = IF a.clear THEN flags \ a.want ELSE flags

Wait(t, a) ==
    /\ st[t] = Idle
    /\ ~ Meets(a, flags)
    /\ Become(t, Asks(a))
    /\ UNCHANGED flags

(* The threads of G are granted bits, out of f; the others keep waiting.   *)
Grant(G, bits, f) ==
    LET cleared(t) == IF st[t].ask.clear THEN bits[t] ELSE {}
    IN  /\ flags' = f \ UNION {cleared(t) : t \in G}
        /\ \A t \in G :
              /\ bits[t] \subseteq f \cap st[t].ask.want
              /\ Meets(st[t].ask, bits[t])
              /\ st[t].ask.want \cap flags' \subseteq bits[t]
              /\ \A u \in G \ {t} : cleared(t) \cap cleared(u) = {}
        /\ \A t \in Asking \ G : ~ Meets(st[t].ask, flags')
        /\ st' = [t \in Thread |-> IF t \in G THEN Granted(bits[t]) ELSE st[t]]

Send(S) ==
    \E G \in SUBSET Asking : \E bits \in [G -> SUBSET Bit] : Grant(G, bits, flags \cup S)

(* A wait that fails: its time is over, or the object is reset or gone. *)
Fail(t) ==
    /\ t \in Asking
    /\ \E e \in {"timeout", "error"} : Become(t, Failed(e))
    /\ UNCHANGED flags

(* RT_IPC_CMD_RESET *)
Reset ==
    /\ flags' = {}
    /\ st' = [t \in Thread |-> IF t \in Asking THEN Failed("error") ELSE st[t]]

Return(t) ==
    /\ st[t].state \in {"granted", "timeout", "error"}
    /\ Become(t, Idle)
    /\ UNCHANGED flags

Next ==
    \/ \E t \in Thread, a \in Ask : Receive(t, a) \/ Wait(t, a)
    \/ \E S \in SUBSET Bit : Send(S)
    \/ \E t \in Thread : Fail(t) \/ Return(t)
    \/ Reset

Spec == Init /\ [][Next]_<<flags, st>>

=============================================================================
