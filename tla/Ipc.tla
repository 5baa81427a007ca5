-------------------------------- MODULE Ipc --------------------------------
(***************************************************************************)
(* The wait lists of IPC objects (ipc.c).  A wait list is the sequence of  *)
(* the threads linked in ipc->suspend_thread, head first.                  *)
(***************************************************************************)
EXTENDS Kernel

Flag == {"FIFO", "PRIO"}    \* RT_IPC_FLAG_FIFO, RT_IPC_FLAG_PRIO

(* t goes before the first waiter of higher priority *)
Slip_PrioPlace(q, t, prio) ==
    LET ahead == {i \in 1 .. Len(q) : prio[t] > prio[q[i]]}
    IN  IF ahead = {} THEN Len(q) + 1
        ELSE CHOOSE i \in ahead : \A j \in ahead : i <= j

(* The first waiter t goes before: the first of strictly lower priority. *)
PrioPlace(q, t, prio) ==
    LET behind == {i \in 1 .. Len(q) : prio[t] < prio[q[i]]}
    IN  IF behind = {} THEN Len(q) + 1
        ELSE CHOOSE i \in behind : \A j \in behind : i <= j

(* FIFO order turned round: the newest waiter is served first *)
Slip_WaitInsertHead(flag, q, t, prio) ==
    IF flag = "FIFO" THEN <<t>> \o q ELSE InsertAt(q, PrioPlace(q, t, prio), t)

(* _ipc_list_suspend, after rt_thread_suspend. *)
WaitInsert(flag, q, t, prio) ==
    IF flag = "FIFO" THEN Append(q, t) ELSE InsertAt(q, PrioPlace(q, t, prio), t)

(* _ipc_list_resume if anybody waits. *)
WakeFirst(q) == IF q = <<>> THEN <<>> ELSE Tail(q)

(* "The pending threads will queue in order of priority" (_ipc_list_suspend) *)
InPrioOrder(q, prio) ==
    \A i, j \in 1 .. Len(q) : i < j => prio[q[i]] <= prio[q[j]]

=============================================================================
