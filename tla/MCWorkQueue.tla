---------------------------- MODULE MCWorkQueue ----------------------------
(* A small system for WorkQueue: the worker, a thread and a handler, three items. *)
EXTENDS WorkQueue

CONSTANTS worker, thread, handler, x, y, z

=============================================================================
