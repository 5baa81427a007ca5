CONSTANTS
    idle = idle
    a = a
    b = b
    c = c
    Thread <- MCThread
    NoThread = NoThread
    NumPrio = 3
    Idle = idle
    InitPrio <- MCInitPrio
    Flags = {"PRIO"}
    InitValue = 0
    MaxValue = 1
    Takers = {b}
    Resetters = {}
    Owners = {c}
    Reprio = {}
    NewPrio = {2}
SPECIFICATION Spec
INVARIANTS ResumesThreads
CHECK_DEADLOCK FALSE
