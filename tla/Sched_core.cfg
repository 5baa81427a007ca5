CONSTANTS
    idle = idle
    manager = manager
    a = a
    b = b
    c = c
    Thread <- MCThread
    NoThread = NoThread
    NumPrio = 3
    Idle = idle
    Manager = manager
    InitPrio <- MCInitPrio
    Slice = 2
    MaxSleep = 1
    MaxNest = 1
    Sleepers = {a}
    Waiters = {manager, a}
    Quitters = {a}
    Victims = {b}
    Reprio = {a}
    NewPrio = {0, 1}
SPECIFICATION Spec
INVARIANTS TypeOK ReadyTableExact HighestRuns ArmedIsSuspended
PROPERTIES LockedKeepsCpu PreemptedIsFirst
