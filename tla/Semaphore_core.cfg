CONSTANTS
    idle = idle
    a = a
    b = b
    c = c
    Thread <- MCThread
    NoThread = NoThread
    NumPrio = 3
    Idle = idle
    InitPrio <- MCInitPrio
    Flags = {"FIFO", "PRIO"}
    InitValue = 1
    MaxValue = 1
    Takers = {a, b, c}
    Resetters = {b}
    Owners = {c}
    Reprio = {b}
    NewPrio = {2}
SPECIFICATION FairSpec
INVARIANTS TypeOK NoUnitWhileWaiting WaitListExact DetachedWakesAll
PROPERTIES WaitOrderKept ImplementsCounting WaiterServed
CHECK_DEADLOCK FALSE
