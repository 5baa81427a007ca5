CONSTANTS
    a = a
    b = b
    c = c
    b1 = b1
    b2 = b2
    Thread <- MCThread
    NoThread = NoThread
    NumPrio = 2
    ThreadPrio <- MCThreadPrio
    EvFlag = "PRIO"
    Bit = {b1, b2}
    Wants <- MCWants
    Resetters = {a}
    Owners = {c}
SPECIFICATION Spec
INVARIANTS WaitListExact
PROPERTIES NobodyIsRobbed ImplementsFlags
CHECK_DEADLOCK FALSE
