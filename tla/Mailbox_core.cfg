CONSTANTS
    a = a
    b = b
    c = c
    Thread <- MCThread
    NoThread = NoThread
    NumPrio = 2
    ThreadPrio <- MCThreadPrio
    MbFlag = "PRIO"
    Size = 2
    Mail = {m, n}
    NoMail = NoMail
    Senders = {a, b}
    Receivers = {b, c}
    Resetters = {a}
    Owners = {c}
SPECIFICATION Spec
INVARIANTS WaitListsExact NobodyWaitsInVain
PROPERTIES ImplementsQueue
CHECK_DEADLOCK FALSE
