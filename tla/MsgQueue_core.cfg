CONSTANTS
    a = a
    b = b
    c = c
    Thread <- MCThread
    NoThread = NoThread
    NumPrio = 2
    ThreadPrio <- MCThreadPrio
    MqFlag = "FIFO"
    Block = {b1, b2}
    NoBlock = NoBlock
    Msg = {m, n}
    NoMsg = NoMsg
    Senders = {a, b}
    Receivers = {b, c}
    Waiters = {a, b, c}
    Resetters = {a}
    Owners = {c}
SPECIFICATION Spec
INVARIANTS BlocksExact NobodyWaitsInVain
PROPERTIES ImplementsQueue
CHECK_DEADLOCK FALSE
SYMMETRY MCSymmetry
