CONSTANTS
    idle = idle
    manager = manager
    a = a
    b = b
    c = c
    Thread <- MCPeers
    NoThread = NoThread
    NumPrio = 2
    Idle = idle
    Manager = a
    InitPrio <- MCPeersPrio
    Slice = 2
    MaxSleep = 1
    MaxNest = 0
    Sleepers = {a}
    Waiters = {b}
    Quitters = {}
    Victims = {}
    Reprio = {}
    NewPrio = {}
SPECIFICATION FairSpec
PROPERTIES SleepEnds SliceEnds
