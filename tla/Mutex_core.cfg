CONSTANTS
    idle = idle
    high = high
    rival = rival
    mid = mid
    low = low
    m1 = m1
    m2 = m2
    Thread <- MCThread
    NoThread = NoThread
    NumPrio = 4
    Mutex = {m1, m2}
    NoMutex = NoMutex
    Idle = idle
    InitPrio <- MCInitPrio
    MaxHold = 2
    Ceilings = {}
    Users <- MCUsersAll
    Nesters = {}
    Timed = {high, mid, low}
    Sleepers = {low}
    Owners = {mid}
    Setters = {}
    Manager = low
    Victims = {high}
    Asserts = TRUE
SPECIFICATION Spec
INVARIANTS OwnershipExact WaitListExact OwnerInherits
PROPERTIES ImplementsLock
CHECK_DEADLOCK FALSE
