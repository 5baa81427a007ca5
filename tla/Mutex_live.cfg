CONSTANTS
    idle = idle
    high = high
    rival = rival
    mid = mid
    low = low
    m1 = m1
    m2 = m2
    Thread <- MCThread
    NoThread = NoThread
    NumPrio = 4
    Mutex = {m1}
    NoMutex = NoMutex
    Idle = idle
    InitPrio <- MCInitPrio
    MaxHold = 2
    Ceilings = {0, 1}
    Users <- MCUsersHog
    Nesters = {}
    Timed = {}
    Sleepers = {}
    Owners = {}
    Setters = {idle}
    Manager = idle
    Victims = {}
    Asserts = TRUE
SPECIFICATION FairSpec
PROPERTIES WaitEnds
