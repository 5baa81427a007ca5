CONSTANTS
    idle = idle
    high = high
    rival = rival
    mid = mid
    low = low
    m1 = m1
    m2 = m2
    Thread <- MCRivalry
    NoThread = NoThread
    NumPrio = 5
    Mutex = {m1, m2}
    NoMutex = NoMutex
    Idle = idle
    InitPrio <- MCRivalryPrio
    MaxHold = 1
    Ceilings = {}
    Users <- MCUsersRivalry
    Nesters = {high, rival, mid, low}
    Timed = {}
    Sleepers = {low}
    Owners = {}
    Setters = {}
    Manager = low
    Victims = {high}
    Asserts = FALSE
SPECIFICATION Spec
INVARIANTS WaitersInPrioOrder Inheritance
