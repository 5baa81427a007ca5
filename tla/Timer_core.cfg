CONSTANTS
    Timer = {t1, t2}
    NoTimer = NoTimer
    W = 8
    Delays = {1, 2}
    Jumps = {1}
    Tuned = {t1}
    Stopped = {t1, t2}
    Stale = 2
SPECIFICATION FairSpec
INVARIANTS TypeOK ActiveIsLinked NoneOverdue
PROPERTIES ImplementsAlarms TimerFires
VIEW MCView
