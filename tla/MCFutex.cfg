CONSTANTS
    Main = main
    InitProc = init
    p1 = p1
    p2 = p2
    k1 = k1
    k2 = k2
    Procs = {main, init, p1, p2}
    Sems = {}
    NoSem = NoSem
    SemInit <- MCSemInit
    TimeSlice = 1
    MaxValue = 0
    Keys = {k1}
    NoKey = NoKey
    Words = {0, 1}
    Counts = {1, 3}

SPECIFICATION FutexFairSpec
CHECK_DEADLOCK FALSE

INVARIANTS
    
    NoLostWake
PROPERTY WokenReturns
