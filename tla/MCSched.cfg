CONSTANTS
    Main = main
    InitProc = init
    p1 = p1
    p2 = p2
    mutex = mutex
    event = event
    Procs = {main, init, p1, p2}
    Sems = {mutex, event}
    NoSem = NoSem
    SemInit <- MCSemInit
    TimeSlice = 2
    MaxValue = 1

SPECIFICATION FairSpec

INVARIANTS
    
    
    NoIdleToken
    NeverHalts
PROPERTIES
    ReadyRuns
