CONSTANTS
    N = 3
    Producers = 1
    Iters = 1
    Rounds = 2
    PipeLen = 1
    MaxPid = 3
SPECIFICATION Spec
INVARIANT JoinSafe
INVARIANT MutexExclusive
INVARIANT BuffersAndBarriersHold
INVARIANT ProcessChecksPass
PROPERTY TestsEnd
CHECK_DEADLOCK FALSE
