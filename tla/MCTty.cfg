SPECIFICATION FairSpec
CONSTANTS
    r1 = r1  r2 = r2
    Readers = {r1, r2}
    Nobody = Nobody
    Pgid <- MCPgid
    RingSize = 3
    LineSize = 2
    Modes <- MCModes
    Lens = {1, 3}
    MaxTyped = 4
CHECK_DEADLOCK FALSE
INVARIANTS
    InOrder
    LinesAsTyped
PROPERTY InputTaken
