SPECIFICATION FairSpec
CONSTANTS
    a = a  b = b
    Actors = {a, b}
    Root = a
    NoTable = NoTable
    MaxFds = 2
    Size = 2
    ReadLens = {1, 2}
    WriteLens = {2}
    Bytes = {0, 1}
    MaxRefs = 2
CHECK_DEADLOCK FALSE
INVARIANTS
    CountsExact
PROPERTIES
    StreamSpec
    HangupSeen
