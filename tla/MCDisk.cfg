SPECIFICATION Spec
CONSTANTS
    p1 = p1
    p2 = p2
    p3 = p3
    s1 = s1
    s2 = s2
    s3 = s3
    Procs = {p1, p2, p3}
    Writers = {p1}
    Sectors = {s1, s2}
    NoSector = NoSector
    Values = {1}
    Slots = 2
    Capacity = 1
    MaxSignals = 1
SYMMETRY Interchangeable
CHECK_DEADLOCK FALSE
INVARIANTS
    SlotsExact
    WritesKept
    NobodyStranded
