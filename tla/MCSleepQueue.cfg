CONSTANTS
    p1 = p1
    p2 = p2
    p3 = p3
    p4 = p4
    Pcbs = {p1, p2, p3, p4}
    Null = Null
    MaxSleep = 3
    TimeMax = 15

SPECIFICATION SchedulerSpec
SYMMETRY MCSymmetry

INVARIANTS
    WakesOnTime
    Represents
PROPERTY FifoSpec
