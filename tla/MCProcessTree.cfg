SPECIFICATION Spec
CONSTANTS
    r = r
    a = a
    b = b
    c = c
    Procs = {r, a, b, c}
    Root = r
    NoProc = NoProc
    AnyPid = AnyPid
    Targets <- AllTargets
SYMMETRY Interchangeable
INVARIANTS
    TreeExact
    TokensMatchZombies
    NoStuckWaiter
