SPECIFICATION Spec
CONSTANTS
    p1 = p1  p2 = p2  p3 = p3
    g1 = g1  g2 = g2  g3 = g3
    Procs = {p1, p2, p3}
    Root = p1
    HeapMax = 1
    MapMax = 2
    Pages = {g1, g2, g3}
    NoPage = NoPage
    Values = {1}
    Places <- FirstOrBoth
    Touched = {1, 2}
SYMMETRY Interchangeable
CONSTRAINT Explored
INVARIANTS
    PagesAccounted
    CountsExact
    OrderlyIsolation
