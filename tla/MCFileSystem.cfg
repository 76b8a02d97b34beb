SPECIFICATION Spec
CONSTANTS
    n1 = n1
    n2 = n2
    Names = {n1, n2}
    MaxInode = 5
    MaxBlock = 3
    Files = {f1, f2}
    SymlinkDepth = 1
    Paths <- MCPaths
    Targets <- MCTargets
SYMMETRY Symmetry
CONSTRAINT Explored
INVARIANTS
    InodesExact
    BlocksExact
    
    RefsExact
