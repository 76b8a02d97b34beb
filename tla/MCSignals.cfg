SPECIFICATION FairSpec
CONSTANTS
    a = a  b = b
    Procs = {a, b}
    Root = a
    NoProc = NoProc
    Sent = {9, 10, 18, 19}
    Caught = {10}
    Masks = {{9, 10, 19}}
    SaMask = {9, 10}
    MaxFrames = 1
CHECK_DEADLOCK FALSE
INVARIANTS
    HandlersRespectMask
 
