SPECIFICATION SafeSpec
CONSTANTS
    Requesters = {r1}
    Loops = {l1}
    StartFirst = FALSE
    MaxReq = 1
SYMMETRY RequesterSymmetry
INVARIANTS
    NoPanic
CHECK_DEADLOCK FALSE
