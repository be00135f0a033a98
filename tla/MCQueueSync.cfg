SPECIFICATION Spec
CONSTANTS
    Requesters = {r1, r2}
    Loops = {l1}
    StartFirst = TRUE
    MaxReq = 2
INVARIANTS
    MutualExclusion
    SomeoneComes
PROPERTIES
    QueueDrained
    RequestersReturn
CHECK_DEADLOCK FALSE
