SPECIFICATION FairSpec
CONSTANTS
    Clients = {c1, c2}
    Loop = loop
    N_SUB_SIG = 2
    MaxCalls = 2
INVARIANTS
    NumbersCounted
    NumbersUnique
    SignalsKept
PROPERTIES
    CallsReturn
CHECK_DEADLOCK FALSE
