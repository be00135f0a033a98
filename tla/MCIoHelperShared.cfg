SPECIFICATION SafeSpec
CONSTANTS
    Clients = {c1, c2}
    ByPoll = {c1, c2}
    NSubSig = 2
    Kinds = {"read"}
    MallocFails = FALSE
    CounterMod = 8
    MaxReq = 2
    NoSig = NoSig
SYMMETRY ClientSymmetry
INVARIANTS
    UsingCounted
