SPECIFICATION Spec
CONSTANTS
    Clients = {c1, c2}
    ByPoll = {}
    NSubSig = 2
    Kinds = {"read", "object"}
    MallocFails = TRUE
    CounterMod = 8
    MaxReq = 3
    NoSig = NoSig
INVARIANTS
    TypeOK
    UsingCounted
    OnePlace
    FreesLiveBuffer
    DataNotLeaked
    NoLostWakeup
    CompletionOrder
PROPERTIES
    PollIdleIsTrue
    ImplementsAsyncIo
    QueuedComplete
