SPECIFICATION Spec
CONSTANTS
    Clients = {c1}
    ByPoll = {c1}
    NSubSig = 3
    Kinds = {"write", "spi", "unsupported"}
    MallocFails = FALSE
    CounterMod = 8
    MaxReq = 4
    NoSig = NoSig
PROPERTIES
    PollBusyIsTrue
    ImplementsAsyncIoLive
