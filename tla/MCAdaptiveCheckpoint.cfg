SPECIFICATION MCSpec
CONSTANTS
    Periphs = {0, 1}
    NSubSig = 2
    Handlers = {h1}
    NoHandler = nohandler
    Given = {h1}
    Promises = {1}
    HandlersTake = TRUE
    AOT = TRUE
    MaxReq = 3
    N_REQ_TYPE = 2
    TypesOf <- OwnType
    EnqueueFails = FALSE
    Garbage = {"null", "late", "early"}
    MaxProfile = 2
INVARIANTS
    AdaptiveTypeOK
    EstimatePerRequest
PROPERTIES
    CallbackRuns
CHECK_DEADLOCK FALSE
