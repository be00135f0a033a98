SPECIFICATION MCSpec
CONSTANTS
    Periphs = {0, 1}
    NSubSig = 2
    Handlers = {h1, h2}
    NoHandler = NoHandler
    Given = {h1, h2, NoHandler}
    Promises = {0, 1}
    HandlersTake = TRUE
    AOT = FALSE
    MaxReq = 3
INVARIANTS
    TypeOK
    NoNestedHandler
    PendingKept
    CallsOwnHandler
PROPERTIES
    CallbackRuns
    SpinEnds
CHECK_DEADLOCK FALSE
