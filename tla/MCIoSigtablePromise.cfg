SPECIFICATION MixedSpec
CONSTANTS
    Periphs = {0}
    NSubSig = 2
    Handlers = {h1, h2}
    NoHandler = NoHandler
    Given = {h1}
    Promises = {0}
    HandlersTake = TRUE
    AOT = TRUE
    MaxReq = 2
INVARIANTS
    PromiseKept
CHECK_DEADLOCK FALSE
