SPECIFICATION Spec
CONSTANTS
    Callers = {t1, t2}
    GpioUsers = {g1, g2}
    GpioPins = {4, 17}
    GpioModes = {"out", "in_pu"}
    MaxUse = 2
    N_READS = 2
    MaxSensorCalls = 1
    MaxFlashCalls = 1
INVARIANTS
    HolderOnly
    PinsAsAsked
    OwnAnswer
PROPERTIES
    CallsReturn
CHECK_DEADLOCK FALSE
