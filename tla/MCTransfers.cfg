SPECIFICATION Spec
CONSTANTS
    SpiSessions <- MCSpiSessions
    I2cSessions <- MCI2cSessions
    TxDepth = 2
    RxDepth = 3
    MaxSpiSessions = 2
    BSC_FIFO_SIZE = 2
    Faults = {"nack", "stretch", "hold"}
    MaxI2cSessions = 2
    BITS = 3
    SPIN_TIMEOUT = 20
    READ_THRESHOLD = 8
    SYNC = 12
    RESPONSE = 16
    Reactions = {4, 8}
    Lows = {10}
    Zero = 5
    One = 14
    MaxStall = 2
    Dies = TRUE
    POWER_WAIT = 6
    START_LOW = 2
    Functions = {"dht_init", "dht_read"}
INVARIANTS
    OwnBytes
    NoFalseFailure
PROPERTIES
    TransfersReturn
CHECK_DEADLOCK FALSE
