SPECIFICATION Spec
CONSTANTS
    Clients = {c1, c2}
    Blocks = {b1, b2, b3}
    Signos = {s1, s2}
    Kinds = {"obj_write", "obj_read", "bus_write", "spi", "read", "unsupported"}
    MaxReq = 2
SYMMETRY Symmetry
INVARIANTS
    NoDanglingBuffer
    OneOwner
    NothingElseLeft
CHECK_DEADLOCK FALSE
