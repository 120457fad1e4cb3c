SPECIFICATION Spec
CONSTANTS
    MaxSize = 5
    Data = {d1, d2, d3}
    Server = Server
    CopyInterests <- MCCopyInterests
    MaxThreads = 1
CHECK_DEADLOCK FALSE
SYMMETRY Symmetry
INVARIANTS
    TypeOK
    TableMirrored
    TableOpen
    EventsReported
    NoLostWakeup
