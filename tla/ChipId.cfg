SPECIFICATION FairSpec
CONSTANTS
    Callers = {c1, c2}
    PciBus <- TwoSockets
    Logs <- AnyLog
    SevStates <- Sevs
    Addrs = {a1, a2}
    ChipIDSize = 2
    RegistersEnd = 3
    MaxGets = 1
    None = None
INVARIANTS IdIsReal
PROPERTY GetEnds
CHECK_DEADLOCK FALSE
