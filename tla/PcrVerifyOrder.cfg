SPECIFICATION Spec
CONSTANTS
    BankLists <- OnlySHA256
    PCRs = {0, 1}
    Resettable = {}
    Requests <- Reversed
    ReadLimit = 2
    MaxChanges = 1
    Faults = FALSE
    None = None
INVARIANT VerifyAnyOrder
CHECK_DEADLOCK FALSE
