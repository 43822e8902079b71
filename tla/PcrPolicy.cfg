SPECIFICATION FairSpec
CONSTANTS
    BankLists <- TPMs
    PCRs = {0, 1, 2}
    Resettable = {2}
    Requests <- AnyOrder
    ReadLimit = 2
    MaxChanges = 2
    Faults = TRUE
    None = None
INVARIANTS ReadIsComplete SignIffPolicy VerifyIffUnchanged QuoteMatchesRead
PROPERTY ReadEnds
CHECK_DEADLOCK FALSE
