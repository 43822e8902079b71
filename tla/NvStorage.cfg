SPECIFICATION FairSpec
CONSTANTS
    Program = {p1, p2}
    Index = 5
    Occupied = {3, 7}
    MaxCapHandles = 3
    NVBufferMax = 2
    Sizes = {2, 3}
    Expected <- MCExpected
    Value = {"a"}
    Faults = TRUE
    Password = {"pw"}
INVARIANTS StatusWasTrue ReadIsRegular InitEstablishes
PROPERTY ReadEnds
