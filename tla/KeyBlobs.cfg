SPECIFICATION Spec
CONSTANTS
    None = None
    Error = Error
    Crash = Crash
    Base = 8
    MaxSealLength = 2
    MaxSealCount = 3
    Data <- MCData
    PCRSets <- MCPCRSets
INVARIANTS RoundTrip
PROPERTIES ImplementsVault
