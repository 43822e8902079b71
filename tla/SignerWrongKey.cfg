SPECIFICATION SignerSpec
CONSTANTS
    Goroutine = {g1}
    Handles = {h1, h2}
    Devices = {"/dev/tpm0"}
    MaxFaults = 1
    NoKey = NoKey
INVARIANTS PublicIsMine
