SPECIFICATION SignerSpec
CONSTANTS
    Goroutine = {g1, g2}
    Handles = {h1, h2}
    Devices = {"/dev/tpmrm0", "/dev/tpm0"}
    MaxFaults = 2
    NoKey = NoKey
INVARIANTS SignedByMine NoSilentLeak
