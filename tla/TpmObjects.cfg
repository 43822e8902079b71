SPECIFICATION Spec
CONSTANTS
    None = None
    Password = {"", "pw"}
    NoPassword = ""
    Handles = {1, 2}
    Machines <- MCMachines
    MaxClears = 1
    MaxOthers = 1
INVARIANTS KeepsPromise NoLeak EKMatchesCert PolicyEnforced
