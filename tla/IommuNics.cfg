SPECIFICATION Spec
CONSTANTS
    Netdevs = {1, 2, 3}
    Profiles <- TwoFunctions
    Functions = {f1, f2}
    f1 = f1
    f2 = f2
    Domains = {"no group", "unreadable type", "translated", "identity"}
    Forced = {None, 2}
    Changes = {"unregister", "enslave"}
    None = None
INVARIANTS NothingDropped OneVerdict ForcedOnlyWidens MACIsThePorts
CHECK_DEADLOCK FALSE
