SPECIFICATION Spec
CONSTANTS
    None = None
    Calls = {1, 2}
    Codes = {257, 322, 139, 395, 1931, 459, 4043, 2443, 2338, 511, 30}
INVARIANTS ReturnedIsProbed ErrorsNamed
PROPERTIES BusyExplained CallEnds ProbeEnds
\* Calls that have ended need not be repeated; progress is CallEnds and ProbeEnds.
CHECK_DEADLOCK FALSE
