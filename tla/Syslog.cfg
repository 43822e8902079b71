SPECIFICATION LogSpec
CONSTANTS
    Threads = {1, 2}
    Attrs <- MCAttrs
    EmptyAttr <- MCEmpty
    Groups = {"", "g"}
    Records <- MCRecords
    MaxHandlers = 4
INVARIANTS LineIsTheHandlers
PROPERTIES HandleEnds
\* A program may stop logging; that no call is stuck is HandleEnds.
CHECK_DEADLOCK FALSE
