\* Power fails after a kill whose last frame was replayed but never fsynced.
CONSTANTS
    Keys = {k1}
    Values = {v1}
    Gone = Gone
    Torn = Torn
    FlushAt = 2
    Exposed = {"slow_writeback"}
    MaxSeq = 4
    MaxTables = 3
    MaxStops = 2
    MaxErrors = 0
SPECIFICATION Spec
INVARIANT ReadPathsAgree
CHECK_DEADLOCK FALSE
