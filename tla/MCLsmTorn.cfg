\* Clients go on writing after a power loss left a torn frame at the end of the log.
CONSTANTS
    Keys = {k1}
    Values = {v1}
    Gone = Gone
    Torn = Torn
    FlushAt = 2
    Exposed = {"write_after_torn"}
    MaxSeq = 4
    MaxTables = 3
    MaxStops = 2
    MaxErrors = 0
SPECIFICATION Spec
INVARIANT AcknowledgedSurvive
CHECK_DEADLOCK FALSE
