\* The process dies between two unlinks of a compaction that dropped a tombstone.
CONSTANTS
    Keys = {k1}
    Values = {v1}
    Gone = Gone
    Torn = Torn
    FlushAt = 2
    Exposed = {"cut_removal"}
    MaxSeq = 4
    MaxTables = 4
    MaxStops = 1
    MaxErrors = 0
SPECIFICATION Spec
INVARIANT AcknowledgedSurvive
CHECK_DEADLOCK FALSE
