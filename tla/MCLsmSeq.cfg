\* No fault at all but a restart after a compaction.
CONSTANTS
    Keys = {k1}
    Values = {v1}
    Gone = Gone
    Torn = Torn
    FlushAt = 2
    Exposed = {}
    MaxSeq = 4
    MaxTables = 3
    MaxStops = 1
    MaxErrors = 0
SPECIFICATION Spec
INVARIANT SeqNeverReused
CHECK_DEADLOCK FALSE
