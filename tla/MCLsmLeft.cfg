\* An unlink fails; a later compaction drops the tombstone of a key that the file still has.
CONSTANTS
    Keys = {k1}
    Values = {v1}
    Gone = Gone
    Torn = Torn
    FlushAt = 2
    Exposed = {"leftover_input"}
    MaxSeq = 4
    MaxTables = 5
    MaxStops = 1
    MaxErrors = 1
SPECIFICATION Spec
INVARIANT AcknowledgedSurvive
CHECK_DEADLOCK FALSE
