\* Every fault the engine is built to survive: kills and power losses anywhere,
\* failing system calls, unlinks in any order when no tombstone was dropped.
CONSTANTS
    Keys = {k1, k2}
    Values = {v1}
    Gone = Gone
    Torn = Torn
    FlushAt = 2
    Exposed = {}
    MaxSeq = 3
    MaxTables = 5
    MaxStops = 2
    MaxErrors = 1
SPECIFICATION Spec
SYMMETRY Interchangeable
INVARIANTS TypeOK ReadPathsAgree SeqIdentifiesWrite MemtableIsLogged LiveTablesOnDisk
PROPERTY ImplementsKvStore
CHECK_DEADLOCK FALSE
