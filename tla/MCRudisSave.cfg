\* A save that fails, or a process that dies in it, after the file was emptied.
CONSTANTS
    Keys = {k1, k2}
    Other = None
    Text = Text
    MaxInt = 1
    Second = 1
    Written = {0, Text}
    Deadlines = {1}
    Spans = {1}
    Never = Never
    Nil = Nil
    Ok = Ok
    Err = Err
    MaxTime = 1
    Exposed = {"cut_save"}
SPECIFICATION Spec
INVARIANT SnapshotKept
CHECK_DEADLOCK FALSE
