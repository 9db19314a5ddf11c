\* Every command, kill, restart and completed save.  One key over four instants, with
\* deadlines already past and lives of no second; a second key in the first two.
CONSTANTS
    Keys = {k1, k2}
    Other = k2
    Text = Text
    MaxInt = 2
    Second = 1
    Written = {0, Text}
    Deadlines = {0, 1, 2}
    Spans = {0, 1}
    Never = Never
    Nil = Nil
    Ok = Ok
    Err = Err
    MaxTime = 3
    Exposed = {}
SPECIFICATION MCSpec
INVARIANT TypeOK
PROPERTIES ImplementsTtlMap DeadAreReclaimed
CHECK_DEADLOCK FALSE
