\* INCR of the largest number, in a build without overflow checks and in one with.
CONSTANTS
    Keys = {k1}
    Other = None
    Text = Text
    MaxInt = 1
    Second = 1
    Written = {0, Text}
    Deadlines = {1}
    Spans = {1}
    Never = Never
    Nil = Nil
    Ok = Ok
    Err = Err
    MaxTime = 1
    Exposed = {"incr_overflow"}
SPECIFICATION Spec
INVARIANT IncrInRange
CHECK_DEADLOCK FALSE
