\* The limit of a window under a clock finer than the unit of EXPIRE.
CONSTANTS
    Second = 2  Minute = 6  Hour = 8  Day = 16
    Requests = {r1, r2, r3}
    Plans <- OnePlan
    NoLimit = NoLimit
    Never = Never
    MaxRetries = 1
    StartTime = 36
    MaxTime = 41
SPECIFICATION Spec
SYMMETRY Symmetry
CHECK_DEADLOCK FALSE
INVARIANT LimitPerWindow
