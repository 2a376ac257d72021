\* A row edited between requests, and a clock finer than the unit of EXPIRE,
\* over the turn of a window of a second and the end of one of a minute.
CONSTANTS
    Second = 2  Minute = 4  Hour = 8  Day = 16
    Requests = {r1, r2, r3}
    Plans <- EditedPlans
    NoLimit = NoLimit
    Never = Never
    MaxRetries = 1
    StartTime = 37
    MaxTime = 39
SPECIFICATION Spec
CONSTRAINT OneRetry
SYMMETRY Symmetry
CHECK_DEADLOCK FALSE
INVARIANTS LimitPerLife LimitUntilTheLastSecond LimitTwicePerWindow DenialIsEarned
           RetryAfterIsTight
