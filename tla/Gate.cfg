\* The row and the permission edited under the requests that come in.
CONSTANTS
    r1 = r1  r2 = r2
    Requests = {r1, r2}
    Presents <- BothTokens
    Gated = {r1}
    Rows <- EditedRows
    Permissions <- EditedPermissions
    Never = Never
    TouchInterval = 1
    MaxTime = 2
SPECIFICATION Spec
CHECK_DEADLOCK FALSE
INVARIANTS ServedWasDue RefusalIsEarned UseIsRemembered
