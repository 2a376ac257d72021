\* Two streams and two other requests.
CONSTANTS
    s1 = s1  s2 = s2  r1 = r1  r2 = r2
    Streams = {s1, s2}
    Ordinary = {r1, r2}
SPECIFICATION FairProcess
CHECK_DEADLOCK FALSE
INVARIANT StoresOutlastRequests
PROPERTY NotHeldHostage
