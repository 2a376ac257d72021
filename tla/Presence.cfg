\* Three streams over two credentials in any overlap, late frames, one fault.
CONSTANTS
    s1 = s1  s2 = s2  s3 = s3  c1 = c1  c2 = c2
    Streams = {s1, s2, s3}
    CredentialOf <- TwoCredentials
    Credentials = {c1, c2}
    Viewers = {v1}
    MaxFaults = 1
SPECIFICATION FairSpec
CHECK_DEADLOCK FALSE
INVARIANTS OnlineRowHasAStream OnlyLateFramesStay
PROPERTIES GoneGoesDark ServedStaysOnline
