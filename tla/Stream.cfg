\* Frames of every kind, over two streams of one client.
CONSTANTS
    Kinds = {"plain", "garbled", "scoped", "orphan"}
    Capacity = 2
    MaxFrames = 3
    MaxStreams = 2
SPECIFICATION FairSpec
CHECK_DEADLOCK FALSE
INVARIANTS InOrder EveryFrameIsAccountedFor
PROPERTIES FormerMembersHearNothing StreamsEnd
