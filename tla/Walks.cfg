\* A thread with a message deleted, a realm's name, a short text, or the days.
CONSTANTS
    Ids = {1, 2, 3, 4, 5}
    Anchor = 1
    Links <- Chains
    Texts <- Reads
    Limits = {1, 4}
    None = 0
    MaxDeleted = 1
    Realms = {server, category, channel}  Asked = channel  MaxMoves = 3
    Alphabets <- AlphabetsValue  MaxHandle = 2  MaxLength = 7
    Second = 1  Minute = 2  Hour = 2  Day = 4
    LastYear = 2100
    TickedYears <- TickedYearsValue
SPECIFICATION WalksSpec
CHECK_DEADLOCK FALSE
INVARIANTS KeepsTheLine StopsForCause SameText FollowsTheWallCalendar
PROPERTY Answered
