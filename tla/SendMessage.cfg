\* Two sends into a conversation of two, or into a server's channel.
CONSTANTS
    s1 = s1  s2 = s2  a = a  b = b  c = c
    Sends = {s1, s2}
    Entities = {a, b, c}
    Sender <- FromAandB
    Handles <- TheyMention
    Claims <- TheyClaim
    Refused = {}
    Kinds = {"none", "server"}
    Welcome = {}
    Communities = {c}
    RowSets <- RowsOfKind
    ParticipantSets <- Participants
    StoredTypes = {}
    MaxLives = 1
SPECIFICATION Spec
CONSTRAINT OnlyTheFirstFails
CHECK_DEADLOCK FALSE
INVARIANTS HeardIsStored AnswersAreTrue NothingTwice OnlyLateCommunitiesHear
    WrongTypesAreUnread
PROPERTY ConversationIsKept
