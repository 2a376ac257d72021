\* A server's channel, and the lookup of what the conversation is may fail.
CONSTANTS
    s1 = s1  s2 = s2  a = a  b = b  c = c
    Sends = {s1, s2}
    Entities = {a, b, c}
    Sender <- FromAandB
    Handles <- TheyMention
    Claims <- TheyClaim
    Refused = {}
    Kinds = {"server"}
    Welcome = {}
    Communities = {c}
    RowSets <- RowsOfKind
    ParticipantSets <- Participants
    StoredTypes = {"single"}
    MaxLives = 1
SPECIFICATION Spec
CHECK_DEADLOCK FALSE
INVARIANT RealmRules
