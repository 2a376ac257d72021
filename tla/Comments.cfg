\* A thread that grows while the post is tagged and untagged.
CONSTANTS
    d1 = d1  d2 = d2  d3 = d3  top = top  reply = reply  other = other
    o = o  a = a  b = b  x = x  y = y
    Drafts = {d1, d2, d3}
    Olds = {top, reply, other}
    OldParent <- Parents
    OldAuthor <- OldHands
    Elsewhere = {other}
    Deletable = {d1}
    Entities = {o, a, b}
    Owner = o
    Author <- Authors
    Aim <- Aims
    Mentions <- Names
    Anonymous = {d2}
    Empty = {}
    None = None
    Readers = {o, a, b}
    TagSets <- MayBeTagged
    MemberSets <- Members
SPECIFICATION Spec
CONSTRAINT Bounds
CHECK_DEADLOCK FALSE
INVARIANTS ThreadsHoldTogether ToldMayRead SecondPingsAreUnacknowledged
    AnswersAreTrue
PROPERTY WrittenByMembers
