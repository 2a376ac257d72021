-------------------------------- MODULE Walks --------------------------------
(***************************************************************************)
(* The parts of the service that compute an answer on their own, one at a  *)
(* time: ReplyThread, RealmName, the texts of Text and the days of         *)
(* Calendar.                                                               *)
(***************************************************************************)
EXTENDS ReplyThread, Calendar

CONSTANTS
    Realms, Asked, MaxMoves,            \* of RealmName
    Alphabets, MaxHandle, MaxLength     \* of Text

VARIABLES
    task,                                   \* "thread", "realm", "text" or "days"
    parents, next, name, over, read, moves, \* of RealmName
    typed                                   \* of Text

realm == <<parents, next, name, over, read, moves>>

R == INSTANCE RealmName WITH
    MaxChanges <- MaxMoves, parent <- parents, changes <- moves

T == INSTANCE Text WITH text <- typed

ASSUME WalksAssumption == R!RealmNameAssumption /\ T!TextAssumption

-----------------------------------------------------------------------------
\* Nobody has asked for a thread.
NoThread ==
    /\ to = [m \in Ids |-> None] /\ bare = {} /\ here = {} /\ text = {} /\ limit = 1
    /\ deleted = {} /\ gone = {} /\ pc = "missing" /\ parent = None
    /\ hops = 0 /\ nearestFirst = <<>>

NoRealm ==
    /\ parents = <<>> /\ next = None /\ name = <<>> /\ over = FALSE
    /\ read = <<>> /\ moves = 0

WalksInit ==
    \/ task = "thread" /\ Init /\ NoRealm /\ T!NoText /\ DayOne
    \/ task = "realm" /\ R!Init /\ NoThread /\ T!NoText /\ DayOne
    \/ task = "text" /\ T!NoText /\ NoThread /\ NoRealm /\ DayOne
    \/ task = "days" /\ DayOne /\ NoThread /\ NoRealm /\ T!NoText

WalksNext ==
    \/ task = "thread" /\ Next /\ UNCHANGED <<task, realm, typed, calendar>>
    \/ task = "realm" /\ R!Next /\ UNCHANGED <<task, vars, typed, calendar>>
    \/ task = "text" /\ T!Type /\ UNCHANGED <<task, vars, realm, calendar>>
    \/ task = "days" /\ Walk /\ UNCHANGED <<task, vars, realm, typed>>

\* A request for a thread runs until it is answered.
WalksSpec ==
    /\ WalksInit /\ [][WalksNext]_<<task, vars, realm, typed, calendar>>
    /\ WF_vars(task = "thread" /\ (FindAnchor \/ Segment \/ WalkEnds))
-----------------------------------------------------------------------------
\* What either walk upwards returns is one line, in its order.
KeepsTheLine == OneLineage /\ R!ParentsFirst

\* The mentions of a text and what is stored of it are the platform's.
SameText == T!SameMentions /\ T!SameStorage
=============================================================================
