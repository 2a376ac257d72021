------------------------------- MODULE History -------------------------------
(***************************************************************************)
(* ConversationMessages and ConversationReplies of                         *)
(* src/internal/endpoints/endpoints.go over src/internal/platform/         *)
(* messages.go: one request for the newest messages of a conversation, or  *)
(* for those that reply to the caller, while messages are posted, deleted  *)
(* and purged and the caller's membership comes and goes.                  *)
(*                                                                         *)
(* Messages are numbered by their dates.  A reply to a post, a moment or a *)
(* thought is one with no message as its target.                           *)
(***************************************************************************)
EXTENDS World, Integers, FiniteSets, ConversationAccess, Identity, Filter

CONSTANTS
    Messages,       \* of this conversation and of others
    Here,           \* the messages of this one
    Unreadable,     \* image and file messages: no text
    Replies,        \* the messages with isReply
    Target,         \* the message each replies to, or None
    SenderOf,
    Caller,
    Limits,         \* what readLimit lets through
    Grants,         \* the sets of grounds there may be at first
    Collections,    \* the messages there may be at first,
    Gone,           \* and those of them that may have been deleted
    None

HistoryAssumption ==
    /\ WorldAssumption /\ IdentityAssumption
    /\ Messages \subseteq Nat /\ IsFiniteSet(Messages) /\ None \in Nat \ Messages
    /\ Here \subseteq Messages /\ Unreadable \subseteq Messages
    /\ Replies \subseteq Messages /\ Caller \in Entities
    /\ Target \in [Messages -> Messages \cup {None}]
    /\ \A m \in Messages : Target[m] # None => m \in Replies
    /\ SenderOf \in [Messages -> Entities]
    /\ Limits \subseteq Nat \ {0} /\ Collections \subseteq SUBSET Messages
    /\ Grants \subseteq SUBSET Grounds
    /\ Gone \subseteq Messages

VARIABLES
    route,          \* "messages" or "replies"
    kind,           \* of the conversation
    limit,
    pc,             \* where the request is, or how it was answered
    transcript,     \* the messages read
    named,          \* those with replying_to_sender_entity_id
    handled,        \* the entities whose handle was found
    scanned         \* history: the handles' rows came

request == <<route, kind, limit>>
reading == <<transcript, named, handled, scanned>>
vars    == <<request, world, pc, reading>>

\* Facts are pairs: a ground, or what is so of a message.  A message that was
\* deleted is stored and not live; one that was purged is not stored.
Access == Grounds \X {None}
Facts  == Access \cup ({"stored", "live"} \X Messages)

Held     == {ground \in Grounds : <<ground, None>> \in holds}
Are(what, facts) == {m \in Messages : <<what, m>> \in facts}
Live     == Are("live", holds)

Init ==
    /\ route \in {"messages", "replies"} /\ kind \in Kinds /\ limit \in Limits
    /\ \E granted \in Grants, old \in Collections, gone \in SUBSET Gone :
          holds = (granted \X {None}) \cup ({"stored"} \X old) \cup ({"live"} \X (old \ gone))
    /\ WorldInit
    /\ pc = "contacts"
    /\ transcript = <<>> /\ named = {} /\ handled = {} /\ scanned = FALSE

(***************************************************************************)
(* LoadConversation, or AssertMember alone: one 404 for every no.          *)
(***************************************************************************)
Ask ==
    /\ pc \in Questions
    /\ pc' = CASE Asked(pc, kind, Held) = "yes" ->
                     IF route = "messages" THEN "conversation" ELSE "find"
               [] Asked(pc, kind, Held) = "no" -> "refused"
               [] OTHER -> Asked(pc, kind, Held)
    /\ UNCHANGED <<request, world, reading>>

\* Its type, or "group" if there is no document yet.
LoadConversation ==
    /\ pc = "conversation" /\ pc' = "find"
    /\ UNCHANGED <<request, world, reading>>

(***************************************************************************)
(* findMessages: the newest, oldest first, and then what can be read.      *)
(***************************************************************************)
Matching == {m \in Here \cap Live : route = "replies" => m \in Replies}

Newest(ms) == {m \in ms : Cardinality({k \in ms : k > m}) < limit}

findMessages ==
    /\ pc = "find"
    /\ transcript' \in Ascending(Newest(Matching) \ Unreadable)
    /\ pc' = IF route = "messages" THEN "parents"
             ELSE IF transcript' = <<>> THEN "shown" ELSE "own"
    /\ UNCHANGED <<request, world, named, handled, scanned>>

Listed == Range(transcript)

selectRepliesTo(own) == Only(transcript, {m \in Messages : Target[m] \in own})

\* RepliesTo: of the messages replied to, those the caller wrote.
messagesAuthoredBy ==
    /\ pc = "own" /\ pc' = "handles"
    /\ LET own == {m \in Are("stored", holds) : SenderOf[m] = Caller}
       IN  /\ transcript' = selectRepliesTo(own)
           /\ named' = Range(selectRepliesTo(own))
    /\ UNCHANGED <<request, world, handled, scanned>>

\* The sender of each message replied to that is stored, deleted or not; if
\* the query fails, of none.
resolveReplyParents ==
    /\ pc = "parents" /\ pc' = "handles"
    /\ named' \in {{}, {m \in Listed : Target[m] \in Are("stored", holds)}}
    /\ UNCHANGED <<request, world, transcript, handled, scanned>>

Spoken == {SenderOf[m] : m \in Listed} \cup {SenderOf[Target[m]] : m \in named}

\* One query for senders and replied-to; if it fails, no handles.
resolveHandles ==
    /\ pc = "handles" /\ pc' = "shown"
    /\ scanned' \in BOOLEAN
    /\ handled' = IF scanned' THEN HandlesFor(Spoken) ELSE {}
    /\ UNCHANGED <<request, world, transcript, named>>

\* Any other query fails: 500.
Fails ==
    /\ pc \in Questions \cup {"conversation", "find", "own"} /\ pc' = "failed"
    /\ transcript' = <<>>
    /\ UNCHANGED <<request, world, named, handled, scanned>>

(***************************************************************************)
(* What others do meanwhile.                                               *)
(***************************************************************************)
Answered == pc \in {"shown", "refused", "failed"}

Others(facts) == ~Answered /\ Becomes(facts) /\ UNCHANGED <<request, pc, reading>>

Regrant ==
    \E granted \in SUBSET Access :
        /\ Cardinality((granted \ holds) \cup ((holds \cap Access) \ granted)) = 1
        /\ Others((holds \ Access) \cup granted)

Say ==
    \E m \in Messages \ Are("stored", ever) :
        /\ \A k \in Are("stored", ever) : k < m
        /\ Others(holds \cup ({"stored", "live"} \X {m}))

Delete == \E m \in Live : Others(holds \ {<<"live", m>>})
Purge  == \E m \in Are("stored", holds) : Others(holds \ ({"stored", "live"} \X {m}))

Next ==
    \/ Ask \/ LoadConversation \/ findMessages \/ messagesAuthoredBy
    \/ resolveReplyParents \/ resolveHandles \/ Fails
    \/ Regrant
    \/ Say
    \/ Delete
    \/ Purge

Spec == Init /\ [][Next]_vars
-----------------------------------------------------------------------------
\* The type invariant.
TypeOK ==
    /\ route \in {"messages", "replies"} /\ kind \in Kinds /\ limit \in Limits
    /\ holds \subseteq ever /\ ever \subseteq Facts /\ always \subseteq holds
    /\ Are("live", holds) \subseteq Are("stored", holds)
    /\ pc \in Questions \cup {"conversation", "find", "parents", "own", "handles",
                              "shown", "refused", "failed"}
    /\ transcript \in Seq(Messages)
    /\ named \subseteq {m \in Listed : Target[m] # None}
    /\ handled \subseteq Entities /\ scanned \in BOOLEAN

\* What entitles to the conversation, and to a message of it on the route.
Entry == {grounds \X {None} : grounds \in Enough(kind)}
ToCaller(m) == Target[m] # None /\ SenderOf[Target[m]] = Caller
OwnParent(m) == IF route = "replies" THEN {<<"stored", Target[m]>>} ELSE {}
Ways(m) ==
    IF m \notin Here \ Unreadable \/ (route = "replies" /\ ~ToCaller(m)) THEN {}
    ELSE {way \cup {<<"live", m>>} \cup OwnParent(m) : way \in Entry}

\* As a guarded read: messages of the conversation are shown that were there
\* and not deleted, to who had a way in; on the second route replies to the
\* caller's own messages.  There is no such conversation only for who had none.
Answer == IF Answered THEN pc ELSE "none"
Shown  == IF pc = "shown" THEN Listed ELSE {}

\* "Newest first so the limit takes the LATEST window", and oldest first it
\* is returned: in order, and with nothing left out that was there all along
\* but for as many newer messages as the limit, however many came or went.
NothingSkipped ==
    pc = "shown" =>
        /\ \A i, j \in DOMAIN transcript : i < j => transcript[i] < transcript[j]
        /\ \A m \in Messages :
              /\ \E way \in Ways(m) : way \subseteq always
              /\ m \notin Listed
              => LET newer == {n \in Here \cap Are("live", ever) :
                                  n > m /\ (route = "replies" => n \in Replies)}
                 IN  Cardinality(newer) >= limit

(***************************************************************************)
(* What a comment or a document says, and the code does not keep.          *)
(***************************************************************************)
\* "Empty unless IsReply and the parent is still readable", "a deleted or
\* purged parent leaves this empty": who wrote a message that was deleted
\* before the request is not told.
ReadableParents ==
    pc = "shown" => \A m \in named : Target[m] \in Are("live", ever)

\* "A handle that cannot be resolved leaves the field empty": its own field,
\* and not that of all who spoke.
HandlesStand ==
    pc = "shown" /\ scanned => Spoken \cap Handled \subseteq handled
=============================================================================
