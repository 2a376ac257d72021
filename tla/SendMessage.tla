---------------------------- MODULE SendMessage -----------------------------
(***************************************************************************)
(* SendMessage of src/internal/platform/send.go and membership.go, under   *)
(* its handler in endpoints.go: any number of sends to one conversation,   *)
(* at any number of replicas, among people whom the platform adds, removes *)
(* and renames meanwhile.                                                  *)
(*                                                                         *)
(* The stores are Postgres (rows), Mongo (conversation, messages), Redis   *)
(* (frames, the score's lock) and RabbitMQ (pushes, bumps).  Each action   *)
(* is one exchange with one of them; an exchange that fails may have taken *)
(* effect.  A statement that asks only what never changes, such as what    *)
(* sort of entity an id is, is one with the statement it follows.  A       *)
(* message's id is the send's own: that no two minted ids are equal is     *)
(* taken from their 30 random digits.                                      *)
(***************************************************************************)
EXTENDS Naturals, FiniteSets

CONSTANTS
    Sends,          \* the requests
    Entities,
    Sender,         \* who sends
    Handles,        \* whom the content @mentions, members or not
    Claims,         \* the conversationType of the body
    Refused,        \* the sends whose body is no good: no JSON, no id, too
                    \* long, or empty once trimmed
    Kinds,          \* the types of realm the conversation may be; "none": of
                    \* no realm
    Welcome,        \* who needs no member row: everyone in an open
                    \* conference, the page's own entity in a page
    Communities,    \* the entities of realms of type community
    RowSets,        \* the values of rows, for each of Kinds
    ParticipantSets,
    StoredTypes,    \* the types a document of no realm may begin with
    MaxLives        \* bound on how often the score's lock is taken

Types == {"single", "group", "channel", "conference", "community"}

ASSUME SendAssumption ==
    /\ Sender \in [Sends -> Entities]
    /\ Handles \in [Sends -> SUBSET Entities]
    /\ Claims \in [Sends -> Types \cup {"server"}]
    /\ Refused \subseteq Sends /\ Welcome \subseteq Entities
    /\ Communities \subseteq Entities
ASSUME StoreAssumption ==
    /\ Kinds \subseteq {"none", "server"} \cup Types
    /\ RowSets \in [Kinds -> SUBSET SUBSET (Entities \X Entities)]
    /\ ParticipantSets \subseteq SUBSET Entities /\ StoredTypes \subseteq Types
    /\ MaxLives \in Nat
\* "community_member only ever holds personal accounts" (membership.go:84).
ASSUME MemberAssumption ==
    \A k \in Kinds \ {"none"} : \A set \in RowSets[k] : \A row \in set :
        row[2] \notin Communities

VARIABLES
    pc,             \* where each send is, or its answer
    receivers,      \* what Receivers returned
    type,           \* what resolveConversationType returned
    date,           \* the message's date; 0: not composed yet
    kind,           \* the realm's type: nobody changes it
    rows,           \* <<action_by, involved>> of the connection's rows;
                    \* <<m, m>> of a realm's member rows
    conversation,   \* its document: its type ("none": no document),
                    \* participant_ids and last_message
    messages,       \* the sends whose message is in the collection
    frames,         \* <<send, entity>> of each frame published
    pushes,         \* <<send, kind, entity>> of each push handed to the queue
    lock,           \* the score's lock in Redis
    lives,          \* how often it was taken
    bumps,          \* the score's jobs handed to the queue
    clock,
    \* Histories, read by no action:
    entered,        \* <<send, community>>: the community entered the
                    \*   conversation while the send resolved its receivers
    unread          \* the sends that could not read the type of their realm

locals == <<receivers, type, date>>
redis  == <<frames, lock, lives>>
jobs   == <<pushes, bumps>>
realm  == <<kind, rows>>
stores == <<realm, conversation, messages, redis, jobs>>
past   == <<entered, unread>>
vars   == <<pc, locals, stores, clock, past>>

Answers == {"201", "400", "404", "500", "gone"}
Stages  == {"capability", "document", "member", "participant", "mint",
            "recheck", "redocument", "rows", "participants", "type", "realm",
            "insert", "preview", "frames", "lock", "bump", "plain", "mention"}

Goto(s, from, to) == pc[s] = from /\ pc' = [pc EXCEPT ![s] = to]

Init ==
    /\ pc = [s \in Sends |-> "idle"]
    /\ receivers = [s \in Sends |-> {}]
    /\ type = [s \in Sends |-> "none"]
    /\ date = [s \in Sends |-> 0]
    /\ kind \in Kinds /\ rows \in RowSets[kind]
    /\ \/ conversation = [type |-> "none", participants |-> {}, last |-> {}]
       \/ \E t \in Types, p \in ParticipantSets :
             /\ kind = "none" => t \in StoredTypes
             /\ kind \in Types => t = kind
             /\ kind = "server" => t = "channel"
             /\ conversation = [type |-> t, participants |-> p, last |-> {}]
    /\ messages = {} /\ frames = {} /\ pushes = {}
    /\ lock = FALSE /\ lives = 0 /\ bumps = 0
    /\ clock = 0
    /\ entered = {} /\ unread = {}

(***************************************************************************)
(* membership.go.                                                          *)
(***************************************************************************)
Involved == {row[2] : row \in rows}
Parties  == {row[1] : row \in rows} \cup Involved

\* assertMessagingCapability asks SQL first: of the rows of a realm's
\* conversation it asks nothing.
BlockedInSQL(actors) ==
    \/ kind = "community"
    \/ actors \cap Communities # {}
    \/ kind = "none" /\ Parties \cap Communities # {}

\* Mutant: what the document says is not asked.
NotAsked == FALSE

\* It then reads the document, and asks SQL what the participants it found
\* there are.
BlockedInMongo ==
    \/ conversation.type = "community"
    \/ conversation.participants \cap Communities # {}

Arrive(s) ==
    /\ Goto(s, "idle", IF s \in Refused THEN "400" ELSE "capability")
    /\ UNCHANGED <<locals, stores, clock, past>>

Capability(s) ==
    /\ Goto(s, "capability", IF BlockedInSQL({Sender[s]}) THEN "404" ELSE "document")
    /\ UNCHANGED <<locals, stores, clock, past>>

CapabilityInMongo(s) ==
    /\ Goto(s, "document", IF BlockedInMongo THEN "404" ELSE "member")
    /\ UNCHANGED <<locals, stores, clock, past>>

\* assertRealmMember, with the realm's row, or assertDirectMember's first
\* question, ...
AssertMember(s) ==
    /\ Goto(s, "member", IF Sender[s] \in (IF kind = "none" THEN Parties
                                           ELSE Welcome \cup Involved)
                         THEN "mint"
                         ELSE IF kind = "none" THEN "participant" ELSE "404")
    /\ UNCHANGED <<locals, stores, clock, past>>

\* ... and its second.
assertDirectMember(s) ==
    /\ Goto(s, "participant",
            IF Sender[s] \in conversation.participants THEN "mint" ELSE "404")
    /\ UNCHANGED <<locals, stores, clock, past>>

uniqueMessageID(s) ==
    /\ Goto(s, "mint", "recheck")
    /\ UNCHANGED <<locals, stores, clock, past>>

\* Receivers: the capability once more, without an actor, ...
Recheck(s) ==
    /\ Goto(s, "recheck", IF BlockedInSQL({}) THEN "404" ELSE "redocument")
    /\ UNCHANGED <<locals, stores, clock, past>>

RecheckInMongo(s) ==
    /\ Goto(s, "redocument", IF BlockedInMongo THEN "404" ELSE "rows")
    /\ UNCHANGED <<locals, stores, clock, past>>

\* ... and three sources, the first that is not empty: the connection's rows
\* or the realm's, one of which no conversation has, and the document.
ReceiversInSQL(s) ==
    /\ Goto(s, "rows", IF rows # {} THEN "type" ELSE "participants")
    /\ receivers' = [receivers EXCEPT ![s] = Involved]
    /\ UNCHANGED <<type, date, stores, clock, past>>

ReceiversInMongo(s) ==
    /\ Goto(s, "participants", "type")
    /\ receivers' = [receivers EXCEPT ![s] = conversation.participants]
    /\ UNCHANGED <<type, date, stores, clock, past>>

\* The sends that have asked SQL for the last time whether a community is in
\* the conversation, and have yet to find out who is.
Resolving == {s \in Sends : pc[s] \in {"redocument", "rows", "participants"}}

\* Some of those who come into the conversation are communities.
Enter(newcomers) ==
    entered' = entered \cup (Resolving \X (newcomers \cap Communities))

\* Any query so far fails.
Fails(s) ==
    /\ \E from \in {"capability", "document", "member", "participant", "mint",
                    "recheck", "redocument", "rows", "participants"} :
          Goto(s, from, "500")
    /\ UNCHANGED <<locals, stores, clock, past>>

(***************************************************************************)
(* resolveConversationType.                                                *)
(***************************************************************************)
normalizeConversationType(t) == IF t = "server" THEN "channel" ELSE t

\* What the conversation already says; or it says nothing, or the lookup
\* fails, which comes to the same.
StoredType(s) ==
    /\ \/ /\ conversation.type # "none"
          /\ Goto(s, "type", "insert")
          /\ type' = [type EXCEPT ![s] = conversation.type]
       \/ /\ Goto(s, "type", "realm")
          /\ UNCHANGED type
    /\ UNCHANGED <<receivers, date, stores, clock, past>>

Resolve(s, t) ==
    /\ Goto(s, "realm", "insert")
    /\ type' = [type EXCEPT ![s] = normalizeConversationType(t)]
    /\ UNCHANGED <<receivers, date, stores, clock, entered>>

\* Mutant: the caller knows best.
TrustsTheCaller(s) == Resolve(s, Claims[s]) /\ UNCHANGED unread

\* The realm's type; the caller's when there is no realm, or none could be
\* read.
RealmType(s) ==
    \/ kind # "none" /\ Resolve(s, kind) /\ UNCHANGED unread
    \/ kind = "none" /\ Resolve(s, Claims[s]) /\ UNCHANGED unread
    \/ kind # "none" /\ Resolve(s, Claims[s]) /\ unread' = unread \cup {s}

\* now is taken, RealmName having been asked in between or not, and the
\* message, composed, goes to the collection.
Compose(s) ==
    /\ clock' = clock + 1
    /\ date' = [date EXCEPT ![s] = clock']
    /\ UNCHANGED <<receivers, type, realm, conversation, redis, jobs, past>>

\* Mutant: an insert that failed is not told from one that was made.
InsertUnchecked(s) ==
    /\ Goto(s, "insert", "preview")
    /\ Compose(s)
    /\ messages' \in {messages, messages \cup {s}}

Insert(s) ==
    /\ Goto(s, "insert", "preview")
    /\ Compose(s)
    /\ messages' = messages \cup {s}

InsertFails(s) ==
    /\ Goto(s, "insert", "500")
    /\ Compose(s)
    /\ messages' \in {messages, messages \cup {s}}

(***************************************************************************)
(* fanOut: what fails is logged, and the next step taken.                  *)
(***************************************************************************)
\* Mutant: participant_ids is $set whatever was resolved.
Emptied(s) ==
    [type |-> IF conversation.type = "none" THEN type[s] ELSE conversation.type,
     last |-> {s}, participants |-> receivers[s]]

\* The upsert: $set what is new, $setOnInsert the type.
Upserted(s) ==
    [type |-> IF conversation.type = "none" THEN type[s] ELSE conversation.type,
     last |-> {s},
     participants |-> IF receivers[s] = {} THEN conversation.participants
                      ELSE receivers[s]]

saveConversation(s) ==
    /\ Goto(s, "preview", "frames")
    /\ conversation' \in {conversation, Upserted(s)}
    /\ Enter(conversation'.participants \ conversation.participants)
    /\ UNCHANGED <<locals, realm, messages, redis, jobs, clock, unread>>

\* One frame per receiver, the sender's other devices included.
publishFrames(s) ==
    /\ Goto(s, "frames", IF receivers[s] = {} THEN "plain" ELSE "lock")
    /\ \E sent \in SUBSET receivers[s] : frames' = frames \cup ({s} \X sent)
    /\ UNCHANGED <<locals, realm, conversation, messages, lock, lives, jobs>>
    /\ UNCHANGED <<clock, past>>

\* Mutant: SET without NX.
SetLock(s) ==
    /\ Goto(s, "lock", "bump")
    /\ lock' = TRUE
    /\ lives' = IF lock THEN lives ELSE lives + 1
    /\ UNCHANGED <<locals, realm, conversation, messages, frames, jobs, clock, past>>

\* bumpChatScore's SET NX; an error leaves the lock taken or not.
SetNX(s) ==
    /\ \/ /\ ~lock /\ lives < MaxLives
          /\ Goto(s, "lock", "bump") \/ Goto(s, "lock", "plain")
          /\ lock' = TRUE
          /\ lives' = lives + 1
       \/ /\ Goto(s, "lock", "plain")
          /\ UNCHANGED <<lock, lives>>
    /\ UNCHANGED <<locals, realm, conversation, messages, frames, jobs, clock, past>>

bumpChatScore(s) ==
    /\ Goto(s, "bump", "plain")
    /\ bumps' \in {bumps, bumps + 1}
    /\ UNCHANGED <<locals, realm, conversation, messages, redis, pushes, clock, past>>

Mentioned(s) == Handles[s] \cap receivers[s]

PlainTargets(s)   == receivers[s] \ (Mentioned(s) \cup {Sender[s]})
MentionTargets(s) == Mentioned(s) \ {Sender[s]}

\* One job for all of a sort's targets, queued or not.
Push(s, sort, targets) ==
    /\ pushes' \in {pushes, pushes \cup ({s} \X {sort} \X targets)}
    /\ UNCHANGED <<locals, realm, conversation, messages, redis, bumps, clock, past>>

pushPlain(s)    == Goto(s, "plain", "mention") /\ Push(s, "plain", PlainTargets(s))
pushMentions(s) == Goto(s, "mention", "201") /\ Push(s, "mention", MentionTargets(s))

(***************************************************************************)
(* What happens meanwhile.                                                 *)
(***************************************************************************)
\* The replica dies under a send.
Crash(s) ==
    /\ \E from \in Stages : Goto(s, from, "gone")
    /\ UNCHANGED <<locals, stores, clock, past>>

\* Contacts and members come and go, communities among the contacts, and
\* with them what Node makes of the participants.
EditRows ==
    /\ rows' \in RowSets[kind] \ {rows}
    /\ Enter({row[2] : row \in rows'} \ Involved)
    /\ UNCHANGED <<pc, locals, kind, conversation, messages, redis, jobs>>
    /\ UNCHANGED <<clock, unread>>

EditParticipants ==
    /\ conversation.type # "none"
    /\ \E p \in ParticipantSets \ {{}, conversation.participants} :
          /\ conversation' = [conversation EXCEPT !.participants = p]
          /\ Enter(p \ conversation.participants)
    /\ UNCHANGED <<pc, locals, realm, messages, redis, jobs, clock, unread>>

LockExpires ==
    /\ lock
    /\ lock' = FALSE
    /\ UNCHANGED <<pc, locals, realm, conversation, messages, frames, lives, jobs>>
    /\ UNCHANGED <<clock, past>>

Send(s) ==
    \/ Capability(s) \/ CapabilityInMongo(s)
    \/ AssertMember(s) \/ assertDirectMember(s)
    \/ uniqueMessageID(s)
    \/ Recheck(s) \/ RecheckInMongo(s)
    \/ ReceiversInSQL(s) \/ ReceiversInMongo(s)
    \/ Fails(s)
    \/ StoredType(s) \/ RealmType(s)
    \/ Insert(s) \/ InsertFails(s)
    \/ saveConversation(s) \/ publishFrames(s)
    \/ SetNX(s) \/ bumpChatScore(s)
    \/ pushPlain(s) \/ pushMentions(s)

Next ==
    \/ \E s \in Sends : Arrive(s) \/ Send(s) \/ Crash(s)
    \/ EditRows
    \/ EditParticipants
    \/ LockExpires

Spec == Init /\ [][Next]_vars
-----------------------------------------------------------------------------
\* The type invariant.
TypeOK ==
    /\ pc \in [Sends -> {"idle"} \cup Stages \cup Answers]
    /\ receivers \in [Sends -> SUBSET Entities]
    /\ type \in [Sends -> Types \cup {"none"}]
    /\ date \in [Sends -> 0 .. clock]
    /\ kind \in Kinds /\ rows \in RowSets[kind]
    /\ conversation \in [type : Types \cup {"none"},
                         participants : SUBSET Entities, last : SUBSET Sends]
    /\ messages \subseteq Sends
    /\ frames \subseteq Sends \X Entities
    /\ pushes \subseteq Sends \X {"plain", "mention"} \X Entities
    /\ lock \in BOOLEAN /\ lives \in 0 .. MaxLives /\ bumps \in Nat
    /\ clock \in Nat
    /\ entered \subseteq Sends \X Communities /\ unread \subseteq Sends

\* Whoever hears of a message can read it: no frame, push or preview goes out
\* of a message that is not in the collection.
HeardIsStored ==
    /\ conversation.last \subseteq messages
    /\ {f[1] : f \in frames} \cup {p[1] : p \in pushes} \subseteq messages

\* What the caller is told is so: 201 means stored, 400 and 404 that nothing
\* was; and of a message that is reported as not sent nobody has heard.
AnswersAreTrue ==
    \A s \in Sends :
        /\ pc[s] = "201" => s \in messages
        /\ pc[s] \in {"400", "404"} => s \notin messages
        /\ pc[s] \in {"400", "404", "500"} =>
              /\ s \notin conversation.last
              /\ \A f \in frames : f[1] # s
              /\ \A p \in pushes : p[1] # s

\* Nobody is told twice: one message makes at most one entry in anybody's
\* tray and none in its sender's, and "a busy conversation bumps once per half
\* hour rather than once per message", however many replicas send into it.
NothingTwice ==
    /\ bumps <= lives
    /\ \A s \in Sends : \A e \in Entities :
          /\ ~({<<s, "plain", e>>, <<s, "mention", e>>} \subseteq pushes)
          /\ e = Sender[s] => \A p \in pushes : p[1] = s => p[3] # e

\* No community sends, and none hears of a message but one that entered the
\* conversation while that message's receivers were being resolved: both
\* stores are asked before, and the rows and the document that name the
\* receivers are read once more after.
OnlyLateCommunitiesHear ==
    /\ \A s \in messages : Sender[s] \notin Communities
    /\ \A f \in frames : f[2] \in Communities => f \in entered
    /\ \A p \in pushes : p[3] \in Communities => <<p[1], p[3]>> \in entered

\* No send can change the type of a conversation, and none empties its
\* participant_ids, from which the inbox is listed.
ConversationIsKept ==
    [][/\ conversation.type # "none" => conversation'.type = conversation.type
       /\ conversation.participants # {} => conversation'.participants # {}]_vars

\* What is stored of a realm's conversation, or of a message in it, is the
\* realm's type or what a send claimed that could not read the realm's: of
\* the two lookups the failure of the first alone does no harm.
WrongTypesAreUnread ==
    kind # "none" =>
        \A t \in {conversation.type} \cup {type[s] : s \in messages} :
            \/ t \in {"none", normalizeConversationType(kind)}
            \/ \E u \in unread : type[u] = t

(***************************************************************************)
(* What a comment or a document says, and the code does not keep.          *)
(***************************************************************************)
\* "A conversation id that matches a realm IS that realm; its type is the
\* realm's, whatever the caller believes."
RealmRules ==
    kind # "none" => conversation.type \in {"none", normalizeConversationType(kind)}

\* "Legacy or malformed conversations cannot turn a community into a messaging
\* target."
CommunitiesStayOut ==
    /\ \A f \in frames : f[2] \notin Communities
    /\ \A p \in pushes : p[3] \notin Communities

\* "Updates the conversation's last message": what the conversation list shows
\* is never exchanged for an older message.
PreviewMovesForward ==
    [][\A s \in conversation.last, t \in conversation'.last :
          date[s] <= date[t]]_vars
=============================================================================
