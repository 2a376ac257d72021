------------------------- MODULE SendMessageProofs --------------------------
(***************************************************************************)
(* Proofs about SendMessage, for any number of sends and replicas, any     *)
(* people, and any edits of the rows and of the participants.              *)
(***************************************************************************)
EXTENDS SendMessage, FiniteSetTheorems, TLAPS

\* Where a send is once its message is in the collection, and where it is
\* while it is not; of "500" and "gone" nothing follows.
Sent   == {"preview", "frames", "lock", "bump", "plain", "mention", "201"}
Before == {"idle", "capability", "document", "member", "participant", "mint",
           "recheck", "redocument", "rows", "participants"}
Unsent == Before \cup {"type", "realm", "insert", "400", "404"}

Whereabouts ==
    \A s \in Sends : /\ pc[s] \in Sent => s \in messages
                     /\ pc[s] \in Unsent => s \notin messages

\* What a preview, a frame or a push is about: a message that is in the
\* collection, of a send that has got past its insert.
Tellable(s) == s \in messages /\ pc[s] \in Sent \cup {"gone"}

\* Whom a push of a sort is for.
Targets(s, sort) == IF sort = "plain" THEN PlainTargets(s) ELSE MentionTargets(s)

\* All that anybody has heard, and that it went where it was addressed:
\* the receivers of a send are resolved once and then stand.
Heard ==
    /\ \A s \in conversation.last : Tellable(s)
    /\ \A f \in frames : Tellable(f[1]) /\ f[2] \in receivers[f[1]]
    /\ \A p \in pushes : Tellable(p[1]) /\ p[3] \in Targets(p[1], p[2])

\* Each send that is about to queue a bump took the lock itself, in a life in
\* which nobody has queued one.
Bumping == {s \in Sends : pc[s] = "bump"}

BumpsAreLocked == IsFiniteSet(Bumping) /\ Cardinality(Bumping) + bumps <= lives

\* A send past the question of its capability is no community's.  A send that
\* has asked SQL for the last time whether a community is in the conversation
\* finds none in its rows, and one that has asked Mongo finds none in the
\* document either, but those that have entered since; nor has one that has
\* its receivers others among them.
Capable == (Before \ {"idle", "capability"}) \cup {"type", "realm", "insert"} \cup Sent

Late(s) == {c \in Communities : <<s, c>> \in entered}

PeopleOnly ==
    \A s \in Sends :
        /\ pc[s] \in Capable \/ s \in messages => Sender[s] \notin Communities
        /\ receivers[s] \cap Communities \subseteq Late(s)
        /\ pc[s] \in {"redocument", "rows", "participants"} =>
              Involved \cap Communities \subseteq Late(s)
        /\ pc[s] \in {"rows", "participants"} =>
              conversation.participants \cap Communities \subseteq Late(s)

IInv == TypeOK /\ Whereabouts /\ Heard /\ BumpsAreLocked /\ PeopleOnly

\* A type that a realm's conversation may have been given: the realm's, or the
\* claim of a send that could not read it.
Given(t) ==
    \/ t \in {"none", normalizeConversationType(kind)}
    \/ \E u \in unread : type[u] = t

\* Such are the types that sends have resolved and that are stored; and what a
\* send resolved stands.
GivenTypes ==
    /\ \A u \in unread : pc[u] \notin Before \cup {"type", "realm"}
    /\ kind # "none" =>
          /\ Given(conversation.type)
          /\ \A s \in Sends :
                pc[s] \in {"insert"} \cup Sent \/ s \in messages => Given(type[s])

\* The actions of a send that only ask: nothing but its whereabouts changes.
Asks(s) ==
    \/ Arrive(s) \/ Capability(s) \/ CapabilityInMongo(s)
    \/ AssertMember(s) \/ assertDirectMember(s) \/ uniqueMessageID(s)
    \/ Recheck(s) \/ RecheckInMongo(s) \/ Fails(s)
-----------------------------------------------------------------------------
LEMMA InitIInv == Init => IInv
<1>. SUFFICES ASSUME Init PROVE IInv
  OBVIOUS
<1>1. TypeOK
  <2>1. conversation \in [type : Types \cup {"none"},
                          participants : SUBSET Entities, last : SUBSET Sends]
    BY StoreAssumption DEF Init
  <2>2. /\ pc \in [Sends -> {"idle"} \cup Stages \cup Answers]
        /\ receivers \in [Sends -> SUBSET Entities]
        /\ type \in [Sends -> Types \cup {"none"}]
        /\ date \in [Sends -> 0 .. clock]
    BY DEF Init
  <2>3. lives \in 0 .. MaxLives
    BY StoreAssumption DEF Init
  <2>. QED
    BY <2>1, <2>2, <2>3 DEF Init, TypeOK
<1>2. Whereabouts /\ Heard /\ PeopleOnly
  <2>1. \A s \in Sends : pc[s] = "idle" /\ receivers[s] = {}
    BY DEF Init
  <2>. QED
    BY <2>1 DEF Init, Whereabouts, Heard, PeopleOnly, Sent, Before, Capable
<1>3. BumpsAreLocked
  <2>1. Bumping = {}
    BY DEF Init, Bumping
  <2>2. IsFiniteSet({}) /\ Cardinality({}) = 0
    BY FS_EmptySet
  <2>. QED
    BY <2>1, <2>2 DEF Init, BumpsAreLocked
<1>. QED
  BY <1>1, <1>2, <1>3 DEF IInv

LEMMA NormalizedType ==
    ASSUME NEW t \in Types \cup {"server"}
    PROVE  normalizeConversationType(t) \in Types
BY DEF normalizeConversationType, Types

\* The parties of stored rows are entities.
LEMMA InvolvedType ==
    ASSUME TypeOK
    PROVE  Involved \subseteq Entities
BY StoreAssumption DEF TypeOK, Involved

\* What a send that asks does.
LEMMA AskingStep ==
    ASSUME TypeOK, NEW s \in Sends, Asks(s)
    PROVE  /\ UNCHANGED <<locals, stores, clock, past>>
           /\ pc[s] \in Before
           /\ pc'[s] \in Before \cup {"400", "404", "500"}
           /\ pc'[s] # "rows" \/ RecheckInMongo(s)
           /\ pc'[s] # "participants"
           /\ pc'[s] # "redocument" \/ Recheck(s)
           /\ \A t \in Sends \ {s} : pc'[t] = pc[t]
           /\ pc' \in [Sends -> {"idle"} \cup Stages \cup Answers]
<1>. USE DEF TypeOK, Goto, Before, Stages, Answers
<1>1. CASE Arrive(s) \/ Capability(s) \/ CapabilityInMongo(s)
  BY <1>1 DEF Arrive, Capability, CapabilityInMongo
<1>2. CASE AssertMember(s) \/ assertDirectMember(s) \/ uniqueMessageID(s)
  BY <1>2 DEF AssertMember, assertDirectMember, uniqueMessageID
<1>3. CASE Recheck(s) \/ RecheckInMongo(s)
  BY <1>3 DEF Recheck, RecheckInMongo
<1>4. CASE Fails(s)
  BY <1>4 DEF Fails
<1>. QED
  BY <1>1, <1>2, <1>3, <1>4 DEF Asks

\* A claim, or a realm's type, comes to a type.
LEMMA ResolveType ==
    ASSUME TypeOK, NEW s \in Sends, RealmType(s)
    PROVE  \E t \in Types :
              /\ type' = [type EXCEPT ![s] = t]
              /\ \/ UNCHANGED unread /\ kind # "none" /\ t = normalizeConversationType(kind)
                 \/ UNCHANGED unread /\ kind = "none"
                 \/ unread' = unread \cup {s}
<1>1. ASSUME kind # "none", Resolve(s, kind)
      PROVE  /\ normalizeConversationType(kind) \in Types
             /\ type' = [type EXCEPT ![s] = normalizeConversationType(kind)]
  BY <1>1, StoreAssumption, NormalizedType DEF TypeOK, Resolve
<1>2. ASSUME Resolve(s, Claims[s])
      PROVE  /\ normalizeConversationType(Claims[s]) \in Types
             /\ type' = [type EXCEPT ![s] = normalizeConversationType(Claims[s])]
  BY <1>2, SendAssumption, NormalizedType DEF Resolve
<1>. QED
  BY <1>1, <1>2 DEF RealmType

LEMMA StepTypeOK ==
    ASSUME TypeOK, [Next]_vars
    PROVE  TypeOK'
<1>. USE DEF Goto, Stages, Answers, past
<1>1. ASSUME NEW s \in Sends, Asks(s) \/ Crash(s)
      PROVE  TypeOK'
  <2>1. UNCHANGED <<locals, stores, clock, past>>
    BY <1>1, AskingStep DEF Crash
  <2>2. pc' \in [Sends -> {"idle"} \cup Stages \cup Answers]
    BY <1>1, AskingStep DEF TypeOK, Crash
  <2>. QED
    BY <2>1, <2>2 DEF TypeOK, locals, stores, realm, redis, jobs
<1>2. ASSUME NEW s \in Sends, ReceiversInSQL(s) \/ ReceiversInMongo(s)
      PROVE  TypeOK'
  <2>1. receivers' \in [Sends -> SUBSET Entities]
    BY <1>2, InvolvedType DEF TypeOK, ReceiversInSQL, ReceiversInMongo
  <2>2. /\ pc' \in [Sends -> {"idle"} \cup Stages \cup Answers]
        /\ UNCHANGED <<type, date, stores, clock, past>>
    BY <1>2 DEF TypeOK, ReceiversInSQL, ReceiversInMongo
  <2>. QED
    BY <2>1, <2>2 DEF TypeOK, stores, realm, redis, jobs
<1>3. ASSUME NEW s \in Sends, StoredType(s) \/ RealmType(s)
      PROVE  TypeOK'
  <2>1. type' \in [Sends -> Types \cup {"none"}]
    <3>1. CASE StoredType(s)
      BY <3>1 DEF TypeOK, StoredType
    <3>2. CASE RealmType(s)
      BY <3>2, ResolveType DEF TypeOK
    <3>. QED
      BY <1>3, <3>1, <3>2
  <2>2. /\ pc' \in [Sends -> {"idle"} \cup Stages \cup Answers]
        /\ UNCHANGED <<receivers, date, stores, clock, entered>>
    BY <1>3 DEF TypeOK, StoredType, RealmType, Resolve
  <2>3. unread' \subseteq Sends
    BY <1>3 DEF TypeOK, StoredType, RealmType
  <2>. QED
    BY <2>1, <2>2, <2>3 DEF TypeOK, stores, realm, redis, jobs
<1>5. ASSUME NEW s \in Sends, Insert(s) \/ InsertFails(s)
      PROVE  TypeOK'
  <2>1. Compose(s)
    BY <1>5 DEF Insert, InsertFails
  <2>2. /\ clock' \in Nat
        /\ date' \in [Sends -> 0 .. clock']
    BY <2>1 DEF TypeOK, Compose
  <2>3. /\ pc' \in [Sends -> {"idle"} \cup Stages \cup Answers]
        /\ messages' \subseteq Sends
    BY <1>5 DEF TypeOK, Insert, InsertFails
  <2>. QED
    BY <2>1, <2>2, <2>3 DEF TypeOK, Compose, realm, redis, jobs
<1>6. ASSUME NEW s \in Sends, saveConversation(s)
      PROVE  TypeOK'
  <2>1. Upserted(s) \in [type : Types \cup {"none"},
                         participants : SUBSET Entities, last : SUBSET Sends]
    BY DEF TypeOK, Upserted
  <2>2. conversation' \in {conversation, Upserted(s)}
    BY <1>6 DEF saveConversation
  <2>3. entered' \subseteq Sends \X Communities
    BY <1>6 DEF TypeOK, saveConversation, Enter, Resolving
  <2>. QED
    BY <1>6, <2>1, <2>2, <2>3 DEF TypeOK, saveConversation, locals, realm, redis, jobs
<1>7. ASSUME NEW s \in Sends, publishFrames(s)
      PROVE  TypeOK'
  BY <1>7 DEF TypeOK, publishFrames, locals, realm, jobs
<1>8. ASSUME NEW s \in Sends, SetNX(s)
      PROVE  TypeOK'
  <2>1. /\ lock' = TRUE \/ lock' = lock
        /\ (lives < MaxLives /\ lives' = lives + 1) \/ lives' = lives
    BY <1>8 DEF SetNX
  <2>2. lock' \in BOOLEAN
    BY <2>1 DEF TypeOK
  <2>3. lives' \in 0 .. MaxLives
    <3>1. lives \in 0 .. MaxLives /\ MaxLives \in Nat
      BY StoreAssumption DEF TypeOK
    <3>. QED
      BY <2>1, <3>1
  <2>. QED
    BY <1>8, <2>2, <2>3 DEF TypeOK, SetNX, locals, realm, jobs
<1>9. ASSUME NEW s \in Sends, bumpChatScore(s)
      PROVE  TypeOK'
  BY <1>9 DEF TypeOK, bumpChatScore, locals, realm, redis
<1>10. ASSUME NEW s \in Sends, pushPlain(s) \/ pushMentions(s)
       PROVE  TypeOK'
  <2>1. PlainTargets(s) \subseteq Entities /\ MentionTargets(s) \subseteq Entities
    BY DEF TypeOK, PlainTargets, MentionTargets, Mentioned
  <2>2. pushes' \subseteq Sends \X {"plain", "mention"} \X Entities
    BY <1>10, <2>1 DEF TypeOK, pushPlain, pushMentions, Push
  <2>. QED
    BY <1>10, <2>2 DEF TypeOK, pushPlain, pushMentions, Push, locals, realm, redis
<1>11. CASE EditRows
  <2>1. entered' \subseteq Sends \X Communities
    BY <1>11 DEF TypeOK, EditRows, Enter, Resolving
  <2>. QED
    BY <1>11, <2>1 DEF TypeOK, EditRows, locals, redis, jobs
<1>12. CASE EditParticipants
  <2>1. entered' \subseteq Sends \X Communities
    BY <1>12 DEF TypeOK, EditParticipants, Enter, Resolving
  <2>2. conversation' \in [type : Types \cup {"none"},
                           participants : SUBSET Entities, last : SUBSET Sends]
    BY <1>12, StoreAssumption DEF TypeOK, EditParticipants
  <2>. QED
    BY <1>12, <2>1, <2>2 DEF TypeOK, EditParticipants, locals, realm, redis, jobs
<1>13. CASE LockExpires
  BY <1>13 DEF TypeOK, LockExpires, locals, realm, jobs
<1>14. CASE UNCHANGED vars
  BY <1>14 DEF TypeOK, vars, locals, stores, realm, redis, jobs
<1>. QED
  BY <1>1, <1>2, <1>3, <1>5, <1>6, <1>7, <1>8, <1>9, <1>10, <1>11, <1>12, <1>13, <1>14
  DEF Next, Send, Asks

(***************************************************************************)
(* What a step of one send does to it, and that it does nothing to others. *)
(***************************************************************************)
LEMMA SendStep ==
    ASSUME TypeOK, NEW s \in Sends, Arrive(s) \/ Send(s) \/ Crash(s)
    PROVE  /\ \A t \in Sends \ {s} :
                 /\ pc'[t] = pc[t]
                 /\ receivers'[t] = receivers[t]
                 /\ type'[t] = type[t]
           /\ UNCHANGED realm
           /\ messages' \in {messages, messages \cup {s}}
           /\ pc[s] \in Sent \cup {"gone"} =>
                 /\ pc'[s] \in Sent \cup {"gone"}
                 /\ UNCHANGED <<receivers, type, messages>>
<1>. USE DEF TypeOK, Goto, Sent, realm, locals, stores
<1>1. CASE Asks(s)
  BY <1>1, AskingStep DEF Before
<1>2. CASE ReceiversInSQL(s) \/ ReceiversInMongo(s) \/ StoredType(s) \/ RealmType(s)
  BY <1>2 DEF ReceiversInSQL, ReceiversInMongo, StoredType, RealmType, Resolve, Before
<1>3. CASE Insert(s) \/ InsertFails(s)
  BY <1>3 DEF Compose, Insert, InsertFails, Before
<1>4. CASE saveConversation(s) \/ publishFrames(s) \/ SetNX(s) \/ bumpChatScore(s)
  BY <1>4 DEF saveConversation, publishFrames, SetNX, bumpChatScore, Before
<1>5. CASE pushPlain(s) \/ pushMentions(s) \/ Crash(s)
  BY <1>5 DEF pushPlain, pushMentions, Push, Crash, Stages, Before
<1>. QED
  BY <1>1, <1>2, <1>3, <1>4, <1>5 DEF Send, Asks

\* What the others do leaves every send where it is.
LEMMA OtherStep ==
    ASSUME TypeOK, EditRows \/ EditParticipants \/ LockExpires \/ UNCHANGED vars
    PROVE  UNCHANGED <<pc, receivers, type, kind, messages, frames, pushes, lives, bumps,
                       conversation.last, conversation.type>>
<1>1. UNCHANGED <<pc, receivers, type, kind, messages, frames, pushes, lives, bumps>>
  BY DEF EditRows, EditParticipants, LockExpires, vars, locals, stores, realm, redis, jobs
<1>2. UNCHANGED conversation
        \/ \E q : conversation' = [conversation EXCEPT !.participants = q]
  BY DEF EditRows, EditParticipants, LockExpires, vars, stores
<1>. QED
  BY <1>1, <1>2 DEF TypeOK

\* A message, once it may be told of, may be told of for good, and to whom is
\* settled.
LEMMA TellableIsStable ==
    ASSUME TypeOK, [Next]_vars, NEW t \in Sends, Tellable(t)
    PROVE  /\ Tellable(t)'
           /\ receivers'[t] = receivers[t]
           /\ \A sort : Targets(t, sort)' = Targets(t, sort)
<1>1. Tellable(t)' /\ receivers'[t] = receivers[t]
  <2>1. CASE \E s \in Sends : Arrive(s) \/ Send(s) \/ Crash(s)
    BY <2>1, SendStep DEF Tellable
  <2>2. CASE EditRows \/ EditParticipants \/ LockExpires \/ UNCHANGED vars
    BY <2>2, OtherStep DEF Tellable
  <2>. QED
    BY <2>1, <2>2 DEF Next
<1>. QED
  BY <1>1 DEF Targets, PlainTargets, MentionTargets, Mentioned

LEMMA StepWhereabouts ==
    ASSUME TypeOK, Whereabouts, [Next]_vars
    PROVE  Whereabouts'
<1>1. ASSUME NEW s \in Sends, Arrive(s) \/ Send(s) \/ Crash(s)
      PROVE  Whereabouts'
  <2>1. \A t \in Sends \ {s} : pc'[t] = pc[t] /\ (t \in messages' <=> t \in messages)
    BY <1>1, SendStep
  <2>2. /\ pc'[s] \in Sent => s \in messages'
        /\ pc'[s] \in Unsent => s \notin messages'
    <3>. USE DEF TypeOK, Whereabouts, Goto, Sent, Unsent, stores, locals
    <3>1. CASE Asks(s)
      BY <3>1, AskingStep DEF Before
    <3>2. CASE ReceiversInSQL(s) \/ ReceiversInMongo(s) \/ StoredType(s) \/ RealmType(s)
      BY <3>2 DEF ReceiversInSQL, ReceiversInMongo, StoredType, RealmType, Resolve, Before
    <3>3. CASE Insert(s) \/ InsertFails(s)
      BY <3>3 DEF Compose, Insert, InsertFails, Before
    <3>4. CASE saveConversation(s) \/ publishFrames(s) \/ SetNX(s) \/ bumpChatScore(s)
      BY <3>4 DEF saveConversation, publishFrames, SetNX, bumpChatScore, Before
    <3>5. CASE pushPlain(s) \/ pushMentions(s) \/ Crash(s)
      BY <3>5 DEF pushPlain, pushMentions, Push, Crash, Stages, Before
    <3>. QED
      BY <1>1, <3>1, <3>2, <3>3, <3>4, <3>5 DEF Send, Asks
  <2>. QED
    BY <2>1, <2>2 DEF Whereabouts
<1>2. CASE EditRows \/ EditParticipants \/ LockExpires \/ UNCHANGED vars
  BY <1>2, OtherStep DEF Whereabouts
<1>. QED
  BY <1>1, <1>2 DEF Next

\* What a step adds to what is heard is of a send that is past its insert,
\* and for those it is addressed to.
LEMMA NewlyHeard ==
    ASSUME TypeOK, Whereabouts, NEW s \in Sends, Arrive(s) \/ Send(s) \/ Crash(s)
    PROVE  /\ conversation'.last # conversation.last =>
                 Tellable(s) /\ conversation'.last = {s}
           /\ \A f \in frames' \ frames :
                 Tellable(s) /\ f[1] = s /\ f[2] \in receivers[s]
           /\ \A p \in pushes' \ pushes :
                 Tellable(s) /\ p[1] = s /\ p[3] \in Targets(s, p[2])
<1>. USE DEF Goto, Whereabouts, Tellable, Sent
<1>1. CASE saveConversation(s)
  BY <1>1 DEF saveConversation, Upserted, redis, jobs
<1>2. CASE publishFrames(s)
  BY <1>2 DEF publishFrames, jobs
<1>3. CASE pushPlain(s) \/ pushMentions(s)
  BY <1>3 DEF pushPlain, pushMentions, Push, Targets, redis
<1>4. CASE UNCHANGED <<conversation, frames, pushes>>
  BY <1>4
<1>5. \/ saveConversation(s) \/ publishFrames(s) \/ pushPlain(s) \/ pushMentions(s)
      \/ UNCHANGED <<conversation, frames, pushes>>
  <2>1. Asks(s) => UNCHANGED <<conversation, frames, pushes>>
    BY AskingStep DEF stores, redis, jobs
  <2>. QED
    BY <2>1 DEF Asks, ReceiversInSQL, ReceiversInMongo, StoredType, RealmType, Resolve,
       Compose, Insert, InsertFails, SetNX, bumpChatScore, Crash, Send, stores, redis, jobs
<1>. QED
  BY <1>1, <1>2, <1>3, <1>4, <1>5

LEMMA StepHeard ==
    ASSUME TypeOK, Whereabouts, Heard, [Next]_vars
    PROVE  Heard'
<1>1. ASSUME NEW s \in Sends, Arrive(s) \/ Send(s) \/ Crash(s)
      PROVE  Heard'
  <2>1. \A t \in conversation'.last : t \in Sends /\ Tellable(t)
    BY <1>1, NewlyHeard DEF Heard, TypeOK
  <2>2. \A f \in frames' : f[1] \in Sends /\ Tellable(f[1]) /\ f[2] \in receivers[f[1]]
    BY <1>1, NewlyHeard DEF Heard, TypeOK
  <2>3. \A p \in pushes' :
           p[1] \in Sends /\ Tellable(p[1]) /\ p[3] \in Targets(p[1], p[2])
    BY <1>1, NewlyHeard DEF Heard, TypeOK
  <2>4. \A t \in Sends : Tellable(t) => /\ Tellable(t)'
                                         /\ receivers'[t] = receivers[t]
                                         /\ \A sort : Targets(t, sort)' = Targets(t, sort)
    BY <1>1, TellableIsStable DEF Next
  <2>. QED
    BY <2>1, <2>2, <2>3, <2>4 DEF Heard
<1>2. CASE EditRows \/ EditParticipants \/ LockExpires \/ UNCHANGED vars
  <2>1. UNCHANGED <<pc, receivers, messages, frames, pushes, conversation.last>>
    BY <1>2, OtherStep
  <2>. QED
    BY <2>1 DEF Heard, Tellable, Targets, PlainTargets, MentionTargets, Mentioned
<1>. QED
  BY <1>1, <1>2 DEF Next

(***************************************************************************)
(* A send that is about to queue a bump has taken the lock, and no two     *)
(* take it in one life: the sends at "bump" and the bumps queued are       *)
(* together at most as many as its lives.                                  *)
(***************************************************************************)
LEMMA StepBumpsAreLocked ==
    ASSUME TypeOK, BumpsAreLocked, [Next]_vars
    PROVE  BumpsAreLocked'
<1>. USE DEF BumpsAreLocked
<1>1. lives \in Nat /\ bumps \in Nat /\ Cardinality(Bumping) \in Nat
  BY StoreAssumption, FS_CardinalityType DEF TypeOK
<1>2. CASE UNCHANGED <<Bumping, bumps, lives>>
  BY <1>2
<1>3. ASSUME NEW s \in Sends, SetNX(s), pc'[s] = "bump"
      PROVE  BumpsAreLocked'
  <2>1. Bumping' = Bumping \cup {s} /\ s \notin Bumping
    BY <1>3 DEF SetNX, Goto, Bumping, TypeOK
  <2>2. lives' = lives + 1 /\ bumps' = bumps
    BY <1>3 DEF SetNX, Goto, TypeOK, jobs
  <2>3. IsFiniteSet(Bumping') /\ Cardinality(Bumping') = Cardinality(Bumping) + 1
    BY <2>1, FS_AddElement
  <2>. QED
    BY <1>1, <2>2, <2>3
<1>4. ASSUME NEW s \in Sends, pc[s] = "bump", bumpChatScore(s) \/ Crash(s)
      PROVE  BumpsAreLocked'
  <2>1. Bumping' = Bumping \ {s} /\ s \in Bumping
    BY <1>4 DEF bumpChatScore, Crash, Goto, Bumping, TypeOK
  <2>2. lives' = lives /\ bumps' \in {bumps, bumps + 1}
    BY <1>4 DEF bumpChatScore, Crash, stores, redis, jobs
  <2>3. IsFiniteSet(Bumping') /\ Cardinality(Bumping') = Cardinality(Bumping) - 1
    BY <2>1, FS_RemoveElement
  <2>. QED
    BY <1>1, <2>2, <2>3
<1>5. ASSUME NEW s \in Sends, Arrive(s) \/ Send(s) \/ Crash(s)
      PROVE  \/ SetNX(s) /\ pc'[s] = "bump"
             \/ pc[s] = "bump" /\ (bumpChatScore(s) \/ Crash(s))
             \/ UNCHANGED <<Bumping, bumps>> /\ lives' \in {lives, lives + 1}
  <2>. USE DEF TypeOK, Goto, Bumping, stores, redis, jobs
  <2>1. CASE Asks(s)
    BY <2>1, AskingStep DEF Before
  <2>2. CASE ReceiversInSQL(s) \/ ReceiversInMongo(s) \/ StoredType(s) \/ RealmType(s)
    BY <2>2 DEF ReceiversInSQL, ReceiversInMongo, StoredType, RealmType, Resolve, Before
  <2>3. CASE Insert(s) \/ InsertFails(s)
    BY <2>3 DEF Compose, Insert, InsertFails, Before
  <2>4. CASE saveConversation(s) \/ publishFrames(s) \/ SetNX(s)
    BY <2>4 DEF saveConversation, publishFrames, SetNX, Before
  <2>5. CASE pushPlain(s) \/ pushMentions(s)
    BY <2>5 DEF pushPlain, pushMentions, Push
  <2>6. CASE Crash(s)
    BY <2>6 DEF Crash
  <2>7. CASE bumpChatScore(s)
    BY <2>7 DEF bumpChatScore
  <2>. QED
    BY <1>5, <2>1, <2>2, <2>3, <2>4, <2>5, <2>6, <2>7 DEF Send, Asks
<1>6. CASE UNCHANGED <<Bumping, bumps>> /\ lives' \in {lives, lives + 1}
  <2>1. IsFiniteSet(Bumping') /\ Cardinality(Bumping') = Cardinality(Bumping)
    BY <1>6
  <2>. QED
    BY <1>1, <1>6, <2>1
<1>7. CASE EditRows \/ EditParticipants \/ LockExpires \/ UNCHANGED vars
  <2>1. UNCHANGED <<pc, bumps, lives>>
    BY <1>7, OtherStep
  <2>2. Bumping' = Bumping
    BY <2>1 DEF Bumping
  <2>. QED
    BY <1>2, <2>1, <2>2
<1>. QED
  BY <1>3, <1>4, <1>5, <1>6, <1>7 DEF Next

\* The rows of a realm's conversation are of people, and those of another of
\* people too when SQL has just said so.
LEMMA RowsOfPeople ==
    ASSUME TypeOK, ~BlockedInSQL({})
    PROVE  Involved \cap Communities = {}
<1>1. CASE kind = "none"
  BY <1>1 DEF BlockedInSQL, Parties
<1>2. CASE kind # "none"
  BY <1>2, MemberAssumption DEF TypeOK, Involved
<1>. QED
  BY <1>1, <1>2

\* What one send does makes no other send's communities late that were not;
\* who comes into the document while it resolves its receivers is noted.
LEMMA OthersAreNoted ==
    ASSUME TypeOK, PeopleOnly, NEW s \in Sends, Arrive(s) \/ Send(s) \/ Crash(s),
           NEW t \in Sends \ {s}
    PROVE  /\ Late(t) \subseteq Late(t)'
           /\ pc[t] \in {"redocument", "rows", "participants"} =>
                 Involved' \cap Communities \subseteq Late(t)'
           /\ pc[t] \in {"rows", "participants"} =>
                 conversation'.participants \cap Communities \subseteq Late(t)'
<1>1. Involved' = Involved
  BY SendStep DEF Involved, realm
<1>2. CASE UNCHANGED <<conversation, entered>>
  BY <1>1, <1>2 DEF Late, PeopleOnly
<1>3. CASE saveConversation(s)
  <2>1. Enter(conversation'.participants \ conversation.participants)
    BY <1>3 DEF saveConversation
  <2>2. Late(t) \subseteq Late(t)'
    BY <2>1 DEF Late, Enter
  <2>3. pc[t] \in {"rows", "participants"} =>
           (conversation'.participants \ conversation.participants) \cap Communities
             \subseteq Late(t)'
    BY <2>1 DEF Late, Enter, Resolving
  <2>. QED
    BY <1>1, <2>2, <2>3 DEF PeopleOnly
<1>4. saveConversation(s) \/ UNCHANGED <<conversation, entered>>
  <2>1. Asks(s) => UNCHANGED <<conversation, entered>>
    BY AskingStep DEF stores, past
  <2>. QED
    BY <2>1 DEF Asks, Send, ReceiversInSQL, ReceiversInMongo, StoredType, RealmType, Resolve,
       Insert, InsertFails, Compose, publishFrames, SetNX, bumpChatScore, pushPlain,
       pushMentions, Push, Crash, stores, past
<1>. QED
  BY <1>2, <1>3, <1>4

\* What a send may do that makes one of its own new questions due.
LEMMA OneIsNoted ==
    ASSUME TypeOK, Whereabouts, PeopleOnly, NEW s \in Sends, Arrive(s) \/ Send(s) \/ Crash(s)
    PROVE  /\ receivers'[s] \cap Communities \subseteq Late(s)'
           /\ pc'[s] \in {"redocument", "rows", "participants"} =>
                 Involved' \cap Communities \subseteq Late(s)'
           /\ pc'[s] \in {"rows", "participants"} =>
                 conversation'.participants \cap Communities \subseteq Late(s)'
<1>1. Involved' = Involved
  BY SendStep DEF Involved, realm
<1>2. CASE Asks(s)
  <2>1. UNCHANGED <<receivers, conversation, entered>>
    BY <1>2, AskingStep DEF locals, stores, past
  <2>2. Late(s)' = Late(s)
    BY <2>1 DEF Late
  <2>3. CASE pc'[s] \notin {"redocument", "rows", "participants"}
    BY <2>1, <2>2, <2>3 DEF PeopleOnly
  <2>4. CASE pc'[s] = "redocument"
    <3>1. Recheck(s)
      BY <1>2, <2>4, AskingStep
    <3>2. ~BlockedInSQL({})
      BY <2>4, <3>1 DEF Recheck, Goto, TypeOK
    <3>. QED
      BY <1>1, <2>1, <2>2, <2>4, <3>2, RowsOfPeople DEF PeopleOnly
  <2>5. CASE pc'[s] \in {"rows", "participants"}
    <3>1. RecheckInMongo(s)
      BY <1>2, <2>5, AskingStep
    <3>2. ~BlockedInMongo /\ pc[s] = "redocument"
      BY <2>5, <3>1 DEF RecheckInMongo, Goto, TypeOK
    <3>3. conversation.participants \cap Communities = {}
      BY <3>2 DEF BlockedInMongo
    <3>. QED
      BY <1>1, <2>1, <2>2, <2>5, <3>2, <3>3 DEF PeopleOnly
  <2>. QED
    BY <2>3, <2>4, <2>5
<1>3. CASE ReceiversInSQL(s)
  <2>1. /\ pc[s] = "rows" /\ pc'[s] \in {"type", "participants"}
        /\ receivers'[s] = Involved
        /\ UNCHANGED <<conversation, entered>>
    BY <1>3 DEF ReceiversInSQL, Goto, TypeOK, stores, past
  <2>. QED
    BY <1>1, <2>1 DEF PeopleOnly, Late
<1>4. CASE ReceiversInMongo(s)
  <2>1. /\ pc[s] = "participants" /\ pc'[s] = "type"
        /\ receivers'[s] = conversation.participants
        /\ UNCHANGED <<conversation, entered>>
    BY <1>4 DEF ReceiversInMongo, Goto, TypeOK, stores, past
  <2>. QED
    BY <1>1, <2>1 DEF PeopleOnly, Late
<1>5. CASE /\ ~Asks(s) /\ ~ReceiversInSQL(s) /\ ~ReceiversInMongo(s)
  <2>. USE DEF Goto, TypeOK
  <2>1. /\ UNCHANGED receivers
        /\ entered \subseteq entered'
        /\ pc'[s] \notin {"redocument", "rows", "participants"}
    <3>1. CASE StoredType(s) \/ RealmType(s) \/ Insert(s) \/ InsertFails(s)
      BY <3>1 DEF StoredType, RealmType, Resolve, Insert, InsertFails, Compose, past
    <3>2. CASE saveConversation(s)
      BY <3>2 DEF saveConversation, Enter, locals
    <3>3. CASE publishFrames(s) \/ SetNX(s) \/ bumpChatScore(s)
      BY <3>3 DEF publishFrames, SetNX, bumpChatScore, past, locals
    <3>4. CASE pushPlain(s) \/ pushMentions(s) \/ Crash(s)
      BY <3>4 DEF pushPlain, pushMentions, Push, Crash, past, locals
    <3>. QED
      BY <1>5, <3>1, <3>2, <3>3, <3>4 DEF Send, Asks
  <2>. QED
    BY <2>1 DEF PeopleOnly, Late
<1>. QED
  BY <1>2, <1>3, <1>4, <1>5

LEMMA StepPeopleOnly ==
    ASSUME TypeOK, Whereabouts, PeopleOnly, [Next]_vars
    PROVE  PeopleOnly'
<1>1. ASSUME NEW s \in Sends, Arrive(s) \/ Send(s) \/ Crash(s)
      PROVE  PeopleOnly'
  <2>1. \A t \in Sends \ {s} : /\ pc'[t] = pc[t]
                               /\ receivers'[t] = receivers[t]
                               /\ t \in messages' <=> t \in messages
    BY <1>1, SendStep
  <2>2. pc'[s] \in Capable \/ s \in messages' => Sender[s] \notin Communities
    <3>. USE DEF TypeOK, PeopleOnly, Goto, Capable, Before, Sent, stores, locals
    <3>1. CASE Arrive(s) \/ CapabilityInMongo(s) \/ AssertMember(s) \/ assertDirectMember(s)
      BY <3>1 DEF Arrive, CapabilityInMongo, AssertMember, assertDirectMember
    <3>2. CASE Capability(s)
      BY <3>2 DEF Capability, BlockedInSQL
    <3>3. CASE uniqueMessageID(s) \/ Recheck(s) \/ RecheckInMongo(s) \/ Fails(s)
      BY <3>3 DEF uniqueMessageID, Recheck, RecheckInMongo, Fails
    <3>4. CASE ReceiversInSQL(s) \/ ReceiversInMongo(s) \/ StoredType(s) \/ RealmType(s)
      BY <3>4 DEF ReceiversInSQL, ReceiversInMongo, StoredType, RealmType, Resolve
    <3>5. CASE Insert(s) \/ InsertFails(s)
      BY <3>5 DEF Compose, Insert, InsertFails
    <3>6. CASE saveConversation(s) \/ publishFrames(s) \/ SetNX(s) \/ bumpChatScore(s)
      BY <3>6 DEF saveConversation, publishFrames, SetNX, bumpChatScore
    <3>7. CASE pushPlain(s) \/ pushMentions(s) \/ Crash(s)
      BY <3>7 DEF pushPlain, pushMentions, Push, Crash, Stages
    <3>. QED
      BY <1>1, <3>1, <3>2, <3>3, <3>4, <3>5, <3>6, <3>7 DEF Send
  <2>3. \A t \in Sends \ {s} :
           /\ receivers'[t] \cap Communities \subseteq Late(t)'
           /\ pc'[t] \in Capable \/ t \in messages' => Sender[t] \notin Communities
           /\ pc'[t] \in {"redocument", "rows", "participants"} =>
                 Involved' \cap Communities \subseteq Late(t)'
           /\ pc'[t] \in {"rows", "participants"} =>
                 conversation'.participants \cap Communities \subseteq Late(t)'
    BY <1>1, <2>1, OthersAreNoted DEF PeopleOnly
  <2>. QED
    BY <1>1, <2>2, <2>3, OneIsNoted DEF PeopleOnly
<1>2. CASE EditRows \/ EditParticipants
  <2>1. UNCHANGED <<pc, receivers, messages>>
    BY <1>2, OtherStep
  <2>2. ASSUME NEW t \in Sends
        PROVE  /\ Late(t) \subseteq Late(t)'
               /\ pc[t] \in {"redocument", "rows", "participants"} =>
                     Involved' \cap Communities \subseteq Late(t)'
               /\ pc[t] \in {"rows", "participants"} =>
                     conversation'.participants \cap Communities \subseteq Late(t)'
    <3>1. CASE EditRows
      <4>1. /\ conversation' = conversation
            /\ entered' = entered \cup (Resolving \X ((Involved' \ Involved) \cap Communities))
        BY <3>1 DEF EditRows, Enter, Involved
      <4>. QED
        BY <4>1 DEF PeopleOnly, Late, Resolving
    <3>2. CASE EditParticipants
      <4>1. PICK p \in SUBSET Entities :
               /\ conversation'.participants = p
               /\ entered' = entered \cup
                     (Resolving \X ((p \ conversation.participants) \cap Communities))
        BY <3>2, StoreAssumption DEF EditParticipants, Enter, TypeOK
      <4>2. Involved' = Involved
        BY <3>2 DEF EditParticipants, Involved, realm
      <4>. QED
        BY <4>1, <4>2 DEF PeopleOnly, Late, Resolving
    <3>. QED
      BY <1>2, <3>1, <3>2
  <2>. QED
    BY <2>1, <2>2 DEF PeopleOnly
<1>3. CASE LockExpires \/ UNCHANGED vars
  BY <1>3 DEF LockExpires, vars, locals, stores, realm, past, PeopleOnly, Late, Involved
<1>. QED
  BY <1>1, <1>2, <1>3 DEF Next

LEMMA StepIInv == IInv /\ [Next]_vars => IInv'
BY StepTypeOK, StepWhereabouts, StepHeard, StepBumpsAreLocked, StepPeopleOnly DEF IInv

LEMMA Inductive == Spec => []IInv
BY InitIInv, StepIInv, PTL DEF Spec
-----------------------------------------------------------------------------
(***************************************************************************)
(* Type correctness.                                                       *)
(***************************************************************************)
THEOREM TypeCorrect == Spec => []TypeOK
<1>1. IInv => TypeOK
  BY DEF IInv
<1>. QED
  BY <1>1, Inductive, PTL

(***************************************************************************)
(* No frame, push or preview goes out of a message that is not in the      *)
(* collection: fanOut is only reached by an insert that was acknowledged,  *)
(* and nothing takes a message out again.                                  *)
(***************************************************************************)
THEOREM HeardIsStoredHolds == Spec => []HeardIsStored
<1>1. IInv => HeardIsStored
  BY DEF IInv, Heard, Tellable, HeardIsStored
<1>. QED
  BY <1>1, Inductive, PTL

(***************************************************************************)
(* What SendMessage answers is so, whatever failed and wherever: 201 means *)
(* stored, 400 and 404 that nothing was, and of a message that was         *)
(* reported as not sent nobody has heard, even if a failed insert was      *)
(* made.                                                                   *)
(***************************************************************************)
THEOREM AnswersAreTrueHolds == Spec => []AnswersAreTrue
<1>1. IInv => AnswersAreTrue
  <2>. SUFFICES ASSUME IInv, NEW s \in Sends
                PROVE  /\ pc[s] = "201" => s \in messages
                       /\ pc[s] \in {"400", "404"} => s \notin messages
                       /\ pc[s] \in {"400", "404", "500"} =>
                             /\ s \notin conversation.last
                             /\ \A f \in frames : f[1] # s
                             /\ \A p \in pushes : p[1] # s
    BY DEF AnswersAreTrue
  <2>1. pc[s] \in {"400", "404", "500"} => ~Tellable(s)
    BY DEF Tellable, Sent
  <2>2. /\ pc[s] = "201" => s \in messages
        /\ pc[s] \in {"400", "404"} => s \notin messages
    BY DEF IInv, Whereabouts, Sent, Unsent
  <2>. QED
    BY <2>1, <2>2 DEF IInv, Heard
<1>. QED
  BY <1>1, Inductive, PTL

(***************************************************************************)
(* One message makes at most one entry in anybody's tray and none in its   *)
(* sender's, and the conversation's score is bumped at most once in each   *)
(* life of its lock, however many replicas send into it.                   *)
(***************************************************************************)
THEOREM NothingTwiceHolds == Spec => []NothingTwice
<1>1. IInv => NothingTwice
  <2>. SUFFICES ASSUME IInv PROVE NothingTwice
    OBVIOUS
  <2>1. bumps <= lives
    <3>1. Cardinality(Bumping) \in Nat /\ Cardinality(Bumping) + bumps <= lives
      BY FS_CardinalityType DEF IInv, BumpsAreLocked
    <3>2. bumps \in Nat /\ lives \in Nat
      BY StoreAssumption DEF IInv, TypeOK
    <3>. QED
      BY <3>1, <3>2
  <2>2. ASSUME NEW s \in Sends, NEW e \in Entities,
               <<s, "plain", e>> \in pushes, <<s, "mention", e>> \in pushes
        PROVE  FALSE
    <3>1. e \in Targets(s, "plain") /\ e \in Targets(s, "mention")
      BY <2>2 DEF IInv, Heard
    <3>. QED
      BY <3>1 DEF Targets, PlainTargets, MentionTargets
  <2>3. \A p \in pushes : p[3] # Sender[p[1]]
    BY DEF IInv, Heard, Targets, PlainTargets, MentionTargets
  <2>. QED
    BY <2>1, <2>2, <2>3 DEF NothingTwice
<1>. QED
  BY <1>1, Inductive, PTL

(***************************************************************************)
(* No community sends, is sent a frame or is pushed to, in a conversation  *)
(* of whatever kind and whatever legacy rows and documents it has, but one *)
(* that came into the conversation after SQL had last been asked about it  *)
(* and before the receivers were known: the capability is asked of the     *)
(* sender and, once more, before the receivers are resolved.               *)
(***************************************************************************)
THEOREM OnlyLateCommunitiesHearHolds == Spec => []OnlyLateCommunitiesHear
<1>1. IInv => OnlyLateCommunitiesHear
  <2>. SUFFICES ASSUME IInv PROVE OnlyLateCommunitiesHear
    OBVIOUS
  <2>1. \A s \in messages : Sender[s] \notin Communities
    BY DEF IInv, TypeOK, PeopleOnly
  <2>2. \A f \in frames : /\ f[1] \in Sends /\ f[2] \in receivers[f[1]]
                          /\ f = <<f[1], f[2]>>
    BY DEF IInv, TypeOK, Heard
  <2>3. \A p \in pushes : p[1] \in Sends /\ p[3] \in receivers[p[1]]
    BY DEF IInv, TypeOK, Heard, Targets, PlainTargets, MentionTargets, Mentioned
  <2>4. \A s \in Sends : \A c \in receivers[s] : c \in Communities => <<s, c>> \in entered
    BY DEF IInv, PeopleOnly, Late
  <2>. QED
    BY <2>1, <2>2, <2>3, <2>4 DEF OnlyLateCommunitiesHear
<1>. QED
  BY <1>1, Inductive, PTL

(***************************************************************************)
(* No send changes the type of a conversation, and none empties its        *)
(* participant_ids: the upsert sets the type on insert only, and the       *)
(* participants only when there are receivers.                             *)
(***************************************************************************)
THEOREM ConversationIsKeptHolds == Spec => ConversationIsKept
<1>. DEFINE Kept == /\ conversation.type # "none" => conversation'.type = conversation.type
                    /\ conversation.participants # {} => conversation'.participants # {}
<1>1. TypeOK /\ [Next]_vars => [Kept]_vars
  <2>. SUFFICES ASSUME TypeOK, [Next]_vars PROVE Kept
    OBVIOUS
  <2>1. \/ UNCHANGED conversation
        \/ \E s \in Sends : conversation' = Upserted(s)
        \/ \E q \in ParticipantSets \ {{}} :
              conversation' = [conversation EXCEPT !.participants = q]
    <3>1. \A s \in Sends : Asks(s) => UNCHANGED conversation
      BY AskingStep DEF stores
    <3>. QED
      BY <3>1 DEF Next, Send, Asks, ReceiversInSQL, ReceiversInMongo, StoredType, RealmType,
         Resolve, Compose, Insert, InsertFails, saveConversation, publishFrames, SetNX,
         bumpChatScore, pushPlain, pushMentions, Push, Crash, EditRows, EditParticipants,
         LockExpires, vars, stores
  <2>. QED
    BY <2>1 DEF TypeOK, Upserted
<1>. QED
  BY <1>1, TypeCorrect, PTL DEF Spec, ConversationIsKept

(***************************************************************************)
(* What is stored of a realm's conversation, and of the messages in it, is *)
(* the realm's type, whatever the caller believes, or else what a send     *)
(* claimed whose lookup of the realm failed.                               *)
(***************************************************************************)
LEMMA StepGivenTypes ==
    ASSUME TypeOK, Whereabouts, Heard, GivenTypes, [Next]_vars
    PROVE  GivenTypes'
<1>1. ASSUME NEW s \in Sends, Arrive(s) \/ Send(s) \/ Crash(s)
      PROVE  GivenTypes'
  <2>1. /\ \A t \in Sends \ {s} : /\ pc'[t] = pc[t]
                                  /\ type'[t] = type[t]
                                  /\ t \in messages' <=> t \in messages
        /\ kind' = kind
    BY <1>1, SendStep DEF realm
  <2>2. CASE StoredType(s)
    <3>1. /\ s \notin unread /\ s \notin messages /\ UNCHANGED <<unread, conversation, messages>>
          /\ \/ pc'[s] = "realm"
             \/ pc'[s] = "insert" /\ type'[s] = conversation.type
          /\ pc[s] = "type"
          /\ \A u \in unread : type'[u] = type[u]
      BY <2>2 DEF StoredType, Goto, TypeOK, GivenTypes, Whereabouts, Unsent, stores, past
    <3>2. \A t : Given(t) => Given(t)'
      BY <2>1, <3>1 DEF Given, TypeOK
    <3>. QED
      BY <2>1, <3>1, <3>2 DEF GivenTypes, Sent, TypeOK
  <2>3. CASE RealmType(s)
    <3>1. /\ s \notin unread /\ s \notin messages /\ UNCHANGED <<conversation, messages>>
          /\ pc'[s] = "insert"
      BY <2>3 DEF RealmType, Resolve, Goto, TypeOK, GivenTypes, Whereabouts, Unsent, stores
    <3>2. PICK t \in Types :
            /\ type'[s] = t
            /\ \/ UNCHANGED unread /\ kind # "none" /\ t = normalizeConversationType(kind)
               \/ UNCHANGED unread /\ kind = "none"
               \/ unread' = unread \cup {s}
      BY <2>3, ResolveType DEF TypeOK
    <3>3. \A u : Given(u) => Given(u)'
      BY <2>1, <3>1, <3>2 DEF Given, TypeOK
    <3>4. kind # "none" => Given(type[s])'
      BY <2>1, <3>2 DEF Given
    <3>5. \A u \in unread' : pc'[u] \notin Before \cup {"type", "realm"}
      BY <2>1, <3>1, <3>2 DEF GivenTypes, Before, TypeOK
    <3>. QED
      BY <2>1, <3>1, <3>3, <3>4, <3>5 DEF GivenTypes, Sent, TypeOK
  <2>4. CASE UNCHANGED <<type, unread>> /\ ~StoredType(s) /\ ~RealmType(s)
    <3>1. \A t : Given(t) => Given(t)'
      BY <2>1, <2>4 DEF Given, TypeOK
    <3>2. /\ pc'[s] \in {"insert"} \cup Sent \/ s \in messages' =>
                pc[s] \in {"insert"} \cup Sent \/ s \in messages
          /\ pc'[s] \in Before \cup {"type", "realm"} =>
                pc[s] \in Before \cup {"type", "realm"}
      <4>. USE DEF Goto, TypeOK, Sent, Before, stores, locals, past
      <4>1. CASE Asks(s)
        BY <4>1, AskingStep
      <4>2. CASE ReceiversInSQL(s) \/ ReceiversInMongo(s) \/ Crash(s)
        BY <4>2 DEF ReceiversInSQL, ReceiversInMongo, Crash, Stages
      <4>3. CASE Insert(s) \/ InsertFails(s)
        BY <4>3 DEF Insert, InsertFails, Compose
      <4>4. CASE saveConversation(s) \/ publishFrames(s) \/ SetNX(s) \/ bumpChatScore(s)
        BY <4>4 DEF saveConversation, publishFrames, SetNX, bumpChatScore
      <4>5. CASE pushPlain(s) \/ pushMentions(s)
        BY <4>5 DEF pushPlain, pushMentions, Push
      <4>. QED
        BY <1>1, <2>4, <4>1, <4>2, <4>3, <4>4, <4>5 DEF Send, Asks
    <3>3. kind # "none" => Given(conversation'.type)
      <4>1. CASE saveConversation(s)
        BY <4>1 DEF saveConversation, Upserted, Goto, GivenTypes, Sent
      <4>2. CASE UNCHANGED conversation
        BY <4>2 DEF GivenTypes
      <4>3. Asks(s) => UNCHANGED conversation
        BY AskingStep DEF stores
      <4>. QED
        BY <1>1, <4>1, <4>2, <4>3 DEF Send, Asks, stores, ReceiversInSQL, ReceiversInMongo,
           StoredType, RealmType, Resolve, Compose, Insert, InsertFails, publishFrames,
           SetNX, bumpChatScore, pushPlain, pushMentions, Push, Crash
    <3>. QED
      BY <2>1, <2>4, <3>1, <3>2, <3>3 DEF GivenTypes, TypeOK
  <2>5. StoredType(s) \/ RealmType(s) \/ UNCHANGED <<type, unread>>
    <3>1. Asks(s) => UNCHANGED <<type, unread>>
      BY AskingStep DEF locals, past
    <3>. QED
      BY <1>1, <3>1 DEF Send, Asks, locals, past, ReceiversInSQL, ReceiversInMongo, Compose,
         Insert, InsertFails, saveConversation, publishFrames, SetNX, bumpChatScore,
         pushPlain, pushMentions, Push, Crash
  <2>. QED
    BY <2>2, <2>3, <2>4, <2>5
<1>2. CASE EditRows \/ EditParticipants \/ LockExpires \/ UNCHANGED vars
  <2>1. UNCHANGED <<pc, type, kind, messages, conversation.type>>
    BY <1>2, OtherStep
  <2>2. UNCHANGED unread
    BY <1>2 DEF EditRows, EditParticipants, LockExpires, vars, past
  <2>. QED
    BY <2>1, <2>2 DEF GivenTypes, Given
<1>. QED
  BY <1>1, <1>2 DEF Next

THEOREM WrongTypesAreUnreadHolds == Spec => []WrongTypesAreUnread
<1>1. Init => GivenTypes
  <2>. SUFFICES ASSUME Init PROVE GivenTypes
    OBVIOUS
  <2>1. ASSUME kind # "none"
        PROVE  Given(conversation.type)
    <3>1. \/ conversation.type = "none"
          \/ kind \in Types /\ conversation.type = kind
          \/ kind = "server" /\ conversation.type = "channel"
      BY <2>1, StoreAssumption DEF Init
    <3>. QED
      BY <3>1 DEF Given, normalizeConversationType, Types
  <2>. QED
    BY <2>1 DEF Init, GivenTypes, Sent
<1>2. IInv /\ GivenTypes /\ [Next]_vars => GivenTypes'
  BY StepGivenTypes DEF IInv
<1>3. IInv /\ GivenTypes => WrongTypesAreUnread
  BY DEF IInv, TypeOK, GivenTypes, Given, WrongTypesAreUnread
<1>. QED
  BY <1>1, <1>2, <1>3, Inductive, PTL DEF Spec
=============================================================================
