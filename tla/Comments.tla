------------------------------ MODULE Comments ------------------------------
(***************************************************************************)
(* CreateComment of src/internal/platform/comments.go with its fan-out,    *)
(* WriteNotification of notifications.go, the access rules of community.go *)
(* and the activity frame of post_activity.go: any number of comments to   *)
(* one post, at any number of replicas, while the platform tags and untags *)
(* the post, moves members in and out, and deletes comments.               *)
(*                                                                         *)
(* Each action is one exchange with a store; one that fails may have taken *)
(* effect.  A comment's id is the draft's own.                             *)
(***************************************************************************)
EXTENDS Naturals, FiniteSets

CONSTANTS
    Drafts,         \* the requests, and the comments they may become
    Olds,           \* comments that are there from the start,
    OldParent,      \* where each of them is stored,
    OldAuthor,      \* and whose it is
    Elsewhere,      \* the old comments of another post
    Deletable,      \* the comments that may be soft-deleted
    Entities,
    Owner,          \* the post's author
    Author,         \* each draft's author,
    Aim,            \* the comment it answers, or None,
    Mentions,       \* whom its text names, once those are resolved
    Anonymous,      \* the drafts with is_anonymous
    Empty,          \* the drafts without text, or with a malformed body
    None,
    Readers,        \* who may read the post while it is in no community
    TagSets,        \* the sets of communities the post may be tagged with
    MemberSets      \* sets of <<entity, community>>: active communities only

Ids == Drafts \cup Olds

ASSUME OldAssumption ==
    /\ Drafts \cap Olds = {} /\ None \notin Ids
    /\ OldAuthor \in [Olds -> Entities]
    /\ Elsewhere \subseteq Olds /\ Deletable \subseteq Ids
    /\ OldParent \in [Olds -> Olds \cup {None}]
    /\ \A c \in Olds : OldParent[c] # None =>
          OldParent[OldParent[c]] = None /\ (c \in Elsewhere <=> OldParent[c] \in Elsewhere)
ASSUME DraftAssumption ==
    /\ Author \in [Drafts -> Entities] /\ Mentions \in [Drafts -> SUBSET Entities]
    /\ Aim \in [Drafts -> Ids \cup {None}]
    /\ Anonymous \subseteq Drafts /\ Empty \subseteq Drafts
ASSUME AccessAssumption ==
    /\ Owner \in Readers /\ Readers \subseteq Entities
    /\ \A of \in MemberSets : \A member \in of : member[2] # None

VARIABLES
    pc,             \* where each draft is, or its answer
    community,      \* post.CommunityRealmPK, as the draft has read it
    stored,         \* the rows of newsfeed_comment,
    parent,         \* their parent_comment_id,
    deleted,        \* and those with a deleted_at
    tags, members,
    activity,       \* the comments announced on the post's channel,
    jobs,           \* and those the worker has jobs of
    notices,        \* the notifications
    notified,       \* whom each draft counts as notified
    todo,           \* whom its mentions have still to reach
    notice,         \* the notification it is about to write
    \* Histories, read by no action:
    entitled,       \* who could read each comment at some moment
    late,           \* <<draft, community>>: the post came into the community
                    \*   after the draft was let in as to another's
    lost            \* the notifications inserted and reported as not

request  == <<community, notified, todo, notice>>
comments == <<stored, parent, deleted>>
scope    == <<tags, members>>
told     == <<activity, jobs, notices>>
past     == <<entitled, late, lost>>
vars     == <<pc, request, comments, scope, told, past>>

Answers == {"201", "400", "404", "500"}
Stages  == {"post", "parent", "insert", "activity", "jobs", "reply", "resolve",
            "mention", "row", "write"}

\* Old authors and the drafts'.
AuthorOf(c) == IF c \in Drafts THEN Author[c] ELSE OldAuthor[c]

(***************************************************************************)
(* permits and communityNotification of community.go and notifications.go: *)
(* a post in one community is for its members, one in several for nobody.  *)
(* Whether the community is private makes no difference here: to write in  *)
(* it, and to be told of what is written, takes a member.                  *)
(***************************************************************************)
permits(e, tag, of) ==
    IF tag = {} THEN e \in Readers
    ELSE \E c \in tag : tag = {c} /\ <<e, c>> \in of

\* Who is told about a comment may read it.
MayBeTold(tag, of) == {e \in Entities : permits(e, tag, of)}

Init ==
    /\ pc = [d \in Drafts |-> "idle"]
    /\ community = [d \in Drafts |-> None]
    /\ stored = Olds
    /\ parent = [c \in Ids |-> IF c \in Olds THEN OldParent[c] ELSE None]
    /\ deleted = {}
    /\ tags \in TagSets /\ members \in MemberSets
    /\ activity = {} /\ jobs = {} /\ notices = {}
    /\ notified = [d \in Drafts |-> {}]
    /\ todo = [d \in Drafts |-> {}]
    /\ notice = [d \in Drafts |-> None]
    /\ entitled = [d \in Drafts |-> {}] /\ late = {} /\ lost = {}

Goto(d, from, to) == pc[d] = from /\ pc' = [pc EXCEPT ![d] = to]

Arrive(d) ==
    /\ Goto(d, "idle", IF d \in Empty THEN "400" ELSE "post")
    /\ UNCHANGED <<request, comments, scope, told, past>>

\* loadPostForViewer and validateCommentAnonymity.
LoadPost(d) ==
    LET next == IF Aim[d] = None THEN "insert" ELSE "parent"
    IN  /\ Goto(d, "post",
                IF ~permits(Author[d], tags, members) THEN "404"
                ELSE IF d \in Anonymous /\ tags = {} THEN "400"
                ELSE next)
        /\ community' = [community EXCEPT ![d] =
              IF \E c \in tags : tags = {c}
              THEN CHOOSE c \in tags : TRUE ELSE None]
        /\ UNCHANGED <<notified, todo, notice, comments, scope, told, past>>

\* Mutant: a comment of any post will do.
AnyParent(d) ==
    /\ Goto(d, "parent", IF Aim[d] \in stored \ deleted THEN "insert" ELSE "404")
    /\ UNCHANGED <<request, comments, scope, told, past>>

\* loadParentComment: there, not deleted, and on this post.
LoadParent(d) ==
    /\ Goto(d, "parent",
            IF Aim[d] \in stored \ (deleted \cup Elsewhere) THEN "insert" ELSE "404")
    /\ UNCHANGED <<request, comments, scope, told, past>>

\* storedParentFor, of the comment aimed at.
storedParentFor(c) ==
    IF c = None THEN None
    ELSE IF parent[c] # None THEN parent[c] ELSE c

\* The INSERT's own condition, on the scope as it is now.
MayInsert(d) == tags = {} \/ <<Author[d], community[d]>> \in members

Store(d) ==
    /\ stored' = stored \cup {d}
    /\ parent' = [parent EXCEPT ![d] = storedParentFor(Aim[d])]
    /\ entitled' = [entitled EXCEPT ![d] = MayBeTold(tags, members)]

\* Mutant: the scope as it was when the post was loaded.
InsertUnchecked(d) ==
    /\ Goto(d, "insert", "activity")
    /\ Store(d)
    /\ UNCHANGED <<request, deleted, scope, told, late, lost>>

\* Mutant: RowsAffected is not looked at.
AffectedIgnored(d) ==
    /\ Goto(d, "insert", "activity")
    /\ \/ MayInsert(d) /\ Store(d)
       \/ ~MayInsert(d) /\ UNCHANGED <<stored, parent, entitled>>
    /\ UNCHANGED <<request, deleted, scope, told, late, lost>>

Insert(d) ==
    /\ \/ MayInsert(d) /\ Goto(d, "insert", "activity") /\ Store(d)
       \/ /\ ~MayInsert(d) /\ Goto(d, "insert", "404")
          /\ UNCHANGED <<stored, parent, entitled>>
    /\ UNCHANGED <<request, deleted, scope, told, late, lost>>

\* A query fails, or the insert, which may have been made.
Fails(d) ==
    /\ \/ /\ \E from \in {"post", "parent", "insert"} : Goto(d, from, "500")
          /\ UNCHANGED <<stored, parent, entitled>>
       \/ MayInsert(d) /\ Goto(d, "insert", "500") /\ Store(d)
    /\ UNCHANGED <<request, deleted, scope, told, late, lost>>

(***************************************************************************)
(* commentFanOut: the post's channel, the worker's jobs, the notifications *)
(***************************************************************************)
\* The frame names its actor, but for an anonymous comment.
Activity(d) ==
    [about |-> d, thread |-> storedParentFor(Aim[d]),
     names |-> IF d \in Anonymous THEN {} ELSE {Author[d]}]

publishPostActivity(d) ==
    /\ Goto(d, "activity", "jobs")
    /\ activity' \in {activity, activity \cup {Activity(d)}}
    /\ UNCHANGED <<request, comments, scope, jobs, notices, past>>

publishJobs(d) ==
    /\ Goto(d, "jobs", "reply")
    /\ jobs' \in {jobs \cup ({d} \X kinds) :
                     kinds \in SUBSET {"ranking", "affinity"}}
    /\ UNCHANGED <<request, comments, scope, activity, notices, past>>

\* Who is told of the comment as an answer to something of theirs.  The post's
\* author who answers on the own post tells nobody, as in Django.
Answered(d) ==
    {e \in {IF Aim[d] = None THEN Owner ELSE AuthorOf(Aim[d])} :
        e # Author[d] /\ Author[d] # Owner}

\* What WriteNotification makes of it: in a community the sender is the
\* community, and of an anonymous comment no name is left.
Notice(d, e, kind) ==
    [about |-> d, to |-> e, kind |-> kind,
     names |-> IF tags # {} /\ d \in Anonymous THEN {} ELSE {Author[d]}]

\* A row of the notifications.
Notices == [about : Drafts, to : Entities, kind : {"reply", "mention"},
            names : SUBSET Entities]

\* Mutant: the scope is the producer's business.
ToldAnyway(e) == TRUE

\* The scope at delivery.
MayRead(e) == permits(e, tags, members)

\* WriteNotification, of its three exchanges the first: who may not read the
\* post, or of whom that cannot be found out, is passed over.
LoadAccess(d, e, kind, next) ==
    \/ /\ MayRead(e)
       /\ pc' = [pc EXCEPT ![d] = IF tags = {} THEN "write" ELSE "row"]
       /\ notice' = [notice EXCEPT ![d] = Notice(d, e, kind)]
    \/ /\ pc' = [pc EXCEPT ![d] = next]
       /\ UNCHANGED notice

\* Where a draft goes on after a notification.
After(d) == IF notice[d].kind = "reply" THEN "resolve" ELSE "mention"

Done(d, from) == Goto(d, from, After(d)) /\ notice' = [notice EXCEPT ![d] = None]

\* The second, in a community: the comment, if it is not deleted.
LoadComment(d) ==
    /\ \/ d \notin deleted /\ Goto(d, "row", "write") /\ UNCHANGED notice
       \/ Done(d, "row")
    /\ UNCHANGED <<community, notified, todo, comments, scope, told, past>>

\* The third: the row, then its frame.  A failure says nothing of whether the
\* row is there.
WriteNotification(d) ==
    /\ Done(d, "write")
    /\ \/ /\ notices' = notices \cup {notice[d]}
          /\ notified' = [notified EXCEPT ![d] = @ \cup {notice[d].to}]
          /\ UNCHANGED lost
       \/ UNCHANGED <<notices, notified, lost>>
       \/ /\ notices' = notices \cup {notice[d]}
          /\ lost' = lost \cup {notice[d]}
          /\ UNCHANGED notified
    /\ UNCHANGED <<community, todo, comments, scope, activity, jobs, entitled, late>>

NotifyAnswered(d) ==
    /\ pc[d] = "reply"
    /\ \/ \E e \in Answered(d) : LoadAccess(d, e, "reply", "resolve")
       \/ /\ Answered(d) = {}
          /\ Goto(d, "reply", "resolve")
          /\ UNCHANGED notice
    /\ UNCHANGED <<community, notified, todo, comments, scope, told, past>>

\* Mutant: who was told of the answer is not skipped.
NotYetMentioned(d) == Mentions[d] \ {Author[d]}

\* Whom the mentions reach beyond those already told.
Mentioned(d) == Mentions[d] \ (notified[d] \cup {Author[d]})

\* ResolveMentions; if it fails nobody is mentioned.
ResolveMentions(d) ==
    /\ Goto(d, "resolve", "mention")
    /\ todo' \in {[todo EXCEPT ![d] = who] : who \in {{}, Mentioned(d)}}
    /\ UNCHANGED <<community, notified, notice, comments, scope, told, past>>

NotifyMention(d) ==
    /\ pc[d] = "mention"
    /\ \E e \in todo[d] :
          /\ LoadAccess(d, e, "mention", "mention")
          /\ todo' = [todo EXCEPT ![d] = @ \ {e}]
    /\ UNCHANGED <<community, notified, comments, scope, told, past>>

Finish(d) ==
    /\ todo[d] = {}
    /\ Goto(d, "mention", "201")
    /\ UNCHANGED <<request, comments, scope, told, past>>

(***************************************************************************)
(* What the platform does meanwhile.                                       *)
(***************************************************************************)
\* The drafts that were let in as to a community and are not inserted yet.
Admitted == {d \in Drafts : pc[d] \in {"parent", "insert"} /\ community[d] # None}

\* Who may read a comment changes; and who was let in as to one community
\* may find the post in another.
Rescope(tag, of) ==
    /\ tags' = tag /\ members' = of
    /\ entitled' = [d \in Drafts |->
          IF d \in stored THEN entitled[d] \cup MayBeTold(tag, of) ELSE {}]
    /\ late' = late \cup UNION {{d} \X (tag \ {community[d]}) : d \in Admitted}
    /\ UNCHANGED <<pc, request, comments, told, lost>>

Retag == \E tag \in TagSets \ {tags} : Rescope(tag, members)
MoveMember == \E of \in MemberSets \ {members} : Rescope(tags, of)

Delete ==
    /\ \E c \in (stored \cap Deletable) \ deleted : deleted' = deleted \cup {c}
    /\ UNCHANGED <<pc, request, stored, parent, scope, told, past>>

Comment(d) ==
    \/ Arrive(d) \/ LoadPost(d) \/ LoadParent(d) \/ Insert(d) \/ Fails(d)
    \/ publishPostActivity(d) \/ publishJobs(d)
    \/ NotifyAnswered(d) \/ ResolveMentions(d) \/ NotifyMention(d)
    \/ LoadComment(d) \/ WriteNotification(d) \/ Finish(d)

Next ==
    \/ \E d \in Drafts : Comment(d)
    \/ Retag
    \/ MoveMember
    \/ Delete

Spec == Init /\ [][Next]_vars
-----------------------------------------------------------------------------
\* The type invariant.
TypeOK ==
    /\ pc \in [Drafts -> {"idle"} \cup Stages \cup Answers]
    /\ community \in [Drafts -> (UNION TagSets) \cup {None}]
    /\ Olds \subseteq stored /\ stored \subseteq Ids
    /\ parent \in [Ids -> Ids \cup {None}]
    /\ deleted \subseteq Deletable
    /\ tags \in TagSets /\ members \in MemberSets
    /\ \A a \in activity : a.about \in Drafts /\ a.names \subseteq Entities
    /\ jobs \subseteq Drafts \X {"ranking", "affinity"}
    /\ notices \subseteq Notices
    /\ notified \in [Drafts -> SUBSET Entities]
    /\ todo \in [Drafts -> SUBSET Entities]
    /\ notice \in [Drafts -> Notices \cup {None}]
    /\ entitled \in [Drafts -> SUBSET Entities]
    /\ late \subseteq Drafts \X UNION TagSets /\ lost \subseteq notices

\* "Threads are flattened to two levels": whatever is answered while whatever
\* is deleted, a stored comment's parent is a stored top-level comment of the
\* same post, and the thread a frame sends its readers to is the one the
\* comment is in.
ThreadsHoldTogether ==
    /\ \A c \in stored : parent[c] # None =>
          /\ parent[c] \in stored /\ parent[parent[c]] = None
          /\ c \in Elsewhere <=> parent[c] \in Elsewhere
    /\ \A a \in activity : a.about \in stored /\ a.thread = parent[a.about]

\* What the caller is told is so, and of a comment that is reported as not
\* posted nobody has heard.
AnswersAreTrue ==
    \A d \in Drafts :
        /\ pc[d] = "201" => d \in stored
        /\ pc[d] \in {"400", "404"} => d \notin stored
        /\ pc[d] \in {"400", "404", "500"} =>
              /\ \A a \in activity : a.about # d
              /\ \A n \in notices : n.about # d

\* Nobody is told of a comment who could not read it at any moment since it
\* was stored.
ToldMayRead == \A n \in notices : n.about \in stored /\ n.to \in entitled[n.about]

\* A comment gets into a community by the hand of one of its members, as the
\* membership is at that moment; unless the post came there out of another
\* community that its author had been let into it by.
WrittenByMembers ==
    [][\A d \in Drafts : d \in stored' \ stored =>
          \A c \in tags : <<Author[d], c>> \in members \/ <<d, c>> \in late]_vars

\* Whoever is told twice of one comment, as one whom it answers and as one
\* whom it mentions, was told first by an insert that was reported as failed.
SecondPingsAreUnacknowledged ==
    \A m, n \in notices :
        m.about = n.about /\ m.to = n.to =>
            m = n \/ \E first \in {m, n} : first.kind = "reply" /\ first \in lost

(***************************************************************************)
(* What a comment or a document says, and the code does not keep.          *)
(***************************************************************************)
\* "A mention does not arrive as a second notification for the same event."
OnePing ==
    \A m, n \in notices : m.about = n.about /\ m.to = n.to => m = n

\* "Anonymous contributions require a community post."
AnonymousInCommunities ==
    [][\A d \in Anonymous : d \in stored' \ stored => tags # {}]_vars
=============================================================================
