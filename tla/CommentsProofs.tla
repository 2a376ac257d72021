--------------------------- MODULE CommentsProofs ---------------------------
(***************************************************************************)
(* Proofs about Comments, for any comments and drafts, any text and        *)
(* mentions, and any tagging of the post and moves of its members.         *)
(***************************************************************************)
EXTENDS Comments, TLAPS

\* Where a draft is once it is a stored comment, and where it is while it is
\* not; of "500" nothing follows.
Posted   == {"activity", "jobs", "reply", "resolve", "mention", "row", "write", "201"}
Unposted == {"idle", "post", "parent", "insert", "400", "404"}

Whereabouts ==
    \A d \in Drafts : /\ pc[d] \in Posted => d \in stored
                      /\ pc[d] \in Unposted => d \notin stored

\* Two levels, one post; and what a draft answers was found before it is
\* inserted and is never taken away, so that where the comment is stored can
\* be told from its aim at any later moment.
Threads ==
    /\ \A c \in stored : parent[c] # None =>
          /\ parent[c] \in stored /\ parent[parent[c]] = None
          /\ c \in Elsewhere <=> parent[c] \in Elsewhere
    /\ \A d \in Drafts :
          /\ (pc[d] = "insert" \/ d \in stored) /\ Aim[d] # None
                => Aim[d] \in stored \ Elsewhere
          /\ d \in stored => parent[d] = storedParentFor(Aim[d])

\* Who may read a stored comment now is among those who ever could.
Entitled ==
    \A d \in Drafts \cap stored : MayBeTold(tags, members) \subseteq entitled[d]

\* What has been said of a draft, and what is about to be.
Heard ==
    /\ \A a \in activity : /\ a.about \in Drafts /\ pc[a.about] \in Posted
                           /\ a.thread = storedParentFor(Aim[a.about])
    /\ \A n \in notices : pc[n.about] \in Posted /\ n.to \in entitled[n.about]
    /\ \A d \in Drafts : pc[d] \in {"row", "write"} =>
          /\ notice[d] \in Notices
          /\ notice[d].about = d /\ notice[d].to \in entitled[d]

IInv == TypeOK /\ Whereabouts /\ Threads /\ Entitled /\ Heard

\* A draft that has yet to tell anybody, or is telling whom it answers.
Untold(d) ==
    \/ pc[d] \notin {"resolve", "mention", "row", "write", "201"}
    \/ pc[d] \in {"row", "write"} /\ notice[d].kind = "reply"

\* Each notification's addressee counts as notified, or its acknowledgement was
\* lost; and those who are still to be mentioned neither count as notified nor
\* have been mentioned.
PingsOf(d) ==
    /\ Untold(d) => notified[d] = {}
    /\ Untold(d) \/ pc[d] = "resolve" => todo[d] = {}
    /\ todo[d] \cap notified[d] = {}
    /\ pc[d] \in {"row", "write"} => notice[d].to \notin notified[d] \cup todo[d]

Counted(n) ==
    /\ n.to \in notified[n.about] \/ n \in lost
    /\ ~Untold(n.about)
    /\ n.kind = "mention" =>
          /\ pc[n.about] # "resolve" /\ n.to \notin todo[n.about]
          /\ pc[n.about] \in {"row", "write"} => notice[n.about].to # n.to

Pings ==
    /\ \A d \in Drafts : PingsOf(d)
    /\ \A n \in notices : Counted(n)
    /\ SecondPingsAreUnacknowledged

\* Once a draft has been let in as to a community, the post is in no other, but
\* for those it has come into since.
LetIn ==
    \A d \in Drafts : pc[d] \in {"parent", "insert"} /\ community[d] # None =>
        \A c \in tags : c = community[d] \/ <<d, c>> \in late
-----------------------------------------------------------------------------
LEMMA InitIInv == Init => IInv
<1>. SUFFICES ASSUME Init PROVE IInv
  OBVIOUS
<1>1. TypeOK
  <2>1. parent \in [Ids -> Ids \cup {None}]
    BY OldAssumption DEF Init, Ids
  <2>2. pc \in [Drafts -> {"idle"} \cup Stages \cup Answers]
    BY DEF Init
  <2>3. community \in [Drafts -> (UNION TagSets) \cup {None}]
    BY DEF Init
  <2>4. notice \in [Drafts -> Notices \cup {None}]
    BY DEF Init
  <2>5. /\ notified \in [Drafts -> SUBSET Entities]
        /\ todo \in [Drafts -> SUBSET Entities]
        /\ entitled \in [Drafts -> SUBSET Entities]
        /\ late \subseteq Drafts \X UNION TagSets /\ lost \subseteq notices
    BY DEF Init
  <2>. QED
    BY <2>1, <2>2, <2>3, <2>4, <2>5 DEF Init, TypeOK, Ids
<1>2. Whereabouts /\ Entitled /\ Heard
  <2>1. \A d \in Drafts : pc[d] = "idle" /\ d \notin stored
    BY OldAssumption DEF Init
  <2>2. activity = {} /\ notices = {}
    BY DEF Init
  <2>. QED
    BY <2>1, <2>2 DEF Whereabouts, Entitled, Heard, Posted, Unposted
<1>3. Threads
  <2>1. \A c \in Olds : parent[c] = OldParent[c]
    BY DEF Init, Ids
  <2>2. \A c \in Olds : OldParent[c] # None => OldParent[c] \in Olds
    BY OldAssumption
  <2>3. \A d \in Drafts : pc[d] # "insert" /\ d \notin stored
    BY OldAssumption DEF Init
  <2>4. stored = Olds
    BY DEF Init
  <2>. QED
    BY <2>1, <2>2, <2>3, <2>4, OldAssumption DEF Threads
<1>. QED
  BY <1>1, <1>2, <1>3 DEF IInv

\* Whom a notification can be for, and that it is one.
LEMMA AnsweredType ==
    ASSUME NEW d \in Drafts
    PROVE  Answered(d) \subseteq Entities
BY OldAssumption, DraftAssumption, AccessAssumption DEF Answered, AuthorOf, Ids

LEMMA NoticeType ==
    ASSUME NEW d \in Drafts, NEW e \in Entities, NEW sort \in {"reply", "mention"}
    PROVE  /\ Notice(d, e, sort) \in Notices
           /\ Notice(d, e, sort).about = d /\ Notice(d, e, sort).to = e
BY DraftAssumption DEF Notice, Notices

LEMMA StoredParentType ==
    ASSUME TypeOK, NEW c \in Ids \cup {None}
    PROVE  storedParentFor(c) \in Ids \cup {None}
BY OldAssumption DEF TypeOK, storedParentFor

\* The first exchange of a notification.
LEMMA LoadAccessType ==
    ASSUME TypeOK, NEW d \in Drafts, NEW e \in Entities,
           NEW sort \in {"reply", "mention"}, NEW next \in Stages,
           LoadAccess(d, e, sort, next)
    PROVE  /\ pc' \in [Drafts -> {"idle"} \cup Stages \cup Answers]
           /\ notice' \in [Drafts -> Notices \cup {None}]
BY NoticeType DEF TypeOK, LoadAccess, Stages

\* The end of one.
LEMMA DoneType ==
    ASSUME TypeOK, NEW d \in Drafts, NEW from, Done(d, from)
    PROVE  /\ pc' \in [Drafts -> {"idle"} \cup Stages \cup Answers]
           /\ notice' \in [Drafts -> Notices \cup {None}]
BY DEF TypeOK, Done, Goto, After, Stages

LEMMA StoreType ==
    ASSUME TypeOK, NEW d \in Drafts, Store(d)
    PROVE  /\ stored \subseteq stored' /\ stored' \subseteq Ids
           /\ parent' \in [Ids -> Ids \cup {None}]
           /\ entitled' \in [Drafts -> SUBSET Entities]
<1>1. storedParentFor(Aim[d]) \in Ids \cup {None}
  BY StoredParentType, DraftAssumption
<1>2. MayBeTold(tags, members) \subseteq Entities
  BY DEF MayBeTold
<1>. QED
  BY <1>1, <1>2 DEF TypeOK, Store, Ids

LEMMA StepTypeOK ==
    ASSUME TypeOK, Heard, [Next]_vars
    PROVE  TypeOK'
<1>. USE DEF Goto, request, comments, scope, told, past
<1>1. ASSUME NEW d \in Drafts, Arrive(d) \/ LoadParent(d) \/ Finish(d)
      PROVE  TypeOK'
  <2>1. pc' \in [Drafts -> {"idle"} \cup Stages \cup Answers]
    BY <1>1 DEF TypeOK, Arrive, LoadParent, Finish, Stages, Answers
  <2>2. UNCHANGED <<request, comments, scope, told, past>>
    BY <1>1 DEF Arrive, LoadParent, Finish
  <2>. QED
    BY <2>1, <2>2 DEF TypeOK
<1>2. ASSUME NEW d \in Drafts, LoadPost(d)
      PROVE  TypeOK'
  <2>1. pc' \in [Drafts -> {"idle"} \cup Stages \cup Answers]
    BY <1>2 DEF TypeOK, LoadPost, Stages, Answers
  <2>2. community' \in [Drafts -> (UNION TagSets) \cup {None}]
    <3>. DEFINE single == \E c \in tags : tags = {c}
                first  == CHOOSE c \in tags : TRUE
    <3>1. community' = [community EXCEPT ![d] = IF single THEN first ELSE None]
      BY <1>2 DEF LoadPost
    <3>2. single => first \in UNION TagSets
      BY DEF TypeOK
    <3>. HIDE DEF single, first
    <3>. QED
      BY <3>1, <3>2 DEF TypeOK
  <2>. QED
    BY <1>2, <2>1, <2>2 DEF TypeOK, LoadPost
<1>3. ASSUME NEW d \in Drafts, Insert(d) \/ Fails(d)
      PROVE  TypeOK'
  <2>1. pc' \in [Drafts -> {"idle"} \cup Stages \cup Answers]
    BY <1>3 DEF TypeOK, Insert, Fails, Stages, Answers
  <2>2. /\ UNCHANGED <<request, deleted, scope, told, late, lost>>
        /\ Store(d) \/ UNCHANGED <<stored, parent, entitled>>
    BY <1>3 DEF Insert, Fails
  <2>3. /\ stored \subseteq stored' /\ stored' \subseteq Ids
        /\ parent' \in [Ids -> Ids \cup {None}]
        /\ entitled' \in [Drafts -> SUBSET Entities]
    BY <2>2, StoreType DEF TypeOK
  <2>. QED
    BY <2>1, <2>2, <2>3 DEF TypeOK
<1>4. ASSUME NEW d \in Drafts, publishPostActivity(d) \/ publishJobs(d)
      PROVE  TypeOK'
  <2>1. pc' \in [Drafts -> {"idle"} \cup Stages \cup Answers]
    BY <1>4 DEF TypeOK, publishPostActivity, publishJobs, Stages
  <2>2. Activity(d).about = d /\ Activity(d).names \subseteq Entities
    BY DraftAssumption DEF Activity
  <2>3. \A a \in activity' : a.about \in Drafts /\ a.names \subseteq Entities
    BY <1>4, <2>2 DEF TypeOK, publishPostActivity, publishJobs
  <2>4. jobs' \subseteq Drafts \X {"ranking", "affinity"}
    <3>1. \A kinds \in SUBSET {"ranking", "affinity"} :
             {d} \X kinds \subseteq Drafts \X {"ranking", "affinity"}
      OBVIOUS
    <3>2. \/ jobs' = jobs
          \/ \E kinds \in SUBSET {"ranking", "affinity"} : jobs' = jobs \cup ({d} \X kinds)
      BY <1>4 DEF publishPostActivity, publishJobs
    <3>. QED
      BY <3>1, <3>2 DEF TypeOK
  <2>. QED
    BY <1>4, <2>1, <2>3, <2>4 DEF TypeOK, publishPostActivity, publishJobs
<1>5. ASSUME NEW d \in Drafts, NotifyAnswered(d)
      PROVE  TypeOK'
  <2>1. /\ pc' \in [Drafts -> {"idle"} \cup Stages \cup Answers]
        /\ notice' \in [Drafts -> Notices \cup {None}]
    <3>1. CASE \E e \in Answered(d) : LoadAccess(d, e, "reply", "resolve")
      BY <3>1, AnsweredType, LoadAccessType DEF Stages
    <3>2. CASE Goto(d, "reply", "resolve") /\ UNCHANGED notice
      BY <3>2 DEF TypeOK, Stages
    <3>. QED
      BY <1>5, <3>1, <3>2 DEF NotifyAnswered
  <2>. QED
    BY <1>5, <2>1 DEF TypeOK, NotifyAnswered
<1>6. ASSUME NEW d \in Drafts, LoadComment(d)
      PROVE  TypeOK'
  <2>1. /\ pc' \in [Drafts -> {"idle"} \cup Stages \cup Answers]
        /\ notice' \in [Drafts -> Notices \cup {None}]
    BY <1>6, DoneType DEF TypeOK, LoadComment, Stages
  <2>. QED
    BY <1>6, <2>1 DEF TypeOK, LoadComment
<1>13. ASSUME NEW d \in Drafts, WriteNotification(d)
       PROVE  TypeOK'
  <2>1. notice[d] \in Notices
    BY <1>13 DEF WriteNotification, Done, Heard
  <2>2. /\ notices' \subseteq Notices
        /\ notified' \in [Drafts -> SUBSET Entities]
        /\ lost' \subseteq notices'
    BY <1>13, <2>1 DEF TypeOK, WriteNotification, Notices
  <2>3. /\ pc' \in [Drafts -> {"idle"} \cup Stages \cup Answers]
        /\ notice' \in [Drafts -> Notices \cup {None}]
    BY <1>13, DoneType DEF WriteNotification
  <2>. QED
    BY <1>13, <2>2, <2>3 DEF TypeOK, WriteNotification
<1>7. ASSUME NEW d \in Drafts, ResolveMentions(d)
      PROVE  TypeOK'
  <2>1. pc' \in [Drafts -> {"idle"} \cup Stages \cup Answers]
    BY <1>7 DEF TypeOK, ResolveMentions, Stages
  <2>2. todo' \in [Drafts -> SUBSET Entities]
    <3>1. Mentioned(d) \in SUBSET Entities
      BY DraftAssumption DEF Mentioned
    <3>2. \E who \in {{}, Mentioned(d)} : todo' = [todo EXCEPT ![d] = who]
      BY <1>7 DEF ResolveMentions
    <3>. QED
      BY <3>1, <3>2 DEF TypeOK
  <2>. QED
    BY <1>7, <2>1, <2>2 DEF TypeOK, ResolveMentions
<1>8. ASSUME NEW d \in Drafts, NotifyMention(d)
      PROVE  TypeOK'
  <2>1. /\ pc' \in [Drafts -> {"idle"} \cup Stages \cup Answers]
        /\ notice' \in [Drafts -> Notices \cup {None}]
        /\ todo' \in [Drafts -> SUBSET Entities]
    BY <1>8, LoadAccessType DEF TypeOK, NotifyMention, Stages
  <2>. QED
    BY <1>8, <2>1 DEF TypeOK, NotifyMention
<1>9. ASSUME NEW tag \in TagSets, NEW of \in MemberSets, Rescope(tag, of)
      PROVE  TypeOK'
  <2>1. MayBeTold(tag, of) \subseteq Entities
    BY DEF MayBeTold
  <2>2. late' \subseteq Drafts \X UNION TagSets
    BY <1>9 DEF TypeOK, Rescope, Admitted
  <2>. QED
    BY <1>9, <2>1, <2>2 DEF TypeOK, Rescope
<1>10. CASE Retag \/ MoveMember
  BY <1>9, <1>10 DEF Retag, MoveMember, TypeOK
<1>11. CASE Delete
  BY <1>11 DEF TypeOK, Delete
<1>12. CASE UNCHANGED vars
  BY <1>12 DEF TypeOK, vars
<1>. QED
  BY <1>1, <1>2, <1>3, <1>4, <1>5, <1>6, <1>7, <1>8, <1>10, <1>11, <1>12, <1>13
     DEF Next, Comment

(***************************************************************************)
(* What a step of one draft does to it, and that it does nothing to others.*)
(***************************************************************************)
LEMMA DraftStep ==
    ASSUME TypeOK, NEW d \in Drafts, Comment(d)
    PROVE  /\ \A c \in Drafts \ {d} : pc'[c] = pc[c]
           /\ pc[d] \in Posted => pc'[d] \in Posted
           /\ UNCHANGED <<deleted, scope>>
           /\ \/ UNCHANGED <<stored, parent, entitled>>
              \/ pc[d] = "insert" /\ pc'[d] \in {"activity", "500"}
                 /\ MayInsert(d) /\ Store(d)
<1>. USE DEF TypeOK, Goto, Posted, scope, comments, past
<1>1. CASE Arrive(d) \/ LoadPost(d) \/ LoadParent(d)
  BY <1>1 DEF Arrive, LoadPost, LoadParent
<1>2. CASE Insert(d) \/ Fails(d)
  BY <1>2 DEF Insert, Fails
<1>3. CASE publishPostActivity(d) \/ publishJobs(d)
  BY <1>3 DEF publishPostActivity, publishJobs
<1>4. CASE NotifyAnswered(d) \/ NotifyMention(d)
  BY <1>4 DEF NotifyAnswered, NotifyMention, LoadAccess
<1>5. CASE LoadComment(d) \/ WriteNotification(d)
  BY <1>5 DEF LoadComment, WriteNotification, Done, After
<1>6. CASE ResolveMentions(d) \/ Finish(d)
  BY <1>6 DEF ResolveMentions, Finish
<1>. QED
  BY <1>1, <1>2, <1>3, <1>4, <1>5, <1>6 DEF Comment

\* What the platform does meanwhile leaves every draft where it is, and takes
\* away nobody's right to have been told.
LEMMA OtherStep ==
    ASSUME TypeOK, Retag \/ MoveMember \/ Delete \/ UNCHANGED vars
    PROVE  /\ UNCHANGED <<pc, request, stored, parent, told, lost>>
           /\ \A d \in Drafts \cap stored : entitled[d] \subseteq entitled'[d]
<1>1. ASSUME NEW tag, NEW of, Rescope(tag, of)
      PROVE  /\ UNCHANGED <<pc, request, stored, parent, told, lost>>
             /\ \A d \in Drafts \cap stored : entitled[d] \subseteq entitled'[d]
  BY <1>1 DEF Rescope, comments
<1>2. CASE Delete \/ UNCHANGED vars
  BY <1>2 DEF Delete, vars, comments, past
<1>. QED
  BY <1>1, <1>2 DEF Retag, MoveMember

LEMMA StepWhereabouts ==
    ASSUME TypeOK, Whereabouts, [Next]_vars
    PROVE  Whereabouts'
<1>1. ASSUME NEW d \in Drafts, Comment(d)
      PROVE  Whereabouts'
  <2>1. \A c \in Drafts \ {d} : pc'[c] = pc[c] /\ (c \in stored' <=> c \in stored)
    BY <1>1, DraftStep DEF Store
  <2>2. /\ pc'[d] \in Posted => d \in stored'
        /\ pc'[d] \in Unposted => d \notin stored'
    <3>. USE DEF TypeOK, Whereabouts, Goto, Posted, Unposted, comments
    <3>1. CASE Arrive(d) \/ LoadPost(d) \/ LoadParent(d)
      BY <3>1 DEF Arrive, LoadPost, LoadParent
    <3>2. CASE Insert(d) \/ Fails(d)
      BY <3>2 DEF Insert, Fails, Store
    <3>3. CASE publishPostActivity(d) \/ publishJobs(d)
      BY <3>3 DEF publishPostActivity, publishJobs
    <3>4. CASE NotifyAnswered(d) \/ NotifyMention(d)
      BY <3>4 DEF NotifyAnswered, NotifyMention, LoadAccess
    <3>5. CASE LoadComment(d) \/ WriteNotification(d)
      BY <3>5 DEF LoadComment, WriteNotification, Done, After
    <3>6. CASE ResolveMentions(d) \/ Finish(d)
      BY <3>6 DEF ResolveMentions, Finish
    <3>. QED
      BY <1>1, <3>1, <3>2, <3>3, <3>4, <3>5, <3>6 DEF Comment
  <2>. QED
    BY <2>1, <2>2 DEF Whereabouts
<1>2. CASE Retag \/ MoveMember \/ Delete \/ UNCHANGED vars
  BY <1>2, OtherStep DEF Whereabouts
<1>. QED
  BY <1>1, <1>2 DEF Next

(***************************************************************************)
(* The thread: a new comment goes under a stored top-level comment of the  *)
(* post, and storing it leaves every other comment where it was.           *)
(***************************************************************************)
LEMMA StoreThreads ==
    ASSUME TypeOK, Whereabouts, Threads, NEW d \in Drafts, pc[d] = "insert", Store(d)
    PROVE  /\ d \notin stored /\ d \notin Elsewhere
           /\ stored' = stored \cup {d}
           /\ \A c \in stored : parent'[c] = parent[c] /\ c # None
           /\ parent'[d] = storedParentFor(Aim[d])
           /\ parent'[d] # None =>
                 /\ parent'[d] \in stored \ Elsewhere
                 /\ parent[parent'[d]] = None
<1>1. d \notin stored /\ d \notin Elsewhere /\ d \in Ids
  BY OldAssumption DEF Whereabouts, Unposted, Ids
<1>2. /\ stored' = stored \cup {d}
      /\ \A c \in stored : parent'[c] = parent[c] /\ c # None
      /\ parent'[d] = storedParentFor(Aim[d])
  BY <1>1, OldAssumption DEF Store, TypeOK, Ids
<1>3. Aim[d] # None => Aim[d] \in stored \ Elsewhere
  BY DEF Threads
<1>. QED
  BY <1>1, <1>2, <1>3 DEF Threads, storedParentFor

LEMMA StepThreads ==
    ASSUME TypeOK, Whereabouts, Threads, [Next]_vars
    PROVE  Threads'
<1>1. ASSUME NEW d \in Drafts, Comment(d), ~UNCHANGED <<stored, parent>>
      PROVE  Threads'
  <2>1. pc[d] = "insert" /\ pc'[d] \in {"activity", "500"} /\ Store(d)
    BY <1>1, DraftStep
  <2>2. \A c \in Drafts \ {d} : pc'[c] = pc[c]
    BY <1>1, DraftStep
  <2>3. /\ d \notin stored /\ d \notin Elsewhere
        /\ stored' = stored \cup {d}
        /\ \A c \in stored : parent'[c] = parent[c] /\ c # None
        /\ parent'[d] = storedParentFor(Aim[d])
        /\ parent'[d] # None =>
              /\ parent'[d] \in stored \ Elsewhere
              /\ parent[parent'[d]] = None
    BY <2>1, StoreThreads
  <2>4. \A c \in stored' : parent'[c] # None =>
           /\ parent'[c] \in stored' /\ parent'[parent'[c]] = None
           /\ c \in Elsewhere <=> parent'[c] \in Elsewhere
    BY <2>3 DEF Threads
  <2>5. \A c \in Drafts : (pc'[c] = "insert" \/ c \in stored') /\ Aim[c] # None
                             => Aim[c] \in stored \ Elsewhere
    BY <2>1, <2>2, <2>3 DEF Threads
  <2>6. \A c \in Drafts \cap stored' : parent'[c] = storedParentFor(Aim[c])'
    <3>1. \A c \in Drafts \cap stored' : Aim[c] # None => Aim[c] \in stored
      BY <2>5
    <3>2. \A c \in Drafts \cap stored' : storedParentFor(Aim[c])' = storedParentFor(Aim[c])
      BY <2>3, <3>1 DEF storedParentFor
    <3>. QED
      BY <2>3, <3>2 DEF Threads
  <2>. QED
    BY <2>3, <2>4, <2>5, <2>6 DEF Threads
<1>2. ASSUME NEW d \in Drafts, Comment(d), UNCHANGED <<stored, parent>>
      PROVE  Threads'
  <2>1. pc'[d] = "insert" /\ Aim[d] # None => Aim[d] \in stored \ Elsewhere
    <3>. USE DEF TypeOK, Threads, Goto
    <3>1. CASE Arrive(d) \/ LoadPost(d) \/ LoadParent(d)
      BY <3>1 DEF Arrive, LoadPost, LoadParent
    <3>2. CASE Insert(d) \/ Fails(d)
      BY <3>2 DEF Insert, Fails
    <3>3. CASE publishPostActivity(d) \/ publishJobs(d)
      BY <3>3 DEF publishPostActivity, publishJobs
    <3>4. CASE NotifyAnswered(d) \/ NotifyMention(d)
      BY <3>4 DEF NotifyAnswered, NotifyMention, LoadAccess
    <3>5. CASE LoadComment(d) \/ WriteNotification(d)
      BY <3>5 DEF LoadComment, WriteNotification, Done, After
    <3>6. CASE ResolveMentions(d) \/ Finish(d)
      BY <3>6 DEF ResolveMentions, Finish
    <3>. QED
      BY <1>2, <3>1, <3>2, <3>3, <3>4, <3>5, <3>6 DEF Comment
  <2>2. \A c \in Drafts \ {d} : pc'[c] = pc[c]
    BY <1>2, DraftStep
  <2>3. \A c : storedParentFor(c)' = storedParentFor(c)
    BY <1>2 DEF storedParentFor
  <2>. QED
    BY <1>2, <2>1, <2>2, <2>3 DEF Threads
<1>3. CASE Retag \/ MoveMember \/ Delete \/ UNCHANGED vars
  <2>1. UNCHANGED <<pc, stored, parent>>
    BY <1>3, OtherStep
  <2>. QED
    BY <2>1 DEF Threads, storedParentFor
<1>. QED
  BY <1>1, <1>2, <1>3 DEF Next

LEMMA StepEntitled ==
    ASSUME TypeOK, Whereabouts, Entitled, [Next]_vars
    PROVE  Entitled'
<1>1. ASSUME NEW d \in Drafts, Comment(d)
      PROVE  Entitled'
  <2>1. MayBeTold(tags, members)' = MayBeTold(tags, members)
    BY <1>1, DraftStep DEF scope, MayBeTold, permits
  <2>2. CASE UNCHANGED <<stored, entitled>>
    BY <2>1, <2>2 DEF Entitled
  <2>3. CASE Store(d)
    BY <2>1, <2>3 DEF Entitled, Store, TypeOK
  <2>. QED
    BY <1>1, <2>2, <2>3, DraftStep
<1>2. ASSUME NEW tag, NEW of, Rescope(tag, of)
      PROVE  Entitled'
  BY <1>2 DEF Entitled, Rescope, MayBeTold, permits, comments
<1>3. CASE Delete \/ UNCHANGED vars
  BY <1>3 DEF Entitled, Delete, vars, scope, comments, past, MayBeTold, permits
<1>. QED
  BY <1>1, <1>2, <1>3 DEF Next, Retag, MoveMember

\* What has been said of a stored comment stays true: it is fanned out to the
\* end, its thread does not move, and who may have been told may have been.
LEMMA SaidForGood ==
    ASSUME TypeOK, Whereabouts, Threads, [Next]_vars, NEW c \in Drafts, c \in stored
    PROVE  /\ pc[c] \in Posted => pc'[c] \in Posted
           /\ entitled[c] \subseteq entitled'[c]
           /\ storedParentFor(Aim[c])' = storedParentFor(Aim[c])
<1>1. ASSUME NEW d \in Drafts, Comment(d), UNCHANGED <<stored, parent, entitled>>
      PROVE  /\ pc[c] \in Posted => pc'[c] \in Posted
             /\ entitled[c] \subseteq entitled'[c]
             /\ storedParentFor(Aim[c])' = storedParentFor(Aim[c])
  BY <1>1, DraftStep DEF storedParentFor
<1>2. ASSUME NEW d \in Drafts, Comment(d), pc[d] = "insert", Store(d)
      PROVE  /\ pc[c] \in Posted => pc'[c] \in Posted
             /\ entitled[c] \subseteq entitled'[c]
             /\ storedParentFor(Aim[c])' = storedParentFor(Aim[c])
  <2>1. /\ d \notin stored
        /\ \A b \in stored : parent'[b] = parent[b]
    BY <1>2, StoreThreads
  <2>2. Aim[c] # None => Aim[c] \in stored
    BY DEF Threads
  <2>3. pc'[c] = pc[c] /\ entitled'[c] = entitled[c]
    BY <1>2, <2>1, DraftStep DEF Store, TypeOK
  <2>. QED
    BY <2>1, <2>2, <2>3 DEF storedParentFor
<1>3. CASE Retag \/ MoveMember \/ Delete \/ UNCHANGED vars
  BY <1>3, OtherStep DEF storedParentFor
<1>. QED
  BY <1>1, <1>2, <1>3, DraftStep DEF Next

\* What a step adds to what is heard, and what it is about to say.
LEMMA NewlyHeard ==
    ASSUME TypeOK, Whereabouts, Entitled, Heard, NEW d \in Drafts, Comment(d)
    PROVE  /\ \A a \in activity' \ activity :
                 pc[d] \in Posted /\ a.about = d /\ a.thread = storedParentFor(Aim[d])
           /\ \A n \in notices' \ notices :
                 pc[d] \in Posted /\ n.about = d /\ n.to \in entitled[d]
           /\ \A c \in Drafts \ {d} : notice'[c] = notice[c]
           /\ pc'[d] \in {"row", "write"} =>
                 /\ pc[d] \in Posted
                 /\ notice'[d] \in Notices
                 /\ notice'[d].about = d /\ notice'[d].to \in entitled[d]
<1>. USE DEF TypeOK, Goto, Posted, told, request
<1>1. ASSUME NEW e \in Entities, NEW sort \in {"reply", "mention"}, NEW next,
             pc[d] \in {"reply", "mention"}, next \in {"resolve", "mention"},
             LoadAccess(d, e, sort, next)
      PROVE  /\ \A c \in Drafts \ {d} : notice'[c] = notice[c]
             /\ pc'[d] \in {"row", "write"} =>
                   /\ notice'[d] \in Notices
                   /\ notice'[d].about = d /\ notice'[d].to \in entitled[d]
  <2>1. pc'[d] \in {"row", "write"} => MayRead(e) /\ notice'[d] = Notice(d, e, sort)
    BY <1>1 DEF LoadAccess
  <2>2. d \in stored
    BY <1>1 DEF Whereabouts
  <2>3. MayRead(e) => e \in entitled[d]
    BY <2>2 DEF MayRead, MayBeTold, Entitled
  <2>. QED
    BY <1>1, <2>1, <2>3, NoticeType DEF LoadAccess
<1>2. CASE Arrive(d) \/ LoadPost(d) \/ LoadParent(d) \/ Insert(d) \/ Fails(d)
  BY <1>2 DEF Arrive, LoadPost, LoadParent, Insert, Fails
<1>3. CASE publishPostActivity(d)
  BY <1>3 DEF publishPostActivity, Activity
<1>4. CASE publishJobs(d) \/ ResolveMentions(d) \/ Finish(d)
  BY <1>4 DEF publishJobs, ResolveMentions, Finish
<1>5. CASE NotifyAnswered(d)
  <2>1. CASE \E e \in Answered(d) : LoadAccess(d, e, "reply", "resolve")
    BY <1>1, <1>5, <2>1, AnsweredType DEF NotifyAnswered
  <2>2. CASE Goto(d, "reply", "resolve") /\ UNCHANGED notice
    BY <1>5, <2>2 DEF NotifyAnswered
  <2>. QED
    BY <1>5, <2>1, <2>2 DEF NotifyAnswered
<1>6. CASE NotifyMention(d)
  BY <1>1, <1>6 DEF NotifyMention
<1>7. CASE LoadComment(d)
  BY <1>7 DEF LoadComment, Done, After, Heard
<1>8. CASE WriteNotification(d)
  <2>1. pc[d] = "write" /\ notices' \in {notices, notices \cup {notice[d]}}
    BY <1>8 DEF WriteNotification, Done
  <2>2. notice[d].about = d /\ notice[d].to \in entitled[d]
    BY <2>1 DEF Heard
  <2>. QED
    BY <1>8, <2>1, <2>2 DEF WriteNotification, Done, After
<1>. QED
  BY <1>2, <1>3, <1>4, <1>5, <1>6, <1>7, <1>8 DEF Comment

LEMMA StepHeard ==
    ASSUME TypeOK, Whereabouts, Threads, Entitled, Heard, [Next]_vars
    PROVE  Heard'
<1>1. \A c \in Drafts : pc[c] \in Posted =>
         /\ pc'[c] \in Posted
         /\ entitled[c] \subseteq entitled'[c]
         /\ storedParentFor(Aim[c])' = storedParentFor(Aim[c])
  BY SaidForGood DEF Whereabouts
<1>2. \A n \in notices : n.about \in Drafts
  BY DEF TypeOK, Notices
<1>3. ASSUME NEW d \in Drafts, Comment(d)
      PROVE  Heard'
  <2>1. \A a \in activity' : /\ a.about \in Drafts /\ pc[a.about] \in Posted
                             /\ a.thread = storedParentFor(Aim[a.about])
    BY <1>3, NewlyHeard DEF Heard
  <2>2. \A n \in notices' :
           n.about \in Drafts /\ pc[n.about] \in Posted /\ n.to \in entitled[n.about]
    BY <1>2, <1>3, NewlyHeard DEF Heard
  <2>3. ASSUME NEW c \in Drafts, pc'[c] \in {"row", "write"}
        PROVE  /\ notice'[c] \in Notices
               /\ notice'[c].about = c /\ notice'[c].to \in entitled'[c]
    <3>1. /\ notice'[c] \in Notices
          /\ notice'[c].about = c /\ notice'[c].to \in entitled[c]
          /\ pc[c] \in Posted
      <4>1. CASE c = d
        BY <1>3, <2>3, <4>1, NewlyHeard
      <4>2. CASE c # d
        BY <1>3, <2>3, <4>2, NewlyHeard, DraftStep DEF Heard, Posted
      <4>. QED
        BY <4>1, <4>2
    <3>. QED
      BY <1>1, <3>1
  <2>. QED
    BY <1>1, <2>1, <2>2, <2>3 DEF Heard
<1>4. CASE Retag \/ MoveMember \/ Delete \/ UNCHANGED vars
  <2>1. UNCHANGED <<pc, notice, activity, notices>>
    BY <1>4, OtherStep DEF request, told
  <2>2. \A c \in Drafts : pc[c] \in {"row", "write"} => pc[c] \in Posted
    BY DEF Posted
  <2>. QED
    BY <1>1, <1>2, <2>1, <2>2 DEF Heard
<1>. QED
  BY <1>3, <1>4 DEF Next

LEMMA StepIInv == IInv /\ [Next]_vars => IInv'
BY StepTypeOK, StepWhereabouts, StepThreads, StepEntitled, StepHeard DEF IInv

LEMMA Inductive == Spec => []IInv
BY InitIInv, StepIInv, PTL DEF Spec
-----------------------------------------------------------------------------
(***************************************************************************)
(* Type correctness.                                                       *)
(***************************************************************************)
THEOREM TypeCorrect == Spec => []TypeOK
<1>1. IInv => TypeOK
  BY DEF IInv
<1>. QED
  BY <1>1, Inductive, PTL

(***************************************************************************)
(* "Threads are flattened to two levels": a stored comment's parent is a   *)
(* stored top-level comment of the same post, whatever is answered while   *)
(* whatever is deleted, and the frame of a comment sends its readers to    *)
(* the thread the comment is in.                                           *)
(***************************************************************************)
THEOREM ThreadsHoldTogetherHolds == Spec => []ThreadsHoldTogether
<1>1. IInv => ThreadsHoldTogether
  <2>. SUFFICES ASSUME IInv PROVE ThreadsHoldTogether
    OBVIOUS
  <2>1. \A a \in activity : a.about \in Drafts \cap stored
    BY DEF IInv, Heard, Whereabouts
  <2>2. \A a \in activity : a.thread = parent[a.about]
    BY <2>1 DEF IInv, Heard, Threads
  <2>. QED
    BY <2>1, <2>2 DEF IInv, Threads, ThreadsHoldTogether
<1>. QED
  BY <1>1, Inductive, PTL

(***************************************************************************)
(* What CreateComment answers is so, and of a comment that was reported as *)
(* not posted nobody has heard, even if a failed insert was made.          *)
(***************************************************************************)
THEOREM AnswersAreTrueHolds == Spec => []AnswersAreTrue
<1>1. IInv => AnswersAreTrue
  <2>. SUFFICES ASSUME IInv, NEW d \in Drafts
                PROVE  /\ pc[d] = "201" => d \in stored
                       /\ pc[d] \in {"400", "404"} => d \notin stored
                       /\ pc[d] \in {"400", "404", "500"} =>
                             /\ \A a \in activity : a.about # d
                             /\ \A n \in notices : n.about # d
    BY DEF AnswersAreTrue
  <2>1. /\ pc[d] = "201" => d \in stored
        /\ pc[d] \in {"400", "404"} => d \notin stored
    BY DEF IInv, Whereabouts, Posted, Unposted
  <2>2. pc[d] \in {"400", "404", "500"} => pc[d] \notin Posted
    BY DEF Posted
  <2>. QED
    BY <2>1, <2>2 DEF IInv, Heard
<1>. QED
  BY <1>1, Inductive, PTL

(***************************************************************************)
(* Nobody is told of a comment who could not read it at any moment since   *)
(* it was stored, however the post is tagged and its members move between  *)
(* the insert, the decision to notify and the notification's row.          *)
(***************************************************************************)
THEOREM ToldMayReadHolds == Spec => []ToldMayRead
<1>1. IInv => ToldMayRead
  BY DEF IInv, TypeOK, Notices, Whereabouts, Heard, ToldMayRead
<1>. QED
  BY <1>1, Inductive, PTL

(***************************************************************************)
(* Whoever is told twice of one comment was told first, as one whom it     *)
(* answers, by an insert that was reported as failed: whoever else was     *)
(* told counts as notified, and is not among those still to be mentioned.  *)
(***************************************************************************)
LEMMA StepPings ==
    ASSUME TypeOK, Heard, Pings, [Next]_vars
    PROVE  Pings'
<1>. USE DEF Goto
<1>. DEFINE Of(d) == {n \in notices : n.about = d}
<1>1. \A n \in notices : n.about \in Drafts
  BY DEF TypeOK, Notices
\* What is left to show of a step of one draft.
<1>2. ASSUME NEW d \in Drafts, Comment(d),
             \A c \in Drafts \ {d} : /\ notice'[c] = notice[c]
                                     /\ notified'[c] = notified[c] /\ todo'[c] = todo[c],
             UNCHANGED <<notices, lost>>,
             PingsOf(d)', \A n \in Of(d) : Counted(n)'
      PROVE  Pings'
  <2>1. \A c \in Drafts \ {d} : pc'[c] = pc[c]
    BY <1>2, DraftStep
  <2>2. \A c \in Drafts \ {d} : PingsOf(c)'
    BY <1>2, <2>1 DEF Pings, PingsOf, Untold
  <2>3. \A n \in notices \ Of(d) : Counted(n)'
    BY <1>1, <1>2, <2>1 DEF Pings, Counted, Untold
  <2>. QED
    BY <1>2, <2>2, <2>3 DEF Pings, SecondPingsAreUnacknowledged
<1>3. ASSUME NEW d \in Drafts,
             \/ Arrive(d) \/ LoadPost(d) \/ LoadParent(d) \/ Insert(d) \/ Fails(d)
             \/ publishPostActivity(d) \/ publishJobs(d)
      PROVE  Pings'
  <2>1. UNCHANGED <<notified, todo, notice, notices, lost>>
    BY <1>3 DEF Arrive, LoadPost, LoadParent, Insert, Fails, publishPostActivity,
       publishJobs, request, told, past
  <2>2. Untold(d) /\ Untold(d)' /\ pc'[d] \notin {"row", "write", "resolve"}
    BY <1>3 DEF TypeOK, Untold, Arrive, LoadPost, LoadParent, Insert, Fails,
       publishPostActivity, publishJobs
  <2>3. Of(d) = {}
    BY <2>2 DEF Pings, Counted
  <2>4. PingsOf(d)'
    BY <2>1, <2>2 DEF Pings, PingsOf
  <2>. QED
    BY <1>2, <1>3, <2>1, <2>3, <2>4 DEF Comment
<1>4. ASSUME NEW d \in Drafts, NotifyAnswered(d)
      PROVE  Pings'
  <2>1. /\ UNCHANGED <<notified, todo, notices, lost>> /\ pc[d] = "reply"
        /\ \A c \in Drafts \ {d} : notice'[c] = notice[c]
    BY <1>4 DEF TypeOK, NotifyAnswered, LoadAccess, told, past
  <2>2. \/ pc'[d] = "resolve"
        \/ pc'[d] \in {"row", "write"} /\ notice'[d].kind = "reply"
    BY <1>4 DEF TypeOK, NotifyAnswered, LoadAccess, Notice
  <2>3. Untold(d) /\ Of(d) = {} /\ notified[d] = {} /\ todo[d] = {}
    BY <2>1 DEF Pings, PingsOf, Counted, Untold
  <2>4. PingsOf(d)'
    BY <2>1, <2>2, <2>3 DEF PingsOf
  <2>. QED
    BY <1>2, <1>4, <2>1, <2>3, <2>4 DEF Comment
<1>5. ASSUME NEW d \in Drafts, ResolveMentions(d)
      PROVE  Pings'
  <2>1. /\ pc[d] = "resolve" /\ pc'[d] = "mention"
        /\ UNCHANGED <<notified, notice, notices, lost>>
        /\ \A c \in Drafts \ {d} : todo'[c] = todo[c]
        /\ todo'[d] \cap notified[d] = {}
    BY <1>5 DEF TypeOK, ResolveMentions, Mentioned, told, past
  <2>2. PingsOf(d)'
    BY <2>1 DEF PingsOf, Untold
  <2>3. \A n \in Of(d) : Counted(n)'
    BY <2>1 DEF Pings, Counted, Untold
  <2>. QED
    BY <1>2, <1>5, <2>1, <2>2, <2>3 DEF Comment
<1>6. ASSUME NEW d \in Drafts, NotifyMention(d)
      PROVE  Pings'
  <2>1. PICK e \in todo[d] : /\ LoadAccess(d, e, "mention", "mention")
                             /\ todo' = [todo EXCEPT ![d] = @ \ {e}]
    BY <1>6 DEF NotifyMention
  <2>2. /\ pc[d] = "mention" /\ UNCHANGED <<notified, notices, lost>>
        /\ todo'[d] = todo[d] \ {e}
        /\ \A c \in Drafts \ {d} : todo'[c] = todo[c] /\ notice'[c] = notice[c]
    BY <1>6, <2>1 DEF TypeOK, NotifyMention, LoadAccess, told, past
  <2>3. \/ pc'[d] = "mention"
        \/ /\ pc'[d] \in {"row", "write"}
           /\ notice'[d].kind = "mention" /\ notice'[d].to = e
    BY <2>1 DEF TypeOK, LoadAccess, Notice
  <2>4. e \notin notified[d]
    BY DEF Pings, PingsOf
  <2>5. PingsOf(d)'
    BY <2>2, <2>3, <2>4 DEF Pings, PingsOf, Untold
  <2>6. \A n \in Of(d) : Counted(n)'
    BY <2>2, <2>3 DEF Pings, Counted, Untold
  <2>. QED
    BY <1>2, <1>6, <2>2, <2>5, <2>6 DEF Comment
<1>7. ASSUME NEW d \in Drafts, Finish(d)
      PROVE  Pings'
  <2>1. /\ pc[d] = "mention" /\ pc'[d] = "201"
        /\ UNCHANGED <<notified, todo, notice, notices, lost>>
    BY <1>7 DEF TypeOK, Finish, request, told, past
  <2>2. PingsOf(d)' /\ \A n \in Of(d) : Counted(n)'
    BY <2>1 DEF Pings, PingsOf, Counted, Untold
  <2>. QED
    BY <1>2, <1>7, <2>1, <2>2 DEF Comment
<1>8. ASSUME NEW d \in Drafts, LoadComment(d)
      PROVE  Pings'
  <2>1. /\ pc[d] = "row" /\ UNCHANGED <<notified, todo, notices, lost>>
        /\ \A c \in Drafts \ {d} : notice'[c] = notice[c]
        /\ \/ pc'[d] = "write" /\ notice' = notice
           \/ pc'[d] = After(d)
    BY <1>8 DEF TypeOK, LoadComment, Done, told, past
  <2>2. notice[d].kind \in {"reply", "mention"}
    BY <2>1 DEF Heard, Notices
  <2>3. PingsOf(d)'
    BY <2>1, <2>2 DEF Pings, PingsOf, Untold, After
  <2>4. \A n \in Of(d) : Counted(n)'
    BY <2>1, <2>2 DEF Pings, Counted, Untold, After
  <2>. QED
    BY <1>2, <1>8, <2>1, <2>3, <2>4 DEF Comment
<1>9. ASSUME NEW d \in Drafts, WriteNotification(d)
      PROVE  Pings'
  <2>1. /\ pc[d] = "write" /\ pc'[d] = After(d) /\ UNCHANGED todo
        /\ \A c \in Drafts \ {d} : /\ notice'[c] = notice[c]
                                   /\ notified'[c] = notified[c]
    BY <1>9 DEF TypeOK, WriteNotification, Done
  <2>2. /\ notice[d] \in Notices /\ notice[d].about = d
        /\ notice[d].kind \in {"reply", "mention"}
        /\ notice[d].to \notin notified[d] \cup todo[d]
    BY <2>1 DEF Heard, Notices, Pings, PingsOf
  <2>3. CASE UNCHANGED <<notices, notified, lost>>
    <3>1. PingsOf(d)'
      BY <2>1, <2>2, <2>3 DEF Pings, PingsOf, Untold, After
    <3>2. \A n \in Of(d) : Counted(n)'
      BY <2>1, <2>2, <2>3 DEF Pings, Counted, Untold, After
    <3>. QED
      BY <1>2, <1>9, <2>1, <2>3, <3>1, <3>2 DEF Comment
  <2>4. CASE /\ notices' = notices \cup {notice[d]}
             /\ \/ notified'[d] = notified[d] \cup {notice[d].to} /\ UNCHANGED lost
                \/ notified'[d] = notified[d] /\ lost' = lost \cup {notice[d]}
    <3>1. \A c \in Drafts \ {d} : pc'[c] = pc[c]
      BY <1>9, DraftStep DEF Comment
    <3>2. \A c \in Drafts : PingsOf(c)'
      BY <2>1, <2>2, <2>4, <3>1 DEF Pings, PingsOf, Untold, After
    <3>3. ASSUME NEW n \in notices
          PROVE  Counted(n)'
      <4>1. CASE n.about = d
        BY <2>1, <2>2, <2>4, <4>1 DEF Pings, Counted, Untold, After
      <4>2. CASE n.about # d
        BY <1>1, <2>1, <2>4, <3>1, <4>2 DEF Pings, Counted, Untold
      <4>. QED
        BY <4>1, <4>2
    <3>4. ASSUME NEW n, n = notice[d]
          PROVE  Counted(n)'
      BY <2>1, <2>2, <2>4, <3>4 DEF Counted, Untold, After
    <3>5. SecondPingsAreUnacknowledged'
      <4>1. ASSUME NEW m \in notices, m.about = d, m.to = notice[d].to, m # notice[d]
            PROVE  m.kind = "reply" /\ m \in lost
        BY <2>1, <2>2, <4>1 DEF Pings, Counted, TypeOK, Notices
      <4>2. lost \subseteq lost'
        BY <2>4
      <4>. QED
        BY <2>2, <2>4, <4>1, <4>2 DEF Pings, SecondPingsAreUnacknowledged
    <3>. QED
      BY <2>4, <3>2, <3>3, <3>4, <3>5 DEF Pings
  <2>. QED
    BY <1>9, <2>3, <2>4 DEF WriteNotification, TypeOK
<1>10. CASE Retag \/ MoveMember \/ Delete \/ UNCHANGED vars
  <2>1. UNCHANGED <<pc, notified, todo, notice, notices, lost>>
    BY <1>10, OtherStep DEF request, told
  <2>. QED
    BY <2>1 DEF Pings, PingsOf, Counted, Untold, SecondPingsAreUnacknowledged
<1>. QED
  BY <1>3, <1>4, <1>5, <1>6, <1>7, <1>8, <1>9, <1>10 DEF Next, Comment

THEOREM SecondPingsAreUnacknowledgedHolds == Spec => []SecondPingsAreUnacknowledged
<1>1. Init => Pings
  BY DEF Init, Pings, PingsOf, SecondPingsAreUnacknowledged
<1>2. IInv /\ Pings /\ [Next]_vars => Pings'
  BY StepPings DEF IInv
<1>3. Pings => SecondPingsAreUnacknowledged
  BY DEF Pings
<1>. QED
  BY <1>1, <1>2, <1>3, Inductive, PTL DEF Spec

(***************************************************************************)
(* A comment gets into a community by the hand of one of its members, as   *)
(* the membership is when the row is inserted, though the community was    *)
(* read before; unless the post has come into it since, out of the         *)
(* community that was read, of which the author then is still a member.    *)
(* (The INSERT asks about the community that was read.)                    *)
(***************************************************************************)
LEMMA StepLetIn ==
    ASSUME TypeOK, LetIn, [Next]_vars
    PROVE  LetIn'
<1>1. ASSUME NEW d \in Drafts, Comment(d)
      PROVE  LetIn'
  <2>1. /\ \A c \in Drafts \ {d} : pc'[c] = pc[c] /\ community'[c] = community[c]
        /\ UNCHANGED <<tags, late>>
    <3>. USE DEF TypeOK, request, scope, past
    <3>1. \A c \in Drafts \ {d} : pc'[c] = pc[c]
      BY <1>1, DraftStep
    <3>2. CASE Arrive(d) \/ LoadPost(d) \/ LoadParent(d) \/ Insert(d) \/ Fails(d)
      BY <3>1, <3>2 DEF Arrive, LoadPost, LoadParent, Insert, Fails
    <3>3. CASE publishPostActivity(d) \/ publishJobs(d) \/ NotifyAnswered(d) \/ Finish(d)
      BY <3>1, <3>3 DEF publishPostActivity, publishJobs, NotifyAnswered, Finish
    <3>4. CASE \/ ResolveMentions(d) \/ NotifyMention(d)
               \/ LoadComment(d) \/ WriteNotification(d)
      BY <3>1, <3>4 DEF ResolveMentions, NotifyMention, LoadComment, WriteNotification
    <3>. QED
      BY <1>1, <3>2, <3>3, <3>4 DEF Comment
  <2>2. ASSUME pc'[d] \in {"parent", "insert"}, community'[d] # None, NEW c \in tags
        PROVE  c = community'[d] \/ <<d, c>> \in late
    <3>1. CASE LoadPost(d)
      <4>1. permits(Author[d], tags, members)
        BY <2>2, <3>1 DEF LoadPost, Goto, TypeOK
      <4>2. PICK b \in tags : tags = {b}
        BY <4>1 DEF permits
      <4>3. community'[d] = b
        <5>. DEFINE first == CHOOSE a \in tags : TRUE
        <5>1. first = b
          BY <4>2
        <5>2. community'[d] = first
          <6>1. community' = [community EXCEPT ![d] = IF \E a \in tags : tags = {a}
                                                      THEN first ELSE None]
            BY <3>1 DEF LoadPost
          <6>2. \E a \in tags : tags = {a}
            BY <4>2
          <6>. HIDE DEF first
          <6>. QED
            BY <6>1, <6>2 DEF TypeOK
        <5>. QED
          BY <5>1, <5>2
      <4>. QED
        BY <4>2, <4>3
    <3>2. CASE LoadParent(d) \/ Arrive(d) \/ Insert(d) \/ Fails(d)
      <4>1. pc[d] = "parent" /\ community' = community
        BY <2>2, <3>2 DEF LoadParent, Arrive, Insert, Fails, Goto, TypeOK, request
      <4>. QED
        BY <2>2, <4>1 DEF LetIn
    <3>3. CASE pc[d] \in Posted
      BY <1>1, <2>2, <3>3, DraftStep DEF Posted
    <3>4. LoadPost(d) \/ LoadParent(d) \/ Arrive(d) \/ Insert(d) \/ Fails(d) \/ pc[d] \in Posted
      BY <1>1 DEF Comment, Goto, Posted, publishPostActivity, publishJobs, NotifyAnswered,
         Finish, ResolveMentions, NotifyMention, LoadComment, WriteNotification, Done
    <3>. QED
      BY <3>1, <3>2, <3>3, <3>4
  <2>. QED
    BY <2>1, <2>2 DEF LetIn
<1>2. ASSUME NEW tag \in TagSets, NEW of, Rescope(tag, of)
      PROVE  LetIn'
  BY <1>2 DEF LetIn, Rescope, Admitted, request
<1>3. CASE Delete \/ UNCHANGED vars
  BY <1>3 DEF LetIn, Delete, vars, request, scope, past
<1>. QED
  BY <1>1, <1>2, <1>3 DEF Next, Retag, MoveMember, TypeOK

THEOREM WrittenByMembersHolds == Spec => WrittenByMembers
<1>. DEFINE Written ==
        \A d \in Drafts : d \in stored' \ stored =>
            \A c \in tags : <<Author[d], c>> \in members \/ <<d, c>> \in late
<1>1. IInv /\ LetIn /\ [Next]_vars => [Written]_vars
  <2>. SUFFICES ASSUME IInv, LetIn, [Next]_vars, NEW d \in Drafts, d \in stored' \ stored,
                       NEW c \in tags
                PROVE  <<Author[d], c>> \in members \/ <<d, c>> \in late
    OBVIOUS
  <2>1. pc[d] = "insert" /\ MayInsert(d)
    <3>1. PICK b \in Drafts : Comment(b)
      BY OtherStep DEF Next, IInv
    <3>2. pc[b] = "insert" /\ MayInsert(b) /\ Store(b)
      BY <3>1, DraftStep DEF IInv
    <3>. QED
      BY <3>2 DEF Store
  <2>2. <<Author[d], community[d]>> \in members
    BY <2>1 DEF MayInsert
  <2>3. community[d] # None
    BY <2>2, AccessAssumption DEF IInv, TypeOK
  <2>. QED
    BY <2>1, <2>2, <2>3 DEF LetIn
<1>2. Init => LetIn
  BY DEF Init, LetIn
<1>3. IInv /\ LetIn /\ [Next]_vars => LetIn'
  BY StepLetIn DEF IInv
<1>. QED
  BY <1>1, <1>2, <1>3, Inductive, PTL DEF Spec, WrittenByMembers
=============================================================================
