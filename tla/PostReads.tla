------------------------------ MODULE PostReads ------------------------------
(***************************************************************************)
(* LoadPostThreadForViewer of src/internal/platform/posts.go, and          *)
(* CommentMentions and CommentReplies of mentions.go: one request for a    *)
(* post with its newest comments, or for the notifications of comments     *)
(* that the caller has not read, while people comment, delete, read their  *)
(* notifications and move posts in and out of communities.                 *)
(*                                                                         *)
(* Comments and notifications are numbered by their dates.                 *)
(***************************************************************************)
EXTENDS CommentRows, Sequences, Identity, Filter

CONSTANTS
    Post,           \* the one that is asked for
    Starting,       \* the comments there are at first
    AuthorOf,       \* of each comment, and of the post
    Anonymous,      \* the comments that are, and the post if it is
    Answers,        \* the comments with a parent
    Empty,          \* those without text
    Notices,        \* notifications to the caller
    About,          \* the comment each is about, or None,
    Sort,           \* and what it is for: "mentions" or "replies"
    Late,           \* those that may be written during the request
    Limits,
    None

Written == Comments \cup {Post}

PostReadsAssumption ==
    /\ CommentRowsAssumption /\ IdentityAssumption
    /\ Comments \subseteq Nat /\ Notices \subseteq Nat \ Comments
    /\ IsFiniteSet(Comments) /\ IsFiniteSet(Notices)
    /\ Post \in Posts \ (Comments \cup Notices) /\ None \in Nat \ Comments
    /\ Starting \subseteq Comments
    /\ AuthorOf \in [Written -> Entities] /\ Anonymous \subseteq Written
    /\ Answers \subseteq Comments /\ Empty \subseteq Comments
    /\ About \in [Notices -> Comments \cup {None}]
    /\ Sort \in [Notices -> {"mentions", "replies"}]
    /\ Late \subseteq Notices /\ Limits \subseteq Nat \ {0}

VARIABLES
    route,          \* "thread", "mentions" or "replies"
    limit,
    pc,
    pending,        \* the notifications found
    listed,         \* the comments or the notifications of the answer,
    signed,         \* those whose author is told, and the post if its is,
    handled         \* and those of them on which a handle is

request == <<route, limit>>
reading == <<pending, listed, signed, handled>>
vars    == <<request, world, pc, scope, looking, reading>>

Facts == ({"comment"} \X Comments) \cup ({"readable"} \X Posts) \cup ({"unread"} \X Notices)

Has(what, facts) == {fact[2] : fact \in {f \in facts : f[1] = what}}

Init ==
    /\ route \in {"thread", "mentions", "replies"} /\ limit \in Limits
    /\ RowsInit
    /\ \E late \in SUBSET Late :
          holds = ({"comment"} \X Starting) \cup ReadablePosts(posts, communities)
                     \cup ({"unread"} \X (Notices \ late))
    /\ WorldInit
    /\ pc = IF route = "thread" THEN "access" ELSE "notices"
    /\ pending = {} /\ listed = <<>> /\ signed = {} /\ handled = {}

Newest(things) == {t \in things : Cardinality({u \in things : u > t}) < limit}

(***************************************************************************)
(* LoadPostThreadForViewer.                                                *)
(***************************************************************************)
Access ==
    /\ pc = "access"
    /\ pc' = IF MayRead(posts[Post], communities) THEN "post" ELSE "refused"
    /\ UNCHANGED <<request, world, scope, looking, reading>>

\* The post's own row, if there still is one.
LoadPost ==
    /\ pc = "post"
    /\ pc' = IF posts[Post].deleted THEN "refused" ELSE "comments"
    /\ UNCHANGED <<request, world, scope, looking, reading>>

OnPost == {c \in LiveComments : PostOf[c] = Post}

\* Whose authors are told, by the handlers and by MarshalJSON again.
Signed(things) == things \ Anonymous

\* The newest comments, oldest first.
LoadComments ==
    /\ pc = "comments" /\ pc' = "handles"
    /\ listed' \in Ascending(Newest(OnPost))
    /\ signed' = Signed(Newest(OnPost) \cup {Post})
    /\ UNCHANGED <<request, world, scope, looking, pending, handled>>

(***************************************************************************)
(* commentActivity.                                                        *)
(***************************************************************************)
Unread(facts) == {n \in Has("unread", facts) : Sort[n] = route}

FindNotices ==
    /\ pc = "notices"
    /\ pending' = {n \in Newest(Unread(holds)) : About[n] # None}
    /\ pc' = IF pending' = {} THEN "shown" ELSE "rows"
    /\ UNCHANGED <<request, world, scope, looking, listed, signed, handled>>

LoadRows ==
    /\ pc = "rows" /\ pc' = "posts"
    /\ FindRows({About[n] : n \in pending})
    /\ UNCHANGED <<request, world, reading>>

LoadAccess ==
    /\ pc = "posts" /\ AskPost
    /\ UNCHANGED <<request, world, pc, reading>>

\* The comment is there, its post may be read, it has text; and a reply hangs
\* under another comment.
Resolved(n) ==
    /\ About[n] \in Kept \ Empty
    /\ route = "replies" => About[n] \in Answers

Resolve ==
    /\ pc = "posts" /\ toAsk = {} /\ pc' = "handles"
    /\ LET kept == {n \in pending : Resolved(n)}
       IN  /\ listed' \in Descending(kept)
           /\ signed' = {n \in kept : About[n] \in Signed(Comments)}
    /\ UNCHANGED <<request, world, scope, looking, pending, handled>>

(***************************************************************************)
(* Both end with one query for handles, and without them if it fails.      *)
(***************************************************************************)
\* Whose words each thing of an answer are.  What is anonymous has a blank for
\* it by now, which is no entity's.
WordsOf(t)   == AuthorOf[IF t \in Notices THEN About[t] ELSE t]
AuthorsTold  == {WordsOf(t) : t \in signed}

\* For an activity every comment kept is asked about, listed or not.
AskedAbout ==
    IF route = "thread" THEN AuthorsTold ELSE {AuthorOf[c] : c \in Signed(Kept)}

Handles ==
    /\ pc = "handles" /\ pc' = "shown"
    /\ handled' \in {{}, {t \in signed : WordsOf(t) \in HandlesFor(AskedAbout)}}
    /\ UNCHANGED <<request, world, scope, looking, pending, listed, signed>>

Fails ==
    /\ pc \in {"access", "post", "comments", "notices", "rows", "posts"}
    /\ pc = "posts" => toAsk # {}
    /\ pc' = "failed"
    /\ UNCHANGED <<request, world, scope, looking, reading>>

(***************************************************************************)
(* What others do meanwhile.                                               *)
(***************************************************************************)
Answered == pc \in {"shown", "refused", "failed"}

Comment ==
    /\ \E c \in Comments \ Has("comment", ever) :
          /\ \A k \in Has("comment", ever) : k < c
          /\ Becomes(holds \cup {<<"comment", c>>})
    /\ UNCHANGED <<scope, looking>>

Notify ==
    /\ \E n \in Notices \ Has("unread", ever) : Becomes(holds \cup {<<"unread", n>>})
    /\ UNCHANGED <<scope, looking>>

MarkRead ==
    /\ \E n \in Has("unread", holds) : Becomes(holds \ {<<"unread", n>>})
    /\ UNCHANGED <<scope, looking>>

Others ==
    /\ ~Answered
    /\ \/ Comment \/ DeleteComment \/ Rescope
       \/ route # "thread" /\ (Notify \/ MarkRead)
    /\ UNCHANGED <<request, pc, reading>>

Next ==
    \/ Access \/ LoadPost \/ LoadComments
    \/ FindNotices \/ LoadRows \/ LoadAccess \/ Resolve
    \/ Handles \/ Fails
    \/ Others

Spec == Init /\ [][Next]_vars
-----------------------------------------------------------------------------
\* The type invariant.
TypeOK ==
    /\ route \in {"thread", "mentions", "replies"} /\ limit \in Limits
    /\ holds \subseteq ever /\ ever \subseteq Facts /\ always \subseteq holds
    /\ posts \in PostStates /\ communities \in RealmStates
    /\ pc \in {"access", "post", "comments", "notices", "rows", "posts", "handles",
               "shown", "refused", "failed"}
    /\ pending \subseteq {n \in Notices : About[n] # None} /\ open \cap toAsk = {}
    /\ listed \in Seq(IF route = "thread" THEN Comments ELSE Notices)
    /\ signed \subseteq Range(listed) \cup {Post}
    /\ handled \subseteq signed

Entry == IF route = "thread" THEN {{<<"readable", Post>>}} ELSE {{}}
Ways(t) ==
    CASE t \in Comments /\ route = "thread" /\ PostOf[t] = Post ->
            {{<<"readable", Post>>, <<"comment", t>>}}
      [] t \in Notices /\ Sort[t] = route /\ About[t] \in Comments \ Empty
            /\ (route = "replies" => About[t] \in Answers) ->
            {{<<"unread", t>>, <<"comment", About[t]>>, <<"readable", PostOf[About[t]]>>}}
      [] OTHER -> {}

\* As a guarded read: a comment is shown, and a notification with its
\* comment's text, only to who could read the post, while the comment was
\* there; and a post is denied only to who could not.  A reply is one by its
\* own row.
Answer == IF Answered THEN pc ELSE "none"
Shown  == IF pc = "shown" THEN Range(listed) ELSE {}

\* "What falls off is the oldest": whatever was due all along and is not in
\* the answer had the limit's worth of newer ones above it.  A thread runs
\* from the oldest to the newest, notifications the other way.
NothingSkipped ==
    pc = "shown" =>
        /\ \A i, j \in DOMAIN listed :
              i < j => (listed[i] < listed[j] <=> route = "thread")
        /\ \A t \in Comments \cup Notices :
              /\ \E way \in Ways(t) : way \subseteq always
              /\ t \notin Range(listed)
              => LET newer == IF route = "thread"
                              THEN {c \in Has("comment", ever) : c > t /\ PostOf[c] = Post}
                              ELSE {n \in Unread(ever) : n > t}
                 IN  Cardinality(newer) >= limit

(***************************************************************************)
(* What a comment or a document says, and the code does not keep.          *)
(***************************************************************************)
\* "404 if the post does not exist or is deleted": a route that "does not
\* invent a visibility rule" denies no post that is there all along.
NotFoundMeansGone == pc = "refused" => posts[Post].deleted
=============================================================================
