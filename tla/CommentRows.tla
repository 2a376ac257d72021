----------------------------- MODULE CommentRows -----------------------------
(***************************************************************************)
(* commentRowsForViewer of src/internal/platform/mentions.go: the rows of  *)
(* some comments first, and then the access to each of their posts, one    *)
(* statement after the other in no certain order; among it, what others    *)
(* do to the comments, the posts and the communities.                      *)
(***************************************************************************)
EXTENDS World, PostAccess

CONSTANTS
    Comments,
    PostOf,         \* the post each is on
    PostStates,     \* the functions posts may be,
    RealmStates     \* and those communities may be

CommentRowsAssumption ==
    /\ WorldAssumption /\ IsFiniteSet(Communities)
    /\ PostOf \in [Comments -> Posts]
    /\ PostStates \subseteq [Posts -> PostRows]
    /\ RealmStates \subseteq [Communities -> CommunityRows]

VARIABLES
    posts, communities,
    rows,           \* the comments found,
    toAsk,          \* the posts of them whose access is not known yet,
    open            \* and those that may be read

scope   == <<posts, communities>>
looking == <<rows, toAsk, open>>

\* The facts about posts, as they are or would be.
ReadablePosts(of, under) == {"readable"} \X {p \in Posts : Readable(of[p], under)}
LiveComments == {c \in Comments : <<"comment", c>> \in holds}

RowsInit ==
    /\ posts \in PostStates /\ communities \in RealmStates
    /\ rows = {} /\ toAsk = {} /\ open = {}

\* The first statement: rows that are not deleted.
FindRows(ids) ==
    /\ rows' = ids \cap LiveComments
    /\ toAsk' = {PostOf[c] : c \in rows'}
    /\ open' = {}
    /\ UNCHANGED scope

\* One turn of the loop over the posts.
AskPost ==
    /\ \E p \in toAsk :
          /\ toAsk' = toAsk \ {p}
          /\ open' = IF MayRead(posts[p], communities) THEN open \cup {p} ELSE open
    /\ UNCHANGED <<rows, scope>>

\* What is left when the loop is done.
Kept == {c \in rows : PostOf[c] \in open}

\* Others edit a post, or a community.
Rescope ==
    /\ \/ posts' \in PostStates \ {posts} /\ UNCHANGED communities
       \/ communities' \in RealmStates \ {communities} /\ UNCHANGED posts
    /\ Becomes((holds \ ({"readable"} \X Posts)) \cup ReadablePosts(posts', communities'))
    /\ UNCHANGED looking

\* Others delete a comment.
DeleteComment ==
    /\ \E c \in LiveComments : Becomes(holds \ {<<"comment", c>>})
    /\ UNCHANGED <<scope, looking>>
=============================================================================
