------------------------------ MODULE PostAccess ------------------------------
(***************************************************************************)
(* loadPostAccess and permits of src/internal/platform/community.go: what  *)
(* one statement says of a post, its tags and their communities, and who   *)
(* may read by it.  The viewer is the one entity these rows are about.     *)
(***************************************************************************)
EXTENDS FiniteSets, Integers

CONSTANTS Posts, Communities

\* A post: soft-deleted or not; readable or not by its own privacy and the
\* author's contacts; tagged with communities.  A community, by its flags and
\* whether the viewer has a member row in it.
PostRows      == [deleted : BOOLEAN, ordinary : BOOLEAN, tags : SUBSET Communities]
CommunityRows == [active : BOOLEAN, private : BOOLEAN, member : BOOLEAN]

\* The aggregates over the communities a post is tagged with: COUNT, bool_and,
\* bool_or, bool_and, false where there are none.
loadPostAccess(post, of) ==
    [count |-> Cardinality(post.tags), ordinary |-> post.ordinary,
     active  |-> post.tags # {} /\ \A c \in post.tags : of[c].active,
     private |-> \E c \in post.tags : of[c].private,
     member  |-> post.tags # {} /\ \A c \in post.tags : of[c].member]

\* Mutant: in several communities, as long as each of them would do.
PermitsIfAllDo(access, write) ==
    IF access.count = 0 THEN access.ordinary
    ELSE access.active /\ ((~write /\ ~access.private) \/ access.member)

permits(access, write) ==
    IF access.count = 0 THEN access.ordinary
    ELSE /\ access.count = 1 /\ access.active
         /\ (~write /\ ~access.private) \/ access.member

\* No row is not found, and a row that does not permit is the same.
MayRead(post, of) == ~post.deleted /\ permits(loadPostAccess(post, of), FALSE)

\* What readable means: a post is for whom its privacy says; in a community,
\* for everybody or for the members, as long as the community is active; and in
\* several at once for nobody.
Readable(post, of) ==
    /\ ~post.deleted
    /\ \/ post.tags = {} /\ post.ordinary
       \/ \E c \in post.tags :
             post.tags = {c} /\ of[c].active /\ (of[c].private => of[c].member)
=============================================================================
