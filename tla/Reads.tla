-------------------------------- MODULE Reads --------------------------------
(***************************************************************************)
(* What the service reads for a caller, one request at a time: instances   *)
(* of History, Moderation, PostReads, Search and Scope side by side.  A    *)
(* behaviour is one of the five, and all of them are guarded reads.        *)
(***************************************************************************)
EXTENDS Naturals

CONSTANTS
    Nil,                                    \* the value of what a request has no use for
    Entities, Nameless, Slugless,           \* of Identity
    Zero, Windows,                          \* the id of nothing, and the limits
    MaxChanges, MaxTurns,                   \* bounds; the second of Search
    ChatMessages, Chat, Unreadable, Replies, Target, SenderOf, Caller,
    ChatGrants, Collections, Gone,          \* of History
    Posts, Communities, Comments, PostOf, PostStates, RealmStates,
    MediaMessages, Conversations, Holding, KindOf, MediaGrants, Requests,
    Documents, Subject, Family, LateDocuments,  \* of Moderation
    Post, Starting, AuthorOf, Anonymous, Answers, Empty,
    Notices, Mention, Sort, LateNotices,    \* of PostReads
    Directory, Viewer, Kind, Handle, Name, Alphabetical, StandingStates,
    Letters, Lower, Bytes, Queries, KindFilters, Pages, \* of Search
    Self, People                            \* of Scope

VARIABLES
    serving,        \* "history", "moderation", "posts", "search" or "scope"
    holds, ever, always, changes, stage,        \* of all five
    route, most, listed, handled, left,         \* of some
    kind, transcript, named, scanned,           \* of History
    posts, communities, rows, toAsk, open,      \* of Moderation and PostReads
    ids, known, decided, allowed, records,      \* of Moderation
    pending, signed,                            \* of PostReads
    query, kinds, standing, blocks,             \* of Search
    saying, seen, dot, lost                     \* of Scope

ofHistory    == <<kind, transcript, named, scanned>>
ofRows       == <<posts, communities, rows, toAsk, open>>
ofModeration == <<ids, known, decided, allowed, records>>
ofPosts      == <<pending, signed>>
ofSearch     == <<query, kinds, standing, blocks>>
ofScope      == <<saying, seen, dot, lost>>

reads == <<serving, holds, ever, always, changes, stage, route, most, listed, handled, left,
           ofHistory, ofRows, ofModeration, ofPosts, ofSearch, ofScope>>

H == INSTANCE History WITH
    Messages <- ChatMessages, Here <- Chat, Limits <- Windows, Grants <- ChatGrants,
    None <- Zero, limit <- most, pc <- stage

M == INSTANCE Moderation WITH
    Messages <- MediaMessages, Grants <- MediaGrants, About <- Subject,
    Late <- LateDocuments, pc <- stage

P == INSTANCE PostReads WITH
    About <- Mention, Late <- LateNotices, Limits <- Windows, None <- Zero,
    limit <- most, pc <- stage

S == INSTANCE Search WITH
    Entities <- Directory, Limits <- Pages, MaxChanges <- MaxTurns,
    limit <- most, pc <- stage

A == INSTANCE Scope WITH pc <- stage

ASSUME ReadsAssumption ==
    /\ H!HistoryAssumption
    /\ M!ModerationAssumption
    /\ P!PostReadsAssumption
    /\ S!SearchAssumption
    /\ A!ScopeAssumption

-----------------------------------------------------------------------------
NoHistory    == kind = Nil /\ transcript = Nil /\ named = Nil /\ scanned = Nil
NoRows       == posts = Nil /\ communities = Nil /\ rows = Nil /\ toAsk = Nil /\ open = Nil
NoModeration == ids = Nil /\ known = Nil /\ decided = Nil /\ allowed = Nil /\ records = Nil
NoPosts      == pending = Nil /\ signed = Nil
NoSearch     == query = Nil /\ kinds = Nil /\ standing = Nil /\ blocks = Nil
NoScope      == saying = Nil /\ seen = Nil /\ dot = Nil /\ lost = Nil

ReadsInit ==
    \/ /\ serving = "history" /\ H!Init
       /\ NoRows /\ NoModeration /\ NoPosts /\ NoSearch /\ NoScope
       /\ listed = Nil /\ left = Nil
    \/ /\ serving = "moderation" /\ M!Init
       /\ NoHistory /\ NoPosts /\ NoSearch /\ NoScope
       /\ most = Nil /\ listed = Nil /\ handled = Nil
    \/ /\ serving = "posts" /\ P!Init
       /\ NoHistory /\ NoModeration /\ NoSearch /\ NoScope
       /\ left = Nil
    \/ /\ serving = "search" /\ S!Init
       /\ NoHistory /\ NoRows /\ NoModeration /\ NoPosts /\ NoScope
       /\ route = Nil /\ handled = Nil /\ left = Nil
    \/ /\ serving = "scope" /\ A!Init
       /\ NoHistory /\ NoRows /\ NoModeration /\ NoPosts /\ NoSearch
       /\ route = Nil /\ most = Nil /\ listed = Nil /\ handled = Nil

ReadsNext ==
    /\ UNCHANGED serving
    /\ \/ /\ serving = "history" /\ H!Next
          /\ UNCHANGED <<ofRows, ofModeration, ofPosts, ofSearch, ofScope, listed, left>>
       \/ /\ serving = "moderation" /\ M!Next
          /\ UNCHANGED <<ofHistory, ofPosts, ofSearch, ofScope, most, listed, handled>>
       \/ /\ serving = "posts" /\ P!Next
          /\ UNCHANGED <<ofHistory, ofModeration, ofSearch, ofScope, left>>
       \/ /\ serving = "search" /\ S!Next
          /\ UNCHANGED <<ofHistory, ofRows, ofModeration, ofPosts, ofScope, route, handled, left>>
       \/ /\ serving = "scope" /\ A!Next
          /\ UNCHANGED <<ofHistory, ofRows, ofModeration, ofPosts, ofSearch, route, most,
                         listed, handled>>

ReadsSpec == ReadsInit /\ [][ReadsNext]_reads
-----------------------------------------------------------------------------
\* What can be shown: messages, documents, comments and notifications, those
\* who are found and those who are told.
Things == ChatMessages \cup Documents \cup Comments \cup Notices \cup Directory \cup People

Facts == H!Facts \cup M!Facts \cup P!Facts \cup S!Facts \cup A!Facts

Ways(t) ==
    CASE serving = "history" /\ t \in ChatMessages -> H!Ways(t)
      [] serving = "moderation" /\ t \in Documents -> M!Ways(t)
      [] serving = "posts" /\ t \in Comments \cup Notices -> P!Ways(t)
      [] serving = "search" /\ t \in Directory -> S!Ways(t)
      [] serving = "scope" /\ t \in People -> A!Ways(t)
      [] OTHER -> {}

Entry == CASE serving = "history"    -> H!Entry
           [] serving = "moderation" -> M!Entry
           [] serving = "posts"      -> P!Entry
           [] serving = "search"     -> S!Entry
           [] serving = "scope"      -> A!Entry

Answer == CASE serving = "history"    -> H!Answer
            [] serving = "moderation" -> M!Answer
            [] serving = "posts"      -> P!Answer
            [] serving = "search"     -> S!Answer
            [] serving = "scope"      -> A!Answer

Shown == CASE serving = "history"    -> H!Shown
           [] serving = "moderation" -> M!Shown
           [] serving = "posts"      -> P!Shown
           [] serving = "search"     -> S!Shown
           [] serving = "scope"      -> A!Shown

\* Whatever is shown was allowed, by facts each of which held at some moment
\* of the request, and a refusal was earned: every read implements GuardedRead.
Guard == INSTANCE GuardedRead WITH
    ways   <- [t \in Things |-> Ways(t)],
    entry  <- Entry,
    answer <- Answer,
    shown  <- Shown
AsGuarded == Guard!Spec

\* Whatever was due throughout is in the answer, in its order, or pushed out
\* of it by as many as the limit that were better or newer.
NothingSkipped ==
    CASE serving = "history"    -> H!NothingSkipped
      [] serving = "moderation" -> M!NothingSkipped
      [] serving = "posts"      -> P!NothingSkipped
      [] serving = "search"     -> S!NothingSkipped
      [] serving = "scope"      -> A!NothingSkipped
=============================================================================
