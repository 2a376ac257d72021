------------------------------ MODULE Moderation ------------------------------
(***************************************************************************)
(* What src/internal/platform/moderation.go tells about media: one request *)
(* of MessageModeration, PostModeration or CommentModeration, while        *)
(* memberships, posts and comments change and the pipeline writes.         *)
(*                                                                         *)
(* Ids are numbers, and the same number may be a message's, a post's and a *)
(* comment's.                                                              *)
(***************************************************************************)
EXTENDS CommentRows, Sequences, ConversationAccess, Filter

CONSTANTS
    Messages,
    Conversations,
    Holding,        \* the conversation each message is in
    KindOf,         \* what each conversation is
    Grants,         \* the sets of access facts there may be at first
    Requests,       \* the <<route, ids>> there may be: distinct ids
    Documents,      \* the documents of the pipeline,
    About,          \* the id each is about,
    Family,         \* the route whose source types it has,
    Late            \* and those that may be written during the request

Routes == {"messages", "post", "comments"}
Ids    == Messages \cup Posts \cup Comments

ModerationAssumption ==
    /\ CommentRowsAssumption
    /\ Holding \in [Messages -> Conversations] /\ KindOf \in [Conversations -> Kinds]
    /\ Grants \subseteq SUBSET (Grounds \X Conversations)
    /\ Requests \subseteq ({"messages"} \X Seq(Messages)) \cup ({"comments"} \X Seq(Comments))
                          \cup {<<"post", <<p>> >> : p \in Posts}
    /\ About \in [Documents -> Ids] /\ Family \in [Documents -> Routes]
    /\ IsFiniteSet(Documents) /\ Late \subseteq Documents

VARIABLES
    route, ids,     \* the request
    pc,
    known,          \* conversationsOf: the messages that have a row
    left,           \* the ids permittedMessages has not come to,
    decided,        \* what it knows of each conversation: "yes", "no" or "unasked",
    allowed,        \* and the ids it has let through
    records         \* the documents of the answer

request == <<route, ids>>
sifting == <<known, left, decided, allowed>>
vars    == <<request, world, pc, scope, looking, sifting, records>>

Access == Grounds \X Conversations
Facts  == Access \cup ({"message"} \X Messages) \cup ({"comment"} \X Comments)
              \cup ({"readable"} \X Posts) \cup ({"document"} \X Documents)

Has(what, facts) == {fact[2] : fact \in {f \in facts : f[1] = what}}
Held(c) == {ground \in Grounds : <<ground, c>> \in holds}

Init ==
    /\ \E r \in Requests : route = r[1] /\ ids = r[2]
    /\ RowsInit
    /\ \E granted \in Grants, late \in SUBSET Late :
          holds = granted \cup ({"message"} \X Messages) \cup ({"comment"} \X Comments)
                     \cup ReadablePosts(posts, communities) \cup ({"document"} \X (Documents \ late))
    /\ WorldInit
    /\ pc = "arrive"
    /\ known = {} /\ left = ids /\ allowed = {}
    /\ decided = [c \in Conversations |-> "unasked"]
    /\ records = <<>>

\* A list of ids that is empty is 400.
Arrive ==
    /\ pc = "arrive"
    /\ pc' = CASE ids = <<>> -> "bad"
               [] ids # <<>> /\ route = "messages" -> "conversations"
               [] ids # <<>> /\ route = "post"     -> "access"
               [] ids # <<>> /\ route = "comments" -> "rows"
    /\ UNCHANGED <<request, world, scope, looking, sifting, records>>

(***************************************************************************)
(* ModerationForMessages.                                                  *)
(***************************************************************************)
conversationsOf ==
    /\ pc = "conversations" /\ pc' = "sift"
    /\ known' = Range(ids) \cap Has("message", holds)
    /\ UNCHANGED <<request, world, scope, looking, left, decided, allowed, records>>

\* permittedMessages: an id with no row, and one whose conversation is
\* decided, is done with.
Sift ==
    /\ pc = "sift" /\ left # <<>>
    /\ LET m == Head(left)
       IN  \/ /\ m \notin known
              /\ left' = Tail(left)
              /\ UNCHANGED <<pc, decided, allowed>>
           \/ /\ m \in known /\ decided[Holding[m]] # "unasked"
              /\ left' = Tail(left)
              /\ allowed' = IF decided[Holding[m]] = "yes" THEN allowed \cup {m} ELSE allowed
              /\ UNCHANGED <<pc, decided>>
           \/ /\ m \in known /\ decided[Holding[m]] = "unasked"
              /\ pc' = "contacts"
              /\ UNCHANGED <<left, decided, allowed>>
    /\ UNCHANGED <<request, world, scope, looking, known, records>>

\* AssertMember, of the conversation in hand.
Ask ==
    /\ pc \in Questions
    /\ LET c    == Holding[Head(left)]
           said == Asked(pc, KindOf[c], Held(c))
       IN  IF said \in {"yes", "no"}
           THEN decided' = [decided EXCEPT ![c] = said] /\ pc' = "sift"
           ELSE pc' = said /\ UNCHANGED decided
    /\ UNCHANGED <<request, world, scope, looking, known, left, allowed, records>>

Sifted ==
    /\ pc = "sift" /\ left = <<>>
    /\ pc' = IF allowed = {} THEN "shown" ELSE "find"
    /\ UNCHANGED <<request, world, scope, looking, sifting, records>>

(***************************************************************************)
(* ModerationForPostForViewer and ModerationForCommentsForViewer.          *)
(***************************************************************************)
assertPostReadable ==
    /\ pc = "access"
    /\ pc' = IF MayRead(posts[ids[1]], communities) THEN "find" ELSE "refused"
    /\ allowed' = Range(ids)
    /\ UNCHANGED <<request, world, scope, looking, known, left, decided, records>>

LoadRows ==
    /\ pc = "rows" /\ pc' = "posts"
    /\ FindRows(Range(ids))
    /\ UNCHANGED <<request, world, sifting, records>>

LoadAccess ==
    /\ pc = "posts" /\ AskPost
    /\ UNCHANGED <<request, world, pc, sifting, records>>

KeepRows ==
    /\ pc = "posts" /\ toAsk = {}
    /\ allowed' = Kept
    /\ pc' = IF Kept = {} THEN "shown" ELSE "find"
    /\ UNCHANGED <<request, world, scope, looking, known, left, decided, records>>

(***************************************************************************)
(* findModeration: no sort, so in any order.                               *)
(***************************************************************************)
Wanted(d) == About[d] \in allowed /\ Family[d] = route

findModeration ==
    /\ pc = "find" /\ pc' = "shown"
    /\ records' \in Orders({d \in Has("document", holds) : Wanted(d)})
    /\ UNCHANGED <<request, world, scope, looking, sifting>>

\* Mutant: a question that failed is a no.
FailsShort ==
    /\ pc \in Questions /\ pc' = "sift"
    /\ decided' = [decided EXCEPT ![Holding[Head(left)]] = "no"]
    /\ UNCHANGED <<request, world, scope, looking, known, left, allowed, records>>

\* Any query fails, and the whole read with it.
Fails ==
    /\ pc \in Questions \cup {"conversations", "access", "rows", "posts", "find"}
    /\ pc = "posts" => toAsk # {}
    /\ pc' = "failed"
    /\ UNCHANGED <<request, world, scope, looking, sifting, records>>

(***************************************************************************)
(* What others do meanwhile, of what the route asks for.                   *)
(***************************************************************************)
Answered == pc \in {"shown", "refused", "failed", "bad"}

Regrant ==
    /\ ~Answered
    /\ \E granted \in Grants : Becomes((holds \ Access) \cup granted)
    /\ UNCHANGED <<request, pc, scope, looking, sifting, records>>

PurgeMessage ==
    /\ ~Answered
    /\ \E m \in Messages : Becomes(holds \ {<<"message", m>>})
    /\ UNCHANGED <<request, pc, scope, looking, sifting, records>>

Publish ==
    /\ ~Answered
    /\ \E d \in Documents : Becomes(holds \cup {<<"document", d>>})
    /\ UNCHANGED <<request, pc, scope, looking, sifting, records>>

Others ==
    \/ route = "messages" /\ (Regrant \/ PurgeMessage)
    \/ Publish
    \/ ~Answered /\ route # "messages" /\ Rescope /\ UNCHANGED <<request, pc, sifting, records>>
    \/ ~Answered /\ route = "comments" /\ DeleteComment /\ UNCHANGED <<request, pc, sifting, records>>

Next ==
    \/ Arrive
    \/ conversationsOf \/ Sift \/ Ask \/ Sifted
    \/ assertPostReadable
    \/ LoadRows \/ LoadAccess \/ KeepRows
    \/ findModeration \/ Fails
    \/ Others

Spec == Init /\ [][Next]_vars
-----------------------------------------------------------------------------
\* The type invariant.
TypeOK ==
    /\ <<route, ids>> \in Requests
    /\ holds \subseteq ever /\ ever \subseteq Facts /\ always \subseteq holds
    /\ posts \in PostStates /\ communities \in RealmStates
    /\ pc \in Questions \cup {"arrive", "conversations", "sift", "access", "rows", "posts",
                              "find", "shown", "refused", "failed", "bad"}
    /\ known \subseteq Messages /\ \E i \in 1 .. Len(ids) + 1 : left = SubSeq(ids, i, Len(ids))
    /\ allowed \subseteq Range(ids) /\ (route = "messages" => allowed \subseteq known)
    /\ decided \in [Conversations -> {"yes", "no", "unasked"}]
    /\ Range(records) \subseteq Documents

\* What entitles to a document: it is about what was asked for, and of that
\* sort; it has been written; and the message's conversation, the post, or
\* the comment and its post may be read.
Entry == IF route = "post" THEN {{<<"readable", p>>} : p \in Range(ids)} ELSE {{}}
Rights(id) ==
    CASE route = "messages" -> {{<<"message", id>>} \cup (grounds \X {Holding[id]}) :
                                   grounds \in Enough(KindOf[Holding[id]])}
      [] route = "post"     -> Entry
      [] route = "comments" -> {{<<"comment", id>>, <<"readable", PostOf[id]>>}}
Ways(d) ==
    IF Family[d] # route \/ About[d] \notin Range(ids) THEN {}
    ELSE {way \cup {<<"document", d>>} : way \in Rights(About[d])}

\* As a guarded read: "authorisation is per message, and it is the point of
\* the function".  No document is in an answer unless the caller could read
\* what it is about, however ids of messages, posts and comments coincide; and
\* only a post is refused, for cause.
Answer == CASE pc = "bad" -> "failed" [] Answered /\ pc # "bad" -> pc [] OTHER -> "none"
Shown  == Range(records)

\* A short list is one of which the rest may not be seen: a membership check
\* that failed does not make "a short list that looks exactly like 'you may
\* see less than you asked for'".
ShortForCause ==
    pc = "shown" =>
        \A d \in Documents : (\E way \in Ways(d) : way \subseteq always) => d \in Range(records)

\* "isMember is asked once per conversation": the messages of one conversation
\* are all in an answer or all left out of it, whatever becomes of the
\* membership while others are asked about.
OneDecision ==
    pc = "shown" /\ route = "messages" =>
        \A d, e \in Documents :
            /\ d \in Range(records)
            /\ <<"document", e>> \in always /\ Family[e] = "messages"
            /\ About[e] \in Range(ids) /\ <<"message", About[e]>> \in always
            /\ Holding[About[d]] = Holding[About[e]]
            => e \in Range(records)

NothingSkipped == ShortForCause /\ OneDecision

(***************************************************************************)
(* What a comment or a document says, and the code does not keep.          *)
(***************************************************************************)
\* "Order follows the caller's ids ..., so a response is the same on every
\* call".
InTheOrderAsked ==
    \A i, j \in DOMAIN records : i < j =>
        \E k, l \in DOMAIN ids :
            k <= l /\ ids[k] = About[records[i]] /\ ids[l] = About[records[j]]
=============================================================================
