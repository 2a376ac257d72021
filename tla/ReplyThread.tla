----------------------------- MODULE ReplyThread -----------------------------
(***************************************************************************)
(* ReplyThread of src/internal/platform/thread.go: the walk from one       *)
(* message up the chain of what it answers, a segment per round trip,      *)
(* while messages are being deleted.                                       *)
(*                                                                         *)
(* A link is stored as an object or, in older rows, as a bare string; one  *)
(* $graphLookup follows one of the two.  A reply to a post, a moment or a  *)
(* thought links to no message.                                            *)
(***************************************************************************)
EXTENDS Integers, Sequences, FiniteSets, SequencesExt, Filter

CONSTANTS
    Ids,            \* messages, of this conversation and of others
    Anchor,         \* the one the walk starts from
    Links,          \* the functions "replyingTo" may be
    Texts,          \* the sets of readable messages there may be
    Limits,         \* what readLimit lets through
    None,           \* no message: the empty id
    MaxDeleted      \* bound

ASSUME ThreadAssumption ==
    /\ Anchor \in Ids /\ None \notin Ids
    /\ Links \subseteq [Ids -> Ids \cup {None}] /\ Texts \subseteq SUBSET Ids
    /\ Limits \subseteq Nat \ {0} /\ MaxDeleted \in Nat

VARIABLES
    to,             \* the message each message replies to
    bare,           \* the messages whose link is a bare string
    here,           \* the messages of the conversation
    text,           \* those decodeMessage can read
    deleted,        \* those that have been deleted
    limit,
    pc,             \* "anchor", "walk", "found", "missing" or "failed"
    parent,         \* where the walk is
    hops,           \* links followed
    nearestFirst,   \* readable ancestors
    gone            \* history: what was deleted before the request

data == <<to, bare, here, text, limit>>
walk == <<parent, hops, nearestFirst>>
vars == <<data, deleted, pc, walk, gone>>

Init ==
    /\ to \in Links
    /\ bare \in SUBSET (Ids \ {Anchor})   \* decodeMessage reads the anchor's, either way
    /\ here \in SUBSET Ids /\ text \in Texts /\ limit \in Limits
    /\ deleted \in {{}} \cup {{m} : m \in Ids} /\ gone = deleted
    /\ pc = "anchor" /\ parent = None
    /\ hops = 0 /\ nearestFirst = <<>>

\* What a query on the conversation finds.
Within == here \ deleted

(***************************************************************************)
(* ancestorSegment.                                                        *)
(***************************************************************************)
Objects == Ids \ bare

\* The messages one link above those of ms that a traversal can follow.
Parents(ms, followed) == {to[m] : m \in ms \cap followed}

\* $graphLookup: the messages within maxDepth links of the first.
graphLookup(start, followed, maxDepth) ==
    LET reached[depth \in 0..maxDepth] ==
            IF depth = 0 THEN {start} \cap Within
            ELSE reached[depth - 1] \cup (Parents(reached[depth - 1], followed) \cap Within)
    IN  reached[maxDepth]

TwoTraversals(start, budget) ==
    graphLookup(to[start], Objects, budget - 2) \cup graphLookup(to[start], bare, budget - 2)

\* Mutant: a segment without its first message.
ParentsOnly(start, budget) ==
    IF start \notin Within \/ budget = 1 THEN {} ELSE TwoTraversals(start, budget)

ancestorSegment(start, budget) ==
    IF start \notin Within THEN {}
    ELSE {start} \cup (IF budget = 1 THEN {} ELSE TwoTraversals(start, budget))

(***************************************************************************)
(* linkedAncestors: the links followed, in the order they were.            *)
(***************************************************************************)
linkedAncestors(found, start, budget) ==
    LET at[k \in 0..budget] ==
            IF k = 0 THEN start
            ELSE IF at[k - 1] \in found THEN to[at[k - 1]] ELSE None
        used == Cardinality({k \in 1..budget : at[k - 1] \in found})
    IN  [links |-> [k \in 1..used |-> at[k - 1]], next |-> at[used]]

Readable(links) == Only(links, text)

(***************************************************************************)
(* ReplyThread.                                                            *)
(***************************************************************************)
\* An anchor that is not here, was deleted, or cannot be read: one answer.
FindAnchor ==
    /\ pc = "anchor"
    /\ IF Anchor \in Within \cap text
       THEN pc' = "walk" /\ parent' = to[Anchor]
       ELSE pc' = "missing" /\ UNCHANGED parent
    /\ UNCHANGED <<data, deleted, hops, nearestFirst, gone>>

\* Mutant: each newer segment is put first.
Backwards(chain) ==
    /\ nearestFirst' = Readable(chain.links) \o nearestFirst
    /\ hops' = hops + Len(chain.links)

Extend(chain) ==
    /\ nearestFirst' = nearestFirst \o Readable(chain.links)
    /\ hops' = hops + Len(chain.links)

Budget == limit - hops

\* Mutant: a segment with nothing in it does not end the walk.
TriesAgain(chain) == pc
AfterSegment(chain) == IF chain.links = <<>> THEN "found" ELSE pc

\* One turn of the loop.
Segment ==
    /\ pc = "walk" /\ parent # None /\ hops < limit
    /\ LET found == ancestorSegment(parent, Budget)
           chain == linkedAncestors(found, parent, Budget)
       IN  Extend(chain) /\ parent' = chain.next /\ pc' = AfterSegment(chain)
    /\ UNCHANGED <<data, deleted, gone>>

WalkEnds ==
    /\ pc = "walk" /\ (parent = None \/ hops >= limit)
    /\ pc' = "found"
    /\ UNCHANGED <<data, deleted, walk, gone>>

\* A query fails, and the request with it.
Fails ==
    /\ pc = "anchor" \/ (pc = "walk" /\ parent # None /\ hops < limit)
    /\ pc' = "failed"
    /\ UNCHANGED <<data, deleted, walk, gone>>

\* Somebody deletes a message.
Delete ==
    /\ pc \in {"anchor", "walk"} /\ Cardinality(deleted) < MaxDeleted
    /\ \E m \in here \ deleted : deleted' = deleted \cup {m}
    /\ UNCHANGED <<data, pc, walk, gone>>

Next == FindAnchor \/ Segment \/ WalkEnds \/ Fails \/ Delete

Spec == Init /\ [][Next]_vars
\* A request runs until it is answered.
FairSpec == Spec /\ WF_vars(FindAnchor \/ Segment \/ WalkEnds)

\* The answer.
Messages      == Append(Reverse(nearestFirst), Anchor)
Depth         == Len(nearestFirst)
Truncated     == parent # None
RootMessageID ==
    CASE Truncated         -> None
      [] Depth > 0         -> Messages[1]
      [] OTHER             -> Anchor

-----------------------------------------------------------------------------
\* The type invariant.
TypeOK ==
    /\ to \in Links /\ bare \subseteq Ids /\ here \subseteq Ids /\ text \in Texts
    /\ deleted \subseteq Ids /\ gone \subseteq deleted /\ limit \in Limits
    /\ pc \in {"anchor", "walk", "found", "missing", "failed"}
    /\ parent \in Ids \cup {None} /\ hops \in Nat
    /\ nearestFirst \in Seq(Ids)

\* The k-th message above the anchor, whatever is stored how.
Above(k) ==
    LET up[j \in 0..k] ==
            IF j = 0 THEN Anchor ELSE IF up[j - 1] = None THEN None ELSE to[up[j - 1]]
    IN  up[k]
Lineage == [k \in 1..hops |-> Above(k)]

(***************************************************************************)
(* However many segments it was read in, and in whichever shapes its links *)
(* are stored, what is returned is the anchor's lineage, nearest part      *)
(* first, in order, without the messages that cannot be read and without a *)
(* gap; it is never more than the limit, all of the conversation, and      *)
(* nothing that was deleted before the request came.                       *)
(***************************************************************************)
OneLineage ==
    /\ hops <= limit
    /\ \A k \in 1..hops : Above(k) # None
    /\ nearestFirst = Readable(Lineage)
    /\ pc = "walk" => parent = Above(hops + 1)
    /\ pc = "found" => \A i \in DOMAIN Messages : Messages[i] \in here \ gone

(***************************************************************************)
(* A walk that stops below the root and below the limit has met a message  *)
(* that is deleted or in another conversation: no boundary of the two      *)
(* traversals, or between two segments, ends it.                           *)
(***************************************************************************)
StopsForCause ==
    pc = "found" /\ Truncated => hops = limit \/ parent \notin Within

\* Every request is answered, whatever circle the stored links run in.
Answered == <>(pc \in {"found", "missing", "failed"})
=============================================================================
