-------------------------------- MODULE Search --------------------------------
(***************************************************************************)
(* SearchEntities of src/internal/platform/entities.go: one request to the *)
(* directory, which takes the best rows first and the blocked ones out of  *)
(* them after, while accounts come and go and people block each other.     *)
(*                                                                         *)
(* Letters stand for what a search tells apart: one with a capital, one of *)
(* two bytes, the two wildcards of LIKE and its escape, a space and "@".   *)
(***************************************************************************)
EXTENDS World, Integers, Sequences, FiniteSets, FiniteSetsExt, Filter

CONSTANTS
    Entities, Viewer,
    Kind,           \* of each entity: "user", "realm" or "bot"
    Handle, Name,   \* of each, in lower case; <<>>: none
    Alphabetical,   \* the place of each handle among them
    StandingStates, \* the functions standing may be
    Letters, Lower, \* Lower[c] is the lower case of c
    Bytes,          \* the length of each letter
    Queries, KindFilters, Limits  \* what may be asked

Rows == [active : BOOLEAN, verified : BOOLEAN, system : BOOLEAN]

SearchAssumption ==
    /\ WorldAssumption /\ IsFiniteSet(Entities)
    /\ Viewer \in Entities /\ Kind \in [Entities -> {"user", "realm", "bot"}]
    /\ Handle \in [Entities -> Seq(Letters)] /\ Name \in [Entities -> Seq(Letters)]
    /\ Alphabetical \in [Entities -> Nat]
    /\ StandingStates \subseteq [Entities -> Rows]
    /\ Lower \in [Letters -> Letters] /\ Bytes \in [Letters -> 1 .. 4]
    /\ Queries \subseteq Seq(Letters) /\ Limits \subseteq Nat \ {0}

VARIABLES
    query, kinds, limit,
    standing,       \* each entity's row in its table
    blocks,         \* pairs of who blocks whom
    pc,
    listed

request == <<query, kinds, limit>>
stores  == <<standing, blocks>>
vars    == <<request, world, stores, pc, listed>>

(***************************************************************************)
(* The term and the pattern.                                               *)
(***************************************************************************)
TrimSpace(s) ==
    LET kept == {i \in DOMAIN s : s[i] # " "}
    IN  IF kept = {} THEN <<>> ELSE SubSeq(s, Min(kept), Max(kept))

TrimAt(s) == IF s # <<>> /\ Head(s) = "@" THEN Tail(s) ELSE s

Term == [i \in DOMAIN TrimSpace(TrimAt(TrimSpace(query))) |->
            Lower[TrimSpace(TrimAt(TrimSpace(query)))[i]]]

minSearchLength == 2

\* len counts bytes.
Length(s) == SumFunction([i \in DOMAIN s |-> Bytes[s[i]]])

TooShort == Length(Term) < minSearchLength

\* A letter of a pattern is taken as it is after an odd number of "\".
Escaped(pattern, j) ==
    \E k \in 1 .. j :
        /\ (j - k) % 2 = 1 /\ \A l \in k .. j - 1 : pattern[l] = "\\"
        /\ k > 1 => pattern[k - 1] # "\\"

\* SQL's LIKE: "%" is any letters, "_" any one, and "\" makes the next its
\* own.  Of each part of the pattern that is left the places where what is left
\* of the text matches it.
Like(text, pattern) ==
    LET Means(j, c) == pattern[j] = c /\ ~Escaped(pattern, j)
        from[j \in 1 .. Len(pattern) + 1] ==
            IF j > Len(pattern) THEN {Len(text) + 1}
            ELSE IF Means(j, "\\") THEN from[j + 1]
            ELSE IF Means(j, "%") THEN {i \in 1 .. Len(text) + 1 : \E k \in from[j + 1] : i <= k}
            ELSE {i \in 1 .. Len(text) :
                    (Means(j, "_") \/ pattern[j] = text[i]) /\ i + 1 \in from[j + 1]}
    IN  1 \in from[1]

IsMatch(e)  == \E text \in {Handle[e], Name[e]} : Like(text, <<"%">> \o Term \o <<"%">>)
StartsWith(e) == Like(Handle[e], Term \o <<"%">>)

\* kindFilter: those there are, and all of them if there are none.
Wanted ==
    LET known == kinds \cap {"user", "realm", "bot"}
    IN  IF known = {} THEN {"user", "realm", "bot"} ELSE known

(***************************************************************************)
(* The query: of the rows that match and may be found the best, in order.  *)
(***************************************************************************)
Findable(e, row) ==
    /\ row.active
    /\ Kind[e] = "user" => row.verified
    /\ Kind[e] = "bot" => ~row.system

Candidates(of) ==
    {e \in Entities \ {Viewer} : Findable(e, of[e]) /\ Kind[e] \in Wanted /\ IsMatch(e)}

Before(e, f) ==
    \/ StartsWith(e) /\ ~StartsWith(f)
    \/ /\ StartsWith(e) = StartsWith(f)
       /\ \/ Len(Handle[e]) < Len(Handle[f])
          \/ Len(Handle[e]) = Len(Handle[f]) /\ Alphabetical[e] < Alphabetical[f]

\* ORDER BY leaves rows with the same handle in any order.
Ordered(of) ==
    {s \in Orders(of) : \A i, j \in DOMAIN s : i < j => ~Before(s[j], s[i])}

\* blockedEntityIDs: in either direction.
Blocked(pairs) == {e \in Entities \ {Viewer} : {<<e, Viewer>>, <<Viewer, e>>} \cap pairs # {}}

-----------------------------------------------------------------------------
Facts == {"findable", "unblocked"} \X Entities

Hold(of, pairs) ==
    ({"findable"} \X {e \in Entities : Findable(e, of[e])})
        \cup ({"unblocked"} \X (Entities \ Blocked(pairs)))

Init ==
    /\ query \in Queries /\ kinds \in KindFilters /\ limit \in Limits
    /\ standing \in StandingStates
    /\ blocks \in {{}} \cup {{<<e, Viewer>>} : e \in Entities \ {Viewer}}
    /\ holds = Hold(standing, blocks) /\ WorldInit
    /\ pc = "term" /\ listed = <<>>

\* A term that is too short finds nothing, without a query.
Arrive ==
    /\ pc = "term"
    /\ pc' = IF TooShort THEN "shown" ELSE "find"
    /\ UNCHANGED <<request, world, stores, listed>>

Find ==
    /\ pc = "find"
    /\ \E s \in Ordered(Candidates(standing)) :
          listed' = SubSeq(s, 1, IF Len(s) < limit THEN Len(s) ELSE limit)
    /\ pc' = IF listed' = <<>> THEN "shown" ELSE "blocks"
    /\ UNCHANGED <<request, world, stores>>

DropBlocked ==
    /\ pc = "blocks" /\ pc' = "shown"
    /\ listed' = Only(listed, Entities \ Blocked(blocks))
    /\ UNCHANGED <<request, world, stores>>

\* Either statement: nothing is shown of what was found.
Fails ==
    /\ pc \in {"find", "blocks"} /\ pc' = "failed"
    /\ listed' = <<>>
    /\ UNCHANGED <<request, world, stores>>

(***************************************************************************)
(* What others do meanwhile.                                               *)
(***************************************************************************)
Answered == pc \in {"shown", "failed"}

Restand ==
    /\ standing' \in StandingStates \ {standing}
    /\ UNCHANGED blocks

Block ==
    /\ \E e \in Entities \ {Viewer} :
          blocks' \in {blocks \cup {<<e, Viewer>>}, blocks \cup {<<Viewer, e>>},
                       blocks \ {<<e, Viewer>>, <<Viewer, e>>}} \ {blocks}
    /\ UNCHANGED standing

Others ==
    /\ ~Answered
    /\ Restand \/ Block
    /\ Becomes(Hold(standing', blocks'))
    /\ UNCHANGED <<request, pc, listed>>

Next == Arrive \/ Find \/ DropBlocked \/ Fails \/ Others

Spec == Init /\ [][Next]_vars
-----------------------------------------------------------------------------
\* The type invariant.
TypeOK ==
    /\ query \in Queries /\ kinds \in KindFilters /\ limit \in Limits
    /\ standing \in StandingStates /\ blocks \subseteq Entities \X Entities
    /\ holds \subseteq ever /\ ever \subseteq Facts /\ always \subseteq holds
    /\ pc \in {"term", "find", "blocks", "shown", "failed"}
    /\ listed \in Seq(Entities \ {Viewer}) /\ IsInjective(listed)
    /\ Len(listed) <= limit

\* As a guarded read: no "results that route around a block".  Whoever is
\* found could be found and was on no terms of blocking with the viewer, at
\* some moment of the request.
Entry   == {{}}
Ways(e) == IF e = Viewer THEN {} ELSE {{<<"findable", e>>, <<"unblocked", e>>}}
Answer  == IF Answered THEN pc ELSE "none"
Shown   == IF pc = "shown" THEN Range(listed) ELSE {}

\* What the text itself contains.
Begins(text) == Len(Term) <= Len(text) /\ SubSeq(text, 1, Len(Term)) = Term
Holds(text) ==
    \E i \in 1 .. Len(text) + 1 - Len(Term) : SubSeq(text, i, i + Len(Term) - 1) = Term
Plain == Range(Term) \cap {"%", "_", "\\"} = {}

\* "ana should find @ana before @banana", and not lose it to the limit:
\* whatever contains a term of plain letters, could be found all along and is
\* not in the answer had the limit's worth of others before it, none of which
\* it is better than; and so it is within the answer.
NothingSkipped ==
    LET Starts(e)    == Begins(Handle[e])
        Better(e, f) == Starts(e) /\ ~Starts(f)
        due == {e \in Entities \ {Viewer} :
                   /\ {<<"findable", e>>, <<"unblocked", e>>} \subseteq always
                   /\ Kind[e] \in Wanted
                   /\ Holds(Handle[e]) \/ Holds(Name[e])}
        rivals(e) == {f \in Entities \ {Viewer, e} :
                        <<"findable", f>> \in ever /\ IsMatch(f) /\ ~Better(e, f)}
    IN  pc = "shown" /\ Plain /\ ~TooShort =>
            /\ \A i, j \in DOMAIN listed : i < j => ~Better(listed[j], listed[i])
            /\ \A e \in due \ Range(listed) : Cardinality(rivals(e)) >= limit

(***************************************************************************)
(* What a comment or a document says, and the code does not keep.          *)
(***************************************************************************)
\* "q is matched against handle and display name": what is found contains the
\* term.
OnlyMatches ==
    pc = "shown" => \A e \in Range(listed) : Holds(Handle[e]) \/ Holds(Name[e])

\* "Fewer than two characters returns nothing rather than most of the
\* platform."
TwoCharacters ==
    pc = "shown" /\ listed # <<>> => Len(Term) >= 2

\* "Anything findable here was already addressable by typing its handle": it
\* has one.
FoundIsAddressable ==
    pc = "shown" => \A e \in Range(listed) : Handle[e] # <<>>
=============================================================================
