--------------------------------- MODULE Text ---------------------------------
(***************************************************************************)
(* mentions_parse.go: who a text mentions and what is stored of it, beside *)
(* the regular expressions of the platform they stand in for, over every   *)
(* short text.  A text is a sequence of kinds of characters.               *)
(***************************************************************************)
EXTENDS Integers, Sequences, FiniteSetsExt, Functions

CONSTANTS
    Alphabets,      \* sets of characters; a text keeps to one of them
    MaxHandle,      \* how long a handle may be
    MaxLength       \* bound

TextAssumption ==
    /\ Alphabets \subseteq SUBSET {"@", "space", "nbsp", ".", "!", "a", "b", "<", ">", "/"}
    /\ MaxHandle \in Nat /\ MaxLength \in Nat

VARIABLE text

NoText == text = <<>>

\* One more character.
Type ==
    /\ Len(text) < MaxLength
    /\ \E alphabet \in Alphabets : \E c \in alphabet :
          /\ Range(text) \subseteq alphabet
          /\ text' = Append(text, c)

(***************************************************************************)
(* The code.  A no-break space is two bytes, neither of them a space.      *)
(***************************************************************************)
isMentionRune(c)       == c \in {"a", "b", "."}
isSpaceByte(c)         == c = "space"
isMentionTerminator(c) == c \in {"space", ".", "!"}

\* Whether the handle of k characters after position i may end there.
Ends(t, i, k) == i + k = Len(t) \/ isMentionTerminator(t[i + k + 1])

\* The longest run of handle characters after position i.
RunAfter(t, i) ==
    Max({k \in 0..MaxHandle :
            i + k <= Len(t) /\ \A j \in i + 1..i + k : isMentionRune(t[j])})

\* Mutant: the longest run or nothing.
GreedyHandle(t, i) ==
    IF Ends(t, i, RunAfter(t, i)) THEN SubSeq(t, i + 1, i + RunAfter(t, i)) ELSE <<>>

\* Longest first, shorter runs before giving up.
HandleAfter(t, i) ==
    LET stops == {k \in 1..RunAfter(t, i) : Ends(t, i, k)}
    IN  IF stops = {} THEN <<>> ELSE SubSeq(t, i + 1, i + Max(stops))

\* Appended unless it is there.
Noted(found, handle) == IF handle \in Range(found) THEN found ELSE Append(found, handle)

ExtractMentions(t) ==
    LET found[i \in 0..Len(t)] ==
            IF i = 0 THEN <<>>
            ELSE IF \/ t[i] # "@" \/ (i > 1 /\ ~isSpaceByte(t[i - 1]))
                    \/ HandleAfter(t, i) = <<>>
            THEN found[i - 1]
            ELSE Noted(found[i - 1], HandleAfter(t, i))
    IN  found[Len(t)]

\* A tag ends at a bracket or at the end of the text.
TagEnd(t, i) ==
    LET close == {j \in i + 1..Len(t) : t[j] = ">"}
    IN  IF close = {} THEN Len(t) + 1 ELSE Min(close)

EmptyTag(t, i) == TagEnd(t, i) = i + 1

SanitizeForStorage(t) ==
    LET from[i \in 1..Len(t) + 2] ==
            IF i > Len(t) THEN <<>>
            ELSE IF t[i] # "<" \/ EmptyTag(t, i) THEN <<t[i]>> \o from[i + 1]
            ELSE from[TagEnd(t, i) + 1]
    IN  from[1]

(***************************************************************************)
(* The platform's regular expressions, matched the way their engine does:  *)
(* leftmost first, greedy, giving back what makes the rest fail, and going *)
(* on from the end of each match.                                          *)
(***************************************************************************)
Space(c) == c \in {"space", "nbsp"}

\* (?:^|\s)@([A-Za-z0-9._-]{1,30})(?=$|\s|[.,!?;:]) with its @ at position i,
\* the search having come to position from: the lengths of handle it allows.
Handles(t, i, from) ==
    {k \in 1..MaxHandle :
        /\ t[i] = "@" /\ i + k <= Len(t)
        /\ i = 1 \/ (i - 1 >= from /\ Space(t[i - 1]))
        /\ \A j \in i + 1..i + k : t[j] \in {"a", "b", "."}
        /\ i + k = Len(t) \/ Space(t[i + k + 1]) \/ t[i + k + 1] \in {".", "!"}}

MatchedMentions(t) ==
    LET after[from \in 1..Len(t) + 1] ==
            LET starts == {i \in from..Len(t) : Handles(t, i, from) # {}}
                i      == Min(starts)
                k      == Max(Handles(t, i, from))
            IN  IF starts = {} THEN <<>>
                ELSE <<SubSeq(t, i + 1, i + k)>> \o after[i + k + 1]
    IN  after[1]

\* In order of first appearance.
Deduplicated(s) ==
    LET seen[i \in 0..Len(s)] == IF i = 0 THEN <<>> ELSE Noted(seen[i - 1], s[i])
    IN  seen[Len(s)]

\* <\/?[^>]+(>|$) at position i: where the match ends, 0 if there is none.
TagMatch(t, i) ==
    LET ends(body) == {e \in body..Len(t) :
                          /\ \A j \in body..e : t[j] # ">"
                          /\ e = Len(t) \/ t[e + 1] = ">"}
        slashed == IF i < Len(t) /\ t[i + 1] = "/" THEN ends(i + 2) ELSE {}
        all     == IF slashed # {} THEN slashed ELSE ends(i + 1)
    IN  IF t[i] # "<" \/ all = {} THEN 0
        ELSE IF Max(all) = Len(t) THEN Len(t) ELSE Max(all) + 1

Replaced(t) ==
    LET from[i \in 1..Len(t) + 1] ==
            IF i > Len(t) THEN <<>>
            ELSE IF TagMatch(t, i) = 0 THEN <<t[i]>> \o from[i + 1]
            ELSE from[TagMatch(t, i) + 1]
    IN  from[1]

-----------------------------------------------------------------------------
\* A text in which no no-break space is left that the engine takes for a space.
Blotted(t) == [i \in DOMAIN t |-> IF t[i] = "nbsp" THEN "<" ELSE t[i]]

\* "The JS engine BACKTRACKS", and the scan does: the mentions of a text are
\* the platform's, in their order, but for its no-break spaces.  They end no
\* handle and let none begin, as a character does that has no part in any.
SameMentions == ExtractMentions(text) = Deduplicated(MatchedMentions(Blotted(text)))

\* What is stored of a text is what the platform would have stored, and is
\* stored as it is when it is sent again: stripping a tag never makes another.
SameStorage ==
    /\ SanitizeForStorage(text) = Replaced(text)
    /\ SanitizeForStorage(Replaced(text)) = Replaced(text)

(***************************************************************************)
(* What a comment or a document says, and the code does not keep.          *)
(***************************************************************************)
\* "Same answers, no regex engine": of any text.  The engine's \s has the
\* no-break space.
SameAnswers == ExtractMentions(text) = Deduplicated(MatchedMentions(text))
=============================================================================
