------------------------------- MODULE MCReads -------------------------------
(***************************************************************************)
(* An instance of Reads.                                                   *)
(***************************************************************************)
EXTENDS Reads, TLC

CONSTANTS
    me, ana, page, banana, namesake, aide,
    direct, channel, x, y,
    photo, voice, clip, caption, remark

(***************************************************************************)
(* History: two routes into a conversation of any kind.  A message of the  *)
(* caller's and an answer to it; an answer to a post; one of another       *)
(* conversation; one without text; an answer to the answer.                *)
(***************************************************************************)
TargetValue == (1 :> 0) @@ (2 :> 1) @@ (3 :> 0) @@ (4 :> 0) @@ (5 :> 0) @@ (6 :> 2)
SenderValue == (1 :> me) @@ (2 :> ana) @@ (3 :> page) @@ (4 :> me) @@ (5 :> ana) @@ (6 :> page)

\* A member; a stranger; a member of what has a community in its document; and
\* who is no more than listed.
ChatGrantsValue ==
    {{"free", "clean", "row", "listed"}, {"free", "clean", "open"}, {"free", "row", "open"},
     {"free", "clean", "listed"}}

(***************************************************************************)
(* Posts and comments.  The post is 10 and 11 is another; a comment on     *)
(* each, an anonymous answer by who also signed the first, and a later     *)
(* answer without text.                                                    *)
(***************************************************************************)
PostOfValue == (1 :> 10) @@ (2 :> 11) @@ (3 :> 10) @@ (4 :> 10)
AuthorValue == (1 :> ana) @@ (2 :> page) @@ (3 :> ana) @@ (4 :> ana) @@ (10 :> page)

\* The post in one community and the other in the other; the other for friends
\* only; the post deleted; and the post in both.  In a community that is
\* private the viewer is a member or not, and one is not active.
PostRow(d, o, t) == [deleted |-> d, ordinary |-> o, tags |-> t]
PostStatesValue ==
    {(10 :> PostRow(FALSE, TRUE, {x})) @@ (11 :> PostRow(FALSE, TRUE, {y})),
     (10 :> PostRow(FALSE, TRUE, {})) @@ (11 :> PostRow(FALSE, FALSE, {})),
     (10 :> PostRow(TRUE, TRUE, {})) @@ (11 :> PostRow(FALSE, TRUE, {x})),
     (10 :> PostRow(FALSE, FALSE, {x, y})) @@ (11 :> PostRow(FALSE, TRUE, {}))}
Realm(a, p, m) == [active |-> a, private |-> p, member |-> m]
RealmStatesValue ==
    {(x :> Realm(TRUE, FALSE, FALSE)) @@ (y :> Realm(TRUE, FALSE, FALSE)),
     (x :> Realm(TRUE, TRUE, TRUE)) @@ (y :> Realm(TRUE, TRUE, FALSE)),
     (x :> Realm(TRUE, TRUE, FALSE)) @@ (y :> Realm(FALSE, FALSE, TRUE))}

\* Mentions in the first, in the other post's, in the last and of nothing;
\* replies by the anonymous answer and by one that is none.
MentionValue == (21 :> 1) @@ (22 :> 2) @@ (23 :> 4) @@ (24 :> 0) @@ (25 :> 3) @@ (26 :> 1)
SortValue    == [n \in 21 .. 26 |-> IF n \in {25, 26} THEN "replies" ELSE "mentions"]

(***************************************************************************)
(* Moderation: two messages of a direct conversation, one of a channel     *)
(* between them in the request; a message and a comment, and a message and *)
(* a post, with the same number.                                           *)
(***************************************************************************)
HoldingValue == (1 :> direct) @@ (2 :> channel) @@ (10 :> direct)
KindOfValue  == (direct :> "direct") @@ (channel :> "realm")
Clear        == {"free", "clean"} \X {direct, channel}
Member       == Clear \cup {<<"row", channel>>}
MediaGrantsValue ==
    {Clear \cup {<<"listed", channel>>}, Member \cup {<<"listed", direct>>},
     Member \cup {<<"row", direct>>}, {<<"listed", direct>>, <<"clean", direct>>}}
RequestsValue == {<<"messages", <<10, 2, 1>> >>, <<"messages", <<>> >>,
                  <<"post", <<10>> >>, <<"comments", <<2, 1>> >>}
FamilyValue == (photo :> "messages") @@ (voice :> "messages") @@ (clip :> "messages")
                  @@ (caption :> "post") @@ (remark :> "comments")
SubjectValue == (photo :> 10) @@ (voice :> 2) @@ (clip :> 1) @@ (caption :> 10) @@ (remark :> 1)

(***************************************************************************)
(* Search: a user; a realm with the handle in the middle of its own; a     *)
(* realm without a handle; a bot with the user's handle; and the bot that  *)
(* asks.                                                                   *)
(***************************************************************************)
KindValue   == (ana :> "user") @@ (banana :> "realm") @@ (page :> "realm")
                   @@ (namesake :> "bot") @@ (aide :> "bot")
HandleValue == (ana :> <<"a", "n">>) @@ (banana :> <<"b", "a", "n">>) @@ (page :> <<>>)
                   @@ (namesake :> <<"a", "n">>) @@ (aide :> <<"a", "n", "b">>)
NameValue   == (ana :> <<"é">>) @@ (banana :> <<"b">>) @@ (page :> <<"b", " ", "a", "n">>)
                   @@ (namesake :> <<>>) @@ (aide :> <<"é">>)
PlaceValue  == (ana :> 2) @@ (banana :> 4) @@ (page :> 1) @@ (namesake :> 2) @@ (aide :> 3)

LettersValue == {"a", "A", "b", "n", "é", "_", "%", "\\", " ", "@"}
LowerValue   == [c \in LettersValue |-> IF c = "A" THEN "a" ELSE c]
BytesValue   == [c \in LettersValue |-> IF c = "é" THEN 2 ELSE 1]
QueriesValue == {<<"@", "A", "n", " ">>, <<"b", "a", "n">>, <<" ", "a">>, <<"é">>, <<"_", "_">>,
                 <<"b", "\\", "a">>}

StandingRow(a, v, s) == [active |-> a, verified |-> v, system |-> s]
Good == [e \in {ana, banana, page, namesake, aide} |-> StandingRow(TRUE, TRUE, FALSE)]
StandingStatesValue ==
    {Good, [Good EXCEPT ![ana] = StandingRow(TRUE, FALSE, FALSE)],
     [Good EXCEPT ![namesake] = StandingRow(TRUE, TRUE, TRUE)],
     [Good EXCEPT ![ana] = StandingRow(FALSE, TRUE, FALSE),
                  ![banana] = StandingRow(FALSE, FALSE, FALSE)]}
=============================================================================
