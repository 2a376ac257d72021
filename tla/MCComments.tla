----------------------------- MODULE MCComments -----------------------------
(***************************************************************************)
(* Instances of Comments for TLC.                                          *)
(***************************************************************************)
EXTENDS Comments, TLC

CONSTANTS d1, d2, d3, top, reply, other, o, a, b, x, y

\* A thread of two, and a comment of another post.
Parents == (top :> None) @@ (reply :> top) @@ (other :> None)
OldHands == (top :> o) @@ (reply :> b) @@ (other :> b)

\* The first answers the reply, whose author it also mentions.  The second
\* answers the first; the third aims at the other post.
Authors == [d \in Drafts |-> IF d = d1 THEN a ELSE b]
Aims    == [d \in Drafts |-> CASE d = d1 -> reply [] d = d2 -> d1 [] d = d3 -> other]
Names   == [d \in Drafts |-> IF d = d1 THEN {a, b} ELSE {}]

\* Two communities, and nobody who is always in both.
MayBeTagged == {{}, {x}, {y}}
Members == {{<<b, x>>, <<o, x>>}, {<<a, x>>, <<o, x>>, <<b, y>>}}

\* Bounds: the third draft is through before the others begin; of the three
\* only the first fails or loses its frame; and no job, of which no property
\* speaks, is lost.
Bounds ==
    /\ {pc[d1], pc[d2]} = {"idle"} \/ pc[d3] \in Answers
    /\ \A d \in Drafts \ {d1} :
          /\ pc[d] # "500"
          /\ pc[d] \in {"jobs", "reply", "resolve", "mention", "row", "write", "201"} =>
                Activity(d) \in activity
    /\ \A d \in Drafts :
          pc[d] \in {"reply", "resolve", "mention", "row", "write", "201"} =>
                {d} \X {"ranking", "affinity"} \subseteq jobs
=============================================================================
