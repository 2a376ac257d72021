--------------------------- MODULE MCSendMessage ----------------------------
(***************************************************************************)
(* Instances of SendMessage for TLC.                                       *)
(***************************************************************************)
EXTENDS SendMessage, TLC

CONSTANTS s1, s2, a, b, c

FromAandB == [s \in Sends |-> IF s = s1 THEN a ELSE b]
\* One mentions the other, itself and a stranger; the other a community.
TheyMention == [s \in Sends |-> IF s = s1 THEN {a, b} ELSE {c}]
TheyClaim == [s \in Sends |-> IF s = s1 THEN "group" ELSE "single"]

\* A contact that comes and goes, once with a community on the other side; or
\* a realm with two members, one of whom may leave.
Contacts   == {{}, {<<a, b>>, <<b, a>>}, {<<a, c>>}}
Members    == {{<<a, a>>, <<b, b>>}, {<<a, a>>}}
RowsOfKind == [k \in Kinds |-> IF k = "none" THEN Contacts ELSE Members]

Participants == {{a, b}, {a, c}}

\* A bound: of the two only the first fails, or is lost once its message is
\* stored, or reaches one of its receivers and not another.
OnlyTheFirstFails ==
    /\ pc[s1] = "gone" => s1 \in messages
    /\ {f[2] : f \in {g \in frames : g[1] = s1}} \in {{}, {b}, receivers[s1]}
    /\ pc[s2] \notin {"500", "gone"} /\ s2 \notin unread
    /\ pc[s2] \in {"lock", "bump", "plain", "mention", "201"} =>
          {s2} \X receivers[s2] \subseteq frames
    /\ pc[s2] \in {"mention", "201"} =>
          {s2} \X {"plain"} \X PlainTargets(s2) \subseteq pushes
    /\ pc[s2] = "201" =>
          {s2} \X {"mention"} \X MentionTargets(s2) \subseteq pushes
=============================================================================
