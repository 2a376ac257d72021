-------------------------------- MODULE Scope --------------------------------
(***************************************************************************)
(* Scope of src/internal/presence/scope.go within announce of presence.go: *)
(* one entity is announced, online or offline.  Who must be told is read   *)
(* from two stores, one after the other, while contacts and conversations  *)
(* change, and any of it may fail.  Presence has the streams around this,  *)
(* and takes who must be told as given.                                    *)
(***************************************************************************)
EXTENDS World

CONSTANTS Self, People  \* who is announced, and everybody else

ScopeAssumption == WorldAssumption /\ Self \notin People

VARIABLES
    saying,         \* TRUE in an online announcement
    pc,
    seen,           \* the ids found,
    left,           \* those not published to yet
    dot,            \* what each of the others was last told
    lost            \* history: what of this announcement has failed

vars == <<world, saying, pc, seen, left, dot, lost>>

\* A contact is connected and visible, a partner shares a single conversation,
\* and a member a group's.
Facts == {"contact", "partner", "member"} \X People
Are(what, facts) == {p \in People : <<what, p>> \in facts}

Init ==
    /\ holds \in SUBSET Facts /\ WorldInit
    /\ saying \in BOOLEAN /\ pc = "contacts"
    /\ seen = {} /\ left = {} /\ lost = {}
    /\ dot = [p \in People |-> ~saying]

AskContacts ==
    /\ pc = "contacts" /\ pc' = "partners"
    /\ seen' = Are("contact", holds)
    /\ UNCHANGED <<world, saying, left, dot, lost>>

\* The rows that came before the failure count.
ContactsFail ==
    /\ pc = "contacts" /\ pc' = "partners"
    /\ seen' \in SUBSET Are("contact", holds)
    /\ lost' = lost \cup {"contacts"}
    /\ UNCHANGED <<world, saying, left, dot>>

Conversing      == Are("partner", holds)
Recipients(ids) == ids \ {Self}

\* participant_ids names both sides.
AskPartners ==
    /\ pc = "partners" /\ pc' = "sign"
    /\ seen' = seen \cup Conversing \cup (IF Conversing = {} THEN {} ELSE {Self})
    /\ UNCHANGED <<world, saying, left, dot, lost>>

\* No conversation is decoded, or all are; the contacts still count.
PartnersFail ==
    /\ pc = "partners" /\ pc' = "sign"
    /\ lost' = lost \cup {"partners"}
    /\ UNCHANGED <<world, saying, seen, left, dot>>

Sign ==
    /\ pc = "sign" /\ pc' = "publish"
    /\ left' = Recipients(seen)
    /\ UNCHANGED <<world, saying, seen, dot, lost>>

SignFails ==
    /\ pc = "sign" /\ pc' = "publish"
    /\ left' = {} /\ lost' = lost \cup {"frame"}
    /\ UNCHANGED <<world, saying, seen, dot>>

\* One turn of the loop; a failure costs that one its frame.
Publish ==
    /\ \E p \in left :
          /\ left' = left \ {p}
          /\ \/ dot' = [dot EXCEPT ![p] = saying] /\ UNCHANGED lost
             \/ lost' = lost \cup {p} /\ UNCHANGED dot
    /\ UNCHANGED <<world, saying, pc, seen>>

Told == pc = "publish" /\ left = {}

\* Others connect, disconnect, start and leave conversations.
Others ==
    /\ ~Told
    /\ \E fact \in Facts :
          Becomes(IF fact \in holds THEN holds \ {fact} ELSE holds \cup {fact})
    /\ UNCHANGED <<saying, pc, seen, left, dot, lost>>

Next ==
    \/ AskContacts \/ ContactsFail \/ AskPartners \/ PartnersFail
    \/ Sign \/ SignFails \/ Publish
    \/ Others

Spec == Init /\ [][Next]_vars
-----------------------------------------------------------------------------
\* The type invariant.
TypeOK ==
    /\ saying \in BOOLEAN /\ pc \in {"contacts", "partners", "sign", "publish"}
    /\ holds \subseteq ever /\ ever \subseteq Facts /\ always \subseteq holds
    /\ seen \subseteq People \cup {Self} /\ left \subseteq seen \ {Self}
    /\ dot \in [People -> BOOLEAN]
    /\ lost \subseteq {"contacts", "partners", "frame"} \cup People

\* As a guarded read, of which those are the answer who are told.  "Group
\* co-members are deliberately excluded": who is told was a contact or shared a
\* single conversation at some moment of the announcement, whatever groups they
\* are in together.
Entry   == {{}}
Ways(p) == {{<<"contact", p>>}, {<<"partner", p>>}}
Answer  == IF Told THEN "shown" ELSE "none"
Shown   == IF Told THEN {p \in People : dot[p] = saying} ELSE {}

\* "The other half still counts": whoever was a contact, or shared a single
\* conversation, throughout an announcement has it, unless the reading of that
\* very half, or the frame, failed.
NothingSkipped ==
    Told /\ "frame" \notin lost =>
        \A p \in People \ lost :
            \/ <<"contact", p>> \in always /\ "contacts" \notin lost
            \/ <<"partner", p>> \in always /\ "partners" \notin lost
            => dot[p] = saying
=============================================================================
