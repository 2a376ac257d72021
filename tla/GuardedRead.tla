----------------------------- MODULE GuardedRead -----------------------------
(***************************************************************************)
(* What a read promises that asks first and answers after, over stores     *)
(* that others write in between: one answer, given once; what it shows the *)
(* caller was entitled to, each of the facts that entitle having held at   *)
(* some moment of the request; and it is refused only to a caller who was  *)
(* not entitled throughout.                                                *)
(***************************************************************************)
CONSTANTS
    Things,         \* what can be shown
    Facts           \* what may hold in the stores, and entitle

VARIABLES
    ways,           \* for each thing the sets of facts that entitle to it
    entry,          \* the sets of facts that let the request in
    ever,           \* the facts that have held at some moment of the request,
    always,         \* and those that have held at each
    answer,         \* "none", "shown", "refused" or "failed"
    shown

Entitled(sets, facts) == \E way \in sets : way \subseteq facts

Init ==
    /\ ways \in [Things -> SUBSET SUBSET Facts] /\ entry \subseteq SUBSET Facts
    /\ ever \subseteq Facts /\ always = ever
    /\ answer = "none" /\ shown = {}

\* The stores change while there is no answer.
Witness ==
    /\ answer = "none"
    /\ ever \subseteq ever' /\ ever' \subseteq Facts /\ always' \subseteq always
    /\ UNCHANGED <<answer, shown>>

Show ==
    /\ answer = "none" /\ answer' = "shown"
    /\ Entitled(entry, ever)
    /\ shown' \subseteq {t \in Things : Entitled(ways[t], ever)}
    /\ UNCHANGED <<ever, always>>

Refuse ==
    /\ answer = "none" /\ answer' = "refused"
    /\ ~Entitled(entry, always)
    /\ UNCHANGED <<ever, always, shown>>

Fail ==
    /\ answer = "none" /\ answer' = "failed"
    /\ UNCHANGED <<ever, always, shown>>

Next == (Witness \/ Show \/ Refuse \/ Fail) /\ UNCHANGED <<ways, entry>>

vars == <<ways, entry, ever, always, answer, shown>>

Spec == Init /\ [][Next]_vars
=============================================================================
