------------------------------ MODULE JobQueue ------------------------------
(***************************************************************************)
(* What Publish promises its callers: one answer to each call, given once, *)
(* and the call's job on its queue at most once, before the answer, after  *)
(* it or never.  Neither answer says which: "best-effort".                 *)
(***************************************************************************)
EXTENDS Naturals

CONSTANTS Jobs

VARIABLES called, queued, result

vars == <<called, queued, result>>

Init ==
    /\ called = {}
    /\ queued = [j \in Jobs |-> 0]
    /\ result = [j \in Jobs |-> "none"]

Call(j) ==
    /\ called' = called \cup {j}
    /\ UNCHANGED <<queued, result>>

Settle(j, answer) ==
    /\ j \in called /\ result[j] = "none"
    /\ result' = [result EXCEPT ![j] = answer]
    /\ UNCHANGED <<called, queued>>

HandOver(j) ==
    /\ j \in called /\ queued[j] = 0
    /\ queued' = [queued EXCEPT ![j] = 1]
    /\ UNCHANGED <<called, result>>

Next == \E j \in Jobs :
           \/ Call(j)
           \/ \E answer \in {"sent", "failed"} : Settle(j, answer)
           \/ HandOver(j)

Spec == Init /\ [][Next]_vars
=============================================================================
