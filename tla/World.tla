-------------------------------- MODULE World --------------------------------
(***************************************************************************)
(* The stores as one request finds them: the facts that hold in them, and  *)
(* what of that was so at some moment, and at all moments, of the request. *)
(* The reads of this service write nothing, so that one request and what   *)
(* others write meanwhile is all there is to them.                         *)
(***************************************************************************)
EXTENDS Naturals

CONSTANT MaxChanges     \* bound on what others write during a request

WorldAssumption == MaxChanges \in Nat

VARIABLES
    holds,          \* the facts that hold now
    ever, always,   \* history: those that held at some, and at each, moment
    changes

world == <<holds, ever, always, changes>>

WorldInit ==
    /\ ever = holds /\ always = holds
    /\ changes = 0

\* Others write.
Becomes(facts) ==
    /\ changes < MaxChanges /\ changes' = changes + 1
    /\ holds' = facts /\ ever' = ever \cup facts /\ always' = always \cap facts
=============================================================================
