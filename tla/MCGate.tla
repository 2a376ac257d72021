------------------------------- MODULE MCGate -------------------------------
(***************************************************************************)
(* The instance of Gate for TLC.                                           *)
(***************************************************************************)
EXTENDS Gate, TLC

CONSTANTS r1, r2

Good == [active |-> TRUE, revoked |-> FALSE, expires |-> Never,
         community |-> FALSE, scopes |-> "with"]

\* A good token, a revoked one, and one about to expire that lacks the scope.
EditedRows ==
    {Good, [Good EXCEPT !.revoked = TRUE],
     [Good EXCEPT !.expires = 1, !.scopes = "without"]}

Grant == [effect |-> "grant", expires |-> Never]
Deny  == [effect |-> "deny", expires |-> 1]

\* A grant, and the same under a deny that passes.
EditedPermissions ==
    {[catalogued |-> TRUE, effects |-> e] : e \in {{Grant}, {Grant, Deny}}}

\* One request behind RequireScope, and one that is not.
BothTokens == (r1 :> "token") @@ (r2 :> "token")
=============================================================================
