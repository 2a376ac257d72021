---------------------------- MODULE MCPublisher ----------------------------
(***************************************************************************)
(* Instances of Publisher for TLC: two requests handing over a push, and   *)
(* one a score.                                                            *)
(***************************************************************************)
EXTENDS Publisher, TLC

CONSTANTS j1, j2, j3, push, score

TwoQueues == (j1 :> push) @@ (j2 :> push) @@ (j3 :> score)
=============================================================================
