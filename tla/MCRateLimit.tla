---------------------------- MODULE MCRateLimit ----------------------------
(***************************************************************************)
(* Instances of RateLimit for TLC.                                         *)
(***************************************************************************)
EXTENDS RateLimit, TLC

\* One row that nobody edits: the clock and the requests do the work.
OnePlan == {[limit |-> 1, period |-> "minute"]}

\* An edited row: another period, and no limit at all.
EditedPlans ==
    {[limit |-> 1, period |-> "minute"], [limit |-> 1, period |-> "second"],
     [limit |-> NoLimit, period |-> ""]}

\* The bound on the driver's sending again: one call of a behaviour.
OneRetry ==
    Cardinality(resent) + Cardinality({r \in Requests : pc[r] = "again"}) <= 1

Symmetry == Permutations(Requests)
=============================================================================
