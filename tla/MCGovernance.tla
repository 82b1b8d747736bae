---------------------------- MODULE MCGovernance ----------------------------
(* A small instance of Governance: two stakers, one with stake left in an *)
(* old-program account, a clock of a few days and one proposal.           *)
EXTENDS Governance

MCLegacy == [s \in Stakers |-> IF s = "s1" THEN 2 ELSE 0]
MCWallet == [s \in Stakers |-> IF s = "s1" THEN 0 ELSE 2]
MCTiers == <<2, 2, 2, 2>>
MCPerf == {<<0, 1, 1>>}
=============================================================================
