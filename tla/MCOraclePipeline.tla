-------------------------- MODULE MCOraclePipeline --------------------------
(* Model values for checking OraclePipeline with TLC.                     *)
EXTENDS OraclePipeline

(* n1 holds stake; n2 has never staked.                                   *)
MCStakeFirstOnly == [n \in Nodes |-> IF n = "n1" THEN 3 ELSE NoAccount]

(* Two nodes staked 1 and 3 of the governance total.                      *)
MCStakeTwo == [n \in Nodes |-> IF n = "n1" THEN 1 ELSE 3]

(* n1 emits two batches, enough to find its channels full; others one.   *)
MCMaxBatches == [n \in Nodes |-> IF n = "n1" THEN 2 ELSE 1]
=============================================================================
