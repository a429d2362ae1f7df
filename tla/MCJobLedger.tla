---------------------------- MODULE MCJobLedger ----------------------------
(* Model values and bounds for checking JobLedger with TLC.                *)
EXTENDS JobLedgerRefinement, TLC

(* A handler that reports twice; 4 stands for 100 percent.                 *)
MCScript == <<2, 3>>

WorkerSymmetry == Permutations(Workers)
=============================================================================
