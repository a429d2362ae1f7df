------------------------ MODULE JobLedgerRefinement ------------------------
(* The ledger with its broker and workers implements the contract that     *)
(* JobContract states about the rows alone.                                *)
EXTENDS JobLedger

(* The owner of a job is the worker inside its handler code. *)
Owned(j) == \E w \in Workers : Executing(w) /\ task[w] = j

Contract == INSTANCE JobContract
  WITH status <- [j \in Jobs |-> job[j].status],
       cancel <- [j \in Jobs |-> job[j].cancel],
       owned  <- [j \in Jobs |-> Owned(j)]

(* Every step of the ledger, the broker and the workers is a step of the   *)
(* contract or leaves the contract's state alone.                          *)
ImplementsContract == Contract!Spec
=============================================================================
