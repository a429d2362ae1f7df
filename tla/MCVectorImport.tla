--------------------------- MODULE MCVectorImport ---------------------------
(* Checking VectorImport with TLC: jobs are interchangeable.               *)
EXTENDS VectorImport, TLC

JobSymmetry == Permutations(Jobs)
=============================================================================
