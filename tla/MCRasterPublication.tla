------------------------ MODULE MCRasterPublication ------------------------
(* Checking RasterPublication with TLC: jobs are interchangeable.          *)
EXTENDS RasterPublication, TLC

JobSymmetry == Permutations(Jobs)
=============================================================================
