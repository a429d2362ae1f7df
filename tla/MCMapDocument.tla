--------------------------- MODULE MCMapDocument ---------------------------
(* Checking MapDocument with TLC: requests are interchangeable, and so are *)
(* the versions of the dataset.                                            *)
EXTENDS MapDocument, TLC

MapSymmetry == Permutations(Requests) \union Permutations(DatasetVersions)
=============================================================================
