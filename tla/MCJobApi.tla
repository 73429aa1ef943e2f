------------------------------ MODULE MCJobApi ------------------------------
(* Small instances of JobApi for TLC.                                       *)
EXTENDS JobApi, TLC

IdSymmetry == Permutations(Ids)
=============================================================================
