--------------------------- MODULE MCPublication ---------------------------
(* Small instances of Publication for TLC.                                  *)
EXTENDS Publication, TLC

PublicationSymmetry == Permutations(Runs) \union Permutations(Values)
                         \union Permutations(Requests)
=============================================================================
