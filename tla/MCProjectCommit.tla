--------------------------- MODULE MCProjectCommit ---------------------------
(* ProjectCommit on two cards and two clients.  No symmetry: the run checks  *)
(* a liveness property.                                                      *)
EXTENDS ProjectCommit
=============================================================================
