--------------------------- MODULE MCDatabaseOpen ---------------------------
(* DatabaseOpen for TLC.  Clients differ in nothing but their names, so a   *)
(* run of safety properties may identify the states that permute them.      *)
EXTENDS DatabaseOpen, TLC

ClientSymmetry == Permutations(Clients)
=============================================================================
