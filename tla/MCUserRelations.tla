--------------------------- MODULE MCUserRelations --------------------------
(* Instances of UserRelations for TLC.                                     *)
EXTENDS UserRelations

Users == Permutations(User)
=============================================================================
