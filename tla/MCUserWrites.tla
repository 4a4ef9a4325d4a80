---------------------------- MODULE MCUserWrites ----------------------------
(* Instances of UserWrites for TLC.                                        *)
EXTENDS UserWrites, TLC

CONSTANTS u1, u2, p1, p2, r1, r2, r3

OneRequest == r1 :> p1
OnePod  == r1 :> p1 @@ r2 :> p1
TwoPods == r1 :> p1 @@ r2 :> p1 @@ r3 :> p2

Symmetry == Permutations(User) \cup Permutations({r1, r2})
=============================================================================
