---------------------------- MODULE MCSpaceRoster -----------------------------
(* SpaceRoster for TLC: which user is which makes no difference.           *)
EXTENDS SpaceRoster, TLC

Symmetry == Permutations(Users)

===============================================================================
