-------------------------- MODULE MCWaiverCollection --------------------------
(* Model-checking instance of WaiverCollection; teams are interchangeable.     *)
EXTENDS WaiverCollection, TLC

SymmetricTeams == Permutations(Teams)
=============================================================================
