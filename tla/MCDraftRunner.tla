--------------------------- MODULE MCDraftRunner ---------------------------
(* Model-checking instance of DraftRunner.                                  *)
EXTENDS DraftRunner, TLC

Symmetry == Permutations(Players) \cup Permutations(Runners)
=============================================================================
