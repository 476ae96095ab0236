--------------------------- MODULE MCDraftService ---------------------------
(* Model-checking instance of DraftService.                                 *)
EXTENDS DraftService, TLC

Symmetry == Permutations(Players) \cup Permutations(Runners)
=============================================================================
