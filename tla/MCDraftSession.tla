--------------------------- MODULE MCDraftSession ---------------------------
(* Model-checking instance of DraftSession.                                 *)
EXTENDS DraftSession, TLC

Symmetry == Permutations(Players) \cup Permutations(Requests)
=============================================================================
