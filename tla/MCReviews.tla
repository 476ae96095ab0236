----------------------------- MODULE MCReviews -----------------------------
(* Model-checking instance of Reviews: overlapping jobs of two kickoffs, a trade *)
(* review and a lineup review of the commissioner. *)
EXTENDS Reviews, TLC

CONSTANTS early, late, trade, manual

MCKind == [t \in Tasks |-> IF t = trade THEN "TRADE_PROPOSAL" ELSE "LINEUP"]
MCMaxAge == [k \in Kinds |-> IF k = "LINEUP" THEN 1 ELSE 2]
Symmetry == Permutations({early, late}) \cup Permutations(Lineups)
=============================================================================
