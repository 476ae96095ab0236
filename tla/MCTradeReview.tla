--------------------------- MODULE MCTradeReview ---------------------------
(* Model-checking instance of TradeReview: two managers, one of them with the stamp *)
(* of an earlier review. *)
EXTENDS TradeReview

CONSTANTS ta, tb
MCTeams == <<ta, tb>>
=============================================================================
