------------------------------ MODULE MCSeason ------------------------------
(* Model-checking instance of Season: four teams, two regular weeks, a week   *)
(* without matchups before the playoffs and one after them.  The first matchup of a *)
(* week may end in a tie, the second with a win of either side.               *)
EXTENDS Season

CONSTANTS t1, t2, t3, t4

MCOrder == <<t1, t2, t3, t4>>
MCPlayoffWeeks == <<4, 5>>
Score(h, a) == [home |-> h, away |-> a]
MCScores == <<{Score(1, 0), Score(1, 1)}, {Score(1, 0), Score(0, 1)}>>
=============================================================================
