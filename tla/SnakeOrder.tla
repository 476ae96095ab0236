----------------------------- MODULE SnakeOrder -----------------------------
(***************************************************************************)
(* The turn order of the snake draft, from services/draft.py: the pure     *)
(* functions pick_coordinates and team_for_pick.  An order is a function   *)
(* from positions 1..n to teams; odd rounds run through it forward, even   *)
(* rounds backward.                                                        *)
(***************************************************************************)
EXTENDS Naturals

\* The round of overall pick k in a league of n teams, and the place of the
\* pick inside that round: the two halves of pick_coordinates.
RoundOfOffByOne(k, n) == (k \div n) + 1  \* mutant: a round ends one pick early
RoundOf(k, n) == ((k - 1) \div n) + 1
RoundPick(k, n) == ((k - 1) % n) + 1

\* The position in the draft order that is on the clock at pick k.
SlotForPick(k, n) ==
    IF RoundOf(k, n) % 2 = 1
    THEN RoundPick(k, n)
    ELSE n - RoundPick(k, n) + 1

\* The team on the clock at pick k.
TeamForPick(order, k, n) == order[SlotForPick(k, n)]
=============================================================================
