------------------------------ MODULE MCTrades ------------------------------
(* Model-checking instance of Trades: two teams with a running back and a receiver *)
(* at flex, one with a receiver on the bench, the other with a free place, and a   *)
(* free running back.                                                         *)
EXTENDS Trades

CONSTANTS ta, tb, ra, wa, xa, rb, wb, f

At(t, slot) == [team |-> t, slot |-> slot]
MCSlotPosition == [RB |-> "RB", FLEX |-> "FLEX"]
MCPosition == [p \in Players |-> IF p \in {ra, rb, f} THEN "RB" ELSE "WR"]
MCGame == [p \in Players |-> IF p \in {ra, wb, f} THEN "early" ELSE "late"]
MCDrafted ==
    [p \in Players |->
        CASE p = ra -> At(ta, "RB") [] p = wa -> At(ta, "FLEX") [] p = xa -> At(ta, "BENCH")
          [] p = rb -> At(tb, "RB") [] p = wb -> At(tb, "FLEX")
          [] OTHER -> None]
Deal(from, to, give, get, drops) ==
    [from |-> from, to |-> to, give |-> give, get |-> get, drops |-> drops]
\* Two uneven deals: one fills the recipient's free place and, when that is taken, needs
\* a drop of theirs; the other has a drop of the proposer.
MCDeals ==
    {Deal(ta, tb, {ra, xa}, {rb}, {}), Deal(tb, ta, {rb}, {ra, wa}, {wb})}
=============================================================================
