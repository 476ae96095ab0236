----------------------------- MODULE MCWaiverRun -----------------------------
(* Model-checking instance of WaiverRun: three teams, two free agents a (a    *)
(* quarterback) and b (not one), a starter x1 and x2 of the first two teams,  *)
(* and two players of the third, x3 who has kicked off and x4 who has not.    *)
EXTENDS WaiverRun

CONSTANTS t1, t2, t3, a, b, x1, x2, x3, x4, QB

MCFits == {a, x1, x2, x3, x4} \X {QB}

Free == [p \in {a, b} |-> Unowned]
On(t, slot) == [team |-> t, slot |-> slot]
MCRosters ==
    {[p \in {a, b, x1, x2, x3, x4} |->
        CASE p = x1 -> On(t1, QB)
          [] p = x2 -> On(t2, QB)
          [] p = x3 -> On(t3, QB)
          [] p = x4 -> On(t3, Bench)
          [] OTHER -> Free[p]]}

Claim(p, q) == [add |-> p, drop |-> q]
Menu(t) ==
    CASE t = t1 -> {Claim(a, None), Claim(a, x1), Claim(b, x1), Claim(x2, a)}
      [] t = t2 -> {Claim(a, x2), Claim(b, None), Claim(x1, None), Claim(b, a)}
      [] t = t3 -> {Claim(a, x3), Claim(a, x4), Claim(b, None)}

\* Up to two claims of the first two teams and one of the third.
MaxClaims(t) == IF t = t3 THEN 1 ELSE 2
MCClaimLists == [t \in {t1, t2, t3} |-> UNION {[1..n -> Menu(t)] : n \in 0..MaxClaims(t)}]
=============================================================================
