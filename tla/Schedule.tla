------------------------------ MODULE Schedule ------------------------------
(***************************************************************************)
(* The regular-season schedule of services/schedule.py: a round robin by   *)
(* the circle method, repeated until the weeks are filled, home and away   *)
(* exchanged in every second cycle.                                        *)
(***************************************************************************)
EXTENDS Naturals, Sequences, FiniteSets

\* One turn of the circle: the first team stays, the last moves next to it.
Rotated(s) == <<s[1], s[Len(s)]>> \o SubSeq(s, 2, Len(s) - 1)

RotatedBy(s, k) ==
    LET turned[i \in 0..k] == IF i = 0 THEN s ELSE Rotated(turned[i - 1])
    IN  turned[k]

Swap(p) == [home |-> p.away, away |-> p.home]

\* round_robin_pairings, its rounds and pairs counted from 1.
RoundRobin(s) ==
    [r \in 1..Len(s) - 1 |->
        LET circle == RotatedBy(s, r - 1)
        IN  [i \in 1..Len(s) \div 2 |->
                LET pair == [home |-> circle[i], away |-> circle[Len(s) + 1 - i]]
                IN  IF (r + i) % 2 = 1 THEN Swap(pair) ELSE pair]]

\* generate_schedule: the pairs of week w.
WeekPairs(s, w) ==
    LET rounds == Len(s) - 1
        pairs == RoundRobin(s)[((w - 1) % rounds) + 1]
        cycle == (w - 1) \div rounds
    IN  IF cycle % 2 = 1 THEN [i \in DOMAIN pairs |-> Swap(pairs[i])] ELSE pairs
-----------------------------------------------------------------------------
(* What a schedule has to be.                                              *)

Meeting(s, w, t, u) ==
    \E i \in DOMAIN WeekPairs(s, w) : WeekPairs(s, w)[i] = [home |-> t, away |-> u]

\* Every team plays exactly once in a week; in a cycle of Len(s) - 1 weeks any
\* two teams meet exactly once; and over two cycles each of them is once at home.
FairFor(s) ==
    LET rounds == Len(s) - 1
        teams == {s[i] : i \in DOMAIN s}
    IN  /\ \A w \in 1..2 * rounds :
              LET pairs == WeekPairs(s, w)
              IN  {pairs[i].home : i \in DOMAIN pairs} \cup {pairs[i].away : i \in DOMAIN pairs} = teams
        /\ \A t \in teams : \A u \in teams \ {t} :
              /\ Cardinality({w \in 1..rounds : Meeting(s, w, t, u) \/ Meeting(s, w, u, t)}) = 1
              /\ Cardinality({w \in 1..2 * rounds : Meeting(s, w, t, u)}) = 1
=============================================================================
