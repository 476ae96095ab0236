SPECIFICATION SessionSpec
CONSTANTS
    Teams = {t1, t2}
    Players = {p1, p2, p3}
    Runners = {r1}
    Rounds = 1
    Capacity = 1
    None = None
    Requests = {c1}
INVARIANT BoardMatchesClock
