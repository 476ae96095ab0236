SPECIFICATION RunnerSpec
CONSTANTS
    Teams = {t1, t2}
    Players = {p1, p2}
    Runners = {r1, r2}
    Rounds = 1
    Capacity = 1
    None = None
    MaxAttempts = 2
    MaxStalls = 1
SYMMETRY Symmetry
INVARIANTS
    RunnerConsistent
PROPERTIES
    NoFencedCommit
    HolderKeepsDraft
