SPECIFICATION ServiceSpec
CONSTANTS
    Teams = {t1, t2}
    Players = {p1, p2, p3, p4}
    Runners = {r1}
    Rounds = 2
    Capacity = 2
    None = None
SYMMETRY Symmetry
INVARIANTS
    DraftConsistent
    BoardMatchesClock
    PicksFollowSnake
    SelectionsSound
    FairDraft
PROPERTIES
    KeepsPromise
    LockHoldsTheDraft
