SPECIFICATION FairSpec
CONSTANTS
    t1 = t1
    t2 = t2
    t3 = t3
    a = a
    b = b
    x1 = x1
    x2 = x2
    x3 = x3
    x4 = x4
    QB = QB
    Teams = {t1, t2, t3}
    Players = {a, b, x1, x2, x3, x4}
    Slots = {QB}
    KickedOff = {x3}
    Limit = 2
    Bench = Bench
    None = None
    Fits <- MCFits
    Rosters <- MCRosters
    ClaimLists <- MCClaimLists
INVARIANTS
    RunConsistent
    AwardsSound
PROPERTIES
    KeepsRollingOrder
    LineupsStayComplete
    RunEnds
CHECK_DEADLOCK FALSE
