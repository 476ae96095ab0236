SPECIFICATION FairSpec
CONSTANTS
    ta = ta
    tb = tb
    ra = ra
    wa = wa
    xa = xa
    rb = rb
    wb = wb
    f = f
    Teams = {ta, tb}
    Players = {ra, wa, xa, rb, wb, f}
    Slots = {"RB", "FLEX"}
    Position <- MCPosition
    SlotPosition <- MCSlotPosition
    FlexEligible = {"RB", "WR"}
    Bench = 1
    Game <- MCGame
    Keys = {"k", "l"}
    Drafted <- MCDrafted
    None = None
    MaxWeek = 2
    MaxMoves = 3
    Deals <- MCDeals
    MaxThreads = 1
    MaxRounds = 2
INVARIANTS
    TradesConsistent
PROPERTIES
    RecordsSound
    LineupsHold
    TradesAreExact
    ExpiredAreMarked
