SPECIFICATION Spec
CONSTANTS
    early = early
    late = late
    trade = trade
    manual = manual
    Tasks = {early, late, trade, manual}
    Kind <- MCKind
    Manual = {manual}
    Lineups = {x, y}
    MaxAge <- MCMaxAge
    Cooldown = 1
    None = None
    MaxTime = 1
    MaxNews = 1
    MaxWeek = 2
SYMMETRY Symmetry
INVARIANTS
    ReviewsConsistent
    SkipsAreSafe
PROPERTIES
    NoRepeatedReviews
    StampsAdvance
