SPECIFICATION Spec
CONSTANTS
    ta = ta
    tb = tb
    Teams <- MCTeams
    Reviews = {"job", "request"}
    MaxRounds = 2
    MaxAttempts = 2
    Stamped = {tb}
    None = None
    MaxThreads = 2
    MaxOutside = 1
INVARIANTS
    SettledWithinReview
    NothingIsAskedTwice
CHECK_DEADLOCK FALSE
