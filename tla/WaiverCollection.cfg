SPECIFICATION Spec
CONSTANTS
    Teams = {t1, t2}
    MaxAttempts = 2
    MaxFaults = 1
SYMMETRY SymmetricTeams
INVARIANTS
    CheckpointsSound
    OneAttemptAtWork
    ScheduledRunDecidesAll
PROPERTIES
    CheckpointsLast
