SPECIFICATION FairSpec
CONSTANTS
    Teams = {t1}
    MaxAttempts = 2
    MaxFaults = 1
PROPERTIES
    PeriodEnds
    JobEnds
