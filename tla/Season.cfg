SPECIFICATION FairSpec
CONSTANTS
    t1 = t1
    t2 = t2
    t3 = t3
    t4 = t4
    Order <- MCOrder
    RegularWeeks = 2
    PlayoffWeeks <- MCPlayoffWeeks
    LastWeek = 6
    Scores <- MCScores
    MaxJobs = 2
    None = None
    MaxMoves = 1
INVARIANTS
    SeasonConsistent
    RulesAreFair
PROPERTIES
    ResultsStand
    SeedsFollowRecords
    SeasonEnds
