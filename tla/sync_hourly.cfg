SPECIFICATION FairSpec
CONSTANTS
    None = None
    UPDATE_QUEUE_DEPTH = 2
    MaxTime = 2
    LocalDay <- TwoHourDays
    UtcDay <- TwoHourDays
    BurstsOverflow = FALSE
INVARIANT StarvedOnlyAtMidnight
PROPERTY HourlySummaryUnlessStarved
