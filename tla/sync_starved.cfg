SPECIFICATION FairSpec
CONSTANTS
    None = None
    UPDATE_QUEUE_DEPTH = 2
    MaxTime = 1
    LocalDay <- OneDay
    UtcDay <- OneDay
    BurstsOverflow = TRUE
PROPERTY HourlySummaryRepublished
