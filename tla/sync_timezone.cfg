SPECIFICATION Spec
CONSTANTS
    None = None
    UPDATE_QUEUE_DEPTH = 2
    MaxTime = 3
    LocalDay <- TwoHourDaysEast
    UtcDay <- TwoHourDays
    BurstsOverflow = FALSE
PROPERTY TodaysSummaryRestores
