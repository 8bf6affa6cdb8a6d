SPECIFICATION HourlySpec
CONSTANTS
    None = None
    Hour <- TwoHours
    MaxReadings = 4
    MaxCumulative = 2
    MaxDate = 1
    MaxTime = 3
    LocalDay <- TwoDays
    LocalHour <- HoursOfTwoDays
    UtcDay <- UtcDays
    MaxEnergy = 2
    MaxUse = 1
    MaxRestarts = 1
INVARIANTS
    BucketsAreRuns
    BaselinesAreTodays
    TypeOK
    NeverOvercounts
    NegativeOnlyIfTotalFell
PROPERTIES
    BucketGrows
    MisdatedHasACause
CHECK_DEADLOCK FALSE
