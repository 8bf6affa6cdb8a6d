SPECIFICATION HourlySpec
CONSTANTS
    None = None
    Hour <- TwoHours
    MaxReadings = 0
    MaxCumulative = 0
    MaxDate = 0
    MaxTime = 3
    LocalDay <- TwoDays
    LocalHour <- HoursOfTwoDays
    UtcDay <- UtcDays
    MaxEnergy = 2
    MaxUse = 1
    MaxRestarts = 0
PROPERTY ReconnectKeepsFinishedHours
