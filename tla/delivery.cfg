SPECIFICATION FairSpec
CONSTANTS
    None = None
    UPDATE_QUEUE_DEPTH = 2
    MaxValue = 2
    Heard = {"energy/solar", "energy/solar_garage", "energy/heatpump/status/cop", "energy/heatpump/status/relay/force", "energy/heatpump/status/mode"}
INVARIANTS
    TypeOK
    OnlyBurstsLoseUpdates
PROPERTIES
    ShowsSentValuesInOrder
    EventuallyShown
