SPECIFICATION FairSpec
CONSTANTS
    None = None
    INITIAL_RECONNECT_DELAY_SECS = 2
    MAX_RECONNECT_DELAY_SECS = 30
    MaxDisconnects = 1
    OVENPLAAT_DIMMER_COMMAND_QUEUE_DEPTH = 2
    MaxPresses = 3
    MaxFailures = 1
    MaxSummaries = 1
INVARIANTS
    TypeOK
    DelaysFollowTheOutage
    PressesAccountedFor
PROPERTIES
    BlockedUntilNewSession
    SessionSettlesOrIsBlocked

CHECK_DEADLOCK FALSE
