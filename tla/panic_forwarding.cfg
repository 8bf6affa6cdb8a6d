SPECIFICATION FairSpec
CONSTANTS
    None = None
    MaxPanics = 3
    STRUCTURED_LOG_QUEUE_CAPACITY = 1
INVARIANTS
    TypeOK
    OnlyPersistedIsReported
PROPERTIES
    RecordKeptUntilAccepted
    ImplementsMailbox
    RecoveredPanicIsForwarded
