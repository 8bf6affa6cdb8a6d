SPECIFICATION Spec
CONSTANTS
    None = None
    SlotChunks = 2
    MaxUploads = 3
INVARIANTS
    TypeOK
    SelectedSlotStarts
PROPERTIES
    OnlyRunningImageIsConfirmed
    InstallsInOneStep
