SPECIFICATION RenderingSpec
CONSTANTS
    Advances = {1, 2, 4}
    BlankAdvance = 1
    max_width = 4
    MaxText = 7
    Hour <- BarHours
    Energies <- Days
INVARIANTS
    EveryLetterDrawn
    LinesFit
    WidthIsDrawn
    BreaksAreNeeded
    TextsStayReadable
    GraphStaysInItsRow
    SidesShareTheScale
    FullestHoursFillTheGraph
CHECK_DEADLOCK FALSE
