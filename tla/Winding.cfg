SPECIFICATION Spec
CONSTANTS
    Fuel = 6
    MaxCells = 3
    MaxKonts = 2
    TailCaptures = FALSE
    LooseErrors = FALSE
INVARIANTS
    ExtentsMatchStack
    HandlerMatchesStack
    BrokenIsUnwound
PROPERTY
    ImplementsExtents
