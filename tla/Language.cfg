SPECIFICATION Spec
CONSTANTS
    FixnumMax = 31
    TextLength = 36
    Programs <- AllPrograms
    InitGlobals <- Glob
INVARIANTS
    CodeIsWellFormed
    ResultMatchesMeaning
    ReadsBack
    LinesAreRight
    CutTextIsNotRead
