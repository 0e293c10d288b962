SPECIFICATION Spec
CONSTANTS
    FixnumMax = 31
    TextLength = 40
    Programs <- PatternRestCalls
    InitGlobals <- Glob
INVARIANTS
    ResultMatchesMeaning
