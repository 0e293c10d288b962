SPECIFICATION Spec
CONSTANTS
    NStack = 6
    NSubexp = 3
    NClass = 2
    Length = 4
    MoreLength = 5
    Patterns <- MCPatterns
    Texts <- MCTexts
    ListSize = 20
    Ms = 3
CHECK_DEADLOCK FALSE
INVARIANT CompilesTheGrammar
INVARIANT FindsLeftmostLongest
INVARIANT CapturesBelongToGroups
