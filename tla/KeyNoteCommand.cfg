CONSTANTS
    None = None
    Letters <- MCLetters
    Strays <- MCStrays
    Keys <- MCKeys
    CommandLines <- MCCommandLines
    BufferSize = 7
    YYMAXDEPTH = 9
SPECIFICATION Spec
CHECK_DEADLOCK FALSE
INVARIANTS
    TypeOK
    QueryIsAboutTheFiles
    GrantsHaveGrounds
    FailuresAreReported
PROPERTIES
    CommandEnds
