CONSTANTS
    Keys <- MCKeys
    Begins <- MCBegins
    Lengths <- MCLengths
    Written <- MCWritten
    MaxKeys = 2
    MaxCuts = 1
SPECIFICATION Spec
CHECK_DEADLOCK FALSE
INVARIANTS
    TextsReadBack
    SameKeysMeet
