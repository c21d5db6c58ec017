CONSTANTS
    KSN_NUM = 3
    SSS_T = 2
    Faults = {"slow", "link", "noise", "restart", "refuse", "subscriber"}
    MaxFaults = 2
    MaxKey = 2
SPECIFICATION FairSpec
CHECK_DEADLOCK FALSE
INVARIANTS
    TypeOK
    RestsWithKey
    AnswersFollowVerdicts
PROPERTIES
    KeyGoesForward
    ComShareEnds
