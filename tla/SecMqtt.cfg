CONSTANTS
    KSN_NUM = 2
    MAX_SK_USAGE = 2
    MAXDBROW = 3
    RECON = {TRUE, FALSE}
    Faults = {"slow", "link", "refuse", "deaf", "restart", "reboot"}
    MaxFaults = 2
    MaxPhase = 3
    MaxKey = 3
SPECIFICATION Spec
CHECK_DEADLOCK FALSE
INVARIANTS
    TypeOK
    CheckedKeyIsHeld
    InStepUntilRetry
    KeyUseIsBounded
PROPERTY SharesGoForward
