CONSTANTS
    KSN_NUM = 2
    MAX_SK_USAGE = 2
    MAXDBROW = 3
    RECON = {FALSE}
    Faults = {"slow"}
    MaxFaults = 0
    MaxPhase = 2
    MaxKey = 2
SPECIFICATION Spec
CHECK_DEADLOCK FALSE
INVARIANT ConnectedMeansChecked
