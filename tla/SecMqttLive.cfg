CONSTANTS
    KSN_NUM = 2
    MAX_SK_USAGE = 2
    MAXDBROW = 2
    RECON = {TRUE, FALSE}
    Faults = {"link", "deaf", "restart", "reboot", "refuse"}
    MaxFaults = 2
    MaxPhase = 3
    MaxKey = 3
SPECIFICATION FairSpec
CHECK_DEADLOCK FALSE
PROPERTIES
    WaitEnds
    ProtocolSucceeds
