CONSTANTS
    PRIME = 257
    Settings <- MCSettings
SPECIFICATION Spec
CHECK_DEADLOCK FALSE
INVARIANTS
    AnyQuorumRecovers
    FewerTellNothing
