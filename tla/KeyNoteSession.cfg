SPECIFICATION FairSpec
CONSTANTS
    k1 = k1
    k2 = k2
    Key <- MCKey
    Nobody = Nobody
    Var = Var
    Bad = Bad
    None = None
    Buckets = 2
    keyhash <- MCkeyhash
    Texts <- MCTexts
    MaxSessions = 2
    MaxAssertions = 2
    MaxAuthorizers = 1
    MaxActions = 1
INVARIANTS
    UniquePlace
    QuerySeesPresent
    SignaturesAreCurrent
PROPERTIES
    QueryEnds
CHECK_DEADLOCK FALSE
