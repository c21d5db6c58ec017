CONSTANTS
    POLICY = POLICY
    ca = ca
    pub = pub
    sub = sub
    Values = 3
    Principal <- MCPrincipal
    Authorizers <- MCAuthorizers
    AssertionLists <- MCAssertionLists
SPECIFICATION FairSpec
CHECK_DEADLOCK FALSE
INVARIANTS
    TypeOK
    Founded
    SettledWithoutCycles
    DelegateIsObeyed
PROPERTY Returns
