CONSTANTS
    ks_values <- MCValues
    Action <- MCAction
    Strings <- MCStrings
    Rank <- MCRank
    Number <- MCNumber
    Float <- MCFloat
    Authorizers <- MCAuthorizers
    Assertions <- MCAssertions
    BadKeys <- MCBadKeys
    BadRegexps = {"bad"}
    Regexec <- MCRegexec
    Texts <- MCTexts
SPECIFICATION Spec
CHECK_DEADLOCK FALSE
INVARIANTS
    SkippingIsContained
    ValueIsMeaning
