CONSTANTS
    MAXDBROW = 3
    d1 = d1
    d2 = d2
    t1 = t1
    t2 = t2
    k1 = k1
    k2 = k2
    s1 = s1
    s2 = s2
    n1 = n1
    NoHash = NoHash
    NoKey = NoKey
    NoShare = NoShare
    NoFile = NoFile
    Stray = Stray
    Device <- MCDevice
    Topic <- MCTopic
    Key <- MCKey
    Share <- MCShare
    Noise <- MCNoise
SPECIFICATION Spec
SYMMETRY Symmetry
INVARIANTS
    TypeOK
    TableConsistent
    AcksAreKept
    FileShareIsCurrent
PROPERTY ImplementsShareStore
