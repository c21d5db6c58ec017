CONSTANTS
    p1 = p1  p2 = p2  p3 = p3
    rsa1 = rsa1  cert1 = cert1  rsa2 = rsa2  dsa3 = dsa3  Policy = Policy
    Good = Good  Bad = Bad  Empty = Empty  Const = Const
    Unknown = Unknown  Garbled = Garbled  None = None
    Pair <- Pairs
    pairalg <- AlgOfPair
    Principal <- Principals
    pair <- PairOf
    alg <- AlgOf
    Texts <- FilesToSign
    EditLines <- Edits
    MaxSigned = 1
    MaxEdits = 1
SPECIFICATION Spec
INVARIANTS TypeOK TakesWellFormed SignaturesAreAboutTheText
CHECK_DEADLOCK FALSE
