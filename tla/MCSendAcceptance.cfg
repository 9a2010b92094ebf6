SPECIFICATION Spec
CONSTANTS
    n1 = n1
    n2 = n2
    n3 = n3
    Nonce <- MCNonce
    MaxRecords = 2
    MaxTurns = 2
    MaxCrashes = 2
    MaxFaults = 2
SYMMETRY Symmetry
INVARIANT TypeOK
INVARIANT OneTurnUnlessGap
INVARIANT FileKeepsUp
INVARIANT NotFoundIsHonest
INVARIANT AnsweredSendsHaveTurns
CHECK_DEADLOCK FALSE
