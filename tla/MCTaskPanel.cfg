CONSTANTS
    sA = sA
    sB = sB
    g1 = g1
    g2 = g2
    b1 = b1
    b2 = b2
    None = None
    Service <- MCService
    Content <- MCContent
    Submission <- MCSubmission
    MaxRequests = 2
    MaxSaves = 2
    MaxReloads = 2
    MaxLosses = 1
    MaxRestarts = 1
SPECIFICATION Spec
SYMMETRY Symmetry
INVARIANT TypeOK
INVARIANT UnseenIsPending
INVARIANT DelegatedOnce
CHECK_DEADLOCK FALSE
