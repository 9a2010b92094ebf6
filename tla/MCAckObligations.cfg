CONSTANTS
    s1 = s1
    s2 = s2
    r1 = r1
    u1 = u1
    w1 = w1
    Send <- MCSend
    Redrive <- MCRedrive
    Resume <- MCResume
    Wake <- MCWake
    MaxRedrives = 2
    MaxFaults = 1
    MaxCrashes = 1
    MaxQuiesces = 1
SPECIFICATION FairSpec
INVARIANT TypeOK
INVARIANT UnansweredIsOwed
INVARIANT RedrivesAreCounted
PROPERTY OwedIsSettled
CHECK_DEADLOCK FALSE
