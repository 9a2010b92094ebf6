CONSTANTS
    c1 = c1
    h1 = h1
    t1 = t1
    CloudAgent <- MCCloudAgent
    Shell <- MCShell
    Subagent <- MCSubagent
    MaxFaults = 1
    MaxExits = 2
    MaxQuiesces = 1
SPECIFICATION Spec
INVARIANT TypeOK
INVARIANT WakeIsRemembered
INVARIANT MarkedIsWatched
INVARIANT ToldOnce
INVARIANT NoneStranded
CHECK_DEADLOCK FALSE
