SPECIFICATION FairSpec
CONSTANTS
    t1 = t1
    t2 = t2
    a1 = a1
    a2 = a2
    Task <- MCTask
    Artifact <- MCArtifact
    Driver = "in-process"
    None = None
    MaxRestarts = 1
    MaxFaults = 1
PROPERTY EveryTaskEnds
CHECK_DEADLOCK FALSE
