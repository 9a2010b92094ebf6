SPECIFICATION FairSpec
CONSTANTS
    t1 = t1
    t2 = t2
    a1 = a1
    a2 = a2
    Task <- MCTask
    Artifact <- MCArtifact
    Driver = "docker"
    None = None
    MaxRestarts = 0
    MaxFaults = 0
PROPERTY StopIsForced
CHECK_DEADLOCK FALSE
