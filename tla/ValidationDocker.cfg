SPECIFICATION Spec
CONSTANTS
    t1 = t1
    t2 = t2
    a1 = a1
    a2 = a2
    Task <- MCTask
    Artifact <- MCArtifact
    Driver = "docker"
    None = None
    MaxRestarts = 2
    MaxFaults = 2
SYMMETRY Symmetry
INVARIANT TypeOK
INVARIANT TablesAgree
INVARIANT ActiveIsOwned
INVARIANT StopWins
INVARIANT EndedMeansStopped
INVARIANT DeliveredIsComplete
PROPERTY ImplementsLifecycle
CHECK_DEADLOCK FALSE
