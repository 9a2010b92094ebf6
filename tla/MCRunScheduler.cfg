CONSTANTS
    u1 = u1
    u2 = u2
    g = g
    b = b
    d1 = d1
    None = None
    Task <- MCTask
    LaneOf <- MCLaneOf
    GroupMember <- MCGroupMember
    Drainer <- MCDrainer
SPECIFICATION FairSpec
INVARIANTS
    TypeOK
    OneOwner
    NoLostPump
    EscapeHasCause
    CallersMatchQueue
    DrainWaitsForBodies
PROPERTIES
    DirectUsersInOrder
    ImplementsTurns
    DirectUserStarts
CHECK_DEADLOCK FALSE
