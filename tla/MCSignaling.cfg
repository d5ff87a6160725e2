SPECIFICATION Spec
CONSTANTS
    Manager <- Managers
    Candidate = {"k1"}
    MaxConn = 2
INVARIANTS
    ManagersInHand
    SignalsOfCurrent
    OwnerLeavesNothing
    NoCandidateLost
