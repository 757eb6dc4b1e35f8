SPECIFICATION Spec
CONSTANTS
    Machines = {1, 2}
    ControlPlane = {1, 2}
    Managed = {1}
    Deletable = {1}
    Addressed = {1, 2}
    EtcdTimeout = 0
    ResetTimeout = 1
    Env = {"staleCache", "lateStamp", "lostAck", "edit"}
    MaxFaults = 2
INVARIANTS TypeOK PowerOffAfterTeardown WipedMemberExcused ConclusionsTruthful NeverForgotten
PROPERTY ImplementsGate
CHECK_DEADLOCK FALSE
