SPECIFICATION Spec
CONSTANTS
    Machines = {1, 2}
    ControlPlane = {1, 2}
    Managed = {1, 2}
    Deletable = {1, 2}
    Addressed = {1, 2}
    EtcdTimeout = 0
    ResetTimeout = 0
    Env = {"lateStamp", "sameSecond", "scaleDown"}
    MaxFaults = 0
INVARIANTS EtcdSurvives
CHECK_DEADLOCK FALSE
