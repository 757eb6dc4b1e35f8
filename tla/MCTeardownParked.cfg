SPECIFICATION Spec
CONSTANTS
    Machines = {1, 2}
    ControlPlane = {1, 2}
    Managed = {1}
    Deletable = {1}
    Addressed = {1, 2}
    EtcdTimeout = 0
    ResetTimeout = 0
    Env = {"lateStamp"}
    MaxFaults = 0
INVARIANTS NeverParkedMidTeardown
CHECK_DEADLOCK FALSE
