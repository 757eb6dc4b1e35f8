SPECIFICATION ControllerFairSpec
CONSTANTS
    Machines = {1, 2}
    ControlPlane = {1, 2}
    Managed = {1, 2}
    Deletable = {1, 2}
    Addressed = {1, 2}
    EtcdTimeout = 0
    ResetTimeout = 0
    Env = {}
    MaxFaults = 0
PROPERTIES ReleaseConverges
CHECK_DEADLOCK FALSE
