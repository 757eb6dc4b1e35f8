SPECIFICATION FairSpec
CONSTANTS
    Machines = {1, 2}
    ControlPlane = {1, 2}
    Managed = {1, 2}
    Deletable = {1, 2}
    Addressed = {1}
    EtcdTimeout = 0
    ResetTimeout = 0
    Env = {"legacyHook", "takeover", "sameSecond", "otherHooks"}
    MaxFaults = 1
INVARIANTS RunsLast
PROPERTIES DeletionCompletes
CHECK_DEADLOCK FALSE
