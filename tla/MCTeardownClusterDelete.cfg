SPECIFICATION FairSpec
CONSTANTS
    Machines = {1, 2}
    ControlPlane = {1, 2}
    Managed = {1}
    Deletable = {1}
    Addressed = {1, 2}
    EtcdTimeout = 0
    ResetTimeout = 0
    Env = {"staleCache", "clusterDelete"}
    MaxFaults = 1
INVARIANTS WipedMemberExcused ConclusionsTruthful
PROPERTIES DeletionCompletes
CHECK_DEADLOCK FALSE
