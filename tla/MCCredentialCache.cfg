\* Two reconciles and the collection over one cluster, with a crash or a failed call.
CONSTANTS
    Clusters = {1}
    Machines = {1, 2}
    ClusterOf <- MCClusterOf
    Managed = {1, 2}
    Later = {2}
    MaxVersion = 2
    MaxFaults = 1
SPECIFICATION FairSpec
INVARIANT CredentialsKept
CHECK_DEADLOCK FALSE
PROPERTY CopyConverges
PROPERTY StraysCollected
