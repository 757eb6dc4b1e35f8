SPECIFICATION Spec
CONSTANTS
    Machines = {1, 2, 3}
    ControlPlane = {1, 2, 3}
    Managed = {1, 2}
    Deletable = {1, 2}
    Addressed = {1, 2, 3}
    EtcdTimeout = 0
    ResetTimeout = 1
    Env = {}
    MaxFaults = 1
    Labels = {"hw-1", "hw-2", "hw-3", "cp-1", "cp-2", "cp-3"}
    Domains = {"", "lan"}
    InfraName <- MCInfraName
    MachineName <- MCMachineName
    Registered <- MCRegistered
    Statuses <- MCStatuses
INVARIANTS EtcdExclusive NoReplay GivesUpOnlyLate LookupExact
PROPERTIES ReleasedForGood ClockNotReset
CHECK_DEADLOCK FALSE
