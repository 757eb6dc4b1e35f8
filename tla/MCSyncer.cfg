\* One BMC whose inventory may lack the MAC, among all the other writers.
CONSTANTS
    Names = {1}
    Creds = {1}
    Hosts = {1, 2}
    Macs = {0, 1}
    Env = {"lag", "foreign", "tink", "capt"}
    MaxWrites = 3
    MaxFaults = 1
SPECIFICATION SyncSpec
INVARIANT NetbootIsTinks
INVARIANT ReferencesResolve
PROPERTY NeverAdopts
PROPERTY ForeignFieldsKept
