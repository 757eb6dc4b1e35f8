\* A MAC that changes, and an inventory that may lack it, beside tink.
CONSTANTS
    Names = {1}
    Creds = {1}
    Hosts = {1}
    Macs = {0, 1, 2}
    Env = {"tink"}
    MaxWrites = 1
    MaxFaults = 0
SPECIFICATION SyncSpec
INVARIANT NetbootIsTinks
