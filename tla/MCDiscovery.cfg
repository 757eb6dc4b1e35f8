\* A BMC whose address another one may take over, a channel of one, a claim by CAPT and a failure.
CONSTANTS
    Names = {1}
    Bmcs = {1, 2}
    Creds = {1, 2}
    Hosts = {1, 2}
    Macs = {0, 1, 2}
    Env = {"capt"}
    MaxWrites = 1
    MaxFaults = 1
    Keys = {1}
    BmcOf <- MCBmcOf
    Accepts <- MCAccepts
    Adapters <- MCAdapters
    Interfaces <- MCInterfaces
    Defaults <- MCDefaults
    Wildcard = 1
    Configured = {2}
    Buffer = 1
    MaxMoves = 1
SPECIFICATION FairSpec
INVARIANT NoLostUpdate
PROPERTY Converges
CHECK_DEADLOCK FALSE
