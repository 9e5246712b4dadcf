\* Billing and power requests for a server that changes on its own.
CONSTANTS
    i1 = i1 i2 = i2 h1 = h1 h2 = h2
    None = None
    Instances = {i1}
    Requests = {h1}
    Actions = {"start", "stop"}
    Events = {"block", "shutdown", "fail", "address", "hverror", "dberror"}
    BatchLimit = 1
    MissLimit = 2
    PowerAttempts = 2
    MaxFaults = 1
SPECIFICATION FairSpec
PROPERTIES BillingPowersOff RequestsEnd RunningShown ProvisionErrorHeals
