\* A server is lost or destroyed under requests and a reinstall, and anything fails once.
CONSTANTS
    i1 = i1 i2 = i2 h1 = h1 h2 = h2
    None = None
    Instances = {i1}
    Requests = {h1}
    Actions = {"start", "delete"}
    Events = {"badid", "vanish", "reinstall", "address", "hverror", "dberror", "clearerror", "iderror", "notfound", "crash", "apicrash"}
    BatchLimit = 1
    MissLimit = 3
    PowerAttempts = 2
    MaxFaults = 1
SPECIFICATION FairSpec
INVARIANTS IInv DeletedIsDestroyed
PROPERTIES MissingSettles StaleIPReleased AddressShown OrphanAfterMisses
