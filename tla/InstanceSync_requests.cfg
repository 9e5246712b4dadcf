\* Two requests for one row that misses are counted for, everything that blocks it.
CONSTANTS
    i1 = i1 i2 = i2 h1 = h1 h2 = h2
    None = None
    Instances = {i1}
    Requests = {h1, h2}
    Actions = {"reboot","delete"}
    Events = {"block","hold","notfound","dberror","apicrash"}
    BatchLimit = 1
    MissLimit = 3
    PowerAttempts = 1
    MaxFaults = 1
SPECIFICATION Spec
SYMMETRY Symmetry
INVARIANTS IInv DeletedIsDestroyed
PROPERTIES OrphanAfterMisses StartsOnlyUnblocked
