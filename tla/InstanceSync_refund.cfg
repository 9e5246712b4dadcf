\* A reinstall is requested after the batch was read.
CONSTANTS
    i1 = i1 i2 = i2 h1 = h1 h2 = h2
    None = None
    Instances = {i1}
    Requests = {h1}
    Actions = {"stop"}
    Events = {"vanish", "reinstall"}
    BatchLimit = 1
    MissLimit = 3
    PowerAttempts = 2
    MaxFaults = 0
SPECIFICATION Spec
PROPERTIES ReinstallingNotRefunded
