\* One server, the sync loop next to what changes its addresses.
CONSTANTS
    s1 = s1 s2 = s2 p1 = p1 p2 = p2 p3 = p3 a1 = a1 a2 = a2 a3 = a3 c1 = c1 c2 = c2
    None = None
    Servers = {s1}
    Ports = {p1, p2}
    Addrs = {a1, a2}
    Tags = {1, 2, 3}
    Calls = {c1, c2}
    OpsOf <- SyncAndChange
    FloatingNetwork = TRUE
    PortAttempts = 2
    MaxExtra = 1
    MaxFaults = 1
    LateCalls = TRUE
SPECIFICATION FairSpec
PROPERTIES SyncHeals CallsReturn
