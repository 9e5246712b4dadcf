\* The sync loop next to AddExtraIPv4: a second address for the server.
CONSTANTS
    s1 = s1 s2 = s2 p1 = p1 p2 = p2 p3 = p3 a1 = a1 a2 = a2 a3 = a3 c1 = c1 c2 = c2
    None = None
    Servers = {s1}
    Ports = {p1, p2, p3}
    Addrs = {a1, a2}
    Tags = {1, 2, 3}
    Calls = {c1, c2}
    OpsOf <- SyncAndExtra
    FloatingNetwork = TRUE
    PortAttempts = 2
    MaxExtra = 1
    MaxFaults = 0
    LateCalls = TRUE
SPECIFICATION Spec
PROPERTIES EnsureOnlyWhenNone
