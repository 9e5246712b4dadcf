\* Two orders for the places of two nodes that come and go.
CONSTANTS
    n1 = n1 n2 = n2 ru = ru hustle = hustle
    None = None
    Nodes = {n1, n2}
    Regions = {ru}
    Tiers = {hustle}
    NodeRegion <- MCNodeRegion
    Capacity <- MCCapacity
    Rank <- MCRank
    VfEnabled = {n1, n2}
    Linked = {n1, n2}
    UuidNodes = {}
    Addressed = {n1}
    WaitlistTiers = {hustle}
    Rows = {1, 2}
    Orders = {1, 2}
    OsRegions = {{}, {ru}}
    Events = {"maintenance", "tiers", "error", "hypervisor", "crash", "fails"}
    MaxChanges = 1
SPECIFICATION FairSpec
INVARIANTS IInv CrowdInv
PROPERTIES OversoldOnlyByRace OfflineOnlyIfDown LostStopsSelling NodeReturns
