\* Two calls, two flavors, everything Nova and its operators do, one fault.
CONSTANTS
    c1 = c1 c2 = c2 small = small large = large huge = huge
    None = None
    Calls = {c1, c2}
    Plans = {small, large, huge}
    Flavors = {small, large}
    FlavorFor <- MCFlavorFor
    Events = {"reject", "revert", "fail", "autoconfirm", "power"}
    MaxFaults = 1
SPECIFICATION FairSpec
INVARIANTS IInv
PROPERTIES SuccessMeansFlavor ConfirmsOwn CallsReturn ResizesAreEnded
