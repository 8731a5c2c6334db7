SPECIFICATION Spec
CONSTANTS
    MaxSamples = 1
    Urls = {u1}
    NoUrl = NoUrl
    DbFaults = FALSE
    MaxRestarts = 0
    StopAllowed = TRUE
INVARIANTS
    DrainsWhileActive
