SPECIFICATION FairSpec
CONSTANTS
    MaxSamples = 2
    Urls = {u1}
    NoUrl = NoUrl
    DbFaults = FALSE
    MaxRestarts = 0
    StopAllowed = FALSE
PROPERTIES
    QueuedEntryIsPickedUp
