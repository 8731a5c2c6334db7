SPECIFICATION AppFairSpec
CONSTANTS
    MaxSamples = 1
    Urls = {u1}
    NoUrl = NoUrl
    DbFaults = TRUE
    MaxRestarts = 1
    StopAllowed = TRUE
    Logging = TRUE
    MaxSignals = 2
INVARIANTS
    TracksIffPushedAndPresent
    ActiveIsWatched
    RejectionImpliesError
    SentCountIsCurrent
PROPERTIES
    IdleUserIsNotTracked
