SPECIFICATION FairSpec
CONSTANTS
    MaxSamples = 2
    Urls = {u1}
    NoUrl = NoUrl
    DbFaults = TRUE
    MaxRestarts = 1
    StopAllowed = TRUE
INVARIANTS
    TypeOK
    EachSampleInOnePlace
    SentWasReceived
    NeverAsleepOnceStopped
    QuietWhenStopped
PROPERTIES
    ImplementsOutbox
    StopReturns
    BacklogIsRetried
