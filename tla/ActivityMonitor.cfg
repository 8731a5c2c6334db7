SPECIFICATION MonitorSpec
CONSTANTS
    Nodes = {n1, n2}
    Inputs = {1, 2, 4}
    MaxPlugs = 4
    OpenFaults = TRUE
    Faults = TRUE
    ShellRestarts = TRUE
    WatchIds = {1, 2, 3}
    MaxRearms = 2
INVARIANTS
    MonitorTypeOK
    KeepsListening
    AtMostOneWatch
    ReleasesWhenStopped
    WatchesWhatIsThere
    NoDescriptorLeaks
