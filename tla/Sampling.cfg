SPECIFICATION SamplingSpec
CONSTANTS
    Desktops = {"gnome", "kde", "cinnamon", "windows", "macos", "other"}
    Windows = {w1, w2}
    NoWindow = NoWindow
    Captions = {"a", "b"}
    Faults = TRUE
    MaxCalls = 2
    Minute = 2
    MaxShift = 1
INVARIANTS
    SamplingTypeOK
    ToldWithinAMinute
    KnowsActiveWindow
    NeverAnotherWindow
