SPECIFICATION Spec
CONSTANTS
    Guard = 2
    MaxDelay = 2
    Faults = TRUE
    MaxEnds = 2
    MaxVersions = 2
INVARIANTS
    TypeOK
    ExtensionIsCurrent
    ScriptMovesOnlyPopups
PROPERTIES
    ClickToggles
    PlacedWhenAnswered
CHECK_DEADLOCK FALSE
