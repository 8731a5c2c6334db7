SPECIFICATION Spec
CONSTANTS
    Screens <- MCScreens
    Primary <- MCPrimary
    WholeArea <- MCWholeArea
    Sizes <- MCSizes
    Icons <- MCIcons
    Pointers <- MCPointers
INVARIANTS
    InsideWorkArea
    ClearOfAnchor
