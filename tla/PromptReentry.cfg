SPECIFICATION FairSpec
CONSTANTS
    Passwords = {p1}
    NoPassword = NoPassword
    Troubles = {}
    MaxEdits = 2
    MaxRestarts = 0
PROPERTIES
    SavePromptEnds
