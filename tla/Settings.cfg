SPECIFICATION SettingsSpec
CONSTANTS
    Passwords = {p1, p2}
    NoPassword = NoPassword
    Troubles = {"failure", "dismissal", "malformed"}
    MaxEdits = 2
    MaxRestarts = 2
    Platforms = {"linux", "windows", "macos"}
    MaxRequests = 2
INVARIANTS
    SettingsTypeOK
    AutostartAgrees
    LegacyNeverLost
    NewestIsLoaded
PROPERTIES
    MigrationReplacesNothing
