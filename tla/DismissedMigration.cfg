SPECIFICATION Spec
CONSTANTS
    Passwords = {p1}
    NoPassword = NoPassword
    Troubles = {"dismissal"}
    MaxEdits = 1
    MaxRestarts = 1
PROPERTIES
    KeptWhenWriteFails
