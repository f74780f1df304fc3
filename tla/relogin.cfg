\* Signing in again, as somebody else: what the clients of the window bear.
CONSTANTS
    People = {a, b}
    NoOne = NoOne
    ResendCap = 1
    MaxClicks = 2
    MaxDialogs = 2
SPECIFICATION SignInSpec
INVARIANT OneAccount
CHECK_DEADLOCK FALSE
