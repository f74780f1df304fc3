\* Three requests on the accounts of two addresses that may want one name;
\* three requests of the dialogs of one desktop.
CONSTANTS
    r1 = r1
    r2 = r2
    r3 = r3
    e1 = e1
    e2 = e2
    n1 = n1
    n2 = n2
    Before = Before
    NoUser = NoUser
    NoRequest = NoRequest
    Requests = {r1, r2, r3}
    Emails = {e1, e2}
    Names = {n1, n2}
    MaxAttempts = 2
    MaxCodes = 2
    MaxRestarts = 1
    People = {e1, e2}
    NoOne = NoOne
    ResendCap = 1
    MaxClicks = 3
    MaxDialogs = 4
SPECIFICATION AccountsSpec
SYMMETRY Symmetry
PROPERTY OnlyAResetChangesVerified
PROPERTY OverStaysOver
PROPERTY SignedInAsAsked
CHECK_DEADLOCK FALSE
