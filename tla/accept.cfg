SPECIFICATION DialogsSpec
CONSTANTS
    People = {"bob"}
    Myself = "me"
    Known = {"bob"}
    MaxDialogs = 1
    MaxCalls = 2
PROPERTY AcceptIsOfTheAsker
CHECK_DEADLOCK FALSE
