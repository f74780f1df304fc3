SPECIFICATION Spec
CONSTANTS
    Accounts = {1}
    Friends = {2, 3}
    Tasks = {t1, t2}
    MaxSaid = 2
INVARIANTS SavedChatApart
CHECK_DEADLOCK FALSE
