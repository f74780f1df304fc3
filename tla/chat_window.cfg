SPECIFICATION TalkSpec
CONSTANTS
    Accounts = {1}
    Friends = {2, 3}
    Tasks = {t1, t2}
    MaxSaid = 2
    FolderIds = {"work"}
    FolderChats = {"ann", "bot"}
    Workers = {w1, w2}
    MaxSaves = 3
    ListFriends = {"ann"}
    ListRooms = {"room"}
    ListTabs = {"rooms"}
    NamedSo = {"ann"}
    FolderSets <- TheFolders
    MaxClock = 2
    MaxFills = 1
    StreamPlatforms = {"twitch", "kick"}
    MaxSockets = 2
    MaxRequests = 2
    MaxEvents = 1
    People = {bob, cy}
    Myself = "me"
    Known = {bob, cy}
    MaxDialogs = 3
    MaxCalls = 1
    Versions <- TheVersions
    Current <- Now
    MaxChecks = 2
INVARIANTS
    
    ShownIsCurrent
    SuccessWasDone
    RoomIsWhole
    ProgramSurvives
PROPERTIES
    BotKeepsWhatWasSaid
    ReadWasOnScreen
CHECK_DEADLOCK FALSE
