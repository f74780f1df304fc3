SPECIFICATION DeskSpec
CONSTANTS
    Platforms = {"mock", "darwin", "win32", "linux"}
    Policies = {"letterbox", "stretch", "crop"}
    Screens <- TheScreens
    Durations = {1}
    MaxTime = 1
    MaxFrames = 1
    MaxInputs = 1
    MaxLoops = 2
    Stops = {s1}
    Producers = {"me", "ann", "ben"}
    Me = "me"
    Lists <- TheLists
    MaxCalls = 2
    MaxTasks = 2
    MaxLinks = 3
    here = here
    there = there
    Ids <- TwoIds
    MaxSockets = 4
    Limits = {0, 2}
    NoId = NoId
    photo = photo
    report = report
    Files <- TwoFiles
    Chunks = 3
    High = 2
    Low = 1
    MaxSends = 2
    Overlap = 1
    Desktops = {"left", "right"}
    MaxClients = 2
    MaxRemote = 1
INVARIANTS
    
    DisconnectIsFinal
    ServerKnowsMe
    
PROPERTIES
    ComesBack
    StoppedLoopsEnd
    
    SilentAfterEnd
CHECK_DEADLOCK FALSE
