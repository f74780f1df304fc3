SPECIFICATION ServicesSpec
CONSTANTS
    Clients = {"ann", "ben"}
    Leavers = {}
    MaxPublish = 2
    MaxRooms = 2
    Nobody = "nobody"
    BotUsers = {1}
    Slots = {s1, s2}
    Rate = 2
    Minute = 1
    MaxRetries = 1
    MaxSeconds = 2
    MaxExchanges = 3
    Agents = {"ann", "ben"}
    MaxTickets = 2
    Retention = 1
    MaxNow = 5
    Owners = {1, 2}
    Names = {"quiz"}
    Calls = {c1, c2}
    MaxBots = 2
    MaxTokens = 3
    Makers = {1, 2}
    Slugs = {"cats"}
    Shortcodes = {"wow"}
    Requests = {q1, q2}
    MaxPacks = 2
    Bits = 3
    Threshold = 1
    MaxKnown = 2
    Accounts = {1, 2}
    Devices = {"phone", "desk"}
    MaxHellos = 2
    MaxBatches = 2
    Members = {m1}
    MaxChains = 2
    MaxMessages = 3
    MaxGiven = 2
    MailUsers = {"ann"}
    Blank = "none"
    MaxRequests = 3
    MaxMail = 1
    Limit = 1
    MaxKeys = 2
    Askers = {"ann", "ben"}
    Questions = {101, 102}
    Entries = {1, 2}
    Donations = {101}
    TopK = 1
    MaxCache = 1
    MaxTurns = 1
    Tries = 1
    MaxAsks = 2
    Visitors = {v1, v2}
    Holders = {1}
    PoolMax = 1
    MaxVisits = 2
    MaxStarts = 2
INVARIANTS
    Grounded
    EnvelopesAreRead
    ReadsFromEntering
    InfringementIsCaught
    ExchangesInOrder
    NamesAreTheirMakers
PROPERTIES
    FirstRemovalEnds
    TicketsMoveOn
    SignedOutStays
    FirstIsServed
CHECK_DEADLOCK FALSE
