SPECIFICATION FairSpec
CONSTANTS
    s1 = s1
    s2 = s2
    s3 = s3
    r1 = r1
    r2 = r2
    a = a
    b = b
    c = c
    Sockets <- MCSockets
    Peers <- MCPeers
    Rooms <- MCRooms
    Ids <- OwnIds
    NoSocket = NoSocket
    NoRoom = NoRoom
    NoPeer = NoPeer
INVARIANTS
    ViewConverges
    RelayReachesKnownPeer

    
CHECK_DEADLOCK FALSE
