SPECIFICATION Spec
CONSTANTS
    s1 = s1
    s2 = s2
    s3 = s3
    r1 = r1
    r2 = r2
    a = a
    b = b
    c = c
    Sockets <- MCSockets
    Peers = {a, b}
    Rooms <- MCRooms
    Ids <- SharedIds
    NoSocket = NoSocket
    NoRoom = NoRoom
    NoPeer = NoPeer
SYMMETRY RoomSymmetry

    
PROPERTIES
    KeepsOccupancy
CHECK_DEADLOCK FALSE
