SPECIFICATION FairSpec
CONSTANTS
    Conns = {c1, c2}
    Rooms = {lobby}
    Lobby = lobby
    SendCap = 1
    HubCap = 2
    MaxPerHub = 1
    MaxPerRoom = 1
    Strategy = "drop_oldest"
    Heartbeat = TRUE
    KeepState = TRUE
    Kinds = {"join", "leave", "bcast", "text"}
    OnConnect <- None
    OnMessage <- RoomMessage
    OnDisconnect <- None
    MaxReads = 2
INVARIANTS
    RegisteredOpen
    WithinLimits
    ActiveCounted
    RoomsRegistered
PROPERTIES
    PumpsEnd
CHECK_DEADLOCK FALSE
