SPECIFICATION Spec
CONSTANTS
    Conns = {c1}
    Rooms = {lobby}
    Lobby = lobby
    SendCap = 1
    HubCap = 2
    MaxPerHub = 0
    MaxPerRoom = 0
    Strategy = "drop_oldest"
    Heartbeat = TRUE
    KeepState = FALSE
    Kinds = {"ping"}
    OnConnect <- None
    OnMessage <- None
    OnDisconnect <- None
    MaxReads = 1
INVARIANTS
    NoPanic
CHECK_DEADLOCK FALSE
