SPECIFICATION FairSpec
CONSTANTS
    Clients = {a, b}
    BufferSize = 1
    Format = "text"
    MaxEntries = 3
INVARIANTS
    FlushCompletes
    WrittenOnce
PROPERTIES
    EntriesWritten
CHECK_DEADLOCK FALSE
