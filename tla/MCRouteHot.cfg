SPECIFICATION Spec
CONSTANTS
  Clock = 17
  Programs <- MCHotPrograms
  MaxWhileIterations = 6
  MaxMacroExpansionDepth = 3
  MacroItems <- MCMacroItems
  HeaderSize = 100
  MaxThreads = 3
  MaxStackSize = 4
  Blocks <- MCBlocks
  HubRooms <- MCHubRooms
  HubClients <- MCHubClients
  Client <- MCClient
INVARIANTS
  HotKeepsValue
