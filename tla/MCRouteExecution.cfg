SPECIFICATION Spec
CONSTANTS
  Clock = 17
  Programs <- MCPrograms
  MaxWhileIterations = 6
  MaxMacroExpansionDepth = 3
  MacroItems <- MCMacroItems
  HeaderSize = 100
  MaxThreads = 3
  MaxStackSize = 4
  Blocks <- MCBlocks
  HubRooms <- MCHubRooms
  HubClients <- MCHubClients
  Client <- MCClient
INVARIANTS
  CompiledAgrees
  OptimizedKeepsValue
  HotKeepsValue
  StackBalanced
  ResolvedIsBound
PROPERTY
  RouteEnds
