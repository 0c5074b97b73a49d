SPECIFICATION FairSpec
CONSTANTS
    N = 2
    Combinators = {"All", "Race", "Any"}
INVARIANTS
    Contracts
    AwaitStable
PROPERTIES
    ImplementsOneShot
    RaceCancelsLosers
    CombinatorSettles
CHECK_DEADLOCK FALSE
