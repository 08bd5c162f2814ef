\* Every page of the wallet that only reads, and pairs of them that share the registry.
SPECIFICATION MCSpec
CONSTANTS
    Together <- SomeTogether
    Sizes = {0, 1, 2, 3, 4, 5}
    Limits <- PageSizes
    NumChains = 2
    Durations = {0}
    MaxMoves = 1
    Host = host
    Callers = {caller}
    Records <- SomeRecords
    MaxStartups = 1
    MaxRows = 2
    ChainOf <- RowChains
    Swaps = {1}
    Addresses = {a1, a2}
    Names = {n1, n2}
    Facts = {f1, f2}
    NoEntry = NoEntry
    NotListed = NotListed
    Malformed = Malformed
INVARIANTS
    SeamlessPages
    PagesTypeOK
    MethodsInTime
    GateFailsClosed
    ChainWasInScope
    GapsAreNamedOnce
    TimerIsRight
    ChainsKeepTheirOwn
    AssetsHaveTheirTime
    BalancesComeInTime
    InventoryOrError
    UsersNameWins
    FactsAreTheManagers
PROPERTIES
    MoreIsMore
    FairDefaults
    ActivityIsKept
    FairTimer
