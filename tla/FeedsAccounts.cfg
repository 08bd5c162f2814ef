\* An account page beside a startup that runs twice, both feeds, every fault.
SPECIFICATION FairSpec
CONSTANTS
    Host = host
    Views = {"labels"}
    Shows <- LabelsPage
    Feeds = {"keystore", "signers"}
    Faults = {"feedEnds", "subscribeFails", "callFails"}
    MaxMoves = 1
    MaxPending = 1
    MaxContexts = 2
INVARIANTS
    TypeOK
    OneListener
    AccountsFresh
    ReadsRearm
PROPERTIES
    ViewsCatchUp
