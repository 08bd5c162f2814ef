\* The networks are read between the swap and the subscription.
SPECIFICATION Spec
CONSTANTS
    Host = host
    Views = {"networks"}
    Shows <- NetworksPage
    Feeds = {"chains"}
    Faults = {}
    MaxMoves = 1
    MaxPending = 1
    MaxContexts = 1
INVARIANTS
    NetworksFresh
