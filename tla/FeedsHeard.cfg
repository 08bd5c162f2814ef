\* Moves of the chain record and of the token list.
SPECIFICATION Spec
CONSTANTS
    Host = host
    Views = {"networks", "tokens", "picker"}
    Shows <- ChainPages
    Feeds = {"chains", "tokens"}
    Faults = {"feedEnds"}
    MaxMoves = 1
    MaxPending = 1
    MaxContexts = 1
PROPERTIES
    HeardByAll
