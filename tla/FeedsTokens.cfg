\* A token list is read after its feed has ended.
SPECIFICATION Spec
CONSTANTS
    Host = host
    Views = {"tokens", "picker"}
    Shows <- TokenPages
    Feeds = {"tokens"}
    Faults = {"feedEnds"}
    MaxMoves = 1
    MaxPending = 1
    MaxContexts = 1
INVARIANTS
    EndedFeedsRearm
