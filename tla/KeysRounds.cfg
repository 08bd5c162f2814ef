\* The worker's rounds over both vaults, and no writer.
SPECIFICATION Spec
CONSTANTS
    Host = host
    Vaults = {"contacts", "settings"}
    Callers = {}
    Requests = {}
    Addresses = {}
    Names = {}
    Absent = absent
    Unreadable = unreadable
    Faults = {"feedEnds", "subscribeFails"}
    BookAtStart = {"none", "box"}
    SettingsAtStart = {"none"}
    MaxContacts = 0
    MaxGeneration = 1
    MaxPending = 1
    MaxCrashes = 0
INVARIANTS
    LockDropsBoth
    NoLostWakeUp
    RefreshedBoxOpens
