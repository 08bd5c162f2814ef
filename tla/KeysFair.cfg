\* The host and a caller arm feeds that end and subscriptions that fail.
SPECIFICATION DispatchSpec
CONSTANTS
    Host = host
    Vaults = {"contacts"}
    Callers = {c1}
    Requests = {}
    Addresses = {}
    Names = {}
    Absent = absent
    Unreadable = unreadable
    Faults = {"feedEnds", "subscribeFails"}
    BookAtStart = {"box"}
    SettingsAtStart = {"none"}
    MaxContacts = 0
    MaxGeneration = 0
    MaxPending = 1
    MaxCrashes = 0
PROPERTIES
    FollowsTheManager
    MethodsReturn
