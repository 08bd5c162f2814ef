\* A first save beside a rotation.
SPECIFICATION Spec
CONSTANTS
    Host = host
    Vaults = {"contacts"}
    Callers = {c1}
    Requests = {"save"}
    Addresses = {a1}
    Names = {n1}
    Absent = absent
    Unreadable = unreadable
    Faults = {}
    BookAtStart = {"none"}
    SettingsAtStart = {"none"}
    MaxContacts = 1
    MaxGeneration = 1
    MaxPending = 1
    MaxCrashes = 0
INVARIANTS
    RefreshedBoxOpens
