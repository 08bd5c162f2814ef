\* The address book through locks, rotations, restarts and writes.
SPECIFICATION Spec
CONSTANTS
    Host = host
    Vaults = {"contacts"}
    Callers = {c1}
    Requests = {"save", "forget"}
    Addresses = {a1, a2}
    Names = {n1}
    Absent = absent
    Unreadable = unreadable
    Faults = {}
    BookAtStart = {"none", "junk", "foreign", "box"}
    SettingsAtStart = {"none"}
    MaxContacts = 1
    MaxGeneration = 1
    MaxPending = 1
    MaxCrashes = 1
INVARIANTS
    TypeOK
    KeysNeverGoBack
PROPERTIES
    BookKept
