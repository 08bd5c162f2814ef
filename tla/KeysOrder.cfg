\* The settings: two writers, the repair of an unreadable file, the gate.
SPECIFICATION Spec
CONSTANTS
    Host = host
    Vaults = {"settings"}
    Callers = {c1, c2}
    Requests = {"sort"}
    Addresses = {}
    Names = {}
    Absent = absent
    Unreadable = unreadable
    Faults = {}
    BookAtStart = {"none", "box"}
    SettingsAtStart = {"none", "junk", "foreign", "box"}
    MaxContacts = 0
    MaxGeneration = 1
    MaxPending = 1
    MaxCrashes = 0
SYMMETRY CallerSymmetry
INVARIANTS
    MovesAnnounced
    RepairHoldsKey
