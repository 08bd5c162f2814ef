\* A send and its retries, polled by two calls at a time, every call taking all it may.
SPECIFICATION FairSpec
CONSTANTS
    Records <- ShortAndLong
    Durations = {}
    Trips = {0, 300}
    Senders = {"modern", "legacy"}
    Outcomes = {"rejected", "stuck"}
    Pollers = {p1, p2}
    MaxRequests = 1
INVARIANTS
    TypeOK
    InTime
    SenderHasItsTime
    AnswerComesHome
    ScopeWasSeen
    StopsAtTheEnd
PROPERTIES
    PollingEnds
