\* AccountAPI: database faults, two concurrent callers for a1 and one for a2
CONSTANTS
    a1 = a1
    a2 = a2
    c1 = c1
    c2 = c2
    c3 = c3
    Missing = Missing
    Accounts = {a1, a2}
    Callers = {c1, c2, c3}
    Requester <- RequesterMixed
    DBFaults = TRUE
    MaxRequests = 3
SPECIFICATION Spec
INVARIANTS
    TypeOK
    StillBlockingOnlyAfterLookupError
