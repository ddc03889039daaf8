\* AccountDelete: database faults, one racing Create, two statuses a page
CONSTANTS
    a = a
    b = b
    A = a
    B = b
    NoID = 0
    InitStatuses <- MCInitStatuses
    PageSize = 2
    MaxCreates = 1
    MaxReads = 1
    MaxSets = 1
    DBFaults = TRUE
SPECIFICATION Spec
INVARIANTS
    TypeOK
    PagedStatusesDeleted
    UnsuspendedCacheOnlyFromRacingFill
PROPERTIES
    DeleteReturns
