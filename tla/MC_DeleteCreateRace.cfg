\* A status Create that took its ULID before Delete revoked the token
\* puts its status after the status loop paged past it.
CONSTANTS
    a = a
    b = b
    A = a
    B = b
    NoID = 0
    InitStatuses <- MCInitStatuses
    PageSize = 2
    MaxCreates = 1
    MaxReads = 1
    MaxSets = 1
    DBFaults = FALSE
SPECIFICATION Spec
INVARIANTS
    NoStatusAfterDelete

