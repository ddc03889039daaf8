\* The engine under the facade's discipline: per-key locking, Clean run
\* offline, whole-chunk values, no I/O faults, one block file lost.
CONSTANTS
    Callers = {c1, c2}
    Keys = {k1, k2}
    InvalidKeys = {}
    Bytes <- MCBytes
    Zero = 0
    BlockSize = 2
    WriteValues <- MCAlignedValues
    ReadSizes <- MCAlignedReads
    Overwrite = FALSE
    CwdFiles = {}
    StreamErrors = FALSE
    DiskErrors = FALSE
    MaxLosses = 1
    MaxCrashes = 0
    KeyLocking = TRUE
    CleanExclusive = TRUE
    NoFile = NoFile
    Absent = Absent
    Corrupt = Corrupt
    Orphan = Orphan
    NoKey = NoKey
SPECIFICATION Spec
INVARIANTS
    TypeOK
    RoundTrip
    NoDanglingNode
PROPERTIES
    CleanExact
    NoWriteAfterClose
