\* Overwrites on: a second put truncates and rewrites the node file, and the
\* engine still implements the abstract key-value store.
CONSTANTS
    Callers = {c1, c2}
    Keys = {k1, k2}
    InvalidKeys = {}
    Bytes <- MCBytes
    Zero = 0
    BlockSize = 2
    WriteValues <- MCAlignedValues
    ReadSizes = {2}
    Overwrite = TRUE
    CwdFiles = {}
    StreamErrors = FALSE
    DiskErrors = FALSE
    MaxLosses = 0
    MaxCrashes = 0
    KeyLocking = TRUE
    CleanExclusive = TRUE
    NoFile = NoFile
    Absent = Absent
    Corrupt = Corrupt
    Orphan = Orphan
    NoKey = NoKey
SPECIFICATION Spec
INVARIANTS
    RoundTrip
PROPERTIES
    KVRefinement
