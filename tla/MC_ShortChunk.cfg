\* A value ending in a short chunk: the chunk is hashed together with the
\* stale tail of its pooled buffer, and a later write deduplicates against it.
CONSTANTS
    Callers = {c1}
    Keys = {k1, k2}
    InvalidKeys = {}
    Bytes <- MCBytes
    Zero = 0
    BlockSize = 2
    WriteValues <- MCShortValues
    ReadSizes = {2}
    Overwrite = FALSE
    CwdFiles = {}
    StreamErrors = FALSE
    DiskErrors = FALSE
    MaxLosses = 0
    MaxCrashes = 0
    KeyLocking = TRUE
    CleanExclusive = TRUE
    NoFile = NoFile
    Absent = Absent
    Corrupt = Corrupt
    Orphan = Orphan
    NoKey = NoKey
SPECIFICATION Spec
INVARIANT
    RoundTrip
