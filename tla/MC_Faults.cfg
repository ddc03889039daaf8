\* I/O faults: the caller's input stream and the disk (stat, block and node
\* writes) may fail.  Every call still returns and Close still completes.
CONSTANTS
    Callers = {c1, c2}
    Keys = {k1, kbad}
    InvalidKeys = {kbad}
    Bytes <- MCBytes
    Zero = 0
    BlockSize = 2
    WriteValues <- MCFaultValues
    ReadSizes = {2}
    Overwrite = FALSE
    CwdFiles = {}
    StreamErrors = TRUE
    DiskErrors = TRUE
    MaxLosses = 0
    MaxCrashes = 1
    KeyLocking = TRUE
    CleanExclusive = TRUE
    NoFile = NoFile
    Absent = Absent
    Corrupt = Corrupt
    Orphan = Orphan
    NoKey = NoKey
SPECIFICATION Spec
PROPERTIES
    CallsReturn
    ExistingNodeKept
