\* The node codec: hashes of 3 bytes over 2 symbols, nodes of up to 2
\* hashes, read buffers shorter than, equal to and longer than a hash and
\* its separator, chunks of 1 to 5 bytes, corrupt files of up to 5 bytes.
CONSTANTS
    Syms = {1, 2}
    Sep = 0
    HashLen = 3
    MaxHashes = 2
    ReadBufSizes = {2, 3, 4, 5, 7}
    CopyBufSizes = {1, 2, 3, 4, 5}
    MaxFileLen = 5
SPECIFICATION Spec
INVARIANTS
    TypeOK
    WholeNodeReadBack
    ShortNodeReadsPrefix
    WriterRejectsBadSegment
PROPERTIES
    ReaderReturns
