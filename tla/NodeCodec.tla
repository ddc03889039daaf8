----------------------------- MODULE NodeCodec -----------------------------
(***************************************************************************)
(* The byte encoding of a node file (go-store storage/block.go): a node is *)
(* the list of its blocks' encoded hashes, written as each hash followed   *)
(* by the separator '\n'.                                                  *)
(*                                                                         *)
(*  - nodeReader.Read(b) produces the encoding into the caller's buffer b, *)
(*    resuming where the previous call stopped (idx, last);                *)
(*  - nodeWriter.Write(b) parses whatever slice of the file it is given,   *)
(*    keeping an unfinished hash in buf across calls.                      *)
(*                                                                         *)
(* Read and Write are operators, RECURSIVE where the code loops.  The      *)
(* state machine runs them as the store does: WriteStream's io.CopyBuffer  *)
(* calls Read once per buffer and appends the bytes to the node file, and  *)
(* ReadStream's or Clean's copy reads the file in chunks, one Write per    *)
(* chunk, possibly while the file is still being written (or after a      *)
(* failed or interrupted write left it short).  A behaviour may instead    *)
(* start from any short byte string on disk: a corrupt node file.  The     *)
(* properties compare the bytes and the parsed hashes with the reference   *)
(* encoding Encoded.  BlockStorage models a node file by its decoded hash  *)
(* list; these properties are what justifies that.                        *)
(***************************************************************************)
EXTENDS Naturals, Sequences, SequencesExt, FiniteSetsExt

CONSTANTS
    Syms,          \* the bytes a hash is made of (base64 characters)
    Sep,           \* hashSeparator, '\n'
    HashLen,       \* encodedHashLen
    MaxHashes,     \* bound on the hashes of a node
    ReadBufSizes,  \* sizes of the buffer io.CopyBuffer reads a nodeReader into
    CopyBufSizes,  \* sizes of the chunks a node file is read in
    MaxFileLen     \* bound on the length of corrupt node files

ASSUME Sep \notin Syms /\ HashLen \in Nat \ {0}
ASSUME ReadBufSizes \subseteq Nat \ {0} /\ CopyBufSizes \subseteq Nat \ {0}

Hashes == [1..HashLen -> Syms]
HashSeqs == SeqOf(Hashes, MaxHashes)
Files == SeqOf(Syms \cup {Sep}, MaxFileLen)

\* the reference: each hash followed by the separator
Encoded(hs) == FlattenSeq([i \in 1..Len(hs) |-> hs[i] \o <<Sep>>])

-----------------------------------------------------------------------------
(***************************************************************************)
(* nodeReader                                                              *)
(***************************************************************************)

\* the loop of Read: copy what fits of hashes[idx][last:] after `out`; an
\* incomplete copy returns with last = m; a full buffer after a whole hash
\* returns with last = -1 (separator still owed); otherwise the separator
\* is written and the next hash begins
RECURSIVE ReadLoop(_, _, _, _, _)
ReadLoop(hs, B, out, idx, last) ==
    IF idx > Len(hs)
    THEN [out |-> out, idx |-> idx, last |-> last, eof |-> TRUE]
    ELSE LET h == hs[idx]
             m == Min({B - Len(out), Len(h) - last})
             copied == out \o SubSeq(h, last + 1, last + m)
         IN  IF m < Len(h) - last
             THEN [out |-> copied, idx |-> idx, last |-> m, eof |-> FALSE]
             ELSE IF Len(copied) = B
             THEN [out |-> copied, idx |-> idx, last |-> -1, eof |-> FALSE]
             ELSE ReadLoop(hs, B, Append(copied, Sep), idx + 1, 0)

\* Mutant: the separator owed by the previous call (last = -1) is dropped
NodeReadNoPending(hs, B, r) ==
    ReadLoop(hs, B, <<>>, r.idx, IF r.last = -1 THEN 0 ELSE r.last)

\* nodeReader.Read with a buffer of B bytes, from reader state r
NodeRead(hs, B, r) ==
    IF r.last = -1 THEN ReadLoop(hs, B, <<Sep>>, r.idx, 0)
                   ELSE ReadLoop(hs, B, <<>>, r.idx, r.last)

\* io.CopyBuffer(file, &nodeReader{node}, nil): Read until io.EOF, keeping
\* the bytes of every call, the last included; `budget` bounds the calls
RECURSIVE CopyReader(_, _, _, _, _)
CopyReader(hs, B, r, acc, budget) ==
    LET x == NodeRead(hs, B, r) IN
    IF x.eof \/ budget = 1 THEN acc \o x.out
    ELSE CopyReader(hs, B, [idx |-> x.idx, last |-> x.last], acc \o x.out,
                    budget - 1)

\* the node file WriteStream writes for the hash list hs
NodeFile(hs, B) ==
    CopyReader(hs, B, [idx |-> 1, last |-> 0], <<>>,
               HashLen * MaxHashes + MaxHashes + 1)

-----------------------------------------------------------------------------
(***************************************************************************)
(* nodeWriter                                                              *)
(***************************************************************************)

\* position of the first separator in b, 0 if none (bytes.IndexByte)
SepIndex(b) == SelectInSeq(b, LAMBDA x : x = Sep)

\* Mutant: buf is not reset after a hash is appended
RECURSIVE WriteNoReset(_, _)
WriteNoReset(w, b) ==
    LET i == SepIndex(b) IN
    IF i = 0
    THEN IF Len(w.buf) > HashLen THEN [w EXCEPT !.err = TRUE]
                                 ELSE [w EXCEPT !.buf = @ \o b]
    ELSE LET buf == w.buf \o SubSeq(b, 1, i - 1) IN
         IF Len(buf) # HashLen THEN [w EXCEPT !.buf = buf, !.err = TRUE]
         ELSE WriteNoReset([w EXCEPT !.hashes = Append(@, buf), !.buf = buf],
                           SubSeq(b, i + 1, Len(b)))

\* Mutant: the separator is not skipped (n += idx)
RECURSIVE WriteKeepSep(_, _)
WriteKeepSep(w, b) ==
    LET i == SepIndex(b) IN
    IF i = 0
    THEN IF Len(w.buf) > HashLen THEN [w EXCEPT !.err = TRUE]
                                 ELSE [w EXCEPT !.buf = @ \o b]
    ELSE LET buf == w.buf \o SubSeq(b, 1, i - 1) IN
         IF Len(buf) # HashLen THEN [w EXCEPT !.buf = buf, !.err = TRUE]
         ELSE WriteKeepSep([w EXCEPT !.hashes = Append(@, buf), !.buf = <<>>],
                           SubSeq(b, i, Len(b)))

\* Mutant: the length of a finished hash is not checked
RECURSIVE WriteNoLenCheck(_, _)
WriteNoLenCheck(w, b) ==
    LET i == SepIndex(b) IN
    IF i = 0
    THEN IF Len(w.buf) > HashLen THEN [w EXCEPT !.err = TRUE]
                                 ELSE [w EXCEPT !.buf = @ \o b]
    ELSE LET buf == w.buf \o SubSeq(b, 1, i - 1) IN
         WriteNoLenCheck([w EXCEPT !.hashes = Append(@, buf), !.buf = <<>>],
                         SubSeq(b, i + 1, Len(b)))

\* nodeWriter.Write(b): without a separator in the rest of b, fail if buf
\* already holds more than a hash, else keep the rest in buf; at a
\* separator, the bytes before it complete buf, which must then be exactly
\* one hash: it is appended to node.hashes and buf reset
RECURSIVE NodeWrite(_, _)
NodeWrite(w, b) ==
    LET i == SepIndex(b) IN
    IF i = 0
    THEN IF Len(w.buf) > HashLen THEN [w EXCEPT !.err = TRUE]
                                 ELSE [w EXCEPT !.buf = @ \o b]
    ELSE LET buf == w.buf \o SubSeq(b, 1, i - 1) IN
         IF Len(buf) # HashLen THEN [w EXCEPT !.buf = buf, !.err = TRUE]
         ELSE NodeWrite([w EXCEPT !.hashes = Append(@, buf), !.buf = <<>>],
                        SubSeq(b, i + 1, Len(b)))

\* io.Copy of the file f into a nodeWriter, C bytes at a time, stopping
\* at the first error
RECURSIVE CopyFile(_, _, _)
CopyFile(w, f, C) ==
    IF f = <<>> \/ w.err THEN w
    ELSE CopyFile(NodeWrite(w, SubSeq(f, 1, Min({C, Len(f)}))),
                  SubSeq(f, C + 1, Len(f)), C)

\* the node ReadStream and Clean read from the file f
ParseNode(f, C) == CopyFile([hashes |-> <<>>, buf |-> <<>>, err |-> FALSE], f, C)

\* the node file has a segment, ended by a separator, that is not one hash
BadSegment(f) ==
    \E i \in 1..Len(f) :
        /\ f[i] = Sep
        /\ LET prev == {j \in 1..i - 1 : f[j] = Sep}
               start == IF prev = {} THEN 1 ELSE Max(prev) + 1
           IN  i - start # HashLen

\* bound on a node file WriteStream writes (named so that a reader that
\* never reaches io.EOF stops)
MaxNodeFile == 2 * (HashLen + 1) * MaxHashes

-----------------------------------------------------------------------------
(***************************************************************************)
(* The copies                                                              *)
(***************************************************************************)

VARIABLES
    hs,        \* the node's hashes WriteStream writes
    corrupt,   \* the file on disk was not written by WriteStream
    rbuf,      \* size of io.CopyBuffer's buffer
    r,         \* the nodeReader's idx and last
    file,      \* the node file's bytes so far
    rdone,     \* the writing copy has returned
    chunk,     \* size of the chunks the reading copy gets
    w,         \* the nodeWriter: node.hashes, buf, and the error returned
    pos,       \* bytes of the file the reading copy has consumed
    wdone      \* the reading copy has returned

vars == <<hs, corrupt, rbuf, r, file, rdone, chunk, w, pos, wdone>>

Init ==
    /\ chunk \in CopyBufSizes
    /\ w = [hashes |-> <<>>, buf |-> <<>>, err |-> FALSE]
    /\ pos = 0 /\ wdone = FALSE
    /\ r = [idx |-> 1, last |-> 0]
    /\ \/ /\ corrupt = FALSE /\ hs \in HashSeqs /\ rbuf \in ReadBufSizes
          /\ file = <<>> /\ rdone = FALSE
       \/ /\ corrupt = TRUE /\ hs = <<>> /\ rbuf = Min(ReadBufSizes)
          /\ file \in Files /\ rdone = TRUE

\* one pass of io.CopyBuffer's loop: Read into the buffer, write what it
\* returned to the file; io.EOF ends the copy
CopyRead ==
    /\ ~rdone /\ Len(file) < MaxNodeFile
    /\ LET x == NodeRead(hs, rbuf, r) IN
       /\ file' = file \o x.out
       /\ r' = [idx |-> x.idx, last |-> x.last]
       /\ rdone' = x.eof
    /\ UNCHANGED <<hs, corrupt, rbuf, chunk, w, pos, wdone>>

\* one pass of the reading copy: the file's next chunk (what is there, at
\* most `chunk` bytes) is given to nodeWriter.Write
CopyWrite ==
    /\ ~wdone /\ ~w.err /\ pos < Len(file)
    /\ LET b == SubSeq(file, pos + 1, Min({pos + chunk, Len(file)})) IN
       /\ w' = NodeWrite(w, b)
       /\ pos' = pos + Len(b)
    /\ UNCHANGED <<hs, corrupt, rbuf, r, file, rdone, chunk, wdone>>

\* the reading copy returns: Write failed, or the file read returned io.EOF
CopyEnd ==
    /\ ~wdone /\ (w.err \/ pos = Len(file))
    /\ wdone' = TRUE
    /\ UNCHANGED <<hs, corrupt, rbuf, r, file, rdone, chunk, w, pos>>

\* both copies have returned, or the writing one reached MaxNodeFile
Terminating ==
    /\ rdone \/ Len(file) >= MaxNodeFile
    /\ wdone
    /\ UNCHANGED vars

Next == CopyRead \/ CopyWrite \/ CopyEnd \/ Terminating

\* the goroutines running the two copies are scheduled
Fairness == WF_vars(CopyRead) /\ WF_vars(CopyWrite) /\ WF_vars(CopyEnd)

Spec == Init /\ [][Next]_vars /\ Fairness

-----------------------------------------------------------------------------
(***************************************************************************)
(* Properties.                                                             *)
(***************************************************************************)

\* the bytes the reading copy consumed
Consumed == SubSeq(file, 1, pos)

TypeOK ==
    /\ file \in Seq(Syms \cup {Sep}) /\ Len(file) <= Max({MaxNodeFile, MaxFileLen})
    /\ w.hashes \in Seq(Seq(Syms)) /\ w.err \in BOOLEAN
    /\ pos \in 0..Len(file)
    /\ r.last \in -1..HashLen

\* WriteStream's node file is the reference encoding of the node's hashes:
\* every Read resumes where the previous one stopped, a hash split across
\* two Reads continues at the right byte, and a separator owed when the
\* buffer filled is written by the next Read before it moves on.
ReaderEncodes ==
    ~corrupt => IsPrefix(file, Encoded(hs))

\* WriteStream's io.CopyBuffer of the nodeReader returns: every Read
\* makes progress through the hashes, so io.EOF is reached.
ReaderReturns == <>rdone

\* A node file WriteStream finished, read back whole in chunks of any size,
\* parses without error into exactly the hashes the file lists: a hash or
\* a separator split between two Writes is reassembled, and nothing is
\* left in buf.
WholeNodeReadBack ==
    wdone /\ ~corrupt /\ rdone /\ pos = Len(file) =>
        ~w.err /\ Encoded(w.hashes) = file

\* A ReadStream or Clean that reads the node file while WriteStream is
\* still writing it, or after a failed or crashed write left it short,
\* gets no error and a prefix of the hashes in the file: a hash cut in the
\* middle stays in buf and is dropped, never parsed as a hash.
ShortNodeReadsPrefix ==
    wdone /\ ~corrupt =>
        ~w.err /\ IsPrefix(Encoded(w.hashes), file)
               /\ \A i \in 1..Len(w.hashes) : Len(w.hashes[i]) = HashLen

\* A node file with a separator ending a segment that is not exactly one
\* hash long is refused with errInvalidNode, however its reads are
\* chunked: a corrupt node never yields a hash that names no block.
WriterRejectsBadSegment ==
    wdone /\ BadSegment(Consumed) => w.err

====
