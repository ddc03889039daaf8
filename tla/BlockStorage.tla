---------------------------- MODULE BlockStorage ----------------------------
(***************************************************************************)
(* The chunked, content-addressed BlockStorage of go-store                 *)
(* (storage/block.go): WriteStream, ReadStream/ReadBytes with its          *)
(* blockReader, Remove, Clean and Close, run by concurrent callers, the    *)
(* block-writing goroutines WriteStream spawns, the store Lock (an         *)
(* open/closed flag and a WaitGroup of in-flight calls) and the buffer     *)
(* pool whose stale contents reach the hash of a short chunk.              *)
(*                                                                         *)
(* Data is abstracted to sequences over a small byte alphabet; a hash is   *)
(* the injective digest EncodeSum(buffer) (SHA-256 is collision free for   *)
(* the purpose of the model).  The key-value facade above the engine       *)
(* (kv.KVStore) is represented by two switches: KeyLocking, its per-key    *)
(* read/write mutex, and CleanExclusive, running Clean as the offline      *)
(* maintenance step the design intends.                                    *)
(***************************************************************************)
EXTENDS Naturals, Sequences, SequencesExt, FiniteSets

CONSTANTS
    Callers,        \* goroutines calling into the store
    Keys,           \* keys callers use
    InvalidKeys,    \* the keys among Keys that nodePathForKey rejects
    Bytes,          \* the byte alphabet of values
    Zero,           \* the byte a freshly allocated buffer holds
    BlockSize,      \* BlockConfig.BlockSize
    WriteValues,    \* the values callers write
    ReadSizes,      \* lengths of the buffers callers pass to Read
    Overwrite,      \* BlockConfig.Overwrite
    CwdFiles,       \* keys that happen to name a file in the working directory
    StreamErrors,   \* the caller's input stream may fail
    DiskErrors,     \* stat and block writes may fail
    MaxLosses,      \* bound on block files lost outside the store
    MaxCrashes,     \* bound on process crashes (each followed by OpenBlock)
    KeyLocking,     \* the facade serialises operations per key
    CleanExclusive, \* Clean runs with no other operation in flight
    NoFile, Absent, Corrupt, Orphan, NoKey

ASSUME Zero \in Bytes /\ BlockSize \in Nat \ {0} /\ InvalidKeys \subseteq Keys
ASSUME CwdFiles \subseteq Keys /\ MaxLosses \in Nat /\ MaxCrashes \in Nat

VARIABLES
    nodes,     \* node/<key> files: the sequence of hashes, or NoFile
    blocks,    \* block/<hash> files: the stored bytes, or NoFile
    pool,      \* stale contents of the buffers parked in the BufferPool
    lockSt,    \* Lock state: "open", "closing" (Close waiting) or "closed"
    inflight,  \* Lock WaitGroup counter (lock.Add / lock.Done)
    pending,   \* block-writing goroutines spawned by WriteStream
    lost,      \* block files lost outside the store (disk fault, operator)
    crashes,   \* process crashes so far
    pc,        \* where each caller is
    key,       \* key of the caller's current call
    rest,      \* input not yet read by WriteStream
    hashes,    \* node.hashes: built by WriteStream, consumed by blockReader
    err,       \* the call's errors.OnceError
    rbuf,      \* blockReader.buf
    prev,      \* blockReader.prev
    out,       \* bytes ReadBytes has returned so far
    cnodes,    \* Clean's in-memory map key -> node
    cwalk,     \* block names Clean has still to visit
    ret,       \* result of each caller's last call
    written,   \* ghost: the value each key holds for its callers
    expect,    \* ghost: written[key] when the caller's read opened
    val        \* ghost: the value the caller's write was given

storeVars  == <<nodes, blocks, pool, lockSt, inflight, pending, lost, crashes>>
callerVars == <<pc, key, rest, hashes, err, rbuf, prev, out, cnodes, cwalk, ret>>
ghostVars  == <<written, expect, val>>
vars == <<storeVars, callerVars, ghostVars>>

Buffer    == [1..BlockSize -> Bytes]
ZeroBuf   == [i \in 1..BlockSize |-> Zero]
Data      == BoundedSeq(Bytes, BlockSize)

\* hashEncoder.EncodeSum: the (injective) digest of the whole buffer it is given
EncodeSum(b) == [sum |-> b]
Hashes == {EncodeSum(d) : d \in Data \ {<<>>}}

MinOf(a, b) == IF a < b THEN a ELSE b

\* nodePathForKey: keys with '/', "." and ".." are illegal
ValidKey(k) == k \notin InvalidKeys

Results == {"none", "ok", "InvalidKey", "Closed", "AlreadyExists",
            "NotFound", "NoData", "IOError", "Corrupt"}

Idle(c) == pc[c] \in {"idle", "closing"}
Busy(c) == ~Idle(c)
ReadPcs == {"read", "readclose"}
CleanPcs == {"cleanlist", "cleanwalk"}

\* the facade's per-key mutex: a writer excludes everyone, readers share
KeyFree(c, k, write) ==
    KeyLocking =>
        \A d \in Callers \ {c} :
            Busy(d) /\ key[d] = k => ~write /\ pc[d] \in ReadPcs

\* an operation may start: no exclusive Clean is running
NoCleanRunning == CleanExclusive => \A d \in Callers : pc[d] \notin CleanPcs

\* the value read back from a node's hashes (errCorruptNode if a block is gone)
Assemble(hs) ==
    IF \A i \in 1..Len(hs) : blocks[hs[i]] # NoFile
    THEN FlattenSeq([i \in 1..Len(hs) |-> blocks[hs[i]]])
    ELSE Corrupt

(***************************************************************************)
(* Resetting a caller's locals on return.                                  *)
(***************************************************************************)
Return(c, r) ==
    /\ pc' = [pc EXCEPT ![c] = "idle"]
    /\ ret' = [ret EXCEPT ![c] = r]
    /\ key' = [key EXCEPT ![c] = NoKey]
    /\ rest' = [rest EXCEPT ![c] = <<>>]
    /\ hashes' = [hashes EXCEPT ![c] = <<>>]
    /\ err' = [err EXCEPT ![c] = FALSE]
    /\ rbuf' = [rbuf EXCEPT ![c] = <<>>]
    /\ prev' = [prev EXCEPT ![c] = 0]
    /\ out' = [out EXCEPT ![c] = <<>>]
    /\ cnodes' = [cnodes EXCEPT ![c] = [k \in Keys |-> NoFile]]
    /\ cwalk' = [cwalk EXCEPT ![c] = {}]
    /\ expect' = [expect EXCEPT ![c] = Absent]
    /\ val' = [val EXCEPT ![c] = <<>>]

(***************************************************************************)
(* WriteStream (block.go 410-568).                                         *)
(***************************************************************************)

\* entry: key check, lock.Add, Closed check, the existence check (which
\* stats the bare key, not its node path), the overwrite policy and the
\* MkdirAll of node/ and block/; an error of stat or MkdirAll returns it
WriteStart(c, k, v) ==
    /\ pc[c] = "idle" /\ NoCleanRunning /\ KeyFree(c, k, TRUE)
    /\ \/ /\ ~ValidKey(k) \/ lockSt # "open" \/ (k \in CwdFiles /\ ~Overwrite)
          /\ ret' = [ret EXCEPT ![c] = IF ~ValidKey(k) THEN "InvalidKey"
                                         ELSE IF lockSt # "open" THEN "Closed"
                                         ELSE "AlreadyExists"]
          /\ UNCHANGED <<pc, key, rest, inflight, val>>
       \/ /\ DiskErrors /\ ValidKey(k) /\ lockSt = "open"
          /\ ret' = [ret EXCEPT ![c] = "IOError"]
          /\ UNCHANGED <<pc, key, rest, inflight, val>>
       \/ /\ ValidKey(k) /\ lockSt = "open" /\ ~(k \in CwdFiles /\ ~Overwrite)
          /\ inflight' = inflight + 1
          /\ pc' = [pc EXCEPT ![c] = "chunk"]
          /\ key' = [key EXCEPT ![c] = k]
          /\ rest' = [rest EXCEPT ![c] = v]
          /\ val' = [val EXCEPT ![c] = v]
          /\ ret' = [ret EXCEPT ![c] = "none"]
    /\ UNCHANGED <<nodes, blocks, pool, lockSt, pending, lost, crashes, hashes, err,
                   rbuf, prev, out, cnodes, cwalk, written, expect>>

\* Mutant: the early return skips lock.Done
AbandonNoDone(c, r) ==
    /\ pending' = {IF g.owner = c THEN [g EXCEPT !.owner = Orphan] ELSE g
                   : g \in pending}
    /\ Return(c, r)
    /\ UNCHANGED inflight

\* an early return from the chunk loop: lock.Done runs, the goroutines
\* already spawned are not waited for and keep running
AbandonCall(c, r) ==
    /\ inflight' = inflight - 1
    /\ pending' = {IF g.owner = c THEN [g EXCEPT !.owner = Orphan] ELSE g
                   : g \in pending}
    /\ Return(c, r)

\* one iteration of the chunk loop: get a buffer, io.ReadFull, hash the
\* buffer, append the hash, statBlock, then skip or spawn the block write
WriteChunk(c) ==
    /\ pc[c] = "chunk" /\ ~err[c]
    /\ \E b \in pool \cup {ZeroBuf} :
       LET n    == MinOf(BlockSize, Len(rest[c]))
           data == SubSeq(rest[c], 1, n)
           B    == data \o SubSeq(b, n + 1, BlockSize)
           sum  == EncodeSum(B)
       IN
       \/ /\ StreamErrors
          /\ pool' = pool \cup {b}
          /\ AbandonCall(c, "IOError")
          /\ UNCHANGED <<nodes, blocks, lockSt, lost, crashes, written>>
       \/ /\ rest[c] = <<>>
          /\ pool' = pool \cup {b}
          /\ pc' = [pc EXCEPT ![c] = "wait"]
          /\ UNCHANGED <<nodes, blocks, lockSt, inflight, pending, lost, crashes,
                         key, rest, hashes, err, rbuf, prev, out, cnodes,
                         cwalk, ret, ghostVars>>
       \/ /\ rest[c] # <<>> /\ DiskErrors
          /\ pool' = (pool \ {b}) \cup {B}
          /\ AbandonCall(c, "IOError")
          /\ UNCHANGED <<nodes, blocks, lockSt, lost, crashes, written>>
       \/ /\ rest[c] # <<>>
          /\ hashes' = [hashes EXCEPT ![c] = Append(@, sum)]
          /\ rest' = [rest EXCEPT ![c] = SubSeq(@, n + 1, Len(@))]
          /\ IF blocks[sum] # NoFile
             THEN /\ pool' = (pool \ {b}) \cup {B}
                  /\ UNCHANGED <<pending, pc>>
             ELSE /\ pool' = pool \ {b}
                  /\ pending' = pending \cup
                        {[owner |-> c, sum |-> sum, data |-> data, buf |-> B]}
                  /\ pc' = [pc EXCEPT ![c] = IF n < BlockSize THEN "wait"
                                                              ELSE "chunk"]
          /\ UNCHANGED <<nodes, blocks, lockSt, inflight, lost, crashes, key, err,
                         rbuf, prev, out, cnodes, cwalk, ret, ghostVars>>

\* the loop stops once a block write has failed
WriteStopOnError(c) ==
    /\ pc[c] = "chunk" /\ err[c]
    /\ pc' = [pc EXCEPT ![c] = "wait"]
    /\ UNCHANGED <<storeVars, key, rest, hashes, err, rbuf, prev, out,
                   cnodes, cwalk, ret, ghostVars>>

\* goroutine: writeBlock(sum, buf.B[:n]), then bufpool.Put and wg.Done
BlockWriteOk(g) ==
    /\ g \in pending
    /\ blocks' = [blocks EXCEPT ![g.sum] = g.data]
    /\ pool' = pool \cup {g.buf}
    /\ pending' = pending \ {g}
    /\ UNCHANGED <<nodes, lockSt, inflight, lost, crashes, callerVars, ghostVars>>

\* writeBlock fails: either open fails (no file), or the file was created
\* and the compressed write stopped part way (a prefix of the data on disk)
BlockWriteFail(g) ==
    /\ DiskErrors /\ g \in pending
    /\ \/ UNCHANGED blocks
       \/ \E m \in 0..(Len(g.data) - 1) :
             blocks' = [blocks EXCEPT ![g.sum] = SubSeq(g.data, 1, m)]
    /\ pool' = pool \cup {g.buf}
    /\ pending' = pending \ {g}
    /\ err' = IF g.owner = Orphan THEN err ELSE [err EXCEPT ![g.owner] = TRUE]
    /\ UNCHANGED <<nodes, lockSt, inflight, lost, crashes, pc, key, rest, hashes,
                   rbuf, prev, out, cnodes, cwalk, ret, ghostVars>>

\* Mutant: the node file is opened without O_EXCL
NodeExclNever(k) == FALSE

\* open(npath, flags) with O_EXCL when overwrites are off: it fails with
\* EEXIST (errSwapExist) on an existing node file
NodeExclFails(k) == ~Overwrite /\ nodes[k] # NoFile

\* Mutant: the node file is opened without O_TRUNC, keeping its old bytes
OpenedNodeNoTrunc(k) == IF nodes[k] = NoFile THEN <<>> ELSE nodes[k]

\* the node file's contents once opened: created empty, or truncated
OpenedNode(k) == <<>>

\* Mutant: WriteStream goes on without wg.Wait
BlocksWrittenNoWait(c) == TRUE

\* wg.Wait: every block goroutine this call spawned has finished
BlocksWritten(c) == \A g \in pending : g.owner # c

\* wg.Wait, the error and empty-node checks, and opening the node file;
\* the open fails with EEXIST (errSwapExist) or with any other disk error
WriteOpenNode(c) ==
    /\ pc[c] = "wait"
    /\ BlocksWritten(c)
    /\ LET k == key[c] IN
       \/ /\ err[c] \/ hashes[c] = <<>> \/ NodeExclFails(k)
          /\ inflight' = inflight - 1
          /\ Return(c, IF err[c] THEN "IOError"
                       ELSE IF hashes[c] = <<>> THEN "NoData"
                       ELSE "AlreadyExists")
          /\ UNCHANGED <<nodes, written>>
       \/ /\ DiskErrors /\ ~err[c] /\ hashes[c] # <<>> /\ ~NodeExclFails(k)
          /\ inflight' = inflight - 1
          /\ Return(c, "IOError")
          /\ UNCHANGED <<nodes, written>>
       \/ /\ ~err[c] /\ hashes[c] # <<>> /\ ~NodeExclFails(k)
          /\ nodes' = [nodes EXCEPT ![k] = OpenedNode(k)]
          /\ pc' = [pc EXCEPT ![c] = "node"]
          /\ UNCHANGED <<inflight, key, rest, hashes, err, rbuf, prev, out,
                         cnodes, cwalk, ret, ghostVars>>
    /\ UNCHANGED <<blocks, pool, lockSt, pending, lost, crashes>>

\* a write of hs at the start of a file holding old
WriteOver(hs, old) == hs \o SubSeq(old, Len(hs) + 1, Len(old))

\* Mutant: the node serialisation loses the final hash
NodeWriteDropLast(c) ==
    /\ pc[c] = "node"
    /\ nodes' = [nodes EXCEPT ![key[c]] =
                    WriteOver(SubSeq(hashes[c], 1, Len(hashes[c]) - 1), @)]
    /\ written' = [written EXCEPT ![key[c]] = val[c]]
    /\ inflight' = inflight - 1
    /\ Return(c, "ok")
    /\ UNCHANGED <<blocks, pool, lockSt, pending, lost, crashes>>

\* io.CopyBuffer of the nodeReader into the opened node file, lock.Done;
\* on a disk error only part of the hash list reaches the file
WriteNode(c) ==
    /\ pc[c] = "node"
    /\ LET k == key[c] IN
       \/ /\ nodes' = [nodes EXCEPT ![k] = WriteOver(hashes[c], @)]
          /\ written' = [written EXCEPT ![k] = val[c]]
          /\ inflight' = inflight - 1
          /\ Return(c, "ok")
       \/ /\ DiskErrors
          /\ \E m \in 0..(Len(hashes[c]) - 1) :
                nodes' = [nodes EXCEPT ![k] = WriteOver(SubSeq(hashes[c], 1, m), @)]
          /\ inflight' = inflight - 1
          /\ Return(c, "IOError")
          /\ UNCHANGED written
    /\ UNCHANGED <<blocks, pool, lockSt, pending, lost, crashes>>

(***************************************************************************)
(* ReadBytes = ReadStream (block.go 332-380), io.ReadAll over the          *)
(* blockReader (824-865, readBlock 382-402) and the deferred Close that    *)
(* runs lock.Done.                                                         *)
(***************************************************************************)

\* entry: key check, lock.Add, Closed check, open and parse the node file
ReadStart(c, k) ==
    /\ pc[c] = "idle" /\ NoCleanRunning /\ KeyFree(c, k, FALSE)
    /\ IF ~ValidKey(k) \/ lockSt # "open" \/ nodes[k] = NoFile
       THEN /\ ret' = [ret EXCEPT ![c] = IF ~ValidKey(k) THEN "InvalidKey"
                                          ELSE IF lockSt # "open" THEN "Closed"
                                          ELSE "NotFound"]
            /\ UNCHANGED <<inflight, pc, key, hashes, expect>>
       ELSE /\ inflight' = inflight + 1
            /\ pc' = [pc EXCEPT ![c] = "read"]
            /\ key' = [key EXCEPT ![c] = k]
            /\ hashes' = [hashes EXCEPT ![c] = nodes[k]]
            /\ expect' = [expect EXCEPT ![c] = written[k]]
            /\ ret' = [ret EXCEPT ![c] = "none"]
    /\ UNCHANGED <<nodes, blocks, pool, lockSt, pending, lost, crashes, rest, err,
                   rbuf, prev, out, cnodes, cwalk, written, val>>

\* the blockReader loop: take the next hash, readBlock it and copy from it
\* until the caller's buffer of sz bytes is full or the hashes run out
RECURSIVE LoadBlocks(_, _)
LoadBlocks(r, sz) ==
    IF r.hs = <<>> THEN [r EXCEPT !.status = "EOF"]
    ELSE LET h == Head(r.hs) IN
         IF blocks[h] = NoFile
         THEN [r EXCEPT !.hs = Tail(@), !.buf = <<>>, !.status = "Corrupt"]
         ELSE LET b  == blocks[h]
                  m  == MinOf(sz - r.n, Len(b))
                  r2 == [r EXCEPT !.hs = Tail(@), !.buf = b, !.prev = m,
                                  !.out = @ \o SubSeq(b, 1, m), !.n = @ + m]
              IN IF r2.n >= sz THEN [r2 EXCEPT !.status = "more"]
                 ELSE LoadBlocks(r2, sz)

\* blockReader.Read(b) with len(b) = sz: first the bytes left in buf
\* (when prev < len(buf)-1), then LoadBlocks
BlockRead(r, sz) ==
    LET m  == MinOf(sz, Len(r.buf) - r.prev)
        r1 == IF r.prev < Len(r.buf) - 1
              THEN [r EXCEPT !.out = @ \o SubSeq(r.buf, r.prev + 1, r.prev + m),
                             !.prev = @ + m, !.n = m]
              ELSE r
    IN IF r1.n >= sz THEN [r1 EXCEPT !.status = "more"] ELSE LoadBlocks(r1, sz)

\* one Read call made by io.ReadAll; EOF or an error ends ReadAll
ReadCall(c) ==
    /\ pc[c] = "read"
    /\ \E sz \in ReadSizes :
       LET r == BlockRead([hs |-> hashes[c], buf |-> rbuf[c], prev |-> prev[c],
                           out |-> out[c], n |-> 0, status |-> "none"], sz)
       IN /\ hashes' = [hashes EXCEPT ![c] = r.hs]
          /\ rbuf' = [rbuf EXCEPT ![c] = r.buf]
          /\ prev' = [prev EXCEPT ![c] = r.prev]
          /\ out' = [out EXCEPT ![c] = r.out]
          /\ IF r.status = "more"
             THEN UNCHANGED <<pc, ret>>
             ELSE /\ pc' = [pc EXCEPT ![c] = "readclose"]
                  /\ ret' = [ret EXCEPT ![c] = IF r.status = "EOF" THEN "ok"
                                                ELSE "Corrupt"]
    /\ UNCHANGED <<storeVars, key, rest, err, cnodes, cwalk, ghostVars>>

\* Mutant: lock.Done runs twice, from the callback and from a defer
ReadCloseTwice(c) ==
    /\ pc[c] = "readclose"
    /\ inflight' = inflight - 2
    /\ Return(c, ret[c])
    /\ UNCHANGED <<nodes, blocks, pool, lockSt, pending, lost, crashes, written>>

\* the deferred rc.Close: ReadCloserWithCallback runs lock.Done
ReadClose(c) ==
    /\ pc[c] = "readclose"
    /\ inflight' = inflight - 1
    /\ Return(c, ret[c])
    /\ UNCHANGED <<nodes, blocks, pool, lockSt, pending, lost, crashes, written>>

(***************************************************************************)
(* Remove, as RemoveKey (block.go 624-646): one unlink between lock.Add    *)
(* and lock.Done.                                                          *)
(***************************************************************************)
RemoveKey(c, k) ==
    /\ pc[c] = "idle" /\ NoCleanRunning /\ KeyFree(c, k, TRUE)
    /\ ret' = [ret EXCEPT ![c] = IF ~ValidKey(k) THEN "InvalidKey"
                                 ELSE IF lockSt # "open" THEN "Closed"
                                 ELSE IF nodes[k] = NoFile THEN "NotFound"
                                 ELSE "ok"]
    /\ IF ValidKey(k) /\ lockSt = "open" /\ nodes[k] # NoFile
       THEN /\ nodes' = [nodes EXCEPT ![k] = NoFile]
            /\ written' = [written EXCEPT ![k] = Absent]
       ELSE UNCHANGED <<nodes, written>>
    /\ UNCHANGED <<blocks, pool, lockSt, inflight, pending, lost, crashes, pc, key,
                   rest, hashes, err, rbuf, prev, out, cnodes, cwalk,
                   expect, val>>

(***************************************************************************)
(* Clean (block.go 186-316) and node.removeHash (712-725).                 *)
(***************************************************************************)

\* Mutant: the slice is cut at the first match (hashes[:i]), its tail lost
removeHashTruncate(hs, h) ==
    LET i == SelectInSeq(hs, LAMBDA x : x = h)
    IN IF i = 0 THEN hs ELSE SubSeq(hs, 1, i - 1)

\* Mutant: only the first occurrence is dropped
removeHashFirst(hs, h) == RemoveFirst(hs, h)

\* node.removeHash: drop every occurrence of h
removeHash(hs, h) == Remove(hs, h)

\* entry and the walk of node/: every node file parsed into the map; an
\* open or read error of a node file is kept and returned after the walk.
\* The facade's lock excludes other calls, not goroutines an abandoned
\* write left running.
CleanStart(c) ==
    /\ pc[c] = "idle"
    /\ CleanExclusive => \A d \in Callers \ {c} : Idle(d)
    /\ \/ /\ lockSt # "open"
          /\ ret' = [ret EXCEPT ![c] = "Closed"]
          /\ UNCHANGED <<inflight, pc, cnodes>>
       \/ /\ DiskErrors /\ lockSt = "open" /\ \E k \in Keys : nodes[k] # NoFile
          /\ ret' = [ret EXCEPT ![c] = "IOError"]
          /\ UNCHANGED <<inflight, pc, cnodes>>
       \/ /\ lockSt = "open"
          /\ inflight' = inflight + 1
          /\ pc' = [pc EXCEPT ![c] = "cleanlist"]
          /\ cnodes' = [cnodes EXCEPT ![c] = nodes]
          /\ ret' = [ret EXCEPT ![c] = "none"]
    /\ UNCHANGED <<nodes, blocks, pool, lockSt, pending, lost, crashes, key, rest,
                   hashes, err, rbuf, prev, out, cwalk, ghostVars>>

\* util.WalkDir of block/ reads the directory's entries
CleanList(c) ==
    /\ pc[c] = "cleanlist"
    /\ pc' = [pc EXCEPT ![c] = "cleanwalk"]
    /\ cwalk' = [cwalk EXCEPT ![c] = {h \in Hashes : blocks[h] # NoFile}]
    /\ UNCHANGED <<storeVars, key, rest, hashes, err, rbuf, prev, out,
                   cnodes, ret, ghostVars>>

\* the callback for one block file: remove its hash from every node, drop
\* nodes left empty, and os.Remove the block when no node used it
CleanBlock(c, h) ==
    /\ pc[c] = "cleanwalk" /\ h \in cwalk[c]
    /\ cwalk' = [cwalk EXCEPT ![c] = @ \ {h}]
    /\ LET cn    == cnodes[c]
           users == {k \in Keys : cn[k] # NoFile /\ Contains(cn[k], h)}
       IN IF err[c]
          THEN UNCHANGED <<blocks, cnodes, err>>
          ELSE /\ cnodes' = [cnodes EXCEPT ![c] =
                    [k \in Keys |-> IF k \notin users THEN cn[k]
                                    ELSE IF removeHash(cn[k], h) = <<>>
                                         THEN NoFile
                                         ELSE removeHash(cn[k], h)]]
               /\ IF users # {}
                  THEN UNCHANGED <<blocks, err>>
                  ELSE IF blocks[h] = NoFile
                  THEN /\ err' = [err EXCEPT ![c] = TRUE]
                       /\ UNCHANGED blocks
                  ELSE \/ /\ blocks' = [blocks EXCEPT ![h] = NoFile]
                          /\ UNCHANGED err
                       \/ /\ DiskErrors
                          /\ err' = [err EXCEPT ![c] = TRUE]
                          /\ UNCHANGED blocks
    /\ UNCHANGED <<nodes, pool, lockSt, inflight, pending, lost, crashes, pc, key, rest,
                   hashes, rbuf, prev, out, ret, ghostVars>>

\* after both walks: an error, or the nodes left over are reported corrupt
CleanFinish(c) ==
    /\ pc[c] = "cleanwalk" /\ cwalk[c] = {}
    /\ inflight' = inflight - 1
    /\ Return(c, IF err[c] THEN "IOError"
                 ELSE IF \E k \in Keys : cnodes[c][k] # NoFile THEN "Corrupt"
                 ELSE "ok")
    /\ UNCHANGED <<nodes, blocks, pool, lockSt, pending, lost, crashes, written>>

(***************************************************************************)
(* Close (block.go 649-651): Lock.Close marks the lock closed, waits for   *)
(* the in-flight calls and releases the lock file.                         *)
(***************************************************************************)
CloseStart(c) ==
    /\ pc[c] = "idle" /\ lockSt = "open"
    /\ lockSt' = "closing"
    /\ pc' = [pc EXCEPT ![c] = "closing"]
    /\ UNCHANGED <<nodes, blocks, pool, inflight, pending, lost, crashes, key, rest,
                   hashes, err, rbuf, prev, out, cnodes, cwalk, ret, ghostVars>>

CloseWait(c) ==
    /\ pc[c] = "closing" /\ inflight = 0
    /\ lockSt' = "closed"
    /\ pc' = [pc EXCEPT ![c] = "idle"]
    /\ ret' = [ret EXCEPT ![c] = "ok"]
    /\ UNCHANGED <<nodes, blocks, pool, inflight, pending, lost, crashes, key, rest,
                   hashes, err, rbuf, prev, out, cnodes, cwalk, ghostVars>>

(***************************************************************************)
(* The environment: a block file disappears while the store is open and   *)
(* no Clean runs (a disk fault or an operator deleting it).               *)
(***************************************************************************)
LoseBlock(h) ==
    /\ Cardinality(lost) < MaxLosses /\ lockSt = "open"
    /\ \A d \in Callers : pc[d] \notin CleanPcs
    /\ blocks[h] # NoFile
    /\ blocks' = [blocks EXCEPT ![h] = NoFile]
    /\ lost' = lost \cup {h}
    /\ UNCHANGED <<nodes, pool, lockSt, inflight, pending, crashes,
                   callerVars, ghostVars>>

(***************************************************************************)
(* The process crashes and OpenBlock runs again: every call and block     *)
(* goroutine dies, the Lock reopens with no call in flight and the pools  *)
(* start empty; the node and block files stay as they were on disk.      *)
(***************************************************************************)
Crash ==
    /\ crashes < MaxCrashes
    /\ crashes' = crashes + 1
    /\ pool' = {}
    /\ lockSt' = "open"
    /\ inflight' = 0
    /\ pending' = {}
    /\ pc' = [c \in Callers |-> "idle"]
    /\ key' = [c \in Callers |-> NoKey]
    /\ rest' = [c \in Callers |-> <<>>]
    /\ hashes' = [c \in Callers |-> <<>>]
    /\ err' = [c \in Callers |-> FALSE]
    /\ rbuf' = [c \in Callers |-> <<>>]
    /\ prev' = [c \in Callers |-> 0]
    /\ out' = [c \in Callers |-> <<>>]
    /\ cnodes' = [c \in Callers |-> [k \in Keys |-> NoFile]]
    /\ cwalk' = [c \in Callers |-> {}]
    /\ ret' = [c \in Callers |-> "none"]
    /\ expect' = [c \in Callers |-> Absent]
    /\ val' = [c \in Callers |-> <<>>]
    /\ UNCHANGED <<nodes, blocks, lost, written>>

-----------------------------------------------------------------------------

Init ==
    /\ nodes = [k \in Keys |-> NoFile]
    /\ blocks = [h \in Hashes |-> NoFile]
    /\ pool = {}
    /\ lockSt = "open"
    /\ inflight = 0
    /\ pending = {}
    /\ lost = {}
    /\ crashes = 0
    /\ pc = [c \in Callers |-> "idle"]
    /\ key = [c \in Callers |-> NoKey]
    /\ rest = [c \in Callers |-> <<>>]
    /\ hashes = [c \in Callers |-> <<>>]
    /\ err = [c \in Callers |-> FALSE]
    /\ rbuf = [c \in Callers |-> <<>>]
    /\ prev = [c \in Callers |-> 0]
    /\ out = [c \in Callers |-> <<>>]
    /\ cnodes = [c \in Callers |-> [k \in Keys |-> NoFile]]
    /\ cwalk = [c \in Callers |-> {}]
    /\ ret = [c \in Callers |-> "none"]
    /\ written = [k \in Keys |-> Absent]
    /\ expect = [c \in Callers |-> Absent]
    /\ val = [c \in Callers |-> <<>>]

\* a call in progress takes its next step
Continue(c) ==
    \/ WriteChunk(c) \/ WriteStopOnError(c) \/ WriteOpenNode(c) \/ WriteNode(c)
    \/ ReadCall(c) \/ ReadClose(c)
    \/ CleanList(c) \/ (\E h \in Hashes : CleanBlock(c, h)) \/ CleanFinish(c)
    \/ CloseWait(c)

\* a caller makes a new call
Call(c) ==
    \/ \E k \in Keys, v \in WriteValues : WriteStart(c, k, v)
    \/ \E k \in Keys : ReadStart(c, k) \/ RemoveKey(c, k)
    \/ CleanStart(c)
    \/ CloseStart(c)

Goroutine == \E g \in pending : BlockWriteOk(g) \/ BlockWriteFail(g)

Next ==
    \/ \E c \in Callers : Call(c) \/ Continue(c)
    \/ Goroutine
    \/ \E h \in Hashes : LoseBlock(h)
    \/ Crash

\* the Go scheduler runs every runnable goroutine: a started call and a
\* spawned block writer keep going; making a new call is the caller's choice
Fairness ==
    /\ \A c \in Callers : WF_vars(Continue(c))
    /\ WF_vars(Goroutine)

Spec == Init /\ [][Next]_vars /\ Fairness

-----------------------------------------------------------------------------
(***************************************************************************)
(* Properties.                                                             *)
(***************************************************************************)

TypeOK ==
    /\ nodes \in [Keys -> Seq(Hashes) \cup {NoFile}]
    /\ blocks \in [Hashes -> Data \cup {NoFile}]
    /\ pool \subseteq Buffer
    /\ lockSt \in {"open", "closing", "closed"}
    /\ inflight \in 0..Cardinality(Callers)
    /\ \A g \in pending : g.owner \in Callers \cup {Orphan}
                          /\ g.sum \in Hashes /\ g.data \in Data
    /\ lost \subseteq Hashes
    /\ crashes \in 0..MaxCrashes
    /\ pc \in [Callers -> {"idle", "chunk", "wait", "node", "read",
                           "readclose", "cleanlist", "cleanwalk", "closing"}]
    /\ ret \in [Callers -> Results]
    /\ err \in [Callers -> BOOLEAN]

\* ReadBytes after a successful WriteStream returns exactly the bytes that
\* were written: a read that ends without error hands back the value the key
\* held (for its callers) when the read opened the node file.
RoundTrip ==
    \A c \in Callers :
        pc[c] = "readclose" /\ ret[c] = "ok" => out[c] = expect[c]

\* Content addressing: a block file holds exactly the bytes whose hash is
\* its name, so deduplicating against an existing block file is sound.
BlockContentAddressed ==
    \A h \in Hashes : blocks[h] \in {NoFile, h.sum}

\* Every hash a node file lists names an existing block file, unless that
\* block was lost outside the store: neither WriteStream's dedup skip nor
\* Clean's deletions can leave a node pointing at nothing.
NoDanglingNode ==
    \A k \in Keys : nodes[k] # NoFile =>
        \A i \in 1..Len(nodes[k]) :
            blocks[nodes[k][i]] # NoFile \/ nodes[k][i] \in lost

\* a write of k is between opening its node file and writing it
Writing(k) == \E c \in Callers : pc[c] = "node" /\ key[c] = k

\* A node file outside a write in progress holds the value of the key's last
\* completed WriteStream (or is corrupt because a block was lost): neither a
\* failed node write nor a crash after the O_EXCL create leaves a key that
\* reads as a value nobody wrote (spec: write failures leave no node file).
NodeHoldsCompletedWrite ==
    \A k \in Keys : nodes[k] # NoFile /\ ~Writing(k) =>
        Assemble(nodes[k]) \in {written[k], Corrupt}

\* the keys whose node references a missing block, and the blocks no node uses
CorruptKeys == {k \in Keys : nodes[k] # NoFile /\ Assemble(nodes[k]) = Corrupt}
Garbage == {h \in Hashes : blocks[h] # NoFile /\
                           \A k \in Keys : nodes[k] = NoFile \/ ~Contains(nodes[k], h)}

\* Clean, when it returns without an I/O error, has deleted every block no
\* node references and reports as corrupt exactly the keys whose node
\* references a missing block (spec 4.4, and the idempotence of 8).
CleanExact ==
    [][\A c \in Callers :
         pc[c] = "cleanwalk" /\ pc'[c] = "idle" /\ ret'[c] # "IOError" =>
             /\ {k \in Keys : cnodes[c][k] # NoFile} = CorruptKeys
             /\ Garbage = {}]_vars

\* Once Close has returned, no node or block file changes: Close drains
\* every operation, including the block writes a WriteStream started.
NoWriteAfterClose ==
    [][lockSt = "closed" => UNCHANGED <<nodes, blocks>>]_vars

\* With overwrites off, a WriteStream to a key that already has a node is
\* rejected before it chunks and stores anything (spec 4.1).
ExistingKeyRejectedEarly ==
    \A c \in Callers :
        pc[c] \in {"chunk", "wait"} /\ ~Overwrite => nodes[key[c]] = NoFile

\* With overwrites off, a node file that exists outside a write in progress
\* is never replaced, only removed: the existence check at the top of
\* WriteStream stats the key rather than its node path, so O_EXCL on the
\* node file is what keeps the stored value, through faults and crashes.
ExistingNodeKept ==
    [][~Overwrite =>
         \A k \in Keys : nodes[k] # NoFile /\ ~Writing(k) =>
             nodes'[k] \in {nodes[k], NoFile}]_vars

\* Every call a caller makes returns, and Close completes.
CallsReturn == \A c \in Callers : pc[c] # "idle" ~> pc[c] = "idle"

\* The refinement mapping: a key's value is the value its node assembles,
\* and a node whose file is being written already holds the new value.
AbsStore ==
    [k \in Keys |->
        IF \E c \in Callers : pc[c] = "node" /\ key[c] = k
        THEN Assemble(hashes[CHOOSE c \in Callers : pc[c] = "node" /\ key[c] = k])
        ELSE IF nodes[k] = NoFile THEN Absent ELSE Assemble(nodes[k])]

KV == INSTANCE KVStore WITH store <- AbsStore, Values <- WriteValues

\* The engine implements the key-value store of the spec.
KVRefinement == KV!Spec

====
