----------------------------- MODULE WalStorage -----------------------------
(***************************************************************************)
(* The WAL store of one safekeeper, safekeeper/src/storage.rs: segment     *)
(* files, an in-memory ring over the newest bytes, and a metadata file     *)
(* (start_lsn, flush_lsn) that decides what a reopened store recovers.     *)
(*                                                                         *)
(* The store is behind one mutex, so its methods do not interleave; they   *)
(* can be cut by a crash or end early in an I/O error.  append is one      *)
(* step, with the error after any whole chunk as an alternative; flush is  *)
(* three steps, so that a crash can come between the fsync of the          *)
(* segments, the rename of the metadata and the return to the caller.      *)
(*                                                                         *)
(* Files are external: the page cache (`file`) survives a killed process,  *)
(* a power loss may undo any write not yet fsynced and the last rename,    *)
(* which no fsync of the directory follows.                                *)
(***************************************************************************)
EXTENDS Integers, Sequences, FiniteSets

CONSTANTS
    Byte,           \* the values of a WAL byte
    Zero,           \* a byte of a preallocated segment that was never written
    SegSize,        \* WalConfig::segment_size
    RingCap,        \* WalConfig::ring_capacity
    Origins,        \* the LSNs at which a first append may start
    MaxLsn,         \* bound: no append goes beyond this LSN
    MaxRun,         \* bound: length of one append
    MaxCrashes,     \* bound: kills and power losses
    PowerLosses,    \* whether a crash may lose the page cache
    Faults,         \* the I/O errors that occur: "write", "fsync", "meta"
    MaxFaults,      \* bound: I/O errors
    Recycling       \* whether remove_segments_before is called

ASSUME SizeAssumption == SegSize \in Nat \ {0} /\ RingCap \in Nat /\ MaxRun \in Nat
ASSUME OriginAssumption == Origins \subseteq 0..MaxLsn /\ MaxLsn \in Nat
ASSUME ByteAssumption == Zero \notin Byte

VARIABLES
    start_lsn, write_lsn, flush_lsn, ring, ring_start,
    dirty,          \* dirty_segments
    file,           \* byte at each LSN in the segment files, as read back
    synced,         \* byte at each LSN that is on the platter
    segs,           \* the segment files that exist
    meta,           \* contents of wal.meta, <<>> if there is none
    meta_prev,      \* what a power loss may bring back in its place
    pc,             \* "idle", or how far flush has come
    log,            \* history: the byte last appended at each LSN
    acked,          \* history: the flush_lsn last returned by flush or recovered by open
    recycled,       \* history: the segments below this LSN have been removed
    torn,           \* history: since it was opened, an append failed half-way
    crashes, faults

mem == <<start_lsn, write_lsn, flush_lsn, ring, ring_start, dirty>>
disk == <<file, synced, segs, meta, meta_prev>>
vars == <<mem, disk, pc, log, acked, recycled, torn, crashes, faults>>

Lsn == 0..MaxLsn
Seg(l) == l \div SegSize
RECOVERED_NOTHING == <<0, 0>>

(***************************************************************************)
(* Each field of the store in its range.                                   *)
(***************************************************************************)
TypeOK ==
    /\ start_lsn \in Lsn /\ write_lsn \in Lsn /\ flush_lsn \in Lsn /\ ring_start \in Lsn
    /\ ring \in Seq(Byte) /\ Len(ring) <= RingCap
    /\ dirty \subseteq segs /\ segs \subseteq {Seg(l) : l \in Lsn}
    /\ file \in [Lsn -> Byte \cup {Zero}]
    /\ synced \in [Lsn -> Byte \cup {Zero}]
    /\ log \in [Lsn -> Byte \cup {Zero}]
    /\ meta \in {<<>>} \cup (Lsn \X Lsn) /\ meta_prev \in {<<>>} \cup (Lsn \X Lsn)
    /\ pc \in {"idle", "synced", "renamed"}
    /\ acked \in Lsn /\ recycled \in Lsn /\ torn \in BOOLEAN

Open_ForgetsStart(m) ==
    LET found == IF m = <<>> THEN RECOVERED_NOTHING ELSE m
    IN  [start |-> found[2], flush |-> found[2]]

\* WalStorage::open on what read_meta finds.
Open(m) ==
    LET found == IF m = <<>> THEN RECOVERED_NOTHING ELSE m
    IN  [start |-> found[1], flush |-> found[2]]

Init ==
    /\ start_lsn = 0 /\ write_lsn = 0 /\ flush_lsn = 0
    /\ ring = <<>> /\ ring_start = 0 /\ dirty = {}
    /\ file = [l \in Lsn |-> Zero]
    /\ synced = [l \in Lsn |-> Zero]
    /\ segs = {} /\ meta = <<>> /\ meta_prev = <<>>
    /\ pc = "idle"
    /\ log = [l \in Lsn |-> Zero]
    /\ acked = 0 /\ recycled = 0 /\ torn = FALSE /\ crashes = 0 /\ faults = 0
-----------------------------------------------------------------------------
Fault(kind) ==
    /\ kind \in Faults
    /\ faults < MaxFaults
    /\ faults' = faults + 1

\* A store that has never been appended to takes its origin from the first run.
Fresh == write_lsn = 0 /\ start_lsn = 0

\* The n first bytes of data, written from `start` into the segment files.
WriteChunks(start, data, n) ==
    LET at == start..(start + n - 1)
        written == [l \in Lsn |-> IF l \in at THEN data[l - start + 1] ELSE file[l]]
        touched == {Seg(l) : l \in at}
    IN  /\ file' = written
        /\ log' = [l \in Lsn |-> IF l \in at THEN data[l - start + 1] ELSE log[l]]
        /\ segs' = segs \cup touched
        /\ dirty' = dirty \cup touched
        /\ write_lsn' = start + n

SeedOrigin(start) ==
    /\ Fresh \/ start = write_lsn                      \* else NonContiguous
    /\ start_lsn' = IF Fresh THEN start ELSE start_lsn
    /\ flush_lsn' = IF Fresh THEN start ELSE flush_lsn

RingOrigin(start) == IF Fresh THEN start ELSE ring_start

\* How many of n cached bytes are too many.
Evicted_OneLate(n) == IF n > RingCap + 1 THEN n - RingCap ELSE 0
Evicted(n) == IF n > RingCap THEN n - RingCap ELSE 0

\* The ring keeps the newest RingCap bytes.
CacheRun(start, data) ==
    LET all == ring \o data
        evicted == Evicted(Len(all))
    IN  /\ ring' = SubSeq(all, evicted + 1, Len(all))
        /\ ring_start' = RingOrigin(start) + evicted

\* append: seed, check contiguity, write every chunk, extend the ring.
AppendRun(start, data) ==
    /\ pc = "idle"
    /\ start + Len(data) <= MaxLsn
    /\ SeedOrigin(start)
    /\ WriteChunks(start, data, Len(data))
    /\ CacheRun(start, data)
    /\ UNCHANGED <<synced, meta, meta_prev, pc, acked, recycled, torn, crashes, faults>>

\* append when opening or writing the segment of a later chunk fails: the
\* chunks before it stay written and write_lsn stays advanced past them.
AppendFails(start, data) ==
    /\ pc = "idle"
    /\ start + Len(data) <= MaxLsn
    /\ SeedOrigin(start)
    /\ Fault("write")
    /\ \E n \in 0..(Len(data) - 1) :
          /\ n = 0 \/ (start + n) % SegSize = 0
          /\ WriteChunks(start, data, n)
          /\ torn' = (torn \/ n > 0)
    /\ ring_start' = RingOrigin(start)
    /\ UNCHANGED <<ring, synced, meta, meta_prev, pc, acked, recycled, crashes>>

\* The segments flush makes durable.
ToSync_OpenSegmentOnly == {i \in dirty : \A j \in dirty : j <= i}
ToSync == dirty

\* flush, first part: fsync every segment written since the last flush.
\* An fsync also makes the directory entries renamed before it durable.
FlushSync ==
    /\ pc = "idle"
    /\ synced' = [l \in Lsn |-> IF Seg(l) \in ToSync THEN file[l] ELSE synced[l]]
    /\ dirty' = {}
    /\ meta_prev' = IF dirty = {} THEN meta_prev ELSE meta
    /\ pc' = "synced"
    /\ UNCHANGED <<start_lsn, write_lsn, flush_lsn, ring, ring_start, file, segs, meta,
                   log, acked, recycled, torn, crashes, faults>>

\* An fsync fails after some of the segments: flush returns the error.
FlushSyncFails ==
    /\ pc = "idle"
    /\ Fault("fsync")
    /\ \E done \in SUBSET dirty :
          /\ done # dirty
          /\ synced' = [l \in Lsn |-> IF Seg(l) \in done THEN file[l] ELSE synced[l]]
          /\ meta_prev' = IF done = {} THEN meta_prev ELSE meta
    /\ UNCHANGED <<mem, file, segs, meta, pc, log, acked, recycled, torn, crashes>>

\* What write_meta records.
FlushedMeta_Early == <<start_lsn, flush_lsn>>
FlushedMeta == <<start_lsn, write_lsn>>

\* Second part: flush_lsn moves, then write_meta writes and fsyncs a temporary
\* file and renames it over wal.meta.
FlushMeta ==
    /\ pc = "synced"
    /\ flush_lsn' = write_lsn
    /\ meta_prev' = meta
    /\ meta' = FlushedMeta
    /\ pc' = "renamed"
    /\ UNCHANGED <<start_lsn, write_lsn, ring, ring_start, dirty, file, synced, segs,
                   log, acked, recycled, torn, crashes, faults>>

\* write_meta fails: flush returns the error with flush_lsn already moved.
FlushMetaFails ==
    /\ pc = "synced"
    /\ Fault("meta")
    /\ flush_lsn' = write_lsn
    /\ pc' = "idle"
    /\ UNCHANGED <<start_lsn, write_lsn, ring, ring_start, dirty, disk, log, acked, recycled,
                   torn, crashes>>

\* flush returns flush_lsn: the caller may acknowledge it.
FlushReturns ==
    /\ pc = "renamed"
    /\ acked' = flush_lsn
    /\ pc' = "idle"
    /\ UNCHANGED <<mem, disk, log, recycled, torn, crashes, faults>>

\* The segments that lie entirely below the horizon.
Below_AndAcross(horizon) == {s \in segs : Seg(start_lsn) <= s /\ s <= Seg(horizon)}
Below(horizon) == {s \in segs : Seg(start_lsn) <= s /\ s < Seg(horizon)}

\* remove_segments_before: whole segments below the horizon are deleted and
\* start_lsn moves, in memory only.  Callers pass a horizon they have flushed.
RemoveSegmentsBefore(horizon) ==
    LET gone == Below(horizon)
        floor == Seg(horizon) * SegSize
    IN  /\ Recycling
        /\ pc = "idle"
        /\ horizon <= flush_lsn
        /\ segs' = segs \ gone
        /\ file' = [l \in Lsn |-> IF Seg(l) \in gone THEN Zero ELSE file[l]]
        /\ synced' = [l \in Lsn |-> IF Seg(l) \in gone THEN Zero ELSE synced[l]]
        /\ start_lsn' = IF floor > start_lsn THEN floor ELSE start_lsn
        /\ recycled' = IF floor > recycled THEN floor ELSE recycled
        /\ UNCHANGED <<write_lsn, flush_lsn, ring, ring_start, dirty, meta, meta_prev, pc,
                       log, acked, torn, crashes, faults>>

Reopen(m) ==
    /\ crashes < MaxCrashes
    /\ crashes' = crashes + 1
    /\ start_lsn' = Open(m).start
    /\ flush_lsn' = Open(m).flush
    /\ write_lsn' = Open(m).flush
    /\ ring_start' = Open(m).flush
    /\ ring' = <<>>
    /\ dirty' = {}
    /\ meta' = m
    /\ acked' = Open(m).flush
    /\ pc' = "idle"
    /\ torn' = FALSE
    /\ UNCHANGED <<segs, log, recycled, faults>>

\* The process dies and is started again: the page cache is still there.
Kill ==
    /\ Reopen(meta)
    /\ UNCHANGED <<file, synced, meta_prev>>

\* The machine dies: each byte not yet fsynced is on the platter or not.
PowerLoss ==
    /\ PowerLosses
    /\ \E m \in {meta, meta_prev} : Reopen(m) /\ meta_prev' = m
    /\ \E lost \in SUBSET {l \in Lsn : file[l] # synced[l]} :
          LET kept == [l \in Lsn |-> IF l \in lost THEN synced[l] ELSE file[l]]
          IN  file' = kept /\ synced' = kept

Runs == UNION {[1..n -> Byte] : n \in 1..MaxRun}

Next ==
    \/ \E start \in Origins \cup {write_lsn}, data \in Runs :
          AppendRun(start, data) \/ AppendFails(start, data)
    \/ FlushSync \/ FlushSyncFails \/ FlushMeta \/ FlushMetaFails \/ FlushReturns
    \/ \E horizon \in Lsn : RemoveSegmentsBefore(horizon)
    \/ Kill \/ PowerLoss

Spec == Init /\ [][Next]_vars
-----------------------------------------------------------------------------
\* The first LSN that must be readable.  It is start_lsn, unless a crash has
\* brought back the start_lsn from before a remove_segments_before.
Retained == IF recycled > start_lsn THEN recycled ELSE start_lsn

\* read_at on [lo, hi): from the ring when it starts early enough, else from
\* the segment files.  An index past the ring panics, a missing file errs.
ReadByte(lo, l) ==
    IF lo >= ring_start /\ ring # <<>>
    THEN IF l - ring_start < Len(ring) THEN ring[l - ring_start + 1] ELSE "panic"
    ELSE IF Seg(l) \in segs THEN file[l] ELSE "not found"

(***************************************************************************)
(* A read of any range the store claims to hold, and that was not recycled *)
(* before, returns the bytes that were appended there, from ring or disk,  *)
(* after any crash (read_at).  Not so once an append failed after its      *)
(* first chunk: write_lsn is then past bytes the ring never got, and the   *)
(* ring is out of step until the store is opened again.                    *)
(***************************************************************************)
ReadsReturnLog ==
    ~torn =>
        \A lo \in Retained..(write_lsn - 1) : \A l \in lo..(write_lsn - 1) :
            ReadByte(lo, l) = log[l]

(***************************************************************************)
(* Whatever I/O error cut an append or a flush short, the segment files    *)
(* hold the appended bytes up to write_lsn, except those recycled (append, *)
(* remove_segments_before).                                                *)
(***************************************************************************)
SegmentsHoldLog ==
    \A l \in Retained..(write_lsn - 1) : Seg(l) \in segs /\ file[l] = log[l]

(***************************************************************************)
(* A reopened store never has less than was acknowledged, and exactly that *)
(* unless the crash came in the middle of a flush (open, flush), or a      *)
(* power loss undid the rename of the metadata.                            *)
(***************************************************************************)
ExactRecovery ==
    [][crashes' # crashes /\ meta' = meta =>
          /\ flush_lsn' >= acked
          /\ pc = "idle" => flush_lsn' = acked]_vars

\* How much of the log a store reopened on metadata m would hold.
Held(m) == IF Open(m).flush > Retained THEN Open(m).flush - Retained ELSE 0

\* The bytes the store has, as the caller appended them.
Kept == [i \in 1..(write_lsn - Retained) |-> log[Retained + i - 1]]

\* The store seen as the log of DurableLog.
Abstract == INSTANCE DurableLog WITH
    base <- Retained,
    log <- Kept,
    durable <- Held(meta),
    safe <- Held(meta_prev)

(***************************************************************************)
(* The store implements a durable log: no crash changes what it keeps, and *)
(* even a power loss keeps all that was flushed before the last flush.     *)
(***************************************************************************)
ImplementsDurableLog == Abstract!Spec
=============================================================================
