-------------------------- MODULE WalStorageProofs --------------------------
(***************************************************************************)
(* Proofs about the WAL store of a safekeeper: its reads, its recovery and *)
(* its implementation of DurableLog, for every segment size, ring capacity *)
(* and number of crashes and I/O errors.                                   *)
(***************************************************************************)
EXTENDS WalStorage, TLAPS

\* Leaves that cite no prover may take their time: SMT first, then Zenon.
USE SMTT(30), Zenon

\* What a store reopened on m would be short of is on the platter, and it
\* would begin where this one does unless it would be fresh.
MetaInv(m) ==
    /\ Open(m).start <= Open(m).flush
    /\ Open(m).flush <= write_lsn
    /\ Open(m).flush > 0 =>
          Retained = IF recycled > Open(m).start THEN recycled ELSE Open(m).start
    /\ \A l \in Lsn : Retained <= l /\ l < Open(m).flush => synced[l] = file[l]

\* The three positions are in order, and so are the two metadata files.
OrderInv ==
    /\ start_lsn <= flush_lsn /\ flush_lsn <= write_lsn
    /\ Open(meta_prev).flush <= Open(meta).flush

\* A segment with bytes that are not on the platter is dirty, and no dirty
\* segment is below the flush position.
DirtyInv ==
    /\ \A l \in Lsn : Retained <= l /\ l < write_lsn /\ Seg(l) \notin dirty => synced[l] = file[l]
    /\ \A s \in dirty : Seg(flush_lsn) <= s
    /\ dirty # {} => 0 < write_lsn

\* The steps of a flush: the segments first, then the metadata, which are
\* what was last acknowledged until flush has written them anew.
FlushInv ==
    /\ pc # "idle" => dirty = {}
    /\ pc = "renamed" => flush_lsn = write_lsn /\ Open(meta).flush = flush_lsn
    /\ pc # "renamed" => acked = Open(meta).flush
    /\ acked <= Open(meta).flush

\* The ring holds the newest bytes of the log, up to write_lsn unless an
\* append was torn.
RingInv ==
    /\ ring_start + Len(ring) <= write_lsn
    /\ ~torn => ring_start + Len(ring) = write_lsn
    /\ \A i \in 1..Len(ring) : ~torn => ring[i] = log[ring_start + i - 1]

StoreInv ==
    /\ TypeOK
    /\ OrderInv
    /\ MetaInv(meta) /\ MetaInv(meta_prev)
    /\ DirtyInv
    /\ FlushInv
    /\ RingInv
    /\ SegmentsHoldLog
-----------------------------------------------------------------------------
\* Segment numbers and the LSNs they begin at.
LEMMA SegFacts ==
    ASSUME NEW l \in Nat
    PROVE  /\ Seg(l) \in Nat
           /\ Seg(l) * SegSize \in Nat
           /\ Seg(l) * SegSize <= l
           /\ l < Seg(l) * SegSize + SegSize
BY SizeAssumption DEF Seg

LEMMA SegMonotone ==
    ASSUME NEW l \in Nat, NEW k \in Nat, l <= k
    PROVE  Seg(l) <= Seg(k)
BY SizeAssumption DEF Seg

\* What is at or above the first LSN of k's segment is in that segment or a later one.
LEMMA SegFloor ==
    ASSUME NEW l \in Nat, NEW k \in Nat, Seg(k) * SegSize <= l
    PROVE  Seg(k) <= Seg(l)
BY SizeAssumption, SegFacts DEF Seg

LEMMA LsnFacts ==
    /\ Lsn \subseteq Nat /\ 0 \in Lsn
    /\ \A k \in Nat, l \in Lsn : k <= l => k \in Lsn
BY OriginAssumption DEF Lsn

\* A store reopens at positions it has written, or at zero.
LEMMA OpenFacts ==
    ASSUME NEW m \in {<<>>} \cup (Lsn \X Lsn)
    PROVE  Open(m).start \in Lsn /\ Open(m).flush \in Lsn
BY LsnFacts DEF Open, RECOVERED_NOTHING

LEMMA OpenPair ==
    ASSUME NEW a \in Lsn, NEW b \in Lsn
    PROVE  Open(<<a, b>>).start = a /\ Open(<<a, b>>).flush = b
BY DEF Open, RECOVERED_NOTHING

LEMMA RunFacts ==
    ASSUME NEW data \in Runs
    PROVE  data \in Seq(Byte) /\ Len(data) \in Nat /\ Len(data) >= 1
<1>1. PICK n \in 1..MaxRun : data \in [1..n -> Byte]
  BY DEF Runs
<1>2. n \in Nat /\ n >= 1
  BY SizeAssumption
<1> QED
  BY <1>1, <1>2

\* Where the log begins and what is written, in one form for the first append
\* and the later ones.
LEMMA WriteFacts ==
    ASSUME StoreInv, NEW start \in Lsn, NEW data \in Seq(Byte), NEW n \in 0..Len(data),
           start + n \in Lsn, SeedOrigin(start), WriteChunks(start, data, n),
           recycled' = recycled
    PROVE  /\ start_lsn' \in Lsn /\ start_lsn' <= flush_lsn'
           /\ flush_lsn' \in Lsn /\ flush_lsn' <= start
           /\ write_lsn' = start + n /\ write_lsn <= start
           /\ \A l \in Lsn : Retained' <= l /\ l < start => Retained <= l /\ l < write_lsn
           /\ \A m \in {<<>>} \cup (Lsn \X Lsn) :
                 Open(m).flush <= write_lsn /\ Open(m).flush > 0 => Retained' = Retained
           /\ dirty # {} => flush_lsn' = flush_lsn
           /\ Retained' \in Lsn
<1>1. /\ start_lsn \in Lsn /\ flush_lsn \in Lsn /\ write_lsn \in Lsn /\ recycled \in Lsn
      /\ start_lsn <= flush_lsn /\ flush_lsn <= write_lsn
      /\ dirty # {} => 0 < write_lsn
  BY DEF StoreInv, TypeOK, OrderInv, DirtyInv
<1>2. CASE Fresh
  <2>1. start_lsn' = start /\ flush_lsn' = start
    BY <1>2 DEF SeedOrigin
  <2>2. write_lsn' = start + n
    BY DEF WriteChunks
  <2>3. write_lsn = 0
    BY <1>2 DEF Fresh
  <2>4. Retained' \in Lsn /\ Retained' >= start
    BY <1>1, <2>1, LsnFacts DEF Retained
  <2>5. ASSUME NEW m \in {<<>>} \cup (Lsn \X Lsn)
        PROVE  ~ (Open(m).flush <= write_lsn /\ Open(m).flush > 0)
    <3>1. Open(m).flush \in Nat
      BY OpenFacts, LsnFacts, Zenon
    <3> QED
      BY <2>3, <3>1
  <2> QED
    BY <1>1, <2>1, <2>2, <2>3, <2>4, <2>5, LsnFacts
<1>3. CASE ~ Fresh
  <2>1. start_lsn' = start_lsn /\ flush_lsn' = flush_lsn /\ start = write_lsn
    BY <1>3 DEF SeedOrigin
  <2>2. write_lsn' = start + n
    BY DEF WriteChunks
  <2>3. Retained' = Retained /\ Retained \in Lsn
    BY <1>1, <2>1 DEF Retained
  <2> QED
    BY <1>1, <2>1, <2>2, <2>3, LsnFacts
<1> QED
  BY <1>2, <1>3

LEMMA ChunkFacts ==
    ASSUME StoreInv, NEW start \in Lsn, NEW data \in Seq(Byte), NEW n \in 0..Len(data),
           start + n \in Lsn, WriteChunks(start, data, n)
    PROVE  /\ file' \in [Lsn -> Byte \cup {Zero}] /\ log' \in [Lsn -> Byte \cup {Zero}]
           /\ \A l \in Lsn : ~ (start <= l /\ l < start + n) =>
                 file'[l] = file[l] /\ log'[l] = log[l]
           /\ \A l \in Lsn : start <= l /\ l < start + n =>
                 /\ file'[l] = log'[l] /\ log'[l] = data[l - start + 1]
                 /\ Seg(l) \in segs' /\ Seg(l) \in dirty'
           /\ segs \subseteq segs' /\ dirty \subseteq dirty' /\ dirty' \subseteq segs'
           /\ segs' \subseteq {Seg(l) : l \in Lsn}
           /\ \A s \in dirty' \ dirty : Seg(start) <= s
           /\ dirty' # dirty => 0 < start + n
<1> DEFINE at == start..(start + n - 1)
           touched == {Seg(l) : l \in at}
<1>1. /\ start \in Nat /\ n \in Nat /\ n <= Len(data) /\ Lsn \subseteq Nat
      /\ file \in [Lsn -> Byte \cup {Zero}] /\ log \in [Lsn -> Byte \cup {Zero}]
      /\ dirty \subseteq segs /\ segs \subseteq {Seg(l) : l \in Lsn}
  BY LsnFacts DEF StoreInv, TypeOK
<1>2. \A l \in at : l \in Lsn /\ start <= l /\ l - start + 1 \in 1..Len(data)
  <2> SUFFICES ASSUME NEW l \in at PROVE l \in Lsn /\ start <= l /\ l - start + 1 \in 1..Len(data)
    OBVIOUS
  <2>1. l \in Nat /\ start <= l /\ l <= start + n - 1
    BY <1>1
  <2> QED
    BY <1>1, <2>1, LsnFacts
<1>3. \A l \in at : data[l - start + 1] \in Byte
  BY <1>2
<1>4. /\ file' = [l \in Lsn |-> IF l \in at THEN data[l - start + 1] ELSE file[l]]
      /\ log' = [l \in Lsn |-> IF l \in at THEN data[l - start + 1] ELSE log[l]]
      /\ segs' = segs \cup touched /\ dirty' = dirty \cup touched
  BY DEF WriteChunks
<1>5. \A l \in Lsn : l \in at <=> start <= l /\ l < start + n
  BY <1>1
<1>6. file' \in [Lsn -> Byte \cup {Zero}] /\ log' \in [Lsn -> Byte \cup {Zero}]
  BY <1>1, <1>3, <1>4
<1>7. touched \subseteq {Seg(l) : l \in Lsn} /\ \A s \in touched : Seg(start) <= s
  BY <1>1, <1>2, SegMonotone
<1>8. touched # {} => 0 < start + n
  BY <1>1
<1> HIDE DEF at
<1>9. \A l \in Lsn : ~ (start <= l /\ l < start + n) => file'[l] = file[l] /\ log'[l] = log[l]
  BY <1>4, <1>5
<1>10. \A l \in Lsn : start <= l /\ l < start + n =>
          /\ file'[l] = log'[l] /\ log'[l] = data[l - start + 1]
          /\ Seg(l) \in segs' /\ Seg(l) \in dirty'
  BY <1>4, <1>5
<1> HIDE DEF touched
<1>11. /\ segs \subseteq segs' /\ dirty \subseteq dirty' /\ dirty' \subseteq segs'
       /\ segs' \subseteq {Seg(l) : l \in Lsn}
       /\ \A s \in dirty' \ dirty : Seg(start) <= s
       /\ dirty' # dirty => 0 < start + n
  BY <1>1, <1>4, <1>7, <1>8
<1> QED
  BY <1>6, <1>9, <1>10, <1>11

\* MetaInv says the same of a later state whose bytes below write_lsn, and
\* whose beginning, are those of this one.
LEMMA MetaFrame ==
    ASSUME NEW m \in {<<>>} \cup (Lsn \X Lsn), MetaInv(m), write_lsn \in Lsn, write_lsn' \in Lsn,
           write_lsn <= write_lsn',
           Open(m).flush > 0 => Retained' = Retained,
           (IF recycled' > Open(m).start THEN recycled' ELSE Open(m).start)
              = (IF recycled > Open(m).start THEN recycled ELSE Open(m).start),
           Retained' \in Lsn, Retained \in Lsn,
           \A l \in Lsn : l < Open(m).flush /\ synced[l] = file[l] => synced'[l] = file'[l]
    PROVE  MetaInv(m)'
<1>1. Open(m).flush \in Nat /\ Open(m).start \in Nat /\ Lsn \subseteq Nat
  BY OpenFacts, LsnFacts, Zenon
<1>2. Open(m)' = Open(m)
  BY DEF Open, RECOVERED_NOTHING
<1>3. CASE Open(m).flush = 0
  <2>1. Open(m).start <= Open(m).flush
    BY DEF MetaInv
  <2>2. Open(m).flush <= write_lsn' /\ \A l \in Lsn : ~ (l < Open(m).flush)
    BY <1>1, <1>3
  <2> QED
    BY <1>2, <1>3, <2>1, <2>2 DEF MetaInv
<1>4. CASE Open(m).flush > 0
  <2>1. Retained' = Retained
    BY <1>4
  <2>2. Retained = IF recycled > Open(m).start THEN recycled ELSE Open(m).start
    BY <1>4 DEF MetaInv
  <2>3. \A l \in Lsn : Retained <= l /\ l < Open(m).flush => synced'[l] = file'[l]
    BY DEF MetaInv
  <2>4. Open(m).start <= Open(m).flush /\ Open(m).flush <= write_lsn'
    BY <1>1, LsnFacts DEF MetaInv
  <2> QED
    BY <1>2, <2>1, <2>2, <2>3, <2>4 DEF MetaInv
<1> QED
  BY <1>1, <1>3, <1>4

\* append, whole or up to a chunk that fails, keeps what it does not write and
\* marks what it writes.
LEMMA WriteKeeps ==
    ASSUME StoreInv, NEW start \in Lsn, NEW data \in Seq(Byte), NEW n \in 0..Len(data),
           start + n \in Lsn, SeedOrigin(start), WriteChunks(start, data, n), pc = "idle",
           UNCHANGED <<synced, meta, meta_prev, pc, acked, recycled>>
    PROVE  /\ OrderInv' /\ MetaInv(meta)' /\ MetaInv(meta_prev)' /\ DirtyInv' /\ FlushInv'
           /\ SegmentsHoldLog'
<1>0. /\ Lsn \subseteq Nat /\ n \in Nat
      /\ start_lsn \in Lsn /\ flush_lsn \in Lsn /\ write_lsn \in Lsn /\ recycled \in Lsn
      /\ meta \in {<<>>} \cup (Lsn \X Lsn) /\ meta_prev \in {<<>>} \cup (Lsn \X Lsn)
  BY LsnFacts DEF StoreInv, TypeOK
<1> DEFINE W == /\ start_lsn' \in Lsn /\ start_lsn' <= flush_lsn'
                /\ flush_lsn' \in Lsn /\ flush_lsn' <= start
                /\ write_lsn' = start + n /\ write_lsn <= start
                /\ \A l \in Lsn : Retained' <= l /\ l < start => Retained <= l /\ l < write_lsn
                /\ \A m \in {<<>>} \cup (Lsn \X Lsn) :
                      Open(m).flush <= write_lsn /\ Open(m).flush > 0 => Retained' = Retained
                /\ dirty # {} => flush_lsn' = flush_lsn
                /\ Retained' \in Lsn
<1>1. W
  BY WriteFacts
<1>2. /\ \A l \in Lsn : ~ (start <= l /\ l < start + n) =>
            file'[l] = file[l] /\ log'[l] = log[l]
      /\ \A l \in Lsn : start <= l /\ l < start + n =>
            file'[l] = log'[l] /\ Seg(l) \in segs' /\ Seg(l) \in dirty'
      /\ segs \subseteq segs' /\ dirty \subseteq dirty'
      /\ \A s \in dirty' \ dirty : Seg(start) <= s
      /\ dirty' # dirty => 0 < start + n
  BY ChunkFacts
<1>3. start \in Nat /\ write_lsn' \in Lsn /\ write_lsn <= write_lsn'
  BY <1>0, <1>1
<1>4. Retained \in Lsn
  BY <1>0 DEF Retained
<1>5. ASSUME NEW m \in {meta, meta_prev} PROVE MetaInv(m) /\ m \in {<<>>} \cup (Lsn \X Lsn)
  BY <1>0 DEF StoreInv
<1>6. ASSUME NEW m \in {meta, meta_prev} PROVE MetaInv(m)'
  <2>1. Open(m).flush <= write_lsn /\ Open(m).flush \in Lsn
    BY <1>5, OpenFacts DEF MetaInv
  <2>2. ASSUME NEW l \in Lsn, l < Open(m).flush PROVE file'[l] = file[l]
    <3>1. /\ l \in Nat /\ Open(m).flush \in Nat /\ write_lsn \in Nat /\ start \in Nat
          /\ write_lsn <= start
      BY <1>0, <1>1, <2>1, Zenon
    <3>2. ~ (start <= l)
      BY <2>1, <2>2, <3>1
    <3> QED
      BY <1>2, <3>2
  <2>3. Open(m).flush > 0 => Retained' = Retained
    BY <1>1, <1>5, <2>1
  <2> QED
    BY <1>0, <1>1, <1>3, <1>4, <1>5, <2>2, <2>3, MetaFrame
<1>7. OrderInv'
  <2>1. Open(meta)' = Open(meta) /\ Open(meta_prev)' = Open(meta_prev)
    BY DEF Open, RECOVERED_NOTHING
  <2> QED
    BY <1>0, <1>1, <2>1 DEF StoreInv, OrderInv
<1>8. DirtyInv'
  <2>1. ASSUME NEW l \in Lsn, Retained' <= l, l < write_lsn', Seg(l) \notin dirty'
        PROVE  synced'[l] = file'[l]
    <3>1. l < start
      BY <1>0, <1>1, <1>2, <2>1
    <3>2. Retained <= l /\ l < write_lsn /\ file'[l] = file[l]
      BY <1>0, <1>1, <1>2, <2>1, <3>1
    <3>3. Seg(l) \notin dirty
      BY <1>2, <2>1
    <3> QED
      BY <3>2, <3>3 DEF StoreInv, DirtyInv
  <2>2. ASSUME NEW s \in dirty' PROVE Seg(flush_lsn)' <= s
    <3>1. CASE s \in dirty
      <4>1. Seg(flush_lsn) <= s /\ flush_lsn' = flush_lsn
        BY <1>1, <3>1 DEF StoreInv, DirtyInv
      <4> QED
        BY <4>1 DEF Seg
    <3>2. CASE s \notin dirty
      <4>1. Seg(start) <= s /\ s \in {Seg(l) : l \in Lsn}
        BY <1>2, <3>2, ChunkFacts
      <4>2. Seg(flush_lsn') <= Seg(start) /\ Seg(flush_lsn') \in Nat /\ Seg(start) \in Nat
        BY <1>0, <1>1, <1>3, SegMonotone, SegFacts
      <4>3. s \in Nat
        BY <1>0, <4>1, SegFacts
      <4> QED
        BY <4>1, <4>2, <4>3 DEF Seg
    <3> QED
      BY <3>1, <3>2
  <2>3. dirty' # {} => 0 < write_lsn'
    <3>1. dirty # {} => 0 < write_lsn
      BY DEF StoreInv, DirtyInv
    <3>2. dirty = {} /\ dirty' # {} => 0 < start + n
      BY <1>2
    <3> QED
      BY <1>0, <1>1, <1>3, <3>1, <3>2
  <2> QED
    BY <2>1, <2>2, <2>3 DEF DirtyInv, Seg
<1>9. FlushInv'
  BY DEF StoreInv, FlushInv, Open, RECOVERED_NOTHING
<1>10. SegmentsHoldLog'
  <2> SUFFICES ASSUME NEW l \in (Retained..(write_lsn - 1))'
               PROVE  Seg(l) \in segs' /\ file'[l] = log'[l]
    BY DEF SegmentsHoldLog, Seg
  <2>1. l \in Lsn /\ Retained' <= l /\ l < start + n
    BY <1>0, <1>1, <1>3, LsnFacts
  <2>2. CASE start <= l
    BY <1>2, <2>1, <2>2
  <2>3. CASE l < start
    <3>1. Retained <= l /\ l < write_lsn
      BY <1>1, <2>1, <2>3
    <3>2. l \in Retained..(write_lsn - 1)
      BY <1>0, <1>4, <2>1, <3>1
    <3>3. Seg(l) \in segs /\ file[l] = log[l]
      BY <3>2 DEF StoreInv, SegmentsHoldLog
    <3> QED
      BY <1>0, <1>2, <2>1, <2>3, <3>3
  <2> QED
    BY <1>0, <1>3, <2>1, <2>2, <2>3
<1> QED
  BY <1>6, <1>7, <1>8, <1>9, <1>10

\* Before the run is cached, the ring ends no later than it starts.
LEMMA RingBefore ==
    ASSUME StoreInv, NEW start \in Lsn, SeedOrigin(start)
    PROVE  /\ RingOrigin(start) \in Lsn
           /\ ring \in Seq(Byte) /\ Len(ring) \in Nat /\ Len(ring) <= RingCap
           /\ RingOrigin(start) + Len(ring) <= start
           /\ ~torn => RingOrigin(start) + Len(ring) = start
           /\ \A i \in 1..Len(ring) : ~torn => ring[i] = log[RingOrigin(start) + i - 1]
<1>1. /\ ring \in Seq(Byte) /\ Len(ring) \in Nat /\ Len(ring) <= RingCap
      /\ ring_start \in Lsn /\ Lsn \subseteq Nat /\ write_lsn \in Lsn
  BY LsnFacts DEF StoreInv, TypeOK
<1>2. /\ ring_start + Len(ring) <= write_lsn
      /\ ~torn => ring_start + Len(ring) = write_lsn
      /\ \A i \in 1..Len(ring) : ~torn => ring[i] = log[ring_start + i - 1]
  BY DEF StoreInv, RingInv
<1>3. CASE Fresh
  <2>1. write_lsn = 0 /\ RingOrigin(start) = start
    BY <1>3 DEF Fresh, RingOrigin
  <2>2. Len(ring) = 0
    BY <1>1, <1>2, <2>1
  <2> QED
    BY <1>1, <2>1, <2>2
<1>4. CASE ~ Fresh
  BY <1>1, <1>2, <1>4 DEF SeedOrigin, RingOrigin
<1> QED
  BY <1>3, <1>4

\* What stays when the e oldest bytes of r \o d are evicted.
LEMMA Newest ==
    ASSUME NEW r \in Seq(Byte), NEW d \in Seq(Byte), NEW e \in 0..(Len(r) + Len(d))
    PROVE  LET s == SubSeq(r \o d, e + 1, Len(r \o d))
           IN  /\ s \in Seq(Byte) /\ Len(s) = Len(r) + Len(d) - e
               /\ \A i \in 1..Len(s) : /\ e + i <= Len(r) => s[i] = r[e + i]
                                       /\ e + i > Len(r) => s[i] = d[e + i - Len(r)]
OBVIOUS

LEMMA CacheFacts ==
    ASSUME StoreInv, NEW start \in Lsn, NEW data \in Seq(Byte), start + Len(data) \in Lsn,
           SeedOrigin(start), WriteChunks(start, data, Len(data)), CacheRun(start, data),
           torn' = torn
    PROVE  ring' \in Seq(Byte) /\ Len(ring') <= RingCap /\ ring_start' \in Lsn /\ RingInv'
<1>1. PICK o \in Nat, R \in Nat, D \in Nat :
        /\ o = RingOrigin(start) /\ R = Len(ring) /\ D = Len(data)
        /\ R <= RingCap /\ o + R <= start /\ ring \in Seq(Byte)
        /\ ~torn => o + R = start
        /\ \A i \in 1..R : ~torn => ring[i] = log[o + i - 1]
  <2>1. Len(data) \in Nat /\ Lsn \subseteq Nat
    BY LsnFacts
  <2> QED
    BY <2>1, RingBefore, Zenon
<1>2. start \in Nat /\ RingCap \in Nat
  BY LsnFacts, SizeAssumption
<1>3. PICK e \in 0..(R + D) : e = Evicted(R + D) /\ R + D - e <= RingCap
  <2>1. Evicted(R + D) \in 0..(R + D) /\ R + D - Evicted(R + D) <= RingCap
    BY <1>2 DEF Evicted
  <2> QED
    BY <2>1
<1>4. Len(ring \o data) = R + D
  BY <1>1
<1>5. ring' = SubSeq(ring \o data, e + 1, Len(ring \o data)) /\ ring_start' = o + e
  BY <1>1, <1>3, <1>4 DEF CacheRun
<1>6. /\ ring' \in Seq(Byte) /\ Len(ring') = R + D - e
      /\ \A i \in 1..(R + D - e) : /\ e + i <= R => ring'[i] = ring[e + i]
                                   /\ e + i > R => ring'[i] = data[e + i - R]
  <2>1. e \in 0..(Len(ring) + Len(data)) /\ ring \in Seq(Byte)
    BY <1>1, <1>3
  <2>2. LET s == SubSeq(ring \o data, e + 1, Len(ring \o data))
        IN  /\ s \in Seq(Byte) /\ Len(s) = Len(ring) + Len(data) - e
            /\ \A i \in 1..Len(s) : /\ e + i <= Len(ring) => s[i] = ring[e + i]
                                    /\ e + i > Len(ring) => s[i] = data[e + i - Len(ring)]
    BY <2>1, Newest, Zenon
  <2> QED
    BY <1>1, <1>5, <2>2, Zenon
<1>7. e \in Nat /\ e <= R + D
  BY <1>3
<1>8. write_lsn' = start + D
  BY <1>1 DEF WriteChunks
<1>9. /\ \A l \in Lsn : ~ (start <= l /\ l < start + D) => log'[l] = log[l]
      /\ \A l \in Lsn : start <= l /\ l < start + D => log'[l] = data[l - start + 1]
  <2>1. Len(data) \in 0..Len(data)
    BY <1>1
  <2> QED
    BY <1>1, <2>1, ChunkFacts
<1>10. o + e <= start + D /\ o + e + (R + D - e) <= start + D
       /\ (~torn => o + e + (R + D - e) = start + D)
  <2>1. o + R <= start /\ (~torn => o + R = start)
    BY <1>1
  <2>2. o + e <= start + D /\ o + e + (R + D - e) = o + R + D
    BY <1>2, <1>7, <2>1
  <2> QED
    BY <1>2, <2>1, <2>2
<1>11. ring_start' \in Lsn
  <2>1. o + e \in Nat /\ o + e <= start + D
    BY <1>7, <1>10
  <2> QED
    BY <1>1, <1>5, <2>1, LsnFacts
<1>12. ASSUME NEW i \in 1..(R + D - e), ~torn PROVE ring'[i] = log'[ring_start' + i - 1]
  <2>1. i \in Nat /\ 1 <= i /\ i <= R + D - e /\ o + R = start
    BY <1>1, <1>7, <1>12
  <2>2. PICK l \in Nat : l = o + e + i - 1
    BY <1>7, <2>1
  <2>3. l < start + D /\ ring_start' + i - 1 = l
    BY <1>2, <1>5, <1>7, <2>1, <2>2
  <2>4. l \in Lsn
    BY <1>1, <2>3, LsnFacts
  <2>5. CASE e + i <= R
    <3>1. ring'[i] = ring[e + i] /\ e + i \in 1..R
      BY <1>6, <1>7, <2>1, <2>5
    <3>2. ring[e + i] = log[o + (e + i) - 1]
      BY <1>1, <1>12, <3>1, Zenon
    <3>3. o + (e + i) - 1 = l /\ l < start
      BY <1>2, <1>7, <2>1, <2>2, <2>5
    <3> QED
      BY <1>2, <1>9, <2>3, <2>4, <3>1, <3>2, <3>3
  <2>6. CASE e + i > R
    <3>1. ring'[i] = data[e + i - R]
      BY <1>6, <2>6
    <3>2. start <= l /\ l - start + 1 = e + i - R
      BY <1>2, <1>7, <2>1, <2>2, <2>6
    <3> QED
      BY <1>9, <2>3, <2>4, <3>1, <3>2
  <2> QED
    BY <1>7, <2>1, <2>5, <2>6
<1> QED
  BY <1>2, <1>3, <1>5, <1>6, <1>8, <1>10, <1>11, <1>12, Zenon DEF RingInv

\* Each clause of StoreInv depends on a few of the variables.
LEMMA RingFrame ==
    ASSUME RingInv, UNCHANGED <<ring, ring_start, write_lsn, torn, log>>
    PROVE  RingInv'
BY DEF RingInv

LEMMA SegmentsFrame ==
    ASSUME SegmentsHoldLog, UNCHANGED <<start_lsn, recycled, write_lsn, segs, file, log>>
    PROVE  SegmentsHoldLog'
BY DEF SegmentsHoldLog, Retained, Seg

LEMMA TypeFrame ==
    ASSUME TypeOK, UNCHANGED <<ring, ring_start, file, segs, log, recycled, torn, write_lsn>>,
           start_lsn' \in Lsn, flush_lsn' \in Lsn, acked' \in Lsn, dirty' \subseteq dirty,
           synced' \in [Lsn -> Byte \cup {Zero}],
           meta' \in {<<>>} \cup (Lsn \X Lsn), meta_prev' \in {<<>>} \cup (Lsn \X Lsn),
           pc' \in {"idle", "synced", "renamed"}
    PROVE  TypeOK'
BY DEF TypeOK, Seg

LEMMA AppendKeeps ==
    ASSUME StoreInv, NEW start \in Lsn, NEW data \in Runs, AppendRun(start, data)
    PROVE  StoreInv'
<1>1. data \in Seq(Byte) /\ Len(data) \in Nat /\ Len(data) \in 0..Len(data)
  BY RunFacts
<1>2. start + Len(data) \in Lsn
  BY <1>1, LsnFacts, OriginAssumption DEF AppendRun, Lsn
<1>3. /\ SeedOrigin(start) /\ WriteChunks(start, data, Len(data)) /\ CacheRun(start, data)
      /\ pc = "idle"
      /\ UNCHANGED <<synced, meta, meta_prev, pc, acked, recycled, torn>>
  BY DEF AppendRun
<1>4. /\ OrderInv' /\ MetaInv(meta)' /\ MetaInv(meta_prev)' /\ DirtyInv' /\ FlushInv'
      /\ SegmentsHoldLog'
  BY <1>1, <1>2, <1>3, WriteKeeps
<1>5. ring' \in Seq(Byte) /\ Len(ring') <= RingCap /\ ring_start' \in Lsn /\ RingInv'
  BY <1>1, <1>2, <1>3, CacheFacts
<1>6. start_lsn' \in Lsn /\ flush_lsn' \in Lsn /\ write_lsn' \in Lsn
  BY <1>1, <1>2, <1>3, WriteFacts
<1>7. /\ file' \in [Lsn -> Byte \cup {Zero}] /\ log' \in [Lsn -> Byte \cup {Zero}]
      /\ dirty' \subseteq segs' /\ segs' \subseteq {Seg(l) : l \in Lsn}
  BY <1>1, <1>2, <1>3, ChunkFacts
<1>8. TypeOK'
  BY <1>3, <1>5, <1>6, <1>7 DEF StoreInv, TypeOK, Seg
<1> QED
  BY <1>4, <1>5, <1>8 DEF StoreInv

LEMMA AppendFailsKeeps ==
    ASSUME StoreInv, NEW start \in Lsn, NEW data \in Runs, AppendFails(start, data)
    PROVE  StoreInv'
<1>1. data \in Seq(Byte) /\ Len(data) \in Nat
  BY RunFacts
<1>2. PICK n \in 0..(Len(data) - 1) : WriteChunks(start, data, n) /\ torn' = (torn \/ n > 0)
  BY DEF AppendFails
<1>3. n \in 0..Len(data) /\ n \in Nat
  BY <1>1
<1>4. start + n \in Lsn
  BY <1>1, <1>3, LsnFacts, OriginAssumption DEF AppendFails, Lsn
<1>5. /\ SeedOrigin(start) /\ pc = "idle" /\ ring_start' = RingOrigin(start) /\ ring' = ring
      /\ UNCHANGED <<synced, meta, meta_prev, pc, acked, recycled>>
  BY DEF AppendFails
<1>6. /\ OrderInv' /\ MetaInv(meta)' /\ MetaInv(meta_prev)' /\ DirtyInv' /\ FlushInv'
      /\ SegmentsHoldLog'
  BY <1>1, <1>2, <1>3, <1>4, <1>5, WriteKeeps
<1>7. start_lsn' \in Lsn /\ flush_lsn' \in Lsn /\ write_lsn' = start + n
  BY <1>1, <1>2, <1>3, <1>4, <1>5, WriteFacts
<1>8. /\ file' \in [Lsn -> Byte \cup {Zero}] /\ log' \in [Lsn -> Byte \cup {Zero}]
      /\ dirty' \subseteq segs' /\ segs' \subseteq {Seg(l) : l \in Lsn}
      /\ \A l \in Lsn : ~ (start <= l /\ l < start + n) => log'[l] = log[l]
  BY <1>1, <1>2, <1>3, <1>4, <1>5, ChunkFacts
<1>9. PICK o \in Lsn, R \in Nat :
        /\ o = RingOrigin(start) /\ R = Len(ring) /\ o + R <= start
        /\ ~torn => o + R = start
        /\ \A i \in 1..R : ~torn => ring[i] = log[o + i - 1]
  BY <1>5, RingBefore
<1>10. torn' \in BOOLEAN
  BY <1>2 DEF StoreInv, TypeOK
<1>11. TypeOK'
  BY <1>4, <1>5, <1>7, <1>8, <1>9, <1>10 DEF StoreInv, TypeOK, Seg
<1>12. start \in Nat /\ o \in Nat
  BY LsnFacts
<1>13. ring_start' + Len(ring') <= write_lsn'
  BY <1>3, <1>5, <1>7, <1>9, <1>12
<1>14. ASSUME ~torn'
       PROVE  /\ ring_start' + Len(ring') = write_lsn'
              /\ \A i \in 1..Len(ring') : ring'[i] = log'[ring_start' + i - 1]
  <2>1. ~torn /\ n = 0
    <3>1. ~torn /\ ~ (n > 0)
      BY <1>2, <1>14, Zenon
    <3> QED
      BY <1>3, <3>1
  <2>2. ASSUME NEW i \in 1..R PROVE ring'[i] = log'[o + i - 1]
    <3>1. o + i - 1 \in Nat /\ o + i - 1 < start
      BY <1>9, <1>12
    <3>2. o + i - 1 \in Lsn
      BY <3>1, LsnFacts
    <3>3. log'[o + i - 1] = log[o + i - 1]
      BY <1>8, <1>12, <3>1, <3>2
    <3> QED
      BY <1>5, <1>9, <2>1, <3>3
  <2> QED
    BY <1>5, <1>7, <1>9, <1>12, <2>1, <2>2
<1>15. RingInv'
  BY <1>13, <1>14 DEF RingInv
<1> QED
  BY <1>6, <1>11, <1>15 DEF StoreInv

LEMMA RetainedType == TypeOK => Retained \in Lsn
BY DEF TypeOK, Retained

\* Fsync of the dirty segments `done` keeps the bytes that were on the platter.
LEMMA SyncKeeps ==
    ASSUME StoreInv, NEW done \in SUBSET dirty,
           synced' = [l \in Lsn |-> IF Seg(l) \in done THEN file[l] ELSE synced[l]],
           UNCHANGED <<start_lsn, write_lsn, file, recycled>>
    PROVE  /\ synced' \in [Lsn -> Byte \cup {Zero}]
           /\ \A l \in Lsn : synced[l] = file[l] => synced'[l] = file'[l]
           /\ \A l \in Lsn : Seg(l) \in done => synced'[l] = file'[l]
           /\ \A m \in {meta, meta_prev} : MetaInv(m)'
<1>1. file \in [Lsn -> Byte \cup {Zero}] /\ synced \in [Lsn -> Byte \cup {Zero}]
  BY DEF StoreInv, TypeOK
<1>2. /\ synced' \in [Lsn -> Byte \cup {Zero}]
      /\ \A l \in Lsn : synced[l] = file[l] => synced'[l] = file'[l]
      /\ \A l \in Lsn : Seg(l) \in done => synced'[l] = file'[l]
  BY <1>1
<1>3. ASSUME NEW m \in {meta, meta_prev} PROVE MetaInv(m)'
  <2>1. MetaInv(m) /\ m \in {<<>>} \cup (Lsn \X Lsn)
    BY DEF StoreInv, TypeOK
  <2>2. Retained' = Retained
    BY DEF Retained
  <2>3. Retained \in Lsn /\ write_lsn \in Lsn
    BY RetainedType DEF StoreInv, TypeOK
  <2>4. write_lsn <= write_lsn'
    BY <2>3, LsnFacts
  <2> QED
    BY <1>2, <2>1, <2>2, <2>3, <2>4, MetaFrame
<1> QED
  BY <1>2, <1>3

\* An fsync may settle the last rename, which is then what a crash finds.
LEMMA SettleKeeps ==
    ASSUME StoreInv, meta' = meta, meta_prev' \in {meta, meta_prev},
           UNCHANGED <<start_lsn, flush_lsn, write_lsn>>,
           \A m \in {meta, meta_prev} : MetaInv(m)'
    PROVE  OrderInv' /\ MetaInv(meta)' /\ MetaInv(meta_prev)'
<1>1. Open(meta_prev').flush <= Open(meta').flush
  <2>1. meta \in {<<>>} \cup (Lsn \X Lsn) /\ meta_prev \in {<<>>} \cup (Lsn \X Lsn)
    BY DEF StoreInv, TypeOK
  <2>2. Open(meta).flush \in Nat
    BY <2>1, OpenFacts, LsnFacts, ZenonT(30)
  <2> QED
    BY <2>2 DEF StoreInv, OrderInv
<1>2. OrderInv'
  BY <1>1 DEF StoreInv, OrderInv, Open, RECOVERED_NOTHING
<1>3. MetaInv(meta)' /\ MetaInv(meta_prev)'
  BY DEF MetaInv, Open, RECOVERED_NOTHING
<1> QED
  BY <1>2, <1>3

LEMMA FlushSyncKeeps == StoreInv /\ FlushSync => StoreInv'
<1> SUFFICES ASSUME StoreInv, FlushSync PROVE StoreInv'
  OBVIOUS
<1>1. /\ synced' = [l \in Lsn |-> IF Seg(l) \in dirty THEN file[l] ELSE synced[l]]
      /\ pc = "idle" /\ pc' = "synced" /\ dirty' = {}
      /\ meta' = meta /\ meta_prev' \in {meta, meta_prev}
      /\ UNCHANGED <<start_lsn, write_lsn, flush_lsn, ring, ring_start, file, segs, log, acked,
                     recycled, torn>>
  BY DEF FlushSync, ToSync
<1>2. /\ synced' \in [Lsn -> Byte \cup {Zero}]
      /\ \A l \in Lsn : synced[l] = file[l] => synced'[l] = file'[l]
      /\ \A l \in Lsn : Seg(l) \in dirty => synced'[l] = file'[l]
      /\ \A m \in {meta, meta_prev} : MetaInv(m)'
  BY <1>1, SyncKeeps
<1>3. TypeOK'
  BY <1>1, <1>2, TypeFrame, Zenon DEF StoreInv, TypeOK
<1>4. OrderInv' /\ MetaInv(meta)' /\ MetaInv(meta_prev)'
  BY <1>1, <1>2, SettleKeeps
<1>5. DirtyInv'
  <2>1. Retained' = Retained
    BY <1>1 DEF Retained
  <2>2. ASSUME NEW l \in Lsn, Retained <= l, l < write_lsn PROVE synced'[l] = file'[l]
    BY <1>2, <2>2 DEF StoreInv, DirtyInv
  <2> QED
    BY <1>1, <2>1, <2>2 DEF DirtyInv
<1>6. FlushInv'
  BY <1>1 DEF StoreInv, FlushInv, Open, RECOVERED_NOTHING
<1>7. RingInv' /\ SegmentsHoldLog'
  BY <1>1, RingFrame, SegmentsFrame DEF StoreInv
<1> QED
  BY <1>3, <1>4, <1>5, <1>6, <1>7 DEF StoreInv

LEMMA FlushSyncFailsKeeps == StoreInv /\ FlushSyncFails => StoreInv'
<1> SUFFICES ASSUME StoreInv, FlushSyncFails PROVE StoreInv'
  OBVIOUS
<1>1. PICK done \in SUBSET dirty :
        /\ synced' = [l \in Lsn |-> IF Seg(l) \in done THEN file[l] ELSE synced[l]]
        /\ meta_prev' = IF done = {} THEN meta_prev ELSE meta
  BY DEF FlushSyncFails
<1>2. /\ meta' = meta /\ meta_prev' \in {meta, meta_prev}
      /\ UNCHANGED <<start_lsn, write_lsn, flush_lsn, ring, ring_start, dirty, file, segs, pc,
                     log, acked, recycled, torn>>
  BY <1>1 DEF FlushSyncFails, mem
<1>3. /\ synced' \in [Lsn -> Byte \cup {Zero}]
      /\ \A l \in Lsn : synced[l] = file[l] => synced'[l] = file'[l]
      /\ \A m \in {meta, meta_prev} : MetaInv(m)'
  BY <1>1, <1>2, SyncKeeps
<1>4. TypeOK'
  BY <1>2, <1>3, TypeFrame, Zenon DEF StoreInv, TypeOK
<1>5. OrderInv' /\ MetaInv(meta)' /\ MetaInv(meta_prev)'
  BY <1>2, <1>3, SettleKeeps
<1>6. DirtyInv'
  <2>1. Retained' = Retained
    BY <1>2 DEF Retained
  <2> QED
    BY <1>2, <1>3, <2>1 DEF StoreInv, DirtyInv, Seg
<1>7. FlushInv'
  BY <1>2 DEF StoreInv, FlushInv, Open, RECOVERED_NOTHING
<1>8. RingInv' /\ SegmentsHoldLog'
  BY <1>2, RingFrame, SegmentsFrame DEF StoreInv
<1> QED
  BY <1>4, <1>5, <1>6, <1>7, <1>8 DEF StoreInv

LEMMA FlushMetaKeeps == StoreInv /\ FlushMeta => StoreInv'
<1> SUFFICES ASSUME StoreInv, FlushMeta PROVE StoreInv'
  OBVIOUS
<1>1. /\ pc = "synced" /\ pc' = "renamed" /\ flush_lsn' = write_lsn
      /\ meta' = <<start_lsn, write_lsn>> /\ meta_prev' = meta
      /\ UNCHANGED <<start_lsn, write_lsn, ring, ring_start, dirty, file, synced, segs, log,
                     acked, recycled, torn>>
  BY DEF FlushMeta, FlushedMeta
<1>2. /\ start_lsn \in Lsn /\ write_lsn \in Lsn /\ recycled \in Lsn /\ acked \in Lsn
      /\ flush_lsn \in Lsn /\ Lsn \subseteq Nat
      /\ meta \in {<<>>} \cup (Lsn \X Lsn) /\ Retained \in Lsn
      /\ synced \in [Lsn -> Byte \cup {Zero}]
  BY LsnFacts, RetainedType DEF StoreInv, TypeOK
<1>3. /\ start_lsn <= flush_lsn /\ flush_lsn <= write_lsn
      /\ Open(meta).flush <= write_lsn
      /\ dirty = {} /\ acked = Open(meta).flush
  BY <1>1 DEF StoreInv, OrderInv, MetaInv, FlushInv
<1>4. Open(meta').start = start_lsn /\ Open(meta').flush = write_lsn
  BY <1>1, <1>2, OpenPair
<1>5. Open(meta_prev') = Open(meta)
  BY <1>1
<1>6. Retained' = Retained
  BY <1>1 DEF Retained
<1>7. TypeOK'
  BY <1>1, <1>2, TypeFrame DEF StoreInv
<1>8. start_lsn <= write_lsn
  BY <1>2, <1>3
<1>9. OrderInv'
  BY <1>1, <1>2, <1>3, <1>4, <1>5, <1>8 DEF OrderInv, Open, RECOVERED_NOTHING
<1>10. \A l \in Lsn : Retained <= l /\ l < write_lsn => synced[l] = file[l]
  BY <1>3 DEF StoreInv, DirtyInv
<1>11. MetaInv(meta)'
  <2>1. Retained = IF recycled > start_lsn THEN recycled ELSE start_lsn
    BY DEF Retained
  <2>2. Open(meta)' = Open(meta')
    BY DEF Open, RECOVERED_NOTHING
  <2> QED
    BY <1>1, <1>2, <1>4, <1>6, <1>8, <1>10, <2>1, <2>2 DEF MetaInv
<1>12. MetaInv(meta_prev)'
  <2>1. Open(meta_prev)' = Open(meta)
    BY <1>1 DEF Open, RECOVERED_NOTHING
  <2>2. MetaInv(meta)
    BY DEF StoreInv
  <2> QED
    BY <1>1, <1>6, <2>1, <2>2 DEF MetaInv
<1>13. DirtyInv'
  BY <1>1, <1>3, <1>6, <1>10 DEF DirtyInv
<1>14. FlushInv'
  <2>1. Open(meta)' = Open(meta')
    BY DEF Open, RECOVERED_NOTHING
  <2> QED
    BY <1>1, <1>3, <1>4, <2>1 DEF FlushInv
<1>15. RingInv' /\ SegmentsHoldLog'
  BY <1>1, RingFrame, SegmentsFrame DEF StoreInv
<1> QED
  BY <1>7, <1>9, <1>11, <1>12, <1>13, <1>14, <1>15 DEF StoreInv

LEMMA FlushMetaFailsKeeps == StoreInv /\ FlushMetaFails => StoreInv'
<1> SUFFICES ASSUME StoreInv, FlushMetaFails PROVE StoreInv'
  OBVIOUS
<1>1. /\ pc = "synced" /\ pc' = "idle" /\ flush_lsn' = write_lsn
      /\ UNCHANGED <<start_lsn, write_lsn, ring, ring_start, dirty, file, synced, segs, meta,
                     meta_prev, log, acked, recycled, torn>>
  BY DEF FlushMetaFails, disk
<1>2. /\ start_lsn \in Nat /\ flush_lsn \in Nat /\ write_lsn \in Nat
      /\ start_lsn <= flush_lsn /\ flush_lsn <= write_lsn /\ dirty = {}
  BY <1>1, LsnFacts DEF StoreInv, TypeOK, OrderInv, FlushInv
<1>3. Open(meta)' = Open(meta) /\ Open(meta_prev)' = Open(meta_prev) /\ Retained' = Retained
  BY <1>1 DEF Open, RECOVERED_NOTHING, Retained
<1>4. TypeOK'
  BY <1>1, TypeFrame DEF StoreInv, TypeOK
<1>5. OrderInv'
  BY <1>1, <1>2, <1>3 DEF StoreInv, OrderInv
<1>6. MetaInv(meta)' /\ MetaInv(meta_prev)'
  BY <1>1, <1>3 DEF StoreInv, MetaInv
<1>7. DirtyInv'
  BY <1>1, <1>2, <1>3 DEF StoreInv, DirtyInv
<1>8. FlushInv'
  BY <1>1, <1>2, <1>3 DEF StoreInv, FlushInv
<1>9. RingInv' /\ SegmentsHoldLog'
  BY <1>1, RingFrame, SegmentsFrame DEF StoreInv
<1> QED
  BY <1>4, <1>5, <1>6, <1>7, <1>8, <1>9 DEF StoreInv

LEMMA FlushReturnsKeeps == StoreInv /\ FlushReturns => StoreInv'
<1> SUFFICES ASSUME StoreInv, FlushReturns PROVE StoreInv'
  OBVIOUS
<1>1. /\ pc = "renamed" /\ pc' = "idle" /\ acked' = flush_lsn
      /\ UNCHANGED <<start_lsn, flush_lsn, write_lsn, ring, ring_start, dirty, file, synced, segs,
                     meta, meta_prev, log, recycled, torn>>
  BY DEF FlushReturns, mem, disk
<1>2. Open(meta)' = Open(meta) /\ Open(meta_prev)' = Open(meta_prev) /\ Retained' = Retained
  BY <1>1 DEF Open, RECOVERED_NOTHING, Retained
<1>3. flush_lsn \in Nat /\ dirty = {} /\ Open(meta).flush = flush_lsn
  BY <1>1, LsnFacts DEF StoreInv, TypeOK, FlushInv
<1>4. TypeOK'
  BY <1>1, TypeFrame DEF StoreInv, TypeOK
<1>5. OrderInv' /\ MetaInv(meta)' /\ MetaInv(meta_prev)'
  BY <1>1, <1>2, Zenon DEF StoreInv, OrderInv, MetaInv
<1>6. DirtyInv'
  BY <1>1, <1>2, <1>3, Zenon DEF StoreInv, DirtyInv
<1>7. FlushInv'
  BY <1>1, <1>2, <1>3 DEF FlushInv
<1>8. RingInv' /\ SegmentsHoldLog'
  BY <1>1, RingFrame, SegmentsFrame DEF StoreInv
<1> QED
  BY <1>4, <1>5, <1>6, <1>7, <1>8 DEF StoreInv

\* Recycling moves the beginning of the log up to a segment boundary that has
\* been flushed, and leaves all at or above it alone.
LEMMA RecycleFacts ==
    ASSUME StoreInv, NEW horizon \in Lsn, RemoveSegmentsBefore(horizon)
    PROVE  \E floor \in Lsn :
              /\ floor <= flush_lsn
              /\ start_lsn' = IF floor > start_lsn THEN floor ELSE start_lsn
              /\ recycled' = IF floor > recycled THEN floor ELSE recycled
              /\ Retained' = IF floor > Retained THEN floor ELSE Retained
              /\ \A l \in Lsn : floor <= l => file'[l] = file[l] /\ synced'[l] = synced[l]
              /\ \A l \in Lsn : floor <= l /\ Seg(l) \in segs => Seg(l) \in segs'
<1> DEFINE floor == Seg(horizon) * SegSize
           gone == Below(horizon)
<1>1. /\ horizon \in Nat /\ horizon <= flush_lsn /\ Lsn \subseteq Nat
      /\ start_lsn \in Nat /\ flush_lsn \in Nat /\ recycled \in Nat
  BY LsnFacts DEF StoreInv, TypeOK, RemoveSegmentsBefore
<1>2. floor \in Nat /\ floor <= horizon
  BY <1>1, SegFacts
<1>3. floor \in Lsn
  BY <1>2, LsnFacts
<1>4. /\ segs' = segs \ gone
      /\ file' = [l \in Lsn |-> IF Seg(l) \in gone THEN Zero ELSE file[l]]
      /\ synced' = [l \in Lsn |-> IF Seg(l) \in gone THEN Zero ELSE synced[l]]
      /\ start_lsn' = IF floor > start_lsn THEN floor ELSE start_lsn
      /\ recycled' = IF floor > recycled THEN floor ELSE recycled
  BY DEF RemoveSegmentsBefore
<1>5. ASSUME NEW l \in Lsn, floor <= l PROVE Seg(l) \notin gone
  <2>1. l \in Nat
    BY <1>1
  <2>2. Seg(horizon) <= Seg(l) /\ Seg(horizon) \in Nat /\ Seg(l) \in Nat
    BY <1>1, <1>5, <2>1, SegFloor, SegFacts
  <2> QED
    BY <2>2 DEF Below
<1> HIDE DEF floor, gone
<1>6. Retained' = IF floor > Retained THEN floor ELSE Retained
  BY <1>1, <1>2, <1>4 DEF Retained
<1>7. /\ \A l \in Lsn : floor <= l => file'[l] = file[l] /\ synced'[l] = synced[l]
      /\ \A l \in Lsn : floor <= l /\ Seg(l) \in segs => Seg(l) \in segs'
  BY <1>4, <1>5
<1>8. floor <= flush_lsn
  BY <1>1, <1>2
<1> QED
  BY <1>3, <1>4, <1>6, <1>7, <1>8

LEMMA RecycleKeeps ==
    ASSUME StoreInv, NEW horizon \in Lsn, RemoveSegmentsBefore(horizon)
    PROVE  StoreInv'
<1>1. PICK floor \in Lsn :
        /\ floor <= flush_lsn
        /\ start_lsn' = IF floor > start_lsn THEN floor ELSE start_lsn
        /\ recycled' = IF floor > recycled THEN floor ELSE recycled
        /\ Retained' = IF floor > Retained THEN floor ELSE Retained
        /\ \A l \in Lsn : floor <= l => file'[l] = file[l] /\ synced'[l] = synced[l]
        /\ \A l \in Lsn : floor <= l /\ Seg(l) \in segs => Seg(l) \in segs'
  BY RecycleFacts
<1>2. UNCHANGED <<write_lsn, flush_lsn, ring, ring_start, dirty, meta, meta_prev, pc, log, acked,
                  torn>>
  BY DEF RemoveSegmentsBefore
<1>3. /\ Lsn \subseteq Nat /\ Retained \in Lsn
      /\ start_lsn \in Lsn /\ flush_lsn \in Lsn /\ write_lsn \in Lsn /\ recycled \in Lsn
      /\ start_lsn <= flush_lsn /\ flush_lsn <= write_lsn
  BY LsnFacts, RetainedType DEF StoreInv, TypeOK, OrderInv
<1>4. Open(meta)' = Open(meta) /\ Open(meta_prev)' = Open(meta_prev)
  BY <1>2 DEF Open, RECOVERED_NOTHING
<1>5. \A l \in Lsn : Retained' <= l => Retained <= l /\ floor <= l
  BY <1>1, <1>3
<1>6. OrderInv'
  BY <1>1, <1>2, <1>3, <1>4 DEF StoreInv, OrderInv
<1>7. ASSUME NEW m \in {meta, meta_prev} PROVE MetaInv(m)'
  <2>1. MetaInv(m) /\ m \in {<<>>} \cup (Lsn \X Lsn)
    BY DEF StoreInv, TypeOK
  <2>2. Open(m).flush \in Nat /\ Open(m).start \in Nat
    BY <1>3, <2>1, OpenFacts, Zenon
  <2>3. Open(m)' = Open(m)
    BY DEF Open, RECOVERED_NOTHING
  <2>4. Open(m).flush > 0 =>
           Retained' = IF recycled' > Open(m).start THEN recycled' ELSE Open(m).start
    BY <1>1, <1>3, <2>1, <2>2 DEF MetaInv
  <2>5. \A l \in Lsn : Retained' <= l /\ l < Open(m).flush => synced'[l] = file'[l]
    BY <1>1, <1>5, <2>1 DEF MetaInv
  <2> QED
    BY <1>2, <2>1, <2>3, <2>4, <2>5 DEF MetaInv
<1>8. MetaInv(meta)' /\ MetaInv(meta_prev)'
  BY <1>2, <1>7 DEF MetaInv, Open, RECOVERED_NOTHING
<1>9. DirtyInv'
  BY <1>1, <1>2, <1>5 DEF StoreInv, DirtyInv, Seg
<1>10. FlushInv'
  BY <1>2, <1>4 DEF StoreInv, FlushInv
<1>11. RingInv'
  BY <1>2, RingFrame DEF StoreInv
<1>12. SegmentsHoldLog'
  <2> SUFFICES ASSUME NEW l \in (Retained..(write_lsn - 1))'
               PROVE  Seg(l) \in segs' /\ file'[l] = log'[l]
    BY DEF SegmentsHoldLog, Seg
  <2>1. Retained' \in Lsn
    BY <1>1, <1>3
  <2>2. l \in Lsn /\ Retained' <= l /\ l < write_lsn
    BY <1>2, <1>3, <2>1, LsnFacts
  <2>3. l \in Retained..(write_lsn - 1) /\ floor <= l
    BY <1>3, <1>5, <2>2
  <2>4. Seg(l) \in segs /\ file[l] = log[l]
    BY <2>3 DEF StoreInv, SegmentsHoldLog
  <2> QED
    BY <1>1, <1>2, <2>2, <2>3, <2>4
<1>13. dirty \subseteq segs'
  <2> SUFFICES ASSUME NEW s \in dirty PROVE s \in segs'
    OBVIOUS
  <2>1. s \in segs /\ Seg(flush_lsn) <= s /\ s \in {Seg(l) : l \in Lsn}
    BY DEF StoreInv, TypeOK, DirtyInv
  <2>2. horizon <= flush_lsn /\ segs' = segs \ Below(horizon)
    BY DEF RemoveSegmentsBefore
  <2>3. Seg(horizon) <= Seg(flush_lsn) /\ Seg(horizon) \in Nat /\ Seg(flush_lsn) \in Nat
    BY <1>3, <2>2, SegMonotone, SegFacts
  <2>4. s \in Nat
    BY <1>3, <2>1, SegFacts
  <2> QED
    BY <2>1, <2>2, <2>3, <2>4 DEF Below
<1>14. TypeOK'
  <2>1. /\ file' \in [Lsn -> Byte \cup {Zero}] /\ synced' \in [Lsn -> Byte \cup {Zero}]
        /\ segs' \subseteq segs
    BY DEF StoreInv, TypeOK, RemoveSegmentsBefore
  <2>2. start_lsn' \in Lsn /\ recycled' \in Lsn
    BY <1>1, <1>3
  <2> QED
    BY <1>2, <1>13, <2>1, <2>2 DEF StoreInv, TypeOK, Seg
<1> QED
  BY <1>6, <1>8, <1>9, <1>10, <1>11, <1>12, <1>14 DEF StoreInv

\* Reopening on either metadata file, with every byte that was on the platter.
LEMMA ReopenKeeps ==
    ASSUME StoreInv, NEW m \in {meta, meta_prev}, Reopen(m), meta_prev' \in {meta_prev, m},
           file' \in [Lsn -> Byte \cup {Zero}], synced' \in [Lsn -> Byte \cup {Zero}],
           \A l \in Lsn : synced[l] = file[l] => file'[l] = file[l] /\ synced'[l] = file'[l]
    PROVE  StoreInv'
<1>1. /\ start_lsn' = Open(m).start /\ flush_lsn' = Open(m).flush
      /\ write_lsn' = Open(m).flush /\ ring_start' = Open(m).flush
      /\ ring' = <<>> /\ dirty' = {} /\ meta' = m /\ acked' = Open(m).flush
      /\ pc' = "idle" /\ torn' = FALSE /\ UNCHANGED <<segs, log, recycled>>
  BY Zenon DEF Reopen
<1>2. /\ Lsn \subseteq Nat /\ write_lsn \in Lsn /\ recycled \in Lsn /\ Retained \in Lsn
      /\ meta \in {<<>>} \cup (Lsn \X Lsn) /\ meta_prev \in {<<>>} \cup (Lsn \X Lsn)
      /\ MetaInv(meta) /\ MetaInv(meta_prev)
      /\ Open(meta_prev).flush <= Open(meta).flush
  BY LsnFacts, RetainedType DEF StoreInv, TypeOK, OrderInv
<1>3. /\ MetaInv(m) /\ m \in {<<>>} \cup (Lsn \X Lsn)
      /\ meta_prev' \in {<<>>} \cup (Lsn \X Lsn)
  BY <1>2
<1>4. Open(m).start \in Lsn /\ Open(m).flush \in Lsn /\ Open(m).start <= Open(m).flush
  BY <1>3, OpenFacts DEF MetaInv
<1>a. Open(m).flush \in Nat /\ Open(m).flush <= Open(m).flush
  <2>1. Open(m).flush \in Nat
    BY <1>4, LsnFacts, Zenon
  <2> QED
    BY <2>1
<1>5. Retained' \in Lsn /\ (Open(m).flush > 0 => Retained' = Retained)
  BY <1>1, <1>2, <1>3, <1>4, Zenon DEF Retained, MetaInv
<1>6. ASSUME NEW x \in {meta_prev, m}, Open(x).flush <= Open(m).flush PROVE MetaInv(x)'
  <2>1. MetaInv(x) /\ x \in {<<>>} \cup (Lsn \X Lsn)
    BY <1>2
  <2>2. Open(x).flush \in Nat
    BY <1>2, <2>1, OpenFacts, Zenon
  <2>3. Open(x)' = Open(x)
    BY DEF Open, RECOVERED_NOTHING
  <2>4. Open(x).flush > 0 =>
           Retained' = IF recycled' > Open(x).start THEN recycled' ELSE Open(x).start
    <3> SUFFICES ASSUME Open(x).flush > 0
                 PROVE  Retained' = IF recycled > Open(x).start THEN recycled ELSE Open(x).start
      BY <1>1
    <3>1. Open(m).flush > 0
      BY <1>6, <1>a, <2>2
    <3>2. Retained = IF recycled > Open(x).start THEN recycled ELSE Open(x).start
      BY <2>1 DEF MetaInv
    <3> QED
      BY <1>5, <3>1, <3>2
  <2>5. ASSUME NEW l \in Lsn, Retained' <= l, l < Open(x).flush PROVE synced'[l] = file'[l]
    <3>1. Open(x).flush > 0 /\ Open(m).flush > 0
      BY <1>2, <1>4, <1>6, <2>2, <2>5
    <3>2. Retained <= l
      BY <1>5, <2>5, <3>1
    <3> QED
      BY <2>1, <2>5, <3>2 DEF MetaInv
  <2>6. Open(x).start <= Open(x).flush
    BY <2>1 DEF MetaInv
  <2> QED
    BY <1>1, <1>6, <2>3, <2>4, <2>5, <2>6, Zenon DEF MetaInv
<1>7. Open(meta_prev').flush <= Open(m).flush
  BY <1>2, <1>4
<1>8. OrderInv'
  <2>1. Open(meta_prev)' = Open(meta_prev') /\ Open(meta)' = Open(m)
    BY <1>1 DEF Open, RECOVERED_NOTHING
  <2> QED
    BY <1>1, <1>4, <1>7, <1>a, <2>1, Zenon DEF OrderInv
<1>9. MetaInv(meta)' /\ MetaInv(meta_prev)'
  <2>1. MetaInv(m)'
    BY <1>6, <1>a
  <2>2. CASE meta_prev' = m
    BY <1>1, <2>1, <2>2, Zenon DEF MetaInv, Open, RECOVERED_NOTHING
  <2>3. CASE meta_prev' = meta_prev
    <3>1. Open(meta_prev).flush <= Open(m).flush
      BY <1>7, <2>3
    <3>2. MetaInv(meta_prev)'
      BY <1>1, <1>6, <2>3, <3>1, ZenonT(30) DEF MetaInv, Open, RECOVERED_NOTHING
    <3> QED
      BY <1>1, <2>1, <3>2, Zenon DEF MetaInv, Open, RECOVERED_NOTHING
  <2> QED
    BY <2>2, <2>3, Zenon
<1>10. ASSUME NEW l \in Lsn, Retained' <= l, l < Open(m).flush
       PROVE  Retained <= l /\ synced[l] = file[l]
  <2>1. Open(m).flush > 0
    BY <1>2, <1>4, <1>10
  <2>2. Retained <= l
    BY <1>5, <1>10, <2>1
  <2> QED
    BY <1>3, <1>10, <2>2 DEF MetaInv
<1>11. DirtyInv'
  BY <1>1, <1>10, Zenon DEF DirtyInv
<1>12. FlushInv'
  <2>1. Open(meta)' = Open(m)
    BY <1>1, Zenon DEF Open, RECOVERED_NOTHING
  <2> QED
    BY <1>1, <1>a, <2>1, Zenon DEF FlushInv
<1>13. RingInv'
  <2>1. Open(m).flush + Len(<<>>) = Open(m).flush /\ Open(m).flush <= Open(m).flush
    BY <1>a
  <2>2. \A i \in 1..Len(<<>>) : FALSE
    OBVIOUS
  <2> QED
    BY <1>1, <2>1, <2>2 DEF RingInv
<1>14. SegmentsHoldLog'
  <2> SUFFICES ASSUME NEW l \in (Retained..(write_lsn - 1))'
               PROVE  Seg(l) \in segs' /\ file'[l] = log'[l]
    BY DEF SegmentsHoldLog, Seg
  <2>a. Retained' \in Nat /\ Retained \in Nat /\ write_lsn \in Nat
    BY <1>2, <1>5, Zenon
  <2>b. l \in Retained'..(Open(m).flush - 1)
    BY <1>1
  <2>c. l \in Nat /\ Retained' <= l /\ l < Open(m).flush
    BY <1>a, <2>a, <2>b
  <2>d. \A a \in Lsn : \A b \in Nat : b < a => b \in Lsn
    BY LsnFacts
  <2>1. l \in Lsn /\ Retained' <= l /\ l < Open(m).flush
    BY <1>4, <2>c, <2>d
  <2>2. Retained <= l /\ synced[l] = file[l]
    BY <1>10, <2>1
  <2>3. Open(m).flush <= write_lsn
    BY <1>3 DEF MetaInv
  <2>4. l \in Retained..(write_lsn - 1)
    BY <1>a, <2>a, <2>c, <2>2, <2>3
  <2>5. Seg(l) \in segs /\ file[l] = log[l]
    BY <2>4 DEF StoreInv, SegmentsHoldLog
  <2> QED
    BY <1>1, <2>1, <2>2, <2>5
<1>15. TypeOK'
  <2>1. ring' \in Seq(Byte) /\ Len(ring') <= RingCap
    <3>1. ring' = <<>>
      BY <1>1
    <3>2. RingCap \in Nat
      BY SizeAssumption
    <3> QED
      BY <3>1, <3>2
  <2> QED
    BY <1>1, <1>2, <1>3, <1>4, <2>1, Zenon DEF StoreInv, TypeOK, Seg
<1> QED
  BY <1>8, <1>9, <1>11, <1>12, <1>13, <1>14, <1>15, Zenon DEF StoreInv

LEMMA KillKeeps == StoreInv /\ Kill => StoreInv'
<1> SUFFICES ASSUME StoreInv, Kill PROVE StoreInv'
  OBVIOUS
<1>1. Reopen(meta) /\ UNCHANGED <<file, synced, meta_prev>>
  BY DEF Kill
<1>2. file \in [Lsn -> Byte \cup {Zero}] /\ synced \in [Lsn -> Byte \cup {Zero}]
  BY DEF StoreInv, TypeOK
<1> QED
  BY <1>1, <1>2, ReopenKeeps

LEMMA PowerLossKeeps == StoreInv /\ PowerLoss => StoreInv'
<1> SUFFICES ASSUME StoreInv, PowerLoss PROVE StoreInv'
  OBVIOUS
<1>1. PICK m \in {meta, meta_prev} : Reopen(m) /\ meta_prev' = m
  BY DEF PowerLoss
<1>2. PICK lost \in SUBSET {l \in Lsn : file[l] # synced[l]} :
        /\ file' = [l \in Lsn |-> IF l \in lost THEN synced[l] ELSE file[l]]
        /\ synced' = [l \in Lsn |-> IF l \in lost THEN synced[l] ELSE file[l]]
  BY DEF PowerLoss
<1>3. file \in [Lsn -> Byte \cup {Zero}] /\ synced \in [Lsn -> Byte \cup {Zero}]
  BY DEF StoreInv, TypeOK
<1>4. file' \in [Lsn -> Byte \cup {Zero}] /\ synced' \in [Lsn -> Byte \cup {Zero}]
  BY <1>2, <1>3
<1>5. \A l \in Lsn : synced[l] = file[l] => file'[l] = file[l] /\ synced'[l] = file'[l]
  BY <1>2, <1>3
<1> QED
  BY <1>1, <1>4, <1>5, ReopenKeeps

LEMMA StoreInit == Init => StoreInv
<1> SUFFICES ASSUME Init PROVE StoreInv
  OBVIOUS
<1> USE DEF Init
<1>1. TypeOK
  BY LsnFacts, SizeAssumption DEF TypeOK
<1>2. Open(meta).start = 0 /\ Open(meta).flush = 0 /\ Open(meta_prev) = Open(meta)
  BY DEF Open, RECOVERED_NOTHING
<1>3. Retained = 0
  BY DEF Retained
<1>4. \A l \in Lsn : ~ (l < 0)
  BY LsnFacts
<1>5. OrderInv /\ MetaInv(meta) /\ MetaInv(meta_prev) /\ DirtyInv /\ FlushInv
  BY <1>2, <1>3, <1>4 DEF OrderInv, MetaInv, DirtyInv, FlushInv
<1>6. RingInv
  BY DEF RingInv
<1>7. SegmentsHoldLog
  BY <1>3 DEF SegmentsHoldLog
<1> QED
  BY <1>1, <1>5, <1>6, <1>7 DEF StoreInv

\* Every action keeps StoreInv.
LEMMA StoreStep == StoreInv /\ [Next]_vars => StoreInv'
<1> SUFFICES ASSUME StoreInv, [Next]_vars PROVE StoreInv'
  OBVIOUS
<1>1. ASSUME NEW start \in Origins \cup {write_lsn}, NEW data \in Runs,
             AppendRun(start, data) \/ AppendFails(start, data)
      PROVE  StoreInv'
  <2>1. start \in Lsn
    BY OriginAssumption DEF StoreInv, TypeOK, Lsn
  <2> QED
    BY <1>1, <2>1, AppendKeeps, AppendFailsKeeps
<1>2. CASE FlushSync \/ FlushSyncFails \/ FlushMeta \/ FlushMetaFails \/ FlushReturns
  BY <1>2, FlushSyncKeeps, FlushSyncFailsKeeps, FlushMetaKeeps, FlushMetaFailsKeeps,
     FlushReturnsKeeps
<1>3. ASSUME NEW horizon \in Lsn, RemoveSegmentsBefore(horizon) PROVE StoreInv'
  BY <1>3, RecycleKeeps
<1>4. CASE Kill \/ PowerLoss
  BY <1>4, KillKeeps, PowerLossKeeps
<1>5. CASE UNCHANGED vars
  <2>1. UNCHANGED <<start_lsn, flush_lsn, write_lsn, ring, ring_start, dirty, file, synced, segs,
                    meta, meta_prev, pc, log, acked, recycled, torn>>
    BY <1>5 DEF vars, mem, disk
  <2>2. TypeOK'
    BY <2>1, TypeFrame DEF StoreInv, TypeOK
  <2>3. OrderInv' /\ MetaInv(meta)' /\ MetaInv(meta_prev)' /\ DirtyInv' /\ FlushInv'
    BY <2>1, Zenon DEF StoreInv, OrderInv, MetaInv, DirtyInv, FlushInv, Open, RECOVERED_NOTHING,
                Retained, Seg
  <2>4. RingInv' /\ SegmentsHoldLog'
    BY <2>1, RingFrame, SegmentsFrame DEF StoreInv
  <2> QED
    BY <2>2, <2>3, <2>4 DEF StoreInv
<1> QED
  BY <1>1, <1>2, <1>3, <1>4, <1>5 DEF Next

LEMMA StoreAlways == Spec => []StoreInv
BY StoreInit, StoreStep, PTL DEF Spec

(***************************************************************************)
(* Every field of the store stays in its range, whatever is appended,      *)
(* flushed or recycled and however the store dies.                         *)
(***************************************************************************)
THEOREM StoreTypeCorrect == Spec => []TypeOK
<1>1. StoreInv => TypeOK
  BY DEF StoreInv
<1> QED
  BY <1>1, StoreAlways, PTL

(***************************************************************************)
(* The segment files hold the appended bytes up to write_lsn, except those *)
(* recycled, after any crashes, power losses and I/O errors, for every     *)
(* segment size (append, flush, remove_segments_before, open).             *)
(***************************************************************************)
THEOREM SegmentsAlwaysHoldLog == Spec => []SegmentsHoldLog
<1>1. StoreInv => SegmentsHoldLog
  BY DEF StoreInv
<1> QED
  BY <1>1, StoreAlways, PTL

\* A read is answered from the ring, which is in step, or from the segments.
LEMMA ReadsFromInv == StoreInv => ReadsReturnLog
<1> SUFFICES ASSUME StoreInv, ~torn, NEW lo \in Retained..(write_lsn - 1),
                    NEW l \in lo..(write_lsn - 1)
             PROVE  ReadByte(lo, l) = log[l]
  BY DEF ReadsReturnLog
<1>1. /\ write_lsn \in Nat /\ ring_start \in Nat /\ Retained \in Nat /\ Len(ring) \in Nat
      /\ lo \in Nat /\ Retained <= lo /\ l \in Nat /\ lo <= l /\ l < write_lsn
  <2>1. write_lsn \in Nat /\ ring_start \in Nat /\ Retained \in Nat /\ Len(ring) \in Nat
    <3>1. write_lsn \in Lsn /\ ring_start \in Lsn /\ Retained \in Lsn /\ ring \in Seq(Byte)
      BY RetainedType DEF StoreInv, TypeOK
    <3> QED
      BY <3>1, LsnFacts
  <2>2. lo \in Nat /\ Retained <= lo
    BY <2>1
  <2> QED
    BY <2>1, <2>2
<1>2. CASE lo >= ring_start /\ ring # <<>>
  <2>1. ring_start + Len(ring) = write_lsn
    BY DEF StoreInv, RingInv
  <2>2. l - ring_start < Len(ring) /\ l - ring_start + 1 \in 1..Len(ring)
    BY <1>1, <1>2, <2>1
  <2>3. ring[l - ring_start + 1] = log[ring_start + (l - ring_start + 1) - 1]
    BY <2>2, Zenon DEF StoreInv, RingInv
  <2>4. ring_start + (l - ring_start + 1) - 1 = l
    BY <1>1
  <2> QED
    BY <1>2, <2>2, <2>3, <2>4 DEF ReadByte
<1>3. CASE ~ (lo >= ring_start /\ ring # <<>>)
  <2>1. l \in Retained..(write_lsn - 1)
    BY <1>1
  <2>2. Seg(l) \in segs /\ file[l] = log[l]
    BY <2>1 DEF StoreInv, SegmentsHoldLog
  <2> QED
    BY <1>3, <2>2 DEF ReadByte
<1> QED
  BY <1>2, <1>3

(***************************************************************************)
(* A read of any range the store holds returns the bytes appended there,   *)
(* from the ring or the files, for every ring capacity and segment size,   *)
(* as long as no append of the running process failed half-way (read_at).  *)
(***************************************************************************)
THEOREM ReadsAlwaysReturnLog == Spec => []ReadsReturnLog
BY ReadsFromInv, StoreAlways, PTL

(***************************************************************************)
(* A store that is reopened on the metadata it last wrote never has less   *)
(* than was acknowledged, and exactly that unless it died in the middle of *)
(* a flush (open, flush).                                                  *)
(***************************************************************************)
THEOREM RecoveryAlwaysExact == Spec => ExactRecovery
<1> DEFINE Exact == crashes' # crashes /\ meta' = meta =>
                       /\ flush_lsn' >= acked
                       /\ pc = "idle" => flush_lsn' = acked
<1>1. StoreInv /\ [Next]_vars => [Exact]_vars
  <2> SUFFICES ASSUME StoreInv, Next, crashes' # crashes, meta' = meta
               PROVE  flush_lsn' >= acked /\ (pc = "idle" => flush_lsn' = acked)
    OBVIOUS
  <2>1. PICK m \in {meta, meta_prev} : Reopen(m)
    <3>1. Kill \/ PowerLoss
      BY DEF Next, AppendRun, AppendFails, FlushSync, FlushSyncFails, FlushMeta, FlushMetaFails,
             FlushReturns, RemoveSegmentsBefore
    <3> QED
      BY <3>1, Zenon DEF Kill, PowerLoss
  <2>2. m = meta /\ flush_lsn' = Open(m).flush
    BY <2>1 DEF Reopen
  <2>3. acked <= Open(meta).flush /\ (pc = "idle" => acked = Open(meta).flush)
    BY DEF StoreInv, FlushInv
  <2>4. acked \in Nat /\ Open(meta).flush \in Nat
    BY LsnFacts, OpenFacts, Zenon DEF StoreInv, TypeOK
  <2> QED
    BY <2>2, <2>3, <2>4
<1> QED
  BY <1>1, StoreAlways, PTL DEF Spec, ExactRecovery
-----------------------------------------------------------------------------
(* The refinement of DurableLog. *)

\* The length of the log the store shows.
Size == IF write_lsn > Retained THEN write_lsn - Retained ELSE 0

AnyByte == Byte \cup {Zero}

KeptOK ==
    /\ Size \in Nat /\ Retained \in Nat /\ write_lsn \in Nat
    /\ Kept \in Seq(AnyByte) /\ Len(Kept) = Size
    /\ \A i \in 1..Size : Kept[i] = log[Retained + i - 1]

LEMMA KeptFacts == StoreInv => KeptOK
<1> SUFFICES ASSUME StoreInv PROVE KeptOK
  OBVIOUS
<1>1. Retained \in Nat /\ write_lsn \in Nat
  BY LsnFacts, RetainedType, Zenon DEF StoreInv, TypeOK
<1>2. Size \in Nat /\ 1..(write_lsn - Retained) = 1..Size
  BY <1>1 DEF Size
<1>3. Kept = [i \in 1..Size |-> log[Retained + i - 1]]
  BY <1>2 DEF Kept
<1>4. ASSUME NEW i \in 1..Size PROVE log[Retained + i - 1] \in AnyByte
  <2>1. Retained + i - 1 \in Nat /\ Retained + i - 1 <= write_lsn
    BY <1>1, <1>2 DEF Size
  <2>2. Retained + i - 1 \in Lsn
    BY <2>1, LsnFacts DEF StoreInv, TypeOK
  <2> QED
    BY <2>2 DEF StoreInv, TypeOK, AnyByte
<1> HIDE DEF Size
<1>5. Kept \in Seq(AnyByte) /\ Len(Kept) = Size
  BY <1>2, <1>3, <1>4
<1>6. \A i \in 1..Size : Kept[i] = log[Retained + i - 1]
  BY <1>3
<1> QED
  BY <1>1, <1>2, <1>5, <1>6 DEF KeptOK

LEMMA HeldFacts ==
    ASSUME StoreInv, NEW m \in {<<>>} \cup (Lsn \X Lsn)
    PROVE  Held(m) \in Nat /\ (Open(m).flush <= write_lsn => Held(m) <= Size)
<1>1. Open(m).flush \in Nat /\ Retained \in Nat /\ write_lsn \in Nat
  BY OpenFacts, LsnFacts, KeptFacts, Zenon DEF KeptOK
<1> QED
  BY <1>1 DEF Held, Size

\* A sequence whose elements are those of another from k + 1 on.
LEMMA Suffix ==
    ASSUME NEW S, NEW s \in Seq(S), NEW t \in Seq(S), NEW k \in 0..Len(s),
           Len(t) = Len(s) - k, \A i \in 1..Len(t) : t[i] = s[k + i]
    PROVE  t = SubSeq(s, k + 1, Len(s))
<1>1. SubSeq(s, k + 1, Len(s)) \in Seq(S) /\ Len(SubSeq(s, k + 1, Len(s))) = Len(t)
  OBVIOUS
<1>2. \A i \in 1..Len(t) : SubSeq(s, k + 1, Len(s))[i] = t[i]
  OBVIOUS
<1> QED
  BY <1>1, <1>2

LEMMA Prefix ==
    ASSUME NEW S, NEW s \in Seq(S), NEW t \in Seq(S), Len(t) <= Len(s),
           \A i \in 1..Len(t) : t[i] = s[i]
    PROVE  t = SubSeq(s, 1, Len(t))
<1>1. SubSeq(s, 1, Len(t)) \in Seq(S) /\ Len(SubSeq(s, 1, Len(t))) = Len(t)
  OBVIOUS
<1>2. \A i \in 1..Len(t) : SubSeq(s, 1, Len(t))[i] = t[i]
  OBVIOUS
<1> QED
  BY <1>1, <1>2

\* append grows the log; the first one chooses where it begins.
LEMMA WriteRefines ==
    ASSUME StoreInv, StoreInv', NEW start \in Lsn, NEW data \in Seq(Byte), NEW n \in 0..Len(data),
           start + n \in Lsn, SeedOrigin(start), WriteChunks(start, data, n),
           UNCHANGED <<meta, meta_prev, recycled>>
    PROVE  Abstract!Grow
<1>1. /\ write_lsn' = start + n /\ write_lsn <= start /\ Retained' \in Lsn
      /\ \A m \in {<<>>} \cup (Lsn \X Lsn) :
            Open(m).flush <= write_lsn /\ Open(m).flush > 0 => Retained' = Retained
  BY WriteFacts, Zenon
<1>2. \A l \in Lsn : l < start => log'[l] = log[l]
  <2>1. \A l \in Lsn : ~ (start <= l /\ l < start + n) => log'[l] = log[l]
    BY ChunkFacts
  <2> QED
    BY <2>1, LsnFacts
<1>3. /\ Size \in Nat /\ Retained \in Nat /\ write_lsn \in Nat
      /\ Kept \in Seq(AnyByte) /\ Len(Kept) = Size
      /\ \A i \in 1..Size : Kept[i] = log[Retained + i - 1]
  BY KeptFacts DEF KeptOK
<1>4. /\ Size' \in Nat /\ Retained' \in Nat /\ write_lsn' \in Nat
      /\ Kept' \in Seq(AnyByte) /\ Len(Kept') = Size'
      /\ \A i \in 1..Size' : Kept'[i] = log'[Retained' + i - 1]
  <2>1. KeptOK'
    BY KeptFacts, PTL
  <2> QED
    BY <2>1 DEF KeptOK, AnyByte
<1>5. start \in Nat /\ n \in Nat
  BY LsnFacts
<1>6. ASSUME NEW m \in {meta, meta_prev} PROVE Held(m)' = Held(m)
  <2>1. Open(m).flush \in Nat /\ Open(m).flush <= write_lsn /\ m \in {<<>>} \cup (Lsn \X Lsn)
    BY OpenFacts, LsnFacts, Zenon DEF StoreInv, TypeOK, MetaInv
  <2>2. Open(m)' = Open(m)
    BY DEF Open, RECOVERED_NOTHING
  <2>3. CASE Open(m).flush = 0
    <3>1. Retained \in Nat /\ Retained' \in Nat
      BY <1>3, <1>4
    <3>2. ~ (Open(m).flush > Retained) /\ ~ (Open(m)'.flush > Retained')
      BY <2>2, <2>3, <3>1
    <3> QED
      BY <3>2 DEF Held
  <2>4. CASE Open(m).flush > 0
    <3>1. Retained' = Retained
      BY <1>1, <2>1, <2>4
    <3> QED
      BY <2>2, <3>1 DEF Held
  <2> QED
    BY <2>1, <2>3, <2>4
<1>7. Held(meta)' = Held(meta) /\ Held(meta_prev)' = Held(meta_prev)
  BY <1>6 DEF Held, Open, RECOVERED_NOTHING
<1>8. CASE Fresh
  <2>1. write_lsn = 0
    BY <1>8 DEF Fresh
  <2>2. Size = 0
    BY <1>3, <2>1 DEF Size
  <2>3. Kept = <<>> /\ Len(Kept) <= Len(Kept') /\ Kept = SubSeq(Kept', 1, Len(Kept))
    BY <1>3, <1>4, <2>2
  <2>4. Held(meta) = 0
    <3>1. Held(meta) \in Nat /\ Held(meta) <= Size
      BY HeldFacts, Zenon DEF StoreInv, TypeOK, MetaInv
    <3> QED
      BY <2>2, <3>1
  <2> QED
    BY <1>1, <1>7, <2>3, <2>4 DEF Abstract!Grow
<1>9. CASE ~ Fresh
  <2>1. start = write_lsn /\ start_lsn' = start_lsn
    BY <1>9 DEF SeedOrigin
  <2>2. Retained' = Retained
    BY <2>1 DEF Retained
  <2>3. Size <= Size'
    <3>1. write_lsn \in Nat /\ Retained \in Nat /\ write_lsn' = write_lsn + n
      BY <1>1, <1>3, <2>1
    <3> QED
      BY <1>5, <2>2, <3>1 DEF Size
  <2>4. ASSUME NEW i \in 1..Size PROVE Kept[i] = Kept'[i]
    <3>1. Retained + i - 1 \in Nat /\ Retained + i - 1 < write_lsn
      BY <1>3 DEF Size
    <3>2. Retained + i - 1 \in Lsn
      <4>1. write_lsn \in Lsn
        BY DEF StoreInv, TypeOK
      <4> QED
        BY <1>3, <3>1, <4>1, LsnFacts
    <3>3. log'[Retained + i - 1] = log[Retained + i - 1]
      BY <1>2, <2>1, <3>1, <3>2
    <3>4. i \in 1..Size'
      <4>1. Size \in Nat /\ Size' \in Nat
        BY <1>3, <1>4, Zenon
      <4> QED
        BY <2>3, <4>1
    <3> QED
      BY <1>3, <1>4, <2>2, <3>3, <3>4
  <2>5. Kept = SubSeq(Kept', 1, Len(Kept)) /\ Len(Kept) <= Len(Kept')
    BY <1>3, <1>4, <2>3, <2>4, Prefix
  <2> QED
    BY <1>7, <2>2, <2>5 DEF Abstract!Grow
<1> QED
  BY <1>8, <1>9

\* Steps that leave the positions and the log alone show the same log.
LEMMA KeptFrame ==
    ASSUME UNCHANGED <<start_lsn, write_lsn, recycled, log>>
    PROVE  /\ Retained' = Retained /\ Kept' = Kept
           /\ \A m : Held(m)' = Held(m)
BY DEF Retained, Kept, Held, Open, RECOVERED_NOTHING

\* flush makes all of the log durable, and its fsyncs settle the flush before.
LEMMA FlushRefines ==
    ASSUME StoreInv,
           FlushSync \/ FlushSyncFails \/ FlushMeta \/ FlushMetaFails \/ FlushReturns
    PROVE  Abstract!Settle \/ Abstract!Flush \/ UNCHANGED Abstract!vars
<1>1. UNCHANGED <<start_lsn, write_lsn, recycled, log>>
  BY DEF FlushSync, FlushSyncFails, FlushMeta, FlushMetaFails, FlushReturns, mem
<1>2. Retained' = Retained /\ Kept' = Kept
  BY <1>1, KeptFrame
<1>3. Held(meta)' = Held(meta') /\ Held(meta_prev)' = Held(meta_prev')
  BY <1>1 DEF Held, Open, RECOVERED_NOTHING, Retained
<1>4. CASE FlushSync \/ FlushSyncFails \/ FlushMetaFails \/ FlushReturns
  <2>1. meta' = meta /\ meta_prev' \in {meta, meta_prev}
    BY <1>4 DEF FlushSync, FlushSyncFails, FlushMetaFails, FlushReturns, disk
  <2>2. CASE meta_prev' = meta
    BY <1>2, <1>3, <2>1, <2>2 DEF Abstract!Settle
  <2>3. CASE meta_prev' = meta_prev
    BY <1>2, <1>3, <2>1, <2>3 DEF Abstract!vars
  <2> QED
    BY <2>1, <2>2, <2>3, Zenon
<1>5. CASE FlushMeta
  <2>1. meta' = <<start_lsn, write_lsn>> /\ meta_prev' = meta
    BY <1>5 DEF FlushMeta, FlushedMeta
  <2>2. Open(meta').flush = write_lsn
    BY <2>1, OpenPair DEF StoreInv, TypeOK
  <2>3. Held(meta') = Len(Kept)
    BY <2>2, KeptFacts DEF Held, Size, KeptOK
  <2> QED
    BY <1>2, <1>3, <2>1, <2>3 DEF Abstract!Flush
<1> QED
  BY <1>4, <1>5

\* remove_segments_before gives up the oldest bytes.
LEMMA RecycleRefines ==
    ASSUME StoreInv, StoreInv', NEW horizon \in Lsn, RemoveSegmentsBefore(horizon)
    PROVE  Abstract!Trim
<1>1. PICK floor \in Lsn :
        /\ floor <= flush_lsn
        /\ Retained' = IF floor > Retained THEN floor ELSE Retained
  BY RecycleFacts
<1>2. UNCHANGED <<write_lsn, flush_lsn, meta, meta_prev, log>>
  BY DEF RemoveSegmentsBefore
<1>3. /\ Size \in Nat /\ Retained \in Nat /\ write_lsn \in Nat
      /\ Kept \in Seq(AnyByte) /\ Len(Kept) = Size
      /\ \A i \in 1..Size : Kept[i] = log[Retained + i - 1]
  BY KeptFacts DEF KeptOK
<1>4. /\ Size' \in Nat /\ Kept' \in Seq(AnyByte) /\ Len(Kept') = Size'
      /\ \A i \in 1..Size' : Kept'[i] = log'[Retained' + i - 1]
  <2>1. KeptOK'
    BY KeptFacts, PTL
  <2> QED
    BY <2>1 DEF KeptOK, AnyByte
<1>5. floor \in Nat /\ flush_lsn \in Nat /\ flush_lsn <= write_lsn
  BY LsnFacts DEF StoreInv, TypeOK, OrderInv
<1>6. PICK k \in Nat : Retained' = Retained + k /\ k <= Size /\ Size' = Size - k
  <2>1. CASE floor > Retained
    <3>1. floor - Retained \in Nat /\ Retained' = Retained + (floor - Retained)
      BY <1>1, <1>3, <1>5, <2>1
    <3>2. floor - Retained <= Size /\ Size' = Size - (floor - Retained)
      BY <1>1, <1>2, <1>3, <1>5, <2>1 DEF Size
    <3> QED
      BY <3>1, <3>2
  <2>2. CASE ~ (floor > Retained)
    <3>1. Retained' = Retained + 0 /\ 0 <= Size /\ Size' = Size - 0
      BY <1>1, <1>2, <1>3, <2>2 DEF Size
    <3> QED
      BY <3>1
  <2> QED
    BY <2>1, <2>2
<1>7. k \in 0..Len(Kept)
  BY <1>3, <1>6
<1>8. \A i \in 1..Len(Kept') : Kept'[i] = Kept[k + i]
  <2> SUFFICES ASSUME NEW i \in 1..Size' PROVE Kept'[i] = Kept[k + i]
    BY <1>4
  <2>1. k + i \in 1..Size /\ Retained + (k + i) - 1 = Retained' + i - 1
    BY <1>3, <1>6
  <2> QED
    BY <1>2, <1>3, <1>4, <2>1, Zenon
<1>9. Kept' = SubSeq(Kept, k + 1, Len(Kept))
  <2>1. Len(Kept') = Len(Kept) - k
    BY <1>3, <1>4, <1>6
  <2> QED
    BY <1>3, <1>4, <1>7, <1>8, <2>1, Suffix
<1>10. ASSUME NEW m \in {meta, meta_prev}
       PROVE  Held(m)' = IF Held(m) > k THEN Held(m) - k ELSE 0
  <2>1. Open(m).flush \in Nat
    BY OpenFacts, LsnFacts, Zenon DEF StoreInv, TypeOK
  <2>2. Open(m)' = Open(m)
    BY DEF Open, RECOVERED_NOTHING
  <2>3. Retained \in Nat /\ Retained' = Retained + k
    BY <1>3, <1>6, Zenon
  <2> QED
    BY <2>1, <2>2, <2>3 DEF Held
<1>11. /\ Held(meta)' = IF Held(meta) > k THEN Held(meta) - k ELSE 0
       /\ Held(meta_prev)' = IF Held(meta_prev) > k THEN Held(meta_prev) - k ELSE 0
  BY <1>2, <1>10 DEF Held, Open, RECOVERED_NOTHING
<1> QED
  BY <1>6, <1>7, <1>9, <1>11, Zenon DEF Abstract!Trim

\* A crash cuts the log where the metadata it finds say.
LEMMA ReopenRefines ==
    ASSUME StoreInv, StoreInv', NEW m \in {meta, meta_prev}, Reopen(m),
           meta_prev' \in {meta_prev, m}
    PROVE  Abstract!Crash
<1>1. /\ start_lsn' = Open(m).start /\ write_lsn' = Open(m).flush /\ meta' = m
      /\ UNCHANGED <<log, recycled>>
  BY DEF Reopen
<1>2. /\ meta \in {<<>>} \cup (Lsn \X Lsn) /\ meta_prev \in {<<>>} \cup (Lsn \X Lsn)
      /\ m \in {<<>>} \cup (Lsn \X Lsn) /\ MetaInv(m) /\ recycled \in Lsn
      /\ Open(meta_prev).flush <= Open(meta).flush
  BY DEF StoreInv, TypeOK, OrderInv
<1>3. /\ Open(m).flush \in Nat /\ Open(m).start \in Nat /\ Open(m).flush <= write_lsn
      /\ Open(m).start <= Open(m).flush
      /\ Open(meta_prev).flush \in Nat /\ recycled \in Nat
  BY <1>2, OpenFacts, LsnFacts, Zenon DEF MetaInv
<1>4. Open(meta_prev).flush <= Open(m).flush
  BY <1>2, <1>3
<1>5. /\ Size \in Nat /\ Retained \in Nat /\ write_lsn \in Nat
      /\ Kept \in Seq(AnyByte) /\ Len(Kept) = Size
      /\ \A i \in 1..Size : Kept[i] = log[Retained + i - 1]
  BY KeptFacts DEF KeptOK
<1>6. /\ Size' \in Nat /\ Retained' \in Nat /\ Kept' \in Seq(AnyByte) /\ Len(Kept') = Size'
      /\ \A i \in 1..Size' : Kept'[i] = log'[Retained' + i - 1]
  <2>1. KeptOK'
    BY KeptFacts, PTL
  <2> QED
    BY <2>1 DEF KeptOK, AnyByte
<1>7. Retained' = IF recycled > Open(m).start THEN recycled ELSE Open(m).start
  BY <1>1 DEF Retained
<1>8. Held(m) \in Nat /\ Held(m) <= Size /\ Held(meta_prev) \in Nat /\ Held(meta_prev) <= Held(m)
  <2>1. Held(m) \in Nat /\ Held(m) <= Size
    BY <1>2, <1>3, HeldFacts
  <2>2. Retained \in Nat /\ Open(m).flush \in Nat /\ Open(meta_prev).flush \in Nat
    BY <1>3, <1>5
  <2>3. Held(meta_prev) \in Nat /\ Held(meta_prev) <= Held(m)
    BY <1>4, <2>2 DEF Held
  <2> QED
    BY <2>1, <2>3
<1>9. PICK x \in {meta_prev, m} : meta_prev' = x
  OBVIOUS
<1>10. Held(meta)' = Held(m)' /\ Held(meta_prev)' = Held(x)'
  BY <1>1, <1>9, Zenon DEF Held, Open, RECOVERED_NOTHING, Retained
<1>11. Size' = Held(m)' /\ Open(m)' = Open(m) /\ Open(x)' = Open(x)
  BY <1>1, Zenon DEF Size, Held, Open, RECOVERED_NOTHING
<1>12. CASE Open(m).flush > 0
  <2>1. Retained' = Retained
    BY <1>2, <1>7, <1>12, Zenon DEF MetaInv
  <2>2. Held(m)' = Held(m) /\ Held(x)' = Held(x)
    BY <1>11, <2>1 DEF Held
  <2>3. ASSUME NEW i \in 1..Len(Kept') PROVE Kept'[i] = Kept[i]
    <3>1. Len(Kept') = Size' /\ Size' <= Size /\ Size \in Nat /\ Size' \in Nat
      BY <1>5, <1>6, <1>8, <1>11, <2>2
    <3>2. i \in 1..Size' /\ i \in 1..Size
      BY <3>1
    <3> QED
      BY <1>1, <1>5, <1>6, <2>1, <3>2, Zenon
  <2>4. Kept' = SubSeq(Kept, 1, Held(m))
    <3>1. Len(Kept') = Held(m) /\ Held(m) <= Len(Kept)
      BY <1>5, <1>6, <1>8, <1>11, <2>2
    <3> QED
      BY <1>5, <1>6, <2>3, <3>1, Prefix, Zenon
  <2>5. Held(m) \in Held(meta_prev)..Len(Kept) /\ Held(x) \in {Held(meta_prev), Held(m)}
    BY <1>5, <1>8, <1>9
  <2> QED
    BY <1>10, <2>1, <2>2, <2>4, <2>5 DEF Abstract!Crash
<1>13. CASE Open(m).flush = 0
  <2>0. Retained \in Nat /\ Retained' \in Nat /\ Len(Kept) \in Nat
    BY <1>5, <1>6
  <2>1. Held(m) = 0 /\ Held(meta_prev) = 0
    <3>1. Open(meta_prev).flush = 0
      BY <1>3, <1>4, <1>13
    <3> QED
      BY <1>13, <2>0, <3>1 DEF Held
  <2>2. Open(x).flush = 0
    BY <1>3, <1>4, <1>9, <1>13
  <2>3. Held(m)' = 0 /\ Held(x)' = 0
    <3>1. ~ (0 > Retained')
      BY <2>0
    <3> QED
      BY <1>11, <1>13, <2>2, <3>1 DEF Held
  <2>4. Kept' = SubSeq(Kept, 1, 0)
    <3>1. Len(Kept') = 0
      BY <1>6, <1>11, <2>3
    <3>2. \A i \in 1..0 : Kept'[i] = Kept[i]
      OBVIOUS
    <3>3. Kept \in Seq(AnyByte) /\ Kept' \in Seq(AnyByte)
      BY <1>5, <1>6
    <3> QED
      BY <2>0, <3>1, <3>2, <3>3, Prefix
  <2>5. Retained' <= Retained
    <3>1. start_lsn \in Lsn
      BY DEF StoreInv, TypeOK
    <3>2. start_lsn \in Nat /\ recycled \in Nat
      BY <1>3, <3>1, LsnFacts
    <3>3. recycled <= Retained
      BY <3>2 DEF Retained
    <3>4. Open(m).start = 0
      BY <1>3, <1>13
    <3>5. Retained' = recycled
      BY <1>7, <3>2, <3>4
    <3> QED
      BY <3>3, <3>5
  <2>6. 0 \in 0..Len(Kept)
    BY <2>0
  <2> QED
    BY <1>10, <2>1, <2>3, <2>4, <2>5, <2>6 DEF Abstract!Crash
<1> QED
  BY <1>3, <1>12, <1>13

(***************************************************************************)
(* The store implements a durable log, for every segment size and ring     *)
(* capacity: appends only grow it, a flush makes all of it durable,        *)
(* recycling only takes its oldest bytes, and no kill or power loss at any *)
(* step, nor any I/O error, costs a byte that was flushed before the last  *)
(* flush (storage.rs as a whole).                                          *)
(***************************************************************************)
THEOREM StoreImplementsDurableLog == Spec => ImplementsDurableLog
<1>1. Init => Abstract!Init
  <2> SUFFICES ASSUME Init PROVE Abstract!Init
    OBVIOUS
  <2>1. Retained = 0 /\ Held(meta) = 0 /\ Held(meta_prev) = 0
    BY DEF Init, Retained, Held, Open, RECOVERED_NOTHING
  <2>2. Kept = <<>>
    <3>1. Size = 0
      BY <2>1 DEF Init, Size
    <3> QED
      BY <3>1, StoreInit, KeptFacts DEF KeptOK
  <2> QED
    BY <2>1, <2>2 DEF Abstract!Init
<1>2. StoreInv /\ StoreInv' /\ [Next]_vars => [Abstract!Next]_(Abstract!vars)
  <2> SUFFICES ASSUME StoreInv, StoreInv', [Next]_vars
               PROVE  Abstract!Next \/ UNCHANGED Abstract!vars
    OBVIOUS
  <2>1. ASSUME NEW start \in Origins \cup {write_lsn}, NEW data \in Runs, AppendRun(start, data)
        PROVE  Abstract!Grow
    <3>1. start \in Lsn /\ data \in Seq(Byte) /\ Len(data) \in Nat
      BY OriginAssumption, RunFacts DEF StoreInv, TypeOK, Lsn
    <3>2. start + Len(data) \in Lsn /\ Len(data) \in 0..Len(data)
      BY <2>1, <3>1, LsnFacts, OriginAssumption DEF AppendRun, Lsn
    <3>3. /\ SeedOrigin(start) /\ WriteChunks(start, data, Len(data))
          /\ UNCHANGED <<meta, meta_prev, recycled>>
      BY <2>1 DEF AppendRun
    <3> QED
      BY <3>1, <3>2, <3>3, WriteRefines
  <2>2. ASSUME NEW start \in Origins \cup {write_lsn}, NEW data \in Runs, AppendFails(start, data)
        PROVE  Abstract!Grow
    <3>1. start \in Lsn /\ data \in Seq(Byte) /\ Len(data) \in Nat
      BY OriginAssumption, RunFacts DEF StoreInv, TypeOK, Lsn
    <3>2. PICK n \in 0..(Len(data) - 1) : WriteChunks(start, data, n)
      BY <2>2 DEF AppendFails
    <3>3. n \in 0..Len(data) /\ n \in Nat
      BY <3>1
    <3>4. start + n \in Lsn
      BY <2>2, <3>1, <3>3, LsnFacts, OriginAssumption DEF AppendFails, Lsn
    <3>5. SeedOrigin(start) /\ UNCHANGED <<meta, meta_prev, recycled>>
      BY <2>2 DEF AppendFails
    <3> QED
      BY <3>1, <3>2, <3>3, <3>4, <3>5, WriteRefines
  <2>3. CASE FlushSync \/ FlushSyncFails \/ FlushMeta \/ FlushMetaFails \/ FlushReturns
    BY <2>3, FlushRefines DEF Abstract!Next
  <2>4. ASSUME NEW horizon \in Lsn, RemoveSegmentsBefore(horizon) PROVE Abstract!Trim
    BY <2>4, RecycleRefines
  <2>5. CASE Kill
    <3>1. Reopen(meta) /\ meta_prev' = meta_prev
      BY <2>5 DEF Kill
    <3> QED
      BY <3>1, ReopenRefines DEF Abstract!Next
  <2>6. CASE PowerLoss
    <3>1. PICK m \in {meta, meta_prev} : Reopen(m) /\ meta_prev' = m
      BY <2>6, Zenon DEF PowerLoss
    <3> QED
      BY <3>1, ReopenRefines DEF Abstract!Next
  <2>7. CASE UNCHANGED vars
    <3>1. UNCHANGED <<start_lsn, write_lsn, recycled, log, meta, meta_prev>>
      BY <2>7 DEF vars, mem, disk
    <3> QED
      BY <3>1 DEF Abstract!vars, Retained, Kept, Held, Open, RECOVERED_NOTHING
  <2> QED
    BY <2>1, <2>2, <2>3, <2>4, <2>5, <2>6, <2>7 DEF Next, Abstract!Next
<1> QED
  BY <1>1, <1>2, StoreAlways, PTL DEF Spec, ImplementsDurableLog, Abstract!Spec
=============================================================================
