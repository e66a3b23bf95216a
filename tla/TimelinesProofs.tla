--------------------------- MODULE TimelinesProofs ---------------------------
(***************************************************************************)
(* What compaction, gc and branching keep, for any number of timelines,    *)
(* blocks and records and every order of their steps; and what the offload *)
(* worker and the gc command leave in the object store beside them.        *)
(***************************************************************************)
EXTENDS Offload, TLAPS, WellFoundedInduction

\* Leaves that cite no prover may take their time: SMT first, then Zenon.
USE SMTT(30), Zenon
USE DEF Lsn, Valid, Block

\* What the type invariants say of the layers and of the worker.
LEMMA LayersTyped ==
    ASSUME OfTypeOK
    PROVE  /\ TlTypeOK
           /\ \A t \in Timeline : next_layer_id[t] \in Nat /\ \A y \in layers[t] : y.id \in Nat
           /\ worker.tl \in Timeline \cup {None} /\ None \notin Timeline
<1>1. /\ TlTypeOK /\ layers \in [Timeline -> SUBSET Layer] /\ next_layer_id \in [Timeline -> Nat]
      /\ worker.tl \in Timeline \cup {None}
  BY DEF OfTypeOK, TlTypeOK
<1> QED
  BY <1>1, TimelineAssumption DEF Layer

\* The worker at the start.
LEMMA WorkerInit ==
    ASSUME OfInit, TlTypeOK
    PROVE  OfTypeOK /\ worker = [todo |-> {}, tl |-> None, pending |-> {}, put |-> {}]
BY FailureAssumption DEF OfInit, OfTypeOK, Resting

\* A set of natural numbers has a least element (the minimum in Tenant::gc).
LEMMA LeastNat ==
    ASSUME NEW S \in SUBSET Nat, S # {}
    PROVE  \E k \in S : \A l \in S : k <= l
<1>1. PICK k \in S : \A l \in S : ~ (<<l, k>> \in OpToRel(<, Nat))
  BY WFMin, NatLessThanWellFounded, Zenon
<1>2. \A l \in S : ~ (l < k)
  BY <1>1, Zenon DEF OpToRel
<1> QED
  BY <1>2

\* A bounded one has a largest element (the last LSN, the highest block).
LEMMA LargestNat ==
    ASSUME NEW n \in Nat, NEW S \in SUBSET (0..n), S # {}
    PROVE  \E k \in S : \A l \in S : l <= k
<1> DEFINE T == {n - k : k \in S}
<1>1. T \in SUBSET Nat /\ T # {}
  <2>1. \A k \in S : n - k \in Nat
    OBVIOUS
  <2> QED
    BY <2>1, Zenon
<1>2. PICK x \in T : \A y \in T : x <= y
  <2> HIDE DEF T
  <2> QED
    BY <1>1, LeastNat
<1>3. PICK k \in S : x = n - k
  BY <1>2
<1>4. \A l \in S : n - k <= n - l
  BY <1>2, <1>3
<1> QED
  BY <1>4

\* The horizon a timeline is compacted at is the requested one or the branch
\* point of a child, and not above any of them (Tenant::gc).
LEMMA LowestPinned ==
    ASSUME TlTypeOK, NEW t \in Timeline, NEW h \in Lsn
    PROVE  /\ Lowest(Pinned(t, h)) \in Lsn
           /\ \A c \in timelines : parent[c] = t => Lowest(Pinned(t, h)) <= ancestor_lsn[c]
<1> DEFINE S == Pinned(t, h)
<1>1. S \in SUBSET Lsn /\ S # {}
  BY DEF Pinned, TlTypeOK
<1>2. \A c \in timelines : parent[c] = t => ancestor_lsn[c] \in S
  BY DEF Pinned
<1> HIDE DEF S
<1>3. \E k \in S : \A l \in S : k <= l
  BY <1>1, LeastNat, BoundAssumption
<1>4. Lowest(S) \in S /\ \A l \in S : Lowest(S) <= l
  BY <1>3 DEF Lowest
<1> QED
  BY <1>1, <1>2, <1>4 DEF S

\* The end of the WAL of a timeline is an LSN that none of its versions is behind.
LEMMA LastIsEnd ==
    ASSUME TlTypeOK, NEW t \in Timeline
    PROVE  /\ Last(t) \in Lsn /\ ancestor_lsn[t] <= Last(t)
           /\ \A v \in hist[t] : v.lsn <= Last(t)
           /\ Last(t) = ancestor_lsn[t] \/ \E v \in hist[t] : v.lsn = Last(t)
<1> DEFINE S == {ancestor_lsn[t]} \cup {v.lsn : v \in hist[t]}
<1>1. S \in SUBSET (0..MaxLsn) /\ S # {} /\ ancestor_lsn[t] \in S
  BY DEF TlTypeOK, Version
<1>2. \A v \in hist[t] : v.lsn \in S
  OBVIOUS
<1>3. \E k \in S : \A l \in S : l <= k
  <2> HIDE DEF S
  <2> QED
    BY <1>1, LargestNat, BoundAssumption, Zenon
<1>4. \E l \in S : ancestor_lsn[t] <= l /\ \A v \in hist[t] : v.lsn <= l
  BY <1>1, <1>2, <1>3
<1>5. Last(t) = CHOOSE l \in S : ancestor_lsn[t] <= l /\ \A v \in hist[t] : v.lsn <= l
  BY DEF Last
<1> HIDE DEF S
<1>6. /\ Last(t) \in S /\ ancestor_lsn[t] <= Last(t)
      /\ \A v \in hist[t] : v.lsn <= Last(t)
  BY <1>4, <1>5
<1>7. Last(t) = ancestor_lsn[t] \/ \E v \in hist[t] : v.lsn = Last(t)
  BY <1>6, Zenon DEF S
<1> QED
  BY <1>1, <1>6, <1>7, Zenon

\* The last size recorded at or before an LSN, where there is one.
LEMMA SizeAtLast ==
    ASSUME NEW sizes \in [Lsn -> 0..(MaxBlock + 1)], NEW l \in Lsn
    PROVE  \/ /\ SizeAt(sizes, l) = 0
              /\ \A k \in Lsn : k <= l => sizes[k] = 0
           \/ \E k \in Lsn : /\ k <= l /\ sizes[k] > 0
                             /\ SizeAt(sizes, l) = sizes[k]
                             /\ \A j \in Lsn : j <= l /\ sizes[j] > 0 => j <= k
<1> DEFINE S == {k \in Lsn : k <= l /\ sizes[k] > 0}
<1>1. S \in SUBSET (0..MaxLsn)
  OBVIOUS
<1>2. SizeAt(sizes, l) = IF S = {} THEN 0 ELSE sizes[CHOOSE k \in S : \A j \in S : j <= k]
  BY DEF SizeAt
<1>3. CASE S = {}
  <2>1. \A k \in Lsn : k <= l => ~ (sizes[k] > 0)
    BY <1>3
  <2>2. \A k \in Lsn : sizes[k] \in Nat
    BY BoundAssumption
  <2> QED
    BY <1>2, <1>3, <2>1, <2>2
<1>4. CASE S # {}
  <2>1. \E k \in S : \A j \in S : j <= k
    <3> HIDE DEF S
    <3> QED
      BY <1>1, <1>4, LargestNat, BoundAssumption, Zenon
  <2>2. PICK k : k = CHOOSE x \in S : \A j \in S : j <= x
    OBVIOUS
  <2>3. k \in S /\ \A j \in S : j <= k
    BY <2>1, <2>2, Zenon
  <2>4. SizeAt(sizes, l) = sizes[k]
    BY <1>2, <1>4, <2>2
  <2> QED
    BY <2>3, <2>4
<1> QED
  BY <1>3, <1>4

\* A record's blocks have a highest one.
LEMMA HighestIsBlock ==
    ASSUME NEW vs \in SUBSET Version, vs # {}
    PROVE  /\ HighestBlock(vs) \in Block
           /\ \A v \in vs : v.page <= HighestBlock(vs)
           /\ \E v \in vs : v.page = HighestBlock(vs)
<1> DEFINE S == {v.page : v \in vs}
<1>1. S \in SUBSET (0..MaxBlock) /\ S # {}
  BY DEF Version
<1>2. \E b \in S : \A l \in S : l <= b
  <2> HIDE DEF S
  <2> QED
    BY <1>1, LargestNat, BoundAssumption, Zenon
<1>3. \E b \in S : \A v \in vs : v.page <= b
  BY <1>2
<1>4. HighestBlock(vs) = CHOOSE b \in S : \A v \in vs : v.page <= b
  BY DEF HighestBlock
<1>5. HighestBlock(vs) \in S /\ \A v \in vs : v.page <= HighestBlock(vs)
  <2> HIDE DEF S
  <2> QED
    BY <1>3, <1>4
<1> QED
  BY <1>1, <1>5

\* A record at an LSN is a nonempty set of versions at that LSN.
LEMMA RecordVersions ==
    ASSUME NEW l \in Lsn, NEW vs \in RecordsAt(l)
    PROVE  vs \in SUBSET Version /\ vs # {} /\ \A v \in vs : v.lsn = l
<1> DEFINE Sets == {x \in (SUBSET Block) \ {{}} : Cardinality(x) <= MaxBlocks}
<1>1. PICK f \in UNION {[bs -> Kind] : bs \in Sets} :
        vs = {[page |-> b, lsn |-> l, kind |-> f[b]] : b \in DOMAIN f}
  BY DEF RecordsAt
<1>2. PICK bs \in Sets : f \in [bs -> Kind]
  BY <1>1
<1>3. vs = {[page |-> b, lsn |-> l, kind |-> f[b]] : b \in bs}
  BY <1>1, <1>2
<1>4. bs # {}
  BY <1>2
<1>5. bs \subseteq Block /\ \A b \in bs : f[b] \in Kind
  BY <1>2
<1>6. \A b \in bs : [page |-> b, lsn |-> l, kind |-> f[b]] \in Version
  BY <1>5 DEF Version
<1>7. PICK b \in bs : TRUE
  BY <1>4, Zenon
<1>8. [page |-> b, lsn |-> l, kind |-> f[b]] \in vs
  BY <1>3, <1>7
<1>9. \A v \in vs : v \in Version /\ v.lsn = l
  BY <1>3, <1>6
<1> QED
  BY <1>8, <1>9

\* The size recorded for a record is that of a relation.
LEMMA SizeWithType ==
    ASSUME TlTypeOK, NEW t \in Timeline, NEW l \in Lsn, NEW vs \in SUBSET Version, vs # {}
    PROVE  SizeWith(SizeAt(rel_sizes[t], l), HighestBlock(vs)) \in 0..(MaxBlock + 1)
<1>1. rel_sizes[t] \in [Lsn -> 0..(MaxBlock + 1)]
  BY DEF TlTypeOK
<1> DEFINE sizes == rel_sizes[t]
           n == SizeAt(sizes, l)
           b == HighestBlock(vs)
<1> HIDE DEF sizes
<1>2. n = 0 \/ \E k \in Lsn : n = sizes[k]
  BY <1>1, SizeAtLast DEF sizes
<1>3. n \in 0..(MaxBlock + 1)
  BY <1>1, <1>2, BoundAssumption DEF sizes
<1>4. b \in 0..MaxBlock
  BY HighestIsBlock
<1> HIDE DEF n, b
<1>5. SizeWith(n, b) \in 0..(MaxBlock + 1)
  BY <1>3, <1>4, BoundAssumption DEF SizeWith
<1> QED
  BY <1>5 DEF n, b, sizes

\* Ingesting a record keeps the types.
LEMMA IngestType ==
    ASSUME TlTypeOK, NEW t \in Timeline, NEW l \in Lsn, NEW vs \in SUBSET Version, vs # {},
           Ingest(t, vs, l)
    PROVE  TlTypeOK'
<1> DEFINE n == SizeWith(SizeAt(rel_sizes[t], l), HighestBlock(vs))
<1>1. n \in 0..(MaxBlock + 1)
  BY SizeWithType
<1>2. rel_sizes' = [rel_sizes EXCEPT ![t] = [@ EXCEPT ![l] = n]]
  BY DEF Ingest
<1> HIDE DEF n
<1>3. rel_sizes' \in [Timeline -> [Lsn -> 0..(MaxBlock + 1)]]
  BY <1>1, <1>2 DEF TlTypeOK
<1>4. hist' \in [Timeline -> SUBSET Version] /\ records' \in 0..MaxRecords
  BY BoundAssumption DEF Ingest, TlTypeOK
<1>5. /\ memtable' \in [Timeline -> SUBSET Version]
      /\ layers' \in [Timeline -> SUBSET Layer]
      /\ next_layer_id' \in [Timeline -> Nat]
  <2>1. CASE /\ memtable' = [memtable EXCEPT ![t] = @ \cup vs]
             /\ UNCHANGED <<layers, next_layer_id>>
    BY <2>1 DEF TlTypeOK
  <2>2. CASE \E first \in SUBSET vs : Freeze(t, memtable[t] \cup first, vs \ first)
    <3>1. PICK first \in SUBSET vs : Freeze(t, memtable[t] \cup first, vs \ first)
      BY <2>2, Zenon
    <3> DEFINE y == [id |-> next_layer_id[t], entries |-> memtable[t] \cup first]
    <3>2. y \in Layer
      BY DEF TlTypeOK, Layer
    <3>3. layers' = [layers EXCEPT ![t] = @ \cup {y}]
      BY <3>1 DEF Freeze, FreshId
    <3> HIDE DEF y
    <3>4. layers' \in [Timeline -> SUBSET Layer]
      BY <3>2, <3>3, Zenon DEF TlTypeOK
    <3> QED
      BY <3>1, <3>4 DEF Freeze, TlTypeOK
  <2> QED
    BY <2>1, <2>2, Zenon DEF Ingest
<1>6. UNCHANGED <<timelines, parent, ancestor_lsn, whole, gc, gcs, horizon>>
  BY DEF Ingest, branchVars, gcVars
<1> QED
  BY <1>3, <1>4, <1>5, <1>6, Zenon DEF TlTypeOK

\* So does a compaction.
LEMMA CompactType ==
    ASSUME TlTypeOK, NEW t \in Timeline, NEW h \in Lsn, Compact(t, h)
    PROVE  /\ memtable' \in [Timeline -> SUBSET Version]
           /\ layers' \in [Timeline -> SUBSET Layer]
           /\ next_layer_id' \in [Timeline -> Nat]
           /\ horizon' \in [Timeline -> Lsn]
<1> DEFINE merged == UNION {y.entries : y \in layers[t]}
           kept == merged \ Dropped(merged, h)
           y == [id |-> next_layer_id[t], entries |-> kept]
<1>1. kept \in SUBSET Version
  BY DEF TlTypeOK, Layer
<1>2. CASE layers[t] = {} /\ UNCHANGED repoVars
  BY <1>2 DEF repoVars, TlTypeOK
<1>3. CASE /\ layers' = [layers EXCEPT ![t] = {y}]
           /\ next_layer_id' = [next_layer_id EXCEPT ![t] = @ + 1]
           /\ horizon' = [horizon EXCEPT ![t] = IF h > @ THEN h ELSE @]
           /\ UNCHANGED memtable
  <2> HIDE DEF kept
  <2>1. y \in Layer
    BY <1>1 DEF TlTypeOK, Layer
  <2> HIDE DEF y
  <2> QED
    BY <1>3, <2>1 DEF TlTypeOK
<1> QED
  BY <1>2, <1>3, Zenon DEF Compact, FreshId

\* Every step keeps the types.
LEMMA TlTypeStep == TlTypeOK /\ [TlNext]_tlVars => TlTypeOK'
<1> SUFFICES ASSUME TlTypeOK, [TlNext]_tlVars
             PROVE  TlTypeOK'
  OBVIOUS
<1>1. ASSUME NEW t \in Roots, CreateTimeline(t)
      PROVE  TlTypeOK'
  BY <1>1, TimelineAssumption DEF CreateTimeline, TlTypeOK, repoVars, ingestVars, gcVars
<1>2. ASSUME NEW x \in Branches, NEW l \in Valid, BranchTimeline(x[1], x[2], l)
      PROVE  TlTypeOK'
  <2>1. x[1] \in Timeline /\ x[2] \in Timeline /\ l \in Lsn
    BY TimelineAssumption, BoundAssumption
  <2>2. /\ timelines' \subseteq Timeline /\ whole' \subseteq Timeline
        /\ parent' \in [Timeline -> Timeline \cup {None}]
        /\ ancestor_lsn' \in [Timeline -> Lsn]
    BY <1>2, <2>1, Zenon DEF BranchTimeline, TlTypeOK
  <2> QED
    BY <1>2, <2>2, Zenon DEF BranchTimeline, TlTypeOK, repoVars, ingestVars, gcVars
<1>3. ASSUME NEW t \in timelines, NEW vs \in RecordsAt(Last(t) + 1), IngestNew(t, vs)
      PROVE  TlTypeOK'
  <2>1. t \in Timeline
    BY DEF TlTypeOK
  <2>2. Last(t) + 1 \in Lsn /\ Ingest(t, vs, Last(t) + 1)
    BY <1>3, <2>1, LastIsEnd, BoundAssumption DEF IngestNew
  <2> QED
    BY <2>1, <2>2, RecordVersions, IngestType
<1>4. ASSUME NEW t \in timelines, NEW l \in Valid, IngestAgain(t, l)
      PROVE  TlTypeOK'
  <2> DEFINE vs == {v \in hist[t] : v.lsn = l}
  <2>1. t \in Timeline /\ l \in Lsn /\ vs \in SUBSET Version /\ vs # {} /\ Ingest(t, vs, l)
    BY <1>4, BoundAssumption DEF TlTypeOK, IngestAgain
  <2> HIDE DEF vs
  <2> QED
    BY <2>1, IngestType
<1>5. ASSUME NEW h \in Valid, GcBegin(h)
      PROVE  TlTypeOK'
  <2>1. gc' = [horizon |-> h, todo |-> timelines] /\ h \in Lsn /\ timelines \subseteq Timeline
    BY <1>5, BoundAssumption DEF GcBegin, TlTypeOK
  <2>2. gc' \in [horizon : Lsn, todo : SUBSET Timeline]
    BY <2>1
  <2>3. gcs' \in 0..MaxGcs
    BY <1>5, BoundAssumption DEF GcBegin, TlTypeOK
  <2> QED
    BY <1>5, <2>2, <2>3 DEF GcBegin, TlTypeOK, branchVars, repoVars, ingestVars
<1>6. ASSUME NEW t \in Timeline, GcTimeline(t)
      PROVE  TlTypeOK'
  <2> DEFINE h == Lowest(Pinned(t, gc.horizon))
  <2>1. h \in Lsn
    BY LowestPinned DEF TlTypeOK
  <2>2. Compact(t, h)
    BY <1>6 DEF GcTimeline
  <2> HIDE DEF h
  <2>3. gc' \in [horizon : Lsn, todo : SUBSET Timeline]
    <3>1. gc \in [horizon : Lsn, todo : SUBSET Timeline]
      BY DEF TlTypeOK
    <3>2. CASE gc' = NoGc
      BY <3>2, BoundAssumption DEF NoGc
    <3>3. CASE gc' = [gc EXCEPT !.todo = @ \ {t}]
      BY <3>1, <3>3
    <3> QED
      BY <1>6, <3>2, <3>3 DEF GcTimeline
  <2> QED
    BY <1>6, <2>1, <2>2, <2>3, CompactType, Zenon DEF GcTimeline, TlTypeOK, branchVars, ingestVars
<1>7. CASE UNCHANGED tlVars
  BY <1>7 DEF tlVars, branchVars, repoVars, ingestVars, gcVars, TlTypeOK
<1> QED
  BY <1>1, <1>2, <1>3, <1>4, <1>5, <1>6, <1>7 DEF TlNext, TenantStep

LEMMA TlTypeInit == TlInit => TlTypeOK
BY BoundAssumption DEF TlInit, TlTypeOK, NoGc

(***************************************************************************)
(* The tenant and its repositories keep their types.                       *)
(***************************************************************************)
THEOREM TlTypeCorrect == TlSpec => []TlTypeOK
BY TlTypeInit, TlTypeStep, PTL DEF TlSpec
-----------------------------------------------------------------------------
\* v is no longer needed at the horizon h or above: a base in vs is newer.
Superseded(vs, v, h) ==
    \E b \in vs : b.page = v.page /\ IsBase(b) /\ v.lsn < b.lsn /\ b.lsn <= h

(***************************************************************************)
(* The inductive form of HistoryKept: a repository holds only what it was  *)
(* sent, and what it no longer holds is superseded at its horizon.         *)
(***************************************************************************)
KeepInv ==
    \A t \in Timeline :
        /\ Stored(t) \subseteq hist[t]
        /\ \A v \in hist[t] : v \in Stored(t) \/ Superseded(Stored(t), v, horizon[t])

\* A set of versions that leaves out only superseded ones rebuilds the same
\* pages from the horizon on (Repository::get_page).
LEMMA SameRebuild ==
    ASSUME NEW h \in Lsn, NEW l \in Lsn, h <= l, NEW p \in Block,
           NEW all \in SUBSET Version, NEW vs \in SUBSET all,
           \A v \in all : v \in vs \/ Superseded(vs, v, h)
    PROVE  GetPage(vs, p, l) = GetPage(all, p, l)
<1> DEFINE S == Upto(vs, p, l)
           H == Upto(all, p, l)
<1>1. S \subseteq H /\ \A v \in H : v \in Version /\ v.lsn \in Nat
  BY DEF Upto, Version
<1>2. \A v \in H : v \in S \/ \E b \in S : IsBase(b) /\ v.lsn < b.lsn
  <2> SUFFICES ASSUME NEW v \in H, v \notin S
               PROVE  \E b \in S : IsBase(b) /\ v.lsn < b.lsn
    OBVIOUS
  <2>1. v \in all /\ v.page = p /\ v.lsn <= l /\ v \notin vs
    BY DEF Upto
  <2>2. PICK b \in vs : b.page = v.page /\ IsBase(b) /\ v.lsn < b.lsn /\ b.lsn <= h
    BY <2>1 DEF Superseded
  <2>3. b.lsn \in Nat
    BY DEF Version
  <2>4. b \in S
    BY <2>1, <2>2, <2>3 DEF Upto
  <2> QED
    BY <2>2, <2>4
<1> HIDE DEF S, H
<1>3. (\E b \in S : IsBase(b)) <=> (\E b \in H : IsBase(b))
  BY <1>1, <1>2
<1>4. ASSUME NEW v \in S, \A b \in S : IsBase(b) => b.lsn <= v.lsn, NEW b \in H, IsBase(b)
      PROVE  b.lsn <= v.lsn
  <2>1. CASE b \in S
    BY <1>4, <2>1
  <2>2. CASE b \notin S
    <3>1. PICK c \in S : IsBase(c) /\ b.lsn < c.lsn
      BY <1>2, <2>2
    <3>2. c.lsn <= v.lsn
      BY <1>4, <3>1
    <3>3. b.lsn \in Nat /\ c.lsn \in Nat /\ v.lsn \in Nat
      BY <1>1
    <3> QED
      BY <3>1, <3>2, <3>3
  <2> QED
    BY <2>1, <2>2
<1>5. ASSUME NEW v \in H, \A b \in H : IsBase(b) => b.lsn <= v.lsn
      PROVE  v \in S
  <2> SUFFICES ASSUME v \notin S PROVE FALSE
    OBVIOUS
  <2>1. PICK b \in S : IsBase(b) /\ v.lsn < b.lsn
    BY <1>2
  <2>2. b \in H /\ b.lsn <= v.lsn
    BY <1>1, <1>5, <2>1
  <2>3. b.lsn \in Nat /\ v.lsn \in Nat
    BY <1>1, <2>2
  <2> QED
    BY <2>1, <2>2, <2>3
<1>6. {v \in S : \A b \in S : IsBase(b) => b.lsn <= v.lsn}
        = {v \in H : \A b \in H : IsBase(b) => b.lsn <= v.lsn}
  BY <1>1, <1>4, <1>5
<1>7. Rebuild(S) = Rebuild(H)
  BY <1>3, <1>6, Zenon DEF Rebuild
<1> QED
  BY <1>7 DEF GetPage, S, H

\* Of the bases at or below the horizon compaction keeps a newest one.
LEMMA BaseKept ==
    ASSUME NEW vs \in SUBSET Version, NEW h \in Lsn,
           NEW b \in vs, IsBase(b), b.lsn <= h
    PROVE  \E c \in vs \ Dropped(vs, h) :
              c.page = b.page /\ IsBase(c) /\ b.lsn <= c.lsn /\ c.lsn <= h
<1> DEFINE B == {c \in vs : c.page = b.page /\ IsBase(c) /\ c.lsn <= h}
           S == {c.lsn : c \in B}
<1>1. b \in B /\ b.lsn \in S /\ S \in SUBSET (0..MaxLsn)
  BY DEF Version
<1>2. PICK k \in S : \A l \in S : l <= k
  <2> HIDE DEF S
  <2> QED
    BY <1>1, LargestNat, BoundAssumption, Zenon
<1>3. PICK c \in B : c.lsn = k
  BY <1>2
<1>4. \A d \in B : d.lsn <= c.lsn
  BY <1>2, <1>3
<1>5. c \notin Dropped(vs, h)
  <2> SUFFICES ASSUME NEW d \in vs, d.page = c.page, IsBase(d), d.lsn <= h, c.lsn < d.lsn
               PROVE  FALSE
    BY DEF Dropped
  <2>1. d.lsn <= c.lsn
    BY <1>3, <1>4
  <2>2. d.lsn \in Nat /\ c.lsn \in Nat
    BY <1>3 DEF Version
  <2> QED
    BY <2>1, <2>2
<1> QED
  BY <1>1, <1>3, <1>4, <1>5

\* Compaction leaves out only superseded versions.
LEMMA CompactKeeps ==
    ASSUME NEW vs \in SUBSET Version, NEW mem \in SUBSET Version, NEW all \in SUBSET Version,
           NEW h0 \in Lsn, NEW h \in Lsn, NEW h1 \in Lsn, h0 <= h1, h <= h1,
           \A v \in all : v \in mem \cup vs \/ Superseded(mem \cup vs, v, h0)
    PROVE  LET kept == mem \cup (vs \ Dropped(vs, h))
           IN  \A v \in all : v \in kept \/ Superseded(kept, v, h1)
<1> DEFINE kept == mem \cup (vs \ Dropped(vs, h))
<1>1. ASSUME NEW v \in Version, NEW b \in vs,
             b.page = v.page, IsBase(b), v.lsn < b.lsn, b.lsn <= h
      PROVE  Superseded(kept, v, h1)
  <2>1. PICK c \in vs \ Dropped(vs, h) :
           c.page = b.page /\ IsBase(c) /\ b.lsn <= c.lsn /\ c.lsn <= h
    BY <1>1, BaseKept
  <2>2. v.lsn \in Nat /\ b.lsn \in Nat /\ c.lsn \in Nat
    BY <2>1 DEF Version
  <2>3. c \in kept /\ c.page = v.page /\ v.lsn < c.lsn /\ c.lsn <= h1
    BY <1>1, <2>1, <2>2
  <2> QED
    BY <2>1, <2>3 DEF Superseded
<1>2. ASSUME NEW v \in Version, v \in Dropped(vs, h)
      PROVE  Superseded(kept, v, h1)
  <2>1. PICK b \in vs : b.page = v.page /\ IsBase(b) /\ b.lsn <= h /\ v.lsn < b.lsn
    BY <1>2 DEF Dropped
  <2> QED
    BY <1>1, <2>1, Zenon
<1>3. ASSUME NEW v \in Version, Superseded(mem \cup vs, v, h0)
      PROVE  Superseded(kept, v, h1)
  <2>1. PICK b \in mem \cup vs : b.page = v.page /\ IsBase(b) /\ v.lsn < b.lsn /\ b.lsn <= h0
    BY <1>3 DEF Superseded
  <2>2. v.lsn \in Nat /\ b.lsn \in Nat
    BY <2>1 DEF Version
  <2>3. CASE b \in kept
    <3>1. b.lsn <= h1
      BY <2>1, <2>2
    <3> QED
      BY <2>1, <2>3, <3>1 DEF Superseded
  <2>4. CASE b \in Dropped(vs, h)
    <3>1. PICK c \in vs : c.page = b.page /\ IsBase(c) /\ c.lsn <= h /\ b.lsn < c.lsn
      BY <2>4 DEF Dropped
    <3>2. c.lsn \in Nat
      BY <3>1 DEF Version
    <3>3. v.lsn < c.lsn /\ c.page = v.page
      BY <2>1, <2>2, <3>1, <3>2
    <3> QED
      BY <1>1, <3>1, <3>3, Zenon
  <2> QED
    BY <2>1, <2>3, <2>4
<1> QED
  BY <1>2, <1>3

\* A step that leaves the repositories alone keeps the invariant.
LEMMA KeepFrame ==
    ASSUME KeepInv, UNCHANGED <<memtable, layers, horizon, hist>>
    PROVE  KeepInv'
<1>1. \A t : Stored(t)' = Stored(t)
  BY DEF Stored
<1> QED
  BY <1>1 DEF KeepInv, Superseded

\* Ingest adds a record's versions to what is held, frozen or not.
LEMMA IngestStored ==
    ASSUME TlTypeOK, NEW t \in Timeline, NEW l \in Lsn, NEW vs, Ingest(t, vs, l)
    PROVE  \A s \in Timeline : Stored(s)' = IF s = t THEN Stored(s) \cup vs ELSE Stored(s)
<1> SUFFICES ASSUME NEW s \in Timeline
             PROVE  Stored(s)' = IF s = t THEN Stored(s) \cup vs ELSE Stored(s)
  OBVIOUS
<1>1. CASE /\ memtable' = [memtable EXCEPT ![t] = @ \cup vs]
           /\ UNCHANGED <<layers, next_layer_id>>
  <2>1. memtable'[s] = IF s = t THEN memtable[s] \cup vs ELSE memtable[s]
    BY <1>1, Zenon DEF TlTypeOK
  <2> QED
    BY <1>1, <2>1 DEF Stored
<1>2. CASE \E first \in SUBSET vs : Freeze(t, memtable[t] \cup first, vs \ first)
  <2>1. PICK first \in SUBSET vs : Freeze(t, memtable[t] \cup first, vs \ first)
    BY <1>2, Zenon
  <2> DEFINE y == [id |-> next_layer_id[t], entries |-> memtable[t] \cup first]
  <2>2. y.entries = memtable[t] \cup first
    OBVIOUS
  <2>3. layers' = [layers EXCEPT ![t] = @ \cup {y}]
    BY <2>1 DEF Freeze, FreshId
  <2> HIDE DEF y
  <2>4. layers'[s] = IF s = t THEN layers[s] \cup {y} ELSE layers[s]
    BY <2>3, Zenon DEF TlTypeOK
  <2>5. memtable'[s] = IF s = t THEN vs \ first ELSE memtable[s]
    BY <2>1 DEF Freeze, TlTypeOK
  <2> DEFINE old == UNION {z.entries : z \in layers[s]}
             new == UNION {z.entries : z \in layers'[s]}
  <2>6. new = IF s = t THEN old \cup memtable[t] \cup first ELSE old
    BY <2>2, <2>4
  <2> HIDE DEF old, new
  <2>7. memtable'[s] \cup new = IF s = t THEN (memtable[s] \cup old) \cup vs ELSE memtable[s] \cup old
    BY <2>5, <2>6
  <2> QED
    BY <2>7 DEF Stored, old, new
<1> QED
  BY <1>1, <1>2, Zenon DEF Ingest

LEMMA IngestKeeps ==
    ASSUME TlTypeOK, KeepInv, NEW t \in Timeline, NEW l \in Lsn, NEW vs, Ingest(t, vs, l)
    PROVE  KeepInv'
<1>1. \A s \in Timeline : Stored(s)' = IF s = t THEN Stored(s) \cup vs ELSE Stored(s)
  BY IngestStored
<1>2. /\ \A s \in Timeline : hist'[s] = IF s = t THEN hist[s] \cup vs ELSE hist[s]
      /\ horizon' = horizon
  BY Zenon DEF Ingest, TlTypeOK
<1>3. ASSUME NEW s \in Timeline
      PROVE  /\ Stored(s)' \subseteq hist'[s]
             /\ \A v \in hist'[s] : v \in Stored(s)' \/ Superseded(Stored(s)', v, horizon'[s])
  <2>1. /\ Stored(s) \subseteq hist[s]
        /\ \A v \in hist[s] : v \in Stored(s) \/ Superseded(Stored(s), v, horizon[s])
    BY DEF KeepInv
  <2>2. Stored(s) \subseteq Stored(s)'
    BY <1>1
  <2>3. \A v : Superseded(Stored(s), v, horizon[s]) => Superseded(Stored(s)', v, horizon'[s])
    BY <1>2, <2>2 DEF Superseded
  <2> QED
    BY <1>1, <1>2, <2>1, <2>3, Zenon
<1> QED
  BY <1>3 DEF KeepInv

\* What a compaction leaves in a repository.
LEMMA CompactStored ==
    ASSUME TlTypeOK, NEW t \in Timeline, NEW h \in Lsn, Compact(t, h), layers[t] # {}
    PROVE  LET merged == UNION {y.entries : y \in layers[t]}
           IN  /\ Stored(t)' = memtable[t] \cup (merged \ Dropped(merged, h))
               /\ \A s \in Timeline \ {t} : Stored(s)' = Stored(s)
               /\ horizon' = [horizon EXCEPT ![t] = IF h > @ THEN h ELSE @]
<1> DEFINE merged == UNION {y.entries : y \in layers[t]}
           kept == merged \ Dropped(merged, h)
           y == [id |-> next_layer_id[t], entries |-> kept]
<1>1. /\ layers' = [layers EXCEPT ![t] = {y}]
      /\ horizon' = [horizon EXCEPT ![t] = IF h > @ THEN h ELSE @]
      /\ memtable' = memtable
  BY Zenon DEF Compact, FreshId
<1>2. y.entries = kept
  OBVIOUS
<1> HIDE DEF y, kept
<1>3. layers'[t] = {y} /\ \A s \in Timeline \ {t} : layers'[s] = layers[s]
  BY <1>1 DEF TlTypeOK
<1>4. Stored(t)' = memtable[t] \cup kept
  BY <1>1, <1>2, <1>3 DEF Stored
<1>5. \A s \in Timeline \ {t} : Stored(s)' = Stored(s)
  BY <1>1, <1>3 DEF Stored
<1> QED
  BY <1>1, <1>4, <1>5 DEF kept

LEMMA CompactKeepInv ==
    ASSUME TlTypeOK, KeepInv, NEW t \in Timeline, NEW h \in Lsn, Compact(t, h), hist' = hist
    PROVE  KeepInv'
<1>1. CASE layers[t] = {}
  BY <1>1, KeepFrame DEF Compact, repoVars
<1>2. CASE layers[t] # {}
  <2> DEFINE merged == UNION {y.entries : y \in layers[t]}
             h1 == IF h > horizon[t] THEN h ELSE horizon[t]
  <2>1. /\ merged \in SUBSET Version /\ memtable[t] \in SUBSET Version
        /\ hist[t] \in SUBSET Version /\ horizon[t] \in Lsn
    BY DEF TlTypeOK, Layer
  <2>2. h1 \in Lsn /\ horizon[t] <= h1 /\ h <= h1
    BY <2>1, BoundAssumption
  <2>3. /\ memtable[t] \cup merged \subseteq hist[t]
        /\ \A v \in hist[t] : \/ v \in memtable[t] \cup merged
                               \/ Superseded(memtable[t] \cup merged, v, horizon[t])
    BY DEF KeepInv, Stored
  <2>4. /\ Stored(t)' = memtable[t] \cup (merged \ Dropped(merged, h))
        /\ \A s \in Timeline \ {t} : Stored(s)' = Stored(s)
        /\ horizon' = [horizon EXCEPT ![t] = h1]
    BY <1>2, CompactStored, Zenon
  <2> HIDE DEF merged, h1
  <2>5. /\ Stored(t)' \subseteq hist[t]
        /\ \A v \in hist[t] : v \in Stored(t)' \/ Superseded(Stored(t)', v, h1)
    <3> DEFINE mem == memtable[t]
               all == hist[t]
               kept == mem \cup (merged \ Dropped(merged, h))
    <3>1. \A v \in all : v \in kept \/ Superseded(kept, v, h1)
      <4> HIDE DEF mem, all
      <4>1. /\ mem \in SUBSET Version /\ all \in SUBSET Version /\ horizon[t] \in Lsn
            /\ \A v \in all : v \in mem \cup merged \/ Superseded(mem \cup merged, v, horizon[t])
        BY <2>1, <2>3 DEF mem, all
      <4> QED
        BY <2>1, <2>2, <4>1, CompactKeeps, Zenon
    <3>2. kept \subseteq hist[t]
      BY <2>3
    <3>3. Stored(t)' = kept
      BY <2>4
    <3> HIDE DEF kept
    <3> QED
      BY <3>1, <3>2, <3>3
  <2>6. horizon'[t] = h1 /\ \A s \in Timeline \ {t} : horizon'[s] = horizon[s]
    BY <2>4 DEF TlTypeOK
  <2>7. ASSUME NEW s \in Timeline
        PROVE  /\ Stored(s)' \subseteq hist'[s]
               /\ \A v \in hist'[s] : v \in Stored(s)' \/ Superseded(Stored(s)', v, horizon'[s])
    <3>1. CASE s = t
      BY <2>5, <2>6, <3>1
    <3>2. CASE s # t
      BY <2>4, <2>6, <3>2 DEF KeepInv
    <3> QED
      BY <3>1, <3>2
  <2> QED
    BY <2>7 DEF KeepInv
<1> QED
  BY <1>1, <1>2

LEMMA KeepStep == TlTypeOK /\ KeepInv /\ [TlNext]_tlVars => KeepInv'
<1> SUFFICES ASSUME TlTypeOK, KeepInv, [TlNext]_tlVars
             PROVE  KeepInv'
  OBVIOUS
<1>1. ASSUME NEW t \in Roots, CreateTimeline(t)
      PROVE  KeepInv'
  BY <1>1, KeepFrame DEF CreateTimeline, repoVars, ingestVars
<1>2. ASSUME NEW x \in Branches, NEW l \in Valid, BranchTimeline(x[1], x[2], l)
      PROVE  KeepInv'
  BY <1>2, KeepFrame DEF BranchTimeline, repoVars, ingestVars
<1>3. ASSUME NEW t \in timelines, NEW vs \in RecordsAt(Last(t) + 1), IngestNew(t, vs)
      PROVE  KeepInv'
  <2>1. t \in Timeline
    BY DEF TlTypeOK
  <2>2. Last(t) + 1 \in Lsn /\ Ingest(t, vs, Last(t) + 1)
    BY <1>3, <2>1, LastIsEnd, BoundAssumption DEF IngestNew
  <2> QED
    BY <2>1, <2>2, IngestKeeps
<1>4. ASSUME NEW t \in timelines, NEW l \in Valid, IngestAgain(t, l)
      PROVE  KeepInv'
  <2> DEFINE vs == {v \in hist[t] : v.lsn = l}
  <2>1. t \in Timeline /\ l \in Lsn /\ Ingest(t, vs, l)
    BY <1>4, BoundAssumption DEF TlTypeOK, IngestAgain
  <2> HIDE DEF vs
  <2> QED
    BY <2>1, IngestKeeps
<1>5. ASSUME NEW h \in Valid, GcBegin(h)
      PROVE  KeepInv'
  BY <1>5, KeepFrame DEF GcBegin, repoVars, ingestVars
<1>6. ASSUME NEW t \in Timeline, GcTimeline(t)
      PROVE  KeepInv'
  <2> DEFINE h == Lowest(Pinned(t, gc.horizon))
  <2>1. h \in Lsn
    BY LowestPinned DEF TlTypeOK
  <2>2. Compact(t, h) /\ hist' = hist
    BY <1>6 DEF GcTimeline, ingestVars
  <2> HIDE DEF h
  <2> QED
    BY <2>1, <2>2, CompactKeepInv
<1>7. CASE UNCHANGED tlVars
  BY <1>7, KeepFrame DEF tlVars, repoVars, ingestVars
<1> QED
  BY <1>1, <1>2, <1>3, <1>4, <1>5, <1>6, <1>7 DEF TlNext, TenantStep

LEMMA KeepImpliesHistoryKept == TlTypeOK /\ KeepInv => HistoryKept
<1> SUFFICES ASSUME TlTypeOK, KeepInv,
                    NEW t \in Timeline, NEW p \in Block, NEW l \in horizon[t]..MaxLsn
             PROVE  GetPage(Stored(t), p, l) = GetPage(hist[t], p, l)
  BY DEF HistoryKept
<1>1. /\ horizon[t] \in Lsn /\ l \in Lsn /\ horizon[t] <= l
      /\ hist[t] \in SUBSET Version
  BY BoundAssumption DEF TlTypeOK
<1>2. /\ Stored(t) \in SUBSET hist[t]
      /\ \A v \in hist[t] : v \in Stored(t) \/ Superseded(Stored(t), v, horizon[t])
  BY DEF KeepInv
<1> QED
  BY <1>1, <1>2, SameRebuild

LEMMA KeepAlways == TlSpec => [](TlTypeOK /\ KeepInv)
<1>1. TlInit => KeepInv
  BY DEF TlInit, KeepInv, Stored
<1> QED
  BY <1>1, TlTypeInit, TlTypeStep, KeepStep, PTL DEF TlSpec

(***************************************************************************)
(* Compaction and gc never lose a page at or above the horizon, for any    *)
(* set of timelines and records, in any order of records, freezes,         *)
(* branchings and gcs (Repository::compact, Tenant::gc).                   *)
(***************************************************************************)
THEOREM HistoryAlwaysKept == TlSpec => []HistoryKept
BY KeepAlways, KeepImpliesHistoryKept, PTL
-----------------------------------------------------------------------------
(***************************************************************************)
(* The inductive form of BranchPointsPinned: a timeline has a parent only  *)
(* once it exists, and only existing timelines are whole.                  *)
(***************************************************************************)
PinInv ==
    /\ whole \subseteq timelines
    /\ \A t \in Timeline \ timelines : parent[t] = None
    /\ BranchPointsPinned

LEMMA PinFrame ==
    ASSUME PinInv, UNCHANGED <<branchVars, horizon>>
    PROVE  PinInv'
  BY DEF PinInv, BranchPointsPinned, branchVars

LEMMA PinStep == TlTypeOK /\ PinInv /\ [TlNext]_tlVars => PinInv'
<1> SUFFICES ASSUME TlTypeOK, PinInv, [TlNext]_tlVars
             PROVE  PinInv'
  OBVIOUS
<1>1. ASSUME NEW t \in Roots, CreateTimeline(t)
      PROVE  PinInv'
  <2>1. t \in Timeline /\ parent[t] = None
    BY <1>1, TimelineAssumption DEF CreateTimeline, PinInv
  <2> QED
    BY <1>1, <2>1 DEF CreateTimeline, PinInv, BranchPointsPinned, repoVars
<1>2. ASSUME NEW x \in Branches, NEW l \in Valid, BranchTimeline(x[1], x[2], l)
      PROVE  PinInv'
  <2> DEFINE t == x[1]
             p == x[2]
  <2>1. t \in Timeline /\ p \in Timeline /\ BranchTimeline(t, p, l)
    BY <1>2, TimelineAssumption
  <2> HIDE DEF t, p
  <2>2. /\ \A s \in Timeline : parent'[s] = IF s = t THEN p ELSE parent[s]
        /\ \A s \in Timeline : ancestor_lsn'[s] = IF s = t THEN l ELSE ancestor_lsn[s]
        /\ horizon' = horizon
        /\ timelines' = timelines \cup {t} /\ t \notin timelines
        /\ whole' \subseteq whole \cup {t}
        /\ t \in whole' => t \in whole \/ horizon[p] <= l
    BY <2>1 DEF BranchTimeline, TlTypeOK, repoVars
  <2>3. t \notin whole
    BY <2>2 DEF PinInv
  <2>4. BranchPointsPinned'
    <3> SUFFICES ASSUME NEW s \in whole', parent'[s] # None
                 PROVE  horizon'[parent'[s]] <= ancestor_lsn'[s]
      BY DEF BranchPointsPinned
    <3>1. s \in Timeline
      BY <2>1, <2>2 DEF TlTypeOK
    <3>2. CASE s = t
      BY <2>2, <2>3, <3>1, <3>2
    <3>3. CASE s # t
      BY <2>2, <3>1, <3>3 DEF PinInv, BranchPointsPinned
    <3> QED
      BY <3>2, <3>3
  <2> QED
    BY <2>2, <2>4 DEF PinInv
<1>3. ASSUME NEW t \in timelines, NEW vs, NEW l, Ingest(t, vs, l)
      PROVE  PinInv'
  BY <1>3, PinFrame DEF Ingest
<1>4. ASSUME NEW h \in Valid, GcBegin(h)
      PROVE  PinInv'
  BY <1>4, PinFrame DEF GcBegin, repoVars
<1>5. ASSUME NEW t \in Timeline, GcTimeline(t)
      PROVE  PinInv'
  <2> DEFINE h == Lowest(Pinned(t, gc.horizon))
  <2>1. h \in Lsn /\ \A c \in timelines : parent[c] = t => h <= ancestor_lsn[c]
    BY LowestPinned DEF TlTypeOK
  <2>2. Compact(t, h) /\ UNCHANGED branchVars
    BY <1>5 DEF GcTimeline
  <2> HIDE DEF h
  <2>3. CASE horizon' = horizon
    BY <2>2, <2>3, PinFrame
  <2>4. CASE horizon' = [horizon EXCEPT ![t] = IF h > @ THEN h ELSE @]
    <3>1. ASSUME NEW s \in whole, parent[s] # None
          PROVE  horizon'[parent[s]] <= ancestor_lsn[s]
      <4>1. parent[s] \in Timeline /\ s \in timelines /\ horizon[parent[s]] <= ancestor_lsn[s]
        BY <3>1 DEF PinInv, BranchPointsPinned, TlTypeOK
      <4>2. CASE parent[s] = t
        BY <2>1, <2>4, <4>1, <4>2, Zenon DEF TlTypeOK
      <4>3. CASE parent[s] # t
        BY <2>4, <4>1, <4>3 DEF TlTypeOK
      <4> QED
        BY <4>2, <4>3
    <3> QED
      BY <2>2, <3>1 DEF PinInv, BranchPointsPinned, branchVars
  <2> QED
    BY <2>2, <2>3, <2>4 DEF Compact, repoVars
<1>6. CASE UNCHANGED tlVars
  BY <1>6, PinFrame DEF tlVars, repoVars
<1> QED
  BY <1>1, <1>2, <1>3, <1>4, <1>5, <1>6, Zenon DEF TlNext, TenantStep, IngestNew, IngestAgain

LEMMA PinAlways == TlSpec => []PinInv
<1>1. TlInit => PinInv
  BY DEF TlInit, PinInv, BranchPointsPinned
<1> QED
  BY <1>1, TlTypeInit, TlTypeStep, PinStep, PTL DEF TlSpec

(***************************************************************************)
(* For every tree of timelines and every order of branchings and gcs, a    *)
(* branch that found its branch point in the parent keeps it (Tenant::gc). *)
(***************************************************************************)
THEOREM BranchPointsAlwaysPinned == TlSpec => []BranchPointsPinned
<1>1. PinInv => BranchPointsPinned
  BY DEF PinInv
<1> QED
  BY <1>1, PinAlways, PTL
-----------------------------------------------------------------------------
(***************************************************************************)
(* The inductive form of SizesCoverPages: a size is recorded at the LSNs   *)
(* of records and only there, covers the record, and never shrinks.        *)
(***************************************************************************)
SizesOf(sizes, all) ==
    /\ \A v \in all : v.page < sizes[v.lsn]
    /\ \A k \in Lsn : sizes[k] > 0 => \E v \in all : v.lsn = k
    /\ \A j, k \in Lsn : j <= k /\ sizes[j] > 0 /\ sizes[k] > 0 => sizes[j] <= sizes[k]

SizeInv == \A t \in Timeline : SizesOf(rel_sizes[t], hist[t])

\* A size at l that lies between those before and after it, and covers the
\* versions added there.
LEMMA SizesUpdate ==
    ASSUME NEW sizes \in [Lsn -> 0..(MaxBlock + 1)], NEW all \in SUBSET Version,
           SizesOf(sizes, all),
           NEW l \in Lsn, NEW vs \in SUBSET Version, vs # {}, NEW n \in 0..(MaxBlock + 1),
           \A v \in vs : v.lsn = l /\ v.page < n,
           sizes[l] <= n,
           \A j \in Lsn : j <= l /\ sizes[j] > 0 => sizes[j] <= n,
           \A k \in Lsn : l <= k /\ sizes[k] > 0 => n <= sizes[k]
    PROVE  SizesOf([sizes EXCEPT ![l] = n], all \cup vs)
<1> DEFINE new == [sizes EXCEPT ![l] = n]
<1>1. new[l] = n /\ \A k \in Lsn \ {l} : new[k] = sizes[k]
  OBVIOUS
<1>2. \A k \in Lsn : sizes[k] \in Nat /\ new[k] \in Nat /\ sizes[k] <= new[k]
  BY BoundAssumption
<1> HIDE DEF new
<1>3. \A v \in all \cup vs : v.page < new[v.lsn]
  <2>1. \A v \in vs : v.page < new[v.lsn]
    BY <1>1
  <2>2. ASSUME NEW v \in all
        PROVE  v.page < new[v.lsn]
    <3>1. v.lsn \in Lsn /\ v.page \in Nat
      BY DEF Version
    <3>2. v.page < sizes[v.lsn]
      BY DEF SizesOf
    <3> QED
      BY <1>2, <3>1, <3>2
  <2> QED
    BY <2>1, <2>2
<1>4. \A k \in Lsn : new[k] > 0 => \E v \in all \cup vs : v.lsn = k
  BY <1>1 DEF SizesOf
<1>5. ASSUME NEW j \in Lsn, NEW k \in Lsn, j <= k, new[j] > 0, new[k] > 0
      PROVE  new[j] <= new[k]
  <2>1. CASE j = l /\ k = l
    BY <1>1, <2>1
  <2>2. CASE j = l /\ k # l
    BY <1>1, <1>5, <2>2
  <2>3. CASE j # l /\ k = l
    BY <1>1, <1>5, <2>3
  <2>4. CASE j # l /\ k # l
    BY <1>1, <1>5, <2>4 DEF SizesOf
  <2> QED
    BY <2>1, <2>2, <2>3, <2>4
<1>6. SizesOf(new, all \cup vs)
  BY <1>3, <1>4, <1>5 DEF SizesOf
<1> QED
  BY <1>6 DEF new

\* The size in force at an LSN is the largest recorded until then.
LEMMA SizeInForce ==
    ASSUME NEW sizes \in [Lsn -> 0..(MaxBlock + 1)], NEW all, SizesOf(sizes, all), NEW l \in Lsn
    PROVE  /\ SizeAt(sizes, l) \in 0..(MaxBlock + 1)
           /\ \A j \in Lsn : j <= l => sizes[j] <= SizeAt(sizes, l)
           /\ sizes[l] > 0 => SizeAt(sizes, l) = sizes[l]
<1>1. \A k \in Lsn : sizes[k] \in 0..(MaxBlock + 1)
  OBVIOUS
<1>2. CASE /\ SizeAt(sizes, l) = 0
           /\ \A k \in Lsn : k <= l => sizes[k] = 0
  BY <1>2, BoundAssumption
<1>3. CASE \E k \in Lsn : /\ k <= l /\ sizes[k] > 0
                          /\ SizeAt(sizes, l) = sizes[k]
                          /\ \A j \in Lsn : j <= l /\ sizes[j] > 0 => j <= k
  <2>1. PICK k \in Lsn : /\ k <= l /\ sizes[k] > 0
                         /\ SizeAt(sizes, l) = sizes[k]
                         /\ \A j \in Lsn : j <= l /\ sizes[j] > 0 => j <= k
    BY <1>3
  <2>2. ASSUME NEW j \in Lsn, j <= l
        PROVE  sizes[j] <= sizes[k]
    <3>1. CASE sizes[j] > 0
      BY <2>1, <2>2, <3>1 DEF SizesOf
    <3>2. CASE ~ (sizes[j] > 0)
      BY <1>1, <3>2, BoundAssumption
    <3> QED
      BY <3>1, <3>2
  <2>3. sizes[l] > 0 => k = l
    BY <2>1, BoundAssumption
  <2> QED
    BY <1>1, <2>1, <2>2, <2>3
<1> QED
  BY <1>2, <1>3, SizeAtLast, Zenon

\* The size an ingest records, if nothing is recorded behind l or l is the LSN
\* of versions that are held already.
LEMMA IngestSizes ==
    ASSUME TlTypeOK, SizeInv, NEW t \in Timeline, NEW l \in Lsn, NEW vs \in SUBSET Version,
           vs # {}, \A v \in vs : v.lsn = l, Ingest(t, vs, l),
           (\A v \in hist[t] : v.lsn < l) \/ vs \subseteq hist[t]
    PROVE  SizeInv'
<1> DEFINE sizes == rel_sizes[t]
           b == HighestBlock(vs)
           n == SizeWith(SizeAt(sizes, l), b)
<1>1. sizes \in [Lsn -> 0..(MaxBlock + 1)] /\ hist[t] \in SUBSET Version
  BY DEF TlTypeOK
<1>2. SizesOf(sizes, hist[t])
  BY DEF SizeInv
<1>3. b \in 0..MaxBlock /\ \A v \in vs : v.page <= b
  BY HighestIsBlock
<1>4. n \in 0..(MaxBlock + 1)
  BY SizeWithType
<1>5. /\ \A s \in Timeline \ {t} : rel_sizes'[s] = rel_sizes[s] /\ hist'[s] = hist[s]
      /\ rel_sizes'[t] = [sizes EXCEPT ![l] = n]
      /\ hist'[t] = hist[t] \cup vs
  BY DEF Ingest, TlTypeOK
<1> HIDE DEF sizes, b
<1>6. /\ SizeAt(sizes, l) \in 0..(MaxBlock + 1)
      /\ \A j \in Lsn : j <= l => sizes[j] <= SizeAt(sizes, l)
      /\ sizes[l] > 0 => SizeAt(sizes, l) = sizes[l]
  BY <1>1, <1>2, SizeInForce, Zenon
<1>7. SizeAt(sizes, l) <= n /\ b < n /\ (n = SizeAt(sizes, l) \/ n = b + 1)
  BY <1>3, <1>6, BoundAssumption DEF SizeWith
<1> HIDE DEF n
<1>8. \A v \in vs : v.lsn = l /\ v.page < n
  <2>1. \A v \in vs : v.page \in Nat
    BY DEF Version
  <2> QED
    BY <1>3, <1>4, <1>7, <2>1
<1>9. \A j \in Lsn : j <= l => sizes[j] <= n
  <2>1. \A j \in Lsn : sizes[j] \in Nat
    BY <1>1, BoundAssumption
  <2> QED
    BY <1>4, <1>6, <1>7, <2>1
<1>10. \A k \in Lsn : l <= k /\ sizes[k] > 0 => n <= sizes[k]
  <2>1. CASE \A v \in hist[t] : v.lsn < l
    <3>1. ASSUME NEW k \in Lsn, l <= k, sizes[k] > 0
          PROVE  FALSE
      <4>1. PICK v \in hist[t] : v.lsn = k
        BY <1>2, <3>1 DEF SizesOf
      <4> QED
        BY <2>1, <3>1, <4>1
    <3> QED
      BY <3>1
  <2>2. CASE vs \subseteq hist[t]
    <3>1. PICK v \in vs : v.page = b
      BY HighestIsBlock DEF b
    <3>2. b < sizes[l]
      BY <1>2, <2>2, <3>1 DEF SizesOf
    <3>3. sizes[l] \in Nat /\ sizes[l] > 0
      BY <1>1, <1>3, <3>2, BoundAssumption
    <3>4. n <= sizes[l]
      BY <1>3, <1>6, <1>7, <3>2, <3>3
    <3>5. \A k \in Lsn : l <= k /\ sizes[k] > 0 => sizes[l] <= sizes[k]
      BY <1>2, <3>3 DEF SizesOf
    <3>6. \A k \in Lsn : sizes[k] \in Nat
      BY <1>1, BoundAssumption
    <3> QED
      BY <1>4, <3>3, <3>4, <3>5, <3>6
  <2> QED
    BY <2>1, <2>2
<1>11. SizesOf([sizes EXCEPT ![l] = n], hist[t] \cup vs)
  <2> DEFINE all == hist[t]
  <2>1. all \in SUBSET Version /\ SizesOf(sizes, all)
    BY <1>1, <1>2
  <2>2. sizes[l] <= n
    BY <1>9, BoundAssumption
  <2>3. \A j \in Lsn : j <= l /\ sizes[j] > 0 => sizes[j] <= n
    BY <1>9
  <2> HIDE DEF all
  <2>4. SizesOf([sizes EXCEPT ![l] = n], all \cup vs)
    BY <1>1, <1>4, <1>8, <1>10, <2>1, <2>2, <2>3, SizesUpdate, Zenon
  <2> QED
    BY <2>4 DEF all
<1>12. ASSUME NEW s \in Timeline
       PROVE  SizesOf(rel_sizes'[s], hist'[s])
  BY <1>5, <1>11, Zenon DEF SizeInv
<1> QED
  BY <1>12 DEF SizeInv

LEMMA SizeStep == TlTypeOK /\ SizeInv /\ [TlNext]_tlVars => SizeInv'
<1> SUFFICES ASSUME TlTypeOK, SizeInv, [TlNext]_tlVars
             PROVE  SizeInv'
  OBVIOUS
<1>1. ASSUME NEW t \in timelines, NEW vs \in RecordsAt(Last(t) + 1), IngestNew(t, vs)
      PROVE  SizeInv'
  <2>1. t \in Timeline
    BY DEF TlTypeOK
  <2>2. Last(t) \in Lsn /\ Last(t) + 1 \in Lsn /\ Ingest(t, vs, Last(t) + 1)
    <3>1. Last(t) \in Lsn
      BY <2>1, LastIsEnd
    <3>2. Last(t) < MaxLsn /\ Ingest(t, vs, Last(t) + 1)
      BY <1>1 DEF IngestNew
    <3> QED
      BY <3>1, <3>2, BoundAssumption
  <2>3. \A v \in hist[t] : v.lsn \in Nat /\ v.lsn <= Last(t)
    <3>1. hist[t] \in SUBSET Version
      BY <2>1 DEF TlTypeOK
    <3>2. \A v \in Version : v.lsn \in Nat
      BY DEF Version
    <3> QED
      BY <2>1, <3>1, <3>2, LastIsEnd
  <2>4. \A v \in hist[t] : v.lsn < Last(t) + 1
    BY <2>2, <2>3
  <2>5. vs \in SUBSET Version /\ vs # {} /\ \A v \in vs : v.lsn = Last(t) + 1
    BY <2>2, RecordVersions
  <2> QED
    BY <2>1, <2>2, <2>4, <2>5, IngestSizes
<1>2. ASSUME NEW t \in timelines, NEW l \in Valid, IngestAgain(t, l)
      PROVE  SizeInv'
  <2> DEFINE vs == {v \in hist[t] : v.lsn = l}
  <2>1. /\ t \in Timeline /\ l \in Lsn /\ vs \in SUBSET Version /\ vs # {}
        /\ Ingest(t, vs, l) /\ vs \subseteq hist[t] /\ \A v \in vs : v.lsn = l
    BY <1>2, BoundAssumption DEF TlTypeOK, IngestAgain
  <2> HIDE DEF vs
  <2> QED
    BY <2>1, IngestSizes
<1>3. CASE UNCHANGED <<rel_sizes, hist>>
  BY <1>3 DEF SizeInv
<1> QED
  BY <1>1, <1>2, <1>3 DEF TlNext, TenantStep, CreateTimeline, BranchTimeline, GcBegin, GcTimeline,
     tlVars, ingestVars

(***************************************************************************)
(* A page that can be rebuilt lies within its relation's size, whatever    *)
(* order records touch blocks in and however often a receiver sends a      *)
(* record again (Repository::ingest, get_rel_size).                        *)
(***************************************************************************)
THEOREM SizesAlwaysCoverPages == TlSpec => []SizesCoverPages
<1>1. TlInit => TlTypeOK
  BY TlTypeInit
<1>2. TlInit => SizeInv
  BY DEF TlInit, SizeInv, SizesOf
<1>3. TlTypeOK /\ SizeInv => SizesCoverPages
  <2> SUFFICES ASSUME TlTypeOK, SizeInv, NEW t \in Timeline, NEW l \in Lsn, NEW p \in Block,
                      GetPage(hist[t], p, l) # NotFound
               PROVE  p < SizeAt(rel_sizes[t], l)
    BY DEF SizesCoverPages
  <2>1. PICK v \in hist[t] : v.page = p /\ v.lsn <= l
    BY DEF GetPage, Rebuild, Upto, NotFound
  <2> DEFINE sizes == rel_sizes[t]
  <2>2. /\ sizes \in [Lsn -> 0..(MaxBlock + 1)] /\ v.lsn \in Lsn
        /\ SizesOf(sizes, hist[t]) /\ p < sizes[v.lsn]
    <3>1. sizes \in [Lsn -> 0..(MaxBlock + 1)] /\ hist[t] \in SUBSET Version
      BY DEF TlTypeOK
    <3>2. v.lsn \in Lsn
      BY <3>1 DEF Version
    <3>3. SizesOf(sizes, hist[t])
      BY DEF SizeInv
    <3>4. v.page < sizes[v.lsn]
      BY <3>3 DEF SizesOf
    <3> QED
      BY <2>1, <3>1, <3>2, <3>3, <3>4
  <2> HIDE DEF sizes
  <2>3. /\ SizeAt(sizes, l) \in 0..(MaxBlock + 1)
        /\ \A j \in Lsn : j <= l => sizes[j] <= SizeAt(sizes, l)
    BY <2>2, SizeInForce, Zenon
  <2>4. sizes[v.lsn] \in Nat
    BY <2>2, BoundAssumption
  <2>5. sizes[v.lsn] <= SizeAt(sizes, l) /\ SizeAt(sizes, l) \in Nat
    BY <2>1, <2>2, <2>3, BoundAssumption
  <2>6. p < SizeAt(sizes, l)
    BY <2>2, <2>4, <2>5
  <2> QED
    BY <2>6, Zenon DEF sizes
<1> QED
  BY <1>1, <1>2, <1>3, TlTypeStep, SizeStep, PTL DEF TlSpec

-----------------------------------------------------------------------------
(***************************************************************************)
(* The object store, whatever order the steps of the offload worker, of    *)
(* the gc command and of the tenant come in.                               *)
(***************************************************************************)
HIDE DEF Lsn, Valid, Block

\* The worker and the gc command only add to what the tenant does.
LEMMA OffloadStep == [OfNext]_ofVars => [TlNext]_tlVars
<1> SUFFICES ASSUME [OfNext]_ofVars PROVE [TlNext]_tlVars
  OBVIOUS
<1>1. CASE TenantStep
  BY <1>1 DEF TlNext
<1>2. CASE Worker
  BY <1>2, Zenon DEF Worker, BeginPass, VisitTimeline, PutLayer, PutFails, MarkUploaded, EndPass
<1>3. ASSUME NEW t \in Timeline, OfGcTimeline(t) PROVE TlNext
  BY <1>3 DEF OfGcTimeline, TlNext
<1>4. ASSUME NEW x \in doomed, DeleteObject(x) \/ DeleteFails(x) PROVE UNCHANGED tlVars
  BY <1>4 DEF DeleteObject, DeleteFails
<1>5. CASE UNCHANGED ofVars
  BY <1>5 DEF ofVars
<1> QED
  BY <1>1, <1>2, <1>3, <1>4, <1>5 DEF OfNext, Collector

\* So what holds of the tenant holds beside them.
LEMMA OffloadIsTenant == OfSpec => TlSpec
<1>1. OfInit => TlInit
  BY DEF OfInit
<1> QED
  BY <1>1, OffloadStep, PTL DEF OfSpec, TlSpec

-----------------------------------------------------------------------------
\* The worker has layers in hand only while it is at a timeline.
AtTimeline == worker.tl = None => worker.pending = {} /\ worker.put = {}

LEMMA AtTimelineStep == OfTypeOK /\ AtTimeline /\ [OfNext]_ofVars => AtTimeline'
<1> SUFFICES ASSUME OfTypeOK, AtTimeline, [OfNext]_ofVars PROVE AtTimeline'
  OBVIOUS
<1>1. CASE UNCHANGED worker
  BY <1>1 DEF AtTimeline
<1>2. CASE BeginPass
  BY <1>2 DEF BeginPass, Resting, AtTimeline
<1>3. ASSUME NEW t \in Timeline, VisitTimeline(t) PROVE AtTimeline'
  BY <1>3, TimelineAssumption DEF VisitTimeline, AtTimeline
<1>4. ASSUME NEW y \in worker.pending, PutLayer(y) \/ PutFails(y) PROVE AtTimeline'
  BY <1>4 DEF PutLayer, PutFails, AtTimeline, OfTypeOK
<1>5. CASE MarkUploaded
  BY <1>5 DEF MarkUploaded, AtTimeline, OfTypeOK
<1>6. CASE EndPass
  BY <1>6 DEF EndPass, AtTimeline, Resting
<1>7. CASE Collector
  BY <1>1, <1>7, Zenon DEF Collector, OfGcTimeline, DeleteObject, DeleteFails
<1> QED
  BY <1>1, <1>2, <1>3, <1>4, <1>5, <1>6, <1>7 DEF OfNext, Worker, ofVars, offloadVars

\* Every step keeps the types.
LEMMA OfTypeStep == OfTypeOK /\ AtTimeline /\ [OfNext]_ofVars => OfTypeOK'
<1> SUFFICES ASSUME OfTypeOK, AtTimeline, [OfNext]_ofVars PROVE OfTypeOK'
  OBVIOUS
<1>0. TlTypeOK'
  BY OffloadStep, TlTypeStep DEF OfTypeOK
<1>1. CASE TenantStep /\ UNCHANGED offloadVars
  BY <1>0, <1>1 DEF OfTypeOK, offloadVars
<1>2. CASE BeginPass
  <2>1. worker' = [todo |-> timelines, tl |-> None, pending |-> {}, put |-> {}]
    BY <1>2 DEF BeginPass, Resting
  <2>2. timelines \subseteq Timeline
    BY DEF OfTypeOK, TlTypeOK
  <2> QED
    BY <1>0, <1>2, <2>1, <2>2 DEF BeginPass, OfTypeOK
<1>3. ASSUME NEW t \in Timeline, VisitTimeline(t) PROVE OfTypeOK'
  <2>1. Pending(t) \subseteq Layer
    BY DEF OfTypeOK, TlTypeOK, Pending
  <2>2. worker.todo \subseteq Timeline
    BY DEF OfTypeOK
  <2> QED
    BY <1>0, <1>3, <2>1, <2>2 DEF VisitTimeline, OfTypeOK
<1>4. ASSUME NEW y \in worker.pending, PutLayer(y) PROVE OfTypeOK'
  <2>1. y \in Layer /\ y.id \in Nat
    BY DEF OfTypeOK, Layer
  <2>2. worker' \in [todo : SUBSET Timeline, tl : Timeline \cup {None},
                     pending : SUBSET Layer, put : SUBSET Nat]
    BY <1>4, <2>1 DEF PutLayer, OfTypeOK
  <2>3. worker.tl \in Timeline
    BY DEF OfTypeOK, AtTimeline
  <2>4. DOMAIN objects' = DOMAIN objects \cup {y.id}
        /\ \A k \in DOMAIN objects' : objects'[k] = IF k = y.id THEN <<worker.tl, y>> ELSE objects[k]
    BY <1>4 DEF PutLayer, LayerKey
  <2> QED
    BY <1>0, <1>4, <2>1, <2>2, <2>3, <2>4 DEF PutLayer, OfTypeOK
<1>5. ASSUME NEW y \in worker.pending, PutFails(y) PROVE OfTypeOK'
  <2>1. failures' \in 0..MaxFailures
    BY <1>5, FailureAssumption DEF PutFails, OfTypeOK
  <2> QED
    BY <1>0, <1>5, <2>1 DEF PutFails, OfTypeOK
<1>6. CASE MarkUploaded
  BY <1>0, <1>6, Zenon DEF MarkUploaded, OfTypeOK
<1>7. CASE EndPass
  BY <1>0, <1>7 DEF EndPass, OfTypeOK, Resting
<1>8. ASSUME NEW t \in Timeline, OfGcTimeline(t) PROVE OfTypeOK'
  <2>1. {y.id : y \in layers[t]} \subseteq Nat
    BY DEF OfTypeOK, TlTypeOK, Layer
  <2> QED
    BY <1>0, <1>8, <2>1 DEF OfGcTimeline, OfTypeOK
<1>9. ASSUME NEW x \in doomed, DeleteObject(x) PROVE OfTypeOK'
  BY <1>0, <1>9 DEF DeleteObject, OfTypeOK
<1>10. ASSUME NEW x \in doomed, DeleteFails(x) PROVE OfTypeOK'
  <2>1. failures' \in 0..MaxFailures
    BY <1>10, FailureAssumption DEF DeleteFails, OfTypeOK
  <2> QED
    BY <1>0, <1>10, <2>1 DEF DeleteFails, OfTypeOK
<1>11. CASE UNCHANGED ofVars
  BY <1>0, <1>11 DEF ofVars, offloadVars, OfTypeOK
<1> QED
  BY <1>1, <1>2, <1>3, <1>4, <1>5, <1>6, <1>7, <1>8, <1>9, <1>10, <1>11
     DEF OfNext, Worker, Collector

(***************************************************************************)
(* The worker and the store keep their types beside any tenant.            *)
(***************************************************************************)
THEOREM OfTypeCorrect == OfSpec => []OfTypeOK
<1>1. OfInit => OfTypeOK
  <2> SUFFICES ASSUME OfInit PROVE OfTypeOK
    OBVIOUS
  <2>1. TlTypeOK
    BY TlTypeInit DEF OfInit
  <2> QED
    BY <2>1, WorkerInit
<1>2. OfInit => AtTimeline
  BY DEF OfInit, AtTimeline, Resting
<1> QED
  BY <1>1, <1>2, OfTypeStep, AtTimelineStep, PTL DEF OfSpec

-----------------------------------------------------------------------------
\* A repository never gives two layers the same number, and what the worker,
\* the collector or the set of uploads knows is a number it has given.
IdInv ==
    /\ \A t \in Timeline :
          /\ \A y \in layers[t] : y.id < next_layer_id[t]
          /\ \A y, z \in layers[t] : y.id = z.id => y = z
          /\ \A id \in uploaded[t] : id < next_layer_id[t]
    /\ \A x \in doomed : x[2] < next_layer_id[x[1]] /\ \A y \in layers[x[1]] : y.id # x[2]

\* The layers the worker took from its snapshot may be gone, but no other
\* layer has taken their place.
WorkerInv ==
    worker.tl # None =>
        /\ \A y \in worker.pending :
              /\ y.id < next_layer_id[worker.tl]
              /\ \A z \in layers[worker.tl] : z.id = y.id => z = y
        /\ \A id \in worker.put : id < next_layer_id[worker.tl]

\* A layer that is marked, or about to be, is in the store.
StoredInv ==
    \A t \in Timeline : \A y \in layers[t] :
        y.id \in uploaded[t] \/ (worker.tl = t /\ y.id \in worker.put) =>
            LayerKey(t, y.id) \in DOMAIN objects /\ objects[LayerKey(t, y.id)] = <<t, y>>

UploadInv == OfTypeOK /\ AtTimeline /\ IdInv /\ WorkerInv /\ StoredInv

\* What a step of the tenant may do to the layers of a timeline: keep some
\* and add one, with the next number (freeze_locked, compact).
LayerStep(t) ==
    /\ next_layer_id'[t] \in Nat /\ next_layer_id[t] <= next_layer_id'[t]
    /\ \A y \in layers'[t] :
          y \in layers[t] \/ (y.id = next_layer_id[t] /\ next_layer_id[t] < next_layer_id'[t])
    /\ \A y, z \in layers'[t] : y \notin layers[t] /\ z \notin layers[t] => y = z

\* A number that was taken stays so, and no new layer gets it.
LEMMA NumberTaken ==
    ASSUME NEW t, LayerStep(t), next_layer_id[t] \in Nat, NEW id \in Nat, id < next_layer_id[t]
    PROVE  id < next_layer_id'[t] /\ \A y \in layers'[t] : y.id = id => y \in layers[t]
BY DEF LayerStep

LEMMA LayerFrame ==
    ASSUME TlTypeOK, UNCHANGED <<layers, next_layer_id>>, NEW t \in Timeline
    PROVE  LayerStep(t)
BY DEF TlTypeOK, LayerStep

LEMMA AddLayer ==
    ASSUME TlTypeOK, NEW t \in Timeline, NEW u \in Timeline, NEW y, NEW old \in SUBSET layers[t],
           y.id = next_layer_id[t],
           layers' = [layers EXCEPT ![t] = old \cup {y}],
           next_layer_id' = [next_layer_id EXCEPT ![t] = @ + 1]
    PROVE  LayerStep(u)
<1>1. next_layer_id[u] \in Nat
  BY DEF TlTypeOK
<1>2. CASE u # t
  <2>1. layers'[u] = layers[u] /\ next_layer_id'[u] = next_layer_id[u]
    BY <1>2 DEF TlTypeOK
  <2> QED
    BY <1>1, <2>1 DEF LayerStep
<1>3. CASE u = t
  <2>1. layers'[u] = old \cup {y} /\ next_layer_id'[u] = next_layer_id[u] + 1
    BY <1>3 DEF TlTypeOK
  <2>2. next_layer_id'[u] \in Nat /\ next_layer_id[u] < next_layer_id'[u]
    BY <1>1, <2>1
  <2> QED
    BY <1>1, <1>3, <2>1, <2>2 DEF LayerStep
<1> QED
  BY <1>2, <1>3

LEMMA IngestLayers ==
    ASSUME TlTypeOK, NEW t \in Timeline, NEW vs, NEW l, Ingest(t, vs, l), NEW u \in Timeline
    PROVE  LayerStep(u)
<1>1. CASE UNCHANGED <<layers, next_layer_id>>
  BY <1>1, LayerFrame
<1>2. ASSUME NEW frozen, NEW rest, Freeze(t, frozen, rest) PROVE LayerStep(u)
  <2> DEFINE y == [id |-> FreshId(t), entries |-> frozen]
  <2>1. /\ layers' = [layers EXCEPT ![t] = layers[t] \cup {y}]
        /\ next_layer_id' = [next_layer_id EXCEPT ![t] = @ + 1]
    BY <1>2 DEF Freeze, TlTypeOK
  <2>2. y.id = next_layer_id[t]
    BY DEF FreshId
  <2> HIDE DEF y
  <2> QED
    BY <2>1, <2>2, AddLayer, Zenon
<1> QED
  BY <1>1, <1>2, Zenon DEF Ingest

LEMMA CompactLayers ==
    ASSUME TlTypeOK, NEW t \in Timeline, NEW h, Compact(t, h), NEW u \in Timeline
    PROVE  LayerStep(u)
<1>1. CASE UNCHANGED repoVars
  BY <1>1, LayerFrame DEF repoVars
<1>2. ASSUME NEW es, layers' = [layers EXCEPT ![t] = {[id |-> FreshId(t), entries |-> es]}],
             next_layer_id' = [next_layer_id EXCEPT ![t] = @ + 1]
      PROVE  LayerStep(u)
  <2> DEFINE y == [id |-> FreshId(t), entries |-> es]
  <2>1. layers' = [layers EXCEPT ![t] = {} \cup {y}]
    BY <1>2
  <2>2. y.id = next_layer_id[t]
    BY DEF FreshId
  <2> HIDE DEF y
  <2>3. PICK old \in SUBSET layers[t] : old = {}
    BY Zenon
  <2>4. layers' = [layers EXCEPT ![t] = old \cup {y}]
    BY <2>1, <2>3
  <2> QED
    BY <1>2, <2>2, <2>4, AddLayer, Zenon
<1> QED
  BY <1>1, <1>2, Zenon DEF Compact

\* No step of the tenant gives a number twice.
LEMMA NumbersFresh ==
    ASSUME TlTypeOK, [TlNext]_tlVars, NEW u \in Timeline
    PROVE  LayerStep(u)
<1>1. CASE UNCHANGED repoVars
  BY <1>1, LayerFrame DEF repoVars
<1>2. ASSUME NEW t \in timelines, NEW vs, NEW l, Ingest(t, vs, l) PROVE LayerStep(u)
  BY <1>2, IngestLayers DEF TlTypeOK
<1>3. ASSUME NEW t \in Timeline, GcTimeline(t) PROVE LayerStep(u)
  BY <1>3, CompactLayers DEF GcTimeline
<1> QED
  BY <1>1, <1>2, <1>3, Zenon DEF TlNext, TenantStep, CreateTimeline, BranchTimeline, IngestNew,
                          IngestAgain, GcBegin, tlVars
\* A step of the tenant, with or without the forgetting of uploads that gc
\* adds to it.
LEMMA TenantKeeps ==
    ASSUME OfTypeOK, AtTimeline, IdInv, WorkerInv, StoredInv, [TlNext]_tlVars,
           UNCHANGED <<worker, objects>>,
           \A t \in Timeline : uploaded'[t] \subseteq uploaded[t],
           \A x \in doomed' : x \in doomed \/
               (/\ x[1] \in Timeline /\ x[2] \in Nat /\ x[2] < next_layer_id[x[1]]
                /\ \A y \in layers'[x[1]] : y.id # x[2])
    PROVE  IdInv' /\ WorkerInv' /\ StoredInv'
<1>1. ASSUME NEW t \in Timeline
      PROVE  /\ next_layer_id[t] \in Nat /\ next_layer_id'[t] \in Nat
             /\ next_layer_id[t] <= next_layer_id'[t]
             /\ \A y \in layers'[t] : y \notin layers[t] =>
                   y.id = next_layer_id[t] /\ next_layer_id[t] < next_layer_id'[t]
             /\ \A y, z \in layers'[t] : y \notin layers[t] /\ z \notin layers[t] => y = z
  <2>1. TlTypeOK /\ next_layer_id[t] \in Nat
    BY LayersTyped, Zenon
  <2>2. LayerStep(t)
    BY <2>1, NumbersFresh, Zenon
  <2> QED
    BY <2>1, <2>2, Zenon DEF LayerStep
<1>2. ASSUME NEW t \in Timeline, NEW id \in Nat, id < next_layer_id[t]
      PROVE  /\ id < next_layer_id'[t]
             /\ \A y \in layers'[t] : y.id = id => y \in layers[t]
  <2>1. LayerStep(t) /\ next_layer_id[t] \in Nat
    BY LayersTyped, NumbersFresh, Zenon
  <2> QED
    BY <1>2, <2>1, NumberTaken, Zenon
<1>3. ASSUME NEW t \in Timeline, NEW y \in layers[t]
      PROVE  y.id \in Nat /\ y.id < next_layer_id[t]
  BY LayersTyped, Zenon DEF IdInv
<1>4. IdInv'
  <2>1. ASSUME NEW t \in Timeline, NEW y \in layers'[t] PROVE y.id < next_layer_id'[t]
    BY <1>1, <1>2, <1>3
  <2>2. ASSUME NEW t \in Timeline, NEW y \in layers'[t], NEW z \in layers'[t], y.id = z.id
        PROVE  y = z
    <3>1. CASE y \in layers[t]
      <4>1. z \in layers[t]
        BY <1>2, <1>3, <2>2, <3>1
      <4> QED
        BY <2>2, <3>1, <4>1, Zenon DEF IdInv
    <3>2. CASE y \notin layers[t]
      <4>1. z \notin layers[t]
        BY <1>2, <1>3, <2>2, <3>2
      <4> QED
        BY <1>1, <3>2, <4>1
    <3> QED
      BY <3>1, <3>2
  <2>3. ASSUME NEW t \in Timeline, NEW id \in uploaded'[t] PROVE id < next_layer_id'[t]
    <3>1. id \in Nat /\ id < next_layer_id[t]
      BY DEF IdInv, OfTypeOK
    <3> QED
      BY <1>2, <3>1
  <2>4. ASSUME NEW x \in doomed'
        PROVE  x[2] < next_layer_id'[x[1]] /\ \A y \in layers'[x[1]] : y.id # x[2]
    <3>1. CASE x \in doomed
      <4>1. /\ x[1] \in Timeline /\ x[2] \in Nat /\ x[2] < next_layer_id[x[1]]
            /\ \A y \in layers[x[1]] : y.id # x[2]
        BY <3>1 DEF IdInv, OfTypeOK
      <4> QED
        BY <1>2, <4>1
    <3>2. CASE /\ x[1] \in Timeline /\ x[2] \in Nat /\ x[2] < next_layer_id[x[1]]
               /\ \A y \in layers'[x[1]] : y.id # x[2]
      BY <1>2, <3>2
    <3> QED
      BY <3>1, <3>2
  <2> QED
    BY <2>1, <2>2, <2>3, <2>4 DEF IdInv
<1>5. WorkerInv'
  <2> SUFFICES ASSUME worker.tl # None PROVE WorkerInv'
    BY DEF WorkerInv
  <2>1. worker.tl \in Timeline
    BY DEF OfTypeOK
  <2>2. ASSUME NEW y \in worker.pending
        PROVE  /\ y.id < next_layer_id'[worker.tl]
               /\ \A z \in layers'[worker.tl] : z.id = y.id => z = y
    <3>1. /\ y.id \in Nat /\ y.id < next_layer_id[worker.tl]
          /\ \A z \in layers[worker.tl] : z.id = y.id => z = y
      BY DEF WorkerInv, OfTypeOK, Layer
    <3> QED
      BY <1>2, <2>1, <3>1
  <2>3. ASSUME NEW id \in worker.put PROVE id < next_layer_id'[worker.tl]
    <3>1. id \in Nat /\ id < next_layer_id[worker.tl]
      BY DEF WorkerInv, OfTypeOK
    <3> QED
      BY <1>2, <2>1, <3>1
  <2> QED
    BY <2>2, <2>3 DEF WorkerInv
<1>6. StoredInv'
  <2> SUFFICES ASSUME NEW t \in Timeline, NEW y \in layers'[t],
                      y.id \in uploaded'[t] \/ (worker.tl = t /\ y.id \in worker.put)
               PROVE  LayerKey(t, y.id) \in DOMAIN objects /\ objects[LayerKey(t, y.id)] = <<t, y>>
    BY DEF StoredInv, LayerKey
  <2>1. y.id \in uploaded[t] \/ (worker.tl = t /\ y.id \in worker.put)
    OBVIOUS
  <2>2. y.id \in Nat /\ y.id < next_layer_id[t]
    BY <2>1, TimelineAssumption, Zenon DEF IdInv, WorkerInv, OfTypeOK
  <2>3. y \in layers[t]
    BY <1>2, <2>2, Zenon
  <2> QED
    BY <2>1, <2>3, Zenon DEF StoredInv
<1> QED
  BY <1>4, <1>5, <1>6
\* The compaction of one timeline by gc: the numbers it dooms were given, and
\* the merged layer has a new one.
LEMMA GcKeeps ==
    ASSUME OfTypeOK, AtTimeline, IdInv, WorkerInv, StoredInv, NEW t \in Timeline, OfGcTimeline(t)
    PROVE  IdInv' /\ WorkerInv' /\ StoredInv'
<1> DEFINE gone == {y.id : y \in layers[t]}
<1>1. /\ GcTimeline(t) /\ uploaded' = [uploaded EXCEPT ![t] = @ \ gone]
      /\ doomed' = doomed \cup ({t} \X gone) /\ UNCHANGED <<worker, objects>>
  BY DEF OfGcTimeline
<1>2. \A u \in Timeline : uploaded'[u] \subseteq uploaded[u]
  BY <1>1 DEF OfTypeOK
<1>3. ASSUME NEW id \in gone
      PROVE  id \in Nat /\ id < next_layer_id[t] /\ \A y \in layers'[t] : y.id # id
  <2>1. id \in Nat /\ id < next_layer_id[t] /\ layers[t] # {}
    BY DEF IdInv, OfTypeOK, TlTypeOK, Layer
  <2>2. ASSUME NEW y \in layers'[t] PROVE y.id = next_layer_id[t]
    BY <1>1, <2>1 DEF GcTimeline, Compact, FreshId, OfTypeOK, TlTypeOK
  <2>3. next_layer_id[t] \in Nat
    BY DEF OfTypeOK, TlTypeOK
  <2> QED
    BY <2>1, <2>2, <2>3
<1>4. ASSUME NEW x \in doomed'
      PROVE  x \in doomed \/ (/\ x[1] \in Timeline /\ x[2] \in Nat /\ x[2] < next_layer_id[x[1]]
                              /\ \A y \in layers'[x[1]] : y.id # x[2])
  <2> HIDE DEF gone
  <2>1. x \in doomed \/ (x[1] = t /\ x[2] \in gone)
    BY <1>1
  <2> QED
    BY <1>3, <2>1
<1> HIDE DEF gone
<1> QED
  BY <1>1, <1>2, <1>4, TenantKeeps DEF TlNext

\* A visit and a put: what is in hand stands for itself or for nothing.
LEMMA VisitKeeps ==
    ASSUME OfTypeOK, IdInv, StoredInv, NEW t \in Timeline, VisitTimeline(t)
    PROVE  IdInv' /\ WorkerInv' /\ StoredInv'
<1>1. /\ worker'.tl = t /\ worker'.pending = Pending(t) /\ worker'.put = {}
      /\ UNCHANGED <<layers, next_layer_id, uploaded, doomed, objects>>
  BY DEF VisitTimeline, tlVars, repoVars
<1>2. IdInv'
  BY <1>1, Zenon DEF IdInv
<1>3. WorkerInv'
  BY <1>1, Zenon DEF WorkerInv, IdInv, Pending
<1>4. StoredInv'
  BY <1>1 DEF StoredInv, LayerKey
<1> QED
  BY <1>2, <1>3, <1>4

LEMMA PutKeeps ==
    ASSUME OfTypeOK, AtTimeline, IdInv, WorkerInv, StoredInv, \A t, u \in Timeline : t = u,
           NEW y \in worker.pending, PutLayer(y)
    PROVE  IdInv' /\ WorkerInv' /\ StoredInv'
<1>1. /\ worker'.tl = worker.tl /\ worker'.pending = worker.pending \ {y}
      /\ worker'.put = {y.id} /\ worker.put = {}
      /\ UNCHANGED <<layers, next_layer_id, uploaded, doomed>>
  BY Zenon DEF PutLayer, tlVars, repoVars
<1>2. /\ DOMAIN objects' = DOMAIN objects \cup {y.id}
      /\ \A k \in DOMAIN objects' : objects'[k] = IF k = y.id THEN <<worker.tl, y>> ELSE objects[k]
  BY DEF PutLayer, LayerKey
<1>3. worker.tl \in Timeline /\ worker.tl # None
  BY LayersTyped, Zenon DEF AtTimeline
<1>4. \A z \in layers[worker.tl] : z.id = y.id => z = y
  BY <1>3 DEF WorkerInv
<1>5. IdInv'
  BY <1>1 DEF IdInv
<1>6. WorkerInv'
  BY <1>1, <1>3 DEF WorkerInv
<1>7. StoredInv'
  <2> SUFFICES ASSUME NEW t \in Timeline, NEW z \in layers[t],
                      z.id \in uploaded[t] \/ z.id = y.id
               PROVE  z.id \in DOMAIN objects' /\ objects'[z.id] = <<t, z>>
    BY <1>1 DEF StoredInv, LayerKey
  <2>1. t = worker.tl
    BY <1>3
  <2>2. CASE z.id = y.id
    BY <1>2, <1>4, <2>1, <2>2
  <2>3. CASE z.id # y.id /\ z.id \in uploaded[t]
    BY <1>2, <2>3 DEF StoredInv, LayerKey
  <2> QED
    BY <2>2, <2>3
<1> QED
  BY <1>5, <1>6, <1>7

\* The mark, after the put.
LEMMA MarkKeeps ==
    ASSUME OfTypeOK, AtTimeline, IdInv, WorkerInv, StoredInv, MarkUploaded
    PROVE  IdInv' /\ WorkerInv' /\ StoredInv'
<1>1. /\ worker'.tl = worker.tl /\ worker'.pending = worker.pending /\ worker'.put = {}
      /\ UNCHANGED <<layers, next_layer_id, doomed, objects>>
  BY DEF MarkUploaded, tlVars, repoVars, OfTypeOK
<1>2. worker.tl \in Timeline /\ worker.tl # None
  BY TimelineAssumption DEF MarkUploaded, AtTimeline, OfTypeOK
<1>3. \A t \in Timeline : uploaded'[t] = IF t = worker.tl THEN uploaded[t] \cup worker.put ELSE uploaded[t]
  BY <1>2, Zenon DEF MarkUploaded, OfTypeOK
<1>4. IdInv'
  BY <1>1, <1>2, <1>3, Zenon DEF IdInv, WorkerInv
<1>5. WorkerInv'
  BY <1>1 DEF WorkerInv
<1>6. StoredInv'
  BY <1>1, <1>3, Zenon DEF StoredInv, LayerKey
<1> QED
  BY <1>4, <1>5, <1>6

\* A delete: the number is no layer's any more.
LEMMA DeleteKeeps ==
    ASSUME OfTypeOK, IdInv, WorkerInv, StoredInv, \A t, u \in Timeline : t = u,
           NEW x \in doomed, DeleteObject(x)
    PROVE  IdInv' /\ WorkerInv' /\ StoredInv'
<1>1. /\ doomed' \subseteq doomed /\ UNCHANGED <<layers, next_layer_id, uploaded, worker>>
      /\ DOMAIN objects' = DOMAIN objects \ {x[2]}
      /\ \A k \in DOMAIN objects' : objects'[k] = objects[k]
  BY DEF DeleteObject, LayerKey, tlVars, repoVars
<1>2. x[1] \in Timeline /\ \A y \in layers[x[1]] : y.id # x[2]
  BY DEF IdInv, OfTypeOK
<1>3. IdInv'
  BY <1>1 DEF IdInv
<1>4. WorkerInv'
  BY <1>1 DEF WorkerInv
<1>5. StoredInv'
  <2> SUFFICES ASSUME NEW t \in Timeline, NEW y \in layers[t],
                      y.id \in uploaded[t] \/ (worker.tl = t /\ y.id \in worker.put)
               PROVE  y.id \in DOMAIN objects' /\ objects'[y.id] = <<t, y>>
    BY <1>1 DEF StoredInv, LayerKey
  <2>1. y.id \in DOMAIN objects /\ objects[y.id] = <<t, y>>
    BY DEF StoredInv, LayerKey
  <2>2. y.id # x[2]
    BY <1>2
  <2> QED
    BY <1>1, <2>1, <2>2
<1> QED
  BY <1>3, <1>4, <1>5
LEMMA UploadStep ==
    ASSUME \A t, u \in Timeline : t = u, UploadInv, [OfNext]_ofVars
    PROVE  UploadInv'
<1> USE DEF UploadInv
<1>0. OfTypeOK' /\ AtTimeline'
  BY OfTypeStep, AtTimelineStep
<1>1. CASE TenantStep /\ UNCHANGED offloadVars
  BY <1>0, <1>1, TenantKeeps, Zenon DEF TlNext, offloadVars
<1>2. CASE BeginPass \/ EndPass
  BY <1>0, <1>2 DEF BeginPass, EndPass, Resting, IdInv, WorkerInv, StoredInv, LayerKey, tlVars, repoVars
<1>3. ASSUME NEW t \in Timeline, VisitTimeline(t) PROVE UploadInv'
  BY <1>0, <1>3, VisitKeeps
<1>4. ASSUME NEW y \in worker.pending, PutLayer(y) PROVE UploadInv'
  BY <1>0, <1>4, PutKeeps, Zenon
<1>5. ASSUME NEW y \in worker.pending, PutFails(y) PROVE UploadInv'
  <2>1. /\ worker'.tl = worker.tl /\ worker'.pending \subseteq worker.pending
        /\ worker'.put = worker.put
        /\ UNCHANGED <<layers, next_layer_id, uploaded, doomed, objects>>
    BY <1>5 DEF PutFails, tlVars, repoVars, OfTypeOK
  <2> QED
    BY <1>0, <2>1 DEF IdInv, WorkerInv, StoredInv, LayerKey
<1>6. CASE MarkUploaded
  BY <1>0, <1>6, MarkKeeps
<1>7. ASSUME NEW t \in Timeline, OfGcTimeline(t) PROVE UploadInv'
  BY <1>0, <1>7, GcKeeps
<1>8. ASSUME NEW x \in doomed, DeleteObject(x) PROVE UploadInv'
  BY <1>0, <1>8, DeleteKeeps
<1>9. ASSUME NEW x \in doomed, DeleteFails(x) PROVE UploadInv'
  BY <1>0, <1>9, Zenon DEF DeleteFails, IdInv, WorkerInv, StoredInv, LayerKey, tlVars, repoVars
<1>10. CASE UNCHANGED ofVars
  BY <1>0, <1>10, Zenon DEF ofVars, offloadVars, tlVars, repoVars, IdInv, WorkerInv, StoredInv, LayerKey
<1> QED
  BY <1>1, <1>2, <1>3, <1>4, <1>5, <1>6, <1>7, <1>8, <1>9, <1>10, Zenon DEF OfNext, Worker, Collector

(***************************************************************************)
(* In a deployment with one timeline, a layer that counts as offloaded is  *)
(* in the object store with its contents, however the uploads, the marks,  *)
(* the deletes, gc and the ingest interleave and whatever requests fail.   *)
(* With two timelines it is not: their layers share the keys (layer_key).  *)
(***************************************************************************)
THEOREM OneTimelineUploadsStored ==
    ASSUME NEW main, Timeline = {main}
    PROVE  OfSpec => []UploadedIsStored
<1>1. OfInit => UploadInv
  <2> SUFFICES ASSUME OfInit PROVE UploadInv
    OBVIOUS
  <2>1. OfTypeOK /\ AtTimeline
    <3>1. TlTypeOK
      BY TlTypeInit DEF OfInit
    <3> QED
      BY <3>1, WorkerInit DEF AtTimeline
  <2>2. \A t \in Timeline : layers[t] = {} /\ uploaded[t] = {}
    BY DEF OfInit, TlInit
  <2>3. doomed = {} /\ worker.tl = None
    BY DEF OfInit, Resting
  <2>4. IdInv
    BY <2>2, <2>3 DEF IdInv
  <2>5. WorkerInv /\ StoredInv
    BY <2>2, <2>3, Zenon DEF WorkerInv, StoredInv
  <2> QED
    BY <2>1, <2>4, <2>5 DEF UploadInv
<1>2. UploadInv /\ [OfNext]_ofVars => UploadInv'
  BY UploadStep
<1>3. UploadInv => UploadedIsStored
  BY DEF UploadInv, StoredInv, UploadedIsStored
<1> QED
  BY <1>1, <1>2, <1>3, PTL DEF OfSpec

(***************************************************************************)
(* What gc keeps and what the sizes cover (HistoryKept, SizesCoverPages),  *)
(* and the pinning of branch points, hold beside the offload worker and    *)
(* the deletes of the gc command as they do without them.                  *)
(***************************************************************************)
THEOREM TenantSafeBesideOffload ==
    OfSpec => [](HistoryKept /\ BranchPointsPinned /\ SizesCoverPages)
BY OffloadIsTenant, HistoryAlwaysKept, BranchPointsAlwaysPinned, SizesAlwaysCoverPages, PTL
=============================================================================
