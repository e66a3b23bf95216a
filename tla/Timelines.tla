------------------------------ MODULE Timelines ------------------------------
(***************************************************************************)
(* The versioned page store of one tenant: the timelines (branches) of     *)
(* pageserver/src/tenant.rs and timeline.rs, each with its own Repository  *)
(* (repository.rs) of a memtable and frozen layers, the ingest of WAL, and *)
(* the branch-aware garbage collection.                                    *)
(*                                                                         *)
(* Each repository has its own mutex, and the tenant one over its map of   *)
(* timelines; an action is one critical section of a repository.  A gc     *)
(* keeps the tenant's mutex while it compacts the timelines one by one.    *)
(*                                                                         *)
(* A page version is known by its page, its LSN and whether it is a base:  *)
(* a full image or a will_init record, from which a page can be rebuilt    *)
(* with no earlier version (page.rs, is_base).  A version's bytes are a    *)
(* function of timeline, page and LSN, so a rebuilt page is described by   *)
(* the versions that were applied to make it.  One relation is modelled,   *)
(* and a page is its block number.                                         *)
(***************************************************************************)
EXTENDS Integers, FiniteSets

CONSTANTS
    Timeline,           \* TimelineId
    None,               \* no ancestor
    Roots,              \* the timelines created without an ancestor
    Branches,           \* the <<new, parent>> pairs branches are asked for
    MaxBlock,           \* bound: the highest block number
    MaxLsn,             \* bound: the WAL ends here
    MaxRecords,         \* bound: records ingested on all timelines
    Reattached,         \* whether a WAL receiver may be attached again at an earlier LSN
    MaxGcs,             \* bound: gc commands
    MaxBlocks,          \* the most blocks one WAL record touches
    FreezeThreshold     \* versions at which the memtable is frozen

ASSUME TimelineAssumption ==
    Roots \subseteq Timeline /\ Branches \subseteq Timeline \X Timeline /\ None \notin Timeline
ASSUME BoundAssumption ==
    MaxBlock \in Nat /\ MaxLsn \in Nat /\ MaxRecords \in Nat /\ MaxGcs \in Nat
\* A record fills the memtable at most once.
ASSUME FreezeAssumption ==
    MaxBlocks \in Nat /\ FreezeThreshold \in Nat \ {0} /\ MaxBlocks <= FreezeThreshold

VARIABLES
    timelines,          \* the tenant's map: the timelines that exist
    parent,             \* Ancestor::parent of each timeline, or None
    ancestor_lsn,       \* Ancestor::ancestor_lsn
    memtable,           \* the recent versions of each timeline
    layers,             \* its frozen layers, [id, entries]
    next_layer_id,
    rel_sizes,          \* blocks of the relation recorded at each LSN, 0 if nothing is
    gc,                 \* the gc in progress: its horizon, the timelines it has yet to compact
    hist,               \* history: every version ever ingested
    horizon,            \* history: the highest horizon each timeline was compacted at
    whole,              \* history: timelines whose branch point was still retained by
                        \* the parent when they were branched, and so on up to the root
    records, gcs        \* numbers of records and gc commands so far

branchVars == <<timelines, parent, ancestor_lsn, whole>>
repoVars == <<memtable, layers, next_layer_id, horizon>>
ingestVars == <<rel_sizes, hist, records>>
gcVars == <<gc, gcs>>
tlVars == <<branchVars, repoVars, ingestVars, gcVars>>

Block == 0..MaxBlock
Lsn == 0..MaxLsn
Valid == 1..MaxLsn       \* 0 is Lsn::INVALID
Kind == {"base", "delta"}
Version == [page : Block, lsn : Lsn, kind : Kind]
Layer == [id : Nat, entries : SUBSET Version]

(***************************************************************************)
(* Every field of the tenant and its repositories in its range.            *)
(***************************************************************************)
TlTypeOK ==
    /\ timelines \subseteq Timeline
    /\ parent \in [Timeline -> Timeline \cup {None}]
    /\ ancestor_lsn \in [Timeline -> Lsn]
    /\ memtable \in [Timeline -> SUBSET Version]
    /\ layers \in [Timeline -> SUBSET Layer]
    /\ next_layer_id \in [Timeline -> Nat]
    /\ rel_sizes \in [Timeline -> [Lsn -> 0..(MaxBlock + 1)]]
    /\ gc \in [horizon : Lsn, todo : SUBSET Timeline]
    /\ hist \in [Timeline -> SUBSET Version]
    /\ horizon \in [Timeline -> Lsn]
    /\ whole \subseteq Timeline
    /\ records \in 0..MaxRecords /\ gcs \in 0..MaxGcs

NoGc == [horizon |-> 0, todo |-> {}]

\* Tenant::new.  main then creates the first timeline.
TlInit ==
    /\ timelines = {}
    /\ parent = [t \in Timeline |-> None]
    /\ ancestor_lsn = [t \in Timeline |-> 0]
    /\ memtable = [t \in Timeline |-> {}]
    /\ layers = [t \in Timeline |-> {}]
    /\ next_layer_id = [t \in Timeline |-> 0]
    /\ rel_sizes = [t \in Timeline |-> [l \in Lsn |-> 0]]
    /\ gc = NoGc
    /\ hist = [t \in Timeline |-> {}]
    /\ horizon = [t \in Timeline |-> 0]
    /\ whole = {}
    /\ records = 0 /\ gcs = 0
-----------------------------------------------------------------------------
IsBase(v) == v.kind = "base"

\* Everything a repository holds.
Stored(t) == memtable[t] \cup UNION {y.entries : y \in layers[t]}

\* The versions of a page at or before an LSN.
Upto(vs, p, l) == {v \in vs : v.page = p /\ v.lsn <= l}

NotFound == {}

\* RustApplyRedoManager::reconstruct (walredo.rs): the latest base and all after it.
Rebuild(vs) ==
    IF \E b \in vs : IsBase(b)
    THEN {v \in vs : \A b \in vs : IsBase(b) => b.lsn <= v.lsn}
    ELSE NotFound

\* Repository::get_page.
GetPage(vs, p, l) == Rebuild(Upto(vs, p, l))

\* The size recorded at the last LSN not after l (get_rel_size, and `prior` in ingest).
SizeAt(sizes, l) ==
    LET known == {k \in Lsn : k <= l /\ sizes[k] > 0}
    IN  IF known = {} THEN 0
        ELSE sizes[CHOOSE k \in known : \A j \in known : j <= k]
-----------------------------------------------------------------------------
\* gc holds the tenant's mutex from the first compaction to the last.
Locked == gc.todo # {}

\* Tenant::create_timeline.
CreateTimeline(t) ==
    /\ ~Locked
    /\ t \notin timelines                               \* else AlreadyExists
    /\ timelines' = timelines \cup {t}
    /\ whole' = whole \cup {t}
    /\ UNCHANGED <<parent, ancestor_lsn, repoVars, ingestVars, gcVars>>

\* Tenant::branch_timeline: no copy, and no look at what the parent retains.
BranchTimeline(t, p, l) ==
    /\ ~Locked
    /\ t \notin timelines                               \* else AlreadyExists
    /\ p \in timelines                                  \* else NoSuchParent
    /\ timelines' = timelines \cup {t}
    /\ parent' = [parent EXCEPT ![t] = p]
    /\ ancestor_lsn' = [ancestor_lsn EXCEPT ![t] = l]
    /\ whole' = IF p \in whole /\ horizon[p] <= l THEN whole \cup {t} ELSE whole
    /\ UNCHANGED <<repoVars, ingestVars, gcVars>>
-----------------------------------------------------------------------------
\* The relation's size after a record whose highest block is b.
SizeWith_TwoPast(prior, b) == IF prior > b + 2 THEN prior ELSE b + 2
SizeWith_LastBlock(prior, b) == b + 1
SizeWith(prior, b) == IF prior > b + 1 THEN prior ELSE b + 1

HighestBlock(vs) == CHOOSE b \in {v.page : v \in vs} : \A v \in vs : v.page <= b

\* The number of the next layer.
FreshId_Count(t) == Cardinality(layers[t])
FreshId(t) == next_layer_id[t]

\* freeze_locked on the first part of a batch, when it fills the memtable: the
\* rest of the batch goes to the memtable that follows.
Freeze(t, frozen, rest) ==
    /\ layers' = [layers EXCEPT ![t] = @ \cup {[id |-> FreshId(t), entries |-> frozen]}]
    /\ next_layer_id' = [next_layer_id EXCEPT ![t] = @ + 1]
    /\ memtable' = [memtable EXCEPT ![t] = rest]

\* Repository::ingest of the modifications of one record, all at one LSN.
Ingest(t, vs, l) ==
    /\ records < MaxRecords
    /\ records' = records + 1
    /\ rel_sizes' = [rel_sizes EXCEPT ![t] =
          [@ EXCEPT ![l] = SizeWith(SizeAt(rel_sizes[t], l), HighestBlock(vs))]]
    /\ hist' = [hist EXCEPT ![t] = @ \cup vs]
    /\ \/ /\ Cardinality(memtable[t] \cup vs) < FreezeThreshold
          /\ memtable' = [memtable EXCEPT ![t] = @ \cup vs]
          /\ UNCHANGED <<layers, next_layer_id>>
       \/ \E first \in SUBSET vs :
             /\ Cardinality(memtable[t] \cup first) = FreezeThreshold
             /\ Freeze(t, memtable[t] \cup first, vs \ first)
    /\ UNCHANGED <<branchVars, gcVars, horizon>>

\* A record at l: one version for each block it touches.
RecordsAt(l) ==
    {{[page |-> b, lsn |-> l, kind |-> f[b]] : b \in DOMAIN f} :
        f \in UNION {[bs -> Kind] : bs \in {x \in (SUBSET Block) \ {{}} : Cardinality(x) <= MaxBlocks}}}

\* The end of the WAL a timeline has had.  The WAL of a branch starts behind
\* the branch point.
Last(t) ==
    CHOOSE l \in {ancestor_lsn[t]} \cup {v.lsn : v \in hist[t]} :
        ancestor_lsn[t] <= l /\ \A v \in hist[t] : v.lsn <= l

\* The next record of the WAL.
IngestNew(t, vs) == Last(t) < MaxLsn /\ Ingest(t, vs, Last(t) + 1)

\* A receiver attached again at an earlier position sends a record once more.
IngestAgain(t, l) ==
    /\ Reattached
    /\ \E v \in hist[t] : v.lsn = l
    /\ Ingest(t, {v \in hist[t] : v.lsn = l}, l)
-----------------------------------------------------------------------------
\* The versions compaction drops from the merged layers: those older than a
\* base at or below the horizon.
Dropped_LatestBase(vs, h) ==
    {v \in vs : \E b \in vs : b.page = v.page /\ IsBase(b) /\ v.lsn < b.lsn}
Dropped(vs, h) ==
    {v \in vs : \E b \in vs : b.page = v.page /\ IsBase(b) /\ b.lsn <= h /\ v.lsn < b.lsn}

\* Repository::compact.  The base that makes a version droppable stays, so the
\* merged layer is never empty.
Compact(t, h) ==
    LET merged == UNION {y.entries : y \in layers[t]}
    IN  \/ /\ layers[t] = {}
           /\ UNCHANGED repoVars
        \/ /\ layers[t] # {}
           /\ layers' = [layers EXCEPT ![t] =
                 {[id |-> FreshId(t), entries |-> merged \ Dropped(merged, h)]}]
           /\ next_layer_id' = [next_layer_id EXCEPT ![t] = @ + 1]
           /\ horizon' = [horizon EXCEPT ![t] = IF h > @ THEN h ELSE @]
           /\ UNCHANGED memtable

\* The horizon for one timeline: no child's branch point is below it.
Pinned_NoChildren(t, h) == {h}
Pinned(t, h) == {h} \cup {ancestor_lsn[c] : c \in {k \in timelines : parent[k] = t}}
Lowest(ls) == CHOOSE l \in ls : \A k \in ls : l <= k

\* Tenant::gc takes the mutex and the pins ...
GcBegin(h) ==
    /\ ~Locked
    /\ timelines # {}
    /\ gcs < MaxGcs
    /\ gcs' = gcs + 1
    /\ gc' = [horizon |-> h, todo |-> timelines]
    /\ UNCHANGED <<branchVars, repoVars, ingestVars>>

\* ... and compacts every timeline.
GcTimeline(t) ==
    /\ t \in gc.todo
    /\ Compact(t, Lowest(Pinned(t, gc.horizon)))
    /\ gc' = IF gc.todo = {t} THEN NoGc ELSE [gc EXCEPT !.todo = @ \ {t}]
    /\ UNCHANGED <<branchVars, ingestVars, gcs>>

\* All but the compactions.
TenantStep ==
    \/ \E t \in Roots : CreateTimeline(t)
    \/ \E x \in Branches, l \in Valid : BranchTimeline(x[1], x[2], l)
    \/ \E t \in timelines : \E vs \in RecordsAt(Last(t) + 1) : IngestNew(t, vs)
    \/ \E t \in timelines, l \in Valid : IngestAgain(t, l)
    \/ \E h \in Valid : GcBegin(h)

TlNext == TenantStep \/ \E t \in Timeline : GcTimeline(t)

TlSpec == TlInit /\ [][TlNext]_tlVars
-----------------------------------------------------------------------------
(***************************************************************************)
(* Compaction forgets nothing that can be read: at every LSN from the      *)
(* horizon on, a repository rebuilds each page from the same versions as   *)
(* if it had kept all it was sent (Repository::compact, get_page).         *)
(***************************************************************************)
HistoryKept ==
    \A t \in Timeline, p \in Block : \A l \in horizon[t]..MaxLsn :
        GetPage(Stored(t), p, l) = GetPage(hist[t], p, l)

(***************************************************************************)
(* A branch that found its branch point in the parent's history keeps it:  *)
(* no gc compacts the parent beyond it (Tenant::gc).                       *)
(***************************************************************************)
BranchPointsPinned ==
    \A t \in whole : parent[t] # None => horizon[parent[t]] <= ancestor_lsn[t]

(***************************************************************************)
(* A page that can be rebuilt at an LSN lies within the size the store     *)
(* reports for the relation at that LSN (Repository::ingest, get_rel_size).*)
(***************************************************************************)
SizesCoverPages ==
    \A t \in Timeline, l \in Lsn, p \in Block :
        GetPage(hist[t], p, l) # NotFound => p < SizeAt(rel_sizes[t], l)
=============================================================================
