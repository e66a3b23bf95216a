----------------------------- MODULE Safekeeper -----------------------------
(***************************************************************************)
(* A group of safekeepers: WAL runs streamed by compute to an ingest node, *)
(* stored and flushed there, replicated to the peers, and reported back    *)
(* with the quorum commit position (safekeeper/src/server.rs and           *)
(* replicator.rs), next to the elections of module Consensus.              *)
(*                                                                         *)
(* A handler holds the consensus or the storage mutex only for one short   *)
(* section and neither across an await; each section is one action, so     *)
(* handlers of one node interleave between any two of them.                *)
(*                                                                         *)
(* A WAL run is one LSN long and stands for its bytes by the id of the     *)
(* append that brought it: the segmentation of longer runs and I/O errors  *)
(* are the business of module WalStorage, of which the promise (what flush *)
(* returned for survives a crash) is used here.                            *)
(***************************************************************************)
EXTENDS Consensus

CONSTANTS
    Ingest,         \* the nodes compute streams to
    MaxLsn,         \* bound: the WAL ends here
    MaxAppends,     \* bound: append requests sent
    Lossy           \* whether replication connections may break

ASSUME IngestAssumption == Ingest \subseteq Node
ASSUME LsnAssumption == MaxLsn \in Nat /\ MaxAppends \in Nat

VARIABLES
    start_lsn,      \* WalStorage::start_lsn of each node, 0 in a fresh store
    flush_lsn,      \* WalStorage::flush_lsn, equal to write_lsn between methods
    wal,            \* the append that supplied each LSN of a node's store, or 0
    flush,          \* Consensus::flush: what each node knows of each member
    appends,        \* the handle_append calls in progress
    reps,           \* the replicate requests in flight, and how far they are
    sent,           \* number of appends sent so far
    served          \* history: <<lsn, append>> of WAL handed to page servers

walVars == <<start_lsn, flush_lsn, wal>>
serviceVars == <<appends, reps, sent>>
replVars == <<walVars, flush, serviceVars, served>>
skVars == <<vars, replVars>>

Lsn == 0..MaxLsn
Start == 1..(MaxLsn - 1)            \* LSN 0 is INVALID and never a run's start
AppendId == 1..MaxAppends

\* `todo` are the peers not yet replicated to, `at` the one being awaited,
\* `acks` those that flushed the run.
AppendCall == [id : AppendId, node : Node, term : Nat, start : Start,
               phase : {"read", "checked", "stored", "recorded", "sending"},
               todo : SUBSET Node, at : Node \cup {None}, acks : SUBSET Node]

Replicate == [id : AppendId, peer : Node, term : Nat, start : Start,
              phase : {"sent", "checked", "stored", "acked", "refused"}]

(***************************************************************************)
(* Every field of the replication state in its range.                      *)
(***************************************************************************)
SkTypeOK ==
    /\ TypeOK
    /\ start_lsn \in [Node -> Lsn]
    /\ flush_lsn \in [Node -> Lsn]
    /\ wal \in [Node -> [Lsn -> AppendId \cup {0}]]
    /\ flush \in [Node -> [Node -> Lsn]]
    /\ appends \subseteq AppendCall
    /\ reps \subseteq Replicate
    /\ sent \in 0..MaxAppends
    /\ served \subseteq Lsn \X (AppendId \cup {0})

SkInit ==
    /\ Init
    /\ start_lsn = [n \in Node |-> 0]
    /\ flush_lsn = [n \in Node |-> 0]
    /\ wal = [n \in Node |-> [l \in Lsn |-> 0]]
    /\ flush = [n \in Node |-> [m \in Node |-> 0]]
    /\ appends = {}
    /\ reps = {}
    /\ sent = 0
    /\ served = {}
-----------------------------------------------------------------------------
\* commit_lsn: the flush positions in descending order, at index quorum - 1.
CommitLsn_Fastest(n) == CHOOSE l \in {flush[n][m] : m \in Node} :
    \A m \in Node : flush[n][m] <= l
CommitLsn(n) == CHOOSE l \in {flush[n][m] : m \in Node} :
    /\ Cardinality({m \in Node : flush[n][m] >= l}) >= Quorum
    /\ Cardinality({m \in Node : flush[n][m] > l}) < Quorum

RecordFlush_PastEnd(f, ms, lsn) ==
    [m \in Node |-> IF m \in ms /\ lsn >= f[m] /\ lsn < MaxLsn THEN lsn + 1 ELSE f[m]]
\* record_flush, for each of the members ms: monotonic.
RecordFlush(f, ms, lsn) ==
    [m \in Node |-> IF m \in ms /\ lsn > f[m] THEN lsn ELSE f[m]]

\* WalStorage::append accepts a run at the end of the log, or anywhere in a
\* store that is still fresh; it flushes before the lock is released.
Accepts_AnyStart(n, start) == TRUE
Accepts(n, start) == start = flush_lsn[n] \/ (start_lsn[n] = 0 /\ flush_lsn[n] = 0)

StoreRun_EndTwice(n, start, id) ==
    /\ start_lsn' = [start_lsn EXCEPT ![n] = IF flush_lsn[n] = 0 THEN start ELSE @]
    /\ flush_lsn' = [flush_lsn EXCEPT ![n] = @ + start + 1]
    /\ wal' = [wal EXCEPT ![n][start] = id]

StoreRun(n, start, id) ==
    /\ start_lsn' = [start_lsn EXCEPT ![n] = IF flush_lsn[n] = 0 THEN start ELSE @]
    /\ flush_lsn' = [flush_lsn EXCEPT ![n] = start + 1]
    /\ wal' = [wal EXCEPT ![n][start] = id]

Update(a, b) == appends' = (appends \ {a}) \cup {b}
Answer(r, phase) == reps' = (reps \ {r}) \cup {[r EXCEPT !.phase = phase]}

\* serve_connection reads an append request of some compute node.
ReceiveAppend(n, t, start) ==
    /\ sent < MaxAppends
    /\ sent' = sent + 1
    /\ appends' = appends \cup
          {[id |-> sent + 1, node |-> n, term |-> t, start |-> start, phase |-> "read",
            todo |-> Node \ {n}, at |-> None, acks |-> {}]}
    /\ UNCHANGED <<vars, walVars, flush, reps, served>>

\* First section of handle_append: a proposer behind our term is refused.
CheckTerm(a) ==
    /\ a.phase = "read"
    /\ \/ /\ a.term < term[a.node]                            \* STATUS_STALE_TERM
          /\ appends' = appends \ {a}
       \/ /\ a.term >= term[a.node]
          /\ Update(a, [a EXCEPT !.phase = "checked"])
    /\ UNCHANGED <<vars, walVars, flush, reps, sent, served>>

\* Second section: append and flush the run, or fail with NonContiguous.
StoreLocally(a) ==
    /\ a.phase = "checked"
    /\ \/ /\ Accepts(a.node, a.start)
          /\ StoreRun(a.node, a.start, a.id)
          /\ Update(a, [a EXCEPT !.phase = "stored"])
       \/ /\ ~ Accepts(a.node, a.start)
          /\ appends' = appends \ {a}
          /\ UNCHANGED walVars
    /\ UNCHANGED <<vars, flush, reps, sent, served>>

\* Third section: record our own flush.
RecordOwn(a) ==
    /\ a.phase = "stored"
    /\ flush' = [flush EXCEPT ![a.node] = RecordFlush(@, {a.node}, a.start + 1)]
    /\ Update(a, [a EXCEPT !.phase = "recorded"])
    /\ UNCHANGED <<vars, walVars, reps, sent, served>>

\* replicate holds the connections of its node from the first peer to the last.
Replicating(b) == b.phase = "sending" /\ (b.todo # {} \/ b.at # None)

BeginReplicate(a) ==
    /\ a.phase = "recorded"
    /\ \A b \in appends : b.node = a.node => ~ Replicating(b)
    /\ Update(a, [a EXCEPT !.phase = "sending"])
    /\ UNCHANGED <<vars, walVars, flush, reps, sent, served>>

\* a after peer p's turn: `at` is the peer now awaited, `more` the ack gained.
Turn(a, p, at, more) ==
    [id |-> a.id, node |-> a.node, term |-> a.term, start |-> a.start, phase |-> a.phase,
     todo |-> a.todo \ {p}, at |-> at, acks |-> a.acks \cup more]

\* send_to_peer writes the request to the next peer and awaits the answer.
SendReplicate(a, p) ==
    /\ a.phase = "sending"
    /\ a.at = None
    /\ p \in a.todo
    /\ Update(a, Turn(a, p, p, {}))
    /\ reps' = reps \cup {[id |-> a.id, peer |-> p, term |-> a.term, start |-> a.start,
                           phase |-> "sent"]}
    /\ UNCHANGED <<vars, walVars, flush, sent, served>>

\* handle_replicate does not replicate in turn, so it needs no connection.
CanReplicate_Forwarding(r) ==
    r.phase = "sent" /\ \A b \in appends : b.node = r.peer => ~ Replicating(b)
CanReplicate(r) == r.phase = "sent"

\* handle_replicate goes through the same three sections as handle_append.
ReplicateCheck(r) ==
    /\ CanReplicate(r)
    /\ Answer(r, IF r.term < term[r.peer] THEN "refused" ELSE "checked")
    /\ UNCHANGED <<vars, walVars, flush, appends, sent, served>>

ReplicateStore(r) ==
    /\ r.phase = "checked"
    /\ \/ /\ Accepts(r.peer, r.start)
          /\ StoreRun(r.peer, r.start, r.id)
          /\ Answer(r, "stored")
       \/ /\ ~ Accepts(r.peer, r.start)                       \* the connection closes
          /\ Answer(r, "refused")
          /\ UNCHANGED walVars
    /\ UNCHANGED <<vars, flush, appends, sent, served>>

ReplicateRecord(r) ==
    /\ r.phase = "stored"
    /\ flush' = [flush EXCEPT ![r.peer] = RecordFlush(@, {r.peer}, r.start + 1)]
    /\ Answer(r, "acked")
    /\ UNCHANGED <<vars, walVars, appends, sent, served>>

\* send_to_peer returns: an ack is kept, a refusal only costs the connection.
ReceiveAnswer(a, r) ==
    /\ r.id = a.id /\ r.peer = a.at
    /\ r.phase \in {"acked", "refused"}
    /\ Update(a, Turn(a, a.at, None, IF r.phase = "acked" THEN {a.at} ELSE {}))
    /\ reps' = reps \ {r}
    /\ UNCHANGED <<vars, walVars, flush, sent, served>>

\* The connection breaks, or was never made: no ack.  A request that the
\* peer has received is still carried out, its answer goes nowhere.
ConnectionFails(a) ==
    /\ a.at # None
    /\ Lossy \/ \A r \in reps : ~ (r.id = a.id /\ r.peer = a.at)
    /\ Update(a, Turn(a, a.at, None, {}))
    /\ \/ reps' = reps
       \/ reps' = {r \in reps : ~ (r.id = a.id /\ r.peer = a.at /\ r.phase = "sent")}
    /\ UNCHANGED <<vars, walVars, flush, sent, served>>

\* Last section of handle_append: fold the acks in and reply with STATUS_OK
\* and the commit position.
FoldAcks(a) ==
    /\ a.phase = "sending" /\ a.todo = {} /\ a.at = None
    /\ flush' = [flush EXCEPT ![a.node] = RecordFlush(@, a.acks, a.start + 1)]
    /\ appends' = appends \ {a}
    /\ UNCHANGED <<vars, walVars, reps, sent, served>>

\* handle_read: committed WAL from the cursor on, clamped to what is retained.
\* A commit position past the end of the store is an OutOfRange error.
HandleRead(n, cursor) ==
    LET from == IF cursor > start_lsn[n] THEN cursor ELSE start_lsn[n]
    IN  /\ CommitLsn(n) <= flush_lsn[n]
        /\ from < CommitLsn(n)
        /\ served' = served \cup {<<l, wal[n][l]>> : l \in from..(CommitLsn(n) - 1)}
        /\ UNCHANGED <<vars, walVars, flush, serviceVars>>

\* The process dies: the store stays, what consensus knew and all calls go.
SkRestart(n) ==
    /\ Restart(n)
    /\ flush' = [flush EXCEPT ![n] = [m \in Node |-> 0]]
    /\ appends' = {a \in appends : a.node # n}
    /\ reps' = {r \in reps : r.peer # n \/ r.phase = "acked"}
    /\ UNCHANGED <<walVars, sent, served>>

AppendStep(a) ==
    \/ CheckTerm(a)
    \/ StoreLocally(a)
    \/ RecordOwn(a)
    \/ BeginReplicate(a)
    \/ \E p \in Node : SendReplicate(a, p)
    \/ \E r \in reps : ReceiveAnswer(a, r)
    \/ FoldAcks(a)

ReplicateStep(r) == ReplicateCheck(r) \/ ReplicateStore(r) \/ ReplicateRecord(r)

SkNext ==
    \/ Step /\ UNCHANGED replVars
    \/ \E n \in Ingest, t \in 0..MaxTerm, start \in Start : ReceiveAppend(n, t, start)
    \/ \E a \in appends : AppendStep(a) \/ ConnectionFails(a)
    \/ \E r \in reps : ReplicateStep(r)
    \/ \E n \in Node, cursor \in Lsn : HandleRead(n, cursor)
    \/ \E n \in Node : SkRestart(n)

SkSpec == SkInit /\ [][SkNext]_skVars
-----------------------------------------------------------------------------
(***************************************************************************)
(* Whatever a node takes for committed, a majority of the members has      *)
(* really flushed that far, also after restarts (commit_lsn).              *)
(***************************************************************************)
CommitFlushedByQuorum ==
    \A n \in Node, l \in Lsn :
        CommitLsn(n) >= l => Cardinality({m \in Node : flush_lsn[m] >= l}) >= Quorum

(***************************************************************************)
(* The commit position never passes the end of the node's own store, so a  *)
(* page server's read never fails with OutOfRange (handle_read).           *)
(***************************************************************************)
CommitWithinStore == \A n \in Node : CommitLsn(n) <= flush_lsn[n]

(***************************************************************************)
(* Two members never hold different WAL at one LSN: the proposers cannot   *)
(* append divergent WAL (handle_append, handle_replicate).                 *)
(***************************************************************************)
LogsAgree ==
    \A n, m \in Node, l \in Lsn :
        wal[n][l] # 0 /\ wal[m][l] # 0 => wal[n][l] = wal[m][l]

(***************************************************************************)
(* Page servers are never served two versions of one LSN (handle_read).    *)
(***************************************************************************)
ServedOnce == \A x, y \in served : x[1] = y[1] => x[2] = y[2]

(***************************************************************************)
(* The commit position is durable on a majority: every byte below it, from *)
(* the start of the node's own log, is in the stores of a quorum           *)
(* (AppendResponse::commit_lsn).                                           *)
(***************************************************************************)
CommitDurableOnMajority ==
    \A n \in Node : \A l \in start_lsn[n]..(CommitLsn(n) - 1) :
        Cardinality({m \in Node : wal[m][l] # 0}) >= Quorum

\* Every handler whose lock or socket is ready is polled again.
SkFairness ==
    /\ \A i \in AppendId : WF_skVars(\E a \in appends : a.id = i /\ AppendStep(a))
    /\ \A i \in AppendId, p \in Node :
          WF_skVars(\E r \in reps : r.id = i /\ r.peer = p /\ ReplicateStep(r))

FairSkSpec == SkSpec /\ Fairness /\ SkFairness

(***************************************************************************)
(* Every append is answered, also when ingest nodes replicate to each      *)
(* other at the same time (handle_append, replicate).                      *)
(***************************************************************************)
EveryAppendReturns ==
    \A i \in AppendId : (\E a \in appends : a.id = i) ~> (\A a \in appends : a.id # i)
=============================================================================
