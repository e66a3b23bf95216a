--------------------------- MODULE ConsoleProofs ---------------------------
(***************************************************************************)
(* The page server's catalog and the console that drives it, for any       *)
(* number of tenants, timelines, connections and faults: what a save has   *)
(* collected can be restored whole, a timeline whose creation was saved    *)
(* and answered is never lost, the console's answers are true, and a       *)
(* compute node is pinned to what the registry says.                       *)
(***************************************************************************)
EXTENDS Console, TLAPS

\* Leaves that cite no prover may take their time: SMT first, then Zenon.
USE SMTT(30), Zenon

-----------------------------------------------------------------------------
(***************************************************************************)
(* Maps.                                                                   *)
(***************************************************************************)
Maps(D, R) == UNION {[S -> R] : S \in SUBSET D}

LEMMA MapFacts ==
    ASSUME NEW D, NEW R, NEW f \in Maps(D, R)
    PROVE  f \in [DOMAIN f -> R] /\ DOMAIN f \subseteq D /\ \A x \in DOMAIN f : f[x] \in R
BY DEF Maps

LEMMA MapIntro ==
    ASSUME NEW D, NEW R, NEW S \in SUBSET D, NEW f \in [S -> R]
    PROVE  f \in Maps(D, R) /\ DOMAIN f = S
BY DEF Maps

LEMMA PutFacts ==
    ASSUME NEW f, NEW k, NEW v
    PROVE  /\ DOMAIN Put(f, k, v) = DOMAIN f \union {k}
           /\ Put(f, k, v)[k] = v
           /\ \A x \in DOMAIN f : x # k => Put(f, k, v)[x] = f[x]
BY DEF Put

LEMMA PutType ==
    ASSUME NEW D, NEW R, NEW f \in Maps(D, R), NEW k \in D, NEW v \in R
    PROVE  Put(f, k, v) \in Maps(D, R)
<1>1. f \in [DOMAIN f -> R] /\ DOMAIN f \subseteq D
  BY MapFacts, Zenon
<1>2. Put(f, k, v) \in [DOMAIN f \union {k} -> R]
  BY <1>1 DEF Put
<1> QED
  BY <1>1, <1>2, MapIntro, Zenon

LEMMA WithoutFacts ==
    ASSUME NEW f, NEW k
    PROVE  /\ DOMAIN Without(f, k) = DOMAIN f \ {k}
           /\ \A x \in DOMAIN f \ {k} : Without(f, k)[x] = f[x]
BY DEF Without

LEMMA WithoutType ==
    ASSUME NEW D, NEW R, NEW f \in Maps(D, R), NEW k
    PROVE  Without(f, k) \in Maps(D, R)
<1>1. f \in [DOMAIN f -> R] /\ DOMAIN f \subseteq D
  BY MapFacts, Zenon
<1>2. Without(f, k) \in [DOMAIN f \ {k} -> R]
  BY <1>1 DEF Without
<1> QED
  BY <1>1, <1>2, MapIntro, Zenon

LEMMA NothingFacts ==
    ASSUME NEW D, NEW R
    PROVE  Nothing \in Maps(D, R) /\ DOMAIN Nothing = {}
<1>1. Nothing \in [{} -> R] /\ DOMAIN Nothing = {}
  BY DEF Nothing
<1> QED
  BY <1>1, MapIntro, Zenon

-----------------------------------------------------------------------------
(***************************************************************************)
(* The state of the page server.                                           *)
(***************************************************************************)
Record == {RootRecord} \union (Timeline \X Lsn)
Tree == Maps(Timeline, Record)
Document == Maps(Tenant, Tree)
ArcMap == Maps(Tenant, Arc)
Phase == {"idle", "gate", "ready", "act", "list", "read", "put"}

CatTypeOK ==
    /\ up \in BOOLEAN
    /\ heap \in Maps(Arc, Tree)
    /\ tenants \in ArcMap
    /\ held \in [Conn -> Arc \union {NoArc}]
    /\ ph \in [Conn -> Phase]
    /\ req \in [Conn -> Request]
    /\ todo \in [Conn -> ArcMap]
    /\ doc \in [Conn -> Document]
    /\ stored \in Document
    /\ solo \in [Conn -> BOOLEAN]
    /\ acked \subseteq Tenant \X Timeline

\* Every arc somebody refers to is on the heap; nobody is connected to a
\* server that is down; a connection that acts on a tenant holds it, and one
\* of the line protocol always has one selected.
HeapInv ==
    /\ \A t \in DOMAIN tenants : tenants[t] \in DOMAIN heap
    /\ \A c \in Conn : held[c] = NoArc \/ held[c] \in DOMAIN heap
    /\ \A c \in Conn : \A t \in DOMAIN todo[c] : todo[c][t] \in DOMAIN heap
    /\ \A c \in Conn : ph[c] # "idle" => up
    /\ \A c \in Conn : ph[c] # "idle" /\ (c \in Line \/ ph[c] \in {"ready", "act"}) =>
                         held[c] # NoArc
    /\ \A c \in Conn : ph[c] = "idle" => held[c] = NoArc

(***************************************************************************)
(* No branch without its ancestry: on the heap, in the documents being     *)
(* collected, whatever moments they are of, and in the catalog object.     *)
(***************************************************************************)
NoOrphans(tls) == Orphans(tls) = {}

TreesInv ==
    /\ \A a \in DOMAIN heap : NoOrphans(heap[a])
    /\ \A t \in DOMAIN stored : NoOrphans(stored[t])
    /\ \A c \in Conn : \A t \in DOMAIN doc[c] : NoOrphans(doc[c][t])

(***************************************************************************)
(* The saves.  One that is under way has read, or will read from the       *)
(* tenant the manager has, every timeline a client may count on, and the   *)
(* one its own request made.                                               *)
(***************************************************************************)
Collects(c, b) ==
    \/ b[1] \in DOMAIN todo[c] /\ b[1] \in DOMAIN tenants /\ todo[c][b[1]] = tenants[b[1]]
    \/ Has(doc[c], b)

Made1(c) == <<req[c].t, req[c].l>>
Makes(c) == ph[c] \in {"list", "read", "put"} /\ req[c].op \in {"create", "branch"}

SavesInv ==
    /\ \A c \in Saving : DOMAIN todo[c] \intersect DOMAIN doc[c] = {}
    /\ \A c \in Conn : ph[c] # "read" => DOMAIN todo[c] = {}
    /\ \A c \in Conn : solo[c] => Saving = {c}
    /\ \A c \in Saving, b \in acked : Collects(c, b)
    /\ \A c \in Conn : Makes(c) =>
          /\ held[c] # NoArc /\ req[c].l \in DOMAIN heap[held[c]]
          /\ /\ c \in Saving
             /\ req[c].t \in DOMAIN tenants /\ tenants[req[c].t] = held[c]
             => Collects(c, Made1(c))

CatInv == CatTypeOK /\ HeapInv /\ TreesInv /\ SavesInv /\ AckedDurable

(***************************************************************************)
(* The console.  While a call is under way its connection carries that     *)
(* call's request on the tenant the manager has, and an answer other than  *)
(* an error means that what was asked for is there.                        *)
(***************************************************************************)
\* The operation and the stage it has reached.
Placed(k, n, s) == op.kind = k /\ at = n /\ Stage = s

AtStage ==
    \/ Placed("create", 1, "upsert") \/ Placed("create", 2, "tenant")
    \/ Placed("create", 3, "timeline") \/ Placed("create", 4, "route")
    \/ Placed("create", 5, "done")
    \/ Placed("delete", 1, "find") \/ Placed("delete", 2, "drop")
    \/ Placed("delete", 3, "unroute") \/ Placed("delete", 4, "remove")
    \/ Placed("delete", 5, "done")
    \/ Placed("branch", 1, "find") \/ Placed("branch", 2, "branch")
    \/ Placed("branch", 3, "add_branch") \/ Placed("branch", 4, "done")
    \/ Placed("restore", 1, "set_current") \/ Placed("restore", 2, "pin")
    \/ Placed("restore", 3, "done")

Answer == {"none", "ok", "conflict", "missing", "error"}

ConTypeOK ==
    /\ at # 0 => op \in Operation /\ AtStage /\ (op.kind = "branch" => op.to # live)
    /\ cast \subseteq Conn \ {console}
    /\ ans \in [Conn -> Answer] /\ undone \in BOOLEAN

Wanted == IF op.kind = "create" THEN Root ELSE op.to
Making == Stage \in {"timeline", "branch"}

CallInv ==
    /\ Stage \notin Calls => ans[console] = "none" /\ ph[console] = "idle"
    /\ ph[console] # "idle" => ans[console] = "none"
    /\ Making /\ ph[console] # "idle" =>
          /\ \/ Stage = "timeline" /\ req[console] = CreateRequest(op.db, Root)
             \/ Stage = "branch" /\ \E n \in Lsn : req[console] = BranchRequest(op.db, op.to, Root, n)
          /\ ~ undone =>
                /\ op.db \in DOMAIN tenants /\ held[console] = tenants[op.db]
                /\ Stage = "branch" => Serves(op.db, Root)
    /\ Stage \in {"tenant", "drop"} /\ ph[console] # "idle" => ph[console] \notin {"act", "gate", "ready"}
    /\ /\ ~ undone
       /\ \/ Making /\ (ph[console] \in {"list", "read", "put"} \/ ans[console] \in {"ok", "conflict"})
          \/ Stage \in {"route", "add_branch"}
          \/ Stage = "done" /\ op.kind \in {"create", "branch"}
       => Serves(op.db, Wanted)

(***************************************************************************)
(* The registry and the proxy's routes, except for the database whose pin  *)
(* is being changed.                                                       *)
(***************************************************************************)
Book == IF writing THEN buf ELSE load

RegistryInv ==
    /\ file \in Maps(Database, Entry) /\ buf \in Maps(Database, Entry)
    /\ route \in Maps(Database, Point \union {live})
    /\ torn \in BOOLEAN /\ writing \in BOOLEAN
    /\ writing => Stage \in {"upsert", "add_branch", "set_current", "remove"}

Repinning == Stage = "pin" \/ (Stage = "set_current" /\ writing)

PinInv ==
    /\ \A db \in DOMAIN route :
          route[db] # live /\ db \notin missed /\ ~ (Repinning /\ db = op.db) =>
              db \in DOMAIN Book /\ Book[db].current = route[db]
    /\ Repinning /\ op.db \in DOMAIN Book => Book[op.db].current = op.to
    /\ Stage = "remove" => op.db \in missed \/ op.db \notin DOMAIN route

-----------------------------------------------------------------------------
(***************************************************************************)
(* Trees of timelines (create_timeline, branch_timeline, restore).         *)
(***************************************************************************)
\* A set of branches that restore would skip.
Skipped(tls, S) ==
    \A l \in S : tls[l] # RootRecord /\ (tls[l][1] \in S \/ tls[l][1] \notin DOMAIN tls)

LEMMA OrphanFree ==
    ASSUME NEW tls
    PROVE  NoOrphans(tls) <=> \A S \in SUBSET DOMAIN tls : Skipped(tls, S) => S = {}
<1>1. Orphans(tls) = UNION {S \in SUBSET DOMAIN tls : Skipped(tls, S)}
  BY DEF Orphans, Skipped
<1> QED
  BY <1>1, Zenon DEF NoOrphans

LEMMA NothingIsTree == NoOrphans(Nothing)
<1>1. \A S \in SUBSET DOMAIN Nothing : S = {}
  BY NothingFacts
<1> QED
  BY <1>1, OrphanFree

\* A new root, and a new branch of a timeline that is there, make no orphan.
LEMMA TreeGrows ==
    ASSUME NEW tls \in Tree, NoOrphans(tls), NEW l \in Timeline, l \notin DOMAIN tls,
           NEW record \in Record, record = RootRecord \/ record[1] \in DOMAIN tls
    PROVE  Put(tls, l, record) \in Tree /\ NoOrphans(Put(tls, l, record))
<1> DEFINE new == Put(tls, l, record)
<1>1. new \in Tree
  BY PutType, Zenon DEF Tree
<1>2. /\ DOMAIN new = DOMAIN tls \union {l} /\ new[l] = record
      /\ \A x \in DOMAIN tls : new[x] = tls[x]
  BY DEF Put
<1> HIDE DEF new
<1>3. ASSUME NEW S \in SUBSET DOMAIN new, Skipped(new, S) PROVE S = {}
  <2>1. Skipped(tls, S \ {l})
    BY <1>2, <1>3 DEF Skipped
  <2>2. S \ {l} = {}
    BY <1>2, <2>1, OrphanFree
  <2>3. l \notin S
    BY <1>2, <1>3, <2>2 DEF Skipped
  <2> QED
    BY <2>2, <2>3
<1>4. NoOrphans(new)
  BY <1>3, OrphanFree
<1> QED
  BY <1>1, <1>4 DEF new

LEMMA RestoreSame ==
    ASSUME NEW cat \in Document, \A t \in DOMAIN cat : NoOrphans(cat[t])
    PROVE  restore(cat) = cat
<1>1. cat \in [DOMAIN cat -> Tree]
  BY MapFacts DEF Document
<1>2. ASSUME NEW t \in DOMAIN cat
      PROVE  [l \in DOMAIN cat[t] \ Orphans(cat[t]) |-> cat[t][l]] = cat[t]
  <2>1. cat[t] \in [DOMAIN cat[t] -> Record]
    BY <1>1, MapFacts DEF Tree
  <2>2. DOMAIN cat[t] \ Orphans(cat[t]) = DOMAIN cat[t]
    BY DEF NoOrphans
  <2> QED
    BY <2>1, <2>2
<1> QED
  BY <1>1, <1>2 DEF restore

-----------------------------------------------------------------------------
(***************************************************************************)
(* The heap.                                                               *)
(***************************************************************************)
LiveOK ==
    \A a : a \in Live <=> \/ \E t \in DOMAIN tenants : tenants[t] = a
                          \/ \E c \in Conn : held[c] = a
                          \/ \E c \in Conn : \E t \in DOMAIN todo[c] : todo[c][t] = a

LEMMA LiveFacts == LiveOK
<1> DEFINE H == {held[c] : c \in Conn}
           U == UNION {Values(todo[c]) : c \in Conn}
<1>1. \A f, a : a \in Values(f) <=> \E x \in DOMAIN f : f[x] = a
  BY Zenon DEF Values
<1>2. \A a : a \in H <=> \E c \in Conn : held[c] = a
  BY Zenon
<1>3. \A a : a \in U <=> \E c \in Conn : a \in Values(todo[c])
  BY Zenon
<1>4. Live = (Values(tenants) \union H) \union U
  BY DEF Live
<1> HIDE DEF H, U
<1>5. \A a : a \in Live <=> a \in Values(tenants) \/ a \in H \/ a \in U
  BY <1>4
<1> QED
  BY <1>1, <1>2, <1>3, <1>5 DEF LiveOK

RefsIn(map, hold, list, D) ==
    /\ \A t \in DOMAIN map : map[t] \in D
    /\ \A c \in Conn : hold[c] = NoArc \/ hold[c] \in D
    /\ \A c \in Conn : \A t \in DOMAIN list[c] : list[c][t] \in D

LEMMA RefsAre ==
    HeapInv => RefsIn(tenants, held, todo, DOMAIN heap)
BY DEF HeapInv, RefsIn

\* Arcs that are dropped with a step are none that anybody refers to.
LEMMA HeapKeeps ==
    ASSUME NEW h \in Maps(Arc, Tree), Heap(h), LiveOK', RefsIn(tenants', held', todo', DOMAIN h)
    PROVE  /\ heap' \in Maps(Arc, Tree) /\ DOMAIN heap' \subseteq DOMAIN h
           /\ \A a \in DOMAIN heap' : heap'[a] = h[a]
           /\ RefsIn(tenants', held', todo', DOMAIN heap')
<1> DEFINE L == Live' \ {NoArc}
<1>1. heap' = [a \in L |-> h[a]]
  BY DEF Heap
<1>2. h \in [DOMAIN h -> Tree] /\ DOMAIN h \subseteq Arc
  BY MapFacts, Zenon
<1>3. NoArc \notin Arc
  BY DEF NoArc, Arc
<1>4. \A a : a \in Live' => a = NoArc \/ a \in DOMAIN h
  BY Zenon DEF LiveOK, RefsIn
<1>5. L \subseteq DOMAIN h
  BY <1>4
<1>6. /\ \A t \in DOMAIN tenants' : tenants'[t] \in Live'
      /\ \A c \in Conn : held'[c] \in Live'
      /\ \A c \in Conn : \A t \in DOMAIN todo'[c] : todo'[c][t] \in Live'
  BY Zenon DEF LiveOK
<1> HIDE DEF L
<1>7. heap' \in [L -> Tree] /\ DOMAIN heap' = L /\ \A a \in L : heap'[a] = h[a]
  BY <1>1, <1>2, <1>5
<1>8. heap' \in Maps(Arc, Tree)
  BY <1>2, <1>5, <1>7, MapIntro, Zenon
<1>9. RefsIn(tenants', held', todo', L)
  BY <1>2, <1>3, <1>6 DEF RefsIn, L
<1> QED
  BY <1>5, <1>7, <1>8, <1>9

\* get_or_create: the tenant's arc, or a fresh one with no timelines.
LEMMA ProvisionFacts ==
    ASSUME CatTypeOK, HeapInv, NEW t \in Tenant, Provision(t)
    PROVE  /\ WithTenant(t) \in Maps(Arc, Tree) /\ tenants' \in ArcMap
           /\ DOMAIN tenants' = DOMAIN tenants \union {t} /\ tenants'[t] = get_or_create(t)
           /\ \A s \in DOMAIN tenants : tenants'[s] = tenants[s]
           /\ get_or_create(t) \in Arc /\ get_or_create(t) \in DOMAIN WithTenant(t)
           /\ \A a \in DOMAIN heap : a \in DOMAIN WithTenant(t) /\ WithTenant(t)[a] = heap[a]
           /\ \A a \in DOMAIN WithTenant(t) : a \in DOMAIN heap \/ WithTenant(t)[a] = Nothing
           /\ t \notin DOMAIN tenants => get_or_create(t) \notin DOMAIN heap
<1>0. heap \in Maps(Arc, Tree) /\ tenants \in Maps(Tenant, Arc) /\ tenants' = Put(tenants, t, get_or_create(t))
  BY DEF CatTypeOK, ArcMap, Provision
<1>1. CASE t \in DOMAIN tenants
  <2>1. get_or_create(t) = tenants[t] /\ WithTenant(t) = heap
    BY <1>1 DEF get_or_create, WithTenant
  <2>2. tenants[t] \in Arc /\ tenants[t] \in DOMAIN heap
    BY <1>0, <1>1, MapFacts DEF HeapInv
  <2>3. tenants' \in ArcMap
    BY <1>0, <2>1, <2>2, PutType DEF ArcMap
  <2>4. DOMAIN tenants' = DOMAIN tenants \union {t} /\ tenants'[t] = tenants[t]
        /\ \A s \in DOMAIN tenants : tenants'[s] = tenants[s]
    BY <1>0, <2>1 DEF Put
  <2> QED
    BY <1>0, <1>1, <2>1, <2>2, <2>3, <2>4
<1>2. CASE t \notin DOMAIN tenants
  <2>1. get_or_create(t) = NewArc /\ WithTenant(t) = Put(heap, NewArc, Nothing)
    BY <1>2 DEF get_or_create, WithTenant
  <2>2. NewArc \in Arc /\ NewArc \notin DOMAIN heap
    BY <1>2 DEF Provision, NewArc
  <2>3. Nothing \in Tree
    BY NothingFacts DEF Tree
  <2>4. WithTenant(t) \in Maps(Arc, Tree) /\ tenants' \in ArcMap
    BY <1>0, <2>1, <2>2, <2>3, PutType DEF ArcMap
  <2>5. /\ DOMAIN tenants' = DOMAIN tenants \union {t} /\ tenants'[t] = NewArc
        /\ \A s \in DOMAIN tenants : tenants'[s] = tenants[s]
    BY <1>0, <1>2, <2>1 DEF Put
  <2>6. /\ DOMAIN WithTenant(t) = DOMAIN heap \union {NewArc} /\ WithTenant(t)[NewArc] = Nothing
        /\ \A a \in DOMAIN heap : WithTenant(t)[a] = heap[a]
    BY <2>1, <2>2 DEF Put
  <2> QED
    BY <1>2, <2>1, <2>2, <2>4, <2>5, <2>6
<1> QED
  BY <1>1, <1>2

-----------------------------------------------------------------------------
(***************************************************************************)
(* A step of a connection that is not collecting a document: the manager   *)
(* may get a tenant or lose those gone, trees grow, and the connection     *)
(* moves on.                                                               *)
(***************************************************************************)
\* What a step does to the heap: what somebody refers to stays, and grows.
Grows ==
    /\ heap' \in Maps(Arc, Tree) /\ RefsIn(tenants', held', todo', DOMAIN heap')
    /\ \A a \in DOMAIN heap' : /\ NoOrphans(heap'[a])
                               /\ a \in DOMAIN heap => DOMAIN heap[a] \subseteq DOMAIN heap'[a]

Moves(c, gone) ==
    /\ UNCHANGED <<up, todo, doc, solo, stored>>
    /\ held' \in [Conn -> Arc \union {NoArc}] /\ ph' \in [Conn -> Phase] /\ req' \in [Conn -> Request]
    /\ \A d \in Conn \ {c} : held'[d] = held[d] /\ ph'[d] = ph[d] /\ req'[d] = req[d]
    /\ ph[c] \notin {"read", "put"} /\ ph'[c] \notin {"read", "put"}
    /\ ph'[c] # "idle" => up
    /\ ph'[c] = "idle" => held'[c] = NoArc
    /\ ph'[c] # "idle" /\ (c \in Line \/ ph'[c] \in {"ready", "act"}) => held'[c] # NoArc
    /\ ph'[c] = "list" /\ req'[c].op \in {"create", "branch"} =>
          held'[c] # NoArc /\ req'[c].l \in DOMAIN heap'[held'[c]]
    /\ tenants' \in ArcMap
    /\ \A t \in DOMAIN tenants' : \/ t \in DOMAIN tenants /\ tenants'[t] = tenants[t]
                                  \/ t \notin DOMAIN tenants /\ tenants'[t] \notin DOMAIN heap
    /\ DOMAIN tenants \ gone \subseteq DOMAIN tenants'
    /\ acked' = {b \in acked : b[1] \notin gone}
    /\ Grows

LEMMA MovesKeep ==
    ASSUME CatInv, NEW c \in Conn, NEW gone, Moves(c, gone)
    PROVE  CatInv'
<1>0. CatTypeOK /\ HeapInv /\ TreesInv /\ SavesInv /\ AckedDurable
  BY DEF CatInv
<1>1. CatTypeOK'
  BY <1>0 DEF Moves, Grows, CatTypeOK
<1>2. HeapInv'
  BY <1>0 DEF Moves, Grows, HeapInv, RefsIn
<1>3. TreesInv'
  BY <1>0 DEF Moves, Grows, TreesInv
<1>4. /\ UNCHANGED <<up, todo, doc, solo, stored>> /\ Saving' = Saving /\ c \notin Saving
      /\ \A d \in Conn \ {c} : held'[d] = held[d] /\ ph'[d] = ph[d] /\ req'[d] = req[d]
  BY <1>0 DEF Moves, Grows, Saving
<1>5. \A d \in Saving : up
  BY <1>0 DEF HeapInv, Saving
<1>6. ASSUME NEW t \in DOMAIN tenants, t \in DOMAIN tenants'
      PROVE  /\ tenants'[t] = tenants[t] /\ tenants[t] \in DOMAIN heap'
             /\ DOMAIN heap[tenants[t]] \subseteq DOMAIN heap'[tenants[t]]
  BY <1>0, <1>6 DEF Moves, Grows, HeapInv, RefsIn
<1>7. AckedDurable'
  <2> SUFFICES ASSUME NEW b \in acked'
               PROVE  /\ Has(stored', b)
                      /\ up' => b[1] \in DOMAIN tenants' /\ b[2] \in DOMAIN heap'[tenants'[b[1]]]
    BY DEF AckedDurable, Has
  <2>1. b \in acked /\ (b[1] \in DOMAIN tenants => b[1] \in DOMAIN tenants')
    BY DEF Moves, Grows
  <2>2. Has(stored, b) /\ (up => b[1] \in DOMAIN tenants /\ b[2] \in DOMAIN heap[tenants[b[1]]])
    BY <1>0, <2>1 DEF AckedDurable
  <2> QED
    BY <1>4, <1>6, <2>1, <2>2
<1>8. \A d \in Saving, b \in acked' : Collects(d, b)'
  <2> SUFFICES ASSUME NEW d \in Saving, NEW b \in acked' PROVE Collects(d, b)'
    OBVIOUS
  <2>1. b \in acked /\ b[1] \in DOMAIN tenants /\ b[1] \in DOMAIN tenants'
    BY <1>0, <1>5 DEF Moves, Grows, AckedDurable
  <2>2. Collects(d, b)
    BY <1>0, <2>1 DEF SavesInv
  <2> QED
    BY <1>4, <1>6, <2>1, <2>2 DEF Collects, Has
<1>9. ASSUME NEW d \in Conn, Makes(d)'
      PROVE  /\ held'[d] # NoArc /\ req'[d].l \in DOMAIN heap'[held'[d]]
             /\ /\ d \in Saving'
                /\ req'[d].t \in DOMAIN tenants' /\ tenants'[req'[d].t] = held'[d]
                => Collects(d, Made1(d))'
  <2>1. CASE d = c
    BY <1>4, <1>9, <2>1 DEF Moves, Grows, Makes
  <2>2. CASE d # c
    <3>1. Makes(d) /\ held'[d] = held[d] /\ req'[d] = req[d]
      BY <1>4, <1>9, <2>2 DEF Makes
    <3>2. held[d] # NoArc /\ held[d] \in DOMAIN heap /\ req[d].l \in DOMAIN heap[held[d]]
      BY <1>0, <3>1 DEF SavesInv, HeapInv
    <3>3. held[d] \in DOMAIN heap' /\ DOMAIN heap[held[d]] \subseteq DOMAIN heap'[held[d]]
      BY <3>1, <3>2 DEF Moves, Grows, RefsIn
    <3>4. ASSUME d \in Saving, req[d].t \in DOMAIN tenants', tenants'[req[d].t] = held[d]
          PROVE  Collects(d, Made1(d))'
      <4>1. req[d].t \in DOMAIN tenants /\ tenants[req[d].t] = held[d]
        BY <3>2, <3>4, Zenon DEF Moves, Grows
      <4>2. Collects(d, Made1(d)) /\ Made1(d)' = Made1(d) /\ Made1(d)[1] = req[d].t
        BY <1>0, <3>1, <3>4, <4>1 DEF SavesInv, Made1
      <4> QED
        BY <1>4, <1>6, <3>4, <4>1, <4>2, ZenonT(30) DEF Collects, Has
    <3> QED
      BY <1>4, <3>1, <3>2, <3>3, <3>4
  <2> QED
    BY <2>1, <2>2
<1>10. /\ \A d \in Saving' : DOMAIN todo'[d] \intersect DOMAIN doc'[d] = {}
       /\ \A d \in Conn : ph'[d] # "read" => DOMAIN todo'[d] = {}
       /\ \A d \in Conn : solo'[d] => Saving' = {d}
  BY <1>0, <1>4, ZenonT(30) DEF SavesInv, Moves
<1>11. SavesInv'
  BY <1>4, <1>8, <1>9, <1>10, Zenon DEF SavesInv
<1> QED
  BY <1>1, <1>2, <1>3, <1>7, <1>11 DEF CatInv

LEMMA DropStep ==
    ASSUME CatInv, Heap(heap), LiveOK', RefsIn(tenants', held', todo', DOMAIN heap)
    PROVE  Grows
<1>1. heap \in Maps(Arc, Tree) /\ \A a \in DOMAIN heap : NoOrphans(heap[a])
  BY DEF CatInv, CatTypeOK, TreesInv
<1>2. /\ heap' \in Maps(Arc, Tree) /\ DOMAIN heap' \subseteq DOMAIN heap
      /\ \A a \in DOMAIN heap' : heap'[a] = heap[a]
      /\ RefsIn(tenants', held', todo', DOMAIN heap')
  BY <1>1, HeapKeeps
<1> QED
  BY <1>1, <1>2 DEF Grows

\* A connection's step in which the tenant it names is provisioned.
LEMMA NewStep ==
    ASSUME CatInv, NEW t \in Tenant, Provision(t), Heap(WithTenant(t)), UNCHANGED todo, LiveOK',
           NEW c \in Conn, held' = held \/ held' = [held EXCEPT ![c] = get_or_create(t)]
    PROVE  /\ Grows /\ tenants' \in ArcMap
           /\ \A s \in DOMAIN tenants' : \/ s \in DOMAIN tenants /\ tenants'[s] = tenants[s]
                                         \/ s \notin DOMAIN tenants /\ tenants'[s] \notin DOMAIN heap
           /\ DOMAIN tenants \subseteq DOMAIN tenants'
           /\ t \in DOMAIN tenants' /\ tenants'[t] = get_or_create(t)
           /\ get_or_create(t) \in Arc /\ get_or_create(t) # NoArc
<1> DEFINE h == WithTenant(t)
           g == get_or_create(t)
<1>0. CatTypeOK /\ HeapInv
  BY DEF CatInv
<1>1. /\ h \in Maps(Arc, Tree) /\ tenants' \in ArcMap
      /\ DOMAIN tenants' = DOMAIN tenants \union {t} /\ tenants'[t] = g
      /\ \A s \in DOMAIN tenants : tenants'[s] = tenants[s]
      /\ g \in Arc /\ g \in DOMAIN h
      /\ \A a \in DOMAIN heap : a \in DOMAIN h /\ h[a] = heap[a]
      /\ \A a \in DOMAIN h : a \in DOMAIN heap \/ h[a] = Nothing
      /\ t \notin DOMAIN tenants => g \notin DOMAIN heap
  BY <1>0, ProvisionFacts, Zenon
<1>2. g # NoArc
  BY <1>1 DEF Arc, NoArc
<1>3. Heap(h)
  OBVIOUS
<1> HIDE DEF h, g
<1>4. \A d \in Conn : held'[d] = held[d] \/ held'[d] = g
  BY <1>0 DEF CatTypeOK, g
<1>5. RefsIn(tenants', held', todo', DOMAIN h)
  BY <1>0, <1>1, <1>4 DEF RefsIn, HeapInv
<1>6. /\ heap' \in Maps(Arc, Tree) /\ DOMAIN heap' \subseteq DOMAIN h
      /\ \A a \in DOMAIN heap' : heap'[a] = h[a]
      /\ RefsIn(tenants', held', todo', DOMAIN heap')
  BY <1>1, <1>3, <1>5, HeapKeeps
<1>7. \A a \in DOMAIN heap' : NoOrphans(heap'[a])
  BY <1>1, <1>6, NothingIsTree DEF CatInv, TreesInv
<1>8. Grows
  BY <1>1, <1>6, <1>7 DEF Grows
<1> QED
  BY <1>1, <1>2, <1>8 DEF g

LEMMA Requests ==
    /\ NoRequest \in Request
    /\ \A o \in Op, t \in Tenant : [NoRequest EXCEPT !.op = o, !.t = t] \in Request
                                   /\ [NoRequest EXCEPT !.op = o, !.t = t].op = o
    /\ \A t \in Tenant : [NoRequest EXCEPT !.t = t] \in Request
                         /\ [NoRequest EXCEPT !.t = t].op = "list"
    /\ NoRequest.op = "list"
<1>1. (CHOOSE n \in Lsn : TRUE) \in Lsn
  BY CatalogAssumption
<1>2. NoRequest \in Request /\ NoRequest.op = "list"
  BY <1>1, CatalogAssumption DEF NoRequest, Request, Op
<1> QED
  BY <1>2, Zenon DEF Request

LEMMA ReplyFacts ==
    ASSUME CatTypeOK, NEW c \in Conn, NEW status, Reply(c, status)
    PROVE  /\ held' \in [Conn -> Arc \union {NoArc}] /\ ph' \in [Conn -> Phase] /\ req' \in [Conn -> Request]
           /\ \A d \in Conn \ {c} : held'[d] = held[d] /\ ph'[d] = ph[d] /\ req'[d] = req[d]
           /\ c \in Line => ph'[c] = "ready" /\ held'[c] = held[c]
           /\ c \notin Line => ph'[c] = "idle" /\ held'[c] = NoArc
<1>1. req[c].t \in Tenant
  BY DEF CatTypeOK, Request
<1>2. [NoRequest EXCEPT !.t = req[c].t] \in Request /\ NoRequest \in Request
  BY <1>1, Requests, Zenon
<1> QED
  BY <1>2 DEF Reply, CatTypeOK, Phase

LEMMA LiveAfter == ASSUME TRUE PROVE LiveOK'
BY LiveFacts, PTL

-----------------------------------------------------------------------------
(***************************************************************************)
(* The requests are such steps.                                            *)
(***************************************************************************)
\* A step that answers without a change: ReadOnly, Refused, a 409 or a 404.
LEMMA AnswerMoves ==
    ASSUME CatInv, NEW c \in Conn, NEW status, Reply(c, status),
           UNCHANGED <<up, tenants, todo, doc, solo, stored, acked>>,
           Heap(heap) \/ UNCHANGED heap,
           ph[c] \in {"ready", "act", "idle"}, up,
           c \in Line => held[c] # NoArc
    PROVE  Moves(c, {})
<1>0. CatTypeOK /\ HeapInv /\ TreesInv
  BY DEF CatInv
<1>1. /\ held' \in [Conn -> Arc \union {NoArc}] /\ ph' \in [Conn -> Phase] /\ req' \in [Conn -> Request]
      /\ \A d \in Conn \ {c} : held'[d] = held[d] /\ ph'[d] = ph[d] /\ req'[d] = req[d]
      /\ c \in Line => ph'[c] = "ready" /\ held'[c] = held[c]
      /\ c \notin Line => ph'[c] = "idle" /\ held'[c] = NoArc
  BY <1>0, ReplyFacts, ZenonT(30)
<1>2. RefsIn(tenants', held', todo', DOMAIN heap)
  BY <1>0, <1>1, Zenon DEF RefsIn, HeapInv
<1>3. Grows
  <2>1. CASE Heap(heap)
    BY <1>2, <2>1, DropStep, LiveAfter
  <2>2. CASE UNCHANGED heap
    BY <1>0, <1>2, <2>2, Zenon DEF Grows, CatTypeOK, TreesInv
  <2> QED
    BY <2>1, <2>2
<1> QED
  BY <1>0, <1>1, <1>3, Zenon DEF Moves, CatTypeOK

LEMMA LinkMoves ==
    ASSUME CatInv, NEW c \in Conn, LineLink(c)
    PROVE  Moves(c, {})
<1>0. CatTypeOK /\ HeapInv /\ TreesInv
  BY DEF CatInv
<1>1. CASE LineConnect(c)
  <2>1. Zero \in Tenant
    BY CatalogAssumption
  <2>2. /\ Grows /\ tenants' \in ArcMap
        /\ \A s \in DOMAIN tenants' : \/ s \in DOMAIN tenants /\ tenants'[s] = tenants[s]
                                      \/ s \notin DOMAIN tenants /\ tenants'[s] \notin DOMAIN heap
        /\ DOMAIN tenants \subseteq DOMAIN tenants'
        /\ get_or_create(Zero) \in Arc /\ get_or_create(Zero) # NoArc
    BY <1>1, <2>1, NewStep, LiveAfter, Zenon DEF LineConnect
  <2>3. /\ held' \in [Conn -> Arc \union {NoArc}] /\ ph' \in [Conn -> Phase] /\ req' \in [Conn -> Request]
        /\ \A d \in Conn \ {c} : held'[d] = held[d] /\ ph'[d] = ph[d] /\ req'[d] = req[d]
        /\ ph'[c] = "gate" /\ held'[c] # NoArc
    BY <1>0, <1>1, <2>2, Requests, ZenonT(30) DEF LineConnect, CatTypeOK, Phase
  <2> QED
    BY <1>1, <2>2, <2>3 DEF Moves, LineConnect
<1>2. CASE LineAuth(c)
  <2>1. Grows
    BY <1>0, <1>2 DEF LineAuth, memVars, saveVars, Grows, RefsIn, CatTypeOK, TreesInv, HeapInv
  <2>2. /\ held' \in [Conn -> Arc \union {NoArc}] /\ ph' \in [Conn -> Phase] /\ req' \in [Conn -> Request]
        /\ \A d \in Conn \ {c} : held'[d] = held[d] /\ ph'[d] = ph[d] /\ req'[d] = req[d]
        /\ ph'[c] = "ready" /\ held'[c] # NoArc /\ up
    BY <1>0, <1>2, Zenon DEF LineAuth, CatTypeOK, HeapInv, Phase
  <2> QED
    BY <1>0, <1>2, <2>1, <2>2 DEF Moves, LineAuth, memVars, saveVars, CatTypeOK
<1>3. CASE LineClose(c)
  <2>1. /\ held' \in [Conn -> Arc \union {NoArc}] /\ ph' \in [Conn -> Phase] /\ req' \in [Conn -> Request]
        /\ \A d \in Conn \ {c} : held'[d] = held[d] /\ ph'[d] = ph[d] /\ req'[d] = req[d]
        /\ ph'[c] = "idle" /\ held'[c] = NoArc
    BY <1>0, <1>3, Requests, Zenon DEF LineClose, CatTypeOK, Phase
  <2>2. RefsIn(tenants', held', todo', DOMAIN heap)
    BY <1>0, <1>3, <2>1 DEF RefsIn, HeapInv, LineClose
  <2>3. Grows
    BY <1>3, <2>2, DropStep, LiveAfter DEF LineClose
  <2> QED
    BY <1>0, <1>3, <2>1, <2>3 DEF Moves, LineClose, CatTypeOK
<1> QED
  BY <1>1, <1>2, <1>3 DEF LineLink

LEMMA TenantMoves ==
    ASSUME CatInv, NEW c \in Conn, NEW t \in Tenant,
           LineTenant(c, t) \/ CreateTenant(c, t)
    PROVE  Moves(c, {})
<1>0. CatTypeOK /\ HeapInv /\ TreesInv
  BY DEF CatInv
<1>1. CASE LineTenant(c, t)
  <2>1. /\ Grows /\ tenants' \in ArcMap
        /\ \A s \in DOMAIN tenants' : \/ s \in DOMAIN tenants /\ tenants'[s] = tenants[s]
                                      \/ s \notin DOMAIN tenants /\ tenants'[s] \notin DOMAIN heap
        /\ DOMAIN tenants \subseteq DOMAIN tenants'
        /\ get_or_create(t) \in Arc /\ get_or_create(t) # NoArc
    BY <1>1, NewStep, LiveAfter, Zenon DEF LineTenant
  <2> DEFINE q == [NoRequest EXCEPT !.op = "tenant", !.t = t]
  <2>2. q \in Request /\ q.op = "tenant" /\ req' = [req EXCEPT ![c] = q]
    BY <1>1, Requests, Zenon DEF Op, LineTenant
  <2> HIDE DEF q
  <2>3. /\ held' \in [Conn -> Arc \union {NoArc}] /\ ph' \in [Conn -> Phase] /\ req' \in [Conn -> Request]
        /\ \A d \in Conn \ {c} : held'[d] = held[d] /\ ph'[d] = ph[d] /\ req'[d] = req[d]
        /\ ph'[c] = "list" /\ held'[c] # NoArc /\ req'[c].op = "tenant"
    BY <1>0, <1>1, <2>1, <2>2 DEF LineTenant, Persist, CatTypeOK, Phase
  <2>4. up /\ ph[c] = "ready"
    BY <1>0, <1>1 DEF LineTenant, HeapInv
  <2> QED
    BY <1>1, <2>1, <2>3, <2>4 DEF Moves, LineTenant
<1>2. CASE CreateTenant(c, t) /\ t \in DOMAIN tenants
  <2>1. c \notin Line
    BY <1>2, CatalogAssumption DEF CreateTenant
  <2> QED
    BY <1>2, <2>1, AnswerMoves DEF CreateTenant, memVars
<1>3. CASE CreateTenant(c, t) /\ t \notin DOMAIN tenants
  <2>1. /\ Grows /\ tenants' \in ArcMap
        /\ \A s \in DOMAIN tenants' : \/ s \in DOMAIN tenants /\ tenants'[s] = tenants[s]
                                      \/ s \notin DOMAIN tenants /\ tenants'[s] \notin DOMAIN heap
        /\ DOMAIN tenants \subseteq DOMAIN tenants'
    BY <1>3, NewStep, LiveAfter DEF CreateTenant
  <2> DEFINE q == [NoRequest EXCEPT !.op = "create_tenant", !.t = t]
  <2>2. q \in Request /\ q.op = "create_tenant" /\ req' = [req EXCEPT ![c] = q]
    BY <1>3, Requests, Zenon DEF Op, CreateTenant
  <2> HIDE DEF q
  <2>4. c \notin Line
    BY <1>3, CatalogAssumption DEF CreateTenant
  <2>3. /\ held' \in [Conn -> Arc \union {NoArc}] /\ ph' \in [Conn -> Phase] /\ req' \in [Conn -> Request]
        /\ \A d \in Conn \ {c} : held'[d] = held[d] /\ ph'[d] = ph[d] /\ req'[d] = req[d]
        /\ ph'[c] = "list" /\ req'[c].op = "create_tenant"
    BY <1>0, <1>3, <2>2 DEF CreateTenant, Persist, CatTypeOK, Phase
  <2> QED
    BY <1>3, <2>1, <2>3, <2>4 DEF Moves, CreateTenant
<1> QED
  BY <1>1, <1>2, <1>3

LEMMA DeleteMoves ==
    ASSUME CatInv, NEW c \in Conn, NEW t \in Tenant, DeleteTenant(c, t)
    PROVE  Moves(c, {t} \intersect DOMAIN tenants)
<1>0. CatTypeOK /\ HeapInv /\ TreesInv
  BY DEF CatInv
<1>1. c \notin Line
  BY CatalogAssumption DEF DeleteTenant
<1>2. CASE t \notin DOMAIN tenants
  <2>1. {t} \intersect DOMAIN tenants = {}
    BY <1>2
  <2>2. Moves(c, {})
    BY <1>1, <1>2, AnswerMoves DEF DeleteTenant, memVars
  <2> QED
    BY <2>1, <2>2
<1>3. CASE t \in DOMAIN tenants
  <2>0. {t} \intersect DOMAIN tenants = {t}
    BY <1>3
  <2>1. /\ tenants' \in ArcMap /\ DOMAIN tenants' = DOMAIN tenants \ {t}
        /\ \A s \in DOMAIN tenants' : tenants'[s] = tenants[s]
    <3>1. tenants \in Maps(Tenant, Arc) /\ tenants' = Without(tenants, t)
      BY <1>0, <1>3 DEF DeleteTenant, CatTypeOK, ArcMap
    <3>2. tenants' \in ArcMap
      BY <3>1, WithoutType DEF ArcMap
    <3> QED
      BY <3>1, <3>2 DEF Without
  <2>2. RefsIn(tenants', held', todo', DOMAIN heap)
    BY <1>0, <1>3, <2>1 DEF RefsIn, HeapInv, DeleteTenant
  <2>3. Grows
    BY <1>3, <2>2, DropStep, LiveAfter DEF DeleteTenant
  <2> DEFINE q == [NoRequest EXCEPT !.op = "delete_tenant", !.t = t]
  <2>4. q \in Request /\ q.op = "delete_tenant" /\ req' = [req EXCEPT ![c] = q]
    BY <1>3, Requests, Zenon DEF Op, DeleteTenant
  <2> HIDE DEF q
  <2>5. /\ held' \in [Conn -> Arc \union {NoArc}] /\ ph' \in [Conn -> Phase] /\ req' \in [Conn -> Request]
        /\ \A d \in Conn \ {c} : held'[d] = held[d] /\ ph'[d] = ph[d] /\ req'[d] = req[d]
        /\ ph'[c] = "list" /\ req'[c].op = "delete_tenant"
    BY <1>0, <1>3, <2>4 DEF DeleteTenant, Persist, CatTypeOK, Phase
  <2>6. acked' = {b \in acked : b[1] \notin {t}}
    BY <1>3, Zenon DEF DeleteTenant
  <2> QED
    BY <1>1, <1>3, <2>0, <2>1, <2>3, <2>5, <2>6 DEF Moves, DeleteTenant
<1> QED
  BY <1>2, <1>3

LEMMA ResolveMoves ==
    ASSUME CatInv, NEW c \in Conn, NEW r \in Request, Resolve(c, r)
    PROVE  /\ Moves(c, {}) /\ ph' = [ph EXCEPT ![c] = "act"]
           /\ r.t \in DOMAIN tenants' /\ tenants'[r.t] = held'[c]
<1>0. CatTypeOK /\ HeapInv
  BY DEF CatInv
<1>1. r.t \in Tenant
  BY DEF Request
<1>2. /\ Grows /\ tenants' \in ArcMap
      /\ \A s \in DOMAIN tenants' : \/ s \in DOMAIN tenants /\ tenants'[s] = tenants[s]
                                    \/ s \notin DOMAIN tenants /\ tenants'[s] \notin DOMAIN heap
      /\ DOMAIN tenants \subseteq DOMAIN tenants'
      /\ r.t \in DOMAIN tenants' /\ tenants'[r.t] = get_or_create(r.t)
      /\ get_or_create(r.t) \in Arc /\ get_or_create(r.t) # NoArc
  BY <1>1, NewStep, LiveAfter, ZenonT(30) DEF Resolve
<1>3. /\ held' \in [Conn -> Arc \union {NoArc}] /\ ph' \in [Conn -> Phase] /\ req' \in [Conn -> Request]
      /\ \A d \in Conn \ {c} : held'[d] = held[d] /\ ph'[d] = ph[d] /\ req'[d] = req[d]
      /\ ph'[c] = "act" /\ held'[c] = get_or_create(r.t)
  BY <1>0, <1>2, ZenonT(30) DEF Resolve, CatTypeOK, Phase
<1> QED
  BY <1>2, <1>3 DEF Moves, Resolve

LEMMA ApplyMoves ==
    ASSUME CatInv, NEW c \in Conn, NEW r \in Request, NEW record \in Record,
           ph[c] \in {"ready", "act"}, r.l \notin DOMAIN heap[held[c]],
           record = RootRecord \/ record[1] \in DOMAIN heap[held[c]],
           Apply(c, r, record)
    PROVE  /\ Moves(c, {})
           /\ held[c] \in DOMAIN heap /\ DOMAIN heap' = DOMAIN heap
           /\ r.l \in DOMAIN heap'[held[c]]
<1>0. CatTypeOK /\ HeapInv /\ TreesInv
  BY Zenon DEF CatInv
<1>1. /\ held[c] # NoArc /\ held[c] \in DOMAIN heap /\ held[c] \in Arc
      /\ heap[held[c]] \in Tree /\ NoOrphans(heap[held[c]]) /\ up /\ r.l \in Timeline
  BY <1>0, MapFacts DEF HeapInv, TreesInv, CatTypeOK, Request
<1> DEFINE new == Put(heap[held[c]], r.l, record)
<1>2. new \in Tree /\ NoOrphans(new)
  BY <1>1, TreeGrows, Zenon
<1>3. DOMAIN new = DOMAIN heap[held[c]] \union {r.l}
  BY DEF Put
<1>4. heap' = [heap EXCEPT ![held[c]] = new]
  BY Zenon DEF Apply
<1> HIDE DEF new
<1>5. heap \in [DOMAIN heap -> Tree] /\ DOMAIN heap \subseteq Arc
  BY <1>0, MapFacts DEF CatTypeOK
<1>6. /\ heap' \in [DOMAIN heap -> Tree] /\ heap'[held[c]] = new
      /\ \A a \in DOMAIN heap : a # held[c] => heap'[a] = heap[a]
  BY <1>1, <1>2, <1>4, <1>5
<1>7. heap' \in Maps(Arc, Tree) /\ DOMAIN heap' = DOMAIN heap
  BY <1>5, <1>6, MapIntro, ZenonT(30)
<1>8. RefsIn(tenants', held', todo', DOMAIN heap')
  BY <1>0, <1>7 DEF RefsIn, HeapInv, Apply, saveVars
<1>9. Grows
  BY <1>0, <1>2, <1>3, <1>6, <1>7, <1>8, ZenonT(30) DEF Grows, TreesInv
<1>10. /\ held' \in [Conn -> Arc \union {NoArc}] /\ ph' \in [Conn -> Phase] /\ req' \in [Conn -> Request]
       /\ \A d \in Conn \ {c} : held'[d] = held[d] /\ ph'[d] = ph[d] /\ req'[d] = req[d]
       /\ ph'[c] = "list" /\ held'[c] = held[c] /\ req'[c] = r
  BY <1>0 DEF Apply, Persist, CatTypeOK, Phase
<1>11. r.l \in DOMAIN heap'[held[c]]
  BY <1>3, <1>6
<1>12. Moves(c, {})
  BY <1>0, <1>1, <1>9, <1>10, <1>11, Zenon DEF Moves, Apply, saveVars, CatTypeOK
<1> QED
  BY <1>1, <1>7, <1>11, <1>12, ZenonT(30)

\* create and branch, applied or refused.
LEMMA TimelineMoves ==
    ASSUME CatInv, NEW c \in Conn, NEW r \in Request, Create(c, r) \/ Branch(c, r)
    PROVE  /\ Moves(c, {})
           /\ held[c] \in DOMAIN heap' /\ (r.p \in DOMAIN heap[held[c]] \/ r.op = "create") =>
                 r.l \in DOMAIN heap'[held[c]]
           /\ tenants' = tenants /\ Asks(c, r)
           /\ \/ ph' = [ph EXCEPT ![c] = "list"] /\ UNCHANGED <<ans, held>> /\ req' = [req EXCEPT ![c] = r]
              \/ Reply(c, "conflict")
<1>0. CatTypeOK /\ HeapInv
  BY DEF CatInv
<1>1. ph[c] \in {"ready", "act"} /\ up /\ held[c] # NoArc /\ Asks(c, r)
  BY <1>0 DEF Create, Branch, Asks, HeapInv
<1>2. CASE Refused(c)
  <2>1. Moves(c, {})
    BY <1>1, <1>2, AnswerMoves, Zenon DEF Refused
  <2>2. r.p \in DOMAIN heap[held[c]] \/ r.op = "create" => r.l \in DOMAIN heap[held[c]]
    <3>1. ~ Apply(c, r, RootRecord) /\ ~ Apply(c, r, <<r.p, r.n>>)
      <4>1. ph'[c] # "list"
        BY <1>0, <1>2, ReplyFacts, Zenon DEF Refused, CatTypeOK
      <4>2. Persist(c) => ph'[c] = "list"
        BY <1>0 DEF Persist, CatTypeOK
      <4> QED
        BY <4>1, <4>2 DEF Apply
    <3> QED
      BY <3>1 DEF Create, Branch, create_timeline, branch_timeline
  <2>3. held[c] \in DOMAIN heap' => DOMAIN heap[held[c]] \subseteq DOMAIN heap'[held[c]]
    BY <1>0, <1>1, <2>1, ZenonT(30) DEF Moves, Grows, HeapInv
  <2> QED
    BY <1>1, <1>2, <2>1, <2>2, <2>3 DEF Refused
<1>3. CASE \E record \in Record : /\ Apply(c, r, record) /\ r.l \notin DOMAIN heap[held[c]]
                                  /\ record = RootRecord \/ record[1] \in DOMAIN heap[held[c]]
  <2>1. Moves(c, {}) /\ r.l \in DOMAIN heap'[held[c]]
    BY <1>1, <1>3, ApplyMoves
  <2> QED
    BY <1>1, <1>3, <2>1, Zenon DEF Apply, Persist
<1>4. <<r.p, r.n>> \in Record /\ <<r.p, r.n>>[1] = r.p /\ RootRecord \in Record
  BY Zenon DEF Request, Record
<1> QED
  BY <1>2, <1>3, <1>4, Zenon DEF Create, Branch, create_timeline, branch_timeline

-----------------------------------------------------------------------------
(***************************************************************************)
(* The steps of a save.                                                    *)
(***************************************************************************)
Stays ==
    /\ heap' \in Maps(Arc, Tree) /\ DOMAIN heap' \subseteq DOMAIN heap
    /\ \A a \in DOMAIN heap' : heap'[a] = heap[a]
    /\ RefsIn(tenants', held', todo', DOMAIN heap')

LEMMA StaysGrows ==
    ASSUME CatInv, Stays
    PROVE  Grows
BY DEF Stays, Grows, CatInv, TreesInv

LEMMA HeapStays ==
    ASSUME CatInv, Heap(heap), RefsIn(tenants', held', todo', DOMAIN heap)
    PROVE  Stays
<1>1. heap \in Maps(Arc, Tree) /\ LiveOK'
  BY LiveAfter DEF CatInv, CatTypeOK
<1> QED
  BY <1>1, HeapKeeps DEF Stays

\* A save whose collection is left alone still collects what it did.
LEMMA CollectsSame ==
    ASSUME NEW d, NEW b, Collects(d, b), tenants' = tenants, todo'[d] = todo[d], doc'[d] = doc[d]
    PROVE  Collects(d, b)'
BY Zenon DEF Collects, Has

\* What the invariant says of a save that made something.
LEMMA MakesFacts ==
    ASSUME SavesInv, NEW d \in Saving, d \in Conn, Makes(d), req[d].t \in DOMAIN tenants,
           tenants[req[d].t] = held[d]
    PROVE  Collects(d, Made1(d))
BY Zenon DEF SavesInv

LEMMA ListKeeps ==
    ASSUME CatInv, NEW c \in Conn, SaveList(c)
    PROVE  CatInv' /\ Stays
<1>0. CatTypeOK /\ HeapInv /\ TreesInv /\ SavesInv /\ AckedDurable
  BY DEF CatInv
<1>1. /\ UNCHANGED <<up, heap, tenants, held, req, ans, stored, acked>> /\ ph[c] = "list" /\ up
      /\ todo' = [todo EXCEPT ![c] = tenants] /\ doc' = [doc EXCEPT ![c] = Nothing]
  BY <1>0 DEF SaveList, memVars, HeapInv
<1>2. Nothing \in Document /\ DOMAIN Nothing = {}
  BY NothingFacts DEF Document
<1>3. /\ ph' \in [Conn -> Phase] /\ ph'[c] \in {"read", "put"} /\ \A d \in Conn \ {c} : ph'[d] = ph[d]
      /\ ph'[c] # "read" => DOMAIN tenants = {}
  BY <1>0, <1>2 DEF SaveList, CatTypeOK, Phase
<1>4. /\ todo' \in [Conn -> ArcMap] /\ todo'[c] = tenants /\ \A d \in Conn \ {c} : todo'[d] = todo[d]
      /\ doc' \in [Conn -> Document] /\ doc'[c] = Nothing /\ \A d \in Conn \ {c} : doc'[d] = doc[d]
  BY <1>0, <1>1, <1>2 DEF CatTypeOK
<1>5. solo' \in [Conn -> BOOLEAN] /\ \A d \in Conn : solo'[d] => d = c /\ Saving = {}
  <2>1. solo' = [d \in Conn |-> IF d = c THEN Saving = {} ELSE solo[d] /\ d \notin Saving]
    BY DEF SaveList
  <2>2. solo' \in [Conn -> BOOLEAN]
    BY <1>0, <2>1, Zenon DEF CatTypeOK
  <2>3. \A d \in Conn : solo[d] => d \in Saving
    BY <1>0 DEF SavesInv
  <2> QED
    BY <2>1, <2>2, <2>3
<1>6. Saving' = Saving \union {c} /\ c \notin Saving
  BY <1>1, <1>3 DEF Saving
<1>7. CatTypeOK'
  BY <1>0, <1>1, <1>3, <1>4, <1>5 DEF CatTypeOK
<1>8. HeapInv'
  BY <1>0, <1>1, <1>3, <1>4 DEF HeapInv
<1>9. TreesInv'
  BY <1>0, <1>1, <1>2, <1>4, ZenonT(30) DEF TreesInv
<1>10. AckedDurable'
  BY <1>0, <1>1, Zenon DEF AckedDurable, Has
<1>11. SavesInv'
  <2>1. \A d \in Saving' : DOMAIN todo'[d] \intersect DOMAIN doc'[d] = {}
    BY <1>0, <1>2, <1>4, <1>6, Zenon DEF SavesInv, Saving
  <2>2. \A d \in Conn : ph'[d] # "read" => DOMAIN todo'[d] = {}
    BY <1>0, <1>3, <1>4, Zenon DEF SavesInv
  <2>3. \A d \in Conn : solo'[d] => Saving' = {d}
    BY <1>5, <1>6
  <2>4. ASSUME NEW d \in Saving', NEW b \in acked' PROVE Collects(d, b)'
    <3>1. b \in acked /\ d \in Conn
      BY <1>1, <2>4, Zenon DEF Saving
    <3>2. CASE d = c
      <4>1. b[1] \in DOMAIN tenants
        BY <1>0, <1>1, <3>1, Zenon DEF AckedDurable
      <4> QED
        BY <1>1, <1>4, <3>2, <4>1, Zenon DEF Collects
    <3>3. CASE d # c
      <4>1. Collects(d, b)
        BY <1>0, <1>6, <2>4, <3>1, <3>3, Zenon DEF SavesInv
      <4> QED
        BY <1>1, <1>4, <3>1, <3>3, <4>1, CollectsSame, Zenon
    <3> QED
      BY <3>2, <3>3, Zenon
  <2>5. ASSUME NEW d \in Conn, Makes(d)'
        PROVE  /\ held'[d] # NoArc /\ req'[d].l \in DOMAIN heap'[held'[d]]
               /\ /\ d \in Saving'
                  /\ req'[d].t \in DOMAIN tenants' /\ tenants'[req'[d].t] = held'[d]
                  => Collects(d, Made1(d))'
    <3>1. Makes(d)
      BY <1>1, <1>3, <2>5, Zenon DEF Makes
    <3>2. held[d] # NoArc /\ req[d].l \in DOMAIN heap[held[d]] /\ Made1(d)' = Made1(d)
      BY <1>0, <1>1, <3>1, ZenonT(30) DEF SavesInv, Made1
    <3>3. CASE d = c
      BY <1>1, <1>4, <3>2, <3>3 DEF Collects, Made1
    <3>4. CASE d # c
      <4>1. ASSUME d \in Saving', req'[d].t \in DOMAIN tenants', tenants'[req'[d].t] = held'[d]
            PROVE  Collects(d, Made1(d))'
        <5>1. d \in Saving
          BY <1>6, <3>4, <4>1, Zenon
        <5>2. PICK b : b = Made1(d)
          OBVIOUS
        <5>3. Collects(d, b)
          BY <1>0, <1>1, <3>1, <4>1, <5>1, <5>2, MakesFacts, Zenon
        <5>4. Collects(d, b)'
          BY <1>1, <1>4, <3>4, <5>3, CollectsSame, Zenon
        <5> QED
          BY <3>2, <5>2, <5>4, Zenon
      <4> QED
        BY <1>1, <3>2, <4>1, Zenon
    <3> QED
      BY <3>3, <3>4, Zenon
  <2> QED
    BY <2>1, <2>2, <2>3, <2>4, <2>5, ZenonT(30) DEF SavesInv
<1>12. Stays
  BY <1>0, <1>1, <1>4, Zenon DEF Stays, CatTypeOK, HeapInv, RefsIn
<1> QED
  BY <1>7, <1>8, <1>9, <1>10, <1>11, <1>12 DEF CatInv

LEMMA ReadKeeps ==
    ASSUME CatInv, NEW c \in Conn, NEW t \in Tenant, SaveRead(c, t)
    PROVE  CatInv' /\ Stays
<1>0. CatTypeOK /\ HeapInv /\ TreesInv /\ SavesInv /\ AckedDurable
  BY DEF CatInv
<1>1. /\ UNCHANGED <<up, tenants, held, req, ans, stored, solo, acked>> /\ ph[c] = "read" /\ up
      /\ todo' = [todo EXCEPT ![c] = Without(todo[c], t)]
      /\ doc' = [doc EXCEPT ![c] = Put(doc[c], t, heap[todo[c][t]])]
      /\ t \in DOMAIN todo[c] /\ todo[c][t] \in DOMAIN heap
  BY <1>0, Zenon DEF SaveRead, HeapInv
<1>2. heap[todo[c][t]] \in Tree /\ NoOrphans(heap[todo[c][t]])
  BY <1>0, <1>1, MapFacts DEF CatTypeOK, TreesInv
<1> DEFINE D == Put(doc[c], t, heap[todo[c][t]])
           T == Without(todo[c], t)
<1>3. D \in Document /\ T \in ArcMap
  BY <1>0, <1>2, PutType, WithoutType DEF Document, ArcMap, CatTypeOK
<1>4. /\ DOMAIN D = DOMAIN doc[c] \union {t} /\ D[t] = heap[todo[c][t]]
      /\ \A s \in DOMAIN doc[c] : s # t => D[s] = doc[c][s]
      /\ DOMAIN T = DOMAIN todo[c] \ {t} /\ \A s \in DOMAIN T : T[s] = todo[c][s]
  BY DEF Put, Without
<1> HIDE DEF D, T
<1>5. /\ todo' \in [Conn -> ArcMap] /\ todo'[c] = T /\ \A d \in Conn \ {c} : todo'[d] = todo[d]
      /\ doc' \in [Conn -> Document] /\ doc'[c] = D /\ \A d \in Conn \ {c} : doc'[d] = doc[d]
  BY <1>0, <1>1, <1>3, Zenon DEF CatTypeOK, D, T
<1>6. /\ ph' \in [Conn -> Phase] /\ ph'[c] \in {"read", "put"} /\ \A d \in Conn \ {c} : ph'[d] = ph[d]
      /\ ph'[c] # "read" => DOMAIN todo[c] = {t}
  BY <1>0, Zenon DEF SaveRead, CatTypeOK, Phase
<1>7. Saving' = Saving /\ c \in Saving
  BY <1>1, <1>6, Zenon DEF Saving
<1>8. RefsIn(tenants', held', todo', DOMAIN heap)
  BY <1>0, <1>1, <1>4, <1>5, ZenonT(30) DEF RefsIn, HeapInv
<1>9. Stays
  BY <1>8, HeapStays, Zenon DEF SaveRead
<1>10. CatTypeOK'
  BY <1>0, <1>1, <1>5, <1>6, <1>9, Zenon DEF CatTypeOK, Stays
<1>11. HeapInv'
  BY <1>0, <1>1, <1>6, <1>9, Zenon DEF HeapInv, Stays, RefsIn
<1>12. TreesInv'
  BY <1>0, <1>1, <1>2, <1>4, <1>5, <1>9, ZenonT(30) DEF TreesInv, Stays
<1>13. \A s \in DOMAIN tenants : tenants[s] \in DOMAIN heap' /\ heap'[tenants[s]] = heap[tenants[s]]
  BY <1>1, <1>9, Zenon DEF Stays, RefsIn
<1>14. AckedDurable'
  BY <1>0, <1>1, <1>13, Zenon DEF AckedDurable, Has
<1>15. ASSUME NEW d \in Saving, NEW b \in Tenant \X Timeline, Collects(d, b), b[1] \in DOMAIN tenants,
              b[2] \in DOMAIN heap[tenants[b[1]]]
       PROVE  Collects(d, b)'
  <2>1. CASE d # c
    BY <1>1, <1>5, <1>15, <2>1, Zenon DEF Collects, Has, Saving
  <2>2. CASE d = c /\ b[1] # t
    BY <1>1, <1>4, <1>5, <1>15, <2>2, Zenon DEF Collects, Has
  <2>3. CASE d = c /\ b[1] = t
    <3>1. t \notin DOMAIN doc[c]
      BY <1>0, <1>1, <1>7, ZenonT(30) DEF SavesInv
    <3>2. todo[c][t] = tenants[t]
      BY <1>15, <2>3, <3>1 DEF Collects, Has
    <3> QED
      BY <1>4, <1>5, <1>15, <2>3, <3>2, Zenon DEF Collects, Has
  <2> QED
    BY <2>1, <2>2, <2>3
<1>16. SavesInv'
  <2>1. \A d \in Saving' : DOMAIN todo'[d] \intersect DOMAIN doc'[d] = {}
    <3> SUFFICES ASSUME NEW d \in Saving'
                 PROVE  DOMAIN todo'[d] \intersect DOMAIN doc'[d] = {}
      OBVIOUS
    <3>1. d \in Conn /\ DOMAIN todo[d] \intersect DOMAIN doc[d] = {}
      BY <1>0, <1>7, Zenon DEF SavesInv, Saving
    <3>2. CASE d = c
      BY <1>4, <1>5, <3>1, <3>2
    <3>3. CASE d # c
      BY <1>5, <3>1, <3>3, Zenon
    <3> QED
      BY <3>2, <3>3, Zenon
  <2>2. \A d \in Conn : ph'[d] # "read" => DOMAIN todo'[d] = {}
    BY <1>0, <1>4, <1>5, <1>6, ZenonT(30) DEF SavesInv
  <2>3. \A d \in Conn : solo'[d] => Saving' = {d}
    BY <1>0, <1>1, <1>7, Zenon DEF SavesInv
  <2>4. \A d \in Saving', b \in acked' : Collects(d, b)'
    BY <1>0, <1>1, <1>7, <1>15, Zenon DEF SavesInv, AckedDurable, CatTypeOK
  <2>5. ASSUME NEW d \in Conn, Makes(d)'
        PROVE  /\ held'[d] # NoArc /\ req'[d].l \in DOMAIN heap'[held'[d]]
               /\ /\ d \in Saving'
                  /\ req'[d].t \in DOMAIN tenants' /\ tenants'[req'[d].t] = held'[d]
                  => Collects(d, Made1(d))'
    <3>1. Makes(d)
      BY <1>1, <1>6, <2>5, Zenon DEF Makes
    <3>2. held[d] # NoArc /\ req[d].l \in DOMAIN heap[held[d]] /\ Made1(d)' = Made1(d)
      BY <1>0, <1>1, <3>1, Zenon DEF SavesInv, Made1
    <3>3. held'[d] # NoArc /\ req'[d].l \in DOMAIN heap'[held'[d]]
      BY <1>1, <1>9, <3>2, Zenon DEF Stays, RefsIn
    <3>4. ASSUME d \in Saving, req[d].t \in DOMAIN tenants, tenants[req[d].t] = held[d]
          PROVE  Collects(d, Made1(d))'
      <4>1. Collects(d, Made1(d))
        BY <1>0, <3>1, <3>4, Zenon DEF SavesInv
      <4>2. Made1(d) \in Tenant \X Timeline /\ Made1(d)[1] = req[d].t /\ Made1(d)[2] = req[d].l
        BY <1>0 DEF Made1, CatTypeOK, Request
      <4>3. \A b \in Tenant \X Timeline : Collects(d, b) /\ b[1] \in DOMAIN tenants
                /\ b[2] \in DOMAIN heap[tenants[b[1]]] => Collects(d, b)'
        BY <1>15, <3>4
      <4> QED
        BY <3>2, <3>4, <4>1, <4>2, <4>3, Zenon DEF Collects, Has
    <3> QED
      BY <1>1, <1>7, <3>3, <3>4, Zenon
  <2> QED
    BY <2>1, <2>2, <2>3, <2>4, <2>5, Zenon DEF SavesInv
<1> QED
  BY <1>9, <1>10, <1>11, <1>12, <1>14, <1>16 DEF CatInv

\* The put, done or failed: the object is the document or is left alone, and
\* clients may count on nothing more, or on what this request made.
LEMMA PutKeeps ==
    ASSUME CatInv, NEW c \in Conn, SavePut(c) \/ SavePutFails(c)
    PROVE  CatInv' /\ Stays
<1>0. CatTypeOK /\ HeapInv /\ TreesInv /\ SavesInv /\ AckedDurable
  BY DEF CatInv
<1>1. /\ UNCHANGED <<up, tenants, todo>> /\ ph[c] = "put" /\ up /\ DOMAIN todo[c] = {}
      /\ Reply(c, "ok") /\ Heap(heap)
      /\ doc' = [doc EXCEPT ![c] = Nothing] /\ solo' = [solo EXCEPT ![c] = FALSE]
  BY <1>0, Zenon DEF SavePut, SavePutFails, Saved, HeapInv, SavesInv
<1>2. /\ held' \in [Conn -> Arc \union {NoArc}] /\ ph' \in [Conn -> Phase] /\ req' \in [Conn -> Request]
      /\ \A d \in Conn \ {c} : held'[d] = held[d] /\ ph'[d] = ph[d] /\ req'[d] = req[d]
      /\ c \in Line => ph'[c] = "ready" /\ held'[c] = held[c]
      /\ c \notin Line => ph'[c] = "idle" /\ held'[c] = NoArc
  BY <1>0, <1>1, ReplyFacts, Zenon
<1>3. Nothing \in Document /\ DOMAIN Nothing = {}
  BY NothingFacts DEF Document
<1>4. /\ doc' \in [Conn -> Document] /\ doc'[c] = Nothing /\ \A d \in Conn \ {c} : doc'[d] = doc[d]
      /\ solo' \in [Conn -> BOOLEAN] /\ ~ solo'[c] /\ \A d \in Conn \ {c} : solo'[d] = solo[d]
  BY <1>0, <1>1, <1>3 DEF CatTypeOK
<1>5. Saving' = Saving \ {c} /\ c \in Saving
  BY <1>1, <1>2, Zenon DEF Saving
<1>6. RefsIn(tenants', held', todo', DOMAIN heap)
  BY <1>0, <1>1, <1>2 DEF RefsIn, HeapInv
<1>7. Stays
  BY <1>1, <1>6, HeapStays, Zenon
<1>8. \A s \in DOMAIN tenants : tenants[s] \in DOMAIN heap' /\ heap'[tenants[s]] = heap[tenants[s]]
  BY <1>1, <1>7, Zenon DEF Stays, RefsIn
<1>9. \A b \in acked : Has(doc[c], b)
  BY <1>0, <1>1, <1>5, Zenon DEF SavesInv, Collects
<1>10. ASSUME NEW b \in Made(c)
       PROVE  /\ b \in Tenant \X Timeline /\ Has(doc[c], b)
              /\ b[1] \in DOMAIN tenants /\ b[2] \in DOMAIN heap[tenants[b[1]]]
  <2>1. /\ b = <<req[c].t, req[c].l>> /\ Makes(c)
        /\ req[c].t \in DOMAIN tenants /\ tenants[req[c].t] = held[c]
    BY <1>1, Zenon DEF Made, Makes
  <2>2. req[c].t \in Tenant /\ req[c].l \in Timeline
    BY <1>0, Zenon DEF CatTypeOK, Request
  <2>3. Collects(c, b) /\ req[c].l \in DOMAIN heap[held[c]]
    BY <1>0, <1>5, <2>1 DEF SavesInv, Made1
  <2> QED
    BY <1>1, <2>1, <2>2, <2>3, ZenonT(30) DEF Collects
<1>11. \/ stored' = stored /\ acked' = acked
       \/ stored' = doc[c] /\ acked' = acked \union (IF solo[c] THEN Made(c) ELSE {})
  BY DEF SavePut, SavePutFails
<1>12. CatTypeOK'
  <2>1. stored' \in Document /\ acked' \subseteq Tenant \X Timeline
    <3>1. stored \in Document /\ doc[c] \in Document /\ acked \subseteq Tenant \X Timeline
      BY <1>0, ZenonT(30) DEF CatTypeOK
    <3>2. acked' \subseteq acked \union Made(c)
      BY <1>11
    <3> QED
      BY <1>10, <1>11, <3>1, <3>2, Zenon
  <2> QED
    BY <1>0, <1>1, <1>2, <1>4, <1>7, <2>1, Zenon DEF CatTypeOK, Stays
<1>13. HeapInv'
  BY <1>0, <1>1, <1>2, <1>7, Zenon DEF HeapInv, Stays, RefsIn
<1>14. TreesInv'
  BY <1>0, <1>3, <1>4, <1>7, <1>11, Zenon DEF TreesInv, Stays
<1>15. AckedDurable'
  <2> SUFFICES ASSUME NEW b \in acked'
               PROVE  /\ Has(stored', b)
                      /\ b[1] \in DOMAIN tenants /\ b[2] \in DOMAIN heap[tenants[b[1]]]
    BY <1>1, <1>8 DEF AckedDurable, Has
  <2>1. CASE b \in acked
    <3>1. b[1] \in DOMAIN tenants /\ b[2] \in DOMAIN heap[tenants[b[1]]] /\ Has(stored, b)
      BY <1>0, <1>1, <2>1, Zenon DEF AckedDurable
    <3> QED
      BY <1>9, <1>11, <2>1, <3>1, Zenon
  <2>2. CASE b \notin acked
    <3>1. stored' = doc[c] /\ b \in Made(c)
      BY <1>11, <2>2
    <3> QED
      BY <1>10, <3>1, Zenon
  <2> QED
    BY <2>1, <2>2, ZenonT(30)
<1>16. SavesInv'
  <2>1. \A d \in Saving' : DOMAIN todo'[d] \intersect DOMAIN doc'[d] = {}
    BY <1>0, <1>1, <1>4, <1>5, Zenon DEF SavesInv, Saving
  <2>2. \A d \in Conn : ph'[d] # "read" => DOMAIN todo'[d] = {}
    BY <1>0, <1>1, <1>2, Zenon DEF SavesInv
  <2>3. ASSUME NEW d \in Conn, solo'[d] PROVE Saving' = {d}
    <3>1. d # c /\ solo[d]
      BY <1>4, <2>3, Zenon
    <3>2. Saving = {d}
      BY <1>0, <3>1, Zenon DEF SavesInv
    <3> QED
      BY <1>5, <3>1, <3>2
  <2>4. ASSUME NEW d \in Saving', NEW b \in acked' PROVE Collects(d, b)'
    <3>1. d \in Saving /\ d # c /\ ~ solo[c]
      BY <1>0, <1>5, <2>4 DEF SavesInv
    <3>2. b \in acked
      BY <1>11, <3>1
    <3>3. Collects(d, b) /\ d \in Conn
      BY <1>0, <3>1, <3>2, Zenon DEF SavesInv, Saving
    <3> QED
      BY <1>1, <1>4, <3>1, <3>3, ZenonT(30) DEF Collects, Has
  <2>5. ASSUME NEW d \in Conn, Makes(d)'
        PROVE  /\ held'[d] # NoArc /\ req'[d].l \in DOMAIN heap'[held'[d]]
               /\ /\ d \in Saving'
                  /\ req'[d].t \in DOMAIN tenants' /\ tenants'[req'[d].t] = held'[d]
                  => Collects(d, Made1(d))'
    <3>1. d # c /\ Makes(d) /\ held'[d] = held[d] /\ req'[d] = req[d]
      BY <1>2, <2>5, Zenon DEF Makes
    <3>2. held[d] # NoArc /\ req[d].l \in DOMAIN heap[held[d]] /\ Made1(d)' = Made1(d)
      BY <1>0, <3>1, Zenon DEF SavesInv, Made1
    <3>3. req[d].l \in DOMAIN heap'[held[d]]
      BY <1>7, <3>1, <3>2, Zenon DEF Stays, RefsIn
    <3>4. ASSUME d \in Saving, req[d].t \in DOMAIN tenants, tenants[req[d].t] = held[d]
          PROVE  Collects(d, Made1(d))'
      <4>1. PICK b : b = Made1(d)
        OBVIOUS
      <4>2. Collects(d, b)
        BY <1>0, <3>1, <3>4, <4>1, MakesFacts, Zenon
      <4>3. Collects(d, b)'
        BY <1>1, <1>4, <3>1, <4>2, CollectsSame, Zenon
      <4> QED
        BY <3>2, <4>1, <4>3, Zenon
    <3> QED
      BY <1>1, <1>5, <3>1, <3>2, <3>3, <3>4, Zenon
  <2> QED
    BY <2>1, <2>2, <2>3, <2>4, <2>5, Zenon DEF SavesInv
<1> QED
  BY <1>7, <1>12, <1>13, <1>14, <1>15, <1>16 DEF CatInv

-----------------------------------------------------------------------------
(***************************************************************************)
(* The server dies, and starts again from the catalog object.              *)
(***************************************************************************)
LEMMA CrashKeeps ==
    ASSUME CatInv, Crash
    PROVE  CatInv'
<1>0. CatTypeOK /\ TreesInv /\ AckedDurable
  BY DEF CatInv
<1>1. /\ Nothing \in Maps(Arc, Tree) /\ Nothing \in ArcMap /\ Nothing \in Document
      /\ DOMAIN Nothing = {} /\ NoRequest \in Request
  BY NothingFacts, Requests, Zenon DEF ArcMap, Document
<1>2. /\ ~ up' /\ heap' = Nothing /\ tenants' = Nothing /\ stored' = stored /\ acked' = acked
      /\ \A c \in Conn : /\ held'[c] = NoArc /\ ph'[c] = "idle" /\ todo'[c] = Nothing
                         /\ doc'[c] = Nothing /\ ~ solo'[c]
  BY Zenon DEF Crash
<1>3. CatTypeOK'
  BY <1>0, <1>1, Zenon DEF Crash, CatTypeOK, Phase
<1>4. HeapInv' /\ TreesInv' /\ AckedDurable'
  BY <1>0, <1>1, <1>2, Zenon DEF HeapInv, TreesInv, AckedDurable, Has
<1>5. SavesInv'
  BY <1>1, <1>2, Zenon DEF SavesInv, Saving, Makes
<1> QED
  BY <1>3, <1>4, <1>5 DEF CatInv

LEMMA RootAdded ==
    ASSUME NEW cat \in Document, \A t \in DOMAIN cat : NoOrphans(cat[t])
    PROVE  /\ WithRoot(cat) \in Document
           /\ \A t \in DOMAIN WithRoot(cat) : NoOrphans(WithRoot(cat)[t])
           /\ \A b : Has(cat, b) => Has(WithRoot(cat), b)
<1> DEFINE zero == IF Zero \in DOMAIN cat THEN cat[Zero] ELSE Nothing
           root == IF Root \in DOMAIN zero THEN zero ELSE Put(zero, Root, RootRecord)
<1>1. WithRoot(cat) = Put(cat, Zero, root)
  BY DEF WithRoot
<1>2. zero \in Tree /\ NoOrphans(zero)
  BY NothingFacts, NothingIsTree, MapFacts DEF Tree, Document
<1>3. Root \in Timeline /\ Zero \in Tenant /\ RootRecord \in Record
  BY CatalogAssumption DEF Record
<1>4. Zero \in DOMAIN cat => zero = cat[Zero]
  OBVIOUS
<1> HIDE DEF zero
<1>5. root \in Tree /\ NoOrphans(root)
  BY <1>2, <1>3, TreeGrows
<1>6. DOMAIN zero \subseteq DOMAIN root
  BY DEF Put
<1> HIDE DEF root
<1>7. Put(cat, Zero, root) \in Document
  BY <1>3, <1>5, PutType DEF Document
<1>8. /\ DOMAIN Put(cat, Zero, root) = DOMAIN cat \union {Zero}
      /\ Put(cat, Zero, root)[Zero] = root
      /\ \A t \in DOMAIN cat : t # Zero => Put(cat, Zero, root)[t] = cat[t]
  BY DEF Put
<1> QED
  BY <1>1, <1>4, <1>5, <1>6, <1>7, <1>8 DEF Has

LEMMA ServeFacts ==
    ASSUME NEW cat \in Document, Serve(cat)
    PROVE  /\ up' /\ tenants' \in ArcMap /\ heap' \in Maps(Arc, Tree)
           /\ DOMAIN tenants' = DOMAIN cat
           /\ \A t \in DOMAIN cat : tenants'[t] \in DOMAIN heap' /\ heap'[tenants'[t]] = cat[t]
           /\ \A a \in DOMAIN heap' : \E t \in DOMAIN cat : heap'[a] = cat[t]
<1> DEFINE arc == CHOOSE f \in Arcs(cat) : TRUE
<1>1. arc \in Arcs(cat) /\ up' = TRUE /\ tenants' = arc
      /\ heap' = [a \in Values(arc) |-> cat[CHOOSE t \in DOMAIN cat : arc[t] = a]]
  BY DEF Serve
<1> HIDE DEF arc
<1>2. arc \in [DOMAIN cat -> Arc] /\ \A s, t \in DOMAIN cat : arc[s] = arc[t] => s = t
  BY <1>1 DEF Arcs
<1>3. /\ \A t \in DOMAIN cat : arc[t] \in Values(arc)
      /\ \A a \in Values(arc) : \E t \in DOMAIN cat : arc[t] = a
      /\ DOMAIN arc = DOMAIN cat
  BY <1>2 DEF Values
<1>4. cat \in [DOMAIN cat -> Tree] /\ DOMAIN cat \subseteq Tenant
  BY MapFacts DEF Document
<1> DEFINE owner(a) == CHOOSE t \in DOMAIN cat : arc[t] = a
<1>5. \A a \in Values(arc) : owner(a) \in DOMAIN cat /\ arc[owner(a)] = a
  BY <1>3, Zenon
<1>6. heap' = [a \in Values(arc) |-> cat[owner(a)]]
  BY <1>1
<1> HIDE DEF owner
<1>7. heap' \in [Values(arc) -> Tree] /\ \A a \in Values(arc) : heap'[a] = cat[owner(a)]
  BY <1>4, <1>5, <1>6
<1>8. Values(arc) \subseteq Arc
  BY <1>2, <1>3
<1>9. heap' \in Maps(Arc, Tree) /\ DOMAIN heap' = Values(arc)
  BY <1>7, <1>8, MapIntro
<1>10. tenants' \in ArcMap /\ DOMAIN tenants' = DOMAIN cat
  BY <1>1, <1>2, <1>4, MapIntro, Zenon DEF ArcMap
<1>11. \A t \in DOMAIN cat : owner(arc[t]) = t
  BY <1>2, <1>3, <1>5
<1> QED
  BY <1>1, <1>3, <1>5, <1>7, <1>9, <1>10, <1>11

LEMMA StartKeeps ==
    ASSUME CatInv, Start
    PROVE  CatInv'
<1>0. CatTypeOK /\ HeapInv /\ TreesInv /\ SavesInv /\ AckedDurable
  BY DEF CatInv
<1>1. /\ ~ up /\ UNCHANGED <<held, ph, req, ans, todo, doc, solo>>
      /\ \A c \in Conn : ph[c] = "idle" /\ held[c] = NoArc /\ DOMAIN todo[c] = {}
  BY <1>0, Zenon DEF Start, saveVars, HeapInv, SavesInv
<1>2. PICK readOk \in BOOLEAN, saveOk \in BOOLEAN :
        /\ Serve(load_persisted(IF readOk THEN stored ELSE Nothing))
        /\ stored' = IF saveOk THEN load_persisted(IF readOk THEN stored ELSE Nothing) ELSE stored
        /\ acked' = IF readOk THEN acked ELSE {}
  BY DEF Start
<1> DEFINE from == IF readOk THEN stored ELSE Nothing
           cat == WithRoot(from)
<1>3. from \in Document /\ \A t \in DOMAIN from : NoOrphans(from[t])
  BY <1>0, NothingFacts DEF CatTypeOK, TreesInv, Document
<1>4. load_persisted(from) = cat
  BY <1>3, RestoreSame DEF load_persisted
<1>5. Serve(cat) /\ stored' = (IF saveOk THEN cat ELSE stored)
  BY <1>2, <1>4
<1>6. \A b \in acked' : b \in acked /\ Has(from, b)
  BY <1>0, <1>2 DEF AckedDurable
<1> HIDE DEF from
<1>7. /\ cat \in Document /\ \A t \in DOMAIN cat : NoOrphans(cat[t])
      /\ \A b : Has(from, b) => Has(cat, b)
  BY <1>3, RootAdded
<1> HIDE DEF cat
<1>8. /\ up' /\ tenants' \in ArcMap /\ heap' \in Maps(Arc, Tree)
      /\ DOMAIN tenants' = DOMAIN cat
      /\ \A t \in DOMAIN cat : tenants'[t] \in DOMAIN heap' /\ heap'[tenants'[t]] = cat[t]
      /\ \A a \in DOMAIN heap' : \E t \in DOMAIN cat : heap'[a] = cat[t]
  BY <1>5, <1>7, ServeFacts
<1>9. up' \in BOOLEAN
  BY <1>5 DEF Serve
<1>10. CatTypeOK'
  BY <1>0, <1>1, <1>5, <1>6, <1>7, <1>8, <1>9, Zenon DEF CatTypeOK
<1>11. HeapInv'
  BY <1>1, <1>8, Zenon DEF HeapInv
<1>12. TreesInv'
  BY <1>0, <1>1, <1>5, <1>7, <1>8, ZenonT(30) DEF TreesInv
<1>13. AckedDurable'
  <2>1. \A b \in acked' : Has(stored', b)
    BY <1>0, <1>5, <1>6, <1>7 DEF AckedDurable
  <2>2. \A b \in acked' : Has(cat, b)
    BY <1>6, <1>7
  <2> QED
    BY <1>8, <2>1, <2>2 DEF AckedDurable, Has
<1>14. SavesInv'
  BY <1>0, <1>1, Zenon DEF SavesInv, Saving, Makes
<1> QED
  BY <1>10, <1>11, <1>12, <1>13, <1>14 DEF CatInv

LEMMA CatStart == CatInit => CatInv
<1> SUFFICES ASSUME CatInit PROVE CatInv
  OBVIOUS
<1>1. /\ Nothing \in Maps(Arc, Tree) /\ Nothing \in ArcMap /\ Nothing \in Document
      /\ DOMAIN Nothing = {} /\ NoRequest \in Request
  BY NothingFacts, Requests, Zenon DEF ArcMap, Document
<1>2. CatTypeOK
  BY <1>1, Zenon DEF CatInit, CatTypeOK, Phase
<1>3. HeapInv /\ TreesInv /\ AckedDurable
  BY <1>1, Zenon DEF CatInit, HeapInv, TreesInv, AckedDurable
<1>4. SavesInv
  BY <1>1, Zenon DEF CatInit, SavesInv, Saving, Makes
<1> QED
  BY <1>2, <1>3, <1>4 DEF CatInv

\* A step that touches neither the server's memory nor its connections.
LEMMA CatFrame ==
    ASSUME CatInv, UNCHANGED <<up, heap, tenants, held, ph, req, todo, doc, solo, stored, acked>>
    PROVE  CatInv'
<1>1. CatTypeOK'
  BY Zenon DEF CatInv, CatTypeOK
<1>2. HeapInv'
  BY Zenon DEF CatInv, HeapInv
<1>3. TreesInv'
  BY Zenon DEF CatInv, TreesInv
<1>4. SavesInv'
  BY ZenonT(30) DEF CatInv, SavesInv, Saving, Collects, Has, Makes, Made1
<1>5. AckedDurable'
  BY Zenon DEF CatInv, AckedDurable, Has
<1> QED
  BY <1>1, <1>2, <1>3, <1>4, <1>5 DEF CatInv

-----------------------------------------------------------------------------
(***************************************************************************)
(* The stages of the console's operations.                                 *)
(***************************************************************************)
LEMMA StageTable ==
    /\ Stages["create"][1] = "upsert" /\ Stages["create"][2] = "tenant"
    /\ Stages["create"][3] = "timeline" /\ Stages["create"][4] = "route"
    /\ Stages["create"][5] = "done"
    /\ Stages["delete"][1] = "find" /\ Stages["delete"][2] = "drop"
    /\ Stages["delete"][3] = "unroute" /\ Stages["delete"][4] = "remove"
    /\ Stages["delete"][5] = "done"
    /\ Stages["branch"][1] = "find" /\ Stages["branch"][2] = "branch"
    /\ Stages["branch"][3] = "add_branch" /\ Stages["branch"][4] = "done"
    /\ Stages["restore"][1] = "set_current" /\ Stages["restore"][2] = "pin"
    /\ Stages["restore"][3] = "done"
<1>1. /\ Stages["create"] = <<"upsert", "tenant", "timeline", "route", "done">>
      /\ Stages["delete"] = <<"find", "drop", "unroute", "remove", "done">>
  BY DEF Stages
<1>2. /\ Stages["branch"] = <<"find", "branch", "add_branch", "done">>
      /\ Stages["restore"] = <<"set_current", "pin", "done">>
  BY DEF Stages
<1>3. /\ Stages["create"][1] = "upsert" /\ Stages["create"][2] = "tenant"
      /\ Stages["create"][3] = "timeline" /\ Stages["create"][4] = "route"
      /\ Stages["create"][5] = "done"
  BY <1>1
<1>4. /\ Stages["delete"][1] = "find" /\ Stages["delete"][2] = "drop"
      /\ Stages["delete"][3] = "unroute" /\ Stages["delete"][4] = "remove"
      /\ Stages["delete"][5] = "done"
  BY <1>1
<1>5. /\ Stages["branch"][1] = "find" /\ Stages["branch"][2] = "branch"
      /\ Stages["branch"][3] = "add_branch" /\ Stages["branch"][4] = "done"
      /\ Stages["restore"][1] = "set_current" /\ Stages["restore"][2] = "pin"
      /\ Stages["restore"][3] = "done"
  BY <1>2
<1> QED
  BY <1>3, <1>4, <1>5

LEMMA FirstStage ==
    ASSUME op' \in Operation, at' = 1
    PROVE  AtStage' /\ Stage' \in {"upsert", "find", "set_current"}
<1>1. op'.kind \in {"create", "delete", "branch", "restore"}
  BY Zenon DEF Operation, Stages
<1>2. Stage' = Stages[op'.kind][1]
  BY DEF Stage
<1>3. /\ op'.kind = "create" => Placed("create", 1, "upsert")'
      /\ op'.kind = "delete" => Placed("delete", 1, "find")'
      /\ op'.kind = "branch" => Placed("branch", 1, "find")'
      /\ op'.kind = "restore" => Placed("restore", 1, "set_current")'
  BY <1>2, StageTable, Zenon DEF Placed
<1>4. AtStage'
  BY <1>1, <1>3, Zenon DEF AtStage
<1> QED
  BY <1>1, <1>3, <1>4, Zenon DEF Placed

LEMMA PlacedNext ==
    ASSUME NEW k, NEW n \in 1..4, NEW s, NEW z, Placed(k, n, s), Stages[k][n + 1] = z,
           at' = at + 1, op' = op
    PROVE  Placed(k, n + 1, z)'
BY DEF Placed, Stage

\* The stage z that follows s in an operation of kind k.
Follows(s, z, k) ==
    /\ s = "upsert" => z = "tenant"
    /\ s = "tenant" => z = "timeline"
    /\ s = "timeline" => z = "route" /\ k = "create"
    /\ s = "route" => z = "done" /\ k = "create"
    /\ s = "find" => z \in {"drop", "branch"}
    /\ s = "drop" => z = "unroute"
    /\ s = "unroute" => z = "remove"
    /\ s = "remove" => z = "done" /\ k = "delete"
    /\ s = "branch" => z = "add_branch" /\ k = "branch"
    /\ s = "add_branch" => z = "done" /\ k = "branch"
    /\ s = "set_current" => z = "pin"
    /\ s = "pin" => z = "done" /\ k = "restore"

LEMMA FollowsTable ==
    /\ Follows("upsert", "tenant", "create") /\ Follows("tenant", "timeline", "create")
    /\ Follows("timeline", "route", "create") /\ Follows("route", "done", "create")
    /\ Follows("find", "drop", "delete") /\ Follows("drop", "unroute", "delete")
    /\ Follows("unroute", "remove", "delete") /\ Follows("remove", "done", "delete")
    /\ Follows("find", "branch", "branch") /\ Follows("branch", "add_branch", "branch")
    /\ Follows("add_branch", "done", "branch")
    /\ Follows("set_current", "pin", "restore") /\ Follows("pin", "done", "restore")
<1>1. /\ Follows("upsert", "tenant", "create") /\ Follows("tenant", "timeline", "create")
      /\ Follows("timeline", "route", "create") /\ Follows("route", "done", "create")
  BY DEF Follows
<1>2. /\ Follows("find", "drop", "delete") /\ Follows("drop", "unroute", "delete")
      /\ Follows("unroute", "remove", "delete") /\ Follows("remove", "done", "delete")
  BY DEF Follows
<1>3. /\ Follows("find", "branch", "branch") /\ Follows("branch", "add_branch", "branch")
      /\ Follows("add_branch", "done", "branch")
      /\ Follows("set_current", "pin", "restore") /\ Follows("pin", "done", "restore")
  BY DEF Follows
<1> QED
  BY <1>1, <1>2, <1>3, Zenon

\* The console has gone from the stage it was at to the one that follows.
Gone == at' # 0 /\ Follows(Stage, Stage', op.kind)

LEMMA StageGoes ==
    ASSUME NEW k, NEW n \in 1..4, NEW s, NEW z, Placed(k, n, s), Stages[k][n + 1] = z,
           Follows(s, z, k), at' = at + 1, op' = op
    PROVE  Placed(k, n + 1, z)' /\ Gone
<1>1. Placed(k, n + 1, z)'
  BY PlacedNext, Zenon
<1>2. op.kind = k /\ Stage = s /\ at = n
  BY Zenon DEF Placed
<1>3. Stage' = z
  BY <1>1, Zenon DEF Placed
<1>4. at' # 0
  BY <1>2
<1> QED
  BY <1>1, <1>2, <1>3, <1>4, Zenon DEF Gone

LEMMA NextStage ==
    ASSUME at # 0, op \in Operation, AtStage, Stage # "done", at' = at + 1, op' = op
    PROVE  AtStage' /\ at' # 0 /\ Follows(Stage, Stage', op.kind)
<1>1. \A k, n : ~Placed(k, n, "done")
  BY Zenon DEF Placed
<1>2. /\ Placed("create", 1, "upsert") => Placed("create", 2, "tenant")' /\ Gone
      /\ Placed("create", 2, "tenant") => Placed("create", 3, "timeline")' /\ Gone
      /\ Placed("create", 3, "timeline") => Placed("create", 4, "route")' /\ Gone
      /\ Placed("create", 4, "route") => Placed("create", 5, "done")' /\ Gone
  BY StageTable, FollowsTable, StageGoes
<1>3. /\ Placed("delete", 1, "find") => Placed("delete", 2, "drop")' /\ Gone
      /\ Placed("delete", 2, "drop") => Placed("delete", 3, "unroute")' /\ Gone
      /\ Placed("delete", 3, "unroute") => Placed("delete", 4, "remove")' /\ Gone
      /\ Placed("delete", 4, "remove") => Placed("delete", 5, "done")' /\ Gone
  BY StageTable, FollowsTable, StageGoes
<1>4. /\ Placed("branch", 1, "find") => Placed("branch", 2, "branch")' /\ Gone
      /\ Placed("branch", 2, "branch") => Placed("branch", 3, "add_branch")' /\ Gone
      /\ Placed("branch", 3, "add_branch") => Placed("branch", 4, "done")' /\ Gone
  BY StageTable, FollowsTable, StageGoes
<1>5. /\ Placed("restore", 1, "set_current") => Placed("restore", 2, "pin")' /\ Gone
      /\ Placed("restore", 2, "pin") => Placed("restore", 3, "done")' /\ Gone
  BY StageTable, FollowsTable, StageGoes
<1> QED
  BY <1>1, <1>2, <1>3, <1>4, <1>5, Zenon DEF AtStage, Gone

LEMMA Rest ==
    ASSUME at' = 0
    PROVE  Stage' = "idle"
BY DEF Stage

-----------------------------------------------------------------------------
(***************************************************************************)
(* What the steps of one connection do to the others, and to a tenant.     *)
(***************************************************************************)
Keeps(t) ==
    t \in DOMAIN tenants => /\ t \in DOMAIN tenants' /\ tenants'[t] = tenants[t]
                            /\ DOMAIN heap[tenants[t]] \subseteq DOMAIN heap'[tenants[t]]

Others(c) ==
    /\ up' = up /\ ans' \in [Conn -> Answer]
    /\ \A d \in Conn \ {c} : /\ held'[d] = held[d] /\ ph'[d] = ph[d]
                             /\ req'[d] = req[d] /\ ans'[d] = ans[d]

LEMMA MovesFacts ==
    ASSUME CatInv, NEW c \in Conn, NEW gone, Moves(c, gone)
    PROVE  \A t : t \notin gone => Keeps(t)
BY Zenon DEF CatInv, HeapInv, Moves, Grows, RefsIn, Keeps

LEMMA StaysFacts ==
    ASSUME CatInv, Stays, tenants' = tenants
    PROVE  \A t : Keeps(t)
BY Zenon DEF CatInv, HeapInv, Stays, RefsIn, Keeps

LEMMA ReplyAnswers ==
    ASSUME ans \in [Conn -> Answer], NEW c \in Conn, NEW status \in Answer, Reply(c, status)
    PROVE  /\ ans' \in [Conn -> Answer] /\ \A d \in Conn \ {c} : ans'[d] = ans[d]
           /\ c \in Waits => ans'[c] = status
BY DEF Reply

LEMMA MovesOthers ==
    ASSUME NEW c \in Conn, NEW gone, Moves(c, gone), ans \in [Conn -> Answer],
           ans' = ans \/ \E status \in Answer : Reply(c, status)
    PROVE  Others(c)
<1>1. ans' \in [Conn -> Answer] /\ \A d \in Conn \ {c} : ans'[d] = ans[d]
  BY ReplyAnswers
<1> QED
  BY <1>1, Zenon DEF Others, Moves

LEMMA SaveFacts ==
    ASSUME CatInv, ans \in [Conn -> Answer], NEW c \in Conn,
           SaveList(c) \/ (\E t \in Tenant : SaveRead(c, t)) \/ SavePut(c) \/ SavePutFails(c)
    PROVE  CatInv' /\ Others(c) /\ tenants' = tenants /\ \A t : Keeps(t)
<1>0. CatTypeOK /\ "ok" \in Answer
  BY DEF CatInv, Answer
<1>1. CatInv' /\ Stays
  BY ListKeeps, ReadKeeps, PutKeeps
<1>2. tenants' = tenants
  BY Zenon DEF SaveList, SaveRead, SavePut, SavePutFails, Saved, memVars
<1>3. CASE SaveList(c) \/ \E t \in Tenant : SaveRead(c, t)
  <2>1. Others(c)
    BY <1>0, <1>3, ZenonT(30) DEF SaveList, SaveRead, Others, CatTypeOK
  <2> QED
    BY <1>1, <1>2, <2>1, StaysFacts
<1>4. CASE SavePut(c) \/ SavePutFails(c)
  <2>1. Reply(c, "ok") /\ up' = up
    BY <1>4 DEF SavePut, SavePutFails, Saved
  <2>2. Others(c)
    BY <1>0, <2>1, ReplyFacts, ReplyAnswers, Zenon DEF Others
  <2> QED
    BY <1>1, <1>2, <2>2, StaysFacts
<1> QED
  BY <1>3, <1>4

LEMMA HandleFacts ==
    ASSUME CatInv, ans \in [Conn -> Answer], NEW c \in Conn, Handle(c)
    PROVE  CatInv' /\ Others(c) /\ tenants' = tenants /\ \A t : Keeps(t)
<1>0. CatTypeOK /\ HeapInv /\ {"ok", "conflict"} \subseteq Answer
  BY DEF CatInv, Answer
<1>1. CASE ReadOnly(c) /\ c \in Http
  <2>1. ph[c] = "act" /\ up /\ held[c] # NoArc
    BY <1>0, <1>1 DEF ReadOnly, HeapInv
  <2>2. Moves(c, {}) /\ Reply(c, "ok") /\ tenants' = tenants
    BY <1>1, <2>1, AnswerMoves, Zenon DEF ReadOnly
  <2> QED
    BY <1>0, <2>2, MovesKeep, MovesFacts, MovesOthers
<1>2. CASE Create(c, req[c]) \/ Branch(c, req[c])
  <2>1. req[c] \in Request
    BY <1>0 DEF CatTypeOK
  <2>2. Moves(c, {}) /\ tenants' = tenants /\ (ans' = ans \/ Reply(c, "conflict"))
    BY <1>2, <2>1, TimelineMoves, Zenon
  <2> QED
    BY <1>0, <2>2, MovesKeep, MovesFacts, MovesOthers
<1>3. CASE SaveList(c) \/ (\E t \in Tenant : SaveRead(c, t)) \/ SavePut(c) \/ SavePutFails(c)
  BY <1>3, SaveFacts
<1> QED
  BY <1>1, <1>2, <1>3 DEF Handle

LEMMA LinkFacts ==
    ASSUME CatInv, ans \in [Conn -> Answer], NEW c \in Conn, LineLink(c)
    PROVE  CatInv' /\ Others(c) /\ \A t : Keeps(t)
<1>1. Moves(c, {}) /\ ans' = ans
  BY LinkMoves DEF LineLink, LineConnect, LineAuth, LineClose
<1> QED
  BY <1>1, MovesKeep, MovesFacts, MovesOthers

LEMMA DeleteFacts ==
    ASSUME CatInv, ans \in [Conn -> Answer], NEW c \in Conn, NEW t \in Tenant, DeleteTenant(c, t)
    PROVE  CatInv' /\ Others(c) /\ \A s : s # t => Keeps(s)
<1>1. Moves(c, {t} \intersect DOMAIN tenants) /\ {"missing"} \subseteq Answer
  BY DeleteMoves DEF Answer
<1>2. ans' = ans \/ Reply(c, "missing")
  BY DEF DeleteTenant, Persist
<1> QED
  BY <1>1, <1>2, MovesKeep, MovesFacts, MovesOthers

LEMMA CreateFacts ==
    ASSUME CatInv, ans \in [Conn -> Answer], NEW c \in Conn, NEW t \in Tenant,
           LineTenant(c, t) \/ CreateTenant(c, t)
    PROVE  CatInv' /\ Others(c) /\ \A s : Keeps(s)
<1>1. Moves(c, {}) /\ {"conflict"} \subseteq Answer
  BY TenantMoves DEF Answer
<1>2. ans' = ans \/ Reply(c, "conflict")
  BY DEF LineTenant, CreateTenant, Persist
<1> QED
  BY <1>1, <1>2, MovesKeep, MovesFacts, MovesOthers

LEMMA RequestFacts ==
    ASSUME CatInv, ans \in [Conn -> Answer], NEW c \in Conn, NEW r \in Request,
           LineCommand(c, r) \/ HttpRequest(c, r)
    PROVE  /\ CatInv' /\ Others(c)
           /\ \A t : Keeps(t) \/ (r.op = "delete_tenant" /\ r.t = t)
<1>0. r.t \in Tenant /\ {"conflict"} \subseteq Answer
  BY DEF Request, Answer
<1>1. CASE LineTenant(c, r.t) \/ CreateTenant(c, r.t)
  BY <1>0, <1>1, CreateFacts
<1>2. CASE r.op = "delete_tenant" /\ DeleteTenant(c, r.t)
  BY <1>0, <1>2, DeleteFacts
<1>3. CASE Create(c, r) \/ Branch(c, r)
  <2>1. Moves(c, {}) /\ (ans' = ans \/ Reply(c, "conflict"))
    BY <1>3, TimelineMoves, Zenon
  <2> QED
    BY <1>0, <2>1, MovesKeep, MovesFacts, MovesOthers
<1>4. CASE Resolve(c, r)
  <2>1. Moves(c, {}) /\ ans' = ans
    BY <1>4, ResolveMoves, Zenon DEF Resolve
  <2> QED
    BY <2>1, MovesKeep, MovesFacts, MovesOthers
<1> QED
  BY <1>1, <1>2, <1>3, <1>4 DEF LineCommand, HttpRequest

LEMMA ConsoleConn == console \in Conn /\ console \notin Line /\ console \in Waits /\ console \in Http
BY CatalogAssumption, ConsoleAssumption DEF Conn

LEMMA Sent ==
    ASSUME ConTypeOK, at # 0
    PROVE  /\ op.db \in Tenant /\ CreateRequest(op.db, Root) \in Request
           /\ Stage = "branch" => \A n \in Lsn : BranchRequest(op.db, op.to, Root, n) \in Request
<1>1. op \in Operation /\ op.db \in Tenant /\ Root \in Timeline
  BY ConsoleAssumption, CatalogAssumption DEF ConTypeOK, Operation
<1>2. Stage = "branch" => op.to \in Timeline
  <2>1. Stage = "branch" => op.kind = "branch"
    BY DEF ConTypeOK, AtStage, Placed
  <2> QED
    BY <1>1, <2>1, ConsoleAssumption DEF ConTypeOK, Operation
<1>3. CreateRequest(op.db, Root) \in Request
  BY <1>1, Requests, Zenon DEF CreateRequest, Request, Op
<1>4. ASSUME Stage = "branch", NEW n \in Lsn PROVE BranchRequest(op.db, op.to, Root, n) \in Request
  BY <1>1, <1>2, <1>4 DEF BranchRequest, Request, Op
<1> QED
  BY <1>1, <1>3, <1>4

LEMMA SendFacts ==
    ASSUME ConTypeOK, CatInv, Send
    PROVE  CatInv' /\ Others(console) /\ \A t : t # op.db \/ Stage # "drop" => Keeps(t)
<1>0. at # 0 /\ ans \in [Conn -> Answer] /\ console \in Conn
  BY ConsoleConn, Zenon DEF Send, Stage, Calls, ConTypeOK
<1>1. /\ op.db \in Tenant /\ CreateRequest(op.db, Root) \in Request
      /\ Stage = "branch" => \A n \in Lsn : BranchRequest(op.db, op.to, Root, n) \in Request
  BY <1>0, Sent
<1>2. CASE Stage = "tenant" /\ CreateTenant(console, op.db)
  BY <1>0, <1>1, <1>2, CreateFacts
<1>3. CASE Stage = "drop" /\ DeleteTenant(console, op.db)
  BY <1>0, <1>1, <1>3, DeleteFacts
<1>4. CASE \E r \in Request : Resolve(console, r)
  <2>1. Moves(console, {}) /\ ans' = ans
    BY <1>0, <1>4, ResolveMoves, Zenon DEF Resolve
  <2> QED
    BY <1>0, <2>1, MovesKeep, MovesFacts, MovesOthers
<1> QED
  BY <1>1, <1>2, <1>3, <1>4 DEF Send

-----------------------------------------------------------------------------
(***************************************************************************)
(* The console's place in its operation.                                   *)
(***************************************************************************)
\* The steps of the console that leave the server's connections alone.
Aside ==
    UNCHANGED <<up, heap, tenants, held, ph, req, todo, doc, solo, stored, acked>>

LEMMA Asides ==
    ASSUME \/ \E o \in Operation : Begin(o)
           \/ Done \/ Update \/ Write \/ Find \/ SendFails \/ Receive \/ ProxyCall \/ ProxyCallFails
           \/ ProxyRestart \/ Abort \/ UNCHANGED vars
    PROVE  Aside
BY Zenon DEF Aside, Begin, Done, Update, Write, Find, SendFails, Receive, ProxyCall, ProxyCallFails,
       ProxyRestart, Abort, vars, catVars, memVars, saveVars

\* The console goes on to the next stage, stays at its stage or is at rest.
Paces ==
    \/ at # 0 /\ Stage # "done" /\ Advance
    \/ op' = op /\ at' = at
    \/ Finish

LEMMA PacesKeep ==
    ASSUME ConTypeOK, Paces, cast' = cast, ans' \in [Conn -> Answer], undone' \in BOOLEAN
    PROVE  ConTypeOK'
<1>1. CASE at # 0 /\ Stage # "done" /\ Advance
  <2>1. at' = at + 1 /\ op' = op /\ op \in Operation /\ AtStage /\ (op.kind = "branch" => op.to # live)
    BY <1>1 DEF Advance, ConTypeOK
  <2>2. AtStage'
    BY <1>1, <2>1, NextStage, Zenon
  <2> QED
    BY <2>1, <2>2 DEF ConTypeOK
<1>2. CASE op' = op /\ at' = at
  <2>1. Stage' = Stage
    BY <1>2 DEF Stage
  <2> QED
    BY <1>2, <2>1 DEF ConTypeOK, AtStage, Placed
<1>3. CASE Finish
  BY <1>3 DEF Finish, ConTypeOK
<1> QED
  BY <1>1, <1>2, <1>3 DEF Paces

LEMMA Pacing ==
    ASSUME \/ Done \/ Update \/ Write \/ Find \/ Send \/ SendFails \/ Receive \/ ProxyCall \/ ProxyCallFails
           \/ ProxyRestart \/ Abort \/ ServerCrash,
           RegistryInv, ConTypeOK
    PROVE  Paces /\ undone' \in BOOLEAN
<1>1. Stage # "idle" => at # 0
  BY DEF Stage
<1>2. CASE Done \/ Abort
  BY <1>2, Zenon DEF Done, Abort, Paces, Finish
<1>3. CASE Update
  BY <1>1, <1>3 DEF Update, upsert, add_branch, set_current, remove, save, NoSave, Paces, Advance, ConTypeOK
<1>4. CASE Write
  BY <1>1, <1>4, Zenon DEF Write, RegistryInv, Paces, Advance, ConTypeOK
<1>5. CASE Find \/ Receive
  BY <1>1, <1>5, ZenonT(30) DEF Find, Receive, Calls, Paces, Advance, Finish, ConTypeOK
<1>6. CASE SendFails \/ ProxyRestart
  BY <1>6 DEF SendFails, ProxyRestart, conVars, Paces, ConTypeOK
<1>7. CASE Send \/ ServerCrash
  BY <1>7, Zenon DEF Send, ServerCrash, Paces, ConTypeOK
<1>8. CASE ProxyCall \/ ProxyCallFails
  BY <1>1, <1>8, Zenon DEF ProxyCall, ProxyCallFails, Paces, Advance, ConTypeOK
<1> QED
  BY <1>2, <1>3, <1>4, <1>5, <1>6, <1>7, <1>8, Zenon

-----------------------------------------------------------------------------
(***************************************************************************)
(* The registry file and the routes.                                       *)
(***************************************************************************)
PinState == RegistryInv /\ PinInv

LEMMA LoadFacts ==
    ASSUME RegistryInv
    PROVE  load \in Maps(Database, Entry) /\ load \in [DOMAIN load -> Entry] /\ Book \in Maps(Database, Entry)
<1>1. load \in Maps(Database, Entry)
  BY NothingFacts DEF load, RegistryInv
<1> QED
  BY <1>1, MapFacts DEF Book, RegistryInv

LEMMA OperationFacts ==
    ASSUME ConTypeOK, at # 0
    PROVE  /\ op \in Operation /\ AtStage
           /\ op.db \in Database /\ op.to \in Point \union {live}
           /\ Stage = "add_branch" => op.to \in Point
<1>1. op \in Operation /\ AtStage /\ (op.kind = "branch" => op.to # live)
  BY DEF ConTypeOK
<1>2. Stage = "add_branch" => op.kind = "branch"
  BY <1>1 DEF AtStage, Placed
<1> QED
  BY <1>1, <1>2 DEF Operation

LEMMA PinQuiet ==
    ASSUME PinState, UNCHANGED <<file, torn, writing, buf, op, at, route, missed>>
    PROVE  PinState'
BY Zenon DEF PinState, RegistryInv, PinInv, Book, load, Repinning, Stage

\* A step that leaves file and routes alone, between stages at which neither
\* is being changed.
LEMMA PinPass ==
    ASSUME PinState, UNCHANGED <<file, torn, writing, buf, route, missed>>, ~ writing,
           ~ Repinning, Stage' \notin {"pin", "remove"}
    PROVE  PinState'
<1>1. RegistryInv'
  BY DEF PinState, RegistryInv
<1>2. Book' = Book /\ ~ Repinning'
  BY DEF Book, load, Repinning
<1>3. PinInv'
  BY <1>2, Zenon DEF PinState, PinInv
<1> QED
  BY <1>1, <1>3 DEF PinState

\* A registry update that has to write the file.
LEMMA PinSave ==
    ASSUME ConTypeOK, PinState, NEW dbs \in Maps(Database, Entry), save(dbs), ~ writing,
           Stage \in {"upsert", "add_branch", "set_current", "remove"},
           UNCHANGED <<route, missed>>,
           \A db \in DOMAIN load : db # op.db => db \in DOMAIN dbs /\ dbs[db].current = load[db].current,
           Stage \in {"upsert", "add_branch"} /\ op.db \in DOMAIN load =>
               op.db \in DOMAIN dbs /\ dbs[op.db].current = load[op.db].current,
           Stage = "set_current" => dbs[op.db].current = op.to
    PROVE  PinState'
<1>1. /\ torn' = TRUE /\ writing' = TRUE /\ buf' = dbs /\ file' = file /\ op' = op /\ at' = at /\ Stage' = Stage
  BY Zenon DEF save, Stage
<1>2. RegistryInv'
  BY <1>1, Zenon DEF PinState, RegistryInv
<1>3. Book' = dbs /\ Book = load /\ ~ Repinning /\ (Repinning' <=> Stage = "set_current")
  BY <1>1, ZenonT(30) DEF Book, Repinning
<1>4. PinInv'
  BY <1>1, <1>3 DEF PinState, PinInv
<1> QED
  BY <1>2, <1>4, Zenon DEF PinState

LEMMA PinUpdate ==
    ASSUME ConTypeOK, PinState, Update
    PROVE  PinState'
<1>0. RegistryInv /\ PinInv /\ ~ writing /\ UNCHANGED <<route, missed>>
  BY DEF PinState, Update
<1>1. /\ Stage \in {"upsert", "add_branch", "set_current", "remove"} /\ at # 0
      /\ op.db \in Database /\ op.to \in Point \union {live} /\ op \in Operation /\ AtStage
      /\ Stage = "add_branch" => op.to \in Point
  <2>1. Stage \in {"upsert", "add_branch", "set_current", "remove"} /\ at # 0
    BY DEF Update, upsert, add_branch, set_current, remove, Stage
  <2> QED
    BY <2>1, OperationFacts
<1>2. load \in Maps(Database, Entry) /\ load \in [DOMAIN load -> Entry] /\ DOMAIN load \subseteq Database
  BY <1>0, LoadFacts, MapFacts
<1>3. CASE NoSave /\ (Stage = "set_current" => op.db \notin DOMAIN load)
  <2>1. at' = at + 1 /\ op' = op /\ UNCHANGED <<file, torn, writing, buf>>
    BY <1>3 DEF NoSave, Advance
  <2>2. /\ Stage = "upsert" => Stage' = "tenant"
        /\ Stage = "remove" => Stage' = "done"
        /\ Stage = "add_branch" => Stage' = "done"
        /\ Stage = "set_current" => Stage' = "pin"
    BY <1>1, <2>1, NextStage DEF Follows
  <2>3. ~ Repinning /\ Book = load /\ Book' = load
    BY <1>0, <1>1, <2>1 DEF Repinning, Book, load
  <2>4. CASE Stage # "set_current"
    BY <1>0, <1>1, <2>1, <2>2, <2>3, <2>4, PinPass
  <2>5. CASE Stage = "set_current"
    <3>1. RegistryInv'
      BY <1>0, <2>1 DEF RegistryInv
    <3>2. op.db \notin DOMAIN Book' /\ Stage' = "pin"
      BY <1>3, <2>2, <2>3, <2>5, Zenon
    <3>3. PinInv'
      BY <1>0, <2>1, <2>3, <3>2 DEF PinInv
    <3> QED
      BY <3>1, <3>3 DEF PinState
  <2> QED
    BY <2>4, <2>5
<1>4. CASE Stage = "upsert" /\ op.db \notin DOMAIN load /\ save(Put(load, op.db, NewEntry))
  <2>1. NewEntry \in Entry
    BY Zenon DEF NewEntry, Entry
  <2>2. Put(load, op.db, NewEntry) \in Maps(Database, Entry)
    BY <1>1, <1>2, <2>1, PutType
  <2>3. \A db \in DOMAIN load : db # op.db =>
           /\ db \in DOMAIN Put(load, op.db, NewEntry)
           /\ Put(load, op.db, NewEntry)[db].current = load[db].current
    BY DEF Put
  <2> QED
    BY <1>0, <1>4, <2>2, <2>3, PinSave, Zenon
<1>5. CASE Stage = "add_branch" /\ op.db \in DOMAIN load
           /\ save([load EXCEPT ![op.db].branches = @ \union {op.to}])
  <2> DEFINE dbs == [load EXCEPT ![op.db].branches = @ \union {op.to}]
  <2>1. load[op.db] \in Entry /\ [load[op.db] EXCEPT !.branches = @ \union {op.to}] \in Entry
        /\ [load[op.db] EXCEPT !.branches = @ \union {op.to}].current = load[op.db].current
    BY <1>1, <1>2, <1>5 DEF Entry
  <2>2. /\ dbs \in [DOMAIN load -> Entry]
        /\ \A db \in DOMAIN load : db \in DOMAIN dbs /\ dbs[db].current = load[db].current
    BY <1>2, <1>5, <2>1
  <2>3. save(dbs)
    BY <1>5
  <2> HIDE DEF dbs
  <2>4. dbs \in Maps(Database, Entry)
    BY <1>2, <2>2, MapIntro, Zenon
  <2> QED
    BY <1>0, <1>1, <1>5, <2>2, <2>3, <2>4, PinSave
<1>6. CASE Stage = "set_current" /\ op.db \in DOMAIN load
           /\ save([load EXCEPT ![op.db].current = op.to])
  <2> DEFINE dbs == [load EXCEPT ![op.db].current = op.to]
  <2>1. load[op.db] \in Entry /\ [load[op.db] EXCEPT !.current = op.to] \in Entry
        /\ [load[op.db] EXCEPT !.current = op.to].current = op.to
    BY <1>1, <1>2, <1>6 DEF Entry
  <2>2. /\ dbs \in [DOMAIN load -> Entry] /\ dbs[op.db].current = op.to
        /\ \A db \in DOMAIN load : db # op.db => db \in DOMAIN dbs /\ dbs[db].current = load[db].current
    BY <1>2, <1>6, <2>1, Zenon
  <2>3. save(dbs)
    BY <1>6
  <2> HIDE DEF dbs
  <2>4. dbs \in Maps(Database, Entry)
    BY <1>2, <2>2, MapIntro, Zenon
  <2> QED
    BY <1>0, <1>1, <1>6, <2>2, <2>3, <2>4, PinSave
<1>7. CASE Stage = "remove" /\ save(Without(load, op.db))
  <2>1. Without(load, op.db) \in Maps(Database, Entry)
    BY <1>2, WithoutType
  <2>2. \A db \in DOMAIN load : db # op.db =>
           /\ db \in DOMAIN Without(load, op.db)
           /\ Without(load, op.db)[db].current = load[db].current
    BY DEF Without
  <2> QED
    BY <1>0, <1>7, <2>1, <2>2, PinSave, Zenon
<1> QED
  BY <1>3, <1>4, <1>5, <1>6, <1>7, Zenon DEF Update, upsert, add_branch, set_current, remove

LEMMA PinWrite ==
    ASSUME ConTypeOK, PinState, Write
    PROVE  PinState'
<1>0. /\ RegistryInv /\ PinInv /\ writing /\ UNCHANGED <<route, missed>>
      /\ file' = buf /\ buf' = Nothing /\ torn' = FALSE /\ writing' = FALSE /\ at' = at + 1 /\ op' = op
  BY Zenon DEF PinState, Write, Advance
<1>1. /\ Stage \in {"upsert", "add_branch", "set_current", "remove"} /\ at # 0
      /\ op \in Operation /\ AtStage
  BY <1>0, OperationFacts DEF RegistryInv, Stage
<1>2. /\ Stage = "upsert" => Stage' = "tenant"
      /\ Stage = "remove" => Stage' = "done"
      /\ Stage = "add_branch" => Stage' = "done"
      /\ Stage = "set_current" => Stage' = "pin"
  BY <1>0, <1>1, NextStage DEF Follows
<1>3. Book = buf /\ Book' = buf /\ (Repinning' <=> Repinning)
  BY <1>0, <1>1, <1>2 DEF Book, load, Repinning
<1>4. RegistryInv'
  BY <1>0, NothingFacts, ZenonT(30) DEF RegistryInv
<1>5. PinInv'
  BY <1>0, <1>1, <1>2, <1>3 DEF PinInv
<1> QED
  BY <1>4, <1>5 DEF PinState

LEMMA PinProxy ==
    ASSUME ConTypeOK, PinState, ProxyCall \/ ProxyCallFails
    PROVE  PinState'
<1>0. /\ RegistryInv /\ PinInv /\ Stage \in {"route", "unroute", "pin"} /\ at # 0
      /\ UNCHANGED <<file, torn, writing, buf>> /\ at' = at + 1 /\ op' = op
  BY DEF PinState, ProxyCall, ProxyCallFails, Advance, Stage
<1>1. /\ op \in Operation /\ AtStage /\ op.db \in Database /\ op.to \in Point \union {live}
      /\ ~ writing
  BY <1>0, OperationFacts DEF RegistryInv
<1>2. /\ Stage = "route" => Stage' = "done"
      /\ Stage = "unroute" => Stage' = "remove"
      /\ Stage = "pin" => Stage' = "done"
  BY <1>0, <1>1, NextStage DEF Follows
<1>3. Book = load /\ Book' = load /\ ~ Repinning' /\ (Repinning <=> Stage = "pin")
  BY <1>0, <1>1, <1>2 DEF Book, load, Repinning
<1>4. route \in Maps(Database, Point \union {live}) /\ route \in [DOMAIN route -> Point \union {live}]
      /\ DOMAIN route \subseteq Database
  BY <1>0, MapFacts DEF RegistryInv
<1>5. CASE ProxyCallFails
  <2>1. route' = route /\ missed' = missed \union {op.db}
    BY <1>5 DEF ProxyCallFails
  <2>2. RegistryInv'
    BY <1>0, <1>1, <2>1, Zenon DEF RegistryInv
  <2>3. PinInv'
    BY <1>0, <1>3, <2>1 DEF PinInv
  <2> QED
    BY <2>2, <2>3 DEF PinState
<1>6. CASE ProxyCall
  <2>0. /\ route' = Routed(op.db)
        /\ missed' = IF Stage = "pin" /\ op.db \notin DOMAIN load THEN missed \union {op.db}
                                                              ELSE missed \ {op.db}
    BY <1>6, Zenon DEF ProxyCall
  <2>1. CASE Stage = "route"
    <3>1. route' = Put(route, op.db, live)
      BY <2>0, <2>1 DEF Routed
    <3>2. route' \in Maps(Database, Point \union {live})
      BY <1>1, <1>4, <3>1, PutType
    <3>3. /\ DOMAIN route' = DOMAIN route \union {op.db} /\ route'[op.db] = live
          /\ \A db \in DOMAIN route : db # op.db => route'[db] = route[db]
      BY <3>1 DEF Put
    <3>4. RegistryInv'
      BY <1>0, <1>1, <3>2 DEF RegistryInv
    <3>5. PinInv'
      BY <1>0, <1>2, <1>3, <2>0, <2>1, <3>3, Zenon DEF PinInv
    <3> QED
      BY <3>4, <3>5 DEF PinState
  <2>2. CASE Stage = "unroute"
    <3>1. route' = Without(route, op.db)
      BY <2>0, <2>2 DEF Routed
    <3>2. route' \in Maps(Database, Point \union {live})
      BY <1>4, <3>1, WithoutType, Zenon
    <3>3. /\ DOMAIN route' = DOMAIN route \ {op.db}
          /\ \A db \in DOMAIN route : db # op.db => route'[db] = route[db]
      BY <3>1 DEF Without
    <3>4. RegistryInv'
      BY <1>0, <1>1, <3>2 DEF RegistryInv
    <3>5. PinInv'
      BY <1>0, <1>2, <1>3, <2>0, <2>2, <3>3, Zenon DEF PinInv
    <3> QED
      BY <3>4, <3>5 DEF PinState
  <2>3. CASE Stage = "pin"
    <3>1. route' = IF op.db \in DOMAIN route THEN [route EXCEPT ![op.db] = op.to] ELSE route
      BY <2>0, <2>3 DEF Routed
    <3>2. /\ route' \in [DOMAIN route -> Point \union {live}]
          /\ op.db \in DOMAIN route => route'[op.db] = op.to
          /\ \A db \in DOMAIN route : db # op.db => route'[db] = route[db]
      BY <1>1, <1>4, <3>1
    <3>3. route' \in Maps(Database, Point \union {live}) /\ DOMAIN route' = DOMAIN route
      BY <1>4, <3>2, MapIntro, Zenon
    <3>4. RegistryInv'
      BY <1>0, <1>1, <3>3 DEF RegistryInv
    <3>5. op.db \in DOMAIN load => load[op.db].current = op.to
      BY <1>0, <1>3, <2>3, Zenon DEF PinInv
    <3>6. PinInv'
      BY <1>0, <1>2, <1>3, <2>0, <2>3, <3>2, <3>3, <3>5, Zenon DEF PinInv
    <3> QED
      BY <3>4, <3>6 DEF PinState
  <2> QED
    BY <1>0, <2>1, <2>2, <2>3
<1> QED
  BY <1>5, <1>6, Zenon

LEMMA PinLost ==
    ASSUME ConTypeOK, PinState, ProxyRestart \/ Abort
    PROVE  PinState'
<1>0. RegistryInv /\ PinInv
  BY DEF PinState
<1>1. CASE ProxyRestart
  <2>1. /\ route' = Nothing /\ DOMAIN Nothing = {} /\ Nothing \in Maps(Database, Point \union {live})
        /\ UNCHANGED <<file, torn, writing, buf, op, at, missed>>
    BY <1>1, NothingFacts DEF ProxyRestart
  <2>2. Stage' = Stage /\ Book' = Book /\ (Repinning' <=> Repinning)
    BY <2>1, Zenon DEF Stage, Book, load, Repinning
  <2> QED
    BY <1>0, <2>1, <2>2, Zenon DEF PinState, RegistryInv, PinInv
<1>2. CASE Abort
  <2>1. /\ UNCHANGED <<file, torn, route>> /\ writing' = FALSE /\ buf' = Nothing /\ Stage' = "idle"
        /\ missed' = missed \union (IF writing THEN Database ELSE {op.db})
        /\ Nothing \in Maps(Database, Entry)
    BY <1>2, NothingFacts, Rest DEF Abort, Finish
  <2>2. DOMAIN route \subseteq Database
    BY <1>0, MapFacts DEF RegistryInv
  <2>3. RegistryInv'
    BY <1>0, <2>1, Zenon DEF RegistryInv
  <2>4. ~ Repinning' /\ Book' = load /\ (~ writing => Book = load)
    BY <2>1 DEF Repinning, Book, load
  <2>5. PinInv'
    <3>1. CASE writing
      BY <2>1, <2>2, <2>4, <3>1, ZenonT(30) DEF PinInv
    <3>2. CASE ~ writing
      BY <1>0, <2>1, <2>4, <3>2, Zenon DEF PinInv
    <3> QED
      BY <3>1, <3>2
  <2> QED
    BY <2>3, <2>5 DEF PinState
<1> QED
  BY <1>1, <1>2

\* Beginning, ending, looking a database up, a call's answer.
LEMMA PinRest ==
    ASSUME ConTypeOK, PinState, (\E o \in Operation : Begin(o)) \/ Done \/ Find \/ Receive
    PROVE  PinState'
<1>0. UNCHANGED <<file, torn, writing, buf, route, missed>>
  BY Zenon DEF Begin, Done, Find, Receive
<1>1. Stage \in {"idle", "done", "find"} \union Calls
  BY DEF Begin, Done, Find, Receive
<1>2. ~ writing /\ ~ Repinning
  BY <1>1 DEF PinState, RegistryInv, Calls, Repinning
<1>3. Stage' \notin {"pin", "remove"}
  <2>1. CASE \E o \in Operation : Begin(o)
    BY <2>1, FirstStage DEF Begin
  <2>2. CASE Finish
    BY <2>2, Rest DEF Finish
  <2>3. CASE Advance /\ Stage \in {"find"} \union Calls
    <3>1. at # 0 /\ at' = at + 1 /\ op' = op
      BY <2>3 DEF Advance, Stage, Calls
    <3>2. op \in Operation /\ AtStage
      BY <3>1, OperationFacts
    <3> QED
      BY <2>3, <3>1, <3>2, NextStage DEF Calls, Follows
  <2> QED
    BY <2>1, <2>2, <2>3, Zenon DEF Done, Find, Receive
<1> QED
  BY <1>0, <1>2, <1>3, PinPass, Zenon

-----------------------------------------------------------------------------
(***************************************************************************)
(* The invariant that the catalog's and the registry's theorems share.     *)
(***************************************************************************)
CpInv == ConTypeOK /\ CatInv /\ PinState

LEMMA CpStart == CpInit => CpInv
<1> SUFFICES ASSUME CpInit PROVE CpInv
  OBVIOUS
<1>1. CatInv
  BY CatStart DEF CpInit
<1>2. ConTypeOK
  BY ConsoleAssumption, Zenon DEF CpInit, CatInit, ConTypeOK, Answer
<1>3. Stage = "idle" /\ Nothing \in Maps(Database, Entry) /\ DOMAIN Nothing = {}
      /\ Nothing \in Maps(Database, Point \union {live})
  BY NothingFacts, Zenon DEF CpInit, Stage
<1>4. RegistryInv
  BY <1>3, Zenon DEF CpInit, RegistryInv
<1>5. PinInv
  BY <1>3, Zenon DEF CpInit, PinInv, Repinning
<1> QED
  BY <1>1, <1>2, <1>4, <1>5 DEF CpInv, PinState

LEMMA CpStep ==
    ASSUME CpInv, [CpNext]_vars
    PROVE  CpInv'
<1>0. ConTypeOK /\ CatInv /\ PinState /\ RegistryInv /\ ans \in [Conn -> Answer] /\ console \in Conn
  BY ConsoleConn DEF CpInv, PinState, ConTypeOK
<1>1. CASE \E o \in Operation : Begin(o)
  <2>1. PICK o \in Operation : Begin(o)
    BY <1>1
  <2>2. /\ op' = o /\ at' = 1 /\ undone' = FALSE /\ cast' = cast /\ ans' = ans
        /\ o.kind = "branch" => o.to # live
    BY <2>1 DEF Begin, catVars
  <2>3. ConTypeOK'
    BY <1>0, <2>2, FirstStage, Zenon DEF ConTypeOK
  <2>4. CatInv'
    BY <1>0, <1>1, Asides, CatFrame DEF Aside
  <2> QED
    BY <1>0, <1>1, <2>3, <2>4, PinRest DEF CpInv
<1>2. CASE ConsoleStep
  <2>0. cast' = cast /\ Paces /\ undone' \in BOOLEAN
    BY <1>0, <1>2, Pacing DEF ConsoleStep, castVars
  <2>1. CASE Send
    <3>1. CatInv' /\ ans' \in [Conn -> Answer]
      BY <1>0, <2>1, SendFacts, Zenon DEF Others
    <3>2. PinState'
      BY <1>0, <2>1, PinQuiet DEF Send
    <3> QED
      BY <1>0, <2>0, <3>1, <3>2, PacesKeep DEF CpInv
  <2>2. CASE Done \/ Update \/ Write \/ Find \/ SendFails \/ Receive \/ ProxyCall \/ ProxyCallFails
    <3>1. CatInv'
      BY <1>0, <2>2, Asides, CatFrame DEF Aside
    <3>2. ans' \in [Conn -> Answer]
      BY <1>0, <2>2, Zenon DEF Done, Update, Write, Find, SendFails, Receive, ProxyCall, ProxyCallFails,
                        catVars, Answer
    <3>3. PinState'
      <4>1. CASE SendFails
        BY <1>0, <4>1, PinQuiet DEF SendFails, conVars
      <4> QED
        BY <1>0, <2>2, <4>1, PinRest, PinUpdate, PinWrite, PinProxy, Zenon
    <3> QED
      BY <1>0, <2>0, <3>1, <3>2, <3>3, PacesKeep DEF CpInv
  <2> QED
    BY <1>2, <2>1, <2>2 DEF ConsoleStep
<1>3. ASSUME CatInv', ans' \in [Conn -> Answer], cast' = cast, undone' \in BOOLEAN,
             UNCHANGED <<file, torn, writing, buf, op, at, route, missed>>
      PROVE  CpInv'
  <2>1. PinState'
    BY <1>0, <1>3, PinQuiet
  <2>2. ConTypeOK'
    BY <1>0, <1>3, PacesKeep DEF Paces
  <2> QED
    BY <1>3, <2>1, <2>2 DEF CpInv
<1>4. CASE ServerStep
  <2>1. PICK c \in Conn : Handle(c) /\ UNCHANGED <<conVars, castVars>>
    BY <1>4 DEF ServerStep
  <2>2. CatInv' /\ ans' \in [Conn -> Answer]
    BY <1>0, <2>1, HandleFacts, Zenon DEF Others
  <2> QED
    BY <1>0, <1>3, <2>1, <2>2 DEF conVars, castVars, ConTypeOK
<1>5. CASE ServerStart
  <2>1. CatInv' /\ ans' = ans
    BY <1>0, <1>5, StartKeeps, Zenon DEF ServerStart, Start
  <2> QED
    BY <1>0, <1>3, <1>5, <2>1 DEF ServerStart, conVars, castVars, ConTypeOK
<1>6. CASE \E c \in cast : LineLink(c) /\ UNCHANGED <<conVars, castVars>>
  <2>1. PICK c \in cast : LineLink(c) /\ UNCHANGED <<conVars, castVars>>
    BY <1>6
  <2>2. CatInv' /\ ans' \in [Conn -> Answer]
    BY <1>0, <2>1, LinkFacts, Zenon DEF Others, ConTypeOK
  <2> QED
    BY <1>0, <1>3, <2>1, <2>2 DEF conVars, castVars, ConTypeOK
<1>7. CASE \E c \in cast, r \in Asked : ClientRequest(c, r)
  <2>1. PICK c \in cast, r \in Asked : ClientRequest(c, r)
    BY <1>7
  <2>2. c \in Conn /\ r \in Request
    BY <1>0, ConsoleAssumption DEF ConTypeOK
  <2>3. CatInv' /\ ans' \in [Conn -> Answer]
    BY <1>0, <2>1, <2>2, RequestFacts, Zenon DEF Others, ClientRequest
  <2>4. undone' \in BOOLEAN
    BY <1>0, <2>1, Zenon DEF ClientRequest, ConTypeOK
  <2> QED
    BY <1>3, <2>1, <2>3, <2>4, Zenon DEF ClientRequest
<1>8. CASE ServerCrash /\ UNCHANGED castVars
  <2>1. CatInv' /\ ans' \in [Conn -> Answer] /\ undone' \in BOOLEAN
    BY <1>0, <1>8, CrashKeeps, Zenon DEF ServerCrash, Crash, Answer
  <2> QED
    BY <1>3, <1>8, <2>1 DEF ServerCrash, castVars
<1>9. CASE (ProxyRestart \/ Abort) /\ UNCHANGED castVars
  <2>1. CatInv'
    BY <1>0, <1>9, Asides, CatFrame, Zenon DEF Aside
  <2>2. ans' \in [Conn -> Answer] /\ cast' = cast
    BY <1>0, <1>9 DEF ProxyRestart, Abort, castVars, Answer
  <2>3. Paces /\ undone' \in BOOLEAN
    BY <1>0, <1>9, Pacing
  <2> QED
    BY <1>0, <1>9, <2>1, <2>2, <2>3, PacesKeep, PinLost DEF CpInv
<1>10. CASE UNCHANGED vars
  <2>1. CatInv'
    BY <1>0, <1>10, Asides, CatFrame DEF Aside
  <2> QED
    BY <1>0, <1>3, <1>10, <2>1, Zenon DEF vars, catVars, conVars, castVars, ConTypeOK
<1> QED
  BY <1>1, <1>2, <1>4, <1>5, <1>6, <1>7, <1>8, <1>9, <1>10, Zenon DEF CpNext

LEMMA CpAlways == CpSpec => []CpInv
BY CpStart, CpStep, PTL DEF CpSpec

LEMMA CpGives ==
    CpInv => AckedDurable /\ RestoreExact /\ PinNeverAhead
<1> SUFFICES ASSUME CpInv PROVE AckedDurable /\ RestoreExact /\ PinNeverAhead
  OBVIOUS
<1>1. CatTypeOK /\ TreesInv /\ AckedDurable /\ RegistryInv /\ PinInv
  BY DEF CpInv, CatInv, PinState
<1>2. RestoreExact
  BY <1>1, RestoreSame, ZenonT(30) DEF RestoreExact, CatTypeOK, TreesInv
<1>3. PinNeverAhead
  BY <1>1, Zenon DEF PinNeverAhead, RegistryInv, PinInv, Repinning, Book
<1> QED
  BY <1>1, <1>2, <1>3

\* A timeline whose creation was answered by a save that did not fail and that
\* no other overlapped stays in the catalog object and on the server until its
\* tenant is deleted, for any number of tenants, connections and crashes.
THEOREM AckedAlwaysDurable == CpSpec => []AckedDurable
BY CpAlways, CpGives, PTL

\* Whatever mix of moments a save read the tenants at, restore rebuilds all of
\* the document.
THEOREM RestoreAlwaysExact == CpSpec => []RestoreExact
BY CpAlways, CpGives, PTL

\* restore_database never leaves a compute node pinned to a timeline other than
\* the registry's, for any number of databases and restore points.
THEOREM PinIsNeverAhead == CpSpec => []PinNeverAhead
BY CpAlways, CpGives, PTL

-----------------------------------------------------------------------------
(***************************************************************************)
(* The console's calls.                                                    *)
(***************************************************************************)
LEMMA ServesStays ==
    ASSUME up' = up, NEW t, Keeps(t)
    PROVE  \A l : Serves(t, l) => Serves(t, l)'
BY DEF Serves, Keeps

\* A step of somebody else's connection.
LEMMA CallBeside ==
    ASSUME CallInv, NEW c \in Conn \ {console}, Others(c), UNCHANGED <<op, at>>,
           ~ undone' => ~ undone /\ Keeps(op.db)
    PROVE  CallInv'
<1>1. /\ Stage' = Stage /\ Wanted' = Wanted /\ (Making' <=> Making) /\ op' = op /\ up' = up
      /\ ph'[console] = ph[console] /\ req'[console] = req[console]
      /\ held'[console] = held[console] /\ ans'[console] = ans[console]
  BY ConsoleConn, Zenon DEF Others, Stage, Wanted, Making
<1>2. ~ undone' => \A l : Serves(op.db, l) => Serves(op.db, l)'
  BY <1>1, ServesStays, Zenon
<1>3. ~ undone' /\ op.db \in DOMAIN tenants => op.db \in DOMAIN tenants' /\ tenants'[op.db] = tenants[op.db]
  BY Zenon DEF Keeps
<1> QED
  BY <1>1, <1>2, <1>3, Zenon DEF CallInv

\* The server's task for the console's own request.
LEMMA CallHandled ==
    ASSUME ConTypeOK, CatInv, CallInv, Handle(console), UNCHANGED conVars
    PROVE  CallInv'
<1>0. /\ console \in Conn /\ console \notin Line /\ console \in Waits /\ ans \in [Conn -> Answer]
      /\ CatTypeOK /\ HeapInv
  BY ConsoleConn DEF ConTypeOK, CatInv
<1>1. /\ Stage' = Stage /\ Wanted' = Wanted /\ (Making' <=> Making) /\ op' = op /\ undone' = undone
  BY DEF conVars, Stage, Wanted, Making
<1>2. ph[console] # "idle" /\ Stage \in Calls /\ ans[console] = "none"
  BY Zenon DEF Handle, ReadOnly, Create, Branch, Asks, SaveList, SaveRead, SavePut, SavePutFails, CallInv
<1>3. up' = up /\ tenants' = tenants /\ \A l : Serves(op.db, l) => Serves(op.db, l)'
  BY <1>0, <1>1, HandleFacts, ServesStays, Zenon DEF Others
<1>4. CASE SaveList(console) \/ (\E t \in Tenant : SaveRead(console, t))
  <2>1. /\ ph[console] \in {"list", "read"} /\ ph'[console] \in {"read", "put"}
        /\ held' = held /\ req' = req /\ ans' = ans
    BY <1>0, <1>4, Zenon DEF SaveList, SaveRead, CatTypeOK
  <2> QED
    BY <1>1, <1>2, <1>3, <2>1, Zenon DEF CallInv
<1>5. CASE SavePut(console) \/ SavePutFails(console)
  <2>1. Reply(console, "ok") /\ ph[console] = "put" /\ "ok" \in Answer
    BY <1>5 DEF SavePut, SavePutFails, Saved, Answer
  <2>2. ph'[console] = "idle" /\ ans'[console] = "ok"
    BY <1>0, <2>1, ReplyFacts, ReplyAnswers, Zenon
  <2> QED
    BY <1>1, <1>2, <1>3, <2>1, <2>2, ZenonT(30) DEF CallInv
<1>6. CASE \/ ReadOnly(console) \/ Create(console, req[console]) \/ Branch(console, req[console])
  <2>1. ph[console] = "act" /\ Making
    BY <1>0, <1>2, <1>6, Zenon DEF ReadOnly, Create, Branch, Asks, CallInv, Calls, Making
  <2>2. /\ req[console].op \in {"create", "branch"} /\ req[console].l = Wanted /\ req[console] \in Request
        /\ Stage = "branch" => req[console].p = Root
        /\ Stage = "timeline" => req[console].op = "create"
    <3>1. /\ Stage = "timeline" => op.kind = "create"
          /\ Stage = "branch" => op.kind = "branch"
      BY <1>2, Zenon DEF ConTypeOK, AtStage, Placed, Stage, Calls
    <3>2. req[console] \in Request
      BY <1>0 DEF CatTypeOK
    <3>3. CASE Stage = "timeline"
      <4>1. req[console] = CreateRequest(op.db, Root)
        BY <2>1, <3>3, Zenon DEF CallInv
      <4> QED
        BY <3>1, <3>2, <3>3, <4>1 DEF CreateRequest, NoRequest, Wanted
    <3>4. CASE Stage = "branch"
      <4>1. PICK n \in Lsn : req[console] = BranchRequest(op.db, op.to, Root, n)
        BY <2>1, <3>4, ZenonT(30) DEF CallInv
      <4>2. /\ req[console].op = "branch" /\ req[console].l = op.to
            /\ req[console].p = Root
        BY <4>1 DEF BranchRequest
      <4>3. Wanted = op.to
        BY <3>1, <3>4 DEF Wanted
      <4> QED
        BY <3>2, <3>4, <4>2, <4>3
    <3> QED
      BY <2>1, <3>3, <3>4, Zenon DEF Making
  <2>3. Create(console, req[console]) \/ Branch(console, req[console])
    BY <1>6, <2>2, ZenonT(30) DEF ReadOnly
  <2>4. /\ Moves(console, {})
        /\ /\ held[console] \in DOMAIN heap'
           /\ req[console].p \in DOMAIN heap[held[console]] \/ req[console].op = "create"
           => req[console].l \in DOMAIN heap'[held[console]]
        /\ \/ /\ ph' = [ph EXCEPT ![console] = "list"] /\ UNCHANGED <<ans, held>>
              /\ req' = [req EXCEPT ![console] = req[console]]
           \/ Reply(console, "conflict")
    BY <1>0, <2>2, <2>3, TimelineMoves
  <2>5. ~ undone => Serves(op.db, Wanted)'
    <3>1. SUFFICES ASSUME ~ undone PROVE Serves(op.db, Wanted)'
      OBVIOUS
    <3>2. /\ op.db \in DOMAIN tenants /\ held[console] = tenants[op.db] /\ up
          /\ Stage = "branch" => Root \in DOMAIN heap[tenants[op.db]]
      BY <1>0, <2>1, <3>1, Zenon DEF CallInv, Serves, HeapInv
    <3>3. held[console] \in DOMAIN heap'
      BY <1>3, <2>4, <3>2, Zenon DEF Moves, Grows, RefsIn
    <3>4. Wanted \in DOMAIN heap'[tenants[op.db]]
      BY <2>1, <2>2, <2>4, <3>2, <3>3 DEF Making
    <3> QED
      BY <1>1, <1>3, <3>2, <3>4, Zenon DEF Serves
  <2>6. CASE ph' = [ph EXCEPT ![console] = "list"] /\ UNCHANGED <<ans, held>>
             /\ req' = [req EXCEPT ![console] = req[console]]
    <3>1. ph'[console] = "list" /\ req'[console] = req[console] /\ held' = held /\ ans' = ans
      BY <1>0, <2>6 DEF CatTypeOK
    <3> QED
      BY <1>1, <1>2, <1>3, <2>1, <2>5, <3>1, ZenonT(30) DEF CallInv, Making
  <2>7. CASE Reply(console, "conflict")
    <3>1. ph'[console] = "idle" /\ ans'[console] = "conflict"
      BY <1>0, <2>7, ReplyFacts, ReplyAnswers, Zenon DEF Answer
    <3> QED
      BY <1>1, <1>2, <2>1, <2>5, <3>1, Zenon DEF CallInv, Making
  <2> QED
    BY <2>4, <2>6, <2>7
<1> QED
  BY <1>4, <1>5, <1>6 DEF Handle

LEMMA CallSent ==
    ASSUME ConTypeOK, CatInv, CallInv, Send \/ SendFails
    PROVE  CallInv'
<1>0. /\ console \in Conn /\ console \notin Line /\ console \in Waits /\ ans \in [Conn -> Answer]
      /\ CatTypeOK /\ HeapInv /\ Stage \in Calls /\ at # 0 /\ ans[console] = "none"
  BY ConsoleConn, Zenon DEF ConTypeOK, CatInv, Send, SendFails, Stage, Calls
<1>1. /\ Stage' = Stage /\ Wanted' = Wanted /\ (Making' <=> Making) /\ op' = op
  BY Zenon DEF Send, SendFails, conVars, Stage, Wanted, Making
<1>2. CASE SendFails
  <2>1. ph'[console] = "idle" /\ ans'[console] = "error"
    BY <1>0, <1>2, Zenon DEF SendFails, HeapInv
  <2> QED
    BY <1>0, <1>1, <2>1, Zenon DEF CallInv, Calls, Making
<1>3. CASE Send /\ Stage \in {"tenant", "drop"}
  <2>1. (ph'[console] = "list" /\ ans' = ans) \/ ph'[console] = "idle"
    <3>1. CreateTenant(console, op.db) \/ DeleteTenant(console, op.db)
      BY <1>3 DEF Send
    <3>2. CASE \E status : Reply(console, status)
      BY <1>0, <3>2, ReplyFacts, Zenon
    <3>3. CASE Persist(console)
      BY <1>0, <3>3 DEF Persist, CatTypeOK
    <3> QED
      BY <3>1, <3>2, <3>3, Zenon DEF CreateTenant, DeleteTenant
  <2> QED
    BY <1>0, <1>1, <1>3, <2>1, Zenon DEF CallInv, Calls, Making
<1>4. CASE Send /\ Making
  <2>1. PICK r \in Request :
          /\ Resolve(console, r) /\ r.t = op.db
          /\ \/ Stage = "timeline" /\ r = CreateRequest(op.db, Root)
             \/ Stage = "branch" /\ \E n \in Lsn : r = BranchRequest(op.db, op.to, Root, n)
    <3>1. /\ op.db \in Tenant /\ CreateRequest(op.db, Root) \in Request
          /\ Stage = "branch" => \A n \in Lsn : BranchRequest(op.db, op.to, Root, n) \in Request
      BY <1>0, Sent
    <3>2. CreateRequest(op.db, Root).t = op.db /\ \A n \in Lsn : BranchRequest(op.db, op.to, Root, n).t = op.db
      BY DEF CreateRequest, BranchRequest, NoRequest
    <3> QED
      BY <1>4, <3>1, <3>2, Zenon DEF Send, Making
  <2>2. /\ Moves(console, {}) /\ ph' = [ph EXCEPT ![console] = "act"]
        /\ op.db \in DOMAIN tenants' /\ tenants'[op.db] = held'[console]
    BY <1>0, <2>1, ResolveMoves, Zenon
  <2>3. ph'[console] = "act" /\ req'[console] = r /\ ans' = ans
    BY <1>0, <2>1, <2>2, Zenon DEF Resolve, CatTypeOK
  <2>4. up' = up /\ \A l : Serves(op.db, l) => Serves(op.db, l)'
    <3>1. Keeps(op.db)
      BY <1>0, <2>2, MovesFacts
    <3>2. up' = up
      BY <2>2, Zenon DEF Moves
    <3> QED
      BY <1>1, <3>1, <3>2, ServesStays, Zenon
  <2>5. ~ undone' => ~ undone /\ (Stage = "branch" => Serves(op.db, Root)')
    BY <1>4, <2>4, ZenonT(30) DEF Send
  <2> QED
    BY <1>0, <1>1, <1>4, <2>1, <2>2, <2>3, <2>4, <2>5, Zenon DEF CallInv, Calls, Making
<1> QED
  BY <1>0, <1>2, <1>3, <1>4 DEF Calls, Making

\* The console's other steps: the next stage, the end, and the answer of a call
\* that was looked at on the way.
LEMMA CallPaced ==
    ASSUME ConTypeOK, CallInv, Aside, Paces, ph[console] = "idle",
           ans'[console] = "none",
           Advance /\ Making => ans[console] \in {"ok", "conflict"},
           op' = op /\ at' = at => ans' = ans /\ undone' = undone
    PROVE  CallInv'
<1>1. CASE Finish
  <2>1. Stage' = "idle"
    BY <1>1, Rest DEF Finish
  <2> QED
    BY <2>1, Zenon DEF CallInv, Calls, Making, Aside
<1>2. CASE op' = op /\ at' = at
  BY <1>2, Zenon DEF CallInv, Calls, Making, Aside, Stage, Wanted, Serves
<1>3. CASE at # 0 /\ Stage # "done" /\ Advance
  <2>1. at' = at + 1 /\ op' = op /\ undone' = undone /\ op \in Operation /\ AtStage
    BY <1>3 DEF Advance, ConTypeOK
  <2>2. /\ Stage' = "route" => Stage = "timeline"
        /\ Stage' = "add_branch" => Stage = "branch"
        /\ Stage' = "done" /\ op.kind = "create" => Stage = "route"
        /\ Stage' = "done" /\ op.kind = "branch" => Stage = "add_branch"
    BY <1>3, <2>1, NextStage, Zenon DEF AtStage, Placed, Follows
  <2>3. \A l : Serves(op.db, l) => Serves(op.db, l)'
    BY <2>1, Zenon DEF Aside, Serves
  <2>4. /\ ~ undone' /\ (Stage' \in {"route", "add_branch"} \/ (Stage' = "done" /\ op.kind \in {"create", "branch"}))
           => Serves(op.db, Wanted)
    BY <1>3, <2>1, <2>2, ZenonT(30) DEF CallInv, Making
  <2>5. Wanted' = Wanted /\ ph' = ph
    BY <2>1, Zenon DEF Wanted, Aside
  <2> QED
    BY <2>1, <2>3, <2>4, <2>5, Zenon DEF CallInv, Making
<1> QED
  BY <1>1, <1>2, <1>3 DEF Paces

LEMMA CallStep ==
    ASSUME CpInv, CallInv, [CpNext]_vars
    PROVE  CallInv'
<1>0. /\ ConTypeOK /\ CatInv /\ RegistryInv /\ ans \in [Conn -> Answer] /\ console \in Conn
      /\ CatTypeOK /\ HeapInv
  BY ConsoleConn DEF CpInv, PinState, ConTypeOK, CatInv
<1>1. CASE \E o \in Operation : Begin(o)
  <2>1. /\ op' \in Operation /\ at' = 1 /\ Aside /\ ans' = ans /\ Stage = "idle"
    BY <1>1, Asides, Zenon DEF Begin, catVars
  <2>2. Stage' \in {"upsert", "find", "set_current"}
    BY <2>1, FirstStage
  <2> QED
    BY <2>1, <2>2, Zenon DEF CallInv, Calls, Making, Aside
<1>2. CASE Done \/ Update \/ Write \/ Find \/ ProxyCall \/ ProxyCallFails
  <2>1. Stage \notin Calls /\ ans' = ans
    BY <1>0, <1>2 DEF Done, Update, upsert, add_branch, set_current, remove, Write, Find, ProxyCall,
                 ProxyCallFails, RegistryInv, Calls, catVars
  <2>2. Aside /\ Paces /\ ph[console] = "idle" /\ ans[console] = "none" /\ ~ Making
    BY <1>0, <1>2, <2>1, Asides, Pacing, ZenonT(30) DEF CallInv, Calls, Making
  <2>3. op' = op /\ at' = at => undone' = undone
    <3>1. Stage # "idle" => at # 0
      BY DEF Stage
    <3>2. at # 0 => AtStage
      BY <1>0 DEF ConTypeOK
    <3>3. at + 1 # at \/ at = 0
      BY <3>2 DEF AtStage, Placed
    <3> QED
      BY <1>0, <1>2, <3>1, <3>3 DEF Done, Update, upsert, add_branch, set_current, remove, save, NoSave,
           Write, Find, ProxyCall, ProxyCallFails, Advance, Finish, RegistryInv
  <2> QED
    BY <1>0, <2>1, <2>2, <2>3, CallPaced
<1>3. CASE Receive
  <2>1. /\ Aside /\ Paces /\ Stage \in Calls /\ ans[console] # "none" /\ ans'[console] = "none"
    BY <1>0, <1>3, Asides, Pacing DEF Receive
  <2>2. ph[console] = "idle" /\ at # 0 /\ AtStage
    BY <1>0, <2>1, Zenon DEF CallInv, ConTypeOK, Stage, Calls
  <2>3. at' = at + 1 \/ at' = 0
    BY <1>3 DEF Receive, Advance, Finish
  <2>4. at' # at
    BY <2>2, <2>3 DEF AtStage, Placed
  <2>5. Advance /\ Making => ans[console] \in {"ok", "conflict"}
    <3>1. IF ignore_conflict(ans[console]) THEN Advance ELSE at' = 0
      BY <1>3, Zenon DEF Receive, Finish
    <3>2. Advance => at' # 0
      BY <2>2 DEF Advance, AtStage, Placed
    <3>3. Advance => ignore_conflict(ans[console])
      BY <3>1, <3>2, Zenon
    <3> QED
      BY <3>3 DEF ignore_conflict, Making
  <2> QED
    BY <1>0, <2>1, <2>2, <2>4, <2>5, CallPaced, Zenon
<1>4. CASE Send \/ SendFails
  BY <1>0, <1>4, CallSent
<1>5. CASE ServerStep
  <2>1. PICK c \in Conn : Handle(c) /\ UNCHANGED <<conVars, castVars>>
    BY <1>5 DEF ServerStep
  <2>2. UNCHANGED <<op, at, undone>> /\ UNCHANGED conVars
    BY <2>1 DEF conVars
  <2>3. CASE c = console
    BY <1>0, <2>1, <2>2, <2>3, CallHandled
  <2>4. CASE c # console
    <3>1. Others(c) /\ Keeps(op.db)
      BY <1>0, <2>1, HandleFacts
    <3> QED
      BY <2>2, <2>4, <3>1, CallBeside
  <2> QED
    BY <2>3, <2>4
<1>6. CASE ServerStart
  <2>1. /\ ~ up /\ UNCHANGED <<ph, ans, op, at, undone>>
    BY <1>6 DEF ServerStart, Start, conVars
  <2>2. ph[console] = "idle" /\ \A l : ~ Serves(op.db, l)
    BY <1>0, <2>1, Zenon DEF HeapInv, Serves
  <2>3. Stage' = Stage /\ Wanted' = Wanted /\ (Making' <=> Making)
    BY <2>1, Zenon DEF Stage, Wanted, Making
  <2> QED
    BY <2>1, <2>2, <2>3, ZenonT(30) DEF CallInv
<1>7. CASE \E c \in cast : LineLink(c) /\ UNCHANGED <<conVars, castVars>>
  <2>1. PICK c \in cast : LineLink(c) /\ UNCHANGED <<conVars, castVars>>
    BY <1>7
  <2>2. c \in Conn \ {console} /\ UNCHANGED <<op, at, undone>>
    BY <1>0, <2>1 DEF ConTypeOK, conVars
  <2>3. Others(c) /\ Keeps(op.db)
    BY <1>0, <2>1, <2>2, LinkFacts
  <2> QED
    BY <2>2, <2>3, CallBeside
<1>8. CASE \E c \in cast, r \in Asked : ClientRequest(c, r)
  <2>1. PICK c \in cast, r \in Asked : ClientRequest(c, r)
    BY <1>8
  <2>2. /\ c \in Conn \ {console} /\ r \in Request /\ UNCHANGED <<op, at>>
        /\ undone' = (undone \/ (at # 0 /\ r.op = "delete_tenant" /\ r.t = op.db))
    BY <1>0, <2>1, ConsoleAssumption, Zenon DEF ConTypeOK, ClientRequest
  <2>3. Others(c) /\ \A t : Keeps(t) \/ (r.op = "delete_tenant" /\ r.t = t)
    BY <1>0, <2>1, <2>2, RequestFacts, Zenon DEF ClientRequest
  <2>4. CASE at # 0
    BY <2>2, <2>3, <2>4, CallBeside, Zenon
  <2>5. CASE at = 0
    <3>1. Stage = "idle" /\ Stage' = "idle"
      BY <2>2, <2>5, Zenon DEF Stage
    <3>2. ph'[console] = ph[console] /\ ans'[console] = ans[console]
      BY <1>0, <2>2, <2>3, Zenon DEF Others
    <3> QED
      BY <3>1, <3>2, Zenon DEF CallInv, Calls, Making
  <2> QED
    BY <2>4, <2>5
<1>9. CASE ServerCrash
  <2>1. /\ UNCHANGED <<op, at>> /\ undone' = (at # 0) /\ ph'[console] = "idle"
        /\ ph[console] = "idle" => ans'[console] = ans[console]
    BY <1>0, <1>9 DEF ServerCrash, Crash
  <2>2. Stage' = Stage /\ (at = 0 => Stage = "idle")
    BY <2>1, Zenon DEF Stage
  <2> QED
    BY <2>1, <2>2, ZenonT(30) DEF CallInv, Calls, Making
<1>10. CASE ProxyRestart
  BY <1>10, Zenon DEF ProxyRestart, memVars, CallInv, Stage, Wanted, Making, Serves
<1>11. CASE Abort
  <2>1. ph[console] = "idle" /\ ph' = ph /\ ans'[console] = "none" /\ Stage' = "idle"
    BY <1>0, <1>11, Rest DEF Abort, Finish
  <2> QED
    BY <2>1, Zenon DEF CallInv, Calls, Making
<1>12. CASE UNCHANGED vars
  BY <1>12, Zenon DEF vars, catVars, conVars, CallInv, Stage, Wanted, Making, Serves
<1> QED
  BY <1>1, <1>2, <1>3, <1>4, <1>5, <1>6, <1>7, <1>8, <1>9, <1>10, <1>11, <1>12 DEF CpNext, ConsoleStep

LEMMA CallStart == CpInit => CallInv
BY ConsoleConn, Zenon DEF CpInit, CatInit, CallInv, Stage, Calls, Making

LEMMA CallGives == CallInv => PromisesKept
BY Zenon DEF CallInv, PromisesKept, Wanted, Making

\* When the console reports a database created or a restore point made, the
\* page server has it, unless somebody deleted the tenant or the server
\* restarted meanwhile: for any number of other clients, whatever they ask.
THEOREM PromisesAlwaysKept == CpSpec => []PromisesKept
<1>1. CpInit => CpInv /\ CallInv
  BY CpStart, CallStart
<1>2. CpInv /\ CallInv /\ [CpNext]_vars => (CpInv /\ CallInv)'
  BY CpStep, CallStep
<1>3. CpInv /\ CallInv => PromisesKept
  BY CallGives
<1> QED
  BY <1>1, <1>2, <1>3, PTL DEF CpSpec
=============================================================================
