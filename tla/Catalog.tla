------------------------------- MODULE Catalog -------------------------------
(* The page server's topology: which tenants it hosts and which timelines    *)
(* each of them has (tenant_manager.rs, tenant.rs), how clients change it    *)
(* over the line protocol (control.rs) and the HTTP API (httpapi.rs), and    *)
(* how it is saved to, and rebuilt from, the catalog object (catalog.rs,     *)
(* main.rs).                                                                 *)
(*                                                                           *)
(* A tenant is an Arc: a connection that resolved it keeps using it after    *)
(* the manager has removed it.  The model therefore has a heap of arcs; the  *)
(* manager maps tenant ids to arcs, and an arc nobody holds is dropped.      *)
(*                                                                           *)
(* A save lists the tenants, reads each one's timelines under that tenant's  *)
(* own lock, and then writes the whole document: other requests run between  *)
(* any two of these steps, and two saves may land in either order.           *)
EXTENDS Integers, FiniteSets

CONSTANTS Tenant, Zero,     \* tenant ids, and TenantId::ZERO
          Timeline, Root,   \* timeline ids, and TimelineId::ZERO
          Lsn,              \* the LSNs a branch may be taken at
          Line,             \* connections of the line protocol
          Http,             \* connections of the HTTP API
          Waits,            \* those whose client acts on the reply it gets
          MaxArc,           \* arcs alive at once
          MaxFaults         \* failed calls and crashes, in all

ASSUME CatalogAssumption ==
    /\ Zero \in Tenant /\ Root \in Timeline
    /\ Lsn \subseteq Nat \ {0} /\ Lsn # {}
    /\ Line \cap Http = {} /\ Waits \subseteq Http
    /\ MaxArc \in Nat /\ MaxFaults \in Nat

Conn == Line \union Http
Arc == 1 .. MaxArc
NoArc == 0

VARIABLES up,        \* the page server is serving
          heap,      \* arc -> the timelines of that tenant
          tenants,   \* tenant id -> arc, the manager's map
          held,      \* connection -> the arc it resolved, or NoArc
          ph,        \* connection -> what its task does next
          req,       \* connection -> its request
          ans,       \* connection -> the status of a reply its client waits for
          todo,      \* connection -> tenants its save has still to read
          doc,       \* connection -> the document its save has collected
          stored,    \* the catalog object; no object reads as no tenants
          faults,
          solo,      \* history: no other save ran during this one
          acked      \* history: timelines a client may count on

memVars == <<heap, tenants>>
saveVars == <<todo, doc, solo>>
catVars == <<up, heap, tenants, held, ph, req, ans, todo, doc, stored,
             faults, solo, acked>>

-----------------------------------------------------------------------------
(* Maps (HashMap, BTreeMap).                                                 *)

Values(f) == {f[x] : x \in DOMAIN f}
Put(f, k, v) == [x \in DOMAIN f \union {k} |-> IF x = k THEN v ELSE f[x]]
Without(f, k) == [x \in DOMAIN f \ {k} |-> f[x]]

-----------------------------------------------------------------------------
(* Timelines.  A timeline's record is <<>> for a root and <<parent, lsn>>    *)
(* for a branch; a tenant maps the ids of its timelines to their records.    *)

RootRecord == <<>>
Nothing == [x \in {} |-> x]

\* As Orphans, with branches of branches given up after the first pass.
Orphans_OnePass(tls) ==
    {l \in DOMAIN tls : /\ tls[l] # RootRecord
                        /\ tls[l][1] \notin DOMAIN tls \/ tls[tls[l][1]] # RootRecord}

\* What the retry loop of restore leaves pending in the end: the largest set of
\* branches each of whose parents is missing or pending itself.
Orphans(tls) ==
    UNION {S \in SUBSET DOMAIN tls :
             \A l \in S : /\ tls[l] # RootRecord
                          /\ tls[l][1] \in S \/ tls[l][1] \notin DOMAIN tls}

restore(cat) ==
    [t \in DOMAIN cat |->
        [l \in DOMAIN cat[t] \ Orphans(cat[t]) |-> cat[t][l]]]

-----------------------------------------------------------------------------
(* The manager's map and the arcs.                                           *)

Live == Values(tenants) \union {held[c] : c \in Conn}
          \union UNION {Values(todo[c]) : c \in Conn}

\* Arcs that nobody refers to any more are dropped with the step.
Heap(h) == heap' = [a \in Live' \ {NoArc} |-> h[a]]

NewArc == CHOOSE a \in Arc : a \notin DOMAIN heap

get_or_create(t) == IF t \in DOMAIN tenants THEN tenants[t] ELSE NewArc
WithTenant(t) == IF t \in DOMAIN tenants THEN heap ELSE Put(heap, NewArc, Nothing)

\* The bound on arcs is in the guard.
Provision(t) ==
    /\ t \notin DOMAIN tenants => Arc \ DOMAIN heap # {}
    /\ tenants' = Put(tenants, t, get_or_create(t))

create_timeline(a, l) == l \notin DOMAIN heap[a]
branch_timeline(a, l, p) == l \notin DOMAIN heap[a] /\ p \in DOMAIN heap[a]

-----------------------------------------------------------------------------
(* Requests.                                                                 *)

Op == {"tenant", "create_tenant", "delete_tenant", "create", "branch", "list"}
Request == [op : Op, t : Tenant, l : Timeline, p : Timeline, n : Lsn]
NoRequest == [op |-> "list", t |-> Zero, l |-> Root, p |-> Root,
              n |-> CHOOSE n \in Lsn : TRUE]
TenantRequest(op, t) == [NoRequest EXCEPT !.op = op, !.t = t]
CreateRequest(t, l) == [NoRequest EXCEPT !.op = "create", !.t = t, !.l = l]
BranchRequest(t, l, p, n) == [op |-> "branch", t |-> t, l |-> l, p |-> p, n |-> n]

\* The reply is on its way: an HTTP connection closes, a line connection
\* reads its next command with the tenant it has selected.
Reply(c, status) ==
    /\ ans' = IF c \in Waits THEN [ans EXCEPT ![c] = status] ELSE ans
    /\ ph' = [ph EXCEPT ![c] = IF c \in Line THEN "ready" ELSE "idle"]
    /\ req' = [req EXCEPT ![c] = IF c \in Line THEN [NoRequest EXCEPT !.t = req[c].t]
                                               ELSE NoRequest]
    /\ held' = [held EXCEPT ![c] = IF c \in Line THEN @ ELSE NoArc]

\* The request changed the topology: it is answered after a save.
Persist(c) ==
    /\ ph' = [ph EXCEPT ![c] = "list"]
    /\ UNCHANGED ans

-----------------------------------------------------------------------------
(* The line protocol.                                                        *)

\* A connection starts on the root tenant, behind the token gate.
LineConnect(c) ==
    /\ up /\ c \in Line /\ ph[c] = "idle"
    /\ Provision(Zero)
    /\ held' = [held EXCEPT ![c] = get_or_create(Zero)]
    /\ ph' = [ph EXCEPT ![c] = "gate"]
    /\ req' = [req EXCEPT ![c] = NoRequest]
    /\ UNCHANGED todo
    /\ Heap(WithTenant(Zero))
    /\ UNCHANGED <<up, ans, doc, solo, stored, faults, acked>>

LineAuth(c) ==
    /\ c \in Line /\ ph[c] = "gate"
    /\ ph' = [ph EXCEPT ![c] = "ready"]
    /\ UNCHANGED <<up, memVars, held, req, ans, saveVars, stored, faults, acked>>

LineClose(c) ==
    /\ c \in Line /\ ph[c] \in {"gate", "ready"}
    /\ held' = [held EXCEPT ![c] = NoArc]
    /\ ph' = [ph EXCEPT ![c] = "idle"]
    /\ req' = [req EXCEPT ![c] = NoRequest]
    /\ UNCHANGED <<tenants, todo>>
    /\ Heap(heap)
    /\ UNCHANGED <<up, ans, doc, solo, stored, faults, acked>>

\* `tenant <id>`: provisions the tenant, and always saves.
LineTenant(c, t) ==
    /\ c \in Line /\ ph[c] = "ready"
    /\ Provision(t)
    /\ held' = [held EXCEPT ![c] = get_or_create(t)]
    /\ req' = [req EXCEPT ![c] = [NoRequest EXCEPT !.op = "tenant", !.t = t]]
    /\ Persist(c)
    /\ UNCHANGED <<todo, doc>>
    /\ Heap(WithTenant(t))
    /\ UNCHANGED <<up, solo, stored, faults, acked>>

-----------------------------------------------------------------------------
(* The HTTP API.                                                             *)

CreateTenant(c, t) ==
    /\ up /\ c \in Http /\ ph[c] = "idle"
    /\ \/ /\ t \in DOMAIN tenants
          /\ Reply(c, "conflict")
          /\ UNCHANGED <<memVars, todo, doc>>
       \/ /\ t \notin DOMAIN tenants
          /\ Provision(t)
          /\ req' = [req EXCEPT ![c] = [NoRequest EXCEPT !.op = "create_tenant", !.t = t]]
          /\ Persist(c)
          /\ UNCHANGED <<held, todo, doc>>
          /\ Heap(WithTenant(t))
    /\ UNCHANGED <<up, solo, stored, faults, acked>>

DeleteTenant(c, t) ==
    /\ up /\ c \in Http /\ ph[c] = "idle"
    /\ \/ /\ t \notin DOMAIN tenants
          /\ Reply(c, "missing")
          /\ UNCHANGED <<memVars, todo, doc, acked>>
       \/ /\ t \in DOMAIN tenants
          /\ tenants' = Without(tenants, t)
          /\ req' = [req EXCEPT ![c] = [NoRequest EXCEPT !.op = "delete_tenant", !.t = t]]
          /\ Persist(c)
          /\ acked' = {b \in acked : b[1] # t}
          /\ UNCHANGED <<held, todo, doc>>
          /\ Heap(heap)
    /\ UNCHANGED <<up, solo, stored, faults>>

\* Listing or creating timelines, branching, attaching a receiver, gc: each
\* first resolves its tenant, which provisions one that does not exist.
Resolve(c, r) ==
    /\ up /\ c \in Http /\ ph[c] = "idle"
    /\ Provision(r.t)
    /\ held' = [held EXCEPT ![c] = get_or_create(r.t)]
    /\ req' = [req EXCEPT ![c] = r]
    /\ ph' = [ph EXCEPT ![c] = "act"]
    /\ UNCHANGED todo
    /\ Heap(WithTenant(r.t))
    /\ UNCHANGED <<up, ans, doc, solo, stored, faults, acked>>

\* These leave the topology alone, a tenant just provisioned included: no save.
ReadOnly(c) ==
    /\ ph[c] = "act" /\ req[c].op = "list"
    /\ Reply(c, "ok")
    /\ UNCHANGED <<tenants, todo>>
    /\ Heap(heap)
    /\ UNCHANGED <<up, doc, solo, stored, faults, acked>>

-----------------------------------------------------------------------------
(* What create and branch do to the tenant they hold, under its lock.  A     *)
(* line connection has it from an earlier command.                           *)

Asks(c, r) == \/ c \in Http /\ ph[c] = "act" /\ req[c] = r
              \/ c \in Line /\ ph[c] = "ready" /\ req[c].t = r.t

Refused(c) ==
    /\ Reply(c, "conflict")
    /\ UNCHANGED <<tenants, todo>>
    /\ Heap(heap)
    /\ UNCHANGED <<up, doc, solo, stored, faults, acked>>

Apply(c, r, record) ==
    /\ heap' = [heap EXCEPT ![held[c]] = Put(@, r.l, record)]
    /\ req' = [req EXCEPT ![c] = r]
    /\ Persist(c)
    /\ UNCHANGED <<up, tenants, held, saveVars, stored, faults, acked>>

Create(c, r) ==
    /\ r.op = "create" /\ Asks(c, r)
    /\ IF create_timeline(held[c], r.l) THEN Apply(c, r, RootRecord) ELSE Refused(c)

Branch(c, r) ==
    /\ r.op = "branch" /\ Asks(c, r)
    /\ IF branch_timeline(held[c], r.l, r.p) THEN Apply(c, r, <<r.p, r.n>>) ELSE Refused(c)

-----------------------------------------------------------------------------
(* TenantManager::persist: list, read, put.                                  *)

Saving == {c \in Conn : ph[c] \in {"read", "put"}}

SaveList(c) ==
    /\ ph[c] = "list"
    /\ todo' = [todo EXCEPT ![c] = tenants]
    /\ doc' = [doc EXCEPT ![c] = Nothing]
    /\ ph' = [ph EXCEPT ![c] = IF tenants = Nothing THEN "put" ELSE "read"]
    /\ solo' = [d \in Conn |-> IF d = c THEN Saving = {}
                                ELSE solo[d] /\ d \notin Saving]
    /\ UNCHANGED <<up, memVars, held, req, ans, stored, faults, acked>>

SaveRead(c, t) ==
    /\ ph[c] = "read" /\ t \in DOMAIN todo[c]
    /\ doc' = [doc EXCEPT ![c] = Put(@, t, heap[todo[c][t]])]
    /\ todo' = [todo EXCEPT ![c] = Without(@, t)]
    /\ ph' = [ph EXCEPT ![c] = IF DOMAIN todo[c] = {t} THEN "put" ELSE "read"]
    /\ UNCHANGED <<tenants, held>>
    /\ Heap(heap)
    /\ UNCHANGED <<up, req, ans, stored, faults, solo, acked>>

\* The timeline this request made, where it made it on the tenant the manager
\* still has.
Made(c) ==
    IF req[c].op \in {"create", "branch"} /\ <<req[c].t, held[c]>> \in
         {<<t, tenants[t]>> : t \in DOMAIN tenants}
    THEN {<<req[c].t, req[c].l>>} ELSE {}

Saved(c) ==
    /\ Reply(c, "ok")
    /\ doc' = [doc EXCEPT ![c] = Nothing]
    /\ solo' = [solo EXCEPT ![c] = FALSE]
    /\ UNCHANGED <<tenants, todo>>
    /\ Heap(heap)
    /\ UNCHANGED <<up>>

SavePut(c) ==
    /\ ph[c] = "put"
    /\ stored' = doc[c]
    /\ acked' = acked \union (IF solo[c] THEN Made(c) ELSE {})
    /\ Saved(c)
    /\ UNCHANGED faults

\* A save that fails is logged; the request is answered as if it had not.
SavePutFails(c) ==
    /\ ph[c] = "put" /\ faults < MaxFaults
    /\ faults' = faults + 1
    /\ Saved(c)
    /\ UNCHANGED <<stored, acked>>

-----------------------------------------------------------------------------
(* A crash, and main's start: the catalog is loaded, the root tenant and its *)
(* root timeline are made if they are not there, and the result is saved,    *)
(* all before anybody can connect.  A read that fails counts as no catalog.  *)

Crash ==
    /\ up /\ faults < MaxFaults
    /\ up' = FALSE
    /\ faults' = faults + 1
    /\ heap' = Nothing /\ tenants' = Nothing
    /\ held' = [c \in Conn |-> NoArc]
    /\ req' = [c \in Conn |-> NoRequest]
    /\ ans' = [c \in Conn |-> IF c \in Waits /\ ph[c] # "idle" THEN "error" ELSE ans[c]]
    /\ ph' = [c \in Conn |-> "idle"]
    /\ todo' = [c \in Conn |-> Nothing] /\ doc' = [c \in Conn |-> Nothing]
    /\ solo' = [c \in Conn |-> FALSE]
    /\ UNCHANGED <<stored, acked>>

WithRoot(cat) ==
    LET zero == IF Zero \in DOMAIN cat THEN cat[Zero] ELSE Nothing
    IN  Put(cat, Zero, IF Root \in DOMAIN zero THEN zero ELSE Put(zero, Root, RootRecord))

\* Every tenant gets an arc of its own.
Arcs(cat) == {f \in [DOMAIN cat -> Arc] : \A s, t \in DOMAIN cat : f[s] = f[t] => s = t}

Serve(cat) ==
    LET arc == CHOOSE f \in Arcs(cat) : TRUE
    IN /\ Arcs(cat) # {}
       /\ up' = TRUE
       /\ tenants' = arc
       /\ heap' = [a \in Values(arc) |-> cat[CHOOSE t \in DOMAIN cat : arc[t] = a]]

\* As load_persisted, with the catalog left unread.
load_persisted_Fresh(cat) == WithRoot(Nothing)

load_persisted(cat) == WithRoot(restore(cat))

Failures(outcomes) == Cardinality({o \in outcomes : ~ o[2]})

\* readOk and saveOk: whether the store answered main's get and its put.
Start ==
    /\ ~ up
    /\ \E readOk, saveOk \in BOOLEAN :
         LET cat == load_persisted(IF readOk THEN stored ELSE Nothing)
         IN /\ faults' = faults + Failures({<<"get", readOk>>, <<"put", saveOk>>})
            /\ faults' <= MaxFaults
            /\ Serve(cat)
            /\ stored' = IF saveOk THEN cat ELSE stored
            /\ acked' = IF readOk THEN acked ELSE {}
    /\ UNCHANGED <<held, ph, req, ans, saveVars>>

CatInit ==
    /\ up = FALSE
    /\ heap = Nothing /\ tenants = Nothing /\ stored = Nothing
    /\ held = [c \in Conn |-> NoArc]
    /\ ph = [c \in Conn |-> "idle"]
    /\ req = [c \in Conn |-> NoRequest]
    /\ ans = [c \in Conn |-> "none"]
    /\ todo = [c \in Conn |-> Nothing] /\ doc = [c \in Conn |-> Nothing]
    /\ solo = [c \in Conn |-> FALSE]
    /\ faults = 0 /\ acked = {}

LineLink(c) == LineConnect(c) \/ LineAuth(c) \/ LineClose(c)

\* What a client may ask for: r is a request, its unused fields as in NoRequest.
LineCommand(c, r) ==
    \/ r.op = "tenant" /\ LineTenant(c, r.t)
    \/ Create(c, r) \/ Branch(c, r)

HttpRequest(c, r) ==
    \/ r.op = "create_tenant" /\ CreateTenant(c, r.t)
    \/ r.op = "delete_tenant" /\ DeleteTenant(c, r.t)
    \/ r.op \in {"list", "create", "branch"} /\ Resolve(c, r)

\* What the server's task for a connection does by itself.
Handle(c) ==
    \/ c \in Http /\ (ReadOnly(c) \/ Create(c, req[c]) \/ Branch(c, req[c]))
    \/ SaveList(c) \/ (\E t \in Tenant : SaveRead(c, t)) \/ SavePut(c) \/ SavePutFails(c)

-----------------------------------------------------------------------------
(* Properties.                                                               *)

Has(cat, b) == b[1] \in DOMAIN cat /\ b[2] \in DOMAIN cat[b[1]]

\* A timeline whose creation was answered with success, by a save that did not
\* fail and that no other save overlapped, is in the catalog object, and on the
\* page server while it is up, until its tenant is deleted: no later save, by
\* whatever request, and no crash at whatever step, loses it (catalog.rs,
\* main.rs: "so it survives a restart").
AckedDurable ==
    \A b \in acked :
      /\ Has(stored, b)
      /\ up => b[1] \in DOMAIN tenants /\ b[2] \in DOMAIN heap[tenants[b[1]]]

\* Whatever mix of moments a save has read the tenants at, restore rebuilds all
\* of it: the document never holds a branch without its ancestry, so nothing is
\* skipped as an orphan (catalog.rs: restore).
RestoreExact ==
    /\ restore(stored) = stored
    /\ \A c \in Conn : ph[c] = "put" => restore(doc[c]) = doc[c]
=============================================================================
