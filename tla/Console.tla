------------------------------- MODULE Console -------------------------------
(* The console (aethelctl serve) as it drives the page server's HTTP API and *)
(* the proxy's control API: a user thinks in named databases, the console    *)
(* keeps their names, restore points and current timelines in a local file   *)
(* (databases.rs), and each operation is a sequence of file updates and      *)
(* calls, any of which may fail (serve.rs, lib.rs).                          *)
(*                                                                           *)
(* A database name stands for the tenant id its hash gives, a restore point  *)
(* for the timeline id the hash of <database>/<branch> gives.  The console   *)
(* answers one request at a time; other clients of the page server (the      *)
(* command line, the line protocol) run beside it.                           *)
EXTENDS Catalog, Sequences

CONSTANTS console,          \* the console's connection to the page server
          Database,         \* database names, as tenant ids
          Point,            \* restore points, as timeline ids
          Casts,            \* which other clients take part in a behaviour
          Asked,            \* the requests they make
          MaxRequests,      \* how many they make, in all
          MaxOps            \* operations asked of the console

ASSUME ConsoleAssumption ==
    /\ console \in Waits
    /\ Database \subseteq Tenant \ {Zero}
    /\ Point \subseteq Timeline \ {Root}
    /\ Casts \subseteq SUBSET (Conn \ {console})
    /\ Asked \subseteq Request /\ MaxRequests \in Nat /\ MaxOps \in Nat

VARIABLES file,     \* the registry file: database -> entry
          torn,     \* the file is truncated, and not written since
          writing,  \* the console is between truncating and writing it
          buf,      \* what it is about to write
          op,       \* the console's operation
          at,       \* its current stage, 0 between operations
          route,    \* the proxy's routes: database -> the timeline pinned
          cast, requests, ops,   \* the other clients, and what was asked so far
          missed,   \* history: databases whose last proxy call failed, or
                    \* pinned one the registry does not know, or whose entry
                    \* was in a file that was left truncated
          undone    \* history: since the operation began its tenant was deleted or
                    \* the server restarted, or it branches from a missing root

conVars == <<file, torn, writing, buf, op, at, route, missed, undone>>
castVars == <<cast, requests, ops>>
vars == <<catVars, conVars, castVars>>

live == "live"
Entry == [branches : SUBSET Point, current : Point \union {live}]
NewEntry == [branches |-> {}, current |-> live]

\* A file that does not parse reads as an empty registry.
load == IF torn THEN Nothing ELSE file

-----------------------------------------------------------------------------
(* The operations, as the stages they go through.                            *)

Stages ==
    [create  |-> <<"upsert", "tenant", "timeline", "route", "done">>,
     delete  |-> <<"find", "drop", "unroute", "remove", "done">>,
     branch  |-> <<"find", "branch", "add_branch", "done">>,
     restore |-> <<"set_current", "pin", "done">>]

Operation == [kind : DOMAIN Stages, db : Database, to : Point \union {live}]
Stage == IF at = 0 THEN "idle" ELSE Stages[op.kind][at]
NoOperation == [kind |-> "create", db |-> CHOOSE d \in Database : TRUE, to |-> live]

Begin(o) ==
    /\ Stage = "idle" /\ ops < MaxOps
    /\ ops' = ops + 1
    /\ o.kind = "branch" => o.to # live
    /\ o.kind \in {"create", "delete"} => o.to = live
    /\ op' = o /\ at' = 1
    /\ undone' = FALSE
    /\ UNCHANGED <<catVars, file, torn, writing, buf, route, missed, cast, requests>>

Advance == at' = at + 1 /\ UNCHANGED <<op, undone>>
Finish == at' = 0 /\ op' = NoOperation /\ undone' = FALSE

Done ==
    /\ Stage = "done"
    /\ Finish
    /\ UNCHANGED <<catVars, file, torn, writing, buf, route, missed>>

-----------------------------------------------------------------------------
(* The registry file.  Each update loads the file, changes the list, and     *)
(* writes it back in place: truncated first, written after.                  *)

save(dbs) ==
    /\ torn' = TRUE /\ writing' = TRUE /\ buf' = dbs
    /\ UNCHANGED <<file, op, at, undone>>

NoSave == Advance /\ UNCHANGED <<file, torn, writing, buf>>

upsert ==
    /\ Stage = "upsert"
    /\ IF op.db \in DOMAIN load THEN NoSave ELSE save(Put(load, op.db, NewEntry))

add_branch ==
    /\ Stage = "add_branch"
    /\ IF op.db \in DOMAIN load /\ op.to \notin load[op.db].branches
       THEN save([load EXCEPT ![op.db].branches = @ \union {op.to}])
       ELSE NoSave

\* As set_current, only for restore points the registry has on record.
set_current_Known ==
    /\ Stage = "set_current"
    /\ IF op.db \in DOMAIN load /\ op.to \in load[op.db].branches
       THEN save([load EXCEPT ![op.db].current = op.to]) ELSE NoSave

set_current ==
    /\ Stage = "set_current"
    /\ IF op.db \in DOMAIN load THEN save([load EXCEPT ![op.db].current = op.to]) ELSE NoSave

remove ==
    /\ Stage = "remove"
    /\ IF op.db \in DOMAIN load THEN save(Without(load, op.db)) ELSE NoSave

Update ==
    /\ ~ writing
    /\ upsert \/ add_branch \/ set_current \/ remove
    /\ UNCHANGED <<catVars, route, missed>>

Write ==
    /\ writing
    /\ file' = buf /\ buf' = Nothing
    /\ torn' = FALSE /\ writing' = FALSE
    /\ Advance
    /\ UNCHANGED <<catVars, route, missed>>

\* Deleting or branching a database the registry does not know is an error.
Find ==
    /\ Stage = "find"
    /\ IF op.db \in DOMAIN load THEN Advance ELSE Finish
    /\ UNCHANGED <<catVars, file, torn, writing, buf, route, missed>>

-----------------------------------------------------------------------------
(* Calls to the page server.                                                 *)

Serves(t, l) == up /\ t \in DOMAIN tenants /\ l \in DOMAIN heap[tenants[t]]
Calls == {"tenant", "timeline", "branch", "drop"}

Send ==
    /\ Stage \in Calls /\ ans[console] = "none"
    /\ \/ Stage = "tenant" /\ CreateTenant(console, op.db)
       \/ Stage = "drop" /\ DeleteTenant(console, op.db)
       \/ Stage = "timeline" /\ Resolve(console, CreateRequest(op.db, Root))
       \/ /\ Stage = "branch"
          /\ \E n \in Lsn : Resolve(console, BranchRequest(op.db, op.to, Root, n))
    /\ undone' = (undone \/ (Stage = "branch" /\ ~ Serves(op.db, Root)))
    /\ UNCHANGED <<file, torn, writing, buf, op, at, route, missed>>

\* Nobody is listening: the call fails at once.
SendFails ==
    /\ Stage \in Calls /\ ~ up /\ ans[console] = "none"
    /\ ans' = [ans EXCEPT ![console] = "error"]
    /\ UNCHANGED <<up, memVars, held, ph, req, saveVars, stored, faults, acked, conVars>>

\* As ignore_conflict, with every error passed.
ignore_conflict_All(status) == TRUE

\* ignore_conflict passes a 409 on creating and branching; a deletion's outcome
\* is not looked at.
ignore_conflict(status) == status \in {"ok", "conflict"} \/ Stage = "drop"

\* As Receive, without the error path.
Receive_NoError ==
    /\ Stage \in Calls /\ ans[console] \in {"ok", "conflict"}
    /\ ans' = [ans EXCEPT ![console] = "none"]
    /\ Advance
    /\ UNCHANGED <<up, memVars, held, ph, req, saveVars, stored, faults, acked,
                   file, torn, writing, buf, route, missed>>

Receive ==
    /\ Stage \in Calls /\ ans[console] # "none"
    /\ ans' = [ans EXCEPT ![console] = "none"]
    /\ IF ignore_conflict(ans[console]) THEN Advance ELSE Finish
    /\ UNCHANGED <<up, memVars, held, ph, req, saveVars, stored, faults, acked,
                   file, torn, writing, buf, route, missed>>

-----------------------------------------------------------------------------
(* Calls to the proxy's control API, all best-effort.  Registering replaces  *)
(* the tenant's state, its pin included; pinning needs a route.              *)

Routed(db) ==
    CASE Stage = "route" -> Put(route, db, live)
      [] Stage = "unroute" -> Without(route, db)
      [] OTHER -> IF db \in DOMAIN route THEN [route EXCEPT ![db] = op.to] ELSE route

ProxyCall ==
    /\ Stage \in {"route", "unroute", "pin"}
    /\ route' = Routed(op.db)
    /\ missed' = IF Stage = "pin" /\ op.db \notin DOMAIN load THEN missed \union {op.db}
                                                          ELSE missed \ {op.db}
    /\ Advance
    /\ UNCHANGED <<catVars, file, torn, writing, buf>>

ProxyCallFails ==
    /\ Stage \in {"route", "unroute", "pin"} /\ faults < MaxFaults
    /\ faults' = faults + 1
    /\ missed' = missed \union {op.db}
    /\ Advance
    /\ UNCHANGED <<up, memVars, held, ph, req, ans, saveVars, stored, acked,
                   file, torn, writing, buf, route>>

\* The proxy keeps its routes in memory.
ProxyRestart ==
    /\ faults < MaxFaults /\ route # Nothing
    /\ faults' = faults + 1
    /\ route' = Nothing
    /\ UNCHANGED <<up, memVars, held, ph, req, ans, saveVars, stored, acked,
                   file, torn, writing, buf, op, at, missed, undone>>

\* The console dies between two of its steps.  One that dies during a call is
\* one that dies right after it: the server's task runs on either way.
Abort ==
    /\ at # 0 /\ faults < MaxFaults /\ ph[console] = "idle"
    /\ faults' = faults + 1
    /\ ans' = [ans EXCEPT ![console] = "none"]
    /\ missed' = missed \union (IF writing THEN Database ELSE {op.db})
    /\ writing' = FALSE /\ buf' = Nothing
    /\ Finish
    /\ UNCHANGED <<up, memVars, held, ph, req, saveVars, stored, acked,
                   file, torn, route>>

-----------------------------------------------------------------------------
(* The page server's other clients, and the whole system.                    *)

\* Deleting the database under the console's operation undoes it.
ClientRequest(c, r) ==
    /\ requests < MaxRequests
    /\ requests' = requests + 1
    /\ LineCommand(c, r) \/ HttpRequest(c, r)
    /\ undone' = (undone \/ (at # 0 /\ r.op = "delete_tenant" /\ r.t = op.db))
    /\ UNCHANGED <<file, torn, writing, buf, op, at, route, missed, cast, ops>>

ServerCrash ==
    /\ Crash
    /\ undone' = (at # 0)
    /\ UNCHANGED <<file, torn, writing, buf, op, at, route, missed>>

ServerStart == Start /\ UNCHANGED <<conVars, castVars>>

ConsoleStep ==
    /\ \/ Done \/ Update \/ Write \/ Find \/ Send \/ SendFails \/ Receive
       \/ ProxyCall \/ ProxyCallFails
    /\ UNCHANGED castVars

ServerStep == \E c \in Conn : Handle(c) /\ UNCHANGED <<conVars, castVars>>

CpInit ==
    /\ CatInit
    /\ file = Nothing /\ torn = FALSE /\ writing = FALSE /\ buf = Nothing
    /\ op = NoOperation /\ at = 0 /\ route = Nothing
    /\ missed = {} /\ undone = FALSE
    /\ cast \in Casts /\ requests = 0 /\ ops = 0

CpNext ==
    \/ \E o \in Operation : Begin(o)
    \/ ConsoleStep \/ ServerStep \/ ServerStart
    \/ \E c \in cast : LineLink(c) /\ UNCHANGED <<conVars, castVars>>
    \/ \E c \in cast, r \in Asked : ClientRequest(c, r)
    \/ (ServerCrash \/ ProxyRestart \/ Abort) /\ UNCHANGED castVars

\* The console's loop and the server's tasks run on; a page server that died is
\* started again by its supervisor.
CpSpec ==
    /\ CpInit /\ [][CpNext]_vars
    /\ WF_vars(ConsoleStep) /\ WF_vars(ServerStep) /\ WF_vars(ServerStart)

-----------------------------------------------------------------------------
(* Properties.                                                               *)

\* When the console answers that a database was created, the page server has
\* its tenant and root timeline, and when it answers that a restore point was
\* made on a database with a root timeline, it has that timeline: 409s passed
\* over, tenants provisioned by other clients in between and failing saves do
\* not change that.  Only a deletion by somebody else, or a restart, during the
\* operation can (serve.rs: create_database, branch_database).
PromisesKept ==
    Stage = "done" /\ ~ undone =>
      /\ op.kind = "create" => Serves(op.db, Root)
      /\ op.kind = "branch" => Serves(op.db, op.to)

\* A compute node is never pinned to a timeline other than the one the registry
\* says the database serves from, once the operations on it are over and unless
\* its last call to the proxy failed or was for a name not in the registry, or
\* the console has died since while it wrote the registry, which loses every
\* entry (serve.rs: restore_database; databases.rs: save).
PinNeverAhead ==
    Stage = "idle" =>
      \A db \in DOMAIN route \intersect DOMAIN load :
        route[db] # live /\ db \notin missed => load[db].current = route[db]

\* The console handles one request at a time: each one is answered, whatever
\* the page server and the proxy do meanwhile (serve.rs: serve).
EveryOperationReturns == (Stage # "idle") ~> (Stage = "idle")
=============================================================================
