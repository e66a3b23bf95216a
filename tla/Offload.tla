------------------------------- MODULE Offload -------------------------------
(***************************************************************************)
(* The copies of frozen layers in the object store: the worker that        *)
(* uploads them (pageserver/src/offload.rs) and the gc command that, after *)
(* the timelines are compacted, deletes those of the replaced layers       *)
(* (control.rs and httpapi.rs).  Both await the store with no lock held,   *)
(* next to each other and to the ingest.                                   *)
(***************************************************************************)
EXTENDS Timelines

CONSTANT MaxFailures    \* bound: requests the object store fails

ASSUME FailureAssumption == MaxFailures \in Nat

VARIABLES
    uploaded,       \* Repository::uploaded of each timeline
    worker,         \* the pass in progress: the timelines still to visit, the one it
                    \* is at, its layers still to upload, the ids of those in the
                    \* store but not yet marked
    doomed,         \* <<timeline, layer id>> of the objects gc has yet to delete
    objects,        \* the object store: <<timeline, layer>> under each layer key
    failures        \* number of requests the store has failed so far

offloadVars == <<uploaded, worker, doomed, objects, failures>>
ofVars == <<tlVars, offloadVars>>

Resting == [todo |-> {}, tl |-> None, pending |-> {}, put |-> {}]

(***************************************************************************)
(* Every field of the worker and of the store in its range.                *)
(***************************************************************************)
OfTypeOK ==
    /\ TlTypeOK
    /\ uploaded \in [Timeline -> SUBSET Nat]
    /\ worker \in [todo : SUBSET Timeline, tl : Timeline \cup {None},
                   pending : SUBSET Layer, put : SUBSET Nat]
    /\ doomed \subseteq Timeline \X Nat
    /\ DOMAIN objects \subseteq Nat
    /\ \A k \in DOMAIN objects : objects[k] \in Timeline \X Layer
    /\ failures \in 0..MaxFailures

OfInit ==
    /\ TlInit
    /\ uploaded = [t \in Timeline |-> {}]
    /\ worker = Resting
    /\ doomed = {}
    /\ objects = <<>>
    /\ failures = 0
-----------------------------------------------------------------------------
\* layer_key: made from the id alone, whatever timeline the layer is of.
LayerKey(t, id) == id

\* offload_tenant lists the timelines.
BeginPass ==
    /\ worker = Resting
    /\ ~Locked
    /\ timelines # {}
    /\ worker' = [Resting EXCEPT !.todo = timelines]
    /\ UNCHANGED <<tlVars, uploaded, doomed, objects, failures>>

\* The layers of a timeline that still have to be uploaded.
Pending_SinceLast(t) == {y \in layers[t] : \A id \in uploaded[t] : id < y.id}
Pending(t) == {y \in layers[t] : y.id \notin uploaded[t]}

\* get_timeline, then a snapshot by pending_offload.
VisitTimeline(t) ==
    /\ worker.pending = {} /\ worker.put = {}
    /\ t \in worker.todo
    /\ ~Locked
    /\ worker' = [todo |-> worker.todo \ {t}, tl |-> t, pending |-> Pending(t), put |-> {}]
    /\ UNCHANGED <<tlVars, uploaded, doomed, objects, failures>>

\* The store takes the layer.
PutLayer(y) ==
    LET key == LayerKey(worker.tl, y.id)
    IN  /\ worker.put = {}
        /\ worker' = [todo |-> worker.todo, tl |-> worker.tl,
                      pending |-> worker.pending \ {y}, put |-> {y.id}]
        /\ objects' = [k \in DOMAIN objects \cup {key} |->
                          IF k = key THEN <<worker.tl, y>> ELSE objects[k]]
        /\ UNCHANGED <<tlVars, uploaded, doomed, failures>>

\* The worker, back from the put, calls mark_uploaded.
MarkUploaded ==
    /\ worker.put # {}
    /\ uploaded' = [uploaded EXCEPT ![worker.tl] = @ \cup worker.put]
    /\ worker' = [worker EXCEPT !.put = {}]
    /\ UNCHANGED <<tlVars, doomed, objects, failures>>

\* The put fails: the layer waits for the next pass.
PutFails(y) ==
    /\ worker.put = {}
    /\ failures < MaxFailures
    /\ failures' = failures + 1
    /\ worker' = [worker EXCEPT !.pending = @ \ {y}]
    /\ UNCHANGED <<tlVars, uploaded, doomed, objects>>

EndPass ==
    /\ worker # Resting
    /\ worker.todo = {} /\ worker.pending = {} /\ worker.put = {}
    /\ worker' = Resting
    /\ UNCHANGED <<tlVars, uploaded, doomed, objects, failures>>

\* compact also forgets the uploads of the layers it replaces, and the gc
\* command keeps their ids for deletion.
OfGcTimeline(t) ==
    LET gone == {y.id : y \in layers[t]}
    IN  /\ GcTimeline(t)
        /\ uploaded' = [uploaded EXCEPT ![t] = @ \ gone]
        /\ doomed' = doomed \cup ({t} \X gone)
        /\ UNCHANGED <<worker, objects, failures>>

\* gc_command, once Tenant::gc has returned: one delete after another.
DeleteObject(x) ==
    /\ ~Locked
    /\ doomed' = doomed \ {x}
    /\ objects' = [k \in DOMAIN objects \ {LayerKey(x[1], x[2])} |-> objects[k]]
    /\ UNCHANGED <<tlVars, uploaded, worker, failures>>

\* A failed delete is not tried again.
DeleteFails(x) ==
    /\ ~Locked
    /\ failures < MaxFailures
    /\ failures' = failures + 1
    /\ doomed' = doomed \ {x}
    /\ UNCHANGED <<tlVars, uploaded, worker, objects>>

Worker ==
    \/ BeginPass
    \/ \E t \in Timeline : VisitTimeline(t)
    \/ \E y \in worker.pending : PutLayer(y) \/ PutFails(y)
    \/ MarkUploaded
    \/ EndPass

Collector ==
    \/ \E t \in Timeline : OfGcTimeline(t)
    \/ \E x \in doomed : DeleteObject(x) \/ DeleteFails(x)

OfNext ==
    \/ TenantStep /\ UNCHANGED offloadVars
    \/ Worker
    \/ Collector

OfSpec == OfInit /\ [][OfNext]_ofVars

\* The worker is a loop on a timer, and a gc command runs to its end.
FairOfSpec == OfSpec /\ WF_ofVars(Worker) /\ WF_ofVars(Collector)
-----------------------------------------------------------------------------
(***************************************************************************)
(* A layer that counts as offloaded, and so is not offered to the worker   *)
(* again, is in the object store with its contents, whatever gc deletes    *)
(* there (offload_pending, mark_uploaded, compact, gc_command).            *)
(***************************************************************************)
UploadedIsStored ==
    \A t \in Timeline : \A y \in layers[t] : y.id \in uploaded[t] =>
        /\ LayerKey(t, y.id) \in DOMAIN objects
        /\ objects[LayerKey(t, y.id)] = <<t, y>>

(***************************************************************************)
(* Every frozen layer is uploaded in the end, if it is not compacted away  *)
(* before: a failed upload is tried again (offload::run).                  *)
(***************************************************************************)
EveryLayerOffloaded ==
    \A t \in Timeline, id \in 0..(2 * MaxRecords + MaxGcs) :
        (\E y \in layers[t] : y.id = id)
            ~> (id \in uploaded[t] \/ \A y \in layers[t] : y.id # id)
=============================================================================
