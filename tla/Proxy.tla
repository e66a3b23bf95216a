------------------------------- MODULE Proxy -------------------------------
(***************************************************************************)
(* One tenant of the activation proxy: the client connections that wake    *)
(* its compute node and are spliced to it, the idle reaper and warmer, the *)
(* requests of the control API, the activator they all call, and the       *)
(* compute node itself (the environment).  Every await is a step boundary. *)
(*                                                                         *)
(* A TenantState is one element of `states'; registering a known tenant    *)
(* again makes a new one while older connections keep theirs.  Wall-clock  *)
(* idle time is the flag `fresh': touched less than the idle threshold ago.*)
(***************************************************************************)
EXTENDS Naturals, Sequences, FiniteSets

CONSTANTS
  Session,      \* client connections; each is used once
  Admin,        \* connections to the control API; each carries one request
  Pins,         \* timelines a restore may pin
  Kinds,        \* activators to consider: "command", "kube", "noop"
  Ops,          \* requests of the control API to consider
  Casts,        \* bound: which connections and requests take part together
  MaxStates,    \* bound: TenantStates made by registrations
  MaxFaults     \* bound: activator calls that fail, and compute nodes that
                \* die by themselves

ASSUME ProxyAssumption == /\ Casts \subseteq SUBSET (Session \cup Admin)
                          /\ MaxStates \in Nat \ {0}
                          /\ MaxFaults \in Nat

ASSUME TaskAssumption == /\ IsFiniteSet(Session)
                         /\ "reaper" \notin Session \cup Admin
                         /\ Session \cap Admin = {}

Live == "live"          \* no pin: the live root timeline
Reaper == "reaper"      \* the task of idle::run
Tasks == Session \cup Admin \cup {Reaper}

VARIABLES
  kind,       \* the activator main() chose
  route,      \* Registry: index of the TenantState routed to, 0 when none
  states,     \* every TenantState made so far
  pc, on,     \* where each task stands, and the TenantState it holds
  call, arg,  \* its activator call: stage, and the timeline passed to start
  link,       \* Session -> BOOLEAN: the backend socket works
  key,        \* Session -> its BackendKeyData: "none", "seen" or "sent"
  cancels,    \* CancelRegistry: sessions whose key is registered
  pod,        \* compute: [st |-> "down" | "booting" | "up", tl |-> timeline]
  deploy,     \* Kubernetes Deployment: [replicas, note]
  faults,
  settled     \* history: compute was down, and no older start under way,
              \* since the last change of the pin

tenantVars == <<route, states>>
callVars == <<call, arg>>
sessVars == <<link, key, cancels>>
envVars == <<pod, deploy>>
pxVars == <<kind, tenantVars, pc, on, callVars, sessVars, envVars, faults,
            settled>>

-----------------------------------------------------------------------------
(* TenantState and Registry. *)

NewTenantState == [running |-> FALSE, conns |-> 0, fresh |-> TRUE,
                   pin |-> Live, warm |-> FALSE]

touch(st) == [st EXCEPT !.fresh = TRUE]

set_running(i, v) == states' = [states EXCEPT ![i].running = v]

set_pinned_timeline(i, tl) == states' = [states EXCEPT ![i].pin = tl]

set_keep_warm(i, v) == states' = [states EXCEPT ![i].warm = v]

Reapable(i) == /\ states[i].running
               /\ ~states[i].warm
               /\ states[i].conns = 0
               /\ ~states[i].fresh

MarkRunning(i) ==
  states' = [states EXCEPT ![i] = touch([@ EXCEPT !.running = TRUE])]

connection_started(i) ==
  states' = [states EXCEPT ![i] = touch([@ EXCEPT !.conns = states[i].conns + 1])]

connection_finished(i) ==
  states' = [states EXCEPT ![i] = touch([@ EXCEPT !.conns = states[i].conns - 1])]

PxInit == /\ kind \in Kinds
          /\ route = 1 /\ states = <<NewTenantState>>
          /\ \E T \in Casts :
               pc = [t \in Tasks |-> IF t = Reaper THEN "reap"
                                    ELSE IF t \in T THEN "new" ELSE "closed"]
          /\ on = [t \in Tasks |-> 1]
          /\ call = [t \in Tasks |-> "none"]
          /\ arg = [t \in Tasks |-> Live]
          /\ link = [s \in Session |-> FALSE]
          /\ key = [s \in Session |-> "none"]
          /\ cancels = {}
          /\ pod = [st |-> IF kind = "noop" THEN "up" ELSE "down", tl |-> Live]
          /\ deploy = [replicas |-> 0, note |-> Live]
          /\ faults = 0 /\ settled = FALSE

-----------------------------------------------------------------------------
(* The activator.  A call passes through the stages "pin" (Kubernetes only,*)
(* when a timeline is pinned), "scale" or "stop", and ends in "ok" or      *)
(* "err"; the caller goes on in a later step.                              *)

\* Mutant: a start only scales, the pod template keeps its timeline.
StartStage_NoPatch(tl) == "scale"

StartStage(tl) == IF kind = "kube" /\ tl # Live THEN "pin" ELSE "scale"

Start(t, tl) == /\ call' = [call EXCEPT ![t] = StartStage(tl)]
                /\ arg' = [arg EXCEPT ![t] = tl]

Stop(t) == call' = [call EXCEPT ![t] = "stop"] /\ UNCHANGED arg

Return(t) == /\ call' = [call EXCEPT ![t] = "none"]
             /\ arg' = [arg EXCEPT ![t] = Live]

\* Sockets to a compute node that goes away are reset.
Reset == link' = [s \in Session |-> FALSE]

\* What a request does once it reaches the other side.  A start command
\* finds a node that is already up as it is; the Kubernetes API only records
\* what is wanted.
NoopEffect(t) == kind = "noop" /\ UNCHANGED <<envVars, link>>

CommandEffect(t) ==
  /\ kind = "command" /\ UNCHANGED deploy
  /\ \/ /\ call[t] = "scale" /\ UNCHANGED link
        /\ pod' = IF pod.st = "down" THEN [st |-> "booting", tl |-> arg[t]] ELSE pod
     \/ call[t] = "stop" /\ pod' = [pod EXCEPT !.st = "down"] /\ Reset

KubeEffect(t) ==
  /\ kind = "kube" /\ UNCHANGED <<pod, link>>
  /\ deploy' = CASE call[t] = "pin" -> [deploy EXCEPT !.note = arg[t]]
                 [] call[t] = "scale" -> [deploy EXCEPT !.replicas = 1]
                 [] call[t] = "stop" -> [deploy EXCEPT !.replicas = 0]

Effect(t) == NoopEffect(t) \/ CommandEffect(t) \/ KubeEffect(t)

InCall(t) == call[t] \in {"pin", "scale", "stop"}

CallTaken(t) ==
  /\ InCall(t)
  /\ Effect(t)
  /\ call' = [call EXCEPT ![t] = IF @ = "pin" THEN "scale" ELSE "ok"]
  /\ UNCHANGED <<kind, tenantVars, pc, on, arg, key, cancels, faults>>

\* An error is reported, whether or not the request was carried out.
CallFails(t) ==
  /\ InCall(t) /\ faults < MaxFaults
  /\ Effect(t) \/ UNCHANGED <<envVars, link>>
  /\ call' = [call EXCEPT ![t] = "err"]
  /\ faults' = faults + 1
  /\ UNCHANGED <<kind, tenantVars, pc, on, arg, key, cancels>>

-----------------------------------------------------------------------------
(* A client connection: serve_client, serve_over, ensure_awake, splice.    *)

At(t, here, next) == pc[t] = here /\ pc' = [pc EXCEPT ![t] = next]

\* The startup packet names the tenant; an unknown one is rejected.
Resolve(s) ==
  /\ At(s, "new", IF route = 0 THEN "closed" ELSE "auth")
  /\ on' = [on EXCEPT ![s] = IF route = 0 THEN @ ELSE route]
  /\ UNCHANGED <<kind, tenantVars, callVars, sessVars, envVars, faults>>

\* The first packet is a CancelRequest for session t.  It is forwarded or
\* dropped; neither changes anything here.
RouteCancel(s) ==
  /\ \E t \in Session : key[t] = "sent"
  /\ At(s, "new", "closed")
  /\ UNCHANGED <<kind, tenantVars, on, callVars, sessVars, envVars, faults>>

\* SCRAM, when the tenant has a verifier (see Scram), fails.
AuthFails(s) ==
  /\ At(s, "auth", "closed")
  /\ UNCHANGED <<kind, tenantVars, on, callVars, sessVars, envVars, faults>>

EnsureAwake(s) ==
  /\ At(s, "auth", "waking")
  /\ IF states[on[s]].running THEN UNCHANGED callVars
                              ELSE Start(s, states[on[s]].pin)
  /\ UNCHANGED <<kind, tenantVars, on, sessVars, envVars, faults>>

\* Mutant: the readiness probe has no budget.
Probe_NoBudget(s) ==
  /\ call[s] \in {"none", "ok"} /\ pod.st = "up"
  /\ At(s, "waking", "ready")
  /\ Return(s)
  /\ UNCHANGED <<kind, tenantVars, on, sessVars, envVars, faults>>

\* The start has returned or was not needed.  After an error the client is
\* dropped; otherwise wait_until_ready connects, or its budget runs out.
Probe(s) ==
  /\ call[s] \in {"none", "ok", "err"}
  /\ At(s, "waking", IF call[s] # "err" /\ pod.st = "up" THEN "ready" ELSE "closed")
  /\ Return(s)
  /\ UNCHANGED <<kind, tenantVars, on, sessVars, envVars, faults>>

SetRunning(s) ==
  /\ At(s, "ready", "connecting")
  /\ set_running(on[s], TRUE)
  /\ UNCHANGED <<kind, route, on, callVars, sessVars, envVars, faults>>

Connect(s) ==
  /\ At(s, "connecting", IF pod.st = "up" THEN "connected" ELSE "closed")
  /\ link' = [link EXCEPT ![s] = pod.st = "up"]
  /\ UNCHANGED <<kind, tenantVars, on, callVars, key, cancels, envVars, faults>>

\* The startup packet is written and the gauge raised.
BeginSplice(s) ==
  /\ At(s, "connected", "splicing")
  /\ connection_started(on[s])
  /\ UNCHANGED <<kind, route, on, callVars, sessVars, envVars, faults>>

StartupNotSent(s) ==
  /\ ~link[s]
  /\ At(s, "connected", "closed")
  /\ UNCHANGED <<kind, tenantVars, on, callVars, sessVars, envVars, faults>>

\* Mutant: the key reaches the client first.
CaptureKey_Late(s) ==
  /\ pc[s] = "splicing" /\ link[s] /\ key[s] # "sent"
  /\ key' = [key EXCEPT ![s] = IF @ = "none" THEN "seen" ELSE "sent"]
  /\ UNCHANGED <<kind, tenantVars, pc, on, callVars, link, cancels, envVars, faults>>

\* Backend to client: the key is registered before the bytes are forwarded.
CaptureKey(s) ==
  /\ pc[s] = "splicing" /\ link[s] /\ key[s] = "none"
  /\ key' = [key EXCEPT ![s] = "seen"]
  /\ cancels' = cancels \cup {s}
  /\ UNCHANGED <<kind, tenantVars, pc, on, callVars, link, envVars, faults>>

ForwardKey(s) ==
  /\ pc[s] = "splicing" /\ key[s] = "seen"
  /\ key' = [key EXCEPT ![s] = "sent"]
  /\ UNCHANGED <<kind, tenantVars, pc, on, callVars, link, cancels, envVars, faults>>

\* Both directions reach end of file: the key is removed, the guard dropped.
EndSplice(s) ==
  /\ link[s]
  /\ At(s, "splicing", "closed")
  /\ connection_finished(on[s])
  /\ cancels' = cancels \ {s}
  /\ key' = [key EXCEPT ![s] = "none"]
  /\ UNCHANGED <<kind, route, on, callVars, link, envVars, faults>>

\* Mutant: an early return by `?' without the guard leaves the gauge up.
BreakSplice_NoGuard(s) ==
  /\ At(s, "splicing", "broken")
  /\ UNCHANGED <<kind, tenantVars, on, callVars, sessVars, envVars, faults>>

\* try_join! returns at the first error of either direction: the guard is
\* dropped, the key stays registered.
BreakSplice(s) ==
  /\ At(s, "splicing", "broken")
  /\ connection_finished(on[s])
  /\ UNCHANGED <<kind, route, on, callVars, sessVars, envVars, faults>>

SessionStep(s) ==
  \/ Resolve(s) \/ RouteCancel(s) \/ AuthFails(s) \/ EnsureAwake(s) \/ Probe(s) 
  \/ SetRunning(s) \/ Connect(s) \/ BeginSplice(s)
  \/ StartupNotSent(s) \/ CaptureKey(s) \/ ForwardKey(s) \/ EndSplice(s)
  \/ BreakSplice(s)

-----------------------------------------------------------------------------
(* idle::run: a pass of the reaper, then one of the warmer, for ever.  Each*)
(* collects the tenant first and checks again before it acts on it.        *)

ReapCollect ==
  /\ At(Reaper, "reap", IF route # 0 /\ Reapable(route) THEN "reapable" ELSE "warm")
  /\ on' = [on EXCEPT ![Reaper] = IF route = 0 THEN @ ELSE route]
  /\ UNCHANGED <<kind, tenantVars, callVars, sessVars, envVars, faults>>

ReapStop ==
  /\ IF Reapable(on[Reaper])
     THEN At(Reaper, "reapable", "stopping") /\ Stop(Reaper)
     ELSE At(Reaper, "reapable", "warm") /\ UNCHANGED callVars
  /\ UNCHANGED <<kind, tenantVars, on, sessVars, envVars, faults>>

\* Mutant: the flag is left set after the stop.
ReapDone_KeepFlag ==
  /\ call[Reaper] \in {"ok", "err"}
  /\ At(Reaper, "stopping", "warm")
  /\ Return(Reaper)
  /\ UNCHANGED <<kind, tenantVars, on, sessVars, envVars, faults>>

ReapDone ==
  /\ call[Reaper] \in {"ok", "err"}
  /\ At(Reaper, "stopping", "warm")
  /\ IF call[Reaper] = "ok" THEN set_running(on[Reaper], FALSE)
                            ELSE UNCHANGED states
  /\ Return(Reaper)
  /\ UNCHANGED <<kind, route, on, sessVars, envVars, faults>>

Cold(i) == states[i].warm /\ ~states[i].running

WarmCollect ==
  /\ At(Reaper, "warm", IF route # 0 /\ Cold(route) THEN "cold" ELSE "reap")
  /\ on' = [on EXCEPT ![Reaper] = IF route = 0 THEN @ ELSE route]
  /\ UNCHANGED <<kind, tenantVars, callVars, sessVars, envVars, faults>>

WarmStart ==
  /\ IF Cold(on[Reaper])
     THEN At(Reaper, "cold", "warming") /\ Start(Reaper, states[on[Reaper]].pin)
     ELSE At(Reaper, "cold", "reap") /\ UNCHANGED callVars
  /\ UNCHANGED <<kind, tenantVars, on, sessVars, envVars, faults>>

WarmDone ==
  /\ call[Reaper] \in {"ok", "err"}
  /\ At(Reaper, "warming", "reap")
  /\ IF call[Reaper] = "ok" THEN MarkRunning(on[Reaper]) ELSE UNCHANGED states
  /\ Return(Reaper)
  /\ UNCHANGED <<kind, route, on, sessVars, envVars, faults>>

ReaperStep == ReapCollect \/ ReapStop \/ ReapDone
              \/ WarmCollect \/ WarmStart \/ WarmDone

-----------------------------------------------------------------------------
(* The control API, one request per connection.  A request for a tenant    *)
(* that is not routed is answered 404.                                     *)

Register(a) ==
  /\ "register" \in Ops /\ Len(states) < MaxStates
  /\ At(a, "new", "closed")
  /\ states' = Append(states, NewTenantState)
  /\ route' = Len(states) + 1
  /\ UNCHANGED <<kind, on, callVars, sessVars, envVars, faults>>

Deregister(a) ==
  /\ "deregister" \in Ops
  /\ At(a, "new", "closed")
  /\ route' = 0
  /\ UNCHANGED <<kind, states, on, callVars, sessVars, envVars, faults>>

Unknown(a) ==
  /\ route = 0
  /\ At(a, "new", "closed")
  /\ UNCHANGED <<kind, tenantVars, on, callVars, sessVars, envVars, faults>>

Routed(a) == route # 0 /\ on' = [on EXCEPT ![a] = route]

SetComputeStart(a) ==
  /\ "start" \in Ops /\ Routed(a)
  /\ At(a, "new", "starting")
  /\ Start(a, states[route].pin)
  /\ UNCHANGED <<kind, tenantVars, sessVars, envVars, faults>>

SetComputeStop(a) ==
  /\ "stop" \in Ops /\ Routed(a)
  /\ At(a, "new", "stopping")
  /\ Stop(a)
  /\ UNCHANGED <<kind, tenantVars, sessVars, envVars, faults>>

SetPin(a, tl) ==
  /\ (IF tl = Live THEN "unpin" ELSE "pin") \in Ops /\ Routed(a)
  /\ At(a, "new", "pinning")
  /\ set_pinned_timeline(route, tl)
  /\ Stop(a)
  /\ UNCHANGED <<kind, route, sessVars, envVars, faults>>

SetKeepWarm(a) ==
  /\ "keepwarm" \in Ops /\ Routed(a)
  /\ set_keep_warm(route, TRUE)
  /\ IF states[route].running
     THEN At(a, "new", "closed") /\ UNCHANGED callVars
     ELSE At(a, "new", "starting") /\ Start(a, states[route].pin)
  /\ UNCHANGED <<kind, route, sessVars, envVars, faults>>

ClearKeepWarm(a) ==
  /\ "nokeepwarm" \in Ops /\ Routed(a)
  /\ At(a, "new", "closed")
  /\ set_keep_warm(route, FALSE)
  /\ UNCHANGED <<kind, route, callVars, sessVars, envVars, faults>>

\* The flag follows the answer of the activator; after a pin it is cleared
\* whatever the answer was.
RequestDone(a) ==
  /\ call[a] \in {"ok", "err"}
  /\ \/ At(a, "starting", "closed") /\ call[a] = "ok" /\ MarkRunning(on[a])
     \/ At(a, "stopping", "closed") /\ call[a] = "ok" /\ set_running(on[a], FALSE)
     \/ At(a, "pinning", "closed") /\ set_running(on[a], FALSE)
     \/ /\ call[a] = "err" /\ pc[a] \in {"starting", "stopping"}
        /\ At(a, pc[a], "closed") /\ UNCHANGED states
  /\ Return(a)
  /\ UNCHANGED <<kind, route, on, sessVars, envVars, faults>>

Request(a) ==
  \/ Register(a) \/ Deregister(a) \/ Unknown(a) \/ SetComputeStart(a)
  \/ SetComputeStop(a) \/ (\E tl \in Pins \cup {Live} : SetPin(a, tl))
  \/ SetKeepWarm(a) \/ ClearKeepWarm(a)

-----------------------------------------------------------------------------
(* The environment: time, and the compute node.                            *)

\* The idle threshold passes since the last activity on state i.
Elapse(i) ==
  /\ states[i].fresh
  /\ states' = [states EXCEPT ![i].fresh = FALSE]
  /\ UNCHANGED <<kind, route, pc, on, callVars, sessVars, envVars, faults>>

Boot ==
  /\ pod.st = "booting"
  /\ pod' = [pod EXCEPT !.st = "up"]
  /\ UNCHANGED <<kind, tenantVars, pc, on, callVars, sessVars, deploy, faults>>

\* The Deployment controller makes the pod what the Deployment says, and a
\* changed template replaces the pod.  An unmanaged node is started by hand.
Reconcile ==
  /\ \/ /\ kind = "kube" /\ deploy.replicas = 0 /\ pod.st # "down"
        /\ pod' = [pod EXCEPT !.st = "down"]
     \/ /\ kind = "kube" /\ deploy.replicas = 1
        /\ pod.st = "down" \/ pod.tl # deploy.note
        /\ pod' = [st |-> "booting", tl |-> deploy.note]
     \/ /\ kind = "noop" /\ pod.st = "down"
        /\ pod' = [pod EXCEPT !.st = "booting"]
  /\ Reset
  /\ UNCHANGED <<kind, tenantVars, pc, on, callVars, key, cancels, deploy, faults>>

Crash ==
  /\ pod.st # "down" /\ faults < MaxFaults
  /\ pod' = [pod EXCEPT !.st = "down"]
  /\ Reset
  /\ faults' = faults + 1
  /\ UNCHANGED <<kind, tenantVars, pc, on, callVars, key, cancels, deploy>>

-----------------------------------------------------------------------------
(* Specification. *)

\* Compute is down and nothing under way would bring it up on another
\* timeline than the pin, nor does any task hold a replaced TenantState.
\* Under Kubernetes a start without a pin leaves the annotation alone, so
\* an unpinned tenant is quiet only while none is set.
Quiet ==
  /\ kind # "noop" /\ route # 0 /\ pod.st = "down"
  /\ \A t \in Tasks :
       /\ call[t] \in {"pin", "scale"} => arg[t] = states[route].pin
       /\ on[t] = route \/ pc[t] \in {"new", "closed", "broken", "reap", "warm"}
  /\ kind = "kube" =>
       /\ deploy.replicas = 0
       /\ states[route].pin = Live => deploy.note = Live
       /\ \A t \in Tasks : call[t] = "scale" => deploy.note = states[route].pin

PinChanged == \/ route' # route
              \/ route # 0 /\ states'[route].pin # states[route].pin

History == settled' = (Quiet' \/ (settled /\ ~PinChanged))

\* What the runtime carries on by itself once it was begun.
Progress ==
  /\ \/ \E s \in Session : SessionStep(s) /\ pc[s] \notin {"new", "splicing"}
     \/ \E a \in Admin : RequestDone(a)
     \/ \E t \in Tasks : CallTaken(t)
     \/ Boot \/ Reconcile
  /\ History

Tick == ReaperStep /\ History

TimePasses == (\E i \in DOMAIN states : Elapse(i)) /\ History

PxNext ==
  \/ Progress \/ Tick \/ TimePasses
  \/ /\ \/ \E s \in Session : SessionStep(s) /\ pc[s] \in {"new", "splicing"}
        \/ \E a \in Admin : Request(a)
        \/ \E t \in Tasks : CallFails(t)
        \/ Crash
     /\ History

\* The runtime as a whole goes on, the reaper's timer fires and time passes.
\* Nothing is assumed of the clients, nor that calls succeed.
PxFairness == WF_pxVars(Progress) /\ WF_pxVars(Tick) /\ WF_pxVars(TimePasses)

PxSpec == PxInit /\ [][PxNext]_pxVars /\ PxFairness

-----------------------------------------------------------------------------
(* Properties. *)

\* The gauge of every TenantState, the one routed and the replaced ones,
\* counts exactly the connections spliced under it, on every way a splice
\* ends (ConnGuard); the reaper relies on it.
GaugeExact ==
  \A i \in DOMAIN states :
    states[i].conns = Cardinality({s \in Session : pc[s] = "splicing" /\ on[s] = i})

\* A client that has received its cancellation key finds it registered for
\* as long as it is spliced, and a key outlives its session only when the
\* splice broke (splice_capturing_cancel_key, CancelRegistry).
CancelKeys ==
  /\ \A s \in Session : pc[s] = "splicing" /\ key[s] = "sent" => s \in cancels
  /\ \A s \in cancels : pc[s] \in {"splicing", "broken"}

\* Once compute has been down with no older start under way since the pin
\* was last changed, it never again runs on another timeline: every start
\* of connections, warmer and control API passes the pin, and Kubernetes
\* gets the annotation before the replica (set_pin, KubeActivator::start).
PinSettles == settled /\ pod.st # "down" => pod.tl = states[route].pin

\* A connection that was accepted for a tenant is spliced or closed after a
\* finite wait, whatever reaper, warmer and control API do meanwhile.
EveryConnectionResolved ==
  \A s \in Session : pc[s] = "auth" ~> pc[s] \in {"splicing", "closed", "broken"}

\* A routed tenant that is not kept warm does not stay marked as running
\* without connections for ever, whether or not its compute still lives:
\* the reaper stops it and the next connection starts it again.
IdleScaledDown ==
  \A i \in 1..MaxStates :
    []<>~(route = i /\ states[i].running /\ states[i].conns = 0 /\ ~states[i].warm)
=============================================================================
