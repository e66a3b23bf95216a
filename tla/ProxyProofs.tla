---------------------------- MODULE ProxyProofs ----------------------------
(***************************************************************************)
(* For any number of connections and control requests, any activator, any  *)
(* number of re-registrations and faults: the connection gauge of every    *)
(* TenantState is exact, and cancellation keys are registered in time and  *)
(* given back.                                                             *)
(***************************************************************************)
EXTENDS Proxy, TLAPS, FiniteSetTheorems, SequenceTheorems

\* Leaves that cite no prover may take their time: SMT first, then Zenon.
USE SMTT(30), Zenon

TenantStates == [running : BOOLEAN, conns : Int, fresh : BOOLEAN,
                 pin : Pins \cup {Live}, warm : BOOLEAN]

Stages == {"new", "auth", "waking", "ready", "connecting", "connected",
           "splicing", "closed", "broken", "reap", "reapable", "stopping",
           "warm", "cold", "warming", "starting", "pinning"}

Spliced(i) == {s \in Session : pc[s] = "splicing" /\ on[s] = i}

TenantInv == /\ states \in Seq(TenantStates)
             /\ route \in 0..Len(states)

TaskInv == /\ pc \in [Tasks -> Stages]
           /\ on \in [Tasks -> 1..Len(states)]

GaugeInv == \A i \in 1..Len(states) : states[i].conns = Cardinality(Spliced(i))

\* A key that was seen is registered, and a registered one is of a session
\* that is spliced or whose splice broke.
KeyInv == /\ key \in [Session -> {"none", "seen", "sent"}]
          /\ cancels \subseteq Session
          /\ \A s \in Session : key[s] # "none" => s \in cancels
          /\ \A s \in cancels : pc[s] \in {"splicing", "broken"}

PxInv == TenantInv /\ TaskInv /\ GaugeInv /\ KeyInv

-----------------------------------------------------------------------------
(* What the updates of a TenantState leave alone. *)

\* Same states up to flags: none is added, every gauge is kept.
SameGauges == /\ states' \in Seq(TenantStates)
              /\ Len(states') = Len(states)
              /\ \A i \in 1..Len(states) : states'[i].conns = states[i].conns

LEMMA Replaced ==
  ASSUME TenantInv, NEW i \in 1..Len(states), NEW new \in TenantStates,
         states' = [states EXCEPT ![i] = new]
  PROVE  /\ states' \in Seq(TenantStates) /\ Len(states') = Len(states)
         /\ \A j \in 1..Len(states) : states'[j] = IF j = i THEN new ELSE states[j]
BY ExceptSeq DEF TenantInv

LEMMA Touched ==
  ASSUME NEW st \in TenantStates
  PROVE  touch(st) \in TenantStates /\ touch(st).conns = st.conns
BY Zenon DEF TenantStates, touch

LEMMA Kept ==
  ASSUME TenantInv, NEW i \in 1..Len(states), NEW new \in TenantStates,
         states' = [states EXCEPT ![i] = new], new.conns = states[i].conns
  PROVE  SameGauges
<1>1. /\ states' \in Seq(TenantStates) /\ Len(states') = Len(states)
      /\ \A j \in 1..Len(states) : states'[j] = IF j = i THEN new ELSE states[j]
  BY Replaced, Zenon
<1> QED BY <1>1 DEF SameGauges

LEMMA RunningKeeps ==
  ASSUME TenantInv, NEW i \in 1..Len(states), NEW v \in BOOLEAN, set_running(i, v)
  PROVE  SameGauges
<1> DEFINE new == [states[i] EXCEPT !.running = v]
<1>0. states[i] \in TenantStates
  BY DEF TenantInv
<1>1. new \in TenantStates /\ new.conns = states[i].conns
  BY <1>0 DEF TenantStates
<1>2. states' = [states EXCEPT ![i] = new]
  BY DEF set_running
<1> HIDE DEF new
<1> QED BY <1>1, <1>2, Kept, Zenon

LEMMA WarmKeeps ==
  ASSUME TenantInv, NEW i \in 1..Len(states), NEW v \in BOOLEAN, set_keep_warm(i, v)
  PROVE  SameGauges
<1> DEFINE new == [states[i] EXCEPT !.warm = v]
<1>0. states[i] \in TenantStates
  BY DEF TenantInv
<1>1. new \in TenantStates /\ new.conns = states[i].conns
  BY <1>0 DEF TenantStates
<1>2. states' = [states EXCEPT ![i] = new]
  BY DEF set_keep_warm
<1> HIDE DEF new
<1> QED BY <1>1, <1>2, Kept, Zenon

LEMMA ElapseKeeps ==
  ASSUME TenantInv, NEW i \in 1..Len(states), states' = [states EXCEPT ![i].fresh = FALSE]
  PROVE  SameGauges
<1> DEFINE new == [states[i] EXCEPT !.fresh = FALSE]
<1>0. states[i] \in TenantStates
  BY DEF TenantInv
<1>1. new \in TenantStates /\ new.conns = states[i].conns
  BY <1>0, Zenon DEF TenantStates
<1>2. states' = [states EXCEPT ![i] = new]
  OBVIOUS
<1> HIDE DEF new
<1> QED BY <1>1, <1>2, Kept, Zenon

LEMMA PinKeeps ==
  ASSUME TenantInv, NEW i \in 1..Len(states), NEW tl \in Pins \cup {Live},
         set_pinned_timeline(i, tl)
  PROVE  SameGauges
<1> DEFINE new == [states[i] EXCEPT !.pin = tl]
<1>0. states[i] \in TenantStates
  BY DEF TenantInv
<1>1. new \in TenantStates /\ new.conns = states[i].conns
  BY <1>0 DEF TenantStates
<1>2. states' = [states EXCEPT ![i] = new]
  BY DEF set_pinned_timeline
<1> HIDE DEF new
<1> QED BY <1>1, <1>2, Kept, Zenon

LEMMA MarkRunningKeeps ==
  ASSUME TenantInv, NEW i \in 1..Len(states), MarkRunning(i)
  PROVE  SameGauges
<1> DEFINE flagged == [states[i] EXCEPT !.running = TRUE]
           new == touch(flagged)
<1>0. states[i] \in TenantStates
  BY DEF TenantInv
<1>1. flagged \in TenantStates /\ flagged.conns = states[i].conns
  BY <1>0, Zenon DEF TenantStates
<1>2. states' = [states EXCEPT ![i] = new]
  BY DEF MarkRunning
<1> HIDE DEF flagged
<1>3. new \in TenantStates /\ new.conns = states[i].conns
  BY <1>1, Touched
<1> HIDE DEF new
<1> QED BY <1>2, <1>3, Kept, Zenon

LEMMA StartedRaises ==
  ASSUME TenantInv, NEW i \in 1..Len(states), connection_started(i)
  PROVE  /\ states' \in Seq(TenantStates) /\ Len(states') = Len(states)
         /\ \A j \in 1..Len(states) :
              states'[j].conns = IF j = i THEN states[j].conns + 1 ELSE states[j].conns
<1> DEFINE counted == [states[i] EXCEPT !.conns = states[i].conns + 1]
           new == touch(counted)
<1>0. states[i] \in TenantStates
  BY DEF TenantInv
<1>1. counted \in TenantStates /\ counted.conns = states[i].conns + 1
  BY <1>0 DEF TenantStates
<1>2. states' = [states EXCEPT ![i] = new]
  BY DEF connection_started
<1> HIDE DEF counted
<1>3. new \in TenantStates /\ new.conns = states[i].conns + 1
  BY <1>1, Touched
<1> HIDE DEF new
<1>4. /\ states' \in Seq(TenantStates) /\ Len(states') = Len(states)
      /\ \A j \in 1..Len(states) : states'[j] = IF j = i THEN new ELSE states[j]
  BY <1>2, <1>3, Replaced, Zenon
<1> QED BY <1>3, <1>4

LEMMA FinishedLowers ==
  ASSUME TenantInv, NEW i \in 1..Len(states), connection_finished(i)
  PROVE  /\ states' \in Seq(TenantStates) /\ Len(states') = Len(states)
         /\ \A j \in 1..Len(states) :
              states'[j].conns = IF j = i THEN states[j].conns - 1 ELSE states[j].conns
<1> DEFINE counted == [states[i] EXCEPT !.conns = states[i].conns - 1]
           new == touch(counted)
<1>0. states[i] \in TenantStates
  BY DEF TenantInv
<1>1. counted \in TenantStates /\ counted.conns = states[i].conns - 1
  BY <1>0 DEF TenantStates
<1>2. states' = [states EXCEPT ![i] = new]
  BY DEF connection_finished
<1> HIDE DEF counted
<1>3. new \in TenantStates /\ new.conns = states[i].conns - 1
  BY <1>1, Touched
<1> HIDE DEF new
<1>4. /\ states' \in Seq(TenantStates) /\ Len(states') = Len(states)
      /\ \A j \in 1..Len(states) : states'[j] = IF j = i THEN new ELSE states[j]
  BY <1>2, <1>3, Replaced, Zenon
<1> QED BY <1>3, <1>4

-----------------------------------------------------------------------------
(* Steps by what they do to the gauges and to the spliced connections. *)

LEMMA Still ==
  ASSUME PxInv, SameGauges, route' \in 0..Len(states),
         UNCHANGED <<pc, on, key, cancels>>
  PROVE  PxInv'
<1>1. TenantInv' /\ TaskInv' /\ KeyInv'
  BY DEF PxInv, SameGauges, TenantInv, TaskInv, KeyInv
<1>2. ASSUME NEW i \in 1..Len(states) PROVE Spliced(i)' = Spliced(i)
  BY DEF Spliced
<1>3. GaugeInv'
  BY <1>2 DEF PxInv, SameGauges, GaugeInv
<1> QED BY <1>1, <1>3 DEF PxInv

\* A task that is not spliced moves on without being spliced.
Moving(t) == /\ pc[t] \notin {"splicing", "broken"}
             /\ pc'[t] # "splicing"
             /\ pc' \in [Tasks -> Stages]
             /\ \A u \in Tasks \ {t} : pc'[u] = pc[u]

LEMMA Moves ==
  ASSUME PxInv, SameGauges, route' \in 0..Len(states),
         NEW t \in Tasks, Moving(t),
         on' \in [Tasks -> 1..Len(states)],
         \A u \in Tasks \ {t} : on'[u] = on[u],
         UNCHANGED <<key, cancels>>
  PROVE  PxInv'
<1>1. TenantInv' /\ TaskInv'
  BY DEF PxInv, SameGauges, TenantInv, TaskInv, Moving
<1>2. KeyInv'
  BY DEF PxInv, KeyInv, Tasks, Moving
<1>3. ASSUME NEW i \in 1..Len(states) PROVE Spliced(i)' = Spliced(i)
  <2>1. ASSUME NEW u \in Session
        PROVE  (pc'[u] = "splicing" /\ on'[u] = i) <=> (pc[u] = "splicing" /\ on[u] = i)
    BY DEF Tasks, Moving
  <2> QED BY <2>1 DEF Spliced
<1>4. GaugeInv'
  BY <1>3 DEF PxInv, SameGauges, GaugeInv
<1> QED BY <1>1, <1>2, <1>4 DEF PxInv

LEMMA SplicedFinite ==
  ASSUME NEW i PROVE IsFiniteSet(Spliced(i))
<1>1. Spliced(i) \subseteq Session
  BY DEF Spliced
<1> QED BY <1>1, TaskAssumption, FS_Subset

LEMMA Begins ==
  ASSUME PxInv, NEW s \in Session, BeginSplice(s)
  PROVE  PxInv'
<1>1. on[s] \in 1..Len(states) /\ s \in Tasks /\ pc[s] = "connected"
  BY DEF PxInv, TaskInv, BeginSplice, At, Tasks
<1>2. /\ states' \in Seq(TenantStates) /\ Len(states') = Len(states)
      /\ \A j \in 1..Len(states) : states'[j].conns
            = IF j = on[s] THEN states[j].conns + 1 ELSE states[j].conns
  BY <1>1, StartedRaises DEF PxInv, BeginSplice
<1>3. \A u \in Tasks : pc'[u] = IF u = s THEN "splicing" ELSE pc[u]
  BY DEF PxInv, TaskInv, BeginSplice, At
<1>4. on' = on /\ key' = key /\ cancels' = cancels /\ route' = route
  BY DEF BeginSplice, sessVars
<1>5. pc' \in [Tasks -> Stages]
  <2>1. pc' = [pc EXCEPT ![s] = "splicing"]
    BY DEF BeginSplice, At
  <2> QED BY <2>1, Zenon DEF PxInv, TaskInv, Stages
<1>6. TenantInv' /\ TaskInv'
  BY <1>2, <1>4, <1>5 DEF PxInv, TenantInv, TaskInv
<1>7. KeyInv'
  BY <1>1, <1>3, <1>4 DEF PxInv, KeyInv, Tasks
<1>8. ASSUME NEW i \in 1..Len(states)
      PROVE  states'[i].conns = Cardinality(Spliced(i)')
  <2>1. states[i].conns = Cardinality(Spliced(i)) /\ IsFiniteSet(Spliced(i))
    BY SplicedFinite DEF PxInv, GaugeInv
  <2>2. CASE i = on[s]
    <3>1. Spliced(i)' = Spliced(i) \cup {s} /\ s \notin Spliced(i)
      BY <1>1, <1>3, <1>4, <2>2 DEF Spliced, Tasks
    <3>2. Cardinality(Spliced(i) \cup {s}) = Cardinality(Spliced(i)) + 1
      BY <2>1, <3>1, FS_AddElement, Zenon
    <3> QED BY <1>2, <2>1, <2>2, <3>1, <3>2
  <2>3. CASE i # on[s]
    <3>1. Spliced(i)' = Spliced(i)
      BY <1>1, <1>3, <1>4, <2>3 DEF Spliced, Tasks
    <3> QED BY <1>2, <2>1, <2>3, <3>1
  <2> QED BY <2>2, <2>3
<1>9. GaugeInv'
  BY <1>2, <1>8 DEF GaugeInv
<1> QED BY <1>6, <1>7, <1>9 DEF PxInv

\* However a splice ends, the gauge goes down by the connection that left.
Leaving(s) == /\ pc[s] = "splicing"
              /\ pc'[s] # "splicing"
              /\ pc' \in [Tasks -> Stages]
              /\ \A u \in Tasks \ {s} : pc'[u] = pc[u]

LEMMA Ends ==
  ASSUME PxInv, NEW s \in Session, Leaving(s), connection_finished(on[s]),
         UNCHANGED <<on, route>>
  PROVE  TenantInv' /\ TaskInv' /\ GaugeInv'
<1>1. on[s] \in 1..Len(states) /\ s \in Tasks /\ pc[s] = "splicing"
  BY DEF PxInv, TaskInv, Leaving, Tasks
<1>2. /\ states' \in Seq(TenantStates) /\ Len(states') = Len(states)
      /\ \A j \in 1..Len(states) : states'[j].conns
            = IF j = on[s] THEN states[j].conns - 1 ELSE states[j].conns
  BY <1>1, FinishedLowers DEF PxInv
<1>3. pc'[s] # "splicing" /\ \A u \in Tasks \ {s} : pc'[u] = pc[u]
  BY DEF Leaving
<1>4. pc' \in [Tasks -> Stages]
  BY DEF Leaving
<1>5. TenantInv' /\ TaskInv'
  BY <1>2, <1>4 DEF PxInv, TenantInv, TaskInv
<1>6. ASSUME NEW i \in 1..Len(states)
      PROVE  states'[i].conns = Cardinality(Spliced(i)')
  <2>1. states[i].conns = Cardinality(Spliced(i)) /\ IsFiniteSet(Spliced(i))
    BY SplicedFinite DEF PxInv, GaugeInv
  <2>2. CASE i = on[s]
    <3>1. Spliced(i)' = Spliced(i) \ {s} /\ s \in Spliced(i)
      BY <1>1, <1>3, <2>2 DEF Spliced, Tasks
    <3>2. Cardinality(Spliced(i) \ {s}) = Cardinality(Spliced(i)) - 1
      BY <2>1, <3>1, FS_RemoveElement, Zenon
    <3> QED BY <1>2, <2>1, <2>2, <3>1, <3>2
  <2>3. CASE i # on[s]
    <3>1. Spliced(i)' = Spliced(i)
      BY <1>1, <1>3, <2>3 DEF Spliced, Tasks
    <3> QED BY <1>2, <2>1, <2>3, <3>1
  <2> QED BY <2>2, <2>3
<1>7. GaugeInv'
  BY <1>2, <1>6 DEF GaugeInv
<1> QED BY <1>5, <1>7

\* Nothing but tasks' calls, sockets or the environment changes.
LEMMA Rest ==
  ASSUME PxInv, UNCHANGED <<tenantVars, pc, on, key, cancels>>
  PROVE  PxInv'
<1>1. SameGauges
  BY DEF PxInv, TenantInv, SameGauges, tenantVars
<1>2. route' \in 0..Len(states)
  BY DEF PxInv, TenantInv, tenantVars
<1> QED BY <1>1, <1>2, Still

\* A task moves on, nothing else of what counts changes.
LEMMA MovesOnly ==
  ASSUME PxInv, NEW t \in Tasks, Moving(t), UNCHANGED <<tenantVars, on, key, cancels>>
  PROVE  PxInv'
<1>1. SameGauges /\ route' \in 0..Len(states)
  BY DEF PxInv, TenantInv, SameGauges, tenantVars
<1>2. on' \in [Tasks -> 1..Len(states)] /\ \A u \in Tasks \ {t} : on'[u] = on[u]
  BY DEF PxInv, TaskInv
<1> QED BY <1>1, <1>2, Moves

\* It moves on and may take hold of the TenantState routed to.
LEMMA MovesOnto ==
  ASSUME PxInv, NEW t \in Tasks, Moving(t), SameGauges,
         \/ on' = [on EXCEPT ![t] = IF route = 0 THEN @ ELSE route]
         \/ route # 0 /\ on' = [on EXCEPT ![t] = route]
         \/ on' = on,
         UNCHANGED <<route, key, cancels>>
  PROVE  PxInv'
<1>1. route' \in 0..Len(states)
  BY DEF PxInv, TenantInv
<1>2. on' \in [Tasks -> 1..Len(states)]
  BY DEF PxInv, TenantInv, TaskInv
<1>3. \A u \in Tasks \ {t} : on'[u] = on[u]
  BY DEF PxInv, TaskInv
<1> QED BY <1>1, <1>2, <1>3, Moves

-----------------------------------------------------------------------------
(* The connections. *)

LEMMA SessionKeeps ==
  ASSUME PxInv, NEW s \in Session, SessionStep(s)
  PROVE  PxInv'
<1>0. s \in Tasks /\ on[s] \in 1..Len(states) /\ TenantInv /\ pc \in [Tasks -> Stages]
  BY DEF Tasks, PxInv, TaskInv
<1>1. CASE Resolve(s)
  <2>1. SameGauges
    BY <1>1 DEF PxInv, TenantInv, SameGauges, Resolve, tenantVars
  <2>2. Moving(s)
    BY <1>0, <1>1 DEF Resolve, At, Moving, Stages
  <2>3. /\ on' = [on EXCEPT ![s] = IF route = 0 THEN @ ELSE route]
        /\ UNCHANGED <<route, key, cancels>>
    BY <1>1 DEF Resolve, tenantVars, sessVars
  <2> QED BY <1>0, <2>1, <2>2, <2>3, MovesOnto, Zenon
<1>2. CASE RouteCancel(s) \/ AuthFails(s) \/ EnsureAwake(s) \/ StartupNotSent(s)
  <2>1. Moving(s)
    BY <1>0, <1>2 DEF RouteCancel, AuthFails, EnsureAwake, StartupNotSent, At, Moving, Stages
  <2>2. UNCHANGED <<tenantVars, on, key, cancels>>
    BY <1>2 DEF RouteCancel, AuthFails, EnsureAwake, StartupNotSent, sessVars
  <2> QED BY <1>0, <2>1, <2>2, MovesOnly
<1>3. CASE Probe(s) \/ Connect(s)
  <2>1. Moving(s)
    BY <1>0, <1>3 DEF Probe, Connect, At, Moving, Stages
  <2>2. UNCHANGED <<tenantVars, on, key, cancels>>
    BY <1>3 DEF Probe, Connect, sessVars
  <2> QED BY <1>0, <2>1, <2>2, MovesOnly
<1>4. CASE SetRunning(s)
  <2>1. SameGauges
    BY <1>0, <1>4, RunningKeeps, Zenon DEF SetRunning
  <2>2. Moving(s)
    BY <1>0, <1>4 DEF SetRunning, At, Moving, Stages
  <2>3. UNCHANGED <<route, on, key, cancels>>
    BY <1>4 DEF SetRunning, sessVars
  <2> QED BY <1>0, <2>1, <2>2, <2>3, MovesOnto
<1>5. CASE BeginSplice(s)
  BY <1>5, Begins
<1>6. CASE CaptureKey(s) \/ ForwardKey(s)
  <2>1. UNCHANGED <<tenantVars, pc, on>>
    BY <1>6 DEF CaptureKey, ForwardKey
  <2>2. TenantInv' /\ TaskInv' /\ GaugeInv'
    BY <2>1 DEF PxInv, TenantInv, TaskInv, GaugeInv, Spliced, tenantVars
  <2>3. KeyInv'
    <3>1. CASE CaptureKey(s)
      <4>1. \A u \in Session : key'[u] = IF u = s THEN "seen" ELSE key[u]
        BY <3>1 DEF PxInv, KeyInv, CaptureKey
      <4>2. key' \in [Session -> {"none", "seen", "sent"}]
        BY <3>1 DEF PxInv, KeyInv, CaptureKey
      <4>3. cancels' = cancels \cup {s} /\ pc[s] = "splicing" /\ pc' = pc
        BY <3>1 DEF CaptureKey
      <4> QED BY <4>1, <4>2, <4>3 DEF PxInv, KeyInv
    <3>2. CASE ForwardKey(s)
      <4>1. \A u \in Session : key'[u] = IF u = s THEN "sent" ELSE key[u]
        BY <3>2 DEF PxInv, KeyInv, ForwardKey
      <4>2. key' \in [Session -> {"none", "seen", "sent"}]
        BY <3>2 DEF PxInv, KeyInv, ForwardKey
      <4>3. cancels' = cancels /\ key[s] = "seen" /\ pc' = pc
        BY <3>2 DEF ForwardKey
      <4> QED BY <4>1, <4>2, <4>3 DEF PxInv, KeyInv
    <3> QED BY <1>6, <3>1, <3>2
  <2> QED BY <2>2, <2>3 DEF PxInv
<1>7. CASE EndSplice(s)
  <2>1. Leaving(s)
    BY <1>0, <1>7 DEF EndSplice, At, Leaving, Stages
  <2>2. connection_finished(on[s]) /\ UNCHANGED <<on, route>>
    BY <1>7 DEF EndSplice
  <2>3. TenantInv' /\ TaskInv' /\ GaugeInv'
    BY <2>1, <2>2, Ends
  <2>4. \A u \in Session : key'[u] = IF u = s THEN "none" ELSE key[u]
    BY <1>7 DEF PxInv, KeyInv, EndSplice
  <2>5. key' \in [Session -> {"none", "seen", "sent"}] /\ cancels' = cancels \ {s}
    BY <1>7 DEF PxInv, KeyInv, EndSplice
  <2>6. KeyInv'
    BY <2>1, <2>4, <2>5 DEF PxInv, KeyInv, Leaving, Tasks
  <2> QED BY <2>3, <2>6 DEF PxInv
<1>8. CASE BreakSplice(s)
  <2>1. Leaving(s) /\ pc'[s] = "broken"
    BY <1>0, <1>8 DEF BreakSplice, At, Leaving, Stages
  <2>2. connection_finished(on[s]) /\ UNCHANGED <<on, route>>
    BY <1>8 DEF BreakSplice
  <2>3. TenantInv' /\ TaskInv' /\ GaugeInv'
    BY <2>1, <2>2, Ends
  <2>4. key' = key /\ cancels' = cancels
    BY <1>8 DEF BreakSplice, sessVars
  <2>5. KeyInv'
    BY <2>1, <2>4 DEF PxInv, KeyInv, Leaving, Tasks
  <2> QED BY <2>3, <2>5 DEF PxInv
<1> QED BY <1>1, <1>2, <1>3, <1>4, <1>5, <1>6, <1>7, <1>8 DEF SessionStep

-----------------------------------------------------------------------------
(* The reaper and warmer. *)

LEMMA ReaperKeeps ==
  ASSUME PxInv, ReaperStep
  PROVE  PxInv'
<1>0. Reaper \in Tasks /\ on[Reaper] \in 1..Len(states) /\ TenantInv /\ pc \in [Tasks -> Stages]
  BY DEF Tasks, PxInv, TaskInv
<1>1. CASE ReapCollect \/ WarmCollect
  <2>1. SameGauges
    BY <1>1 DEF PxInv, TenantInv, SameGauges, ReapCollect, WarmCollect, tenantVars
  <2>2. Moving(Reaper)
    BY <1>0, <1>1 DEF ReapCollect, WarmCollect, At, Moving, Stages
  <2>3. /\ on' = [on EXCEPT ![Reaper] = IF route = 0 THEN @ ELSE route]
        /\ UNCHANGED <<route, key, cancels>>
    BY <1>1 DEF ReapCollect, WarmCollect, tenantVars, sessVars
  <2> QED BY <1>0, <2>1, <2>2, <2>3, MovesOnto, Zenon
<1>2. CASE ReapStop \/ WarmStart
  <2>1. Moving(Reaper)
    BY <1>0, <1>2 DEF ReapStop, WarmStart, At, Moving, Stages
  <2>2. UNCHANGED <<tenantVars, on, key, cancels>>
    BY <1>2 DEF ReapStop, WarmStart, sessVars
  <2> QED BY <1>0, <2>1, <2>2, MovesOnly
<1>3. CASE ReapDone \/ WarmDone
  <2>1. SameGauges
    <3>1. CASE set_running(on[Reaper], FALSE)
      BY <1>0, <3>1, RunningKeeps, Zenon
    <3>2. CASE MarkRunning(on[Reaper])
      BY <1>0, <3>2, MarkRunningKeeps
    <3>3. CASE UNCHANGED states
      BY <3>3 DEF PxInv, TenantInv, SameGauges
    <3> QED BY <1>3, <3>1, <3>2, <3>3, Zenon DEF ReapDone, WarmDone
  <2>2. Moving(Reaper)
    BY <1>0, <1>3, Zenon DEF ReapDone, WarmDone, At, Moving, Stages
  <2>3. UNCHANGED <<route, on, key, cancels>>
    BY <1>3, Zenon DEF ReapDone, WarmDone, sessVars
  <2> QED BY <1>0, <2>1, <2>2, <2>3, MovesOnto
<1> QED BY <1>1, <1>2, <1>3 DEF ReaperStep

-----------------------------------------------------------------------------
(* The control API. *)

\* The TenantState a registration makes has no connections: every task
\* holds an older one.
LEMMA RegisterKeeps ==
  ASSUME PxInv, NEW a \in Admin, Register(a)
  PROVE  PxInv'
<1> DEFINE n == Len(states)
<1>0. /\ a \in Tasks /\ pc \in [Tasks -> Stages] /\ on \in [Tasks -> 1..n]
      /\ states \in Seq(TenantStates) /\ n \in Nat
  BY DEF Tasks, PxInv, TaskInv, TenantInv
<1>1. Moving(a) /\ UNCHANGED <<on, key, cancels>>
  BY <1>0 DEF Register, At, Moving, Stages, sessVars
<1>2. NewTenantState \in TenantStates /\ NewTenantState.conns = 0
  BY DEF NewTenantState, TenantStates
<1>3. states' = Append(states, NewTenantState) /\ route' = n + 1
  BY DEF Register
<1>4. /\ states' \in Seq(TenantStates) /\ Len(states') = n + 1
      /\ \A i \in 1..n : states'[i] = states[i]
      /\ states'[n + 1] = NewTenantState
  BY <1>0, <1>2, <1>3
<1> HIDE DEF n
<1>5. TenantInv'
  BY <1>0, <1>3, <1>4 DEF TenantInv
<1>6. TaskInv'
  BY <1>0, <1>1, <1>4 DEF TaskInv, Moving
<1>7. KeyInv'
  BY <1>1 DEF PxInv, KeyInv, Tasks, Moving
<1>8. ASSUME NEW i \in 1..n + 1 PROVE Spliced(i)' = Spliced(i)
  <2>1. ASSUME NEW u \in Session
        PROVE  (pc'[u] = "splicing" /\ on'[u] = i) <=> (pc[u] = "splicing" /\ on[u] = i)
    BY <1>1 DEF Tasks, Moving
  <2> QED BY <2>1 DEF Spliced
<1>9. Spliced(n + 1) = {}
  BY <1>0 DEF Spliced, Tasks
<1>10. ASSUME NEW i \in 1..n + 1 PROVE states'[i].conns = Cardinality(Spliced(i)')
  <2>1. CASE i = n + 1
    BY <1>2, <1>4, <1>8, <1>9, <2>1, FS_EmptySet, Zenon
  <2>2. CASE i \in 1..n
    BY <1>4, <1>8, <2>2 DEF PxInv, GaugeInv, n
  <2> QED BY <1>0, <2>1, <2>2
<1>11. GaugeInv'
  BY <1>4, <1>10 DEF GaugeInv
<1> QED BY <1>5, <1>6, <1>7, <1>11 DEF PxInv

LEMMA RequestKeeps ==
  ASSUME PxInv, NEW a \in Admin, Request(a) \/ RequestDone(a)
  PROVE  PxInv'
<1>0. /\ a \in Tasks /\ on[a] \in 1..Len(states) /\ TenantInv
      /\ pc \in [Tasks -> Stages] /\ on \in [Tasks -> 1..Len(states)]
      /\ route # 0 => route \in 1..Len(states)
  BY DEF Tasks, PxInv, TaskInv, TenantInv
<1>1. CASE Register(a)
  BY <1>1, RegisterKeeps
<1>2. CASE Deregister(a)
  <2>1. Moving(a) /\ UNCHANGED <<on, key, cancels>>
    BY <1>0, <1>2 DEF Deregister, At, Moving, Stages, sessVars
  <2>2. SameGauges /\ route' \in 0..Len(states)
    BY <1>2 DEF PxInv, TenantInv, SameGauges, Deregister
  <2> QED BY <1>0, <2>1, <2>2, Moves
<1>3. CASE Unknown(a)
  <2>1. Moving(a) /\ UNCHANGED <<tenantVars, on, key, cancels>>
    BY <1>0, <1>3 DEF Unknown, At, Moving, Stages, sessVars
  <2> QED BY <1>0, <2>1, MovesOnly
<1>4. CASE SetComputeStart(a) \/ SetComputeStop(a)
  <2>1. SameGauges
    BY <1>4 DEF PxInv, TenantInv, SameGauges, SetComputeStart, SetComputeStop, tenantVars
  <2>2. Moving(a)
    BY <1>0, <1>4 DEF SetComputeStart, SetComputeStop, At, Moving, Stages
  <2>3. route # 0 /\ on' = [on EXCEPT ![a] = route] /\ UNCHANGED <<route, key, cancels>>
    BY <1>4 DEF SetComputeStart, SetComputeStop, Routed, tenantVars, sessVars
  <2> QED BY <1>0, <2>1, <2>2, <2>3, MovesOnto, Zenon
<1>5. ASSUME NEW tl \in Pins \cup {Live}, SetPin(a, tl) PROVE PxInv'
  <2>1. route # 0 /\ on' = [on EXCEPT ![a] = route] /\ UNCHANGED <<route, key, cancels>>
    BY <1>5 DEF SetPin, Routed, sessVars
  <2>2. SameGauges
    BY <1>0, <1>5, <2>1, PinKeeps DEF SetPin
  <2>3. Moving(a)
    BY <1>0, <1>5 DEF SetPin, At, Moving, Stages
  <2> QED BY <1>0, <2>1, <2>2, <2>3, MovesOnto, Zenon
<1>6. CASE SetKeepWarm(a) \/ ClearKeepWarm(a)
  <2>1. route # 0 /\ on' = [on EXCEPT ![a] = route] /\ UNCHANGED <<route, key, cancels>>
    BY <1>6, Zenon DEF SetKeepWarm, ClearKeepWarm, Routed, sessVars
  <2>2. PICK v \in BOOLEAN : set_keep_warm(route, v)
    BY <1>6, Zenon DEF SetKeepWarm, ClearKeepWarm
  <2>3. SameGauges
    BY <1>0, <2>1, <2>2, WarmKeeps
  <2>4. Moving(a)
    BY <1>0, <1>6, Zenon DEF SetKeepWarm, ClearKeepWarm, At, Moving, Stages
  <2> QED BY <1>0, <2>1, <2>3, <2>4, MovesOnto, Zenon
<1>7. CASE RequestDone(a)
  <2>1. SameGauges
    <3>1. CASE set_running(on[a], FALSE)
      BY <1>0, <3>1, RunningKeeps, Zenon
    <3>2. CASE MarkRunning(on[a])
      BY <1>0, <3>2, MarkRunningKeeps
    <3>3. CASE UNCHANGED states
      BY <3>3 DEF PxInv, TenantInv, SameGauges
    <3> QED BY <1>7, <3>1, <3>2, <3>3, Zenon DEF RequestDone
  <2>2. Moving(a)
    BY <1>0, <1>7, Zenon DEF RequestDone, At, Moving, Stages
  <2>3. UNCHANGED <<route, on, key, cancels>>
    BY <1>7 DEF RequestDone, sessVars
  <2> QED BY <1>0, <2>1, <2>2, <2>3, MovesOnto
<1> QED BY <1>1, <1>2, <1>3, <1>4, <1>5, <1>6, <1>7 DEF Request

-----------------------------------------------------------------------------
(* The invariant, and what it implies. *)

LEMMA PxInitInv == PxInit => PxInv
<1> SUFFICES ASSUME PxInit PROVE PxInv
  OBVIOUS
<1>1. NewTenantState \in TenantStates /\ NewTenantState.conns = 0
  BY DEF NewTenantState, TenantStates
<1>2. states = <<NewTenantState>> /\ route = 1
  BY DEF PxInit
<1>3. states \in Seq(TenantStates) /\ Len(states) = 1 /\ states[1] = NewTenantState
  BY <1>1, <1>2
<1>4. /\ pc \in [Tasks -> Stages]
      /\ \A t \in Tasks : pc[t] # "splicing"
  BY DEF PxInit, Stages
<1>5. TenantInv /\ TaskInv
  BY <1>2, <1>3, <1>4 DEF TenantInv, TaskInv, PxInit
<1>6. KeyInv
  BY DEF PxInit, KeyInv
<1>7. Spliced(1) = {}
  BY <1>4 DEF Spliced, Tasks
<1>8. GaugeInv
  <2>1. Cardinality(Spliced(1)) = 0 /\ states[1].conns = 0
    BY <1>1, <1>3, <1>7, FS_EmptySet, Zenon
  <2>2. \A i \in 1..Len(states) : i = 1
    BY <1>3
  <2> QED BY <2>1, <2>2 DEF GaugeInv
<1> QED BY <1>5, <1>6, <1>8 DEF PxInv

LEMMA PxStepInv == PxInv /\ [PxNext]_pxVars => PxInv'
<1> SUFFICES ASSUME PxInv, [PxNext]_pxVars PROVE PxInv'
  OBVIOUS
<1>1. CASE \E s \in Session : SessionStep(s)
  BY <1>1, SessionKeeps
<1>2. CASE ReaperStep
  BY <1>2, ReaperKeeps
<1>3. CASE \E a \in Admin : Request(a) \/ RequestDone(a)
  BY <1>3, RequestKeeps
<1>4. CASE \E t \in Tasks : CallTaken(t) \/ CallFails(t)
  BY <1>4, Rest DEF CallTaken, CallFails
<1>5. CASE \E i \in DOMAIN states : Elapse(i)
  <2>1. PICK i \in DOMAIN states : Elapse(i)
    BY <1>5
  <2>2. i \in 1..Len(states) /\ TenantInv
    BY <2>1 DEF PxInv, TenantInv
  <2>3. SameGauges
    BY <2>1, <2>2, ElapseKeeps, Zenon DEF Elapse
  <2>4. route' \in 0..Len(states) /\ UNCHANGED <<pc, on, key, cancels>>
    BY <2>1 DEF PxInv, TenantInv, Elapse, sessVars
  <2> QED BY <2>3, <2>4, Still
<1>6. CASE Boot \/ Reconcile \/ Crash
  BY <1>6, Rest DEF Boot, Reconcile, Crash, sessVars
<1>7. CASE UNCHANGED pxVars
  BY <1>7, Rest DEF pxVars, sessVars
<1> QED BY <1>1, <1>2, <1>3, <1>4, <1>5, <1>6, <1>7 DEF PxNext, Progress, Tick, TimePasses

\* The gauge of every TenantState counts the connections spliced under it,
\* at every step of any number of connections (ConnGuard).
THEOREM GaugeAlwaysExact == PxSpec => []GaugeExact
<1>1. PxInv => GaugeExact
  BY DEF PxInv, TenantInv, GaugeInv, Spliced, GaugeExact
<1> QED BY <1>1, PxInitInv, PxStepInv, PTL DEF PxSpec

\* A key the client has is registered while it is spliced, and one that
\* stays behind is of a splice that broke (CancelRegistry).
THEOREM CancelKeysAlways == PxSpec => []CancelKeys
<1>1. PxInv => CancelKeys
  BY DEF PxInv, KeyInv, CancelKeys
<1> QED BY <1>1, PxInitInv, PxStepInv, PTL DEF PxSpec
-----------------------------------------------------------------------------
(***************************************************************************)
(* The pin.  Once the tenant has settled on a pin, everything that can     *)
(* still bring compute up would do so on that timeline: the starts under   *)
(* way, the TenantState that each task would take the next one from, and   *)
(* the Deployment with the pod that follows it.                            *)
(***************************************************************************)
Pinnable == Pins \cup {Live}

CallInv ==
  /\ call \in [Tasks -> {"none", "pin", "scale", "stop", "ok", "err"}]
  /\ arg \in [Tasks -> Pinnable]
  /\ pod \in [st : {"down", "booting", "up"}, tl : Pinnable]
  /\ deploy \in [replicas : {0, 1}, note : Pinnable]
  /\ \A t \in Tasks : call[t] = "pin" => arg[t] # Live

\* A task that is between requests, and takes the TenantState routed to next.
Unbound == {"new", "closed", "broken", "reap", "warm"}

PinnedTo(tl) ==
  /\ kind # "noop"
  /\ pod.st # "down" => pod.tl = tl
  /\ \A t \in Tasks : call[t] \in {"pin", "scale"} => arg[t] = tl
  /\ \A t \in Tasks : on[t] = route \/ pc[t] \in Unbound
  /\ kind = "kube" => /\ deploy.replicas = 1 \/ tl = Live => deploy.note = tl
                      /\ \A t \in Tasks : call[t] = "scale" => deploy.note = tl

SettledInv == settled => route # 0 /\ PinnedTo(states[route].pin)
\* A step of one task: it moves, it may call the activator or return from it,
\* with the pin of the TenantState that is routed to or that it holds.
TaskStep(t) ==
  /\ UNCHANGED <<kind, pod, deploy>>
  /\ \A u \in Tasks \ {t} : pc'[u] = pc[u] /\ on'[u] = on[u]
  /\ \/ pc'[t] \in Unbound
     \/ on'[t] = route
     \/ pc[t] \notin Unbound /\ on'[t] = on[t]
  /\ \/ UNCHANGED callVars
     \/ Stop(t)
     \/ Return(t)
     \/ \E i \in 1..Len(states) : /\ i = route \/ (pc[t] \notin Unbound /\ i = on[t])
                                  /\ Start(t, states[i].pin)

LEMMA Starts ==
  ASSUME CallInv, NEW t \in Tasks, NEW tl \in Pinnable, Start(t, tl)
  PROVE  /\ call' = [call EXCEPT ![t] = IF kind = "kube" /\ tl # Live THEN "pin" ELSE "scale"]
         /\ \A u \in Tasks \ {t} : call'[u] = call[u] /\ arg'[u] = arg[u]
         /\ call'[t] \in {"pin", "scale"} /\ arg'[t] = tl
         /\ call'[t] = "pin" => tl # Live
         /\ call'[t] = "scale" => kind # "kube" \/ tl = Live
BY DEF Start, StartStage, CallInv

LEMMA PinType ==
  ASSUME PxInv, NEW i \in 1..Len(states)
  PROVE  states[i].pin \in Pinnable
<1>1. states[i] \in TenantStates
  BY DEF PxInv, TenantInv
<1> QED BY <1>1 DEF TenantStates, Pinnable

LEMMA TaskCalls ==
  ASSUME PxInv, CallInv, NEW t \in Tasks, TaskStep(t)
  PROVE  CallInv'
<1>1. pod' = pod /\ deploy' = deploy
  BY DEF TaskStep
<1>2. CASE UNCHANGED callVars
  BY <1>1, <1>2 DEF CallInv, callVars
<1>3. CASE Stop(t) \/ Return(t)
  <2>1. /\ call' \in [Tasks -> {"none", "pin", "scale", "stop", "ok", "err"}]
        /\ arg' \in [Tasks -> Pinnable]
        /\ call'[t] # "pin" /\ \A u \in Tasks \ {t} : call'[u] = call[u] /\ arg'[u] = arg[u]
    BY <1>3 DEF CallInv, Stop, Return, Pinnable
  <2> QED BY <1>1, <2>1 DEF CallInv
<1>4. ASSUME NEW i \in 1..Len(states), Start(t, states[i].pin) PROVE CallInv'
  <2>1. states[i].pin \in Pinnable
    BY PinType
  <2>2. /\ call' \in [Tasks -> {"none", "pin", "scale", "stop", "ok", "err"}]
        /\ arg' \in [Tasks -> Pinnable]
    BY <1>4, <2>1 DEF CallInv, Start, StartStage
  <2>3. \A u \in Tasks : call'[u] = "pin" => arg'[u] # Live
    BY <1>4, <2>1, Starts DEF CallInv
  <2> QED BY <1>1, <2>2, <2>3 DEF CallInv
<1> QED BY <1>2, <1>3, <1>4 DEF TaskStep

\* Such a step keeps a tenant on its pin.
LEMMA TaskPins ==
  ASSUME PxInv, CallInv, NEW t \in Tasks, TaskStep(t),
         route # 0, route' = route, NEW tl, tl = states[route].pin, PinnedTo(tl)
  PROVE  PinnedTo(tl)'
<1>1. UNCHANGED <<kind, pod, deploy>> /\ \A u \in Tasks \ {t} : pc'[u] = pc[u] /\ on'[u] = on[u]
  BY DEF TaskStep
<1>2. \A u \in Tasks : on'[u] = route \/ pc'[u] \in Unbound
  BY <1>1 DEF TaskStep, PinnedTo
<1>3. /\ \A u \in Tasks : call'[u] \in {"pin", "scale"} => arg'[u] = tl
      /\ kind = "kube" => \A u \in Tasks : call'[u] = "scale" => deploy.note = tl
  <2>1. CASE UNCHANGED callVars
    BY <2>1 DEF PinnedTo, callVars
  <2>2. CASE Stop(t) \/ Return(t)
    <3>1. /\ call'[t] \notin {"pin", "scale"}
          /\ \A u \in Tasks \ {t} : call'[u] = call[u] /\ arg'[u] = arg[u]
      BY <2>2 DEF CallInv, Stop, Return
    <3> QED BY <3>1 DEF PinnedTo
  <2>3. ASSUME NEW i \in 1..Len(states), i = route \/ (pc[t] \notin Unbound /\ i = on[t]),
               Start(t, states[i].pin)
        PROVE  <1>3
    <3>0. i = route /\ states[i].pin = tl
      BY <2>3 DEF PinnedTo
    <3>1. states[i].pin = tl /\ tl \in Pinnable
      BY <3>0, PinType
    <3>2. /\ \A u \in Tasks \ {t} : call'[u] = call[u] /\ arg'[u] = arg[u]
          /\ arg'[t] = tl /\ (call'[t] = "scale" => kind # "kube" \/ tl = Live)
      BY <2>3, <3>1, Starts
    <3> QED BY <3>2 DEF PinnedTo
  <2> QED BY <2>1, <2>2, <2>3, Zenon DEF TaskStep
<1> QED BY <1>1, <1>2, <1>3 DEF PinnedTo
LEMMA SessionTask ==
  ASSUME PxInv, NEW s \in Session, SessionStep(s)
  PROVE  TaskStep(s)
<1>0. /\ s \in Tasks /\ on[s] \in 1..Len(states) /\ pc \in [Tasks -> Stages]
      /\ on \in [Tasks -> 1..Len(states)]
  BY DEF Tasks, PxInv, TaskInv
<1>1. CASE Resolve(s)
  BY <1>0, <1>1 DEF Resolve, At, TaskStep, Unbound, envVars
<1>2. CASE RouteCancel(s) \/ AuthFails(s) \/ StartupNotSent(s)
  BY <1>0, <1>2 DEF RouteCancel, AuthFails, StartupNotSent, At, TaskStep, Unbound, envVars
<1>3. CASE EnsureAwake(s)
  <2>1. /\ UNCHANGED <<kind, pod, deploy>> /\ on' = on
        /\ pc[s] = "auth" /\ \A u \in Tasks \ {s} : pc'[u] = pc[u]
    BY <1>0, <1>3 DEF EnsureAwake, At, envVars
  <2>2. UNCHANGED callVars \/ Start(s, states[on[s]].pin)
    BY <1>3 DEF EnsureAwake
  <2> QED BY <1>0, <2>1, <2>2 DEF TaskStep, Unbound
<1>4. CASE Probe(s)
  BY <1>0, <1>4 DEF Probe, At, TaskStep, Unbound, envVars
<1>5. CASE SetRunning(s) \/ Connect(s) \/ BeginSplice(s)
  BY <1>0, <1>5, Zenon DEF SetRunning, Connect, BeginSplice, At, TaskStep, Unbound, envVars
<1>6. CASE CaptureKey(s) \/ ForwardKey(s)
  BY <1>0, <1>6 DEF CaptureKey, ForwardKey, TaskStep, Unbound, envVars
<1>7. CASE EndSplice(s) \/ BreakSplice(s)
  BY <1>0, <1>7 DEF EndSplice, BreakSplice, At, TaskStep, Unbound, envVars
<1> QED BY <1>1, <1>2, <1>3, <1>4, <1>5, <1>6, <1>7 DEF SessionStep

LEMMA ReaperTask ==
  ASSUME PxInv, ReaperStep
  PROVE  TaskStep(Reaper)
<1>0. /\ Reaper \in Tasks /\ on[Reaper] \in 1..Len(states) /\ pc \in [Tasks -> Stages]
      /\ on \in [Tasks -> 1..Len(states)]
  BY DEF Tasks, PxInv, TaskInv
<1>1. CASE ReapCollect \/ WarmCollect
  BY <1>0, <1>1 DEF ReapCollect, WarmCollect, At, TaskStep, Unbound, envVars
<1>2. CASE ReapStop
  BY <1>0, <1>2 DEF ReapStop, At, TaskStep, Unbound, envVars
<1>3. CASE WarmStart
  <2>1. /\ UNCHANGED <<kind, pod, deploy>> /\ on' = on
        /\ pc[Reaper] = "cold" /\ \A u \in Tasks \ {Reaper} : pc'[u] = pc[u]
    BY <1>0, <1>3 DEF WarmStart, At, envVars
  <2>2. UNCHANGED callVars \/ Start(Reaper, states[on[Reaper]].pin)
    BY <1>3 DEF WarmStart
  <2> QED BY <1>0, <2>1, <2>2 DEF TaskStep, Unbound
<1>4. CASE ReapDone \/ WarmDone
  BY <1>0, <1>4, Zenon DEF ReapDone, WarmDone, At, TaskStep, Unbound, envVars
<1> QED BY <1>1, <1>2, <1>3, <1>4 DEF ReaperStep

LEMMA RequestTask ==
  ASSUME PxInv, NEW a \in Admin, Request(a) \/ RequestDone(a)
  PROVE  TaskStep(a)
<1>0. /\ a \in Tasks /\ pc \in [Tasks -> Stages] /\ on \in [Tasks -> 1..Len(states)]
      /\ route # 0 => route \in 1..Len(states)
  BY DEF Tasks, PxInv, TaskInv, TenantInv
<1>1. CASE Register(a) \/ Deregister(a) \/ Unknown(a)
  BY <1>0, <1>1 DEF Register, Deregister, Unknown, At, TaskStep, Unbound, envVars
<1>2. CASE SetComputeStart(a)
  <2>1. /\ UNCHANGED <<kind, pod, deploy>> /\ route # 0 /\ on'[a] = route
        /\ \A u \in Tasks \ {a} : pc'[u] = pc[u] /\ on'[u] = on[u]
    BY <1>0, <1>2 DEF SetComputeStart, Routed, At, envVars
  <2>2. Start(a, states[route].pin)
    BY <1>2 DEF SetComputeStart
  <2> QED BY <1>0, <2>1, <2>2 DEF TaskStep
<1>3. CASE SetComputeStop(a)
  BY <1>0, <1>3 DEF SetComputeStop, Routed, At, TaskStep, envVars
<1>4. ASSUME NEW tl, SetPin(a, tl) PROVE TaskStep(a)
  BY <1>0, <1>4 DEF SetPin, Routed, At, TaskStep, envVars
<1>5. CASE SetKeepWarm(a)
  <2>1. /\ UNCHANGED <<kind, pod, deploy>> /\ route # 0 /\ on'[a] = route
        /\ \A u \in Tasks \ {a} : pc'[u] = pc[u] /\ on'[u] = on[u]
    BY <1>0, <1>5 DEF SetKeepWarm, Routed, At, envVars
  <2>2. UNCHANGED callVars \/ Start(a, states[route].pin)
    BY <1>5 DEF SetKeepWarm
  <2> QED BY <1>0, <2>1, <2>2 DEF TaskStep
<1>6. CASE ClearKeepWarm(a)
  BY <1>0, <1>6 DEF ClearKeepWarm, Routed, At, TaskStep, envVars
<1>7. CASE RequestDone(a)
  BY <1>0, <1>7, Zenon DEF RequestDone, At, TaskStep, Unbound, envVars
<1> QED BY <1>1, <1>2, <1>3, <1>4, <1>5, <1>6, <1>7 DEF Request

\* What reaches the other side of a call, and the environment, keep a tenant
\* on its pin as well.
LEMMA EffectPins ==
  ASSUME CallInv, NEW t \in Tasks, CallTaken(t) \/ CallFails(t)
  PROVE  CallInv' /\ \A tl : PinnedTo(tl) => PinnedTo(tl)'
<1>1. /\ UNCHANGED <<kind, pc, on, arg, route>> /\ InCall(t)
      /\ Effect(t) \/ UNCHANGED <<pod, deploy>>
      /\ \A u \in Tasks \ {t} : call'[u] = call[u]
  BY DEF CallTaken, CallFails, CallInv, tenantVars, envVars
<1>2. call' \in [Tasks -> {"none", "pin", "scale", "stop", "ok", "err"}]
  BY DEF CallTaken, CallFails, CallInv, InCall
<1>3. /\ call'[t] # "pin" /\ (call'[t] = "scale" => call[t] = "pin")
      /\ call[t] \in {"pin", "scale", "stop"}
      /\ call'[t] = "scale" => Effect(t)
  BY DEF CallTaken, CallFails, CallInv, InCall
<1>4. /\ pod' \in [st : {"down", "booting", "up"}, tl : Pinnable]
      /\ pod'.st = "down" \/ pod' = pod \/ (call[t] = "scale" /\ pod'.tl = arg[t])
  BY <1>1 DEF CallInv, Effect, NoopEffect, CommandEffect, KubeEffect, envVars
<1>5. /\ deploy' \in [replicas : {0, 1}, note : Pinnable]
      /\ \/ deploy' = deploy
         \/ kind = "kube" /\ call[t] = "pin" /\ deploy'.note = arg[t] /\ deploy'.replicas = deploy.replicas
         \/ kind = "kube" /\ call[t] = "scale" /\ deploy'.note = deploy.note
         \/ kind = "kube" /\ call[t] = "stop" /\ deploy'.note = deploy.note /\ deploy'.replicas = 0
      /\ kind = "kube" /\ call'[t] = "scale" => deploy'.note = arg[t]
  BY <1>1, <1>3 DEF CallInv, Effect, NoopEffect, CommandEffect, KubeEffect, envVars
<1>6. CallInv'
  BY <1>1, <1>2, <1>3, <1>4, <1>5 DEF CallInv
<1>7. ASSUME NEW tl, PinnedTo(tl) PROVE PinnedTo(tl)'
  <2>1. \A u \in Tasks : call'[u] \in {"pin", "scale"} => arg'[u] = tl
    BY <1>1, <1>3, <1>7 DEF PinnedTo
  <2>2. pod'.st # "down" => pod'.tl = tl
    BY <1>3, <1>4, <1>7 DEF PinnedTo
  <2>3. kind = "kube" => /\ deploy'.replicas = 1 \/ tl = Live => deploy'.note = tl
                         /\ \A u \in Tasks : call'[u] = "scale" => deploy'.note = tl
    BY <1>1, <1>3, <1>5, <1>7 DEF PinnedTo
  <2> QED BY <1>1, <1>7, <2>1, <2>2, <2>3, Zenon DEF PinnedTo
<1> QED BY <1>6, <1>7

LEMMA EnvironmentPins ==
  ASSUME CallInv, Boot \/ Reconcile \/ Crash
  PROVE  CallInv' /\ \A tl : PinnedTo(tl) => PinnedTo(tl)'
<1>1. /\ UNCHANGED <<kind, pc, on, call, arg, route, deploy>>
      /\ pod' \in [st : {"down", "booting", "up"}, tl : Pinnable]
      /\ \/ pod'.st = "down"
         \/ pod.st # "down" /\ pod'.tl = pod.tl
         \/ kind = "kube" /\ deploy.replicas = 1 /\ pod'.tl = deploy.note
         \/ kind = "noop"
  BY DEF Boot, Reconcile, Crash, CallInv, tenantVars, callVars
<1> QED BY <1>1 DEF CallInv, PinnedTo
\* Compute that is quiet has settled on the pin.
QuietPins == Quiet => route # 0 /\ PinnedTo(states[route].pin)

LEMMA QuietSettles == QuietPins
BY DEF QuietPins, Quiet, PinnedTo, Unbound

LEMMA PxInitCalls == PxInit => CallInv /\ SettledInv
BY DEF PxInit, CallInv, SettledInv, Pinnable

LEMMA PxStepPins ==
  PxInv /\ CallInv /\ SettledInv /\ QuietPins' /\ [PxNext]_pxVars => CallInv' /\ SettledInv'
<1> SUFFICES ASSUME PxInv, CallInv, SettledInv, QuietPins', [PxNext]_pxVars
             PROVE  CallInv' /\ SettledInv'
  OBVIOUS
<1> DEFINE Keeps == \A tl : /\ tl = states[route].pin /\ route # 0 /\ route' = route /\ PinnedTo(tl)
                            => PinnedTo(tl)'
<1>1. CallInv' /\ Keeps
  <2>1. ASSUME NEW t \in Tasks, TaskStep(t) PROVE CallInv' /\ Keeps
    BY <2>1, TaskCalls, TaskPins
  <2>2. CASE \E s \in Session : SessionStep(s)
    BY <2>1, <2>2, SessionTask DEF Tasks
  <2>3. CASE ReaperStep
    BY <2>1, <2>3, ReaperTask DEF Tasks
  <2>4. CASE \E a \in Admin : Request(a) \/ RequestDone(a)
    BY <2>1, <2>4, RequestTask DEF Tasks
  <2>5. CASE \E t \in Tasks : CallTaken(t) \/ CallFails(t)
    BY <2>5, EffectPins
  <2>6. CASE Boot \/ Reconcile \/ Crash
    BY <2>6, EnvironmentPins
  <2>7. CASE (\E i \in DOMAIN states : Elapse(i)) \/ UNCHANGED pxVars
    <3>1. UNCHANGED <<kind, route, pc, on, call, arg, pod, deploy>>
      BY <2>7 DEF Elapse, pxVars, tenantVars, callVars, envVars
    <3> QED BY <3>1 DEF CallInv, PinnedTo
  <2> QED BY <2>2, <2>3, <2>4, <2>5, <2>6, <2>7 DEF PxNext, Progress, Tick, TimePasses
<1>2. CASE UNCHANGED pxVars
  <2>1. UNCHANGED <<settled, route, states>>
    BY <1>2 DEF pxVars, tenantVars
  <2> QED BY <1>1, <2>1 DEF SettledInv
<1>3. CASE History
  <2> SUFFICES ASSUME settled' PROVE route' # 0 /\ PinnedTo(states[route].pin)'
    BY <1>1 DEF SettledInv
  <2>1. Quiet' \/ (settled /\ ~PinChanged)
    BY <1>3, Zenon DEF History
  <2>2. CASE Quiet'
    BY <2>2 DEF QuietPins
  <2>3. CASE settled /\ ~PinChanged
    <3>1. route # 0 /\ PinnedTo(states[route].pin)
      BY <2>3 DEF SettledInv
    <3>2. route' = route /\ states'[route].pin = states[route].pin
      BY <2>3, <3>1 DEF PinChanged
    <3>3. PinnedTo(states[route].pin)'
      <4>1. \A x : x = states[route].pin => PinnedTo(x)'
        BY <1>1, <3>1, <3>2
      <4> QED BY <3>2, <4>1 DEF PinnedTo
    <3> QED BY <3>1, <3>2, <3>3
  <2> QED BY <2>1, <2>2, <2>3
<1> QED BY <1>2, <1>3 DEF PxNext, Progress, Tick, TimePasses

\* Once compute has been down with no older start under way since the pin was
\* last changed, it never again runs on another timeline, whatever connections,
\* warmer, reaper, control API and failing calls do, and for any number of them
\* (set_pin, ensure_awake, KubeActivator::start).
THEOREM PinAlwaysSettles == PxSpec => []PinSettles
<1>1. SettledInv => PinSettles
  BY DEF SettledInv, PinnedTo, PinSettles
<1> QED BY <1>1, PxInitInv, PxStepInv, PxInitCalls, QuietSettles, PxStepPins, PTL DEF PxSpec
=============================================================================
