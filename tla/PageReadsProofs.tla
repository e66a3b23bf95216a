-------------------------- MODULE PageReadsProofs --------------------------
(***************************************************************************)
(* A read of a page, in as many steps as the branch is deep, is exact for  *)
(* any tree of timelines and whatever arrives or is collected between its  *)
(* steps.                                                                  *)
(***************************************************************************)
EXTENDS PageReads, TimelinesProofs

\* Leaves that cite no prover may take their time: SMT first, then Zenon.
USE SMTT(30), Zenon

-----------------------------------------------------------------------------
(***************************************************************************)
(* The tree of timelines: a branch and its parent exist, the parent of a   *)
(* whole branch is whole, and a branch's own versions are behind its       *)
(* branch point.                                                           *)
(***************************************************************************)
TreeInv ==
    /\ \A t \in Timeline : parent[t] # None => t \in timelines /\ parent[t] \in timelines
    /\ \A t \in whole : parent[t] # None => parent[t] \in whole
    /\ \A t \in Timeline : \A v \in hist[t] : t \in timelines /\ ancestor_lsn[t] < v.lsn

-----------------------------------------------------------------------------
\* The level above a branch is a level.
LEMMA UpIsLevel ==
    ASSUME TlTypeOK, NEW t \in Timeline, parent[t] # None
    PROVE  Up(t) \in Level
BY DEF TlTypeOK, Up, Level

\* The climb from x is a set of levels that has x, has the level above each
\* that does not end it, and is the least such set.
ClimbOK(x, ends) ==
    /\ Climb(x, ends) \in SUBSET Level /\ x \in Climb(x, ends)
    /\ Climbed(Climb(x, ends), ends)
    /\ \A S \in SUBSET Level : x \in S /\ Climbed(S, ends) => Climb(x, ends) \subseteq S

LEMMA ClimbIsLeast ==
    ASSUME TlTypeOK, NEW x \in Level, NEW ends
    PROVE  ClimbOK(x, ends)
<1> DEFINE levels == {x} \cup {Up(t) : t \in {c \in Timeline : parent[c] # None}}
           C == Climb(x, ends)
<1>1. C = {y \in levels : \A S \in SUBSET levels : x \in S /\ Climbed(S, ends) => y \in S}
  BY DEF Climb
<1>2. levels \in SUBSET Level
  BY UpIsLevel
<1>3. \A y \in Level : parent[y.tl] # None => Up(y.tl) \in levels
  BY DEF Level
<1> HIDE DEF levels, C
<1>4. x \in levels
  BY DEF levels
<1>5. x \in C /\ C \in SUBSET Level
  BY <1>1, <1>2, <1>4
<1>6. Climbed(C, ends)
  <2> SUFFICES ASSUME NEW y \in C, y \notin ends, parent[y.tl] # None
               PROVE  Up(y.tl) \in C
    BY DEF Climbed
  <2>1. Up(y.tl) \in levels
    BY <1>3, <1>5
  <2>2. ASSUME NEW S \in SUBSET levels, x \in S, Climbed(S, ends) PROVE Up(y.tl) \in S
    <3>1. y \in S
      BY <1>1, <2>2
    <3> QED
      BY <2>2, <3>1 DEF Climbed
  <2> QED
    BY <1>1, <2>1, <2>2
<1>7. ASSUME NEW S \in SUBSET Level, x \in S, Climbed(S, ends) PROVE C \subseteq S
  <2>1. Climbed(S \cap levels, ends)
    BY <1>3, <1>7 DEF Climbed
  <2> QED
    BY <1>1, <1>4, <1>7, <2>1
<1> QED
  BY <1>5, <1>6, <1>7 DEF ClimbOK, C

\* A climb ends where it is, or goes on from the level above.
LEMMA ClimbEnds ==
    ASSUME TlTypeOK, NEW x \in Level, NEW ends, x \in ends \/ parent[x.tl] = None
    PROVE  Climb(x, ends) = {x}
<1>1. ClimbOK(x, ends)
  BY ClimbIsLeast
<1>2. {x} \in SUBSET Level /\ Climbed({x}, ends)
  BY DEF Climbed
<1> QED
  BY <1>1, <1>2 DEF ClimbOK

LEMMA ClimbGoesOn ==
    ASSUME TlTypeOK, NEW x \in Level, NEW ends, x \notin ends, parent[x.tl] # None
    PROVE  Climb(x, ends) = {x} \cup Climb(Up(x.tl), ends)
<1>1. Up(x.tl) \in Level
  BY UpIsLevel DEF Level
<1> DEFINE C == Climb(x, ends)
           D == Climb(Up(x.tl), ends)
<1>2. /\ C \in SUBSET Level /\ x \in C /\ Climbed(C, ends)
      /\ \A S \in SUBSET Level : x \in S /\ Climbed(S, ends) => C \subseteq S
  BY ClimbIsLeast DEF ClimbOK
<1>3. /\ D \in SUBSET Level /\ Up(x.tl) \in D /\ Climbed(D, ends)
      /\ \A S \in SUBSET Level : Up(x.tl) \in S /\ Climbed(S, ends) => D \subseteq S
  BY <1>1, ClimbIsLeast DEF ClimbOK
<1> HIDE DEF C, D
<1>4. Climbed({x} \cup D, ends)
  BY <1>3 DEF Climbed
<1>5. C \subseteq {x} \cup D
  BY <1>2, <1>3, <1>4
<1>6. Up(x.tl) \in C
  BY <1>2 DEF Climbed
<1>7. D \subseteq C
  BY <1>2, <1>3, <1>6
<1> QED
  BY <1>2, <1>5, <1>7 DEF C, D

\* A climb that ends earlier is part of one that ends later.
LEMMA ClimbWithin ==
    ASSUME TlTypeOK, NEW x \in Level, NEW ends
    PROVE  Climb(x, ends) \subseteq Climb(x, {})
<1>1. ClimbOK(x, ends) /\ ClimbOK(x, {})
  BY ClimbIsLeast
<1>2. Climbed(Climb(x, {}), ends)
  BY <1>1 DEF ClimbOK, Climbed
<1> QED
  BY <1>1, <1>2 DEF ClimbOK

\* The levels of a climb are of timelines that exist.
LEMMA ClimbExists ==
    ASSUME TlTypeOK, TreeInv, NEW x \in Level, x.tl \in timelines, NEW ends
    PROVE  \A y \in Climb(x, ends) : y \in Level /\ y.tl \in timelines
<1> DEFINE S == {y \in Level : y.tl \in timelines}
<1>1. Climbed(S, ends)
  <2> SUFFICES ASSUME NEW y \in S, parent[y.tl] # None PROVE Up(y.tl) \in S
    BY DEF Climbed
  <2>1. y.tl \in Timeline /\ Up(y.tl) \in Level
    BY UpIsLevel DEF Level
  <2>2. Up(y.tl).tl \in timelines
    BY <2>1 DEF TreeInv, Up
  <2> QED
    BY <2>1, <2>2
<1>2. ClimbOK(x, ends)
  BY ClimbIsLeast
<1> QED
  BY <1>1, <1>2 DEF ClimbOK
-----------------------------------------------------------------------------
\* The page of a level: its own, if it has a base for it, ...
LEMMA ExpectedOwn ==
    ASSUME TlTypeOK, NEW p, NEW x \in Owning(p)
    PROVE  /\ Expected(x, p) = Made(x.tl, GetPage(hist[x.tl], p, x.lsn))
           /\ Expected(x, p) # NotFound
<1>1. x \in Level /\ GetPage(hist[x.tl], p, x.lsn) # NotFound
  BY DEF Owning
<1>2. Climb(x, Owning(p)) = {x}
  BY <1>1, ClimbEnds
<1>3. Expected(x, p) = Made(x.tl, GetPage(hist[x.tl], p, x.lsn))
  BY <1>2 DEF Expected
<1>4. Made(x.tl, GetPage(hist[x.tl], p, x.lsn)) # NotFound
  BY <1>1, Zenon DEF Made, NotFound
<1> QED
  BY <1>3, <1>4

\* ... none at a root without one, ...
LEMMA ExpectedRoot ==
    ASSUME TlTypeOK, NEW p, NEW x \in Level, x \notin Owning(p), parent[x.tl] = None
    PROVE  Expected(x, p) = NotFound
<1>1. Climb(x, Owning(p)) = {x}
  BY ClimbEnds
<1> QED
  BY <1>1 DEF Expected

\* ... and else the page of the level above under its own versions.
LEMMA ExpectedAbove ==
    ASSUME TlTypeOK, NEW p, NEW x \in Level, x \notin Owning(p), parent[x.tl] # None
    PROVE  Expected(x, p) =
               IF Expected(Up(x.tl), p) = NotFound THEN NotFound
               ELSE Expected(Up(x.tl), p) \cup Made(x.tl, Upto(hist[x.tl], p, x.lsn))
<1> DEFINE own == Owning(p)
           D == Climb(Up(x.tl), own)
           part(y) == Made(y.tl, IF y \in own THEN GetPage(hist[y.tl], p, y.lsn)
                                 ELSE Upto(hist[y.tl], p, y.lsn))
<1>1. Climb(x, own) = {x} \cup D
  BY ClimbGoesOn
<1> DEFINE both == UNION {part(y) : y \in {x} \cup D}
           above == UNION {part(y) : y \in D}
<1>2. Expected(x, p) = IF ({x} \cup D) \cap own = {} THEN NotFound ELSE both
  BY <1>1 DEF Expected
<1>3. Expected(Up(x.tl), p) = IF D \cap own = {} THEN NotFound ELSE above
  BY DEF Expected
<1>4. part(x) = Made(x.tl, Upto(hist[x.tl], p, x.lsn))
  OBVIOUS
<1>5. ASSUME NEW y \in own PROVE part(y) # {}
  BY Zenon DEF Owning, Made, NotFound
<1> HIDE DEF D, part, own
<1>6. x \notin own
  BY DEF own
<1>7. \A e : e \in both <=> \E y \in {x} \cup D : e \in part(y)
  BY Zenon
<1>8. \A e : e \in above <=> \E y \in D : e \in part(y)
  BY Zenon
<1> HIDE DEF both, above
<1>9. both = above \cup part(x)
  <2>1. \A e : e \in both <=> e \in above \/ e \in part(x)
    BY <1>7, <1>8, Zenon
  <2> QED
    BY <2>1
<1>10. CASE D \cap own = {}
  BY <1>2, <1>3, <1>6, <1>10
<1>11. CASE D \cap own # {}
  <2>1. PICK y \in D : y \in own
    BY <1>11
  <2>2. above # {}
    BY <1>5, <1>8, <2>1
  <2> QED
    BY <1>2, <1>3, <1>4, <1>9, <1>11, <2>2 DEF NotFound
<1> QED
  BY <1>10, <1>11
-----------------------------------------------------------------------------
\* A record adds its versions to the history, and nothing else moves.
LEMMA IngestHist ==
    ASSUME TlTypeOK, NEW t \in Timeline, NEW vs, NEW l, Ingest(t, vs, l)
    PROVE  /\ UNCHANGED <<timelines, parent, ancestor_lsn, whole, horizon>>
           /\ \A s \in Timeline : hist'[s] = IF s = t THEN hist[s] \cup vs ELSE hist[s]
<1>1. hist' = [hist EXCEPT ![t] = @ \cup vs] /\ UNCHANGED <<branchVars, horizon>>
  BY DEF Ingest
<1> QED
  BY <1>1, Zenon DEF branchVars, TlTypeOK

\* What a step of the tenant may do to a timeline that exists: add versions
\* behind the end of its WAL, raise its horizon.
Onward(t) ==
    /\ t \in timelines' /\ parent'[t] = parent[t] /\ ancestor_lsn'[t] = ancestor_lsn[t]
    /\ (t \in whole' <=> t \in whole) /\ horizon[t] <= horizon'[t]
    /\ hist[t] \subseteq hist'[t] /\ \A v \in hist'[t] : v \in hist[t] \/ v.lsn > Last(t)

LEMMA StepOnward ==
    ASSUME TlTypeOK, PinInv, [TlNext]_tlVars, NEW t \in timelines
    PROVE  Onward(t)
<1>0. t \in Timeline /\ horizon[t] \in Nat
  BY BoundAssumption DEF TlTypeOK, Lsn
<1>1. ASSUME NEW s \in Roots, CreateTimeline(s) PROVE Onward(t)
  BY <1>0, <1>1 DEF CreateTimeline, Onward, repoVars, ingestVars
<1>2. ASSUME NEW x \in Branches, NEW l \in Valid, BranchTimeline(x[1], x[2], l) PROVE Onward(t)
  <2>1. t # x[1]
    BY <1>2 DEF BranchTimeline
  <2>2. parent'[t] = parent[t] /\ ancestor_lsn'[t] = ancestor_lsn[t]
    BY <1>0, <1>2, <2>1 DEF BranchTimeline, TlTypeOK
  <2> QED
    BY <1>0, <1>2, <2>1, <2>2 DEF BranchTimeline, Onward, repoVars, ingestVars
<1>3. ASSUME NEW s \in timelines, NEW vs \in RecordsAt(Last(s) + 1), IngestNew(s, vs)
      PROVE  Onward(t)
  <2>1. s \in Timeline
    BY DEF TlTypeOK
  <2>2. Last(s) \in Nat /\ Last(s) + 1 \in Lsn /\ Ingest(s, vs, Last(s) + 1)
    BY <1>3, <2>1, LastIsEnd, BoundAssumption DEF IngestNew, Lsn
  <2>3. \A v \in vs : v.lsn = Last(s) + 1
    BY <2>2, RecordVersions
  <2>4. \A v \in vs : v.lsn > Last(s)
    BY <2>2, <2>3
  <2>5. /\ UNCHANGED <<timelines, parent, ancestor_lsn, whole, horizon>>
        /\ hist'[t] = IF t = s THEN hist[t] \cup vs ELSE hist[t]
    BY <1>0, <2>1, <2>2, IngestHist, Zenon
  <2> QED
    BY <1>0, <2>4, <2>5 DEF Onward
<1>4. ASSUME NEW s \in timelines, NEW l \in Valid, IngestAgain(s, l) PROVE Onward(t)
  <2>1. s \in Timeline
    BY DEF TlTypeOK
  <2>2. /\ UNCHANGED <<timelines, parent, ancestor_lsn, whole, horizon>>
        /\ hist'[t] = IF t = s THEN hist[t] \cup {v \in hist[s] : v.lsn = l} ELSE hist[t]
    BY <1>0, <1>4, <2>1, IngestHist, Zenon DEF IngestAgain
  <2> QED
    BY <1>0, <2>2 DEF Onward
<1>5. ASSUME NEW h \in Valid, GcBegin(h) PROVE Onward(t)
  BY <1>0, <1>5 DEF GcBegin, Onward, branchVars, repoVars, ingestVars
<1>6. ASSUME NEW s \in Timeline, GcTimeline(s) PROVE Onward(t)
  <2> DEFINE h == Lowest(Pinned(s, gc.horizon))
  <2>1. h \in Nat
    <3>1. h \in Lsn
      BY LowestPinned DEF TlTypeOK
    <3> QED
      BY <3>1, BoundAssumption DEF Lsn
  <2>2. Compact(s, h) /\ UNCHANGED <<branchVars, ingestVars>>
    BY <1>6 DEF GcTimeline
  <2> HIDE DEF h
  <2>3. horizon' = horizon \/ horizon' = [horizon EXCEPT ![s] = IF h > @ THEN h ELSE @]
    BY <2>2 DEF Compact, repoVars
  <2>4. horizon[t] <= horizon'[t]
    BY <1>0, <2>1, <2>3 DEF TlTypeOK
  <2> QED
    BY <1>0, <2>2, <2>4 DEF Onward, branchVars, ingestVars
<1>7. CASE UNCHANGED tlVars
  BY <1>0, <1>7 DEF Onward, tlVars, branchVars, repoVars, ingestVars
<1> QED
  BY <1>1, <1>2, <1>3, <1>4, <1>5, <1>6, <1>7 DEF TlNext, TenantStep

\* The end of the WAL of a timeline never moves back.
EndOK ==
    \A t \in Timeline :
        Last(t) \in Lsn /\ ancestor_lsn[t] <= Last(t) /\ \A v \in hist[t] : v.lsn <= Last(t)

LEMMA EndFacts == TlTypeOK => EndOK
BY LastIsEnd DEF EndOK

LEMMA LastGrows ==
    ASSUME TlTypeOK, TlTypeOK', NEW t \in timelines, Onward(t)
    PROVE  Last(t) \in Nat /\ Last(t)' \in Nat /\ Last(t) <= Last(t)'
<1>1. t \in Timeline
  BY DEF TlTypeOK
<1>2. /\ Last(t) \in Lsn
      /\ Last(t) = ancestor_lsn[t] \/ \E v \in hist[t] : v.lsn = Last(t)
  BY <1>1, LastIsEnd
<1>3. EndOK'
  BY EndFacts, PTL
<1>4. Last(t)' \in Lsn /\ ancestor_lsn'[t] <= Last(t)' /\ \A v \in hist'[t] : v.lsn <= Last(t)'
  BY <1>1, <1>3 DEF EndOK
<1>5. Last(t) <= Last(t)'
  BY <1>2, <1>4 DEF Onward
<1> QED
  BY <1>2, <1>4, <1>5, BoundAssumption DEF Lsn

LEMMA TreeStep == TlTypeOK /\ PinInv /\ TreeInv /\ [TlNext]_tlVars => TreeInv'
<1> SUFFICES ASSUME TlTypeOK, PinInv, TreeInv, [TlNext]_tlVars PROVE TreeInv'
  OBVIOUS
<1>1. ASSUME NEW t \in Roots, CreateTimeline(t) PROVE TreeInv'
  <2>1. t \in Timeline /\ parent[t] = None
    BY <1>1, TimelineAssumption DEF CreateTimeline, PinInv
  <2> QED
    BY <1>1, <2>1 DEF CreateTimeline, TreeInv, ingestVars
<1>2. ASSUME NEW x \in Branches, NEW l \in Valid, BranchTimeline(x[1], x[2], l) PROVE TreeInv'
  <2>0. PICK t \in Timeline, p \in Timeline : t = x[1] /\ p = x[2]
    BY TimelineAssumption
  <2>1. /\ \A s \in Timeline : parent'[s] = IF s = t THEN p ELSE parent[s]
        /\ \A s \in Timeline : ancestor_lsn'[s] = IF s = t THEN l ELSE ancestor_lsn[s]
        /\ timelines' = timelines \cup {t} /\ t \notin timelines /\ p \in timelines
        /\ hist' = hist
        /\ whole' = IF p \in whole /\ horizon[p] <= l THEN whole \cup {t} ELSE whole
    BY <1>2, <2>0 DEF BranchTimeline, TlTypeOK, ingestVars
  <2>2. whole \subseteq timelines /\ timelines \subseteq Timeline
    BY DEF PinInv, TlTypeOK
  <2>3. \A s \in Timeline : parent'[s] # None => s \in timelines' /\ parent'[s] \in timelines'
    BY <2>1 DEF TreeInv
  <2>4. \A s \in whole' : parent'[s] # None => parent'[s] \in whole'
    BY <2>1, <2>2 DEF TreeInv
  <2>5. \A s \in Timeline : \A v \in hist'[s] : s \in timelines' /\ ancestor_lsn'[s] < v.lsn
    BY <2>1 DEF TreeInv
  <2> QED
    BY <2>3, <2>4, <2>5 DEF TreeInv
<1>3. ASSUME NEW t \in timelines, NEW vs \in RecordsAt(Last(t) + 1), IngestNew(t, vs)
      PROVE  TreeInv'
  <2>1. t \in Timeline /\ ancestor_lsn[t] \in Nat
    BY BoundAssumption DEF TlTypeOK, Lsn
  <2>2. /\ Last(t) \in Nat /\ ancestor_lsn[t] <= Last(t) /\ Last(t) + 1 \in Lsn
        /\ Ingest(t, vs, Last(t) + 1)
    BY <1>3, <2>1, LastIsEnd, BoundAssumption DEF IngestNew, Lsn
  <2>3. \A v \in vs : v.lsn = Last(t) + 1
    BY <2>2, RecordVersions
  <2>4. \A v \in vs : ancestor_lsn[t] < v.lsn
    BY <2>1, <2>2, <2>3
  <2>5. /\ UNCHANGED <<timelines, parent, ancestor_lsn, whole>>
        /\ \A s \in Timeline : hist'[s] = IF s = t THEN hist[s] \cup vs ELSE hist[s]
    BY <2>1, <2>2, IngestHist
  <2> QED
    BY <2>4, <2>5, Zenon DEF TreeInv
<1>4. ASSUME NEW t \in timelines, NEW l \in Valid, IngestAgain(t, l) PROVE TreeInv'
  <2>1. t \in Timeline
    BY DEF TlTypeOK
  <2>2. /\ UNCHANGED <<timelines, parent, ancestor_lsn, whole>>
        /\ \A s \in Timeline : hist'[s] = IF s = t THEN hist[s] \cup {v \in hist[t] : v.lsn = l}
                                ELSE hist[s]
    BY <1>4, <2>1, IngestHist DEF IngestAgain
  <2> QED
    BY <2>2, Zenon DEF TreeInv
<1>5. CASE UNCHANGED <<branchVars, ingestVars>>
  BY <1>5 DEF branchVars, ingestVars, TreeInv
<1>6. ASSUME NEW h \in Valid, GcBegin(h) PROVE TreeInv'
  BY <1>5, <1>6 DEF GcBegin
<1>7. ASSUME NEW t \in Timeline, GcTimeline(t) PROVE TreeInv'
  BY <1>5, <1>7 DEF GcTimeline, ingestVars
<1>8. CASE UNCHANGED tlVars
  BY <1>5, <1>8 DEF tlVars
<1> QED
  BY <1>1, <1>2, <1>3, <1>4, <1>6, <1>7, <1>8 DEF TlNext, TenantStep

-----------------------------------------------------------------------------
\* What a timeline has up to an LSN its WAL has reached stays as it is.
LEMMA PastFixed ==
    ASSUME TlTypeOK, TlTypeOK', NEW y \in Level, y.tl \in timelines, Onward(y.tl),
           y.lsn <= Last(y.tl), NEW p
    PROVE  Upto(hist'[y.tl], p, y.lsn) = Upto(hist[y.tl], p, y.lsn)
<1>1. y.tl \in Timeline /\ y.lsn \in Nat
  BY BoundAssumption DEF Level, Lsn
<1>2. Last(y.tl) \in Nat
  BY <1>1, LastIsEnd, BoundAssumption DEF Lsn
<1>3. ASSUME NEW v \in hist'[y.tl], v.lsn <= y.lsn, v \notin hist[y.tl] PROVE FALSE
  <2>1. v.lsn > Last(y.tl)
    BY <1>3 DEF Onward
  <2>2. v.lsn \in Nat
    BY <1>1, BoundAssumption DEF TlTypeOK, Version, Lsn
  <2> QED
    BY <1>1, <1>2, <1>3, <2>1, <2>2
<1>4. hist[y.tl] \subseteq hist'[y.tl]
  BY DEF Onward
<1> QED
  BY <1>3, <1>4 DEF Upto

AllClimbsOK == \A x \in Level : \A ends \in SUBSET Level : ClimbOK(x, ends)

LEMMA ClimbsLeast == TlTypeOK => AllClimbsOK
BY ClimbIsLeast DEF AllClimbsOK

\* A step of the tenant does not change a climb, if it does not change where
\* it ends.
LEMMA ClimbFixed ==
    ASSUME TlTypeOK, TlTypeOK', TreeInv, \A t \in timelines : Onward(t),
           NEW x \in Level, x.tl \in timelines,
           NEW ends \in SUBSET Level, NEW ends1 \in SUBSET Level,
           \A y \in Climb(x, {}) : y \in ends <=> y \in ends1
    PROVE  Climb(x, ends1)' = Climb(x, ends)
<1> DEFINE C == Climb(x, ends)
           D == Climb(x, ends1)'
<1>1. /\ C \in SUBSET Level /\ x \in C /\ Climbed(C, ends)
      /\ \A S \in SUBSET Level : x \in S /\ Climbed(S, ends) => C \subseteq S
  BY ClimbIsLeast DEF ClimbOK
<1>2. AllClimbsOK'
  BY ClimbsLeast, PTL
<1>3. /\ D \in SUBSET Level /\ x \in D
      /\ \A y \in D : y \in ends1 \/ parent'[y.tl] = None \/ Up(y.tl)' \in D
      /\ \A S \in SUBSET Level :
            x \in S /\ (\A y \in S : y \in ends1 \/ parent'[y.tl] = None \/ Up(y.tl)' \in S)
                => D \subseteq S
  BY <1>2 DEF AllClimbsOK, ClimbOK, Climbed, Level
<1>4. C \subseteq Climb(x, {})
  BY ClimbWithin
<1>5. \A y \in C : y.tl \in timelines
  BY ClimbExists
<1> HIDE DEF C, D
<1>6. \A y \in C : parent'[y.tl] = parent[y.tl] /\ Up(y.tl)' = Up(y.tl)
  BY <1>5 DEF Onward, Up
<1>7. D \subseteq C
  <2>1. \A y \in C : y \in ends1 \/ parent'[y.tl] = None \/ Up(y.tl)' \in C
    BY <1>1, <1>4, <1>6 DEF Climbed
  <2> QED
    BY <1>1, <1>3, <2>1
<1>8. C \subseteq D
  <2>1. Climbed(D, ends)
    BY <1>3, <1>4, <1>6, <1>7 DEF Climbed
  <2> QED
    BY <1>1, <1>3, <2>1
<1> QED
  BY <1>7, <1>8 DEF C, D

\* What is expected at a settled level stays as it is, and the level settled.
LEMMA SettledFixed ==
    ASSUME TlTypeOK, TlTypeOK', TreeInv, \A t \in timelines : Onward(t),
           NEW x \in Level, x.tl \in timelines, Settled(x), NEW p
    PROVE  /\ Settled(x)' /\ Expected(x, p)' = Expected(x, p)
           /\ x \in Owning(p)' <=> x \in Owning(p)
<1>1. \A y \in Climb(x, {}) : y \in Level /\ y.tl \in timelines
  BY ClimbExists
<1>2. \A y \in Climb(x, {}) : y.lsn <= Last(y.tl)
  BY DEF Settled
<1>3. ASSUME NEW y \in Climb(x, {})
      PROVE  /\ Upto(hist'[y.tl], p, y.lsn) = Upto(hist[y.tl], p, y.lsn)
             /\ GetPage(hist'[y.tl], p, y.lsn) = GetPage(hist[y.tl], p, y.lsn)
  <2>1. Upto(hist'[y.tl], p, y.lsn) = Upto(hist[y.tl], p, y.lsn)
    BY <1>1, <1>2, PastFixed
  <2> QED
    BY <2>1 DEF GetPage
<1>4. \A y \in Climb(x, {}) : y \in Owning(p) <=> y \in Owning(p)'
  BY <1>1, <1>3, Zenon DEF Owning, Level, GetPage, Upto, Rebuild, NotFound, IsBase
<1>5. Owning(p) \in SUBSET Level /\ Owning(p)' \in SUBSET Level
  BY DEF Owning, Level
<1>6. Climb(x, Owning(p))' = Climb(x, Owning(p))
  BY <1>4, <1>5, ClimbFixed
<1>7. Climb(x, {})' = Climb(x, {})
  BY ClimbFixed
<1>8. Settled(x)'
  <2> SUFFICES ASSUME NEW y \in Climb(x, {}) PROVE y.lsn <= Last(y.tl)'
    BY <1>7 DEF Settled
  <2>1. y.tl \in timelines /\ y.lsn <= Last(y.tl) /\ y.lsn \in Nat
    BY <1>1, <1>2, BoundAssumption DEF Level, Lsn
  <2>2. Last(y.tl) \in Nat /\ Last(y.tl)' \in Nat /\ Last(y.tl) <= Last(y.tl)'
    BY <2>1, LastGrows
  <2> QED
    BY <2>1, <2>2
<1>9. Climb(x, Owning(p)) \subseteq Climb(x, {}) /\ x \in Climb(x, {})
  BY ClimbWithin, ClimbIsLeast DEF ClimbOK
<1>10. Expected(x, p)' = Expected(x, p)
  <2> DEFINE C == Climb(x, Owning(p))
             part(y) == Made(y.tl, IF y \in Owning(p) THEN GetPage(hist[y.tl], p, y.lsn)
                                   ELSE Upto(hist[y.tl], p, y.lsn))
             part1(y) == Made(y.tl, IF y \in Owning(p)' THEN GetPage(hist'[y.tl], p, y.lsn)
                                    ELSE Upto(hist'[y.tl], p, y.lsn))
             page == UNION {part(y) : y \in C}
             page1 == UNION {part1(y) : y \in C}
  <2>1. Expected(x, p) = IF C \cap Owning(p) = {} THEN NotFound ELSE page
    BY DEF Expected
  <2>2. Expected(x, p)' = IF C \cap Owning(p)' = {} THEN NotFound ELSE page1
    BY <1>6 DEF Expected, Made, GetPage, Upto, Rebuild, NotFound, IsBase
  <2>3. \A y \in C : part(y) = part1(y)
    BY <1>3, <1>4, <1>9
  <2>4. C \cap Owning(p) = C \cap Owning(p)'
    BY <1>4, <1>9
  <2> HIDE DEF C, part, part1
  <2>5. page = page1
    BY <2>3
  <2> HIDE DEF page, page1
  <2> QED
    BY <2>1, <2>2, <2>4, <2>5
<1> QED
  BY <1>4, <1>8, <1>9, <1>10

-----------------------------------------------------------------------------
\* A read only looks.
LEMMA ReadStep == [PrNext]_prVars => [TlNext]_tlVars
BY Zenon DEF PrNext, prVars, BeginRead, ReadOwn, ReadOnBase, EndRead

LEMMA ReadIsTenant == PrSpec => TlSpec
<1>1. PrInit => TlInit
  BY DEF PrInit
<1> QED
  BY <1>1, ReadStep, PTL DEF PrSpec, TlSpec

LEMMA TreeAlways == TlSpec => []TreeInv
<1>1. TlInit => TreeInv
  BY DEF TlInit, TreeInv
<1> QED
  BY <1>1, TlTypeCorrect, PinAlways, TreeStep, PTL DEF TlSpec

\* A read is of a timeline that exists, and at some level until it is done.
Climbing ==
    reader # Idle => reader.start.tl \in timelines /\ (reader.phase # "done" => reader.path # <<>>)

Reading ==
    [phase : {"own", "base", "done"}, page : Block, path : Seq(Level),
     found : SUBSET (Timeline \X Lsn), settled : BOOLEAN, start : Level]

LEMMA ReaderFacts ==
    ASSUME PrTypeOK, Climbing, reader.phase \in {"own", "base"}
    PROVE  /\ reader # Idle /\ reader \in Reading /\ Len(reader.path) \in Nat \ {0}
           /\ Top \in Level /\ Top.tl \in timelines /\ Top.tl \in Timeline
           /\ \A i \in 1..Len(reader.path) : reader.path[i] \in Level /\ reader.path[i].tl \in timelines
<1>1. reader # Idle
  BY DEF Idle
<1>2. reader \in Reading
  BY <1>1 DEF PrTypeOK, Reading
<1>3. reader.path \in Seq(Level) /\ reader.path # <<>>
  BY <1>1, <1>2 DEF Climbing, Reading
<1>4. Len(reader.path) \in Nat \ {0}
  BY <1>3
<1>5. \A i \in 1..Len(reader.path) : reader.path[i] \in Level /\ reader.path[i].tl \in timelines
  BY <1>1, <1>3 DEF PrTypeOK
<1>6. Top \in Level /\ Top.tl \in timelines
  BY <1>4, <1>5 DEF Top
<1> QED
  BY <1>1, <1>2, <1>4, <1>5, <1>6 DEF Level

\* The levels below the one a read is at.
LEMMA BelowFacts ==
    ASSUME NEW path \in Seq(Level), path # <<>>
    PROVE  LET below == SubSeq(path, 1, Len(path) - 1)
           IN  /\ below \in Seq(Level) /\ Len(below) = Len(path) - 1
               /\ \A i \in 1..(Len(path) - 1) : below[i] = path[i]
<1>1. PICK n \in Nat : Len(path) = n + 1
  <2>1. Len(path) \in Nat /\ Len(path) # 0
    OBVIOUS
  <2>2. Len(path) - 1 \in Nat /\ Len(path) = (Len(path) - 1) + 1
    BY <2>1
  <2> QED
    BY <2>2, Zenon
<1>2. Len(path) - 1 = n
  BY <1>1
<1>3. \A i \in 1..n : path[i] \in Level
  BY <1>1
<1>4. SubSeq(path, 1, n) \in Seq(Level) /\ Len(SubSeq(path, 1, n)) = n
      /\ \A i \in 1..n : SubSeq(path, 1, n)[i] = path[i]
  BY <1>1, <1>3
<1> QED
  BY <1>2, <1>4

\* What a page is made of is a set of versions.
LEMMA MadeType ==
    ASSUME NEW t \in Timeline, NEW vs \in SUBSET Version
    PROVE  Made(t, vs) \in SUBSET (Timeline \X Lsn)
BY DEF Made, Version

LEMMA PageType ==
    ASSUME TlTypeOK, NEW t \in Timeline, NEW p, NEW l
    PROVE  /\ Stored(t) \in SUBSET Version /\ Upto(Stored(t), p, l) \in SUBSET Version
           /\ GetPage(Stored(t), p, l) \in SUBSET Version
<1>1. memtable[t] \in SUBSET Version /\ layers[t] \in SUBSET Layer
  BY DEF TlTypeOK
<1>2. \A y \in layers[t] : y.entries \in SUBSET Version
  BY <1>1 DEF Layer
<1>3. Stored(t) \in SUBSET Version
  BY <1>1, <1>2 DEF Stored
<1>4. Upto(Stored(t), p, l) \in SUBSET Version
  BY <1>3 DEF Upto
<1>5. GetPage(Stored(t), p, l) \in SUBSET Version
  BY <1>4 DEF GetPage, Rebuild, NotFound
<1> QED
  BY <1>3, <1>4, <1>5

\* What an answer makes of a read, ...
LEMMA AnsweredFacts ==
    ASSUME PrTypeOK, Climbing, reader.phase \in {"own", "base"},
           NEW page \in SUBSET (Timeline \X Lsn), Answered(page)
    PROVE  /\ reader' \in Reading /\ reader' # Idle /\ reader'.found = page
           /\ reader'.page = reader.page /\ reader'.settled = reader.settled
           /\ reader'.start = reader.start
           /\ Len(reader'.path) = Len(reader.path) - 1
           /\ \A i \in 1..(Len(reader.path) - 1) : reader'.path[i] = reader.path[i]
           /\ reader'.phase = IF page = NotFound \/ Len(reader.path) = 1 THEN "done" ELSE "base"
<1>1. reader \in Reading /\ reader.path \in Seq(Level) /\ Len(reader.path) \in Nat \ {0}
  BY ReaderFacts DEF Reading
<1>2. /\ Below \in Seq(Level) /\ Len(Below) = Len(reader.path) - 1
      /\ \A i \in 1..(Len(reader.path) - 1) : Below[i] = reader.path[i]
  <2>1. reader.path # <<>>
    BY <1>1
  <2> QED
    BY <1>1, <2>1, BelowFacts DEF Below
<1>3. Below = <<>> <=> Len(reader.path) = 1
  <2>1. \A b \in Seq(Level) : b = <<>> <=> Len(b) = 0
    OBVIOUS
  <2>2. Below = <<>> <=> Len(Below) = 0
    BY <1>2, <2>1, Zenon
  <2> QED
    BY <1>1, <1>2, <2>2
<1>4. reader' = [phase |-> IF page = NotFound \/ Len(reader.path) = 1 THEN "done" ELSE "base",
                 page |-> reader.page, path |-> Below, found |-> page,
                 settled |-> reader.settled, start |-> reader.start]
  BY <1>3 DEF Answered, Goes
<1> HIDE DEF Below
<1>5. reader' \in Reading
  BY <1>1, <1>2, <1>4 DEF Reading
<1>6. reader' # Idle
  BY <1>4 DEF Idle
<1> QED
  BY <1>2, <1>4, <1>5, <1>6

\* ... and a climb to the next level.
LEMMA ClimbFacts ==
    ASSUME PrTypeOK, Climbing, reader.phase \in {"own", "base"},
           NEW x \in Level, Goes("own", Append(reader.path, x), NotFound)
    PROVE  /\ reader' \in Reading /\ reader' # Idle /\ reader'.phase = "own"
           /\ reader'.page = reader.page /\ reader'.settled = reader.settled
           /\ reader'.start = reader.start
           /\ Len(reader'.path) = Len(reader.path) + 1
           /\ \A i \in 1..Len(reader.path) : reader'.path[i] = reader.path[i]
           /\ reader'.path[Len(reader.path) + 1] = x
<1>1. reader \in Reading /\ reader.path \in Seq(Level) /\ Len(reader.path) \in Nat
  BY ReaderFacts DEF Reading
<1> DEFINE path == Append(reader.path, x)
<1>2. /\ path \in Seq(Level) /\ Len(path) = Len(reader.path) + 1
      /\ \A i \in 1..Len(reader.path) : path[i] = reader.path[i]
      /\ path[Len(reader.path) + 1] = x
  BY <1>1
<1>3. reader' = [phase |-> "own", page |-> reader.page, path |-> path, found |-> {},
                 settled |-> reader.settled, start |-> reader.start]
  BY DEF Goes, NotFound
<1> HIDE DEF path
<1>4. reader' \in Reading
  BY <1>1, <1>2, <1>3, Zenon DEF Reading
<1>5. reader' # Idle
  BY <1>3 DEF Idle
<1> QED
  BY <1>2, <1>3, <1>4, <1>5

\* What the two parts of a read answer with.
OwnPage == GetPage(Stored(Top.tl), reader.page, Top.lsn)
BasePage == OverBase(Upto(Stored(Top.tl), reader.page, Top.lsn), reader.found,
                     ancestor_lsn[Top.tl], Top.tl)

LEMMA AnswerType ==
    ASSUME PrTypeOK, Climbing, reader.phase \in {"own", "base"}
    PROVE  Made(Top.tl, OwnPage) \in SUBSET (Timeline \X Lsn) /\ BasePage \in SUBSET (Timeline \X Lsn)
<1> DEFINE vs == Upto(Stored(Top.tl), reader.page, Top.lsn)
<1>1. Top.tl \in Timeline /\ TlTypeOK /\ reader.found \in SUBSET (Timeline \X Lsn)
  BY ReaderFacts DEF PrTypeOK, Reading
<1>2. OwnPage \in SUBSET Version /\ vs \in SUBSET Version
  BY <1>1, PageType DEF OwnPage
<1>3. BasePage = IF \E b \in vs : IsBase(b) /\ b.lsn >= ancestor_lsn[Top.tl]
                 THEN Made(Top.tl, Rebuild(vs))
                 ELSE reader.found \cup Made(Top.tl, {v \in vs : v.lsn >= ancestor_lsn[Top.tl]})
  BY DEF BasePage, OverBase
<1> HIDE DEF vs
<1>4. Rebuild(vs) \in SUBSET Version /\ {v \in vs : v.lsn >= ancestor_lsn[Top.tl]} \in SUBSET Version
  BY <1>2 DEF Rebuild, NotFound
<1>5. /\ Made(Top.tl, OwnPage) \in SUBSET (Timeline \X Lsn)
      /\ Made(Top.tl, Rebuild(vs)) \in SUBSET (Timeline \X Lsn)
      /\ Made(Top.tl, {v \in vs : v.lsn >= ancestor_lsn[Top.tl]}) \in SUBSET (Timeline \X Lsn)
  BY <1>1, <1>2, <1>4, MadeType
<1> QED
  BY <1>1, <1>3, <1>5

LEMMA PrTypeStep ==
    PrTypeOK /\ Climbing /\ PinInv /\ TreeInv /\ [PrNext]_prVars => PrTypeOK' /\ Climbing'
<1> SUFFICES ASSUME PrTypeOK, Climbing, PinInv, TreeInv, [PrNext]_prVars
             PROVE  PrTypeOK' /\ Climbing'
  OBVIOUS
<1>0. TlTypeOK /\ TlTypeOK' /\ timelines \subseteq timelines'
  <2>1. TlTypeOK /\ [TlNext]_tlVars
    BY ReadStep DEF PrTypeOK
  <2> QED
    BY <2>1, TlTypeStep, StepOnward DEF Onward
<1>1. CASE UNCHANGED reader
  BY <1>0, <1>1 DEF PrTypeOK, Climbing
<1>2. ASSUME NEW t \in Read, NEW p \in Block, NEW l \in Valid, BeginRead(t, p, l)
      PROVE  PrTypeOK' /\ Climbing'
  <2> DEFINE x == [tl |-> t, lsn |-> l]
  <2>1. x \in Level /\ x.tl \in timelines /\ timelines' = timelines
    BY <1>0, <1>2, BoundAssumption DEF BeginRead, TlTypeOK, Level, Lsn, Valid, tlVars, branchVars
  <2>2. reader' = [phase |-> "own", page |-> p, path |-> <<x>>, found |-> {},
                   settled |-> Settled(x), start |-> x]
    BY <1>2, Zenon DEF BeginRead, NotFound
  <2>3. Settled(x) \in BOOLEAN
    BY DEF Settled
  <2> HIDE DEF x
  <2>4. reader' \in Reading
    BY <2>1, <2>2, <2>3 DEF Reading
  <2>5. \A i \in 1..Len(reader'.path) : reader'.path[i].tl \in timelines'
    BY <2>1, <2>2
  <2>6. reader'.path # <<>> /\ reader'.start.tl \in timelines'
    BY <2>1, <2>2
  <2> QED
    BY <1>0, <2>4, <2>5, <2>6 DEF PrTypeOK, Climbing, Reading
<1>3. ASSUME reader.phase \in {"own", "base"}, NEW page \in SUBSET (Timeline \X Lsn), Answered(page)
      PROVE  PrTypeOK' /\ Climbing'
  <2>1. /\ reader' \in Reading /\ Len(reader'.path) = Len(reader.path) - 1
        /\ \A i \in 1..(Len(reader.path) - 1) : reader'.path[i] = reader.path[i]
        /\ reader'.phase # "done" => Len(reader.path) # 1
        /\ reader'.start = reader.start
    BY <1>3, AnsweredFacts
  <2>2. /\ Len(reader.path) \in Nat \ {0} /\ reader.start.tl \in timelines
        /\ \A i \in 1..Len(reader.path) : reader.path[i].tl \in timelines
    BY <1>3, ReaderFacts DEF Climbing
  <2>3. \A i \in 1..Len(reader'.path) : reader'.path[i].tl \in timelines'
    BY <1>0, <2>1, <2>2
  <2>4. reader'.phase # "done" => reader'.path # <<>>
    <3>1. reader'.phase # "done" => Len(reader'.path) # 0
      BY <2>1, <2>2
    <3>2. Len(<<>>) = 0
      OBVIOUS
    <3> QED
      BY <3>1, <3>2, Zenon
  <2>5. reader'.start.tl \in timelines'
    BY <1>0, <2>1, <2>2
  <2> QED
    BY <1>0, <2>1, <2>3, <2>4, <2>5 DEF PrTypeOK, Climbing, Reading
<1>4. ASSUME reader.phase = "own", Inherits(Top.tl),
             Goes("own", Append(reader.path, Up(Top.tl)), NotFound)
      PROVE  PrTypeOK' /\ Climbing'
  <2>1. /\ Len(reader.path) \in Nat \ {0} /\ Top.tl \in Timeline
        /\ reader.start.tl \in timelines
        /\ \A i \in 1..Len(reader.path) : reader.path[i].tl \in timelines
    BY <1>4, ReaderFacts DEF Climbing
  <2>2. Up(Top.tl) \in Level /\ Up(Top.tl).tl \in timelines
    BY <1>0, <1>4, <2>1, UpIsLevel, Zenon DEF Inherits, TreeInv, Up
  <2>3. /\ reader' \in Reading /\ Len(reader'.path) = Len(reader.path) + 1
        /\ reader'.start = reader.start
        /\ \A i \in 1..Len(reader.path) : reader'.path[i] = reader.path[i]
        /\ reader'.path[Len(reader.path) + 1] = Up(Top.tl)
    BY <1>4, <2>2, ClimbFacts
  <2>4. ASSUME NEW i \in 1..Len(reader'.path) PROVE reader'.path[i].tl \in timelines'
    <3>1. i \in 1..Len(reader.path) \/ i = Len(reader.path) + 1
      BY <2>1, <2>3
    <3> QED
      BY <1>0, <2>1, <2>2, <2>3, <3>1
  <2>5. reader'.path # <<>> /\ reader'.start.tl \in timelines'
    BY <1>0, <2>1, <2>3
  <2> QED
    BY <1>0, <2>3, <2>4, <2>5 DEF PrTypeOK, Climbing, Reading
<1>5. CASE ReadOwn
  <2>1. reader.phase = "own" /\ Made(Top.tl, OwnPage) \in SUBSET (Timeline \X Lsn)
    BY <1>5, AnswerType DEF ReadOwn
  <2> QED
    BY <1>3, <1>4, <1>5, <2>1 DEF ReadOwn, OwnPage
<1>6. CASE ReadOnBase
  <2>1. reader.phase = "base" /\ BasePage \in SUBSET (Timeline \X Lsn)
    BY <1>6, AnswerType DEF ReadOnBase
  <2> QED
    BY <1>3, <1>6, <2>1 DEF ReadOnBase, BasePage
<1>7. CASE EndRead
  BY <1>0, <1>7 DEF EndRead, PrTypeOK, Climbing
<1> QED
  BY <1>1, <1>2, <1>5, <1>6, <1>7 DEF PrNext, prVars

(***************************************************************************)
(* A read climbs timelines that exist, for any tree of them.               *)
(***************************************************************************)
THEOREM PrTypeCorrect == PrSpec => []PrTypeOK
<1>1. PrInit => PrTypeOK /\ Climbing
  BY TlTypeInit DEF PrInit, PrTypeOK, Climbing
<1> QED
  BY <1>1, PrTypeStep, ReadIsTenant, PinAlways, TreeAlways, PTL DEF PrSpec
-----------------------------------------------------------------------------
\* The page is asked for at an LSN the WAL had reached, from a whole branch
\* that gc has not gone beyond.
Asked ==
    /\ reader # Idle /\ reader.settled
    /\ reader.start.tl \in whole /\ horizon[reader.start.tl] <= reader.start.lsn

\* A level the read has climbed past: no base of its own, and a parent.
Passed(x, p) == x \notin Owning(p) /\ parent[x.tl] # None

(***************************************************************************)
(* How far a read is.  Its path leads from the level asked for up to the   *)
(* level it is at, past levels with no base of their own; on the way down  *)
(* it has what the level above makes of the page.                          *)
(***************************************************************************)
PathInv ==
    /\ reader.path # <<>> /\ reader.path[1] = reader.start
    /\ \A i \in 1..Len(reader.path) : reader.path[i].tl \in whole /\ Settled(reader.path[i])
    /\ \A i \in 1..(Len(reader.path) - 1) :
          Passed(reader.path[i], reader.page) /\ reader.path[i + 1] = Up(reader.path[i].tl)

ReadInv ==
    Asked =>
        /\ Settled(reader.start)
        /\ reader.phase # "done" => PathInv
        /\ reader.phase = "own" =>
              (Expected(Top, reader.page) = NotFound => Expected(reader.start, reader.page) = NotFound)
        /\ reader.phase = "base" =>
              /\ Passed(Top, reader.page)
              /\ reader.found # NotFound /\ reader.found = Expected(Up(Top.tl), reader.page)
        /\ reader.phase = "done" => reader.found = Expected(reader.start, reader.page)

-----------------------------------------------------------------------------
\* What the settled level of a branch inherits is settled.
LEMMA SettledUp ==
    ASSUME TlTypeOK, TreeInv, NEW x \in Level, Settled(x), parent[x.tl] # None
    PROVE  /\ Up(x.tl) \in Level /\ Up(x.tl).tl \in timelines /\ Settled(Up(x.tl))
           /\ x.tl \in whole => Up(x.tl).tl \in whole
<1>1. x.tl \in Timeline
  BY DEF Level
<1>2. Climb(x, {}) = {x} \cup Climb(Up(x.tl), {})
  BY ClimbGoesOn, Zenon
<1>3. Up(x.tl) \in Level
  BY <1>1, UpIsLevel
<1>4. Up(x.tl).tl = parent[x.tl]
  BY DEF Up
<1> QED
  BY <1>1, <1>2, <1>3, <1>4 DEF Settled, TreeInv

\* A timeline that makes no page of its own has no base of the page.
LEMMA NoBase ==
    ASSUME TlTypeOK, NEW x \in Level, NEW p, x \notin Owning(p)
    PROVE  \A b \in Upto(hist[x.tl], p, x.lsn) : ~IsBase(b)
<1> DEFINE vs == Upto(hist[x.tl], p, x.lsn)
<1>1. vs \in SUBSET Version /\ \A v \in vs : v.lsn \in Nat /\ v.lsn <= x.lsn
  BY BoundAssumption DEF TlTypeOK, Level, Upto, Version, Lsn, Valid
<1>2. Rebuild(vs) = {}
  BY DEF Owning, GetPage, NotFound
<1> HIDE DEF vs
<1> SUFFICES ASSUME NEW b \in vs, IsBase(b) PROVE FALSE
  BY DEF vs
<1> DEFINE S == {v.lsn : v \in {c \in vs : IsBase(c)}}
<1>3. x.lsn \in Nat
  BY BoundAssumption DEF Level, Lsn
<1>4. S \in SUBSET (0..x.lsn) /\ S # {}
  BY <1>1, <1>3
<1> HIDE DEF S
<1>5. PICK m \in S : \A n \in S : n <= m
  BY <1>3, <1>4, LargestNat, ZenonT(30)
<1>6. PICK c \in vs : IsBase(c) /\ c.lsn = m
  BY <1>5 DEF S
<1>7. c \in Rebuild(vs)
  BY <1>5, <1>6 DEF Rebuild, S
<1> QED
  BY <1>2, <1>7

\* At a level not below the horizon, the store answers as the whole history.
LEMMA OwnAnswer ==
    ASSUME TlTypeOK, KeepInv, NEW x \in Level, horizon[x.tl] <= x.lsn, NEW p \in Block
    PROVE  GetPage(Stored(x.tl), p, x.lsn) = GetPage(hist[x.tl], p, x.lsn)
<1>1. HistoryKept
  BY KeepImpliesHistoryKept
<1>2. x.tl \in Timeline /\ x.lsn \in horizon[x.tl]..MaxLsn
  BY BoundAssumption DEF TlTypeOK, Level, Lsn
<1> QED
  BY <1>1, <1>2, Zenon DEF HistoryKept

\* Without a base of its own, it has every version of the page.
LEMMA AllVersions ==
    ASSUME TlTypeOK, KeepInv, NEW x \in Level, horizon[x.tl] <= x.lsn,
           NEW p \in Block, x \notin Owning(p)
    PROVE  Upto(Stored(x.tl), p, x.lsn) = Upto(hist[x.tl], p, x.lsn)
<1>1. x.tl \in Timeline /\ hist[x.tl] \in SUBSET Version /\ Stored(x.tl) \subseteq hist[x.tl]
  BY DEF TlTypeOK, Level, KeepInv
<1>2. x.lsn \in Nat /\ horizon[x.tl] \in Nat
  BY BoundAssumption DEF TlTypeOK, Level, Lsn
<1>3. \A v \in hist[x.tl] : v.lsn \in Nat
  BY <1>1, BoundAssumption DEF Version, Lsn, Valid
<1>4. ASSUME NEW v \in hist[x.tl], v.page = p, v.lsn <= x.lsn PROVE v \in Stored(x.tl)
  <2> SUFFICES ASSUME Superseded(Stored(x.tl), v, horizon[x.tl]) PROVE FALSE
    BY <1>1, <1>4 DEF KeepInv
  <2>1. PICK b \in Stored(x.tl) : b.page = v.page /\ IsBase(b) /\ b.lsn <= horizon[x.tl]
    BY DEF Superseded
  <2>2. b \in hist[x.tl] /\ b.lsn <= x.lsn
    BY <1>1, <1>2, <1>3, <2>1
  <2>3. b \in Upto(hist[x.tl], p, x.lsn)
    BY <1>4, <2>1, <2>2 DEF Upto
  <2> QED
    BY <2>1, <2>3, NoBase
<1> QED
  BY <1>1, <1>4, Zenon DEF Upto

\* So a branch that inherits a page makes of it what the whole history makes.
LEMMA BaseAnswer ==
    ASSUME TlTypeOK, KeepInv, TreeInv, NEW x \in Level, horizon[x.tl] <= x.lsn,
           NEW p \in Block, x \notin Owning(p), NEW page
    PROVE  OverBase(Upto(Stored(x.tl), p, x.lsn), page, ancestor_lsn[x.tl], x.tl)
               = page \cup Made(x.tl, Upto(hist[x.tl], p, x.lsn))
<1> DEFINE vs == Upto(hist[x.tl], p, x.lsn)
<1>1. x.tl \in Timeline /\ ancestor_lsn[x.tl] \in Nat
  BY BoundAssumption DEF TlTypeOK, Level, Lsn
<1>2. \A v \in vs : v.lsn \in Nat /\ ancestor_lsn[x.tl] < v.lsn
  BY <1>1, BoundAssumption DEF TlTypeOK, TreeInv, Upto, Version, Lsn, Valid
<1>3. \A b \in vs : ~IsBase(b)
  BY NoBase, Zenon
<1>4. Upto(Stored(x.tl), p, x.lsn) = vs
  BY AllVersions, Zenon
<1> HIDE DEF vs
<1>5. {v \in vs : v.lsn >= ancestor_lsn[x.tl]} = vs
  BY <1>1, <1>2
<1> QED
  BY <1>3, <1>4, <1>5, Zenon DEF OverBase, vs
-----------------------------------------------------------------------------
\* Every level of the path is within what its store kept.
LEMMA PathGood ==
    ASSUME PrTypeOK, Climbing, PinInv, Asked, PathInv, reader.phase \in {"own", "base"},
           NEW i \in 1..Len(reader.path)
    PROVE  horizon[reader.path[i].tl] <= reader.path[i].lsn
<1>1. CASE i = 1
  BY <1>1 DEF Asked, PathInv
<1>2. CASE i # 1
  <2>1. Len(reader.path) \in Nat
    BY ReaderFacts
  <2>2. i - 1 \in 1..(Len(reader.path) - 1) /\ i - 1 \in 1..Len(reader.path) /\ (i - 1) + 1 = i
    BY <1>2, <2>1
  <2> DEFINE y == reader.path[i - 1]
  <2>3. y.tl \in whole /\ parent[y.tl] # None /\ reader.path[i] = Up(y.tl)
    BY <2>2 DEF PathInv, Passed
  <2> HIDE DEF y
  <2>4. horizon[parent[y.tl]] <= ancestor_lsn[y.tl]
    BY <2>3 DEF PinInv, BranchPointsPinned
  <2> QED
    BY <2>3, <2>4 DEF Up
<1> QED
  BY <1>1, <1>2

\* What a reader of an asked page finds at the level it is at.
LEMMA TopGood ==
    ASSUME PrTypeOK, Climbing, PinInv, TreeInv, ReadInv, Asked, reader.phase \in {"own", "base"}
    PROVE  /\ PathInv /\ Top \in Level /\ Top.tl \in whole /\ Settled(Top)
           /\ horizon[Top.tl] <= Top.lsn /\ reader.page \in Block
<1>1. PathInv
  BY DEF ReadInv
<1>2. Len(reader.path) \in 1..Len(reader.path) /\ Top \in Level /\ reader \in Reading
  BY ReaderFacts
<1>3. Top.tl \in whole /\ Settled(Top)
  BY <1>1, <1>2 DEF PathInv, Top
<1>4. horizon[Top.tl] <= Top.lsn
  BY <1>1, <1>2, PathGood DEF Top
<1>5. reader.page \in Block
  BY <1>2 DEF Reading
<1> QED
  BY <1>1, <1>2, <1>3, <1>4, <1>5

\* A step of the reader leaves what the history makes alone.
LEMMA HistoryFrame ==
    ASSUME UNCHANGED tlVars, NEW x, NEW p
    PROVE  /\ Settled(x)' = Settled(x) /\ Expected(x, p)' = Expected(x, p)
           /\ Owning(p)' = Owning(p) /\ Up(x)' = Up(x)
<1>1. UNCHANGED <<parent, ancestor_lsn, hist>>
  BY DEF tlVars, branchVars, ingestVars
<1>2. \A t : Up(t)' = Up(t)
  BY <1>1 DEF Up
<1>3. \A S, ends : Climbed(S, ends)' <=> Climbed(S, ends)
  BY <1>1, <1>2 DEF Climbed
<1>4. \A y, ends : Climb(y, ends)' = Climb(y, ends)
  BY <1>1, <1>2, <1>3, ZenonT(30) DEF Climb
<1>5. \A q : Owning(q)' = Owning(q)
  BY <1>1 DEF Owning
<1>6. Expected(x, p)' = Expected(x, p)
  BY <1>1, <1>4, <1>5, Zenon DEF Expected
<1>7. \A t : Last(t)' = Last(t)
  BY <1>1 DEF Last
<1>8. Settled(x)' = Settled(x)
  BY <1>4, <1>7 DEF Settled
<1> QED
  BY <1>2, <1>5, <1>6, <1>8
-----------------------------------------------------------------------------
\* WAL that arrives, and a gc, leave a read as far as it is.
LEMMA ArrivalKeeps ==
    ASSUME PrTypeOK, TlTypeOK', Climbing, PinInv, PinInv', TreeInv, ReadInv,
           [TlNext]_tlVars, UNCHANGED reader
    PROVE  ReadInv'
<1> SUFFICES ASSUME Asked' PROVE ReadInv'
  BY DEF ReadInv
<1>0. TlTypeOK
  BY DEF PrTypeOK
<1>1. reader # Idle /\ reader \in Reading /\ reader.start \in Level /\ reader.start.tl \in timelines
  BY DEF PrTypeOK, Climbing, Reading, Asked
<1>2. \A t \in timelines : Onward(t)
  BY <1>0, StepOnward
<1>3. Asked
  <2>1. reader.start.lsn \in Nat
    BY <1>1, BoundAssumption DEF Level, Lsn
  <2>2. horizon \in [Timeline -> Lsn] /\ reader.start.tl \in Timeline
    BY <1>0, <1>1, Zenon DEF TlTypeOK
  <2>3. horizon' \in [Timeline -> Lsn] /\ \A l \in Lsn : l \in Nat
    BY BoundAssumption DEF TlTypeOK, Lsn
  <2>4. /\ reader.start.tl \in timelines' /\ horizon[reader.start.tl] <= horizon'[reader.start.tl]
        /\ (reader.start.tl \in whole' <=> reader.start.tl \in whole)
    BY <1>1, <1>2, Zenon DEF Onward
  <2>5. horizon[reader.start.tl] \in Nat /\ horizon'[reader.start.tl] \in Nat
    BY <2>2, <2>3, Zenon
  <2>6. \A a, b, c \in Nat : a <= b /\ b <= c => a <= c
    OBVIOUS
  <2>7. reader' # Idle /\ reader.settled /\ reader.start.tl \in whole'
        /\ horizon'[reader.start.tl] <= reader.start.lsn
    BY Zenon DEF Asked
  <2> QED
    BY <1>1, <2>1, <2>4, <2>5, <2>6, <2>7, Zenon DEF Asked
<1>4. \A x \in Level : \A p : x.tl \in timelines /\ Settled(x) =>
          /\ Settled(x)' /\ Expected(x, p)' = Expected(x, p)
          /\ x \in Owning(p)' <=> x \in Owning(p)
  BY <1>0, <1>2, SettledFixed
<1>5. \A t \in timelines : Up(t)' = Up(t) /\ parent'[t] = parent[t] /\ (t \in whole => t \in whole')
  BY <1>2 DEF Onward, Up
<1>6. Settled(reader.start)' /\ Expected(reader.start, reader.page)' = Expected(reader.start, reader.page)
  BY <1>1, <1>3, <1>4 DEF ReadInv
<1>7. CASE reader.phase = "done"
  BY <1>3, <1>6, <1>7 DEF ReadInv
<1>8. CASE reader.phase \in {"own", "base"}
  <2>1. PathInv /\ Top \in Level /\ Top.tl \in whole /\ Settled(Top)
    BY <1>3, <1>8, TopGood
  <2>2. \A i \in 1..Len(reader.path) : reader.path[i] \in Level /\ reader.path[i].tl \in timelines
    BY <1>8, ReaderFacts
  <2>3. Len(reader.path) \in Nat /\ Top.tl \in timelines /\ Top' = Top
    BY <1>8, ReaderFacts DEF Top
  <2>4. \A i \in 1..Len(reader.path) : reader.path[i].tl \in whole' /\ Settled(reader.path[i])'
    BY <1>4, <1>5, <2>1, <2>2, ZenonT(30) DEF PathInv
  <2>5. ASSUME NEW x \in Level, x.tl \in timelines, Settled(x), Passed(x, reader.page)
        PROVE  Passed(x, reader.page)'
    BY <1>4, <1>5, <2>5, Zenon DEF Passed
  <2>6. ASSUME NEW i \in 1..(Len(reader.path) - 1)
        PROVE  Passed(reader.path[i], reader.page)' /\ reader.path[i + 1] = Up(reader.path[i].tl)'
    <3>1. i \in 1..Len(reader.path)
      BY <2>3
    <3> QED
      BY <1>5, <2>1, <2>2, <2>5, <3>1 DEF PathInv
  <2>7. PathInv'
    BY <2>1, <2>4, <2>6 DEF PathInv
  <2>8. Expected(Top, reader.page)' = Expected(Top, reader.page)
    BY <1>4, <2>1, <2>3
  <2>9. CASE reader.phase = "own"
    BY <1>3, <1>6, <2>3, <2>7, <2>8, <2>9 DEF ReadInv
  <2>10. CASE reader.phase = "base"
    <3>1. Passed(Top, reader.page) /\ reader.found # NotFound /\ reader.found = Expected(Up(Top.tl), reader.page)
      BY <1>3, <2>10 DEF ReadInv
    <3>2. Up(Top.tl) \in Level /\ Up(Top.tl).tl \in timelines /\ Settled(Up(Top.tl))
      BY <1>0, <2>1, <3>1, SettledUp, ZenonT(30) DEF Passed
    <3>3. Expected(Up(Top.tl), reader.page)' = Expected(Up(Top.tl), reader.page)
      <4>1. \A x \in Level : x.tl \in timelines /\ Settled(x) => Expected(x, reader.page)' = Expected(x, reader.page)
        BY <1>4
      <4> QED
        BY <1>5, <2>3, <3>2, <4>1, Zenon
    <3>4. Passed(Top, reader.page)'
      BY <2>1, <2>3, <2>5, <3>1
    <3> QED
      BY <1>6, <2>7, <2>10, <3>1, <3>3, <3>4 DEF ReadInv
  <2> QED
    BY <1>8, <2>9, <2>10
<1> QED
  BY <1>1, <1>7, <1>8 DEF Reading
\* A read begins at the level asked for.
LEMMA BeginKeeps ==
    ASSUME NEW t \in Timeline, NEW p \in Block, NEW l \in Valid, BeginRead(t, p, l)
    PROVE  ReadInv'
<1> DEFINE x == [tl |-> t, lsn |-> l]
<1>1. reader' = [phase |-> "own", page |-> p, path |-> <<x>>, found |-> NotFound,
                 settled |-> Settled(x), start |-> x]
      /\ UNCHANGED tlVars
  BY DEF BeginRead
<1>2. Settled(x)' = Settled(x)
  BY <1>1, HistoryFrame
<1>3. whole' = whole
  BY <1>1 DEF tlVars, branchVars
<1> HIDE DEF x
<1>4. /\ reader'.phase = "own" /\ reader'.path = <<x>> /\ reader'.start = x
      /\ reader'.page = p /\ reader'.settled = Settled(x)
  BY <1>1
<1>5. Len(reader'.path) = 1 /\ reader'.path[1] = x /\ Top' = x /\ reader'.path # <<>>
  BY <1>4 DEF Top
<1> SUFFICES ASSUME Asked' PROVE ReadInv'
  BY DEF ReadInv
<1>6. Settled(reader.start)' /\ x.tl \in whole'
  BY <1>2, <1>4 DEF Asked
<1>7. \A i \in 1..Len(reader'.path) : reader'.path[i] = x
  BY <1>5
<1>8. \A i \in 1..(Len(reader'.path) - 1) : FALSE
  BY <1>5
<1>9. PathInv'
  BY <1>4, <1>5, <1>6, <1>7, <1>8, Zenon DEF PathInv
<1>10. Expected(Top, reader.page)' = Expected(reader.start, reader.page)'
  BY <1>4, <1>5
<1> QED
  BY <1>4, <1>6, <1>9, <1>10, Zenon DEF ReadInv

\* A level that makes the page is answered, and the level below goes on with it.
LEMMA AnswerKeeps ==
    ASSUME PrTypeOK, Climbing, PinInv, TreeInv, ReadInv, Asked, reader.phase \in {"own", "base"},
           NEW page \in SUBSET (Timeline \X Lsn), Answered(page), UNCHANGED tlVars,
           page # NotFound, page = Expected(Top, reader.page)
    PROVE  ReadInv'
<1>1. /\ reader'.found = page /\ reader'.page = reader.page /\ reader'.start = reader.start
      /\ Len(reader'.path) = Len(reader.path) - 1
      /\ \A i \in 1..(Len(reader.path) - 1) : reader'.path[i] = reader.path[i]
      /\ reader'.phase = IF Len(reader.path) = 1 THEN "done" ELSE "base"
  BY AnsweredFacts, Zenon
<1>2. /\ \A y : Settled(y)' = Settled(y) /\ Up(y)' = Up(y)
      /\ \A y, p : Expected(y, p)' = Expected(y, p) /\ Owning(p)' = Owning(p)
      /\ UNCHANGED <<parent, whole>>
  BY HistoryFrame DEF tlVars, branchVars
<1>3. PathInv /\ Settled(reader.start) /\ Len(reader.path) \in Nat \ {0}
  BY TopGood, ReaderFacts, Zenon DEF ReadInv
<1>4. Settled(reader.start)'
  BY <1>1, <1>2, <1>3, Zenon
<1>5. CASE Len(reader.path) = 1
  <2>1. Top = reader.start
    BY <1>3, <1>5 DEF Top, PathInv
  <2>2. reader'.phase = "done" /\ reader'.found = Expected(reader.start, reader.page)'
    BY <1>1, <1>2, <1>5, <2>1
  <2> QED
    BY <1>4, <2>2, Zenon DEF ReadInv
<1>6. CASE Len(reader.path) # 1
  <2> DEFINE n == Len(reader.path) - 1
             y == reader.path[n]
  <2>0. Len(reader.path) \in Nat \ {0}
    BY <1>3
  <2>1. n \in 1..n /\ n + 1 = Len(reader.path) /\ 1 \in 1..n
    <3>1. \A k \in Nat \ {0} : k # 1 => k - 1 \in 1..(k - 1) /\ (k - 1) + 1 = k /\ 1 \in 1..(k - 1)
      OBVIOUS
    <3> QED
      BY <1>6, <2>0, <3>1, Zenon
  <2>2. reader'.phase = "base" /\ Len(reader'.path) = n
    BY <1>1, <1>6
  <2>3. Top' = y /\ reader'.path[1] = reader.path[1]
    BY <1>1, <2>1, <2>2, Zenon DEF Top
  <2>4. Passed(y, reader.page) /\ Top = Up(y.tl)
    BY <1>3, <2>1 DEF PathInv, Top
  <2>5. \A i \in 1..n : i \in 1..Len(reader.path) /\ reader.path[i].tl \in whole /\ Settled(reader.path[i])
    <3>1. \A k \in Nat \ {0} : \A i \in 1..(k - 1) : i \in 1..k
      OBVIOUS
    <3>2. \A i \in 1..n : i \in 1..Len(reader.path)
      BY <2>0, <3>1, Zenon
    <3> QED
      BY <1>3, <3>2, Zenon DEF PathInv
  <2>6. \A i \in 1..(n - 1) : /\ i \in 1..n /\ i + 1 \in 1..n /\ Passed(reader.path[i], reader.page)
                              /\ reader.path[i + 1] = Up(reader.path[i].tl)
    <3>1. \A k \in Nat \ {0} : \A i \in 1..(k - 1 - 1) : i \in 1..(k - 1) /\ i + 1 \in 1..(k - 1)
      OBVIOUS
    <3>2. \A i \in 1..(n - 1) : i \in 1..n /\ i + 1 \in 1..n
      BY <2>0, <3>1, Zenon
    <3> QED
      BY <1>3, <3>2, Zenon DEF PathInv
  <2>7. \A z : Passed(z, reader.page)' <=> Passed(z, reader.page)
    BY <1>1, <1>2, ZenonT(30) DEF Passed
  <2>8. \A i \in 1..n : reader'.path[i] = reader.path[i]
    BY <1>1
  <2> HIDE DEF n, y
  <2>9. \A i \in 1..Len(reader'.path) : reader'.path[i].tl \in whole' /\ Settled(reader.path[i])'
    BY <1>2, <2>2, <2>5, <2>8, Zenon
  <2>10. \A i \in 1..(Len(reader'.path) - 1) :
            Passed(reader.path[i], reader.page)' /\ reader'.path[i + 1] = Up(reader.path[i].tl)'
    BY <1>1, <1>2, <2>2, <2>6, <2>7, <2>8, Zenon
  <2>11. reader'.path # <<>> /\ reader'.path[1] = reader'.start
    <3>1. n # 0
      BY <2>1
    <3>2. reader'.path # <<>>
      BY <2>2, <3>1
    <3>3. reader.path[1] = reader.start /\ reader'.start = reader.start
      BY <1>1, <1>3, Zenon DEF PathInv
    <3> QED
      BY <2>3, <3>2, <3>3, Zenon
  <2>12. PathInv'
    BY <2>9, <2>10, <2>11, Zenon DEF PathInv
  <2>13. Passed(Top, reader.page)'
    BY <1>1, <2>3, <2>4, <2>7
  <2>14. reader'.found # NotFound /\ reader'.found = Expected(Up(Top.tl), reader.page)'
    BY <1>1, <1>2, <2>3, <2>4, Zenon
  <2> QED
    BY <1>4, <2>2, <2>12, <2>13, <2>14, Zenon DEF ReadInv
<1> QED
  BY <1>5, <1>6
\* A branch without a base of its own sends the read up to its parent.
LEMMA ClimbKeeps ==
    ASSUME PrTypeOK, Climbing, PinInv, TreeInv, ReadInv, Asked, reader.phase = "own",
           Passed(Top, reader.page), UNCHANGED tlVars,
           Goes("own", Append(reader.path, Up(Top.tl)), NotFound)
    PROVE  ReadInv'
<1> DEFINE n == Len(reader.path)
           u == Up(Top.tl)
<1>0. TlTypeOK
  BY DEF PrTypeOK
<1>1. PathInv /\ Top \in Level /\ Top.tl \in whole /\ Settled(Top) /\ Settled(reader.start)
  BY TopGood, Zenon DEF ReadInv
<1>2. u \in Level /\ Settled(u) /\ u.tl \in whole
  BY <1>0, <1>1, SettledUp, Zenon DEF Passed
<1>3. n \in Nat \ {0} /\ n \in 1..n
  BY ReaderFacts
<1>4. /\ reader'.phase = "own" /\ reader'.page = reader.page /\ reader'.start = reader.start
      /\ Len(reader'.path) = n + 1 /\ reader'.path[n + 1] = u
      /\ \A i \in 1..n : reader'.path[i] = reader.path[i]
  BY <1>2, ClimbFacts
<1>5. /\ \A y : Settled(y)' = Settled(y) /\ Up(y)' = Up(y)
      /\ \A y, p : Expected(y, p)' = Expected(y, p) /\ Owning(p)' = Owning(p)
      /\ UNCHANGED <<parent, whole>>
  BY HistoryFrame, Zenon DEF tlVars, branchVars
<1>6. \A z : Passed(z, reader.page)' <=> Passed(z, reader.page)
  BY <1>4, <1>5 DEF Passed
<1>7. reader.path[n] = Top /\ Top' = u
  BY <1>4, Zenon DEF Top
<1>8. /\ reader.path[1] = reader.start
      /\ \A i \in 1..n : reader.path[i].tl \in whole /\ Settled(reader.path[i])
      /\ \A i \in 1..(n - 1) : Passed(reader.path[i], reader.page) /\ reader.path[i + 1] = Up(reader.path[i].tl)
  BY <1>1 DEF PathInv
<1>9. Expected(Top, reader.page) = NotFound => Expected(reader.start, reader.page) = NotFound
  BY DEF ReadInv
<1>10. Expected(u, reader.page) = NotFound => Expected(Top, reader.page) = NotFound
  BY <1>0, <1>1, ExpectedAbove, Zenon DEF Passed
<1>11. /\ \A i \in 1..(n + 1) : i = n + 1 \/ i \in 1..n
       /\ \A i \in 1..n : i = n \/ (i \in 1..(n - 1) /\ i + 1 \in 1..n)
       /\ (n + 1) - 1 = n /\ 1 \in 1..n /\ n + 1 # 0
  BY <1>3
<1> HIDE DEF n, u
<1>12. \A i \in 1..(n + 1) : reader'.path[i].tl \in whole' /\ Settled(reader.path[i])'
  BY <1>2, <1>4, <1>5, <1>8, <1>11, Zenon
<1>13. \A i \in 1..n : Passed(reader.path[i], reader.page)' /\ reader'.path[i + 1] = Up(reader.path[i].tl)'
  <2> SUFFICES ASSUME NEW i \in 1..n
               PROVE  Passed(reader.path[i], reader.page)' /\ reader'.path[i + 1] = Up(reader.path[i].tl)'
    OBVIOUS
  <2>1. Passed(reader.path[i], reader.page) /\ reader'.path[i + 1] = Up(reader.path[i].tl)
    BY <1>4, <1>7, <1>8, <1>11, Zenon DEF u
  <2> QED
    BY <1>4, <1>5, <1>6, <2>1, Zenon
<1>14. reader'.path # <<>> /\ reader'.path[1] = reader'.start
  BY <1>4, <1>8, <1>11, Zenon
<1>15. PathInv'
  BY <1>4, <1>11, <1>12, <1>13, <1>14, Zenon DEF PathInv
<1>16. Settled(reader.start)'
  BY <1>1, <1>4, <1>5
<1>17. Expected(Top, reader.page)' = NotFound => Expected(reader.start, reader.page)' = NotFound
  BY <1>4, <1>5, <1>7, <1>9, <1>10, ZenonT(30)
<1> QED
  BY <1>4, <1>15, <1>16, <1>17, Zenon DEF ReadInv

\* At the level it is at, the read of an asked page asks what is kept: the
\* own page is the history's, and it has none where the level owns none.
LEMMA OwnPageExact ==
    ASSUME PrTypeOK, Climbing, KeepInv, PinInv, TreeInv, ReadInv, Asked,
           reader.phase \in {"own", "base"}
    PROVE  /\ OwnPage = GetPage(hist[Top.tl], reader.page, Top.lsn)
           /\ Top \in Owning(reader.page) <=> OwnPage # NotFound
<1>1. TlTypeOK /\ Top \in Level /\ horizon[Top.tl] <= Top.lsn /\ reader.page \in Block
  BY TopGood DEF PrTypeOK
<1>2. OwnPage = GetPage(hist[Top.tl], reader.page, Top.lsn)
  BY <1>1, OwnAnswer, Zenon DEF OwnPage
<1> QED
  BY <1>1, <1>2, Zenon DEF Owning

LEMMA ReadOwnKeeps ==
    ASSUME PrTypeOK, Climbing, KeepInv, PinInv, TreeInv, ReadInv, Asked, ReadOwn
    PROVE  ReadInv'
<1>0. TlTypeOK /\ reader.phase = "own" /\ UNCHANGED tlVars
  BY DEF PrTypeOK, ReadOwn
<1>1. Top \in Level
  BY <1>0, TopGood
<1>2. /\ OwnPage = GetPage(hist[Top.tl], reader.page, Top.lsn)
      /\ Top \in Owning(reader.page) <=> OwnPage # NotFound
  BY <1>0, OwnPageExact
<1>3. Made(Top.tl, OwnPage) \in SUBSET (Timeline \X Lsn)
  BY <1>0, AnswerType
<1>4. CASE OwnPage # NotFound
  <2>1. Answered(Made(Top.tl, OwnPage))
    BY <1>4 DEF ReadOwn, OwnPage
  <2>2. Made(Top.tl, OwnPage) = Expected(Top, reader.page) /\ Expected(Top, reader.page) # NotFound
    BY <1>0, <1>2, <1>4, ExpectedOwn, Zenon
  <2> QED
    BY <1>0, <1>3, <2>1, <2>2, AnswerKeeps, Zenon
<1>5. CASE OwnPage = NotFound /\ parent[Top.tl] = None
  <2>1. Answered(Made(Top.tl, OwnPage))
    BY <1>5, ZenonT(30) DEF ReadOwn, OwnPage, Inherits
  <2>2. Made(Top.tl, OwnPage) = NotFound
    BY <1>5 DEF Made, NotFound
  <2>3. /\ reader'.found = NotFound /\ reader'.page = reader.page /\ reader'.start = reader.start
        /\ reader'.phase = "done"
    BY <1>0, <1>3, <2>1, <2>2, AnsweredFacts, Zenon
  <2>4. Expected(Top, reader.page) = NotFound
    BY <1>0, <1>1, <1>2, <1>5, ExpectedRoot, Zenon
  <2>5. Expected(reader.start, reader.page) = NotFound /\ Settled(reader.start)
    BY <1>0, <2>4, Zenon DEF ReadInv
  <2>6. Expected(reader.start, reader.page)' = NotFound /\ Settled(reader.start)'
    BY <1>0, <2>3, <2>5, HistoryFrame
  <2> QED
    BY <2>3, <2>6, ZenonT(30) DEF ReadInv
<1>6. CASE OwnPage = NotFound /\ parent[Top.tl] # None
  <2>1. Goes("own", Append(reader.path, Up(Top.tl)), NotFound)
    BY <1>6, Zenon DEF ReadOwn, OwnPage, Inherits
  <2>2. Passed(Top, reader.page)
    BY <1>2, <1>6 DEF Passed
  <2> QED
    BY <1>0, <2>1, <2>2, ClimbKeeps
<1> QED
  BY <1>4, <1>5, <1>6

LEMMA ReadOnBaseKeeps ==
    ASSUME PrTypeOK, Climbing, KeepInv, PinInv, TreeInv, ReadInv, Asked, ReadOnBase
    PROVE  ReadInv'
<1>0. TlTypeOK /\ reader.phase = "base" /\ UNCHANGED tlVars /\ Answered(BasePage)
  BY Zenon DEF PrTypeOK, ReadOnBase, BasePage
<1>1. Top \in Level /\ horizon[Top.tl] <= Top.lsn /\ reader.page \in Block
  BY <1>0, TopGood, Zenon
<1>2. /\ Top \notin Owning(reader.page) /\ parent[Top.tl] # None
      /\ reader.found # NotFound /\ reader.found = Expected(Up(Top.tl), reader.page)
  BY <1>0 DEF ReadInv, Passed
<1>3. BasePage = reader.found \cup Made(Top.tl, Upto(hist[Top.tl], reader.page, Top.lsn))
  BY <1>0, <1>1, <1>2, BaseAnswer, ZenonT(30) DEF BasePage
<1>4. BasePage = Expected(Top, reader.page)
  BY <1>0, <1>1, <1>2, <1>3, ExpectedAbove, ZenonT(30)
<1>5. BasePage # NotFound
  BY <1>2, <1>3, Zenon DEF NotFound
<1>6. BasePage \in SUBSET (Timeline \X Lsn)
  BY <1>0, AnswerType
<1> QED
  BY <1>0, <1>4, <1>5, <1>6, AnswerKeeps
LEMMA ReadInvStep ==
    /\ PrTypeOK /\ Climbing /\ KeepInv /\ PinInv /\ TreeInv /\ ReadInv
    /\ PrTypeOK' /\ PinInv' /\ [PrNext]_prVars
    => ReadInv'
<1> SUFFICES ASSUME PrTypeOK, Climbing, KeepInv, PinInv, TreeInv, ReadInv,
                    PrTypeOK', PinInv', [PrNext]_prVars
             PROVE  ReadInv'
  OBVIOUS
<1>0. TlTypeOK'
  BY Zenon DEF PrTypeOK
<1>1. CASE TlNext /\ UNCHANGED reader
  BY <1>0, <1>1, ArrivalKeeps
<1>2. CASE \E t \in Read, p \in Block, l \in Valid : BeginRead(t, p, l)
  <2>1. PICK t \in Read, p \in Block, l \in Valid : BeginRead(t, p, l)
    BY <1>2
  <2>2. t \in Timeline
    BY <2>1, ZenonT(30) DEF BeginRead, PrTypeOK, TlTypeOK
  <2> QED
    BY <2>1, <2>2, BeginKeeps
<1>3. ASSUME Asked', reader'.settled = reader.settled,
             reader'.start = reader.start, reader # Idle, UNCHANGED tlVars
      PROVE  Asked
  BY <1>3, Zenon DEF Asked, tlVars, branchVars, repoVars
<1>4. ASSUME ReadOwn \/ ReadOnBase, Asked'
      PROVE  Asked
  <2>1. reader.phase \in {"own", "base"} /\ UNCHANGED tlVars
    BY <1>4, Zenon DEF ReadOwn, ReadOnBase
  <2>2. reader'.settled = reader.settled /\ reader'.start = reader.start
    <3>1. \E phase, path, found : Goes(phase, path, found)
      BY <1>4, Zenon DEF ReadOwn, ReadOnBase, Answered
    <3> QED
      BY <3>1 DEF Goes
  <2>3. reader # Idle
    BY <2>1, ReaderFacts
  <2> QED
    BY <1>3, <1>4, <2>1, <2>2, <2>3
<1>5. CASE ReadOwn \/ ReadOnBase
  BY <1>4, <1>5, ReadOwnKeeps, ReadOnBaseKeeps, ZenonT(30) DEF ReadInv
<1>6. CASE EndRead
  BY <1>6, Zenon DEF EndRead, ReadInv, Asked
<1>7. CASE UNCHANGED prVars
  BY <1>0, <1>7, ArrivalKeeps, Zenon DEF prVars
<1> QED
  BY <1>1, <1>2, <1>5, <1>6, <1>7 DEF PrNext

LEMMA ReadInvExact == PrTypeOK /\ ReadInv => ReadsExact
<1> SUFFICES ASSUME PrTypeOK, ReadInv, reader.phase = "done", reader.settled,
                    reader.start.lsn >= horizon[reader.start.tl], reader.start.tl \in whole
             PROVE  reader.found = Expected(reader.start, reader.page)
  BY Zenon DEF ReadsExact
<1>1. reader # Idle
  BY DEF Idle
<1>2. reader.start \in Level
  BY <1>1, Zenon DEF PrTypeOK
<1>3. reader.start.lsn \in Nat /\ horizon[reader.start.tl] \in Nat
  BY <1>2, BoundAssumption DEF PrTypeOK, TlTypeOK, Level, Lsn
<1>4. Asked
  BY <1>1, <1>3 DEF Asked
<1> QED
  BY <1>4, Zenon DEF ReadInv

(***************************************************************************)
(* Every page read of a whole branch, at an LSN its WAL had reached and    *)
(* not below its horizon, is the page the whole history makes, for every   *)
(* tree of timelines and whatever is ingested, branched or collected       *)
(* between the steps of the read (Timeline::get_page,                      *)
(* Repository::get_page_with_base).                                        *)
(***************************************************************************)
THEOREM ReadsAlwaysExact == PrSpec => []ReadsExact
<1>1. PrInit => PrTypeOK /\ Climbing /\ ReadInv
  <2> SUFFICES ASSUME PrInit PROVE PrTypeOK /\ Climbing /\ ReadInv
    OBVIOUS
  <2>1. TlTypeOK
    BY TlTypeInit DEF PrInit
  <2> QED
    BY <2>1, Zenon DEF PrInit, PrTypeOK, Climbing, ReadInv, Asked
<1>2. PrSpec => [](KeepInv /\ PinInv /\ TreeInv)
  BY ReadIsTenant, KeepAlways, PinAlways, TreeAlways, PTL
<1> QED
  BY <1>1, <1>2, PrTypeStep, ReadInvStep, ReadInvExact, PTL DEF PrSpec
=============================================================================
