-------------------------- MODULE SafekeeperProofs --------------------------
(***************************************************************************)
(* Proofs about a safekeeper group, for any number of members, terms,      *)
(* elections, runs and restarts: first its leadership, then the commit     *)
(* position and the logs.                                                  *)
(***************************************************************************)
EXTENDS Safekeeper, FiniteSetTheorems, WellFoundedInduction, TLAPS

\* Leaves that cite no prover may take their time: SMT first, then Zenon.
USE SMTT(30), Zenon
USE NodeAssumption, BoundAssumption, CandidateAssumption

-----------------------------------------------------------------------------
(* Leadership: Consensus. *)

(***************************************************************************)
(* What holds of grants in every life of every node: a counted vote, an    *)
(* answered grant and a leadership all trace back to votes really given.   *)
(***************************************************************************)
GrantInv ==
    /\ \A n \in Node : \A v \in votes[n] : <<v, term[n], n>> \in ballots
    /\ \A r \in rpcs : r.reply = "granted" => <<r.peer, r.term, r.cand>> \in ballots
    /\ ElectedByQuorum

(***************************************************************************)
(* What holds as long as no node loses its memory: a voter's term is never *)
(* below a vote it gave, and in its current term voted_for is that vote.   *)
(***************************************************************************)
VoteInv ==
    /\ \A b \in ballots : /\ b[2] <= term[b[1]]
                          /\ b[2] = term[b[1]] => voted_for[b[1]] = b[3]
    /\ OneVotePerTerm

\* The quorum is a natural number, and two of them exceed the group.
LEMMA QuorumIsMajority == Quorum \in Nat /\ Quorum + Quorum > Cardinality(Node)
<1>1. Cardinality(Node) \in Nat
  BY FS_CardinalityType
<1> QED
  BY <1>1 DEF Quorum

\* The fields of a request built by RpcOf.
LEMMA RpcOfType ==
    ASSUME TypeOK, NEW e \in elections, NEW p \in Node,
           NEW x \in {"none", "granted", "denied"}
    PROVE  RpcOf(e, p, x) \in Rpc
BY DEF TypeOK, RpcOf, Rpc, Election

\* Every step keeps every field in its range.
LEMMA TypeStep == TypeOK /\ [Next]_vars => TypeOK'
<1> SUFFICES ASSUME TypeOK, [Next]_vars PROVE TypeOK'
  OBVIOUS
<1>1. ASSUME NEW n \in Candidate, StartElection(n) PROVE TypeOK'
  BY <1>1 DEF TypeOK, StartElection, CountVotes, Role, Election
<1>2. ASSUME NEW e \in elections, NEW p \in Node, RequestVote(e, p) PROVE TypeOK'
  BY <1>2, RpcOfType DEF TypeOK, RequestVote, Election, nodeVars, historyVars
<1>3. ASSUME NEW r \in rpcs, HandleVote(r) PROVE TypeOK'
  BY <1>3 DEF TypeOK, HandleVote, VoteAfterObserve, Rpc, Role
<1>4. ASSUME NEW e \in elections, ReceiveGrant(e) PROVE TypeOK'
  BY <1>4 DEF TypeOK, ReceiveGrant, CountVotes, Resume, Election, Role
<1>5. ASSUME NEW e \in elections, ReceiveDenial(e) PROVE TypeOK'
  BY <1>5 DEF TypeOK, ReceiveDenial, Resume, Election, nodeVars, historyVars
<1>6. ASSUME NEW e \in elections, RequestFails(e) PROVE TypeOK'
  BY <1>6 DEF TypeOK, RequestFails, Resume, Election, nodeVars, historyVars
<1>7. ASSUME NEW e \in elections, FinishElection(e) PROVE TypeOK'
  BY <1>7 DEF TypeOK, FinishElection, nodeVars, historyVars
<1>8. ASSUME NEW n \in Node, Restart(n) PROVE TypeOK'
  BY <1>8 DEF TypeOK, Restart, Role, historyVars
<1>9. CASE UNCHANGED vars
  BY <1>9 DEF TypeOK, vars, nodeVars, historyVars
<1> QED
  BY <1>1, <1>2, <1>3, <1>4, <1>5, <1>6, <1>7, <1>8, <1>9 DEF Next, Step, ElectionStep

(***************************************************************************)
(* Every reachable state of a group, restarts included, is well typed.     *)
(***************************************************************************)
THEOREM TypeCorrect == Spec => []TypeOK
<1>1. Init => TypeOK
  BY DEF Init, TypeOK, Role
<1> QED
  BY <1>1, TypeStep, PTL DEF Spec
-----------------------------------------------------------------------------
\* Ballots are never withdrawn, so a quorum of voters stays one.
LEMMA VotersGrow ==
    ASSUME TypeOK, TypeOK', ballots \subseteq ballots', ElectedByQuorum
    PROVE  \A x \in elected : Cardinality(Voters(x[1], x[2])') >= Quorum
<1> SUFFICES ASSUME NEW x \in elected
             PROVE  Cardinality(Voters(x[1], x[2])') >= Quorum
  OBVIOUS
<1>1. /\ Voters(x[1], x[2]) \subseteq Voters(x[1], x[2])'
      /\ Voters(x[1], x[2])' \subseteq Node
  BY DEF Voters
<1>2. /\ IsFiniteSet(Voters(x[1], x[2])')
      /\ Cardinality(Voters(x[1], x[2])) <= Cardinality(Voters(x[1], x[2])')
  BY <1>1, FS_Subset
<1>3. /\ Cardinality(Voters(x[1], x[2])) \in Nat
      /\ Cardinality(Voters(x[1], x[2])') \in Nat
  BY <1>1, <1>2, FS_Subset, FS_CardinalityType
<1> QED
  BY <1>2, <1>3, QuorumIsMajority DEF ElectedByQuorum

\* A candidate whose counted votes are all real ballots of its term is
\* elected by a quorum as soon as maybe_become_leader says so.
LEMMA CountedQuorum ==
    ASSUME NEW n \in Node, NEW t \in Nat, NEW held \in SUBSET Node,
           \A v \in held : <<v, t, n>> \in ballots', BecomesLeader(held)
    PROVE  Cardinality(Voters(n, t)') >= Quorum
<1>1. held \subseteq Voters(n, t)' /\ Voters(n, t)' \subseteq Node
  BY DEF Voters
<1>2. /\ IsFiniteSet(Voters(n, t)')
      /\ IsFiniteSet(held)
      /\ Cardinality(held) <= Cardinality(Voters(n, t)')
  BY <1>1, FS_Subset
<1>3. Cardinality(held) \in Nat /\ Cardinality(Voters(n, t)') \in Nat
  BY <1>2, FS_CardinalityType
<1> QED
  BY <1>2, <1>3, QuorumIsMajority DEF BecomesLeader

\* GrantInv is preserved when no vote is counted and no leader made.
LEMMA GrantFrame ==
    ASSUME TypeOK, TypeOK', GrantInv, ballots \subseteq ballots', elected' = elected,
           \A n \in Node : votes'[n] \in {votes[n], {}} /\ (votes'[n] # {} => term'[n] = term[n]),
           \A r \in rpcs' : r.reply = "granted" =>
                r \in rpcs \/ <<r.peer, r.term, r.cand>> \in ballots'
    PROVE  GrantInv'
<1>1. \A x \in elected' : Cardinality(Voters(x[1], x[2])') >= Quorum
  BY VotersGrow DEF GrantInv
<1>2. ElectedByQuorum'
  BY <1>1 DEF ElectedByQuorum, Quorum
<1>3. \A n \in Node : \A v \in votes'[n] : <<v, term'[n], n>> \in ballots'
  BY DEF GrantInv, TypeOK
<1>4. \A r \in rpcs' : r.reply = "granted" => <<r.peer, r.term, r.cand>> \in ballots'
  BY DEF GrantInv
<1> QED
  BY <1>2, <1>3, <1>4 DEF GrantInv

\* GrantInv is preserved by counting votes that are real.
LEMMA GrantCount ==
    ASSUME TypeOK, TypeOK', GrantInv, ballots \subseteq ballots', rpcs' \subseteq rpcs,
           NEW n \in Node, NEW t \in Nat, NEW held \in SUBSET Node,
           CountVotes(n, t, held), term'[n] = t,
           \A m \in Node \ {n} : term'[m] = term[m],
           \A v \in held : <<v, t, n>> \in ballots'
    PROVE  GrantInv'
<1>2. \A x \in elected : Cardinality(Voters(x[1], x[2])') >= Quorum
  BY VotersGrow DEF GrantInv
<1>3. BecomesLeader(held) => Cardinality(Voters(n, t)') >= Quorum
  BY CountedQuorum
<1>4. ASSUME NEW x \in elected' PROVE Cardinality(Voters(x[1], x[2])') >= Quorum
  <2>1. CASE x \in elected
    BY <2>1, <1>2
  <2>2. CASE x \notin elected
    <3>1. BecomesLeader(held) /\ x = <<n, t>>
      BY <2>2 DEF CountVotes
    <3> QED
      BY <3>1, <1>3
  <2> QED
    BY <2>1, <2>2
<1>5. ElectedByQuorum'
  BY <1>4 DEF ElectedByQuorum, Quorum
<1>6. \A m \in Node : \A v \in votes'[m] : <<v, term'[m], m>> \in ballots'
  BY DEF GrantInv, CountVotes, TypeOK
<1>7. \A r \in rpcs' : r.reply = "granted" => <<r.peer, r.term, r.cand>> \in ballots'
  BY DEF GrantInv
<1> QED
  BY <1>5, <1>6, <1>7 DEF GrantInv

LEMMA GrantStep == TypeOK /\ GrantInv /\ [Next]_vars => GrantInv'
<1> SUFFICES ASSUME TypeOK, GrantInv, [Next]_vars, TypeOK' PROVE GrantInv'
  BY TypeStep
<1>1. ASSUME NEW n \in Candidate, StartElection(n) PROVE GrantInv'
  <2>1. term'[n] = term[n] + 1 /\ \A m \in Node \ {n} : term'[m] = term[m]
    BY <1>1 DEF TypeOK, StartElection
  <2> QED
    BY <1>1, <2>1, GrantCount DEF StartElection, TypeOK
<1>2. ASSUME NEW e \in elections, NEW p \in Node, RequestVote(e, p) PROVE GrantInv'
  BY <1>2, GrantFrame DEF RequestVote, RpcOf, nodeVars, historyVars
<1>3. ASSUME NEW r \in rpcs, HandleVote(r) PROVE GrantInv'
  <2>1. r.peer \in Node /\ r.term \in Nat
    BY DEF TypeOK, Rpc
  <2>2. \A n \in Node : /\ votes'[n] \in {votes[n], {}}
                        /\ votes'[n] # {} => term'[n] = term[n]
    BY <1>3, <2>1 DEF TypeOK, HandleVote
  <2>3. \A q \in rpcs' : q.reply = "granted" =>
            q \in rpcs \/ <<q.peer, q.term, q.cand>> \in ballots'
    BY <1>3 DEF TypeOK, HandleVote, Rpc
  <2> QED
    BY <1>3, <2>2, <2>3, GrantFrame DEF HandleVote
<1>4. ASSUME NEW e \in elections, ReceiveGrant(e) PROVE GrantInv'
  <2>1. e.cand \in Node /\ e.at \in Node
    BY <1>4 DEF TypeOK, Election, ReceiveGrant
  <2>2. <<e.at, e.term, e.cand>> \in ballots
    BY <1>4 DEF ReceiveGrant, RpcOf, GrantInv
  <2>3. CASE StillCandidate(e)
    <3> DEFINE held == votes[e.cand] \cup {e.at}
    <3>1. CountVotes(e.cand, term[e.cand], held) /\ term[e.cand] \in Nat
      BY <1>4, <2>1, <2>3 DEF ReceiveGrant, TypeOK
    <3>2. held \in SUBSET Node
      BY <2>1 DEF TypeOK
    <3>3. \A v \in held : <<v, term[e.cand], e.cand>> \in ballots'
      BY <1>4, <2>1, <2>2, <2>3 DEF ReceiveGrant, StillCandidate, GrantInv
    <3>4. /\ ballots \subseteq ballots'
          /\ rpcs' \subseteq rpcs
          /\ \A m \in Node : term'[m] = term[m]
      BY <1>4 DEF ReceiveGrant
    <3> QED
      BY <2>1, <3>1, <3>2, <3>3, <3>4, GrantCount
  <2>4. CASE ~ StillCandidate(e)
    BY <1>4, <2>4, GrantFrame DEF ReceiveGrant
  <2> QED
    BY <2>3, <2>4
<1>5. ASSUME NEW e \in elections, ReceiveDenial(e) PROVE GrantInv'
  BY <1>5, GrantFrame DEF ReceiveDenial, nodeVars, historyVars
<1>6. ASSUME NEW e \in elections, RequestFails(e) PROVE GrantInv'
  BY <1>6, GrantFrame DEF RequestFails, nodeVars, historyVars
<1>7. ASSUME NEW e \in elections, FinishElection(e) PROVE GrantInv'
  BY <1>7, GrantFrame DEF FinishElection, nodeVars, historyVars
<1>8. ASSUME NEW n \in Node, Restart(n) PROVE GrantInv'
  <2>1. \A m \in Node : /\ votes'[m] \in {votes[m], {}}
                        /\ votes'[m] # {} => term'[m] = term[m]
    BY <1>8 DEF TypeOK, Restart
  <2> QED
    BY <1>8, <2>1, GrantFrame DEF Restart, historyVars
<1>9. CASE UNCHANGED vars
  BY <1>9, GrantFrame DEF vars, nodeVars, historyVars
<1> QED
  BY <1>1, <1>2, <1>3, <1>4, <1>5, <1>6, <1>7, <1>8, <1>9 DEF Next, Step, ElectionStep

(***************************************************************************)
(* Every leadership ever assumed rests on votes a majority really gave for *)
(* that term, however many late answers and restarts there were.           *)
(***************************************************************************)
THEOREM ElectedByQuorumAlways == Spec => []ElectedByQuorum
<1>1. Init => TypeOK /\ GrantInv
  BY DEF Init, TypeOK, Role, GrantInv, ElectedByQuorum
<1>2. TypeOK /\ GrantInv /\ [Next]_vars => TypeOK' /\ GrantInv'
  BY TypeStep, GrantStep
<1>3. GrantInv => ElectedByQuorum
  BY DEF GrantInv
<1> QED
  BY <1>1, <1>2, <1>3, PTL DEF Spec
-----------------------------------------------------------------------------
\* VoteInv is preserved when no vote is given and no term or vote changes.
LEMMA VoteFrame ==
    ASSUME VoteInv, UNCHANGED <<term, voted_for, ballots>>
    PROVE  VoteInv'
BY DEF VoteInv, OneVotePerTerm

\* VoteInv is preserved when n gives its vote in term t to c, provided t is
\* new to n or the vote repeats the one it gave.
LEMMA VoteGiven ==
    ASSUME TypeOK, VoteInv, NEW n \in Node, NEW t \in Nat, NEW c \in Node,
           t > term[n] \/ (t = term[n] /\ voted_for[n] \in {None, c}),
           term' = [term EXCEPT ![n] = t],
           voted_for' = [voted_for EXCEPT ![n] = c],
           ballots' = ballots \cup {<<n, t, c>>}
    PROVE  VoteInv'
<1>1. \A b \in ballots : b[1] \in Node /\ b[2] \in Nat /\ b[3] \in Node
  BY DEF TypeOK
<1>2. \A b \in ballots : b[1] = n /\ b[2] = t => b[3] = c
  BY <1>1 DEF VoteInv, TypeOK
<1>3. \A b \in ballots' : /\ b[2] <= term'[b[1]]
                          /\ b[2] = term'[b[1]] => voted_for'[b[1]] = b[3]
  BY <1>1, <1>2 DEF VoteInv, TypeOK
<1>4. OneVotePerTerm'
  BY <1>2 DEF VoteInv, OneVotePerTerm
<1> QED
  BY <1>3, <1>4 DEF VoteInv

\* VoteInv is preserved when n adopts a higher term without voting in it.
LEMMA VoteObserved ==
    ASSUME TypeOK, VoteInv, NEW n \in Node, NEW t \in Nat, t > term[n],
           term' = [term EXCEPT ![n] = t], ballots' = ballots,
           \A m \in Node \ {n} : voted_for'[m] = voted_for[m]
    PROVE  VoteInv'
<1>1. \A b \in ballots : b[1] \in Node /\ b[2] \in Nat /\ b[3] \in Node
  BY DEF TypeOK
<1>2. \A b \in ballots : /\ b[2] <= term'[b[1]]
                         /\ b[2] = term'[b[1]] => voted_for'[b[1]] = b[3]
  BY <1>1 DEF VoteInv, TypeOK
<1> QED
  BY <1>2 DEF VoteInv, OneVotePerTerm

LEMMA VoteStep == TypeOK /\ VoteInv /\ [Step]_vars => VoteInv'
<1> SUFFICES ASSUME TypeOK, VoteInv, [Step]_vars PROVE VoteInv'
  OBVIOUS
<1>1. ASSUME NEW n \in Candidate, StartElection(n) PROVE VoteInv'
  <2>1. n \in Node /\ term[n] \in Nat
    BY DEF TypeOK
  <2>2. /\ term' = [term EXCEPT ![n] = term[n] + 1]
        /\ voted_for' = [voted_for EXCEPT ![n] = n]
        /\ ballots' = ballots \cup {<<n, term[n] + 1, n>>}
    BY <1>1 DEF StartElection
  <2>3. term[n] + 1 \in Nat /\ term[n] + 1 > term[n]
    BY <2>1
  <2> QED
    BY <2>1, <2>2, <2>3, VoteGiven, Zenon
<1>2. ASSUME NEW e \in elections, ElectionStep(e) PROVE VoteInv'
  BY <1>2, VoteFrame DEF ElectionStep, RequestVote, ReceiveGrant, ReceiveDenial,
                         RequestFails, FinishElection, nodeVars, historyVars
<1>3. ASSUME NEW r \in rpcs, HandleVote(r) PROVE VoteInv'
  <2> DEFINE n == r.peer
  <2>1. n \in Node /\ r.term \in Nat /\ r.cand \in Node /\ term[n] \in Nat
    BY DEF TypeOK, Rpc
  <2>2. CASE Grants(n, r.term, r.cand)
    <3>1. r.term > term[n] \/ (r.term = term[n] /\ voted_for[n] \in {None, r.cand})
      BY <2>1, <2>2 DEF Grants, VoteAfterObserve, Newer
    <3>2. /\ term' = [term EXCEPT ![n] = r.term]
          /\ voted_for' = [voted_for EXCEPT ![n] = r.cand]
          /\ ballots' = ballots \cup {<<n, r.term, r.cand>>}
      BY <1>3, <2>1, <2>2, <3>1, Zenon DEF HandleVote, Newer, TypeOK
    <3> QED
      BY <2>1, <3>1, <3>2, VoteGiven, Zenon
  <2>3. CASE ~ Grants(n, r.term, r.cand) /\ Newer(n, r.term)
    <3>1. /\ term' = [term EXCEPT ![n] = r.term]
          /\ ballots' = ballots
          /\ \A m \in Node \ {n} : voted_for'[m] = voted_for[m]
      BY <1>3, <2>3 DEF HandleVote, TypeOK
    <3> QED
      BY <2>1, <2>3, <3>1, VoteObserved, Zenon DEF Newer
  <2>4. CASE ~ Grants(n, r.term, r.cand) /\ ~ Newer(n, r.term)
    <3>1. UNCHANGED <<term, voted_for, ballots>>
      BY <1>3, <2>1, <2>4 DEF HandleVote, VoteAfterObserve, TypeOK
    <3> QED
      BY <3>1, VoteFrame
  <2> QED
    BY <2>2, <2>3, <2>4
<1>4. CASE UNCHANGED vars
  BY <1>4, VoteFrame DEF vars, nodeVars, historyVars
<1> QED
  BY <1>1, <1>2, <1>3, <1>4 DEF Step

\* Two quorums of voters of one term share a voter, and it voted once.
LEMMA OneLeaderPerTerm == TypeOK /\ OneVotePerTerm /\ ElectedByQuorum => ElectionSafety
<1> SUFFICES ASSUME TypeOK, OneVotePerTerm, ElectedByQuorum,
                    NEW a \in elected, NEW b \in elected, a[2] = b[2]
             PROVE  a[1] = b[1]
  BY DEF ElectionSafety
<1> DEFINE A == Voters(a[1], a[2])
           B == Voters(b[1], b[2])
<1>1. A \subseteq Node /\ B \subseteq Node
  BY DEF Voters
<1>2. IsFiniteSet(A) /\ IsFiniteSet(B)
  BY <1>1, FS_Subset
<1>3. Cardinality(A) \in Nat /\ Cardinality(B) \in Nat /\ Cardinality(Node) \in Nat
  BY <1>2, FS_CardinalityType
<1>4. Cardinality(A) >= Quorum /\ Cardinality(B) >= Quorum
  BY DEF ElectedByQuorum
<1>5. Cardinality(A) + Cardinality(B) > Cardinality(Node)
  BY <1>3, <1>4, QuorumIsMajority
<1>6. A \cap B # {}
  BY <1>1, <1>5, FS_MajoritiesIntersect
<1>7. PICK v \in Node : <<v, a[2], a[1]>> \in ballots /\ <<v, b[2], b[1]>> \in ballots
  BY <1>6 DEF Voters
<1> QED
  BY <1>7 DEF OneVotePerTerm

(***************************************************************************)
(* As long as no member restarts, no two nodes ever lead the same term and *)
(* no member votes twice in one: the group elects a single proposer.       *)
(***************************************************************************)
THEOREM ElectionSafetyAlways == CrashFreeSpec => [](ElectionSafety /\ OneVotePerTerm)
<1>1. Init => TypeOK /\ GrantInv /\ VoteInv
  BY DEF Init, TypeOK, Role, GrantInv, ElectedByQuorum, VoteInv, OneVotePerTerm
<1>2. TypeOK /\ GrantInv /\ VoteInv /\ [Step]_vars => TypeOK' /\ GrantInv' /\ VoteInv'
  BY TypeStep, GrantStep, VoteStep DEF Next
<1>3. TypeOK /\ GrantInv /\ VoteInv => ElectionSafety /\ OneVotePerTerm
  BY OneLeaderPerTerm DEF GrantInv, VoteInv
<1> QED
  BY <1>1, <1>2, <1>3, PTL DEF CrashFreeSpec

(***************************************************************************)
(* As long as no member restarts, no member gives two votes in one term,   *)
(* whatever order requests and answers come in (handle_vote).              *)
(***************************************************************************)
THEOREM OneVotePerTermAlways == CrashFreeSpec => []OneVotePerTerm
BY ElectionSafetyAlways, PTL

(***************************************************************************)
(* Terms never go back, and within a term neither a vote nor a leadership  *)
(* is withdrawn, as long as the node does not restart.                     *)
(***************************************************************************)
THEOREM StableWithinTermAlways == CrashFreeSpec => StableWithinTerm
<1> DEFINE Stable == \A n \in Node :
                /\ term'[n] >= term[n]
                /\ term'[n] = term[n] =>
                      /\ voted_for[n] # None => voted_for'[n] = voted_for[n]
                      /\ role[n] = "Leader" => role'[n] = "Leader"
<1>1. TypeOK /\ [Step]_vars => [Stable]_vars
  <2> SUFFICES ASSUME TypeOK, Step PROVE Stable
    OBVIOUS
  <2>1. ASSUME NEW n \in Candidate, StartElection(n) PROVE Stable
    BY <2>1 DEF TypeOK, StartElection, CountVotes
  <2>2. ASSUME NEW r \in rpcs, HandleVote(r) PROVE Stable
    <3>1. r.peer \in Node /\ r.term \in Nat
      BY DEF TypeOK, Rpc
    <3>2. \A n \in Node \ {r.peer} : /\ term'[n] = term[n]
                                      /\ voted_for'[n] = voted_for[n]
                                      /\ role'[n] = role[n]
      BY <2>2, <3>1 DEF TypeOK, HandleVote
    <3>3. CASE Newer(r.peer, r.term)
      BY <2>2, <3>1, <3>2, <3>3 DEF TypeOK, HandleVote, Newer
    <3>4. CASE ~ Newer(r.peer, r.term)
      <4>1. term'[r.peer] = term[r.peer] /\ role'[r.peer] = role[r.peer]
        BY <2>2, <3>1, <3>4 DEF TypeOK, HandleVote
      <4>2. voted_for[r.peer] # None => voted_for'[r.peer] = voted_for[r.peer]
        BY <2>2, <3>1, <3>4 DEF TypeOK, HandleVote, Grants, VoteAfterObserve
      <4> QED
        BY <3>2, <4>1, <4>2 DEF TypeOK
    <3> QED
      BY <3>3, <3>4
  <2>3. ASSUME NEW e \in elections, ReceiveGrant(e) PROVE Stable
    BY <2>3 DEF TypeOK, ReceiveGrant, StillCandidate, CountVotes
  <2>4. ASSUME NEW e \in elections,
               (\E p \in Node : RequestVote(e, p)) \/ ReceiveDenial(e)
                 \/ RequestFails(e) \/ FinishElection(e)
        PROVE  Stable
    BY <2>4 DEF TypeOK, RequestVote, ReceiveDenial, RequestFails, FinishElection, nodeVars
  <2> QED
    BY <2>1, <2>2, <2>3, <2>4 DEF Step, ElectionStep
<1>2. Init => TypeOK
  BY DEF Init, TypeOK, Role
<1>3. TypeOK /\ [Step]_vars => TypeOK'
  BY TypeStep DEF Next
<1> QED
  BY <1>1, <1>2, <1>3, PTL DEF CrashFreeSpec, StableWithinTerm

-----------------------------------------------------------------------------
(* The commit position and the logs: Safekeeper. *)

USE IngestAssumption, LsnAssumption

\* A group has a quorum of members, and a quorum is not empty.
LEMMA QuorumFits == 0 < Quorum /\ Quorum <= Cardinality(Node)
<1>1. Cardinality(Node) \in Nat /\ Cardinality(Node) # 0
  BY FS_CardinalityType, FS_EmptySet
<1> QED
  BY <1>1 DEF Quorum

\* A non-empty set of positions has a largest one.
LEMMA LargestLsn ==
    ASSUME NEW S \in SUBSET Lsn, S # {}
    PROVE  \E k \in S : \A l \in S : l <= k
<1> DEFINE T == {MaxLsn - l : l \in S}
<1>1. T \subseteq Nat /\ T # {}
  <2>1. \A l \in S : MaxLsn - l \in Nat
    BY DEF Lsn
  <2>2. PICK l \in S : TRUE
    OBVIOUS
  <2>3. MaxLsn - l \in T
    OBVIOUS
  <2> QED
    BY <2>1, <2>3
<1>2. PICK x \in T : \A y \in T : ~ (<<y, x>> \in OpToRel(<, Nat))
  BY <1>1, WFMin, NatLessThanWellFounded, Zenon
<1>3. \A y \in T : ~ (y < x)
  BY <1>1, <1>2, Zenon DEF OpToRel
<1>4. PICK k \in S : x = MaxLsn - k
  BY <1>2, Zenon
<1>5. \A l \in S : ~ (MaxLsn - l < MaxLsn - k)
  BY <1>3, <1>4
<1> QED
  BY <1>5 DEF Lsn

\* The members that have flushed at least l, according to f.
Reached(f, l) == {m \in Node : f[m] >= l}

\* Sets of members are finite, and larger ones have at least as many members.
LEMMA MembersCount ==
    ASSUME NEW A \in SUBSET Node, NEW B \in SUBSET A
    PROVE  /\ Cardinality(A) \in Nat
           /\ Cardinality(B) \in Nat
           /\ Cardinality(B) <= Cardinality(A)
<1>1. IsFiniteSet(A) /\ IsFiniteSet(B)
  BY FS_Subset
<1> QED
  BY <1>1, FS_Subset, FS_CardinalityType

\* Among the positions of a group, the quorum-th largest exists.
LEMMA QuorumthLargest ==
    ASSUME NEW f \in [Node -> Lsn]
    PROVE  \E l \in {f[m] : m \in Node} :
              /\ Cardinality({m \in Node : f[m] >= l}) >= Quorum
              /\ Cardinality({m \in Node : f[m] > l}) < Quorum
<1> DEFINE S == {l \in Lsn : Cardinality(Reached(f, l)) >= Quorum}
<1>1. 0 \in S
  <2>1. Reached(f, 0) = Node
    BY DEF Reached, Lsn
  <2> QED
    BY <2>1, QuorumFits, QuorumIsMajority, FS_CardinalityType DEF Lsn
<1>2. PICK k \in S : \A l \in S : l <= k
  BY <1>1, LargestLsn, Zenon
<1>3. Cardinality(Reached(f, k)) >= Quorum
  BY <1>2
<1>4. Cardinality({m \in Node : f[m] > k}) < Quorum
  <2>1. CASE k = MaxLsn
    <3>1. {m \in Node : f[m] > k} = {}
      BY <2>1 DEF Lsn
    <3> QED
      BY <3>1, FS_EmptySet, QuorumFits
  <2>2. CASE k # MaxLsn
    <3>1. k + 1 \in Lsn /\ ~ (k + 1 \in S)
      BY <1>2, <2>2 DEF Lsn
    <3>2. {m \in Node : f[m] > k} = Reached(f, k + 1)
      BY <1>2 DEF Reached, Lsn
    <3>3. Cardinality(Reached(f, k + 1)) \in Nat
      BY MembersCount DEF Reached
    <3> QED
      BY <3>1, <3>2, <3>3, QuorumIsMajority
  <2> QED
    BY <2>1, <2>2
<1>5. k \in {f[m] : m \in Node}
  <2>1. {m \in Node : f[m] > k} # Reached(f, k)
    BY <1>3, <1>4, QuorumIsMajority, MembersCount DEF Reached
  <2> QED
    BY <2>1, <1>2 DEF Reached, Lsn
<1> QED
  BY <1>3, <1>4, <1>5, Zenon DEF Reached

\* commit_lsn is the position of some member, and a quorum has reached it.
LEMMA CommitReached ==
    ASSUME NEW n \in Node, flush[n] \in [Node -> Lsn]
    PROVE  /\ \E m \in Node : CommitLsn(n) = flush[n][m]
           /\ CommitLsn(n) \in Lsn
           /\ Cardinality(Reached(flush[n], CommitLsn(n))) >= Quorum
BY QuorumthLargest, Zenon DEF CommitLsn, Reached
-----------------------------------------------------------------------------
\* record_flush keeps positions in range.
LEMMA RecordFlushType ==
    ASSUME NEW f \in [Node -> Lsn], NEW ms \in SUBSET Node, NEW lsn \in Lsn
    PROVE  RecordFlush(f, ms, lsn) \in [Node -> Lsn]
BY DEF RecordFlush

\* The end of a run is a position of the log.
LEMMA RunEnd == \A start \in Start : start \in Lsn /\ start + 1 \in Lsn
BY DEF Start, Lsn

\* A run starts at a position of the log, and its identity is not the empty byte.
LEMMA RunIds ==
    \A start \in Start, id \in AppendId : start \in Lsn /\ start \in Nat \ {0} /\ id # 0
BY RunEnd DEF Start, AppendId

\* A step of the elections keeps the consensus state well typed.
LEMMA ConsensusStep ==
    ASSUME TypeOK, Step \/ (\E n \in Node : Restart(n)) \/ UNCHANGED vars
    PROVE  TypeOK'
BY TypeStep DEF Next

\* Storing a run keeps the stores well typed.
LEMMA StoreRunType ==
    ASSUME SkTypeOK, NEW n \in Node, NEW start \in Start, NEW id \in AppendId,
           StoreRun(n, start, id)
    PROVE  /\ start_lsn' \in [Node -> Lsn]
           /\ flush_lsn' \in [Node -> Lsn]
           /\ wal' \in [Node -> [Lsn -> AppendId \cup {0}]]
BY RunEnd DEF SkTypeOK, StoreRun

\* Every step of the group keeps every field in its range.
LEMMA SkTypeStep == SkTypeOK /\ [SkNext]_skVars => SkTypeOK'
<1> SUFFICES ASSUME SkTypeOK, [SkNext]_skVars PROVE SkTypeOK'
  OBVIOUS
<1>0. TypeOK /\ (UNCHANGED vars => TypeOK')
  BY ConsensusStep DEF SkTypeOK
<1>1. CASE Step /\ UNCHANGED replVars
  BY <1>0, <1>1, ConsensusStep DEF SkTypeOK, replVars, walVars, serviceVars
<1>2. ASSUME NEW n \in Ingest, NEW t \in 0..MaxTerm, NEW start \in Start,
             ReceiveAppend(n, t, start)
      PROVE  SkTypeOK'
  BY <1>0, <1>2, BoundAssumption DEF SkTypeOK, ReceiveAppend, AppendCall, AppendId, walVars
<1>3. ASSUME NEW a \in appends, CheckTerm(a) PROVE SkTypeOK'
  BY <1>0, <1>3, Zenon DEF SkTypeOK, CheckTerm, Update, AppendCall, walVars
<1>4. ASSUME NEW a \in appends, StoreLocally(a) PROVE SkTypeOK'
  BY <1>0, <1>4, StoreRunType, Zenon DEF SkTypeOK, StoreLocally, Update, AppendCall, walVars
<1>5. ASSUME NEW a \in appends, RecordOwn(a) PROVE SkTypeOK'
  <2>1. a.node \in Node /\ a.start + 1 \in Lsn
    BY RunEnd DEF SkTypeOK, AppendCall
  <2>2. flush' \in [Node -> [Node -> Lsn]]
    <3>1. flush \in [Node -> [Node -> Lsn]]
      BY DEF SkTypeOK
    <3>2. RecordFlush(flush[a.node], {a.node}, a.start + 1) \in [Node -> Lsn]
      BY <2>1, <3>1, RecordFlushType, Zenon
    <3> QED
      BY <1>5, <2>1, <3>1, <3>2, Zenon DEF RecordOwn
  <2>3. appends' \subseteq AppendCall
    BY <1>5, Zenon DEF SkTypeOK, RecordOwn, Update, AppendCall
  <2> QED
    BY <1>0, <1>5, <2>2, <2>3, Zenon DEF SkTypeOK, RecordOwn, walVars
<1>6. ASSUME NEW a \in appends, BeginReplicate(a) PROVE SkTypeOK'
  BY <1>0, <1>6, ZenonT(30) DEF SkTypeOK, BeginReplicate, Update, AppendCall, walVars
<1>7. ASSUME NEW a \in appends, NEW p \in Node, SendReplicate(a, p) PROVE SkTypeOK'
  BY <1>0, <1>7 DEF SkTypeOK, SendReplicate, Update, Turn, AppendCall, Replicate, walVars
<1>8. ASSUME NEW a \in appends, NEW r \in reps, ReceiveAnswer(a, r) PROVE SkTypeOK'
  <2>1. a \in AppendCall /\ r.peer \in Node /\ r.peer = a.at
    BY <1>8 DEF SkTypeOK, ReceiveAnswer, Replicate
  <2>2. Turn(a, a.at, None, IF r.phase = "acked" THEN {a.at} ELSE {}) \in AppendCall
    BY <2>1 DEF Turn, AppendCall
  <2>3. appends' \subseteq AppendCall /\ reps' \subseteq Replicate
    BY <1>8, <2>2 DEF SkTypeOK, ReceiveAnswer, Update
  <2> QED
    BY <1>0, <1>8, <2>3 DEF SkTypeOK, ReceiveAnswer, walVars
<1>9. ASSUME NEW a \in appends, FoldAcks(a) PROVE SkTypeOK'
  BY <1>0, <1>9, RecordFlushType, RunEnd, Zenon DEF SkTypeOK, FoldAcks, AppendCall, walVars
<1>10. ASSUME NEW a \in appends, ConnectionFails(a) PROVE SkTypeOK'
  BY <1>0, <1>10 DEF SkTypeOK, ConnectionFails, Update, Turn, AppendCall, walVars
<1>11. ASSUME NEW r \in reps, ReplicateCheck(r) PROVE SkTypeOK'
  BY <1>0, <1>11, Zenon DEF SkTypeOK, ReplicateCheck, Answer, Replicate, walVars
<1>12. ASSUME NEW r \in reps, ReplicateStore(r) PROVE SkTypeOK'
  BY <1>0, <1>12, StoreRunType, Zenon DEF SkTypeOK, ReplicateStore, Answer, Replicate, walVars
<1>13. ASSUME NEW r \in reps, ReplicateRecord(r) PROVE SkTypeOK'
  <2>1. r.peer \in Node /\ r.start + 1 \in Lsn
    BY RunEnd DEF SkTypeOK, Replicate
  <2>2. flush' \in [Node -> [Node -> Lsn]]
    <3>1. flush \in [Node -> [Node -> Lsn]]
      BY DEF SkTypeOK
    <3>2. RecordFlush(flush[r.peer], {r.peer}, r.start + 1) \in [Node -> Lsn]
      BY <2>1, <3>1, RecordFlushType, Zenon
    <3> QED
      BY <1>13, <2>1, <3>1, <3>2, Zenon DEF ReplicateRecord
  <2>3. reps' \subseteq Replicate
    BY <1>13, Zenon DEF SkTypeOK, ReplicateRecord, Answer, Replicate
  <2> QED
    BY <1>0, <1>13, <2>2, <2>3, Zenon DEF SkTypeOK, ReplicateRecord, walVars
<1>14. ASSUME NEW n \in Node, NEW cursor \in Lsn, HandleRead(n, cursor) PROVE SkTypeOK'
  <2> DEFINE from == IF cursor > start_lsn[n] THEN cursor ELSE start_lsn[n]
  <2>1. CommitLsn(n) \in Lsn /\ from \in Lsn
    BY CommitReached DEF SkTypeOK
  <2>2. \A l \in from..(CommitLsn(n) - 1) : l \in Lsn /\ wal[n][l] \in AppendId \cup {0}
    BY <2>1 DEF SkTypeOK, Lsn
  <2>3. served' \subseteq Lsn \X (AppendId \cup {0})
    BY <1>14, <2>2 DEF HandleRead, SkTypeOK
  <2> QED
    BY <1>0, <1>14, <2>3 DEF SkTypeOK, HandleRead, walVars, serviceVars
<1>15. ASSUME NEW n \in Node, SkRestart(n) PROVE SkTypeOK'
  BY <1>0, <1>15, ConsensusStep DEF SkTypeOK, SkRestart, walVars, Lsn
<1>16. CASE UNCHANGED skVars
  BY <1>0, <1>16 DEF SkTypeOK, skVars, replVars, walVars, serviceVars
<1> QED
  BY <1>1, <1>2, <1>3, <1>4, <1>5, <1>6, <1>7, <1>8, <1>9, <1>10, <1>11, <1>12, <1>13,
     <1>14, <1>15, <1>16 DEF SkNext, AppendStep, ReplicateStep

(***************************************************************************)
(* Every reachable state of a group is well typed.                         *)
(***************************************************************************)
THEOREM SkTypeCorrect == SkSpec => []SkTypeOK
<1>1. SkInit => SkTypeOK
  BY DEF SkInit, SkTypeOK, Init, TypeOK, Role, Lsn
<1> QED
  BY <1>1, SkTypeStep, PTL DEF SkSpec
-----------------------------------------------------------------------------
(***************************************************************************)
(* An append and the requests it sends out are told apart by its id.       *)
(***************************************************************************)
IdInv ==
    /\ \A a \in appends : a.id <= sent
    /\ \A r \in reps : r.id <= sent
    /\ \A a, b \in appends : a.id = b.id => a = b
    /\ \A a \in appends, r \in reps : r.id = a.id => r.start = a.start

\* What a call and a request in progress rely on.
AppendFlushed(a) ==
    /\ a.phase \in {"stored", "recorded", "sending"} => a.start + 1 <= flush_lsn[a.node]
    /\ a.phase \in {"recorded", "sending"} => a.start + 1 <= flush[a.node][a.node]
    /\ \A p \in a.acks : a.start + 1 <= flush_lsn[p]
ReplicateFlushed(r) == r.phase \in {"stored", "acked"} => r.start + 1 <= flush_lsn[r.peer]

(***************************************************************************)
(* What is known of a member never exceeds what it has flushed, nor what   *)
(* the knowing node has flushed itself, and the calls in progress agree    *)
(* with the stores they have written to.                                   *)
(***************************************************************************)
FlushInv ==
    /\ \A n, m \in Node : flush[n][m] <= flush_lsn[m] /\ flush[n][m] <= flush[n][n]
    /\ \A a \in appends : AppendFlushed(a)
    /\ \A r \in reps : ReplicateFlushed(r)

\* A call that moves on keeps what identifies it.
LEMMA SameCall ==
    ASSUME NEW a \in AppendCall, NEW b,
           \/ \E x \in {"checked", "stored", "recorded", "sending"} : b = [a EXCEPT !.phase = x]
           \/ \E p, at, more : b = Turn(a, p, at, more)
    PROVE  b.id = a.id /\ b.start = a.start /\ b.node = a.node
BY DEF AppendCall, Turn

\* Ids stay unique when a call moves on or ends and requests come and go.
LEMMA IdFrame ==
    ASSUME SkTypeOK, IdInv, sent' = sent, NEW a \in appends,
           \/ appends' \subseteq appends
           \/ \E b : b.id = a.id /\ b.start = a.start /\ Update(a, b),
           \A q \in reps' : \/ \E r \in reps : q.id = r.id /\ q.start = r.start
                            \/ q.id = a.id /\ q.start = a.start
    PROVE  IdInv'
<1>1. CASE appends' \subseteq appends
  BY <1>1 DEF IdInv
<1>2. ASSUME NEW b, b.id = a.id, b.start = a.start, Update(a, b) PROVE IdInv'
  <2>1. \A c \in appends' : c = b \/ (c \in appends /\ c # a)
    BY <1>2 DEF Update
  <2>2. \A c \in appends' : c = b \/ c.id # a.id
    BY <2>1 DEF IdInv
  <2>3. \A c, d \in appends' : c.id = d.id => c = d
    BY <1>2, <2>1, <2>2 DEF IdInv
  <2>4. \A c \in appends' : \E d \in appends : c.id = d.id /\ c.start = d.start
    BY <1>2, <2>1
  <2>5. \A c \in appends', q \in reps' : q.id = c.id => q.start = c.start
    BY <2>4 DEF IdInv
  <2>6. \A c \in appends' : c.id <= sent'
    BY <2>4 DEF IdInv
  <2>7. \A q \in reps' : q.id <= sent'
    BY DEF IdInv
  <2> QED
    BY <2>3, <2>5, <2>6, <2>7 DEF IdInv
<1> QED
  BY <1>1, <1>2

\* No step reuses an id or changes where a run starts.
LEMMA IdStep == SkTypeOK /\ IdInv /\ [SkNext]_skVars => IdInv'
<1> SUFFICES ASSUME SkTypeOK, IdInv, [SkNext]_skVars PROVE IdInv'
  OBVIOUS
<1>0. appends \subseteq AppendCall /\ reps \subseteq Replicate
  BY DEF SkTypeOK
<1>1. CASE UNCHANGED serviceVars
  BY <1>1 DEF IdInv, serviceVars
<1>2. ASSUME NEW n \in Ingest, NEW t \in 0..MaxTerm, NEW start \in Start,
             ReceiveAppend(n, t, start)
      PROVE  IdInv'
  <2> DEFINE b == [id |-> sent + 1, node |-> n, term |-> t, start |-> start,
                   phase |-> "read", todo |-> Node \ {n}, at |-> None, acks |-> {}]
  <2>1. appends' = appends \cup {b} /\ b.id = sent + 1
    BY <1>2 DEF ReceiveAppend
  <2> HIDE DEF b
  <2>2. sent \in Nat /\ sent' = sent + 1 /\ reps' = reps
    BY <1>2 DEF ReceiveAppend, SkTypeOK
  <2>3. \A c \in appends : c.id \in Nat
    BY <1>0 DEF AppendCall, AppendId
  <2>4. \A r \in reps : r.id \in Nat
    BY <1>0 DEF Replicate, AppendId
  <2>5. \A c \in appends : c.id # b.id
    BY <2>1, <2>2, <2>3 DEF IdInv
  <2>6. \A r \in reps : r.id # b.id
    BY <2>1, <2>2, <2>4 DEF IdInv
  <2>7. (\A c \in appends' : c.id <= sent') /\ (\A r \in reps' : r.id <= sent')
    BY <2>1, <2>2, <2>3, <2>4 DEF IdInv
  <2> QED
    BY <2>1, <2>2, <2>5, <2>6, <2>7 DEF IdInv
<1>3. ASSUME NEW a \in appends, CheckTerm(a) PROVE IdInv'
  BY <1>0, <1>3, SameCall, IdFrame DEF CheckTerm
<1>4. ASSUME NEW a \in appends, StoreLocally(a) PROVE IdInv'
  BY <1>0, <1>4, SameCall, IdFrame DEF StoreLocally
<1>5. ASSUME NEW a \in appends, RecordOwn(a) PROVE IdInv'
  BY <1>0, <1>5, SameCall, IdFrame DEF RecordOwn
<1>6. ASSUME NEW a \in appends, BeginReplicate(a) PROVE IdInv'
  BY <1>0, <1>6, SameCall, IdFrame DEF BeginReplicate
<1>7. ASSUME NEW a \in appends, NEW p \in Node, SendReplicate(a, p) PROVE IdInv'
  <2>1. \A q \in reps' : q \in reps \/ (q.id = a.id /\ q.start = a.start)
    BY <1>7 DEF SendReplicate
  <2>2. \E b : b.id = a.id /\ b.start = a.start /\ Update(a, b)
    BY <1>0, <1>7, SameCall DEF SendReplicate
  <2>3. sent' = sent
    BY <1>7 DEF SendReplicate
  <2> QED
    BY <2>1, <2>2, <2>3, IdFrame, Zenon
<1>8. ASSUME NEW a \in appends, NEW r \in reps, ReceiveAnswer(a, r) PROVE IdInv'
  <2>1. \E b : b.id = a.id /\ b.start = a.start /\ Update(a, b)
    BY <1>0, <1>8, SameCall DEF ReceiveAnswer
  <2>2. sent' = sent /\ reps' \subseteq reps
    BY <1>8 DEF ReceiveAnswer
  <2> QED
    BY <2>1, <2>2, IdFrame
<1>9. ASSUME NEW a \in appends, FoldAcks(a) PROVE IdInv'
  BY <1>9, IdFrame DEF FoldAcks
<1>10. ASSUME NEW a \in appends, ConnectionFails(a) PROVE IdInv'
  BY <1>0, <1>10, SameCall, IdFrame DEF ConnectionFails
<1>11. ASSUME NEW r \in reps, NEW x, Answer(r, x), UNCHANGED <<appends, sent>>
       PROVE  IdInv'
  <2>1. [r EXCEPT !.phase = x].id = r.id /\ [r EXCEPT !.phase = x].start = r.start
    BY <1>0 DEF Replicate
  <2>2. \A q \in reps' : q \in reps \/ q = [r EXCEPT !.phase = x]
    BY <1>11 DEF Answer
  <2>3. \A q \in reps' : \E s \in reps : q.id = s.id /\ q.start = s.start
    BY <2>1, <2>2, Zenon
  <2> QED
    BY <1>11, <2>3 DEF IdInv
<1>12. ASSUME NEW r \in reps, ReplicateStep(r) PROVE IdInv'
  BY <1>11, <1>12 DEF ReplicateStep, ReplicateCheck, ReplicateStore, ReplicateRecord
<1>13. ASSUME NEW n \in Node, SkRestart(n) PROVE IdInv'
  BY <1>13 DEF SkRestart, IdInv
<1> QED
  BY <1>1, <1>2, <1>3, <1>4, <1>5, <1>6, <1>7, <1>8, <1>9, <1>10, <1>12, <1>13, Zenon
     DEF SkNext, AppendStep, HandleRead, skVars, replVars

\* What record_flush returns.
LEMMA RecordFlushFacts ==
    ASSUME NEW f \in [Node -> Lsn], NEW ms \in SUBSET Node, NEW lsn \in Lsn, NEW m \in Node
    PROVE  /\ RecordFlush(f, ms, lsn)[m] >= f[m]
           /\ RecordFlush(f, ms, lsn)[m] = f[m] \/ (m \in ms /\ RecordFlush(f, ms, lsn)[m] = lsn)
           /\ m \in ms => RecordFlush(f, ms, lsn)[m] >= lsn
BY DEF RecordFlush, Lsn

\* A store only grows, and ends with the run just stored.
LEMMA StoreGrows ==
    ASSUME SkTypeOK, NEW n \in Node, NEW start \in Start, NEW id \in AppendId,
           Accepts(n, start), StoreRun(n, start, id)
    PROVE  /\ flush_lsn'[n] = start + 1
           /\ \A m \in Node : flush_lsn'[m] >= flush_lsn[m]
<1>1. flush_lsn \in [Node -> Nat] /\ start \in Nat
  BY DEF SkTypeOK, Start, Lsn
<1>2. flush_lsn' = [flush_lsn EXCEPT ![n] = start + 1]
  BY DEF StoreRun
<1>3. flush_lsn[n] <= start + 1
  BY <1>1 DEF Accepts
<1> QED
  BY <1>1, <1>2, <1>3

\* Calls and requests that were in order stay so while the stores and the
\* node's knowledge of itself grow.
LEMMA FlushedFrame ==
    ASSUME SkTypeOK, SkTypeOK',
           \A m \in Node : flush_lsn'[m] >= flush_lsn[m]
    PROVE  /\ \A a \in AppendCall : AppendFlushed(a) /\ flush'[a.node][a.node] >= flush[a.node][a.node]
                                        => AppendFlushed(a)'
           /\ \A r \in Replicate : ReplicateFlushed(r) => ReplicateFlushed(r)'
<1>1. \A m \in Node : flush_lsn[m] \in Nat /\ flush_lsn'[m] \in Nat
                      /\ flush[m][m] \in Nat /\ flush'[m][m] \in Nat
  BY DEF SkTypeOK, Lsn
<1>2. \A start \in Start : start + 1 \in Nat
  BY DEF Start
<1> QED
  BY <1>1, <1>2 DEF AppendFlushed, ReplicateFlushed, AppendCall, Replicate

\* FlushInv when only calls and requests change.
LEMMA FlushCalls ==
    ASSUME SkTypeOK, SkTypeOK', FlushInv, UNCHANGED <<flush, flush_lsn>>,
           \A a \in appends' : a \in appends \/ AppendFlushed(a),
           \A r \in reps' : r \in reps \/ ReplicateFlushed(r)
    PROVE  FlushInv'
BY DEF FlushInv, AppendFlushed, ReplicateFlushed

\* The later of two positions, and the order of the naturals, for leaves that reason
\* without arithmetic.
LEMMA LaterOf ==
    \A a, b \in Nat : LET c == IF a > b THEN a ELSE b IN c \in Nat /\ b <= c
OBVIOUS

LEMMA LessTransitive == \A a, b, c \in Nat : a <= b /\ b <= c => a <= c
OBVIOUS

\* FlushInv when a member stores a run.
LEMMA FlushStore ==
    ASSUME SkTypeOK, SkTypeOK', FlushInv, flush' = flush,
           \A m \in Node : flush_lsn'[m] >= flush_lsn[m],
           \A a \in appends' : a \in appends \/ AppendFlushed(a)',
           \A r \in reps' : r \in reps \/ ReplicateFlushed(r)'
    PROVE  FlushInv'
<1>1. ASSUME NEW n \in Node, NEW m \in Node
      PROVE  flush'[n][m] <= flush_lsn'[m] /\ flush'[n][m] <= flush'[n][n]
  <2>1. flush[n][m] \in Nat /\ flush_lsn[m] \in Nat /\ flush_lsn'[m] \in Nat
    BY DEF SkTypeOK, Lsn
  <2>2. flush[n][m] <= flush_lsn[m] /\ flush[n][m] <= flush[n][n]
    BY Zenon DEF FlushInv
  <2>3. flush_lsn[m] <= flush_lsn'[m]
    BY <2>1
  <2>4. flush[n][m] <= flush_lsn'[m]
    BY <2>1, <2>2, <2>3, LessTransitive, Zenon
  <2> QED
    BY <2>2, <2>4, Zenon
<1>2. appends \subseteq AppendCall /\ reps \subseteq Replicate
  BY DEF SkTypeOK
<1>3. \A a \in AppendCall : flush'[a.node][a.node] >= flush[a.node][a.node]
  BY DEF SkTypeOK, AppendCall, Lsn
<1> QED
  BY <1>1, <1>2, <1>3, FlushedFrame, Zenon DEF FlushInv

\* FlushInv when node n records that the members ms have flushed up to lsn.
LEMMA FlushRecord ==
    ASSUME SkTypeOK, SkTypeOK', FlushInv, UNCHANGED flush_lsn,
           NEW n \in Node, NEW ms \in SUBSET Node, NEW lsn \in Lsn,
           flush'[n] = RecordFlush(flush[n], ms, lsn),
           \A k \in Node \ {n} : flush'[k] = flush[k],
           \A m \in ms : lsn <= flush_lsn[m],
           n \in ms \/ lsn <= flush[n][n],
           \A a \in appends' : a \in appends \/ AppendFlushed(a)',
           \A r \in reps' : r \in reps \/ ReplicateFlushed(r)
    PROVE  FlushInv'
<1>1. flush \in [Node -> [Node -> Lsn]] /\ flush_lsn \in [Node -> Lsn]
  BY DEF SkTypeOK
<1>2. \A m \in Node : /\ flush'[n][m] \in Lsn
                      /\ flush'[n][m] >= flush[n][m]
                      /\ flush'[n][m] = flush[n][m] \/ (m \in ms /\ flush'[n][m] = lsn)
                      /\ m \in ms => flush'[n][m] >= lsn
  <2>1. flush[n] \in [Node -> Lsn]
    BY <1>1, ZenonT(30)
  <2>2. RecordFlush(flush[n], ms, lsn) \in [Node -> Lsn]
    BY <2>1, RecordFlushType
  <2>3. TAKE m \in Node
  <2>4. /\ RecordFlush(flush[n], ms, lsn)[m] >= flush[n][m]
        /\ \/ RecordFlush(flush[n], ms, lsn)[m] = flush[n][m]
           \/ m \in ms /\ RecordFlush(flush[n], ms, lsn)[m] = lsn
        /\ m \in ms => RecordFlush(flush[n], ms, lsn)[m] >= lsn
    BY <2>1, RecordFlushFacts
  <2>5. flush'[n][m] = RecordFlush(flush[n], ms, lsn)[m]
    BY Zenon
  <2>6. flush'[n][m] \in Lsn
    BY <2>2, <2>5, Zenon
  <2> QED
    BY <2>4, <2>5, <2>6, Zenon
<1>4. flush'[n][n] >= flush[n][n] /\ flush'[n][n] >= lsn
  BY <1>1, <1>2 DEF Lsn
<1>5. \A m \in Node : flush'[n][m] <= flush_lsn'[m] /\ flush'[n][m] <= flush'[n][n]
  BY <1>1, <1>2, <1>4 DEF FlushInv, Lsn
<1>6. \A k, m \in Node : flush'[k][m] <= flush_lsn'[m] /\ flush'[k][m] <= flush'[k][k]
  BY <1>5 DEF FlushInv
<1>7. \A k \in Node : flush'[k][k] >= flush[k][k] /\ flush_lsn'[k] >= flush_lsn[k]
  BY <1>1, <1>4 DEF Lsn
<1>8. appends \subseteq AppendCall /\ reps \subseteq Replicate
  BY DEF SkTypeOK
<1>9. \A a \in AppendCall : flush'[a.node][a.node] >= flush[a.node][a.node]
  BY <1>7, ZenonT(30) DEF AppendCall
<1>10. \A r \in reps' : ReplicateFlushed(r)'
  BY DEF FlushInv, ReplicateFlushed
<1> QED
  BY <1>6, <1>7, <1>8, <1>9, <1>10, FlushedFrame, Zenon DEF FlushInv

\* Every step keeps FlushInv.
LEMMA FlushStep == SkTypeOK /\ SkTypeOK' /\ IdInv /\ FlushInv /\ [SkNext]_skVars => FlushInv'
<1> SUFFICES ASSUME SkTypeOK, SkTypeOK', IdInv, FlushInv, [SkNext]_skVars PROVE FlushInv'
  OBVIOUS
<1>0. /\ appends \subseteq AppendCall /\ reps \subseteq Replicate
      /\ flush \in [Node -> [Node -> Lsn]] /\ flush_lsn \in [Node -> Lsn]
  BY DEF SkTypeOK
<1>1. CASE UNCHANGED <<flush, flush_lsn, appends, reps>>
  BY <1>1, FlushCalls
<1>2. ASSUME NEW n \in Ingest, NEW t \in 0..MaxTerm, NEW start \in Start,
             ReceiveAppend(n, t, start)
      PROVE  FlushInv'
  <2>1. \A a \in appends' : a \in appends \/ AppendFlushed(a)
    <3> DEFINE c == [id |-> sent + 1, node |-> n, term |-> t, start |-> start,
                     phase |-> "read", todo |-> Node \ {n}, at |-> None, acks |-> {}]
    <3>1. appends' = appends \cup {c}
      BY <1>2 DEF ReceiveAppend
    <3>2. c.phase = "read" /\ c.acks = {}
      OBVIOUS
    <3> HIDE DEF c
    <3>3. AppendFlushed(c)
      BY <3>2 DEF AppendFlushed
    <3> QED
      BY <3>1, <3>3, ZenonT(30)
  <2> QED
    BY <1>2, <2>1, FlushCalls DEF ReceiveAppend, walVars
<1>3. ASSUME NEW a \in appends, CheckTerm(a) PROVE FlushInv'
  <2>1. AppendFlushed([a EXCEPT !.phase = "checked"])
    BY <1>0 DEF FlushInv, AppendFlushed, AppendCall
  <2>2. \A b \in appends' : b \in appends \/ b = [a EXCEPT !.phase = "checked"]
    BY <1>3 DEF CheckTerm, Update
  <2> QED
    BY <1>3, <2>1, <2>2, FlushCalls DEF CheckTerm, walVars
<1>4. ASSUME NEW a \in appends, StoreLocally(a) PROVE FlushInv'
  <2>1. CASE ~ Accepts(a.node, a.start)
    BY <1>4, <2>1, FlushCalls DEF StoreLocally, walVars
  <2>2. CASE Accepts(a.node, a.start)
    <3> DEFINE b == [a EXCEPT !.phase = "stored"]
    <3>1. b.phase = "stored" /\ b.start = a.start /\ b.node = a.node /\ b.acks = a.acks
      BY <1>0 DEF AppendCall
    <3>2. a.node \in Node /\ a.start \in Start /\ a.id \in AppendId /\ a.acks \subseteq Node
      BY <1>0 DEF AppendCall
    <3>3. flush_lsn'[a.node] = a.start + 1 /\ \A m \in Node : flush_lsn'[m] >= flush_lsn[m]
      BY <1>4, <2>2, <3>2, StoreGrows DEF StoreLocally
    <3>4. \A m \in Node : flush_lsn[m] \in Nat /\ flush_lsn'[m] \in Nat
      BY DEF SkTypeOK, Lsn
    <3>5. \A p \in a.acks : a.start + 1 <= flush_lsn'[p]
      BY <3>2, <3>3, <3>4 DEF FlushInv, AppendFlushed, Start
    <3>6. AppendFlushed(b)'
      BY <3>1, <3>2, <3>3, <3>5 DEF AppendFlushed, Start
    <3>7. (\A c \in appends' : c \in appends \/ c = b) /\ reps' = reps /\ flush' = flush
      BY <1>4, <2>2 DEF StoreLocally, Update
    <3> QED
      BY <3>3, <3>6, <3>7, FlushStore
  <2> QED
    BY <2>1, <2>2
<1>5. ASSUME NEW a \in appends, RecordOwn(a) PROVE FlushInv'
  <2> DEFINE b == [a EXCEPT !.phase = "recorded"]
  <2>1. b.phase = "recorded" /\ b.start = a.start /\ b.node = a.node /\ b.acks = a.acks
    BY <1>0 DEF AppendCall
  <2>2. a.node \in Node /\ a.start \in Start /\ a.start + 1 \in Lsn
    BY <1>0, RunEnd DEF AppendCall
  <2>3. AppendFlushed(a) /\ a.start + 1 <= flush_lsn[a.node]
    BY <1>5 DEF FlushInv, AppendFlushed, RecordOwn
  <2> DEFINE ms == {a.node}
             lsn == a.start + 1
  <2>4. /\ flush'[a.node] = RecordFlush(flush[a.node], ms, lsn)
        /\ \A k \in Node \ {a.node} : flush'[k] = flush[k]
        /\ a.node \in ms /\ ms \in SUBSET Node /\ lsn \in Lsn
        /\ \A m \in ms : lsn <= flush_lsn[m]
    BY <1>0, <1>5, <2>2, <2>3 DEF RecordOwn
  <2>5. lsn <= flush'[a.node][a.node]
    <3> HIDE DEF ms, lsn
    <3>1. flush[a.node] \in [Node -> Lsn]
      BY <1>0, <2>2
    <3>2. flush'[a.node][a.node] >= lsn
      BY <2>2, <2>4, <3>1, RecordFlushFacts
    <3>3. flush'[a.node][a.node] \in Nat /\ lsn \in Nat
      <4>1. flush' \in [Node -> [Node -> Lsn]]
        BY DEF SkTypeOK
      <4>2. flush'[a.node][a.node] \in Lsn /\ lsn \in Lsn
        BY <2>2, <2>4, <4>1
      <4> QED
        BY <4>2 DEF Lsn
    <3> QED
      BY <3>2, <3>3
  <2>6. flush_lsn' = flush_lsn /\ reps' = reps /\ \A c \in appends' : c \in appends \/ c = b
    BY <1>5 DEF RecordOwn, Update, walVars
  <2>7. AppendFlushed(b)'
    BY <2>1, <2>3, <2>5, <2>6 DEF AppendFlushed
  <2> QED
    <3> HIDE DEF b, ms, lsn
    <3> QED BY <2>2, <2>4, <2>6, <2>7, FlushRecord
<1>6. ASSUME NEW a \in appends, BeginReplicate(a) PROVE FlushInv'
  <2>1. AppendFlushed([a EXCEPT !.phase = "sending"])
    BY <1>0, <1>6 DEF FlushInv, AppendFlushed, AppendCall, BeginReplicate
  <2>2. \A b \in appends' : b \in appends \/ b = [a EXCEPT !.phase = "sending"]
    BY <1>6 DEF BeginReplicate, Update
  <2> QED
    BY <1>6, <2>1, <2>2, FlushCalls DEF BeginReplicate, walVars
<1>7. ASSUME NEW a \in appends, NEW p \in Node, SendReplicate(a, p) PROVE FlushInv'
  <2>1. AppendFlushed(Turn(a, p, p, {}))
    BY ZenonT(30) DEF FlushInv, AppendFlushed, Turn
  <2>2. \A b \in appends' : b \in appends \/ b = Turn(a, p, p, {})
    BY <1>7 DEF SendReplicate, Update
  <2>3. \A r \in reps' : r \in reps \/ ReplicateFlushed(r)
    <3> DEFINE c == [id |-> a.id, peer |-> p, term |-> a.term, start |-> a.start,
                     phase |-> "sent"]
    <3>1. reps' = reps \cup {c}
      BY <1>7, Zenon DEF SendReplicate
    <3>2. c.phase = "sent"
      OBVIOUS
    <3> HIDE DEF c
    <3>3. ReplicateFlushed(c)
      BY <3>2 DEF ReplicateFlushed
    <3> QED
      BY <3>1, <3>3, Zenon
  <2> QED
    BY <1>7, <2>1, <2>2, <2>3, FlushCalls, Zenon DEF SendReplicate, walVars
<1>8. ASSUME NEW a \in appends, NEW r \in reps, ReceiveAnswer(a, r) PROVE FlushInv'
  <2> DEFINE more == IF r.phase = "acked" THEN {a.at} ELSE {}
  <2>1. \A p \in more : a.start + 1 <= flush_lsn[p]
    BY <1>8, Zenon DEF FlushInv, IdInv, ReplicateFlushed, ReceiveAnswer
  <2>2. AppendFlushed(Turn(a, a.at, None, more))
    BY <2>1, Zenon DEF FlushInv, AppendFlushed, Turn
  <2>3. \A b \in appends' : b \in appends \/ b = Turn(a, a.at, None, more)
    BY <1>8, Zenon DEF ReceiveAnswer, Update
  <2> QED
    BY <1>8, <2>2, <2>3, FlushCalls, Zenon DEF ReceiveAnswer, walVars
<1>9. ASSUME NEW a \in appends, FoldAcks(a) PROVE FlushInv'
  <2>1. a.node \in Node /\ a.acks \subseteq Node /\ a.start + 1 \in Lsn
    BY <1>0, RunEnd DEF AppendCall
  <2>2. a.start + 1 <= flush[a.node][a.node] /\ \A p \in a.acks : a.start + 1 <= flush_lsn[p]
    BY <1>9 DEF FlushInv, AppendFlushed, FoldAcks
  <2>3. /\ flush'[a.node] = RecordFlush(flush[a.node], a.acks, a.start + 1)
        /\ \A k \in Node \ {a.node} : flush'[k] = flush[k]
    BY <1>0, <1>9, <2>1, Zenon DEF FoldAcks
  <2>4. flush_lsn' = flush_lsn /\ reps' = reps /\ appends' \subseteq appends
    BY <1>9 DEF FoldAcks, walVars
  <2> QED
    BY <2>1, <2>2, <2>3, <2>4, FlushRecord, Zenon
<1>10. ASSUME NEW a \in appends, ConnectionFails(a) PROVE FlushInv'
  <2>1. AppendFlushed(Turn(a, a.at, None, {}))
    BY ZenonT(30) DEF FlushInv, AppendFlushed, Turn
  <2>2. \A b \in appends' : b \in appends \/ b = Turn(a, a.at, None, {})
    BY <1>10, Zenon DEF ConnectionFails, Update
  <2>3. reps' \subseteq reps
    BY <1>10, Zenon DEF ConnectionFails
  <2> QED
    BY <1>10, <2>1, <2>2, <2>3, FlushCalls, Zenon DEF ConnectionFails, walVars
<1>11. ASSUME NEW r \in reps, ReplicateCheck(r) PROVE FlushInv'
  <2>1. PICK x \in {"refused", "checked"} : Answer(r, x)
    BY <1>11 DEF ReplicateCheck
  <2>2. ReplicateFlushed([r EXCEPT !.phase = x])
    BY <1>0, <2>1 DEF ReplicateFlushed, Replicate
  <2>3. \A q \in reps' : q \in reps \/ q = [r EXCEPT !.phase = x]
    BY <2>1 DEF Answer
  <2> QED
    BY <1>11, <2>2, <2>3, FlushCalls DEF ReplicateCheck, walVars
<1>12. ASSUME NEW r \in reps, ReplicateStore(r) PROVE FlushInv'
  <2>1. CASE ~ Accepts(r.peer, r.start)
    <3>1. ReplicateFlushed([r EXCEPT !.phase = "refused"])
      BY <1>0 DEF ReplicateFlushed, Replicate
    <3>2. \A q \in reps' : q \in reps \/ q = [r EXCEPT !.phase = "refused"]
      BY <1>12, <2>1 DEF ReplicateStore, Answer
    <3> QED
      BY <1>12, <2>1, <3>1, <3>2, FlushCalls DEF ReplicateStore, walVars
  <2>2. CASE Accepts(r.peer, r.start)
    <3> DEFINE q == [r EXCEPT !.phase = "stored"]
    <3>1. q.start = r.start /\ q.peer = r.peer
      BY <1>0 DEF Replicate
    <3>2. r.peer \in Node /\ r.start \in Start /\ r.id \in AppendId
      BY <1>0 DEF Replicate
    <3>3. flush_lsn'[r.peer] = r.start + 1 /\ \A m \in Node : flush_lsn'[m] >= flush_lsn[m]
      BY <1>12, <2>2, <3>2, StoreGrows DEF ReplicateStore
    <3>4. ReplicateFlushed(q)'
      BY <3>1, <3>2, <3>3 DEF ReplicateFlushed, Start
    <3>5. (\A c \in reps' : c \in reps \/ c = q) /\ appends' = appends /\ flush' = flush
      BY <1>12, <2>2, Zenon DEF ReplicateStore, Answer
    <3> QED
      BY <3>3, <3>4, <3>5, FlushStore
  <2> QED
    BY <2>1, <2>2
<1>13. ASSUME NEW r \in reps, ReplicateRecord(r) PROVE FlushInv'
  <2> DEFINE q == [r EXCEPT !.phase = "acked"]
  <2>1. q.start = r.start /\ q.peer = r.peer
    BY <1>0 DEF Replicate
  <2>2. r.peer \in Node /\ r.start + 1 \in Lsn
    BY <1>0, RunEnd DEF Replicate
  <2>3. r.start + 1 <= flush_lsn[r.peer]
    BY <1>13, Zenon DEF FlushInv, ReplicateFlushed, ReplicateRecord
  <2> DEFINE ms == {r.peer}
             lsn == r.start + 1
  <2>4. /\ flush'[r.peer] = RecordFlush(flush[r.peer], ms, lsn)
        /\ \A k \in Node \ {r.peer} : flush'[k] = flush[k]
        /\ r.peer \in ms /\ ms \in SUBSET Node /\ lsn \in Lsn
        /\ \A m \in ms : lsn <= flush_lsn[m]
    BY <1>0, <1>13, <2>2, <2>3 DEF ReplicateRecord
  <2>5. ReplicateFlushed(q)
    BY <2>1, <2>3 DEF ReplicateFlushed
  <2>6. flush_lsn' = flush_lsn /\ appends' = appends /\ \A c \in reps' : c \in reps \/ c = q
    BY <1>13 DEF ReplicateRecord, Answer, walVars
  <2> QED
    <3> HIDE DEF q, ms, lsn
    <3> QED BY <2>2, <2>4, <2>5, <2>6, FlushRecord
<1>14. ASSUME NEW n \in Node, SkRestart(n) PROVE FlushInv'
  <2>1. flush' = [flush EXCEPT ![n] = [m \in Node |-> 0]] /\ flush_lsn' = flush_lsn
    BY <1>14 DEF SkRestart, walVars
  <2>2. \A k, m \in Node : flush'[k][m] <= flush_lsn'[m] /\ flush'[k][m] <= flush'[k][k]
    BY <1>0, <2>1 DEF FlushInv, Lsn
  <2>3. \A a \in appends' : a \in appends /\ a.node # n
    BY <1>14 DEF SkRestart
  <2>4. \A a \in appends' : AppendFlushed(a)'
    BY <1>0, <2>1, <2>3 DEF FlushInv, AppendFlushed, AppendCall
  <2>5. \A r \in reps' : ReplicateFlushed(r)'
    BY <1>14, <2>1, Zenon DEF FlushInv, ReplicateFlushed, SkRestart
  <2> QED
    BY <2>2, <2>4, <2>5 DEF FlushInv
<1> QED
  BY <1>1, <1>2, <1>3, <1>4, <1>5, <1>6, <1>7, <1>8, <1>9, <1>10, <1>11, <1>12, <1>13, <1>14, Zenon
     DEF SkNext, AppendStep, ReplicateStep, HandleRead, skVars, replVars, walVars, serviceVars

\* FlushInv carries both properties of the commit position.
LEMMA CommitSafe == SkTypeOK /\ FlushInv => CommitFlushedByQuorum /\ CommitWithinStore
<1> SUFFICES ASSUME SkTypeOK, FlushInv PROVE CommitFlushedByQuorum /\ CommitWithinStore
  OBVIOUS
<1>1. \A n \in Node : flush[n] \in [Node -> Lsn] /\ flush_lsn[n] \in Nat
  BY DEF SkTypeOK, Lsn
<1>2. \A n \in Node : CommitLsn(n) <= flush_lsn[n]
  <2> SUFFICES ASSUME NEW n \in Node PROVE CommitLsn(n) <= flush_lsn[n]
    OBVIOUS
  <2>1. PICK m \in Node : CommitLsn(n) = flush[n][m]
    BY <1>1, CommitReached
  <2>2. flush[n][m] \in Nat /\ flush[n][n] \in Nat
    BY <1>1 DEF Lsn
  <2> QED
    BY <1>1, <2>1, <2>2 DEF FlushInv
<1>3. ASSUME NEW n \in Node, NEW l \in Lsn, CommitLsn(n) >= l
      PROVE  Cardinality({m \in Node : flush_lsn[m] >= l}) >= Quorum
  <2>1. CommitLsn(n) \in Lsn /\ Cardinality(Reached(flush[n], CommitLsn(n))) >= Quorum
    BY <1>1, CommitReached
  <2>2. Reached(flush[n], CommitLsn(n)) \subseteq {m \in Node : flush_lsn[m] >= l}
    BY <1>1, <1>3, <2>1 DEF Reached, FlushInv, Lsn
  <2> QED
    BY <2>1, <2>2, MembersCount, QuorumIsMajority
<1> QED
  BY <1>2, <1>3 DEF CommitFlushedByQuorum, CommitWithinStore

(***************************************************************************)
(* Whatever a node reports or serves as committed has been flushed that    *)
(* far by a majority, and is within its own store: with any number of      *)
(* ingest nodes, elections, restarts and broken connections (commit_lsn,   *)
(* handle_append, handle_read).                                            *)
(***************************************************************************)
THEOREM CommitAlwaysFlushed == SkSpec => [](CommitFlushedByQuorum /\ CommitWithinStore)
<1> DEFINE Inv == SkTypeOK /\ IdInv /\ FlushInv
<1>1. SkInit => Inv
  <2> SUFFICES ASSUME SkInit PROVE Inv
    OBVIOUS
  <2>1. SkTypeOK
    BY DEF SkInit, SkTypeOK, Init, TypeOK, Role, Lsn
  <2>2. IdInv /\ FlushInv
    BY DEF SkInit, IdInv, FlushInv
  <2> QED
    BY <2>1, <2>2
<1>2. Inv /\ [SkNext]_skVars => Inv'
  BY SkTypeStep, IdStep, FlushStep
<1>3. Inv => CommitFlushedByQuorum /\ CommitWithinStore
  BY CommitSafe
<1> QED
  BY <1>1, <1>2, <1>3, PTL DEF SkSpec

(***************************************************************************)
(* The commit position of a node never passes the end of its own store, so *)
(* a page server's read never fails with OutOfRange (handle_read).         *)
(***************************************************************************)
THEOREM CommitAlwaysWithinStore == SkSpec => []CommitWithinStore
BY CommitAlwaysFlushed, PTL
-----------------------------------------------------------------------------
\* A call is one of node i's, and past its second section its run is in the log.
AppendLogged(a, i) ==
    /\ a.node = i
    /\ a.phase \in {"stored", "recorded", "sending"} => wal[i][a.start] = a.id

\* A store is a log without gaps.
Gapless(n) ==
    /\ start_lsn[n] <= flush_lsn[n]
    /\ \A l \in Lsn : wal[n][l] # 0 <=> start_lsn[n] <= l /\ l < flush_lsn[n]

(***************************************************************************)
(* With a single ingest node i: the stores are gapless, every byte of a    *)
(* member is the byte of i, every request carries one of i's runs, and     *)
(* every byte handed out is the byte of i.                                 *)
(***************************************************************************)
LogInv(i) ==
    /\ \A n \in Node : Gapless(n)
    /\ \A n \in Node, l \in Lsn : wal[n][l] # 0 => wal[n][l] = wal[i][l]
    /\ \A a \in appends : AppendLogged(a, i)
    /\ \A r \in reps : wal[i][r.start] = r.id
    /\ \A x \in served : x[2] # 0 /\ x[2] = wal[i][x[1]]

\* A stored run fills the first free position and leaves the others alone.
LEMMA StoreExtends ==
    ASSUME SkTypeOK, NEW n \in Node, NEW start \in Start, NEW id \in AppendId,
           Gapless(n), Accepts(n, start), StoreRun(n, start, id)
    PROVE  /\ wal[n][start] = 0
           /\ \A l \in Lsn : wal'[n][l] = IF l = start THEN id ELSE wal[n][l]
           /\ \A m \in Node \ {n} : wal'[m] = wal[m]
           /\ \A m \in Node \ {n} : start_lsn'[m] = start_lsn[m] /\ flush_lsn'[m] = flush_lsn[m]
           /\ Gapless(n)'
<1>1. /\ start_lsn \in [Node -> Nat] /\ flush_lsn \in [Node -> Nat]
      /\ wal \in [Node -> [Lsn -> AppendId \cup {0}]]
      /\ start \in Nat \ {0} /\ start \in Lsn /\ id # 0
  <2>1. /\ start_lsn \in [Node -> Nat] /\ flush_lsn \in [Node -> Nat]
        /\ wal \in [Node -> [Lsn -> AppendId \cup {0}]]
    BY DEF SkTypeOK, Lsn
  <2>2. start \in Nat \ {0} /\ start \in Lsn /\ id # 0
    BY RunIds, Zenon
  <2> QED
    BY <2>1, <2>2, Zenon
<1>2. (start = flush_lsn[n] /\ flush_lsn[n] # 0) \/ (start_lsn[n] = 0 /\ flush_lsn[n] = 0)
  BY <1>1 DEF Accepts
<1>3. wal[n][start] = 0
  BY <1>1, <1>2 DEF Gapless
<1>4. /\ \A l \in Lsn : wal'[n][l] = IF l = start THEN id ELSE wal[n][l]
      /\ \A m \in Node \ {n} : wal'[m] = wal[m]
  BY <1>1 DEF StoreRun
<1>5. /\ flush_lsn'[n] = start + 1
      /\ start_lsn'[n] = IF flush_lsn[n] = 0 THEN start ELSE start_lsn[n]
      /\ \A m \in Node \ {n} : start_lsn'[m] = start_lsn[m] /\ flush_lsn'[m] = flush_lsn[m]
  BY <1>1 DEF StoreRun
<1>6. Gapless(n)'
  <2>1. start_lsn'[n] <= flush_lsn'[n]
    <3>1. start_lsn[n] <= flush_lsn[n]
      BY Zenon DEF Gapless
    <3>2. start_lsn[n] \in Nat /\ flush_lsn[n] \in Nat /\ start \in Nat
      BY <1>1, Zenon
    <3>3. CASE flush_lsn[n] = 0
      <4>1. start_lsn'[n] = start /\ flush_lsn'[n] = start + 1
        BY <1>5, <3>3
      <4> QED
        BY <3>2, <4>1
    <3>4. CASE flush_lsn[n] # 0
      <4>1. start_lsn'[n] = start_lsn[n] /\ flush_lsn'[n] = start + 1 /\ start = flush_lsn[n]
        BY <1>2, <1>5, <3>4, Zenon
      <4> QED
        BY <3>1, <3>2, <4>1
    <3> QED
      BY <3>3, <3>4
  <2>2. ASSUME NEW l \in Lsn
        PROVE  wal'[n][l] # 0 <=> start_lsn'[n] <= l /\ l < flush_lsn'[n]
    <3>1. l \in Nat
      BY DEF Lsn
    <3> DEFINE s == start_lsn[n]  f == flush_lsn[n]
               s2 == start_lsn'[n]  f2 == flush_lsn'[n]
               had == wal[n][l] # 0  has == wal'[n][l] # 0
    <3>2. /\ s \in Nat /\ f \in Nat /\ start \in Nat
          /\ had <=> s <= l /\ l < f
      BY <1>1 DEF Gapless
    <3>3. has <=> l = start \/ had
      BY <1>1, <1>4, ZenonT(30)
    <3>4. (start = f /\ s <= f /\ s2 = s) \/ (f = 0 /\ s2 = start)
      BY <1>1, <1>2, <1>5 DEF Gapless
    <3>5. f2 = start + 1
      BY <1>5
    <3> HIDE DEF s, f, s2, f2, had, has
    <3>6. has <=> s2 <= l /\ l < f2
      BY <3>1, <3>2, <3>3, <3>4, <3>5
    <3> QED
      BY <3>6 DEF s2, f2, has
  <2> QED
    BY <2>1, <2>2, Zenon DEF Gapless
<1> QED
  BY <1>3, <1>4, <1>5, <1>6

\* LogInv when the log of i keeps its bytes.
LEMMA LogFrame ==
    ASSUME SkTypeOK, NEW i \in Node, LogInv(i), served' = served,
           \A n \in Node : Gapless(n)',
           \A n \in Node, l \in Lsn : wal'[n][l] # 0 => wal'[n][l] = wal'[i][l],
           \A l \in Lsn : wal[i][l] # 0 => wal'[i][l] = wal[i][l],
           \A a \in appends' : a \in appends \/ AppendLogged(a, i)',
           \A r \in reps' : r \in reps \/ wal'[i][r.start] = r.id
    PROVE  LogInv(i)'
<1>0. appends \subseteq AppendCall /\ reps \subseteq Replicate
  BY Zenon DEF SkTypeOK
<1>1. ASSUME NEW a \in appends PROVE a.start \in Lsn /\ a.id # 0
  <2>1. a.start \in Start /\ a.id \in AppendId
    BY <1>0 DEF AppendCall
  <2> QED
    BY <2>1, RunIds, ZenonT(30)
<1>2. ASSUME NEW r \in reps PROVE r.start \in Lsn /\ r.id # 0
  <2>1. r.start \in Start /\ r.id \in AppendId
    BY <1>0 DEF Replicate
  <2> QED
    BY <2>1, RunIds, ZenonT(30)
<1>3. \A x \in served : x[1] \in Lsn
  BY Zenon DEF SkTypeOK
<1>4. ASSUME NEW a \in appends PROVE AppendLogged(a, i)'
  <2>1. AppendLogged(a, i)
    BY ZenonT(30) DEF LogInv
  <2> QED
    BY <1>1, <2>1 DEF AppendLogged
<1>5. ASSUME NEW r \in reps PROVE wal'[i][r.start] = r.id
  <2>1. wal[i][r.start] = r.id
    BY Zenon DEF LogInv
  <2>2. r.start \in Lsn /\ r.id # 0
    BY <1>2, Zenon
  <2> QED
    BY <2>1, <2>2, Zenon
<1>6. \A x \in served' : x[2] # 0 /\ x[2] = wal'[i][x[1]]
  BY <1>3 DEF LogInv
<1> QED
  BY <1>4, <1>5, <1>6, Zenon DEF LogInv

\* The members of an interval that ends before b.
LEMMA IntervalBounds ==
    \A a, b \in Nat : \A l \in a..(b - 1) : l \in Nat /\ a <= l /\ l < b
OBVIOUS

\* LogInv when only calls and requests change.
LEMMA LogCalls ==
    ASSUME SkTypeOK, NEW i \in Node, LogInv(i), UNCHANGED <<start_lsn, flush_lsn, wal, served>>,
           \A a \in appends' : a \in appends \/ AppendLogged(a, i),
           \A r \in reps' : r \in reps \/ wal[i][r.start] = r.id
    PROVE  LogInv(i)'
<1>1. \A n \in Node : Gapless(n)'
  BY Zenon DEF LogInv, Gapless
<1>2. \A a \in appends' : a \in appends \/ AppendLogged(a, i)'
  BY DEF AppendLogged
<1> QED
  BY <1>1, <1>2, LogFrame, ZenonT(30) DEF LogInv

\* LogInv when a member stores a run that i holds, or i stores a new one.
LEMMA LogStore ==
    ASSUME SkTypeOK, NEW i \in Node, LogInv(i), served' = served,
           NEW n \in Node, NEW start \in Start, NEW id \in AppendId,
           Accepts(n, start), StoreRun(n, start, id),
           n = i \/ wal[i][start] = id,
           \A a \in appends' : a \in appends \/ AppendLogged(a, i)',
           \A r \in reps' : r \in reps \/ wal'[i][r.start] = r.id
    PROVE  LogInv(i)'
<1>1. Gapless(n) /\ start \in Lsn /\ id # 0
  <2>1. Gapless(n)
    BY Zenon DEF LogInv
  <2>2. start \in Lsn /\ id # 0
    BY RunIds, Zenon
  <2> QED
    BY <2>1, <2>2, Zenon
<1>2. /\ wal[n][start] = 0
      /\ \A l \in Lsn : wal'[n][l] = IF l = start THEN id ELSE wal[n][l]
      /\ \A m \in Node \ {n} : wal'[m] = wal[m]
      /\ \A m \in Node \ {n} : start_lsn'[m] = start_lsn[m] /\ flush_lsn'[m] = flush_lsn[m]
      /\ Gapless(n)'
  BY <1>1, StoreExtends, Zenon
<1>3. ASSUME NEW m \in Node PROVE Gapless(m)'
  <2>1. Gapless(m)
    BY Zenon DEF LogInv
  <2>2. CASE m = n
    BY <1>2, <2>2, Zenon
  <2>3. CASE m # n
    BY <1>2, <2>1, <2>3, Zenon DEF Gapless
  <2> QED
    BY <2>2, <2>3, Zenon
<1>4. \A l \in Lsn : wal[i][l] # 0 => wal'[i][l] = wal[i][l]
  BY <1>2, Zenon
<1>5. \A m \in Node, l \in Lsn : wal'[m][l] # 0 => wal'[m][l] = wal'[i][l]
  <2>1. ASSUME NEW m \in Node, NEW l \in Lsn, wal'[m][l] # 0
        PROVE  wal'[m][l] = wal'[i][l]
    <3>1. CASE m = n /\ l = start
      BY <1>1, <1>2, <1>4, <3>1, Zenon
    <3>2. CASE m # n \/ l # start
      <4>1. wal'[m][l] = wal[m][l]
        BY <1>2, <3>2, Zenon
      <4>2. wal[m][l] = wal[i][l]
        BY <2>1, <4>1, Zenon DEF LogInv
      <4> QED
        BY <1>4, <2>1, <4>1, <4>2, Zenon
    <3> QED
      BY <3>1, <3>2, Zenon
  <2> QED
    BY <2>1, Zenon
<1> QED
  BY <1>3, <1>4, <1>5, LogFrame, Zenon

\* With one ingest node, every step keeps LogInv.
LEMMA LogStep ==
    ASSUME NEW i \in Node, Ingest = {i}
    PROVE  SkTypeOK /\ FlushInv /\ LogInv(i) /\ [SkNext]_skVars => LogInv(i)'
<1> SUFFICES ASSUME SkTypeOK, FlushInv, LogInv(i), [SkNext]_skVars PROVE LogInv(i)'
  OBVIOUS
<1>0. appends \subseteq AppendCall /\ reps \subseteq Replicate
  BY DEF SkTypeOK
<1>1. CASE UNCHANGED <<start_lsn, flush_lsn, wal, served, appends, reps>>
  BY <1>1, LogCalls, Zenon
<1>2. ASSUME NEW n \in Ingest, NEW t \in 0..MaxTerm, NEW start \in Start,
             ReceiveAppend(n, t, start)
      PROVE  LogInv(i)'
  <2> DEFINE new == [id |-> sent + 1, node |-> n, term |-> t, start |-> start, phase |-> "read",
                     todo |-> Node \ {n}, at |-> None, acks |-> {}]
  <2>0. appends' = appends \cup {new}
    BY <1>2, Zenon DEF ReceiveAppend
  <2>2. AppendLogged(new, i)
    <3>1. new.node = n /\ new.phase = "read"
      OBVIOUS
    <3>2. n = i
      OBVIOUS
    <3> HIDE DEF new
    <3> QED
      BY <3>1, <3>2 DEF AppendLogged
  <2> HIDE DEF new
  <2>1. \A a \in appends' : a \in appends \/ AppendLogged(a, i)
    BY <2>0, <2>2
  <2> QED
    BY <1>2, <2>1, LogCalls, Zenon DEF ReceiveAppend, walVars
<1>3. ASSUME NEW a \in appends, NEW x \in {"checked", "recorded", "sending"},
             x \in {"recorded", "sending"} => a.phase \in {"stored", "recorded"},
             appends' \subseteq appends \/ Update(a, [a EXCEPT !.phase = x]),
             UNCHANGED <<walVars, served, reps>>
      PROVE  LogInv(i)'
  <2>1. AppendLogged([a EXCEPT !.phase = x], i)
    BY <1>0, <1>3 DEF LogInv, AppendLogged, AppendCall
  <2>2. \A b \in appends' : b \in appends \/ b = [a EXCEPT !.phase = x]
    BY <1>3 DEF Update
  <2> QED
    BY <1>3, <2>1, <2>2, LogCalls DEF walVars
<1>4. ASSUME NEW a \in appends, StoreLocally(a) PROVE LogInv(i)'
  <2>1. CASE ~ Accepts(a.node, a.start)
    BY <1>4, <2>1, LogCalls DEF StoreLocally, walVars
  <2>2. CASE Accepts(a.node, a.start)
    <3> DEFINE b == [a EXCEPT !.phase = "stored"]
    <3>1. b.start = a.start /\ b.node = a.node /\ b.id = a.id
      BY <1>0 DEF AppendCall
    <3>2. a.node = i /\ a.start \in Start /\ a.start \in Lsn /\ a.id \in AppendId /\ Gapless(i)
      BY <1>0, RunEnd DEF AppendCall, LogInv, AppendLogged
    <3>3. StoreRun(i, a.start, a.id) /\ Accepts(i, a.start)
      BY <1>4, <2>2, <3>2 DEF StoreLocally
    <3>4. wal'[i][a.start] = a.id
      BY <3>2, <3>3, StoreExtends, Zenon
    <3>5. AppendLogged(b, i)'
      BY <3>1, <3>2, <3>4 DEF AppendLogged
    <3>6. (\A c \in appends' : c \in appends \/ c = b) /\ reps' = reps /\ served' = served
      BY <1>4, <2>2 DEF StoreLocally, Update
    <3> HIDE DEF b
    <3> QED
      BY <3>2, <3>3, <3>5, <3>6, LogStore, Zenon
  <2> QED
    BY <2>1, <2>2
<1>5. ASSUME NEW a \in appends, NEW p, NEW at, NEW more,
             Update(a, Turn(a, p, at, more)), UNCHANGED <<walVars, served>>,
             \A r \in reps' : r \in reps \/ wal[i][r.start] = r.id
      PROVE  LogInv(i)'
  <2>1. AppendLogged(Turn(a, p, at, more), i)
    BY Zenon DEF LogInv, AppendLogged, Turn
  <2>2. \A b \in appends' : b \in appends \/ b = Turn(a, p, at, more)
    BY <1>5, Zenon DEF Update
  <2> QED
    BY <1>5, <2>1, <2>2, LogCalls, Zenon DEF walVars
<1>6. ASSUME NEW a \in appends, NEW p \in Node, SendReplicate(a, p) PROVE LogInv(i)'
  <2>1. wal[i][a.start] = a.id
    BY <1>6, Zenon DEF LogInv, AppendLogged, SendReplicate
  <2> DEFINE new == [id |-> a.id, peer |-> p, term |-> a.term, start |-> a.start, phase |-> "sent"]
  <2>3. new.id = a.id /\ new.start = a.start
    OBVIOUS
  <2>4. reps' = reps \cup {new}
    BY <1>6, Zenon DEF SendReplicate
  <2> HIDE DEF new
  <2>2. \A r \in reps' : r \in reps \/ wal[i][r.start] = r.id
    BY <2>1, <2>3, <2>4, Zenon
  <2> QED
    BY <1>5, <1>6, <2>2, Zenon DEF SendReplicate
<1>7. ASSUME NEW a \in appends, AppendStep(a) PROVE LogInv(i)'
  <2>1. CASE CheckTerm(a)
    <3>1. appends' \subseteq appends \/ Update(a, [a EXCEPT !.phase = "checked"])
      BY <2>1 DEF CheckTerm
    <3>2. UNCHANGED <<walVars, served, reps>>
      BY <2>1 DEF CheckTerm
    <3> QED
      BY <1>3, <3>1, <3>2, Zenon
  <2>2. CASE RecordOwn(a)
    <3>1. appends' \subseteq appends \/ Update(a, [a EXCEPT !.phase = "recorded"])
      BY <2>2 DEF RecordOwn
    <3>2. UNCHANGED <<walVars, served, reps>>
      BY <2>2 DEF RecordOwn
    <3>3. a.phase = "stored"
      BY <2>2 DEF RecordOwn
    <3> QED
      BY <1>3, <3>1, <3>2, <3>3, Zenon
  <2>3. CASE BeginReplicate(a)
    <3>1. appends' \subseteq appends \/ Update(a, [a EXCEPT !.phase = "sending"])
      BY <2>3 DEF BeginReplicate
    <3>2. UNCHANGED <<walVars, served, reps>>
      BY <2>3 DEF BeginReplicate
    <3>3. a.phase = "recorded"
      BY <2>3 DEF BeginReplicate
    <3> QED
      BY <1>3, <3>1, <3>2, <3>3, Zenon
  <2>4. ASSUME NEW r \in reps, ReceiveAnswer(a, r) PROVE LogInv(i)'
    BY <1>5, <2>4, ZenonT(30) DEF ReceiveAnswer
  <2>5. CASE FoldAcks(a)
    BY <2>5, LogCalls, ZenonT(30) DEF FoldAcks, walVars
  <2> QED
    BY <1>4, <1>6, <1>7, <2>1, <2>2, <2>3, <2>4, <2>5 DEF AppendStep
<1>8. ASSUME NEW a \in appends, ConnectionFails(a) PROVE LogInv(i)'
  BY <1>5, <1>8, Zenon DEF ConnectionFails
<1>9. ASSUME NEW r \in reps, NEW x, Answer(r, x)
      PROVE  \A q \in reps' : q \in reps \/ wal[i][q.start] = q.id
  <2> DEFINE new == [r EXCEPT !.phase = x]
  <2>1. new.id = r.id /\ new.start = r.start
    BY <1>0 DEF Replicate
  <2>2. \A q \in reps' : q \in reps \/ q = new
    BY <1>9 DEF Answer
  <2>3. wal[i][r.start] = r.id
    BY DEF LogInv
  <2> HIDE DEF new
  <2> QED
    BY <2>1, <2>2, <2>3
<1>10. ASSUME NEW r \in reps, ReplicateStore(r), Accepts(r.peer, r.start) PROVE LogInv(i)'
  <2>1. r.peer \in Node /\ r.start \in Start /\ r.start \in Lsn /\ r.id \in AppendId /\ r.id # 0
    BY <1>0, RunEnd DEF Replicate, AppendId
  <2>2. StoreRun(r.peer, r.start, r.id) /\ wal[i][r.start] = r.id
    BY <1>10, Zenon DEF ReplicateStore, LogInv
  <2>3. \A q \in reps' : q \in reps \/ (wal[i][q.start] = q.id /\ q.start = r.start /\ q.id = r.id)
    <3>1. /\ [r EXCEPT !.phase = "stored"].id = r.id
          /\ [r EXCEPT !.phase = "stored"].start = r.start
      BY <1>0 DEF Replicate
    <3>2. \A q \in reps' : q \in reps \/ q = [r EXCEPT !.phase = "stored"]
      BY <1>10 DEF ReplicateStore, Answer
    <3> QED
      BY <2>2, <3>1, <3>2, Zenon
  <2>4. Gapless(r.peer)
    BY <2>1, Zenon DEF LogInv
  <2>5. wal'[i][r.start] = r.id
    <3>1. /\ wal'[r.peer][r.start] = r.id
          /\ \A m \in Node \ {r.peer} : wal'[m] = wal[m]
      BY <1>10, <2>1, <2>2, <2>4, StoreExtends, Zenon
    <3> QED
      BY <2>2, <3>1, Zenon
  <2>6. appends' = appends /\ served' = served
    BY <1>10 DEF ReplicateStore
  <2> QED
    BY <1>10, <2>1, <2>2, <2>3, <2>5, <2>6, LogStore, Zenon
<1>11. ASSUME NEW r \in reps, ReplicateStep(r) PROVE LogInv(i)'
  <2>1. CASE ReplicateCheck(r)
    BY <1>9, <2>1, LogCalls, Zenon DEF ReplicateCheck, walVars
  <2>2. CASE ReplicateStore(r) /\ ~ Accepts(r.peer, r.start)
    BY <1>9, <2>2, LogCalls, Zenon DEF ReplicateStore, walVars
  <2>3. CASE ReplicateRecord(r)
    BY <1>9, <2>3, LogCalls, ZenonT(30) DEF ReplicateRecord, walVars
  <2> QED
    BY <1>10, <1>11, <2>1, <2>2, <2>3 DEF ReplicateStep
<1>12. ASSUME NEW n \in Node, NEW cursor \in Lsn, HandleRead(n, cursor) PROVE LogInv(i)'
  <2> DEFINE from == IF cursor > start_lsn[n] THEN cursor ELSE start_lsn[n]
  <2>1. /\ start_lsn[n] \in Nat /\ flush_lsn[n] \in Lsn /\ cursor \in Nat /\ CommitLsn(n) \in Lsn
    BY CommitReached DEF SkTypeOK, Lsn
  <2>2. CommitLsn(n) <= flush_lsn[n]
    BY <1>12, Zenon DEF HandleRead
  <2>3. ASSUME NEW l \in from..(CommitLsn(n) - 1)
        PROVE  l \in Lsn /\ wal[n][l] # 0 /\ wal[n][l] = wal[i][l]
    <3>0. l \in Nat /\ start_lsn[n] <= l /\ l < CommitLsn(n)
      <4>1. from \in Nat /\ start_lsn[n] <= from
        BY <2>1, LaterOf, Zenon
      <4>2. CommitLsn(n) \in Nat
        BY <2>1 DEF Lsn
      <4> HIDE DEF from
      <4>3. l \in Nat /\ from <= l /\ l < CommitLsn(n)
        BY <4>1, <4>2, IntervalBounds, Zenon
      <4>4. start_lsn[n] <= l
        BY <2>1, <4>1, <4>3, LessTransitive, ZenonT(30)
      <4> QED
        BY <4>3, <4>4, ZenonT(30)
    <3>4. l < flush_lsn[n]
      BY <2>1, <2>2, <3>0 DEF Lsn
    <3>5. l \in Lsn
      <4>1. CommitLsn(n) \in Nat /\ CommitLsn(n) <= MaxLsn
        BY <2>1 DEF Lsn
      <4> QED
        BY <3>0, <4>1, LsnAssumption DEF Lsn
    <3>1. l \in Lsn /\ start_lsn[n] <= l /\ l < flush_lsn[n]
      BY <3>0, <3>4, <3>5
    <3>2. Gapless(n) /\ (wal[n][l] # 0 => wal[n][l] = wal[i][l])
      BY <3>1 DEF LogInv
    <3>3. wal[n][l] # 0
      BY <3>1, <3>2, Zenon DEF Gapless
    <3> QED
      BY <3>1, <3>2, <3>3, Zenon
  <2> DEFINE shown == {<<l, wal[n][l]>> : l \in from..(CommitLsn(n) - 1)}
  <2>6. served' = served \cup shown
    BY <1>12, Zenon DEF HandleRead
  <2>7. \A x \in shown : x[2] # 0 /\ x[2] = wal[i][x[1]]
    <3> DEFINE span == from..(CommitLsn(n) - 1)
    <3>1. \A l \in span : wal[n][l] # 0 /\ wal[n][l] = wal[i][l]
      BY <2>3
    <3>2. shown = {<<l, wal[n][l]>> : l \in span}
      OBVIOUS
    <3> HIDE DEF span, shown
    <3> SUFFICES ASSUME NEW x \in shown PROVE x[2] # 0 /\ x[2] = wal[i][x[1]]
      OBVIOUS
    <3>3. PICK l \in span : x = <<l, wal[n][l]>>
      BY <3>2
    <3>4. x[1] = l /\ x[2] = wal[n][l]
      BY <3>3
    <3> QED
      BY <3>1, <3>4
  <2>8. \A x \in served : x[2] # 0 /\ x[2] = wal[i][x[1]]
    BY DEF LogInv
  <2> HIDE DEF shown
  <2>4. \A x \in served' : x[2] # 0 /\ x[2] = wal[i][x[1]]
    BY <2>6, <2>7, <2>8, Zenon
  <2>5. UNCHANGED <<start_lsn, flush_lsn, wal, appends, reps>>
    BY <1>12 DEF HandleRead, walVars, serviceVars
  <2> QED
    BY <2>4, <2>5, Zenon DEF LogInv, Gapless, AppendLogged
<1>13. ASSUME NEW n \in Node, SkRestart(n) PROVE LogInv(i)'
  BY <1>13, LogCalls DEF SkRestart, walVars
<1> QED
  BY <1>1, <1>2, <1>7, <1>8, <1>11, <1>12, <1>13
     DEF SkNext, skVars, replVars, walVars, serviceVars

(***************************************************************************)
(* As long as compute streams to one safekeeper, no two members ever hold  *)
(* different WAL at one LSN, and no page server is ever served two         *)
(* versions of it, through any restarts, elections and broken connections  *)
(* (handle_append, handle_replicate, handle_read).                         *)
(***************************************************************************)
THEOREM OneIngestLogsAgree ==
    ASSUME NEW i \in Node, Ingest = {i}
    PROVE  SkSpec => [](LogsAgree /\ ServedOnce)
<1> DEFINE Inv == SkTypeOK /\ IdInv /\ FlushInv /\ LogInv(i)
<1>1. SkInit => Inv
  <2> SUFFICES ASSUME SkInit PROVE Inv
    OBVIOUS
  <2>1. SkTypeOK
    BY DEF SkInit, SkTypeOK, Init, TypeOK, Role, Lsn
  <2>2. IdInv /\ FlushInv
    BY DEF SkInit, IdInv, FlushInv
  <2>3. LogInv(i)
    BY DEF SkInit, LogInv, Gapless, Lsn
  <2> QED
    BY <2>1, <2>2, <2>3
<1>2. Inv /\ [SkNext]_skVars => Inv'
  <2> SUFFICES ASSUME Inv, [SkNext]_skVars PROVE Inv'
    OBVIOUS
  <2>1. SkTypeOK' /\ IdInv'
    BY SkTypeStep, IdStep, Zenon
  <2>2. FlushInv'
    BY <2>1, FlushStep, Zenon
  <2>3. LogInv(i)'
    BY LogStep, Zenon
  <2> QED
    BY <2>1, <2>2, <2>3, Zenon
<1>3. Inv => LogsAgree /\ ServedOnce
  <2> SUFFICES ASSUME LogInv(i) PROVE LogsAgree /\ ServedOnce
    OBVIOUS
  <2>1. LogsAgree
    <3> SUFFICES ASSUME NEW n \in Node, NEW m \in Node, NEW l \in Lsn,
                        wal[n][l] # 0, wal[m][l] # 0
                 PROVE  wal[n][l] = wal[m][l]
      BY DEF LogsAgree
    <3>1. \A k \in Node : wal[k][l] # 0 => wal[k][l] = wal[i][l]
      BY DEF LogInv
    <3> QED
      BY <3>1
  <2>2. ServedOnce
    BY Zenon DEF LogInv, ServedOnce
  <2> QED
    BY <2>1, <2>2, Zenon
<1> QED
  BY <1>1, <1>2, <1>3, PTL DEF SkSpec

(***************************************************************************)
(* As long as compute streams to one safekeeper, page servers are never    *)
(* served two versions of one LSN, by whichever members they read from     *)
(* (handle_read).                                                          *)
(***************************************************************************)
THEOREM OneIngestServesOnce ==
    ASSUME NEW i \in Node, Ingest = {i}
    PROVE  SkSpec => []ServedOnce
<1>1. SkSpec => [](LogsAgree /\ ServedOnce)
  BY OneIngestLogsAgree
<1> QED
  BY <1>1, PTL
=============================================================================
