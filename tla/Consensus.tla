------------------------------ MODULE Consensus ------------------------------
(***************************************************************************)
(* Leadership of a safekeeper group: the term, role and vote state of      *)
(* safekeeper/src/consensus.rs, driven by the vote handler and the         *)
(* election task of safekeeper/src/server.rs.                              *)
(*                                                                         *)
(* Every node runs `handle_vote` for the requests that reach it and may    *)
(* run any number of `run_election` tasks.  An election asks the peers one *)
(* after the other, one TCP connection per request, and awaits the answer  *)
(* before it turns to the next peer; all locks are released in between.    *)
(* A request or an answer can be lost, and a request whose sender has      *)
(* given up (or crashed) may still be handled.  Nothing of this state is   *)
(* written to disk: a restarted node is `Consensus::new` again.            *)
(***************************************************************************)
EXTENDS Naturals, FiniteSets

CONSTANTS
    Node,         \* the members of the group (NodeId)
    Candidate,    \* the members on which run_election is called
    None,         \* Option::None
    MaxTerm,      \* bound: no election starts beyond this term
    MaxRestarts   \* bound: restarts of each node

ASSUME NodeAssumption == IsFiniteSet(Node) /\ Node # {} /\ None \notin Node
ASSUME CandidateAssumption == Candidate \subseteq Node
ASSUME BoundAssumption == MaxTerm \in Nat /\ MaxRestarts \in Nat

VARIABLES
    term,         \* Consensus::term of each node
    role,         \* Consensus::role
    voted_for,    \* Consensus::voted_for
    votes,        \* Consensus::votes: the grants a candidate has counted
    elections,    \* the run_election tasks in progress
    rpcs,         \* the vote requests in flight, with the answer once given
    restarts,     \* how often each node restarted: tells its lives apart
    ballots,      \* history: <<voter, term, candidate>> of every vote ever given
    elected       \* history: <<node, term>> of every leadership ever assumed

nodeVars == <<term, role, voted_for, votes>>
historyVars == <<ballots, elected>>
vars == <<nodeVars, elections, rpcs, restarts, historyVars>>

Role == {"Follower", "Candidate", "Leader"}

Quorum_HalfIsEnough == Cardinality(Node) \div 2
Quorum == Cardinality(Node) \div 2 + 1

\* A task asks the peers in todo; `at` is the peer whose answer it awaits.
Election == [cand : Node, term : Nat, todo : SUBSET Node, at : Node \cup {None}]

\* `life` is the value of restarts[cand] when the request was sent.
Rpc == [cand : Node, life : Nat, term : Nat, peer : Node,
        reply : {"none", "granted", "denied"}]

(***************************************************************************)
(* Each field of a node in its declared range.                             *)
(***************************************************************************)
TypeOK ==
    /\ term \in [Node -> Nat]
    /\ role \in [Node -> Role]
    /\ voted_for \in [Node -> Node \cup {None}]
    /\ votes \in [Node -> SUBSET Node]
    /\ elections \subseteq Election
    /\ rpcs \subseteq Rpc
    /\ restarts \in [Node -> Nat]
    /\ ballots \subseteq Node \X Nat \X Node
    /\ elected \subseteq Node \X Nat

Init ==
    /\ term = [n \in Node |-> 0]
    /\ role = [n \in Node |-> "Follower"]
    /\ voted_for = [n \in Node |-> None]
    /\ votes = [n \in Node |-> {}]
    /\ elections = {}
    /\ rpcs = {}
    /\ restarts = [n \in Node |-> 0]
    /\ ballots = {}
    /\ elected = {}
-----------------------------------------------------------------------------
\* maybe_become_leader, on the votes a candidate now holds.
BecomesLeader(held) == Cardinality(held) >= Quorum

CountVotes(n, t, held) ==
    /\ votes' = [votes EXCEPT ![n] = held]
    /\ role' = [role EXCEPT ![n] =
                    IF BecomesLeader(held) THEN "Leader" ELSE "Candidate"]
    /\ elected' = elected \cup (IF BecomesLeader(held) THEN {<<n, t>>} ELSE {})

\* run_election takes the lock for start_election: a new term, a vote for
\* oneself (already a quorum in a group of one), then peers are asked.
StartElection(n) ==
    /\ term[n] < MaxTerm
    /\ term' = [term EXCEPT ![n] = @ + 1]
    /\ voted_for' = [voted_for EXCEPT ![n] = n]
    /\ CountVotes(n, term[n] + 1, {n})
    /\ ballots' = ballots \cup {<<n, term[n] + 1, n>>}
    /\ elections' = elections \cup
            {[cand |-> n, term |-> term[n] + 1, todo |-> Node \ {n}, at |-> None]}
    /\ UNCHANGED <<rpcs, restarts>>

RpcOf(e, p, reply) ==
    [cand |-> e.cand, life |-> restarts[e.cand], term |-> e.term,
     peer |-> p, reply |-> reply]

\* The task after it is done with the peer it was waiting for.
Resume(e) == elections' = (elections \ {e}) \cup {[e EXCEPT !.at = None]}

\* request_vote: connect to the next peer and send the request.
RequestVote(e, p) ==
    /\ e.at = None
    /\ p \in e.todo
    /\ elections' = (elections \ {e}) \cup
            {[cand |-> e.cand, term |-> e.term, todo |-> e.todo \ {p}, at |-> p]}
    /\ rpcs' = rpcs \cup {RpcOf(e, p, "none")}
    /\ UNCHANGED <<nodeVars, restarts, historyVars>>

\* observe_term: a higher term is adopted, and with it an open vote.
Newer_OrEqual(n, t) == t >= term[n]
Newer(n, t) == t > term[n]

\* The vote a node is still bound by once observe_term has seen term t.
VoteAfterObserve_NodeZero(n, t) == IF Newer(n, t) THEN 0 ELSE voted_for[n]
VoteAfterObserve(n, t) == IF Newer(n, t) THEN None ELSE voted_for[n]

Grants_AnyCandidate(n, t, c) == t >= term[n]
Grants(n, t, c) == t >= term[n] /\ VoteAfterObserve(n, t) \in {None, c}

\* handle_vote needs the consensus lock, which no election holds while it waits.
CanHandle_LockHeldAcrossAwait(r) ==
    r.reply = "none" /\ \A e \in elections : e.cand # r.peer
CanHandle(r) == r.reply = "none"

\* The election that sent r still holds the connection open for the answer.
Awaited(r) ==
    /\ r.life = restarts[r.cand]
    /\ \E e \in elections : e.cand = r.cand /\ e.term = r.term /\ e.at = r.peer

\* handle_vote: observe_term, then at most one vote for the term.
HandleVote(r) ==
    LET n == r.peer
        newer == Newer(n, r.term)
        granted == Grants(n, r.term, r.cand)
    IN  /\ CanHandle(r)
        /\ term' = [term EXCEPT ![n] = IF newer THEN r.term ELSE @]
        /\ role' = [role EXCEPT ![n] = IF newer THEN "Follower" ELSE @]
        /\ votes' = [votes EXCEPT ![n] = IF newer THEN {} ELSE @]
        /\ voted_for' = [voted_for EXCEPT ![n] =
                IF granted THEN r.cand ELSE VoteAfterObserve(n, r.term)]
        /\ ballots' = ballots \cup (IF granted THEN {<<n, r.term, r.cand>>} ELSE {})
        /\ rpcs' = (rpcs \ {r}) \cup
                IF Awaited(r)
                THEN {[r EXCEPT !.reply = IF granted THEN "granted" ELSE "denied"]}
                ELSE {}
        /\ UNCHANGED <<elections, restarts, elected>>

StillCandidate_AnyTerm(e) == role[e.cand] = "Candidate"
StillCandidate(e) == e.term = term[e.cand] /\ role[e.cand] = "Candidate"

\* A grant arrives: handle_vote_granted counts it if this node is still the
\* candidate of that term.
ReceiveGrant(e) ==
    /\ e.at # None
    /\ RpcOf(e, e.at, "granted") \in rpcs
    /\ rpcs' = rpcs \ {RpcOf(e, e.at, "granted")}
    /\ Resume(e)
    /\ \/ /\ StillCandidate(e)
          /\ CountVotes(e.cand, term[e.cand], votes[e.cand] \cup {e.at})
       \/ /\ ~ StillCandidate(e)
          /\ UNCHANGED <<votes, role, elected>>
    /\ UNCHANGED <<term, voted_for, restarts, ballots>>

\* A denial arrives: only logged, the voter's term in it is not looked at.
ReceiveDenial(e) ==
    /\ e.at # None
    /\ RpcOf(e, e.at, "denied") \in rpcs
    /\ rpcs' = rpcs \ {RpcOf(e, e.at, "denied")}
    /\ Resume(e)
    /\ UNCHANGED <<nodeVars, restarts, historyVars>>

\* request_vote returns an error: the peer was never reached, or the
\* connection broke before the answer.  A request not yet handled may still be.
RequestFails(e) ==
    /\ e.at # None
    /\ Resume(e)
    /\ \/ rpcs' = rpcs \ {RpcOf(e, e.at, x) : x \in {"granted", "denied"}}
       \/ rpcs' = rpcs \ {RpcOf(e, e.at, x) : x \in {"none", "granted", "denied"}}
    /\ UNCHANGED <<nodeVars, restarts, historyVars>>

\* Every peer has been asked: run_election returns is_leader().
FinishElection(e) ==
    /\ e.at = None
    /\ e.todo = {}
    /\ elections' = elections \ {e}
    /\ UNCHANGED <<nodeVars, rpcs, restarts, historyVars>>

\* The process dies and main starts it again with Consensus::new.  Its tasks
\* are gone, and so are the connections it had not answered on.
Restart(n) ==
    /\ restarts[n] < MaxRestarts
    /\ restarts' = [restarts EXCEPT ![n] = @ + 1]
    /\ term' = [term EXCEPT ![n] = 0]
    /\ role' = [role EXCEPT ![n] = "Follower"]
    /\ voted_for' = [voted_for EXCEPT ![n] = None]
    /\ votes' = [votes EXCEPT ![n] = {}]
    /\ elections' = {e \in elections : e.cand # n}
    /\ rpcs' = {r \in rpcs : IF r.reply = "none" THEN r.peer # n ELSE r.cand # n}
    /\ UNCHANGED historyVars

ElectionStep(e) ==
    \/ \E p \in Node : RequestVote(e, p)
    \/ ReceiveGrant(e)
    \/ ReceiveDenial(e)
    \/ RequestFails(e)
    \/ FinishElection(e)

\* Everything but crashes.
Step ==
    \/ \E n \in Candidate : StartElection(n)
    \/ \E e \in elections : ElectionStep(e)
    \/ \E r \in rpcs : HandleVote(r)

Next == Step \/ \E n \in Node : Restart(n)

Spec == Init /\ [][Next]_vars
CrashFreeSpec == Init /\ [][Step]_vars

\* Every step of an election but an I/O error, which nothing makes happen.
Progress(n, t) ==
    \E e \in elections :
        /\ e.cand = n
        /\ e.term = t
        /\ \/ \E p \in Node : RequestVote(e, p)
           \/ ReceiveGrant(e)
           \/ ReceiveDenial(e)
           \/ FinishElection(e)

\* The runtime polls a task whose socket is ready, on both sides.
Fairness ==
    /\ \A n \in Node, t \in 1..MaxTerm : WF_vars(Progress(n, t))
    /\ \A n \in Node : WF_vars(\E r \in rpcs : r.peer = n /\ HandleVote(r))

-----------------------------------------------------------------------------
Voters(c, t) == {v \in Node : <<v, t, c>> \in ballots}

(***************************************************************************)
(* A safekeeper votes for at most one candidate per term, its own          *)
(* candidacy included (handle_vote_request, start_election).               *)
(***************************************************************************)
OneVotePerTerm ==
    \A a, b \in ballots : a[1] = b[1] /\ a[2] = b[2] => a[3] = b[3]

(***************************************************************************)
(* Two nodes never lead the same term, not even at different moments       *)
(* (maybe_become_leader).                                                  *)
(***************************************************************************)
ElectionSafety ==
    \A a, b \in elected : a[2] = b[2] => a[1] = b[1]

(***************************************************************************)
(* A leadership rests on votes that a majority really gave for that very   *)
(* term: no late or foreign grant is ever counted (handle_vote_granted).   *)
(***************************************************************************)
ElectedByQuorum ==
    \A x \in elected : Cardinality(Voters(x[1], x[2])) >= Quorum

(***************************************************************************)
(* Terms only grow, and within a term neither a vote nor a leadership is   *)
(* taken back (observe_term clears both only for a higher term).           *)
(***************************************************************************)
StableWithinTerm ==
    [][\A n \in Node :
          /\ term'[n] >= term[n]
          /\ term'[n] = term[n] =>
                /\ voted_for[n] # None => voted_for'[n] = voted_for[n]
                /\ role[n] = "Leader" => role'[n] = "Leader"]_vars

(***************************************************************************)
(* run_election always returns, also when several candidates wait for each *)
(* other's vote at the same time: no lock is held across the await.        *)
(***************************************************************************)
EveryElectionReturns ==
    \A n \in Node, t \in 1..MaxTerm :
        (\E e \in elections : e.cand = n /\ e.term = t)
            ~> (\A e \in elections : ~ (e.cand = n /\ e.term = t))
=============================================================================
