------------------------------ MODULE WalRedo ------------------------------
(***************************************************************************)
(* PostgresRedoManager: readers that rebuild pages from versions, some of  *)
(* which only a child process can apply.  One child serves every reader    *)
(* behind a mutex, over a pair of pipes; it may die, refuse a record or    *)
(* write something that is no reply.                                       *)
(*                                                                         *)
(* A page is the sequence of the versions applied to it, <<>> the zeroed   *)
(* page, so two pages are equal exactly when they were built alike.        *)
(***************************************************************************)
EXTENDS Naturals, Sequences

CONSTANTS
  Reader,         \* callers of reconstruct
  MaxReads,       \* bound: reads of one caller
  MaxRedoFaults   \* bound: child deaths, stray output, refusals, failed spawns

ASSUME RedoAssumption == MaxReads \in Nat /\ MaxRedoFaults \in Nat

VARIABLES
  pc,         \* Reader -> "idle", "run", "lock", "attempt", "reply" or "done"
  asked,      \* Reader -> the versions of its read
  job,        \* Reader -> [rest, page, have, pending], local to reconstruct
  attempt,    \* Reader -> attempts of redo_page so far
  result,     \* Reader -> what its last read returned
  reads,      \* Reader -> reads begun
  owner,      \* holder of the mutex, <<>> when free
  proc,       \* the child: <<>>, or <<[alive, sound, inq, outq]>>; sound is
              \* history: it neither died nor wrote anything stray
  redoFaults,
  strikes,    \* history: Reader -> children that were or became unsound
              \* since its read began
  refused     \* history: readers one of whose requests the child refused

callerVars == <<pc, asked, job, attempt, result, reads>>
redoVars == <<callerVars, owner, proc, redoFaults, strikes, refused>>

-----------------------------------------------------------------------------
(* Pages and versions. *)

is_base(v) == v.is = "image" \/ (v.is = "rec" /\ v.init)

Native(v) == v.is # "rec"

(* Position of the last base version, 0 when there is none. *)
LastBase(vs) ==
  LET bases == {i \in DOMAIN vs : is_base(vs[i])}
  IN IF bases = {} THEN 0 ELSE CHOOSE i \in bases : \A j \in bases : j <= i

apply_to(page, v) == IF v.is = "image" THEN <<v>> ELSE Append(page, v)

(* What a reader must get: the last base and everything after it. *)
Rebuilt(vs) == SubSeq(vs, LastBase(vs), Len(vs))

-----------------------------------------------------------------------------
(* walredo_proto: what goes over the pipes. *)

RecordCells(recs) == [i \in 1..Len(recs) |-> [is |-> "record", rec |-> recs[i]]]

RedoRequest_encode(req) ==
  LET n == [is |-> "n", n |-> Len(req.records)]
  IN (IF req.base # <<>>
      THEN <<[is |-> "WRD1", has_base |-> TRUE], [is |-> "page", page |-> req.base], n>>
      ELSE <<[is |-> "WRD1", has_base |-> FALSE], n>>) \o RecordCells(req.records)

(* Read by its flag and its count, as the child does. *)
RedoRequest_decode(s) ==
  LET q == IF s[1].has_base THEN 3 ELSE 2
  IN [base |-> IF s[1].has_base THEN s[2].page ELSE <<>>,
      records |-> [i \in 1..s[q].n |-> s[q + i].rec],
      cells |-> q + s[q].n]

RedoResponse_encode(resp) ==
  IF resp.ok
  THEN <<[is |-> "WRR1", ok |-> TRUE], [is |-> "page", page |-> resp.page]>>
  ELSE <<[is |-> "WRR1", ok |-> FALSE], [is |-> "message"]>>

-----------------------------------------------------------------------------
(* reconstruct: its loop, one version at a time. *)

Return(r, what) ==
  /\ pc' = [pc EXCEPT ![r] = "done"]
  /\ result' = [result EXCEPT ![r] = what]

Job(rest, page, have, pending) ==
  [rest |-> rest, page |-> page, have |-> have, pending |-> pending]

NoJob == Job(<<>>, <<>>, FALSE, <<>>)

(* The base version is the first to go over the zeroed page. *)
Start(vs) == Job(SubSeq(vs, LastBase(vs), Len(vs)), <<>>, FALSE, <<>>)

(* A record joins those pending. *)
Push(r) ==
  /\ pc[r] = "run"
  /\ job[r].rest # <<>>
  /\ ~ Native(Head(job[r].rest))
  /\ job' = [job EXCEPT ![r] =
               Job(Tail(@.rest), @.page, @.have, Append(@.pending, Head(@.rest)))]
  /\ UNCHANGED <<pc, result>>

(* A native version is applied here, unless there are records to flush first. *)
Apply(r) ==
  /\ pc[r] = "run"
  /\ job[r].rest # <<>>
  /\ Native(Head(job[r].rest))
  /\ job[r].pending = <<>>
  /\ job' = [job EXCEPT ![r] =
               Job(Tail(@.rest), apply_to(@.page, Head(@.rest)), TRUE, <<>>)]
  /\ UNCHANGED <<pc, result>>

(* flush, before a native version and at the end: on to redo_page. *)
Flush(r) ==
  /\ pc[r] = "run"
  /\ job[r].pending # <<>>
  /\ job[r].rest # <<>> => Native(Head(job[r].rest))
  /\ pc' = [pc EXCEPT ![r] = "lock"]
  /\ UNCHANGED <<job, result>>

Finish(r) ==
  /\ pc[r] = "run"
  /\ job[r].rest = <<>>
  /\ job[r].pending = <<>>
  /\ Return(r, [is |-> "page", page |-> job[r].page])
  /\ UNCHANGED job

Replay(r) ==
  /\ Push(r) \/ Apply(r) \/ Flush(r) \/ Finish(r)
  /\ UNCHANGED <<asked, attempt, reads, owner, proc, redoFaults, strikes, refused>>

(* get_page hands the ordered versions vs to reconstruct. *)
reconstruct(r, vs) ==
  /\ pc[r] \in {"idle", "done"}
  /\ reads[r] < MaxReads
  /\ reads' = [reads EXCEPT ![r] = @ + 1]
  /\ asked' = [asked EXCEPT ![r] = vs]
  /\ strikes' = [strikes EXCEPT ![r] =
                    IF proc # <<>> /\ ~proc[1].sound THEN 1 ELSE 0]
  /\ refused' = refused \ {r}
  /\ IF LastBase(vs) = 0
     THEN Return(r, [is |-> "absent"]) /\ UNCHANGED job
     ELSE /\ job' = [job EXCEPT ![r] = Start(vs)]
          /\ pc' = [pc EXCEPT ![r] = "run"]
          /\ UNCHANGED result
  /\ UNCHANGED <<attempt, owner, proc, redoFaults>>

-----------------------------------------------------------------------------
(* redo_page and exchange, with the mutex held from Lock to the return. *)

Lock(r) ==
  /\ pc[r] = "lock"
  /\ owner = <<>>
  /\ owner' = <<r>>
  /\ attempt' = [attempt EXCEPT ![r] = 0]
  /\ pc' = [pc EXCEPT ![r] = "attempt"]
  /\ UNCHANGED <<asked, job, result, reads, proc, redoFaults, strikes, refused>>

Proc(alive, sound, inq, outq) ==
  [alive |-> alive, sound |-> sound, inq |-> inq, outq |-> outq]

Spawned == Proc(TRUE, TRUE, <<>>, <<>>)

Child == IF proc = <<>> THEN Spawned ELSE proc[1]

Request(r) ==
  [base |-> IF job[r].have THEN job[r].page ELSE <<>>,
   records |-> job[r].pending]

(* Mutant: the child is kept, with what it wrote behind the bad header. *)
AttemptFails_Kept(r) ==
  /\ proc' = IF Child.outq = <<>> THEN proc
             ELSE <<[Child EXCEPT !.outq = Tail(@)]>>
  /\ attempt' = [attempt EXCEPT ![r] = @ + 1]
  /\ IF attempt[r] = 1
     THEN Return(r, [is |-> "process"]) /\ owner' = <<>>
     ELSE /\ pc' = [pc EXCEPT ![r] = "attempt"]
          /\ UNCHANGED <<result, owner>>
  /\ UNCHANGED job

(* The child is dropped, and the request tried once more. *)
AttemptFails(r) ==
  /\ proc' = <<>>
  /\ attempt' = [attempt EXCEPT ![r] = @ + 1]
  /\ IF attempt[r] = 1
     THEN Return(r, [is |-> "process"]) /\ owner' = <<>>
     ELSE /\ pc' = [pc EXCEPT ![r] = "attempt"]
          /\ UNCHANGED <<result, owner>>
  /\ UNCHANGED job

(* Spawn the child if there is none, and write the request. *)
WriteRequest(r) ==
  /\ pc[r] = "attempt"
  /\ IF Child.alive
     THEN /\ proc' = <<[Child EXCEPT !.inq = @ \o RedoRequest_encode(Request(r))]>>
          /\ pc' = [pc EXCEPT ![r] = "reply"]
          /\ UNCHANGED <<job, attempt, result, owner>>
     ELSE AttemptFails(r)
  /\ UNCHANGED <<asked, reads, redoFaults, strikes, refused>>

SpawnFails(r) ==
  /\ pc[r] = "attempt"
  /\ proc = <<>>
  /\ redoFaults < MaxRedoFaults
  /\ redoFaults' = redoFaults + 1
  /\ Return(r, [is |-> "unspawned"])
  /\ owner' = <<>>
  /\ UNCHANGED <<asked, job, attempt, reads, proc, strikes, refused>>

(* The reply is there in full. *)
Answered(out) == Len(out) >= 2 /\ out[1].is = "WRR1"

(* Mutant: the end of the child's output goes unnoticed. *)
Garbled_NoEof(out) == out # <<>> /\ out[1].is # "WRR1"

(* Nothing more can come, or what came is no reply. *)
Garbled(out) == \/ out # <<>> /\ out[1].is # "WRR1"
                \/ Len(out) < 2 /\ ~proc[1].alive

ReadReply(r) ==
  LET out == proc[1].outq
      rest == <<[proc[1] EXCEPT !.outq = SubSeq(@, 3, Len(@))]>>
  IN /\ pc[r] = "reply"
     /\ \/ /\ Garbled(out)
           /\ AttemptFails(r)
        \/ /\ Answered(out)
           /\ out[1].ok
           /\ proc' = rest
           /\ owner' = <<>>
           /\ job' = [job EXCEPT ![r] = Job(@.rest, out[2].page, TRUE, <<>>)]
           /\ pc' = [pc EXCEPT ![r] = "run"]
           /\ UNCHANGED <<result, attempt>>
        \/ /\ Answered(out)
           /\ ~out[1].ok
           /\ proc' = rest
           /\ owner' = <<>>
           /\ Return(r, [is |-> "refused"])
           /\ UNCHANGED <<job, attempt>>
     /\ UNCHANGED <<asked, reads, redoFaults, strikes, refused>>

ReaderStep(r) == Replay(r) \/ Lock(r) \/ WriteRequest(r) \/ SpawnFails(r) \/ ReadReply(r)

-----------------------------------------------------------------------------
(* The child. *)

(* Each record applied in turn to the base page, or to a zeroed one. *)
Applied(req) == req.base \o req.records

Reply(resp) ==
  LET req == RedoRequest_decode(proc[1].inq)
  IN proc' = <<Proc(TRUE, proc[1].sound,
                    SubSeq(proc[1].inq, req.cells + 1, Len(proc[1].inq)),
                    proc[1].outq \o RedoResponse_encode(resp))>>

Waiting == proc # <<>> /\ proc[1].alive /\ proc[1].inq # <<>>

Serve ==
  /\ Waiting
  /\ Reply([ok |-> TRUE, page |-> Applied(RedoRequest_decode(proc[1].inq))])
  /\ UNCHANGED <<callerVars, owner, redoFaults, strikes, refused>>

Fault ==
  /\ redoFaults < MaxRedoFaults
  /\ redoFaults' = redoFaults + 1

(* A record the child cannot apply. *)
Refuse ==
  /\ Waiting
  /\ Fault
  /\ Reply([ok |-> FALSE])
  /\ refused' = refused \cup {r \in Reader : owner = <<r>>}
  /\ UNCHANGED <<callerVars, owner, strikes>>

Unsound ==
  strikes' = IF proc[1].sound THEN [r \in Reader |-> strikes[r] + 1] ELSE strikes

(* The child exits or is killed; of its unread output a prefix arrives. *)
Die ==
  /\ proc # <<>>
  /\ proc[1].alive
  /\ Fault
  /\ \E k \in 0..Len(proc[1].outq) :
       proc' = <<Proc(FALSE, FALSE, <<>>, SubSeq(proc[1].outq, 1, k))>>
  /\ Unsound
  /\ UNCHANGED <<callerVars, owner, refused>>

(* The child writes something that is not a reply. *)
Stray ==
  /\ proc # <<>>
  /\ proc[1].alive
  /\ Fault
  /\ proc' = <<Proc(TRUE, FALSE, proc[1].inq, Append(proc[1].outq, [is |-> "stray"]))>>
  /\ Unsound
  /\ UNCHANGED <<callerVars, owner, refused>>

RedoInit ==
  /\ pc = [r \in Reader |-> "idle"]
  /\ asked = [r \in Reader |-> <<>>]
  /\ job = [r \in Reader |-> NoJob]
  /\ attempt = [r \in Reader |-> 0]
  /\ result = [r \in Reader |-> [is |-> "none"]]
  /\ reads = [r \in Reader |-> 0]
  /\ owner = <<>>
  /\ proc = <<>>
  /\ redoFaults = 0
  /\ strikes = [r \in Reader |-> 0]
  /\ refused = {}

(* Readers of any histories made of a set of versions. *)
RedoNext(Version) ==
  \/ \E r \in Reader : ReaderStep(r) \/ \E vs \in Seq(Version) : reconstruct(r, vs)
  \/ Serve \/ Refuse \/ Die \/ Stray

RedoSpec(Version) == RedoInit /\ [][RedoNext(Version)]_redoVars

-----------------------------------------------------------------------------

(* A read returns the page its own versions make, whatever other readers,  *)
(* earlier replies and dying children do; it finds no page only when there *)
(* is no base version; it reports a refusal only of its own request; and   *)
(* one bad child, even one found dead, never fails it (redo_page drops the *)
(* child after a pipe or protocol failure and tries once more).            *)
RedoExact ==
  \A r \in Reader : pc[r] = "done" =>
    CASE result[r].is = "page" -> LastBase(asked[r]) > 0
                                  /\ result[r].page = Rebuilt(asked[r])
      [] result[r].is = "absent" -> LastBase(asked[r]) = 0
      [] result[r].is = "refused" -> r \in refused
      [] result[r].is = "process" -> strikes[r] >= 2
      [] OTHER -> TRUE

(* Every read returns, provided that a child which does not die answers:   *)
(* exchange has no timeout, so the mutex is held until it does.            *)
EveryReadReturns ==
  \A r \in Reader : (pc[r] = "run") ~> (pc[r] = "done")

=============================================================================
