---------------------------- MODULE RedoProofs ----------------------------
(***************************************************************************)
(* Readers that share one wal-redo child get exactly their own pages, for  *)
(* any number of readers and reads, any histories and whatever the child   *)
(* does: RedoExact of WalRedo.                                             *)
(***************************************************************************)
EXTENDS WalRedo, TLAPS, SequenceTheorems, WellFoundedInduction

CONSTANT Version   \* what histories are made of

\* Leaves that cite no prover may take their time: SMT first, then Zenon.
USE SMTT(30), Zenon

-----------------------------------------------------------------------------
(* Types. *)

JobType == [rest : Seq(Version), page : Seq(Version), have : BOOLEAN,
            pending : Seq(Version)]

InCell == [is : {"WRD1"}, has_base : BOOLEAN] \cup [is : {"page"}, page : Seq(Version)]
            \cup [is : {"n"}, n : Nat] \cup [is : {"record"}, rec : Version]

OutCell == [is : {"WRR1"}, ok : BOOLEAN] \cup [is : {"page"}, page : Seq(Version)]
             \cup [is : {"message", "stray"}]

ProcType == [alive : BOOLEAN, sound : BOOLEAN, inq : Seq(InCell), outq : Seq(OutCell)]

Outcome == [is : {"page"}, page : Seq(Version)]
             \cup [is : {"none", "absent", "refused", "process", "unspawned"}]

RedoTypeOK ==
  /\ pc \in [Reader -> {"idle", "run", "lock", "attempt", "reply", "done"}]
  /\ asked \in [Reader -> Seq(Version)]
  /\ job \in [Reader -> JobType]
  /\ attempt \in [Reader -> Nat]
  /\ result \in [Reader -> Outcome]
  /\ owner \in {<<>>} \cup {<<r>> : r \in Reader}
  /\ proc \in {<<>>} \cup {<<p>> : p \in ProcType}
  /\ strikes \in [Reader -> Nat]
  /\ refused \subseteq Reader

-----------------------------------------------------------------------------
(* The inductive invariant. *)

Active(r) == pc[r] \in {"run", "lock", "attempt", "reply"}

Holds(r) == pc[r] \in {"attempt", "reply"}

(* What is applied, pending and to come make up the page that is asked for, *)
(* and only the base can be an image.                                       *)
JobOK(r) ==
  Active(r) =>
    /\ LastBase(asked[r]) > 0
    /\ (job[r].page \o job[r].pending) \o job[r].rest = Rebuilt(asked[r])
    /\ \A i \in 1..Len(job[r].rest) : job[r].rest[i].is = "image" =>
         i = 1 /\ job[r].page = <<>> /\ job[r].pending = <<>>
    /\ ~ job[r].have => job[r].page = <<>>

(* The mutex is held over the attempts of redo_page, of which there are two. *)
LockOK(r) ==
  /\ Holds(r) <=> owner = <<r>>
  /\ Holds(r) => attempt[r] \in {0, 1}
  /\ pc[r] = "reply" => proc # <<>>

(* Every failed attempt of a read, and the bad child it may meet next, was  *)
(* counted.                                                                 *)
Bad == proc # <<>> /\ ~ proc[1].sound

StrikesOK(r) ==
  /\ Active(r) /\ Bad => strikes[r] >= 1
  /\ Holds(r) => strikes[r] >= attempt[r]
  /\ Holds(r) /\ Bad => strikes[r] >= attempt[r] + 1

(* The output does not begin with a reply. *)
NoReply(out) == out # <<>> => out[1].is # "WRR1"

(* It begins with the reply to what r asked, and holds no other. *)
ReplyTo(r, out) ==
  /\ Len(out) >= 2 /\ out[1].ok => out[2].page = Applied(Request(r))
  /\ Len(out) >= 2 /\ ~ out[1].ok => r \in refused
  /\ \A i \in 3..Len(out) : out[i].is # "WRR1"

(* What is in the pipes is of the reader that awaits its reply. *)
PipeOK(p) ==
  /\ p.inq # <<>> =>
       /\ NoReply(p.outq)
       /\ \E r \in Reader : pc[r] = "reply" /\ p.inq = RedoRequest_encode(Request(r))
  /\ ~ NoReply(p.outq) =>
       /\ p.alive => Len(p.outq) >= 2
       /\ \E r \in Reader : pc[r] = "reply" /\ ReplyTo(r, p.outq)
  /\ p.sound => p.alive /\ Len(p.outq) \in {0, 2} /\ (p.outq # <<>> => ~ NoReply(p.outq))

PipeInv == proc # <<>> => PipeOK(proc[1])

(* RedoExact of one reader. *)
ExactOf(r) ==
  pc[r] = "done" =>
    /\ result[r].is = "page" => LastBase(asked[r]) > 0 /\ result[r].page = Rebuilt(asked[r])
    /\ result[r].is = "absent" => LastBase(asked[r]) = 0
    /\ result[r].is = "refused" => r \in refused
    /\ result[r].is = "process" => strikes[r] >= 2

ReaderOK(r) == JobOK(r) /\ LockOK(r) /\ StrikesOK(r) /\ ExactOf(r)

RedoInv == RedoTypeOK /\ PipeInv /\ \A r \in Reader : ReaderOK(r)

-----------------------------------------------------------------------------
(* Sequences. *)

\* A set of positions has a last one (rposition).
LEMMA LastPosition ==
  ASSUME NEW n \in Nat, NEW S \in SUBSET (1..n), S # {}
  PROVE  \E k \in S : \A l \in S : l <= k
<1> DEFINE T == {n - l : l \in S}
<1>1. T \in SUBSET Nat /\ T # {}
  <2>1. \A l \in S : n - l \in Nat
    OBVIOUS
  <2> QED
    BY <2>1, Zenon
<1>2. PICK x \in T : \A y \in T : ~ (<<y, x>> \in OpToRel(<, Nat))
  BY <1>1, WFMin, NatLessThanWellFounded, Zenon
<1>3. \A y \in T : ~ (y < x)
  BY <1>1, <1>2, Zenon DEF OpToRel
<1>4. PICK k \in S : x = n - k
  BY <1>2, Zenon
<1>5. \A l \in S : ~ (n - l < n - k)
  BY <1>3, <1>4
<1> QED
  BY <1>5

\* Nothing after the last base is a base.
LEMMA LastBaseFacts ==
  ASSUME NEW vs \in Seq(Version)
  PROVE  /\ LastBase(vs) \in 0..Len(vs)
         /\ \A j \in (LastBase(vs) + 1)..Len(vs) : ~ is_base(vs[j])
<1> DEFINE bases == {i \in DOMAIN vs : is_base(vs[i])}
<1>1. DOMAIN vs = 1..Len(vs) /\ Len(vs) \in Nat
  OBVIOUS
<1>2. bases \in SUBSET (1..Len(vs))
  BY <1>1
<1>3. CASE bases = {}
  <2>1. LastBase(vs) = 0
    BY <1>3 DEF LastBase
  <2>2. \A j \in 1..Len(vs) : ~ is_base(vs[j])
    BY <1>1, <1>3
  <2> QED
    BY <1>1, <2>1, <2>2
<1>4. CASE bases # {}
  <2>1. LastBase(vs) = CHOOSE i \in bases : \A j \in bases : j <= i
    BY <1>4 DEF LastBase
  <2>2. \E i \in bases : \A j \in bases : j <= i
    BY <1>1, <1>2, <1>4, LastPosition, Zenon
  <2>3. LastBase(vs) \in bases /\ \A j \in bases : j <= LastBase(vs)
    BY <2>1, <2>2
  <2>4. LastBase(vs) \in 1..Len(vs)
    BY <1>2, <2>3
  <2>5. ASSUME NEW j \in (LastBase(vs) + 1)..Len(vs) PROVE ~ is_base(vs[j])
    <3>1. j \in 1..Len(vs) /\ ~ (j <= LastBase(vs))
      BY <1>1, <2>4
    <3> QED
      BY <1>1, <2>3, <3>1
  <2> QED
    BY <2>4, <2>5
<1> QED
  BY <1>3, <1>4

\* A read begins with all it needs to come, and only its first can be an image.
LEMMA StartFacts ==
  ASSUME NEW vs \in Seq(Version), LastBase(vs) > 0
  PROVE  /\ Start(vs) \in JobType
         /\ (Start(vs).page \o Start(vs).pending) \o Start(vs).rest = Rebuilt(vs)
         /\ \A i \in 1..Len(Start(vs).rest) : Start(vs).rest[i].is = "image" => i = 1
         /\ ~ Start(vs).have /\ Start(vs).page = <<>> /\ Start(vs).pending = <<>>
<1> DEFINE b == LastBase(vs)
           rest == SubSeq(vs, b, Len(vs))
<1>1. b \in 1..Len(vs) /\ \A j \in (b + 1)..Len(vs) : ~ is_base(vs[j])
  BY LastBaseFacts
<1> HIDE DEF b
<1>2. /\ rest \in Seq(Version) /\ Len(rest) = Len(vs) - b + 1
      /\ \A i \in 1..Len(rest) : rest[i] = vs[b + i - 1]
  BY <1>1
<1>3. Start(vs) = [rest |-> rest, page |-> <<>>, have |-> FALSE, pending |-> <<>>]
  BY DEF Start, Job, b
<1>4. Rebuilt(vs) = rest
  BY DEF Rebuilt, b
<1> HIDE DEF rest
<1>5. (<<>> \o <<>>) \o rest = rest
  <2>1. <<>> \in Seq(Version)
    OBVIOUS
  <2> QED
    BY <1>2, <2>1, ConcatEmptySeq
<1>6. \A i \in 1..Len(rest) : rest[i].is = "image" => i = 1
  <2> SUFFICES ASSUME NEW i \in 1..Len(rest), rest[i].is = "image", i # 1
               PROVE  FALSE
    OBVIOUS
  <2>1. b + i - 1 \in (b + 1)..Len(vs)
    BY <1>1, <1>2
  <2> QED
    BY <1>1, <1>2, <2>1, Zenon DEF is_base
<1> QED
  BY <1>2, <1>3, <1>4, <1>5, <1>6 DEF JobType

LEMMA Assoc ==
  ASSUME NEW u \in Seq(Version), NEW v \in Seq(Version), NEW w \in Seq(Version)
  PROVE  (u \o v) \o w = u \o (v \o w)
<1> DEFINE L == (u \o v) \o w
           R == u \o (v \o w)
<1>1. u \o v \in Seq(Version) /\ v \o w \in Seq(Version)
  OBVIOUS
<1>2. L \in Seq(Version) /\ R \in Seq(Version)
  BY <1>1
<1>3. Len(L) = Len(R) /\ Len(L) = Len(u) + Len(v) + Len(w)
  BY <1>1
<1>4. ASSUME NEW i \in 1..Len(L) PROVE L[i] = R[i]
  <2>1. L[i] = IF i <= Len(u) + Len(v) THEN (u \o v)[i] ELSE w[i - (Len(u) + Len(v))]
    BY <1>1, <1>3
  <2>2. R[i] = IF i <= Len(u) THEN u[i] ELSE (v \o w)[i - Len(u)]
    BY <1>1, <1>3
  <2> QED
    BY <1>3, <2>1, <2>2
<1> QED
  BY <1>2, <1>3, <1>4, SeqEqual

\* A record moves from what is to come to what is pending.
LEMMA PushSeq ==
  ASSUME NEW p \in Seq(Version), NEW q \in Seq(Version), NEW s \in Seq(Version), s # <<>>
  PROVE  (p \o Append(q, Head(s))) \o Tail(s) = (p \o q) \o s
<1> DEFINE h == <<Head(s)>>
<1>1. Head(s) \in Version /\ Tail(s) \in Seq(Version) /\ Len(s) \in Nat \ {0}
  BY HeadTailProperties, EmptySeq
<1>2. h \in Seq(Version)
  BY <1>1
<1>3. Append(q, Head(s)) = q \o h
  BY <1>1, AppendIsConcat
<1>4. h \o Tail(s) = s
  <2>1. h \o Tail(s) \in Seq(Version) /\ Len(h \o Tail(s)) = Len(s)
    BY <1>1, <1>2
  <2>2. \A i \in 1..Len(s) : (h \o Tail(s))[i] = s[i]
    BY <1>1, <1>2
  <2> QED
    BY <2>1, <2>2, SeqEqual
<1>5. p \o (q \o h) = (p \o q) \o h
  BY <1>2, Assoc
<1>6. p \o q \in Seq(Version)
  BY ConcatProperties
<1>7. ((p \o q) \o h) \o Tail(s) = (p \o q) \o (h \o Tail(s))
  BY <1>1, <1>2, <1>6, Assoc
<1> QED
  BY <1>3, <1>4, <1>5, <1>7, Zenon

\* A native version is applied to a page with nothing pending.
LEMMA ApplySeq ==
  ASSUME NEW p \in Seq(Version), NEW s \in Seq(Version), s # <<>>,
         Head(s).is = "image" => p = <<>>
  PROVE  /\ apply_to(p, Head(s)) \in Seq(Version)
         /\ (apply_to(p, Head(s)) \o <<>>) \o Tail(s) = (p \o <<>>) \o s
<1>1. <<>> \in Seq(Version) /\ Head(s) \in Version /\ Tail(s) \in Seq(Version)
  BY HeadTailProperties
<1>2. Append(<<>>, Head(s)) = <<Head(s)>>
  OBVIOUS
<1>3. apply_to(p, Head(s)) = Append(p, Head(s))
  BY <1>2 DEF apply_to
<1>4. Append(p, Head(s)) \in Seq(Version)
  BY <1>1
<1>5. (<<>> \o Append(p, Head(s))) \o Tail(s) = (<<>> \o p) \o s
  BY <1>1, PushSeq
<1>6. /\ Append(p, Head(s)) \o <<>> = Append(p, Head(s)) /\ p \o <<>> = p
      /\ <<>> \o Append(p, Head(s)) = Append(p, Head(s)) /\ <<>> \o p = p
  BY <1>4, ConcatEmptySeq
<1> QED
  BY <1>3, <1>4, <1>5, <1>6, Zenon

-----------------------------------------------------------------------------
(* The pipe protocol. *)

RequestType == [base : Seq(Version), records : Seq(Version)]

\* The child reads back the request that was written, and all of it.
LEMMA DecodeEncode ==
  ASSUME NEW q \in RequestType
  PROVE  LET s == RedoRequest_encode(q)
         IN  /\ s \in Seq(InCell) /\ s # <<>>
             /\ RedoRequest_decode(s).base = q.base
             /\ RedoRequest_decode(s).records = q.records
             /\ RedoRequest_decode(s).cells = Len(s)
<1> DEFINE cells == RecordCells(q.records)
           n == [is |-> "n", n |-> Len(q.records)]
           page == [is |-> "page", page |-> q.base]
           with == [is |-> "WRD1", has_base |-> TRUE]
           bare == [is |-> "WRD1", has_base |-> FALSE]
<1>1. q.base \in Seq(Version) /\ q.records \in Seq(Version) /\ Len(q.records) \in Nat
  BY DEF RequestType
<1>2. /\ cells \in Seq(InCell) /\ Len(cells) = Len(q.records)
      /\ \A i \in 1..Len(q.records) : cells[i].rec = q.records[i]
  <2>1. \A i \in 1..Len(q.records) : [is |-> "record", rec |-> q.records[i]] \in InCell
    BY <1>1 DEF InCell
  <2> QED
    BY <1>1, <2>1 DEF RecordCells
<1>3. n \in InCell /\ page \in InCell /\ with \in InCell /\ bare \in InCell
  BY <1>1 DEF InCell
<1>4. n.n = Len(q.records) /\ page.page = q.base /\ with.has_base /\ ~ bare.has_base
  OBVIOUS
<1>5. RedoRequest_encode(q) =
        (IF q.base # <<>> THEN <<with, page, n>> ELSE <<bare, n>>) \o cells
  BY DEF RedoRequest_encode
<1>6. q.records = [i \in 1..Len(q.records) |-> q.records[i]]
  BY <1>1
<1> HIDE DEF cells, n, page, with, bare
<1>7. CASE q.base # <<>>
  <2> DEFINE s == <<with, page, n>> \o cells
  <2>1. /\ s \in Seq(InCell) /\ Len(s) = 3 + Len(q.records)
        /\ s[1] = with /\ s[2] = page /\ s[3] = n
        /\ \A i \in 1..Len(q.records) : s[3 + i] = cells[i]
    BY <1>1, <1>2, <1>3
  <2> HIDE DEF s
  <2>2. s # <<>>
    BY <1>1, <2>1
  <2>3. /\ RedoRequest_decode(s).base = q.base
        /\ RedoRequest_decode(s).records = [i \in 1..Len(q.records) |-> s[3 + i].rec]
        /\ RedoRequest_decode(s).cells = 3 + Len(q.records)
    BY <1>4, <2>1 DEF RedoRequest_decode
  <2>4. [i \in 1..Len(q.records) |-> s[3 + i].rec] = [i \in 1..Len(q.records) |-> q.records[i]]
    BY <1>2, <2>1
  <2> QED
    BY <1>5, <1>6, <1>7, <2>1, <2>2, <2>3, <2>4, Zenon DEF s
<1>8. CASE q.base = <<>>
  <2> DEFINE s == <<bare, n>> \o cells
  <2>1. /\ s \in Seq(InCell) /\ Len(s) = 2 + Len(q.records)
        /\ s[1] = bare /\ s[2] = n
        /\ \A i \in 1..Len(q.records) : s[2 + i] = cells[i]
    BY <1>1, <1>2, <1>3
  <2> HIDE DEF s
  <2>2. s # <<>>
    BY <1>1, <2>1
  <2>3. /\ RedoRequest_decode(s).base = <<>>
        /\ RedoRequest_decode(s).records = [i \in 1..Len(q.records) |-> s[2 + i].rec]
        /\ RedoRequest_decode(s).cells = 2 + Len(q.records)
    BY <1>4, <2>1 DEF RedoRequest_decode
  <2>4. [i \in 1..Len(q.records) |-> s[2 + i].rec] = [i \in 1..Len(q.records) |-> q.records[i]]
    BY <1>2, <2>1
  <2> QED
    BY <1>5, <1>6, <1>8, <2>1, <2>2, <2>3, <2>4, Zenon DEF s
<1> QED
  BY <1>7, <1>8

-----------------------------------------------------------------------------
(* What the types say of one reader and of the child. *)

LEMMA JobFacts ==
  ASSUME RedoTypeOK, NEW r \in Reader
  PROVE  /\ job[r] \in JobType /\ asked[r] \in Seq(Version)
         /\ job[r].rest \in Seq(Version) /\ job[r].page \in Seq(Version)
         /\ job[r].pending \in Seq(Version) /\ job[r].have \in BOOLEAN
BY DEF RedoTypeOK, JobType

LEMMA ProcFacts ==
  ASSUME RedoTypeOK, proc # <<>>
  PROVE  /\ proc[1] \in ProcType /\ proc = <<proc[1]>>
         /\ proc[1].alive \in BOOLEAN /\ proc[1].sound \in BOOLEAN
         /\ proc[1].inq \in Seq(InCell) /\ proc[1].outq \in Seq(OutCell)
<1>1. PICK p \in ProcType : proc = <<p>>
  BY DEF RedoTypeOK
<1> QED
  BY <1>1 DEF ProcType

LEMMA RequestFacts ==
  ASSUME RedoTypeOK, NEW r \in Reader
  PROVE  /\ Request(r) \in RequestType
         /\ JobOK(r) /\ Active(r) => Applied(Request(r)) = job[r].page \o job[r].pending
<1>1. <<>> \in Seq(Version)
  OBVIOUS
<1> QED
  BY <1>1, JobFacts, Zenon DEF Request, RequestType, Applied, JobOK

-----------------------------------------------------------------------------
(* What a step leaves alone. *)

\* Only reader r moves; it touches the child only with the mutex.
Others(r) ==
  /\ \A q \in Reader \ {r} :
       /\ pc'[q] = pc[q] /\ asked'[q] = asked[q] /\ job'[q] = job[q]
       /\ attempt'[q] = attempt[q] /\ result'[q] = result[q] /\ strikes'[q] = strikes[q]
       /\ q \in refused => q \in refused'
  /\ owner' = owner \/ {owner, owner'} \subseteq {<<>>, <<r>>}
  /\ proc' = proc \/ owner = <<r>>
  /\ Bad' => Bad

LEMMA OthersKeep ==
  ASSUME RedoInv, NEW r \in Reader, Others(r), NEW q \in Reader \ {r}
  PROVE  ReaderOK(q)'
<1>1. ReaderOK(q)
  BY DEF RedoInv
<1>2. /\ pc'[q] = pc[q] /\ asked'[q] = asked[q] /\ job'[q] = job[q]
      /\ attempt'[q] = attempt[q] /\ result'[q] = result[q] /\ strikes'[q] = strikes[q]
      /\ q \in refused => q \in refused'
  BY DEF Others
<1>3. <<q>> # <<>> /\ <<q>> # <<r>>
  OBVIOUS
<1>4. owner' = <<q>> <=> owner = <<q>>
  BY <1>3 DEF Others
<1>5. JobOK(q)'
  BY <1>1, <1>2, Zenon DEF ReaderOK, JobOK, Active
<1>6. LockOK(q)'
  <2>1. pc[q] = "reply" => owner = <<q>> /\ proc # <<>>
    BY <1>1 DEF ReaderOK, LockOK, Holds
  <2>2. pc[q] = "reply" => proc' = proc
    BY <1>3, <2>1 DEF Others
  <2> QED
    BY <1>1, <1>2, <1>4, <2>1, <2>2 DEF ReaderOK, LockOK, Holds
<1>7. StrikesOK(q)'
  <2>1. Bad' => Bad
    BY DEF Others
  <2> QED
    BY <1>1, <1>2, <2>1 DEF ReaderOK, StrikesOK, Active, Holds
<1>8. ExactOf(q)'
  BY <1>1, <1>2 DEF ReaderOK, ExactOf
<1> QED
  BY <1>5, <1>6, <1>7, <1>8 DEF ReaderOK

\* The pipes stay right when the reader that awaits its reply stays.
LEMMA PipeKeeps ==
  ASSUME RedoInv, proc' = proc,
         \A q \in Reader : pc[q] = "reply" =>
            pc'[q] = "reply" /\ job'[q] = job[q] /\ (q \in refused => q \in refused')
  PROVE  PipeInv'
<1> SUFFICES ASSUME proc # <<>>
             PROVE  PipeOK(proc[1])'
  BY DEF PipeInv
<1>1. PipeOK(proc[1])
  BY DEF RedoInv, PipeInv
<1>2. \A q \in Reader : pc[q] = "reply" => Request(q)' = Request(q)
  BY DEF Request
<1>3. \A q \in Reader : pc[q] = "reply" /\ ReplyTo(q, proc[1].outq) => ReplyTo(q, proc[1].outq)'
  BY <1>2, Zenon DEF ReplyTo, Applied
<1> QED
  BY <1>1, <1>2, <1>3 DEF PipeOK, NoReply

LEMMA ReaderMoves ==
  ASSUME RedoInv, NEW r \in Reader, RedoTypeOK', PipeInv', Others(r), ReaderOK(r)'
  PROVE  RedoInv'
BY OthersKeep DEF RedoInv

-----------------------------------------------------------------------------
(* The steps of a reader. *)

LEMMA ReconstructKeeps ==
  ASSUME RedoInv, NEW r \in Reader, NEW vs \in Seq(Version), reconstruct(r, vs)
  PROVE  RedoInv'
<1>1. RedoTypeOK /\ ReaderOK(r)
  BY DEF RedoInv
<1>2. pc[r] \in {"idle", "done"} /\ UNCHANGED <<attempt, owner, proc>>
  BY DEF reconstruct
<1>3. asked' = [asked EXCEPT ![r] = vs] /\ refused' = refused \ {r}
  BY DEF reconstruct
<1>4. strikes' = [strikes EXCEPT ![r] = IF Bad THEN 1 ELSE 0]
  BY DEF reconstruct, Bad
<1>5. /\ strikes'[r] = IF Bad THEN 1 ELSE 0
      /\ asked'[r] = vs
  BY <1>1, <1>3, <1>4 DEF RedoTypeOK
<1>6. LastBase(vs) \in Nat
  BY LastBaseFacts
<1>7. owner # <<r>>
  BY <1>1, <1>2 DEF ReaderOK, LockOK, Holds
<1>8. CASE LastBase(vs) = 0
  <2>1. /\ pc' = [pc EXCEPT ![r] = "done"] /\ job' = job
        /\ result' = [result EXCEPT ![r] = [is |-> "absent"]]
    BY <1>8 DEF reconstruct, Return
  <2>2. [is |-> "absent"] \in Outcome
    BY DEF Outcome
  <2>3. RedoTypeOK'
    BY <1>1, <1>2, <1>3, <1>4, <2>1, <2>2 DEF RedoTypeOK
  <2>4. pc'[r] = "done" /\ result'[r] = [is |-> "absent"]
    BY <1>1, <2>1 DEF RedoTypeOK
  <2>5. Others(r)
    BY <1>1, <1>2, <1>3, <1>4, <2>1 DEF Others, RedoTypeOK, Bad
  <2>6. ReaderOK(r)'
    BY <1>2, <1>5, <1>7, <1>8, <2>4 DEF ReaderOK, JobOK, LockOK, StrikesOK, ExactOf, Active, Holds
  <2>7. PipeInv'
    BY <1>1, <1>2, <1>3, <2>1, PipeKeeps DEF RedoTypeOK
  <2> QED
    BY <2>3, <2>5, <2>6, <2>7, ReaderMoves
<1>9. CASE LastBase(vs) > 0
  <2>1. /\ pc' = [pc EXCEPT ![r] = "run"] /\ job' = [job EXCEPT ![r] = Start(vs)]
        /\ result' = result
    BY <1>9 DEF reconstruct
  <2>2. RedoTypeOK'
    BY <1>1, <1>2, <1>3, <1>4, <1>9, <2>1, StartFacts, Zenon DEF RedoTypeOK
  <2>3. pc'[r] = "run" /\ job'[r] = Start(vs)
    BY <1>1, <2>1 DEF RedoTypeOK
  <2>4. Others(r)
    BY <1>1, <1>2, <1>3, <1>4, <2>1 DEF Others, RedoTypeOK, Bad
  <2>5. JobOK(r)'
    BY <1>5, <1>9, <2>3, StartFacts, Zenon DEF JobOK
  <2>6. LockOK(r)' /\ StrikesOK(r)' /\ ExactOf(r)'
    BY <1>2, <1>5, <1>7, <2>3 DEF LockOK, StrikesOK, ExactOf, Active, Holds, Bad
  <2>7. PipeInv'
    BY <1>1, <1>2, <1>3, <2>1, PipeKeeps DEF RedoTypeOK
  <2> QED
    BY <2>2, <2>4, <2>5, <2>6, <2>7, ReaderMoves DEF ReaderOK
<1> QED
  BY <1>6, <1>8, <1>9

\* A step of the loop, which changes the job, the place or the result only.
LEMMA ReplayKeeps ==
  ASSUME RedoInv, NEW r \in Reader, Replay(r)
  PROVE  RedoInv'
<1>1. RedoTypeOK /\ ReaderOK(r)
  BY DEF RedoInv
<1>2. pc[r] = "run" /\ UNCHANGED <<asked, attempt, owner, proc, strikes, refused>>
  BY Zenon DEF Replay, Push, Apply, Flush, Finish
<1>3. owner # <<r>>
  BY <1>1, <1>2 DEF ReaderOK, LockOK, Holds
<1>4. ASSUME NEW c \in {"run", "lock", "done"}, pc' = [pc EXCEPT ![r] = c],
             NEW j \in JobType, job' = [job EXCEPT ![r] = j],
             NEW o \in Outcome, result' = [result EXCEPT ![r] = o],
             JobOK(r)', ExactOf(r)'
      PROVE  RedoInv'
  <2>1. RedoTypeOK'
    BY <1>1, <1>2, <1>4 DEF RedoTypeOK
  <2>2. pc'[r] = c
    BY <1>1, <1>4 DEF RedoTypeOK
  <2>3. Others(r)
    BY <1>1, <1>2, <1>4 DEF Others, RedoTypeOK, Bad
  <2>4. LockOK(r)' /\ StrikesOK(r)'
    BY <1>1, <1>2, <1>3, <2>2 DEF ReaderOK, LockOK, StrikesOK, Active, Holds, Bad
  <2>5. PipeInv'
    <3>1. \A q \in Reader : pc[q] = "reply" => pc'[q] = "reply" /\ job'[q] = job[q]
      BY <1>1, <1>2, <1>4 DEF RedoTypeOK
    <3> QED
      BY <1>2, <3>1, PipeKeeps
  <2> QED
    BY <1>4, <2>1, <2>3, <2>4, <2>5, ReaderMoves DEF ReaderOK
<1>5. /\ pc = [pc EXCEPT ![r] = pc[r]] /\ job = [job EXCEPT ![r] = job[r]]
      /\ result = [result EXCEPT ![r] = result[r]] /\ result[r] \in Outcome
  BY <1>1 DEF RedoTypeOK
<1>6. JobOK(r) /\ Active(r)
  BY <1>1, <1>2 DEF ReaderOK, Active
<1>7. CASE Push(r)
  <2> DEFINE rest == job[r].rest
             j == Job(Tail(rest), job[r].page, job[r].have, Append(job[r].pending, Head(rest)))
  <2>1. rest # <<>> /\ ~ Native(Head(rest)) /\ job' = [job EXCEPT ![r] = j]
    BY <1>7 DEF Push
  <2>2. UNCHANGED <<pc, result>>
    BY <1>7 DEF Push
  <2>3. /\ Tail(rest) \in Seq(Version) /\ Append(job[r].pending, Head(rest)) \in Seq(Version)
        /\ Len(Tail(rest)) = Len(rest) - 1
        /\ \A i \in 1..Len(Tail(rest)) : Tail(rest)[i] = rest[i + 1]
    BY <1>1, <2>1, JobFacts, HeadTailProperties
  <2>4. /\ j \in JobType /\ j.rest = Tail(rest) /\ j.page = job[r].page
        /\ j.have = job[r].have /\ j.pending = Append(job[r].pending, Head(rest))
    BY <1>1, <2>3, JobFacts DEF Job, JobType
  <2>5. job'[r] = j
    BY <1>1, <2>1 DEF RedoTypeOK
  <2> HIDE DEF j
  <2>6. (j.page \o j.pending) \o j.rest = Rebuilt(asked[r])
    <3>1. (job[r].page \o Append(job[r].pending, Head(rest))) \o Tail(rest)
            = (job[r].page \o job[r].pending) \o rest
      BY <1>1, <2>1, JobFacts, PushSeq, Zenon
    <3> QED
      BY <1>6, <2>4, <3>1, Zenon DEF JobOK
  <2>7. \A i \in 1..Len(j.rest) : j.rest[i].is # "image"
    <3> SUFFICES ASSUME NEW i \in 1..Len(j.rest), j.rest[i].is = "image"
                 PROVE  FALSE
      OBVIOUS
    <3>1. i + 1 \in 1..Len(rest) /\ rest[i + 1].is = "image" /\ i + 1 # 1
      BY <1>1, <2>3, <2>4, JobFacts
    <3> QED
      BY <1>6, <3>1 DEF JobOK
  <2>8. JobOK(r)'
    BY <1>2, <1>6, <2>2, <2>4, <2>5, <2>6, <2>7, Zenon DEF JobOK
  <2>9. ExactOf(r)'
    BY <1>2, <2>2 DEF ExactOf
  <2> QED
    BY <1>2, <1>4, <1>5, <2>1, <2>2, <2>4, <2>8, <2>9, Zenon
<1>8. CASE Apply(r)
  <2> DEFINE rest == job[r].rest
             j == Job(Tail(rest), apply_to(job[r].page, Head(rest)), TRUE, <<>>)
  <2>1. rest # <<>> /\ job[r].pending = <<>> /\ job' = [job EXCEPT ![r] = j]
    BY <1>8 DEF Apply
  <2>2. UNCHANGED <<pc, result>>
    BY <1>8 DEF Apply
  <2>3. /\ Tail(rest) \in Seq(Version) /\ Len(Tail(rest)) = Len(rest) - 1
        /\ \A i \in 1..Len(Tail(rest)) : Tail(rest)[i] = rest[i + 1]
        /\ Len(rest) \in Nat \ {0} /\ Head(rest) = rest[1]
    BY <1>1, <2>1, JobFacts, HeadTailProperties, EmptySeq
  <2>4. Head(rest).is = "image" => job[r].page = <<>>
    BY <1>6, <2>3 DEF JobOK
  <2>5. /\ apply_to(job[r].page, Head(rest)) \in Seq(Version)
        /\ (apply_to(job[r].page, Head(rest)) \o <<>>) \o Tail(rest) = (job[r].page \o <<>>) \o rest
    BY <1>1, <2>1, <2>4, JobFacts, ApplySeq, ZenonT(30)
  <2>6. /\ j \in JobType /\ j.rest = Tail(rest) /\ j.have /\ j.pending = <<>>
        /\ j.page = apply_to(job[r].page, Head(rest))
    BY <2>3, <2>5 DEF Job, JobType
  <2>7. job'[r] = j
    BY <1>1, <2>1 DEF RedoTypeOK
  <2> HIDE DEF j
  <2>8. (j.page \o j.pending) \o j.rest = Rebuilt(asked[r])
    BY <1>6, <2>1, <2>5, <2>6, Zenon DEF JobOK
  <2>9. \A i \in 1..Len(j.rest) : j.rest[i].is # "image"
    <3> SUFFICES ASSUME NEW i \in 1..Len(j.rest), j.rest[i].is = "image"
                 PROVE  FALSE
      OBVIOUS
    <3>1. i + 1 \in 1..Len(rest) /\ rest[i + 1].is = "image" /\ i + 1 # 1
      BY <2>3, <2>6
    <3> QED
      BY <1>6, <3>1 DEF JobOK
  <2>10. JobOK(r)'
    BY <1>2, <1>6, <2>2, <2>6, <2>7, <2>8, <2>9, Zenon DEF JobOK
  <2>11. ExactOf(r)'
    BY <1>2, <2>2 DEF ExactOf
  <2> QED
    BY <1>2, <1>4, <1>5, <2>1, <2>2, <2>6, <2>10, <2>11, Zenon
<1>9. CASE Flush(r)
  <2>1. pc' = [pc EXCEPT ![r] = "lock"] /\ UNCHANGED <<job, result>>
    BY <1>9 DEF Flush
  <2>2. pc'[r] = "lock"
    BY <1>1, <2>1 DEF RedoTypeOK
  <2>3. JobOK(r)' /\ ExactOf(r)'
    BY <1>2, <1>6, <2>1, <2>2, Zenon DEF JobOK, ExactOf
  <2> QED
    BY <1>1, <1>4, <1>5, <2>1, <2>3, JobFacts
<1>10. CASE Finish(r)
  <2> DEFINE o == [is |-> "page", page |-> job[r].page]
  <2>1. /\ pc' = [pc EXCEPT ![r] = "done"] /\ job' = job
        /\ result' = [result EXCEPT ![r] = o]
        /\ job[r].rest = <<>> /\ job[r].pending = <<>>
    BY <1>10 DEF Finish, Return
  <2>2. o \in Outcome
    BY <1>1, JobFacts DEF Outcome
  <2>3. pc'[r] = "done" /\ result'[r] = o
    BY <1>1, <2>1 DEF RedoTypeOK
  <2>4. job[r].page = Rebuilt(asked[r])
    BY <1>1, <1>6, <2>1, JobFacts, ConcatEmptySeq DEF JobOK
  <2>5. JobOK(r)' /\ ExactOf(r)'
    BY <1>2, <1>6, <2>3, <2>4 DEF JobOK, ExactOf, Active
  <2> QED
    BY <1>1, <1>4, <1>5, <2>1, <2>2, <2>5, JobFacts, Zenon
<1> QED
  BY <1>7, <1>8, <1>9, <1>10 DEF Replay

\* The mutex is held by one reader.
LEMMA HoldsAlone ==
  ASSUME RedoInv, NEW r \in Reader, Holds(r), NEW q \in Reader, pc[q] = "reply"
  PROVE  q = r
<1>1. LockOK(r) /\ LockOK(q)
  BY DEF RedoInv, ReaderOK
<1>2. owner = <<r>> /\ owner = <<q>>
  BY <1>1 DEF LockOK, Holds
<1> QED
  BY <1>2

LEMMA LockKeeps ==
  ASSUME RedoInv, NEW r \in Reader, Lock(r)
  PROVE  RedoInv'
<1>1. RedoTypeOK /\ ReaderOK(r)
  BY DEF RedoInv
<1>2. /\ pc[r] = "lock" /\ owner = <<>> /\ owner' = <<r>>
      /\ attempt' = [attempt EXCEPT ![r] = 0] /\ pc' = [pc EXCEPT ![r] = "attempt"]
      /\ UNCHANGED <<asked, job, result, proc, strikes, refused>>
  BY DEF Lock
<1>3. pc'[r] = "attempt" /\ attempt'[r] = 0
  BY <1>1, <1>2 DEF RedoTypeOK
<1>4. RedoTypeOK'
  BY <1>1, <1>2 DEF RedoTypeOK
<1>5. Others(r)
  BY <1>1, <1>2 DEF Others, RedoTypeOK, Bad
<1>6. JobOK(r)' /\ LockOK(r)' /\ ExactOf(r)'
  BY <1>1, <1>2, <1>3, Zenon DEF ReaderOK, JobOK, LockOK, ExactOf, Active, Holds
<1>7. StrikesOK(r)'
  BY <1>1, <1>2, <1>3 DEF ReaderOK, StrikesOK, Active, Holds, Bad, RedoTypeOK
<1>8. PipeInv'
  BY <1>1, <1>2, PipeKeeps DEF RedoTypeOK
<1> QED
  BY <1>4, <1>5, <1>6, <1>7, <1>8, ReaderMoves DEF ReaderOK

\* A failed attempt drops a bad child and is tried once more.
LEMMA AttemptFailsKeeps ==
  ASSUME RedoInv, NEW r \in Reader, Holds(r), Bad, AttemptFails(r),
         UNCHANGED <<asked, strikes, refused>>
  PROVE  RedoInv'
<1>1. RedoTypeOK /\ ReaderOK(r)
  BY DEF RedoInv
<1>2. proc' = <<>> /\ job' = job /\ attempt' = [attempt EXCEPT ![r] = attempt[r] + 1]
  BY DEF AttemptFails
<1>3. owner = <<r>> /\ attempt[r] \in {0, 1} /\ strikes[r] >= attempt[r] + 1
  BY <1>1 DEF ReaderOK, LockOK, StrikesOK
<1>4. attempt'[r] = attempt[r] + 1 /\ ~ Bad' /\ PipeInv'
  BY <1>1, <1>2 DEF RedoTypeOK, Bad, PipeInv
<1>5. attempt' \in [Reader -> Nat] /\ strikes[r] \in Nat
  BY <1>1, <1>2 DEF RedoTypeOK
<1>6. CASE attempt[r] = 1
  <2>1. /\ pc' = [pc EXCEPT ![r] = "done"] /\ owner' = <<>>
        /\ result' = [result EXCEPT ![r] = [is |-> "process"]]
    BY <1>6 DEF AttemptFails, Return
  <2>2. pc'[r] = "done" /\ result'[r] = [is |-> "process"]
    BY <1>1, <2>1 DEF RedoTypeOK
  <2>3. RedoTypeOK'
    BY <1>1, <1>2, <1>5, <2>1 DEF RedoTypeOK, Outcome
  <2>4. Others(r)
    BY <1>1, <1>2, <1>3, <1>4, <2>1 DEF Others, RedoTypeOK
  <2>5. ~ Active(r)' /\ ~ Holds(r)' /\ owner' # <<r>>
    BY <2>1, <2>2 DEF Active, Holds
  <2>6. JobOK(r)' /\ LockOK(r)' /\ StrikesOK(r)'
    BY <2>2, <2>5, Zenon DEF JobOK, LockOK, StrikesOK
  <2>7. ExactOf(r)'
    BY <1>3, <1>5, <1>6, <2>2 DEF ExactOf
  <2> QED
    BY <1>4, <2>3, <2>4, <2>6, <2>7, ReaderMoves DEF ReaderOK
<1>7. CASE attempt[r] = 0
  <2>1. /\ pc' = [pc EXCEPT ![r] = "attempt"] /\ UNCHANGED <<owner, result>>
    BY <1>7 DEF AttemptFails
  <2>2. pc'[r] = "attempt"
    BY <1>1, <2>1 DEF RedoTypeOK
  <2>3. RedoTypeOK'
    BY <1>1, <1>2, <1>5, <2>1 DEF RedoTypeOK
  <2>4. Others(r)
    BY <1>1, <1>2, <1>3, <1>4, <2>1 DEF Others, RedoTypeOK
  <2>5. /\ JobOK(r)' /\ ExactOf(r)'
        /\ LockOK(r)'
    <3>1. Active(r) /\ Active(r)' /\ Holds(r)'
      BY <2>2 DEF Active, Holds
    <3>2. JobOK(r)' /\ ExactOf(r)'
      BY <1>1, <1>2, <2>2, <3>1, Zenon DEF ReaderOK, JobOK, ExactOf
    <3>3. LockOK(r)'
      BY <1>3, <1>4, <1>7, <2>1, <2>2, <3>1 DEF LockOK
    <3> QED
      BY <3>2, <3>3
  <2>6. StrikesOK(r)'
    BY <1>3, <1>4, <1>5 DEF StrikesOK
  <2> QED
    BY <1>4, <2>3, <2>4, <2>5, <2>6, ReaderMoves DEF ReaderOK
<1> QED
  BY <1>3, <1>6, <1>7

\* Before a request is written the pipes are empty, but for what is no reply.
LEMMA AttemptPipe ==
  ASSUME RedoInv, NEW r \in Reader, pc[r] = "attempt", proc # <<>>
  PROVE  proc[1].inq = <<>> /\ NoReply(proc[1].outq)
<1>1. PipeOK(proc[1])
  BY DEF RedoInv, PipeInv
<1>2. \A q \in Reader : pc[q] # "reply"
  BY HoldsAlone DEF Holds
<1> QED
  BY <1>1, <1>2 DEF PipeOK

LEMMA WriteRequestKeeps ==
  ASSUME RedoInv, NEW r \in Reader, WriteRequest(r)
  PROVE  RedoInv'
<1>1. RedoTypeOK /\ ReaderOK(r) /\ PipeInv
  BY DEF RedoInv
<1>2. pc[r] = "attempt" /\ Holds(r) /\ UNCHANGED <<asked, strikes, refused>>
  BY DEF WriteRequest, Holds
<1>3. CASE Child.alive
  <2> DEFINE c == Child
             s == RedoRequest_encode(Request(r))
             p == [c EXCEPT !.inq = s]
  <2>1. s \in Seq(InCell) /\ s # <<>>
    BY <1>1, RequestFacts, DecodeEncode, Zenon
  <2>2. /\ c \in ProcType /\ c.inq = <<>> /\ NoReply(c.outq) /\ c.outq \in Seq(OutCell)
        /\ ~ Bad => c.sound
        /\ c.sound => c.outq = <<>>
    <3>1. CASE proc = <<>>
      <4>1. c = [alive |-> TRUE, sound |-> TRUE, inq |-> <<>>, outq |-> <<>>]
        BY <3>1 DEF Child, Spawned, Proc
      <4> QED
        BY <4>1 DEF ProcType, NoReply
    <3>2. CASE proc # <<>>
      <4>1. c = proc[1]
        BY <3>2 DEF Child
      <4> QED
        BY <1>1, <1>2, <3>2, <4>1, ProcFacts, AttemptPipe DEF PipeInv, PipeOK, Bad
    <3> QED
      BY <3>1, <3>2
  <2>3. /\ proc' = <<[c EXCEPT !.inq = c.inq \o s]>> /\ pc' = [pc EXCEPT ![r] = "reply"]
        /\ UNCHANGED <<job, attempt, result, owner>>
    BY <1>3 DEF WriteRequest
  <2>4. c.inq \o s = s
    BY <2>1, <2>2, ConcatEmptySeq
  <2>5. proc' = <<p>>
    BY <2>3, <2>4
  <2> HIDE DEF s
  <2>6. /\ p \in ProcType /\ p.inq = s /\ p.outq = c.outq /\ p.sound = c.sound
        /\ p.alive = c.alive
    BY <2>1, <2>2 DEF ProcType
  <2> HIDE DEF p, c
  <2>7. pc'[r] = "reply" /\ proc'[1] = p /\ proc' # <<>>
    BY <1>1, <2>3, <2>5 DEF RedoTypeOK
  <2>8. RedoTypeOK'
    BY <1>1, <1>2, <2>3, <2>5, <2>6, Zenon DEF RedoTypeOK
  <2>9. Bad' => Bad
    BY <2>2, <2>6, <2>7 DEF Bad
  <2>10. owner = <<r>>
    BY <1>1, <1>2 DEF ReaderOK, LockOK
  <2>11. Others(r)
    BY <1>1, <1>2, <2>3, <2>9, <2>10 DEF Others, RedoTypeOK
  <2>12. JobOK(r)' /\ LockOK(r)' /\ StrikesOK(r)' /\ ExactOf(r)'
    BY <1>1, <1>2, <2>3, <2>7, <2>9, Zenon
       DEF ReaderOK, JobOK, LockOK, StrikesOK, ExactOf, Active, Holds
  <2>13. PipeInv'
    <3>1. Request(r)' = Request(r)
      BY <2>3 DEF Request
    <3>2. NoReply(proc'[1].outq)
      BY <2>2, <2>6, <2>7 DEF NoReply
    <3>3. p.sound => p.alive /\ Len(p.outq) = 0 /\ p.outq = <<>>
      BY <1>3, <2>2, <2>6 DEF c
    <3>4. proc'[1].inq = RedoRequest_encode(Request(r)')
      BY <2>6, <2>7, <3>1 DEF s
    <3>5. \E q \in Reader : /\ pc'[q] = "reply"
                            /\ proc'[1].inq = RedoRequest_encode(Request(q)')
      BY <2>7, <3>4
    <3>6. PipeOK(proc[1])'
      BY <2>7, <3>2, <3>3, <3>5 DEF PipeOK
    <3> QED
      BY <3>6 DEF PipeInv
  <2> QED
    BY <2>8, <2>11, <2>12, <2>13, ReaderMoves DEF ReaderOK
<1>4. CASE ~ Child.alive
  <2>1. AttemptFails(r)
    BY <1>4 DEF WriteRequest
  <2>2. proc # <<>> /\ ~ proc[1].alive
    BY <1>4 DEF Child, Spawned, Proc
  <2>3. Bad
    BY <1>1, <2>2 DEF PipeInv, PipeOK, Bad
  <2> QED
    BY <1>2, <2>1, <2>3, AttemptFailsKeeps
<1> QED
  BY <1>3, <1>4

LEMMA SpawnFailsKeeps ==
  ASSUME RedoInv, NEW r \in Reader, SpawnFails(r)
  PROVE  RedoInv'
<1>1. RedoTypeOK /\ ReaderOK(r)
  BY DEF RedoInv
<1>2. /\ pc[r] = "attempt" /\ proc = <<>> /\ owner' = <<>>
      /\ pc' = [pc EXCEPT ![r] = "done"]
      /\ result' = [result EXCEPT ![r] = [is |-> "unspawned"]]
      /\ UNCHANGED <<asked, job, attempt, proc, strikes, refused>>
  BY DEF SpawnFails, Return
<1>3. pc'[r] = "done" /\ result'[r] = [is |-> "unspawned"] /\ owner = <<r>>
  BY <1>1, <1>2 DEF RedoTypeOK, ReaderOK, LockOK, Holds
<1>4. RedoTypeOK'
  BY <1>1, <1>2 DEF RedoTypeOK, Outcome
<1>5. Others(r)
  BY <1>1, <1>2, <1>3 DEF Others, RedoTypeOK, Bad
<1>6. ~ Active(r)' /\ ~ Holds(r)' /\ owner' # <<r>>
  BY <1>2, <1>3 DEF Active, Holds
<1>7. /\ JobOK(r)' /\ LockOK(r)' /\ StrikesOK(r)'
      /\ ExactOf(r)'
  <2>1. JobOK(r)' /\ LockOK(r)' /\ StrikesOK(r)'
    BY <1>3, <1>6, Zenon DEF JobOK, LockOK, StrikesOK
  <2>2. ExactOf(r)'
    BY <1>3 DEF ExactOf
  <2> QED
    BY <2>1, <2>2
<1>8. PipeInv'
  BY <1>2 DEF PipeInv
<1> QED
  BY <1>4, <1>5, <1>7, <1>8, ReaderMoves DEF ReaderOK

\* A part of a sequence, by its positions.
LEMMA PartFacts ==
  ASSUME NEW S, NEW s \in Seq(S), NEW m \in 1..3, NEW n \in Nat, m <= n + 1, n <= Len(s)
  PROVE  /\ SubSeq(s, m, n) \in Seq(S) /\ Len(SubSeq(s, m, n)) = n - m + 1
         /\ \A i \in 1..(n - m + 1) : SubSeq(s, m, n)[i] = s[m + i - 1]
         /\ n < m => SubSeq(s, m, n) = <<>>
<1>1. Len(s) \in Nat /\ \A i \in 1..Len(s) : s[i] \in S
  OBVIOUS
<1>2. \A i \in m..n : s[i] \in S
  BY <1>1
<1>3. n < m => SubSeq(s, m, n) = <<>>
  BY SubSeqEmpty
<1> HIDE <1>1
<1>4. /\ SubSeq(s, m, n) \in Seq(S)
      /\ Len(SubSeq(s, m, n)) = IF m <= n THEN n - m + 1 ELSE 0
      /\ \A i \in 1..(n - m + 1) : SubSeq(s, m, n)[i] = s[m + i - 1]
  BY <1>2, SubSeqProperties
<1> QED
  BY <1>3, <1>4

\* A reply takes its two cells out of the pipe and leaves none behind.
LEMMA TakeReply ==
  ASSUME RedoInv, NEW r \in Reader, pc[r] = "reply", Answered(proc[1].outq)
  PROVE  LET out == proc[1].outq
             p == [proc[1] EXCEPT !.outq = SubSeq(out, 3, Len(out))]
         IN  /\ p \in ProcType /\ p.inq = <<>> /\ NoReply(p.outq)
             /\ p.sound = proc[1].sound
             /\ p.sound => p.alive /\ p.outq = <<>> /\ Len(p.outq) = 0
             /\ ReplyTo(r, out)
<1> DEFINE out == proc[1].outq
           rest == SubSeq(out, 3, Len(out))
           p == [proc[1] EXCEPT !.outq = rest]
<1>1. RedoTypeOK /\ PipeInv /\ LockOK(r) /\ Holds(r)
  BY DEF RedoInv, ReaderOK, Holds
<1>2. proc # <<>>
  BY <1>1 DEF LockOK
<1>3. PipeOK(proc[1]) /\ proc[1] \in ProcType /\ out \in Seq(OutCell)
  BY <1>1, <1>2, ProcFacts DEF PipeInv
<1>4. Len(out) \in Nat /\ Len(out) >= 2 /\ out[1].is = "WRR1" /\ out # <<>>
  BY <1>3 DEF Answered
<1>5. ~ NoReply(out)
  BY <1>4 DEF NoReply
<1>6. ReplyTo(r, out)
  BY <1>1, <1>3, <1>5, HoldsAlone DEF PipeOK
<1>7. /\ rest \in Seq(OutCell) /\ Len(rest) = Len(out) - 2
      /\ \A i \in 1..Len(rest) : rest[i] = out[i + 2]
      /\ Len(out) = 2 => rest = <<>>
  <2> HIDE DEF out
  <2>1. /\ rest \in Seq(OutCell) /\ Len(rest) = Len(out) - 3 + 1
        /\ \A i \in 1..(Len(out) - 3 + 1) : rest[i] = out[3 + i - 1]
        /\ Len(out) < 3 => rest = <<>>
    <3>1. 3 \in 1..3 /\ 3 <= Len(out) + 1 /\ Len(out) <= Len(out) /\ Len(out) \in Nat
      BY <1>4
    <3>2. out \in Seq(OutCell)
      BY <1>3
    <3> QED
      BY <3>1, <3>2, PartFacts, Zenon
  <2> HIDE DEF rest
  <2> QED
    BY <1>4, <2>1
<1>8. NoReply(rest)
  <2>1. rest # <<>> => rest[1] = out[3] /\ 3 \in 3..Len(out)
    <3> HIDE DEF rest, out
    <3> QED
      BY <1>4, <1>7
  <2> QED
    BY <1>6, <2>1 DEF NoReply, ReplyTo
<1>9. proc[1].inq = <<>>
  BY <1>3, <1>5 DEF PipeOK
<1>10. proc[1].sound => proc[1].alive /\ Len(rest) = 0 /\ rest = <<>>
  <2>1. proc[1].sound => proc[1].alive /\ Len(out) = 2
    BY <1>3, <1>4 DEF PipeOK
  <2> HIDE DEF rest, out
  <2> QED
    BY <1>4, <1>7, <2>1
<1>11. p \in ProcType /\ p.outq = rest /\ p.inq = proc[1].inq
       /\ p.sound = proc[1].sound /\ p.alive = proc[1].alive
  <2> HIDE DEF rest
  <2> QED
    BY <1>3, <1>7, Zenon DEF ProcType
<1> HIDE DEF p
<1> QED
  BY <1>6, <1>8, <1>9, <1>10, <1>11 DEF p

\* What r has applied takes in what was pending.
LEMMA TakePage ==
  ASSUME RedoInv, NEW r \in Reader, pc[r] = "reply", NEW page, page = Applied(Request(r))
  PROVE  LET j == Job(job[r].rest, page, TRUE, <<>>)
         IN  /\ j \in JobType
             /\ (j.page \o j.pending) \o j.rest = Rebuilt(asked[r])
             /\ \A i \in 1..Len(j.rest) : j.rest[i].is = "image" =>
                  i = 1 /\ j.page = <<>> /\ j.pending = <<>>
             /\ j.have /\ LastBase(asked[r]) > 0
<1> DEFINE j == Job(job[r].rest, page, TRUE, <<>>)
<1>1. RedoTypeOK /\ JobOK(r) /\ Active(r)
  BY DEF RedoInv, ReaderOK, Active
<1>2. page = job[r].page \o job[r].pending
  BY <1>1, RequestFacts, Zenon
<1>3. page \in Seq(Version) /\ job[r].rest \in Seq(Version)
  BY <1>1, <1>2, JobFacts
<1>4. page \o <<>> = page
  BY <1>3, ConcatEmptySeq
<1>5. /\ j.rest = job[r].rest /\ j.page = page /\ j.have /\ j.pending = <<>>
      /\ j \in JobType
  BY <1>3 DEF Job, JobType
<1>6. job[r].page = <<>> /\ job[r].pending = <<>> => page = <<>>
  BY <1>1, <1>2, JobFacts
<1> HIDE DEF j
<1> QED
  BY <1>1, <1>2, <1>4, <1>5, <1>6, Zenon DEF JobOK, j

LEMMA ReadReplyKeeps ==
  ASSUME RedoInv, NEW r \in Reader, ReadReply(r)
  PROVE  RedoInv'
<1> DEFINE out == proc[1].outq
           p == [proc[1] EXCEPT !.outq = SubSeq(out, 3, Len(out))]
<1>1. RedoTypeOK /\ ReaderOK(r) /\ PipeInv
  BY DEF RedoInv
<1>2. pc[r] = "reply" /\ Holds(r) /\ Active(r) /\ UNCHANGED <<asked, strikes, refused>>
  BY DEF ReadReply, Holds, Active
<1>3. owner = <<r>> /\ proc # <<>>
  BY <1>1, <1>2 DEF ReaderOK, LockOK
<1>4. ASSUME Garbled(out), AttemptFails(r)
      PROVE  RedoInv'
  <2>1. PipeOK(proc[1]) /\ proc[1].sound \in BOOLEAN
    BY <1>1, <1>3, ProcFacts DEF PipeInv
  <2>2. Bad
    BY <1>3, <1>4, <2>1 DEF Garbled, PipeOK, NoReply, Bad
  <2> QED
    BY <1>2, <1>4, <2>2, AttemptFailsKeeps
<1>5. ASSUME Answered(out), proc' = <<p>>, owner' = <<>>, attempt' = attempt,
             pc' \in [Reader -> {"idle", "run", "lock", "attempt", "reply", "done"}],
             pc'[r] \in {"run", "done"}, \A q \in Reader \ {r} : pc'[q] = pc[q]
      PROVE  /\ PipeInv' /\ (Bad' => Bad) /\ proc' \in {<<c>> : c \in ProcType}
             /\ LockOK(r)' /\ ~ Holds(r)' /\ ReplyTo(r, out)
  <2>1. /\ p \in ProcType /\ p.inq = <<>> /\ NoReply(p.outq)
        /\ p.sound = proc[1].sound
        /\ p.sound => p.alive /\ p.outq = <<>> /\ Len(p.outq) = 0
        /\ ReplyTo(r, out)
    BY <1>2, <1>5, TakeReply, Zenon
  <2> HIDE DEF p, out
  <2>2. proc'[1] = p /\ proc' # <<>>
    BY <1>5
  <2>3. NoReply(proc'[1].outq)
    BY <2>1, <2>2
  <2>4. PipeOK(proc[1])'
    BY <2>1, <2>2, <2>3 DEF PipeOK
  <2>5. ~ Holds(r)' /\ owner' # <<r>> /\ pc'[r] # "reply"
    BY <1>5 DEF Holds
  <2> QED
    BY <1>3, <1>5, <2>1, <2>2, <2>4, <2>5 DEF PipeInv, Bad, LockOK
<1>6. ASSUME Answered(out), out[1].ok, proc' = <<p>>, owner' = <<>>,
             job' = [job EXCEPT ![r] = Job(job[r].rest, out[2].page, TRUE, <<>>)],
             pc' = [pc EXCEPT ![r] = "run"], UNCHANGED <<result, attempt>>
      PROVE  RedoInv'
  <2>1. pc'[r] = "run" /\ \A q \in Reader \ {r} : pc'[q] = pc[q]
    BY <1>1, <1>6 DEF RedoTypeOK
  <2>2. pc' \in [Reader -> {"idle", "run", "lock", "attempt", "reply", "done"}]
    BY <1>1, <1>6 DEF RedoTypeOK
  <2>3. /\ PipeInv' /\ (Bad' => Bad) /\ proc' \in {<<c>> : c \in ProcType}
        /\ LockOK(r)' /\ ~ Holds(r)' /\ ReplyTo(r, out)
    BY <1>5, <1>6, <2>1, <2>2, Zenon
  <2> HIDE DEF p
  <2>4. out[2].page = Applied(Request(r))
    BY <1>6, <2>3 DEF ReplyTo, Answered
  <2> HIDE DEF out
  <2> DEFINE j == Job(job[r].rest, out[2].page, TRUE, <<>>)
  <2>5. /\ j \in JobType
        /\ (j.page \o j.pending) \o j.rest = Rebuilt(asked[r])
        /\ \A i \in 1..Len(j.rest) : j.rest[i].is = "image" =>
             i = 1 /\ j.page = <<>> /\ j.pending = <<>>
        /\ j.have /\ LastBase(asked[r]) > 0
    BY <1>2, <2>4, TakePage, Zenon
  <2>6. job' = [job EXCEPT ![r] = j]
    BY <1>6
  <2> HIDE DEF j
  <2>7. job'[r] = j /\ \A q \in Reader \ {r} : job'[q] = job[q]
    BY <1>1, <2>6 DEF RedoTypeOK
  <2>8. RedoTypeOK'
    <3>1. job' \in [Reader -> JobType]
      BY <1>1, <2>5, <2>6 DEF RedoTypeOK
    <3> QED
      BY <1>1, <1>2, <1>6, <2>2, <2>3, <3>1, Zenon DEF RedoTypeOK
  <2>9. Others(r)
    BY <1>2, <1>3, <1>6, <2>1, <2>3, <2>7, Zenon DEF Others
  <2>10. JobOK(r)'
    BY <1>2, <2>5, <2>7, ZenonT(30) DEF JobOK
  <2>11. StrikesOK(r)' /\ ExactOf(r)'
    BY <1>1, <1>2, <2>1, <2>3 DEF ReaderOK, StrikesOK, ExactOf
  <2> QED
    BY <2>3, <2>8, <2>9, <2>10, <2>11, ReaderMoves DEF ReaderOK
<1>7. ASSUME Answered(out), ~ out[1].ok, proc' = <<p>>, owner' = <<>>,
             Return(r, [is |-> "refused"]), UNCHANGED <<job, attempt>>
      PROVE  RedoInv'
  <2>1. /\ pc' = [pc EXCEPT ![r] = "done"]
        /\ result' = [result EXCEPT ![r] = [is |-> "refused"]]
    BY <1>7 DEF Return
  <2>2. /\ pc'[r] = "done" /\ result'[r] = [is |-> "refused"]
        /\ \A q \in Reader \ {r} : pc'[q] = pc[q] /\ result'[q] = result[q]
        /\ pc' \in [Reader -> {"idle", "run", "lock", "attempt", "reply", "done"}]
        /\ result' \in [Reader -> Outcome]
    BY <1>1, <2>1 DEF RedoTypeOK, Outcome
  <2>3. /\ PipeInv' /\ (Bad' => Bad) /\ proc' \in {<<c>> : c \in ProcType}
        /\ LockOK(r)' /\ ~ Holds(r)' /\ ReplyTo(r, out)
    BY <1>5, <1>7, <2>2
  <2> HIDE DEF p
  <2>4. r \in refused'
    BY <1>2, <1>7, <2>3, ZenonT(30) DEF ReplyTo, Answered
  <2> HIDE DEF out
  <2>5. RedoTypeOK'
    BY <1>1, <1>2, <1>7, <2>2, <2>3 DEF RedoTypeOK
  <2>6. Others(r)
    BY <1>2, <1>3, <1>7, <2>2, <2>3 DEF Others
  <2>7. ~ Active(r)'
    BY <2>2 DEF Active
  <2>8. JobOK(r)' /\ StrikesOK(r)'
    BY <2>3, <2>7, Zenon DEF JobOK, StrikesOK
  <2>9. ExactOf(r)'
    BY <2>2, <2>4 DEF ExactOf
  <2> QED
    BY <2>3, <2>5, <2>6, <2>8, <2>9, ReaderMoves DEF ReaderOK
<1> QED
  BY <1>4, <1>6, <1>7, Zenon DEF ReadReply

-----------------------------------------------------------------------------
(* The steps of the child. *)

\* The child moves none of the readers, and every time it goes bad is counted.
LEMMA ChildKeeps ==
  ASSUME RedoInv, RedoTypeOK', PipeInv', UNCHANGED <<pc, asked, job, attempt, result, owner>>,
         proc' # <<>>, refused \subseteq refused',
         \/ strikes' = strikes /\ (Bad' => Bad)
         \/ strikes' = [q \in Reader |-> strikes[q] + 1]
  PROVE  RedoInv'
<1> SUFFICES ASSUME NEW r \in Reader
             PROVE  ReaderOK(r)'
  BY DEF RedoInv
<1>1. RedoTypeOK /\ ReaderOK(r)
  BY DEF RedoInv
<1>2. strikes[r] \in Nat /\ attempt[r] \in Nat
  BY <1>1 DEF RedoTypeOK
<1>3. \/ strikes'[r] = strikes[r] /\ (Bad' => Bad)
      \/ strikes'[r] = strikes[r] + 1
  OBVIOUS
<1>4. JobOK(r)'
  BY <1>1, Zenon DEF ReaderOK, JobOK, Active
<1>5. LockOK(r)'
  BY <1>1 DEF ReaderOK, LockOK, Holds
<1>6. Active(r)' = Active(r) /\ Holds(r)' = Holds(r)
  BY DEF Active, Holds
<1>7. StrikesOK(r)'
  <2>1. StrikesOK(r) /\ attempt'[r] = attempt[r]
    BY <1>1 DEF ReaderOK
  <2> QED
    BY <1>2, <1>3, <1>6, <2>1 DEF StrikesOK
<1>8. ExactOf(r)'
  <2>1. ExactOf(r) /\ pc'[r] = pc[r] /\ result'[r] = result[r] /\ asked'[r] = asked[r]
    BY <1>1 DEF ReaderOK
  <2>2. (strikes[r] >= 2 => strikes'[r] >= 2) /\ (r \in refused => r \in refused')
    BY <1>2, <1>3
  <2> QED
    BY <2>1, <2>2 DEF ExactOf
<1> QED
  BY <1>4, <1>5, <1>7, <1>8 DEF ReaderOK

\* The request in the pipe is that of the reader which awaits the reply.
LEMMA WaitingFor ==
  ASSUME RedoInv, Waiting
  PROVE  \E r \in Reader :
           /\ pc[r] = "reply" /\ owner = <<r>> /\ NoReply(proc[1].outq)
           /\ SubSeq(proc[1].inq, RedoRequest_decode(proc[1].inq).cells + 1,
                     Len(proc[1].inq)) = <<>>
           /\ Applied(RedoRequest_decode(proc[1].inq)) = Applied(Request(r))
           /\ Applied(Request(r)) \in Seq(Version)
<1>1. RedoTypeOK /\ PipeOK(proc[1])
  BY DEF RedoInv, PipeInv, Waiting
<1>2. PICK r \in Reader : pc[r] = "reply" /\ proc[1].inq = RedoRequest_encode(Request(r))
  BY <1>1 DEF PipeOK, Waiting
<1>3. owner = <<r>> /\ NoReply(proc[1].outq)
  BY <1>1, <1>2 DEF RedoInv, ReaderOK, LockOK, Holds, PipeOK, Waiting
<1>4. Request(r) \in RequestType
  BY <1>1, RequestFacts, Zenon
<1>5. Applied(Request(r)) \in Seq(Version)
  BY <1>4 DEF Applied, RequestType
<1>6. /\ RedoRequest_decode(proc[1].inq).base = Request(r).base
      /\ RedoRequest_decode(proc[1].inq).records = Request(r).records
      /\ RedoRequest_decode(proc[1].inq).cells = Len(proc[1].inq)
  BY <1>2, <1>4, DecodeEncode
<1>7. Len(proc[1].inq) \in Nat
  BY <1>1, ProcFacts DEF Waiting
<1>8. SubSeq(proc[1].inq, Len(proc[1].inq) + 1, Len(proc[1].inq)) = <<>>
  BY <1>7, SubSeqEmpty
<1> QED
  BY <1>2, <1>3, <1>5, <1>6, <1>8, Zenon DEF Applied

\* A reply of two cells follows what is no reply, or is the first.
LEMMA ReplyPipe ==
  ASSUME RedoInv, Waiting, NEW a \in [is : {"WRR1"}, ok : BOOLEAN], NEW b \in OutCell,
         NEW p, NEW r \in Reader
  PROVE  /\ p = Proc(TRUE, proc[1].sound, <<>>, proc[1].outq \o <<a, b>>)
         /\ proc' = <<p>> /\ UNCHANGED <<pc, job>>
         /\ pc[r] = "reply" /\ NoReply(proc[1].outq)
         /\ a.ok => b.page = Applied(Request(r))
         /\ ~ a.ok => r \in refused'
         => /\ PipeInv' /\ proc' # <<>> /\ (Bad' => Bad)
            /\ proc' \in {<<c>> : c \in ProcType}
<1> DEFINE out == proc[1].outq
           new == out \o <<a, b>>
           q == proc'[1]
<1>1. SUFFICES ASSUME p = Proc(TRUE, proc[1].sound, <<>>, new),
                      proc' = <<p>>, pc' = pc, job' = job,
                      pc[r] = "reply", NoReply(out),
                      a.ok => b.page = Applied(Request(r)),
                      ~ a.ok => r \in refused'
               PROVE  /\ PipeInv' /\ proc' # <<>> /\ (Bad' => Bad)
                      /\ proc' \in {<<c>> : c \in ProcType}
  BY Zenon
<1>2. RedoTypeOK /\ PipeOK(proc[1]) /\ proc # <<>>
  BY DEF RedoInv, PipeInv, Waiting
<1>3. out \in Seq(OutCell) /\ proc[1].sound \in BOOLEAN
  BY <1>2, ProcFacts
<1>4. a \in OutCell /\ a.is = "WRR1"
  BY DEF OutCell
<1> HIDE DEF out
<1>5. /\ new \in Seq(OutCell) /\ new # <<>>
      /\ out = <<>> => new[1] = a /\ new[2] = b /\ Len(new) = 2
      /\ out # <<>> => new[1] = out[1]
  BY <1>3, <1>4
<1> HIDE DEF new
<1>6. p \in ProcType /\ p.outq = new /\ p.inq = <<>> /\ p.sound = proc[1].sound /\ p.alive
  BY <1>1, <1>3, <1>5 DEF Proc, ProcType
<1>7. proc' # <<>> /\ q = p
  BY <1>1
<1> HIDE DEF q
<1>8. CASE out = <<>>
  <2>1. Request(r)' = Request(r) /\ pc'[r] = "reply"
    BY <1>1 DEF Request
  <2>2. q.outq[1] = a /\ q.outq[2] = b /\ Len(q.outq) = 2 /\ q.outq # <<>>
    BY <1>5, <1>6, <1>7, <1>8
  <2>3. ~ NoReply(q.outq)
    BY <1>4, <2>2 DEF NoReply
  <2>4. /\ Len(q.outq) >= 2 /\ Len(q.outq) \in {0, 2}
        /\ \A i \in 3..Len(q.outq) : q.outq[i].is # "WRR1"
    BY <2>2
  <2>5. Applied(Request(r))' = Applied(Request(r))
    BY <2>1 DEF Applied
  <2>6. ReplyTo(r, proc[1].outq)'
    BY <1>1, <2>2, <2>4, <2>5, Zenon DEF ReplyTo, q
  <2>7. PipeOK(proc[1])'
    BY <1>6, <1>7, <2>1, <2>3, <2>4, <2>6 DEF PipeOK, q
  <2> QED
    BY <1>1, <1>2, <1>6, <1>7, <2>7, Zenon DEF PipeInv, Bad, q
<1>9. CASE out # <<>>
  <2>1. NoReply(q.outq)
    BY <1>1, <1>5, <1>6, <1>7, <1>9, Zenon DEF NoReply
  <2>2. ~ q.sound /\ q.inq = <<>>
    BY <1>1, <1>2, <1>6, <1>7, <1>9, Zenon DEF PipeOK, out
  <2>3. PipeOK(proc[1])'
    BY <2>1, <2>2 DEF PipeOK, q
  <2> QED
    BY <1>1, <1>2, <1>6, <1>7, <2>3, Zenon DEF PipeInv, Bad, q
<1> QED
  BY <1>8, <1>9

LEMMA ServeKeeps ==
  ASSUME RedoInv, Serve
  PROVE  RedoInv'
<1> DEFINE page == Applied(RedoRequest_decode(proc[1].inq))
           a == [is |-> "WRR1", ok |-> TRUE]
           b == [is |-> "page", page |-> page]
<1>1. Waiting /\ UNCHANGED <<pc, asked, job, attempt, result, owner, strikes, refused>>
  BY DEF Serve, callerVars
<1>2. PICK r \in Reader :
           /\ pc[r] = "reply" /\ owner = <<r>> /\ NoReply(proc[1].outq)
           /\ SubSeq(proc[1].inq, RedoRequest_decode(proc[1].inq).cells + 1,
                     Len(proc[1].inq)) = <<>>
           /\ page = Applied(Request(r)) /\ page \in Seq(Version)
  BY <1>1, WaitingFor
<1>3. proc' = <<Proc(TRUE, proc[1].sound, <<>>, proc[1].outq \o <<a, b>>)>>
  BY <1>2, Zenon DEF Serve, Reply, RedoResponse_encode
<1> HIDE DEF page
<1>4. /\ a \in [is : {"WRR1"}, ok : BOOLEAN] /\ b \in OutCell /\ a.ok /\ b.page = page
  BY <1>2 DEF OutCell
<1> HIDE DEF a, b
<1>5. /\ PipeInv' /\ proc' # <<>> /\ (Bad' => Bad) /\ proc' \in {<<c>> : c \in ProcType}
  BY <1>1, <1>2, <1>3, <1>4, ReplyPipe, Zenon
<1>6. RedoTypeOK'
  BY <1>1, <1>5 DEF RedoInv, RedoTypeOK
<1> QED
  BY <1>1, <1>5, <1>6, ChildKeeps

LEMMA RefuseKeeps ==
  ASSUME RedoInv, Refuse
  PROVE  RedoInv'
<1> DEFINE a == [is |-> "WRR1", ok |-> FALSE]
           b == [is |-> "message"]
<1>1. /\ Waiting /\ UNCHANGED <<pc, asked, job, attempt, result, owner, strikes>>
      /\ refused' = refused \cup {r \in Reader : owner = <<r>>}
  BY DEF Refuse, callerVars
<1>2. PICK r \in Reader :
           /\ pc[r] = "reply" /\ owner = <<r>> /\ NoReply(proc[1].outq)
           /\ SubSeq(proc[1].inq, RedoRequest_decode(proc[1].inq).cells + 1,
                     Len(proc[1].inq)) = <<>>
  BY <1>1, WaitingFor
<1>3. proc' = <<Proc(TRUE, proc[1].sound, <<>>, proc[1].outq \o <<a, b>>)>>
  BY <1>2, Zenon DEF Refuse, Reply, RedoResponse_encode
<1>4. /\ a \in [is : {"WRR1"}, ok : BOOLEAN] /\ b \in OutCell /\ ~ a.ok
  BY DEF OutCell
<1>5. r \in refused' /\ refused \subseteq refused'
  BY <1>1, <1>2
<1> HIDE DEF a, b
<1>6. /\ PipeInv' /\ proc' # <<>> /\ (Bad' => Bad) /\ proc' \in {<<c>> : c \in ProcType}
  <2> DEFINE p == Proc(TRUE, proc[1].sound, <<>>, proc[1].outq \o <<a, b>>)
  <2>1. UNCHANGED <<pc, job>> /\ proc' = <<p>>
    BY <1>1, <1>3
  <2>2. /\ a.ok => b.page = Applied(Request(r))
        /\ ~ a.ok => r \in refused'
    BY <1>4, <1>5
  <2> QED
    BY <1>1, <1>2, <1>4, <2>1, <2>2, ReplyPipe, Zenon
<1>7. RedoTypeOK'
  BY <1>1, <1>6 DEF RedoInv, RedoTypeOK
<1> QED
  BY <1>1, <1>5, <1>6, <1>7, ChildKeeps

\* Going bad is counted unless the child was bad before.
LEMMA UnsoundFacts ==
  ASSUME RedoInv, proc # <<>>, Unsound
  PROVE  /\ strikes' \in [Reader -> Nat]
         /\ \/ strikes' = strikes /\ Bad
            \/ strikes' = [q \in Reader |-> strikes[q] + 1]
<1>1. strikes \in [Reader -> Nat] /\ proc[1].sound \in BOOLEAN
  BY ProcFacts DEF RedoInv, RedoTypeOK
<1> QED
  BY <1>1 DEF Unsound, Bad

\* A reply cut short, or followed by something else, is still no one else's.
LEMMA ReplyToKeeps ==
  ASSUME NEW r \in Reader, NEW out \in Seq(OutCell), NEW new \in Seq(OutCell),
         UNCHANGED <<job, refused>>, ReplyTo(r, out),
         Len(new) >= 2 => Len(out) >= 2 /\ new[1] = out[1] /\ new[2] = out[2],
         \A i \in 3..Len(new) : new[i].is # "WRR1"
  PROVE  /\ Len(new) >= 2 /\ new[1].ok => new[2].page = Applied(Request(r)')
         /\ Len(new) >= 2 /\ ~ new[1].ok => r \in refused'
<1>1. Request(r)' = Request(r)
  BY DEF Request
<1> QED
  BY <1>1 DEF ReplyTo

LEMMA DieKeeps ==
  ASSUME RedoInv, Die
  PROVE  RedoInv'
<1>1. /\ proc # <<>> /\ Unsound /\ UNCHANGED <<pc, asked, job, attempt, result, owner, refused>>
      /\ RedoTypeOK /\ PipeOK(proc[1])
  BY DEF Die, callerVars, RedoInv, PipeInv
<1> DEFINE out == proc[1].outq
<1>2. out \in Seq(OutCell) /\ Len(out) \in Nat
  BY <1>1, ProcFacts
<1>3. PICK k \in 0..Len(out) : proc' = <<Proc(FALSE, FALSE, <<>>, SubSeq(out, 1, k))>>
  BY Zenon DEF Die
<1> HIDE DEF out
<1> DEFINE new == SubSeq(out, 1, k)
           q == proc'[1]
<1>4. /\ new \in Seq(OutCell) /\ Len(new) = k /\ \A i \in 1..k : new[i] = out[i]
      /\ k = 0 => new = <<>>
  <2>1. 1 \in 1..3 /\ k \in Nat /\ 1 <= k + 1 /\ k <= Len(out)
    BY <1>2
  <2>2. /\ new \in Seq(OutCell) /\ Len(new) = k - 1 + 1
        /\ \A i \in 1..(k - 1 + 1) : new[i] = out[1 + i - 1]
        /\ k < 1 => new = <<>>
    BY <1>2, <2>1, PartFacts, Zenon
  <2> HIDE DEF new
  <2> QED
    BY <2>1, <2>2
<1> HIDE DEF new
<1>5. proc' = <<Proc(FALSE, FALSE, <<>>, new)>>
  BY <1>3 DEF new
<1> DEFINE p == Proc(FALSE, FALSE, <<>>, new)
<1>6. p \in ProcType /\ ~ p.sound /\ ~ p.alive /\ p.inq = <<>> /\ p.outq = new
  BY <1>4 DEF Proc, ProcType
<1> HIDE DEF p
<1>7. proc' # <<>> /\ q = p /\ proc' \in {<<c>> : c \in ProcType}
  BY <1>5, <1>6, Zenon DEF p
<1> HIDE DEF q
<1>8. PipeOK(proc[1])'
  <2>1. CASE NoReply(out)
    <3>1. NoReply(q.outq)
      BY <1>2, <1>4, <1>6, <1>7, <2>1 DEF NoReply
    <3> QED
      BY <1>6, <1>7, <3>1 DEF PipeOK, q
  <2>2. CASE ~ NoReply(out)
    <3>1. PICK r \in Reader : pc[r] = "reply" /\ ReplyTo(r, out)
      BY <1>1, <2>2 DEF PipeOK, out
    <3>2. /\ Len(new) >= 2 => Len(out) >= 2 /\ new[1] = out[1] /\ new[2] = out[2]
          /\ \A i \in 3..Len(new) : new[i].is # "WRR1"
      BY <1>2, <1>4, <3>1 DEF ReplyTo
    <3>3. /\ Len(new) >= 2 /\ new[1].ok => new[2].page = Applied(Request(r)')
          /\ Len(new) >= 2 /\ ~ new[1].ok => r \in refused'
      BY <1>1, <1>2, <1>4, <3>1, <3>2, ReplyToKeeps, Zenon
    <3>4. ReplyTo(r, proc[1].outq)'
      BY <1>6, <1>7, <3>2, <3>3 DEF ReplyTo, q
    <3>5. pc'[r] = "reply"
      BY <1>1, <3>1
    <3> QED
      BY <1>6, <1>7, <3>4, <3>5 DEF PipeOK, q
  <2> QED
    BY <2>1, <2>2
<1>9. RedoTypeOK'
  BY <1>1, <1>7, UnsoundFacts DEF RedoTypeOK
<1> QED
  BY <1>1, <1>7, <1>8, <1>9, UnsoundFacts, ChildKeeps DEF PipeInv

LEMMA StrayKeeps ==
  ASSUME RedoInv, Stray
  PROVE  RedoInv'
<1>1. /\ proc # <<>> /\ Unsound /\ UNCHANGED <<pc, asked, job, attempt, result, owner, refused>>
      /\ RedoTypeOK /\ PipeOK(proc[1]) /\ proc[1].alive
  BY DEF Stray, callerVars, RedoInv, PipeInv
<1> DEFINE out == proc[1].outq
           in == proc[1].inq
           stray == [is |-> "stray"]
           new == Append(out, stray)
           q == proc'[1]
<1>2. out \in Seq(OutCell) /\ Len(out) \in Nat /\ in \in Seq(InCell)
  BY <1>1, ProcFacts
<1>3. proc' = <<Proc(TRUE, FALSE, in, new)>>
  BY DEF Stray
<1>4. stray \in OutCell /\ stray.is = "stray"
  BY DEF OutCell
<1> HIDE DEF out, in, stray
<1>5. /\ new \in Seq(OutCell) /\ Len(new) = Len(out) + 1 /\ new # <<>>
      /\ \A i \in 1..Len(out) : new[i] = out[i]
      /\ new[Len(out) + 1] = stray
      /\ out = <<>> => new[1] = stray
      /\ out # <<>> => new[1] = out[1]
  BY <1>2, <1>4
<1> HIDE DEF new
<1> DEFINE p == Proc(TRUE, FALSE, in, new)
<1>6. p \in ProcType /\ ~ p.sound /\ p.alive /\ p.inq = in /\ p.outq = new
  BY <1>2, <1>5 DEF Proc, ProcType
<1> HIDE DEF p
<1>7. proc' # <<>> /\ q = p /\ proc' \in {<<c>> : c \in ProcType}
  BY <1>3, <1>6, Zenon DEF p
<1> HIDE DEF q
<1>8. PipeOK(proc[1])'
  <2>1. CASE NoReply(out)
    <3>1. NoReply(q.outq)
      BY <1>4, <1>5, <1>6, <1>7, <2>1 DEF NoReply
    <3>2. ASSUME q.inq # <<>>
          PROVE  \E r \in Reader : pc'[r] = "reply" /\ q.inq = RedoRequest_encode(Request(r)')
      <4>1. PICK r \in Reader : pc[r] = "reply" /\ in = RedoRequest_encode(Request(r))
        BY <1>1, <1>6, <1>7, <3>2 DEF PipeOK, in
      <4>2. Request(r)' = Request(r) /\ pc'[r] = "reply"
        BY <1>1, <4>1 DEF Request
      <4> QED
        BY <1>6, <1>7, <4>1, <4>2
    <3> QED
      BY <1>6, <1>7, <3>1, <3>2 DEF PipeOK, q
  <2>2. CASE ~ NoReply(out)
    <3>1. PICK r \in Reader : pc[r] = "reply" /\ ReplyTo(r, out)
      BY <1>1, <2>2 DEF PipeOK, out
    <3>2. Len(out) >= 2 /\ in = <<>>
      BY <1>1, <2>2 DEF PipeOK, out, in
    <3>3. \A i \in 3..Len(new) : new[i].is # "WRR1"
      BY <1>2, <1>4, <1>5, <3>1 DEF ReplyTo
    <3>4. new[1] = out[1] /\ new[2] = out[2] /\ Len(new) >= 2
      BY <1>2, <1>5, <3>2
    <3>5. /\ Len(new) >= 2 /\ new[1].ok => new[2].page = Applied(Request(r)')
          /\ Len(new) >= 2 /\ ~ new[1].ok => r \in refused'
      BY <1>1, <1>2, <1>5, <3>1, <3>2, <3>3, <3>4, ReplyToKeeps
    <3>6. ReplyTo(r, proc[1].outq)'
      BY <1>6, <1>7, <3>3, <3>5 DEF ReplyTo, q
    <3>7. pc'[r] = "reply"
      BY <1>1, <3>1
    <3> QED
      BY <1>6, <1>7, <3>2, <3>4, <3>6, <3>7 DEF PipeOK, q
  <2> QED
    BY <2>1, <2>2
<1>9. RedoTypeOK'
  BY <1>1, <1>7, UnsoundFacts DEF RedoTypeOK
<1> QED
  BY <1>1, <1>7, <1>8, <1>9, UnsoundFacts, ChildKeeps DEF PipeInv

-----------------------------------------------------------------------------
(* Together. *)

LEMMA RedoInitially == RedoInit => RedoInv
<1> SUFFICES ASSUME RedoInit
             PROVE  RedoInv
  OBVIOUS
<1>1. RedoTypeOK
  <2>1. <<>> \in Seq(Version)
    BY EmptySeq, ZenonT(30)
  <2>2. NoJob \in JobType
    BY <2>1, Zenon DEF NoJob, Job, JobType
  <2>3. [is |-> "none"] \in Outcome
    BY Zenon DEF Outcome
  <2>4. /\ asked \in [Reader -> Seq(Version)] /\ job \in [Reader -> JobType]
        /\ result \in [Reader -> Outcome]
    BY <2>1, <2>2, <2>3, Zenon DEF RedoInit
  <2>5. /\ pc \in [Reader -> {"idle", "run", "lock", "attempt", "reply", "done"}]
        /\ attempt \in [Reader -> Nat] /\ strikes \in [Reader -> Nat]
    BY DEF RedoInit
  <2> QED
    BY <2>4, <2>5, Zenon DEF RedoInit, RedoTypeOK
<1>2. ASSUME NEW r \in Reader
      PROVE  ReaderOK(r)
  <2>1. pc[r] = "idle" /\ owner # <<r>>
    BY DEF RedoInit
  <2> QED
    BY <2>1 DEF ReaderOK, JobOK, LockOK, StrikesOK, ExactOf, Active, Holds
<1> QED
  BY <1>1, <1>2 DEF RedoInv, PipeInv, RedoInit

LEMMA RedoKeeps == RedoInv /\ [RedoNext(Version)]_redoVars => RedoInv'
<1> SUFFICES ASSUME RedoInv, [RedoNext(Version)]_redoVars
             PROVE  RedoInv'
  OBVIOUS
<1>1. ASSUME NEW r \in Reader, Replay(r)
      PROVE  RedoInv'
  BY <1>1, ReplayKeeps
<1>2. ASSUME NEW r \in Reader, Lock(r)
      PROVE  RedoInv'
  BY <1>2, LockKeeps
<1>3. ASSUME NEW r \in Reader, WriteRequest(r)
      PROVE  RedoInv'
  BY <1>3, WriteRequestKeeps
<1>4. ASSUME NEW r \in Reader, SpawnFails(r)
      PROVE  RedoInv'
  BY <1>4, SpawnFailsKeeps
<1>5. ASSUME NEW r \in Reader, ReadReply(r)
      PROVE  RedoInv'
  BY <1>5, ReadReplyKeeps
<1>6. ASSUME NEW r \in Reader, NEW vs \in Seq(Version), reconstruct(r, vs)
      PROVE  RedoInv'
  BY <1>6, ReconstructKeeps
<1>7. CASE Serve
  BY <1>7, ServeKeeps
<1>8. CASE Refuse
  BY <1>8, RefuseKeeps
<1>9. CASE Die
  BY <1>9, DieKeeps
<1>10. CASE Stray
  BY <1>10, StrayKeeps
<1>11. CASE UNCHANGED redoVars
  <2>1. UNCHANGED <<pc, asked, job, attempt, result, owner, proc, strikes, refused>>
    BY <1>11 DEF redoVars, callerVars
  <2>2. PipeInv'
    BY <2>1, PipeKeeps
  <2>3. RedoTypeOK'
    BY <2>1 DEF RedoInv, RedoTypeOK
  <2>4. ASSUME NEW r \in Reader
        PROVE  ReaderOK(r)'
    <3>1. ReaderOK(r)
      BY DEF RedoInv
    <3>2. JobOK(r)' /\ LockOK(r)' /\ ExactOf(r)'
      BY <2>1, <3>1, Zenon DEF ReaderOK, JobOK, LockOK, ExactOf, Active, Holds
    <3>3. StrikesOK(r)'
      BY <2>1, <3>1 DEF ReaderOK, StrikesOK, Active, Holds, Bad
    <3> QED
      BY <3>2, <3>3 DEF ReaderOK
  <2> QED
    BY <2>2, <2>3, <2>4 DEF RedoInv
<1> QED
  BY <1>1, <1>2, <1>3, <1>4, <1>5, <1>6, <1>7, <1>8, <1>9, <1>10, <1>11
     DEF RedoNext, ReaderStep

\* Whatever histories are read, and whatever the other readers and the child
\* do, a read returns the page that its own versions make, reports a refusal
\* only of its own request, and is failed by no single bad child
\* (ProcessRedo::redo_page and reconstruct).
THEOREM RedoAlwaysExact == RedoSpec(Version) => []RedoExact
<1>1. RedoInv => RedoExact
  BY DEF RedoInv, ReaderOK, ExactOf, RedoExact
<1> QED
  BY <1>1, RedoInitially, RedoKeeps, PTL DEF RedoSpec

=============================================================================
