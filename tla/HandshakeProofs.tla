-------------------------- MODULE HandshakeProofs --------------------------
(***************************************************************************)
(* That the key of a backend's session is found however its stream is cut  *)
(* into reads, and that a connection ends where its client's packet and    *)
(* password lead it, for every set of scenes.                              *)
(***************************************************************************)
EXTENDS Handshake, TLAPS, WellFoundedInduction

\* Leaves that cite no prover may take their time: SMT first, then Zenon.
USE SMTT(30), Zenon

-----------------------------------------------------------------------------
(* Sequences and numbers. *)

LEMMA SeqsAreFunctions == \A S : Seq(S) = UNION {[1..n -> S] : n \in Nat}
OBVIOUS

\* Sequences that agree everywhere are one.
LEMMA SameSeq ==
  ASSUME NEW S, NEW s \in Seq(S), NEW t \in Seq(S),
         Len(s) = Len(t), \A i \in 1..Len(s) : s[i] = t[i]
  PROVE  s = t
OBVIOUS

\* Joining nothing in front or behind.
LEMMA JoinNothing ==
  ASSUME NEW S, NEW s \in Seq(S)
  PROVE  s \o <<>> = s /\ <<>> \o s = s
OBVIOUS

\* The part of a sequence that is all of it, and the one that is none.
LEMMA WholePart ==
  ASSUME NEW S, NEW s \in Seq(S)
  PROVE  SubSeq(s, 1, Len(s)) = s
OBVIOUS

LEMMA NoPart ==
  ASSUME NEW s, NEW m \in Int, NEW n \in Int, n < m
  PROVE  SubSeq(s, m, n) = <<>>
OBVIOUS

\* Parts that adjoin make up one part.
LEMMA JoinParts ==
  ASSUME NEW S, NEW s \in Seq(S),
         NEW m \in 1..(Len(s) + 1), NEW k \in (m - 1)..Len(s), NEW n \in k..Len(s)
  PROVE  SubSeq(s, m, k) \o SubSeq(s, k + 1, n) = SubSeq(s, m, n)
OBVIOUS

\* A set of numbers has a smallest one.
LEMMA SmallestNat ==
  ASSUME NEW S \in SUBSET Nat, S # {}
  PROVE  \E k \in S : \A l \in S : k <= l
<1>1. PICK k \in S : \A l \in S : ~ (<<l, k>> \in OpToRel(<, Nat))
  BY WFMin, NatLessThanWellFounded, Zenon
<1>2. \A l \in S : ~ (l < k)
  BY <1>1, Zenon DEF OpToRel
<1> QED
  BY <1>2

Elems(s) == {s[i] : i \in 1..Len(s)}

\* What IsSeq says of a packet, a stream or a text.
LEMMA SeqOfElems ==
  ASSUME NEW s, IsSeq(s)
  PROVE  s \in Seq(Elems(s)) /\ Len(s) \in Nat
<1>1. Len(s) \in Nat /\ s = [i \in 1..Len(s) |-> s[i]]
  BY Zenon DEF IsSeq
<1>2. [i \in 1..Len(s) |-> s[i]] \in [1..Len(s) -> Elems(s)]
  BY DEF Elems
<1>3. s \in [1..Len(s) -> Elems(s)]
  BY <1>1, <1>2, Zenon
<1> QED
  BY <1>1, <1>3, SeqsAreFunctions, Zenon

\* A part of a sequence, by its positions.
LEMMA PartOf ==
  ASSUME NEW S, NEW s \in Seq(S), NEW m \in Nat \ {0}, NEW n \in Nat,
         m <= n + 1, n <= Len(s)
  PROVE  /\ SubSeq(s, m, n) \in Seq(S) /\ Len(SubSeq(s, m, n)) = n - m + 1
         /\ \A i \in 1..(n - m + 1) : SubSeq(s, m, n)[i] = s[m + i - 1]
OBVIOUS

\* The rest of a part is a part.
LEMMA RestOfPart ==
  ASSUME NEW S, NEW s \in Seq(S), NEW m \in Nat \ {0}, NEW n \in Nat,
         m <= n + 1, n <= Len(s), NEW k \in Nat \ {0}, k <= n - m + 2
  PROVE  SubSeq(SubSeq(s, m, n), k, Len(SubSeq(s, m, n))) = SubSeq(s, m + k - 1, n)
<1> DEFINE t == SubSeq(s, m, n)
           u == SubSeq(t, k, n - m + 1)
           w == SubSeq(s, m + k - 1, n)
<1>1. t \in Seq(S) /\ Len(t) = n - m + 1 /\ \A i \in 1..(n - m + 1) : t[i] = s[m + i - 1]
  BY PartOf
<1>2. w \in Seq(S) /\ Len(w) = n - (m + k - 1) + 1
      /\ \A i \in 1..(n - (m + k - 1) + 1) : w[i] = s[(m + k - 1) + i - 1]
  <2>1. m + k - 1 \in Nat \ {0} /\ m + k - 1 <= n + 1
    OBVIOUS
  <2> QED
    BY <2>1, PartOf
<1> HIDE DEF t
<1>3. u \in Seq(S) /\ Len(u) = (n - m + 1) - k + 1
      /\ \A i \in 1..((n - m + 1) - k + 1) : u[i] = t[k + i - 1]
  <2>1. n - m + 1 \in Nat /\ k <= (n - m + 1) + 1 /\ n - m + 1 <= Len(t)
    BY <1>1
  <2> QED
    BY <1>1, <2>1, PartOf
<1> HIDE DEF u, w
<1>4. Len(u) = Len(w)
  BY <1>2, <1>3
<1>5. \A i \in 1..Len(u) : u[i] = w[i]
  BY <1>1, <1>2, <1>3
<1>6. u = w
  BY <1>2, <1>3, <1>4, <1>5, SameSeq, Zenon
<1> QED
  BY <1>1, <1>6, Zenon DEF t, u, w

-----------------------------------------------------------------------------
(* The backend's stream and the scanner. *)

\* The scene of a connection never changes, and is laid out as it should be.
LEMMA SceneLaid ==
  ASSUME NEW s \in HsScenes
  PROVE  StreamLaid(s) /\ PacketLaid(s)
BY SceneAssumption

\* How message i, the one after message k, lies in its stream.
LEMMA MessageLaid ==
  ASSUME NEW s \in HsScenes, NEW k \in 0..Len(s.stream), NEW i \in 1..Len(s.stream), i = k + 1
  PROVE  LET b == s.stream[i].body
             e == s.ends[k]
         IN /\ e \in Nat /\ s.ends[i] = e + 2 + Len(b) /\ s.ends[i] <= Len(s.cells)
            /\ IsSeq(b) /\ Len(b) \in Nat
            /\ s.cells[e + 1] = s.stream[i].t /\ s.cells[e + 2] = Len(b) + 1
            /\ \A j \in 1..Len(b) : s.cells[e + 2 + j] = b[j]
<1> DEFINE b == s.stream[i].body
           e == s.ends[i - 1]
<1>1. StreamLaid(s)
  BY SceneLaid
<1>2. Len(s.cells) \in Nat /\ Len(s.stream) \in Nat
  BY <1>1 DEF StreamLaid, IsSeq
<1>3. i - 1 = k /\ i \in 0..Len(s.stream)
  BY <1>2
<1>4. e \in 0..Len(s.cells) /\ s.ends[i] \in 0..Len(s.cells)
  BY <1>1, <1>3, Zenon DEF StreamLaid
<1>5. /\ IsSeq(b) /\ s.ends[i] = e + HeadCells + Len(b)
      /\ s.cells[e + 1] = s.stream[i].t /\ s.cells[e + 2] = Len(b) + 1
      /\ \A j \in 1..Len(b) : s.cells[e + HeadCells + j] = b[j]
  BY <1>1, Zenon DEF StreamLaid
<1>6. Len(b) \in Nat
  BY <1>5, Zenon DEF IsSeq
<1>7. s.ends[k] = e
  BY <1>3, Zenon
<1> HIDE DEF b, e
<1>8. /\ e \in Nat /\ s.ends[i] = e + 2 + Len(b) /\ s.ends[i] <= Len(s.cells)
      /\ \A j \in 1..Len(b) : s.cells[e + 2 + j] = b[j]
  BY <1>2, <1>4, <1>5 DEF HeadCells
<1> QED
  BY <1>5, <1>6, <1>7, <1>8, Zenon DEF b

\* Where messages end.
LEMMA EndsLaid ==
  ASSUME NEW s \in HsScenes
  PROVE  /\ Len(s.stream) \in Nat /\ IsSeq(s.cells) /\ Len(s.cells) \in Nat
         /\ s.ends[0] = 0
         /\ \A k \in 0..Len(s.stream) : s.ends[k] \in 0..Len(s.cells)
BY SceneLaid, Zenon DEF StreamLaid, IsSeq

\* The messages of a stream follow each other.
LEMMA EndsGrow ==
  ASSUME NEW s \in HsScenes, NEW i \in 0..Len(s.stream), NEW j \in 0..Len(s.stream), i <= j
  PROVE  s.ends[i] <= s.ends[j]
<1>1. Len(s.stream) \in Nat /\ \A k \in 0..Len(s.stream) : s.ends[k] \in Nat
  BY EndsLaid
<1>2. \A k \in 1..Len(s.stream) : s.ends[k - 1] <= s.ends[k]
  <2> TAKE k \in 1..Len(s.stream)
  <2>1. k - 1 \in 0..Len(s.stream) /\ k = (k - 1) + 1
    BY <1>1
  <2>2. s.ends[k - 1] \in Nat /\ s.ends[k] = s.ends[k - 1] + 2 + Len(s.stream[k].body)
        /\ Len(s.stream[k].body) \in Nat
    BY <2>1, MessageLaid, Zenon
  <2> QED
    BY <2>2
<1>3. SUFFICES ASSUME s.ends[j] < s.ends[i]
               PROVE  FALSE
  BY <1>1
<1> DEFINE Bad == {k \in 0..Len(s.stream) : i <= k /\ s.ends[k] < s.ends[i]}
<1>4. PICK k \in Bad : \A l \in Bad : k <= l
  <2>1. Bad \in SUBSET Nat /\ j \in Bad
    BY <1>1, <1>3
  <2> QED
    BY <2>1, SmallestNat, Zenon
<1>5. k > i
  BY <1>1, <1>4
<1>6. k - 1 \in 0..Len(s.stream) /\ i <= k - 1 /\ k \in 1..Len(s.stream)
  BY <1>1, <1>4, <1>5
<1>7. s.ends[k - 1] < s.ends[i]
  <2>1. s.ends[k - 1] <= s.ends[k]
    BY <1>2, <1>6, Zenon
  <2>2. s.ends[k - 1] \in Nat /\ s.ends[k] \in Nat /\ s.ends[i] \in Nat
    BY <1>1, <1>6
  <2>3. s.ends[k] < s.ends[i]
    BY <1>4, Zenon
  <2> QED
    BY <2>1, <2>2, <2>3
<1>8. k - 1 \in Bad
  BY <1>6, <1>7
<1> QED
  BY <1>4, <1>6, <1>8

\* The cells after message k, of those read.
Since(s, k, r) == SubSeq(s.cells, s.ends[k] + 1, r)

\* They are cells of the stream.
LEMMA SinceLaid ==
  ASSUME NEW s \in HsScenes, NEW k \in 0..Len(s.stream), NEW r \in s.ends[k]..Len(s.cells)
  PROVE  /\ s.ends[k] \in Nat /\ r \in Nat
         /\ Len(Since(s, k, r)) = r - s.ends[k]
         /\ \A i \in 1..(r - s.ends[k]) : Since(s, k, r)[i] = s.cells[s.ends[k] + i]
<1> DEFINE e == s.ends[k]
<1>1. e \in 0..Len(s.cells) /\ IsSeq(s.cells) /\ Len(s.cells) \in Nat
  BY EndsLaid
<1>2. s.cells \in Seq(Elems(s.cells))
  BY <1>1, SeqOfElems
<1> HIDE DEF e
<1>3. e + 1 \in Nat \ {0} /\ r \in Nat /\ e + 1 <= r + 1 /\ r <= Len(s.cells) /\ e \in Nat
  BY <1>1 DEF e
<1>4. /\ Len(SubSeq(s.cells, e + 1, r)) = r - (e + 1) + 1
      /\ \A i \in 1..(r - (e + 1) + 1) : SubSeq(s.cells, e + 1, r)[i] = s.cells[(e + 1) + i - 1]
  BY <1>2, <1>3, PartOf
<1> DEFINE u == SubSeq(s.cells, e + 1, r)
<1>5. Len(u) = r - e /\ \A i \in 1..(r - e) : u[i] = s.cells[e + i]
  <2> HIDE DEF u
  <2>1. r - (e + 1) + 1 = r - e /\ \A i \in 1..(r - e) : (e + 1) + i - 1 = e + i
    BY <1>3
  <2> QED
    BY <1>4, <2>1, Zenon DEF u
<1> QED
  BY <1>3, <1>5, Zenon DEF e, Since

\* A scanner that sees a whole message sees the next one of the stream, or
\* after the last a length that does not cover itself.
LEMMA WholeMessage ==
  ASSUME NEW s \in HsScenes, NEW k \in 0..Len(s.stream), NEW r \in s.ends[k]..Len(s.cells),
         Whole(Since(s, k, r))
  PROVE  LET buf == Since(s, k, r)
             m == s.stream[k + 1]
         IN \/ k = Len(s.stream) /\ buf[2] \in Int /\ buf[2] < 1
            \/ /\ k + 1 \in 1..Len(s.stream) /\ r \in s.ends[k + 1]..Len(s.cells)
               /\ s.ends[k + 1] = s.ends[k] + 1 + buf[2]
               /\ IsSeq(m.body) /\ Len(m.body) \in Nat
               /\ buf[1] = m.t /\ buf[2] = Len(m.body) + 1
               /\ \A j \in 1..Len(m.body) : buf[2 + j] = m.body[j]
<1> DEFINE buf == Since(s, k, r)
           m == s.stream[k + 1]
           e == s.ends[k]
<1>1. /\ e \in Nat /\ r \in Nat /\ Len(buf) = r - e
      /\ \A i \in 1..(r - e) : buf[i] = s.cells[e + i]
  BY SinceLaid, Zenon
<1>2. e <= r /\ r <= Len(s.cells) /\ Len(s.cells) \in Nat /\ Len(s.stream) \in Nat
  BY <1>1, EndsLaid
<1>3. Len(buf) >= 2 /\ buf[2] <= Len(buf) - 1
  BY Zenon DEF Whole, HeadCells
<1>4. CASE k = Len(s.stream)
  <2>1. Len(s.cells) - e >= HeadCells => s.cells[e + 2] \in Int \ (1..(Len(s.cells) - e - 1))
    BY <1>4, SceneLaid, Zenon DEF StreamLaid
  <2> HIDE DEF buf, e
  <2>2. buf[2] = s.cells[e + 2] /\ Len(s.cells) - e >= HeadCells
    BY <1>1, <1>2, <1>3 DEF HeadCells
  <2>3. buf[2] \in Int /\ buf[2] < 1
    BY <1>1, <1>2, <1>3, <2>1, <2>2
  <2> QED
    BY <1>4, <2>3, Zenon DEF buf, e
<1>5. CASE k # Len(s.stream)
  <2>1. k + 1 \in 1..Len(s.stream)
    BY <1>2, <1>5
  <2>2. /\ s.ends[k + 1] = e + 2 + Len(m.body)
        /\ IsSeq(m.body) /\ Len(m.body) \in Nat
        /\ s.cells[e + 1] = m.t /\ s.cells[e + 2] = Len(m.body) + 1
        /\ \A j \in 1..Len(m.body) : s.cells[e + 2 + j] = m.body[j]
    BY <2>1, MessageLaid, Zenon
  <2> DEFINE l == Len(m.body)
  <2>3. l \in Nat /\ s.ends[k + 1] = e + 2 + l
    BY <2>2, Zenon
  <2> HIDE DEF buf, e, m, l
  <2>4. 1 \in 1..(r - e) /\ 2 \in 1..(r - e)
    BY <1>1, <1>3
  <2>5. buf[1] = m.t /\ buf[2] = l + 1
    BY <1>1, <2>2, <2>4, Zenon DEF l
  <2>6. l + 1 <= (r - e) - 1
    BY <1>1, <1>3, <2>5, Zenon
  <2>7. e \in Nat /\ r \in Nat /\ r <= Len(s.cells)
    BY <1>1, <1>2, Zenon
  <2>8. r \in s.ends[k + 1]..Len(s.cells) /\ s.ends[k + 1] = e + 1 + buf[2]
    BY <1>2, <2>3, <2>5, <2>6, <2>7
  <2>9. ASSUME NEW j \in 1..l
        PROVE  buf[2 + j] = m.body[j]
    <3>1. 2 + j \in 1..(r - e) /\ e + (2 + j) = e + 2 + j
      BY <2>3, <2>6, <2>7
    <3> QED
      BY <1>1, <2>2, <3>1, Zenon DEF l
  <2> QED
    BY <2>1, <2>2, <2>5, <2>8, <2>9, Zenon DEF buf, e, m, l
<1> QED
  BY <1>4, <1>5

\* What the scanner sees of it.
LEMMA NextMessage ==
  ASSUME hs \in HsScenes, NEW k \in 0..Len(hs.stream), pump.read \in hs.ends[k]..Len(hs.cells),
         sc.buf = Since(hs, k, pump.read), Whole(sc.buf), ~(sc.buf[2] < 1) \/ k # Len(hs.stream)
  PROVE  LET m == hs.stream[k + 1]
         IN /\ k + 1 \in 1..Len(hs.stream) /\ pump.read \in hs.ends[k + 1]..Len(hs.cells)
            /\ hs.ends[k + 1] = hs.ends[k] + 1 + sc.buf[2]
            /\ IsSeq(m.body) /\ Len(m.body) \in Nat
            /\ sc.buf[1] = m.t /\ sc.buf[2] = Len(m.body) + 1
            /\ \A j \in 1..Len(m.body) : sc.buf[2 + j] = m.body[j]
<1> DEFINE buf == Since(hs, k, pump.read)
           m == hs.stream[k + 1]
<1>1. Whole(buf) /\ sc.buf = buf
  BY Zenon
<1>2. \/ k = Len(hs.stream) /\ buf[2] \in Int /\ buf[2] < 1
      \/ /\ k + 1 \in 1..Len(hs.stream) /\ pump.read \in hs.ends[k + 1]..Len(hs.cells)
         /\ hs.ends[k + 1] = hs.ends[k] + 1 + buf[2]
         /\ IsSeq(m.body) /\ Len(m.body) \in Nat
         /\ buf[1] = m.t /\ buf[2] = Len(m.body) + 1
         /\ \A j \in 1..Len(m.body) : buf[2 + j] = m.body[j]
  BY <1>1, WholeMessage, Zenon
<1> HIDE DEF buf, m
<1> QED
  BY <1>1, <1>2, Zenon DEF m

\* One that sees no whole message waits for the rest of the next one.
LEMMA PartMessage ==
  ASSUME NEW s \in HsScenes, NEW k \in 0..Len(s.stream), NEW r \in s.ends[k]..Len(s.cells),
         ~Whole(Since(s, k, r)), k + 1 \in 1..Len(s.stream)
  PROVE  LET len == Len(Since(s, k, r))
         IN /\ len \in Nat /\ r < s.ends[k + 1]
            /\ len > 1 => len < Len(s.stream[k + 1].body) + 2
<1> DEFINE buf == Since(s, k, r)
           e == s.ends[k]
           l == Len(s.stream[k + 1].body)
<1>1. /\ e \in Nat /\ r \in Nat /\ Len(buf) = r - e
      /\ \A i \in 1..(r - e) : buf[i] = s.cells[e + i]
  BY SinceLaid
<1>2. e <= r
  BY <1>1, EndsLaid
<1>3. ~(Len(buf) >= 2 /\ buf[2] <= Len(buf) - 1)
  BY Zenon DEF Whole, HeadCells
<1>4. s.ends[k + 1] = e + 2 + l /\ l \in Nat /\ s.cells[e + 2] = l + 1
  BY MessageLaid, Zenon
<1> HIDE DEF buf, e, l
<1>5. e \in Nat /\ r \in Nat /\ Len(buf) = r - e
  BY <1>1, Zenon
<1>6. Len(buf) >= 2 => buf[2] = l + 1
  <2>1. Len(buf) >= 2 => 2 \in 1..(r - e)
    BY <1>5
  <2> QED
    BY <1>1, <1>4, <2>1, Zenon
<1>7. Len(buf) \in Nat /\ (Len(buf) > 1 => Len(buf) < l + 2)
  BY <1>2, <1>3, <1>4, <1>5, <1>6
<1>8. r < s.ends[k + 1]
  BY <1>2, <1>4, <1>5, <1>7
<1> QED
  BY <1>7, <1>8, Zenon DEF buf, l

\* The scanner has k messages behind it and the cells since in its buffer.
ScanAt(k) ==
  /\ k \in 0..Len(hs.stream) /\ hs.ends[k] <= pump.read
  /\ sc.buf = Since(hs, k, pump.read)
  /\ \A j \in 1..k : j \notin KeyAt /\ hs.stream[j].t # MSG_READY_FOR_QUERY

KeysHeld == {pump.captured[i] : i \in DOMAIN pump.captured}

PumpTyped ==
  /\ hs \in HsScenes
  /\ pump = [read |-> pump.read, sent |-> pump.sent, captured |-> pump.captured]
  /\ sc.done \in BOOLEAN /\ sc.busy \in BOOLEAN
  /\ pump.read \in 0..Len(hs.cells) /\ pump.sent \in 0..pump.read

\* A captured key is the first of the stream, and the only one in reach.
FirstKey(i) == i \in KeyAt /\ \A j \in KeyAt : InReach(j) => j = i

KeyInv ==
  /\ PumpTyped
  /\ sc.busy => ~sc.done /\ pump.sent < pump.read /\ px = "splice"
  /\ px \notin {"splice", "end"} =>
       pump.read = 0 /\ pump.sent = 0 /\ pump.captured = <<>> /\ sc = NewScanner
  /\ ~sc.done => /\ pump.captured = <<>>
                 /\ \E k \in 0..Len(hs.stream) : ScanAt(k)
                 /\ ~sc.busy => ~Whole(sc.buf)
  /\ sc.done => \/ pump.captured = <<>> /\ \A i \in KeyAt : ~InReach(i)
                \/ \E i \in KeyAt : FirstKey(i) /\ pump.captured = <<hs.stream[i].body>>
  /\ cancels = {OtherKey} \cup (IF px = "end" /\ pump.sent = pump.read THEN {} ELSE KeysHeld)


-----------------------------------------------------------------------------
(* That every step keeps it. *)

\* What is read off the scene stays.
LEMMA SceneFrame ==
  ASSUME hs' = hs
  PROVE  /\ KeyAt' = KeyAt /\ IssuedKeys' = IssuedKeys
         /\ \A i : InReach(i)' = InReach(i) /\ FirstKey(i)' = FirstKey(i)
<1>1. KeyAt' = KeyAt
  BY DEF KeyAt
<1>2. \A i : InReach(i)' = InReach(i)
  BY <1>1 DEF InReach
<1> QED
  BY <1>1, <1>2, Zenon DEF IssuedKeys, FirstKey

\* Without a key there is none to hold.
LEMMA NoneHeld ==
  ASSUME pump.captured = <<>>
  PROVE  KeysHeld = {}
BY DEF KeysHeld

LEMMA KeyInitially == HsInit => KeyInv
<1> SUFFICES ASSUME HsInit PROVE KeyInv
  OBVIOUS
<1>1. hs \in HsScenes /\ px = "first" /\ cancels = {OtherKey} /\ sc = Scan(<<>>, FALSE, FALSE)
      /\ pump.read = 0 /\ pump.sent = 0 /\ pump.captured = <<>>
      /\ pump = [read |-> pump.read, sent |-> pump.sent, captured |-> pump.captured]
  BY DEF HsInit, NewScanner
<1>2. sc.buf = <<>> /\ sc.done = FALSE /\ sc.busy = FALSE
  BY <1>1, Zenon DEF Scan
<1>3. Len(hs.stream) \in Nat /\ Len(hs.cells) \in Nat /\ hs.ends[0] = 0
  BY <1>1, EndsLaid
<1>4. ScanAt(0)
  <2>1. Since(hs, 0, 0) = <<>>
    BY <1>3, NoPart DEF Since
  <2>2. 0 \in 0..Len(hs.stream) /\ 0 <= 0 /\ \A j : j \notin 1..0
    BY <1>3
  <2> QED
    BY <1>1, <1>2, <1>3, <2>1, <2>2, Zenon DEF ScanAt
<1>5. ~Whole(sc.buf)
  BY <1>2 DEF Whole, HeadCells
<1>6. PumpTyped
  <2>1. 0 \in 0..Len(hs.cells) /\ 0 \in 0..0
    BY <1>3
  <2> QED
    BY <1>1, <1>2, <2>1, Zenon DEF PumpTyped
<1>7. 0 \in 0..Len(hs.stream)
  BY <1>3
<1>8. KeysHeld = {}
  BY <1>1, NoneHeld
<1> QED
  BY <1>1, <1>2, <1>4, <1>5, <1>6, <1>7, <1>8, Zenon DEF KeyInv, NewScanner

\* Steps before the backend's stream, and steps of the client.
LEMMA KeyFrame ==
  ASSUME KeyInv, UNCHANGED <<hs, splVars>>, px' = px \/ px \notin {"splice", "end"}
  PROVE  KeyInv'
<1>1. hs' = hs /\ pump' = pump /\ sc' = sc /\ cancels' = cancels
  BY DEF splVars
<1>2. /\ KeyAt' = KeyAt /\ \A i : InReach(i)' = InReach(i) /\ FirstKey(i)' = FirstKey(i)
  BY <1>1, SceneFrame
<1>3. PumpTyped' /\ KeysHeld' = KeysHeld /\ \A k : ScanAt(k)' = ScanAt(k)
  <2>1. PumpTyped
    BY DEF KeyInv
  <2> QED
    BY <1>1, <1>2, <2>1, Zenon DEF PumpTyped, KeysHeld, ScanAt, Since
<1>4. /\ ~sc'.done => /\ pump'.captured = <<>>
                      /\ \E k \in 0..Len(hs'.stream) : ScanAt(k)'
                      /\ ~sc'.busy => ~Whole(sc'.buf)
      /\ sc'.done => \/ pump'.captured = <<>> /\ \A i \in KeyAt' : ~InReach(i)'
                     \/ \E i \in KeyAt' : FirstKey(i)' /\ pump'.captured = <<hs'.stream[i].body>>
  BY <1>1, <1>2, <1>3, Zenon DEF KeyInv
<1>5. CASE px' = px
  BY <1>1, <1>3, <1>4, <1>5, Zenon DEF KeyInv
<1>6. CASE px \notin {"splice", "end"}
  <2>1. pump.read = 0 /\ pump.sent = 0 /\ pump.captured = <<>> /\ sc = Scan(<<>>, FALSE, FALSE)
    BY <1>6, Zenon DEF KeyInv, NewScanner
  <2>2. sc.busy = FALSE /\ KeysHeld = {}
    BY <2>1, NoneHeld, Zenon DEF Scan
  <2>3. cancels = {OtherKey} \cup {}
    BY <1>6, <2>2, Zenon DEF KeyInv
  <2> QED
    BY <1>1, <1>3, <1>4, <2>1, <2>2, <2>3, Zenon DEF KeyInv, NewScanner
<1> QED
  BY <1>5, <1>6

\* What the scanner has before it when it is not done.
LEMMA ScanFacts ==
  ASSUME KeyInv, ~sc.done
  PROVE  \E k \in 0..Len(hs.stream) :
           /\ hs \in HsScenes /\ pump.read \in hs.ends[k]..Len(hs.cells)
           /\ sc.buf = Since(hs, k, pump.read)
           /\ hs.ends[k] \in Nat /\ pump.read \in Nat /\ Len(hs.cells) \in Nat
           /\ Len(hs.stream) \in Nat /\ k \in Nat
           /\ \A j \in 1..k : j \notin KeyAt /\ hs.stream[j].t # MSG_READY_FOR_QUERY
<1>1. PICK k \in 0..Len(hs.stream) : ScanAt(k)
  BY Zenon DEF KeyInv
<1>2. hs \in HsScenes /\ pump.read \in 0..Len(hs.cells)
  BY Zenon DEF KeyInv, PumpTyped
<1>3. hs.ends[k] \in 0..Len(hs.cells) /\ Len(hs.cells) \in Nat /\ Len(hs.stream) \in Nat
  BY <1>2, EndsLaid
<1>4. hs.ends[k] <= pump.read /\ sc.buf = Since(hs, k, pump.read)
      /\ \A j \in 1..k : j \notin KeyAt /\ hs.stream[j].t # MSG_READY_FOR_QUERY
  BY <1>1, Zenon DEF ScanAt
<1>5. hs.ends[k] \in Nat /\ pump.read \in Nat /\ k \in Nat /\ pump.read \in hs.ends[k]..Len(hs.cells)
  BY <1>2, <1>3, <1>4
<1> QED
  BY <1>2, <1>3, <1>4, <1>5, Zenon

\* A key that was not passed is the next message or comes after it.
LEMMA KeyAhead ==
  ASSUME NEW k \in Nat, \A j \in 1..k : j \notin KeyAt, NEW i \in KeyAt, Len(hs.stream) \in Nat
  PROVE  i \in 1..Len(hs.stream) /\ i >= k + 1 /\ k + 1 \in 1..Len(hs.stream)
<1>1. i \in 1..Len(hs.stream) /\ i \notin 1..k
  BY Zenon DEF KeyAt
<1> QED
  BY <1>1

LEMMA ReadKeepsKey ==
  ASSUME KeyInv, PumpRead
  PROVE  KeyInv'
<1>1. PICK n \in HsChunks :
        /\ pump.read + n <= Len(hs.cells)
        /\ sc' = push(sc, SubSeq(hs.cells, pump.read + 1, pump.read + n))
        /\ pump' = [pump EXCEPT !.read = @ + n]
  BY Zenon DEF PumpRead
<1>2. px = "splice" /\ px' = px /\ hs' = hs /\ cancels' = cancels /\ pump.sent = pump.read
  BY DEF PumpRead, cutVars
<1>3. /\ hs \in HsScenes /\ pump = [read |-> pump.read, sent |-> pump.sent, captured |-> pump.captured]
      /\ sc.done \in BOOLEAN /\ pump.read \in 0..Len(hs.cells) /\ pump.sent \in 0..pump.read
  BY Zenon DEF KeyInv, PumpTyped
<1>4. n \in Nat \ {0} /\ Len(hs.cells) \in Nat
  BY <1>3, EndsLaid, SceneAssumption
<1>5. pump' = [read |-> pump.read + n, sent |-> pump.sent, captured |-> pump.captured]
  BY <1>1, <1>3
<1>6. pump'.read = pump.read + n /\ pump'.sent = pump.sent /\ pump'.captured = pump.captured
      /\ pump' = [read |-> pump'.read, sent |-> pump'.sent, captured |-> pump'.captured]
  BY <1>5
<1>7. pump'.read \in 0..Len(hs'.cells) /\ pump'.sent \in 0..pump'.read /\ pump'.sent < pump'.read
  BY <1>1, <1>2, <1>3, <1>4, <1>6
<1>8. KeysHeld' = KeysHeld /\ cancels = {OtherKey} \cup KeysHeld
  BY <1>2, <1>6 DEF KeysHeld, KeyInv
<1>9. KeyAt' = KeyAt /\ \A i : InReach(i)' = InReach(i) /\ FirstKey(i)' = FirstKey(i)
  BY <1>2, SceneFrame
<1>10. px' = "splice" /\ px' \in {"splice", "end"} /\ px' # "end"
  BY <1>2
<1>11. CASE sc.done
  <2>1. sc' = sc
    BY <1>1, <1>11, Zenon DEF push
  <2>2. ~sc.busy
    BY <1>11, Zenon DEF KeyInv
  <2>3. PumpTyped'
    BY <1>2, <1>3, <1>6, <1>7, <2>1, Zenon DEF PumpTyped, KeyInv
  <2> QED
    BY <1>2, <1>6, <1>8, <1>9, <1>10, <1>11, <2>1, <2>2, <2>3, Zenon DEF KeyInv
<1>12. CASE ~sc.done
  <2> DEFINE chunk == SubSeq(hs.cells, pump.read + 1, pump.read + n)
  <2>1. sc' = Scan(sc.buf \o chunk, FALSE, TRUE)
    BY <1>1, <1>12, Zenon DEF push
  <2> HIDE DEF chunk
  <2>2. sc'.buf = sc.buf \o chunk /\ sc'.done = FALSE /\ sc'.busy = TRUE
    BY <2>1, Zenon DEF Scan
  <2>3. PICK k \in 0..Len(hs.stream) :
           /\ pump.read \in hs.ends[k]..Len(hs.cells) /\ sc.buf = Since(hs, k, pump.read)
           /\ hs.ends[k] \in Nat /\ pump.read \in Nat
           /\ \A j \in 1..k : j \notin KeyAt /\ hs.stream[j].t # MSG_READY_FOR_QUERY
    BY <1>12, ScanFacts, Zenon
  <2>4. sc'.buf = Since(hs, k, pump.read + n)
    <3>1. hs.cells \in Seq(Elems(hs.cells))
      BY <1>3, EndsLaid, SeqOfElems
    <3>2. hs.ends[k] + 1 \in 1..(Len(hs.cells) + 1)
          /\ pump.read \in ((hs.ends[k] + 1) - 1)..Len(hs.cells)
          /\ pump.read + n \in pump.read..Len(hs.cells)
      BY <1>1, <1>4, <2>3
    <3>3. SubSeq(hs.cells, hs.ends[k] + 1, pump.read)
            \o SubSeq(hs.cells, pump.read + 1, pump.read + n)
          = SubSeq(hs.cells, hs.ends[k] + 1, pump.read + n)
      BY <3>1, <3>2, JoinParts, Zenon
    <3> QED
      BY <2>2, <2>3, <3>3, Zenon DEF Since, chunk
  <2>5. hs.ends[k] <= pump'.read
    BY <1>4, <1>6, <2>3
  <2>6. ScanAt(k)'
    BY <1>2, <1>6, <1>9, <2>3, <2>4, <2>5, Zenon DEF ScanAt, Since
  <2>7. PumpTyped'
    BY <1>2, <1>3, <1>6, <1>7, <2>2, Zenon DEF PumpTyped
  <2>8. pump'.captured = <<>>
    BY <1>6, <1>12, Zenon DEF KeyInv
  <2> QED
    BY <1>2, <1>7, <1>8, <1>10, <2>2, <2>6, <2>7, <2>8, Zenon DEF KeyInv
<1> QED
  BY <1>11, <1>12

\* What the steps of the scan have in common.
LEMMA ScanStepFacts ==
  ASSUME KeyInv, ScanStep
  PROVE  /\ px = "splice" /\ px' = px /\ hs' = hs /\ ~sc.done /\ sc.busy = TRUE
         /\ pump.sent < pump.read /\ pump.captured = <<>>
         /\ cancels = {OtherKey} \cup KeysHeld /\ KeysHeld = {} /\ PumpTyped
         /\ KeyAt' = KeyAt /\ \A i : InReach(i)' = InReach(i) /\ FirstKey(i)' = FirstKey(i)
<1>1. px = "splice" /\ px' = px /\ hs' = hs /\ sc.busy
  BY DEF ScanStep, cutVars
<1>2. ~sc.done /\ pump.sent < pump.read /\ PumpTyped /\ sc.busy \in BOOLEAN
  BY <1>1, Zenon DEF KeyInv, PumpTyped
<1>3. pump.captured = <<>>
  BY <1>2, Zenon DEF KeyInv
<1>4. KeyAt' = KeyAt /\ \A i : InReach(i)' = InReach(i) /\ FirstKey(i)' = FirstKey(i)
  BY <1>1, SceneFrame
<1>5. cancels = {OtherKey} \cup KeysHeld
  <2>1. px # "end"
    BY <1>1
  <2> QED
    BY <2>1, Zenon DEF KeyInv
<1> QED
  BY <1>1, <1>2, <1>3, <1>4, <1>5, NoneHeld, Zenon

\* A step that only moves the scanner.
LEMMA ScanKeeps ==
  ASSUME KeyInv, ScanStep, UNCHANGED <<cancels, pump>>,
         sc'.done \in BOOLEAN, sc'.busy \in BOOLEAN, sc'.busy => ~sc'.done,
         ~sc'.done => (\E k \in 0..Len(hs.stream) : ScanAt(k)') /\ (~sc'.busy => ~Whole(sc'.buf)),
         sc'.done => \A i \in KeyAt : ~InReach(i)
  PROVE  KeyInv'
<1>1. /\ px = "splice" /\ px' = px /\ hs' = hs /\ pump.sent < pump.read /\ pump.captured = <<>>
      /\ cancels = {OtherKey} \cup KeysHeld /\ PumpTyped
      /\ KeyAt' = KeyAt /\ \A i : InReach(i)' = InReach(i)
  BY ScanStepFacts
<1>2. px' = "splice" /\ px' \in {"splice", "end"} /\ px' # "end"
  BY <1>1
<1>3. pump' = pump /\ cancels' = cancels /\ KeysHeld' = KeysHeld
  BY DEF KeysHeld
<1>4. PumpTyped'
  BY <1>1, <1>3, Zenon DEF PumpTyped
<1> QED
  BY <1>1, <1>2, <1>3, <1>4, Zenon DEF KeyInv

LEMMA SkipKeepsKey ==
  ASSUME KeyInv, MessageSkipped
  PROVE  KeyInv'
<1>1. /\ ScanStep /\ Whole(sc.buf) /\ ~IsKey(sc.buf) /\ ~IsEnd(sc.buf)
      /\ sc' = Over(sc.buf) /\ UNCHANGED <<cancels, pump>>
  BY Zenon DEF MessageSkipped
<1>2. ~sc.done /\ hs' = hs /\ KeyAt' = KeyAt
  BY <1>1, ScanStepFacts
<1>3. PICK k \in 0..Len(hs.stream) :
         /\ hs \in HsScenes /\ pump.read \in hs.ends[k]..Len(hs.cells)
         /\ sc.buf = Since(hs, k, pump.read)
         /\ hs.ends[k] \in Nat /\ pump.read \in Nat /\ Len(hs.cells) \in Nat
         /\ Len(hs.stream) \in Nat /\ k \in Nat
         /\ \A j \in 1..k : j \notin KeyAt /\ hs.stream[j].t # MSG_READY_FOR_QUERY
  BY <1>2, ScanFacts, Zenon
<1> DEFINE e == hs.ends[k]
           r == pump.read
           m == hs.stream[k + 1]
           l == sc.buf[2]
<1>4. /\ k + 1 \in 1..Len(hs.stream) /\ r \in hs.ends[k + 1]..Len(hs.cells)
      /\ hs.ends[k + 1] = e + 1 + l /\ Len(m.body) \in Nat
      /\ sc.buf[1] = m.t /\ l = Len(m.body) + 1
  <2>1. ~(l < 1)
    BY <1>1, Zenon DEF IsEnd
  <2> QED
    BY <1>1, <1>3, <2>1, NextMessage, Zenon
<1>5. k + 1 \notin KeyAt /\ m.t # MSG_READY_FOR_QUERY
  <2>1. IsKeyMessage(m) => IsKey(sc.buf)
    <3> HIDE DEF m, l
    <3>1. l >= 1
      BY <1>4
    <3> QED
      BY <1>4, <3>1, Zenon DEF IsKeyMessage, IsKey, l
  <2>2. m.t # MSG_READY_FOR_QUERY
    BY <1>1, <1>4, Zenon DEF IsEnd
  <2> QED
    BY <1>1, <2>1, <2>2, Zenon DEF KeyAt
<1>6. sc'.buf = Since(hs, k + 1, r) /\ sc'.done = FALSE /\ sc'.busy = TRUE
  <2>1. hs.cells \in Seq(Elems(hs.cells))
    BY <1>3, EndsLaid, SeqOfElems
  <2>2. /\ e + 1 \in Nat \ {0} /\ r \in Nat /\ e + 1 <= r + 1 /\ r <= Len(hs.cells)
        /\ l + 2 \in Nat \ {0} /\ l + 2 <= r - (e + 1) + 2
        /\ (e + 1) + (l + 2) - 1 = hs.ends[k + 1] + 1
    <3>1. e \in Nat /\ r \in Nat /\ Len(hs.cells) \in Nat /\ r \in e..Len(hs.cells)
      BY <1>3, Zenon
    <3> DEFINE f == hs.ends[k + 1]
               c == Len(hs.cells)
               b == Len(m.body)
    <3>2. r \in f..c /\ f = e + 1 + l /\ b \in Nat /\ l = b + 1 /\ c \in Nat /\ r \in e..c
      BY <1>4, <3>1, Zenon
    <3>3. e \in Nat /\ r \in Nat
      BY <3>1, Zenon
    <3> HIDE DEF e, r, m, l, f, c, b
    <3>4. /\ e + 1 \in Nat \ {0} /\ e + 1 <= r + 1 /\ r <= c
          /\ l + 2 \in Nat \ {0} /\ l + 2 <= r - (e + 1) + 2 /\ (e + 1) + (l + 2) - 1 = f + 1
      BY <3>2, <3>3
    <3> QED
      BY <3>3, <3>4, Zenon DEF f, c
  <2>3. SubSeq(SubSeq(hs.cells, e + 1, r), l + 2, Len(SubSeq(hs.cells, e + 1, r)))
        = SubSeq(hs.cells, (e + 1) + (l + 2) - 1, r)
    <3> DEFINE c == hs.cells
               x == e + 1
               y == l + 2
    <3>1. /\ c \in Seq(Elems(c)) /\ x \in Nat \ {0} /\ r \in Nat /\ x <= r + 1 /\ r <= Len(c)
          /\ y \in Nat \ {0} /\ y <= r - x + 2
      BY <2>1, <2>2, Zenon
    <3> HIDE DEF e, r, l, c, x, y
    <3>2. SubSeq(SubSeq(c, x, r), y, Len(SubSeq(c, x, r))) = SubSeq(c, x + y - 1, r)
      BY <3>1, RestOfPart
    <3> QED
      BY <3>2, Zenon DEF c, x, y
  <2>4. sc' = Scan(SubSeq(sc.buf, l + 2, Len(sc.buf)), FALSE, TRUE)
    BY <1>1, Zenon DEF Over
  <2>5. SubSeq(sc.buf, l + 2, Len(sc.buf)) = Since(hs, k + 1, r)
    BY <1>3, <2>2, <2>3, Zenon DEF Since
  <2> QED
    BY <2>4, <2>5, Zenon DEF Scan
<1>7. ScanAt(k + 1)' /\ k + 1 \in 0..Len(hs.stream)
  <2>1. k + 1 \in 0..Len(hs.stream) /\ hs.ends[k + 1] <= r
        /\ \A j \in 1..(k + 1) : j \in 1..k \/ j = k + 1
    <3>1. r \in hs.ends[k + 1]..Len(hs.cells) /\ k + 1 \in 1..Len(hs.stream) /\ k \in Nat
          /\ Len(hs.stream) \in Nat
      BY <1>3, <1>4, Zenon
    <3> HIDE DEF r
    <3> QED
      BY <3>1
  <2>2. \A j \in 1..(k + 1) : j \notin KeyAt' /\ hs'.stream[j].t # MSG_READY_FOR_QUERY
    BY <1>2, <1>3, <1>5, <2>1, Zenon
  <2>3. pump' = pump
    BY <1>1
  <2> QED
    BY <1>2, <1>6, <2>1, <2>2, <2>3, Zenon DEF ScanAt, Since
<1> QED
  BY <1>1, <1>6, <1>7, ScanKeeps, Zenon

LEMMA CaptureKeepsKey ==
  ASSUME KeyInv, KeyCaptured
  PROVE  KeyInv'
<1>1. /\ ScanStep /\ Whole(sc.buf) /\ IsKey(sc.buf) /\ sc' = Finished
      /\ cancels' = cancels \cup {KeyIn(sc.buf)}
      /\ pump' = [pump EXCEPT !.captured = <<KeyIn(sc.buf)>>]
  BY Zenon DEF KeyCaptured
<1>2. /\ px = "splice" /\ px' = px /\ hs' = hs /\ ~sc.done /\ pump.sent < pump.read
      /\ cancels = {OtherKey} \cup KeysHeld /\ KeysHeld = {} /\ PumpTyped
      /\ KeyAt' = KeyAt /\ \A i : FirstKey(i)' = FirstKey(i)
  BY <1>1, ScanStepFacts
<1>3. PICK k \in 0..Len(hs.stream) :
         /\ hs \in HsScenes /\ pump.read \in hs.ends[k]..Len(hs.cells)
         /\ sc.buf = Since(hs, k, pump.read)
         /\ Len(hs.stream) \in Nat /\ k \in Nat
         /\ \A j \in 1..k : j \notin KeyAt /\ hs.stream[j].t # MSG_READY_FOR_QUERY
  BY <1>2, ScanFacts, Zenon
<1> DEFINE m == hs.stream[k + 1]
<1>4. /\ k + 1 \in 1..Len(hs.stream) /\ IsSeq(m.body) /\ Len(m.body) \in Nat
      /\ sc.buf[1] = m.t /\ sc.buf[2] = Len(m.body) + 1
      /\ \A j \in 1..Len(m.body) : sc.buf[2 + j] = m.body[j]
  <2>1. sc.buf[2] = 3
    BY <1>1, Zenon DEF IsKey, BACKEND_KEY_DATA_LEN
  <2>2. ~(sc.buf[2] < 1)
    BY <2>1
  <2> QED
    BY <1>1, <1>3, <2>2, NextMessage, Zenon
<1>5. k + 1 \in KeyAt /\ Len(m.body) = 2
  <2>1. m.t = MSG_BACKEND_KEY_DATA /\ Len(m.body) + 1 = BACKEND_KEY_DATA_LEN
    BY <1>1, <1>4, Zenon DEF IsKey
  <2>2. Len(m.body) = 2
    <3>1. \A x \in Nat : x + 1 = 3 => x = 2
      OBVIOUS
    <3> QED
      BY <1>4, <2>1, <3>1, Zenon DEF BACKEND_KEY_DATA_LEN
  <2> QED
    BY <1>4, <2>1, <2>2, Zenon DEF KeyAt, IsKeyMessage
<1>6. KeyIn(sc.buf) = m.body
  <2>1. sc.buf[3] = m.body[1] /\ sc.buf[4] = m.body[2]
    <3>1. sc.buf[2 + 1] = m.body[1] /\ sc.buf[2 + 2] = m.body[2]
      <4>1. 1 \in 1..Len(m.body) /\ 2 \in 1..Len(m.body)
        BY <1>5
      <4> QED
        BY <1>4, <4>1, Zenon
    <3> QED
      BY <3>1
  <2>2. m.body = <<m.body[1], m.body[2]>>
    <3> DEFINE b == m.body
    <3>1. b \in Seq(Elems(b)) /\ Len(b) = 2
      BY <1>4, <1>5, SeqOfElems, Zenon
    <3> HIDE DEF b
    <3>2. b = <<b[1], b[2]>>
      BY <3>1
    <3> QED
      BY <3>2, Zenon DEF b
  <2> QED
    BY <2>1, <2>2, Zenon DEF KeyIn
<1>7. FirstKey(k + 1)
  <2>1. ASSUME NEW j \in KeyAt, InReach(j) PROVE j = k + 1
    <3>1. j \in 1..Len(hs.stream) /\ j >= k + 1
      BY <1>3, KeyAhead, Zenon
    <3>2. k + 1 \notin 1..(j - 1)
      BY <1>5, <2>1, Zenon DEF InReach
    <3> QED
      BY <1>3, <3>1, <3>2
  <2> QED
    BY <1>5, <2>1, Zenon DEF FirstKey
<1>8. /\ pump'.read = pump.read /\ pump'.sent = pump.sent /\ pump'.captured = <<m.body>>
      /\ pump' = [read |-> pump'.read, sent |-> pump'.sent, captured |-> pump'.captured]
  <2>1. pump = [read |-> pump.read, sent |-> pump.sent, captured |-> pump.captured]
    BY <1>2, Zenon DEF PumpTyped
  <2>2. pump' = [read |-> pump.read, sent |-> pump.sent, captured |-> <<m.body>>]
    <3> HIDE DEF m
    <3>1. pump' = [pump EXCEPT !.captured = <<m.body>>]
      BY <1>1, <1>6, Zenon
    <3> QED
      BY <2>1, <3>1
  <2> HIDE DEF m
  <2> QED
    BY <2>2
<1>9. sc'.done = TRUE /\ sc'.busy = FALSE
  BY <1>1, Zenon DEF Finished, Scan
<1>10. PumpTyped'
  BY <1>2, <1>8, <1>9, Zenon DEF PumpTyped
<1>11. KeysHeld' = {m.body} /\ cancels' = {OtherKey} \cup {m.body}
  <2> DEFINE b == m.body
  <2>1. pump'.captured = <<b>>
    BY <1>8
  <2> HIDE DEF m, b
  <2>2. KeysHeld' = {b}
    BY <2>1 DEF KeysHeld
  <2>3. cancels' = {OtherKey} \cup {b}
    BY <1>1, <1>2, <1>6, Zenon DEF b
  <2> QED
    BY <2>2, <2>3, Zenon DEF b
<1>12. px' = "splice" /\ px' \in {"splice", "end"} /\ px' # "end"
  BY <1>2
<1>13. \E i \in KeyAt' : FirstKey(i)' /\ pump'.captured = <<hs'.stream[i].body>>
  BY <1>2, <1>5, <1>7, <1>8, Zenon
<1> QED
  BY <1>9, <1>10, <1>11, <1>12, <1>13, Zenon DEF KeyInv

LEMMA GiveUpKeepsKey ==
  ASSUME KeyInv, ScanGivenUp
  PROVE  KeyInv'
<1>1. /\ ScanStep /\ Whole(sc.buf) /\ IsEnd(sc.buf)
      /\ sc' = Finished /\ UNCHANGED <<cancels, pump>>
  BY Zenon DEF ScanGivenUp
<1>2. ~sc.done
  BY <1>1, ScanStepFacts
<1>3. PICK k \in 0..Len(hs.stream) :
         /\ hs \in HsScenes /\ pump.read \in hs.ends[k]..Len(hs.cells)
         /\ sc.buf = Since(hs, k, pump.read)
         /\ Len(hs.stream) \in Nat /\ k \in Nat
         /\ \A j \in 1..k : j \notin KeyAt /\ hs.stream[j].t # MSG_READY_FOR_QUERY
  BY <1>2, ScanFacts, Zenon
<1>4. ASSUME NEW i \in KeyAt, InReach(i) PROVE FALSE
  <2>1. i \in 1..Len(hs.stream) /\ i >= k + 1 /\ k + 1 \in 1..Len(hs.stream)
    BY <1>3, KeyAhead, Zenon
  <2>2. sc.buf[1] = hs.stream[k + 1].t /\ sc.buf[2] = Len(hs.stream[k + 1].body) + 1
        /\ Len(hs.stream[k + 1].body) \in Nat
    <3>1. k # Len(hs.stream)
      BY <1>3, <2>1
    <3> QED
      BY <1>1, <1>3, <3>1, NextMessage, Zenon
  <2>3. hs.stream[k + 1].t = MSG_READY_FOR_QUERY
    <3>1. ~(sc.buf[2] < 1)
      BY <2>2
    <3> QED
      BY <1>1, <2>2, <3>1, Zenon DEF IsEnd
  <2>4. CASE i = k + 1
    <3>1. hs.stream[i].t = MSG_BACKEND_KEY_DATA
      BY Zenon DEF KeyAt, IsKeyMessage
    <3> QED
      BY <2>3, <2>4, <3>1 DEF MSG_BACKEND_KEY_DATA, MSG_READY_FOR_QUERY
  <2>5. CASE i # k + 1
    <3>1. k + 1 \in 1..(i - 1)
      BY <1>3, <2>1, <2>5
    <3> QED
      BY <1>4, <2>3, <3>1, Zenon DEF InReach
  <2> QED
    BY <2>4, <2>5
<1>5. sc'.done = TRUE /\ sc'.busy = FALSE
  BY <1>1, Zenon DEF Finished, Scan
<1> QED
  BY <1>1, <1>4, <1>5, ScanKeeps, Zenon

LEMMA PauseKeepsKey ==
  ASSUME KeyInv, ScanPaused
  PROVE  KeyInv'
<1>1. /\ ScanStep /\ ~Whole(sc.buf) /\ sc' = Pause(sc.buf) /\ UNCHANGED <<cancels, pump>>
  BY Zenon DEF ScanPaused
<1>2. ~sc.done /\ hs' = hs /\ KeyAt' = KeyAt
  BY <1>1, ScanStepFacts
<1>3. PICK k \in 0..Len(hs.stream) :
         /\ hs \in HsScenes /\ pump.read \in hs.ends[k]..Len(hs.cells)
         /\ sc.buf = Since(hs, k, pump.read)
         /\ hs.ends[k] \in Nat /\ pump.read \in Nat
         /\ Len(hs.stream) \in Nat /\ k \in Nat
         /\ \A j \in 1..k : j \notin KeyAt /\ hs.stream[j].t # MSG_READY_FOR_QUERY
  BY <1>2, ScanFacts, Zenon
<1>4. sc'.buf = sc.buf /\ sc'.done = (Len(sc.buf) > SCAN_CAP) /\ sc'.busy = FALSE
  BY <1>1, Zenon DEF Pause, Scan
<1>5. ScanAt(k)'
  <2>1. hs.ends[k] <= pump.read
    BY <1>3
  <2>2. pump' = pump
    BY <1>1
  <2> QED
    BY <1>2, <1>3, <1>4, <2>1, <2>2, Zenon DEF ScanAt, Since
<1>6. ASSUME NEW i \in KeyAt, InReach(i), Len(sc.buf) > SCAN_CAP PROVE FALSE
  <2>1. i \in 1..Len(hs.stream) /\ i >= k + 1 /\ k + 1 \in 1..Len(hs.stream)
    BY <1>3, KeyAhead, Zenon
  <2> DEFINE len == Len(sc.buf)
             l == Len(hs.stream[k + 1].body)
  <2>2. len \in Nat /\ (len > 1 => len < l + 2) /\ l \in Nat
    <3>1. ~Whole(Since(hs, k, pump.read)) /\ len = Len(Since(hs, k, pump.read))
      BY <1>1, <1>3, Zenon
    <3>2. len \in Nat /\ (len > 1 => len < l + 2)
      BY <1>3, <2>1, <3>1, PartMessage, Zenon
    <3>3. l \in Nat
      BY <1>3, <2>1, MessageLaid, Zenon
    <3> QED
      BY <3>2, <3>3, Zenon
  <2>3. SCAN_CAP \in Nat /\ SCAN_CAP >= 3 /\ len > SCAN_CAP
    BY <1>6, ScannerAssumption DEF BACKEND_KEY_DATA_LEN
  <2> HIDE DEF len
  <2>4. CASE i = k + 1
    <3>1. l + 1 = 3
      BY <2>4, Zenon DEF KeyAt, IsKeyMessage, BACKEND_KEY_DATA_LEN
    <3> HIDE DEF l
    <3> QED
      BY <2>2, <2>3, <3>1
  <2>5. CASE i # k + 1
    <3>1. k + 1 \in 1..(i - 1)
      BY <1>3, <2>1, <2>5
    <3>2. l + 1 <= SCAN_CAP
      BY <1>6, <3>1, Zenon DEF InReach
    <3> HIDE DEF l
    <3> QED
      BY <2>2, <2>3, <3>2
  <2> QED
    BY <2>4, <2>5
<1>7. sc'.done \in BOOLEAN
  BY <1>4
<1> QED
  BY <1>1, <1>4, <1>5, <1>6, <1>7, ScanKeeps, Zenon

LEMMA WriteKeepsKey ==
  ASSUME KeyInv, PumpWrite
  PROVE  KeyInv'
<1>1. /\ px = "splice" /\ pump.sent < pump.read /\ ~sc.busy /\ hs' = hs /\ cancels' = cancels /\ sc' = sc
      /\ \/ pump' = [pump EXCEPT !.sent = pump.read] /\ px' = px
         \/ pump' = pump /\ px' = "end"
  BY DEF PumpWrite, cutVars, Close
<1>2. PumpTyped
  BY Zenon DEF KeyInv
<1>3. /\ pump'.read = pump.read /\ pump'.captured = pump.captured
      /\ pump' = [read |-> pump'.read, sent |-> pump'.sent, captured |-> pump'.captured]
      /\ pump'.sent \in {pump.read, pump.sent} /\ (px' = "end" => pump'.sent # pump'.read)
      /\ px' \in {"splice", "end"}
  <2>1. pump = [read |-> pump.read, sent |-> pump.sent, captured |-> pump.captured]
        /\ pump.read \in Int /\ pump.sent \in Int
    BY <1>2 DEF PumpTyped
  <2>2. CASE pump' = [pump EXCEPT !.sent = pump.read] /\ px' = px
    <3>1. pump' = [read |-> pump.read, sent |-> pump.read, captured |-> pump.captured]
      BY <2>1, <2>2
    <3> QED
      BY <1>1, <2>2, <3>1, Zenon
  <2>3. CASE pump' = pump /\ px' = "end"
    BY <1>1, <2>1, <2>3
  <2> QED
    BY <1>1, <2>2, <2>3
<1>4. pump'.sent \in 0..pump'.read
  <2>1. pump.read \in 0..Len(hs.cells) /\ pump.sent \in 0..pump.read
    BY <1>2, Zenon DEF PumpTyped
  <2> QED
    BY <1>3, <2>1
<1>5. PumpTyped'
  BY <1>1, <1>2, <1>3, <1>4, Zenon DEF PumpTyped
<1>6. KeyAt' = KeyAt /\ \A i : InReach(i)' = InReach(i) /\ FirstKey(i)' = FirstKey(i)
  BY <1>1, SceneFrame
<1>7. KeysHeld' = KeysHeld
  BY <1>3 DEF KeysHeld
<1>8. \A k : ScanAt(k)' = ScanAt(k)
  BY <1>1, <1>3, <1>6, Zenon DEF ScanAt, Since
<1>9. cancels = {OtherKey} \cup KeysHeld
  <2>1. px # "end"
    BY <1>1
  <2> QED
    BY <2>1, Zenon DEF KeyInv
<1> QED
  BY <1>1, <1>3, <1>5, <1>6, <1>7, <1>8, <1>9, Zenon DEF KeyInv

LEMMA EndKeepsKey ==
  ASSUME KeyInv, SpliceEnds
  PROVE  KeyInv'
<1>1. /\ px = "splice" /\ px' = "end" /\ hs' = hs /\ sc' = sc /\ pump' = pump /\ pump.sent = pump.read
      /\ cancels' = cancels \ KeysHeld
  BY DEF SpliceEnds, cutVars, Close, KeysHeld
<1>2. PumpTyped' /\ ~sc.busy
  <2>1. PumpTyped
    BY Zenon DEF KeyInv
  <2>2. ~(pump.sent < pump.read)
    BY <1>1, <2>1 DEF PumpTyped
  <2> QED
    BY <1>1, <2>1, <2>2, Zenon DEF PumpTyped, KeyInv
<1>3. KeyAt' = KeyAt /\ \A i : InReach(i)' = InReach(i) /\ FirstKey(i)' = FirstKey(i)
  BY <1>1, SceneFrame
<1>4. \A k : ScanAt(k)' = ScanAt(k)
  BY <1>1, <1>3, Zenon DEF ScanAt, Since
<1>5. cancels' = {OtherKey}
  <2>1. cancels = {OtherKey} \cup KeysHeld
    <3>1. px # "end"
      BY <1>1
    <3> QED
      BY <3>1, Zenon DEF KeyInv
  <2>2. OtherKey \notin KeysHeld
    <3>1. CASE pump.captured = <<>>
      BY <3>1, NoneHeld
    <3>2. ASSUME NEW i \in KeyAt, pump.captured = <<hs.stream[i].body>>
          PROVE  OtherKey \notin KeysHeld
      <4> DEFINE b == hs.stream[i].body
      <4>1. b # OtherKey
        <5>1. hs \in HsScenes
          BY Zenon DEF KeyInv, PumpTyped
        <5> QED
          BY <5>1, SceneAssumption, Zenon DEF KeyAt
      <4>2. pump.captured = <<b>>
        BY <3>2
      <4> HIDE DEF b
      <4> QED
        BY <4>1, <4>2 DEF KeysHeld
    <3> QED
      BY <3>1, <3>2, Zenon DEF KeyInv
  <2> QED
    BY <1>1, <2>1, <2>2
<1>6. px' \in {"splice", "end"} /\ cancels' = {OtherKey} \cup {}
  BY <1>1, <1>5
<1> QED
  BY <1>1, <1>2, <1>3, <1>4, <1>6, Zenon DEF KeyInv

LEMMA KeyStep == KeyInv /\ [HsNext]_hsVars => KeyInv'
<1> SUFFICES ASSUME KeyInv, [HsNext]_hsVars PROVE KeyInv'
  OBVIOUS
<1>1. CASE ClientStep
  <2>1. UNCHANGED <<hs, splVars, px>>
    BY <1>1 DEF ClientStep, ClientSends, ClientCutShort, ClientQuits, ClientAnswered,
                ClientFirstSent, ClientFinalSent, ClientVerifies, ClientRefused, pxVars
  <2> QED
    BY <2>1, KeyFrame
<1>2. CASE ProxyStep
  <2>1. UNCHANGED <<hs, splVars>>
    BY <1>2, Zenon DEF ProxyStep, ReadFails, Negotiate, TlsAccept, RouteCancelRequest,
                StartupReceived, PairParsed, ParseFails, Unroutable, ResolveTenant,
                SaslInitial, SaslVerified, AuthRejected, ReplayStartup
  <2>2. px \notin {"splice", "end"}
    BY <1>2, Zenon DEF ProxyStep, ReadFails, Negotiate, TlsAccept, RouteCancelRequest,
                StartupReceived, PairParsed, ParseFails, Unroutable, ResolveTenant,
                SaslInitial, SaslVerified, AuthRejected, ReplayStartup, Received, Reading
  <2> QED
    BY <2>1, <2>2, KeyFrame
<1>3. CASE PumpStep
  BY <1>3, ReadKeepsKey, SkipKeepsKey, CaptureKeepsKey, GiveUpKeepsKey, PauseKeepsKey,
     WriteKeepsKey, EndKeepsKey, Zenon DEF PumpStep
<1>4. CASE UNCHANGED hsVars
  <2>1. UNCHANGED <<hs, splVars, px>>
    BY <1>4 DEF hsVars, pxVars
  <2> QED
    BY <2>1, KeyFrame
<1> QED
  BY <1>1, <1>2, <1>3, <1>4, Zenon DEF HsNext

LEMMA KeyFound == KeyInv => KeyExact
<1> SUFFICES ASSUME KeyInv PROVE KeyExact
  OBVIOUS
<1>1. pump.captured = <<>> \/ \E i \in KeyAt : pump.captured = <<hs.stream[i].body>>
  BY Zenon DEF KeyInv, PumpTyped
<1>2. KeysHeld \subseteq IssuedKeys
  <2>1. CASE pump.captured = <<>>
    BY <2>1, NoneHeld
  <2>2. ASSUME NEW i \in KeyAt, pump.captured = <<hs.stream[i].body>>
        PROVE  KeysHeld \subseteq IssuedKeys
    <3> DEFINE b == hs.stream[i].body
    <3>1. b \in IssuedKeys /\ pump.captured = <<b>>
      BY <2>2, Zenon DEF IssuedKeys
    <3> HIDE DEF b
    <3> QED
      BY <3>1 DEF KeysHeld
  <2> QED
    BY <1>1, <2>1, <2>2
<1>3. cancels \subseteq {OtherKey} \cup IssuedKeys
  BY <1>2 DEF KeyInv
<1>4. ASSUME px = "splice", ~sc.busy, NEW i \in KeyAt, hs.ends[i] <= pump.read, InReach(i)
      PROVE  hs.stream[i].body \in cancels
  <2>1. sc.done
    <3>1. SUFFICES ASSUME ~sc.done PROVE FALSE
      OBVIOUS
    <3>2. PICK k \in 0..Len(hs.stream) :
         /\ hs \in HsScenes /\ pump.read \in hs.ends[k]..Len(hs.cells)
         /\ sc.buf = Since(hs, k, pump.read) /\ pump.read \in Nat
         /\ Len(hs.stream) \in Nat /\ k \in Nat
         /\ \A j \in 1..k : j \notin KeyAt /\ hs.stream[j].t # MSG_READY_FOR_QUERY
      BY <3>1, ScanFacts, Zenon
    <3>3. i \in 1..Len(hs.stream) /\ i >= k + 1 /\ k + 1 \in 1..Len(hs.stream)
      BY <3>2, KeyAhead
    <3>4. ~Whole(sc.buf)
      BY <1>4, <3>1, Zenon DEF KeyInv
    <3>5. pump.read < hs.ends[k + 1]
      BY <3>2, <3>3, <3>4, PartMessage, Zenon
    <3>6. i \in 0..Len(hs.stream) /\ k + 1 \in 0..Len(hs.stream) /\ k + 1 <= i
      BY <3>2, <3>3
    <3>7. hs.ends[k + 1] <= hs.ends[i]
      BY <3>2, <3>6, EndsGrow, Zenon
    <3>8. hs.ends[i] \in Int /\ hs.ends[k + 1] \in Int
      BY <3>2, <3>6, EndsLaid
    <3> QED
      BY <1>4, <3>2, <3>5, <3>7, <3>8
  <2>2. PICK j \in KeyAt : FirstKey(j) /\ pump.captured = <<hs.stream[j].body>>
    BY <1>4, <2>1, Zenon DEF KeyInv
  <2>3. j = i
    BY <1>4, <2>2, Zenon DEF FirstKey
  <2>4. hs.stream[i].body \in KeysHeld
    <3> DEFINE b == hs.stream[i].body
    <3>1. pump.captured = <<b>>
      BY <2>2, <2>3
    <3> HIDE DEF b
    <3>2. b \in KeysHeld
      BY <3>1 DEF KeysHeld
    <3> QED
      BY <3>2 DEF b
  <2>5. px # "end"
    BY <1>4
  <2> QED
    BY <2>4, <2>5, Zenon DEF KeyInv
<1>5. px = "end" /\ pump.sent = pump.read => cancels = {OtherKey}
  BY DEF KeyInv
<1> QED
  BY <1>3, <1>4, <1>5, Zenon DEF KeyExact

\* However reads cut up the backend's stream, the session registers no key
\* but its backend's, has it before the client sees the read that completes
\* it, and takes it back at the end (KeyScanner::push, splice_capturing_cancel_key).
THEOREM KeyIsExact == HsSpec => []KeyExact
<1>1. HsInit => KeyInv
  BY KeyInitially
<1>2. KeyInv /\ [HsNext]_hsVars => KeyInv'
  BY KeyStep
<1>3. KeyInv => KeyExact
  BY KeyFound
<1> QED
  BY <1>1, <1>2, <1>3, PTL DEF HsSpec


-----------------------------------------------------------------------------
(* The session. *)

\* The client's first SASL message.
Hello == ClientFirst("user", "cn")

\* The pairs that are in the map when k - 1 of a packet's are inserted.
Upto(s, k) ==
  {s.params[i] : i \in {i \in 1..(k - 1) :
                          \A j \in 1..(k - 1) : i < j => s.params[j][1] # s.params[i][1]}}

\* The part of the packet from pair k on.
Rest(s, k) == SubSeq(s.packet, s.marks[k], Len(s.packet))

\* The parameter loop stands at pair k.
ParsedTo(k) == startup.body = Rest(hs, k) /\ startup.params = Upto(hs, k)

AskSent == \E i \in 1..Len(hs.asks) : c2p = <<2, hs.asks[i]>>

\* What is on its way to the proxy.
Heard ==
  /\ Reading => \/ c2p = <<>> \/ c2p = hs.packet \/ AskSent
                \/ gone /\ c2p # <<>> /\ Len(c2p) < c2p[1]
  /\ px \in {"tls", "parse"} => c2p = <<>>
  /\ px = "sasl" => c2p \in {<<>>, <<Initial(hs.mech, Hello)>>}
  /\ px = "proof" => c2p \in {<<>>, <<Response(ClientFinal(hs.password, sasl.first, sasl.reply))>>}

Told(tag) == p2c # <<>> /\ Head(p2c).tag = tag

Ended == px = "end" /\ (p2c = <<>> \/ Told("error"))

\* Where the proxy is in the conversation with a client that is still there.
Talk ==
  /\ cl = "send" => Reading /\ c2p = <<>> /\ p2c = <<>>
  /\ cl = "asked" => \/ Reading /\ AskSent /\ p2c = <<>>
                     \/ px = "startup" /\ c2p = <<>> /\ p2c = <<[tag |-> "N"]>>
                     \/ px = "tls" /\ p2c = <<[tag |-> "S"]>>
  /\ cl = "tls" => px = "tls" /\ p2c = <<>>
  /\ cl = "auth" => \/ Reading /\ c2p = hs.packet /\ p2c = <<>>
                    \/ px \in {"parse", "awake", "splice"} /\ p2c = <<>>
                    \/ px = "sasl" /\ c2p = <<>> /\ Told("sasl") /\ Tail(p2c) = <<>>
                    \/ Ended
  /\ cl = "reply" => /\ said.first = Hello
                     /\ \/ px = "sasl" /\ p2c = <<>>
                        \/ px = "proof" /\ c2p = <<>> /\ Told("continue")
                           /\ Head(p2c).body = sasl.reply /\ Tail(p2c) = <<>>
                        \/ Ended
  /\ cl = "final" => \/ px = "proof" /\ p2c = <<>>
                     \/ px \in {"awake", "splice", "end"} /\ Told("final") /\ Guarded(hs) /\ RightPassword(hs)
                     \/ Ended
  /\ cl \in {"ready", "refused"} => px \in {"awake", "splice", "end"}

\* What the proxy has found out, and what it did about it.
Shown ==
  /\ px = "parse" => /\ startup.raw = hs.packet /\ hs.packet[2] # CANCEL_REQUEST_CODE
                     /\ \E k \in 1..(Len(hs.params) + 1) : ParsedTo(k)
  /\ px \in {"sasl", "proof", "awake", "splice"} =>
       startup.raw = hs.packet /\ WellFormed(hs) /\ Tenant = Asked(hs) /\ Registered(Asked(hs))
  /\ px \in {"sasl", "proof"} => Protected(Asked(hs))
  /\ px = "proof" => /\ hs.mech = "SCRAM-SHA-256"
                     /\ sasl.first = Hello
                     /\ sasl.reply = ServerFirst(Secret(Asked(hs)[1]), Hello, "sn")
  /\ px \in {"awake", "splice"} /\ Guarded(hs) => RightPassword(hs)
  /\ px # "end" => outcome = "open"
  /\ px \notin {"splice", "end"} => backend = <<>>
  /\ px = "splice" => backend = <<hs.packet>>
  /\ \A i \in 1..Len(backend) : Forwarded(hs, backend[i])
  /\ outcome = "3D000" => WellFormed(hs) /\ ~Known(hs)
  /\ outcome = "28P01" => Guarded(hs) /\ (gone \/ ~RightPassword(hs))

SessTyped ==
  /\ hs \in HsScenes /\ next \in Nat \ {0} /\ gone \in BOOLEAN
  /\ px \in {"first", "startup", "tls", "parse", "sasl", "proof", "awake", "splice", "end"}
  /\ cl \in {"send", "asked", "tls", "auth", "reply", "final", "ready", "refused"}

SessInv ==
  /\ SessTyped /\ Heard /\ (~gone => Talk) /\ Shown
  /\ cl = "ready" => Guarded(hs) /\ RightPassword(hs)

-----------------------------------------------------------------------------
(* SCRAM: the proof fits the verifier exactly when the passwords agree. *)

LEMMA XorBack ==
  ASSUME NEW a, NEW b
  PROVE  Xor(Xor(a, b), b) = a
BY DEF Xor

\* A salted password tells which password was salted.
LEMMA HiInjective ==
  ASSUME NEW p, NEW q, NEW salt, hi(p, salt, 2) = hi(q, salt, 2)
  PROVE  p = q
<1>1. \A w : hi(w, salt, 2) = UNION {{<<"hmac", Pass(w), <<salt, k>>>>} : k \in 1..2}
  BY Zenon DEF hi, Link, hmac
<1>2. <<"hmac", Pass(p), <<salt, 1>>>> \in hi(p, salt, 2)
  <2>1. 1 \in 1..2
    OBVIOUS
  <2> QED
    BY <1>1, <2>1, Zenon
<1>3. PICK k \in 1..2 : <<"hmac", Pass(p), <<salt, 1>>>> = <<"hmac", Pass(q), <<salt, k>>>>
  <2> DEFINE x == <<"hmac", Pass(p), <<salt, 1>>>>
             y(k) == <<"hmac", Pass(q), <<salt, k>>>>
  <2>1. x \in UNION {{y(k)} : k \in 1..2}
    BY <1>1, <1>2, Zenon
  <2> HIDE DEF x, y
  <2>2. \E k \in 1..2 : x = y(k)
    BY <2>1
  <2> QED
    BY <2>2, Zenon DEF x, y
<1>4. Pass(p) = Pass(q)
  BY <1>3, Zenon
<1>5. <<p>> = <<q>>
  BY <1>4, Zenon DEF Pass
<1> QED
  BY <1>5

\* The key of one password, masked with its own signature, is unmasked with
\* that of another only if they are the same.
LEMMA Unmask ==
  ASSUME NEW u, NEW v, NEW first, NEW reply, NEW r,
         Xor(Xor(ClientKey(u), hmac(sha256(ClientKey(u)), AuthMessage(first, reply, r))),
             hmac(sha256(ClientKey(v)), AuthMessage(first, reply, r))) = ClientKey(v)
  PROVE  u = v
<1> DEFINE am == AuthMessage(first, reply, r)
           x == <<"hmac", u, <<"Client Key">>>>
           z == <<"hmac", v, <<"Client Key">>>>
           a == <<"hmac", sha256(ClientKey(u)), am>>
           b == <<"hmac", sha256(ClientKey(v)), am>>
<1>1. am # <<"Client Key">>
  BY DEF AuthMessage
<1> HIDE DEF am
<1>2. x # a /\ x # b
  BY <1>1, Zenon
<1>3. Xor(Xor({x}, {a}), {b}) = {z}
  BY Zenon DEF ClientKey, hmac, am
<1>4. x = z
  <2> HIDE DEF x, z, a, b
  <2> QED
    BY <1>2, <1>3 DEF Xor
<1> QED
  BY <1>4

LEMMA ProofFits ==
  ASSUME NEW p, NEW q, NEW first
  PROVE  LET secret == from_password(p, "salt", 2)
             reply == ServerFirst(secret, first, "sn")
         IN Proven(secret, first, reply, ClientFinal(q, first, reply)) <=> p = q
<1> DEFINE secret == from_password(p, "salt", 2)
           reply == ServerFirst(secret, first, "sn")
           final == ClientFinal(q, first, reply)
           u == hi(q, "salt", 2)
           v == hi(p, "salt", 2)
           sig(w) == hmac(sha256(ClientKey(w)), AuthMessage(first, reply, reply.r))
<1>1. secret.stored_key = sha256(ClientKey(v)) /\ secret.salt = "salt" /\ secret.iterations = 2
  <2> HIDE DEF v
  <2>1. secret = [iterations |-> 2, salt |-> "salt", stored_key |-> sha256(ClientKey(v)),
                  server_key |-> ServerKey(v)]
    BY Zenon DEF from_password, v
  <2> HIDE DEF secret
  <2> QED
    BY <2>1
<1> HIDE DEF secret
<1>2. reply.s = "salt" /\ reply.i = 2
  BY <1>1 DEF ServerFirst
<1> HIDE DEF reply
<1>3. final = [r |-> reply.r, p |-> Xor(ClientKey(u), sig(u))]
  BY <1>2, Zenon DEF ClientFinal
<1> HIDE DEF u, v, sig
<1>4. final.r = reply.r /\ final.p = Xor(ClientKey(u), sig(u))
  <2> HIDE DEF final
  <2> QED
    BY <1>3
<1> HIDE DEF final
<1>5. Proven(secret, first, reply, final)
        <=> sha256(Xor(Xor(ClientKey(u), sig(u)), sig(v))) = sha256(ClientKey(v))
  BY <1>1, <1>4, Zenon DEF Proven, sig
<1>6. p = q => u = v
  BY Zenon DEF u, v
<1>7. u = v => Xor(Xor(ClientKey(u), sig(u)), sig(v)) = ClientKey(v)
  BY XorBack, Zenon
<1>8. ASSUME NEW x, NEW y, sha256(x) = sha256(y) PROVE x = y
  <2>1. <<"sha256", x>> = <<"sha256", y>>
    BY <1>8, Zenon DEF sha256
  <2> QED
    BY <2>1
<1>9. Xor(Xor(ClientKey(u), sig(u)), sig(v)) = ClientKey(v) => p = q
  <2>1. Xor(Xor(ClientKey(u), sig(u)), sig(v)) = ClientKey(v) => u = v
    BY Unmask, Zenon DEF sig
  <2> QED
    BY <2>1, HiInjective, Zenon DEF u, v
<1> QED
  BY <1>5, <1>6, <1>7, <1>8, <1>9, Zenon DEF secret, reply, final

-----------------------------------------------------------------------------
(* The parameter block. *)

\* The first NUL ends the text.
LEMMA TextUpTo ==
  ASSUME NEW T, NEW b \in Seq(T), NEW n \in Nat, n < Len(b), b[n + 1] = NUL,
         \A j \in 1..n : b[j] # NUL
  PROVE  /\ Nuls(b) # {} /\ Text(b) = SubSeq(b, 1, n) /\ After(b) = SubSeq(b, n + 2, Len(b))
<1>1. DOMAIN b = 1..Len(b) /\ Len(b) \in Nat
  OBVIOUS
<1>2. n + 1 \in Nuls(b)
  BY <1>1 DEF Nuls
<1>3. \A j \in Nuls(b) : j \in Nat /\ n + 1 <= j
  BY <1>1 DEF Nuls
<1> DEFINE f == FirstNul(b)
<1>4. f \in Nuls(b) /\ \A j \in Nuls(b) : f <= j
  BY <1>2, <1>3, Zenon DEF FirstNul
<1> HIDE DEF f
<1>5. f = n + 1
  BY <1>2, <1>3, <1>4
<1>6. f - 1 = n /\ f + 1 = n + 2
  BY <1>5
<1> QED
  BY <1>2, <1>6, Zenon DEF Text, After, f

\* Where pairs begin.
LEMMA MarkLaid ==
  ASSUME NEW s \in HsScenes, NEW k \in 1..(Len(s.params) + 1)
  PROVE  /\ Len(s.params) \in Nat /\ s.packet \in Seq(Elems(s.packet)) /\ Len(s.packet) \in Nat
         /\ s.marks[k] \in Nat \ {0} /\ s.marks[k] <= Len(s.packet) + 1
<1>1. PacketLaid(s)
  BY SceneLaid
<1>2. IsSeq(s.packet) /\ Len(s.packet) >= 2 /\ Len(s.params) \in Nat /\ s.marks[1] = 3
  BY <1>1, Zenon DEF PacketLaid, MIN_STARTUP_LEN
<1>3. s.packet \in Seq(Elems(s.packet)) /\ Len(s.packet) \in Nat
  BY <1>2, SeqOfElems
<1>4. CASE k = 1
  BY <1>2, <1>3, <1>4
<1>5. CASE k # 1
  <2>1. k - 1 \in 1..Len(s.params) /\ (k - 1) + 1 = k
    BY <1>2, <1>5
  <2> DEFINE p == s.params[k - 1]
             a == s.marks[k - 1]
  <2>2. a \in Nat /\ PairAt(s.packet, a, p, s.marks[k])
    BY <1>1, <2>1, Zenon DEF PacketLaid
  <2> HIDE DEF p, a
  <2>3. Len(p[1]) \in Nat /\ Len(p[2]) \in Nat /\ s.marks[k] = a + Len(p[1]) + Len(p[2]) + 2
        /\ s.marks[k] <= Len(s.packet) + 1
    BY <2>2, Zenon DEF PairAt, IsSeq
  <2> DEFINE x == Len(p[1])
             y == Len(p[2])
             z == s.marks[k]
  <2>4. a \in Nat /\ x \in Nat /\ y \in Nat /\ z = a + x + y + 2
    BY <2>2, <2>3, Zenon
  <2> HIDE DEF x, y, z
  <2>5. z \in Nat \ {0}
    BY <2>4
  <2> QED
    BY <1>2, <1>3, <2>3, <2>5, Zenon DEF z
<1> QED
  BY <1>4, <1>5

\* The rest of a packet is made of its cells.
LEMMA RestLaid ==
  ASSUME NEW s \in HsScenes, NEW k \in 1..(Len(s.params) + 1)
  PROVE  LET n == Len(s.packet) + 1 - s.marks[k]
         IN /\ n \in Nat /\ Rest(s, k) \in Seq(Elems(s.packet)) /\ Len(Rest(s, k)) = n
            /\ \A i \in 1..n : Rest(s, k)[i] = s.packet[s.marks[k] + i - 1]
<1> DEFINE a == s.marks[k]
           P == s.packet
<1>1. P \in Seq(Elems(P)) /\ Len(P) \in Nat /\ a \in Nat \ {0} /\ a <= Len(P) + 1
  BY MarkLaid
<1> HIDE DEF a, P
<1>2. /\ SubSeq(P, a, Len(P)) \in Seq(Elems(P)) /\ Len(SubSeq(P, a, Len(P))) = Len(P) - a + 1
      /\ \A i \in 1..(Len(P) - a + 1) : SubSeq(P, a, Len(P))[i] = P[a + i - 1]
  <2>1. Len(P) <= Len(P)
    BY <1>1
  <2> QED
    BY <1>1, <2>1, PartOf, Zenon
<1>3. Len(P) - a + 1 = Len(P) + 1 - a /\ Len(P) + 1 - a \in Nat
  BY <1>1
<1> QED
  BY <1>2, <1>3, Zenon DEF Rest, a, P

\* A text that lies at the head of a sequence is its head.
LEMMA HeadIs ==
  ASSUME NEW T, NEW b \in Seq(T), NEW t, IsSeq(t), Len(t) <= Len(b),
         \A j \in 1..Len(t) : b[j] = t[j]
  PROVE  SubSeq(b, 1, Len(t)) = t
<1> DEFINE n == Len(t)
           h == SubSeq(b, 1, n)
<1>1. n \in Nat /\ t = [j \in 1..n |-> t[j]] /\ Len(b) \in Nat
  BY DEF IsSeq
<1>2. h \in Seq(T) /\ Len(h) = n /\ \A i \in 1..n : h[i] = b[i]
  <2>1. /\ SubSeq(b, 1, n) \in Seq(T) /\ Len(SubSeq(b, 1, n)) = n - 1 + 1
        /\ \A i \in 1..(n - 1 + 1) : SubSeq(b, 1, n)[i] = b[1 + i - 1]
    <3>1. 1 \in Nat \ {0} /\ 1 <= n + 1 /\ n <= Len(b)
      BY <1>1
    <3> QED
      BY <1>1, <3>1, PartOf
  <2> HIDE DEF n, h
  <2>2. n - 1 + 1 = n /\ \A i \in 1..n : 1 + i - 1 = i
    BY <1>1
  <2> QED
    BY <2>1, <2>2, Zenon DEF h
<1> HIDE DEF h, n
<1>3. h = [j \in 1..n |-> h[j]]
  BY <1>2
<1>4. \A j \in 1..n : h[j] = t[j]
  BY <1>2, Zenon DEF n
<1>5. h = t
  BY <1>1, <1>3, <1>4
<1> QED
  BY <1>5, Zenon DEF h, n

\* One round of the parameter loop takes the next pair of the packet.
LEMMA PairLaid ==
  ASSUME NEW s \in HsScenes, NEW k \in 1..Len(s.params)
  PROVE  /\ Rest(s, k)[1] # NUL /\ HasPair(Rest(s, k)) /\ PairOf(Rest(s, k)) = s.params[k]
         /\ AfterPair(Rest(s, k)) = Rest(s, k + 1)
<1> DEFINE P == s.packet
           a == s.marks[k]
           b == s.marks[k + 1]
           p == s.params[k]
           n == Len(p[1])
           v == Len(p[2])
           body == Rest(s, k)
           c == SubSeq(P, a + n + 1, Len(P))
<1>1. k \in 1..(Len(s.params) + 1) /\ k + 1 \in 1..(Len(s.params) + 1)
  <2>1. Len(s.params) \in Nat
    BY SceneLaid, Zenon DEF PacketLaid
  <2> QED
    BY <2>1
<1>2. P \in Seq(Elems(P)) /\ Len(P) \in Nat /\ a \in Nat \ {0} /\ a <= Len(P) + 1
  BY <1>1, MarkLaid
<1>3. /\ Len(P) + 1 - a \in Nat /\ body \in Seq(Elems(P)) /\ Len(body) = Len(P) + 1 - a
      /\ \A i \in 1..(Len(P) + 1 - a) : body[i] = P[a + i - 1]
  BY <1>1, RestLaid
<1>4. PairAt(P, a, p, b)
  BY SceneLaid, Zenon DEF PacketLaid
<1>5. /\ IsSeq(p[1]) /\ IsSeq(p[2]) /\ p = <<p[1], p[2]>> /\ n > 0
      /\ b = a + n + v + 2 /\ b <= Len(P) + 1
      /\ \A j \in 1..n : P[a + j - 1] = p[1][j] /\ p[1][j] # NUL
      /\ \A j \in 1..v : P[a + n + j] = p[2][j] /\ p[2][j] # NUL
      /\ P[a + n] = NUL /\ P[b - 1] = NUL
  BY <1>4, Zenon DEF PairAt
<1>6. n \in Nat /\ v \in Nat
  BY <1>5, Zenon DEF IsSeq
<1> HIDE DEF P, a, b, p, n, v, body, c
<1>6a. /\ Len(P) \in Nat /\ a \in Nat \ {0} /\ a <= Len(P) + 1 /\ Len(body) = Len(P) + 1 - a
       /\ n \in Nat /\ n > 0 /\ v \in Nat /\ b = a + n + v + 2 /\ b <= Len(P) + 1
  BY <1>2, <1>3, <1>5, <1>6, Zenon
<1>7. /\ n < Len(body) /\ n <= Len(body) /\ n + 1 \in 1..(Len(P) + 1 - a) /\ a + (n + 1) - 1 = a + n
      /\ \A j \in 1..n : j \in 1..(Len(P) + 1 - a)
  BY <1>6a
<1>8. body[n + 1] = NUL /\ \A j \in 1..n : body[j] = p[1][j] /\ body[j] # NUL
  BY <1>3, <1>5, <1>7, Zenon
<1>9. Nuls(body) # {} /\ Text(body) = SubSeq(body, 1, n) /\ After(body) = SubSeq(body, n + 2, Len(body))
  BY <1>3, <1>6, <1>7, <1>8, TextUpTo, Zenon
<1>10. Text(body) = p[1]
  BY <1>3, <1>5, <1>7, <1>8, <1>9, HeadIs, Zenon DEF n
<1>11. After(body) = c
  <2>1. /\ a <= Len(P) + 1 /\ Len(P) <= Len(P) /\ n + 2 \in Nat \ {0} /\ n + 2 <= Len(P) - a + 2
        /\ a + (n + 2) - 1 = a + n + 1
    BY <1>6a
  <2>2. SubSeq(SubSeq(P, a, Len(P)), n + 2, Len(SubSeq(P, a, Len(P)))) = SubSeq(P, a + (n + 2) - 1, Len(P))
    <3> DEFINE y == n + 2
               l == Len(P)
    <3>1. /\ P \in Seq(Elems(P)) /\ a \in Nat \ {0} /\ l \in Nat /\ a <= l + 1 /\ l <= Len(P)
          /\ y \in Nat \ {0} /\ y <= l - a + 2
      BY <1>2, <2>1, Zenon
    <3> HIDE DEF y, l
    <3>2. SubSeq(SubSeq(P, a, l), y, Len(SubSeq(P, a, l))) = SubSeq(P, a + y - 1, l)
      BY <3>1, RestOfPart
    <3> QED
      BY <3>2, Zenon DEF y, l
  <2> QED
    BY <1>9, <2>1, <2>2, Zenon DEF body, c, Rest, P, a
<1>12. /\ c \in Seq(Elems(P)) /\ Len(c) = Len(P) - (a + n + 1) + 1
       /\ \A i \in 1..(Len(P) - (a + n + 1) + 1) : c[i] = P[(a + n + 1) + i - 1]
  <2>1. a + n + 1 \in Nat \ {0} /\ a + n + 1 <= Len(P) + 1 /\ Len(P) <= Len(P)
    BY <1>6a
  <2> DEFINE x == a + n + 1
             l == Len(P)
  <2>2. P \in Seq(Elems(P)) /\ x \in Nat \ {0} /\ l \in Nat /\ x <= l + 1 /\ l <= Len(P)
    BY <1>2, <2>1, Zenon
  <2> HIDE DEF x, l
  <2>3. /\ SubSeq(P, x, l) \in Seq(Elems(P)) /\ Len(SubSeq(P, x, l)) = l - x + 1
        /\ \A i \in 1..(l - x + 1) : SubSeq(P, x, l)[i] = P[x + i - 1]
    BY <2>2, PartOf, Zenon
  <2> QED
    BY <2>3, Zenon DEF c, x, l
<1>13. /\ v < Len(c) /\ v <= Len(c) /\ v + 1 \in 1..(Len(P) - (a + n + 1) + 1)
       /\ (a + n + 1) + (v + 1) - 1 = b - 1
       /\ \A j \in 1..v : j \in 1..(Len(P) - (a + n + 1) + 1) /\ (a + n + 1) + j - 1 = a + n + j
  <2>1. Len(c) = Len(P) - (a + n + 1) + 1 /\ b = a + n + v + 2 /\ b <= Len(P) + 1
    BY <1>5, <1>12, Zenon
  <2> QED
    BY <1>2, <1>6, <2>1
<1>14. c[v + 1] = NUL /\ \A j \in 1..v : c[j] = p[2][j] /\ c[j] # NUL
  <2>1. c[v + 1] = NUL
    <3>1. c[v + 1] = P[(a + n + 1) + (v + 1) - 1]
      BY <1>12, <1>13, Zenon
    <3> QED
      BY <1>5, <1>13, <3>1, Zenon
  <2>2. ASSUME NEW j \in 1..v PROVE c[j] = p[2][j] /\ c[j] # NUL
    <3>1. j \in 1..(Len(P) - (a + n + 1) + 1) /\ (a + n + 1) + j - 1 = a + n + j
      BY <1>13, Zenon
    <3>2. c[j] = P[(a + n + 1) + j - 1]
      BY <1>12, <3>1, Zenon
    <3>3. c[j] = P[a + n + j]
      BY <3>1, <3>2, Zenon
    <3>4. P[a + n + j] = p[2][j] /\ p[2][j] # NUL
      BY <1>5, Zenon
    <3> QED
      BY <3>3, <3>4, Zenon
  <2> QED
    BY <2>1, <2>2, Zenon
<1>15. Nuls(c) # {} /\ Text(c) = SubSeq(c, 1, v) /\ After(c) = SubSeq(c, v + 2, Len(c))
  BY <1>6, <1>12, <1>13, <1>14, TextUpTo, Zenon
<1>16. Text(c) = p[2]
  BY <1>5, <1>12, <1>13, <1>14, <1>15, HeadIs, Zenon DEF v
<1>17. After(c) = Rest(s, k + 1)
  <2>1. /\ a + n + 1 \in Nat \ {0} /\ a + n + 1 <= Len(P) + 1 /\ Len(P) <= Len(P)
        /\ v + 2 \in Nat \ {0} /\ v + 2 <= Len(P) - (a + n + 1) + 2
        /\ (a + n + 1) + (v + 2) - 1 = b
    <3>1. b = a + n + v + 2 /\ b <= Len(P) + 1
      BY <1>5, Zenon
    <3> QED
      BY <1>2, <1>6, <3>1
  <2>2. SubSeq(SubSeq(P, a + n + 1, Len(P)), v + 2, Len(SubSeq(P, a + n + 1, Len(P))))
        = SubSeq(P, (a + n + 1) + (v + 2) - 1, Len(P))
    <3> DEFINE x == a + n + 1
               y == v + 2
               l == Len(P)
    <3>1. /\ P \in Seq(Elems(P)) /\ x \in Nat \ {0} /\ l \in Nat /\ x <= l + 1 /\ l <= Len(P)
          /\ y \in Nat \ {0} /\ y <= l - x + 2
      BY <1>2, <2>1, Zenon
    <3> HIDE DEF x, y, l
    <3>2. SubSeq(SubSeq(P, x, l), y, Len(SubSeq(P, x, l))) = SubSeq(P, x + y - 1, l)
      BY <3>1, RestOfPart
    <3> QED
      BY <3>2, Zenon DEF x, y, l
  <2> QED
    BY <1>15, <2>1, <2>2, Zenon DEF c, Rest, P, b
<1>18. body[1] # NUL /\ body # <<>>
  <2>1. 1 \in 1..n /\ Len(body) # 0
    BY <1>3, <1>5, <1>6, <1>7
  <2>2. body # <<>>
    BY <1>3, <2>1
  <2> QED
    BY <1>8, <2>1, <2>2, Zenon
<1>19. HasPair(body)
  BY <1>9, <1>11, <1>15, <1>18, Zenon DEF HasPair
<1>20. PairOf(body) = p /\ AfterPair(body) = Rest(s, k + 1)
  BY <1>5, <1>10, <1>11, <1>16, <1>17, Zenon DEF PairOf, AfterPair
<1> QED
  BY <1>18, <1>19, <1>20, Zenon DEF body, p

\* After the last pair the loop finds its end, or nothing to go on with.
LEMMA EndLaid ==
  ASSUME NEW s \in HsScenes, s.packet[2] # CANCEL_REQUEST_CODE
  PROVE  LET body == Rest(s, Len(s.params) + 1)
         IN ~HasPair(body) /\ (AtEnd(body) => WellFormed(s))
<1> DEFINE P == s.packet
           k == Len(s.params) + 1
           a == s.marks[k]
           body == Rest(s, k)
           n == Len(P) + 1 - a
<1>1. k \in 1..k /\ a = RestAt(s)
  <2>1. Len(s.params) \in Nat
    BY SceneLaid, Zenon DEF PacketLaid
  <2> QED
    BY <2>1 DEF RestAt
<1>2. Len(P) \in Nat /\ a \in Nat \ {0} /\ a <= Len(P) + 1
  BY <1>1, MarkLaid, Zenon
<1>3. /\ n \in Nat /\ body \in Seq(Elems(P)) /\ Len(body) = n
      /\ \A i \in 1..n : body[i] = P[a + i - 1]
  BY <1>1, RestLaid, Zenon
<1>4. \/ a <= Len(P) /\ P[a] = NUL
      \/ a = Len(P) + 1
      \/ P[a] # NUL /\ \A i, j \in a..Len(P) : P[i] = NUL /\ P[j] = NUL => i = j
  BY <1>1, SceneLaid, Zenon DEF PacketLaid
<1> HIDE DEF P, k, a, body
<1>5. body # <<>> => a <= Len(P) /\ body[1] = P[a]
  <2>1. body # <<>> => n # 0
    BY <1>3
  <2>2. n # 0 => 1 \in 1..n /\ a + 1 - 1 = a /\ a <= Len(P)
    BY <1>2, <1>3
  <2> QED
    BY <1>3, <2>1, <2>2, Zenon
<1>6. AtEnd(body) => WellFormed(s)
  BY <1>1, <1>5, Zenon DEF AtEnd, WellFormed, P
<1>7. SUFFICES ASSUME HasPair(body) PROVE FALSE
  BY <1>6, Zenon DEF body, k
<1>8. a <= Len(P) /\ \A i, j \in a..Len(P) : P[i] = NUL /\ P[j] = NUL => i = j
  <2>1. body # <<>> /\ body[1] # NUL
    BY <1>7, Zenon DEF HasPair
  <2>2. a <= Len(P) /\ P[a] # NUL
    BY <1>5, <2>1, Zenon
  <2>3. a # Len(P) + 1
    BY <1>2, <2>2
  <2> QED
    BY <1>4, <2>2, <2>3, Zenon
<1> DEFINE f == FirstNul(body)
<1>9. f \in 1..n /\ body[f] = NUL
  <2>1. DOMAIN body = 1..n
    BY <1>3
  <2>2. Nuls(body) # {} /\ \A i \in Nuls(body) : i \in 1..n /\ body[i] = NUL
    BY <1>7, <2>1, Zenon DEF HasPair, Nuls
  <2>3. Nuls(body) \in SUBSET Nat
    BY <1>3, <2>2
  <2>4. \E i \in Nuls(body) : \A j \in Nuls(body) : i <= j
    BY <2>2, <2>3, SmallestNat, Zenon
  <2>5. f \in Nuls(body)
    BY <2>4, Zenon DEF FirstNul
  <2> QED
    BY <2>2, <2>5, Zenon
<1> HIDE DEF f
<1>10. PICK g \in Nuls(After(body)) : TRUE
  BY <1>7, Zenon DEF HasPair
<1>11. /\ After(body) \in Seq(Elems(P)) /\ Len(After(body)) = n - (f + 1) + 1
       /\ \A i \in 1..(n - (f + 1) + 1) : After(body)[i] = body[(f + 1) + i - 1]
  <2>1. f + 1 \in Nat \ {0} /\ f + 1 <= n + 1 /\ n <= Len(body)
    BY <1>3, <1>9
  <2>2. After(body) = SubSeq(body, f + 1, n)
    BY <1>3, Zenon DEF After, f
  <2> QED
    BY <1>3, <2>1, <2>2, PartOf
<1>12. g \in 1..(n - (f + 1) + 1) /\ After(body)[g] = NUL
  <2>1. DOMAIN After(body) = 1..(n - (f + 1) + 1)
    <3> DEFINE t == After(body)
    <3>1. t \in Seq(Elems(P)) /\ Len(t) = n - (f + 1) + 1
      BY <1>11, Zenon
    <3> HIDE DEF t
    <3>2. DOMAIN t = 1..(n - (f + 1) + 1)
      BY <3>1
    <3> QED
      BY <3>2, Zenon DEF t
  <2> QED
    BY <1>10, <2>1, Zenon DEF Nuls
<1> HIDE DEF n
<1>13. f + g \in 1..n /\ f + g # f /\ (f + 1) + g - 1 = f + g
  BY <1>3, <1>9, <1>12
<1>14. body[f + g] = NUL
  BY <1>11, <1>12, <1>13, Zenon
<1>15. P[a + f - 1] = NUL /\ P[a + (f + g) - 1] = NUL
  BY <1>3, <1>9, <1>13, <1>14, Zenon
<1>16. a + f - 1 \in a..Len(P) /\ a + (f + g) - 1 \in a..Len(P) /\ a + f - 1 # a + (f + g) - 1
  <2>1. f \in 1..n /\ f + g \in 1..n /\ f + g # f /\ n = Len(P) + 1 - a
    BY <1>9, <1>13, Zenon DEF n
  <2> QED
    BY <1>2, <1>12, <2>1
<1> QED
  BY <1>8, <1>15, <1>16, Zenon

\* Inserting the next pair.
LEMMA UptoNext ==
  ASSUME NEW s \in HsScenes, NEW k \in 1..Len(s.params)
  PROVE  Insert(Upto(s, k), s.params[k]) = Upto(s, k + 1)
<1> DEFINE p(i) == s.params[i]
           Last(n) == {i \in 1..n : \A j \in 1..n : i < j => p(j)[1] # p(i)[1]}
<1>1. Len(s.params) \in Nat
  BY SceneLaid, Zenon DEF PacketLaid
<1>2. /\ k - 1 \in Nat /\ (k + 1) - 1 = k /\ k \in Nat
      /\ \A i \in 1..k : i \in 1..(k - 1) \/ i = k
      /\ \A i \in 1..(k - 1) : i \in 1..k /\ i < k /\ i # k
      /\ \A i \in 1..k : ~(k < i)
      /\ k \in 1..k
  BY <1>1
<1>3. Upto(s, k) = {p(i) : i \in Last(k - 1)} /\ Upto(s, k + 1) = {p(i) : i \in Last(k)}
  BY <1>2, Zenon DEF Upto
<1>4. \A i \in 1..(k - 1) : i \in Last(k) <=> i \in Last(k - 1) /\ p(i)[1] # p(k)[1]
  BY <1>2, Zenon
<1>5. k \in Last(k)
  BY <1>2, Zenon
<1> HIDE DEF p
<1>6. ASSUME NEW x PROVE x \in Insert(Upto(s, k), p(k)) <=> x \in Upto(s, k + 1)
  <2>1. x \in Insert(Upto(s, k), p(k)) <=> x = p(k) \/ (x \in Upto(s, k) /\ x[1] # p(k)[1])
    BY Zenon DEF Insert
  <2>2. x \in Upto(s, k) /\ x[1] # p(k)[1] => x \in Upto(s, k + 1)
    BY <1>2, <1>3, <1>4, Zenon
  <2>3. p(k) \in Upto(s, k + 1)
    BY <1>3, <1>5, Zenon
  <2>4. ASSUME x \in Upto(s, k + 1), x # p(k) PROVE x \in Upto(s, k) /\ x[1] # p(k)[1]
    <3>1. PICK i \in Last(k) : x = p(i)
      BY <1>3, <2>4, Zenon
    <3>2. i \in 1..(k - 1)
      BY <1>2, <2>4, <3>1, Zenon
    <3> QED
      BY <1>3, <1>4, <3>1, <3>2, Zenon
  <2> QED
    BY <2>1, <2>2, <2>3, <2>4, Zenon
<1> QED
  BY <1>6, Zenon DEF p

\* A set of numbers up to n has a largest one.
LEMMA LargestUpTo ==
  ASSUME NEW n \in Nat, NEW S \in SUBSET (1..n), S # {}
  PROVE  \E k \in S : \A l \in S : l <= k
<1> DEFINE U == {u \in Nat : \A l \in S : l <= u}
<1>1. U \in SUBSET Nat /\ n \in U
  OBVIOUS
<1>2. PICK u \in U : \A w \in U : u <= w
  BY <1>1, SmallestNat, Zenon
<1>3. u \in Nat /\ \A l \in S : l \in Nat \ {0} /\ l <= u
  BY <1>2
<1>4. CASE u \in S
  BY <1>3, <1>4
<1>5. CASE u \notin S
  <2>1. \A l \in S : l <= u - 1
    BY <1>3, <1>5
  <2>2. u - 1 \in Nat
    <3>1. PICK l \in S : TRUE
      BY Zenon
    <3>2. l \in Nat \ {0} /\ l <= u /\ l <= u - 1 /\ u \in Nat
      BY <1>3, <2>1, Zenon
    <3> QED
      BY <3>2
  <2>3. u - 1 \in U
    BY <2>1, <2>2
  <2> QED
    BY <1>2, <1>3, <2>3
<1> QED
  BY <1>4, <1>5

\* The map holds the last value of a name.
LEMMA NameLast ==
  ASSUME NEW s \in HsScenes, NEW name
  PROVE  LET held == {p \in Upto(s, Len(s.params) + 1) : p[1] = <<name>>}
         IN /\ held = {} <=> LastValue(s, name) = <<>>
            /\ held # {} => LastValue(s, name) = <<(CHOOSE p \in held : TRUE)[2]>>
<1> DEFINE N == Len(s.params)
           A == Named(s, name)
           U == Upto(s, N + 1)
           held == {p \in U : p[1] = <<name>>}
<1>1. N \in Nat
  BY SceneLaid, Zenon DEF PacketLaid
<1>2. U = {s.params[i] : i \in {i \in 1..N : \A j \in 1..N : i < j => s.params[j][1] # s.params[i][1]}}
  <2>1. (N + 1) - 1 = N
    BY <1>1
  <2> QED
    BY <2>1, Zenon DEF Upto
<1>3. CASE A = {}
  <2>1. LastValue(s, name) = <<>>
    BY <1>3, Zenon DEF LastValue
  <2>2. held = {}
    BY <1>2, <1>3, Zenon DEF Named
  <2> QED
    BY <2>1, <2>2, Zenon
<1>4. CASE A # {}
  <2>1. A \in SUBSET (1..N)
    BY DEF Named
  <2>2. \E k \in A : \A l \in A : l <= k
    BY <1>1, <1>4, <2>1, LargestUpTo, Zenon
  <2> DEFINE m == CHOOSE i \in A : \A j \in A : j <= i
  <2>3. m \in A /\ \A j \in A : j <= m
    BY <2>2, Zenon
  <2>4. LastValue(s, name) = <<s.params[m][2]>>
    BY <1>4, Zenon DEF LastValue
  <2> HIDE DEF m
  <2>5. m \in 1..N /\ s.params[m][1] = <<name>>
    BY <2>3, Zenon DEF Named
  <2>6. \A j \in 1..N : m < j => s.params[j][1] # s.params[m][1]
    <3>1. \A j \in 1..N : m < j => j \notin A
      BY <1>1, <2>3, <2>5
    <3> QED
      BY <2>5, <3>1, Zenon DEF Named
  <2>7. s.params[m] \in held
    BY <1>2, <2>5, <2>6, Zenon
  <2>8. ASSUME NEW p \in held PROVE p = s.params[m]
    <3>1. PICK i \in 1..N : p = s.params[i] /\ \A j \in 1..N : i < j => s.params[j][1] # s.params[i][1]
      BY <1>2, Zenon
    <3>2. i \in A /\ s.params[i][1] = <<name>>
      BY <3>1, Zenon DEF Named
    <3>3. ~(i < m)
      BY <2>5, <3>1, <3>2, Zenon
    <3>4. i <= m
      BY <2>3, <3>2, Zenon
    <3>5. i = m
      BY <1>1, <2>5, <3>3, <3>4
    <3> QED
      BY <3>1, <3>5, Zenon
  <2> HIDE DEF held
  <2>9. (CHOOSE p \in held : TRUE) = s.params[m]
    BY <2>7, <2>8, Zenon
  <2>10. LastValue(s, name) # <<>>
    <3> DEFINE x == s.params[m][2]
    <3>1. LastValue(s, name) = <<x>>
      BY <2>4
    <3> HIDE DEF x
    <3> QED
      BY <3>1
  <2> QED
    BY <2>4, <2>7, <2>9, <2>10, Zenon DEF held, U, N
<1> QED
  BY <1>3, <1>4

\* The tenant of a packet that was parsed to its end is the one asked for.
LEMMA TenantAsked ==
  ASSUME NEW s \in HsScenes
  PROVE  tenant(Upto(s, Len(s.params) + 1)) = Asked(s)
<1> DEFINE U == Upto(s, Len(s.params) + 1)
           held(name) == {p \in U : p[1] = <<name>>}
<1>1. \A name : /\ held(name) = {} <=> LastValue(s, name) = <<>>
                /\ held(name) # {} => LastValue(s, name) = <<(CHOOSE p \in held(name) : TRUE)[2]>>
  BY NameLast, Zenon
<1> HIDE DEF U
<1>2. tenant(U) = IF held("database") # {} THEN <<(CHOOSE p \in held("database") : TRUE)[2]>>
                  ELSE IF held("user") # {} THEN <<(CHOOSE p \in held("user") : TRUE)[2]>>
                  ELSE <<>>
  <2> DEFINE value(S) == <<(CHOOSE p \in S : TRUE)[2]>>
             best == IF held("database") # {} THEN held("database") ELSE held("user")
  <2>1. tenant(U) = IF best = {} THEN <<>> ELSE value(best)
    BY Zenon DEF tenant
  <2>2. held("database") = {} => best = held("user")
    BY Zenon
  <2>3. held("database") # {} => best = held("database")
    BY Zenon
  <2> HIDE DEF value, best, held
  <2>4. tenant(U) = IF held("database") # {} THEN value(held("database"))
                    ELSE IF held("user") # {} THEN value(held("user")) ELSE <<>>
    BY <2>1, <2>2, <2>3, Zenon
  <2> QED
    BY <2>4, Zenon DEF value
<1> HIDE DEF held
<1> QED
  BY <1>1, <1>2, Zenon DEF Asked, U

-----------------------------------------------------------------------------
(* What the proxy reads before the startup packet. *)

LEMMA RawAsk ==
  ASSUME NEW x, NEW eof
  PROVE  read_raw_message(<<2, x>>, eof) = [res |-> "ok", raw |-> <<2, x>>, rest |-> <<>>]
<1> DEFINE s == <<2, x>>
<1>1. s # <<>> /\ s[1] = 2 /\ s[1] \in MIN_STARTUP_LEN..MAX_STARTUP_LEN /\ Len(s) = 2 /\ ~(Len(s) < s[1])
  BY PacketAssumption DEF MIN_STARTUP_LEN
<1>2. SubSeq(s, 1, s[1]) = s
  <2>1. s \in Seq({2, x})
    OBVIOUS
  <2> QED
    BY <1>1, <2>1, WholePart, Zenon
<1>3. SubSeq(s, s[1] + 1, Len(s)) = <<>>
  <2>1. s[1] + 1 \in Int /\ Len(s) \in Int /\ Len(s) < s[1] + 1
    BY <1>1
  <2> QED
    BY <2>1, NoPart
<1> HIDE DEF s
<1>4. read_raw_message(s, eof) = [res |-> "ok", raw |-> s, rest |-> <<>>]
  BY <1>1, <1>2, <1>3, Zenon DEF read_raw_message
<1> QED
  BY <1>4, Zenon DEF s

LEMMA RawPacket ==
  ASSUME NEW s \in HsScenes, NEW eof, read_raw_message(s.packet, eof).res = "ok"
  PROVE  read_raw_message(s.packet, eof) = [res |-> "ok", raw |-> s.packet, rest |-> <<>>]
<1> DEFINE P == s.packet
<1>1. IsSeq(P) /\ P[1] = Len(P) /\ Len(P) >= 2
  BY SceneLaid, Zenon DEF PacketLaid, MIN_STARTUP_LEN
<1>2. P \in Seq(Elems(P)) /\ Len(P) \in Nat
  BY <1>1, SeqOfElems
<1> HIDE DEF P
<1>3. P # <<>> /\ ~(Len(P) < P[1])
  BY <1>1, <1>2
<1>4. SubSeq(P, 1, P[1]) = P
  BY <1>1, <1>2, WholePart
<1>5. SubSeq(P, P[1] + 1, Len(P)) = <<>>
  <2>1. P[1] + 1 \in Int /\ Len(P) \in Int /\ Len(P) < P[1] + 1
    BY <1>1, <1>2
  <2> QED
    BY <2>1, NoPart
<1>6. P[1] \in MIN_STARTUP_LEN..MAX_STARTUP_LEN
  <2>1. CASE P[1] \notin MIN_STARTUP_LEN..MAX_STARTUP_LEN
    <3>1. read_raw_message(P, eof) = [res |-> "error"]
      BY <1>3, <2>1, Zenon DEF read_raw_message
    <3> QED
      BY <3>1 DEF P
  <2> QED
    BY <2>1
<1>7. read_raw_message(P, eof) = [res |-> "ok", raw |-> P, rest |-> <<>>]
  BY <1>3, <1>4, <1>5, <1>6, Zenon DEF read_raw_message
<1> QED
  BY <1>7, Zenon DEF P

\* Neither nothing nor a part of a packet is a packet.
LEMMA RawPart ==
  ASSUME NEW s, NEW eof, s = <<>> \/ Len(s) < s[1]
  PROVE  /\ read_raw_message(s, eof).res # "ok"
         /\ s = <<>> /\ ~eof => read_raw_message(s, eof).res = "wait"
<1>1. read_raw_message(s, eof) \in {[res |-> "none"], [res |-> "wait"], [res |-> "error"]}
  BY Zenon DEF read_raw_message
<1>2. s = <<>> /\ ~eof => read_raw_message(s, eof) = [res |-> "wait"]
  BY Zenon DEF read_raw_message
<1> QED
  BY <1>1, <1>2

LEMMA ParseAsk ==
  ASSUME NEW x \in {SSL_REQUEST_CODE, GSS_REQUEST_CODE}
  PROVE  parse_first_message(<<2, x>>) \in {"ssl", "gss"}
<1> DEFINE s == <<2, x>>
<1>1. Len(s) = 2 /\ s[1] = 2 /\ s[2] = x
  OBVIOUS
<1> HIDE DEF s
<1>2. ~(Len(s) < MIN_STARTUP_LEN \/ s[1] # Len(s))
  BY <1>1 DEF MIN_STARTUP_LEN
<1>3. SSL_REQUEST_CODE # GSS_REQUEST_CODE
  BY DEF SSL_REQUEST_CODE, GSS_REQUEST_CODE
<1>4. CASE x = SSL_REQUEST_CODE
  <2>1. parse_first_message(s) = "ssl"
    BY <1>1, <1>2, <1>3, <1>4 DEF parse_first_message, SSL_REQUEST_CODE, GSS_REQUEST_CODE,
       CANCEL_REQUEST_CODE
  <2> QED
    BY <2>1, Zenon DEF s
<1>5. CASE x = GSS_REQUEST_CODE
  <2>1. parse_first_message(s) = "gss"
    BY <1>1, <1>2, <1>3, <1>5 DEF parse_first_message, SSL_REQUEST_CODE, GSS_REQUEST_CODE,
       CANCEL_REQUEST_CODE
  <2> QED
    BY <2>1, Zenon DEF s
<1> QED
  BY <1>4, <1>5, Zenon

LEMMA ParsePacket ==
  ASSUME NEW s \in HsScenes
  PROVE  LET kind == parse_first_message(s.packet)
         IN /\ kind \in {"bad", "cancel", "startup"}
            /\ kind = "cancel" => s.packet[2] = CANCEL_REQUEST_CODE
            /\ kind = "startup" => s.packet[2] # CANCEL_REQUEST_CODE
<1> DEFINE P == s.packet
<1>1. P[1] = Len(P) /\ Len(P) >= MIN_STARTUP_LEN /\ P[2] \notin {SSL_REQUEST_CODE, GSS_REQUEST_CODE}
      /\ IsSeq(P)
  BY SceneLaid, Zenon DEF PacketLaid
<1>2. Len(P) \in Nat
  BY <1>1, Zenon DEF IsSeq
<1> HIDE DEF P
<1>3. CASE P[2] = CANCEL_REQUEST_CODE
  <2>1. parse_first_message(P) \in {"bad", "cancel"}
    BY <1>1, <1>2, <1>3 DEF parse_first_message, MIN_STARTUP_LEN
  <2> QED
    BY <1>3, <2>1 DEF P
<1>4. CASE P[2] # CANCEL_REQUEST_CODE
  <2>1. parse_first_message(P) = "startup"
    BY <1>1, <1>2, <1>4 DEF parse_first_message, MIN_STARTUP_LEN
  <2> QED
    BY <1>4, <2>1 DEF P
<1> QED
  BY <1>3, <1>4

\* What can be read: an encryption request, the packet of the client, or no
\* packet.
LEMMA ReadingFacts ==
  ASSUME SessInv, Reading
  PROVE  /\ Received("ssl") \/ Received("gss") =>
              AskSent /\ Got.rest = <<>> /\ c2p # hs.packet /\ c2p # <<>>
         /\ Received("cancel") =>
              /\ c2p = hs.packet /\ c2p # <<>> /\ ~AskSent
              /\ Got.raw = hs.packet /\ hs.packet[2] = CANCEL_REQUEST_CODE
         /\ Received("startup") =>
              /\ c2p = hs.packet /\ c2p # <<>> /\ ~AskSent
              /\ Got.raw = hs.packet /\ Got.rest = <<>> /\ hs.packet[2] # CANCEL_REQUEST_CODE
         /\ Got.res \in {"none", "error"} \/ Received("bad") =>
              gone \/ (c2p = hs.packet /\ c2p # <<>> /\ ~AskSent)
<1>1. hs \in HsScenes /\ gone \in BOOLEAN
      /\ (c2p = <<>> \/ c2p = hs.packet \/ AskSent \/ (gone /\ c2p # <<>> /\ Len(c2p) < c2p[1]))
  BY Zenon DEF SessInv, SessTyped, Heard
<1>2. hs.packet # <<>> /\ hs.packet[2] \notin {SSL_REQUEST_CODE, GSS_REQUEST_CODE}
  <2> DEFINE P == hs.packet
  <2>1. IsSeq(P) /\ Len(P) >= MIN_STARTUP_LEN /\ P[2] \notin {SSL_REQUEST_CODE, GSS_REQUEST_CODE}
    BY <1>1, SceneLaid, Zenon DEF PacketLaid
  <2> HIDE DEF P
  <2>2. P # <<>>
    BY <2>1 DEF MIN_STARTUP_LEN
  <2> QED
    BY <2>1, <2>2, Zenon DEF P
<1>3. CASE AskSent
  <2>1. PICK i \in 1..Len(hs.asks) : c2p = <<2, hs.asks[i]>>
    BY <1>3, Zenon DEF AskSent
  <2> DEFINE x == hs.asks[i]
  <2>2. x \in {SSL_REQUEST_CODE, GSS_REQUEST_CODE}
    BY <1>1, SceneAssumption, Zenon
  <2>3. c2p = <<2, x>>
    BY <2>1
  <2> HIDE DEF x
  <2>4. Got = [res |-> "ok", raw |-> <<2, x>>, rest |-> <<>>]
    BY <2>3, RawAsk, Zenon DEF Got
  <2>5. Got.res = "ok" /\ Got.raw = <<2, x>> /\ Got.rest = <<>>
    BY <2>4
  <2>6. parse_first_message(Got.raw) \in {"ssl", "gss"}
    BY <2>2, <2>5, ParseAsk, Zenon
  <2>7. c2p[2] = x /\ c2p # <<>>
    BY <2>3
  <2>8. c2p # hs.packet
    BY <1>2, <2>2, <2>7, Zenon
  <2>9. ~Received("cancel") /\ ~Received("startup") /\ ~Received("bad") /\ Got.res \notin {"none", "error"}
    BY <2>5, <2>6 DEF Received
  <2> QED
    BY <1>3, <2>5, <2>7, <2>8, <2>9, Zenon
<1>4. CASE c2p = hs.packet /\ ~AskSent
  <2>1. Got.res = "ok" => Got.raw = hs.packet /\ Got.rest = <<>>
    <3>1. Got.res = "ok" => Got = [res |-> "ok", raw |-> hs.packet, rest |-> <<>>]
      BY <1>1, <1>4, RawPacket, Zenon DEF Got
    <3> DEFINE P == hs.packet
    <3> HIDE DEF P
    <3>2. Got.res = "ok" => Got = [res |-> "ok", raw |-> P, rest |-> <<>>]
      BY <3>1, Zenon DEF P
    <3>3. Got.res = "ok" => Got.raw = P /\ Got.rest = <<>>
      BY <3>2
    <3> QED
      BY <3>3, Zenon DEF P
  <2> DEFINE kind == parse_first_message(hs.packet)
  <2>2. /\ kind \in {"bad", "cancel", "startup"}
        /\ kind = "cancel" => hs.packet[2] = CANCEL_REQUEST_CODE
        /\ kind = "startup" => hs.packet[2] # CANCEL_REQUEST_CODE
    BY <1>1, ParsePacket, Zenon
  <2>3. \A k : Received(k) => Got.res = "ok" /\ kind = k
    BY <2>1, Zenon DEF Received
  <2> HIDE DEF kind
  <2>4. ~Received("ssl") /\ ~Received("gss")
    BY <2>2, <2>3
  <2> QED
    BY <1>2, <1>4, <2>1, <2>2, <2>3, <2>4, Zenon
<1>5. CASE c2p = <<>> \/ (gone /\ c2p # <<>> /\ Len(c2p) < c2p[1])
  <2>1. Got.res # "ok" /\ (c2p = <<>> /\ ~gone => Got.res = "wait")
    BY <1>5, RawPart, Zenon DEF Got
  <2>2. \A k : ~Received(k)
    BY <2>1, Zenon DEF Received
  <2>3. Got.res \in {"none", "error"} => gone
    BY <1>5, <2>1
  <2> QED
    BY <2>2, <2>3, Zenon
<1> QED
  BY <1>1, <1>3, <1>4, <1>5, Zenon

\* Who sent it, when the client is still there.
LEMMA Speaking ==
  ASSUME SessInv, Reading, ~gone
  PROVE  /\ c2p = hs.packet /\ c2p # <<>> /\ ~AskSent => cl = "auth" /\ p2c = <<>>
         /\ AskSent /\ c2p # hs.packet /\ c2p # <<>> => cl = "asked" /\ p2c = <<>>
<1>1. Talk /\ cl \in {"send", "asked", "tls", "auth", "reply", "final", "ready", "refused"}
  BY Zenon DEF SessInv, SessTyped
<1> QED
  BY <1>1 DEF Talk, Ended, Reading

-----------------------------------------------------------------------------
(* Every step keeps the session's invariant. *)

LEMMA SessInitially == HsInit => SessInv
<1> SUFFICES ASSUME HsInit PROVE SessInv
  OBVIOUS
<1>1. /\ hs \in HsScenes /\ c2p = <<>> /\ p2c = <<>> /\ gone = FALSE /\ cl = "send" /\ next = 1
      /\ px = "first" /\ outcome = "open" /\ backend = <<>>
  BY DEF HsInit
<1>2. Heard /\ Talk
  BY <1>1 DEF Heard, Talk, Reading
<1>3. Shown
  BY <1>1 DEF Shown
<1>4. 1 \in Nat \ {0} /\ "send" # "ready"
  OBVIOUS
<1>5. SessTyped
  BY <1>1, <1>4, Zenon DEF SessTyped
<1> QED
  BY <1>1, <1>2, <1>3, <1>4, <1>5, Zenon DEF SessInv

\* What the proxy found out stays when it does nothing.
LEMMA ShownFrame ==
  ASSUME Shown, UNCHANGED <<hs, px, startup, sasl, outcome, backend>>, gone => gone'
  PROVE  Shown'
<1>1. hs' = hs /\ px' = px /\ startup' = startup /\ sasl' = sasl /\ outcome' = outcome
      /\ backend' = backend
  OBVIOUS
<1>2. \A k : ParsedTo(k)' <=> ParsedTo(k)
  BY <1>1, Zenon DEF ParsedTo
<1>3. Tenant' = Tenant
  BY <1>1, Zenon DEF Tenant
<1> QED
  BY <1>1, <1>2, <1>3, Zenon DEF Shown

\* What it found out when it is done.
LEMMA ShownEnd ==
  ASSUME px' = "end", \A i \in 1..Len(backend') : Forwarded(hs', backend'[i]),
         outcome' = "3D000" => WellFormed(hs') /\ ~Known(hs'),
         outcome' = "28P01" => Guarded(hs') /\ (gone' \/ ~RightPassword(hs'))
  PROVE  Shown' /\ Heard'
<1>1. Heard'
  BY DEF Heard, Reading
<1> QED
  BY <1>1 DEF Shown

\* A backend that got nothing.
LEMMA NothingSent ==
  ASSUME Shown, px \notin {"splice", "end"}
  PROVE  /\ backend = <<>> /\ outcome = "open"
         /\ \A b : Append(backend, b) = <<b>>
         /\ \A i \in 1..Len(backend) : Forwarded(hs, backend[i])
<1>1. backend = <<>> /\ outcome = "open" /\ \A i \in 1..Len(backend) : Forwarded(hs, backend[i])
  BY DEF Shown
<1>2. \A b : Append(<<>>, b) = <<b>>
  OBVIOUS
<1> QED
  BY <1>1, <1>2, Zenon

\* What a step of the client leaves alone.
LEMMA ClientFrame ==
  ASSUME SessInv, UNCHANGED <<hs, pxVars, outcome, backend>>, gone => gone'
  PROVE  hs' = hs /\ px' = px /\ startup' = startup /\ sasl' = sasl /\ Shown' /\ (Reading' <=> Reading)
<1>1. hs' = hs /\ px' = px /\ startup' = startup /\ sasl' = sasl /\ outcome' = outcome
      /\ backend' = backend
  BY DEF pxVars
<1>2. Shown
  BY Zenon DEF SessInv
<1> QED
  BY <1>1, <1>2, ShownFrame, Zenon DEF Reading

\* What the client sends is an encryption request or its packet.
LEMMA OutgoingFacts ==
  ASSUME SessTyped
  PROVE  /\ Outgoing \in Seq(Elems(Outgoing)) /\ Len(Outgoing) \in Nat /\ Outgoing[1] = Len(Outgoing)
         /\ next <= Len(hs.asks) =>
              next \in 1..Len(hs.asks) /\ Outgoing = <<2, hs.asks[next]>>
         /\ ~(next <= Len(hs.asks)) => Outgoing = hs.packet
<1>1. hs \in HsScenes /\ next \in Nat \ {0}
  BY Zenon DEF SessTyped
<1>2. IsSeq(hs.packet) /\ hs.packet[1] = Len(hs.packet) /\ IsSeq(hs.asks)
  BY <1>1, SceneLaid, SceneAssumption, Zenon DEF PacketLaid
<1>3. CASE next <= Len(hs.asks)
  <2> DEFINE x == hs.asks[next]
  <2>1. Outgoing = <<2, x>>
    BY <1>3, Zenon DEF Outgoing
  <2>2. next \in 1..Len(hs.asks)
    BY <1>1, <1>2, <1>3 DEF IsSeq
  <2> HIDE DEF x
  <2> DEFINE o == Outgoing
  <2>3. o = <<2, x>>
    BY <2>1
  <2> HIDE DEF o
  <2>4. Len(o) = 2 /\ o[1] = 2 /\ IsSeq(o)
    BY <2>3 DEF IsSeq
  <2>5. o \in Seq(Elems(o))
    BY <2>4, SeqOfElems
  <2> QED
    BY <1>3, <2>1, <2>2, <2>4, <2>5 DEF o, x
<1>4. CASE ~(next <= Len(hs.asks))
  <2>1. Outgoing = hs.packet
    BY <1>4, Zenon DEF Outgoing
  <2> QED
    BY <1>2, <1>4, <2>1, SeqOfElems, Zenon
<1> QED
  BY <1>3, <1>4

LEMMA SendsKeeps ==
  ASSUME SessInv, ClientSends
  PROVE  SessInv'
<1>1. /\ cl = "send" /\ ~gone /\ c2p' = c2p \o Outgoing /\ next' = next + 1
      /\ cl' = (IF next <= Len(hs.asks) THEN "asked" ELSE "auth")
      /\ p2c' = p2c /\ gone' = gone
  BY DEF ClientSends
<1>2. hs' = hs /\ px' = px /\ Shown' /\ (Reading' <=> Reading)
  BY <1>1, ClientFrame DEF ClientSends
<1>3. SessTyped /\ Reading /\ c2p = <<>> /\ p2c = <<>>
  BY <1>1, Zenon DEF SessInv, Talk
<1>4. c2p' = Outgoing
  <2>1. Outgoing \in Seq(Elems(Outgoing))
    BY <1>3, OutgoingFacts
  <2>2. <<>> \o Outgoing = Outgoing
    BY <2>1, JoinNothing, Zenon
  <2> QED
    BY <1>1, <1>3, <2>2, Zenon
<1>5. SessTyped' /\ cl' # "ready"
  BY <1>1, <1>2, <1>3 DEF SessTyped
<1>6. CASE next <= Len(hs.asks)
  <2>1. AskSent' /\ cl' = "asked"
    BY <1>1, <1>2, <1>3, <1>4, <1>6, OutgoingFacts, Zenon DEF AskSent
  <2>2. Heard'
    BY <1>2, <1>3, <2>1 DEF Heard, Reading
  <2>3. Talk'
    BY <1>1, <1>2, <1>3, <2>1 DEF Talk
  <2> QED
    BY <1>2, <1>5, <2>2, <2>3, Zenon DEF SessInv
<1>7. CASE ~(next <= Len(hs.asks))
  <2>1. c2p' = hs'.packet /\ cl' = "auth"
    BY <1>1, <1>2, <1>3, <1>4, <1>7, OutgoingFacts, Zenon
  <2>2. Heard'
    BY <1>2, <1>3, <2>1 DEF Heard, Reading
  <2>3. Talk'
    BY <1>1, <1>2, <1>3, <2>1 DEF Talk
  <2> QED
    BY <1>2, <1>5, <2>2, <2>3, Zenon DEF SessInv
<1> QED
  BY <1>6, <1>7

LEMMA CutKeeps ==
  ASSUME SessInv, ClientCutShort
  PROVE  SessInv'
<1>1. cl = "send" /\ ~gone /\ gone' = TRUE /\ cl' = cl /\ next' = next
  BY DEF ClientCutShort, clVars
<1>2. hs' = hs /\ px' = px /\ Shown' /\ (Reading' <=> Reading)
  BY <1>1, ClientFrame DEF ClientCutShort
<1>3. SessTyped /\ Reading /\ c2p = <<>>
  BY <1>1, Zenon DEF SessInv, Talk
<1>4. PICK n \in 1..(Len(Outgoing) - 1) : c2p' = c2p \o SubSeq(Outgoing, 1, n)
  BY Zenon DEF ClientCutShort
<1> DEFINE o == Outgoing
           h == SubSeq(o, 1, n)
<1>5. o \in Seq(Elems(o)) /\ Len(o) \in Nat /\ o[1] = Len(o)
  BY <1>3, OutgoingFacts, Zenon
<1>6. n \in 1..(Len(o) - 1) /\ c2p' = <<>> \o h
  BY <1>3, <1>4, Zenon
<1> HIDE DEF o
<1>7. h \in Seq(Elems(o)) /\ Len(h) = n /\ h[1] = o[1]
  <2>1. 1 <= n + 1 /\ n <= Len(o) /\ n \in Nat /\ 1 \in Nat \ {0} /\ n - 1 + 1 = n
        /\ 1 \in 1..(n - 1 + 1) /\ 1 + 1 - 1 = 1
    BY <1>5, <1>6
  <2>2. /\ h \in Seq(Elems(o)) /\ Len(h) = n - 1 + 1
        /\ \A i \in 1..(n - 1 + 1) : h[i] = o[1 + i - 1]
    BY <1>5, <2>1, PartOf
  <2> QED
    BY <2>1, <2>2, Zenon
<1> HIDE DEF h
<1>8. c2p' = h
  BY <1>6, <1>7, JoinNothing, Zenon
<1>9. c2p' # <<>> /\ Len(c2p') < c2p'[1]
  BY <1>5, <1>6, <1>7, <1>8
<1>10. Heard'
  BY <1>1, <1>2, <1>3, <1>9 DEF Heard, Reading
<1>11. SessTyped' /\ cl' # "ready"
  BY <1>1, <1>2, <1>3 DEF SessTyped
<1> QED
  BY <1>1, <1>2, <1>10, <1>11, Zenon DEF SessInv

LEMMA QuitKeeps ==
  ASSUME SessInv, ClientQuits
  PROVE  SessInv'
<1>1. ~gone /\ gone' = TRUE /\ cl' = cl /\ next' = next /\ c2p' = c2p
  BY DEF ClientQuits, clVars
<1>2. hs' = hs /\ px' = px /\ sasl' = sasl /\ Shown' /\ (Reading' <=> Reading)
  BY <1>1, ClientFrame DEF ClientQuits
<1>3. AskSent' <=> AskSent
  BY <1>1, <1>2, Zenon DEF AskSent
<1>4. Heard'
  BY <1>1, <1>2, <1>3, Zenon DEF Heard, SessInv
<1>5. SessTyped'
  BY <1>1, <1>2 DEF SessTyped, SessInv
<1> QED
  BY <1>1, <1>2, <1>4, <1>5, Zenon DEF SessInv

\* A client that reads is told what the proxy has written.
LEMMA Reads ==
  ASSUME SessInv, NEW here, NEW tag, ClientReads(here, tag)
  PROVE  /\ cl = here /\ ~gone /\ Talk /\ SessTyped /\ p2c' = Tail(p2c)
         /\ Told(tag) /\ p2c # <<>> /\ Head(p2c).tag = tag
BY Zenon DEF ClientReads, SessInv, Told

LEMMA AnswerKeepsSess ==
  ASSUME SessInv, ClientAnswered
  PROVE  SessInv'
<1>1. PICK a \in {"S", "N"} : ClientReads("asked", a) /\ cl' = (IF a = "S" THEN "tls" ELSE "send")
  BY Zenon DEF ClientAnswered
<1>2. c2p' = c2p /\ gone' = gone /\ next' = next
  BY DEF ClientAnswered
<1>3. hs' = hs /\ px' = px /\ sasl' = sasl /\ Shown' /\ (Reading' <=> Reading)
  BY <1>2, ClientFrame DEF ClientAnswered
<1>4. /\ cl = "asked" /\ ~gone /\ Talk /\ SessTyped /\ p2c' = Tail(p2c)
      /\ p2c # <<>> /\ Head(p2c).tag = a
  BY <1>1, Reads, Zenon
<1>5. \/ px = "startup" /\ c2p = <<>> /\ p2c = <<[tag |-> "N"]>>
      \/ px = "tls" /\ p2c = <<[tag |-> "S"]>>
  BY <1>4, Zenon DEF Talk
<1>6. p2c' = <<>> /\ (a = "N" => px = "startup" /\ c2p = <<>>) /\ (a = "S" => px = "tls")
  BY <1>4, <1>5
<1>7. AskSent' <=> AskSent
  BY <1>2, <1>3, Zenon DEF AskSent
<1>8. Heard'
  BY <1>2, <1>3, <1>7, Zenon DEF Heard, SessInv
<1>9. Talk'
  BY <1>1, <1>2, <1>3, <1>6 DEF Talk, Reading
<1>10. SessTyped' /\ cl' # "ready"
  BY <1>1, <1>2, <1>3, <1>4 DEF SessTyped
<1> QED
  BY <1>3, <1>8, <1>9, <1>10, Zenon DEF SessInv

LEMMA AppendOne == \A m : Append(<<>>, m) = <<m>>
OBVIOUS

\* A connection that has ended well or badly tells one thing.
LEMMA ErrorTold ==
  ASSUME Told("error"), NEW tag \in {"sasl", "continue", "final"}
  PROVE  ~Told(tag)
BY DEF Told

LEMMA FirstKeeps ==
  ASSUME SessInv, ClientFirstSent
  PROVE  SessInv'
<1>1. /\ ClientReads("auth", "sasl") /\ c2p' = Append(c2p, Initial(hs.mech, Hello))
      /\ said' = [first |-> Hello, reply |-> NoMsg, final |-> NoMsg]
      /\ cl' = "reply" /\ gone' = gone /\ next' = next
  BY Zenon DEF ClientFirstSent, write_p_message, Hello
<1>2. hs' = hs /\ px' = px /\ sasl' = sasl /\ Shown' /\ (Reading' <=> Reading)
  BY <1>1, ClientFrame DEF ClientFirstSent
<1>3. /\ cl = "auth" /\ ~gone /\ Talk /\ SessTyped /\ p2c' = Tail(p2c)
      /\ Told("sasl") /\ p2c # <<>>
  BY <1>1, Reads, Zenon
<1>4. px = "sasl" /\ c2p = <<>> /\ Tail(p2c) = <<>>
  BY <1>3, ErrorTold, Zenon DEF Talk, Ended
<1>5. c2p' = <<Initial(hs'.mech, Hello)>> /\ p2c' = <<>>
  BY <1>1, <1>2, <1>3, <1>4, AppendOne, Zenon
<1>6. said'.first = Hello
  BY <1>1
<1>7. Heard'
  BY <1>2, <1>4, <1>5 DEF Heard, Reading
<1>8. Talk'
  BY <1>1, <1>2, <1>4, <1>5, <1>6 DEF Talk
<1>9. SessTyped' /\ cl' # "ready"
  BY <1>1, <1>2, <1>3 DEF SessTyped
<1> QED
  BY <1>2, <1>7, <1>8, <1>9, Zenon DEF SessInv

LEMMA FinalKeeps ==
  ASSUME SessInv, ClientFinalSent
  PROVE  SessInv'
<1>1. /\ ClientReads("reply", "continue")
      /\ c2p' = Append(c2p, Response(ClientFinal(hs.password, said.first, Head(p2c).body)))
      /\ cl' = "final" /\ gone' = gone /\ next' = next
  BY Zenon DEF ClientFinalSent, write_p_message
<1>2. hs' = hs /\ px' = px /\ sasl' = sasl /\ Shown' /\ (Reading' <=> Reading)
  BY <1>1, ClientFrame DEF ClientFinalSent
<1>3. /\ cl = "reply" /\ ~gone /\ Talk /\ SessTyped /\ p2c' = Tail(p2c)
      /\ Told("continue") /\ p2c # <<>>
  BY <1>1, Reads, Zenon
<1>4. /\ said.first = Hello /\ px = "proof" /\ c2p = <<>> /\ Head(p2c).body = sasl.reply
      /\ Tail(p2c) = <<>>
  BY <1>3, ErrorTold, Zenon DEF Talk, Ended
<1>5. sasl.first = Hello
  BY <1>4, Zenon DEF SessInv, Shown
<1>6. c2p' = <<Response(ClientFinal(hs'.password, sasl'.first, sasl'.reply))>> /\ p2c' = <<>>
  BY <1>1, <1>2, <1>3, <1>4, <1>5, AppendOne, Zenon
<1>7. Heard'
  BY <1>2, <1>4, <1>6, Zenon DEF Heard, Reading
<1>8. Talk'
  BY <1>1, <1>2, <1>4, <1>6 DEF Talk
<1>9. SessTyped' /\ cl' # "ready"
  BY <1>1, <1>2, <1>3 DEF SessTyped
<1> QED
  BY <1>2, <1>7, <1>8, <1>9, Zenon DEF SessInv

\* A client that has nothing more to say about its password.
LEMMA VerdictKeeps ==
  ASSUME SessInv, UNCHANGED <<hs, c2p, gone, next, pxVars, outcome, backend>>,
         ~gone, px \in {"awake", "splice", "end"}, cl' \in {"ready", "refused"},
         cl' = "ready" => Guarded(hs) /\ RightPassword(hs)
  PROVE  SessInv'
<1>1. hs' = hs /\ px' = px /\ sasl' = sasl /\ Shown' /\ c2p' = c2p /\ gone' = gone /\ next' = next
  BY ClientFrame
<1>2. Heard'
  BY <1>1 DEF Heard, Reading
<1>3. Talk'
  BY <1>1 DEF Talk
<1>4. SessTyped'
  BY <1>1 DEF SessTyped, SessInv
<1> QED
  BY <1>1, <1>2, <1>3, <1>4, Zenon DEF SessInv

LEMMA VerifyKeeps ==
  ASSUME SessInv, ClientVerifies
  PROVE  SessInv'
<1>1. ClientReads("final", "final") /\ cl' \in {"ready", "refused"}
  BY DEF ClientVerifies
<1>2. cl = "final" /\ ~gone /\ Talk /\ Told("final") /\ p2c # <<>>
  BY <1>1, Reads, Zenon
<1>3. px \in {"awake", "splice", "end"} /\ Guarded(hs) /\ RightPassword(hs)
  BY <1>2, ErrorTold, Zenon DEF Talk, Ended
<1> QED
  BY <1>1, <1>2, <1>3, VerdictKeeps DEF ClientVerifies

LEMMA RefusedKeeps ==
  ASSUME SessInv, ClientRefused
  PROVE  SessInv'
<1>1. ClientReads(cl, "error") /\ cl' = "refused"
  BY Zenon DEF ClientRefused
<1>2. ~gone /\ Talk /\ Told("error") /\ p2c # <<>> /\ Head(p2c).tag = "error" /\ SessTyped
  BY <1>1, Reads, Zenon
<1>3. ~Told("sasl") /\ ~Told("continue") /\ ~Told("final")
  BY <1>2, ErrorTold
<1>4. p2c # <<[tag |-> "N"]>> /\ p2c # <<[tag |-> "S"]>>
  BY <1>2
<1>5. cl \in {"send", "asked", "tls", "auth", "reply", "final", "ready", "refused"}
  BY <1>2, Zenon DEF SessTyped
<1>6. px \in {"awake", "splice", "end"}
  BY <1>2, <1>3, <1>4, <1>5 DEF Talk, Ended
<1>7. cl' \in {"ready", "refused"} /\ cl' # "ready"
  BY <1>1
<1> QED
  BY <1>2, <1>6, <1>7, VerdictKeeps DEF ClientRefused

-----------------------------------------------------------------------------
(* The proxy's own steps. *)

\* Nothing that matters to the session changes.
LEMMA StayKeeps ==
  ASSUME SessInv, UNCHANGED <<hs, c2p, p2c, gone, clVars, pxVars, outcome, backend>>
  PROVE  SessInv'
<1>1. /\ hs' = hs /\ c2p' = c2p /\ p2c' = p2c /\ gone' = gone /\ cl' = cl /\ next' = next
      /\ said' = said /\ px' = px /\ startup' = startup /\ sasl' = sasl
      /\ outcome' = outcome /\ backend' = backend
  BY DEF clVars, pxVars
<1>2. Shown'
  <2>1. Shown
    BY Zenon DEF SessInv
  <2>2. gone => gone'
    BY <1>1
  <2> QED
    BY <1>1, <2>1, <2>2, ShownFrame
<1>3. (AskSent' <=> AskSent) /\ (Reading' <=> Reading)
  BY <1>1, Zenon DEF AskSent, Reading
<1>4. Heard'
  <2>1. gone' <=> gone
    BY <1>1
  <2>2. Heard
    BY Zenon DEF SessInv
  <2> QED
    BY <1>1, <1>3, <2>1, <2>2, Zenon DEF Heard
<1>5. (\A tag : Told(tag)' <=> Told(tag)) /\ (Ended' <=> Ended)
  BY <1>1, Zenon DEF Told, Ended
<1>6. Talk => Talk'
  BY <1>1, <1>3, <1>5, Zenon DEF Talk
<1>7. SessTyped'
  BY <1>1, Zenon DEF SessTyped, SessInv
<1>8. gone' <=> gone
  BY <1>1
<1> QED
  BY <1>1, <1>2, <1>4, <1>6, <1>7, <1>8, Zenon DEF SessInv

\* A connection that ends.
LEMMA EndKeeps ==
  ASSUME SessInv, UNCHANGED <<hs, clVars>>, gone' = gone \/ gone' = TRUE, px' = "end",
         \A i \in 1..Len(backend') : Forwarded(hs, backend'[i]),
         outcome' = "3D000" => WellFormed(hs) /\ ~Known(hs),
         outcome' = "28P01" => Guarded(hs) /\ (gone \/ ~RightPassword(hs)),
         ~gone => \/ cl \in {"auth", "reply", "final"} /\ (p2c' = <<>> \/ Told("error")')
                  \/ cl = "final" /\ Told("final")' /\ Guarded(hs) /\ RightPassword(hs)
                  \/ cl \in {"ready", "refused"}
                  \/ gone' = TRUE
  PROVE  SessInv'
<1>1. hs' = hs /\ cl' = cl /\ next' = next /\ said' = said
  BY DEF clVars
<1>2. Shown' /\ Heard'
  <2>1. outcome' = "28P01" => Guarded(hs') /\ (gone' \/ ~RightPassword(hs'))
    <3>1. gone => gone'
      BY Zenon
    <3> QED
      BY <1>1, <3>1, Zenon
  <2> QED
    BY <1>1, <2>1, ShownEnd, Zenon
<1>3. SessTyped'
  BY <1>1, Zenon DEF SessTyped, SessInv
<1>4. ASSUME ~gone' PROVE Talk'
  <2>1. ~gone
    BY <1>4, Zenon
  <2>2. Talk
    BY <2>1, Zenon DEF SessInv
  <2>3. cl = "reply" => said'.first = Hello
    BY <1>1, <2>2, Zenon DEF Talk
  <2>4. CASE cl \in {"auth", "reply", "final"} /\ (p2c' = <<>> \/ Told("error")')
    <3>1. Ended'
      BY <2>4, Zenon DEF Ended
    <3> QED
      BY <1>1, <2>3, <2>4, <3>1, Zenon DEF Talk
  <2>5. CASE cl = "final" /\ Told("final")' /\ Guarded(hs) /\ RightPassword(hs)
    BY <1>1, <2>5, Zenon DEF Talk
  <2>6. CASE cl \in {"ready", "refused"}
    BY <1>1, <2>6, Zenon DEF Talk
  <2> QED
    BY <1>4, <2>1, <2>4, <2>5, <2>6, Zenon
<1> QED
  BY <1>1, <1>2, <1>3, <1>4, Zenon DEF SessInv

\* Before the startup packet there is nothing to show.
LEMMA ShownBefore ==
  ASSUME px' \in {"first", "startup", "tls"}, backend' = <<>>, outcome' = "open"
  PROVE  Shown'
BY DEF Shown

LEMMA NothingReading ==
  ASSUME SessInv, px \notin {"splice", "end"}
  PROVE  /\ backend = <<>> /\ outcome = "open"
         /\ \A b : Append(backend, b) = <<b>>
         /\ \A i \in 1..Len(backend) : Forwarded(hs, backend[i])
BY NothingSent, Zenon DEF SessInv

LEMMA ReadFailsKeeps ==
  ASSUME SessInv, ReadFails
  PROVE  SessInv'
<1>1. /\ Reading /\ px' = "end" /\ outcome' = "closed" /\ hs' = hs /\ p2c' = p2c /\ gone' = gone
      /\ UNCHANGED <<hs, clVars>> /\ backend' = backend
      /\ Got.res \in {"none", "error"} \/ Received("bad")
  BY DEF ReadFails, Close
<1>2. ~gone => cl = "auth" /\ p2c' = <<>>
  BY <1>1, ReadingFacts, Speaking, Zenon
<1>3. \A i \in 1..Len(backend') : Forwarded(hs, backend'[i])
  BY <1>1, NothingReading DEF Reading
<1>4. outcome' # "3D000" /\ outcome' # "28P01"
  BY <1>1
<1> QED
  BY <1>1, <1>2, <1>3, <1>4, EndKeeps, Zenon

LEMMA CancelKeeps ==
  ASSUME SessInv, RouteCancelRequest
  PROVE  SessInv'
<1>1. /\ Received("cancel") /\ px' = "end" /\ outcome' = "closed" /\ p2c' = p2c /\ gone' = gone
      /\ UNCHANGED <<hs, clVars>>
      /\ \/ backend' = Append(backend, cancel_request_bytes(CancelKey(Got.raw)))
         \/ backend' = backend
  BY DEF RouteCancelRequest, Close
<1>2. Reading
  BY <1>1, Zenon DEF Received
<1>3. /\ c2p = hs.packet /\ c2p # <<>> /\ ~AskSent
      /\ Got.raw = hs.packet /\ hs.packet[2] = CANCEL_REQUEST_CODE
  BY <1>1, <1>2, ReadingFacts, Zenon
<1>4. ~gone => cl = "auth" /\ p2c' = <<>>
  BY <1>1, <1>2, <1>3, Speaking, Zenon
<1>5. px \notin {"splice", "end"}
  BY <1>2 DEF Reading
<1>6. \A i \in 1..Len(backend') : Forwarded(hs, backend'[i])
  <2> DEFINE b == cancel_request_bytes(CancelKey(hs.packet))
  <2>1. Forwarded(hs, b)
    BY <1>3, Zenon DEF Forwarded
  <2>2. backend' = <<b>> \/ backend' = backend
    BY <1>1, <1>3, <1>5, NothingReading, Zenon
  <2> HIDE DEF b
  <2>3. CASE backend' = <<b>>
    <3>1. \A i \in 1..Len(<<b>>) : <<b>>[i] = b
      OBVIOUS
    <3> QED
      BY <2>1, <2>3, <3>1, Zenon
  <2>4. CASE backend' = backend
    BY <1>5, <2>4, NothingReading, Zenon
  <2> QED
    BY <2>2, <2>3, <2>4, Zenon
<1>7. outcome' # "3D000" /\ outcome' # "28P01"
  BY <1>1
<1> QED
  BY <1>1, <1>4, <1>6, <1>7, EndKeeps, Zenon

LEMMA NegotiateKeeps ==
  ASSUME SessInv, Negotiate
  PROVE  SessInv'
<1> DEFINE accept == px = "first" /\ Received("ssl") /\ hs.tls
<1>1. /\ Received("ssl") \/ Received("gss")
      /\ p2c' = Append(p2c, [tag |-> IF accept THEN "S" ELSE "N"])
      /\ px' = (IF accept THEN "tls" ELSE "startup")
      /\ c2p' = Got.rest
      /\ hs' = hs /\ gone' = gone /\ cl' = cl /\ next' = next /\ outcome' = outcome /\ backend' = backend
  BY DEF Negotiate, clVars
<1> HIDE DEF accept
<1>2. Reading
  BY <1>1, Zenon DEF Received
<1>3. AskSent /\ c2p' = <<>> /\ c2p # hs.packet /\ c2p # <<>>
  BY <1>1, <1>2, ReadingFacts, Zenon
<1>4. ~gone => cl = "asked" /\ p2c = <<>>
  BY <1>2, <1>3, Speaking, Zenon
<1>5. \/ px' = "tls" /\ (~gone => p2c' = <<[tag |-> "S"]>>)
      \/ px' = "startup" /\ (~gone => p2c' = <<[tag |-> "N"]>>)
  BY <1>1, <1>4, AppendOne, Zenon
<1>6. Shown'
  <2>1. px \notin {"splice", "end"} /\ px' \in {"first", "startup", "tls"}
    BY <1>2, <1>5 DEF Reading
  <2> QED
    BY <1>1, <2>1, NothingReading, ShownBefore, Zenon
<1>7. Heard'
  BY <1>3, <1>5 DEF Heard
<1>8. ~gone' => Talk'
  BY <1>1, <1>3, <1>4, <1>5 DEF Talk
<1>9. SessTyped'
  BY <1>1, <1>5 DEF SessTyped, SessInv
<1> QED
  BY <1>1, <1>6, <1>7, <1>8, <1>9, Zenon DEF SessInv

LEMMA TlsKeeps ==
  ASSUME SessInv, TlsAccept
  PROVE  SessInv'
<1>1. /\ px = "tls" /\ hs' = hs /\ c2p' = c2p /\ p2c' = p2c /\ gone' = gone /\ next' = next
      /\ said' = said /\ backend' = backend
      /\ \/ cl = "tls" /\ ~gone /\ px' = "startup" /\ cl' = "send" /\ outcome' = outcome
         \/ gone /\ px' = "end" /\ outcome' = "closed" /\ cl' = cl
  BY DEF TlsAccept, Close
<1>2. /\ backend = <<>> /\ outcome = "open" /\ c2p = <<>>
      /\ \A i \in 1..Len(backend) : Forwarded(hs, backend[i])
  <2>1. px \notin {"splice", "end"} /\ px \in {"tls", "parse"}
    BY <1>1
  <2> QED
    BY <2>1, NothingReading, Zenon DEF SessInv, Heard
<1>3. CASE cl = "tls" /\ ~gone /\ px' = "startup" /\ cl' = "send" /\ outcome' = outcome
  <2>1. p2c = <<>>
    BY <1>3, Zenon DEF SessInv, Talk
  <2>2. Shown'
    BY <1>1, <1>2, <1>3, ShownBefore, Zenon
  <2>3. Heard' /\ Talk'
    BY <1>1, <1>2, <1>3, <2>1 DEF Heard, Talk, Reading
  <2>4. SessTyped' /\ cl' # "ready"
    BY <1>1, <1>3 DEF SessTyped, SessInv
  <2> QED
    BY <2>2, <2>3, <2>4, Zenon DEF SessInv
<1>4. CASE gone /\ px' = "end" /\ outcome' = "closed" /\ cl' = cl
  <2>1. outcome' # "3D000" /\ outcome' # "28P01" /\ UNCHANGED <<hs, clVars>>
    BY <1>1, <1>4 DEF clVars
  <2>2. \A i \in 1..Len(backend') : Forwarded(hs, backend'[i])
    BY <1>1, <1>2, Zenon
  <2> QED
    BY <1>1, <1>4, <2>1, <2>2, EndKeeps, Zenon
<1> QED
  BY <1>1, <1>3, <1>4, Zenon

\* While parameters are parsed the client waits for the proxy's first word.
LEMMA Parsing ==
  ASSUME SessInv, px = "parse"
  PROVE  /\ hs \in HsScenes /\ c2p = <<>> /\ backend = <<>> /\ outcome = "open"
         /\ \A i \in 1..Len(backend) : Forwarded(hs, backend[i])
         /\ ~gone => cl = "auth" /\ p2c = <<>>
         /\ startup.raw = hs.packet /\ hs.packet[2] # CANCEL_REQUEST_CODE
         /\ \E k \in 1..(Len(hs.params) + 1) : ParsedTo(k)
<1>1. px \notin {"splice", "end"} /\ px \in {"tls", "parse"} /\ ~Reading
  BY DEF Reading
<1>2. cl \in {"send", "asked", "tls", "auth", "reply", "final", "ready", "refused"} /\ hs \in HsScenes
  BY Zenon DEF SessInv, SessTyped
<1>3. ~gone => Talk
  BY Zenon DEF SessInv
<1>4. ~gone => cl = "auth" /\ p2c = <<>>
  BY <1>1, <1>2, <1>3 DEF Talk, Ended
<1>5. c2p = <<>>
  BY <1>1, Zenon DEF SessInv, Heard
<1> QED
  BY <1>1, <1>2, <1>4, <1>5, NothingReading, Zenon DEF SessInv, Shown

LEMMA StartupKeeps ==
  ASSUME SessInv, StartupReceived
  PROVE  SessInv'
<1>1. /\ Received("startup") /\ startup' = Startup(Got.raw, Block(Got.raw), {}) /\ px' = "parse"
      /\ c2p' = Got.rest /\ hs' = hs /\ p2c' = p2c /\ gone' = gone /\ cl' = cl /\ next' = next
      /\ outcome' = outcome /\ backend' = backend
  BY DEF StartupReceived, clVars
<1>2. Reading
  BY <1>1, Zenon DEF Received
<1>3. /\ c2p = hs.packet /\ c2p # <<>> /\ ~AskSent
      /\ Got.raw = hs.packet /\ c2p' = <<>> /\ hs.packet[2] # CANCEL_REQUEST_CODE
  BY <1>1, <1>2, ReadingFacts, Zenon
<1>4. ~gone => cl = "auth" /\ p2c = <<>>
  BY <1>2, <1>3, Speaking, Zenon
<1>5. hs \in HsScenes /\ cl \in {"send", "asked", "tls", "auth", "reply", "final", "ready", "refused"}
  BY Zenon DEF SessInv, SessTyped
<1>6. backend' = <<>> /\ outcome' = "open" /\ \A i \in 1..Len(backend') : Forwarded(hs', backend'[i])
  <2>1. px \notin {"splice", "end"}
    BY <1>2 DEF Reading
  <2> QED
    BY <1>1, <2>1, NothingReading, Zenon
<1>7. startup'.raw = hs'.packet /\ startup'.body = Block(hs.packet) /\ startup'.params = {}
  <2> DEFINE P == hs.packet
             B == Block(hs.packet)
  <2>1. startup' = [raw |-> P, body |-> B, params |-> {}]
    BY <1>1, <1>3, Zenon DEF Startup
  <2> HIDE DEF P, B
  <2>2. startup'.raw = P /\ startup'.body = B /\ startup'.params = {}
    BY <2>1
  <2> QED
    BY <1>1, <2>2, Zenon DEF P, B
<1>8. Rest(hs, 1) = Block(hs.packet)
  <2>1. hs.marks[1] = 3
    BY <1>5, SceneLaid, Zenon DEF PacketLaid
  <2> QED
    BY <2>1, Zenon DEF Rest, Block
<1>9. Upto(hs, 1) = {}
  <2>1. \A i : i \notin 1..(1 - 1)
    OBVIOUS
  <2> QED
    BY <2>1, Zenon DEF Upto
<1>10. ParsedTo(1)' /\ 1 \in 1..(Len(hs.params) + 1)
  <2>1. Len(hs.params) \in Nat
    BY <1>5, SceneLaid, Zenon DEF PacketLaid
  <2>2. 1 \in 1..(Len(hs.params) + 1)
    BY <2>1
  <2> QED
    BY <1>1, <1>7, <1>8, <1>9, <2>2, Zenon DEF ParsedTo
<1>11. Shown'
  <2>1. \E k \in 1..(Len(hs'.params) + 1) : ParsedTo(k)'
    BY <1>1, <1>10, Zenon
  <2>2. hs'.packet[2] # CANCEL_REQUEST_CODE
    BY <1>1, <1>3, Zenon
  <2> QED
    BY <1>1, <1>6, <1>7, <2>1, <2>2 DEF Shown
<1>12. Heard'
  BY <1>1, <1>3, Zenon DEF Heard, Reading
<1>13. ~gone' => Talk'
  BY <1>1, <1>4, <1>5 DEF Talk
<1>14. SessTyped'
  BY <1>1 DEF SessTyped, SessInv
<1> QED
  BY <1>1, <1>11, <1>12, <1>13, <1>14, Zenon DEF SessInv

LEMMA PairKeeps ==
  ASSUME SessInv, PairParsed
  PROVE  SessInv'
<1>1. /\ px = "parse" /\ HasPair(startup.body)
      /\ startup' = Startup(startup.raw, AfterPair(startup.body),
                            Insert(startup.params, PairOf(startup.body)))
      /\ hs' = hs /\ c2p' = c2p /\ p2c' = p2c /\ gone' = gone /\ cl' = cl /\ next' = next
      /\ px' = px /\ sasl' = sasl /\ outcome' = outcome /\ backend' = backend
  BY Zenon DEF PairParsed, clVars
<1>2. /\ hs \in HsScenes /\ c2p = <<>> /\ backend = <<>> /\ outcome = "open"
      /\ \A i \in 1..Len(backend) : Forwarded(hs, backend[i])
      /\ ~gone => cl = "auth" /\ p2c = <<>>
      /\ startup.raw = hs.packet /\ hs.packet[2] # CANCEL_REQUEST_CODE
  BY <1>1, Parsing
<1>3. PICK k \in 1..(Len(hs.params) + 1) : ParsedTo(k)
  BY <1>1, Parsing
<1>4. startup.body = Rest(hs, k) /\ startup.params = Upto(hs, k)
  BY <1>3, Zenon DEF ParsedTo
<1>5. k # Len(hs.params) + 1
  BY <1>1, <1>2, <1>4, EndLaid, Zenon
<1>6. k \in 1..Len(hs.params) /\ k + 1 \in 1..(Len(hs.params) + 1)
  <2>1. Len(hs.params) \in Nat
    BY <1>2, SceneLaid, Zenon DEF PacketLaid
  <2> QED
    BY <1>5, <2>1
<1>7. AfterPair(startup.body) = Rest(hs, k + 1) /\ PairOf(startup.body) = hs.params[k]
  BY <1>2, <1>4, <1>6, PairLaid, Zenon
<1>8. Insert(startup.params, PairOf(startup.body)) = Upto(hs, k + 1)
  BY <1>2, <1>4, <1>6, <1>7, UptoNext, Zenon
<1>9. startup'.raw = hs'.packet /\ startup'.body = Rest(hs, k + 1) /\ startup'.params = Upto(hs, k + 1)
  <2> DEFINE P == hs.packet
             B == Rest(hs, k + 1)
             U == Upto(hs, k + 1)
  <2>1. startup' = [raw |-> P, body |-> B, params |-> U]
    BY <1>1, <1>2, <1>7, <1>8, Zenon DEF Startup
  <2> HIDE DEF P, B, U
  <2>2. startup'.raw = P /\ startup'.body = B /\ startup'.params = U
    BY <2>1
  <2> QED
    BY <1>1, <2>2, Zenon DEF P, B, U
<1>10. \E j \in 1..(Len(hs'.params) + 1) : ParsedTo(j)'
  <2>1. startup'.body = Rest(hs', k + 1) /\ startup'.params = Upto(hs', k + 1)
        /\ k + 1 \in 1..(Len(hs'.params) + 1)
    BY <1>1, <1>6, <1>9, Zenon
  <2> QED
    BY <2>1, Zenon DEF ParsedTo
<1>11. Shown'
  <2>1. hs'.packet[2] # CANCEL_REQUEST_CODE /\ \A i \in 1..Len(backend') : Forwarded(hs', backend'[i])
    BY <1>1, <1>2, Zenon
  <2>2. px' = "parse" /\ backend' = <<>> /\ outcome' = "open"
    BY <1>1, <1>2, Zenon
  <2> QED
    BY <1>9, <1>10, <2>1, <2>2, Zenon DEF Shown
<1>12. Heard'
  BY <1>1, <1>2 DEF Heard, Reading
<1>13. ~gone' => Talk'
  BY <1>1, <1>2 DEF Talk
<1>14. SessTyped'
  BY <1>1 DEF SessTyped, SessInv
<1> QED
  BY <1>1, <1>11, <1>12, <1>13, <1>14, Zenon DEF SessInv

LEMMA ParseFailsKeeps ==
  ASSUME SessInv, ParseFails
  PROVE  SessInv'
<1>1. /\ px = "parse" /\ px' = "end" /\ outcome' = "closed" /\ p2c' = p2c /\ gone' = gone
      /\ UNCHANGED <<hs, clVars>> /\ backend' = backend
  BY DEF ParseFails, Close
<1>2. (~gone => cl = "auth" /\ p2c' = <<>>) /\ \A i \in 1..Len(backend') : Forwarded(hs, backend'[i])
  BY <1>1, Parsing, Zenon
<1>3. outcome' # "3D000" /\ outcome' # "28P01"
  BY <1>1
<1> QED
  BY <1>1, <1>2, <1>3, EndKeeps, Zenon

\* At the end of the parameters the tenant is the one asked for.
LEMMA Arrived ==
  ASSUME SessInv, px = "parse", AtEnd(startup.body)
  PROVE  WellFormed(hs) /\ Tenant = Asked(hs)
<1>1. hs \in HsScenes /\ hs.packet[2] # CANCEL_REQUEST_CODE
  BY Parsing, Zenon
<1>2. PICK k \in 1..(Len(hs.params) + 1) : ParsedTo(k)
  BY Parsing, Zenon
<1>3. startup.body = Rest(hs, k) /\ startup.params = Upto(hs, k)
  BY <1>2, Zenon DEF ParsedTo
<1>4. k \notin 1..Len(hs.params)
  BY <1>1, <1>3, PairLaid, Zenon DEF AtEnd
<1>5. k = Len(hs.params) + 1
  <2>1. Len(hs.params) \in Nat
    BY <1>1, SceneLaid, Zenon DEF PacketLaid
  <2> QED
    BY <1>4, <2>1
<1> QED
  BY <1>1, <1>3, <1>5, EndLaid, TenantAsked, Zenon DEF Tenant

\* A word from the proxy to a client that has read everything.
LEMMA OneWord ==
  ASSUME NEW tag, NEW body, p2c = <<>>, p2c' = Append(p2c, [tag |-> tag, body |-> body])
  PROVE  /\ p2c' # <<>> /\ Head(p2c').tag = tag /\ Head(p2c').body = body /\ Tail(p2c') = <<>>
         /\ Told(tag)'
<1> DEFINE m == [tag |-> tag, body |-> body]
<1>1. m.tag = tag /\ m.body = body
  OBVIOUS
<1> HIDE DEF m
<1>2. p2c' = <<m>>
  BY AppendOne, Zenon DEF m
<1>3. <<m>> # <<>> /\ Head(<<m>>) = m /\ Tail(<<m>>) = <<>>
  OBVIOUS
<1> QED
  BY <1>1, <1>2, <1>3, Zenon DEF Told

LEMMA UnroutableKeeps ==
  ASSUME SessInv, Unroutable
  PROVE  SessInv'
<1>1. /\ px = "parse" /\ AtEnd(startup.body) /\ ~Registered(Tenant)
      /\ px' = "end" /\ outcome' = "3D000" /\ gone' = gone /\ UNCHANGED <<hs, clVars>>
      /\ backend' = backend /\ p2c' = Append(p2c, [tag |-> "error", body |-> "3D000"])
  BY DEF Unroutable, reject, Close, error_response
<1>2. WellFormed(hs) /\ ~Known(hs)
  BY <1>1, Arrived, Zenon DEF Known
<1>3. \A i \in 1..Len(backend') : Forwarded(hs, backend'[i])
  BY <1>1, Parsing, Zenon
<1>4. ~gone => cl = "auth" /\ Told("error")'
  BY <1>1, Parsing, OneWord, Zenon
<1>5. outcome' # "28P01"
  BY <1>1
<1> QED
  BY <1>1, <1>2, <1>3, <1>4, <1>5, EndKeeps, Zenon

LEMMA ResolveKeeps ==
  ASSUME SessInv, ResolveTenant
  PROVE  SessInv'
<1>1. /\ px = "parse" /\ AtEnd(startup.body) /\ Registered(Tenant)
      /\ IF Protected(Tenant) THEN px' = "sasl" /\ p2c' = Append(p2c, [tag |-> "sasl", body |-> NoMsg])
                              ELSE px' = "awake" /\ p2c' = p2c
      /\ hs' = hs /\ c2p' = c2p /\ gone' = gone /\ cl' = cl /\ next' = next /\ said' = said
      /\ startup' = startup /\ sasl' = sasl /\ outcome' = outcome /\ backend' = backend
  BY DEF ResolveTenant, write_auth_message, clVars
<1>2. /\ hs \in HsScenes /\ c2p = <<>> /\ backend = <<>> /\ outcome = "open"
      /\ \A i \in 1..Len(backend) : Forwarded(hs, backend[i])
      /\ ~gone => cl = "auth" /\ p2c = <<>>
      /\ startup.raw = hs.packet
  BY <1>1, Parsing
<1>3. WellFormed(hs) /\ Tenant = Asked(hs)
  BY <1>1, Arrived
<1>4. /\ startup'.raw = hs'.packet /\ WellFormed(hs') /\ Tenant' = Asked(hs') /\ Registered(Asked(hs'))
      /\ \A i \in 1..Len(backend') : Forwarded(hs', backend'[i])
      /\ backend' = <<>> /\ outcome' = "open" /\ c2p' = <<>>
  BY <1>1, <1>2, <1>3, Zenon DEF Tenant
<1>5. CASE Protected(Tenant)
  <2>1. px' = "sasl" /\ p2c' = Append(p2c, [tag |-> "sasl", body |-> NoMsg]) /\ Protected(Asked(hs'))
    BY <1>1, <1>3, <1>5, Zenon
  <2>2. Shown'
    BY <1>4, <2>1, Zenon DEF Shown
  <2>3. Heard'
    BY <1>4, <2>1 DEF Heard, Reading
  <2>4. ~gone => Told("sasl")' /\ Tail(p2c') = <<>>
    BY <1>2, <2>1, OneWord, Zenon
  <2>5. ~gone' => Talk'
    BY <1>1, <1>2, <1>4, <2>1, <2>4, Zenon DEF Talk
  <2>6. SessTyped'
    BY <1>1, <2>1 DEF SessTyped, SessInv
  <2> QED
    BY <1>1, <2>2, <2>3, <2>5, <2>6, Zenon DEF SessInv
<1>6. CASE ~Protected(Tenant)
  <2>1. px' = "awake" /\ p2c' = p2c /\ ~Guarded(hs')
    BY <1>1, <1>3, <1>6, Zenon DEF Guarded
  <2>2. Shown'
    BY <1>4, <2>1, Zenon DEF Shown
  <2>3. Heard'
    BY <2>1, Zenon DEF Heard, Reading
  <2>4. ~gone' => Talk'
    BY <1>1, <1>2, <2>1 DEF Talk
  <2>5. SessTyped'
    BY <1>1, <2>1 DEF SessTyped, SessInv
  <2> QED
    BY <1>1, <2>2, <2>3, <2>4, <2>5, Zenon DEF SessInv
<1> QED
  BY <1>5, <1>6

\* What is known of a session whose tenant has a verifier.
LEMMA Proving ==
  ASSUME SessInv, px \in {"sasl", "proof"}
  PROVE  /\ hs \in HsScenes /\ backend = <<>> /\ outcome = "open"
         /\ \A i \in 1..Len(backend) : Forwarded(hs, backend[i])
         /\ startup.raw = hs.packet /\ WellFormed(hs) /\ Tenant = Asked(hs) /\ Registered(Asked(hs))
         /\ Protected(Asked(hs)) /\ Guarded(hs) /\ MySecret = Secret(Asked(hs)[1])
<1>1. px \notin {"splice", "end"} /\ px \in {"sasl", "proof", "awake", "splice"}
  OBVIOUS
<1>2. /\ startup.raw = hs.packet /\ WellFormed(hs) /\ Tenant = Asked(hs) /\ Registered(Asked(hs))
      /\ Protected(Asked(hs)) /\ hs \in HsScenes
  BY <1>1, Zenon DEF SessInv, SessTyped, Shown
<1> QED
  BY <1>1, <1>2, NothingReading, Zenon DEF Guarded, MySecret

\* The client has sent its part, and waits.
LEMMA Waiting ==
  ASSUME SessInv, px \in {"sasl", "proof"}, c2p # <<>>
  PROVE  /\ px = "sasl" => /\ c2p = <<Initial(hs.mech, Hello)>>
                           /\ ~gone => cl = "reply" /\ p2c = <<>> /\ said.first = Hello
         /\ px = "proof" => /\ c2p = <<Response(ClientFinal(hs.password, sasl.first, sasl.reply))>>
                            /\ ~gone => cl = "final" /\ p2c = <<>>
<1>1. cl \in {"send", "asked", "tls", "auth", "reply", "final", "ready", "refused"} /\ Heard
      /\ (~gone => Talk)
  BY Zenon DEF SessInv, SessTyped
<1>2. ~Reading
  BY DEF Reading
<1>3. /\ px = "sasl" => c2p = <<Initial(hs.mech, Hello)>>
      /\ px = "proof" => c2p = <<Response(ClientFinal(hs.password, sasl.first, sasl.reply))>>
  BY <1>1, Zenon DEF Heard
<1>4. px = "sasl" /\ ~gone => cl = "reply" /\ p2c = <<>> /\ said.first = Hello
  BY <1>1, <1>2 DEF Talk, Ended
<1>5. px = "proof" /\ ~gone => cl = "final" /\ p2c = <<>>
  BY <1>1, <1>2 DEF Talk, Ended
<1> QED
  BY <1>3, <1>4, <1>5, Zenon

LEMMA OneHeard == \A m : Head(<<m>>) = m /\ Tail(<<m>>) = <<>>
OBVIOUS

\* What the proxy reads in SASL.
LEMMA InitialRead ==
  ASSUME c2p = <<Initial(hs.mech, Hello)>>
  PROVE  Head(c2p).mech = hs.mech /\ Head(c2p).body = Hello /\ Tail(c2p) = <<>>
<1> DEFINE mech == hs.mech
           h == Hello
           m == [mech |-> mech, body |-> h]
<1> HIDE DEF mech, h
<1>1. m.mech = mech /\ m.body = h
  OBVIOUS
<1> HIDE DEF m
<1>2. c2p = <<m>>
  BY Zenon DEF m, mech, h, Initial
<1> QED
  BY <1>1, <1>2, OneHeard, Zenon DEF mech, h

LEMMA ResponseRead ==
  ASSUME NEW f, c2p = <<Response(f)>>
  PROVE  Head(c2p).body = f /\ Tail(c2p) = <<>>
<1>1. Response(f).body = f
  BY DEF Response
<1> QED
  BY <1>1, OneHeard, Zenon

LEMMA InitialKeeps ==
  ASSUME SessInv, SaslInitial
  PROVE  SessInv'
<1> DEFINE reply == ServerFirst(MySecret, Head(c2p).body, "sn")
<1>1. /\ px = "sasl" /\ c2p # <<>> /\ Head(c2p).mech = "SCRAM-SHA-256"
      /\ sasl' = [first |-> Head(c2p).body, reply |-> reply]
      /\ p2c' = Append(p2c, [tag |-> "continue", body |-> reply])
      /\ px' = "proof" /\ c2p' = Tail(c2p)
      /\ hs' = hs /\ gone' = gone /\ cl' = cl /\ next' = next /\ said' = said
      /\ startup' = startup /\ outcome' = outcome /\ backend' = backend
  BY DEF SaslInitial, write_auth_message, parse_sasl_initial, clVars
<1>2. px \in {"sasl", "proof"}
  BY <1>1
<1>3. /\ c2p = <<Initial(hs.mech, Hello)>>
      /\ ~gone => cl = "reply" /\ p2c = <<>> /\ said.first = Hello
  BY <1>1, <1>2, Waiting, Zenon
<1>4. /\ backend = <<>> /\ outcome = "open" /\ \A i \in 1..Len(backend) : Forwarded(hs, backend[i])
      /\ startup.raw = hs.packet /\ WellFormed(hs) /\ Tenant = Asked(hs) /\ Registered(Asked(hs))
      /\ Protected(Asked(hs)) /\ MySecret = Secret(Asked(hs)[1])
  BY <1>2, Proving, Zenon
<1>5. Head(c2p).mech = hs.mech /\ Head(c2p).body = Hello /\ Tail(c2p) = <<>>
  BY <1>3, InitialRead, Zenon
<1>6. reply = ServerFirst(Secret(Asked(hs)[1]), Hello, "sn")
  BY <1>4, <1>5, Zenon
<1> HIDE DEF reply
<1>7. sasl'.first = Hello /\ sasl'.reply = reply
  <2> DEFINE h == Hello
  <2>1. sasl' = [first |-> h, reply |-> reply]
    BY <1>1, <1>5, Zenon
  <2> HIDE DEF h
  <2>2. sasl'.first = h /\ sasl'.reply = reply
    BY <2>1
  <2> QED
    BY <2>2, Zenon DEF h
<1>8. /\ startup'.raw = hs'.packet /\ WellFormed(hs') /\ Tenant' = Asked(hs') /\ Registered(Asked(hs'))
      /\ Protected(Asked(hs')) /\ hs'.mech = "SCRAM-SHA-256"
      /\ sasl'.reply = ServerFirst(Secret(Asked(hs')[1]), Hello, "sn")
      /\ \A i \in 1..Len(backend') : Forwarded(hs', backend'[i])
      /\ backend' = <<>> /\ outcome' = "open" /\ c2p' = <<>>
  BY <1>1, <1>4, <1>5, <1>6, <1>7, Zenon DEF Tenant
<1>9. Shown'
  BY <1>1, <1>7, <1>8, Zenon DEF Shown
<1>10. Heard'
  BY <1>1, <1>8, Zenon DEF Heard, Reading
<1>11. ~gone => Told("continue")' /\ Head(p2c').body = sasl'.reply /\ Tail(p2c') = <<>>
  BY <1>1, <1>3, <1>7, OneWord, Zenon
<1>12. ~gone' => Talk'
  BY <1>1, <1>3, <1>8, <1>11, Zenon DEF Talk
<1>13. SessTyped'
  BY <1>1 DEF SessTyped, SessInv
<1> QED
  BY <1>1, <1>9, <1>10, <1>12, <1>13, Zenon DEF SessInv

\* The proof is right exactly when the password is.
LEMMA Judged ==
  ASSUME SessInv, px = "proof", c2p # <<>>
  PROVE  Proven(MySecret, sasl.first, sasl.reply, Head(c2p).body) <=> RightPassword(hs)
<1>1. px \in {"sasl", "proof"}
  OBVIOUS
<1> DEFINE t == Asked(hs)[1]
           w == Passwords[t][1]
           secret == from_password(w, "salt", 2)
           reply == ServerFirst(secret, Hello, "sn")
<1>2. Protected(Asked(hs)) /\ MySecret = secret
  BY <1>1, Proving, Zenon DEF Secret
<1>3. hs.mech = "SCRAM-SHA-256" /\ sasl.first = Hello /\ sasl.reply = reply
  BY Zenon DEF SessInv, Shown, Secret
<1>4. Head(c2p).body = ClientFinal(hs.password, Hello, reply)
  BY <1>1, <1>3, Waiting, ResponseRead, Zenon
<1>5. Proven(secret, Hello, reply, ClientFinal(hs.password, Hello, reply)) <=> w = hs.password
  BY ProofFits, Zenon
<1>6. Passwords[t] = <<w>>
  BY <1>2, PasswordAssumption, Zenon DEF Protected, Registered
<1>7. w = hs.password <=> <<w>> = <<hs.password>>
  OBVIOUS
<1> HIDE DEF w, secret, reply
<1>8. RightPassword(hs) <=> w = hs.password
  BY <1>3, <1>6, <1>7, Zenon DEF RightPassword
<1> QED
  BY <1>2, <1>3, <1>4, <1>5, <1>8, Zenon

LEMMA VerifiedKeeps ==
  ASSUME SessInv, SaslVerified
  PROVE  SessInv'
<1> DEFINE body == ServerFinal(MySecret, sasl.first, sasl.reply, Head(c2p).body)
<1>1. /\ px = "proof" /\ c2p # <<>> /\ Proven(MySecret, sasl.first, sasl.reply, Head(c2p).body)
      /\ px' = "awake" /\ p2c' = Append(p2c, [tag |-> "final", body |-> body])
      /\ hs' = hs /\ gone' = gone /\ cl' = cl /\ next' = next /\ said' = said
      /\ startup' = startup /\ outcome' = outcome /\ backend' = backend
  BY Zenon DEF SaslVerified, write_auth_message, clVars
<1> HIDE DEF body
<1>2. px \in {"sasl", "proof"}
  BY <1>1
<1>3. RightPassword(hs)
  BY <1>1, Judged, Zenon
<1>4. ~gone => cl = "final" /\ p2c = <<>>
  BY <1>1, <1>2, Waiting, Zenon
<1>5. /\ backend = <<>> /\ outcome = "open" /\ \A i \in 1..Len(backend) : Forwarded(hs, backend[i])
      /\ startup.raw = hs.packet /\ WellFormed(hs) /\ Tenant = Asked(hs) /\ Registered(Asked(hs))
      /\ Guarded(hs)
  BY <1>2, Proving, Zenon
<1>6. /\ startup'.raw = hs'.packet /\ WellFormed(hs') /\ Tenant' = Asked(hs') /\ Registered(Asked(hs'))
      /\ Guarded(hs') /\ RightPassword(hs')
      /\ \A i \in 1..Len(backend') : Forwarded(hs', backend'[i])
      /\ backend' = <<>> /\ outcome' = "open"
  BY <1>1, <1>3, <1>5, Zenon DEF Tenant
<1>7. Shown'
  BY <1>1, <1>6, Zenon DEF Shown
<1>8. Heard'
  BY <1>1 DEF Heard, Reading
<1>9. ~gone => Told("final")'
  BY <1>1, <1>4, OneWord, Zenon
<1>10. ~gone' => Talk'
  BY <1>1, <1>4, <1>6, <1>9, Zenon DEF Talk
<1>11. SessTyped'
  BY <1>1 DEF SessTyped, SessInv
<1> QED
  BY <1>1, <1>7, <1>8, <1>10, <1>11, Zenon DEF SessInv

LEMMA RejectedKeeps ==
  ASSUME SessInv, AuthRejected
  PROVE  SessInv'
<1>1. /\ \/ px = "sasl" /\ c2p # <<>> /\ Head(c2p).mech # "SCRAM-SHA-256"
         \/ px = "proof" /\ c2p # <<>> /\ ~Proven(MySecret, sasl.first, sasl.reply, Head(c2p).body)
         \/ px \in {"sasl", "proof"} /\ c2p = <<>> /\ gone
      /\ px' = "end" /\ outcome' = "28P01" /\ gone' = gone /\ UNCHANGED <<hs, clVars>>
      /\ backend' = backend /\ p2c' = Append(p2c, [tag |-> "error", body |-> "28P01"])
  BY DEF AuthRejected, reject, Close, error_response, parse_sasl_initial
<1>2. px \in {"sasl", "proof"}
  BY <1>1
<1>3. Guarded(hs) /\ \A i \in 1..Len(backend') : Forwarded(hs, backend'[i])
  BY <1>1, <1>2, Proving, Zenon
<1>4. gone \/ ~RightPassword(hs)
  <2>1. CASE px = "sasl" /\ c2p # <<>> /\ Head(c2p).mech # "SCRAM-SHA-256"
    BY <1>2, <2>1, Waiting, InitialRead, Zenon DEF RightPassword
  <2>2. CASE px = "proof" /\ c2p # <<>> /\ ~Proven(MySecret, sasl.first, sasl.reply, Head(c2p).body)
    BY <2>2, Judged, Zenon
  <2> QED
    BY <1>1, <2>1, <2>2, Zenon
<1>5. ~gone => cl \in {"auth", "reply", "final"} /\ Told("error")'
  <2>1. ~gone => c2p # <<>>
    BY <1>1, Zenon
  <2>2. ~gone => (cl = "reply" \/ cl = "final") /\ p2c = <<>>
    BY <1>2, <2>1, Waiting, Zenon
  <2> QED
    BY <1>1, <2>2, OneWord, Zenon
<1>6. outcome' # "3D000"
  BY <1>1
<1> QED
  BY <1>1, <1>3, <1>4, <1>5, <1>6, EndKeeps, Zenon

LEMMA ReplayKeeps ==
  ASSUME SessInv, ReplayStartup
  PROVE  SessInv'
<1>1. /\ px = "awake" /\ hs' = hs /\ c2p' = c2p /\ p2c' = p2c /\ gone' = gone
      /\ cl' = cl /\ next' = next /\ said' = said /\ startup' = startup
      /\ \/ backend' = Append(backend, startup.raw) /\ px' = "splice" /\ outcome' = outcome
         \/ px' = "end" /\ outcome' = "closed" /\ backend' = backend
  BY DEF ReplayStartup, Close, clVars
<1>2. px \notin {"splice", "end"} /\ px \in {"sasl", "proof", "awake", "splice"}
      /\ px \in {"awake", "splice"} /\ ~Reading
  BY <1>1 DEF Reading
<1>3. /\ backend = <<>> /\ outcome = "open" /\ \A b : Append(backend, b) = <<b>>
      /\ \A i \in 1..Len(backend) : Forwarded(hs, backend[i])
  BY <1>2, NothingReading, Zenon
<1>4. /\ startup.raw = hs.packet /\ WellFormed(hs) /\ Tenant = Asked(hs) /\ Registered(Asked(hs))
      /\ Guarded(hs) => RightPassword(hs)
  BY <1>2, Zenon DEF SessInv, Shown
<1>5. cl \in {"send", "asked", "tls", "auth", "reply", "final", "ready", "refused"} /\ (~gone => Talk)
  BY Zenon DEF SessInv, SessTyped
<1>6. ~gone => \/ cl = "auth" /\ p2c = <<>>
               \/ cl = "final" /\ Told("final") /\ Guarded(hs) /\ RightPassword(hs)
               \/ cl \in {"ready", "refused"}
  BY <1>1, <1>2, <1>5 DEF Talk, Ended
<1>7. \A tag : Told(tag)' <=> Told(tag)
  BY <1>1, Zenon DEF Told
<1>8. CASE backend' = Append(backend, startup.raw) /\ px' = "splice" /\ outcome' = outcome
  <2>1. backend' = <<hs'.packet>>
    BY <1>1, <1>3, <1>4, <1>8, Zenon
  <2>2. \A i \in 1..Len(backend') : Forwarded(hs', backend'[i])
    <3> DEFINE P == hs'.packet
    <3>1. Forwarded(hs', P)
      BY Zenon DEF Forwarded
    <3>2. backend' = <<P>>
      BY <2>1
    <3> HIDE DEF P
    <3>3. \A i \in 1..Len(<<P>>) : <<P>>[i] = P
      OBVIOUS
    <3> QED
      BY <3>1, <3>2, <3>3, Zenon
  <2>3. /\ startup'.raw = hs'.packet /\ WellFormed(hs') /\ Tenant' = Asked(hs') /\ Registered(Asked(hs'))
        /\ Guarded(hs') => RightPassword(hs')
    BY <1>1, <1>4, Zenon DEF Tenant
  <2>4. outcome' = "open" /\ px' = "splice"
    BY <1>3, <1>8, Zenon
  <2>5. Shown'
    BY <2>1, <2>2, <2>3, <2>4, Zenon DEF Shown
  <2>6. Heard'
    BY <2>4 DEF Heard, Reading
  <2>7. ~gone' => Talk'
    BY <1>1, <1>6, <1>7, <2>4 DEF Talk
  <2>8. SessTyped'
    BY <1>1, <2>4 DEF SessTyped, SessInv
  <2> QED
    BY <1>1, <2>5, <2>6, <2>7, <2>8, Zenon DEF SessInv
<1>9. CASE px' = "end" /\ outcome' = "closed" /\ backend' = backend
  <2>1. outcome' # "3D000" /\ outcome' # "28P01" /\ UNCHANGED <<hs, clVars>>
    BY <1>1, <1>9 DEF clVars
  <2>2. \A i \in 1..Len(backend') : Forwarded(hs, backend'[i])
    BY <1>3, <1>9, Zenon
  <2>3. ~gone => \/ cl \in {"auth", "reply", "final"} /\ (p2c' = <<>> \/ Told("error")')
                 \/ cl = "final" /\ Told("final")' /\ Guarded(hs) /\ RightPassword(hs)
                 \/ cl \in {"ready", "refused"}
    BY <1>1, <1>6, <1>7, Zenon
  <2> QED
    BY <1>1, <1>9, <2>1, <2>2, <2>3, EndKeeps, Zenon
<1> QED
  BY <1>1, <1>8, <1>9, Zenon

\* A splice that ends: its client is gone, or is cut off.
LEMMA SpliceEndKeeps ==
  ASSUME SessInv, UNCHANGED <<hs, clVars>>, backend' = backend, px' = "end", outcome' = "closed",
         gone' = TRUE
  PROVE  SessInv'
<1>1. \A i \in 1..Len(backend') : Forwarded(hs, backend'[i])
  BY Zenon DEF SessInv, Shown
<1>2. outcome' # "3D000" /\ outcome' # "28P01"
  OBVIOUS
<1> QED
  BY <1>1, <1>2, EndKeeps, Zenon

LEMMA PumpKeepsSess ==
  ASSUME SessInv, PumpStep
  PROVE  SessInv'
<1>1. ASSUME UNCHANGED <<cutVars, gone, px, outcome>> PROVE SessInv'
  BY <1>1, StayKeeps DEF cutVars, pxVars
<1>2. CASE PumpRead
  BY <1>1, <1>2 DEF PumpRead
<1>3. CASE MessageSkipped \/ KeyCaptured \/ ScanGivenUp \/ ScanPaused
  BY <1>1, <1>3, Zenon DEF MessageSkipped, KeyCaptured, ScanGivenUp, ScanPaused, ScanStep
<1>4. CASE PumpWrite
  <2>1. /\ UNCHANGED <<cutVars, gone>>
        /\ UNCHANGED <<px, outcome>> \/ (gone /\ px' = "end" /\ outcome' = "closed")
    BY <1>4, Zenon DEF PumpWrite, Close
  <2>2. CASE UNCHANGED <<px, outcome>>
    BY <1>1, <2>1, <2>2
  <2>3. CASE gone /\ px' = "end" /\ outcome' = "closed"
    <3>1. UNCHANGED <<hs, clVars>> /\ backend' = backend /\ gone' = gone
      BY <2>1 DEF cutVars
    <3>2. gone' = TRUE
      BY <2>3, <3>1, Zenon DEF SessInv, SessTyped
    <3> QED
      BY <2>3, <3>1, <3>2, SpliceEndKeeps, Zenon
  <2> QED
    BY <2>1, <2>2, <2>3, Zenon
<1>5. CASE SpliceEnds
  <2>1. UNCHANGED <<hs, clVars>> /\ backend' = backend /\ px' = "end" /\ outcome' = "closed" /\ gone' = TRUE
    BY <1>5 DEF SpliceEnds, Close, cutVars
  <2> QED
    BY <2>1, SpliceEndKeeps, Zenon
<1> QED
  BY <1>2, <1>3, <1>4, <1>5, Zenon DEF PumpStep

LEMMA SessStep == SessInv /\ [HsNext]_hsVars => SessInv'
<1> SUFFICES ASSUME SessInv, [HsNext]_hsVars PROVE SessInv'
  OBVIOUS
<1>1. CASE ClientStep
  BY <1>1, SendsKeeps, CutKeeps, QuitKeeps, AnswerKeepsSess, FirstKeeps, FinalKeeps, VerifyKeeps,
     RefusedKeeps, Zenon DEF ClientStep
<1>2. CASE ProxyStep
  BY <1>2, ReadFailsKeeps, NegotiateKeeps, TlsKeeps, CancelKeeps, StartupKeeps, PairKeeps,
     ParseFailsKeeps, UnroutableKeeps, ResolveKeeps, InitialKeeps, VerifiedKeeps, RejectedKeeps,
     ReplayKeeps, Zenon DEF ProxyStep
<1>3. CASE PumpStep
  BY <1>3, PumpKeepsSess
<1>4. CASE UNCHANGED hsVars
  BY <1>4, StayKeeps DEF hsVars
<1> QED
  BY <1>1, <1>2, <1>3, <1>4, Zenon DEF HsNext

\* What the invariant says of a session.
LEMMA SessionFound == SessInv => SessionExact
<1> SUFFICES ASSUME SessInv PROVE SessionExact
  OBVIOUS
<1>1. px \in {"awake", "splice"} => px \in {"sasl", "proof", "awake", "splice"}
  OBVIOUS
<1> QED
  BY <1>1, Zenon DEF SessInv, Shown, SessionExact, Known

\* Whatever a client negotiated first and wherever it broke off, compute is
\* woken and its packet replayed only for a known tenant, with the right
\* password where there is one, and neither refusal meets a client that is
\* still there and did everything right (serve_over, authenticate,
\* parse_parameters); for every packet, tenant and password.
THEOREM SessionIsExact == HsSpec => []SessionExact
<1>1. HsInit => SessInv
  BY SessInitially
<1>2. SessInv /\ [HsNext]_hsVars => SessInv'
  BY SessStep
<1>3. SessInv => SessionExact
  BY SessionFound
<1> QED
  BY <1>1, <1>2, <1>3, PTL DEF HsSpec
=============================================================================
