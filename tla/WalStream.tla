----------------------------- MODULE WalStream -----------------------------
(***************************************************************************)
(* The WAL receiver of a page server timeline: it reads committed WAL from *)
(* a safekeeper in chunks cut anywhere, frames it into records             *)
(* (WalStreamDecoder) and ingests each one.  The WAL itself is a `scene':  *)
(* its cells from LSN `start' on, with page headers and padding, and what  *)
(* was written there (`items').                                            *)
(***************************************************************************)
EXTENDS WalRecord

CONSTANTS
  SegSize,      \* cells of a WAL segment
  ShortHeader,  \* cells of a page header
  LongHeader,   \* cells of the page header that begins a segment
  Maxalign,     \* records begin at multiples of it
  Scenes,       \* the WAL to consider
  Chunks        \* bound: sizes a non-final chunk may have

ASSUME StreamAssumption ==
  /\ Maxalign \in Nat \ {0}
  /\ \A n \in {XLOG_BLCKSZ, ShortHeader, LongHeader} :
       n \in Nat /\ n % Maxalign = 0
  /\ SegSize \in Nat /\ SegSize % XLOG_BLCKSZ = 0
  /\ {ShortHeader, LongHeader} \subseteq 1..XLOG_BLCKSZ - 1
  /\ Chunks \subseteq Nat \ {0}

XLOG_PAGE_MAGIC == 209      \* in the first cell of every page header

VARIABLES
  scene,    \* the WAL the safekeeper holds
  rcv,      \* WalReceiver: [on, cursor, decoder]; decoder is <<>> at first
  repo      \* the modifications ingested: one batch per record, in order

streamVars == <<scene, rcv, repo>>

-----------------------------------------------------------------------------
(* WalStreamDecoder, over d = [lsn, buf]. *)

page_header_size(lsn) == IF lsn % SegSize = 0 THEN LongHeader ELSE ShortHeader

Starved == [res |-> "more"]
Corrupt == [res |-> "error"]

(* n payload cells, stepping over page headers; off cells of d.buf are     *)
(* already behind.  The first payload cell fixes the LSN of the record.    *)
RECURSIVE Collect(_, _, _, _, _)
Collect(d, n, off, out, first) ==
  LET lsn == d.lsn + off
      h == page_header_size(lsn)
      room == XLOG_BLCKSZ - (lsn % XLOG_BLCKSZ)
      want == IF n - Len(out) <= room THEN n - Len(out) ELSE room
      boundary == lsn % XLOG_BLCKSZ = 0
  IN IF Len(out) = n
     THEN [res |-> "ok", cells |-> out, raw |-> off, lsn |-> first]
     ELSE IF boundary /\ off + h > Len(d.buf) THEN Starved
     ELSE IF boundary /\ d.buf[off + 1] # XLOG_PAGE_MAGIC THEN Corrupt
     ELSE IF boundary THEN Collect(d, n, off + h, out, first)
     ELSE IF off + want > Len(d.buf) THEN Starved
     ELSE Collect(d, n, off + want, out \o SubSeq(d.buf, off + 1, off + want),
                  IF out = <<>> THEN lsn ELSE first)

(* Mutant: the record is dated at the page header before it. *)
collect_payload_AtHeader(d, n) ==
  LET c == Collect(d, n, 0, <<>>, 0)
  IN IF c.res = "ok" THEN [c EXCEPT !.lsn = d.lsn] ELSE c

collect_payload(d, n) == Collect(d, n, 0, <<>>, 0)

consume(d, raw) ==
  [lsn |-> d.lsn + raw, buf |-> SubSeq(d.buf, raw + 1, Len(d.buf))]

(* Padding up to the next multiple of Maxalign, due before a record. *)
Pad(lsn) == (Maxalign - (lsn % Maxalign)) % Maxalign

(* The next complete record, with the decoder it leaves behind. *)
RECURSIVE poll_decode(_)
poll_decode(d0) ==
  LET d == consume(d0, Pad(d0.lsn))
      len == collect_payload(d, 1)
      tot == len.cells[1]
      skip == ((len.lsn \div XLOG_BLCKSZ) + 1) * XLOG_BLCKSZ - d.lsn
      rec == collect_payload(d, tot)
  IN IF Pad(d0.lsn) > Len(d0.buf) THEN [res |-> "more", d |-> d0]
     ELSE IF len.res # "ok" THEN [res |-> len.res, d |-> d]
     ELSE IF tot < HeaderCells
       THEN IF skip > Len(d.buf) THEN [res |-> "more", d |-> d]
            ELSE poll_decode(consume(d, skip))
     ELSE IF rec.res # "ok" THEN [res |-> rec.res, d |-> d]
     ELSE [res |-> "ok", lsn |-> rec.lsn, rec |-> rec.cells,
           d |-> consume(d, rec.raw)]

-----------------------------------------------------------------------------
(* WalReceiver. *)

(* Every complete record of the decoder is ingested; the first that does   *)
(* not frame or decode ends the receiver.                                  *)
RECURSIVE IngestAll(_, _)
IngestAll(d, mods) ==
  LET p == poll_decode(d)
      decoded == decode_wal_record(p.rec)
  IN IF p.res = "more" THEN [on |-> TRUE, d |-> p.d, mods |-> mods]
     ELSE IF p.res = "error" \/ ~decoded.ok
       THEN [on |-> FALSE, d |-> p.d, mods |-> mods]
     ELSE IngestAll(p.d, Append(mods, modifications_from_record(p.lsn, decoded,
                                                                p.rec)))

(* The safekeeper answers from the cursor, or from its first LSN. *)
ReadFrom == IF rcv.cursor < scene.start THEN scene.start ELSE rcv.cursor

End == scene.start + Len(scene.cells)

(* One round trip that brings n > 0 cells (an empty answer changes nothing).*)
poll_once(n) ==
  LET from == ReadFrom
      fresh == rcv.decoder = <<>> \/ from # rcv.cursor
      chunk == SubSeq(scene.cells, from - scene.start + 1,
                      from - scene.start + n)
      fed == IF fresh THEN [lsn |-> from, buf |-> chunk]
             ELSE [rcv.decoder[1] EXCEPT !.buf = @ \o chunk]
      got == IngestAll(fed, <<>>)
  IN /\ rcv.on
     /\ from + n <= End
     /\ rcv' = [on |-> got.on, cursor |-> from + n, decoder |-> <<got.d>>]
     /\ repo' = repo \o got.mods
     /\ UNCHANGED scene

Receive == \E n \in Chunks \cup {End - ReadFrom} : n > 0 /\ poll_once(n)

(* Nothing more will come: all is read, or the receiver has ended. *)
Drained == ~rcv.on \/ rcv.cursor = End

StreamInit ==
  /\ scene \in Scenes
  /\ rcv = [on |-> TRUE, cursor |-> scene.from, decoder |-> <<>>]
  /\ repo = <<>>

-----------------------------------------------------------------------------

(* However the stream is cut, after every chunk the timeline holds exactly *)
(* the modifications of the records that have arrived whole, under the     *)
(* LSNs they were written at: none early, none late, none twice; and the   *)
(* receiver has stopped exactly when one that cannot be decoded has come   *)
(* (poll_decode keeps what it needs between calls; poll_once ingests every *)
(* complete record).                                                       *)
StreamExact ==
  LET whole == {i \in DOMAIN scene.items : scene.items[i].end <= rcv.cursor}
      bad == {i \in whole : scene.items[i].bad}
      good == {i \in whole : \A j \in bad : i < j}
  IN /\ rcv.on <=> bad = {}
     /\ repo = [i \in 1..Cardinality(good) |-> scene.items[i].mods]

=============================================================================
