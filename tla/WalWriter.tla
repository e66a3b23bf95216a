----------------------------- MODULE WalWriter -----------------------------
(***************************************************************************)
(* The WAL that Postgres writes, as the page server expects it: records    *)
(* assembled into cells, aligned, and laid out over pages with headers.    *)
(* Beside the cells it keeps what was written, which is the reference the  *)
(* decoder is compared with.                                               *)
(*                                                                         *)
(* A record is [xid, extra, blocks, marker, main]; `extra' is an origin or *)
(* top-level xid entry or empty, and marker tells whether the main-data    *)
(* marker is there.  A block is [rel, fork, blk, init, data, img], with    *)
(* rel = 0 for "the relation of the block before" and img a sequence of at *)
(* most one [bytes, ho, hl, comp, page]; page is <<>> for a damaged image. *)
(***************************************************************************)
EXTENDS WalStream

BitIf(c, b) == IF c THEN b ELSE 0

CompressBit == [none |-> 0, pglz |-> BKPIMAGE_COMPRESS_PGLZ,
                lz4 |-> BKPIMAGE_COMPRESS_LZ4, zstd |-> BKPIMAGE_COMPRESS_ZSTD]

ImageHeader(i) ==
  <<Len(i.bytes), i.ho, CompressBit[i.comp] + BitIf(i.hl > 0, BKPIMAGE_HAS_HOLE)>>
    \o (IF i.hl > 0 /\ i.comp # None THEN <<i.hl>> ELSE <<>>)

BlockHeader(id, b) ==
  <<id, b.fork + BitIf(b.img # <<>>, BKPBLOCK_HAS_IMAGE)
          + BitIf(b.data # <<>>, BKPBLOCK_HAS_DATA)
          + BitIf(b.init, BKPBLOCK_WILL_INIT)
          + BitIf(b.rel = 0, BKPBLOCK_SAME_REL), Len(b.data)>>
    \o (IF b.img = <<>> THEN <<>> ELSE ImageHeader(b.img[1]))
    \o (IF b.rel = 0 THEN <<>> ELSE <<b.rel>>)
    \o <<b.blk>>

BlockBody(b) == (IF b.img = <<>> THEN <<>> ELSE b.img[1].bytes) \o b.data

Assemble(r) ==
  LET heads == FlattenSeq([i \in 1..Len(r.blocks) |->
                             BlockHeader(i - 1, r.blocks[i])])
      mark == IF r.marker THEN <<XLR_BLOCK_ID_DATA_SHORT, Len(r.main)>> ELSE <<>>
      bodies == FlattenSeq([i \in 1..Len(r.blocks) |-> BlockBody(r.blocks[i])])
      rest == heads \o r.extra \o mark \o bodies \o r.main
  IN <<HeaderCells + Len(rest), r.xid, 0>> \o rest

(* What redo of the record means for each page it touches. *)
Meaning(lsn, r) ==
  [i \in 1..Len(r.blocks) |->
     LET b == r.blocks[i]
         owner == CHOOSE k \in 1..i :
                    /\ r.blocks[k].rel # 0
                    /\ \A j \in k + 1..i : r.blocks[j].rel = 0
     IN [key |-> <<r.blocks[owner].rel, b.fork, b.blk>>, lsn |-> lsn,
         v |-> IF b.img # <<>> /\ b.img[1].page # <<>>
               THEN Image(b.img[1].page) ELSE WalRec(b.init, Assemble(r))]]

-----------------------------------------------------------------------------
(* Layout.  w = [pos, cells, items]. *)

Zeros(n) == [i \in 1..n |-> 0]

Write(w, s) == [w EXCEPT !.pos = @ + Len(s), !.cells = @ \o s]

(* The page header due at w.pos, if a page begins there. *)
Headed(w) ==
  IF w.pos % XLOG_BLCKSZ = 0
  THEN Write(w, <<XLOG_PAGE_MAGIC>> \o Zeros(page_header_size(w.pos) - 1))
  ELSE w

(* Page by page, each with its header. *)
RECURSIVE WriteRecord(_, _)
WriteRecord(w, s) ==
  LET h == Headed(w)
      room == XLOG_BLCKSZ - (h.pos % XLOG_BLCKSZ)
  IN IF Len(s) <= room THEN Write(h, s)
     ELSE WriteRecord(Write(h, SubSeq(s, 1, room)), SubSeq(s, room + 1, Len(s)))

Aligned(w) == Headed(Write(w, Zeros(Pad(w.pos))))

Note(w, lsn, bad, mods) ==
  [w EXCEPT !.items = Append(@, [lsn |-> lsn, end |-> w.pos, bad |-> bad,
                                 mods |-> mods])]

(* A record; a zeroed rest of a page; a page that was never written, which *)
(* the decoder notices once a header's worth of it is there.               *)
LayItem(w, item) ==
  LET a == Aligned(w)
      rest == XLOG_BLCKSZ - (a.pos % XLOG_BLCKSZ)
  IN CASE item.is = "rec" ->
            Note(WriteRecord(a, Assemble(item.r)), a.pos,
                 ~item.r.marker, Meaning(a.pos, item.r))
       [] item.is = "zeros" -> Write(a, Zeros(rest))
       [] item.is = "blank" ->
            LET z == Write(a, Zeros(rest))
            IN Note(Write(z, Zeros(page_header_size(z.pos))), z.pos, TRUE, <<>>)

Lay(items, start) ==
  FoldLeft(LayItem, [pos |-> start, cells |-> <<>>, items |-> <<>>], items)

Scene(items, start, from, other) ==
  LET w == Lay(items, start)
  IN [start |-> start, from |-> from, cells |-> w.cells, items |-> w.items,
      other |-> other]

=============================================================================
