----------------------------- MODULE WalRecord -----------------------------
(***************************************************************************)
(* One WAL record: decoding its cells into block references, restoring the *)
(* full-page images it carries, and the page modifications it becomes.     *)
(*                                                                         *)
(* A cell is a natural number and holds one field of the record format     *)
(* (the code reads fields of 1 to 12 bytes); flag and control bytes keep   *)
(* their bits.  Which error a bad record gives is left out: every error    *)
(* ends the receiver in the same way.                                      *)
(***************************************************************************)
EXTENDS Naturals, Sequences, FiniteSets, SequencesExt

CONSTANTS
  XLOG_BLCKSZ,      \* cells of a WAL page and of a heap page
  HeaderCells       \* SIZE_OF_XLOG_RECORD

ASSUME RecordAssumption == /\ XLOG_BLCKSZ \in Nat \ {0}
                           /\ HeaderCells = 3

XLR_MAX_BLOCK_ID == 32
XLR_BLOCK_ID_DATA_SHORT == 255
XLR_BLOCK_ID_DATA_LONG == 254
XLR_BLOCK_ID_ORIGIN == 253
XLR_BLOCK_ID_TOPLEVEL_XID == 252
Forks == 0..3

BKPBLOCK_HAS_IMAGE == 16
BKPBLOCK_HAS_DATA == 32
BKPBLOCK_WILL_INIT == 64
BKPBLOCK_SAME_REL == 128
BKPIMAGE_HAS_HOLE == 1
BKPIMAGE_COMPRESS_PGLZ == 4
BKPIMAGE_COMPRESS_LZ4 == 8
BKPIMAGE_COMPRESS_ZSTD == 16

Bit(x, b) == (x \div b) % 2 = 1

Error == [ok |-> FALSE]
None == "none"

-----------------------------------------------------------------------------
(* Restoring a full-page image. *)

compression_from_info(info) ==
  IF Bit(info, BKPIMAGE_COMPRESS_PGLZ) THEN "pglz"
  ELSE IF Bit(info, BKPIMAGE_COMPRESS_LZ4) THEN "lz4"
  ELSE IF Bit(info, BKPIMAGE_COMPRESS_ZSTD) THEN "zstd"
  ELSE None

(* A back-reference repeats the last `off' cells, up to n cells in all. *)
CopyBack(dst, off, len, n) ==
  LET more == IF len <= n - Len(dst) THEN len ELSE n - Len(dst)
  IN dst \o [i \in 1..more |-> dst[Len(dst) - off + 1 + ((i - 1) % off)]]

(* From position sp, with token `bit' of the control byte ctrl next. *)
RECURSIVE Pglz(_, _, _, _, _, _)
Pglz(src, n, sp, ctrl, bit, dst) ==
  LET len == (src[sp + 1] % 16) + 3
      off == (src[sp + 1] \div 16) * 256 + src[sp + 2]
      long == len = 18
      next == sp + (IF long THEN 3 ELSE 2)
  IN IF sp >= Len(src) \/ Len(dst) >= n THEN [ok |-> TRUE, body |-> dst]
     ELSE IF bit = 8 THEN Pglz(src, n, sp + 1, src[sp + 1], 0, dst)
     ELSE IF ~Bit(ctrl, 2 ^ bit)
       THEN Pglz(src, n, sp + 1, ctrl, bit + 1, Append(dst, src[sp + 1]))
     ELSE IF \/ sp + 1 >= Len(src)
             \/ long /\ sp + 2 >= Len(src)
             \/ off = 0
             \/ off > Len(dst)
       THEN Error
     ELSE Pglz(src, n, next, ctrl, bit + 1,
               CopyBack(dst, off, IF long THEN len + src[sp + 3] ELSE len, n))

pglz_decompress(src, n) == Pglz(src, n, 0, 0, 8, <<>>)

(* lz4 and zstd are libraries: any format that gives the cells back, or    *)
(* fails on a damaged input, will do; here runs <<count, cell, ...>>.      *)
library_decompress(src, n) ==
  LET runs == Len(src) \div 2
      body == FlattenSeq([i \in 1..runs |->
                            [j \in 1..src[2 * i - 1] |-> src[2 * i]]])
  IN IF Len(src) % 2 = 1 \/ Len(body) > n
     THEN Error ELSE [ok |-> TRUE, body |-> body]

(* A corrupt or truncated image is an error, never a wrong page. *)
restore(img) ==
  LET ho == img.hole_offset
      hl == img.hole_length
      n == XLOG_BLCKSZ - hl
      unpacked == CASE img.compression = None -> [ok |-> TRUE, body |-> img.bytes]
                    [] img.compression = "pglz" -> pglz_decompress(img.bytes, n)
                    [] OTHER -> library_decompress(img.bytes, n)
  IN IF ho + hl > XLOG_BLCKSZ \/ ~unpacked.ok \/ Len(unpacked.body) # n
     THEN Error
     ELSE [ok |-> TRUE,
           page |-> SubSeq(unpacked.body, 1, ho) \o [i \in 1..hl |-> 0]
                      \o SubSeq(unpacked.body, ho + 1, n)]

-----------------------------------------------------------------------------
(* decode_wal_record.  Positions count the cells read so far. *)

At(r, p) == IF p < Len(r) THEN r[p + 1] ELSE 0

(* Its callers reject a record whose cells end before p + n. *)
take(r, p, n) == SubSeq(r, p + 1, IF p + n <= Len(r) THEN p + n ELSE Len(r))

ImageMeta(r, p) ==
  LET info == At(r, p + 2)
      packed == compression_from_info(info) # None
      hole == Bit(info, BKPIMAGE_HAS_HOLE)
  IN [bimg_len |-> At(r, p), hole_offset |-> At(r, p + 1),
      hole_length |-> CASE hole /\ packed -> At(r, p + 3)
                        [] hole /\ ~packed -> XLOG_BLCKSZ - At(r, p)
                        [] OTHER -> 0,
      compression |-> compression_from_info(info),
      cells |-> IF hole /\ packed THEN 4 ELSE 3]

(* The header of the block at p; `last' is the previous relation, or 0. *)
BlockWork(r, p, last) ==
  LET flags == At(r, p + 1)
      image == Bit(flags, BKPBLOCK_HAS_IMAGE)
      same == Bit(flags, BKPBLOCK_SAME_REL)
      meta == ImageMeta(r, p + 3)
      q == p + 3 + (IF image THEN meta.cells ELSE 0)
      end == q + (IF same THEN 1 ELSE 2)
      rel == IF same THEN last ELSE At(r, q)
  IN IF end > Len(r) \/ (same /\ last = 0) \/ flags % 16 \notin Forks
     THEN Error
     ELSE [ok |-> TRUE, end |-> end, rel |-> rel,
           key |-> <<rel, flags % 16, At(r, end - 1)>>,
           will_init |-> Bit(flags, BKPBLOCK_WILL_INIT),
           has_image |-> image, meta |-> meta,
           data_len |-> IF Bit(flags, BKPBLOCK_HAS_DATA)
                        THEN At(r, p + 2) ELSE 0]

(* The header section: registered blocks, then the main-data marker. *)
RECURSIVE HeaderSection(_, _, _, _)
HeaderSection(r, p, last, blocks) ==
  LET id == At(r, p)
      b == BlockWork(r, p, last)
  IN CASE id \in {XLR_BLOCK_ID_DATA_SHORT, XLR_BLOCK_ID_DATA_LONG}
            /\ p + 1 < Len(r) ->
            [ok |-> TRUE, pos |-> p + 2, blocks |-> blocks,
             main_len |-> At(r, p + 1)]
       [] id \in {XLR_BLOCK_ID_ORIGIN, XLR_BLOCK_ID_TOPLEVEL_XID}
            /\ p + 1 < Len(r) ->
            HeaderSection(r, p + 2, last, blocks)
       [] id <= XLR_MAX_BLOCK_ID /\ b.ok ->
            HeaderSection(r, b.end, b.rel, Append(blocks, b))
       [] OTHER -> Error

(* The data section of one block: its image, then its data. *)
DecodedBlock(r, acc, b) ==
  LET ilen == IF b.has_image THEN b.meta.bimg_len ELSE 0
  IN [pos |-> acc.pos + ilen + b.data_len,
      blocks |->
        Append(acc.blocks,
          [key |-> b.key, will_init |-> b.will_init, has_image |-> b.has_image,
           image |-> [bytes |-> take(r, acc.pos, ilen),
                      hole_offset |-> b.meta.hole_offset,
                      hole_length |-> b.meta.hole_length,
                      compression |-> b.meta.compression],
           data |-> take(r, acc.pos + ilen, b.data_len)])]

decode_wal_record(r) ==
  LET head == HeaderSection(r, HeaderCells, 0, <<>>)
      Step(acc, b) == DecodedBlock(r, acc, b)
      body == FoldLeft(Step, [pos |-> head.pos, blocks |-> <<>>], head.blocks)
  IN IF \/ Len(r) < HeaderCells
        \/ r[1] < HeaderCells
        \/ r[1] # Len(r)
        \/ ~head.ok
        \/ body.pos + head.main_len > Len(r)
     THEN Error
     ELSE [ok |-> TRUE, xid |-> r[2], blocks |-> body.blocks,
           main |-> take(r, body.pos, head.main_len)]

-----------------------------------------------------------------------------

Image(page) == [is |-> "image", page |-> page]
WalRec(init, raw) == [is |-> "rec", init |-> init, raw |-> raw]

modifications_from_record(lsn, decoded, raw) ==
  [i \in 1..Len(decoded.blocks) |->
     LET b == decoded.blocks[i]
         restored == restore(b.image)
     IN [key |-> b.key, lsn |-> lsn,
         v |-> IF b.has_image /\ restored.ok THEN Image(restored.page)
               ELSE WalRec(b.will_init, raw)]]

=============================================================================
