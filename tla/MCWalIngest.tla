---------------------------- MODULE MCWalIngest ----------------------------
(* Instances of WalIngest: pages of 20 cells, segments of two pages. *)
EXTENDS WalIngest

-----------------------------------------------------------------------------
(* Images: whole, holed, packed in every way, and damaged. *)

Rep(n, c) == [i \in 1..n |-> c]
Upto(n) == [i \in 1..n |-> i]

Img(bytes, ho, hl, comp, page) ==
  <<[bytes |-> bytes, ho |-> ho, hl |-> hl, comp |-> comp, page |-> page]>>

Holed == <<1, 2, 1, 2>> \o Zeros(14) \o <<1, 2>>

Plain == Img(Upto(20), 0, 0, None, Upto(20))
PlainHole == Img(<<1, 2, 1, 2, 1, 2>>, 4, 14, None, Holed)
(* a literal, then 19 cells one back: the long form of a length *)
PglzLong == Img(<<2, 7, 15, 1, 1>>, 0, 0, "pglz", Rep(20, 7))
(* two literals, then four cells two back; the hole goes in between *)
PglzHole == Img(<<4, 1, 2, 1, 2>>, 4, 14, "pglz", Holed)
(* nine literals: two control bytes *)
PglzTwo == Img(<<0, 1, 2, 3, 4, 5, 6, 7, 8, 0, 9>>, 0, 11, "pglz",
               Zeros(11) \o Upto(9))
Lz4 == Img(<<20, 5>>, 0, 0, "lz4", Rep(20, 5))
ZstdHole == Img(<<6, 3>>, 2, 14, "zstd", <<3, 3>> \o Zeros(14) \o Rep(4, 3))
(* a back-reference to before the page; a page that comes out too short *)
PglzWild == Img(<<2, 7, 15, 2, 1>>, 0, 0, "pglz", <<>>)
PglzShort == Img(<<0, 7, 7>>, 0, 0, "pglz", <<>>)

Images == [plain |-> Plain, hole |-> PlainHole, long |-> PglzLong,
           packedhole |-> PglzHole, literals |-> PglzTwo, lz4 |-> Lz4,
           zstd |-> ZstdHole, wild |-> PglzWild, short |-> PglzShort]

-----------------------------------------------------------------------------
(* Records. *)

Blk(rel, blk, init, data, img) ==
  [rel |-> rel, fork |-> 0, blk |-> blk, init |-> init, data |-> data, img |-> img]

Rec(xid, extra, blocks, main) ==
  [is |-> "rec", r |-> [xid |-> xid, extra |-> extra, blocks |-> blocks,
                        marker |-> TRUE, main |-> main]]

Bare(xid, blocks) ==
  [is |-> "rec", r |-> [xid |-> xid, extra |-> <<>>, blocks |-> blocks,
                        marker |-> FALSE, main |-> <<>>]]

ImageRec(img) == Rec(1, <<>>, <<Blk(7, 1, FALSE, <<>>, img)>>, <<9>>)
InitRec == Rec(2, <<>>, <<Blk(7, 1, TRUE, <<8>>, <<>>)>>, <<>>)
EditRec == Rec(3, <<>>, <<Blk(7, 1, FALSE, <<8, 8>>, <<>>)>>, <<9, 9>>)
TwoRec == Rec(4, <<XLR_BLOCK_ID_ORIGIN, 5>>,
              <<Blk(7, 1, FALSE, <<8>>, PglzHole), Blk(0, 2, TRUE, <<6, 6>>, <<>>)>>,
              <<9>>)
NoBlock == Rec(5, <<XLR_BLOCK_ID_TOPLEVEL_XID, 5>>, <<>>, <<9, 9, 9>>)

Ends == [bare |-> Bare(6, <<>>),
         bareblock |-> Bare(7, <<Blk(7, 1, FALSE, <<100>>, <<>>)>>),
         blank |-> [is |-> "blank"]]

Whole == [i \in DOMAIN Images |-> ImageRec(Images[i])]
           @@ [init |-> InitRec, edit |-> EditRec, two |-> TwoRec,
               noblock |-> NoBlock]

Items == Whole @@ Ends @@ [zeros |-> [is |-> "zeros"]]

-----------------------------------------------------------------------------
(* A title is <<names of items, start, cursor at first, name of the page   *)
(* versions on the other timeline>>.                                       *)

Delta(n) == [is |-> "delta", n |-> n]

Others ==
  [unread |-> <<>>,
   initdelta |-> <<WalRec(TRUE, <<0>>), Delta(1), WalRec(FALSE, <<1>>)>>,
   twoimages |-> <<Image(<<2>>), WalRec(FALSE, <<1>>), Delta(2), Image(<<3>>)>>,
   nobase |-> <<WalRec(FALSE, <<4>>), Delta(3)>>]

(* At a segment, behind a page header, in the middle of a page. *)
Starts == {40, 62, 70}

FramingTitles ==
  {<<<<a, b>>, s, s, "unread">> :
     a \in {"edit", "two", "noblock"},
     b \in DOMAIN Whole \cup DOMAIN Ends, s \in Starts}
    \cup {<<<<a, "zeros", b>>, s, 0, "unread">> :
            a \in {"init", "edit"}, b \in {"edit", "two", "zeros"}, s \in Starts}
    \cup {<<<<a, b, "edit", "noblock">>, 62, 62, "unread">> :
            a \in {"edit", "init"}, b \in {"bare", "two"}}

ReadTitles == {<<<<"lz4", "edit">>, 44, 44, "initdelta">>,
               <<<<"init", "edit", "two">>, 44, 44, "twoimages">>,
               <<<<"edit", "init", "edit">>, 44, 44, "nobase">>}

MCScenes ==
  {Scene([i \in 1..Len(t[1]) |-> Items[t[1][i]]], t[2], t[3], Others[t[4]]) :
     t \in FramingTitles \cup ReadTitles}

=============================================================================
