----------------------------- MODULE PageReads ------------------------------
(***************************************************************************)
(* A page service connection that reads pages of a tenant's timelines      *)
(* (pageserver/src/server.rs, timeline.rs, repository.rs).                 *)
(*                                                                         *)
(* A read of a branch takes the mutex of each repository on the way for    *)
(* itself, so WAL may arrive and a gc may run between two of its steps.    *)
(***************************************************************************)
EXTENDS Timelines, Sequences

CONSTANT Read       \* the timelines pages are read of

VARIABLE reader     \* the read in progress

prVars == <<tlVars, reader>>

Idle == [phase |-> "idle"]

\* A timeline at an LSN, and what a branch continues: its parent at the branch point.
Level == [tl : Timeline, lsn : Lsn]
Up(t) == [tl |-> parent[t], lsn |-> ancestor_lsn[t]]

\* The levels from x up to the first one of a set, or to the root: the least
\* set that has x and the level above every one that does not end the climb.
Climbed(S, ends) == \A y \in S : y \in ends \/ parent[y.tl] = None \/ Up(y.tl) \in S
Climb(x, ends) ==
    LET levels == {x} \cup {Up(t) : t \in {c \in Timeline : parent[c] # None}}
    IN  {y \in levels : \A S \in SUBSET levels : x \in S /\ Climbed(S, ends) => y \in S}

\* The page the whole history makes: of the first level that has a base for it,
\* under all versions of the levels below.
Owning(p) == {y \in Level : GetPage(hist[y.tl], p, y.lsn) # NotFound}
Made(t, vs) == {<<t, v.lsn>> : v \in vs}
Expected(x, p) ==
    LET climb == Climb(x, Owning(p))
    IN  IF climb \cap Owning(p) = {} THEN NotFound
        ELSE UNION {Made(y.tl, IF y \in Owning(p) THEN GetPage(hist[y.tl], p, y.lsn)
                               ELSE Upto(hist[y.tl], p, y.lsn)) : y \in climb}

\* No WAL that reaches back to this level can still arrive.
Settled(x) == \A y \in Climb(x, {}) : y.lsn <= Last(y.tl)
-----------------------------------------------------------------------------
(***************************************************************************)
(* A read in progress climbs existing timelines at LSNs of the WAL.        *)
(***************************************************************************)
PrTypeOK ==
    /\ TlTypeOK
    /\ reader \in {Idle} \cup
          [phase : {"own", "base", "done"}, page : Block, path : Seq(Level),
           found : SUBSET (Timeline \X Lsn), settled : BOOLEAN, start : Level]
    /\ reader # Idle => \A i \in 1..Len(reader.path) : reader.path[i].tl \in timelines

\* handle_page_conn finds the timeline in the tenant's map.
BeginRead(t, p, l) ==
    /\ reader = Idle
    /\ ~Locked
    /\ t \in timelines
    /\ LET x == [tl |-> t, lsn |-> l]
       IN  reader' = [phase |-> "own", page |-> p, path |-> <<x>>, found |-> NotFound,
                      settled |-> Settled(x), start |-> x]
    /\ UNCHANGED tlVars

\* Timeline::get_page looks further up only on a branch.
Inherits_Always(t) == TRUE
Inherits(t) == parent[t] # None

\* The level of the ancestor chain the read is at.
Top == reader.path[Len(reader.path)]
Below == SubSeq(reader.path, 1, Len(reader.path) - 1)

Goes(phase, path, found) ==
    reader' = [phase |-> phase, page |-> reader.page, path |-> path, found |-> found,
               settled |-> reader.settled, start |-> reader.start]

\* A level is answered with a page: the level below goes on, if there is one.
Answered(page) ==
    Goes(IF page = NotFound \/ Below = <<>> THEN "done" ELSE "base", Below, page)

\* Timeline::get_page, first part: the timeline's own versions.
ReadOwn ==
    /\ reader.phase = "own"
    /\ LET own == GetPage(Stored(Top.tl), reader.page, Top.lsn)
       IN  \/ /\ own # NotFound \/ ~Inherits(Top.tl)
              /\ Answered(Made(Top.tl, own))
           \/ /\ own = NotFound /\ Inherits(Top.tl)
              /\ Goes("own", Append(reader.path, Up(Top.tl)), NotFound)
    /\ UNCHANGED tlVars

\* get_page_with_base: the timeline's versions over the page of the parent,
\* which stands as an image at the branch point.
OverBase_BaseOnly(vs, base, base_lsn, t) == base
OverBase(vs, base, base_lsn, t) ==
    IF \E b \in vs : IsBase(b) /\ b.lsn >= base_lsn
    THEN Made(t, Rebuild(vs))
    ELSE base \cup Made(t, {v \in vs : v.lsn >= base_lsn})

\* Second part: the timeline's versions on top of the inherited page.
ReadOnBase ==
    /\ reader.phase = "base"
    /\ Answered(OverBase(Upto(Stored(Top.tl), reader.page, Top.lsn), reader.found,
                         ancestor_lsn[Top.tl], Top.tl))
    /\ UNCHANGED tlVars

EndRead ==
    /\ reader.phase = "done"
    /\ reader' = Idle
    /\ UNCHANGED tlVars

PrInit == TlInit /\ reader = Idle

PrNext ==
    \/ TlNext /\ UNCHANGED reader
    \/ \E t \in Read, p \in Block, l \in Valid : BeginRead(t, p, l)
    \/ ReadOwn \/ ReadOnBase \/ EndRead

PrSpec == PrInit /\ [][PrNext]_prVars
-----------------------------------------------------------------------------
(***************************************************************************)
(* A read returns the page that the whole history makes, whatever arrives  *)
(* or is collected between its steps: at an LSN the WAL had reached when   *)
(* the read began, not below the horizon and, on a branch, not below the   *)
(* branch point (Timeline::get_page, Repository::get_page_with_base).      *)
(***************************************************************************)
ReadsExact ==
    /\ reader.phase = "done"
    /\ reader.settled
    /\ reader.start.lsn >= horizon[reader.start.tl]
    /\ reader.start.lsn >= ancestor_lsn[reader.start.tl]
    /\ reader.start.tl \in whole
    => reader.found = Expected(reader.start, reader.page)
=============================================================================
