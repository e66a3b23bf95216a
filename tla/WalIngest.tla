----------------------------- MODULE WalIngest -----------------------------
(***************************************************************************)
(* WAL on its way into a page server and back out as pages: the receiver   *)
(* of one timeline (WalStream), and readers that rebuild pages through the *)
(* shared redo process (WalRedo).  The reader `Own' reads the timeline     *)
(* that is being fed; the others read another timeline, whose page has the *)
(* versions scene.other.                                                   *)
(*                                                                         *)
(* A read takes its versions and rebuilds the page under the repository    *)
(* lock, so what it sees is always a prefix of the WAL; reads begin here   *)
(* when the receiver has drained the scene, and scenes end everywhere.     *)
(***************************************************************************)
EXTENDS WalWriter, WalRedo

CONSTANT Own

ASSUME IngestAssumption == Own \in Reader

ingestVars == <<streamVars, redoVars>>

(* The stored versions of a page, in LSN order, up to `lsn'. *)
VersionsOf(key, lsn) ==
  LET mine == SelectSeq(FlattenSeq(repo), LAMBDA m : m.key = key /\ m.lsn <= lsn)
  IN [i \in 1..Len(mine) |-> mine[i].v]

Mods == UNION {Range(repo[i]) : i \in DOMAIN repo}

Keys == {m.key : m \in Mods}

Lsns == {m.lsn : m \in Mods}

ReadOwn ==
  /\ Drained
  /\ scene.other # <<>>
  /\ \E key \in Keys, lsn \in Lsns : reconstruct(Own, VersionsOf(key, lsn))
  /\ UNCHANGED streamVars

ReadOther ==
  /\ Drained
  /\ scene.other # <<>>
  /\ \E r \in Reader \ {Own} : reconstruct(r, scene.other)
  /\ UNCHANGED streamVars

Readers == \E r \in Reader : ReaderStep(r) /\ UNCHANGED streamVars

ChildServes == Serve /\ UNCHANGED streamVars

ChildFails == (Refuse \/ Die \/ Stray) /\ UNCHANGED streamVars

IngestInit == StreamInit /\ RedoInit

IngestNext ==
  \/ Receive /\ UNCHANGED redoVars
  \/ ReadOwn
  \/ ReadOther
  \/ Readers
  \/ ChildServes
  \/ ChildFails

(* A thread that holds or can take the mutex goes on; the child serves.    *)
IngestSpec ==
  /\ IngestInit
  /\ [][IngestNext]_ingestVars
  /\ WF_ingestVars(Readers)
  /\ WF_ingestVars(ChildServes)

=============================================================================
