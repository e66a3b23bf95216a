---- MODULE MCOffload ----
(* Offload for TLC: a single timeline, or a root with one branch.            *)
EXTENDS Offload
NoBranches == {}
OneBranch == {<<"dev", "main">>}
====
