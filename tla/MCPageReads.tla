---- MODULE MCPageReads ----
(* PageReads for TLC: a branch, and a branch of the branch.                  *)
EXTENDS PageReads
Chain == {<<"dev", "main">>, <<"feature", "dev">>}
====
