----------------------------- MODULE MCConsensus -----------------------------
(* Consensus for TLC: the candidates are interchangeable, and so are the     *)
(* members that only vote.                                                   *)
EXTENDS Consensus, TLC

NodeSymmetry == {p \in Permutations(Node) : {p[c] : c \in Candidate} = Candidate}
=============================================================================
