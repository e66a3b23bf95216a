---------------------------- MODULE MCSafekeeper ----------------------------
(* Safekeeper for TLC: the ingest nodes are interchangeable, and so are the  *)
(* members that are neither ingest node nor candidate.                       *)
EXTENDS Safekeeper, TLC

MemberSymmetry ==
    {p \in Permutations(Node) : /\ {p[n] : n \in Ingest} = Ingest
                                /\ {p[n] : n \in Candidate} = Candidate}
=============================================================================
