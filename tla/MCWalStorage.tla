---------------------------- MODULE MCWalStorage ----------------------------
(* WalStorage for TLC: byte values are interchangeable.                     *)
EXTENDS WalStorage, TLC

ByteSymmetry == Permutations(Byte)
=============================================================================
