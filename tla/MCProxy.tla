------------------------------ MODULE MCProxy ------------------------------
(* Small instances of Proxy for TLC. *)
EXTENDS Proxy
============================================================================
