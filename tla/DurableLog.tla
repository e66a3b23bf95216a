----------------------------- MODULE DurableLog -----------------------------
(***************************************************************************)
(* What the WAL store of a safekeeper promises its caller, with no files,  *)
(* segments or caches: a log of bytes that starts somewhere, grows at the  *)
(* end, loses its oldest bytes when it is told to, and of which a prefix   *)
(* is durable.  A crash cuts the log somewhere behind its safe part: what  *)
(* the flush before the last made durable, or the last one once settled.   *)
(***************************************************************************)
EXTENDS Naturals, Sequences

CONSTANT Lsn

VARIABLES base, log, durable, safe

vars == <<base, log, durable, safe>>

Init == base = 0 /\ log = <<>> /\ durable = 0 /\ safe = 0

\* The first append chooses where the log begins.
Grow ==
    /\ Len(log) <= Len(log') /\ log = SubSeq(log', 1, Len(log))
    /\ base' = base \/ (log = <<>> /\ durable = 0 /\ base' \in Lsn)
    /\ UNCHANGED <<durable, safe>>

Flush ==
    /\ durable' = Len(log)
    /\ safe' = durable
    /\ UNCHANGED <<base, log>>

Settle ==
    /\ safe' = durable
    /\ UNCHANGED <<base, log, durable>>

\* Only a log that never was durable may begin elsewhere afterwards, no later
\* than before: the origin its first append chose is forgotten.
Crash ==
    \E k \in safe..Len(log) :
        /\ log' = SubSeq(log, 1, k)
        /\ durable' = k
        /\ safe' \in {safe, k}
        /\ base' = base \/ (safe = 0 /\ k = 0 /\ base' <= base)

\* The k oldest bytes are given up.
Trim ==
    \E k \in 0..Len(log) :
        /\ log' = SubSeq(log, k + 1, Len(log))
        /\ base' = base + k
        /\ durable' = IF durable > k THEN durable - k ELSE 0
        /\ safe' = IF safe > k THEN safe - k ELSE 0

Next == Grow \/ Trim \/ Flush \/ Settle \/ Crash

Spec == Init /\ [][Next]_vars
=============================================================================
