----------------------------- MODULE KeyScanner -----------------------------
(***************************************************************************)
(* Finding the first BackendKeyData in the backend's stream.  A message is *)
(* a type cell, a length cell that counts itself, and its payload.  A scan *)
(* is [buf, done, busy]: busy while push is in its loop over messages.     *)
(***************************************************************************)
EXTENDS Integers, Sequences

CONSTANT SCAN_CAP

MSG_BACKEND_KEY_DATA == 75
MSG_READY_FOR_QUERY == 90
BACKEND_KEY_DATA_LEN == 3
HeadCells == 2

(* The real cap is far above the length of the message looked for. *)
ASSUME ScannerAssumption == SCAN_CAP \in Nat /\ SCAN_CAP >= BACKEND_KEY_DATA_LEN

Scan(buf, done, busy) == [buf |-> buf, done |-> done, busy |-> busy]

NewScanner == Scan(<<>>, FALSE, FALSE)

\* Mutant: what is left of a message is forgotten between reads.
push_Forgetful(sc, chunk) == IF sc.done THEN sc ELSE Scan(chunk, FALSE, TRUE)

(* push begins: the next chunk joins the buffer, unless scanning is over. *)
push(sc, chunk) == IF sc.done THEN sc ELSE Scan(sc.buf \o chunk, FALSE, TRUE)

(* The loop of push, one message at a time.  A length that does not cover  *)
(* itself needs no more cells to be seen.                                  *)
Whole(buf) == Len(buf) >= HeadCells /\ buf[2] <= Len(buf) - 1

IsKey(buf) == buf[2] >= 1 /\ buf[1] = MSG_BACKEND_KEY_DATA /\ buf[2] = BACKEND_KEY_DATA_LEN

IsEnd(buf) == buf[2] < 1 \/ buf[1] = MSG_READY_FOR_QUERY

KeyIn(buf) == <<buf[3], buf[4]>>

(* The key is found, or cannot come any more. *)
Finished == Scan(<<>>, TRUE, FALSE)

Over(buf) == Scan(SubSeq(buf, buf[2] + 2, Len(buf)), FALSE, TRUE)

(* An incomplete message stays in the buffer, up to the cap. *)
Pause(buf) == Scan(buf, Len(buf) > SCAN_CAP, FALSE)

=============================================================================
