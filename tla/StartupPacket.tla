--------------------------- MODULE StartupPacket ---------------------------
(***************************************************************************)
(* A client's first packets: reading one from the socket and classifying   *)
(* it.  A packet is a sequence of cells: its length, its code, and for a   *)
(* startup packet the parameter block, in which a cell is a piece of text  *)
(* or NUL.                                                                 *)
(***************************************************************************)
EXTENDS Naturals, Sequences

CONSTANT MAX_STARTUP_LEN

MIN_STARTUP_LEN == 2

ASSUME PacketAssumption ==
  MAX_STARTUP_LEN \in Nat /\ MAX_STARTUP_LEN >= MIN_STARTUP_LEN

NUL == "\\0"
SSL_REQUEST_CODE == "ssl"
GSS_REQUEST_CODE == "gss"
CANCEL_REQUEST_CODE == "cancel"
PROTOCOL_V3 == "v3"

(* One packet off the stream s, of which nothing more comes once `eof'.    *)
read_raw_message(s, eof) ==
  IF s = <<>> THEN [res |-> IF eof THEN "none" ELSE "wait"]
  ELSE IF s[1] \notin MIN_STARTUP_LEN..MAX_STARTUP_LEN THEN [res |-> "error"]
  ELSE IF Len(s) < s[1] THEN [res |-> IF eof THEN "error" ELSE "wait"]
  ELSE [res |-> "ok", raw |-> SubSeq(s, 1, s[1]),
        rest |-> SubSeq(s, s[1] + 1, Len(s))]

(* parse_first_message, up to the parameters of a startup packet. *)
parse_first_message(raw) ==
  IF Len(raw) < MIN_STARTUP_LEN \/ raw[1] # Len(raw) THEN "bad"
  ELSE CASE raw[2] = SSL_REQUEST_CODE -> "ssl"
         [] raw[2] = GSS_REQUEST_CODE -> "gss"
         [] raw[2] = CANCEL_REQUEST_CODE -> IF Len(raw) < 4 THEN "bad" ELSE "cancel"
         [] OTHER -> "startup"

Block(raw) == SubSeq(raw, 3, Len(raw))

CancelKey(raw) == <<raw[3], raw[4]>>

cancel_request_bytes(key) == <<4, CANCEL_REQUEST_CODE, key[1], key[2]>>

-----------------------------------------------------------------------------
(* The parameter block: pairs of strings up to an empty key. *)

Nuls(body) == {i \in DOMAIN body : body[i] = NUL}

FirstNul(body) == CHOOSE i \in Nuls(body) : \A j \in Nuls(body) : i <= j

(* take_cstr: the text before the next NUL, and what follows it. *)
Text(body) == SubSeq(body, 1, FirstNul(body) - 1)
After(body) == SubSeq(body, FirstNul(body) + 1, Len(body))

AtEnd(body) == body # <<>> /\ body[1] = NUL

HasPair(body) == /\ body # <<>> /\ body[1] # NUL
                 /\ Nuls(body) # {} /\ Nuls(After(body)) # {}

PairOf(body) == <<Text(body), Text(After(body))>>

AfterPair(body) == After(After(body))

(* HashMap::insert, on a set of <<key, value>>. *)
Insert(params, pair) == {p \in params : p[1] # pair[1]} \cup {pair}

(* The database, or else the user; <<>> when the packet names neither. *)
tenant(params) ==
  LET named(k) == {p \in params : p[1] = <<k>>}
      best == IF named("database") # {} THEN named("database") ELSE named("user")
  IN IF best = {} THEN <<>> ELSE <<(CHOOSE p \in best : TRUE)[2]>>

=============================================================================
