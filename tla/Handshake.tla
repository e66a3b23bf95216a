----------------------------- MODULE Handshake -----------------------------
(***************************************************************************)
(* One client connection from its first packet to the first query: SSL and *)
(* GSS negotiation, the startup packet, SCRAM with the client, the startup *)
(* replayed to the backend and the scan of its stream for the cancellation *)
(* key.  Waking compute is one step here (see Proxy); every other await is *)
(* a step boundary, and the client may go away at each of them.  The loops *)
(* over parameters and over messages go one at a time.                     *)
(*                                                                         *)
(* A scene is what the two ends bring along:                               *)
(*   tls       the proxy has a TLS acceptor                                *)
(*   asks      the encryption requests the client makes first              *)
(*   packet    the packet it then sends                                    *)
(*   params, marks     the pairs in its parameter block, and where each    *)
(*             of them and what comes after the last begins                *)
(*   password, mech    of the client, for SASL                             *)
(*   stream    the messages of the backend, as [t |-> type, body |-> cells]*)
(*   cells, ends       that stream, and where in it each message ends      *)
(***************************************************************************)
EXTENDS StartupPacket, Scram, KeyScanner

CONSTANTS
  HsScenes,
  Passwords,    \* tenant -> <<password>>, or <<>> for a tenant without SCRAM
  OtherKey,     \* cancellation key of another open session
  HsChunks      \* bound: how many cells a read from the backend may return

IsSeq(s) == s = [i \in 1..Len(s) |-> s[i]] /\ Len(s) \in Nat

(* The pair p lies in the packet from cell a to the one before b. *)
PairAt(packet, a, p, b) ==
  LET k == Len(p[1])
      v == Len(p[2])
  IN /\ IsSeq(p[1]) /\ IsSeq(p[2]) /\ p = <<p[1], p[2]>> /\ k > 0
     /\ b = a + k + v + 2 /\ b <= Len(packet) + 1
     /\ \A j \in 1..k : packet[a + j - 1] = p[1][j] /\ p[1][j] # NUL
     /\ \A j \in 1..v : packet[a + k + j] = p[2][j] /\ p[2][j] # NUL
     /\ packet[a + k] = NUL /\ packet[b - 1] = NUL

RestAt(s) == s.marks[Len(s.params) + 1]

(* A packet is as long as it says; its block, if it has one, is a number   *)
(* of pairs and then its end or something that is neither.                 *)
PacketLaid(s) ==
  LET P == s.packet
      N == Len(s.params)
  IN /\ IsSeq(P) /\ Len(P) >= MIN_STARTUP_LEN /\ P[1] = Len(P)
     /\ P[2] \notin {SSL_REQUEST_CODE, GSS_REQUEST_CODE}
     /\ N \in Nat /\ DOMAIN s.marks = 1..(N + 1) /\ s.marks[1] = 3
     /\ \A i \in 1..N : s.marks[i] \in Nat /\ PairAt(P, s.marks[i], s.params[i], s.marks[i + 1])
     /\ P[2] # CANCEL_REQUEST_CODE =>
          \/ RestAt(s) <= Len(P) /\ P[RestAt(s)] = NUL
          \/ RestAt(s) = Len(P) + 1
          \/ P[RestAt(s)] # NUL /\ \A i, j \in RestAt(s)..Len(P) : P[i] = NUL /\ P[j] = NUL => i = j

(* What comes after the last whole message of a stream is cut short or has *)
(* a length that does not cover itself.                                    *)
StreamLaid(s) ==
  LET n == Len(s.stream)
      left == Len(s.cells) - s.ends[n]
  IN /\ IsSeq(s.cells) /\ n \in Nat /\ s.ends[0] = 0
     /\ \A i \in 0..n : s.ends[i] \in 0..Len(s.cells)
     /\ \A i \in 1..n :
          LET b == s.stream[i].body
          IN /\ IsSeq(b) /\ s.ends[i] = s.ends[i - 1] + HeadCells + Len(b)
             /\ s.cells[s.ends[i - 1] + 1] = s.stream[i].t
             /\ s.cells[s.ends[i - 1] + 2] = Len(b) + 1
             /\ \A j \in 1..Len(b) : s.cells[s.ends[i - 1] + HeadCells + j] = b[j]
     /\ left >= HeadCells =>
          s.cells[s.ends[n] + 2] \in Int \ (1..(left - 1))

\* A tenant has one password or none.
ASSUME PasswordAssumption ==
  \A t \in DOMAIN Passwords : Passwords[t] = <<>> \/ Passwords[t] = <<Passwords[t][1]>>

IsKeyMessage(m) == m.t = MSG_BACKEND_KEY_DATA /\ Len(m.body) + 1 = BACKEND_KEY_DATA_LEN

(* A backend does not issue a key that is in use. *)
ASSUME SceneAssumption ==
  /\ HsChunks \subseteq Nat \ {0}
  /\ \A s \in HsScenes :
       /\ IsSeq(s.asks)
       /\ \A i \in 1..Len(s.asks) : s.asks[i] \in {SSL_REQUEST_CODE, GSS_REQUEST_CODE}
       /\ PacketLaid(s) /\ StreamLaid(s)
       /\ \A i \in 1..Len(s.stream) : IsKeyMessage(s.stream[i]) => s.stream[i].body # OtherKey

VARIABLES
  hs,         \* the scene
  c2p, p2c,   \* the two directions of the client's connection
  gone,       \* the client has closed it
  cl, next,   \* the client's progress, and its next encryption request
  said,       \* its part of SASL: [first, reply, final]
  px,         \* the progress of the connection's task
  startup,    \* the packet in its hands: [raw, body, params]
  sasl,       \* its part of SASL: [first, reply]
  outcome,    \* what it ended with: "open", "closed" or an SQLSTATE
  backend,    \* what was written to backends: startup and cancel packets
  cancels,    \* CancelRegistry
  sc,         \* the scanner
  pump        \* cells of the backend's stream: [read, sent, captured]

clVars == <<cl, next, said>>
pxVars == <<px, startup, sasl>>
splVars == <<cancels, sc, pump>>
hsVars == <<hs, c2p, p2c, gone, clVars, pxVars, outcome, backend, splVars>>

NoMsg == [is |-> "nothing"]

Startup(raw, body, params) == [raw |-> raw, body |-> body, params |-> params]

\* What the registry holds for tenants with a password.
Secret(t) == from_password(Passwords[t][1], "salt", 2)

HsInit ==
  /\ hs \in HsScenes
  /\ c2p = <<>> /\ p2c = <<>> /\ gone = FALSE
  /\ cl = "send" /\ next = 1
  /\ said = [first |-> NoMsg, reply |-> NoMsg, final |-> NoMsg]
  /\ px = "first" /\ startup = Startup(<<>>, <<>>, {})
  /\ sasl = [first |-> NoMsg, reply |-> NoMsg]
  /\ outcome = "open" /\ backend = <<>>
  /\ cancels = {OtherKey} /\ sc = NewScanner
  /\ pump = [read |-> 0, sent |-> 0, captured |-> <<>>]

-----------------------------------------------------------------------------
(* The client.  It waits for an answer to every encryption request; its    *)
(* side of SASL is client_authenticate.                                    *)

Outgoing == IF next <= Len(hs.asks) THEN <<2, hs.asks[next]>> ELSE hs.packet

ClientSends ==
  /\ cl = "send" /\ ~gone
  /\ c2p' = c2p \o Outgoing
  /\ next' = next + 1
  /\ cl' = IF next <= Len(hs.asks) THEN "asked" ELSE "auth"
  /\ UNCHANGED <<hs, p2c, gone, said, pxVars, outcome, backend, splVars>>

\* The client dies in the middle of a packet.
ClientCutShort ==
  /\ cl = "send" /\ ~gone
  /\ \E n \in 1..(Len(Outgoing) - 1) : c2p' = c2p \o SubSeq(Outgoing, 1, n)
  /\ gone' = TRUE
  /\ UNCHANGED <<hs, p2c, clVars, pxVars, outcome, backend, splVars>>

ClientQuits ==
  /\ ~gone /\ gone' = TRUE
  /\ UNCHANGED <<hs, c2p, p2c, clVars, pxVars, outcome, backend, splVars>>

ClientReads(here, tag) ==
  cl = here /\ ~gone /\ p2c # <<>> /\ Head(p2c).tag = tag /\ p2c' = Tail(p2c)

ClientAnswered ==
  /\ \E a \in {"S", "N"} :
       ClientReads("asked", a) /\ cl' = IF a = "S" THEN "tls" ELSE "send"
  /\ UNCHANGED <<hs, c2p, gone, next, said, pxVars, outcome, backend, splVars>>

write_p_message(m) == c2p' = Append(c2p, m)

Initial(mech, first) == [mech |-> mech, body |-> first]
Response(final) == [body |-> final]

ClientFirstSent ==
  /\ ClientReads("auth", "sasl")
  /\ LET first == ClientFirst("user", "cn")
     IN write_p_message(Initial(hs.mech, first)) /\ said' = [first |-> first, reply |-> NoMsg, final |-> NoMsg]
  /\ cl' = "reply"
  /\ UNCHANGED <<hs, gone, next, pxVars, outcome, backend, splVars>>

ClientFinalSent ==
  /\ ClientReads("reply", "continue")
  /\ LET reply == Head(p2c).body
         final == ClientFinal(hs.password, said.first, reply)
     IN /\ write_p_message(Response(final))
        /\ said' = [first |-> said.first, reply |-> reply, final |-> final]
  /\ cl' = "final"
  /\ UNCHANGED <<hs, gone, next, pxVars, outcome, backend, splVars>>

ClientVerifies ==
  /\ ClientReads("final", "final")
  /\ cl' = IF ServerProven(hs.password, said.first, said.reply, Head(p2c).body)
           THEN "ready" ELSE "refused"
  /\ UNCHANGED <<hs, c2p, gone, next, said, pxVars, outcome, backend, splVars>>

ClientRefused ==
  /\ ClientReads(cl, "error")
  /\ cl' = "refused"
  /\ UNCHANGED <<hs, c2p, gone, next, said, pxVars, outcome, backend, splVars>>

ClientStep ==
  \/ ClientSends \/ ClientCutShort \/ ClientQuits \/ ClientAnswered
  \/ ClientFirstSent \/ ClientFinalSent \/ ClientVerifies \/ ClientRefused

-----------------------------------------------------------------------------
(* serve_client and the loop of serve_over: packets before the startup.    *)

Reading == px \in {"first", "startup"}
Got == read_raw_message(c2p, gone)

Received(kind) == Reading /\ Got.res = "ok" /\ parse_first_message(Got.raw) = kind

write_auth_message(tag, body) == p2c' = Append(p2c, [tag |-> tag, body |-> body])

Close(how) == px' = "end" /\ outcome' = how

\* End of file between packets, a packet cut short, or one that is malformed.
ReadFails ==
  /\ Reading
  /\ \/ Got.res \in {"none", "error"}
     \/ Received("bad")
  /\ Close("closed")
  /\ UNCHANGED <<hs, c2p, p2c, gone, clVars, startup, sasl, backend, splVars>>

\* Only the very first packet can start TLS; any later request is declined.
Negotiate ==
  /\ Received("ssl") \/ Received("gss")
  /\ LET accept == px = "first" /\ Received("ssl") /\ hs.tls
     IN /\ p2c' = Append(p2c, [tag |-> IF accept THEN "S" ELSE "N"])
        /\ px' = IF accept THEN "tls" ELSE "startup"
  /\ c2p' = Got.rest
  /\ UNCHANGED <<hs, gone, clVars, startup, sasl, outcome, backend, splVars>>

\* acceptor.accept, with the client's half of the TLS handshake.
TlsAccept ==
  /\ px = "tls"
  /\ \/ cl = "tls" /\ ~gone /\ px' = "startup" /\ cl' = "send" /\ UNCHANGED outcome
     \/ gone /\ Close("closed") /\ UNCHANGED cl
  /\ UNCHANGED <<hs, c2p, p2c, gone, next, said, startup, sasl, backend, splVars>>

RouteCancelRequest ==
  /\ Received("cancel")
  /\ \/ /\ CancelKey(Got.raw) \in cancels
        /\ backend' = Append(backend, cancel_request_bytes(CancelKey(Got.raw)))
     \/ UNCHANGED backend      \* unknown key, or the backend is not reached
  /\ Close("closed")
  /\ UNCHANGED <<hs, c2p, p2c, gone, clVars, startup, sasl, splVars>>

StartupReceived ==
  /\ Received("startup")
  /\ startup' = Startup(Got.raw, Block(Got.raw), {})
  /\ px' = "parse"
  /\ c2p' = Got.rest
  /\ UNCHANGED <<hs, p2c, gone, clVars, sasl, outcome, backend, splVars>>

\* One round of the loop of parse_parameters.
PairParsed ==
  /\ px = "parse" /\ HasPair(startup.body)
  /\ startup' = Startup(startup.raw, AfterPair(startup.body),
                        Insert(startup.params, PairOf(startup.body)))
  /\ UNCHANGED <<hs, c2p, p2c, gone, clVars, px, sasl, outcome, backend, splVars>>

ParseFails ==
  /\ px = "parse" /\ ~HasPair(startup.body) /\ ~AtEnd(startup.body)
  /\ Close("closed")
  /\ UNCHANGED <<hs, c2p, p2c, gone, clVars, startup, sasl, backend, splVars>>

-----------------------------------------------------------------------------
(* serve_over from the startup packet on. *)

error_response(sqlstate) == [tag |-> "error", body |-> sqlstate]

reject(sqlstate) == Close(sqlstate) /\ p2c' = Append(p2c, error_response(sqlstate))

(* What the registry holds for a tenant that was asked for, as <<>> or <<name>>. *)
Registered(t) == t # <<>> /\ t[1] \in DOMAIN Passwords
Protected(t) == Registered(t) /\ Passwords[t[1]] # <<>>

Tenant == tenant(startup.params)

Unroutable ==
  /\ px = "parse" /\ AtEnd(startup.body)
  /\ ~Registered(Tenant)
  /\ reject("3D000")
  /\ UNCHANGED <<hs, c2p, gone, clVars, startup, sasl, backend, splVars>>

\* A tenant without a verifier is not asked for a password.
ResolveTenant ==
  /\ px = "parse" /\ AtEnd(startup.body)
  /\ Registered(Tenant)
  /\ IF Protected(Tenant) THEN px' = "sasl" /\ write_auth_message("sasl", NoMsg)
                          ELSE px' = "awake" /\ UNCHANGED p2c
  /\ UNCHANGED <<hs, c2p, gone, clVars, startup, sasl, outcome, backend, splVars>>

parse_sasl_initial(m) == m.mech = "SCRAM-SHA-256"

MySecret == Secret(Tenant[1])

\* authenticate: the first message of the client.
SaslInitial ==
  /\ px = "sasl" /\ c2p # <<>>
  /\ parse_sasl_initial(Head(c2p))
  /\ LET first == Head(c2p).body
         reply == ServerFirst(MySecret, first, "sn")
     IN sasl' = [first |-> first, reply |-> reply] /\ write_auth_message("continue", reply)
  /\ px' = "proof"
  /\ c2p' = Tail(c2p)
  /\ UNCHANGED <<hs, gone, clVars, startup, outcome, backend, splVars>>

\* authenticate: the proof is right.  No AuthenticationOk is sent, the
\* backend's own goes to the client.
SaslVerified ==
  /\ px = "proof" /\ c2p # <<>>
  /\ Proven(MySecret, sasl.first, sasl.reply, Head(c2p).body)
  /\ px' = "awake"
  /\ write_auth_message("final", ServerFinal(MySecret, sasl.first, sasl.reply, Head(c2p).body))
  /\ c2p' = Tail(c2p)
  /\ UNCHANGED <<hs, gone, clVars, startup, sasl, outcome, backend, splVars>>

\* Every error of authenticate is answered alike.
AuthRejected ==
  /\ \/ px = "sasl" /\ c2p # <<>> /\ ~parse_sasl_initial(Head(c2p))
     \/ /\ px = "proof" /\ c2p # <<>>
        /\ ~Proven(MySecret, sasl.first, sasl.reply, Head(c2p).body)
     \/ px \in {"sasl", "proof"} /\ c2p = <<>> /\ gone
  /\ reject("28P01")
  /\ UNCHANGED <<hs, c2p, gone, clVars, startup, sasl, backend, splVars>>

\* ensure_awake and the connection to the backend, which may fail.
ReplayStartup ==
  /\ px = "awake"
  /\ \/ backend' = Append(backend, startup.raw) /\ px' = "splice" /\ UNCHANGED outcome
     \/ Close("closed") /\ UNCHANGED backend
  /\ UNCHANGED <<hs, c2p, p2c, gone, clVars, startup, sasl, splVars>>

-----------------------------------------------------------------------------
(* splice_capturing_cancel_key, backend to client. *)

cutVars == <<hs, c2p, p2c, clVars, startup, sasl, backend>>

PumpRead ==
  /\ px = "splice" /\ pump.sent = pump.read
  /\ \E n \in HsChunks :
       /\ pump.read + n <= Len(hs.cells)
       /\ sc' = push(sc, SubSeq(hs.cells, pump.read + 1, pump.read + n))
       /\ pump' = [pump EXCEPT !.read = @ + n]
  /\ UNCHANGED <<cutVars, gone, px, outcome, cancels>>

\* One round of the loop of push.
ScanStep == px = "splice" /\ sc.busy /\ UNCHANGED <<cutVars, gone, px, outcome>>

MessageSkipped ==
  /\ ScanStep /\ Whole(sc.buf) /\ ~IsKey(sc.buf) /\ ~IsEnd(sc.buf)
  /\ sc' = Over(sc.buf)
  /\ UNCHANGED <<cancels, pump>>

KeyCaptured ==
  /\ ScanStep /\ Whole(sc.buf) /\ IsKey(sc.buf)
  /\ sc' = Finished
  /\ cancels' = cancels \cup {KeyIn(sc.buf)}
  /\ pump' = [pump EXCEPT !.captured = <<KeyIn(sc.buf)>>]

ScanGivenUp ==
  /\ ScanStep /\ Whole(sc.buf) /\ ~IsKey(sc.buf) /\ IsEnd(sc.buf)
  /\ sc' = Finished
  /\ UNCHANGED <<cancels, pump>>

ScanPaused ==
  /\ ScanStep /\ ~Whole(sc.buf)
  /\ sc' = Pause(sc.buf)
  /\ UNCHANGED <<cancels, pump>>

PumpWrite ==
  /\ px = "splice" /\ pump.sent < pump.read /\ ~sc.busy
  /\ \/ pump' = [pump EXCEPT !.sent = pump.read] /\ UNCHANGED <<px, outcome>>
     \/ gone /\ Close("closed") /\ UNCHANGED pump
  /\ UNCHANGED <<cutVars, gone, cancels, sc>>

\* The backend closes: both directions end, and the key is taken back.
SpliceEnds ==
  /\ px = "splice" /\ pump.sent = pump.read
  /\ gone \/ pump.read = Len(hs.cells)
  /\ cancels' = cancels \ {pump.captured[i] : i \in DOMAIN pump.captured}
  /\ Close("closed")
  /\ gone' = TRUE
  /\ UNCHANGED <<cutVars, sc, pump>>

PumpStep ==
  \/ PumpRead \/ MessageSkipped \/ KeyCaptured \/ ScanGivenUp \/ ScanPaused
  \/ PumpWrite \/ SpliceEnds

ProxyStep ==
  \/ ReadFails \/ Negotiate \/ TlsAccept \/ RouteCancelRequest
  \/ StartupReceived \/ PairParsed \/ ParseFails \/ Unroutable \/ ResolveTenant
  \/ SaslInitial \/ SaslVerified \/ AuthRejected \/ ReplayStartup

HsNext == ClientStep \/ ProxyStep \/ PumpStep

HsSpec == HsInit /\ [][HsNext]_hsVars

-----------------------------------------------------------------------------
(* Properties. *)

WellFormed(s) ==
  s.packet[2] # CANCEL_REQUEST_CODE /\ RestAt(s) <= Len(s.packet) /\ s.packet[RestAt(s)] = NUL

\* The tenant a client asks for, from the parameters its packet stands for.
Named(s, name) == {i \in 1..Len(s.params) : s.params[i][1] = <<name>>}

LastValue(s, name) ==
  IF Named(s, name) = {} THEN <<>>
  ELSE <<s.params[CHOOSE i \in Named(s, name) : \A j \in Named(s, name) : j <= i][2]>>

Asked(s) == IF LastValue(s, "database") # <<>> THEN LastValue(s, "database")
                                               ELSE LastValue(s, "user")

Known(s) == WellFormed(s) /\ Registered(Asked(s))

Guarded(s) == WellFormed(s) /\ Protected(Asked(s))

RightPassword(s) == Passwords[Asked(s)[1]] = <<s.password>> /\ s.mech = "SCRAM-SHA-256"

\* What a backend may get: the packet itself, or the key of a cancel request.
Forwarded(s, b) ==
  \/ b = s.packet
  \/ s.packet[2] = CANCEL_REQUEST_CODE /\ b = cancel_request_bytes(CancelKey(s.packet))

\* Where a connection ends up is decided by what the client asked for and
\* proved, whatever it negotiated before and wherever it broke off.  Compute
\* is woken, and the client's own packet replayed, only for a known tenant
\* and, when that has a verifier, after the right password was proved; the
\* client in turn believes only in a proxy that holds the verifier of its
\* password; and neither refusal is given to a client that is still there
\* and did everything right (serve_client, serve_over, authenticate,
\* client_authenticate, parse_first_message, parse_parameters).
SessionExact ==
  /\ px \in {"awake", "splice"} => Known(hs) /\ (Guarded(hs) => RightPassword(hs))
  /\ \A i \in 1..Len(backend) : Forwarded(hs, backend[i])
  /\ px = "splice" => backend = <<hs.packet>>
  /\ cl = "ready" => Guarded(hs) /\ RightPassword(hs)
  /\ outcome = "3D000" => WellFormed(hs) /\ ~Known(hs)
  /\ outcome = "28P01" => Guarded(hs) /\ (gone \/ ~RightPassword(hs))

KeyAt == {i \in 1..Len(hs.stream) : IsKeyMessage(hs.stream[i])}

IssuedKeys == {hs.stream[i].body : i \in KeyAt}

\* The key is in reach: it is the first, it precedes ReadyForQuery, and no
\* message before it outgrows the buffer of the scanner.
InReach(i) == \A j \in 1..(i - 1) :
                /\ j \notin KeyAt
                /\ hs.stream[j].t # MSG_READY_FOR_QUERY
                /\ Len(hs.stream[j].body) + 1 <= SCAN_CAP

\* However the backend's stream is cut into reads, a session registers no
\* key but one its backend issued, has it registered before any cell of the
\* read that completes it goes to the client, and takes it back when it
\* ends in order (KeyScanner::push, splice_capturing_cancel_key).
KeyExact ==
  /\ cancels \subseteq {OtherKey} \cup IssuedKeys
  /\ px = "splice" /\ ~sc.busy =>
       \A i \in KeyAt : hs.ends[i] <= pump.read /\ InReach(i) => hs.stream[i].body \in cancels
  /\ px = "end" /\ pump.sent = pump.read => cancels = {OtherKey}
=============================================================================
