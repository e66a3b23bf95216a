---------------------------- MODULE MCHandshake ----------------------------
(* Scenes for Handshake: clients that negotiate, authenticate or cancel,   *)
(* and backends whose streams hold the key early, late or not at all.      *)
EXTENDS Handshake, SequencesExt

MCPasswords == (<<"guarded">> :> <<"right">>) @@ (<<"open">> :> <<>>)

MCOtherKey == <<7, 8>>

Pair(name, value) == <<<<name>>, <<value>>>>

PairCells(p) == p[1] \o <<NUL>> \o p[2] \o <<NUL>>

PairsCells(params) == FlattenSeq([i \in DOMAIN params |-> PairCells(params[i])])

PacketOf(params, end) ==
  LET body == PairsCells(params) \o end
  IN <<Len(body) + 2, PROTOCOL_V3>> \o body

MarksOf(params) ==
  [i \in 1..(Len(params) + 1) |-> Len(PairsCells(SubSeq(params, 1, i - 1))) + 3]

Msg(t, body) == [t |-> t, body |-> body]
AuthOk == Msg(82, <<0>>)
Status == Msg(83, <<5, 0>>)
Ready == Msg(MSG_READY_FOR_QUERY, <<73>>)
Key == Msg(MSG_BACKEND_KEY_DATA, <<5, 6>>)
\* A payload that reads like a BackendKeyData when framed at the wrong cell.
Lookalike == Msg(83, <<75, 3, 1, 1, 90>>)
Long == Msg(83, <<1, 2, 3, 4, 5, 6, 7, 8, 9>>)
NotAKey == Msg(MSG_BACKEND_KEY_DATA, <<5>>)

Usual == <<AuthOk, Status, Key, Ready>>

MessageCells(m) == <<m.t, Len(m.body) + 1>> \o m.body
StreamCells(ms) == FlattenSeq([i \in DOMAIN ms |-> MessageCells(ms[i])])

\* A backend that sends the messages ms and then the cells left.
Sends(s, ms, left) ==
  [s EXCEPT !.stream = ms, !.cells = StreamCells(ms) \o left,
     !.ends = [i \in 0..Len(ms) |-> Len(StreamCells(SubSeq(ms, 1, i)))]]

Blank == [tls |-> FALSE, asks |-> <<>>, params |-> <<>>, marks |-> <<3>>, packet |-> <<>>,
          password |-> "right", mech |-> "SCRAM-SHA-256", stream |-> <<>>, cells |-> <<>>,
          ends |-> <<>>]

Base == Sends(Blank, Usual, <<>>)

Guard == <<Pair("user", "open"), Pair("database", "guarded")>>
Open == <<Pair("user", "open")>>

Ending(params, end) == [Base EXCEPT !.params = params, !.marks = MarksOf(params),
                          !.packet = PacketOf(params, end)]

For(params) == Ending(params, <<NUL>>)

\* Every order of requests with and without TLS, right and wrong password.
Negotiated ==
  {[For(Guard) EXCEPT !.tls = t, !.asks = a, !.password = p] :
     t \in BOOLEAN, a \in {<<>>, <<"ssl">>, <<"gss">>, <<"gss", "ssl">>, <<"ssl", "gss">>},
     p \in {"right", "wrong"}}

\* Parameters that name no tenant, an unknown one, one of two, or nothing.
Tenants ==
  {For(p) : p \in {Open, <<>>, <<Pair("database", "gone"), Pair("user", "open")>>,
                   <<Pair("database", "open"), Pair("database", "guarded")>>,
                   <<Pair("database", "guarded"), Pair("x", "y"), Pair("database", "open")>>,
                   <<<<<<"database">>, <<>>>>, Pair("user", "open")>>}}

Streaming ==
  {Sends(For(Open), s, <<>>) :
     s \in {<<AuthOk, Lookalike, Key, Ready>>, <<Long, Key, Ready>>, <<AuthOk, Ready, Key>>,
            <<NotAKey, Key>>, <<Msg(69, <<1, 2>>)>>}}
  \cup {Sends(For(Open), <<AuthOk>>, left) : left \in {<<75>>, <<75, 3, 5>>, <<75, 0, 5, 6>>}}

\* Another mechanism; parameter blocks without their end; cancel requests.
Odd == {[For(Guard) EXCEPT !.mech = "SCRAM-SHA-256-PLUS"],
        Ending(Open, <<>>), Ending(Open, <<"database", NUL, "guarded">>),
        [Base EXCEPT !.packet = <<4, CANCEL_REQUEST_CODE, 7, 8>>],
        [Base EXCEPT !.packet = <<4, CANCEL_REQUEST_CODE, 1, 1>>],
        [Base EXCEPT !.packet = <<3, CANCEL_REQUEST_CODE, 7>>]}

MCScenes == Negotiated \cup Tenants \cup Streaming \cup Odd
=============================================================================
