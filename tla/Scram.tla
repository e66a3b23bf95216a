------------------------------- MODULE Scram -------------------------------
(***************************************************************************)
(* SCRAM-SHA-256, symbolically.  A 32-byte array is the set of the atoms   *)
(* whose exclusive or it is; HMAC and SHA-256 give fresh atoms, so arrays  *)
(* are equal exactly when they were computed alike.                        *)
(***************************************************************************)
EXTENDS Naturals, Sequences

hmac(key, data) == {<<"hmac", key, data>>}

sha256(data) == {<<"sha256", data>>}

Xor(a, b) == (a \ b) \cup (b \ a)

Pass(s) == {<<s>>}

(* PBKDF2 with one block of output: the exclusive or of a chain of HMACs   *)
(* under the password, begun on the salt.  Each link is an atom of its own. *)
Link(password, salt, k) == hmac(Pass(password), <<salt, k>>)

hi(password, salt, iterations) == UNION {Link(password, salt, k) : k \in 1..iterations}

ClientKey(salted) == hmac(salted, <<"Client Key">>)
ServerKey(salted) == hmac(salted, <<"Server Key">>)

from_password(password, salt, iterations) ==
  LET salted == hi(password, salt, iterations)
  IN [iterations |-> iterations, salt |-> salt,
      stored_key |-> sha256(ClientKey(salted)),
      server_key |-> ServerKey(salted)]

-----------------------------------------------------------------------------
(* The messages, as records of their fields. *)

ClientFirst(user, nonce) == [n |-> user, r |-> nonce]

ServerFirst(secret, first, nonce) ==
  [r |-> <<first.r, nonce>>, s |-> secret.salt, i |-> secret.iterations]

AuthMessage(first, reply, r) == <<first, reply, [c |-> "biws", r |-> r]>>

ClientFinal(password, first, reply) ==
  LET client_key == ClientKey(hi(password, reply.s, reply.i))
      signature == hmac(sha256(client_key), AuthMessage(first, reply, reply.r))
  IN [r |-> reply.r, p |-> Xor(client_key, signature)]

\* Mutant: the recovered key is not compared with the stored one.
Proven_NonceOnly(secret, first, reply, final) == final.r = reply.r

(* What the server makes of the client's proof. *)
Proven(secret, first, reply, final) ==
  LET signature == hmac(secret.stored_key, AuthMessage(first, reply, final.r))
  IN /\ final.r = reply.r
     /\ sha256(Xor(final.p, signature)) = secret.stored_key

ServerFinal(secret, first, reply, final) ==
  [v |-> hmac(secret.server_key, AuthMessage(first, reply, final.r))]

(* What the client makes of the server's signature. *)
ServerProven(password, first, reply, final) ==
  LET salted == hi(password, reply.s, reply.i)
  IN final.v = hmac(ServerKey(salted), AuthMessage(first, reply, reply.r))

=============================================================================
