-------------------------------- MODULE Auth --------------------------------
(***************************************************************************)
(* libtelnet's authentication option (auth.c) with the Kerberos V5           *)
(* authenticators (kerberos5.c), again as functions of a peer's state.  The  *)
(* daemon offers the ways it knows, best first; the client tries them in     *)
(* that order.  Each attempt makes a new session key, which both ends hand   *)
(* to the encryption option.                                                 *)
(***************************************************************************)
EXTENDS Encrypt

Ways == <<"mutual", "oneway">>      \* authenticators[] of a KRB5 build with ENCRYPTION

(* What auth.c keeps, beside the fields of Encrypt. *)
auth_init(able) ==
  [able |-> able, authenticated |-> "no", ways |-> <<>>, attempt |-> 0,
   mutual_complete |-> FALSE, authenticating |-> FALSE, named |-> FALSE]

auth_finished(p, result) == [p EXCEPT !.authenticated = result]

auth_request(p) ==
  IF p.authenticating THEN p
  ELSE net_write([p EXCEPT !.authenticating = TRUE], [kind |-> "SEND", type |-> "none", list |-> Ways])

(* kerberos5_send: the user's name and a ticket for a new session key. *)
kerberos5_send(p, way) ==
  net_write(net_write([p EXCEPT !.attempt = @ + 1], Msg("NAME", "none")),
            [kind |-> "AUTH", type |-> "none", way |-> way, key |-> p.attempt + 1])

(* Mutant: the ways are tried from the last. *)
LastWayFirst(p) ==
  IF p.able /\ p.ways # <<>> THEN kerberos5_send([p EXCEPT !.ways = Front(@)], Last(p.ways))
  ELSE auth_finished(net_write([p EXCEPT !.ways = <<>>], Msg("NULL", "none")), "rej")

(* Mutant: when no way is left the daemon is not told. *)
GiveUpQuietly(p) ==
  IF p.able /\ p.ways # <<>> THEN kerberos5_send([p EXCEPT !.ways = Tail(@)], Head(p.ways))
  ELSE auth_finished([p EXCEPT !.ways = <<>>], "rej")

(* auth_send on what is left of the list: a way whose send fails (no ticket, *)
(* no user name, a disabled type) is passed over.                            *)
auth_send_retry(p) ==
  IF p.able /\ p.ways # <<>> THEN kerberos5_send([p EXCEPT !.ways = Tail(@)], Head(p.ways))
  ELSE auth_finished(net_write([p EXCEPT !.ways = <<>>], Msg("NULL", "none")), "rej")

auth_send(p, list) == auth_send_retry([p EXCEPT !.ways = list])

(* kerberos5_reply.  intact says whether krb5_rd_rep accepts a RESPONSE. *)
kerberos5_reply(p, m, intact) ==
  CASE m.kind = "REJECT" -> auth_send_retry(p)
    [] m.kind = "ACCEPT" ->
         (IF p.mutual_complete THEN auth_finished(p, m.way)
          ELSE IF m.way = "mutual" THEN auth_send_retry(p)
          ELSE auth_finished(encrypt_session_key(p, p.attempt), m.way))
    [] m.kind = "RESPONSE" ->
         IF intact THEN [encrypt_session_key(p, p.attempt) EXCEPT !.mutual_complete = TRUE]
         ELSE auth_send_retry(p)

(* kerberos5_is.  good says whether kerberos5_is_auth finds the ticket in order. *)
kerberos5_is(p, m, good) ==
  IF ~good THEN net_write(p, [kind |-> "REJECT", type |-> "none", way |-> m.way])
  ELSE LET q == IF m.way = "mutual" THEN net_write(p, [kind |-> "RESPONSE", type |-> "none", way |-> m.way]) ELSE p
           r == auth_finished(net_write(q, [kind |-> "ACCEPT", type |-> "none", way |-> m.way]), m.way)
       IN encrypt_session_key(r, m.key)
=============================================================================
