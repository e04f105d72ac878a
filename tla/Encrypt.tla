------------------------------ MODULE Encrypt ------------------------------
(***************************************************************************)
(* libtelnet's encryption option as functions of one peer's state: what      *)
(* encrypt.c and enc_des.c do with a message, a command or a session key.    *)
(* A peer's record holds the static variables of the two files and out, the  *)
(* stream it has written; every message is tagged with the cipher it was     *)
(* written under.                                                            *)
(***************************************************************************)
EXTENDS Naturals, Sequences, SequencesExt

CONSTANTS TypeList     \* the encryption types, in the order of encryptions[]

Types == Range(TypeList)
NoKey == 0             \* sessions keys are numbered by the attempt they come from
Clear == [type |-> "clear", key |-> NoKey, iv |-> 0]

Directions == {"encrypt", "decrypt"}
IN_PROGRESS == {"send_iv", "recv_iv", "keyid"}   \* what is still missing
SUCCESS == {}

(* A type's struct fb: failed stands for FAILED, which is no set of bits; the *)
(* initial vectors made are numbered, feed is the latest of them.             *)
fb64_init == [state |-> [d \in Directions |-> IN_PROGRESS], failed |-> Directions,
              need_start |-> FALSE, feed |-> 0, iv |-> [d \in Directions |-> 0]]

(* encrypt_init for a peer that was told not to use some types. *)
encrypt_init(server, auto, wontEnc, wontDec) ==
  [server |-> server, autoencrypt |-> auto, autodecrypt |-> auto,
   wontEnc |-> wontEnc, wontDec |-> wontDec, remEnc |-> {}, remDec |-> {},
   encrypt_mode |-> "none", decrypt_mode |-> "none", output |-> "clear", input |-> "clear",
   str_send |-> SelectSeq(TypeList, LAMBDA t : t \notin wontDec), supportSent |-> FALSE,
   keylen |-> [d \in Directions |-> 0], key |-> NoKey, fb |-> [t \in Types |-> fb64_init],
   enc_passwd |-> FALSE, out |-> <<>>]

findencryption(p, t) == t \in p.remDec \ p.wontEnc
finddecryption(p, t) == t \in p.remEnc \ p.wontDec

(* The cipher that the next byte is written under, and is read with. *)
Cipher(p, dir) ==
  LET type == IF dir = "encrypt" THEN p.output ELSE p.input
  IN IF type = "clear" THEN Clear ELSE [type |-> type, key |-> p.key, iv |-> p.fb[type].iv[dir]]

(* net_write followed, sooner or later, by the encryption of what was written: *)
(* always under the output function of that moment, for net_encrypt is called  *)
(* before each change of it.                                                   *)
Msg(kind, type) == [kind |-> kind, type |-> type]
net_write(p, m) == [p EXCEPT !.out = Append(@, [m |-> m, under |-> Cipher(p, "encrypt")])]

(* encrypt_send_keyid, which may also remember the identifier as its own. *)
encrypt_send_keyid(p, dir, len, saveit) ==
  net_write(IF saveit THEN [p EXCEPT !.keylen[dir] = len] ELSE p,
            [kind |-> IF dir = "encrypt" THEN "ENC_KEYID" ELSE "DEC_KEYID", type |-> "none", len |-> len])
encrypt_send_request_start(p) == net_write(p, Msg("REQSTART", "none"))
encrypt_send_request_end(p) == net_write(p, Msg("REQEND", "none"))

(* Mutant: the END is written after the output function was dropped. *)
EndAfterDrop(p) ==
  IF p.output = "clear" THEN p ELSE net_write([p EXCEPT !.output = "clear"], Msg("END", "none"))

encrypt_send_end(p) ==
  IF p.output = "clear" THEN p ELSE [net_write(p, Msg("END", "none")) EXCEPT !.output = "clear"]

(* The ENCRYPT_IS message with a new initial vector. *)
IV(p, t) == [kind |-> "IS", type |-> t, iv |-> p.fb[t].feed + 1]

(* Mutant: a restart makes a new initial vector although one is agreed. *)
AlwaysNewFeed(p, t) ==
  IF p.key = NoKey
  THEN [p EXCEPT !.fb[t].need_start = TRUE, !.fb[t].failed = @ \ {"encrypt"}]
  ELSE net_write([p EXCEPT !.fb[t].failed = @ \ {"encrypt"},
                           !.fb[t].state["encrypt"] = (@ \ {"send_iv"}) \cup {"recv_iv"},
                           !.fb[t].feed = @ + 1], IV(p, t))

(* fb64_start, always called for DIR_ENCRYPT; what it returns is the state.   *)
fb64_start(p, t) ==
  LET s == IF "encrypt" \in p.fb[t].failed THEN IN_PROGRESS ELSE p.fb[t].state["encrypt"]
      q == [p EXCEPT !.fb[t].failed = @ \ {"encrypt"}]
  IN IF "send_iv" \notin s THEN q
     ELSE IF p.key = NoKey THEN [q EXCEPT !.fb[t].state["encrypt"] = s, !.fb[t].need_start = TRUE]
     ELSE net_write([q EXCEPT !.fb[t].state["encrypt"] = (s \ {"send_iv"}) \cup {"recv_iv"},
                               !.fb[t].feed = @ + 1], IV(p, t))

Started(p, t) == "encrypt" \notin p.fb[t].failed /\ p.fb[t].state["encrypt"] = SUCCESS

(* Mutant: output starts whatever is still missing. *)
StartAtOnce(p, t) ==
  IF ~findencryption(p, t) THEN p
  ELSE [net_write(fb64_start(p, t), Msg("START", t)) EXCEPT !.output = t, !.encrypt_mode = t]

encrypt_start_output(p, t) ==
  LET q == fb64_start(p, t)
  IN IF ~findencryption(p, t) THEN p
     ELSE IF ~Started(q, t) THEN q
     ELSE [net_write(q, Msg("START", t)) EXCEPT !.output = t, !.encrypt_mode = t]

(* Mutant: the request to start comes after the list of types. *)
SupportThenRequest(p) ==
  IF p.supportSent THEN p
  ELSE LET q == net_write([p EXCEPT !.supportSent = TRUE], [kind |-> "SUPPORT", type |-> "none", list |-> p.str_send])
       IN IF ~p.server /\ p.autodecrypt THEN encrypt_send_request_start(q) ELSE q

encrypt_send_support(p) ==
  IF p.supportSent THEN p
  ELSE LET q == IF ~p.server /\ p.autodecrypt THEN encrypt_send_request_start(p) ELSE p
       IN net_write([q EXCEPT !.supportSent = TRUE], [kind |-> "SUPPORT", type |-> "none", list |-> p.str_send])

encrypt_support(p, list) ==
  LET usable == SelectSeq(list, LAMBDA t : t \notin p.wontEnc)
      q == [p EXCEPT !.remDec = Range(usable)]
      r == [fb64_start(q, Head(usable)) EXCEPT !.encrypt_mode = Head(usable)]
  IN IF usable = <<>> THEN q
     ELSE IF Started(r, Head(usable)) THEN encrypt_start_output(r, Head(usable)) ELSE r

(* fb64_is: a vector of the right size, which is all fb64_start sends. *)
fb64_is(p, t, iv) ==
  [net_write([p EXCEPT !.fb[t].iv["decrypt"] = iv], Msg("REPLY", t))
     EXCEPT !.fb[t].state["decrypt"] = IN_PROGRESS, !.fb[t].failed = @ \ {"decrypt"}]

(* fb64_is never ends the negotiation, so no request to start follows here. *)
encrypt_is(p, t, iv) ==
  LET q == [p EXCEPT !.remEnc = @ \cup {t}]
  IN IF ~finddecryption(q, t) THEN q ELSE [fb64_is(q, t, iv) EXCEPT !.decrypt_mode = t]

(* fb64_reply for FB64_IV_OK, the one answer that fb64_is sends. *)
fb64_reply(p, t) ==
  LET s == IF "encrypt" \in p.fb[t].failed THEN IN_PROGRESS ELSE p.fb[t].state["encrypt"]
  IN encrypt_send_keyid([p EXCEPT !.fb[t].iv["encrypt"] = p.fb[t].feed, !.fb[t].failed = @ \ {"encrypt"},
                                  !.fb[t].state["encrypt"] = s \ {"recv_iv"}], "encrypt", 1, TRUE)

encrypt_reply(p, t) ==
  LET q == [fb64_reply(p, t) EXCEPT !.encrypt_mode = t]
  IN IF ~findencryption(p, t) THEN p
     ELSE IF Started(q, t) /\ q.autoencrypt THEN encrypt_start_output(q, t) ELSE q

encrypt_start(p) ==
  IF p.decrypt_mode # "none" /\ finddecryption(p, p.decrypt_mode)
  THEN [p EXCEPT !.input = p.decrypt_mode]
  ELSE encrypt_send_request_end(p)

encrypt_end(p) == [p EXCEPT !.input = "clear"]
encrypt_request_end(p) == encrypt_send_end(p)

encrypt_request_start(p) ==
  IF p.encrypt_mode = "none" THEN [p EXCEPT !.autoencrypt = @ \/ p.server]
  ELSE encrypt_start_output(p, p.encrypt_mode)

fb64_keyid(p, dir, t) ==
  LET s == IF dir \in p.fb[t].failed THEN IN_PROGRESS ELSE p.fb[t].state[dir]
  IN [p EXCEPT !.fb[t].state[dir] = s \ {"keyid"}, !.fb[t].failed = @ \ {dir}]

(* encrypt_keyid: the only identifier there is has length 1.  One that is new *)
(* is answered, one that is known is not.                                     *)
encrypt_keyid(p, dir, len) ==
  LET mode == IF dir = "encrypt" THEN p.encrypt_mode ELSE p.decrypt_mode
      found == IF dir = "encrypt" THEN findencryption(p, mode) ELSE finddecryption(p, mode)
      known == fb64_keyid(p, dir, mode)
  IN IF ~found THEN IF len = 0 THEN p ELSE encrypt_send_keyid([p EXCEPT !.keylen[dir] = 0], dir, 0, FALSE)
     ELSE IF len = 0 THEN IF p.keylen[dir] = 0 THEN p
                          ELSE encrypt_send_keyid([p EXCEPT !.keylen[dir] = 0], dir, 0, FALSE)
     ELSE IF len # p.keylen[dir]
     THEN encrypt_send_keyid([fb64_keyid(p, dir, mode) EXCEPT !.keylen[dir] = len], dir, len, FALSE)
     ELSE IF dir = "encrypt" /\ Started(known, mode) /\ p.autoencrypt
          THEN encrypt_start_output(known, mode) ELSE known

(* encrypt_session_key: each type takes the key, and the ones that waited for *)
(* it start.                                                                  *)
encrypt_session_key(p, key) ==
  FoldLeft(LAMBDA r, t : IF r.fb[t].need_start THEN fb64_start([r EXCEPT !.fb[t].need_start = FALSE], t) ELSE r,
           [p EXCEPT !.key = key], TypeList)

----------------------------------------------------------------------------
(* The user's commands.  A mode is the set of directions that are meant.     *)
Input(mode) == mode \in {"input", "both"}
Output(mode) == mode \in {"output", "both"}

EncryptStart(p, mode) ==
  LET q == IF Input(mode) /\ p.decrypt_mode # "none" THEN encrypt_send_request_start(p) ELSE p
  IN IF Output(mode) /\ q.encrypt_mode # "none" THEN encrypt_start_output(q, q.encrypt_mode) ELSE q

EncryptStop(p, mode) ==
  LET q == IF Input(mode) THEN encrypt_send_request_end(p) ELSE p
  IN IF Output(mode) THEN encrypt_send_end(q) ELSE q

EncryptType(p, t, mode) ==
  LET q == IF Input(mode) THEN [p EXCEPT !.decrypt_mode = t, !.wontDec = @ \ {t}] ELSE p
  IN IF Output(mode) THEN [q EXCEPT !.encrypt_mode = t, !.wontEnc = @ \ {t}] ELSE q

EncryptEnable(p, t, mode) == EncryptStart(EncryptType(p, t, mode), mode)

EncryptDisable(p, t, mode) ==
  LET q == IF ~Input(mode) THEN p
           ELSE [(IF p.decrypt_mode = t THEN EncryptStop(p, "input") ELSE p) EXCEPT !.wontDec = @ \cup {t}]
  IN IF ~Output(mode) THEN q
     ELSE [(IF q.encrypt_mode = t THEN EncryptStop(q, "output") ELSE q) EXCEPT !.wontEnc = @ \cup {t}]

EncryptAutoEnc(p) == [p EXCEPT !.autoencrypt = ~@]
EncryptAutoDec(p) == [p EXCEPT !.autodecrypt = ~@]

(* Hiding a password.  The client's terminal driver asks itself to encrypt,  *)
(* the daemon asks the client: on every look at the terminal it does the     *)
(* opposite of the last one.                                                 *)
TerminalNewMode(p, hidden) ==
  IF hidden THEN IF ~p.enc_passwd /\ p.output = "clear"
                 THEN [encrypt_request_start(p) EXCEPT !.enc_passwd = TRUE] ELSE p
  ELSE IF p.enc_passwd THEN [encrypt_request_end(p) EXCEPT !.enc_passwd = FALSE] ELSE p

localstat(p, hidden) ==
  IF hidden /\ ~p.enc_passwd /\ p.input = "clear"
  THEN [encrypt_send_request_start(p) EXCEPT !.enc_passwd = TRUE]
  ELSE IF p.enc_passwd THEN [encrypt_send_request_end(p) EXCEPT !.enc_passwd = FALSE] ELSE p
=============================================================================
