---------------------------- MODULE TelnetSecure ----------------------------
(***************************************************************************)
(* A telnet client and a telnetd that authenticate and encrypt: the two      *)
(* streams between them, what each does with a message, the stages through   *)
(* which getterminaltype takes the daemon, and the user's commands.  The     *)
(* exchange begins with what telnet() writes: WILL AUTHENTICATION, DO and    *)
(* WILL ENCRYPT.  Option negotiation as such is in TelnetOption.             *)
(***************************************************************************)
EXTENDS Auth

CONSTANTS
  Worlds,        \* what Kerberos says, and the types the user disabled before
                 \* connecting: [autologin, able, good (ways), intact, off]
  UserWorlds,    \* the worlds among them in which these events are explored
  MaxRetypes,    \* type, enable and disable commands
  MaxEvents      \* these, the start, stop, auto and password events, and fatal

VARIABLES peer, world, phase, level, used

svars == <<peer, world, phase, level, used>>

Peers == {"client", "server"}
Other(p) == IF p = "client" THEN "server" ELSE "client"
Modes == {"input", "output", "both"}
Plain(ms) == [i \in 1 .. Len(ms) |-> [m |-> Msg(ms[i], "none"), under |-> Clear]]

SecureInit ==
  /\ world \in Worlds
  /\ \E auto \in BOOLEAN :
       peer = [p \in Peers |->
                 (IF p = "client"
                  THEN [encrypt_init(FALSE, auto, world.off, world.off) EXCEPT
                          !.out = Plain(<<IF world.autologin THEN "WILLAUTH" ELSE "WONTAUTH", "DOENC", "WILLENC">>)]
                  ELSE encrypt_init(TRUE, FALSE, {}, {}))
                 @@ auth_init(world.able) @@ [hisAuth |-> "changing", hisEnc |-> FALSE]]
  /\ phase = "auth" /\ level = "none"
  /\ used = [events |-> 0, retypes |-> 0, lost |-> {}]

----------------------------------------------------------------------------
(* What a peer does with one message: the option handlers and suboption.     *)
Option(p, m) ==
  CASE m.kind = "WILLAUTH" -> auth_request([p EXCEPT !.hisAuth = "will"])
    [] m.kind = "WONTAUTH" -> auth_finished([p EXCEPT !.hisAuth = "wont"], "rej")
    [] m.kind = "DOENC" -> IF p.server THEN net_write(p, Msg("WILLENC", "none")) ELSE p
    [] m.kind = "WILLENC" ->
         encrypt_send_support([(IF p.server THEN net_write(p, Msg("DOENC", "none")) ELSE p) EXCEPT !.hisEnc = TRUE])

AuthOption(p, m) ==
  CASE m.kind = "SEND" -> auth_send(p, m.list)
    [] m.kind = "NAME" -> [p EXCEPT !.named = TRUE]
    [] m.kind = "NULL" -> auth_finished(p, "rej")
    [] m.kind = "AUTH" -> kerberos5_is(p, m, m.way \in world.good)
    [] m.kind \in {"REJECT", "ACCEPT", "RESPONSE"} -> kerberos5_reply(p, m, world.intact)

suboption(p, m) ==
  CASE m.kind = "SUPPORT" -> encrypt_support(p, m.list)
    [] m.kind = "IS" -> encrypt_is(p, m.type, m.iv)
    [] m.kind = "REPLY" -> encrypt_reply(p, m.type)
    [] m.kind = "START" -> encrypt_start(p)
    [] m.kind = "END" -> encrypt_end(p)
    [] m.kind = "REQSTART" -> encrypt_request_start(p)
    [] m.kind = "REQEND" -> encrypt_request_end(p)
    [] m.kind = "ENC_KEYID" -> encrypt_keyid(p, "decrypt", m.len)
    [] m.kind = "DEC_KEYID" -> encrypt_keyid(p, "encrypt", m.len)

Handle(p, m) ==
  CASE m.kind \in {"WILLAUTH", "WONTAUTH", "DOENC", "WILLENC"} -> Option(p, m)
    [] m.kind \in {"SEND", "NAME", "NULL", "AUTH", "REJECT", "ACCEPT", "RESPONSE"} -> AuthOption(p, m)
    [] m.kind = "FATAL" -> p
    [] OTHER -> suboption(p, m)

Reads(p) == p = "client" \/ phase # "dead"

(* telrcv: the next message is decrypted with the input function of now; one *)
(* written under another cipher is lost.                                     *)
telrcv(p) ==
  LET s == peer[Other(p)].out
      t == Head(s)
  IN /\ Reads(p) /\ s # <<>>
     /\ LET taken == [peer EXCEPT ![Other(p)].out = Tail(s)]
        IN IF t.under = Cipher(peer[p], "decrypt")
           THEN peer' = [taken EXCEPT ![p] = Handle(@, t.m)] /\ UNCHANGED used
           ELSE peer' = taken /\ used' = [used EXCEPT !.lost = @ \cup {p}]
     /\ UNCHANGED <<world, phase, level>>

----------------------------------------------------------------------------
(* getterminaltype: what the daemon waits for, one thing after the other.    *)
AwaitOption ==
  /\ phase = "auth" /\ peer["server"].hisAuth # "changing"
  /\ phase' = IF peer["server"].hisAuth = "will" THEN "authwait" ELSE "options"
  /\ UNCHANGED <<peer, world, level, used>>

auth_wait ==
  /\ phase = "authwait" /\ peer["server"].authenticated # "no"
  /\ level' = IF peer["server"].authenticated = "rej" THEN "reject"
              ELSE IF peer["server"].named THEN "valid" ELSE "user"
  /\ phase' = "options" /\ UNCHANGED <<peer, world, used>>

(* The alarm of 30 seconds. *)
auth_intr ==
  /\ phase = "authwait" /\ peer["server"].authenticated = "no"
  /\ peer' = [peer EXCEPT !["server"] = auth_finished(@, "rej")]
  /\ UNCHANGED <<world, phase, level, used>>

(* Mutant: the daemon waits for encryption even when there is no key. *)
AwaitWithoutKey ==
  LET s == peer["server"]
  IN /\ phase = "options" /\ s.hisEnc
     /\ phase' = IF s.remDec \ s.wontEnc # {} THEN "encwait" ELSE "up"
     /\ UNCHANGED <<peer, world, level, used>>

AwaitEncrypt ==
  LET s == peer["server"]
  IN /\ phase = "options" /\ s.hisEnc
     /\ phase' = IF s.key # NoKey /\ s.remDec \ s.wontEnc # {} THEN "encwait" ELSE "up"
     /\ UNCHANGED <<peer, world, level, used>>

encrypt_wait ==
  /\ phase = "encwait" /\ ~(peer["server"].autoencrypt /\ peer["server"].output = "clear")
  /\ phase' = "up" /\ UNCHANGED <<peer, world, level, used>>

----------------------------------------------------------------------------
(* Events that the peers do not control.                                     *)
MayHappen == world \in UserWorlds /\ used.events < MaxEvents

Switch(p, q) ==
  /\ MayHappen /\ peer' = [peer EXCEPT ![p] = q]
  /\ used' = [used EXCEPT !.events = @ + 1] /\ UNCHANGED <<world, phase, level>>

(* fatal, in whatever the daemon does: encryption is ended before the message. *)
fatal ==
  /\ MayHappen /\ phase # "dead" /\ phase' = "dead"
  /\ peer' = [peer EXCEPT !["server"] = net_write(encrypt_send_end(@), Msg("FATAL", "none"))]
  /\ used' = [used EXCEPT !.events = @ + 1] /\ UNCHANGED <<world, level>>

StartStop ==
  LET c == peer["client"]
  IN \/ \E mode \in Modes : Switch("client", EncryptStart(c, mode)) \/ Switch("client", EncryptStop(c, mode))
     \/ Switch("client", EncryptAutoEnc(c)) \/ Switch("client", EncryptAutoDec(c))

Password ==
  \E hidden \in BOOLEAN :
    \/ Switch("client", TerminalNewMode(peer["client"], hidden))
    \/ phase = "up" /\ Switch("server", localstat(peer["server"], hidden))

Retype ==
  /\ MayHappen /\ used.retypes < MaxRetypes
  /\ \E t \in Types, mode \in Modes :
       \/ peer' = [peer EXCEPT !["client"] = EncryptType(@, t, mode)]
       \/ peer' = [peer EXCEPT !["client"] = EncryptEnable(@, t, mode)]
       \/ peer' = [peer EXCEPT !["client"] = EncryptDisable(@, t, mode)]
  /\ used' = [used EXCEPT !.events = @ + 1, !.retypes = @ + 1] /\ UNCHANGED <<world, phase, level>>

Serve == AwaitOption \/ auth_wait \/ auth_intr \/ AwaitEncrypt \/ encrypt_wait

SecureNext ==
  \/ \E p \in Peers : telrcv(p)
  \/ Serve \/ fatal \/ StartStop \/ Password \/ Retype

(* Messages arrive, and each program goes on with what it can do. *)
SecureFairness == (\A p \in Peers : WF_svars(telrcv(p))) /\ WF_svars(Serve)

SecureSpec == SecureInit /\ [][SecureNext]_svars /\ SecureFairness

----------------------------------------------------------------------------
(* Everything that was written has been read. *)
AllRead == \A p \in Peers : peer[p].out = <<>>

(* Each value is of its type; no stream grows without bound. *)
SecureTypeOK ==
  /\ phase \in {"auth", "authwait", "options", "encwait", "up", "dead"} /\ level \in {"none", "reject", "user", "valid"}
  /\ \A p \in Peers :
       LET q == peer[p]
       IN /\ q.output \in Types \cup {"clear"} /\ q.input \in Types \cup {"clear"}
          /\ q.encrypt_mode \in Types \cup {"none"} /\ q.decrypt_mode \in Types \cup {"none"}
          /\ q.key \in 0 .. Len(Ways) /\ \A t \in Types : q.fb[t].iv \in [Directions -> 0 .. 1]
          /\ Len(q.out) <= 12 + MaxEvents

(* Nothing is read with another cipher than it was written under, whatever    *)
(* starts, stops and requests for them cross.  Two exceptions: the user forced *)
(* a type (the type of a START is not in the message but in decrypt_mode), or  *)
(* the client did not believe the daemon's proof and has no key, but let the   *)
(* daemon start all the same.                                                  *)
Excused == used.retypes > 0 \/ ~world.intact
EncReadable == ~Excused => used.lost = {}

(* Each direction does what CipherChannel promises: a refinement.              *)
Marks(s) ==
  LET ms == SelectSeq(s, LAMBDA x : x.m.kind \in {"START", "END"})
  IN [i \in 1 .. Len(ms) |-> IF ms[i].m.kind = "END" THEN "clear" ELSE ms[i].m.type]
Agreed(w, r) ==
  {t \in Types : w.key # NoKey /\ w.key = r.key /\ w.fb[t].iv["encrypt"] > 0 /\ w.fb[t].iv["encrypt"] = r.fb[t].iv["decrypt"]}
Up ==
  INSTANCE CipherChannel WITH
    Ciphers <- Types, out <- peer["client"].output, in <- peer["server"].input, marks <- Marks(peer["client"].out),
    agreed <- Agreed(peer["client"], peer["server"]), forced <- Excused
Down ==
  INSTANCE CipherChannel WITH
    Ciphers <- Types, out <- peer["server"].output, in <- peer["client"].input, marks <- Marks(peer["server"].out),
    agreed <- Agreed(peer["server"], peer["client"]), forced <- Excused
UpChannel == Up!ChannelSpec
DownChannel == Down!ChannelSpec

(* When everything has been read and nobody gave up, both ends know the same  *)
(* of the authentication, unless the daemon's proof did not convince the      *)
(* client, which then asks twice for another way.                             *)
AuthAgree ==
  AllRead /\ phase # "dead" /\ world.autologin /\ world.intact
    => peer["client"].authenticated = peer["server"].authenticated

(* The weaker way is never used when the better one was possible.             *)
AuthBest ==
  \A p \in Peers : peer[p].authenticated = "oneway" => ~("mutual" \in world.good /\ world.intact)

(* With telnet -x a session that gets a key is encrypted in both directions.  *)
Possible ==
  /\ world.autologin /\ world.able /\ world.good # {} /\ (world.intact \/ "oneway" \in world.good)
  /\ Types # world.off
Secured == \A p \in Peers : peer[p].output # "clear" /\ peer[p].input # "clear"
Meddled == used.events > 0 \/ phase = "dead"
EncStarts ==
  (Possible /\ peer["client"].autoencrypt /\ peer["client"].autodecrypt) ~> (Secured \/ Meddled)

(* The daemon gets through authentication, however the client answers, and is *)
(* not held up for ever waiting for encryption to begin.                      *)
LoginComes == <>(phase = "up" \/ Meddled)

(* What one end writes the other can read, and they agree on the best way of    *)
(* authentication that works.                                                   *)
SecureSafe == SecureTypeOK /\ EncReadable /\ AuthAgree /\ AuthBest

(* Both directions of the connection are channels as CipherChannel has them.    *)
Channels == UpChannel /\ DownChannel
=============================================================================
