---------------------------- MODULE TelnetStream ----------------------------
(***************************************************************************)
(* The byte streams of a telnet session.  Down: what a program writes to the *)
(* pty goes through telnetd's buffers and the connection to the terminal of  *)
(* the user, with commands in between, and is thrown away when the output is *)
(* aborted: telnetd clears its buffer and sends IAC DM with an urgent mark,  *)
(* on which telnet discards what it has.  Up: what the user types goes to    *)
(* the pty.  Either end reads the connection in pieces of any length.        *)
(*                                                                           *)
(* A byte is its value b and the number n of the character it stands for, 0  *)
(* for the bytes of commands; an option byte has the number of the command.  *)
(* The buffers are large enough for what is written.                         *)
(***************************************************************************)
EXTENDS Integers, Sequences, SequencesExt, FiniteSetsExt, TLC

CONSTANT
  Streams              \* sessions: direction, modes (echo: telnetd echoes), text and,
                       \* as bounds, how often output is aborted and commands are sent

VARIABLES
  strm,                \* the direction, the modes and the text
  tdo,                 \* telnetd: netobuf, nbackp, neturg; and the queue of the pty
  dwire,               \* bytes sent to telnet; u marks the urgent one
  tel,                 \* telnet: telrcv_state, SYNCHing, ttyoring
  keys,                \* up: bytes sent, telnetd's state, what the pty got
  done                 \* history: what was written, shown, aborted, received

streamvars == <<strm, tdo, dwire, tel, keys, done>>

B(b, n) == [b |-> b, n |-> n]
DataMark == <<B("IAC", 0), B("DM", 0)>>
Pieces(s) == {SubSeq(s, 1, k) : k \in 1 .. Len(s)}
Beyond(s, p) == SubSeq(s, Len(p) + 1, Len(s))

(* Bytes are taken one after the other; a CR looks at the one behind it, if   *)
(* that was read with it.                                                     *)
Fold(Take(_, _, _), s, chunk) ==
  LET next(i) == IF i < Len(chunk) THEN <<chunk[i + 1]>> ELSE <<>>
  IN FoldLeft(LAMBDA acc, i : IF acc.skip THEN [acc EXCEPT !.skip = FALSE] ELSE Take(acc, chunk[i], next(i)),
              s, [i \in 1 .. Len(chunk) |-> i])

(* 255 in the data is sent twice. *)
Escaped(x) == IF x.b = "IAC" THEN <<x, x>> ELSE <<x>>

Ahead(next, values) == next # <<>> /\ next[1].b \in values

----------------------------------------------------------------------------
(* telnetd: from the pty to the connection.                                *)
nextitem(net, i) ==
  IF net[i].b # "IAC" THEN i + 1 ELSE IF net[i + 1].b = "WILL" THEN i + 3 ELSE i + 2

(* The items of the buffer begin at these places. *)
Items(net) ==
  LET start[i \in 1 .. Len(net) + 1] == i = 1 \/ \E j \in 1 .. i - 1 : start[j] /\ nextitem(net, j) = i
  IN {i \in 1 .. Len(net) + 1 : start[i]}

(* The first item that is not, or not wholly, sent. *)
thisitem(o) == Max({i \in Items(o.net) : i = 1 \/ i - 1 <= o.back})

(* Mutant: nothing is wanted. *)
wewant_nothing(net, i) == FALSE

wewant(net, i) == i <= Len(net) /\ net[i].b = "IAC"

(* A command that was sent in part is kept as a whole: its beginning is sent  *)
(* again.                                                                     *)
td_netclear(o) ==
  LET kept == {i \in Items(o.net) : i >= thisitem(o) /\ wewant(o.net, i)}
      item(i) == SubSeq(o.net, i, nextitem(o.net, i) - 1)
  IN [o EXCEPT !.net = FoldLeft(LAMBDA acc, i : acc \o item(i), <<>>, SetToSortSeq(kept, <)), !.back = 0, !.neturg = 0]

Torn(o) == LET i == thisitem(o) IN i - 1 < o.back /\ wewant(o.net, i)

(* Mutant: the urgent place is behind DM. *)
set_neturg_end(o) == [o EXCEPT !.neturg = Len(o.net) + 1]

set_neturg(o) == [o EXCEPT !.neturg = Len(o.net)]
net_output_data(o, bytes) == [o EXCEPT !.net = @ \o bytes]
Abort(o) == set_neturg(net_output_data(td_netclear(o), DataMark))

(* k bytes were sent. *)
Sent(o, k) ==
  LET p == [o EXCEPT !.back = @ + k, !.neturg = IF o.back + k >= o.neturg - 1 THEN 0 ELSE @]
  IN IF p.back = Len(p.net) THEN [p EXCEPT !.net = <<>>, !.back = 0] ELSE p

Sends(k, urgent) ==
  LET bytes == [i \in 1 .. k |-> tdo.net[tdo.back + i] @@ [u |-> urgent]]
      old == IF urgent THEN [i \in 1 .. Len(dwire) |-> [dwire[i] EXCEPT !.u = FALSE]] ELSE dwire
  IN dwire' = old \o bytes /\ tdo' = Sent(tdo, k)

(* Mutant: the byte in front of DM counts as one to send before it. *)
Portions_before(o) ==
  LET n == o.neturg - 1 - o.back
  IN CASE o.neturg = 0 -> {<<k, FALSE>> : k \in 1 .. Len(o.net) - o.back}
       [] o.neturg # 0 /\ n >= 1 -> {<<k, FALSE>> : k \in 1 .. n - 1}
       [] o.neturg # 0 /\ n < 1 -> {<<n, TRUE>>}

(* What one call of netflush may send: everything without urgent data, else   *)
(* what is before the urgent byte, which is the IAC of DM and goes by itself.  *)
Portions(o) ==
  LET n == o.neturg - 1 - o.back
  IN CASE o.neturg = 0 -> {<<k, FALSE>> : k \in 1 .. Len(o.net) - o.back}
       [] o.neturg # 0 /\ n > 1 -> {<<k, FALSE>> : k \in 1 .. n - 1}
       [] o.neturg # 0 /\ n <= 1 -> {<<n, TRUE>>}

td_netflush ==
  /\ \E p \in Portions(tdo) : Sends(p[1], p[2])
  /\ UNCHANGED <<strm, tel, keys, done>>

(* What the loop of telnetd_run writes for one piece of the pty's output; the *)
(* piece begins with the control byte of packet mode, which is not removed.   *)
ToNet(piece) ==
  Fold(LAMBDA acc, x, next :
         LET crlf == Ahead(next, {"LF"})
         IN IF x.b = "CR" /\ ~strm.binary
            THEN [acc EXCEPT !.out = @ \o <<x, IF crlf THEN next[1] ELSE B("NUL", 0)>>, !.skip = crlf]
            ELSE [acc EXCEPT !.out = @ \o Escaped(x)],
       [out |-> <<>>, skip |-> FALSE], <<B("NUL", 0)>> \o piece).out

(* A piece of what the program wrote is taken from the pty. *)
pty_read(o, piece) == [o EXCEPT !.pty = Beyond(@, piece)]

(* The pty is read when nothing waits to be sent; TIOCPKT_FLUSHWRITE comes    *)
(* by itself.                                                                 *)
td_pty_read ==
  /\ tdo.net = <<>>
  /\ \/ /\ tdo.flushwrite /\ tdo' = [Abort(tdo) EXCEPT !.flushwrite = FALSE]
     \/ /\ ~tdo.flushwrite
        /\ \E piece \in Pieces(tdo.pty) : tdo' = net_output_data(pty_read(tdo, piece), ToNet(piece))
  /\ UNCHANGED <<strm, dwire, tel, keys, done>>

(* telrcv gets AO.  What was read from the pty before may be lost; the pty     *)
(* also gets its AO character.                                                 *)
td_AO ==
  /\ strm.dir = "down" /\ done.aborts < strm.aborts
  /\ tdo' = Abort(tdo)
  /\ done' = [done EXCEPT !.aborts = @ + 1, !.since = Len(done.wrote) - Len(tdo.pty), !.torn = @ \/ Torn(tdo)]
  /\ UNCHANGED <<strm, dwire, tel, keys>>

(* telnetd sends a command, here an option.                                   *)
send_will ==
  /\ strm.dir = "down" /\ done.sent < strm.commands
  /\ done' = [done EXCEPT !.sent = @ + 1]
  /\ tdo' = net_output_data(tdo, <<B("IAC", 0), B("WILL", 0), B("opt", done.sent + 1)>>)
  /\ UNCHANGED <<strm, dwire, tel, keys>>

Writes ==
  /\ strm.dir = "down" /\ done.wrote # strm.text
  /\ LET n == Len(done.wrote) + 1
     IN /\ done' = [done EXCEPT !.wrote = SubSeq(strm.text, 1, n)]
        /\ tdo' = [tdo EXCEPT !.pty = Append(@, B(strm.text[n], n))]
  /\ UNCHANGED <<strm, dwire, tel, keys>>

(* The program, or an interrupt on the pty, throws the pty's output away.     *)
Tcflush ==
  /\ strm.dir = "down" /\ done.aborts < strm.aborts
  /\ tdo' = [tdo EXCEPT !.pty = <<>>, !.flushwrite = TRUE]
  /\ done' = [done EXCEPT !.aborts = @ + 1, !.since = Len(done.wrote)]
  /\ UNCHANGED <<strm, dwire, tel, keys>>

----------------------------------------------------------------------------
(* telnet: from the connection to the terminal.                            *)

CrPair(x) == IF strm.crmod THEN <<x, B("extra", x.n)>> ELSE <<x>>

(* Mutant: SYNCHing stays set after DM. *)
GotDM_set(t, still) == [t EXCEPT !.out = <<>>, !.SYNCHing = TRUE, !.state = "data"]

(* DM: what is queued for the terminal is dropped, stilloob says whether to    *)
(* go on.                                                                      *)
GotDM(t, still) == [t EXCEPT !.out = <<>>, !.SYNCHing = still, !.state = "data"]

(* Mutant: the LF stays in the ring. *)
JoinedLF_stays(t, next) == [t EXCEPT !.out = @ \o next, !.state = "data"]

(* Without echo, CR LF read together is LF. *)
JoinedLF(t, next) == [t EXCEPT !.out = @ \o next, !.state = "data", !.skip = TRUE]

(* One byte from the connection. *)
TelrcvByte(t, x, next, still) ==
  LET TTYADD(s, st) == [t EXCEPT !.out = @ \o s, !.state = st]
      state(st) == [t EXCEPT !.state = st]
      joined == IF strm.echo THEN {} ELSE {"LF"}
  IN CASE t.state = "cr" /\ x.b = "NUL" -> state("data")
       [] t.state \in {"data", "cr"} /\ x.b = "IAC" -> state("iac")
       [] t.state \in {"data", "cr"} /\ x.b = "CR" /\ ~strm.binary ->
            CASE Ahead(next, {"NUL"}) -> [TTYADD(<<x>>, "data") EXCEPT !.skip = TRUE]
              [] Ahead(next, joined) -> JoinedLF(t, next)
              [] OTHER -> TTYADD(CrPair(x), IF next = <<>> THEN "cr" ELSE "data")
       [] t.state = "iac" /\ x.b = "DM" -> GotDM(t, still)
       [] t.state = "iac" /\ x.b = "WILL" -> state("will")
       [] t.state = "will" -> [state("data") EXCEPT !.cmds = Append(@, x)]
       [] t.state = "iac" /\ x.b \notin {"DM", "WILL", "IAC"} -> state("data")
       [] OTHER -> TTYADD(<<x>>, "data")

telrcv(t, chunk, still) == Fold(LAMBDA acc, x, next : TelrcvByte(acc, x, next, still), t, chunk)

(* Urgent data is pending as long as the urgent byte was not read; whether it  *)
(* has arrived is open.                                                        *)
Oob(wire) == {FALSE} \cup {x.u : x \in Range(wire)}

(* recv stops in front of the urgent byte. *)
Readable(wire) ==
  {<<>>} \cup {p \in Pieces(wire) : \A i \in 2 .. Len(p) : ~p[i].u}

(* What ttyflush may take from the queue: a part, or nothing if the terminal is  *)
(* not ready; all of it when it is dropped.                                     *)
ttyflush(t) == {<<>>} \cup (IF t.SYNCHing THEN {t.out} ELSE Pieces(t.out))

(* One turn of Scheduler and process_rings: urgent data, a piece of the       *)
(* connection, the terminal (which may take a part), telrcv.                  *)
Scheduler ==
  /\ dwire # <<>> \/ tel.out # <<>>
  /\ \E urgent \in IF tel.SYNCHing THEN {FALSE} ELSE Oob(dwire), chunk \in Readable(dwire) :
       LET t == IF urgent THEN [tel EXCEPT !.SYNCHing = TRUE, !.out = <<>>] ELSE tel
       IN \E written \in ttyflush(t), still \in Oob(Beyond(dwire, chunk)) :
            /\ tel' = telrcv([t EXCEPT !.out = Beyond(@, written)], chunk, still)
            /\ dwire' = Beyond(dwire, chunk)
            /\ done' = [done EXCEPT !.shown = IF t.SYNCHing THEN @ ELSE @ \o written]
  /\ UNCHANGED <<strm, tdo, keys>>

----------------------------------------------------------------------------
(* The way up: telsnd and telnetd's telrcv.                                *)
Typed(x) ==
  CASE x.b = "LF" /\ ~strm.binary /\ strm.local -> <<B("CR", x.n), x>>
    [] x.b = "CR" /\ ~strm.binary -> <<x, IF strm.crlf THEN B("LF", x.n) ELSE B("NUL", x.n)>>
    [] OTHER -> Escaped(x)

telsnd ==
  /\ strm.dir = "up" /\ Len(done.wrote) < Len(strm.text) /\ strm.text[Len(done.wrote) + 1] # "IP"
  /\ LET n == Len(done.wrote) + 1
     IN /\ done' = [done EXCEPT !.wrote = SubSeq(strm.text, 1, n)]
        /\ keys' = [keys EXCEPT !.wire = @ \o Typed(B(strm.text[n], n))]
  /\ UNCHANGED <<strm, tdo, dwire, tel>>

(* An interrupt among what is typed; send_intr puts it into the pty's queue. *)
intp ==
  /\ strm.dir = "up" /\ Len(done.wrote) < Len(strm.text) /\ strm.text[Len(done.wrote) + 1] = "IP"
  /\ done' = [done EXCEPT !.wrote = Append(@, "IP")]
  /\ keys' = [keys EXCEPT !.wire = @ \o <<B("IAC", 0), B("IP", Len(done.wrote) + 1)>>]
  /\ UNCHANGED <<strm, tdo, dwire, tel>>

(* Mutant: what follows a CR is not stripped. *)
TsCr_data == "data"

TsCr == "cr"

(* What is put into the buffer reaches the pty in that order, for ptyflush      *)
(* keeps the rest of a short write.                                            *)
pty_output_byte(t, s) == [t EXCEPT !.pty = @ \o s]

td_telrcvByte(t, x, next) ==
  LET output(s, st) == [pty_output_byte(t, s) EXCEPT !.state = st]
      ends == {"LF"} \cup (IF strm.iscrnl THEN {"NUL"} ELSE {})
  IN CASE t.state = "cr" /\ x.b \in {"NUL", "LF"} -> output(<<>>, "data")
       [] t.state \in {"data", "cr"} /\ x.b = "IAC" -> output(<<>>, "iac")
       [] t.state \in {"data", "cr"} /\ x.b = "CR" /\ ~strm.binary ->
            IF strm.linemode /\ Ahead(next, ends)
            THEN [output(<<B("LF", x.n)>>, "data") EXCEPT !.skip = TRUE]
            ELSE output(<<x>>, TsCr)
       [] OTHER -> output(<<x>>, "data")

td_telrcv ==
  /\ \E chunk \in Pieces(keys.wire) :
       keys' = [Fold(td_telrcvByte, keys, chunk) EXCEPT !.wire = Beyond(@, chunk)]
  /\ UNCHANGED <<strm, tdo, dwire, tel, done>>

----------------------------------------------------------------------------
tdo_init == [pty |-> <<>>, flushwrite |-> FALSE, net |-> <<>>, back |-> 0, neturg |-> 0]
tel_init == [state |-> "data", SYNCHing |-> FALSE, out |-> <<>>, cmds |-> <<>>, skip |-> FALSE]
keys_init == [wire |-> <<>>, state |-> "data", pty |-> <<>>, skip |-> FALSE]
done_init == [wrote |-> <<>>, shown |-> <<>>, aborts |-> 0, since |-> 0, sent |-> 0, torn |-> FALSE]

StreamInit ==
  /\ strm \in Streams /\ dwire = <<>>
  /\ tdo = tdo_init /\ tel = tel_init /\ keys = keys_init /\ done = done_init

StreamNext ==
  td_netflush \/ td_pty_read \/ td_AO \/ send_will \/ Writes \/ Tcflush \/ Scheduler \/ telsnd \/ intp \/ td_telrcv

(* Both programs run on, the connection delivers, and the terminal takes what  *)
(* it is given in the end.                                                     *)
StreamFairness ==
  /\ WF_streamvars(td_netflush) /\ WF_streamvars(td_pty_read) /\ WF_streamvars(td_telrcv)
  /\ WF_streamvars(Scheduler)
StreamSpec == StreamInit /\ [][StreamNext]_streamvars /\ StreamFairness

----------------------------------------------------------------------------
(* Properties.                                                             *)

(* Types; the urgent place of telnetd's buffer is that of a DM not reached    *)
(* yet, and at most one byte under way is urgent, the IAC of a DM.            *)
StreamTypeOK ==
  /\ tdo.back <= Len(tdo.net) /\ (tdo.net # <<>> => tdo.back < Len(tdo.net))
  /\ tdo.neturg # 0 =>
       tdo.neturg \in tdo.back + 2 .. Len(tdo.net) /\ SubSeq(tdo.net, tdo.neturg - 1, tdo.neturg) = DataMark
  /\ \A i, j \in DOMAIN dwire : dwire[i].u => dwire[i].b = "IAC" /\ dwire[i].n = 0 /\ (dwire[j].u => i = j)
  /\ tel.state \in {"data", "cr", "iac", "will"} /\ tel.SYNCHing \in BOOLEAN
  /\ keys.state \in {"data", "cr", "iac"} /\ ~tel.skip /\ ~keys.skip

Drained == tdo.pty = <<>> /\ tdo.net = <<>> /\ ~tdo.flushwrite /\ dwire = <<>> /\ tel.out = <<>>
Shown == SelectSeq(done.shown, LAMBDA x : x.n # 0 /\ x.b # "extra")

(* What the terminal shows are characters the program wrote, in their order   *)
(* and none twice, and no byte of a command, wherever the pieces read begin    *)
(* and whatever was aborted (NUL is the packet mode's); if no command is sent   *)
(* twice by netclear.                                                          *)
ShownTrue ==
  ~done.torn =>
    /\ \A i \in DOMAIN Shown : Shown[i].b = done.wrote[Shown[i].n] /\ (i > 1 => Shown[i - 1].n < Shown[i].n)
    /\ \A i \in DOMAIN done.shown : done.shown[i].n = 0 => done.shown[i].b = "NUL"

(* When nothing is under way, all that was read from the pty after the last    *)
(* abort is shown (the CR of a CR LF may be left out) and telnet does not      *)
(* discard: the mark is taken by exactly the DM it belongs to.                 *)
ShownWhole ==
  Drained /\ ~done.torn =>
    /\ ~tel.SYNCHing /\ tel.state \in {"data", "cr"}
    /\ strm.dir = "down" =>
         \A n \in done.since + 1 .. Len(done.wrote) :
            \/ \E x \in Range(Shown) : x.n = n
            \/ ~strm.echo /\ n < Len(done.wrote) /\ SubSeq(done.wrote, n, n + 1) = <<"CR", "LF">>

(* No command is lost, doubled or overtaken when netclear throws the data      *)
(* around it away.                                                             *)
CommandsKept ==
  LET number(s) == [i \in 1 .. Len(s) |-> s[i].n]
      options(s) == number(SelectSeq(s, LAMBDA x : x.b = "opt"))
  IN ~done.torn /\ strm.dir = "down" =>
       options(tel.cmds) \o options(dwire) \o options(SubSeq(tdo.net, tdo.back + 1, Len(tdo.net)))
         = [i \in 1 .. done.sent |-> i]

(* The pty gets one character for every one that is typed, in order, an end    *)
(* of line for an end of line, however CR LF and CR NUL are cut in pieces.      *)
InTrue ==
  strm.dir = "up" =>
    LET ends == IF strm.binary THEN {} ELSE {"CR", "LF"}
    IN /\ \A i \in DOMAIN keys.pty :
            /\ keys.pty[i].n = i
            /\ keys.pty[i].b = done.wrote[i] \/ {keys.pty[i].b, done.wrote[i]} \subseteq ends
       /\ keys.wire = <<>> => Len(keys.pty) = Len(done.wrote)

(* Every abort comes to an end: the output is shown again.                     *)
SynchEnds == <>(done.torn \/ [](Drained /\ ~tel.SYNCHing))

(* The terminal shows what the program wrote and the commands reach telnet,     *)
(* whatever is aborted and wherever the reads cut the stream.                   *)
OutputTrue == StreamTypeOK /\ ShownTrue /\ ShownWhole /\ CommandsKept
=============================================================================
