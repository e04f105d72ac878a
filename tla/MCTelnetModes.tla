--------------------------- MODULE MCTelnetModes ---------------------------
(***************************************************************************)
(* Two instances for TLC: a telnet session whose user gives commands, and    *)
(* the byte streams of a session.  While one is explored the other one does  *)
(* nothing: a session that has ended, a stream without text.             *)
(***************************************************************************)
EXTENDS MCTelnet, TelnetStream

(* telnet's streams: CR LF with one abort, with and without echo and crmod, an  *)
(* IAC with two aborts and a command, a binary one; and what is typed.           *)
Stream ==
  [dir |-> "down", echo |-> FALSE, binary |-> FALSE, crmod |-> FALSE, linemode |-> FALSE, crlf |-> FALSE,
   iscrnl |-> FALSE, local |-> FALSE, text |-> <<"CR", "LF">>, aborts |-> 1, commands |-> 0]
Written ==
  {[Stream EXCEPT !.echo = e, !.crmod = e] : e \in BOOLEAN}
  \cup {[Stream EXCEPT !.text = <<"IAC">>, !.aborts = 2, !.commands = 1],
        [Stream EXCEPT !.text = <<"IAC", "CR">>, !.binary = TRUE]}
TypedTexts == {<<"CR", "LF", "IP">>, <<"LF", "IAC", "CR">>, <<"IP", "CR", "CR">>}
MCStreams ==
  Written \cup {[Stream EXCEPT !.dir = "up", !.binary = b, !.linemode = l, !.crlf = m, !.iscrnl = i, !.local = o, !.text = t] :
                  b, l, m, i, o \in BOOLEAN, t \in TypedTexts}

StreamOver ==
  /\ strm = [Stream EXCEPT !.text = <<>>, !.aborts = 0] /\ dwire = <<>>
  /\ tdo = tdo_init /\ tel = tel_init /\ keys = keys_init /\ done = done_init

SessionOver ==
  /\ c = C!Start(FALSE) /\ s = [S!Start EXCEPT !.pc = "gone"] /\ toServer = <<>> /\ toClient = <<>>
  /\ commands = MaxCommands /\ changes = MaxChanges

ModesInit ==
  \/ Init /\ StreamOver
  \/ SessionOver /\ StreamInit

ModesNext ==
  \/ Next /\ UNCHANGED streamvars
  \/ StreamNext /\ UNCHANGED vars

ModesSpec == ModesInit /\ [][ModesNext]_<<vars, streamvars>> /\ StreamFairness
=============================================================================
