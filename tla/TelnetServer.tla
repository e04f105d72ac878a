---------------------------- MODULE TelnetServer ----------------------------
(***************************************************************************)
(* telnetd: option negotiation and sub-negotiations (telnetd/state.c), the *)
(* pty and the line mode (termstat.c, term.c), and the start of a session  *)
(* (utility.c, telnetd.c).  Every operator maps the state s of the server  *)
(* to the state after the C function of the same name; s.out collects what *)
(* it writes to the network.  s.his holds DO and DONT (what the peer is to *)
(* do), s.my WILL and WONT.                                                *)
(*                                                                         *)
(* The modes of the pty are in s.tty; termbuf is the copy the server works *)
(* on and termbuf2 what that copy was when it was read.  s.pkt says that a *)
(* TIOCPKT_IOCTL packet waits to be read, s.pktflow that a flow control    *)
(* packet does, s.reading that telrcv has more of the last read to do.     *)
(***************************************************************************)
EXTENDS TelnetState

CONSTANTS
  KnownNames,      \* the terminal names of the server's data base
  AlwaysLinemode,  \* telnetd -l
  NoKludge,        \* telnetd -l nokludge
  HaveTIOCEXT      \* the kernel has TIOCEXT, as 4.4BSD's; Linux has not

NO_LINEMODE == 0
KLUDGE_LINEMODE == 1
NO_AUTOKLUDGE == 2
KLUDGE_OK == 3
REAL_LINEMODE == 4

\* The modes of a new pty, and a termbuf that was never read into.
NewTty == [echo |-> TRUE, edit |-> TRUE, trapsig |-> TRUE, ext |-> FALSE,
           binin |-> TRUE, binout |-> FALSE, flow |-> TRUE]
NoTty == [echo |-> FALSE, edit |-> FALSE, trapsig |-> FALSE, ext |-> FALSE,
          binin |-> TRUE, binout |-> TRUE, flow |-> FALSE]

Start ==
  [my |-> [o \in Options |-> Off], his |-> [o \in Options |-> Off], out |-> <<>>,
   pc |-> "start", reading |-> FALSE, answered |-> {}, terminaltype |-> "", first |-> "", last |-> "",
   lmodetype |-> IF NoKludge THEN NO_AUTOKLUDGE ELSE NO_LINEMODE,
   linemode |-> FALSE, editmode |-> {}, useeditmode |-> {},
   open |-> FALSE, tty |-> NewTty, termbuf |-> NoTty, termbuf2 |-> NoTty,
   pkt |-> FALSE, pktflow |-> FALSE, flowmode |-> TRUE,
   terminit |-> FALSE, def_speed |-> FALSE, def_win |-> 0, win |-> 0]
-----------------------------------------------------------------------------
(* The pty.  External: TIOCEXT alone changes EXTPROC where it exists, and a *)
(* change of the modes is reported to the server while EXTPROC is on.       *)
tcsetattr(s, t) ==
  LET n == IF HaveTIOCEXT THEN [t EXCEPT !.ext = s.tty.ext] ELSE t
  IN [s EXCEPT !.tty = n, !.pkt = @ \/ s.tty.ext \/ n.ext,
               !.pktflow = @ \/ n.flow # s.tty.flow]

ioctl_TIOCEXT(s, on) ==
  [s EXCEPT !.tty.ext = on, !.pkt = @ \/ on \/ s.tty.ext]

\* Before start_slave the variable pty is 0, the network: nothing is read.
init_termbuf(s) ==
  IF s.open THEN [s EXCEPT !.termbuf = s.tty, !.termbuf2 = s.tty]
  ELSE [s EXCEPT !.termbuf2 = s.termbuf]

set_termbuf(s) ==
  IF s.open /\ s.termbuf # s.termbuf2 THEN tcsetattr(s, s.termbuf) ELSE s

\* The packet carries the modes where TIOCEXT exists, and nothing on Linux.
copy_termbuf(s) ==
  LET t == IF HaveTIOCEXT THEN s.tty ELSE s.termbuf
  IN [s EXCEPT !.termbuf = t, !.termbuf2 = t]

\* Mutant: EXTPROC is only noted in termbuf, which TIOCEXT does not read.
tty_setlinemode_Noted(s, on) == [s EXCEPT !.termbuf.ext = on]

tty_setlinemode(s, on) ==
  IF ~HaveTIOCEXT THEN [s EXCEPT !.termbuf.ext = on]
  ELSE IF s.open THEN init_termbuf(ioctl_TIOCEXT(set_termbuf(s), on))
  ELSE init_termbuf(s)

\* init_termbuf, a change of termbuf and set_termbuf.
SetTty(s, field, on) ==
  LET i == init_termbuf(s) IN set_termbuf([i EXCEPT !.termbuf[field] = on])

EditMask(t) == {m \in {"edit", "trapsig"} : t[m]}
SendMode(s, mask, ack) == Say(s, Sub(LINEMODE, [mode |-> mask, ack |-> ack]))
-----------------------------------------------------------------------------
flowstat(s) ==
  IF s.his[LFLOW].state /\ s.termbuf.flow # s.flowmode
  THEN Say([s EXCEPT !.flowmode = s.termbuf.flow], Sub(LFLOW, s.termbuf.flow))
  ELSE s

\* clientstat (TELOPT_TSPEED): the speed is a change of the modes.
SetSpeed(s) ==
  LET i == [init_termbuf(s) EXCEPT !.def_speed = TRUE]
  IN IF i.terminit /\ i.open THEN tcsetattr(i, i.termbuf) ELSE i

\* clientstat (TELOPT_NAWS).
SetWindow(s, size) ==
  LET i == [init_termbuf(s) EXCEPT !.def_win = size]
  IN IF i.terminit THEN [i EXCEPT !.win = size] ELSE i

\* Mutant: a window size that arrived early is forgotten.
defer_terminit_NoWindow(s) ==
  LET d == IF s.def_speed THEN SetSpeed(s) ELSE s IN d

\* What had to wait until the pty was set up.
defer_terminit(s) ==
  LET d == IF s.def_speed THEN SetSpeed(s) ELSE s
  IN IF s.def_win # 0 THEN [d EXCEPT !.win = s.def_win] ELSE d

\* localstat, from "If linemode is being turned off" on ...
LinemodeOff(s) ==
  LET d == CASE s.lmodetype = REAL_LINEMODE -> AskHis(s, LINEMODE, FALSE)
             [] s.lmodetype = KLUDGE_LINEMODE -> AskMine(s, SGA, TRUE)
             [] OTHER -> s
  IN [AskMine(d, ECHO, TRUE) EXCEPT !.linemode = FALSE]

\* ... and otherwise.
LinemodeStays(s, use) ==
  LET mask == EditMask(s.termbuf)
      d == CASE s.lmodetype = REAL_LINEMODE -> [s EXCEPT !.useeditmode = mask]
             [] s.lmodetype = KLUDGE_LINEMODE -> AskMine(s, SGA, ~(use /\ s.termbuf.edit))
             [] OTHER -> s
  IN IF use /\ ~s.linemode
     THEN LET e == CASE d.lmodetype = KLUDGE_LINEMODE -> AskMine(d, SGA, FALSE)
                     [] d.lmodetype = REAL_LINEMODE ->
                          [SendMode(AskHis(d, LINEMODE, TRUE), mask, FALSE) EXCEPT !.editmode = mask]
                     [] OTHER -> d
          IN [e EXCEPT !.linemode = TRUE]
     ELSE IF /\ d.lmodetype = REAL_LINEMODE /\ d.linemode /\ d.his[LINEMODE].state
             /\ mask # d.editmode
     THEN [SendMode(d, mask, FALSE) EXCEPT !.editmode = mask]
     ELSE d

\* Mutant: the client is not told that the pty no longer echoes.
WillEcho_Never(s, use) == s

\* In line mode the client echoes exactly what the pty would.  The news that it
\* must not comes last, after the news of the edit mode.
WontEcho(s, use) == IF use /\ s.termbuf.echo THEN AskMine(s, ECHO, FALSE) ELSE s
WillEcho(s, use) == IF use /\ ~s.termbuf.echo THEN AskMine(s, ECHO, TRUE) ELSE s

\* The modes of the pty have changed: tell the client.
localstat(s) ==
  LET bin == AskMine(AskHis(s, BINARY, s.termbuf.binin), BINARY, s.termbuf.binout)
      flow == flowstat(bin)
      use == flow.termbuf.ext \/ (AlwaysLinemode /\ flow.linemode)
      ext == IF use /\ ~flow.termbuf.ext THEN tty_setlinemode(flow, TRUE) ELSE flow
      kludge == [WontEcho(ext, use) EXCEPT !.lmodetype = IF use /\ @ = KLUDGE_OK THEN KLUDGE_LINEMODE ELSE @]
      line == IF ~use /\ kludge.linemode THEN LinemodeOff(kludge) ELSE LinemodeStays(kludge, use)
      done == WillEcho(line, use)
  IN set_termbuf(IF done.terminit THEN done
                 ELSE defer_terminit([done EXCEPT !.terminit = TRUE]))

\* clientstat (TELOPT_LINEMODE): the client wants line mode on or off.
SetLinemode(s, on) ==
  LET i == init_termbuf(s)
      use == on \/ (i.lmodetype = KLUDGE_LINEMODE /\ AlwaysLinemode /\ i.termbuf.edit)
      mask == EditMask(i.termbuf)
      d == IF i.lmodetype = REAL_LINEMODE /\ use
           THEN [SendMode(i, mask, FALSE) EXCEPT !.editmode = mask, !.useeditmode = mask]
           ELSE i
      e == [tty_setlinemode(d, use) EXCEPT !.linemode = use]
  IN IF on = i.linemode \/ use = i.linemode THEN i
     ELSE IF use THEN e ELSE AskMine(e, ECHO, TRUE)

\* clientstat (LM_MODE): the client's mask, a request or an acknowledgement.
SetEditMode(s, mask, ack) ==
  LET i == init_termbuf([s EXCEPT !.useeditmode = mask])
      d == IF ack THEN localstat(i) ELSE i
      new == d.useeditmode
      changed == {m \in {"edit", "trapsig"} : (m \in mask) # (m \in s.editmode)}
      t == [f \in DOMAIN d.termbuf |-> IF f \in changed THEN f \in new ELSE d.termbuf[f]]
      e == set_termbuf([d EXCEPT !.termbuf = t])
  IN IF changed = {} THEN i
     ELSE [(IF ack THEN e ELSE SendMode(e, mask, TRUE)) EXCEPT !.editmode = new]
-----------------------------------------------------------------------------
\* send_do (TELOPT_TM, 1): a DO that is booked as a DONT.
SendTimingMark(s) ==
  IF MayRequest(s.his[TM], TRUE)
  THEN Say([s EXCEPT !.his[TM].resp = @ + 1], Neg("DO", TM))
  ELSE s

WillTimingMark(s) ==
  IF s.lmodetype < KLUDGE_LINEMODE
  THEN AskMine(SetLinemode([s EXCEPT !.lmodetype = KLUDGE_LINEMODE], TRUE), SGA, FALSE)
  ELSE IF s.lmodetype = NO_AUTOKLUDGE THEN [s EXCEPT !.lmodetype = KLUDGE_OK] ELSE s

AcceptedWills == {BINARY, LFLOW, TTYPE, SGA, NAWS, TSPEED, XDISPLOC, NEW_ENVIRON,
                  OLD_ENVIRON, LINEMODE}

willoption(s, o) ==
  LET a == Answered(s.his[o], TRUE)
      d == [s EXCEPT !.his[o] = a]
      e == CASE o = BINARY -> SetTty(d, "binin", TRUE)
             [] o = LINEMODE -> [d EXCEPT !.lmodetype = REAL_LINEMODE]
             [] OTHER -> d
      noted == [d EXCEPT !.his[o] = Noted(a, TRUE)]
  IN CASE a.resp # 0 -> noted
       [] a.resp = 0 /\ ~a.want ->
            IF o = TM THEN WillTimingMark(d)
            ELSE IF o \in AcceptedWills
            THEN LET f == Say([e EXCEPT !.his[o] = Accepted(a, TRUE)], Neg("DO", o))
                 IN IF o = LINEMODE THEN SetLinemode(f, TRUE) ELSE f
            ELSE Say([e EXCEPT !.his[o] = Refused(a)], Neg("DONT", o))
       [] a.resp = 0 /\ a.want ->
            CASE o = ECHO -> [AskHis(d, ECHO, FALSE) EXCEPT !.his[ECHO].state = TRUE]
              [] o = LINEMODE -> SetLinemode([noted EXCEPT !.lmodetype = REAL_LINEMODE], TRUE)
              [] o = LFLOW -> flowstat(noted)
              [] OTHER -> noted

\* The options whose sub-negotiation the start of a session waits for.
Awaited == {TTYPE, TSPEED, XDISPLOC, OLD_ENVIRON, NEW_ENVIRON}

\* WONT TM: the client has no kludge line mode either.
WontTimingMark(s) ==
  IF s.lmodetype < NO_AUTOKLUDGE
  THEN AskMine(AskMine(SetLinemode([s EXCEPT !.lmodetype = NO_LINEMODE], FALSE), SGA, TRUE), ECHO, TRUE)
  ELSE s

wontoption(s, o) ==
  LET a == Answered(s.his[o], FALSE)
      d == [s EXCEPT !.his[o] = a]
      e == CASE o = BINARY -> SetTty(d, "binin", FALSE)
             [] o = LINEMODE /\ d.lmodetype = REAL_LINEMODE -> SetLinemode(d, FALSE)
             [] o \in Awaited -> [d EXCEPT !.answered = @ \cup {o}]
             [] OTHER -> d
      off == [e EXCEPT !.his[o] = Accepted(@, FALSE)]
  IN IF AsksChange(a, FALSE)
     THEN IF o = TM THEN [d EXCEPT !.his[o].want = FALSE]
          ELSE IF a.state THEN Say(off, Neg("DONT", o)) ELSE off
     ELSE LET t == IF o = TM /\ a.resp = 0 THEN WontTimingMark(d) ELSE d
          IN [t EXCEPT !.his[o] = Noted(@, FALSE)]

\* DO SGA in kludge line mode asks to turn it off.
DoSga(s) == IF s.lmodetype = KLUDGE_LINEMODE THEN SetLinemode(s, FALSE) ELSE s

dooption(s, o) ==
  LET a == Answered(s.my[o], TRUE)
      d == [s EXCEPT !.my[o] = a]
      e == CASE o = ECHO /\ d.lmodetype = NO_LINEMODE -> SetTty(d, "echo", TRUE)
             [] o = BINARY -> SetTty(d, "binout", TRUE)
             [] o = SGA -> DoSga(d)
             [] OTHER -> d
      ok == \/ o \in {ECHO, BINARY, STATUS}
            \/ o = SGA /\ ~(d.lmodetype = KLUDGE_LINEMODE /\ e.linemode)
  IN IF ~AsksChange(a, TRUE) THEN [d EXCEPT !.my[o] = Noted(a, TRUE)]
     ELSE IF o = TM THEN Say([d EXCEPT !.my[o] = Accepted(a, FALSE)], Neg("WILL", o))
     ELSE IF o = LOGOUT
          THEN [Say([d EXCEPT !.my[o] = Accepted(a, TRUE)], Neg("WILL", o)) EXCEPT !.pc = "gone"]
     ELSE IF ok THEN Say([e EXCEPT !.my[o] = Accepted(@, TRUE)], Neg("WILL", o))
     ELSE Say([e EXCEPT !.my[o] = Refused(@)], Neg("WONT", o))

\* Mutant: DONT SGA does not begin kludge line mode again.
DontSga_Ignored(s) == s

\* DONT SGA in kludge line mode asks to turn it on.
DontSga(s) ==
  IF s.lmodetype \in {KLUDGE_LINEMODE, KLUDGE_OK}
  THEN SetLinemode([s EXCEPT !.lmodetype = KLUDGE_LINEMODE], TRUE)
  ELSE s

dontoption(s, o) ==
  LET a == Answered(s.my[o], FALSE)
      d == [s EXCEPT !.my[o] = a]
      e == CASE o = BINARY -> SetTty(d, "binout", FALSE)
             [] o = ECHO /\ d.lmodetype \notin {REAL_LINEMODE, KLUDGE_LINEMODE} ->
                  SetTty(d, "echo", FALSE)
             [] o = SGA -> DontSga(d)
             [] OTHER -> d
      off == [e EXCEPT !.my[o] = Accepted(@, FALSE)]
  IN IF ~AsksChange(a, FALSE) THEN [d EXCEPT !.my[o] = Noted(a, FALSE)]
     ELSE IF a.state THEN Say(off, Neg("WONT", o)) ELSE off

suboption(s, o, arg) ==
  LET told == [s EXCEPT !.answered = @ \cup {o}]
  IN CASE o \in {TSPEED, TTYPE, NAWS, LINEMODE} /\ ~s.his[o].state -> s
       [] o = TSPEED /\ s.his[o].state -> SetSpeed(told)
       [] o = TTYPE /\ s.his[o].state -> [told EXCEPT !.terminaltype = arg]
       [] o = NAWS /\ s.his[o].state -> SetWindow(s, arg)
       [] o = LINEMODE /\ s.his[o].state -> SetEditMode(s, arg.mode, arg.ack)
       [] o \in {XDISPLOC, NEW_ENVIRON, OLD_ENVIRON} -> told

telrcv(s, m) ==
  CASE m.cmd = "WILL" -> willoption(s, m.opt)
    [] m.cmd = "WONT" -> wontoption(s, m.opt)
    [] m.cmd = "DO" -> dooption(s, m.opt)
    [] m.cmd = "DONT" -> dontoption(s, m.opt)
    [] m.cmd = "SB" -> suboption(s, m.opt, m.arg)
-----------------------------------------------------------------------------
(* The start of a session: getterminaltype, then telnetd_run.  s.pc names   *)
(* the ttloop the server is in; Waits is its condition, and Advance what    *)
(* the server does once it is false.                                        *)
Changing(s, o) == s.his[o].state # s.his[o].want

\* The sub-negotiation each wait is for.
AwaitedValue == [tspeed |-> TSPEED, xdisploc |-> XDISPLOC, environ |-> NEW_ENVIRON,
                 oenviron |-> OLD_ENVIRON, ttype |-> TTYPE, name |-> TTYPE, cycle |-> TTYPE]

Waits(s) ==
  CASE s.pc = "options" -> \E o \in Awaited : Changing(s, o)
    [] s.pc \in DOMAIN AwaitedValue -> AwaitedValue[s.pc] \notin s.answered
    [] s.pc = "naws" -> Changing(s, NAWS)
    [] s.pc = "echo" -> Changing(s, ECHO)
    [] s.pc \in {"slave", "loop"} -> FALSE
    [] s.pc = "run" -> TRUE
    [] s.pc = "gone" -> FALSE

At(s, pc) == [s EXCEPT !.pc = pc]

SendRequest(s, o) == IF s.his[o].state THEN Say(s, Sub(o, "send")) ELSE s

\* getterminaltype, up to its first ttloop.
getterminaltype(s) ==
  LET a == AskHis(AskHis(AskHis(s, TTYPE, TRUE), TSPEED, TRUE), XDISPLOC, TRUE)
  IN At(AskHis(AskHis(a, NEW_ENVIRON, TRUE), OLD_ENVIRON, TRUE), "options")

\* The wait at pc, if the client offers the value, or else what follows.
AwaitFrom(s, pcs) ==
  LET offered == {i \in 1..Len(pcs) : s.his[AwaitedValue[pcs[i]]].state}
  IN IF offered = {} THEN At(s, "slave")
     ELSE At(s, pcs[CHOOSE i \in offered : \A j \in offered : i <= j])

\* Mutant: the environment is asked for under its old name only.
AskValues_OldEnviron(s) ==
  LET a == SendRequest(SendRequest(SendRequest(s, TSPEED), XDISPLOC), OLD_ENVIRON)
  IN AwaitFrom(SendRequest(a, TTYPE), <<"tspeed", "xdisploc", "environ", "oenviron", "ttype">>)

\* The options are settled: ask for what they offer.
AskValues(s) ==
  LET a == SendRequest(SendRequest(s, TSPEED), XDISPLOC)
      b == SendRequest(a, IF a.his[NEW_ENVIRON].state THEN NEW_ENVIRON ELSE OLD_ENVIRON)
  IN AwaitFrom(SendRequest(b, TTYPE), <<"tspeed", "xdisploc", "environ", "oenviron", "ttype">>)

\* Mutant: the last answer still counts as the next one.
gettermname_Stale(s, pc) == At(Say(s, Sub(TTYPE, "send")), pc)

\* _gettermname asks for the next name and waits for it.
gettermname(s, pc) ==
  At([Say(s, Sub(TTYPE, "send")) EXCEPT !.answered = {}], pc)

FirstName(s) ==
  LET t == s.terminaltype
  IN IF ~s.his[TTYPE].state \/ t \in KnownNames THEN At(s, "slave")
     ELSE gettermname([s EXCEPT !.first = t, !.last = t], "name")

\* The last request: the first name is what counts.
TakeFirst(s) == At([s EXCEPT !.terminaltype = s.first], "slave")

\* The body of the loop of getterminaltype, after _gettermname.
NameReceived(s) ==
  IF s.terminaltype \in KnownNames THEN At(s, "slave")
  ELSE IF s.last # s.terminaltype /\ s.his[TTYPE].state
  THEN gettermname([s EXCEPT !.last = s.terminaltype], "name")
  ELSE IF s.first # s.terminaltype /\ s.his[TTYPE].state THEN gettermname(s, "cycle")
  ELSE TakeFirst(s)

\* start_slave opens the pty; telnetd_run begins.
telnetd_run(s) ==
  LET o == [s EXCEPT !.open = TRUE]
      a == AskHis(IF o.my[SGA].state THEN o ELSE AskMine(o, SGA, TRUE), ECHO, TRUE)
      b == IF a.his[LINEMODE].state THEN a
           ELSE AskHis([a EXCEPT !.linemode = FALSE, !.editmode = {}], LINEMODE, TRUE)
      d == AskMine(AskHis(b, NAWS, TRUE), STATUS, TRUE)
  IN At(AskHis([d EXCEPT !.flowmode = TRUE], LFLOW, TRUE), "naws")

\* telnetd_run, after the two ttloops.
Settled(s) ==
  LET a == IF s.his[ECHO].want THEN willoption(s, ECHO) ELSE s
      b == IF a.my[ECHO].state THEN a ELSE AskMine(a, ECHO, TRUE)
  IN At(IF b.lmodetype < REAL_LINEMODE THEN SendTimingMark(b) ELSE b, "loop")

Advance(s) ==
  CASE s.pc = "options" -> AskValues(s)
    [] s.pc = "tspeed" -> AwaitFrom(s, <<"xdisploc", "environ", "oenviron", "ttype">>)
    [] s.pc = "xdisploc" -> AwaitFrom(s, <<"environ", "oenviron", "ttype">>)
    [] s.pc = "environ" -> AwaitFrom(s, <<"oenviron", "ttype">>)
    [] s.pc = "oenviron" -> AwaitFrom(s, <<"ttype">>)
    [] s.pc = "ttype" -> FirstName(s)
    [] s.pc = "name" -> NameReceived(s)
    [] s.pc = "cycle" -> TakeFirst(s)
    [] s.pc = "slave" -> telnetd_run(s)
    [] s.pc = "naws" -> IF s.his[ECHO].want /\ s.his[NAWS].state THEN At(s, "echo") ELSE Settled(s)
    [] s.pc = "echo" -> Settled(s)
    [] s.pc = "loop" -> localstat(init_termbuf(At(s, "run")))

\* The processing loop reads a control packet from the pty.
pty_read(s) ==
  LET d == IF s.pkt THEN localstat(copy_termbuf([s EXCEPT !.pkt = FALSE])) ELSE s
      flow == [d EXCEPT !.pktflow = FALSE]
  IN IF s.pktflow /\ d.his[LFLOW].state /\ s.tty.flow # d.flowmode
     THEN Say(flow, Sub(LFLOW, d.flowmode))
     ELSE flow
=============================================================================
