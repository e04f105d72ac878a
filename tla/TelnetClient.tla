---------------------------- MODULE TelnetClient ----------------------------
(***************************************************************************)
(* telnet: the option negotiation, the sub-negotiations, the terminal mode *)
(* and the commands of the user (telnet/telnet.c, commands.c, terminal.c). *)
(* Every operator maps the state c of the client to the state after the    *)
(* C function of the same name; c.out collects what it writes to the       *)
(* network ring.  c.my holds WILL and WONT, c.his DO and DONT.             *)
(***************************************************************************)
EXTENDS TelnetState

CONSTANTS
  TermNames,    \* what mklist makes of the terminal's names, in order
  HaveDisplay   \* DISPLAY is set

EditModes == {"edit", "trapsig"}  \* of the bits of a LINEMODE MODE mask

\* hasline is FALSE for an older client, the kind that telnetd's kludge line
\* mode is for: it differs in that it does not know LINEMODE.
Start(hasline) ==
  [hasline |-> hasline, my |-> [o \in Options |-> Off], his |-> [o \in Options |-> Off], out |-> <<>>,
   kludgelinemode |-> TRUE, linemode |-> {}, localflow |-> FALSE, flushout |-> FALSE,
   term |-> 1, win |-> 1, mode |-> {"command"}]

getconnmode(c) ==
  {m \in {"echo", "flow", "inbin", "outbin"} :
     \/ m = "echo" /\ ~c.his[ECHO].want
     \/ m = "flow" /\ c.localflow
     \/ m = "inbin" /\ c.my[BINARY].want
     \/ m = "outbin" /\ c.his[BINARY].want}
  \cup {m \in EditModes : IF c.kludgelinemode THEN ~c.his[SGA].want
                          ELSE c.my[LINEMODE].want /\ m \in c.linemode}

setconnmode(c) == [c EXCEPT !.mode = getconnmode(c)]

AcceptedWills == {ECHO, BINARY, SGA, STATUS}

\* Mutant: an accepted option does not change the mode of the terminal.
willoption_NoMode(c, o) ==
  LET a == Answered(c.his[o], TRUE)
      d == [c EXCEPT !.his[o] = a]
  IN IF ~AsksChange(a, TRUE) THEN [d EXCEPT !.his[o] = Noted(a, TRUE)]
     ELSE IF o = TM THEN [d EXCEPT !.his[o] = Accepted(a, FALSE), !.flushout = FALSE]
     ELSE IF o \in AcceptedWills
          THEN Say([d EXCEPT !.his[o] = Accepted(a, TRUE)], Neg("DO", o))
     ELSE Say([d EXCEPT !.his[o] = Refused(a)], Neg("DONT", o))

\* Mutant: only WONT TM ends the discarding of output.
willoption_Discards(c, o) ==
  LET a == Answered(c.his[o], TRUE)
      d == [c EXCEPT !.his[o] = a]
  IN IF ~AsksChange(a, TRUE) THEN [d EXCEPT !.his[o] = Noted(a, TRUE)]
     ELSE IF o = TM THEN [d EXCEPT !.his[o] = Accepted(a, FALSE)]
     ELSE IF o \in AcceptedWills
          THEN setconnmode(Say([d EXCEPT !.his[o] = Accepted(a, TRUE)], Neg("DO", o)))
     ELSE Say([d EXCEPT !.his[o] = Refused(a)], Neg("DONT", o))

\* A WILL TM that was not asked for with send_do is the answer to doflush.
willoption(c, o) ==
  LET a == Answered(c.his[o], TRUE)
      d == [c EXCEPT !.his[o] = a]
  IN IF ~AsksChange(a, TRUE) THEN [d EXCEPT !.his[o] = Noted(a, TRUE)]
     ELSE IF o = TM THEN [d EXCEPT !.his[o] = Accepted(a, FALSE), !.flushout = FALSE]
     ELSE IF o \in AcceptedWills
          THEN setconnmode(Say([d EXCEPT !.his[o] = Accepted(a, TRUE)], Neg("DO", o)))
     ELSE Say([d EXCEPT !.his[o] = Refused(a)], Neg("DONT", o))

wontoption(c, o) ==
  LET a == Answered(c.his[o], FALSE)
      d == [c EXCEPT !.his[o] = a]
  IN IF o = TM THEN [d EXCEPT !.his[o] = Accepted(a, FALSE), !.flushout = FALSE]
     ELSE IF ~AsksChange(a, FALSE) THEN [d EXCEPT !.his[o] = Noted(a, FALSE)]
     ELSE LET e == [d EXCEPT !.his[o] = Accepted(a, FALSE)]
          IN setconnmode(IF a.state THEN Say(e, Neg("DONT", o)) ELSE e)

AcceptedDos ==
  {BINARY, NAWS, TSPEED, LFLOW, TTYPE, SGA, NEW_ENVIRON}
  \cup IF HaveDisplay THEN {XDISPLOC} ELSE {}

\* DO LINEMODE ends kludge linemode, in both branches of dooption; slc_init
\* exports the special characters and ends with setconnmode.
DoLinemode(c) ==
  LET d == AskHis([c EXCEPT !.kludgelinemode = FALSE], SGA, TRUE)
  IN IF c.my[LINEMODE].want
     THEN Say(setconnmode([d EXCEPT !.my[LINEMODE] = Noted(@, TRUE)]), Neg("DO", SGA))
     ELSE setconnmode(Say([d EXCEPT !.my[LINEMODE] = Accepted(@, TRUE)], Neg("WILL", LINEMODE)))

dooption(c, o) ==
  LET a == Answered(c.my[o], TRUE)
      d == [c EXCEPT !.my[o] = a]
  IN IF o = LINEMODE /\ c.hasline /\ a.resp = 0 THEN DoLinemode(d)
     ELSE IF ~AsksChange(a, TRUE) THEN [d EXCEPT !.my[o] = Noted(a, TRUE)]
     ELSE IF o = TM THEN Say([d EXCEPT !.my[o] = Accepted(a, FALSE)], Neg("WILL", o))
     ELSE IF o \in AcceptedDos
          THEN setconnmode(Say([d EXCEPT !.my[o] = Accepted(a, TRUE)], Neg("WILL", o)))
     ELSE Say([d EXCEPT !.my[o] = Refused(a)], Neg("WONT", o))

dontoption(c, o) ==
  LET a == Answered(c.my[o], FALSE)
      d == [c EXCEPT !.my[o] = a]
  IN IF ~AsksChange(a, FALSE) THEN [d EXCEPT !.my[o] = Noted(a, FALSE)]
     ELSE LET e == [d EXCEPT !.my[o] = Accepted(a, FALSE),
                             !.linemode = IF o = LINEMODE THEN {} ELSE @]
          IN setconnmode(IF a.state THEN Say(e, Neg("WONT", o)) ELSE e)

sendnaws(c) == IF c.my[NAWS].state THEN Say(c, Sub(NAWS, c.win)) ELSE c

\* telrcv, cases TS_DO and TS_DONT.
ReceivedDo(c, o) ==
  LET d == dooption(c, o)
  IN IF o = NAWS THEN sendnaws(d)
     ELSE IF o = LFLOW THEN setconnmode([d EXCEPT !.localflow = TRUE])
     ELSE d

ReceivedDont(c, o) == setconnmode(dontoption(c, o))
-----------------------------------------------------------------------------
\* The names are offered in turn; after the last one, the first again.
gettermname(c) == IF c.term > Len(TermNames) THEN 1 ELSE c.term

\* Mutant: the masks add up.
lm_mode_Merged(c, mask, ack, init) ==
  IF ack \/ c.linemode = mask THEN c
  ELSE setconnmode(Say([c EXCEPT !.linemode = @ \cup mask],
                       Sub(LINEMODE, [mode |-> mask, ack |-> ~init])))

\* A mask that is in force already, or that only acknowledges, is left alone.
lm_mode(c, mask, ack, init) ==
  IF ack \/ c.linemode = mask THEN c
  ELSE setconnmode(Say([c EXCEPT !.linemode = mask],
                       Sub(LINEMODE, [mode |-> mask, ack |-> ~init])))

\* What an option is asked to SEND, and is IS.
suboption(c, o, arg) ==
  IF ~c.my[o].want THEN c
  ELSE CASE o = TTYPE ->
              LET k == gettermname(c) IN Say([c EXCEPT !.term = k + 1], Sub(TTYPE, TermNames[k]))
         [] o \in {TSPEED, NEW_ENVIRON} -> Say(c, Sub(o, "is"))
         [] o = XDISPLOC -> IF HaveDisplay THEN Say(c, Sub(o, "is")) ELSE AskMine(c, o, FALSE)
         [] o = LFLOW -> setconnmode([c EXCEPT !.localflow = arg])
         [] o = LINEMODE -> lm_mode(c, arg.mode, arg.ack, FALSE)
         [] OTHER -> c

telrcv(c, m) ==
  CASE m.cmd = "WILL" -> willoption(c, m.opt)
    [] m.cmd = "WONT" -> wontoption(c, m.opt)
    [] m.cmd = "DO" -> ReceivedDo(c, m.opt)
    [] m.cmd = "DONT" -> ReceivedDont(c, m.opt)
    [] m.cmd = "SB" -> suboption(c, m.opt, m.arg)
-----------------------------------------------------------------------------
OfferLinemode(c) == IF c.hasline THEN AskMine(c, LINEMODE, TRUE) ELSE c

\* telnet () on a connection to the telnet port: the opening requests.
telnet(c) ==
  LET a == AskMine(AskMine(AskMine(AskHis(c, SGA, TRUE), TTYPE, TRUE), NAWS, TRUE), TSPEED, TRUE)
      b == AskMine(OfferLinemode(AskMine(a, LFLOW, TRUE)), NEW_ENVIRON, TRUE)
      d == AskHis(b, STATUS, TRUE)
  IN IF HaveDisplay THEN AskMine(d, XDISPLOC, TRUE) ELSE d

dokludgemode(c) ==
  AskHis(AskHis(AskMine([c EXCEPT !.kludgelinemode = TRUE], LINEMODE, FALSE), SGA, FALSE), ECHO, FALSE)

dolinemode(c) ==
  LET d == IF c.kludgelinemode THEN AskHis(c, SGA, FALSE) ELSE c
  IN AskHis(OfferLinemode(d), ECHO, FALSE)

docharmode(c) ==
  LET d == IF c.kludgelinemode THEN AskHis(c, SGA, TRUE) ELSE AskMine(c, LINEMODE, FALSE)
  IN AskHis(d, ECHO, TRUE)

dolmmode(c, bit, on) ==
  IF ~c.my[LINEMODE].want THEN c
  ELSE lm_mode(c, IF on THEN c.linemode \cup {bit} ELSE c.linemode \ {bit}, FALSE, TRUE)

\* Interrupt, abort, AO and suspend with autoflush set.
doflush(c) == Say([c EXCEPT !.flushout = TRUE], Neg("DO", TM))

\* A new window size (SIGWINCH).
sendwin(c, size) == sendnaws([c EXCEPT !.win = size])

logout(c) == AskHis(c, LOGOUT, TRUE)

\* What the user does: the interrupt, quit or flush character, and the commands
\* mode, toggle binary, send do ... and logout.  After a command the terminal
\* goes back to the mode of the connection.
command(c, cmd) ==
  LET d == CASE cmd.name = "mode character" -> docharmode(c)
             [] cmd.name = "mode line" -> dolinemode(c)
             [] cmd.name = "mode kludgeline" -> dokludgemode(c)
             [] cmd.name = "mode edit" -> dolmmode(c, cmd.bit, cmd.on)
             [] cmd.name = "do" -> AskHis(c, cmd.opt, cmd.on)
             [] cmd.name = "will" -> AskMine(c, cmd.opt, cmd.on)
             [] cmd.name = "flush" -> doflush(c)
             [] cmd.name = "logout" -> logout(c)
  IN IF cmd.name = "flush" THEN d ELSE setconnmode(d)
=============================================================================
