------------------------------- MODULE Telnet -------------------------------
(***************************************************************************)
(* A telnet session: the client (TelnetClient) and telnetd (TelnetServer)  *)
(* over the two directions of a TCP connection, with the user who gives    *)
(* commands and resizes the window, and the program on the pty that        *)
(* changes the terminal's modes.                                           *)
(***************************************************************************)
EXTENDS TelnetState

CONSTANTS
  TermNames, HaveDisplay,                              \* see TelnetClient
  LinemodeClients,  \* whether the client knows LINEMODE: a subset of BOOLEAN
  KnownNames, AlwaysLinemode, NoKludge, HaveTIOCEXT,   \* see TelnetServer
  Commands,    \* the commands the user may give
  Windows,     \* the window sizes the user may choose
  TtyChanges,  \* the modes the program on the pty may change
  MaxCommands, MaxChanges  \* bounds on both

ASSUME TelnetAssumption ==
  /\ Len(TermNames) > 0
  /\ HaveDisplay \in BOOLEAN /\ LinemodeClients \subseteq BOOLEAN /\ AlwaysLinemode \in BOOLEAN
  /\ NoKludge \in BOOLEAN /\ HaveTIOCEXT \in BOOLEAN
  /\ MaxCommands \in Nat /\ MaxChanges \in Nat

VARIABLES c, s, toServer, toClient, commands, changes

vars == <<c, s, toServer, toClient, commands, changes>>

C == INSTANCE TelnetClient
S == INSTANCE TelnetServer

\* What an end has written goes to the network.
ClientBecomes(x) == c' = [x EXCEPT !.out = <<>>] /\ toServer' = toServer \o x.out
ServerBecomes(x) == s' = [x EXCEPT !.out = <<>>] /\ toClient' = toClient \o x.out

Init ==
  /\ \E hasline \in LinemodeClients : \E x \in {C!telnet(C!Start(hasline))} :
       c = [x EXCEPT !.out = <<>>] /\ toServer = x.out
  /\ \E y \in {S!getterminaltype(S!Start)} :
       s = [y EXCEPT !.out = <<>>] /\ toClient = y.out
  /\ commands = 0 /\ changes = 0

\* The client processes the next command from the network.
ClientReceives ==
  /\ toClient # <<>>
  /\ \E x \in {C!telrcv(c, Head(toClient))} :
       c' = [x EXCEPT !.out = <<>>] /\ toServer' = toServer \o x.out
  /\ toClient' = Tail(toClient)
  /\ UNCHANGED <<s, commands, changes>>

\* telnetd processes the next command, in a ttloop or in its processing loop.
\* It was read alone or together with commands that follow it (more).
CanReceive == toServer # <<>> /\ s.pc # "gone" /\ (s.reading \/ S!Waits(s))

ServerReceives(more) ==
  /\ CanReceive
  /\ more => Len(toServer) > 1
  /\ \E x \in {S!telrcv(s, Head(toServer))} : ServerBecomes([x EXCEPT !.reading = more])
  /\ toServer' = Tail(toServer)
  /\ UNCHANGED <<c, commands, changes>>

\* The condition of the ttloop is false: telnetd goes on.
CanAdvance == s.pc \notin {"run", "gone"} /\ ~s.reading /\ ~S!Waits(s)

ServerAdvances ==
  /\ CanAdvance
  /\ \E x \in {S!Advance(s)} : ServerBecomes(x)
  /\ UNCHANGED <<c, toServer, commands, changes>>

UserCommand(cmd) ==
  /\ commands < MaxCommands
  /\ \E x \in {C!command(c, cmd)} : ClientBecomes(x)
  /\ commands' = commands + 1
  /\ UNCHANGED <<s, toClient, changes>>

UserResizes(size) ==
  /\ commands < MaxCommands /\ size # c.win
  /\ ClientBecomes(C!sendwin(c, size))
  /\ commands' = commands + 1
  /\ UNCHANGED <<s, toClient, changes>>

\* The program on the pty changes a mode of the terminal.
ProgramSets(field) ==
  /\ s.open /\ s.pc # "gone" /\ changes < MaxChanges
  /\ s' = S!tcsetattr(s, [s.tty EXCEPT ![field] = ~@])
  /\ changes' = changes + 1
  /\ UNCHANGED <<c, toServer, toClient, commands>>

\* The processing loop of telnetd finds a packet from the pty.
CanReadPty == s.pc = "run" /\ ~s.reading /\ (s.pkt \/ s.pktflow)

ServerReadsPty ==
  /\ CanReadPty
  /\ \E x \in {S!pty_read(s)} : ServerBecomes(x)
  /\ UNCHANGED <<c, toServer, commands, changes>>

Next ==
  \/ ClientReceives \/ ServerAdvances \/ ServerReadsPty
  \/ \E more \in BOOLEAN : ServerReceives(more)
  \/ \E cmd \in Commands : UserCommand(cmd)
  \/ \E size \in Windows : UserResizes(size)
  \/ \E field \in TtyChanges : ProgramSets(field)

Spec == Init /\ [][Next]_vars

\* Weak fairness of the steps of the two programs: both keep reading their
\* connection, and telnetd its pty.  The enabling conditions are written out;
\* each of the steps changes the state.
FairSpec ==
  /\ Spec
  /\ []<>(toClient = <<>>) \/ []<><<ClientReceives>>_vars
  /\ []<>~CanReceive \/ []<><<\E more \in BOOLEAN : ServerReceives(more)>>_vars
  /\ []<>~CanAdvance \/ []<><<ServerAdvances>>_vars
  /\ []<>~CanReadPty \/ []<><<ServerReadsPty>>_vars
-----------------------------------------------------------------------------
(* Quiet: the session runs, nothing is in flight and the server has read    *)
(* all that the pty had to report.                                          *)
Quiet == s.pc = "run" /\ toServer = <<>> /\ toClient = <<>> /\ ~s.pkt /\ ~s.pktflow

\* The ends want the same of every option, whichever requests and commands
\* crossed.  TM is not an option to agree on: its answers are events.
OptionsAgree ==
  Quiet => \A o \in Options \ {TM} :
             c.my[o].want = s.his[o].want /\ c.his[o].want = s.my[o].want

\* Outside the command prompt the client's terminal is in the mode that its
\* options call for: no handler changes one without the other.
ModeCurrent == c.mode # {"command"} => c.mode = C!getconnmode(c)

\* telnetd leaves every ttloop of the start of a session, however the client's
\* own requests cross its requests, and the exchange ends: the two programs
\* neither wait for nor answer each other for ever.
Settles == <>[](Quiet \/ s.pc = "gone")

\* When the login program is started, getterminaltype has settled on a name
\* that its data base knows if the client offers one, and else on the first.
TerminalTypeChosen ==
  s.pc = "slave" /\ s.his[TTYPE].state =>
    IF \E i \in DOMAIN TermNames : TermNames[i] \in KnownNames
    THEN s.terminaltype \in KnownNames
    ELSE s.terminaltype = TermNames[1]

\* The window size of the client reaches the pty, also when it arrived before
\* the pty was set up.
WindowKnown == Quiet /\ c.my[NAWS].state /\ s.his[NAWS].state => s.win = c.win

\* Kludge line mode has no option of its own, SGA stands for it: the client
\* edits lines only if the server is in line mode, and does so if the pty's
\* program wants them edited.
KludgeIsSga ==
  Quiet /\ s.lmodetype = S!KLUDGE_LINEMODE =>
    /\ ~s.my[SGA].want => s.linemode
    /\ s.linemode /\ s.tty.edit => ~s.my[SGA].want

\* telnetd/termstat.c says of linemode: "In real linemode, this corresponds to
\* whether the pty expects external processing of incoming data".  It does where
\* TIOCEXT exists.
LinemodeIsExternal == Quiet /\ s.lmodetype = S!REAL_LINEMODE => s.linemode = s.tty.ext

\* In real line mode both ends edit and trap signals alike, as the pty's modes
\* say, unless the user changes them.
EditModesAgree ==
  Quiet /\ s.linemode /\ s.lmodetype = S!REAL_LINEMODE =>
    c.linemode = s.editmode /\ s.editmode = S!EditMask(s.tty)

\* A program that turns echo off, to read a password, turns off the echo at the
\* client, where lines are edited, too.
PasswordHidden == Quiet /\ ~s.tty.echo => "echo" \notin c.mode

\* What the user types is not echoed by both the pty and the client.
EchoedOnce == Quiet /\ s.tty.echo /\ ~s.tty.ext => "echo" \notin c.mode

\* The interrupt character of the user discards output "until the remote end
\* acknowledges (via a TELNET TIMING MARK option) that it has processed" it
\* (telnet.1): when nothing is in flight any more, output is shown again, unless
\* the user has also sent a DO TM by hand: its answer, booked as an agreement,
\* does not end the discarding.
OutputResumes == Quiet /\ c.flushout => c.his[TM].want

\* When a session has started, telnetd knows the terminal type and the window.
StartKnows == TerminalTypeChosen /\ WindowKnown

\* When nothing is in flight the client is in the modes of the pty: it edits and
\* echoes what the program wants edited and echoed, once, and no password.
ModesFollow == EditModesAgree /\ PasswordHidden /\ EchoedOnce

\* What the server starts with and what it changes later both reach the other
\* side (gettermname, defer_terminit, lm_mode and tty_setlinemode).
SessionHolds == StartKnows /\ ModesFollow

\* Every mode of either end follows from the options and the pty as they are now.
ModesCurrent == ModeCurrent /\ LinemodeIsExternal /\ KludgeIsSga /\ OutputResumes
=============================================================================
