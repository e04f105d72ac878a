------------------------------ MODULE MCTelnet ------------------------------
(* Instances of Telnet for TLC. *)
EXTENDS Telnet
MCNames == <<"xterm", "vt100", "vt100">>
NoCommands == {}
ModeCommands ==
  {[name |-> "mode character"], [name |-> "mode line"], [name |-> "mode kludgeline"]}
  \cup [name : {"mode edit"}, bit : {"edit", "trapsig"}, on : BOOLEAN]
\* With binary mode on and off, the interrupt character, a timing mark by hand and
\* the end of a session.
AllCommands ==
  ModeCommands
  \cup [name : {"do"}, opt : {BINARY}, on : BOOLEAN]
  \cup {[name |-> "do", opt |-> TM, on |-> TRUE], [name |-> "flush"], [name |-> "logout"]}
=============================================================================
