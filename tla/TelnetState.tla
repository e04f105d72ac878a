----------------------------- MODULE TelnetState -----------------------------
(***************************************************************************)
(* What telnet and telnetd share: the bookkeeping of one option in one     *)
(* direction, which telnetd/state.c attributes to Dave Borman's option     *)
(* processing state machine, and the commands they exchange.               *)
(*                                                                         *)
(* A half is what one end keeps about an option in one direction: the last *)
(* negotiated state, the wanted state and the number of requests that wait *)
(* for an answer (do_dont_resp, will_wont_resp).  TRUE stands for WILL on  *)
(* the side that performs the option and for DO on the other side.  The    *)
(* halves of an end are in e.my (its own WILL/WONT) and e.his (its DO/DONT *)
(* about the peer); e.out collects what the end writes to the network.     *)
(***************************************************************************)
EXTENDS Naturals, Sequences

BINARY == "BINARY"
ECHO == "ECHO"
SGA == "SGA"
STATUS == "STATUS"
TM == "TM"
LOGOUT == "LOGOUT"
TTYPE == "TTYPE"
NAWS == "NAWS"
TSPEED == "TSPEED"
LFLOW == "LFLOW"
LINEMODE == "LINEMODE"
XDISPLOC == "XDISPLOC"
OLD_ENVIRON == "OLD_ENVIRON"
NEW_ENVIRON == "NEW_ENVIRON"

Options == {BINARY, ECHO, SGA, STATUS, TM, LOGOUT, TTYPE, NAWS, TSPEED, LFLOW,
            LINEMODE, XDISPLOC, OLD_ENVIRON, NEW_ENVIRON}

Half == [state : BOOLEAN, want : BOOLEAN, resp : Nat]

Off == [state |-> FALSE, want |-> FALSE, resp |-> 0]

\* Mutant: only the negotiated state is looked at, not the pending request.
MayRequest_Pending(h, new) == h.state # new

\* The four send_ functions with init set: a request is sent unless the wanted
\* state is the new one already, or the new one is in force and undisputed.
MayRequest(h, new) == ~ (h.resp = 0 /\ h.state = new) /\ h.want # new

Requested(h, new) == [h EXCEPT !.want = new, !.resp = @ + 1]

\* Mutant: the counter is taken to be positive.
Answered_Always(h, new) == [h EXCEPT !.resp = @ - 1]

\* The first lines of willoption, wontoption, dooption and dontoption.
Answered(h, new) ==
  [h EXCEPT !.resp = IF @ = 0 THEN 0 ELSE IF @ > 1 /\ h.state = new THEN @ - 2 ELSE @ - 1]

\* Mutant: a command that crossed this end's own request counts as a request.
AsksChange_Crossed(h, new) == h.want # new

\* After that: the peer asks for a change that this end did not ask for.
AsksChange(h, new) == h.resp = 0 /\ h.want # new

Accepted(h, new) == [h EXCEPT !.want = new, !.state = new]

\* A refused request leaves the state positive and the refusal unanswered.
Refused(h) == [h EXCEPT !.resp = @ + 1, !.state = TRUE]

Noted(h, new) == [h EXCEPT !.state = new]

\* Commands on the wire.  A sub-negotiation carries one argument.
Neg(cmd, o) == [cmd |-> cmd, opt |-> o]
Sub(o, arg) == [cmd |-> "SB", opt |-> o, arg |-> arg]

Say(e, m) == [e EXCEPT !.out = Append(@, m)]

\* A request with init set about the peer's (DO, DONT) or this end's own
\* (WILL, WONT) use of option o.
AskHis(e, o, new) ==
  IF MayRequest(e.his[o], new)
  THEN Say([e EXCEPT !.his[o] = Requested(@, new)], Neg(IF new THEN "DO" ELSE "DONT", o))
  ELSE e

AskMine(e, o, new) ==
  IF MayRequest(e.my[o], new)
  THEN Say([e EXCEPT !.my[o] = Requested(@, new)], Neg(IF new THEN "WILL" ELSE "WONT", o))
  ELSE e
==============================================================================
