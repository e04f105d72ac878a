--------------------------- MODULE MCTelnetSecure ---------------------------
(***************************************************************************)
(* What telnet negotiates: an option as such (TelnetOption), authentication  *)
(* and encryption (TelnetSecure), which are entered by one, and the special  *)
(* characters of line mode (Slc).  The three are separate instances: while   *)
(* one runs, the others have ended.                                          *)
(***************************************************************************)
EXTENDS TelnetOption, TelnetSecure, Slc

MCTypes == <<"cfb", "ofb">>
Disabling(off, autologin, able, good, intact) ==
  [autologin |-> autologin, able |-> able, good |-> good, intact |-> intact, off |-> off]
World(autologin, able, good, intact) == Disabling({}, autologin, able, good, intact)
MCWorlds ==
  {World(FALSE, TRUE, {}, TRUE), World(TRUE, FALSE, {}, TRUE), World(TRUE, TRUE, {}, TRUE),
   World(TRUE, TRUE, {"oneway"}, TRUE), World(TRUE, TRUE, {"mutual"}, FALSE)}
  \cup {World(TRUE, TRUE, {"mutual", "oneway"}, intact) : intact \in BOOLEAN}
  \cup {Disabling(off, TRUE, TRUE, {"mutual"}, TRUE) : off \in {{"cfb"}, {"cfb", "ofb"}}}
MCUserWorlds == {World(TRUE, TRUE, {"mutual", "oneway"}, TRUE)}

OptionOver ==
  willSide = Off /\ doSide = Off /\ toWill = <<>> /\ toDo = <<>> /\ requests = MaxRequests
SecureOver ==
  /\ world = World(FALSE, TRUE, {}, TRUE) /\ phase = "dead" /\ level = "none"
  /\ used = [events |-> 0, retypes |-> 0, lost |-> {}]
  /\ peer = [p \in Peers |-> encrypt_init(p = "server", FALSE, {}, {}) @@ auth_init(FALSE)
                               @@ [hisAuth |-> "changing", hisEnc |-> FALSE]]

(* A function that neither end supports, and nothing happens any more. *)
SlcOver ==
  /\ func = [mylevel |-> SLC_NOSUPPORT, valp |-> FALSE, sptr |-> FALSE, flow |-> FALSE, vdisable |-> 0, tty |-> 0]
  /\ spc = slc_init /\ toserver = <<>> /\ toclient = <<>> /\ acts = [n |-> MaxSlc, last |-> 0, dropped |-> FALSE]
  /\ slctab = [level |-> SLC_NOSUPPORT, val |-> 0, deflevel |-> SLC_DEFAULT, defval |-> 0, termbuf |-> VDISABLE,
               pty |-> VDISABLE, linemode |-> FALSE, terminit |-> TRUE, deferred |-> <<>>, pkt |-> FALSE]

(* The functions: XON and XOFF, which have the most states, only on GNU/Linux. *)
SlcStarts == SlcInit /\ (func.flow => func.vdisable = 0)

NegotiationInit ==
  \/ Init /\ SecureOver /\ SlcOver
  \/ OptionOver /\ SecureInit /\ SlcOver
  \/ OptionOver /\ SecureOver /\ SlcStarts
NegotiationNext ==
  \/ Next /\ UNCHANGED <<svars, slcvars>>
  \/ SecureNext /\ UNCHANGED <<vars, slcvars>>
  \/ SlcNext /\ UNCHANGED <<vars, svars>>
OptionFairness == WF_vars(dooption) /\ WF_vars(willoption)
NegotiationSpec ==
  /\ NegotiationInit /\ [][NegotiationNext]_<<vars, svars, slcvars>>
  /\ OptionFairness /\ SecureFairness /\ SlcFairness

(* Every negotiation comes to an end: no end answers for ever, encryption that  *)
(* both can do starts, and the login is reached.                                *)
NegotiationsEnd == Settles /\ EncStarts /\ LoginComes /\ SlcSettles
=============================================================================
