---------------------------- MODULE TelnetOption ----------------------------
(***************************************************************************)
(* One TELNET option in one direction, between the end that performs it    *)
(* (WILL and WONT) and the end that has it performed (DO and DONT), over   *)
(* the two directions of a TCP connection.  Both ends run the same state   *)
(* machine: telnet/telnet.c and telnetd/state.c have one copy each.        *)
(* WillAccepts and DoAccepts say whether an end agrees to a positive       *)
(* request of the peer; negative ones are always agreed to.                *)
(***************************************************************************)
EXTENDS TelnetState

CONSTANTS
  WillAccepts, DoAccepts,  \* the peer's positive requests are agreed to
  MaxRequests              \* bound on the requests the two ends originate

ASSUME OptionAssumption ==
  WillAccepts \in BOOLEAN /\ DoAccepts \in BOOLEAN /\ MaxRequests \in Nat

VARIABLES
  willSide, doSide,  \* the halves of the two ends
  toWill, toDo,      \* DO (TRUE) and DONT, WILL (TRUE) and WONT in flight
  requests           \* requests originated so far

vars == <<willSide, doSide, toWill, toDo, requests>>

Init ==
  /\ willSide = Off /\ doSide = Off
  /\ toWill = <<>> /\ toDo = <<>>
  /\ requests = 0
-----------------------------------------------------------------------------
\* A command of the user, a mode change of the terminal or the startup code
\* calls send_will or send_wont with init set ...
send_will(new) ==
  /\ requests < MaxRequests /\ MayRequest(willSide, new)
  /\ willSide' = Requested(willSide, new)
  /\ toDo' = Append(toDo, new)
  /\ requests' = requests + 1
  /\ UNCHANGED <<doSide, toWill>>

\* ... or send_do or send_dont.
send_do(new) ==
  /\ requests < MaxRequests /\ MayRequest(doSide, new)
  /\ doSide' = Requested(doSide, new)
  /\ toWill' = Append(toWill, new)
  /\ requests' = requests + 1
  /\ UNCHANGED <<willSide, toDo>>

\* Mutant: a positive command is answered even if it is the answer itself.
Positive_Always(h, accepts) ==
  LET a == Answered(h, TRUE) IN
  IF accepts THEN [half |-> Accepted(a, TRUE), reply |-> <<TRUE>>]
  ELSE [half |-> Refused(a), reply |-> <<FALSE>>]

\* What an end in state h becomes, and what it sends, on a positive command ...
Positive(h, accepts) ==
  LET a == Answered(h, TRUE) IN
  IF ~AsksChange(a, TRUE) THEN [half |-> Noted(a, TRUE), reply |-> <<>>]
  ELSE IF accepts THEN [half |-> Accepted(a, TRUE), reply |-> <<TRUE>>]
  ELSE [half |-> Refused(a), reply |-> <<FALSE>>]

\* ... and on a negative one, which is acknowledged only if the option was on.
Negative(h) ==
  LET a == Answered(h, FALSE) IN
  IF ~AsksChange(a, FALSE) THEN [half |-> Noted(a, FALSE), reply |-> <<>>]
  ELSE [half |-> Accepted(a, FALSE), reply |-> IF h.state THEN <<FALSE>> ELSE <<>>]

Handled(h, new, accepts) == IF new THEN Positive(h, accepts) ELSE Negative(h)

\* dooption and dontoption.
dooption ==
  /\ toWill # <<>>
  /\ LET r == Handled(willSide, Head(toWill), WillAccepts) IN
       /\ willSide' = r.half
       /\ toDo' = toDo \o r.reply
  /\ toWill' = Tail(toWill)
  /\ UNCHANGED <<doSide, requests>>

\* willoption and wontoption.
willoption ==
  /\ toDo # <<>>
  /\ LET r == Handled(doSide, Head(toDo), DoAccepts) IN
       /\ doSide' = r.half
       /\ toWill' = toWill \o r.reply
  /\ toDo' = Tail(toDo)
  /\ UNCHANGED <<willSide, requests>>

Next ==
  \/ \E new \in BOOLEAN : send_will(new) \/ send_do(new)
  \/ dooption \/ willoption

Spec == Init /\ [][Next]_vars

\* Both programs keep reading the connection.
FairSpec == Spec /\ WF_vars(dooption) /\ WF_vars(willoption)
-----------------------------------------------------------------------------
TypeOK ==
  /\ willSide \in Half /\ doSide \in Half
  /\ toWill \in Seq(BOOLEAN) /\ toDo \in Seq(BOOLEAN)
  /\ requests \in Nat

Quiet == toWill = <<>> /\ toDo = <<>>

\* When no command is in flight, two ends that accept the option agree on it,
\* and neither waits for an answer: the counters do_dont_resp and
\* will_wont_resp of telnet.c and state.c come back to 0 however the requests
\* of the two ends crossed.
Agreement ==
  WillAccepts /\ DoAccepts /\ Quiet =>
    /\ doSide = willSide
    /\ willSide.state = willSide.want /\ willSide.resp = 0

\* Negotiation ends: the ends do not answer each other for ever.
Settles == <>[]Quiet
-----------------------------------------------------------------------------
(* The inductive invariant behind Agreement.  Every command an end sends    *)
(* flips what it wants, so the commands in flight alternate and end with    *)
(* the sender's wish, and the receiver's state is the opposite of the first *)
(* of them.  Each request and each answer is paid for by one outstanding    *)
(* response, and the parity of the commands and responses tells whether the *)
(* two wishes are equal.                                                    *)
Flip(b, n) == IF n % 2 = 0 THEN b ELSE ~b

InFlight(c, want, peerState) ==
  /\ \A i \in 1..Len(c) : c[i] = Flip(want, Len(c) - i)
  /\ peerState = Flip(want, Len(c))

\* x sends cx to y, y sends cy to x.
Balanced(x, y, cx, cy) ==
  /\ InFlight(cx, x.want, y.state)
  /\ InFlight(cy, y.want, x.state)
  /\ x.resp + y.resp = Len(cx) + Len(cy)
  /\ y.want = Flip(x.want, Len(cx) + y.resp)

OptionInv == WillAccepts /\ DoAccepts => Balanced(willSide, doSide, toDo, toWill)
=============================================================================
