----------------------------- MODULE Traceroute -----------------------------
(***************************************************************************)
(* traceroute: hop after hop, a number of probes that die there, and what    *)
(* the raw socket reads in the meantime: answers to this probe, to an        *)
(* earlier one, and to other programs.                                       *)
(***************************************************************************)
EXTENDS Naturals, FiniteSets

CONSTANTS
  opt_max_hops, opt_max_tries,
  opt_port,            \* of the first hop's probes; ports have PortMod values
  PortMod,
  Distances,           \* how far the destination may be; 0 when it never answers
  MaxStrays            \* bounds the packets for other programs

\* opt_max_hops is 64, and a port has 16 bits.
ASSUME TraceAssumption ==
  /\ opt_max_hops \in 1 .. 255 /\ opt_max_tries \in Nat \ {0}
  /\ PortMod \in Nat /\ opt_max_hops <= PortMod /\ opt_port \in 0 .. PortMod - 1
  /\ Distances \subseteq Nat /\ MaxStrays \in Nat

VARIABLES
  route,               \* the method and the distance of the destination
  trace,               \* trace_t and the variables of main and do_try
  at,                  \* where the program is
  tstop,               \* stop
  icmp,                \* packets that the raw socket has or will get
  hist                 \* history: probes of this hop, answers shown, strays

tracevars == <<route, trace, at, tstop, icmp, hist>>

TRACE_TTL == 1
Methods == {"icmp", "udp"}

----------------------------------------------------------------------------
trace_init == [hop |-> 1, ttl |-> TRACE_TTL, port |-> opt_port, tries |-> 0, readonly |-> FALSE]

TraceInit ==
  /\ route \in [type : Methods, far : Distances]
  /\ trace = trace_init /\ at = "try" /\ tstop = FALSE /\ icmp = {}
  /\ hist = [sent |-> 0, shown |-> {}, strays |-> 0]

(* What the network makes of a probe: the router where it dies, or the        *)
(* destination, answers; the answer quotes the port but not the hop.          *)
Answer ==
  LET there == route.far # 0 /\ trace.ttl >= route.far
  IN [from |-> IF there THEN "dest" ELSE "router",
      type |-> IF ~there THEN "TIME_EXCEEDED" ELSE IF route.type = "udp" THEN "PORT_UNREACH" ELSE "ECHOREPLY",
      port |-> trace.port, hop |-> trace.hop, n |-> hist.sent]

(* trace_write, and the answer that may be lost. *)
trace_write ==
  /\ hist' = [hist EXCEPT !.sent = @ + 1]
  /\ icmp' \in {icmp, icmp \cup {Answer}}

Try ==
  /\ at = "try" /\ trace.tries < opt_max_tries
  /\ IF trace.readonly THEN UNCHANGED <<icmp, hist>> ELSE trace_write
  /\ at' = "select" /\ UNCHANGED <<route, trace, tstop>>

(* Mutant: a try that is interrupted is not counted. *)
SameTry(t) == [t EXCEPT !.readonly = TRUE]

NextTry(t) == [t EXCEPT !.tries = @ + 1, !.readonly = FALSE]

(* select returns 0, or is interrupted. *)
Expires ==
  /\ at = "select" /\ at' = "try" /\ trace' = NextTry(trace)
  /\ UNCHANGED <<route, tstop, icmp, hist>>

(* Mutant: the port that the packet quotes is not compared. *)
AnyPort(m) ==
  m.type \in IF route.type = "udp" THEN {"TIME_EXCEEDED", "PORT_UNREACH"} ELSE {"TIME_EXCEEDED", "ECHOREPLY", "theirs"}

(* trace_read: is the packet one of ours?  With ICMP the number of the process *)
(* should tell, but it is always 0, so that another traceroute's answers are   *)
(* taken as well (type "theirs").                                             *)
trace_read(m) ==
  IF route.type = "udp" THEN m.type \in {"TIME_EXCEEDED", "PORT_UNREACH"} /\ m.port = trace.port
  ELSE m.type \in {"TIME_EXCEEDED", "ECHOREPLY", "theirs"}

(* Mutant: any packet that is ours ends the trace. *)
StopsAlways(m) == TRUE

(* "Ugly hack": the destination has answered. *)
Stops(m) == IF route.type = "udp" THEN m.type = "PORT_UNREACH" ELSE m.from = "dest"

(* Mutant: after a packet for someone else the probe is sent again. *)
SendAgain(m) == IF trace_read(m) THEN NextTry(trace) ELSE trace

AfterRead(m) == IF trace_read(m) THEN NextTry(trace) ELSE [trace EXCEPT !.readonly = TRUE]

Read ==
  /\ at = "select" /\ at' = "try"
  /\ \E m \in icmp :
       /\ icmp' = icmp \ {m} /\ trace' = AfterRead(m)
       /\ tstop' = (tstop \/ (trace_read(m) /\ Stops(m)))
       /\ hist' = IF trace_read(m) THEN [hist EXCEPT !.shown = @ \cup {[at |-> trace.hop, of |-> m]}] ELSE hist
  /\ UNCHANGED route

(* Packets for other programs, another traceroute among them. *)
Stray ==
  /\ at # "exit" /\ hist.strays < MaxStrays
  /\ \E type \in {"other", "theirs"} :
       icmp' = icmp \cup {[from |-> "stranger", type |-> type, port |-> PortMod, hop |-> 0, n |-> hist.strays]}
  /\ hist' = [hist EXCEPT !.strays = @ + 1] /\ UNCHANGED <<route, trace, at, tstop>>

trace_inc_ttl(t) == [t EXCEPT !.ttl = (@ + 1) % 256]

(* Mutant: the probes of all hops go to one port. *)
SamePort(t) == t

trace_inc_port(t) == IF route.type = "udp" THEN [t EXCEPT !.port = (@ + 1) % PortMod] ELSE t

NextHop ==
  /\ at = "try" /\ trace.tries = opt_max_tries
  /\ trace' = [trace_inc_port(trace_inc_ttl(trace)) EXCEPT !.hop = @ + 1, !.tries = 0]
  /\ at' = IF tstop \/ trace.hop = opt_max_hops THEN "exit" ELSE "try"
  /\ hist' = [hist EXCEPT !.sent = 0] /\ UNCHANGED <<route, tstop, icmp>>

Traces == Try \/ Expires \/ Read \/ NextHop
TraceNext == Traces \/ Stray

TraceFairness == WF_tracevars(Traces)
TraceSpec == TraceInit /\ [][TraceNext]_tracevars /\ TraceFairness

----------------------------------------------------------------------------
(* Types, and each try has sent one probe, however many packets of others     *)
(* were read in it.                                                           *)
TraceTypeOK ==
  /\ trace.hop \in 1 .. opt_max_hops + 1 /\ trace.tries \in 0 .. opt_max_tries
  /\ trace.ttl = trace.hop % 256 /\ trace.port \in 0 .. PortMod - 1
  /\ at \in {"try", "select", "exit"} /\ tstop \in BOOLEAN
  /\ at # "exit" => hist.sent = trace.tries + IF at = "select" \/ trace.readonly THEN 1 ELSE 0

(* With UDP an answer is shown at the hop whose probe it answers, however late *)
(* it is (with ICMP it is not: nothing in the probe tells the hops apart).     *)
Attribution == route.type = "udp" => \A s \in hist.shown : s.of.hop = s.at

(* traceroute stops where the destination is, not before it and, unless all   *)
(* its answers were lost or late, not behind it.                              *)
StopsThere == tstop => route.far # 0 /\ trace.hop >= route.far

(* Packets for other programs restart the wait but do not keep it from ending. *)
TraceEnds == <>(at = "exit")

(* Answers are shown for the hop that sent them, and the route ends there.      *)
RouteTrue == TraceTypeOK /\ Attribution /\ StopsThere
=============================================================================
