----------------------------- MODULE MCBuffers -----------------------------
(***************************************************************************)
(* Buffers and tables whose algorithms are delicate, each on its own: TFTP's *)
(* read-ahead and write-behind (every file of at most MaxFile bytes, in both *)
(* modes), telnet's ring, ping's table of answers and traceroute's probes.   *)
(* While one program works, the others have ended.                           *)
(***************************************************************************)
EXTENDS TftpSubs, Ring, Ping, Traceroute

(* ping -c 3 -l 1, -c 2 with two hosts and, until it is interrupted, ping -l 1. *)
Line(count, preload, hosts) == [count |-> count, preload |-> preload, hosts |-> hosts]
Lines == {Line(3, 1, 1), Line(1, 2, 1), Line(2, 0, 2), Line(0, 1, 1)}

(* A transfer of the empty file that is over. *)
SubsOver ==
  /\ file = <<>> /\ convert = FALSE /\ newline = FALSE /\ rprev = "none" /\ rest = <<>> /\ wire = << <<>> >> /\ got = 1
  /\ rbfs = [i \in {0, 1} |-> [counter |-> 0, data |-> <<>>]] /\ rnext = 1 /\ rcur = 0
  /\ wbfs = Buffers /\ wnext = 0 /\ wcur = 0 /\ wprev = "none" /\ out = <<>>

RingOver ==
  /\ ring = ring_init /\ buf = [i \in Slots |-> NoByte] /\ added = MaxBytes /\ marked = <<>> /\ cipher = FALSE
  /\ toggles = MaxToggles /\ flushing = FALSE /\ brim = FALSE /\ netlog = [i \in 1 .. MaxBytes |-> Sent([NoByte EXCEPT !.n = i], FALSE)]

PingOver ==
  /\ opts = [count |-> 0, preload |-> 0, hosts |-> 1] /\ ping = Reset(1, 1) /\ pc = "exit" /\ pstop = TRUE /\ echoes = {}
  /\ past = [got |-> {}, answered |-> {}, late |-> FALSE, odd |-> MaxOdd]

TraceOver ==
  /\ route = [type |-> "udp", far |-> 0] /\ at = "exit" /\ tstop = FALSE /\ icmp = {}
  /\ trace = [trace_init EXCEPT !.hop = opt_max_hops + 1, !.ttl = opt_max_hops + 1]
  /\ hist = [sent |-> 0, shown |-> {}, strays |-> MaxStrays]

BuffersInit ==
  \/ Init /\ RingOver /\ PingOver /\ TraceOver
  \/ SubsOver /\ RingInit /\ PingOver /\ TraceOver
  \/ SubsOver /\ RingOver /\ PingInit /\ TraceOver
  \/ SubsOver /\ RingOver /\ PingOver /\ TraceInit

BuffersNext ==
  \/ Next /\ UNCHANGED <<ringvars, pingvars, tracevars>>
  \/ RingNext /\ UNCHANGED <<vars, pingvars, tracevars>>
  \/ PingNext /\ UNCHANGED <<vars, ringvars, tracevars>>
  \/ TraceNext /\ UNCHANGED <<vars, ringvars, pingvars>>

SubsFairness == WF_vars(readit) /\ WF_vars(ReceiveBlock)
BuffersSpec ==
  /\ BuffersInit /\ [][BuffersNext]_<<vars, ringvars, pingvars, tracevars>>
  /\ SubsFairness /\ RingFairness /\ PingFairness /\ TraceFairness

(* Each program ends: the transfer, the draining of the ring, ping, traceroute. *)
AllEnd == Completes /\ RingDrains /\ PingEnds /\ TraceEnds
=============================================================================
