------------------------------ MODULE MCRemote ------------------------------
(* Small instances of the r-commands.  One run explores each of the three     *)
(* programs while the other two have ended: they share no state.              *)
EXTENDS Rcp, Rsh, Rlogin

It(k, path, n, arg) == [k |-> k, path |-> path, n |-> n, arg |-> arg]
MCPlans == {<<It("C", "g", 1, TRUE), It("C", "f", 2, TRUE)>>,
            <<It("D", "d", 0, TRUE), It("C", "f", 2, FALSE), It("E", "d", 0, FALSE), It("C", "g", 1, TRUE)>>,
            <<It("D", "d", 0, TRUE), It("C", "g", 0, FALSE), It("E", "d", 0, FALSE)>>,
            <<It("C", "f", 2, TRUE)>>, <<It("C", "f", 3, TRUE)>>, <<It("C", "f", 7, TRUE)>>}

(* Each program after a run that failed. *)
RcpOver ==
  /\ opt = [plan |-> <<It("C", "f", 2, TRUE)>>, local |-> "source", pflag |-> FALSE, iamrecursive |-> FALSE, dflag |-> FALSE]
  /\ disk = [p \in Paths |-> [kind |-> "none", data |-> <<>>, time |-> "old"]]
  /\ src = [pc |-> "exit", at |-> 1, errs |-> 1]
  /\ snk = [pc |-> "exit", stack |-> <<>>, np |-> Targ, size |-> 0, got |-> <<>>, wrerr |-> "no", errs |-> 1]
  /\ up = <<>> /\ down = <<>> /\ cut = TRUE /\ faults = {"cut"} /\ status = [source |-> 1, sink |-> 1]

RshOver ==
  /\ sopt = [daemon |-> "rshd", port |-> FALSE, nflag |-> FALSE, bad |-> "down"]
  /\ cl = [NewClient("rcmd") EXCEPT !.pc = "exit", !.status = 1]
  /\ kid = [pc |-> "none", n |-> 0, shut |-> FALSE] /\ srv = [NewDaemon EXCEPT !.pc = "exit"]
  /\ cmd = cmd_init
  /\ pup = <<>> /\ pdown = <<>> /\ sup = <<>> /\ sdown = <<>> /\ pv = <<>>

RlOver ==
  /\ rlopt = [bad |-> "port", daemon |-> FALSE]
  /\ par = [NewParent EXCEPT !.pc = "exit"] /\ rdr = NewReader /\ term = NewTerminal
  /\ inflight = <<>> /\ arrived = <<>> /\ rlup = <<>>
  /\ rld = [NewRlogind EXCEPT !.pc = "exit"] /\ shl = NewRemote
  /\ fate = [n \in 1 .. MaxUnits |-> "none"] /\ dmn = NewCount

RemoteInit == (RcpInit /\ RshOver /\ RlOver) \/ (RcpOver /\ RshInit /\ RlOver) \/ (RcpOver /\ RshOver /\ RlInit)

RemoteNext ==
  \/ RcpNext /\ UNCHANGED <<rshvars, rlvars>>
  \/ RshNext /\ UNCHANGED <<rcpvars, rlvars>>
  \/ RlNext /\ UNCHANGED <<rcpvars, rshvars>>

RemoteSpec == RemoteInit /\ [][RemoteNext]_<<rcpvars, rshvars, rlvars>> /\ RcpFair /\ RshFair /\ RlFair

(* Each program comes to its end, a signal of the user reaches the command, and *)
(* the remote side learns the size of the window.                               *)
RemoteEnds == RcpEnds /\ RshEnds /\ RshSignalled /\ RlEnds /\ RlWindow
=============================================================================
