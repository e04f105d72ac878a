--------------------------------- MODULE Rsh ---------------------------------
(***************************************************************************)
(* A remote command: rsh (with rcmd, or kcmd where Kerberos is built in)    *)
(* and rshd, or a client of rexecd and rexecd.  Five processes: rsh, the    *)
(* copy of it that reads the input, the daemon, which stays on as the       *)
(* control process, and the command.  The primary connection carries pup    *)
(* and pdown; the second one carries signals (sup) and the error output     *)
(* (sdown), which the control process takes from a pipe (pv).               *)
(***************************************************************************)
EXTENDS Integers, Sequences, FiniteSets

CONSTANTS
  ServerFaults, \* what is wrong at the server, at most one of them in a run
  MaxIn,        \* units of input the user types
  MaxOut        \* units the command writes to each of its outputs

ASSUME RshAssumption == MaxIn \in Nat /\ MaxOut \in Nat

VARIABLES sopt, cl, kid, srv, cmd, pup, pdown, sup, sdown, pv

rshvars == <<sopt, cl, kid, srv, cmd, pup, pdown, sup, sdown, pv>>

RetryMax == 4        \* the limit of timo in kcmd

(* What rshd, or rexecd, refuses with a message; nothing has been run then. *)
Refusals == IF sopt.daemon = "rshd" THEN {"mismatch", "unknown", "denied", "nologin"} ELSE {"unknown", "denied"}
Bad(x) == sopt.bad = x

----------------------------------------------------------------------------
(* The client.                                                             *)
ClientGone == cl.pc = "exit"
ServerGone == srv.pc = "exit"
CmdGone == cmd.pc \in {"none", "exit"}

NewClient(lib) ==
  [pc |-> "connect", lib |-> lib, timo |-> 1, rem |-> FALSE, rfd2 |-> FALSE, out |-> <<>>, err |-> <<>>,
   signalled |-> FALSE, killed |-> FALSE, status |-> 0]
NewDaemon == [pc |-> "start", conn2 |-> FALSE, s |-> FALSE, pv |-> FALSE, shut |-> FALSE]

ClientOnly == UNCHANGED <<sopt, srv, cmd, pv>>

(* rcmd has failed: rsh exits.  kcmd has failed: rsh will try rcmd. *)
Lost == IF cl.lib = "kcmd" THEN [cl EXCEPT !.pc = "failed"] ELSE [cl EXCEPT !.pc = "exit", !.status = 1]

Connect ==
  /\ cl.pc = "connect" /\ ~Bad("down")
  /\ pup' = pup \o (IF sopt.port THEN <<"port">> ELSE <<"port", "strings">>)
  /\ cl' = [cl EXCEPT !.pc = IF sopt.port THEN "accept" ELSE "auth"]
  /\ UNCHANGED <<kid, pdown, sup, sdown>> /\ ClientOnly

(* Mutant: the limit is never reached. *)
Retry_always == TRUE

Retry == cl.timo <= RetryMax

(* The connection is refused: it is tried again, as long as timo is small. *)
ConnectRefused ==
  /\ cl.pc = "connect" /\ Bad("down")
  /\ cl' = IF Retry THEN [cl EXCEPT !.timo = 2 * @] ELSE Lost
  /\ UNCHANGED <<kid, pup, pdown, sup, sdown>> /\ ClientOnly

(* The second attempt: standard rcmd, a new connection and a new daemon. *)
try_connect ==
  /\ cl.pc = "failed"
  /\ cl' = NewClient("rcmd") /\ srv' = NewDaemon
  /\ pup' = <<>> /\ pdown' = <<>>
  /\ UNCHANGED <<sopt, kid, cmd, sup, sdown, pv>>

(* The daemon connects back; kcmd waits for that in accept, rcmd notices    *)
(* that the daemon has gone.                                                *)
Accept ==
  /\ cl.pc = "accept"
  /\ \/ srv.conn2 /\ cl' = [cl EXCEPT !.pc = "auth", !.rfd2 = TRUE] /\ pup' = Append(pup, "strings")
     \/ ServerGone /\ ~srv.conn2 /\ cl.lib # "kcmd" /\ cl' = Lost /\ UNCHANGED pup
  /\ UNCHANGED <<kid, pdown, sup, sdown>> /\ ClientOnly

Eof(q, gone) == q = <<>> /\ gone
PdownEof == Eof(pdown, srv.pc \in {"control", "exit"} /\ CmdGone)

(* The first byte is the verdict; rsh then starts its copy for the input. *)
Verdict ==
  /\ cl.pc = "auth"
  /\ \/ PdownEof /\ cl' = Lost /\ UNCHANGED <<kid, pdown>>
     \/ /\ pdown # <<>> /\ pdown' = Tail(pdown)
        /\ IF Head(pdown) = "nul"
           THEN cl' = [cl EXCEPT !.pc = "talk", !.rem = TRUE] /\ kid' = [kid EXCEPT !.pc = IF sopt.nflag THEN "done" ELSE "read"]
           ELSE cl' = Lost /\ UNCHANGED kid
  /\ UNCHANGED <<pup, sup, sdown>> /\ ClientOnly

(* The parent in talk: both descriptors until both have ended. *)
TalkErr ==
  /\ cl.pc = "talk" /\ cl.rfd2
  /\ \/ sdown # <<>> /\ sdown' = Tail(sdown) /\ cl' = [cl EXCEPT !.err = Append(@, Head(sdown))]
     \/ Eof(sdown, srv.shut \/ ServerGone) /\ cl' = [cl EXCEPT !.rfd2 = FALSE] /\ UNCHANGED sdown
  /\ UNCHANGED <<kid, pup, pdown, sup>> /\ ClientOnly

TalkOut ==
  /\ cl.pc = "talk" /\ cl.rem
  /\ \/ pdown # <<>> /\ pdown' = Tail(pdown) /\ cl' = [cl EXCEPT !.out = Append(@, Head(pdown))]
     \/ PdownEof /\ cl' = [cl EXCEPT !.rem = FALSE] /\ UNCHANGED pdown
  /\ UNCHANGED <<kid, pup, sup, sdown>> /\ ClientOnly

(* Mutant: the loop ends with the output. *)
TalkOver_out == cl.pc = "talk" /\ ~cl.rem

TalkOver == cl.pc = "talk" /\ ~cl.rem /\ ~cl.rfd2

TalkDone ==
  /\ TalkOver
  /\ cl' = [cl EXCEPT !.pc = "exit", !.status = 0]
  /\ kid' = [kid EXCEPT !.pc = "done"]
  /\ UNCHANGED <<pup, pdown, sup, sdown>> /\ ClientOnly

(* The copy: reads the input, writes it, and closes that half at the end. *)
KidRead ==
  /\ kid.pc = "read"
  /\ \/ kid.n < MaxIn /\ kid' = [kid EXCEPT !.pc = "write", !.n = @ + 1]
     \/ kid' = [kid EXCEPT !.pc = "done", !.shut = TRUE]
  /\ UNCHANGED <<cl, pup, pdown, sup, sdown>> /\ ClientOnly

KidWrite ==
  /\ kid.pc = "write"
  /\ \/ ~(ServerGone /\ CmdGone) /\ pup' = Append(pup, "in") /\ kid' = [kid EXCEPT !.pc = "read"]
     \/ CmdGone /\ kid' = [kid EXCEPT !.pc = "done", !.shut = TRUE] /\ UNCHANGED pup
  /\ UNCHANGED <<cl, pdown, sup, sdown>> /\ ClientOnly

(* The user interrupts: sendsig, once talk lets signals through. *)
sendsig ==
  /\ cl.pc = "talk" /\ sopt.port /\ ~cl.signalled
  /\ cl' = [cl EXCEPT !.signalled = TRUE]
  /\ sup' = IF srv.shut \/ ServerGone THEN sup ELSE Append(sup, "INT")
  /\ UNCHANGED <<kid, pup, pdown, sdown>> /\ ClientOnly

(* rsh is killed: before talk by an interrupt, later by another signal. *)
ClientKilled ==
  /\ cl.pc # "exit"
  /\ cl' = [cl EXCEPT !.pc = "exit", !.status = 1, !.killed = TRUE]
  /\ UNCHANGED <<kid, pup, pdown, sup, sdown>> /\ ClientOnly

----------------------------------------------------------------------------
(* The daemon.                                                             *)
ServerOnly == UNCHANGED <<sopt, cl, kid>>
PupGone == ClientGone /\ kid.pc \in {"none", "done"}
SrvExit(s) == [s EXCEPT !.pc = "exit"]

DoitStart ==
  /\ srv.pc = "start" /\ cl.pc \in {"accept", "auth"}
  /\ srv' = IF Bad("illegal") /\ sopt.daemon = "rshd" THEN SrvExit(srv) ELSE [srv EXCEPT !.pc = "port"]
  /\ UNCHANGED <<cmd, pup, pdown, sup, sdown, pv>> /\ ServerOnly

(* The port of the second connection, and the connection to it. *)
DoitPort ==
  /\ srv.pc = "port"
  /\ \/ Eof(pup, PupGone) /\ srv' = SrvExit(srv) /\ UNCHANGED pup
     \/ /\ pup # <<>> /\ pup' = Tail(pup)
        /\ srv' = IF sopt.port /\ (Bad("connect2") \/ ClientGone) THEN SrvExit(srv)
                  ELSE [srv EXCEPT !.pc = "strings", !.conn2 = sopt.port]
  /\ UNCHANGED <<cmd, pdown, sup, sdown, pv>> /\ ServerOnly

(* The alarm of 60 seconds that guards the port. *)
DoitAlarm ==
  /\ srv.pc = "port" /\ Bad("slow") /\ srv' = SrvExit(srv)
  /\ UNCHANGED <<cmd, pup, pdown, sup, sdown, pv>> /\ ServerOnly

(* An error: with a leading one as long as no NUL was sent (rexecd: always). *)
rshd_error(sent) == IF sent /\ sopt.daemon = "rshd" THEN <<"msg">> ELSE <<"soh">>

(* Mutant: the verdict is sent before the checks. *)
Passed_all == TRUE

Passed == sopt.bad \notin Refusals

(* The names and the command; the checks; the verdict; the fork. *)
DoitStrings ==
  /\ srv.pc = "strings"
  /\ \/ /\ Eof(pup, PupGone)
        /\ srv' = SrvExit(srv) /\ pdown' = pdown \o rshd_error(FALSE)
        /\ UNCHANGED <<pup, cmd>>
     \/ /\ pup # <<>> /\ pup' = Tail(pup)
        /\ CASE ~Passed -> srv' = SrvExit(srv) /\ pdown' = pdown \o rshd_error(FALSE) /\ UNCHANGED cmd
             [] Passed /\ sopt.port /\ Bad("fork") ->
                  srv' = SrvExit(srv) /\ pdown' = pdown \o <<"nul">> \o rshd_error(TRUE) /\ UNCHANGED cmd
             [] Passed /\ sopt.port /\ ~Bad("fork") ->
                  srv' = [srv EXCEPT !.pc = "control", !.s = TRUE, !.pv = TRUE]
                  /\ pdown' = Append(pdown, "nul") /\ cmd' = [cmd EXCEPT !.pc = "forked"]
             [] Passed /\ ~sopt.port ->
                  srv' = SrvExit(srv) /\ pdown' = Append(pdown, "nul") /\ cmd' = [cmd EXCEPT !.pc = "leader"]
  /\ UNCHANGED <<sup, sdown, pv>> /\ ServerOnly

(* Mutant: the signal is not passed on. *)
killpg_not == cmd

(* A signal for the group of the child: before setpgid there is none. *)
killpg ==
  CASE cmd.pc = "forked" -> [cmd EXCEPT !.sig = "missed"]
    [] cmd.pc \in {"leader", "run"} -> [cmd EXCEPT !.pc = "exit", !.sig = "hit"]
    [] cmd.pc \in {"none", "exit"} -> cmd

(* The control process: signals one way, the error output the other. *)
ControlSignal ==
  /\ srv.pc = "control" /\ srv.s
  /\ \/ /\ sup # <<>> /\ sup' = Tail(sup) /\ UNCHANGED srv
        /\ cmd' = killpg
     \/ /\ Eof(sup, srv.shut \/ ClientGone)
        /\ srv' = [srv EXCEPT !.s = FALSE] /\ UNCHANGED <<sup, cmd>>
  /\ UNCHANGED <<pup, pdown, sdown, pv>> /\ ServerOnly

(* Mutant: the second connection is left open. *)
Shut_not(s) == [s EXCEPT !.pv = FALSE]

Shut(s) == [s EXCEPT !.pv = FALSE, !.shut = TRUE]

(* A write to a client that has gone kills the control process. *)
ControlErr ==
  /\ srv.pc = "control" /\ srv.pv
  /\ \/ /\ pv # <<>> /\ pv' = Tail(pv)
        /\ \/ ~ClientGone /\ sdown' = Append(sdown, Head(pv)) /\ UNCHANGED srv
           \/ ClientGone /\ srv' = SrvExit(srv) /\ UNCHANGED sdown
     \/ Eof(pv, CmdGone) /\ srv' = Shut(srv) /\ UNCHANGED <<pv, sdown>>
  /\ UNCHANGED <<cmd, pup, pdown, sup>> /\ ServerOnly

ControlDone ==
  /\ srv.pc = "control" /\ ~srv.s /\ ~srv.pv
  /\ srv' = SrvExit(srv)
  /\ UNCHANGED <<cmd, pup, pdown, sup, sdown, pv>> /\ ServerOnly

----------------------------------------------------------------------------
(* The command: the child of the daemon up to the exec, then the shell.     *)
CmdOnly == UNCHANGED <<sopt, cl, kid, srv, sup, sdown>>

CmdSetpgid ==
  /\ cmd.pc = "forked" /\ cmd' = [cmd EXCEPT !.pc = "leader"]
  /\ UNCHANGED <<pup, pdown, pv>> /\ CmdOnly

(* Both outputs of the command: error output goes to the pipe, or without a  *)
(* second connection to rem.  cmd.rem and cmd.pipe keep what was written.      *)
Stdout(c, x) == pdown' = Append(pdown, x) /\ cmd' = [c EXCEPT !.rem = Append(@, x)] /\ UNCHANGED pv
Stderr(c, x) ==
  IF sopt.port
  THEN pv' = Append(pv, x) /\ cmd' = [c EXCEPT !.pipe = Append(@, x)] /\ UNCHANGED pdown
  ELSE Stdout(c, x)

(* No home directory: rshd says so and goes on in the root, rexecd ends. *)
CmdExec ==
  /\ cmd.pc = "leader"
  /\ IF Bad("nodir")
     THEN Stderr([cmd EXCEPT !.pc = IF sopt.daemon = "rshd" THEN "run" ELSE "exit"], "msg")
     ELSE cmd' = [cmd EXCEPT !.pc = "run"] /\ UNCHANGED <<pdown, pv>>
  /\ UNCHANGED pup /\ CmdOnly

CmdRun ==
  /\ cmd.pc = "run"
  /\ \/ /\ pup # <<>> /\ pup' = Tail(pup) /\ cmd' = [cmd EXCEPT !.in = @ + 1]
        /\ UNCHANGED <<pdown, pv>>
     \/ /\ cmd.outs < MaxOut /\ ~ClientGone
        /\ Stdout([cmd EXCEPT !.outs = @ + 1], "out") /\ UNCHANGED pup
     \/ /\ cmd.errs < MaxOut /\ (sopt.port => srv.pc = "control")
        /\ Stderr([cmd EXCEPT !.errs = @ + 1], "err") /\ UNCHANGED pup
     \/ cmd' = [cmd EXCEPT !.pc = "exit"] /\ UNCHANGED <<pup, pdown, pv>>
  /\ CmdOnly

----------------------------------------------------------------------------
cmd_init == [pc |-> "none", sig |-> "none", in |-> 0, outs |-> 0, errs |-> 0, rem |-> <<>>, pipe |-> <<>>]

RshInit ==
  /\ sopt \in [daemon : {"rshd", "rexecd"}, port : BOOLEAN, nflag : BOOLEAN,
               bad : ServerFaults \cup {"none"}]
  /\ \E lib \in {"rcmd", "kcmd"} : (sopt.daemon = "rexecd" => lib = "rcmd") /\ cl = NewClient(lib)
  /\ kid = [pc |-> "none", n |-> 0, shut |-> FALSE]
  /\ srv = NewDaemon
  /\ cmd = cmd_init
  /\ pup = <<>> /\ pdown = <<>> /\ sup = <<>> /\ sdown = <<>> /\ pv = <<>>

ClientStep == Connect \/ ConnectRefused \/ try_connect \/ Accept \/ Verdict \/ TalkErr \/ TalkOut \/ TalkDone
KidStep == KidWrite
DaemonStep == DoitStart \/ DoitPort \/ DoitStrings \/ ControlSignal \/ ControlErr \/ ControlDone
CmdStep == CmdSetpgid \/ CmdExec

RshNext ==
  ClientStep \/ KidStep \/ KidRead \/ sendsig \/ ClientKilled \/ DaemonStep \/ DoitAlarm \/ CmdStep \/ CmdRun

RshSpec == RshInit /\ [][RshNext]_rshvars

(* Every process of the programs runs on; the user and the command need not. *)
RshFair ==
  /\ WF_rshvars(ClientStep) /\ WF_rshvars(KidStep) /\ WF_rshvars(CmdStep)
  /\ WF_rshvars(DoitStart \/ DoitPort \/ DoitStrings)
  /\ WF_rshvars(ControlSignal) /\ WF_rshvars(ControlErr) /\ WF_rshvars(ControlDone)

----------------------------------------------------------------------------
(* Every variable has its type; timo is 1, 2, 4 or 8. *)
RshTypeOK ==
  /\ cl.pc \in {"connect", "accept", "auth", "talk", "failed", "exit"} /\ cl.timo \in {1, 2, 4, 8} /\ cl.status \in {0, 1}
  /\ kid.pc \in {"none", "read", "write", "done"} /\ kid.n \in 0 .. MaxIn
  /\ srv.pc \in {"start", "port", "strings", "control", "exit"}
  /\ cmd.pc \in {"none", "forked", "leader", "run", "exit"} /\ cmd.sig \in {"none", "hit", "missed"}
  /\ cmd.in <= MaxIn

(* rsh that ends by itself with status 0 has shown all that the command       *)
(* wrote, on both outputs and in order, although the ends of the two           *)
(* connections come from different processes and in any order (talk 665-724,    *)
(* doit 892-1005); when there was no command it has shown the reason.           *)
RshOutputWhole ==
  (cl.pc = "exit" /\ cl.status = 0) =>
    IF cmd.pc = "none" THEN cl.out = rshd_error(TRUE) ELSE cl.out = cmd.rem /\ cl.err = cmd.pipe

(* The verdict is true: a client that goes on has a server that passed every  *)
(* check, and a command never starts for a client that was refused.            *)
RshVerdict ==
  /\ cl.pc = "talk" => sopt.bad \notin Refusals
  /\ cmd.pc # "none" =>
       sopt.bad \notin Refusals /\ ((cl.pc = "exit" /\ cl.status = 1) => cl.killed)

(* kcmd waits in accept for a daemon that ended without connecting back.      *)
KcmdStuck == cl.pc = "accept" /\ cl.lib = "kcmd" /\ ServerGone

(* A session ends: once the command, or a daemon that never started one, is    *)
(* gone, so are rsh, its copy and the control process.  What may hang is named: *)
(* kcmd in accept, and the copy of an rsh that was killed; after kcmd has failed  *)
(* rsh may connect once more.                                                   *)
RshEnds ==
  (cmd.pc = "exit" \/ (srv.pc = "exit" /\ cmd.pc = "none")) ~>
    \/ cl.pc = "connect"
    \/ srv.pc \in {"start", "exit"} /\ ClientGone /\ (kid.pc \in {"none", "done"} \/ cl.killed)
    \/ ServerGone /\ KcmdStuck

(* An interrupt reaches the command, if it still runs and rsh was not killed;   *)
(* it is lost only when the control process takes it before the child has made   *)
(* its process group (doit 933 and 1019).                                        *)
RshSignalled ==
  cl.signalled ~> (cmd.sig \in {"hit", "missed"} \/ cmd.pc = "exit" \/ cl.killed \/ (srv.pc = "exit" /\ cmd.pc = "none"))

(* rsh shows all output of the command, and what it tells the user is true.     *)
RshSafe == RshTypeOK /\ RshOutputWhole /\ RshVerdict
=============================================================================
