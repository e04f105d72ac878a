------------------------------- MODULE Rlogin -------------------------------
(***************************************************************************)
(* A remote login: rlogin, which is a writer (the parent) and a reader      *)
(* (the child), and rlogind between the connection and a pseudo terminal.   *)
(* Urgent marks in the stream to the user carry control bits; SIGURG may    *)
(* run before the mark, or the data in front of it, has arrived.  The       *)
(* connection is inflight (sent) and arrived; units of output are numbered  *)
(* so that one can say what became of each.  dmn is rlogind -d, which        *)
(* counts the sessions it has started.                                      *)
(***************************************************************************)
EXTENDS Integers, Sequences, FiniteSets, SequencesExt

CONSTANTS
  LoginFaults,   \* what rlogind may find wrong, one of them or "none"
  MaxUnits,      \* units of output the remote programs write
  MaxKeys,       \* keys the user types
  MaxResizes,    \* changes of the window
  MaxControls,   \* control events of the pseudo terminal
  MaxEvents,     \* all of these together
  MaxChildren,   \* maxchildren of the daemon
  MaxSessions    \* sessions the daemon is asked for

ASSUME RlAssumption ==
  /\ LoginFaults \subseteq {"noname", "port", "mismatch", "unknown", "root", "ptys"}
  /\ {MaxUnits, MaxKeys, MaxResizes, MaxControls, MaxEvents, MaxChildren, MaxSessions} \subseteq Nat

VARIABLES rlopt, par, rdr, term, inflight, arrived, rlup, rld, shl, fate, dmn

rlvars == <<rlopt, par, rdr, term, inflight, arrived, rlup, rld, shl, fate, dmn>>

Keys == {"x", "esc", "dot", "susp"}
Data(n) == [k |-> "data", n |-> n, bits |-> {}]
Mark(n, bits) == [k |-> "mark", n |-> n, bits |-> bits]
IsData(t) == t.k = "data"
Ns(q) == {q[i].n : i \in {j \in 1 .. Len(q) : IsData(q[j])}}

(* The latest mark sent; only that one can be received out of band. *)
HasArrived(m) == \E i \in 1 .. Len(arrived) : arrived[i] = Mark(m.n, m.bits)

Lose(ns, cause) == fate' = [n \in 1 .. MaxUnits |-> IF n \in ns THEN cause ELSE fate[n]]

(* The bound on what happens in a session. *)
MayHappen == shl.n + par.typed + term.size + shl.controls < MaxEvents

----------------------------------------------------------------------------
(* rlogin, the parent.                                                     *)
ParentOnly == UNCHANGED <<rlopt, inflight, arrived, rld, shl, fate, dmn>>

(* rcmd's verdict; the child is started. *)
Started ==
  /\ par.pc = "connect"
  /\ \/ /\ arrived # <<>> /\ Head(arrived).k = "nul"
        /\ par' = [par EXCEPT !.pc = "run"] /\ rdr' = [rdr EXCEPT !.pc = "start"] /\ arrived' = Tail(arrived)
     \/ /\ IF arrived # <<>> THEN Head(arrived).k = "soh" ELSE inflight = <<>> /\ rld.pc = "exit"
        /\ par' = [par EXCEPT !.pc = "exit"] /\ UNCHANGED <<rdr, arrived>>
  /\ UNCHANGED <<rlopt, term, inflight, rlup, rld, shl, fate, dmn>>

Sent(ks) == rlup' = IF rld.pc = "exit" THEN rlup ELSE rlup \o ks
Key(k) == [k |-> "key", n |-> 0]

(* One key: the escape character counts at the beginning of a line.  A write  *)
(* to a peer that has gone raises SIGPIPE: lostpeer.                          *)
writer(k) ==
  /\ par.pc = "run" /\ par.typed < MaxKeys /\ MayHappen
  /\ LET p == [par EXCEPT !.typed = @ + 1, !.bol = FALSE, !.local = FALSE]
         gone == rld.pc = "exit"
         sent(q, ks) == Sent(ks) /\ par' = (IF gone THEN [q EXCEPT !.pc = "quit"] ELSE q)
     IN  \/ par.bol /\ k = "esc" /\ par' = [p EXCEPT !.local = TRUE] /\ UNCHANGED rlup
         \/ par.bol /\ k # "esc" /\ sent(p, <<Key(k)>>)
         \/ par.local /\ k = "dot" /\ par' = [p EXCEPT !.pc = "quit"] /\ UNCHANGED rlup
         \/ par.local /\ k = "susp" /\ par' = [p EXCEPT !.pc = "stop", !.bol = TRUE] /\ UNCHANGED rlup
         \/ par.local /\ k \notin {"dot", "susp"} /\ sent(p, IF k = "esc" THEN <<Key(k)>> ELSE <<Key("esc"), Key(k)>>)
         \/ ~par.bol /\ ~par.local /\ sent([p EXCEPT !.bol = k = "susp"], <<Key(k)>>)
  /\ UNCHANGED <<rdr, term>> /\ ParentOnly

(* Mutant: the terminal is left as it is. *)
Mode0_not(t) == t

Mode0(t) == [t EXCEPT !.raw = FALSE]
Mode1(t) == [t EXCEPT !.raw = TRUE]

sendwindow(w) == Sent(<<[k |-> "win", n |-> w]>>)

(* stop: SIGCHLD is ignored from before the process group stops until after   *)
(* it goes on; then the window is looked at.                                  *)
StopBegin ==
  /\ par.pc = "stop" /\ par' = [par EXCEPT !.pc = "tstp", !.sigchld = FALSE, !.late = FALSE]
  /\ term' = Mode0(term) /\ UNCHANGED <<rdr, rlup>> /\ ParentOnly

Stopped ==
  /\ par.pc = "tstp" /\ par' = [par EXCEPT !.pc = "stopped"]
  /\ UNCHANGED <<term, rdr, rlup>> /\ ParentOnly

Continue ==
  /\ par.pc = "stopped" /\ par' = [par EXCEPT !.pc = "cont"]
  /\ UNCHANGED <<term, rdr, rlup>> /\ ParentOnly

StopEnd ==
  /\ par.pc = "cont"
  /\ par' = [par EXCEPT !.pc = "run", !.sigchld = TRUE, !.win = IF par.dosigwinch THEN term.size ELSE @]
  /\ IF par.dosigwinch /\ par.win # term.size THEN sendwindow(term.size) ELSE UNCHANGED rlup
  /\ term' = Mode1(term) /\ UNCHANGED rdr /\ ParentOnly

(* done: mode(0), and then the child is killed. *)
DoneMode ==
  /\ par.pc = "quit" /\ par' = [par EXCEPT !.pc = "kill", !.late = FALSE]
  /\ term' = Mode0(term) /\ UNCHANGED <<rdr, rlup>> /\ ParentOnly

DoneKill ==
  /\ par.pc = "kill" /\ par' = [par EXCEPT !.pc = "exit"]
  /\ rdr' = [rdr EXCEPT !.pc = "exit"] /\ UNCHANGED <<term, rlup>> /\ ParentOnly

CanHandle == par.pc \in {"run", "cont"}

(* Mutant: the death of the child is not looked at. *)
catch_child_not == FALSE

catch_child == par.chld

CatchChild ==
  /\ catch_child /\ CanHandle
  /\ par' = [par EXCEPT !.pc = "quit", !.chld = FALSE] /\ UNCHANGED <<rdr, term, rlup>> /\ ParentOnly

(* SIGUSR1 from the child: the first time the size is sent and from then on   *)
(* SIGWINCH is caught.                                                        *)
writeroob ==
  /\ par.usr1 /\ CanHandle
  /\ par' = [par EXCEPT !.usr1 = FALSE, !.dosigwinch = TRUE]
  /\ IF par.dosigwinch THEN UNCHANGED rlup ELSE sendwindow(par.win)
  /\ UNCHANGED <<rdr, term>> /\ ParentOnly

sigwinch ==
  /\ par.winch /\ CanHandle
  /\ par' = [par EXCEPT !.winch = FALSE, !.win = term.size]
  /\ IF par.win # term.size THEN sendwindow(term.size) ELSE UNCHANGED rlup
  /\ UNCHANGED <<rdr, term>> /\ ParentOnly

Resize ==
  /\ par.pc \notin {"connect", "exit"} /\ term.size < MaxResizes /\ MayHappen
  /\ term' = [term EXCEPT !.size = @ + 1]
  /\ par' = IF par.dosigwinch THEN [par EXCEPT !.winch = TRUE] ELSE [par EXCEPT !.early = TRUE]
  /\ UNCHANGED <<rdr, rlup>> /\ ParentOnly

----------------------------------------------------------------------------
(* rlogin, the reader.                                                     *)
ReaderOnly == UNCHANGED <<rlopt, rlup, rld, shl, dmn, inflight>>
ReaderRuns == par.pc # "stopped" /\ rdr.pc \notin {"none", "exit"}
NetEof == arrived = <<>> /\ inflight = <<>> /\ rld.pc = "exit"
ReaderExit == rdr' = [rdr EXCEPT !.pc = "exit"] /\ par' = [par EXCEPT !.chld = par.sigchld, !.missed = ~par.sigchld]

(* late: the child made the terminal raw after the parent had reset it. *)
RawSet(raw) == [par EXCEPT !.late = @ \/ (raw /\ par.pc \in {"kill", "tstp"})]

ReaderStart ==
  /\ rdr.pc = "start" /\ ReaderRuns
  /\ term' = Mode1(term) /\ par' = RawSet(TRUE)
  /\ rdr' = [rdr EXCEPT !.pc = "read"] /\ UNCHANGED <<arrived, fate>> /\ ReaderOnly

(* How much of what has arrived lies before the next mark. *)
Before == LET m == SelectInSeq(arrived, LAMBDA t : ~IsData(t)) IN IF m = 0 THEN Len(arrived) ELSE m - 1

(* read: up to a mark, which is not part of the data and which SIGURG has     *)
(* announced; the buffer is full and rcvcnt is not assigned yet.              *)
ReaderRead ==
  /\ rdr.pc = "read" /\ ReaderRuns /\ UNCHANGED <<term, fate>> /\ ReaderOnly
  /\ \/ NetEof /\ ReaderExit /\ UNCHANGED arrived
     \/ /\ arrived # <<>> /\ Before = 0 /\ Head(arrived).n <= rdr.heard
        /\ arrived' = Tail(arrived) /\ UNCHANGED <<rdr, par>>
     \/ /\ Before > 0
        /\ rdr' = [rdr EXCEPT !.pc = "filled", !.buf = SubSeq(arrived, 1, Before)]
        /\ arrived' = SubSeq(arrived, Before + 1, Len(arrived)) /\ UNCHANGED par

ReaderAssign ==
  /\ rdr.pc = "filled" /\ ReaderRuns
  /\ rdr' = [rdr EXCEPT !.pc = "write"] /\ UNCHANGED <<par, term, arrived, fate>> /\ ReaderOnly

ReaderWrite ==
  /\ rdr.pc = "write" /\ ReaderRuns
  /\ IF rdr.buf = <<>> THEN rdr' = [rdr EXCEPT !.pc = "read"] /\ UNCHANGED term
     ELSE /\ rdr' = [rdr EXCEPT !.buf = Tail(@)]
          /\ term' = [term EXCEPT !.shown = Append(@, Head(rdr.buf).n)]
  /\ UNCHANGED <<par, arrived, fate>> /\ ReaderOnly

(* SIGURG. *)
Oob ==
  /\ rdr.pc \in {"read", "filled", "write"} /\ ReaderRuns /\ rld.urgent # rdr.heard
  /\ rdr' = [rdr EXCEPT !.back = rdr.pc, !.pc = "oob", !.heard = rld.urgent, !.rcvd = FALSE]
  /\ UNCHANGED <<par, term, arrived, fate>> /\ ReaderOnly

(* Mutant: what was read before the flush stays in the buffer. *)
Flushed_kept(r) == [r EXCEPT !.pc = "write"]

(* longjmp to rcvtop with rcvcnt 0. *)
Flushed(r) == [r EXCEPT !.pc = "read", !.buf = <<>>]

(* The mark is there and is taken; the parent is told of a request for the     *)
(* size, and the modes of the terminal are read, to be changed and set again.  *)
OobMark ==
  /\ rdr.pc = "oob" /\ ReaderRuns /\ rdr.taken # rld.last.n /\ HasArrived(rld.last)
  /\ par' = IF "window" \in rld.last.bits THEN [par EXCEPT !.usr1 = TRUE] ELSE par
  /\ rdr' = [rdr EXCEPT !.pc = "modes", !.taken = rld.last.n, !.bits = rld.last.bits, !.raw = term.raw]
  /\ UNCHANGED <<term, arrived, fate>> /\ ReaderOnly

(* The modes are set to what they were but for the flow control: a mode(0) of   *)
(* the parent in between is undone.                                           *)
SetModes ==
  IF rdr.bits \cap {"nostop", "dostop"} = {} THEN UNCHANGED <<par, term>>
  ELSE /\ term' = [term EXCEPT !.flow = "nostop" \notin rdr.bits, !.raw = rdr.raw]
       /\ par' = RawSet(rdr.raw)

(* The other bits are obeyed.  What is flushed goes up to the mark, or to a     *)
(* later one that was announced since.                                        *)
OobBits ==
  /\ rdr.pc = "modes" /\ ReaderRuns
  /\ SetModes
  /\ IF "flush" \in rdr.bits
     THEN \E at \in 1 .. Len(arrived) :
            /\ arrived[at].k = "mark" /\ arrived[at].n >= rdr.taken
            /\ arrived' = SubSeq(arrived, at, Len(arrived))
            /\ rdr' = Flushed(rdr)
            /\ Lose(Ns(SubSeq(arrived, 1, at)) \cup Ns(rdr.buf), "flushed")
     ELSE /\ UNCHANGED arrived
          /\ IF rdr.rcvd /\ rdr.back \in {"read", "filled"}
             THEN rdr' = Flushed(rdr) /\ Lose(Ns(rdr.buf), "swallowed")
             ELSE rdr' = [rdr EXCEPT !.pc = rdr.back] /\ UNCHANGED fate
  /\ ReaderOnly

(* It is not there yet: what stands before it is read, and never counted. *)
OobWait ==
  /\ rdr.pc = "oob" /\ ReaderRuns /\ rdr.taken # rld.last.n /\ ~HasArrived(rld.last)
  /\ \/ /\ Before > 0
        /\ arrived' = SubSeq(arrived, Before + 1, Len(arrived))
        /\ Lose(Ns(SubSeq(arrived, 1, Before)), "swallowed")
        /\ rdr' = [rdr EXCEPT !.rcvd = TRUE]
     \/ /\ arrived # <<>> /\ Before = 0
        /\ arrived' = Tail(arrived) /\ UNCHANGED <<fate, rdr>>
  /\ UNCHANGED <<par, term>> /\ ReaderOnly

(* It has been taken before. *)
OobAgain ==
  /\ rdr.pc = "oob" /\ ReaderRuns /\ rdr.taken = rld.last.n
  /\ rdr' = [rdr EXCEPT !.pc = rdr.back]
  /\ UNCHANGED <<par, term, arrived, fate>> /\ ReaderOnly

(* The connection delivers. *)
Deliver ==
  /\ inflight # <<>>
  /\ arrived' = Append(arrived, Head(inflight)) /\ inflight' = Tail(inflight)
  /\ UNCHANGED <<rlopt, par, rdr, term, rlup, rld, shl, fate, dmn>>

----------------------------------------------------------------------------
(* rlogind.                                                                *)
DaemonOnly == UNCHANGED <<rlopt, par, rdr, term, arrived, dmn>>

(* Mutant: the request for the size is made once. *)
Marked_bare(bits) == bits

(* Every mark repeats the request for the window size until it is answered. *)
Marked(bits) == bits \cup (IF rld.heard THEN {} ELSE {"window"})

Urgent(r, bits) ==
  [r EXCEPT !.urgent = @ + 1, !.last = Mark(r.urgent + 1, bits)]

Verdict1(k) == [k |-> k, n |-> 0, bits |-> {}]

(* The message of fatal: an error as long as the NUL has not been sent. *)
fatal(confirmed) == IF confirmed THEN <<>> ELSE <<Verdict1("soh")>>

(* The host of the client: without a name rlogind may exit with no word. *)
HostRefused == rlopt.bad = "mismatch" \/ rlopt.bad = "port"
do_rlogin == rlopt.bad \notin {"unknown", "root"}

(* The checks and the NUL; then a terminal, and the request for the size. *)
RlogindAuth ==
  /\ rld.pc = "auth"
  /\ CASE rlopt.bad = "noname" -> inflight' = <<>> /\ rld' = [rld EXCEPT !.pc = "exit"] /\ UNCHANGED shl
       [] HostRefused \/ ~do_rlogin -> inflight' = fatal(FALSE) /\ rld' = [rld EXCEPT !.pc = "exit"] /\ UNCHANGED shl
       [] rlopt.bad = "ptys" -> inflight' = <<Verdict1("nul")>> \o fatal(TRUE) /\ rld' = [rld EXCEPT !.pc = "exit"] /\ UNCHANGED shl
       [] rlopt.bad = "none" ->
            /\ inflight' = <<Verdict1("nul"), Mark(1, {"window"})>>
            /\ rld' = Urgent([rld EXCEPT !.pc = "loop"], {"window"})
            /\ shl' = [shl EXCEPT !.pc = "shell"]
  /\ UNCHANGED <<rlup, fate>> /\ DaemonOnly

(* Packet mode: a control byte from the terminal becomes an urgent mark. *)
ProtoControl ==
  /\ rld.pc = "loop" /\ shl.cntl # {}
  /\ shl' = [shl EXCEPT !.cntl = {}]
  /\ LET bits == Marked(shl.cntl)
     IN  /\ inflight' = Append(inflight, Mark(rld.urgent + 1, bits))
         /\ rld' = [Urgent(rld, bits) EXCEPT !.pbuf = IF "flush" \in bits THEN <<>> ELSE @]
         /\ IF "flush" \in bits THEN Lose(Ns(rld.pbuf), "flushed") ELSE UNCHANGED fate
  /\ UNCHANGED rlup /\ DaemonOnly

control(w) == rld' = [rld EXCEPT !.heard = TRUE] /\ shl' = [shl EXCEPT !.size = w]

(* Input: a window record that is read whole is obeyed; one that two reads     *)
(* split goes to the terminal as keys.                                         *)
ProtoIn ==
  /\ rld.pc = "loop" /\ UNCHANGED <<inflight, fate>> /\ DaemonOnly
  /\ \/ /\ rlup # <<>> /\ rlup' = Tail(rlup)
        /\ \/ /\ Head(rlup).k = "win"
              /\ \/ control(Head(rlup).n)
                 \/ rld' = [rld EXCEPT !.garbage = TRUE] /\ UNCHANGED shl
           \/ Head(rlup).k = "key" /\ shl' = [shl EXCEPT !.in = @ + 1] /\ UNCHANGED rld
     \/ rlup = <<>> /\ par.pc = "exit" /\ rld' = [rld EXCEPT !.pc = "cleanup"] /\ UNCHANGED <<rlup, shl>>

ProtoOut ==
  /\ rld.pc = "loop" /\ UNCHANGED <<rlup, fate>> /\ DaemonOnly
  /\ \/ /\ rld.pbuf = <<>> /\ shl.q # <<>>
        /\ rld' = [rld EXCEPT !.pbuf = shl.q] /\ shl' = [shl EXCEPT !.q = <<>>] /\ UNCHANGED inflight
     \/ /\ rld.pbuf # <<>>
        /\ \E i \in 1 .. Len(rld.pbuf) :
             /\ inflight' = inflight \o SubSeq(rld.pbuf, 1, i)
             /\ rld' = [rld EXCEPT !.pbuf = SubSeq(@, i + 1, Len(@))]
        /\ UNCHANGED shl
     \/ /\ rld.pbuf = <<>> /\ shl.q = <<>> /\ shl.pc = "exit"
        /\ rld' = [rld EXCEPT !.pc = "cleanup"] /\ UNCHANGED <<inflight, shl>>

(* SIGCHLD: cleanup runs at once, whatever is still to be sent. *)
SigchldCleanup ==
  /\ rld.pc = "loop" /\ shl.pc = "exit" /\ rld' = [rld EXCEPT !.pc = "cleanup"]
  /\ UNCHANGED <<inflight, rlup, shl, fate>> /\ DaemonOnly

cleanup ==
  /\ rld.pc = "cleanup"
  /\ rld' = [rld EXCEPT !.pc = "exit", !.pbuf = <<>>]
  /\ shl' = [shl EXCEPT !.pc = "exit", !.q = <<>>]
  /\ Lose(Ns(rld.pbuf) \cup Ns(shl.q), "cleanup")
  /\ UNCHANGED <<inflight, rlup>> /\ DaemonOnly

(* The programs behind the terminal (external): output, a flush by an          *)
(* interrupt, a change of the flow control, and the end.                       *)
Remote ==
  /\ shl.pc = "shell"
  /\ \/ /\ shl.n < MaxUnits /\ MayHappen
        /\ shl' = [shl EXCEPT !.n = @ + 1, !.q = Append(@, Data(shl.n + 1))] /\ UNCHANGED fate
     \/ /\ shl.controls < MaxControls /\ MayHappen /\ shl.in > 0
        /\ shl' = [shl EXCEPT !.controls = @ + 1, !.cntl = @ \cup {"flush"}, !.q = <<>>]
        /\ Lose(Ns(shl.q), "flushed")
     \/ /\ shl.controls < MaxControls /\ MayHappen
        /\ shl' = [shl EXCEPT !.controls = @ + 1, !.cntl = (@ \ {"nostop", "dostop"}) \cup {IF shl.flow THEN "nostop" ELSE "dostop"},
                              !.flow = ~@]
        /\ UNCHANGED fate
     \/ shl' = [shl EXCEPT !.pc = "exit"] /\ UNCHANGED fate
  /\ UNCHANGED <<inflight, rlup, rld>> /\ DaemonOnly

----------------------------------------------------------------------------
(* rlogind -d.                                                             *)
DmnOnly == UNCHANGED <<rlopt, par, rdr, term, inflight, arrived, rlup, rld, shl, fate>>

(* Mutant: the number of sessions has no bound. *)
TooMany_never == FALSE

TooMany == dmn.numchildren > MaxChildren

DmnCheck ==
  /\ dmn.pc = "check"
  /\ dmn' = [dmn EXCEPT !.pc = IF TooMany THEN "pause" ELSE "accept"] /\ DmnOnly

DmnAccept ==
  /\ dmn.pc = "accept" /\ dmn.sessions < MaxSessions
  /\ dmn' = [dmn EXCEPT !.pc = "forked", !.sessions = @ + 1, !.live = @ + 1] /\ DmnOnly

DmnCount ==
  /\ dmn.pc = "forked"
  /\ dmn' = [dmn EXCEPT !.pc = "check", !.numchildren = @ + 1] /\ DmnOnly

DmnChildExits ==
  /\ dmn.live > 0
  /\ dmn' = [dmn EXCEPT !.live = @ - 1, !.zombies = @ + 1, !.sigchld = TRUE] /\ DmnOnly

(* Mutant: one child is taken for each signal. *)
Reaped_one(z) == IF z > 0 THEN 1 ELSE 0

(* waitpid until no dead child is left. *)
Reaped(z) == z

(* The handler; it interrupts accept and pause. *)
rlogind_sigchld ==
  /\ dmn.sigchld
  /\ dmn' = [dmn EXCEPT !.sigchld = FALSE, !.numchildren = @ - Reaped(dmn.zombies), !.zombies = @ - Reaped(@),
                        !.pc = IF @ \in {"accept", "pause"} THEN "check" ELSE @] /\ DmnOnly

----------------------------------------------------------------------------
NewParent == [pc |-> "connect", typed |-> 0, bol |-> TRUE, local |-> FALSE, win |-> 0, dosigwinch |-> FALSE, usr1 |-> FALSE,
              winch |-> FALSE, chld |-> FALSE, sigchld |-> TRUE, missed |-> FALSE, early |-> FALSE, late |-> FALSE]
NewReader == [pc |-> "none", back |-> "read", buf |-> <<>>, heard |-> 0, taken |-> 0, rcvd |-> FALSE,
              bits |-> {}, raw |-> FALSE]
NewTerminal == [raw |-> FALSE, size |-> 0, flow |-> TRUE, shown |-> <<>>]
NewRlogind == [pc |-> "auth", urgent |-> 0, last |-> Mark(0, {}), heard |-> FALSE, garbage |-> FALSE, pbuf |-> <<>>]
NewRemote == [pc |-> "none", n |-> 0, q |-> <<>>, in |-> 0, cntl |-> {}, controls |-> 0, flow |-> TRUE, size |-> 0 - 1]
NewCount == [pc |-> "off", numchildren |-> 0, live |-> 0, zombies |-> 0, sigchld |-> FALSE, sessions |-> 0]

RlInit ==
  /\ rlopt \in [bad : LoginFaults \cup {"none"}, daemon : BOOLEAN]
  /\ rlopt.daemon => rlopt.bad = "none"
  /\ par = [NewParent EXCEPT !.pc = IF rlopt.daemon THEN "exit" ELSE @]
  /\ rdr = NewReader /\ term = NewTerminal
  /\ inflight = <<>> /\ arrived = <<>> /\ rlup = <<>>
  /\ rld = [NewRlogind EXCEPT !.pc = IF rlopt.daemon THEN "exit" ELSE @]
  /\ shl = NewRemote /\ fate = [n \in 1 .. MaxUnits |-> "none"]
  /\ dmn = [NewCount EXCEPT !.pc = IF rlopt.daemon THEN "check" ELSE @]

ParentStep == Started \/ StopBegin \/ Stopped \/ StopEnd \/ DoneMode \/ DoneKill
ReaderStep == ReaderStart \/ ReaderRead \/ ReaderAssign \/ ReaderWrite
OobStep == OobMark \/ OobBits \/ OobWait \/ OobAgain
ProtoStep == RlogindAuth \/ ProtoControl \/ ProtoIn \/ ProtoOut \/ cleanup
DmnStep == DmnCheck \/ DmnAccept \/ DmnCount \/ DmnChildExits \/ rlogind_sigchld

RlNext ==
  \/ ParentStep \/ CatchChild \/ writeroob \/ sigwinch \/ Resize \/ Continue \/ \E k \in Keys : writer(k)
  \/ ReaderStep \/ Oob \/ OobStep \/ Deliver \/ ProtoStep \/ SigchldCleanup \/ Remote \/ DmnStep

(* The processes run, signals are delivered, the network delivers. *)
RlFair ==
  /\ WF_rlvars(ParentStep) /\ WF_rlvars(CatchChild) /\ WF_rlvars(writeroob) /\ WF_rlvars(sigwinch)
  /\ WF_rlvars(ReaderStep) /\ WF_rlvars(Oob) /\ WF_rlvars(OobStep) /\ WF_rlvars(Deliver)
  /\ WF_rlvars(ProtoControl) /\ WF_rlvars(ProtoIn) /\ WF_rlvars(RlogindAuth \/ ProtoOut \/ cleanup)

RlSpec == RlInit /\ [][RlNext]_rlvars /\ RlFair

----------------------------------------------------------------------------
(* Every variable has its type. *)
RlTypeOK ==
  /\ par.pc \in {"connect", "run", "stop", "tstp", "stopped", "cont", "quit", "kill", "exit"}
  /\ rdr.pc \in {"none", "start", "read", "filled", "write", "oob", "modes", "exit"}
  /\ rld.pc \in {"auth", "loop", "cleanup", "exit"} /\ shl.pc \in {"none", "shell", "exit"}
  /\ term.size \in 0 .. MaxResizes /\ shl.size \in -1 .. MaxResizes /\ rld.urgent \in 0 .. MaxControls + 1
  /\ dmn.numchildren \in -MaxChildren - 1 .. MaxChildren + 1
  /\ ~(par.bol /\ par.local)

(* Every unit that the remote programs wrote is in one place: on its way,      *)
(* shown once and in order, or lost for a reason that the code has: a flush,   *)
(* the end of the session, or a SIGURG that ran before its mark had arrived     *)
(* (reader 1146, oob 1044, protocol 1241).                                      *)
RlAccounted ==
  LET shown == Range(term.shown)
      way   == <<Ns(shl.q), Ns(rld.pbuf), Ns(inflight), Ns(arrived), Ns(rdr.buf), shown, {n \in 1 .. MaxUnits : fate[n] # "none"}>>
  IN  /\ \A i, j \in 1 .. Len(term.shown) : i < j => term.shown[i] < term.shown[j]
      /\ \A i, j \in 1 .. Len(way) : i # j => way[i] \cap way[j] = {}
      /\ rdr.pc # "exit" => UNION Range(way) = 1 .. shl.n

(* rlogin leaves the terminal as it found it, unless its child makes it raw     *)
(* after done or stop has reset it and before it is killed or stopped: it does  *)
(* so when it starts (doit 704), and when oob sets the modes that it had read   *)
(* before (oob 1092, 1100).                                                    *)
RlTerminal == par.pc \in {"stopped", "exit"} => (~term.raw \/ par.late)

(* When rlogind has gone, rlogin ends; what may keep it is a user who has       *)
(* stopped it, and a SIGCHLD that came while stop ignored it (stop 976).        *)
RlEnds == (rld.pc = "exit") ~> (par.pc = "exit" \/ par.pc = "stopped" \/ par.missed)

(* The remote terminal gets the size of the window in the end: a request for    *)
(* it that a later urgent mark overtakes is made again.  Exceptions: a change   *)
(* before rlogin catches SIGWINCH, a record split between two reads, the end.   *)
RlWindow == <>[](shl.size = term.size \/ par.early \/ rld.garbage \/ par.pc \in {"stopped", "exit"} \/ rld.pc = "exit" \/ par.missed)

(* Once the signals of dead children are handled the daemon's count is the      *)
(* number of sessions that run, however several signals are merged and even     *)
(* when one comes between fork and the count (rlogin_daemon 459-487).           *)
RlCount == (dmn.pc \in {"check", "accept", "pause"} /\ ~dmn.sigchld) => dmn.numchildren = dmn.live

(* No output disappears unnoticed, the terminal is left in its modes, and the   *)
(* daemon's count is that of its sessions.                                      *)
RlSafe == RlTypeOK /\ RlAccounted /\ RlTerminal /\ RlCount
=============================================================================
