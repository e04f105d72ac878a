------------------------------- MODULE Syslog -------------------------------
(***************************************************************************)
(* syslogd (syslogd/syslogd.c): the main loop, logmsg with its suppression *)
(* of repeated lines, fprintlog, the marks and flushes of domark, the      *)
(* reload of init and the exit of die, with signals that come at any time. *)
(*                                                                         *)
(* The functions that call each other are frames of d.stack, the last one  *)
(* runs: logmsg serves one destination in a step, so that signals and the  *)
(* messages syslogd logs about its own failures come in between.  Time is  *)
(* counted in units of TIMERINTVL and kept as ages: time since f_time.     *)
(***************************************************************************)
EXTENDS Naturals, Sequences, SequencesExt, FiniteSetsExt, TLC

CONSTANTS
  Confs,         \* the contents the configuration file may have: sequences of lines
  Msgs,          \* what programs and hosts may send: [fac, pri, text, host, long]
  Facs, Pris,    \* facilities, and the priorities 0..n, most severe first
  LocalHostName,
  SuspendTime,   \* INET_SUSPEND_TIME
  RetryMax,      \* INET_RETRY_MAX
  MarkInterval,
  NoHops,        \* no -h: messages of other hosts are not forwarded
  ForceSync,     \* -S
  MayFail,       \* system calls may fail
  MaxMsgs,       \* messages that come
  MaxEvents      \* failures, reloads and SIGTERM


VARIABLES
  d,       \* the daemon
  out,     \* for each name the last message a reader saw there, and the messages owed to it
  lost,    \* the names that are not followed any more: not in the code
  disk,    \* the configuration file
  sig,     \* signals that are pending
  inq,     \* datagrams that wait
  left     \* how many messages, reloads and failures may still come

vars == <<d, out, lost, disk, sig, inq, left>>

NoHost == "nobody"     \* f_prevhost = NULL
Repeated == "last message repeated"
Null == "null"
RepeatInterval == <<1, 2>>  \* repeatinterval, in units of TIMERINTVL
AgeMax == Max({SuspendTime, MarkInterval, RepeatInterval[2] + 1})

Files == {"FILE", "TTY", "PIPE"}

(* A line of the configuration: sel, a sequence of selectors [facs, pri,   *)
(* word, neg, excl] (word is "*", "none", or "bad" for a name nobody       *)
(* knows); kind and name, the action.                                      *)
Names == UNION {{c[i].name : i \in DOMAIN c} : c \in Confs} \cup {"console", "users"}

(* A line of the log that is too long is saved as an empty one; a message  *)
(* that is itself empty would then be taken for its repetition.            *)
ASSUME SyslogAssumption ==
  /\ {SuspendTime, RetryMax, MarkInterval, MaxMsgs, MaxEvents} \subseteq Nat
  /\ Confs # {} /\ MayFail \in BOOLEAN /\ NoHops \in BOOLEAN /\ ForceSync \in BOOLEAN
  /\ \A c \in Confs : /\ Len(c) \in Nat /\ DOMAIN c = 1..Len(c)
                      /\ \A i \in DOMAIN c : c[i].kind \in Files \cup {"CONSOLE", "FORW", "WALL"}
  /\ LocalHostName # NoHost
  /\ \A m \in Msgs : m.host # NoHost /\ m.text \notin {"", Null, Repeated}

----------------------------------------------------------------------------
(* The configuration.                                                      *)
(* The priorities a selector adds to or takes from a facility.             *)
PriSet(x) ==
  CASE x.word = "*" -> Pris
    [] x.word = "none" -> {}
    [] x.word \notin {"*", "none"} -> IF x.excl THEN {x.pri} ELSE {p \in Pris : p <= x.pri}

PriClear(x) == IF x.word = "none" THEN Pris ELSE {}

Masked(mask, x, facs) ==
  LET set   == IF x.neg THEN PriClear(x) ELSE PriSet(x)
      clear == IF x.neg THEN PriSet(x) ELSE PriClear(x)
  IN  [f \in DOMAIN mask |-> IF f \in facs THEN (mask[f] \ clear) \cup set ELSE mask[f]]

(* One selector; "**" stands for the facilities no selector has named yet. *)
Selector(m, x) ==
  FoldLeft(LAMBDA acc, f :
             CASE f = "*"  -> [acc EXCEPT !.mask = Masked(@, x, DOMAIN @)]
               [] f = "**" -> [acc EXCEPT !.mask = Masked(@, x, DOMAIN @ \ acc.seen)]
               [] f \notin {"*", "**"} ->
                    [acc EXCEPT !.mask = Masked(@, x, {f}), !.seen = @ \cup {f}],
           m, x.facs)

Bad(x) == x.word = "bad"

Selected(sel, seen) ==
  LET good == SelectInSeq(sel, LAMBDA x : Bad(x))
  IN  FoldLeft(Selector, [mask |-> [f \in Facs \cup {"mark"} |-> {}], seen |-> seen],
               IF good = 0 THEN sel ELSE SubSeq(sel, 1, good - 1))

(* Without a configuration file: errors to the console, panics to all. *)
Sel(pri) == <<[facs |-> <<"*">>, pri |-> pri, word |-> "", neg |-> FALSE, excl |-> FALSE]>>
DefaultConf == <<[sel |-> Sel(1), kind |-> "CONSOLE", name |-> "console"], [sel |-> Sel(0), kind |-> "WALL", name |-> "users"]>>

Entry == [kind |-> "UNUSED", name |-> "", mask |-> [f \in Facs \cup {"mark"} |-> {}], age |-> AgeMax, prevline |-> "",
          prevhost |-> NoHost, prevpri |-> 0, prevcount |-> 0, rep |-> 0, freed |-> FALSE]

----------------------------------------------------------------------------
(* A turn holds what a step changes: d, out, lost.                   *)
Push(t, frame) == [t EXCEPT !.d.stack = Append(@, frame)]
Pop(t) == [t EXCEPT !.d.stack = Front(@)]
Top(t) == Last(t.d.stack)
SetTop(t, frame) == [t EXCEPT !.d.stack[Len(t.d.stack)] = frame]
Set(t, i, f) == [t EXCEPT !.d.files[i] = f]
Lose(t, name) == [t EXCEPT !.lost = @ \cup {name}]

Message(fac, pri, text, host, flags) == [fac |-> fac, pri |-> pri, text |-> text, host |-> host, long |-> FALSE, flags |-> flags]

NoMsg == Message("", 0, "", "", {})

LogFrame(m) == [op |-> "log", i |-> 1, ph |-> "look", m |-> m]

(* A message that syslogd logs about itself. *)
logerror(t, text) == Push(t, LogFrame(Message("syslog", 1, text, LocalHostName, {})))

Crash(t) == [t EXCEPT !.d.up = "crash", !.d.stack = <<>>]

(* What a reader of a destination concludes from a line: a repetition line *)
(* stands for that many copies of the line before it.  owed are the        *)
(* messages that were selected for the destination and are not there yet;  *)
(* wrong is set when a line is none of them.                               *)
Said(text, host) == [text |-> text, host |-> host]
Unwritten == [last |-> Said("", ""), owed |-> <<>>, wrong |-> FALSE]

(* The files that are followed: each is named by one line of a             *)
(* configuration, always as a file.                                        *)
Tracked ==
  {n \in Names \ {"console", "users"} : \A c \in Confs : \A i, j \in DOMAIN c :
     c[i].name = n => c[i].kind \in Files /\ (c[j].name = n => j = i)}

Copies(o, line) == [k \in 1..line.n |-> IF line.text = Repeated THEN o.last ELSE Said(line.text, line.host)]

Heard(o, line) ==
  LET copies == Copies(o, line)
      new    == [o EXCEPT !.last = Last(copies)]
  IN  IF IsPrefix(copies, o.owed) THEN [new EXCEPT !.owed = SubSeq(@, line.n + 1, Len(@))] ELSE [new EXCEPT !.wrong = TRUE]

Write(t, name, line) ==
  LET o == t.out[name]
  IN  [t EXCEPT !.out[name] = IF name \in Tracked \ t.lost THEN Heard(o, line) ELSE [o EXCEPT !.last = Last(Copies(o, line))]]

(* The line fprintlog writes: msg, or the saved line or how often it came. *)
LineOf(f, msg) ==
  CASE msg # Null -> [text |-> msg, host |-> f.prevhost, n |-> 1]
    [] msg = Null /\ f.prevcount > 1 -> [text |-> Repeated, host |-> f.prevhost, n |-> f.prevcount]
    [] msg = Null /\ f.prevcount <= 1 -> [text |-> f.prevline, host |-> f.prevhost, n |-> 1]

(* A message goes to another host.  It is not if it came from one and      *)
(* NoHops is set; a failure suspends the entry.                            *)
Forward(t, i, from, line, ok) ==
  LET f == t.d.files[i]
      sent(kind) == Set(t, i, [f EXCEPT !.age = 0, !.kind = kind])
  IN  IF from # LocalHostName /\ NoHops THEN Set(t, i, [f EXCEPT !.kind = "FORW"])
      ELSE IF ok THEN Write(sent("FORW"), f.name, line)
      ELSE logerror(Lose(sent("SUSP"), f.name), "sendto")

(* A terminal that is gone is opened again; a full pipe loses the line;    *)
(* any other failure ends the use of the destination until the reload.     *)
WriteFile(t, i, line, e) ==
  LET f  == t.d.files[i]
      used(kind) == Set(t, i, [f EXCEPT !.age = 0, !.kind = kind])
  IN  IF e = "ok" \/ (e = "reopen" /\ f.kind \in {"TTY", "CONSOLE"}) THEN Write(used(f.kind), f.name, line)
      ELSE IF e = "again" /\ f.kind = "PIPE" THEN Lose(used(f.kind), f.name)
      ELSE logerror(Lose(used("UNUSED"), f.name), "write")

(* To the terminals of users.  An error is logged; the message about it is *)
(* not sent to users again.                                                *)
wallmsg(t, i, line, ok) ==
  LET f  == t.d.files[i]
      t1 == Set(t, i, [f EXCEPT !.age = 0])
      t2 == Write(t1, f.name, line)
  IN  IF t.d.reenter THEN t1
      ELSE IF ok THEN t2
      ELSE logerror(Push([t2 EXCEPT !.d.reenter = TRUE], [op |-> "walled", i |-> 0, ph |-> "", m |-> NoMsg]), "tty")

(* fprintlog for the i-th entry, up to the end of its switch; e is what    *)
(* the system calls return.  What fails is logged before the count of the  *)
(* entry is reset.  The retries of an unknown host are counted in          *)
(* f_prevcount too.                                                        *)
Served(t, i, from, msg, e) ==
  LET f    == t.d.files[i]
      line == LineOf(f, msg)
      over == f.age >= SuspendTime
      miss == Set(t, i, IF f.prevcount = 0 THEN [f EXCEPT !.kind = "UNUSED"] ELSE [f EXCEPT !.prevcount = @ - 1])
      found == Set(t, i, [f EXCEPT !.kind = "FORW", !.prevcount = 0])
  IN  CASE f.kind = "UNUSED" -> Set(t, i, [f EXCEPT !.age = 0])
        [] f.kind = "SUSP" -> IF over THEN Forward(t, i, from, line, e = "ok") ELSE t
        [] f.kind = "UNKN" -> IF ~over THEN t ELSE IF e = "ok" THEN Forward(found, i, from, line, TRUE) ELSE miss
        [] f.kind = "FORW" -> Forward(t, i, from, line, e = "ok")
        [] f.kind \in Files \cup {"CONSOLE"} -> WriteFile(t, i, line, e)
        [] f.kind = "WALL" -> wallmsg(t, i, line, e = "ok")

fprintlog(t, i, from, msg, e) ==
  IF t.d.files[i].prevhost = NoHost \/ t.d.files[i].freed THEN Crash(t)
  ELSE Served(Push(t, [op |-> "reset", i |-> i, ph |-> "", m |-> NoMsg]), i, from, msg, e)

(* Its end: the count is reset.  A signal may come before.                 *)
reset(t) ==
  LET i == Top(t).i
      f == t.d.files[i]
  IN  IF f.kind = "UNKN" THEN Pop(t) ELSE Set(Pop(t), i, [f EXCEPT !.prevcount = 0])

(* Every call of fprintlog that flushes has this form. *)
flush(t, i, from, e) == IF t.d.files[i].prevcount > 0 THEN fprintlog(t, i, from, Null, e) ELSE t

----------------------------------------------------------------------------
(* logmsg, one destination per step.  SIGHUP and SIGALRM are blocked.      *)
MaxRepeat == Len(RepeatInterval) - 1

(* Mutant: no upper limit. *)
BackOff_more(n) == n + 1

BackOff(n) == IF n + 1 > MaxRepeat THEN MaxRepeat ELSE n + 1

Wanted(f, m) ==
  /\ m.pri \in f.mask[m.fac]
  /\ ~(f.kind = "CONSOLE" /\ "IGN_CONS" \in m.flags)
  /\ "MARK" \in m.flags => f.age >= MarkInterval \div 2

Same(f, m) ==
  "MARK" \notin m.flags /\ f.prevhost # NoHost /\ ~m.long /\ m.text = f.prevline /\ m.host = f.prevhost

Tell(t, i, m) ==
  LET n == t.d.files[i].name
  IN  IF n \in Tracked \ t.lost THEN [t EXCEPT !.out[n].owed = Append(@, Said(m.text, m.host))] ELSE t

(* Mutant: the host is not saved. *)
NewLine_nohost(t, i, m, e) ==
  LET t1 == Set(t, i, [t.d.files[i] EXCEPT !.rep = 0, !.prevline = IF m.long THEN "" ELSE m.text])
  IN  fprintlog(Tell(t1, i, m), i, m.host, IF m.long THEN m.text ELSE Null, e)

(* The new line is saved, unless it is too long, and written. *)
NewLine(t, i, m, e) ==
  LET t1 == Set(t, i, [t.d.files[i] EXCEPT !.rep = 0, !.prevhost = m.host,
                        !.prevline = IF m.long THEN "" ELSE m.text,
                        !.prevpri = IF m.long THEN @ ELSE m.pri])
  IN  fprintlog(Tell(t1, i, m), i, m.host, IF m.long THEN m.text ELSE Null, e)

(* Before the configuration is read everything goes to the console. *)
Console(t, m) ==
  IF "IGN_CONS" \in m.flags THEN t ELSE Write(t, "console", [text |-> m.text, host |-> LocalHostName, n |-> 1])

(* The next entry of a list that a loop stops at, or one past the end. *)
First(S, t, i) == Min({j \in S : j >= i} \cup {Len(t.d.files) + 1})
Freed(t) == {j \in DOMAIN t.d.files : t.d.files[j].freed}

logmsg(t, e) ==
  LET fr == Top(t)
      m  == fr.m
      i  == IF fr.ph = "look" THEN First(Freed(t) \cup {j \in DOMAIN t.d.files : Wanted(t.d.files[j], m)}, t, fr.i) ELSE fr.i
      f  == t.d.files[i]
      to(j, ph, g) == SetTop(Set(t, i, g), [fr EXCEPT !.i = j, !.ph = ph])
      counted == [f EXCEPT !.prevcount = @ + 1]
  IN  IF fr.ph = "look" /\ fr.i = 1 /\ ~t.d.initialized THEN Console(Pop(t), m)
      ELSE IF i > Len(t.d.files) THEN Pop(t)
      ELSE IF fr.ph = "backoff" THEN to(i + 1, "look", [f EXCEPT !.rep = BackOff(@)])
      ELSE IF fr.ph = "save" THEN NewLine(to(i + 1, "look", f), i, m, e)
      ELSE IF f.freed THEN Crash(t)
      ELSE IF ~Same(f, m) THEN flush(to(i, "save", f), i, m.host, e)
      ELSE IF f.age <= RepeatInterval[f.rep + 1] THEN Tell(to(i + 1, "look", counted), i, m)
      ELSE fprintlog(Tell(to(i, "backoff", counted), i, m), i, m.host, Null, e)

(* The kernel's facility is not for programs. *)
printline(t, m) ==
  LET fac == IF m.fac = "kern" THEN "user" ELSE m.fac
      fr  == LogFrame([Message(fac, m.pri, m.text, m.host, {}) EXCEPT !.long = m.long])
  IN  IF ForceSync THEN Push(Push(t, fr), fr) ELSE Push(t, fr)

(* A line of the kernel; one without a priority is not for the console. *)
printsys(t, m) ==
  Push(t, LogFrame(Message(m.fac, m.pri, m.text, LocalHostName, IF m.pri = 0 THEN {} ELSE {"IGN_CONS"})))

----------------------------------------------------------------------------
Due(t) == {j \in DOMAIN t.d.files : t.d.files[j].prevcount > 0 /\ t.d.files[j].age >= RepeatInterval[t.d.files[j].rep + 1]}

(* Mutant: the timer is not set again. *)
domark_once(t, e) ==
  LET fr == Top(t)
      i  == First(Freed(t) \cup Due(t), t, fr.i)
  IN  IF i > Len(t.d.files) THEN Pop(t)
      ELSE IF t.d.files[i].freed THEN Crash(t)
      ELSE fprintlog(SetTop(t, [fr EXCEPT !.i = i + 1]), i, LocalHostName, Null, e)

(* SIGALRM: marks, then the repetitions that are old enough are written.   *)
domark(t, e) ==
  LET fr  == Top(t)
      i   == IF fr.ph = "flush" THEN First(Freed(t) \cup Due(t), t, fr.i) ELSE fr.i
      seq == t.d.markseq + 1
      to(j, ph) == SetTop(t, [fr EXCEPT !.i = j, !.ph = ph])
  IN  CASE fr.ph = "mark" ->
             IF MarkInterval = 0 THEN to(1, "flush")
             ELSE IF seq < MarkInterval THEN [to(1, "flush") EXCEPT !.d.markseq = seq]
             ELSE Push([to(1, "flush") EXCEPT !.d.markseq = 0], LogFrame(Message("mark", 1, "mark", LocalHostName, {"MARK"})))
        [] fr.ph = "backoff" -> Set(to(i + 1, "flush"), i, [t.d.files[i] EXCEPT !.rep = BackOff(@)])
        [] fr.ph = "flush" ->
             IF i > Len(t.d.files) THEN [Pop(t) EXCEPT !.d.alarm = TRUE]
             ELSE IF t.d.files[i].freed THEN Crash(t)
             ELSE fprintlog(to(i, "backoff"), i, LocalHostName, Null, e)

(* Mutant: the pending lines are dropped. *)
die_drop(t, e) ==
  LET fr == Top(t)
  IN  IF fr.ph = "bye" THEN [t EXCEPT !.d.up = "exit", !.d.stack = <<>>]
      ELSE logerror(SetTop([t EXCEPT !.d.initialized = t.d.was], [fr EXCEPT !.ph = "bye"]), "exiting")

(* SIGTERM: what is pending is written, a last message, and the end. *)
die(t, e) ==
  LET fr == Top(t)
      i  == First(Freed(t) \cup {j \in DOMAIN t.d.files : t.d.files[j].prevcount > 0}, t, fr.i)
  IN  IF fr.ph = "bye" THEN [t EXCEPT !.d.up = "exit", !.d.stack = <<>>]
      ELSE IF i > Len(t.d.files)
      THEN logerror(SetTop([t EXCEPT !.d.initialized = t.d.was], [fr EXCEPT !.ph = "bye"]), "exiting")
      ELSE IF t.d.files[i].freed THEN Crash(t)
      ELSE flush(SetTop(t, [fr EXCEPT !.i = i + 1]), i, LocalHostName, e)

(* A line of the configuration becomes an entry.  A selector that is wrong *)
(* leaves it unused, as a file that cannot be opened; a host without an    *)
(* address is looked up again later.                                       *)
cfline(t, line, ok) ==
  LET s == Selected(line.sel, t.d.seen)
      bad == \E i \in DOMAIN line.sel : Bad(line.sel[i])
      f == [Entry EXCEPT !.mask = s.mask, !.name = line.name]
      kind == CASE line.kind = "FORW" /\ ~ok -> "UNKN"
                [] line.kind \in Files \cup {"CONSOLE"} /\ ~ok -> "UNUSED"
                [] OTHER -> line.kind
      new == IF bad THEN f
             ELSE [f EXCEPT !.kind = kind, !.prevcount = IF kind = "UNKN" THEN RetryMax ELSE 0,
                            !.age = IF kind = "UNKN" THEN 0 ELSE @]
      t1 == [t EXCEPT !.d.files = Append(@, new), !.d.seen = s.seen, !.lost = IF ok /\ ~bad THEN @ ELSE @ \cup {line.name}]
  IN  IF bad \/ kind = "UNUSED" THEN logerror(t1, "config") ELSE t1

(* Mutant: the entries are freed without a flush. *)
init_drop(t, e, conf) ==
  LET fr == Top(t)
      i  == fr.i
      t1 == [t EXCEPT !.d.initialized = FALSE]
  IN  CASE fr.ph \in {"start", "flush"} ->
             SetTop([t1 EXCEPT !.d.files = <<>>, !.d.seen = {}, !.d.conf = conf], [fr EXCEPT !.i = 1, !.ph = "read"])
        [] fr.ph = "read" ->
             IF i <= Len(t.d.conf) THEN cfline(SetTop(t, [fr EXCEPT !.i = i + 1]), t.d.conf[i], TRUE)
             ELSE SetTop([t EXCEPT !.d.initialized = TRUE], [fr EXCEPT !.ph = "done"])
        [] fr.ph = "done" -> [Pop(t) EXCEPT !.d.restart = FALSE]

(* The reload: without a port for the network nothing happens; pending     *)
(* lines are written, the entries are freed one by one while the list      *)
(* still shows them, then the file is read, or a default if there is none; *)
(* restart is cleared when init has returned.                              *)
init(t, e, conf) ==
  LET fr == Top(t)
      i  == fr.i
      t1 == [t EXCEPT !.d.initialized = FALSE]
      read(c) == SetTop([t1 EXCEPT !.d.files = <<>>, !.d.seen = {}, !.d.conf = c], [fr EXCEPT !.i = 1, !.ph = "read"])
      done == SetTop([t EXCEPT !.d.initialized = TRUE], [fr EXCEPT !.ph = "done"])
  IN  CASE fr.ph = "start" ->
             IF e = "ok" THEN SetTop(t, [fr EXCEPT !.ph = "flush"])
             ELSE logerror(logerror(SetTop(t, [fr EXCEPT !.ph = "done"]), "network"), "network")
        [] fr.ph = "flush" ->
             IF i > Len(t.d.files) THEN read(IF e = "ok" THEN conf ELSE DefaultConf)
             ELSE flush(SetTop(t1, [fr EXCEPT !.ph = "free"]), i, LocalHostName, e)
        [] fr.ph = "free" -> SetTop(Set(t, i, [t.d.files[i] EXCEPT !.freed = TRUE]), [fr EXCEPT !.i = i + 1, !.ph = "flush"])
        [] fr.ph = "read" ->
             IF i <= Len(t.d.conf) THEN cfline(SetTop(t, [fr EXCEPT !.i = i + 1]), t.d.conf[i], e = "ok")
             ELSE IF t.d.conf = DefaultConf THEN done
             ELSE Push(done, LogFrame(Message("syslog", 1, "restart", LocalHostName, {})))
        [] fr.ph = "done" -> [Pop(t) EXCEPT !.d.restart = FALSE]

----------------------------------------------------------------------------
(* The daemon as a process.                                                *)
Turn == [d |-> d, out |-> out, lost |-> lost]

Becomes(t) == d' = t.d /\ out' = t.out /\ lost' = t.lost

InitFrame == [op |-> "init", i |-> 1, ph |-> "start", m |-> NoMsg]

Init ==
  /\ d = [up |-> "up", at |-> "loop", files |-> <<>>, stack |-> <<InitFrame>>, initialized |-> FALSE, restart |-> FALSE,
          reenter |-> FALSE, seen |-> {}, was |-> FALSE, markseq |-> 0, alarm |-> TRUE, slow |-> FALSE, conf |-> <<>>]
  /\ out = [n \in Names |-> Unwritten]
  /\ lost = {} /\ disk \in Confs /\ sig = {} /\ inq = <<>>
  /\ left = [msgs |-> MaxMsgs, events |-> MaxEvents]

Up == d.up = "up"

(* The function on top of the stack goes on; a system call may fail. *)
Frame(t, e) ==
  LET op == Top(t).op
  IN  CASE op = "log" -> logmsg(t, e)
        [] op = "mark" -> domark(t, e)
        [] op = "die" -> die(t, e)
        [] op = "init" -> init(t, e, disk)
        [] op = "reset" -> reset(t)
        [] op = "walled" -> [Pop(t) EXCEPT !.d.reenter = FALSE]

Step ==
  /\ Up /\ d.stack # <<>>
  /\ \/ \E good \in {Frame(Turn, "ok")} : Becomes(good) /\ UNCHANGED left
     \/ /\ MayFail /\ left.events > 0
        /\ \E bad \in {Frame(Turn, e) : e \in {"fail", "again", "reopen"}} \ {Frame(Turn, "ok")} : Becomes(bad)
        /\ left' = [left EXCEPT !.events = @ - 1]
  /\ UNCHANGED <<disk, sig, inq>>

(* main: poll waits for a datagram or a signal. *)
Poll ==
  /\ Up /\ d.stack = <<>>
  /\ \/ d.at = "loop" /\ d' = [d EXCEPT !.at = "poll", !.slow = FALSE] /\ UNCHANGED <<out, lost, inq>>
     \/ d.at = "poll" /\ inq # <<>> /\ d' = [d EXCEPT !.at = "woken"] /\ UNCHANGED <<out, lost, inq>>
     \/ d.at = "woken" /\ d.restart
        /\ d' = [d EXCEPT !.at = "loop", !.stack = <<InitFrame>>] /\ UNCHANGED <<out, lost, inq>>
     \/ d.at = "woken" /\ ~d.restart /\ inq = <<>> /\ d' = [d EXCEPT !.at = "loop"] /\ UNCHANGED <<out, lost, inq>>
     \/ d.at = "woken" /\ ~d.restart /\ inq # <<>> /\ inq' = Tail(inq)
        /\ LET t == [Turn EXCEPT !.d.at = "loop"]
           IN  Becomes(IF inq[1].fac = "kern" /\ inq[1].host = LocalHostName THEN printsys(t, inq[1]) ELSE printline(t, inq[1]))
  /\ UNCHANGED <<disk, sig, left>>

(* A handler runs; poll is interrupted.  die does not return: of what it   *)
(* interrupts only the blocked signals matter.                             *)
Woken == IF d.stack = <<>> /\ d.at = "poll" THEN "woken" ELSE d.at
Running(op) == \E i \in DOMAIN d.stack : d.stack[i].op = op

(* The handler flushes the entries: one whose repetition fprintlog has in  *)
(* its buffer or has written, and whose count it has not reset yet, may be *)
(* written twice, whichever of the two writes comes first.                 *)
Torn == {d.files[d.stack[p].i].name : p \in {q \in DOMAIN d.stack : d.stack[q].op = "reset" /\ d.files[d.stack[q].i].prevcount > 0}}

Handler ==
  /\ Up
  /\ \/ /\ "ALRM" \in sig /\ ~Running("log") /\ ~Running("mark")
        /\ d' = [d EXCEPT !.at = Woken, !.stack = Append(@, [op |-> "mark", i |-> 1, ph |-> "mark", m |-> NoMsg])]
        /\ sig' = sig \ {"ALRM"} /\ lost' = lost \cup Torn
     \/ /\ "HUP" \in sig /\ ~Running("log")
        /\ d' = [d EXCEPT !.at = Woken, !.restart = TRUE]
        /\ sig' = sig \ {"HUP"} /\ UNCHANGED lost
     \/ /\ "TERM" \in sig /\ ~Running("die")
        /\ d' = [d EXCEPT !.at = Woken, !.initialized = FALSE, !.was = d.initialized,
                          !.stack = Append(IF Running("log") THEN <<LogFrame(NoMsg)>> ELSE <<>>, [op |-> "die", i |-> 1, ph |-> "flush", m |-> NoMsg])]
        /\ sig' = sig \ {"TERM"} /\ lost' = lost \cup Torn
  /\ UNCHANGED <<out, disk, inq, left>>

(* Time passes while the daemon waits. *)
Aged(f) == [f EXCEPT !.age = IF @ < AgeMax THEN @ + 1 ELSE @]

Tick ==
  /\ Up /\ d.stack = <<>> /\ d.at = "poll" /\ inq = <<>> /\ sig = {}
  /\ d' = [d EXCEPT !.alarm = FALSE, !.files = [i \in DOMAIN @ |-> Aged(@[i])]]
  /\ sig' = IF d.alarm THEN {"ALRM"} ELSE {}
  /\ UNCHANGED <<out, lost, disk, inq, left>>

(* The timer expires while the daemon is busy; in logmsg, where it is      *)
(* blocked, that is as if it expired at its end.  The same holds for       *)
(* SIGHUP below.  No run between two calls of poll takes two intervals.    *)
TickBusy ==
  /\ Up /\ d.stack # <<>> /\ d.alarm /\ ~d.slow /\ ~Running("mark") /\ ~Running("log")
  /\ d' = [d EXCEPT !.alarm = FALSE, !.slow = TRUE, !.files = [i \in DOMAIN @ |-> Aged(@[i])]]
  /\ sig' = sig \cup {"ALRM"}
  /\ UNCHANGED <<out, lost, disk, inq, left>>

Receive ==
  /\ Up /\ left.msgs > 0 /\ inq = <<>> /\ d.stack = <<>> /\ d.at = "poll"
  /\ \E m \in Msgs : inq' = Append(inq, m)
  /\ left' = [left EXCEPT !.msgs = @ - 1]
  /\ UNCHANGED <<d, out, lost, disk, sig>>

(* The administrator changes the file and sends SIGHUP, or ends syslogd.   *)
(* SIGHUP is ignored before the daemon has started.                        *)
Administrator ==
  /\ Up
  /\ \/ left.events > 0 /\ (Running("init") => d.restart) /\ ~Running("log") /\ \E c \in Confs : disk' = c
        /\ sig' = sig \cup {"HUP"} /\ left' = [left EXCEPT !.events = @ - 1]
     \/ left.events > 0 /\ sig' = sig \cup {"TERM"} /\ left' = [left EXCEPT !.events = @ - 1] /\ UNCHANGED disk
  /\ UNCHANGED <<d, out, lost, inq>>

Next == Step \/ Poll \/ Handler \/ Tick \/ TickBusy \/ Receive \/ Administrator

Spec == Init /\ [][Next]_vars

(* The process runs, its signals are delivered and time passes.  StepFair  *)
(* is WF_vars(Step): a step is enabled exactly while a function runs.      *)
StepFair == []<>(~Up \/ d.stack = <<>>) \/ []<><<Step>>_vars

FairSpec == Spec /\ StepFair /\ WF_vars(Poll) /\ WF_vars(Handler) /\ WF_vars(Tick)

----------------------------------------------------------------------------
Kinds == Files \cup {"UNUSED", "CONSOLE", "FORW", "SUSP", "UNKN", "WALL"}

(* f_repeatcount is always an index of repeatinterval. *)
TypeOK ==
  /\ d.up \in {"up", "exit", "crash"} /\ d.at \in {"loop", "poll", "woken"}
  /\ \A i \in DOMAIN d.files : d.files[i].kind \in Kinds /\ d.files[i].rep \in 0..MaxRepeat /\ d.files[i].prevcount \in Nat

(* The repetitions that the destination of an entry still has to be told.  *)
Owed(f) == [k \in 1..f.prevcount |-> Said(f.prevline, f.prevhost)]

(* Written, and the count is still to be reset.                            *)
Told(i) == \E p \in DOMAIN d.stack : d.stack[p].op = "reset" /\ d.stack[p].i = i

(* No message is lost, added or reordered by the suppression of repeated   *)
(* lines: what is owed to a file is what is counted for it, and a line is  *)
(* always what is owed, through flushes, marks and reloads.  A file is     *)
(* not followed any more when it has failed, and when SIGTERM or SIGALRM   *)
(* comes in fprintlog while it has a repetition in hand or written (1281)  *)
(* and f_prevcount is not reset (1325): the handler may write it again.    *)
(* A line is owed from the call of fprintlog for it, or its count, on.     *)
Accounted ==
  \A n \in Tracked \ lost :
    /\ ~out[n].wrong
    /\ \A i \in DOMAIN d.files : d.files[i].name = n => out[n].owed = IF Told(i) THEN <<>> ELSE Owed(d.files[i])
    /\ (\A i \in DOMAIN d.files : d.files[i].name # n) => out[n].owed = <<>>

(* die leaves nothing pending, whatever it interrupted: only what syslogd  *)
(* says after the flush about its own end and about failures meanwhile may *)
(* be counted once more and never written.                                 *)
LastWords == {Said(text, LocalHostName) : text \in {"exiting", "write", "sendto", "tty"}}

CompleteAtExit ==
  d.up = "exit" => \A n \in Tracked \ lost : \A k \in DOMAIN out[n].owed : out[n].owed[k] \in LastWords

(* syslogd ends without SIGTERM only where it reads what is not there:     *)
(* the previous host of an entry whose forwarding address was not found,   *)
(* or an entry that init has freed while a signal handler uses the list.   *)
CrashCauses ==
  d.up = "crash" => \E i \in DOMAIN d.files : d.files[i].freed \/ (d.files[i].kind = "UNKN" /\ d.files[i].prevhost = NoHost)

(* Repetitions are written after a while though nothing else is logged.    *)
RepeatsWritten ==
  (\E i \in DOMAIN d.files : d.files[i].prevcount > 0) ~> (~Up \/ \A i \in DOMAIN d.files : d.files[i].prevcount = 0)

(* A reload that was asked for happens, also when SIGHUP came just before  *)
(* poll: the timer interrupts poll.                                        *)
RestartServed == d.restart ~> (~d.restart \/ ~Up)

(* The configuration is read whenever a hangup signal is received.         *)
ReadOnHangup ==
  \A c \in Confs : (Up /\ disk = c /\ "HUP" \in sig) ~> (d.conf = c \/ disk # c \/ ~Up)

(* Every line accepted is written once or counted, up to the exit of syslogd.   *)
LinesAccounted == TypeOK /\ Accounted /\ CompleteAtExit

(* Repetitions that wait are written and reloads asked for are made.            *)
NothingStuck == RepeatsWritten /\ RestartServed
=============================================================================
