----------------------------- MODULE FtpServer -----------------------------
(***************************************************************************)
(* ftpd (ftpd/ftpd.c, ftpd/ftpcmd.y, ftpd/auth.c): what one session of the *)
(* server does with a command, with the data connection and with an urgent *)
(* ABOR.  Every handler maps a turn, the record of all that the server     *)
(* touches, to the turn after it: the session s, the remote files fs, the  *)
(* reply lines out and the data connection wire.                           *)
(*                                                                         *)
(* A file name is a pair: the name and the number gunique added (0: none). *)
(* A file is a sequence of characters; LF and CR matter to TYPE A, x and y *)
(* stand for all others.  A port or descriptor is a number, 0 is none.     *)
(***************************************************************************)
EXTENDS Naturals, Sequences, SequencesExt, FiniteSetsExt, TLC

CONSTANTS
  DefaultPort,  \* the client's end of the control connection, used when there was no PORT
  Block,        \* the stdio buffer and the page of mmap, in characters
  LoginLimit,   \* login_attempts that end the session
  UniqueMax     \* the names gunique tries

ASSUME ServerAssumption ==
  DefaultPort \in Nat \ {0} /\ Block \in Nat \ {0} /\ LoginLimit \in Nat /\ UniqueMax \in Nat

NoFile == <<"absent">>
NoName == <<"", 0>>
NoWire == [id |-> 0, buf |-> <<>>, eof |-> FALSE, dead |-> FALSE]
Line(n, more) == [code |-> n, more |-> more, port |-> 0]
NoJob == [cmd |-> "", file |-> NoName, todo |-> <<>>, old |-> <<>>, from |-> 0, unique |-> FALSE]

(* A session that has greeted its client: the static variables of ftpd.c.  *)
(* orphan is not in the code: an aborted listing has left its connection.  *)
Session ==
  [at |-> "cmd", logged |-> FALSE, guest |-> FALSE, askpasswd |-> FALSE,
   attempts |-> 0, type |-> "A", fromname |-> NoName, restart |-> 0,
   data |-> 0, pdata |-> 0, usedefault |-> TRUE, dest |-> 0,
   transflag |-> FALSE, job |-> NoJob, orphan |-> FALSE]

----------------------------------------------------------------------------
(* Replies, and the end of the session.                                    *)
reply(t, n) == [t EXCEPT !.out = Append(@, Line(n, FALSE))]

(* Everything up to a later reply line with the same code is one reply.    *)
lreply(t, n) == [t EXCEPT !.out = Append(@, Line(n, TRUE))]

(* _exit closes the control and the data connections. *)
dologout(t) ==
  [t EXCEPT !.s = [@ EXCEPT !.at = "gone", !.transflag = FALSE, !.data = 0, !.pdata = 0, !.job = NoJob],
            !.wire = [@ EXCEPT !.eof = TRUE, !.dead = TRUE]]

toolong(t) == dologout(reply(t, 421))

nack(t) == reply(t, 502)

yyerror(t) == reply(t, 500)

----------------------------------------------------------------------------
(* Logging in.  "user" has an account and a password, "ftp" is the guest,  *)
(* all other names are refused (by checkuser, the shells or getpwnam).     *)
auth_user(s, name) ==
  [ok |-> name \in {"user", "ftp"}, s |-> [s EXCEPT !.guest = name = "ftp"]]

end_login(s) == [s EXCEPT !.logged = FALSE, !.guest = FALSE]

user(t, name) ==
  LET au == auth_user(IF t.s.logged THEN end_login(t.s) ELSE t.s, name)
  IN  CASE t.s.logged /\ t.s.guest -> reply(t, 530)
        [] ~(t.s.logged /\ t.s.guest) /\ au.ok  -> reply([t EXCEPT !.s = [au.s EXCEPT !.askpasswd = TRUE]], 331)
        [] ~(t.s.logged /\ t.s.guest) /\ ~au.ok -> reply([t EXCEPT !.s = au.s], 530)

(* chroot, chdir or seteuid may fail. *)
complete_login(t, ok) ==
  IF ok THEN reply(t, 230) ELSE [reply(t, 550) EXCEPT !.s = end_login(@)]

auth_pass(name) == name = "right"

pass(t, passwd, ok) ==
  LET wrong == reply([t EXCEPT !.s.askpasswd = FALSE, !.s.attempts = @ + 1], 530)
      in    == complete_login([t EXCEPT !.s.askpasswd = FALSE, !.s.logged = TRUE], ok)
  IN  IF t.s.logged \/ ~t.s.askpasswd THEN reply(t, 503)
      ELSE IF ~t.s.guest /\ ~auth_pass(passwd)
           THEN IF t.s.attempts >= LoginLimit THEN dologout(wrong) ELSE wrong
           ELSE [in EXCEPT !.s.attempts = 0]

----------------------------------------------------------------------------
(* TYPE A on the wire.                                                     *)
AsciiOut(q) == FlattenSeq([i \in DOMAIN q |-> IF q[i] = "LF" THEN <<"CR", "LF">> ELSE <<q[i]>>])

(* Mutant: every CR is dropped. *)
AsciiIn_anyCr(q) == SelectSeq(q, LAMBDA ch : ch # "CR")

(* CR LF becomes LF; a CR before anything else stays. *)
AsciiIn(q) ==
  LET f[i \in 1..Len(q) + 2] ==
        IF i > Len(q) THEN <<>>
        ELSE IF q[i] = "CR" /\ i < Len(q) /\ q[i + 1] = "LF" THEN <<"LF">> \o f[i + 2]
        ELSE <<q[i]>> \o f[i + 1]
  IN  f[1]

NetLen(q, k) == Len(AsciiOut(SubSeq(q, 1, k)))

From(q, k) == SubSeq(q, k + 1, Len(q))

(* Where a transfer that restarts at n continues: lseek for an image; for  *)
(* TYPE A characters are read until n have passed, each LF counting twice. *)
(* Len(q) + 1 stands for the end of file met on the way.                   *)
SkipTo(q, n, type) ==
  IF type # "A" THEN n
  ELSE Min({k \in 0..Len(q) : NetLen(q, k) >= n} \cup {Len(q) + 1})

(* A file after new was written into q at k; beyond the end a hole is NUL. *)
Overlay(q, k, new) ==
  [i \in 1..Max({IF new = <<>> THEN 0 ELSE k + Len(new), Len(q)}) |->
     IF i > k /\ i <= k + Len(new) THEN new[i - k]
     ELSE IF i <= Len(q) THEN q[i] ELSE "NUL"]

(* What send_data sends of q when k characters were skipped.  The rest of  *)
(* the file is mapped from the offset of the descriptor, which is behind   *)
(* the stdio buffer when characters were read; when mmap refuses (an empty *)
(* rest, an offset inside a page), TYPE A goes on with getc and an image   *)
(* with blocks of blksize, which retrieve leaves 0 for a file.             *)
send_data(q, k, type) ==
  LET offset == IF type # "A" \/ k = 0 THEN k
                ELSE Min({Len(q), Block * ((k + Block - 1) \div Block)})
      mapped == Len(q) > 0 /\ offset < Len(q) /\ offset % Block = 0
  IN  CASE type = "A" -> AsciiOut(From(q, IF mapped THEN offset ELSE k))
        [] type # "A" -> IF mapped THEN From(q, offset) ELSE <<>>

(* What receive_data makes of the characters that have arrived; the        *)
(* character after a CR decides about it.                                  *)
receive_data(raw, eof, type) ==
  IF type # "A" THEN raw
  ELSE AsciiIn(IF ~eof /\ raw # <<>> /\ Last(raw) = "CR" THEN Front(raw) ELSE raw)

BareLf(raw) == \E i \in DOMAIN raw : raw[i] = "LF" /\ (i > 1 => raw[i - 1] # "CR")

----------------------------------------------------------------------------
(* The data connection.                                                    *)
(* dest is where the client listens or has connected: lst. A transfer in   *)
(* passive mode waits in accept; else it uses an open connection, or       *)
(* connects to data_dest.                                                  *)
dataconn(t, lst) ==
  LET s == t.s
      dest == IF s.usedefault THEN DefaultPort ELSE s.dest
      t1 == [t EXCEPT !.s.usedefault = TRUE, !.s.dest = dest]
  IN  CASE s.pdata > 0 -> [t EXCEPT !.s.at = "accept"]
        [] s.pdata = 0 /\ s.data > 0 -> reply([t EXCEPT !.s.usedefault = TRUE, !.s.at = "start"], 125)
        [] s.pdata = 0 /\ s.data = 0 ->
             IF lst > 0 /\ dest = lst
             THEN reply([t1 EXCEPT !.s.data = dest, !.s.at = "start", !.wire = [NoWire EXCEPT !.id = dest]], 150)
             ELSE [reply(t1, 425) EXCEPT !.s.at = "cmd", !.s.job = NoJob]

(* accept in dataconn returned. *)
Accepted(t, ok) ==
  IF ok THEN reply([t EXCEPT !.s.at = "start"], 150)
  ELSE [reply(t, 425) EXCEPT !.s.at = "cmd", !.s.pdata = 0, !.s.job = NoJob]

Channel(s) == IF s.pdata > 0 THEN s.pdata ELSE s.data

(* Mutant: the descriptor is forgotten, not closed. *)
CloseData_leak(t) ==
  [t EXCEPT !.s = [@ EXCEPT !.at = "cmd", !.data = 0, !.pdata = 0, !.transflag = FALSE, !.job = NoJob]]

(* fclose of the data connection at the end of retrieve and store: what    *)
(* the client still writes to it is refused.                               *)
CloseData(t) ==
  [t EXCEPT !.s = [@ EXCEPT !.at = "cmd", !.data = 0, !.pdata = 0, !.transflag = FALSE, !.job = NoJob],
            !.wire = IF @.id = Channel(t.s) THEN [@ EXCEPT !.eof = TRUE, !.dead = t.s.job.cmd = "STOR"] ELSE @]

----------------------------------------------------------------------------
(* Transfers up to the data connection.                                    *)
Job(cmd, file, todo) == [NoJob EXCEPT !.cmd = cmd, !.file = file, !.todo = todo]

retrieve(t, name, lst) ==
  LET q == t.fs[name]
      k == SkipTo(q, t.s.restart, t.s.type)
  IN  IF q = NoFile \/ (t.s.restart > 0 /\ t.s.type = "A" /\ k > Len(q)) THEN reply(t, 550)
      ELSE dataconn([t EXCEPT !.s.job = Job("RETR", name, send_data(q, k, t.s.type))], lst)

(* LIST is retrieve of the output of ls: here one line. *)
Listing(type) == IF type = "A" THEN <<"y", "CR", "LF">> ELSE <<"y", "LF">>

list(t, lst) == dataconn([t EXCEPT !.s.job = Job("LIST", NoName, Listing(t.s.type))], lst)

(* One line per file: here its name. *)
Files(fs) == {f \in DOMAIN fs : fs[f] # NoFile}

send_file_list(t, lst) ==
  IF Files(t.fs) = {} THEN [reply(t, 550) EXCEPT !.s.data = 0, !.s.pdata = 0]
  ELSE dataconn([t EXCEPT !.s.job = Job("NLST", NoName, SetToSeq(Files(t.fs)))], lst)

(* The first of UniqueMax variants of a name that does not exist. *)
gunique(fs, name) ==
  LET free == {i \in 1..UniqueMax : fs[<<name[1], i>>] = NoFile}
  IN  IF free = {} THEN NoName ELSE <<name[1], Min(free)>>

store(t, name, mode, unique, lst) ==
  LET to   == IF unique /\ t.fs[name] # NoFile THEN gunique(t.fs, name) ELSE name
      old  == t.fs[to]
      rest == t.s.restart
      k    == SkipTo(old, rest, t.s.type)
      base == IF old = NoFile \/ (mode = "w" /\ rest = 0) THEN <<>> ELSE old
      at   == IF rest > 0 THEN k ELSE Len(base)
      job  == [Job("STOR", to, <<>>) EXCEPT !.old = base, !.from = at, !.unique = unique]
  IN  CASE to = NoName -> reply(t, 452)
        [] to # NoName /\ rest > 0 /\ old = NoFile -> reply(t, 553)
        [] to # NoName /\ rest > 0 /\ old # NoFile /\ t.s.type = "A" /\ k > Len(old) -> reply(t, 550)
        [] OTHER -> dataconn([t EXCEPT !.fs[to] = base, !.s.job = job], lst)

----------------------------------------------------------------------------
(* Steps of a transfer.                                                    *)
(* Between transflag++ and setjmp of send_data and receive_data there is a *)
(* window; send_file_list calls setjmp first.                              *)
Begin(t) ==
  [t EXCEPT !.s.transflag = TRUE, !.s.at = IF t.s.job.cmd = "NLST" THEN "xfer" ELSE "window"]

SetJmp(t) == [t EXCEPT !.s.at = "xfer"]

(* A write.  The peer may be gone: on a connection it has closed, lostconn *)
(* handles SIGPIPE.                                                        *)
SendSome(t) ==
  IF t.wire.id = Channel(t.s) /\ ~t.wire.dead
  THEN [t EXCEPT !.wire.buf = Append(@, Head(t.s.job.todo)), !.s.job.todo = Tail(@)]
  ELSE dologout(t)

SendEnds(t, ok) == CloseData(reply(t, IF ok THEN 226 ELSE IF t.s.job.cmd = "NLST" THEN 550 ELSE 426))

(* read returned what is there. *)
Receive(t) ==
  LET raw == t.s.job.todo \o t.wire.buf
      new == receive_data(raw, t.wire.eof, t.s.type)
  IN  [t EXCEPT !.wire.buf = <<>>, !.s.job.todo = raw,
                !.fs[t.s.job.file] = Overlay(t.s.job.old, t.s.job.from, new)]

(* End of file, or an error: of the connection, which the client has reset, *)
(* or of the disk.                                                         *)
ReceiveEnds(t, ok) ==
  LET warn == IF t.s.type = "A" /\ BareLf(t.s.job.todo)
              THEN [lreply(t, 226) EXCEPT !.out = Append(@, Line(0, FALSE))] ELSE t
  IN  CloseData(IF t.wire.dead THEN reply(t, 426) ELSE IF ok THEN reply(warn, 226) ELSE reply(t, 452))

(* SIGURG.  With a transfer under way the next line of the control         *)
(* connection, m, is read here; what it is not prepared for is lost.       *)
(* longjmp ends the transfer where setjmp was called: retrieve and store   *)
(* close the connection, send_file_list returns at once.  In the window    *)
(* the environment is that of an earlier transfer, or none: undefined.     *)
myoob(t, m) ==
  LET aborted == reply(reply(t, 426), 226)
  IN  CASE m.cmd = "STAT" -> reply(t, 213)
        [] m.cmd = "ABOR" ->
             IF t.s.at = "window" THEN dologout(aborted)
             ELSE IF t.s.job.cmd # "NLST" THEN CloseData(aborted)
             ELSE [aborted EXCEPT !.s = [@ EXCEPT !.transflag = FALSE, !.at = "cmd", !.job = NoJob, !.orphan = TRUE]]
        [] m.cmd \notin {"STAT", "ABOR"} -> t

----------------------------------------------------------------------------
(* The commands of ftpcmd.y that only answer; ok is what the system call   *)
(* they make returned.                                                     *)
Answer(t, ok, n) == reply(t, IF ok THEN n ELSE 550)

statcmd(t) == reply(lreply(t, 211), 211)

statfilecmd(t) == reply([lreply(t, 211) EXCEPT !.out = Append(@, Line(0, FALSE))], 211)

help(t) == reply([lreply(t, 214) EXCEPT !.out = Append(@, Line(0, FALSE))], 214)

delete(t, name) ==
  IF t.fs[name] = NoFile THEN reply(t, 550) ELSE [reply(t, 250) EXCEPT !.fs[name] = NoFile]

cwd(t, ok) == Answer(t, ok, 250)
makedir(t, ok) == Answer(t, ok, 257)
removedir(t, ok) == Answer(t, ok, 250)
pwd(t, ok) == Answer(t, ok, 257)

renamefrom(t, name) ==
  IF t.fs[name] = NoFile THEN [reply(t, 550) EXCEPT !.s.fromname = NoName]
  ELSE [reply(t, 350) EXCEPT !.s.fromname = name]

renamecmd(t, to) ==
  LET from == t.s.fromname
  IN  IF from = NoName THEN reply(t, 503)
      ELSE IF t.fs[from] = NoFile THEN reply(t, 550)
      ELSE [reply(t, 250) EXCEPT !.fs = [@ EXCEPT ![from] = NoFile, ![to] = t.fs[from]]]

sizecmd(t, name) == Answer(t, t.fs[name] # NoFile, 213)

mdtm(t, name) == Answer(t, t.fs[name] # NoFile, 213)

(* PORT: the passive socket is closed whoever asks. *)
port(t, n) ==
  LET t1 == [t EXCEPT !.s = [@ EXCEPT !.usedefault = FALSE, !.pdata = 0, !.dest = n]]
  IN  IF ~t.s.logged THEN reply(t1, 530) ELSE reply(t1, 200)

(* free is a port nobody uses. *)
passive(t, ok, free) ==
  IF ~ok THEN [reply(t, 425) EXCEPT !.s.pdata = 0]
  ELSE [t EXCEPT !.s.pdata = free, !.out = Append(@, [Line(227, FALSE) EXCEPT !.port = free])]

(* Mutant: the type is set before it is looked at. *)
settype_any(t, ty) == reply([t EXCEPT !.s.type = ty], IF ty = "E" THEN 504 ELSE 200)

settype(t, ty) ==
  IF ty = "E" THEN reply(t, 504) ELSE reply([t EXCEPT !.s.type = IF ty = "A" THEN "A" ELSE "I"], 200)

syst(t) == reply(t, 215)

----------------------------------------------------------------------------
(* The grammar of ftpcmd.y.  e holds what the environment decides: ok, the *)
(* outcome of a system call; free, an unused port; lst, where the client   *)
(* listens.                                                                *)
LoginCmds == {"PASV", "RETR", "STOR", "APPE", "STOU", "NLST", "LIST", "STATF", "DELE", "RNTO", "CWD", "XCWD",
              "MKD", "XMKD", "RMD", "XRMD", "PWD", "XPWD", "CDUP", "XCUP", "UMASK", "CHMOD", "IDLE",
              "SIZE", "MDTM"}

(* Files, for a user who has logged in ... *)
FileCmds == {"PASV", "RETR", "STOR", "APPE", "STOU", "NLST", "LIST", "STATF", "DELE", "RNTO"}

filecmd(t, m, e) ==
  CASE m.cmd = "PASV" -> passive(t, e.ok, e.free)
    [] m.cmd = "RETR" -> retrieve(t, m.file, e.lst)
    [] m.cmd = "STOR" -> store(t, m.file, "w", FALSE, e.lst)
    [] m.cmd = "APPE" -> store(t, m.file, "a", FALSE, e.lst)
    [] m.cmd = "STOU" -> store(t, m.file, "w", TRUE, e.lst)
    [] m.cmd = "NLST" -> send_file_list(t, e.lst)
    [] m.cmd = "LIST" -> list(t, e.lst)
    [] m.cmd = "STATF" -> statfilecmd(t)
    [] m.cmd = "DELE" -> delete(t, m.file)
    [] m.cmd = "RNTO" -> renamecmd(t, m.file)

(* ... directories, attributes and SITE. *)
dircmd(t, m, e) ==
  CASE m.cmd \in {"CWD", "XCWD", "CDUP", "XCUP"} -> cwd(t, e.ok)
    [] m.cmd \in {"MKD", "XMKD"} -> makedir(t, e.ok)
    [] m.cmd \in {"RMD", "XRMD"} -> removedir(t, e.ok)
    [] m.cmd \in {"PWD", "XPWD"} -> pwd(t, e.ok)
    [] m.cmd \in {"UMASK", "IDLE"} -> reply(t, IF e.ok THEN 200 ELSE 501)
    [] m.cmd = "CHMOD" -> Answer(t, e.ok, 200)
    [] m.cmd = "SIZE" -> sizecmd(t, m.file)
    [] m.cmd = "MDTM" -> mdtm(t, m.file)

cmd(t, m, e) ==
  CASE m.cmd \in LoginCmds /\ ~t.s.logged -> reply(t, 530)
    [] m.cmd = "USER" -> user(t, m.word)
    [] m.cmd = "PASS" -> pass(t, m.word, e.ok)
    [] m.cmd = "PORT" -> port(t, m.n)
    [] m.cmd = "TYPE" -> settype(t, m.word)
    [] m.cmd = "STAT" -> statcmd(t)
    [] m.cmd = "ABOR" -> reply(t, 225)
    [] m.cmd = "HELP" -> help(t)
    [] m.cmd = "NOOP" -> reply(t, 200)
    [] m.cmd = "SYST" -> syst(t)
    [] m.cmd = "ALLO" -> reply(t, 202)
    [] m.cmd = "QUIT" -> dologout(reply(t, 221))
    [] m.cmd \in FileCmds /\ t.s.logged -> filecmd(t, m, e)
    [] m.cmd \in LoginCmds \ FileCmds /\ t.s.logged -> dircmd(t, m, e)

rcmd(t, m) ==
  IF m.cmd = "REST" THEN reply([t EXCEPT !.s.fromname = NoName, !.s.restart = m.n], 350)
  ELSE IF t.s.logged THEN renamefrom([t EXCEPT !.s.restart = 0], m.file)
  ELSE reply([t EXCEPT !.s.restart = 0], 530)

(* yylex answers itself what it does not know or implement, and jumps back *)
(* before the parser has forgotten RNFR and REST; every cmd forgets them.  *)
yyparse(t, m, e) ==
  CASE m.cmd \in {"RNFR", "REST"} -> rcmd(t, m)
    [] m.cmd = "ACCT" -> nack(t)
    [] m.cmd = "?" -> yyerror(t)
    [] m.cmd \notin {"RNFR", "REST", "ACCT", "?"} ->
         [cmd(t, m, e) EXCEPT !.s = [@ EXCEPT !.fromname = NoName, !.restart = 0]]
=============================================================================
