----------------------------- MODULE FtpClient -----------------------------
(***************************************************************************)
(* The FTP client (ftp/ftp.c, ftp/cmds.c, ftp/main.c).  A command of the   *)
(* user is a program that sends commands and waits for replies; c.at says  *)
(* where it waits and c.k, when it waits in command or getreply, what goes *)
(* on with the reply.  Every operator maps a turn, the record of what the  *)
(* client touches (c, the commands up, the data connection wire, the local *)
(* files lfs, urgent data urg), to the turn after it.                      *)
(***************************************************************************)
EXTENDS FtpServer

Prelim == 1
Complete == 2
Continue == 3
Error == 5

NoTransfer == [cmd |-> "", file |-> NoName, to |-> NoName, mode |-> "w", old |-> <<>>, from |-> 0, todo |-> <<>>, din |-> FALSE, bad |-> FALSE]

(* The client when it starts. last, astray and job.bad are not in the code: *)
(* the transfer that was last reported complete, whether a transfer was     *)
(* left without its last reply or a TYPE command without its record, and    *)
(* whether a read or a write of the local file has failed.                  *)
Client ==
  [at |-> "prompt", k |-> "", connected |-> FALSE, cpend |-> FALSE, abrt |-> FALSE,
   type |-> "A", curtype |-> "A", passive |-> FALSE, sendport |-> "auto", tmpno |-> FALSE,
   data |-> 0, restart |-> 0, sunique |-> FALSE, runique |-> FALSE,
   job |-> NoTransfer, mcmd |-> "", mflag |-> FALSE, all |-> <<>>, todo |-> <<>>, arg |-> NoName,
   last |-> NoTransfer, astray |-> FALSE]

Cmd(name) == [cmd |-> name, file |-> NoName, word |-> "", n |-> 0]

----------------------------------------------------------------------------
(* The control connection.                                                 *)
(* command: the line is sent and a reply is awaited; k says what follows.  *)
command(t, m, k) ==
  [t EXCEPT !.up = IF t.c.connected THEN Append(@, m) ELSE @,
            !.c = [@ EXCEPT !.at = "reply", !.k = k, !.abrt = FALSE, !.cpend = @ \/ t.c.connected]]

getreply(t, k) == [t EXCEPT !.c.at = "reply", !.c.k = k]

(* How many of the lines make up the next reply: one, or with a first line *)
(* that announces more, all up to the next with its code.  0: not all of   *)
(* it is there.                                                            *)
ReplyLines(lines) ==
  IF lines = <<>> THEN 0
  ELSE IF ~lines[1].more THEN 1
  ELSE Min({i \in 2..Len(lines) : lines[i].code = lines[1].code /\ ~lines[i].more} \cup {Len(lines) + 1})
       % (Len(lines) + 1)

IsSend(job) == job.cmd \in {"STOR", "APPE", "STOU"}

(* The client's end of the data connection is closed. *)
CloseWire(t, dead) ==
  [t EXCEPT !.wire = IF @.id # 0 /\ @.id = t.c.data THEN [@ EXCEPT !.buf = IF IsSend(t.c.job) THEN @ ELSE <<>>, !.eof = TRUE, !.dead = @ \/ dead] ELSE @,
            !.c.data = 0]

lostpeer(t) ==
  IF t.c.connected THEN [CloseWire(t, TRUE) EXCEPT !.c.connected = FALSE] ELSE t

Toplevel(t) ==
  [t EXCEPT !.c = [@ EXCEPT !.at = "prompt", !.k = "", !.job = NoTransfer, !.abrt = FALSE,
                            !.mcmd = "", !.mflag = FALSE, !.todo = <<>>, !.all = <<>>]]

----------------------------------------------------------------------------
(* Connecting and logging in.                                              *)
hookup(t) ==
  getreply([t EXCEPT !.up = <<>>, !.urg = FALSE, !.wire = NoWire,
                     !.c = [@ EXCEPT !.connected = TRUE, !.cpend = FALSE, !.data = 0]], "greeting")

(* login asks for the user, then for the password and the account if the   *)
(* server wants them.                                                      *)
login(t) == command(t, [Cmd("USER") EXCEPT !.word = "user"], "USER")

setpeer(t) == IF t.c.connected THEN command(t, Cmd("NOOP"), "NOOP") ELSE hookup(t)

(* Mutant: the type of the last session is kept. *)
Connected_kept(t) == login(t)

(* After login, setpeer asks for the system: between two UNIX systems the  *)
(* type 0 is used, which becomes I at the first transfer.                  *)
Connected(t) ==
  login([t EXCEPT !.c = [@ EXCEPT !.type = "A", !.curtype = "A"]])

disconnect(t, k) == command(t, Cmd("QUIT"), k)

Disconnected(t) == [CloseWire(t, FALSE) EXCEPT !.c.connected = FALSE]

----------------------------------------------------------------------------
(* Setting up a transfer: sendrequest and recvrequest.                     *)
(* The transfer returns to its caller: getit forgets the restart point,    *)
(* the m-commands go on with the next file, or after an interrupt ask.     *)
Return(t) ==
  IF t.c.mcmd # ""
  THEN [t EXCEPT !.c = [@ EXCEPT !.at = IF t.c.mflag \/ t.c.job.cmd = "NLST" THEN "next" ELSE "ask",
                                 !.k = "", !.job = NoTransfer]]
  ELSE Toplevel(IF t.c.job.cmd = "RETR" THEN [t EXCEPT !.c.restart = 0] ELSE t)

Astray(t) == [t EXCEPT !.c.astray = TRUE]

Request(t) ==
  command(t, [Cmd(t.c.job.cmd) EXCEPT !.file = t.c.job.file], "request")

(* REST, when a restart point is set for a command that can use it. *)
Restart(t) ==
  LET send == t.c.job.cmd \in {"STOR", "APPE"}
  IN  IF t.c.restart > 0 /\ (send \/ t.c.job.cmd = "RETR")
      THEN command([t EXCEPT !.c.job.from = t.c.restart], [Cmd("REST") EXCEPT !.n = t.c.restart], "REST")
      ELSE Request(t)

(* A data socket: in passive mode one to connect to where PASV says, else  *)
(* one that listens on a port of the system's choice, told with PORT, or   *)
(* on the port of the control connection if the server refuses PORT.       *)
initconn(t, e) ==
  IF t.c.passive THEN command([t EXCEPT !.c.data = 0], Cmd("PASV"), "PASV")
  ELSE IF t.c.sendport # "off"
  THEN LET t1 == CloseWire(t, FALSE)
       IN  command([t1 EXCEPT !.c.data = e.free], [Cmd("PORT") EXCEPT !.n = e.free], "PORT")
  ELSE LET t1 == [CloseWire(t, FALSE) EXCEPT !.c.sendport = IF t.c.tmpno THEN "on" ELSE @, !.c.tmpno = FALSE]
       IN  IF e.ok THEN Restart([t1 EXCEPT !.c.data = DefaultPort]) ELSE Return(t1)

(* sendrequest opens the local file between changetype and initconn. *)
OpenThenInit(t, e) ==
  IF IsSend(t.c.job) /\ t.lfs[t.c.job.to] = NoFile THEN Return(t) ELSE initconn(t, e)

WantedType(c) ==
  IF ~IsSend(c.job) /\ c.job.cmd # "RETR" THEN "A" ELSE IF c.type = "auto" THEN "I" ELSE c.type

changetype(t, e) ==
  LET ty == WantedType(t.c)
  IN  IF ty = t.c.curtype THEN OpenThenInit(t, e)
      ELSE command(t, [Cmd("TYPE") EXCEPT !.word = ty], "changetype")

(* gunique of the client: as the server's, for a local name. *)
recvrequest(t, e, rcmd_, remote, local, mode) ==
  LET to == IF t.c.runique /\ local # NoName THEN gunique(t.lfs, local) ELSE local
      t1 == [t EXCEPT !.c.last = NoTransfer,
                      !.c.job = [NoTransfer EXCEPT !.cmd = rcmd_, !.file = remote, !.to = to, !.mode = mode]]
  IN  IF local # NoName /\ to = NoName THEN Return(t1) ELSE changetype(t1, e)

sendrequest(t, e, scmd, local, remote) ==
  changetype([t EXCEPT !.c.last = NoTransfer,
                       !.c.job = [NoTransfer EXCEPT !.cmd = scmd, !.file = remote, !.to = local]], e)

----------------------------------------------------------------------------
(* The data connection.                                                    *)
(* recvrequest opens the local file, the output of a listing goes to the   *)
(* screen; an error is an abort.                                           *)
abort_remote(t) ==
  [t EXCEPT !.up = Append(@, Cmd("ABOR")), !.urg = TRUE, !.c.at = "abort"]

OpenLocal(t) ==
  LET j == t.c.job
      old == IF j.to = NoName THEN <<>> ELSE t.lfs[j.to]
      base == IF j.mode = "w" THEN <<>> ELSE IF old = NoFile THEN <<>> ELSE old
      k == SkipTo(base, j.from, t.c.curtype)
  IN  CASE j.to # NoName /\ j.mode = "r+" /\ old = NoFile -> abort_remote(t)
        [] t.c.curtype = "A" /\ j.from > 0 /\ k > Len(base) -> Return(Astray(t))
        [] OTHER -> [t EXCEPT !.c = [@ EXCEPT !.at = "data", !.job = [j EXCEPT !.old = base, !.from = k]],
                              !.lfs = IF j.to = NoName THEN @ ELSE [@ EXCEPT ![j.to] = base]]

SourceOf(t) ==
  LET rest == From(t.lfs[t.c.job.to], t.c.job.from)
  IN  IF t.c.curtype = "A" THEN AsciiOut(rest) ELSE rest

(* The server has connected, or the client has in initconn. *)
dataconn_(t) ==
  IF IsSend(t.c.job) THEN [t EXCEPT !.c.at = "data", !.c.job.todo = SourceOf(t)]
  ELSE OpenLocal([t EXCEPT !.c.job.din = TRUE])

(* What is read once a write has failed is lost. *)
ReadData(t) ==
  LET j == t.c.job
      raw == j.todo \o t.wire.buf
      new == IF j.cmd = "NLST" THEN raw ELSE receive_data(raw, t.wire.eof, t.c.curtype)
  IN  IF j.bad THEN [t EXCEPT !.wire.buf = <<>>]
      ELSE [t EXCEPT !.wire.buf = <<>>, !.c.job.todo = raw,
                     !.lfs = IF j.to = NoName THEN @ ELSE [@ EXCEPT ![j.to] = Overlay(j.old, j.from, new)]]

(* End of file: the connection is closed (data keeps the descriptor) and   *)
(* the last reply is read.                                                 *)
ReadEnds(t) == getreply([t EXCEPT !.wire.dead = TRUE], "received")

(* A write to the local file fails.  In TYPE I that ends the loop; in       *)
(* TYPE A ferror is looked at only where a CR is followed by no LF.  Either *)
(* way the error is reported, and the last reply is read as after any other *)
(* transfer.                                                                *)
LocalFails(t) == [t EXCEPT !.c.job.bad = TRUE]

EndsEarly(t) ==
  /\ t.c.job.bad
  /\ \/ t.c.curtype = "I"
     \/ \E i \in DOMAIN t.wire.buf :
          t.wire.buf[i] = "CR" /\ (i < Len(t.wire.buf) => t.wire.buf[i + 1] # "LF")

WriteData(t) ==
  [t EXCEPT !.wire.buf = Append(@, Head(t.c.job.todo)), !.c.job.todo = Tail(@)]

WriteEnds(t) ==
  getreply([t EXCEPT !.wire.eof = IF t.wire.id = t.c.data THEN TRUE ELSE @], "sent")

(* The last reply; remglob now knows the names. *)
Finished(t, code) ==
  LET j  == t.c.job
      t1 == IF j.cmd = "NLST" /\ t.c.mcmd # "" THEN [t EXCEPT !.c.todo = j.todo] ELSE t
  IN  Return(IF code = 226 THEN [t1 EXCEPT !.c.last = [j EXCEPT !.todo = <<>>, !.old = <<>>, !.din = FALSE]] ELSE t1)

----------------------------------------------------------------------------
(* SIGINT.  Before the data connection is set up the transfer just ends;   *)
(* later a receiver tells the server with abort_remote and a sender closes *)
(* the connection; both only if a reply is still due.                      *)
abortrecv(t) ==
  LET t1 == [t EXCEPT !.c.mflag = FALSE, !.c.abrt = FALSE]
  IN  IF t.c.k \in {"changetype", "PORT", "PASV"} THEN Return(CloseWire(t1, FALSE))
      ELSE IF ~t.c.cpend THEN Return(t1) ELSE abort_remote(t1)

abortsend(t) ==
  LET t1 == [t EXCEPT !.c.mflag = FALSE, !.c.abrt = FALSE]
  IN  IF t.c.k \in {"PORT", "PASV"} THEN Return(CloseWire(t1, FALSE))
      ELSE IF ~t.c.cpend THEN Return(t1)
      ELSE getreply(CloseWire(t1, t.c.at = "accept"), "aborted")

(* In an m-command the user is asked whether to continue; mput begins      *)
(* again with its first file.                                              *)
mabort(t, e) ==
  [t EXCEPT !.c = [@ EXCEPT !.at = "next", !.k = "", !.abrt = FALSE, !.job = NoTransfer, !.mflag = @ /\ e.yes,
                            !.todo = IF t.c.mcmd = "mput" THEN t.c.all ELSE @]]

intr(t) == Toplevel(t)

(* The handler that was in place when command or getreply was called.      *)
Interrupted(t, e) ==
  LET j == t.c.job
      inRecv == j.cmd # "" /\ ~IsSend(j) /\ t.c.k \in {"changetype", "PORT", "PASV", "REST", "request", ""}
      inSend == IsSend(j) /\ t.c.k \in {"PORT", "PASV", "REST", "request", "sent", ""}
      base   == IF t.c.k = "changetype" THEN Astray(t) ELSE t
  IN  CASE inRecv -> abortrecv(IF t.c.k = "changetype" THEN Astray(t) ELSE t)
        [] inSend -> abortsend(t)
        [] ~inRecv /\ ~inSend /\ t.c.mcmd # "" -> mabort(base, e)
        [] ~inRecv /\ ~inSend /\ t.c.mcmd = "" -> intr(base)

----------------------------------------------------------------------------
(* The m-commands: mget and mdelete list the remote files first (remglob), *)
(* mput takes names; each file is confirmed.                               *)
mget(t, e)    == recvrequest([t EXCEPT !.c.mcmd = "mget", !.c.mflag = TRUE], e, "NLST", NoName, NoName, "w")
mdelete(t, e) == recvrequest([t EXCEPT !.c.mcmd = "mdelete", !.c.mflag = TRUE], e, "NLST", NoName, NoName, "w")
mput(t, names) ==
  [t EXCEPT !.c = [@ EXCEPT !.mcmd = "mput", !.mflag = TRUE, !.todo = names, !.all = names, !.at = "next"]]

Ask(t, e) == [t EXCEPT !.c.mflag = e.yes, !.c.at = "next"]

(* The loop of an m-command. *)
NextFile(t, e) ==
  LET f  == Head(t.c.todo)
      t1 == [t EXCEPT !.c.todo = Tail(@)]
  IN  IF t.c.todo = <<>> \/ ~t.c.mflag THEN Toplevel(t)
      ELSE IF ~e.yes THEN t1
      ELSE CASE t.c.mcmd = "mget" -> recvrequest(t1, e, "RETR", f, f, "w")
             [] t.c.mcmd = "mput" -> sendrequest(t1, e, IF t.c.sunique THEN "STOU" ELSE "STOR", f, f)
             [] t.c.mcmd = "mdelete" -> command(t1, [Cmd("DELE") EXCEPT !.file = f], "mdelete")

----------------------------------------------------------------------------
(* The commands that send one command, or a second when the first was not  *)
(* understood.                                                             *)
Fallback(name) ==
  CASE name = "CWD" -> "XCWD" [] name = "PWD" -> "XPWD" [] name = "MKD" -> "XMKD"
    [] name = "RMD" -> "XRMD" [] name = "CDUP" -> "XCUP" [] OTHER -> ""

Simple(t, name, file) == command([t EXCEPT !.c.arg = file], [Cmd(name) EXCEPT !.file = file], name)

cd(t)        == Simple(t, "CWD", NoName)
cdup(t)      == Simple(t, "CDUP", NoName)
pwd_(t)      == Simple(t, "PWD", NoName)
makedir_(t)  == Simple(t, "MKD", NoName)
removedir_(t) == Simple(t, "RMD", NoName)
delete_(t, f) == Simple(t, "DELE", f)
renamefile(t, f, to) == command([t EXCEPT !.c.arg = to], [Cmd("RNFR") EXCEPT !.file = f], "RNFR")
rmthelp(t)   == Simple(t, "HELP", NoName)
rmtstatus(t, f) == Simple(t, IF f = NoName THEN "STAT" ELSE "STATF", f)
syst_(t)     == Simple(t, "SYST", NoName)
sizecmd_(t, f) == Simple(t, "SIZE", f)
modtime(t, f) == Simple(t, "MDTM", f)
do_chmod(t)  == Simple(t, "CHMOD", NoName)
do_umask(t)  == Simple(t, "UMASK", NoName)
site_idle(t) == Simple(t, "IDLE", NoName)
account(t)   == Simple(t, "ACCT", NoName)
quote(t, name, n) == command(t, [Cmd(name) EXCEPT !.n = n], "quote")
user_(t, who) == command(t, [Cmd("USER") EXCEPT !.word = who], "user")
settype_(t, ty) == command(t, [Cmd("TYPE") EXCEPT !.word = ty], "TYPE " \o ty)

(* Switches. *)
setpassive(t) == [t EXCEPT !.c.passive = ~@]
setport(t)    == [t EXCEPT !.c.sendport = IF @ = "off" THEN "on" ELSE "off"]
setsunique(t) == [t EXCEPT !.c.sunique = ~@]
setrunique(t) == [t EXCEPT !.c.runique = ~@]
restart(t, n) == [t EXCEPT !.c.restart = n]

put(t, e, f)    == sendrequest(t, e, IF t.c.sunique THEN "STOU" ELSE "STOR", f, f)
append(t, e, f) == sendrequest(t, e, "APPE", f, f)
get(t, e, f)    == recvrequest(t, e, "RETR", f, f, IF t.c.restart > 0 THEN "r+" ELSE "w")
reget(t, e, f)  ==
  IF t.lfs[f] = NoFile THEN t
  ELSE recvrequest([t EXCEPT !.c.restart = Len(t.lfs[f])], e, "RETR", f, f, "r+")
newer(t, e, f)  ==
  IF t.lfs[f] = NoFile THEN recvrequest(t, e, "RETR", f, f, "w")
  ELSE command([t EXCEPT !.c.arg = f], [Cmd("MDTM") EXCEPT !.file = f], "newer")
ls(t, e, lcmd)  == recvrequest(t, e, lcmd, NoName, NoName, "w")

(* reset reads the replies that are there. *)
reset(t, more) == IF more THEN getreply(t, "reset") ELSE t

----------------------------------------------------------------------------
(* What follows a reply with first digit n.                                *)
AfterLogin(t, k, n) ==
  CASE k \in {"USER", "user"} /\ n = Continue ->
         command(t, [Cmd("PASS") EXCEPT !.word = "right"], IF k = "USER" THEN "PASS" ELSE "pass")
    [] k \in {"PASS", "pass"} /\ n = Continue -> command(t, Cmd("ACCT"), IF k = "PASS" THEN "ACCT1" ELSE "acct")
    [] ~(k \in {"USER", "user", "PASS", "pass"} /\ n = Continue) ->
         IF k \in {"USER", "PASS", "ACCT1"} THEN command(t, Cmd("SYST"), "unix") ELSE Toplevel(t)

AfterSetup(t, k, n, e) ==
  CASE k = "changetype" ->
         OpenThenInit(IF n = Complete THEN [t EXCEPT !.c.curtype = WantedType(t.c)] ELSE t, e)
    [] k = "PORT" ->
         IF n = Error /\ t.c.sendport = "auto" THEN initconn([t EXCEPT !.c.sendport = "off", !.c.tmpno = TRUE], e)
         ELSE IF n = Complete THEN Restart(t) ELSE Return(t)
    [] k = "PASV" ->
         IF n = Complete /\ e.ok
         THEN Restart([t EXCEPT !.c.data = e.port, !.wire = [NoWire EXCEPT !.id = e.port]])
         ELSE Return(t)
    [] k = "REST" ->
         LET t1 == IF IsSend(t.c.job) THEN [t EXCEPT !.c.restart = 0] ELSE t
         IN  IF n = Continue THEN Request(t1) ELSE Return(t1)
    [] k = "request" ->
         IF n # Prelim THEN Return(t)
         ELSE IF t.c.passive THEN dataconn_([t EXCEPT !.c.k = ""])
         ELSE [t EXCEPT !.c.at = "accept", !.c.k = ""]

(* Mutant: one reply is read after ABOR. *)
AfterTransfer_one(t, k, n, code) ==
  IF k \in {"received", "sent"} THEN Finished(t, code)
  ELSE IF k = "aborted" THEN Return(t) ELSE Return(CloseWire(t, FALSE))

AfterTransfer(t, k, n, code) ==
  CASE k \in {"received", "sent"} -> Finished(t, code)
    [] k = "aborted" -> Return(t)
    [] k = "abor1" -> getreply(t, IF n = Error /\ code = 552 THEN "abor1" ELSE "abor2")
    [] k = "abor2" -> Return(CloseWire(t, FALSE))

After(t, k, n, code, e) ==
  CASE k = "greeting" -> IF n > Complete THEN Toplevel([t EXCEPT !.c.connected = FALSE]) ELSE Connected(t)
    [] k \in {"USER", "PASS", "ACCT1", "user", "pass", "acct"} -> AfterLogin(t, k, n)
    [] k = "unix" -> Toplevel(IF code = 215 THEN [t EXCEPT !.c.type = "auto"] ELSE t)
    [] k = "NOOP" -> IF n = Complete THEN Toplevel(t) ELSE IF t.c.connected THEN disconnect(t, "reopen") ELSE hookup(t)
    [] k = "reopen" -> hookup(Disconnected(t))
    [] k = "close" -> Toplevel(Disconnected(t))
    [] k = "quit" -> [Toplevel(Disconnected(t)) EXCEPT !.c.at = "gone"]
    [] k \in {"changetype", "PORT", "PASV", "REST", "request"} -> AfterSetup(t, k, n, e)
    [] k \in {"received", "sent", "aborted", "abor1", "abor2"} -> AfterTransfer(t, k, n, code)
    [] k = "RNFR" -> IF n = Continue THEN command(t, [Cmd("RNTO") EXCEPT !.file = t.c.arg], "RNTO") ELSE Toplevel(t)
    [] k = "quote" -> IF n = Prelim THEN getreply(t, "quote") ELSE Toplevel(t)
    [] k \in {"TYPE A", "TYPE I", "TYPE E"} ->
         LET ty == IF k = "TYPE A" THEN "A" ELSE "I"
         IN  Toplevel(IF n = Complete THEN [t EXCEPT !.c.type = ty, !.c.curtype = ty] ELSE t)
    [] k = "newer" -> IF n = Complete /\ e.yes THEN recvrequest(t, e, "RETR", t.c.arg, t.c.arg, "w") ELSE Toplevel(t)
    [] k = "mdelete" -> [t EXCEPT !.c.at = "next", !.c.k = ""]
    [] k = "reset" -> IF e.more THEN getreply(t, "reset") ELSE Toplevel(t)
    [] OTHER -> IF n = Error /\ code = 500 /\ Fallback(k) # "" THEN Simple(t, Fallback(k), t.c.arg) ELSE Toplevel(t)

(* cmdscanner: what a line of the user starts. *)
cmdscanner(t0, u, e) ==
  LET t == [t0 EXCEPT !.c.last = NoTransfer]
  IN  CASE u.op = "open" -> setpeer(t)
        [] u.op = "quit" -> IF t.c.connected THEN disconnect(t, "quit") ELSE [t EXCEPT !.c.at = "gone"]
        [] u.op = "passive" -> setpassive(t)
        [] u.op = "sendport" -> setport(t)
        [] u.op = "sunique" -> setsunique(t)
        [] u.op = "runique" -> setrunique(t)
        [] u.op = "restart" -> restart(t, u.n)
        [] u.op \notin {"open", "quit", "passive", "sendport", "sunique", "runique", "restart"} ->
           IF ~t.c.connected THEN t ELSE
           CASE u.op = "close" -> disconnect(t, "close")
             [] u.op = "get" -> get(t, e, u.f)
             [] u.op = "put" -> put(t, e, u.f)
             [] u.op = "append" -> append(t, e, u.f)
             [] u.op = "reget" -> reget(t, e, u.f)
             [] u.op = "newer" -> newer(t, e, u.f)
             [] u.op = "mget" -> mget(t, e)
             [] u.op = "mput" -> mput(t, <<u.f, u.g>>)
             [] u.op = "mdelete" -> mdelete(t, e)
             [] u.op = "dir" -> ls(t, e, "LIST")
             [] u.op = "nlist" -> ls(t, e, "NLST")
             [] u.op = "type" -> settype_(t, u.word)
             [] u.op = "cd" -> cd(t)
             [] u.op = "cdup" -> cdup(t)
             [] u.op = "pwd" -> pwd_(t)
             [] u.op = "mkdir" -> makedir_(t)
             [] u.op = "rmdir" -> removedir_(t)
             [] u.op = "delete" -> delete_(t, u.f)
             [] u.op = "rename" -> renamefile(t, u.f, u.g)
             [] u.op = "rhelp" -> rmthelp(t)
             [] u.op = "rstatus" -> rmtstatus(t, u.f)
             [] u.op = "system" -> syst_(t)
             [] u.op = "size" -> sizecmd_(t, u.f)
             [] u.op = "modtime" -> modtime(t, u.f)
             [] u.op = "chmod" -> do_chmod(t)
             [] u.op = "umask" -> do_umask(t)
             [] u.op = "idle" -> site_idle(t)
             [] u.op = "account" -> account(t)
             [] u.op = "quote" -> quote(t, u.word, u.n)
             [] u.op = "user" -> user_(t, u.word)
             [] u.op = "reset" -> reset(t, e.more)
=============================================================================
