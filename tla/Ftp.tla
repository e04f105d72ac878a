-------------------------------- MODULE Ftp --------------------------------
(***************************************************************************)
(* An FTP session: the client (FtpClient) and ftpd (FtpServer), joined by  *)
(* the control connection (commands up, reply lines down, urgent data urg) *)
(* and a data connection (wire), with the files of both hosts.  The user   *)
(* types the commands of a script and may interrupt; connections, reads    *)
(* and writes of both disks and the patience of the server may fail:       *)
(* mishaps counts both.                                                    *)
(***************************************************************************)
EXTENDS FtpClient

CONSTANTS
  Scripts,     \* what the user may type: a set of sequences of commands
  RemoteFiles, LocalFiles,  \* the files of both hosts at the start
  MaxMishaps,  \* interrupts and failures
  WireMax      \* the characters a data connection holds

ASSUME FtpAssumption ==
  /\ MaxMishaps \in Nat /\ WireMax \in Nat \ {0}
  /\ Scripts # {}

VARIABLES c, s, up, down, urg, wire, fs, lfs, script, port_, mishaps

vars == <<c, s, up, down, urg, wire, fs, lfs, script, port_, mishaps>>

(* The turns of both sides. *)
ClientTurn == [c |-> c, up |-> up, wire |-> wire, lfs |-> lfs, urg |-> urg]
ServerTurn == [s |-> s, fs |-> fs, out |-> <<>>, wire |-> wire]

(* What the environment decides for a step of the client or the server:    *)
(* a call that fails is a mishap.                                          *)
Env(ok, yes) ==
  [ok |-> ok, yes |-> yes, free |-> port_, more |-> down # <<>>, lst |-> IF c.connected THEN c.data ELSE 0,
   port |-> IF down = <<>> THEN 0 ELSE down[1].port]

Fails(ok) ==
  /\ ok \/ mishaps < MaxMishaps
  /\ mishaps' = IF ok THEN mishaps ELSE mishaps + 1

NextPort(used) == port_' = IF used THEN port_ + 1 ELSE port_

ClientBecomes(t) ==
  /\ c' = t.c /\ up' = t.up /\ wire' = t.wire /\ lfs' = t.lfs /\ urg' = t.urg
  /\ NextPort(t.c.data = port_)

ServerBecomes(t) ==
  /\ s' = t.s /\ fs' = t.fs /\ down' = down \o t.out /\ wire' = t.wire
  /\ NextPort(t.s.pdata = port_)

Init ==
  /\ script \in Scripts
  /\ c = Client /\ s = [Session EXCEPT !.at = "gone"]
  /\ up = <<>> /\ down = <<>> /\ urg = FALSE /\ wire = NoWire
  /\ fs = RemoteFiles /\ lfs = LocalFiles
  /\ port_ = 1 /\ mishaps = 0

----------------------------------------------------------------------------
(* The client.                                                             *)

(* A connection to ftpd is made: a new process greets.                     *)
NewSession == c'.k = "greeting" /\ c.k # "greeting"

ServerStarts ==
  IF NewSession THEN s' = Session /\ down' = <<Line(220, FALSE)>>
  ELSE s' = s

Type ==
  /\ c.at = "prompt" /\ script # <<>>
  /\ \E ok \in {TRUE, c.sendport # "off"} :
       ClientBecomes(cmdscanner(ClientTurn, Head(script), Env(ok, TRUE)))
  /\ script' = Tail(script)
  /\ ServerStarts /\ (NewSession \/ down' = down)
  /\ UNCHANGED <<fs, mishaps>>

(* A reply has arrived, or the connection has ended. *)
Reads(t, n, code, lines, yes, ok) ==
  LET e == Env(ok, yes)
      next == IF c.abrt /\ c.k \notin {"abor1", "abor2"} THEN Interrupted(t, e) ELSE After(t, c.k, n, code, e)
  IN  /\ ClientBecomes(next)
      /\ ServerStarts
      /\ NewSession \/ down' = SubSeq(down, lines + 1, Len(down))

GetReply ==
  /\ c.at = "reply" /\ c.connected /\ ReplyLines(down) > 0
  /\ LET lines == ReplyLines(down)
         code  == down[lines].code
         digit == code \div 100
         t     == [ClientTurn EXCEPT !.c.cpend = @ /\ digit = 1]
     IN  \E yes \in BOOLEAN, ok \in BOOLEAN :
           /\ ok \/ c.k = "PASV" \/ (c.k = "PORT" /\ digit = 5)
           /\ IF c.k = "PASV" THEN Fails(ok) ELSE UNCHANGED mishaps
           /\ Reads(IF code = 421 THEN lostpeer(t) ELSE t, digit, code, lines, yes, ok)
  /\ UNCHANGED <<fs, script>>

LostReply ==
  /\ c.at = "reply" /\ (~c.connected \/ (s.at = "gone" /\ ReplyLines(down) = 0))
  /\ \E yes \in BOOLEAN : Reads(lostpeer(ClientTurn), 4, 421, Len(down), yes, TRUE)
  /\ UNCHANGED <<fs, script, mishaps>>

Accept ==
  /\ c.at = "accept" /\ wire.id = c.data
  /\ ClientBecomes(dataconn_(ClientTurn))
  /\ UNCHANGED <<s, down, fs, script, mishaps>>

ClientReads ==
  /\ c.at = "data" /\ ~IsSend(c.job)
  /\ \/ /\ wire.buf # <<>>
        /\ \E ok \in BOOLEAN :
             LET t == IF ok THEN ClientTurn ELSE LocalFails(ClientTurn)
             IN  /\ Fails(ok)
                 /\ \/ ~(t.c.job.bad /\ c.curtype = "I") /\ ClientBecomes(ReadData(t))
                    \/ EndsEarly(t) /\ ClientBecomes(ReadEnds(ReadData(t)))
     \/ /\ wire.buf = <<>> /\ wire.eof
        /\ ClientBecomes(ReadEnds(ReadData(ClientTurn))) /\ UNCHANGED mishaps
  /\ UNCHANGED <<s, down, fs, script>>

(* A read of the local file that fails is reported, and ends the loop as   *)
(* its end does.                                                           *)
ClientWrites ==
  /\ c.at = "data" /\ IsSend(c.job)
  /\ \/ /\ c.job.todo # <<>> /\ ~wire.dead /\ Len(wire.buf) < WireMax
        /\ ClientBecomes(WriteData(ClientTurn)) /\ UNCHANGED mishaps
     \/ /\ c.job.todo = <<>> \/ wire.dead
        /\ ClientBecomes(WriteEnds(ClientTurn)) /\ UNCHANGED mishaps
     \/ c.job.todo # <<>> /\ Fails(FALSE) /\ ClientBecomes(WriteEnds(LocalFails(ClientTurn)))
  /\ UNCHANGED <<s, down, fs, script>>

(* abort_remote waits for the server; then what is left on the connection  *)
(* is read if there is something, and the replies.                         *)
Readable == wire.id = c.data /\ (wire.buf # <<>> \/ wire.eof)

AbortWaits ==
  /\ c.at = "abort"
  /\ \/ /\ down # <<>> \/ (c.job.din /\ Readable) \/ s.at = "gone"
        /\ ClientBecomes(IF c.job.din /\ Readable THEN [ClientTurn EXCEPT !.c.at = "drain"]
                         ELSE getreply(ClientTurn, "abor1"))
     \/ down = <<>> /\ ClientBecomes(getreply(lostpeer(ClientTurn), "abor1"))
  /\ UNCHANGED <<s, down, fs, script, mishaps>>

Drain ==
  /\ c.at = "drain" /\ (wire.buf # <<>> \/ wire.eof)
  /\ ClientBecomes(IF wire.eof THEN getreply([ClientTurn EXCEPT !.wire.buf = <<>>], "abor1")
                   ELSE [ClientTurn EXCEPT !.wire.buf = <<>>])
  /\ UNCHANGED <<s, down, fs, script, mishaps>>

NextOfMany ==
  /\ c.at \in {"next", "ask"}
  /\ \E yes \in BOOLEAN, ok \in {TRUE, c.sendport # "off"} :
       ClientBecomes(IF c.at = "ask" THEN Ask(ClientTurn, Env(TRUE, yes)) ELSE NextFile(ClientTurn, Env(ok, yes)))
  /\ UNCHANGED <<s, down, fs, script, mishaps>>

(* The user interrupts. *)
Interrupt ==
  /\ mishaps < MaxMishaps /\ mishaps' = mishaps + 1
  /\ \/ c.at = "reply" /\ ~c.abrt /\ ClientBecomes([ClientTurn EXCEPT !.c.abrt = TRUE])
     \/ c.at \in {"accept", "data"} /\ \E yes \in BOOLEAN : ClientBecomes(Interrupted(ClientTurn, Env(TRUE, yes)))
  /\ UNCHANGED <<s, down, fs, script>>

----------------------------------------------------------------------------
(* The server.                                                             *)
ServerCommand ==
  /\ s.at = "cmd" /\ up # <<>> /\ c.connected
  /\ urg => Head(up).cmd # "ABOR"   \* the signal comes before the line it announces
  /\ \E ok \in BOOLEAN :
       /\ ok \/ Head(up).cmd \in {"PASS", "PASV", "CWD", "MKD", "RMD", "PWD", "CDUP", "UMASK", "IDLE", "CHMOD"}
       /\ Fails(ok)
       /\ ServerBecomes(yyparse(ServerTurn, Head(up), Env(ok, TRUE)))
  /\ up' = Tail(up)
  /\ UNCHANGED <<c, urg, lfs, script>>

(* The control connection has ended. *)
ServerEof ==
  /\ s.at # "gone" /\ ~c.connected /\ c.k # "greeting"
  /\ s.at = "cmd"
  /\ ServerBecomes(dologout(reply(ServerTurn, 221)))
  /\ UNCHANGED <<c, up, urg, lfs, script, mishaps>>

ServerAccepts ==
  /\ s.at = "accept" /\ wire.id = s.pdata
  /\ \E ok \in BOOLEAN : Fails(ok) /\ ServerBecomes(Accepted(ServerTurn, ok))
  /\ UNCHANGED <<c, up, urg, lfs, script>>

ServerBegins ==
  /\ \/ s.at = "start" /\ ServerBecomes(Begin(ServerTurn))
     \/ s.at = "window" /\ ServerBecomes(SetJmp(ServerTurn))
  /\ UNCHANGED <<c, up, urg, lfs, script, mishaps>>

ServerSends ==
  /\ s.at = "xfer" /\ s.job.cmd # "STOR"
  /\ \/ s.job.todo # <<>> /\ (wire.id = Channel(s) => Len(wire.buf) < WireMax \/ wire.dead)
        /\ ServerBecomes(SendSome(ServerTurn)) /\ UNCHANGED mishaps
     \/ \E ok \in BOOLEAN : (ok => s.job.todo = <<>>) /\ Fails(ok) /\ ServerBecomes(SendEnds(ServerTurn, ok))
  /\ UNCHANGED <<c, up, urg, lfs, script>>

ServerReceives ==
  /\ s.at = "xfer" /\ s.job.cmd = "STOR"
  /\ \/ wire.id = Channel(s) /\ wire.buf # <<>> /\ ServerBecomes(Receive(ServerTurn)) /\ UNCHANGED mishaps
     \/ \E ok \in BOOLEAN :
          /\ ok => wire.id # Channel(s) \/ (wire.buf = <<>> /\ wire.eof)
          /\ Fails(ok)
          /\ ServerBecomes(ReceiveEnds(IF wire.id = Channel(s) THEN Receive(ServerTurn) ELSE ServerTurn, ok))
  /\ UNCHANGED <<c, up, urg, lfs, script>>

(* SIGURG: without a transfer it is ignored. *)
Urgent ==
  /\ urg /\ s.at # "gone"
  /\ urg' = FALSE
  /\ \/ ~s.transflag /\ UNCHANGED <<s, fs, down, wire, port_, up>>
     \/ s.transflag /\ up # <<>> /\ ServerBecomes(myoob(ServerTurn, Head(up))) /\ up' = Tail(up)
  /\ UNCHANGED <<c, lfs, script, mishaps>>

(* Nothing came for a long time. *)
IdleTimeout ==
  /\ s.at = "cmd" /\ up = <<>> /\ c.connected
  /\ c.at = "drain" \/ mishaps < MaxMishaps
  /\ mishaps' = IF c.at = "drain" THEN mishaps ELSE mishaps + 1
  /\ ServerBecomes(toolong(ServerTurn))
  /\ UNCHANGED <<c, up, urg, lfs, script>>

ClientSteps == GetReply \/ LostReply \/ Accept \/ ClientReads \/ ClientWrites \/ AbortWaits \/ Drain \/ NextOfMany
ServerSteps == ServerCommand \/ ServerEof \/ ServerAccepts \/ ServerBegins \/ ServerSends \/ ServerReceives

Next == Type \/ Interrupt \/ ClientSteps \/ ServerSteps \/ Urgent \/ IdleTimeout

Spec == Init /\ [][Next]_vars

(* Both programs run, and time passes.                                     *)
FairSpec ==
  Spec /\ WF_vars(ClientSteps) /\ WF_vars(ServerSteps) /\ WF_vars(Urgent) /\ WF_vars(IdleTimeout /\ c.at = "drain")

----------------------------------------------------------------------------
States == {"prompt", "reply", "accept", "data", "abort", "drain", "next", "ask", "gone"}

TypeOK ==
  /\ c.at \in States /\ c.curtype \in {"A", "I"} /\ c.type \in {"A", "I", "auto"}
  /\ s.at \in {"cmd", "accept", "start", "window", "xfer", "gone"} /\ s.type \in {"A", "I"}
  /\ DOMAIN fs = DOMAIN RemoteFiles /\ DOMAIN lfs = DOMAIN LocalFiles
  /\ mishaps \in 0..MaxMishaps

(* Commands and replies never get out of step: when the client asks for    *)
(* the next command, whatever happened to the last one, aborts included,   *)
(* the server waits for one and no reply is left unread (abort_remote      *)
(* reads two, whichever way the ABOR was noticed).                         *)
InStep ==
  c.at = "prompt" /\ c.connected /\ ~c.astray /\ s.at # "gone"
    => up = <<>> /\ down = <<>> /\ s.at = "cmd"

(* A file whose transfer was reported complete is the same on both sides,  *)
(* whatever its type and whatever was aborted before - unless reading or   *)
(* writing the client's file failed: the client reports that (or ignores   *)
(* it, when fclose writes the last of a file of TYPE A), and still reads   *)
(* the server's 226 and counts the transfer.                               *)
SameFile ==
  c.last.from = 0 /\ ~c.last.bad /\ ~c.astray =>
    CASE c.last.cmd = "RETR" -> lfs[c.last.to] = fs[c.last.file]
      [] c.last.cmd = "STOR" -> fs[c.last.file] = lfs[c.last.to]
      [] c.last.cmd = "STOU" -> \E f \in DOMAIN fs : f[1] = c.last.file[1] /\ fs[f] = lfs[c.last.to]
      [] c.last.cmd = "APPE" -> IsSuffix(lfs[c.last.to], fs[c.last.file])
      [] c.last.cmd \notin {"RETR", "STOR", "STOU", "APPE"} -> TRUE

(* While data flows both ends convert it the same way and use the same     *)
(* connection: neither the type nor the connection of an earlier transfer  *)
(* is taken for this one.                                                  *)
SameEnds ==
  c.at = "data" /\ s.at = "xfer" /\ ~c.astray => s.type = c.curtype /\ Channel(s) = c.data

(* Every command of the user ends, unless the server has kept the data     *)
(* connection of a listing that was aborted.                               *)
PromptReturns ==
  (c.at # "prompt") ~> (c.at \in {"prompt", "gone"} \/ s.orphan)

(* The state is well formed, each reply is read by the command it answers, and  *)
(* both ends agree on type and data connection.                                 *)
DialogueHolds == TypeOK /\ InStep /\ SameEnds
=============================================================================
