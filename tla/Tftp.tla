-------------------------------- MODULE Tftp --------------------------------
(***************************************************************************)
(* A tftp client session (tftp/main.c, tftp/tftp.c) against the tftpd      *)
(* instances that its requests start (tftpd/tftpd.c), over UDP.            *)
(*                                                                         *)
(* A file is known by its name f and its number of blocks Blocks[f]; its   *)
(* i-th block is the pair <<f, i>>, of SEGSIZE bytes for i < Blocks[f] and *)
(* shorter for i = Blocks[f].  How bytes become blocks (read-ahead,        *)
(* write-behind and netascii) is the subject of module TftpSubs.           *)
(***************************************************************************)
EXTENDS Integers, Sequences, FiniteSets

CONSTANTS
  GetFiles,     \* names the user may get: files of the server's disk
  PutFiles,     \* names the user may put: files of the client's disk
  Blocks,       \* number of blocks of every file
  Client,       \* address of the client's socket f, bound once by main()
  Port,         \* the well-known port, which inetd hands to tftpd
  Servers,      \* instances of tftpd, each with its own port
  Wrap,         \* 2^16: th_block is an unsigned short
  RexmtVals,    \* values of the user's rexmt command
  TimeoutVals,  \* values of the user's timeout command
  SrvTries,     \* expiries of timer() that end a tftpd: maxtimeout / rexmtval
  DiskMayFail,  \* whether write() may fail, on either end's disk
  MaxXfers,     \* bound: commands get and put of the session
  QueueMax,     \* bound: datagrams in one socket's receive queue
  MaxDup        \* bound: datagrams that the network duplicates

Files == GetFiles \cup PutFiles

ASSUME TftpAssumption ==
  /\ Blocks \in [Files -> Nat \ {0}]
  /\ GetFiles \cap PutFiles = {}
  /\ Client \notin Servers /\ Port \notin Servers /\ Port # Client
  /\ Wrap \in Nat /\ Wrap > 1
  /\ RexmtVals \subseteq Nat /\ TimeoutVals \subseteq Nat
  /\ SrvTries \in Nat \ {0}
  /\ DiskMayFail \in BOOLEAN
  /\ {MaxXfers, QueueMax, MaxDup} \subseteq Nat

VARIABLES
  net,         \* datagrams in transit
  ndup,        \* datagrams duplicated so far
  inq,         \* receive queue of the client's and of every tftpd's socket
  connected, rexmtval, maxtimeout,   \* what the commands of main.c set
  cst,         \* "prompt", or the transfer in progress: "get" or "put"
  cfile,       \* its file
  block,       \* its block counter, an int
  timeout,     \* its count of seconds without progress
  cbuf,        \* the packet that is sent again on a timeout (ackbuf or *dp)
  peeraddr,    \* where packets are sent
  local,       \* what each write of a get put into the local file
  outcome,     \* how the last transfer ended
  xfers,       \* transfers started
  srv,         \* the tftpd instances
  disk,        \* the server's copies of PutFiles
  opener       \* the instance whose open() truncated the file last

cmdvars == <<connected, rexmtval, maxtimeout>>
xfervars == <<cst, cfile, block, timeout, cbuf, peeraddr, local, outcome, xfers>>
srvvars == <<srv, disk, opener>>
vars == <<net, ndup, inq, cmdvars, xfervars, srvvars>>

None == "none"

\* The three packets of tftp.h that the transfers exchange, and the requests.
DataPkt(i, d) == [op |-> "DATA", blk |-> i % Wrap, dat |-> d]
AckPkt(i)     == [op |-> "ACK", blk |-> i % Wrap, dat |-> <<>>]
ErrorPkt      == [op |-> "ERROR", blk |-> 0, dat |-> <<>>]
makerequest(request, name) == [op |-> request, blk |-> 0, dat |-> <<name>>]

Datagram(p, src, dst) == [pkt |-> p, from |-> src, to |-> dst]

\* size == SEGSIZE for the data of a DATA packet
FullBlock(d) == d[2] < Blocks[d[1]]

Whole(f) == [i \in 1..Blocks[f] |-> <<f, i>>]

IdleServer == [st |-> "free", file |-> None, block |-> 0, timeout |-> 0,
               buf |-> ErrorPkt]

Init ==
  /\ net = {} /\ ndup = 0
  /\ inq = [a \in Servers \cup {Client} |-> <<>>]
  /\ connected = FALSE /\ rexmtval \in RexmtVals /\ maxtimeout \in TimeoutVals
  /\ cst = "prompt" /\ cfile = None /\ block = 0 /\ timeout = 0
  /\ cbuf = ErrorPkt /\ peeraddr = Port /\ local = <<>>
  /\ outcome = None /\ xfers = 0
  /\ srv = [s \in Servers |-> IdleServer]
  /\ disk = [f \in PutFiles |-> <<>>] /\ opener = [f \in PutFiles |-> None]

-----------------------------------------------------------------------------
(* UDP: datagrams are lost (never delivered), reordered and duplicated.    *)

Deliver(d) ==
  /\ d \in net /\ d.to # Port /\ Len(inq[d.to]) < QueueMax
  /\ inq' = [inq EXCEPT ![d.to] = Append(@, d)]
  /\ \/ net' = net \ {d} /\ UNCHANGED ndup
     \/ ndup < MaxDup /\ ndup' = ndup + 1 /\ UNCHANGED net
  /\ UNCHANGED <<cmdvars, xfervars, srvvars>>

ClientSends(p, dst) == net' = net \cup {Datagram(p, Client, dst)}
ServerSends(s, p)   == net' = net \cup {Datagram(p, s, Client)}

\* recvfrom takes the next datagram; synchnet also discards the ones behind it.
Dequeue(a)  == inq' = [inq EXCEPT ![a] = Tail(@)]
synchnet(a) == inq' = [inq EXCEPT ![a] = <<>>]

-----------------------------------------------------------------------------
(* The client's commands.                                                  *)

\* connect; a failed resolution leaves or makes the session unconnected
setpeer(found) ==
  /\ cst = "prompt"
  /\ connected' = found
  /\ UNCHANGED <<net, ndup, inq, rexmtval, maxtimeout, xfervars, srvvars>>

setrexmt(t) ==
  /\ cst = "prompt" /\ t \in RexmtVals /\ t # rexmtval
  /\ rexmtval' = t
  /\ UNCHANGED <<net, ndup, inq, connected, maxtimeout, xfervars, srvvars>>

settimeout(t) ==
  /\ cst = "prompt" /\ t \in TimeoutVals /\ t # maxtimeout
  /\ maxtimeout' = t
  /\ UNCHANGED <<net, ndup, inq, connected, rexmtval, xfervars, srvvars>>

\* Both transfers begin with the request to the service's port.  Datagrams
\* still queued on the socket from an earlier transfer stay there.
StartTransfer(dir, f, request, firstblock) ==
  /\ cst = "prompt" /\ connected /\ xfers < MaxXfers
  /\ cst' = dir /\ cfile' = f /\ block' = firstblock /\ timeout' = 0
  /\ cbuf' = makerequest(request, f)
  /\ peeraddr' = Port
  /\ local' = <<>> /\ outcome' = None /\ xfers' = xfers + 1
  /\ ClientSends(cbuf', Port)
  /\ UNCHANGED <<ndup, inq, cmdvars, srvvars>>

get(f) == f \in GetFiles /\ StartTransfer("get", f, "RRQ", 1)
\* Mutant: the block counter of a put starts one too low.
put_FirstBlock(f) == f \in PutFiles /\ StartTransfer("put", f, "WRQ", 0 - 1)

put(f) == f \in PutFiles /\ StartTransfer("put", f, "WRQ", 0)

\* The transfer is over and command() prompts again.
Finish(how) == cst' = "prompt" /\ outcome' = how

\* Mutant: maxtimeout is not looked at.
timer_NoLimit ==
  /\ cst # "prompt" /\ inq[Client] = <<>> /\ rexmtval > 0
  /\ timeout' = 1
  /\ ClientSends(cbuf, peeraddr)
  /\ UNCHANGED <<ndup, inq, cst, outcome, cfile, block, cbuf, peeraddr, local,
                 xfers, cmdvars, srvvars>>

\* timer(): the alarm expires while recvfrom blocks on an empty queue
timer ==
  /\ cst # "prompt" /\ inq[Client] = <<>> /\ rexmtval > 0
  /\ timeout' = timeout + rexmtval
  /\ IF timeout' >= maxtimeout
       THEN Finish("timeout") /\ UNCHANGED net
       ELSE ClientSends(cbuf, peeraddr) /\ UNCHANGED <<cst, outcome>>
  /\ UNCHANGED <<ndup, inq, cfile, block, cbuf, peeraddr, local, xfers,
                 cmdvars, srvvars>>

\* SIGINT: longjmp (toplevel)
intr ==
  /\ cst # "prompt"
  /\ Finish("intr")
  /\ UNCHANGED <<net, ndup, inq, cfile, block, timeout, cbuf, peeraddr, local,
                 xfers, cmdvars, srvvars>>

\* sendto failed: abort, where recvfile still acknowledges the current block
ClientSendFails ==
  /\ cst # "prompt"
  /\ Finish("error")
  /\ IF cst = "get" THEN ClientSends(AckPkt(block), peeraddr) ELSE UNCHANGED net
  /\ UNCHANGED <<ndup, inq, cfile, block, timeout, cbuf, peeraddr, local,
                 xfers, cmdvars, srvvars>>

-----------------------------------------------------------------------------
(* The bodies of the client's receive loops.  d is the datagram received;  *)
(* peeraddr's port becomes its source whatever it holds.                   *)

ClientReceives(d, direction) ==
  /\ cst = direction /\ inq[Client] # <<>> /\ d = Head(inq[Client])
  /\ peeraddr' = d.from
  /\ UNCHANGED <<ndup, cfile, xfers, cmdvars, srvvars>>

\* Send the next packet and wait for its answer, with the timeout restarted.
NextPacket(p, dst) ==
  /\ cbuf' = p /\ timeout' = 0 /\ block' = block + 1
  /\ ClientSends(p, dst)
  /\ UNCHANGED <<cst, outcome>>

\* What a write of d puts into a file: <<>> stands for a write that failed,
\* wholly or in part.  No caller of writeit and write_behind can tell.
Written(d) == {d} \cup (IF DiskMayFail THEN {<<>>} ELSE {})

\* writeit the block received, then acknowledge it
AcceptData(d) ==
  /\ Dequeue(Client)
  /\ \E w \in Written(d.pkt.dat) : local' = Append(local, w)
  /\ IF FullBlock(d.pkt.dat)
       THEN NextPacket(AckPkt(block), d.from)
       ELSE /\ ClientSends(AckPkt(block), d.from)
            /\ Finish("ok")
            /\ UNCHANGED <<block, timeout, cbuf>>

\* Mutants: the block number is not compared, or is compared as a u_short.
recvfile_next_AnyBlock(d) ==
  ClientReceives(d, "get") /\ d.pkt.op = "DATA" /\ AcceptData(d)

recvfile_next_Short(d) ==
  /\ ClientReceives(d, "get")
  /\ d.pkt.op = "DATA" /\ d.pkt.blk = block % Wrap
  /\ AcceptData(d)

recvfile_next(d) ==
  /\ ClientReceives(d, "get")
  /\ d.pkt.op = "DATA" /\ d.pkt.blk = block
  /\ AcceptData(d)

recvfile_resync(d) ==
  /\ ClientReceives(d, "get")
  /\ d.pkt.op = "DATA" /\ d.pkt.blk # block
  /\ synchnet(Client)
  /\ IF d.pkt.blk = block - 1 THEN ClientSends(cbuf, d.from) ELSE UNCHANGED net
  /\ UNCHANGED <<cst, outcome, block, timeout, cbuf, local>>

recvfile_error(d) ==
  /\ ClientReceives(d, "get")
  /\ d.pkt.op = "ERROR"
  /\ Dequeue(Client)
  /\ ClientSends(AckPkt(block), d.from)
  /\ Finish("error")
  /\ UNCHANGED <<block, timeout, cbuf, local>>

send_file_next(d) ==
  /\ ClientReceives(d, "put")
  /\ d.pkt.op = "ACK" /\ d.pkt.blk = block
  /\ Dequeue(Client)
  /\ \/ /\ block < Blocks[cfile]
        /\ NextPacket(DataPkt(block + 1, <<cfile, block + 1>>), d.from)
     \/ /\ block < Blocks[cfile]         \* readit failed: nak
        /\ ClientSends(ErrorPkt, d.from)
        /\ Finish("error")
        /\ UNCHANGED <<block, timeout, cbuf>>
     \/ /\ block = Blocks[cfile]
        /\ Finish("ok")
        /\ UNCHANGED <<net, block, timeout, cbuf>>
  /\ UNCHANGED local

send_file_resync(d) ==
  /\ ClientReceives(d, "put")
  /\ d.pkt.op = "ACK" /\ d.pkt.blk # block
  /\ synchnet(Client)
  /\ IF d.pkt.blk = block - 1 THEN ClientSends(cbuf, d.from) ELSE UNCHANGED net
  /\ UNCHANGED <<cst, outcome, block, timeout, cbuf, local>>

send_file_error(d) ==
  /\ ClientReceives(d, "put")
  /\ d.pkt.op = "ERROR"
  /\ Dequeue(Client)
  /\ Finish("error")
  /\ UNCHANGED <<net, block, timeout, cbuf, local>>

\* Any other opcode is dropped and the wait goes on.
ClientIgnores(d) ==
  /\ \/ ClientReceives(d, "get") /\ d.pkt.op \notin {"DATA", "ERROR"}
     \/ ClientReceives(d, "put") /\ d.pkt.op \notin {"ACK", "ERROR"}
  /\ Dequeue(Client)
  /\ UNCHANGED <<net, cst, outcome, block, timeout, cbuf, local>>

-----------------------------------------------------------------------------
(* tftpd: main() takes one request from the well-known port, forks, and    *)
(* serves it from a fresh port that is connected to the client.            *)

ServerStep(s, state) == srv[s].st = state /\ UNCHANGED <<ndup, cmdvars, xfervars>>

Exit(s) == srv' = [srv EXCEPT ![s].st = "exit"]

TakeRequest(s, d, request) ==
  /\ ServerStep(s, "free")
  /\ d \in net /\ d.to = Port /\ d.pkt.op = request
  /\ UNCHANGED inq

\* validate_access or the mode refused it, or read() failed: nak, unless -n
\* suppresses it
tftp_refuse(s, d) ==
  /\ \E request \in {"RRQ", "WRQ"} : TakeRequest(s, d, request)
  /\ \E reply \in {{}, {Datagram(ErrorPkt, s, Client)}} :
       net' = (net \ {d}) \cup reply
  /\ Exit(s)
  /\ UNCHANGED <<disk, opener>>

tftp_read(s, d) ==
  LET f == d.pkt.dat[1]
      p == DataPkt(1, <<f, 1>>)
  IN /\ TakeRequest(s, d, "RRQ")
     /\ f \in GetFiles
     /\ srv' = [srv EXCEPT ![s] = [st |-> "send", file |-> f, block |-> 1,
                                   timeout |-> 0, buf |-> p]]
     /\ net' = (net \ {d}) \cup {Datagram(p, s, Client)}
     /\ UNCHANGED <<disk, opener>>

\* open() with O_TRUNC, then the acknowledgement of block 0
tftp_write(s, d) ==
  LET f == d.pkt.dat[1]
  IN /\ TakeRequest(s, d, "WRQ")
     /\ f \in PutFiles
     /\ srv' = [srv EXCEPT ![s] = [st |-> "recv", file |-> f, block |-> 1,
                                   timeout |-> 0, buf |-> AckPkt(0)]]
     /\ net' = (net \ {d}) \cup {Datagram(AckPkt(0), s, Client)}
     /\ disk' = [disk EXCEPT ![f] = <<>>]
     /\ opener' = [opener EXCEPT ![f] = s]

\* Mutant: tftpd retransmits for ever.
srv_timer_NoLimit(s) ==
  /\ \E state \in {"send", "recv"} : ServerStep(s, state)
  /\ inq[s] = <<>>
  /\ ServerSends(s, srv[s].buf)
  /\ UNCHANGED <<inq, srvvars>>

\* timer() of tftpd; justquit() once the final ack was sent
srv_timer(s) ==
  /\ \E state \in {"send", "recv", "dally"} : ServerStep(s, state)
  /\ inq[s] = <<>>
  /\ IF srv[s].st = "dally" \/ srv[s].timeout + 1 >= SrvTries
       THEN Exit(s) /\ UNCHANGED net
       ELSE /\ srv' = [srv EXCEPT ![s].timeout = @ + 1]
            /\ ServerSends(s, srv[s].buf)
  /\ UNCHANGED <<inq, disk, opener>>

\* send or recv failed: abort
srv_fails(s) ==
  /\ \E state \in {"send", "recv"} : ServerStep(s, state)
  /\ Exit(s)
  /\ UNCHANGED <<net, inq, disk, opener>>

ServerReceives(s, d, state) ==
  /\ ServerStep(s, state) /\ inq[s] # <<>> /\ d = Head(inq[s])

ServerNext(s, p) ==
  srv' = [srv EXCEPT ![s].block = @ + 1, ![s].timeout = 0, ![s].buf = p]

\* The acknowledged block is done with: readit the next one and send it.
SendNextBlock(s, f, b) ==
  LET p == DataPkt(b + 1, <<f, b + 1>>)
  IN /\ Dequeue(s)
     /\ \/ b < Blocks[f] /\ ServerNext(s, p) /\ ServerSends(s, p)
        \/ b < Blocks[f] /\ Exit(s) /\ ServerSends(s, ErrorPkt)  \* read failed
        \/ b = Blocks[f] /\ Exit(s) /\ UNCHANGED net
     /\ UNCHANGED <<disk, opener>>

\* Mutant: an acknowledgement of any block counts.
srv_send_next_AnyAck(s, d) ==
  /\ ServerReceives(s, d, "send") /\ d.pkt.op = "ACK"
  /\ SendNextBlock(s, srv[s].file, srv[s].block)

srv_send_next(s, d) ==
  /\ ServerReceives(s, d, "send")
  /\ d.pkt.op = "ACK" /\ d.pkt.blk = srv[s].block % Wrap
  /\ SendNextBlock(s, srv[s].file, srv[s].block)

srv_send_resync(s, d) ==
  /\ ServerReceives(s, d, "send")
  /\ d.pkt.op = "ACK" /\ d.pkt.blk # srv[s].block % Wrap
  /\ synchnet(s)
  /\ IF d.pkt.blk = (srv[s].block - 1) % Wrap
       THEN ServerSends(s, srv[s].buf)
       ELSE UNCHANGED net
  /\ UNCHANGED srvvars

\* The write goes to the descriptor's own offset, past the end if another
\* instance truncated the file; its result is not looked at ("a lie").
WriteBlock(c, i, d) ==
  [j \in 1..(IF Len(c) < i THEN i ELSE Len(c)) |->
     IF j = i THEN d ELSE IF j <= Len(c) THEN c[j] ELSE <<>>]

StoreBlock(s, f, b, data) ==
  /\ Dequeue(s)
  /\ \/ disk' = [disk EXCEPT ![f] = WriteBlock(@, b, data)]
     \/ DiskMayFail /\ UNCHANGED disk
  /\ IF FullBlock(data)
       THEN ServerNext(s, AckPkt(b))
       ELSE srv' = [srv EXCEPT ![s].st = "dally", ![s].buf = AckPkt(b)]
  /\ ServerSends(s, AckPkt(b))
  /\ UNCHANGED opener

\* Mutant: any data block is stored as the next one.
srv_recv_next_AnyBlock(s, d) ==
  /\ ServerReceives(s, d, "recv") /\ d.pkt.op = "DATA"
  /\ StoreBlock(s, srv[s].file, srv[s].block, d.pkt.dat)

srv_recv_next(s, d) ==
  /\ ServerReceives(s, d, "recv")
  /\ d.pkt.op = "DATA" /\ d.pkt.blk = srv[s].block
  /\ StoreBlock(s, srv[s].file, srv[s].block, d.pkt.dat)

srv_recv_resync(s, d) ==
  /\ ServerReceives(s, d, "recv")
  /\ d.pkt.op = "DATA" /\ d.pkt.blk # srv[s].block
  /\ synchnet(s)
  /\ IF d.pkt.blk = srv[s].block - 1
       THEN ServerSends(s, srv[s].buf)
       ELSE UNCHANGED net
  /\ UNCHANGED srvvars

\* After the last writeit, dp is the other buffer: it holds the header of the
\* block before the last one, or zeros, and not the packet read into buf.
DallyHeader(s) ==
  IF srv[s].block = 1 THEN [op |-> None, blk |-> 0]
                      ELSE [op |-> "DATA", blk |-> srv[s].block - 1]

srv_dally(s, d) ==
  /\ ServerReceives(s, d, "dally")
  /\ Dequeue(s)
  /\ IF DallyHeader(s).op = "DATA" /\ DallyHeader(s).blk = srv[s].block
       THEN ServerSends(s, srv[s].buf)
       ELSE UNCHANGED net
  /\ Exit(s)
  /\ UNCHANGED <<disk, opener>>

srv_error(s, d) ==
  /\ ServerReceives(s, d, srv[s].st) /\ srv[s].st \in {"send", "recv"}
  /\ d.pkt.op = "ERROR"
  /\ Dequeue(s)
  /\ Exit(s)
  /\ UNCHANGED <<net, disk, opener>>

srv_ignores(s, d) ==
  /\ \/ ServerReceives(s, d, "send") /\ d.pkt.op \notin {"ACK", "ERROR"}
     \/ ServerReceives(s, d, "recv") /\ d.pkt.op \notin {"DATA", "ERROR"}
  /\ Dequeue(s)
  /\ UNCHANGED <<net, srvvars>>

-----------------------------------------------------------------------------
ClientCommand ==
  \/ \E found \in BOOLEAN : setpeer(found)
  \/ \E t \in RexmtVals : setrexmt(t)
  \/ \E t \in TimeoutVals : settimeout(t)
  \/ \E f \in Files : get(f) \/ put(f)
  \/ intr

ClientHandles(d) ==
  \/ recvfile_next(d) \/ recvfile_resync(d) \/ recvfile_error(d)
  \/ send_file_next(d) \/ send_file_resync(d) \/ send_file_error(d)
  \/ ClientIgnores(d)

ClientLoop == inq[Client] # <<>> /\ ClientHandles(Head(inq[Client]))

ServerHandles(s, d) ==
  \/ srv_send_next(s, d) \/ srv_send_resync(s, d)
  \/ srv_recv_next(s, d) \/ srv_recv_resync(s, d) \/ srv_dally(s, d)
  \/ srv_error(s, d) \/ srv_ignores(s, d)

ServerLoop(s) == inq[s] # <<>> /\ ServerHandles(s, Head(inq[s]))

StartServer(s) ==
  \E d \in net : tftp_refuse(s, d) \/ tftp_read(s, d) \/ tftp_write(s, d)

Next ==
  \/ ClientCommand \/ timer \/ ClientSendFails \/ ClientLoop
  \/ \E d \in net : Deliver(d)
  \/ \E s \in Servers :
       StartServer(s) \/ ServerLoop(s) \/ srv_timer(s) \/ srv_fails(s)

Spec == Init /\ [][Next]_vars

\* SIGALRM is always delivered and recvfrom returns a queued datagram.
Fairness ==
  /\ WF_vars(timer) /\ WF_vars(ClientLoop)
  /\ \A s \in Servers : WF_vars(srv_timer(s)) /\ WF_vars(ServerLoop(s))

FairSpec == Spec /\ Fairness

-----------------------------------------------------------------------------
(* Properties.                                                             *)

Data == Files \X Nat
Packets == [op : {"DATA"}, blk : Nat, dat : Data]
             \cup [op : {"ACK", "ERROR"}, blk : Nat, dat : {<<>>}]
             \cup [op : {"RRQ", "WRQ"}, blk : {0}, dat : {<<f>> : f \in Files}]
Addresses == Servers \cup {Client, Port}
Datagrams == [pkt : Packets, from : Addresses, to : Addresses]

Queues == [Servers \cup {Client} -> Seq(Datagrams)]
ServerStates ==
  [st : {"send"}, file : GetFiles, block : Nat, timeout : Nat, buf : Packets]
    \cup [st : {"recv", "dally"}, file : PutFiles, block : Nat, timeout : Nat,
          buf : Packets]
    \cup [st : {"free", "exit"}, file : Files \cup {None}, block : Nat,
          timeout : Nat, buf : Packets]

NetType == net \subseteq Datagrams /\ ndup \in Nat /\ inq \in Queues

CmdType == connected \in BOOLEAN /\ rexmtval \in Nat /\ maxtimeout \in Nat

XferType ==
  /\ cst \in {"prompt", "get", "put"}
  /\ cst = "get" => cfile \in GetFiles
  /\ cst = "put" => cfile \in PutFiles
  /\ block \in Nat /\ timeout \in Nat /\ cbuf \in Packets
  /\ peeraddr \in Addresses
  /\ local \in Seq(Data \cup {<<>>})
  /\ outcome \in {None, "ok", "error", "timeout", "intr"} /\ xfers \in Nat

DiskType ==
  /\ disk \in [PutFiles -> Seq(Data \cup {<<>>})]
  /\ opener \in [PutFiles -> Servers \cup {None}]

TypeOK ==
  /\ NetType /\ CmdType /\ XferType /\ DiskType
  /\ srv \in [Servers -> ServerStates]

\* A get on a fresh socket hands the remote file's blocks to write() in order,
\* each once and from the right file, and it ends with success only when it
\* handed over all of them - whatever is lost, duplicated or reordered, however
\* many tftpd instances the repeated RRQ started, and however often th_block
\* wraps.  The local file then is the remote one unless a write failed: that
\* the client does not notice, and it reports success all the same.
GetIntegrity ==
  xfers = 1 /\ cfile \in GetFiles =>
    /\ Len(local) <= Blocks[cfile]
    /\ \A i \in 1..Len(local) : local[i] \in Written(<<cfile, i>>)
    /\ outcome = "ok" =>
         /\ Len(local) = Blocks[cfile]
         /\ (\A i \in 1..Len(local) : local[i] # <<>>) => local = Whole(cfile)

\* No tftpd sends a block that the receiving client has not asked for: its
\* block counter never passes the client's while the get is in progress.
ServerNotAhead ==
  xfers = 1 /\ cst = "get" =>
    \A s \in Servers : srv[s].st = "send" => srv[s].block <= block

\* Why the two hold.  Until the first get nothing is in flight.  During it,
\* every datagram of the session belongs to the file f asked for: no data
\* block is beyond the client's block counter b, and every acknowledgement is
\* of a block below it, so that a tftpd which advances is still not ahead; and
\* the client's int counter meets 16-bit block numbers up to b = Wrap only.
PktOK(p, f, c, b) ==
  /\ p.op # "WRQ"
  /\ p.op = "RRQ" => p.dat = <<f>>
  /\ p.op = "DATA" => /\ p.dat[1] = f /\ p.dat[2] \in 1..Blocks[f]
                      /\ p.blk = p.dat[2] % Wrap
                      /\ c = "get" => p.dat[2] <= b
  /\ p.op = "ACK" /\ c = "get" => p.blk \in 1..(b - 1)

NetOK ==
  /\ \A d \in net : PktOK(d.pkt, cfile, cst, block)
  /\ \A a \in Servers \cup {Client} : \A i \in 1..Len(inq[a]) :
       PktOK(inq[a][i].pkt, cfile, cst, block)

SendOK(r, f, c, b) ==
  /\ r.st \in {"free", "send", "exit"}
  /\ r.st = "send" => /\ r.file = f /\ r.block \in 1..Blocks[f]
                      /\ r.buf = DataPkt(r.block, <<f, r.block>>)
                      /\ c = "get" => r.block <= b

ReceiverOK ==
  /\ cst # "put"
  /\ cst = "get" => /\ PktOK(cbuf, cfile, cst, block)
                    /\ block \in 1..Blocks[cfile] /\ block <= Wrap
                    /\ Len(local) = block - 1 /\ outcome = None
  /\ Len(local) <= Blocks[cfile]
  /\ \A i \in 1..Len(local) : local[i] \in Written(<<cfile, i>>)
  /\ outcome = "ok" => Len(local) = Blocks[cfile]

Quiet ==
  /\ net = {} /\ cst = "prompt"
  /\ \A a \in Servers \cup {Client} : inq[a] = <<>>
  /\ \A s \in Servers : srv[s].st = "free"

GetInv ==
  /\ xfers = 0 => Quiet
  /\ xfers = 1 /\ cfile \in GetFiles =>
       /\ NetOK /\ ReceiverOK
       /\ \A s \in Servers : SendOK(srv[s], cfile, cst, block)

\* A put that the client sees acknowledged to the end is on the server's disk,
\* unless another tftpd, started by a repeated WRQ, truncated the file since.
PutStored ==
  xfers = 1 /\ outcome = "ok" /\ cfile \in PutFiles =>
    (opener[cfile] = peeraddr => disk[cfile] = Whole(cfile))

\* A transfer comes back to the prompt: the peer answers, or timer() gives up.
TransferEnds == cst # "prompt" /\ rexmtval > 0 ~> cst = "prompt"

\* Every instance of tftpd that a request started exits.
ServersExit == \A s \in Servers : srv[s].st # "free" ~> srv[s].st = "exit"

\* What either transfer reports as done is done, on disks that accept every
\* write: a get wrote the remote file and nothing else at any time, a put is
\* stored.
Delivered == TypeOK /\ GetIntegrity /\ PutStored

\* Both programs come to an end of every transfer, whatever the network loses.
TransfersEnd == TransferEnds /\ ServersExit
=============================================================================
