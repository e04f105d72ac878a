----------------------------- MODULE TftpProofs -----------------------------
(***************************************************************************)
(* Proofs about module Tftp, for every value of its constants.             *)
(***************************************************************************)
EXTENDS Tftp, TLAPS

LEMMA ModFacts ==
  ASSUME NEW w \in Nat, w > 0, NEW j \in Nat
  PROVE  /\ j % w \in Nat /\ j % w < w /\ j % w <= j
         /\ j < w => j % w = j
  OBVIOUS

-----------------------------------------------------------------------------
(* Type correctness.                                                       *)

\* The constructors build packets and datagrams.
LEMMA PacketTypes ==
  /\ ErrorPkt \in Packets
  /\ \A i \in Nat : AckPkt(i) \in Packets
  /\ \A i \in Nat, d \in Data : DataPkt(i, d) \in Packets
  /\ \A f \in Files, r \in {"RRQ", "WRQ"} : makerequest(r, f) \in Packets
  /\ \A p \in Packets, a, b \in Addresses : Datagram(p, a, b) \in Datagrams
<1>1. \A i \in Nat : i % Wrap \in Nat
  BY ModFacts, TftpAssumption
<1>2. QED
  BY <1>1 DEF ErrorPkt, AckPkt, DataPkt, makerequest, Packets, Datagram, Datagrams

\* The head of a receive queue is a datagram, and taking it leaves a queue.
LEMMA QueueTypes ==
  ASSUME NetType, NEW a \in Servers \cup {Client}
  PROVE  /\ inq[a] # <<>> => Head(inq[a]) \in Datagrams
         /\ inq[a] # <<>> /\ Dequeue(a) => inq' \in Queues
         /\ synchnet(a) => inq' \in Queues
<1>1. inq[a] \in Seq(Datagrams)
  BY DEF NetType, Queues
<1>2. inq[a] # <<>> => Head(inq[a]) \in Datagrams /\ Tail(inq[a]) \in Seq(Datagrams)
  BY <1>1
<1>3. \A q \in Seq(Datagrams) : [inq EXCEPT ![a] = q] \in Queues
  <2> DEFINE A == Servers \cup {Client}
             Q == Seq(Datagrams)
  <2>1. inq \in [A -> Q] /\ a \in A /\ Queues = [A -> Q]
    BY DEF NetType, Queues
  <2> HIDE DEF A, Q
  <2>2. \A q \in Q : [inq EXCEPT ![a] = q] \in [A -> Q]
    BY <2>1
  <2>3. QED
    BY <2>1, <2>2 DEF Q
<1>4. inq[a] # <<>> => [inq EXCEPT ![a] = Tail(inq[a])] \in Queues
  BY <1>2, <1>3
<1>5. [inq EXCEPT ![a] = <<>>] \in Queues
  <2>1. <<>> \in Seq(Datagrams)
    OBVIOUS
  <2>2. QED
    BY <1>3, <2>1, Zenon
<1>6. QED
  BY <1>2, <1>4, <1>5, Zenon DEF Dequeue, synchnet

\* Sending keeps the network a set of datagrams.
LEMMA SendTypes ==
  ASSUME NetType, NEW p \in Packets
  PROVE  /\ \A dst \in Addresses : ClientSends(p, dst) => net' \subseteq Datagrams
         /\ \A s \in Servers : ServerSends(s, p) => net' \subseteq Datagrams
  BY PacketTypes DEF NetType, ClientSends, ServerSends, Addresses

\* Writing a block at any offset leaves a file that is a sequence of blocks,
\* holes included.
LEMMA WriteBlockType ==
  ASSUME NEW c \in Seq(Data \cup {<<>>}), NEW i \in Nat, NEW x \in Data
  PROVE  WriteBlock(c, i, x) \in Seq(Data \cup {<<>>})
<1> DEFINE n == IF Len(c) < i THEN i ELSE Len(c)
<1>1. n \in Nat
  OBVIOUS
<1>2. \A j \in 1..n : (IF j = i THEN x ELSE IF j <= Len(c) THEN c[j] ELSE <<>>)
                        \in Data \cup {<<>>}
  OBVIOUS
<1>3. QED
  BY <1>1, <1>2 DEF WriteBlock

\* The ways in which an instance of tftpd changes its own state.
LEMMA ServerTypes ==
  ASSUME srv \in [Servers -> ServerStates], NEW s \in Servers, NEW p \in Packets
  PROVE  /\ srv[s].block \in Nat /\ srv[s].timeout \in Nat /\ srv[s].buf \in Packets
         /\ srv[s].st = "send" => srv[s].file \in GetFiles
         /\ srv[s].st \in {"recv", "dally"} => srv[s].file \in PutFiles
         /\ Exit(s) => srv' \in [Servers -> ServerStates]
         /\ ServerNext(s, p) => srv' \in [Servers -> ServerStates]
         /\ srv' = [srv EXCEPT ![s].timeout = @ + 1]
              => srv' \in [Servers -> ServerStates]
         /\ srv[s].st = "recv" /\ srv' = [srv EXCEPT ![s].st = "dally", ![s].buf = p]
              => srv' \in [Servers -> ServerStates]
<1>1. srv[s] \in ServerStates
  OBVIOUS
<1>2. /\ srv[s].block \in Nat /\ srv[s].timeout \in Nat /\ srv[s].buf \in Packets
      /\ srv[s].st = "send" => srv[s].file \in GetFiles
      /\ srv[s].st \in {"recv", "dally"} => srv[s].file \in PutFiles
  BY <1>1 DEF ServerStates
<1>3. [srv[s] EXCEPT !.st = "exit"] \in ServerStates
  BY <1>1 DEF ServerStates, Files
<1>4. [srv[s] EXCEPT !.block = @ + 1, !.timeout = 0, !.buf = p] \in ServerStates
  <2>1. \A x \in ServerStates, b \in Nat :
          [x EXCEPT !.block = b, !.timeout = 0, !.buf = p] \in ServerStates
    BY DEF ServerStates
  <2>2. srv[s].block + 1 \in Nat
    BY <1>2
  <2>3. QED
    BY <1>1, <2>1, <2>2
<1>5. [srv[s] EXCEPT !.timeout = @ + 1] \in ServerStates
  BY <1>1 DEF ServerStates
<1>6. srv[s].st = "recv" => [srv[s] EXCEPT !.st = "dally", !.buf = p] \in ServerStates
  BY <1>1 DEF ServerStates
<1>7. QED
  BY <1>2, <1>3, <1>4, <1>5, <1>6 DEF Exit, ServerNext

LEMMA TypeInit == Init => TypeOK
<1> SUFFICES ASSUME Init PROVE TypeOK
  OBVIOUS
<1>1. IdleServer \in ServerStates
  BY PacketTypes DEF IdleServer, ServerStates
<1>2. NetType
  <2>1. <<>> \in Seq(Datagrams)
    OBVIOUS
  <2>2. inq \in Queues
    BY <2>1, Zenon DEF Init, Queues
  <2>3. QED
    BY <2>2 DEF Init, NetType
<1>5. CmdType
  BY TftpAssumption DEF Init, CmdType
<1>6. DiskType
  <2>1. <<>> \in Seq(Data \cup {<<>>})
    OBVIOUS
  <2>2. disk \in [PutFiles -> Seq(Data \cup {<<>>})]
    BY <2>1, Zenon DEF Init
  <2>3. QED
    BY <2>2 DEF Init, DiskType
<1>3. XferType
  BY PacketTypes DEF Init, XferType, Addresses
<1>4. QED
  BY <1>1, <1>2, <1>3, <1>5, <1>6 DEF Init, TypeOK

LEMMA TypeStep == TypeOK /\ [Next]_vars => TypeOK'
<1> SUFFICES ASSUME TypeOK, [Next]_vars PROVE TypeOK'
  OBVIOUS
<1> DEFINE SrvType == srv \in [Servers -> ServerStates]
<1>t. NetType /\ CmdType /\ XferType /\ DiskType /\ SrvType
  BY DEF TypeOK
<1>u. /\ UNCHANGED cmdvars => CmdType'
      /\ UNCHANGED xfervars => XferType'
      /\ UNCHANGED <<disk, opener>> => DiskType'
      /\ UNCHANGED srvvars => SrvType' /\ DiskType'
  BY <1>t DEF cmdvars, xfervars, srvvars, CmdType, XferType, DiskType
<1>n. /\ net' \subseteq Datagrams /\ ndup' \in Nat /\ inq' \in Queues => NetType'
      /\ UNCHANGED <<net, ndup, inq>> => NetType'
      /\ ndup \in Nat /\ inq \in Queues /\ net \subseteq Datagrams
  BY <1>t DEF NetType
<1>x. /\ cst \in {"prompt", "get", "put"} /\ block \in Nat /\ block + 1 \in Nat
      /\ timeout \in Nat /\ cbuf \in Packets /\ peeraddr \in Addresses
      /\ AckPkt(block) \in Packets /\ ErrorPkt \in Packets /\ AckPkt(0) \in Packets
  BY <1>t, PacketTypes DEF XferType
<1>q. NetType' /\ CmdType' /\ XferType' /\ DiskType' /\ SrvType' => TypeOK'
  BY DEF TypeOK
<1> HIDE DEF SrvType
<1>1. ASSUME NEW d \in net, Deliver(d) PROVE TypeOK'
  <2>1. d \in Datagrams
    BY <1>n
  <2>2. inq' \in Queues
    <3>1. d.to \in Servers \cup {Client}
      BY <1>1, <2>1 DEF Deliver, Datagrams, Addresses
    <3>2. Append(inq[d.to], d) \in Seq(Datagrams)
      BY <2>1, <3>1, <1>n DEF Queues
    <3>3. QED
      BY <1>1, <3>1, <3>2, <1>n DEF Deliver, Queues
  <2>3. net' \subseteq Datagrams /\ ndup' \in Nat
    BY <1>1, <1>n DEF Deliver
  <2>4. QED
    BY <1>1, <1>u, <1>n, <1>q, <2>2, <2>3 DEF Deliver
<1>2. CASE ClientCommand
  <2>1. ASSUME NEW found \in BOOLEAN, setpeer(found) PROVE TypeOK'
    <3>1. CmdType'
      BY <2>1, <1>t DEF setpeer, CmdType
    <3>2. QED
      BY <2>1, <3>1, <1>u, <1>n, <1>q DEF setpeer
  <2>2. ASSUME NEW t \in RexmtVals, setrexmt(t) PROVE TypeOK'
    <3>1. CmdType'
      BY <2>2, <1>t, TftpAssumption DEF setrexmt, CmdType
    <3>2. QED
      BY <2>2, <3>1, <1>u, <1>n, <1>q DEF setrexmt
  <2>3. ASSUME NEW t \in TimeoutVals, settimeout(t) PROVE TypeOK'
    <3>1. CmdType'
      BY <2>3, <1>t, TftpAssumption DEF settimeout, CmdType
    <3>2. QED
      BY <2>3, <3>1, <1>u, <1>n, <1>q DEF settimeout
  <2>4. ASSUME NEW f \in Files, get(f) \/ put(f) PROVE TypeOK'
    <3>1. \A r \in {"RRQ", "WRQ"} : makerequest(r, f) \in Packets
      BY PacketTypes
    <3>2. \E r \in {"RRQ", "WRQ"} :
            /\ net' = net \cup {Datagram(makerequest(r, f), Client, Port)}
            /\ cbuf' = makerequest(r, f)
      BY <2>4 DEF get, put, StartTransfer, ClientSends
    <3>3. net' \subseteq Datagrams
      BY <3>1, <3>2, <1>n, PacketTypes DEF Addresses
    <3>4. XferType'
      <4>1. cbuf' \in Packets
        BY <3>1, <3>2
      <4>2. \/ cst' = "get" /\ cfile' \in GetFiles /\ block' = 1
            \/ cst' = "put" /\ cfile' \in PutFiles /\ block' = 0
        BY <2>4 DEF get, put, StartTransfer
      <4>3. /\ timeout' = 0 /\ peeraddr' = Port /\ local' = <<>>
            /\ outcome' = None /\ xfers' = xfers + 1
        BY <2>4 DEF get, put, StartTransfer
      <4>4. QED
        BY <4>1, <4>2, <4>3, <1>t DEF XferType, Addresses
    <3>5. QED
      BY <2>4, <3>3, <3>4, <1>u, <1>n, <1>q DEF get, put, StartTransfer
  <2>5. CASE intr
    <3>1. XferType'
      BY <2>5, <1>t DEF intr, Finish, XferType
    <3>2. QED
      BY <2>5, <3>1, <1>u, <1>n, <1>q DEF intr
  <2>6. QED
    BY <1>2, <2>1, <2>2, <2>3, <2>4, <2>5 DEF ClientCommand
<1>3. CASE timer
  <2>1. net' \subseteq Datagrams
    BY <1>3, <1>t, <1>n, <1>x, SendTypes DEF timer
  <2>2. XferType'
    BY <1>3, <1>t DEF timer, Finish, XferType, CmdType
  <2>3. QED
    BY <1>3, <2>1, <2>2, <1>u, <1>n, <1>q DEF timer
<1>4. CASE ClientSendFails
  <2>1. net' \subseteq Datagrams
    BY <1>4, <1>t, <1>n, <1>x, SendTypes DEF ClientSendFails
  <2>2. XferType'
    BY <1>4, <1>t DEF ClientSendFails, Finish, XferType
  <2>3. QED
    BY <1>4, <2>1, <2>2, <1>u, <1>n, <1>q DEF ClientSendFails
<1>5. CASE ClientLoop
  <2> DEFINE d == Head(inq[Client])
  <2>1. d \in Datagrams /\ d.pkt \in Packets /\ d.from \in Addresses
    BY <1>5, <1>t, QueueTypes DEF ClientLoop, Datagrams
  <2>2. inq' \in Queues
    BY <1>5, <1>t, QueueTypes DEF ClientLoop, ClientHandles, recvfile_next, AcceptData,
       recvfile_resync, recvfile_error, send_file_next, send_file_resync,
       send_file_error, ClientIgnores
  <2> HIDE DEF d
  <2>3. ASSUME NEW dir \in {"get", "put"}, ClientReceives(d, dir)
        PROVE  UNCHANGED <<ndup, cfile, xfers, cmdvars, srvvars>> /\ peeraddr' \in Addresses
    BY <2>1, <2>3 DEF ClientReceives
  <2>4. SUFFICES ASSUME ClientHandles(d) PROVE net' \subseteq Datagrams /\ XferType'
    <3>1. \E dir \in {"get", "put"} : ClientReceives(d, dir)
      BY <1>5 DEF ClientLoop, ClientHandles, recvfile_next, recvfile_resync,
         recvfile_error, send_file_next, send_file_resync, send_file_error,
         ClientIgnores, d
    <3>2. ClientHandles(d)
      BY <1>5 DEF ClientLoop, d
    <3>3. QED
      BY <2>2, <2>3, <2>4, <3>1, <3>2, <1>u, <1>n, <1>q
  <2>5. CASE recvfile_next(d)
    <3>1. \A w \in Written(d.pkt.dat) : w \in Data \cup {<<>>}
      BY <2>1, <2>5 DEF recvfile_next, Packets, Written
    <3>2. net' \subseteq Datagrams
      BY <2>1, <2>5, <1>t, <1>x, SendTypes DEF recvfile_next, AcceptData, NextPacket
    <3>3. XferType'
      BY <2>3, <2>5, <3>1, <1>t, <1>x
      DEF recvfile_next, AcceptData, NextPacket, Finish, XferType
    <3>4. QED
      BY <3>2, <3>3
  <2>6. CASE recvfile_resync(d)
    <3>1. net' \subseteq Datagrams
      BY <2>1, <2>6, <1>t, <1>x, <1>n, SendTypes DEF recvfile_resync
    <3>2. QED
      BY <2>3, <2>6, <3>1, <1>t DEF recvfile_resync, XferType
  <2>7. CASE recvfile_error(d)
    <3>1. net' \subseteq Datagrams
      BY <2>1, <2>7, <1>t, <1>x, SendTypes DEF recvfile_error
    <3>2. QED
      BY <2>3, <2>7, <3>1, <1>t DEF recvfile_error, Finish, XferType
  <2>8. CASE send_file_next(d)
    <3>1. cfile \in Files
      BY <2>8, <1>t DEF send_file_next, ClientReceives, XferType, Files
    <3>2. DataPkt(block + 1, <<cfile, block + 1>>) \in Packets
      BY <3>1, <1>x, PacketTypes DEF Data
    <3>3. net' \subseteq Datagrams
      BY <2>1, <2>8, <3>2, <1>t, <1>n, <1>x, SendTypes DEF send_file_next, NextPacket
    <3>4. XferType'
      BY <2>3, <2>8, <3>2, <1>t, <1>x DEF send_file_next, NextPacket, Finish, XferType
    <3>5. QED
      BY <3>3, <3>4
  <2>9. CASE send_file_resync(d)
    <3>1. net' \subseteq Datagrams
      BY <2>1, <2>9, <1>t, <1>x, <1>n, SendTypes DEF send_file_resync
    <3>2. QED
      BY <2>3, <2>9, <3>1, <1>t DEF send_file_resync, XferType
  <2>10. CASE send_file_error(d)
    BY <2>3, <2>10, <1>t, <1>n DEF send_file_error, Finish, XferType
  <2>11. CASE ClientIgnores(d)
    BY <2>3, <2>11, <1>t, <1>n DEF ClientIgnores, XferType
  <2>12. QED
    BY <2>4, <2>5, <2>6, <2>7, <2>8, <2>9, <2>10, <2>11 DEF ClientHandles
<1>6. ASSUME NEW s \in Servers, StartServer(s) PROVE TypeOK'
  <2>1. PICK d \in net : tftp_refuse(s, d) \/ tftp_read(s, d) \/ tftp_write(s, d)
    BY <1>6 DEF StartServer
  <2>2. UNCHANGED <<inq, ndup, cmdvars, xfervars>>
    BY <2>1 DEF tftp_refuse, tftp_read, tftp_write, TakeRequest, ServerStep
  <2>3. SUFFICES net' \subseteq Datagrams /\ SrvType' /\ DiskType'
    BY <2>2, <1>u, <1>n, <1>q
  <2>4. CASE tftp_refuse(s, d)
    <3>1. Datagram(ErrorPkt, s, Client) \in Datagrams
      BY PacketTypes DEF Addresses
    <3>2. net' \subseteq Datagrams
      BY <2>4, <3>1, <1>n DEF tftp_refuse
    <3>3. SrvType'
      BY <2>4, <1>t, <1>x, ServerTypes DEF tftp_refuse, SrvType
    <3>4. QED
      BY <2>4, <3>2, <3>3, <1>u DEF tftp_refuse
  <2>5. CASE tftp_read(s, d)
    <3> DEFINE f == d.pkt.dat[1]
               p == DataPkt(1, <<f, 1>>)
               new == [st |-> "send", file |-> f, block |-> 1, timeout |-> 0, buf |-> p]
    <3>1. /\ net' = (net \ {d}) \cup {Datagram(p, s, Client)} /\ f \in GetFiles
          /\ srv' = [srv EXCEPT ![s] = new]
          /\ UNCHANGED <<disk, opener>>
      BY <2>5 DEF tftp_read
    <3>2. <<f, 1>> \in Data
      BY <3>1 DEF Files, Data
    <3>3. p \in Packets
      BY <3>2, PacketTypes
    <3> HIDE DEF p, f
    <3>4. net' \subseteq Datagrams
      BY <3>1, <3>3, <1>n, PacketTypes DEF Addresses
    <3>5. new \in ServerStates
      BY <3>1, <3>3 DEF ServerStates
    <3>6. QED
      BY <3>1, <3>4, <3>5, <1>t, <1>u DEF SrvType
  <2>6. CASE tftp_write(s, d)
    <3> DEFINE f == d.pkt.dat[1]
               new == [st |-> "recv", file |-> f, block |-> 1, timeout |-> 0,
                       buf |-> AckPkt(0)]
    <3>1. /\ net' = (net \ {d}) \cup {Datagram(AckPkt(0), s, Client)} /\ f \in PutFiles
          /\ srv' = [srv EXCEPT ![s] = new]
          /\ disk' = [disk EXCEPT ![f] = <<>>] /\ opener' = [opener EXCEPT ![f] = s]
      BY <2>6 DEF tftp_write
    <3> HIDE DEF f
    <3>2. net' \subseteq Datagrams
      BY <3>1, <1>n, <1>x, PacketTypes DEF Addresses
    <3>3. new \in ServerStates
      BY <3>1, <1>x DEF ServerStates
    <3>4. DiskType'
      BY <3>1, <1>t DEF DiskType
    <3>5. QED
      BY <3>1, <3>2, <3>3, <3>4, <1>t DEF SrvType
  <2>7. QED
    BY <2>1, <2>4, <2>5, <2>6
<1>7. ASSUME NEW s \in Servers, ServerLoop(s) PROVE TypeOK'
  <2> DEFINE d == Head(inq[s])
             f == srv[s].file
             b == srv[s].block
  <2>1. d \in Datagrams /\ d.pkt \in Packets
    BY <1>7, <1>t, QueueTypes DEF ServerLoop, Datagrams
  <2>2. inq' \in Queues
    BY <1>7, <1>t, QueueTypes DEF ServerLoop, ServerHandles, srv_send_next, SendNextBlock,
       srv_send_resync, srv_recv_next, StoreBlock, srv_recv_resync, srv_dally,
       srv_error, srv_ignores
  <2>3. /\ srv[s].buf \in Packets /\ b \in Nat /\ b + 1 \in Nat /\ AckPkt(b) \in Packets
        /\ srv[s].st = "send" => f \in GetFiles
        /\ srv[s].st = "recv" => f \in PutFiles
    <3>1. /\ srv[s].buf \in Packets /\ b \in Nat
          /\ srv[s].st = "send" => f \in GetFiles
          /\ srv[s].st = "recv" => f \in PutFiles
      BY <1>t, <1>x, ServerTypes DEF SrvType
    <3> HIDE DEF b, f
    <3>2. QED
      BY <3>1, PacketTypes
  <2>4. Exit(s) => SrvType'
    BY <1>t, <1>x, ServerTypes DEF SrvType
  <2> HIDE DEF d
  <2>5. SUFFICES ASSUME ServerHandles(s, d)
                 PROVE  net' \subseteq Datagrams /\ SrvType' /\ DiskType'
    <3>1. ServerHandles(s, d)
      BY <1>7 DEF ServerLoop, d
    <3>2. UNCHANGED <<ndup, cmdvars, xfervars>>
      BY <3>1 DEF ServerHandles, srv_send_next, srv_send_resync, srv_recv_next,
         srv_recv_resync, srv_dally, srv_error, srv_ignores, ServerReceives, ServerStep
    <3>3. QED
      BY <2>2, <2>5, <3>1, <3>2, <1>u, <1>n, <1>q
  <2>6. CASE srv_send_next(s, d)
    <3> DEFINE p == DataPkt(b + 1, <<f, b + 1>>)
    <3>1. <<f, b + 1>> \in Data
      BY <2>3, <2>6 DEF srv_send_next, ServerReceives, ServerStep, Data, Files
    <3>2. p \in Packets
      BY <2>3, <3>1, PacketTypes
    <3>3. /\ \/ ServerNext(s, p) /\ ServerSends(s, p)
             \/ Exit(s) /\ (ServerSends(s, ErrorPkt) \/ UNCHANGED net)
          /\ UNCHANGED <<disk, opener>>
      BY <2>6 DEF srv_send_next, SendNextBlock
    <3> HIDE DEF p, f, b
    <3>4. net' \subseteq Datagrams
      BY <3>2, <3>3, <1>t, <1>n, <1>x, SendTypes
    <3>5. SrvType'
      BY <2>4, <3>2, <3>3, <1>t, ServerTypes DEF SrvType
    <3>6. QED
      BY <3>3, <3>4, <3>5, <1>u
  <2>7. CASE srv_send_resync(s, d)
    <3>1. net' \subseteq Datagrams
      BY <2>3, <2>7, <1>t, <1>n, SendTypes DEF srv_send_resync
    <3>2. QED
      BY <2>7, <3>1, <1>u DEF srv_send_resync
  <2>8. CASE srv_recv_next(s, d)
    <3>1. d.pkt.dat \in Data /\ f \in PutFiles
      BY <2>1, <2>3, <2>8 DEF srv_recv_next, ServerReceives, ServerStep, Packets
    <3>2. \A c \in Seq(Data \cup {<<>>}) :
            WriteBlock(c, b, d.pkt.dat) \in Seq(Data \cup {<<>>})
      BY <2>3, <3>1, WriteBlockType
    <3>3. /\ \/ disk' = [disk EXCEPT ![f] = WriteBlock(@, b, d.pkt.dat)]
             \/ UNCHANGED disk
          /\ UNCHANGED opener
          /\ ServerSends(s, AckPkt(b)) /\ srv[s].st = "recv"
          /\ \/ ServerNext(s, AckPkt(b))
             \/ srv' = [srv EXCEPT ![s].st = "dally", ![s].buf = AckPkt(b)]
      BY <2>8 DEF srv_recv_next, StoreBlock, ServerReceives, ServerStep
    <3> HIDE DEF f, b
    <3>4. DiskType'
      <4>1. disk[f] \in Seq(Data \cup {<<>>})
        BY <3>1, <1>t DEF DiskType
      <4> DEFINE new == WriteBlock(disk[f], b, d.pkt.dat)
      <4>2. new \in Seq(Data \cup {<<>>})
        BY <3>2, <4>1
      <4>3. disk' = [disk EXCEPT ![f] = new] \/ UNCHANGED disk
        BY <3>3
      <4> HIDE DEF new
      <4>4. QED
        BY <3>1, <3>3, <4>2, <4>3, <1>t DEF DiskType
    <3>5. net' \subseteq Datagrams
      BY <2>3, <3>3, <1>t, SendTypes
    <3>6. SrvType'
      BY <2>3, <3>3, <1>t, ServerTypes DEF SrvType
    <3>7. QED
      BY <3>4, <3>5, <3>6
  <2>9. CASE srv_recv_resync(s, d)
    <3>1. net' \subseteq Datagrams
      BY <2>3, <2>9, <1>t, <1>n, SendTypes DEF srv_recv_resync
    <3>2. QED
      BY <2>9, <3>1, <1>u DEF srv_recv_resync
  <2>10. CASE srv_dally(s, d)
    <3>1. net' \subseteq Datagrams
      BY <2>3, <2>10, <1>t, <1>n, SendTypes DEF srv_dally
    <3>2. QED
      BY <2>4, <2>10, <3>1, <1>u DEF srv_dally
  <2>11. CASE srv_error(s, d)
    BY <2>4, <2>11, <1>n, <1>u DEF srv_error
  <2>12. CASE srv_ignores(s, d)
    BY <2>12, <1>n, <1>u DEF srv_ignores
  <2>13. QED
    BY <2>5, <2>6, <2>7, <2>8, <2>9, <2>10, <2>11, <2>12 DEF ServerHandles
<1>8. ASSUME NEW s \in Servers, srv_timer(s) PROVE TypeOK'
  <2>1. srv[s].buf \in Packets
    BY <1>t, <1>x, ServerTypes DEF SrvType
  <2>2. net' \subseteq Datagrams
    BY <1>8, <2>1, <1>t, <1>n, SendTypes DEF srv_timer
  <2>3. SrvType'
    BY <1>8, <1>t, <1>x, ServerTypes DEF srv_timer, SrvType
  <2>4. QED
    BY <1>8, <2>2, <2>3, <1>u, <1>n, <1>q DEF srv_timer, ServerStep
<1>9. ASSUME NEW s \in Servers, srv_fails(s) PROVE TypeOK'
  <2>1. SrvType'
    BY <1>9, <1>t, <1>x, ServerTypes DEF srv_fails, SrvType
  <2>2. QED
    BY <1>9, <2>1, <1>u, <1>n, <1>q DEF srv_fails, ServerStep
<1>10. CASE UNCHANGED vars
  BY <1>10, <1>u, <1>n, <1>q DEF vars
<1>11. QED
  BY <1>1, <1>2, <1>3, <1>4, <1>5, <1>6, <1>7, <1>8, <1>9, <1>10 DEF Next

\* The variables of client, network and servers keep their types.
THEOREM TypeCorrect == Spec => []TypeOK
<1>1. QED
  BY TypeInit, TypeStep, PTL DEF Spec
-----------------------------------------------------------------------------
(* The first get of a session.                                             *)

\* What a datagram and an instance of tftpd are allowed stays allowed while the
\* client's block counter grows, and when its transfer ends.
LEMMA Monotone ==
  ASSUME NEW f, NEW c, NEW c2, NEW b \in Nat, NEW b2 \in Nat,
         c2 = "get" => c = "get" /\ b <= b2
  PROVE  /\ \A p \in Packets : PktOK(p, f, c, b) => PktOK(p, f, c2, b2)
         /\ \A r \in ServerStates : SendOK(r, f, c, b) => SendOK(r, f, c2, b2)
<1>1. ASSUME NEW p \in Packets, PktOK(p, f, c, b) PROVE PktOK(p, f, c2, b2)
  <2>1. p.op = "DATA" => p.dat[2] \in Nat
    BY DEF Packets, Data
  <2>2. p.op = "ACK" => p.blk \in Nat
    BY DEF Packets
  <2>3. QED
    BY <1>1, <2>1, <2>2 DEF PktOK
<1>2. ASSUME NEW r \in ServerStates, SendOK(r, f, c, b) PROVE SendOK(r, f, c2, b2)
  <2>1. r.block \in Nat
    BY DEF ServerStates
  <2>2. QED
    BY <1>2, <2>1 DEF SendOK
<1>3. QED
  BY <1>1, <1>2

\* A step that receives, and one that leaves the sockets alone, leaves in the
\* queues only what was there.
LEMMA QueueShrinks ==
  ASSUME NetType, NEW b \in Servers \cup {Client},
         (inq[b] # <<>> /\ Dequeue(b)) \/ synchnet(b) \/ UNCHANGED inq,
         NEW a \in Servers \cup {Client}, NEW i \in 1..Len(inq'[a])
  PROVE  \E j \in 1..Len(inq[a]) : inq'[a][i] = inq[a][j]
<1>1. inq[a] \in Seq(Datagrams) /\ inq[b] \in Seq(Datagrams)
      /\ DOMAIN inq = Servers \cup {Client}
  BY DEF NetType, Queues
<1>2. CASE a # b \/ UNCHANGED inq
  <2>1. inq'[a] = inq[a]
    BY <1>1, <1>2 DEF Dequeue, synchnet
  <2>2. QED
    BY <2>1
<1>3. CASE a = b /\ synchnet(b)
  <2>1. inq'[a] = <<>>
    BY <1>1, <1>3 DEF synchnet
  <2>2. QED
    BY <2>1
<1>4. CASE a = b /\ inq[b] # <<>> /\ Dequeue(b)
  <2>1. inq'[a] = Tail(inq[a])
    BY <1>1, <1>4 DEF Dequeue
  <2>2. Len(Tail(inq[a])) = Len(inq[a]) - 1 /\ Tail(inq[a])[i] = inq[a][i + 1]
    BY <1>1, <1>4, <2>1
  <2>3. i + 1 \in 1..Len(inq[a])
    BY <1>1, <2>1, <2>2
  <2>4. QED
    BY <2>1, <2>2, <2>3
<1>5. QED
  BY <1>2, <1>3, <1>4

\* The datagrams in flight after a step that sends p at most.
LEMMA NetStep ==
  ASSUME TypeOK, TypeOK', NetOK, cfile' = cfile,
         cst' = "get" => cst = "get" /\ block <= block',
         NEW b \in Servers \cup {Client},
         (inq[b] # <<>> /\ Dequeue(b)) \/ synchnet(b) \/ UNCHANGED inq,
         \A d \in net' : d \in net \/ PktOK(d.pkt, cfile, cst', block')
  PROVE  NetOK'
<1>1. block \in Nat /\ block' \in Nat
  BY DEF TypeOK, XferType
<1>2. \A p \in Packets : PktOK(p, cfile, cst, block) => PktOK(p, cfile, cst', block')
  BY <1>1, Monotone
<1>3. ASSUME NEW d \in net' PROVE PktOK(d.pkt, cfile', cst', block')
  <2>1. d.pkt \in Packets
    BY DEF TypeOK, NetType, Datagrams
  <2>2. QED
    BY <1>2, <2>1 DEF NetOK
<1>4. ASSUME NEW a \in Servers \cup {Client}, NEW i \in 1..Len(inq'[a])
      PROVE  PktOK(inq'[a][i].pkt, cfile', cst', block')
  <2>0. NetType
    BY DEF TypeOK
  <2>1. PICK j \in 1..Len(inq[a]) : inq'[a][i] = inq[a][j]
    BY <2>0, QueueShrinks
  <2>2. inq[a] \in Seq(Datagrams)
    BY <2>0 DEF NetType, Queues
  <2>3. inq[a][j] \in Datagrams
    BY <2>2
  <2>4. inq[a][j].pkt \in Packets
    BY <2>3 DEF Datagrams
  <2>5. QED
    BY <1>2, <2>1, <2>4 DEF NetOK
<1>5. QED
  BY <1>3, <1>4 DEF NetOK

\* The packets that this transfer sends.
LEMMA SentOK ==
  ASSUME NEW f \in GetFiles, NEW b \in Nat
  PROVE  /\ PktOK(ErrorPkt, f, "get", b) /\ PktOK(ErrorPkt, f, "prompt", b)
         /\ \A i \in Nat : PktOK(AckPkt(i), f, "prompt", b)
         /\ \A i \in 1..(b - 1) : b <= Wrap => PktOK(AckPkt(i), f, "get", b)
         /\ PktOK(makerequest("RRQ", f), f, "get", b)
         /\ \A c, i : i \in 1..Blocks[f] /\ (c = "get" => i <= b)
                        => PktOK(DataPkt(i, <<f, i>>), f, c, b)
<1>1. PktOK(ErrorPkt, f, "get", b) /\ PktOK(ErrorPkt, f, "prompt", b)
  BY DEF PktOK, ErrorPkt
<1>2. \A i \in Nat : PktOK(AckPkt(i), f, "prompt", b)
  BY DEF PktOK, AckPkt
<1>3. ASSUME NEW i \in 1..(b - 1), b <= Wrap PROVE PktOK(AckPkt(i), f, "get", b)
  <2>1. i \in Nat /\ i < Wrap
    BY <1>3, TftpAssumption
  <2>2. i % Wrap = i
    BY <2>1, ModFacts, TftpAssumption
  <2>3. QED
    BY <2>2 DEF PktOK, AckPkt
<1>4. PktOK(makerequest("RRQ", f), f, "get", b)
  BY DEF PktOK, makerequest
<1>5. ASSUME NEW c, NEW i, i \in 1..Blocks[f], c = "get" => i <= b
      PROVE  PktOK(DataPkt(i, <<f, i>>), f, c, b)
  BY <1>5 DEF PktOK, DataPkt
<1>6. QED
  BY <1>1, <1>2, <1>3, <1>4, <1>5

LEMMA GetInit == Init => GetInv
  BY DEF Init, GetInv, Quiet, IdleServer

\* Only the commands get and put start a transfer and name its file.
LEMMA SameTransfer ==
  ASSUME [Next]_vars
  PROVE  \/ \E f \in Files : get(f) \/ put(f)
         \/ UNCHANGED <<xfers, cfile>>
<1>1. ASSUME NEW d, ClientHandles(d) PROVE UNCHANGED <<xfers, cfile>>
  BY <1>1 DEF ClientHandles, recvfile_next, recvfile_resync, recvfile_error,
     send_file_next, send_file_resync, send_file_error, ClientIgnores, ClientReceives
<1>2. ASSUME NEW s, NEW d, ServerHandles(s, d) PROVE UNCHANGED <<xfers, cfile>>
  BY <1>2 DEF ServerHandles, srv_send_next, srv_send_resync, srv_recv_next,
     srv_recv_resync, srv_dally, srv_error, srv_ignores, ServerReceives, ServerStep, xfervars
<1>3. ASSUME NEW s, StartServer(s) \/ srv_timer(s) \/ srv_fails(s)
      PROVE  UNCHANGED <<xfers, cfile>>
  BY <1>3 DEF StartServer, tftp_refuse, tftp_read, tftp_write, TakeRequest, srv_timer,
     srv_fails, ServerStep, xfervars
<1>4. ASSUME ClientCommand
      PROVE  (\E f \in Files : get(f) \/ put(f)) \/ UNCHANGED <<xfers, cfile>>
  BY <1>4 DEF ClientCommand, setpeer, setrexmt, settimeout, intr, xfervars
<1>5. ASSUME timer \/ ClientSendFails \/ \E d \in net : Deliver(d)
      PROVE  UNCHANGED <<xfers, cfile>>
  BY <1>5 DEF timer, ClientSendFails, Deliver, xfervars
<1>6. QED
  BY <1>1, <1>2, <1>3, <1>4, <1>5 DEF Next, ClientLoop, ServerLoop, vars, xfervars

\* Until the first transfer only the commands of the prompt are possible.
LEMMA FirstStep ==
  ASSUME TypeOK, GetInv, [Next]_vars, xfers = 0
  PROVE  GetInv'
<1>1. Quiet
  BY DEF GetInv
<1>2. ASSUME NEW f \in Files, get(f) \/ put(f) PROVE GetInv'
  <2>1. /\ xfers' = 1 /\ cfile' = f /\ local' = <<>> /\ outcome' = None
        /\ UNCHANGED <<inq, srv>>
    BY <1>2 DEF get, put, StartTransfer, srvvars
  <2>2. CASE f \notin GetFiles
    BY <2>1, <2>2 DEF GetInv
  <2>3. CASE f \in GetFiles
    <3>1. /\ cst' = "get" /\ block' = 1 /\ cbuf' = makerequest("RRQ", f)
          /\ net' = net \cup {Datagram(makerequest("RRQ", f), Client, Port)}
      BY <1>2, <2>3, TftpAssumption DEF get, put, StartTransfer, ClientSends
    <3>2. PktOK(makerequest("RRQ", f), f, "get", 1)
      BY <2>3, SentOK
    <3>3. NetOK'
      <4>1. ASSUME NEW d \in net' PROVE d.pkt = makerequest("RRQ", f)
        BY <1>1, <3>1, <4>1 DEF Quiet, Datagram
      <4>2. \A a \in Servers \cup {Client} : Len(inq'[a]) = 0
        BY <1>1, <2>1 DEF Quiet
      <4>3. QED
        BY <2>1, <3>1, <3>2, <4>1, <4>2 DEF NetOK
    <3>4. ReceiverOK'
      <4>1. Blocks[f] \in Nat \ {0} /\ Wrap \in Nat /\ Wrap > 1
        BY TftpAssumption
      <4>2. QED
        BY <2>1, <3>1, <3>2, <4>1 DEF ReceiverOK, None
    <3>5. \A s \in Servers : SendOK(srv'[s], cfile', cst', block')
      BY <1>1, <2>1 DEF Quiet, SendOK
    <3>6. QED
      BY <2>1, <3>3, <3>4, <3>5 DEF GetInv
  <2>4. QED
    BY <2>2, <2>3
<1>3. ASSUME UNCHANGED <<net, inq, xfervars, srvvars>> PROVE GetInv'
  BY <1>1, <1>3 DEF GetInv, Quiet, xfervars, srvvars
<1>4. ~ClientLoop /\ ~timer /\ ~ClientSendFails /\ ~intr /\ ~(\E d \in net : Deliver(d))
  BY <1>1 DEF Quiet, ClientLoop, timer, ClientSendFails, intr
<1>5. ASSUME NEW s \in Servers
      PROVE  ~StartServer(s) /\ ~ServerLoop(s) /\ ~srv_timer(s) /\ ~srv_fails(s)
  BY <1>1 DEF Quiet, StartServer, ServerLoop, srv_timer, srv_fails, ServerStep
<1>6. CASE UNCHANGED vars
  BY <1>3, <1>6 DEF vars
<1>7. CASE ClientCommand
  <2>1. ASSUME \/ \E found \in BOOLEAN : setpeer(found)
               \/ \E t \in RexmtVals : setrexmt(t)
               \/ \E t \in TimeoutVals : settimeout(t)
        PROVE  UNCHANGED <<net, inq, xfervars, srvvars>>
    BY <2>1 DEF setpeer, setrexmt, settimeout
  <2>2. QED
    BY <1>2, <1>3, <1>4, <1>7, <2>1 DEF ClientCommand
<1>8. QED
  BY <1>4, <1>5, <1>6, <1>7 DEF Next

\* The datagram at the head of a queue is one of those in flight.
LEMMA HeadOK ==
  ASSUME TypeOK, NetOK, NEW a \in Servers \cup {Client}, inq[a] # <<>>
  PROVE  /\ Head(inq[a]).pkt \in Packets
         /\ PktOK(Head(inq[a]).pkt, cfile, cst, block)
<1>1. inq[a] \in Seq(Datagrams)
  BY DEF TypeOK, NetType, Queues
<1>2. Head(inq[a]) = inq[a][1] /\ 1 \in 1..Len(inq[a]) /\ Head(inq[a]) \in Datagrams
  BY <1>1
<1>3. QED
  BY <1>2 DEF NetOK, Datagrams

\* The one block that a get accepts is the next one of its file: no other block
\* has a 16-bit number that equals the int counter.
LEMMA AcceptedBlock ==
  ASSUME NEW f \in GetFiles, NEW b \in 1..Blocks[f], b <= Wrap,
         NEW p \in Packets, p.op = "DATA", p.blk = b, PktOK(p, f, "get", b)
  PROVE  p.dat = <<f, b>> /\ b < Wrap
<1>1. p.dat \in Data
  BY DEF Packets
<1>2. p.dat = <<p.dat[1], p.dat[2]>> /\ p.dat[2] \in Nat
  BY <1>1 DEF Data
<1>3. p.dat[1] = f /\ p.dat[2] \in 1..Blocks[f] /\ b = p.dat[2] % Wrap /\ p.dat[2] <= b
  BY DEF PktOK
<1>4. b \in Nat /\ Wrap \in Nat /\ Wrap > 0
  BY TftpAssumption DEF Files
<1>5. p.dat[2] = b /\ b < Wrap
  BY <1>2, <1>3, <1>4, ModFacts
<1>6. QED
  BY <1>2, <1>3, <1>5

\* What a write of a block of f puts into the local file
LEMMA WrittenType ==
  ASSUME NEW f \in GetFiles, NEW i \in 1..Blocks[f], NEW w \in Written(<<f, i>>)
  PROVE  w \in Data \cup {<<>>}
<1>1. <<f, i>> \in Data
  BY TftpAssumption DEF Data, Files
<1>2. QED
  BY <1>1 DEF Written

LEMMA GetClientStep ==
  ASSUME TypeOK, TypeOK', NetOK, ReceiverOK, cfile \in GetFiles,
         ClientLoop \/ timer \/ intr \/ ClientSendFails
  PROVE  /\ cfile' = cfile /\ UNCHANGED srvvars
         /\ cst' = "get" => cst = "get" /\ block <= block'
         /\ NetOK' /\ ReceiverOK'
<1> DEFINE d == Head(inq[Client])
           B == Blocks[cfile]
<1>1. /\ block \in Nat /\ block' \in Nat /\ B \in Nat \ {0} /\ Wrap \in Nat /\ Wrap > 1
      /\ local \in Seq(Data \cup {<<>>}) /\ cst \in {"get", "prompt"}
  BY TftpAssumption DEF TypeOK, XferType, ReceiverOK, Files
<1>2. cst = "get" => /\ PktOK(cbuf, cfile, cst, block) /\ block \in 1..B /\ block <= Wrap
                     /\ Len(local) = block - 1 /\ outcome = None
  BY DEF ReceiverOK
<1>3. /\ Len(local) <= B /\ \A i \in 1..Len(local) : local[i] \in Written(<<cfile, i>>)
  BY DEF ReceiverOK
<1>m. ASSUME cfile' = cfile, cst' = "get" => cst = "get" /\ block <= block',
             (inq[Client] # <<>> /\ Dequeue(Client)) \/ synchnet(Client) \/ UNCHANGED inq,
             \A x \in net' : x \in net \/ PktOK(x.pkt, cfile, cst', block')
      PROVE  NetOK'
  BY <1>m, NetStep
<1>p. PktOK(AckPkt(block), cfile, "prompt", block)
  BY <1>1, SentOK
<1>r. ASSUME cst = "get", cst' = "prompt", UNCHANGED <<cfile, local>>, outcome' # "ok"
      PROVE  ReceiverOK'
  BY <1>r, <1>1, <1>3 DEF ReceiverOK
<1> HIDE DEF B
<1>4. CASE intr
  <2>1. /\ cst' = "prompt" /\ outcome' = "intr" /\ cst = "get"
        /\ UNCHANGED <<net, inq, cfile, local, srvvars>>
    BY <1>4, <1>1 DEF intr, Finish
  <2>2. QED
    BY <1>m, <1>r, <2>1
<1>5. CASE timer
  <2>1. /\ cst = "get" /\ UNCHANGED <<inq, cfile, block, cbuf, local, srvvars>>
        /\ \/ cst' = "prompt" /\ outcome' = "timeout" /\ UNCHANGED net
           \/ ClientSends(cbuf, peeraddr) /\ UNCHANGED <<cst, outcome>>
    BY <1>5, <1>1 DEF timer, Finish
  <2>2. \A x \in net' : x \in net \/ PktOK(x.pkt, cfile, cst', block')
    BY <2>1, <1>2 DEF ClientSends, Datagram
  <2>3. NetOK'
    BY <1>m, <1>1, <2>1, <2>2
  <2>4. ReceiverOK'
    <3>1. CASE cst' = "prompt"
      BY <1>r, <2>1, <3>1
    <3>2. CASE UNCHANGED <<cst, outcome>>
      BY <2>1, <3>2 DEF ReceiverOK
    <3>3. QED
      BY <2>1, <3>1, <3>2
  <2>5. QED
    BY <1>1, <2>1, <2>3, <2>4
<1>6. CASE ClientSendFails
  <2>1. /\ cst = "get" /\ cst' = "prompt" /\ outcome' = "error"
        /\ ClientSends(AckPkt(block), peeraddr)
        /\ UNCHANGED <<inq, cfile, block, local, srvvars>>
    BY <1>6, <1>1 DEF ClientSendFails, Finish
  <2>2. \A x \in net' : x \in net \/ PktOK(x.pkt, cfile, cst', block')
    BY <2>1, <1>p DEF ClientSends, Datagram
  <2>3. QED
    BY <1>m, <1>r, <2>1, <2>2
<1>7. CASE ClientLoop
  <2>1. inq[Client] # <<>> /\ ClientHandles(d)
    BY <1>7 DEF ClientLoop
  <2>2. d.pkt \in Packets /\ PktOK(d.pkt, cfile, cst, block)
    BY <2>1, HeadOK
  <2> HIDE DEF d
  <2>3. ClientReceives(d, "get") /\ cst = "get"
    BY <2>1, <1>1 DEF ClientHandles, recvfile_next, recvfile_resync, recvfile_error,
       send_file_next, send_file_resync, send_file_error, ClientIgnores, ClientReceives
  <2>4. cfile' = cfile /\ UNCHANGED srvvars
    BY <2>3 DEF ClientReceives
  <2>5. CASE recvfile_next(d)
    <3>1. d.pkt.op = "DATA" /\ d.pkt.blk = block /\ AcceptData(d)
      BY <2>5 DEF recvfile_next
    <3>2. d.pkt.dat = <<cfile, block>> /\ block < Wrap
      BY <2>2, <2>3, <3>1, <1>1, <1>2, AcceptedBlock DEF B
    <3>3. Dequeue(Client)
      BY <3>1 DEF AcceptData
    <3>4. /\ Len(local') = block
          /\ \A i \in 1..block : local'[i] \in Written(<<cfile, i>>)
      <4>1. PICK w \in Written(<<cfile, block>>) : local' = Append(local, w)
        BY <3>1, <3>2 DEF AcceptData
      <4>2. w \in Data \cup {<<>>}
        BY <4>1, <1>1, <1>2, <2>3, WrittenType DEF B
      <4>3. Len(local) = block - 1
        BY <1>2, <2>3
      <4>4. /\ Len(local') = block /\ local'[block] = w
            /\ \A i \in 1..(block - 1) : local'[i] = local[i]
        BY <4>1, <4>2, <4>3, <1>1
      <4>5. ASSUME NEW i \in 1..block PROVE local'[i] \in Written(<<cfile, i>>)
        <5>1. CASE i = block
          BY <4>1, <4>4, <5>1
        <5>2. CASE i # block
          <6>1. i \in 1..(block - 1) /\ i \in 1..Len(local)
            BY <5>2, <4>3, <1>1
          <6>2. QED
            BY <6>1, <4>4, <1>3
        <5>3. QED
          BY <5>1, <5>2
      <4>6. QED
        BY <4>4, <4>5
    <3>5. CASE block < B
      <4>1. /\ cbuf' = AckPkt(block) /\ block' = block + 1
            /\ ClientSends(AckPkt(block), d.from) /\ UNCHANGED <<cst, outcome>>
        BY <3>1, <3>2, <3>5 DEF AcceptData, FullBlock, NextPacket, B
      <4>2. PktOK(AckPkt(block), cfile, "get", block + 1)
        <5>1. block \in 1..((block + 1) - 1) /\ block + 1 <= Wrap /\ block + 1 \in Nat
          BY <1>1, <1>2, <2>3, <3>2
        <5>2. QED
          BY <5>1, SentOK
      <4>3. \A x \in net' : x \in net \/ PktOK(x.pkt, cfile, cst', block')
        BY <2>3, <4>1, <4>2 DEF ClientSends, Datagram
      <4>4. NetOK'
        BY <1>m, <1>1, <2>1, <2>3, <2>4, <3>3, <4>1, <4>3
      <4>5. ReceiverOK'
        BY <1>1, <1>2, <2>3, <2>4, <3>2, <3>4, <3>5, <4>1, <4>2 DEF ReceiverOK, B, None
      <4>6. QED
        BY <1>1, <2>3, <2>4, <4>1, <4>4, <4>5
    <3>6. CASE ~(block < B)
      <4>1. /\ cst' = "prompt" /\ outcome' = "ok" /\ block' = block
            /\ ClientSends(AckPkt(block), d.from)
        BY <3>1, <3>2, <3>6 DEF AcceptData, FullBlock, Finish, B
      <4>2. \A x \in net' : x \in net \/ PktOK(x.pkt, cfile, cst', block')
        BY <1>p, <4>1 DEF ClientSends, Datagram
      <4>3. NetOK'
        BY <1>m, <2>1, <2>4, <3>3, <4>1, <4>2
      <4>4. ReceiverOK'
        BY <1>1, <1>2, <2>3, <2>4, <3>4, <3>6, <4>1 DEF ReceiverOK, B
      <4>5. QED
        BY <2>4, <4>1, <4>3, <4>4
    <3>7. QED
      BY <3>5, <3>6
  <2>6. CASE recvfile_resync(d)
    <3>1. /\ synchnet(Client) /\ UNCHANGED <<cst, outcome, block, cbuf, local>>
          /\ ClientSends(cbuf, d.from) \/ UNCHANGED net
      BY <2>6 DEF recvfile_resync
    <3>2. \A x \in net' : x \in net \/ PktOK(x.pkt, cfile, cst', block')
      BY <1>2, <2>3, <3>1 DEF ClientSends, Datagram
    <3>3. NetOK'
      BY <1>m, <1>1, <2>4, <3>1, <3>2
    <3>4. ReceiverOK'
      BY <2>4, <3>1 DEF ReceiverOK
    <3>5. QED
      BY <1>1, <2>4, <3>1, <3>3, <3>4
  <2>7. CASE recvfile_error(d)
    <3>1. /\ Dequeue(Client) /\ cst' = "prompt" /\ outcome' = "error"
          /\ ClientSends(AckPkt(block), d.from) /\ UNCHANGED <<block, local>>
      BY <2>7 DEF recvfile_error, Finish
    <3>2. \A x \in net' : x \in net \/ PktOK(x.pkt, cfile, cst', block')
      BY <3>1, <1>p DEF ClientSends, Datagram
    <3>3. QED
      BY <1>m, <1>r, <2>1, <2>3, <2>4, <3>1, <3>2
  <2>8. CASE ClientIgnores(d)
    <3>1. Dequeue(Client) /\ UNCHANGED <<net, cst, outcome, block, cbuf, local>>
      BY <2>8 DEF ClientIgnores
    <3>2. NetOK'
      BY <1>m, <1>1, <2>1, <2>4, <3>1
    <3>3. ReceiverOK'
      BY <2>4, <3>1 DEF ReceiverOK
    <3>4. QED
      BY <1>1, <2>4, <3>1, <3>2, <3>3
  <2>9. QED
    <3>1. ~send_file_next(d) /\ ~send_file_resync(d) /\ ~send_file_error(d)
      BY <2>3 DEF send_file_next, send_file_resync, send_file_error, ClientReceives
    <3>2. QED
      BY <2>1, <2>5, <2>6, <2>7, <2>8, <3>1 DEF ClientHandles
<1>8. QED
  BY <1>4, <1>5, <1>6, <1>7

LEMMA GetServerStep ==
  ASSUME TypeOK, TypeOK', NetOK, ReceiverOK, cfile \in GetFiles,
         \A r \in Servers : SendOK(srv[r], cfile, cst, block),
         NEW s \in Servers,
         StartServer(s) \/ ServerLoop(s) \/ srv_timer(s) \/ srv_fails(s)
  PROVE  /\ UNCHANGED xfervars /\ NetOK'
         /\ \A r \in Servers : SendOK(srv'[r], cfile, cst, block)
<1> DEFINE d == Head(inq[s])
           f == cfile
           b == srv[s].block
           B == Blocks[cfile]
<1>1. /\ block \in Nat /\ b \in Nat /\ B \in Nat \ {0} /\ Wrap \in Nat /\ Wrap > 1
      /\ cst \in {"get", "prompt"} /\ srv \in [Servers -> ServerStates]
  BY TftpAssumption DEF TypeOK, XferType, ReceiverOK, Files, ServerStates
<1>2. cst = "get" => block \in 1..B /\ block <= Wrap
  BY DEF ReceiverOK
<1>3. /\ srv[s].st \in {"free", "send", "exit"}
      /\ srv[s].st = "send" => /\ srv[s].file = f /\ b \in 1..B
                               /\ srv[s].buf = DataPkt(b, <<f, b>>)
                               /\ cst = "get" => b <= block
  BY DEF SendOK
<1>4. PktOK(ErrorPkt, f, cst, block)
  BY <1>1, SentOK
<1>5. srv[s].st = "send" => PktOK(srv[s].buf, f, cst, block)
  BY <1>1, <1>3, SentOK
<1>m. ASSUME UNCHANGED xfervars,
             (inq[s] # <<>> /\ Dequeue(s)) \/ synchnet(s) \/ UNCHANGED inq,
             \A x \in net' : x \in net \/ PktOK(x.pkt, f, cst, block)
      PROVE  NetOK'
  BY <1>m, <1>1, NetStep DEF xfervars
<1>u. ASSUME NEW new, srv' = [srv EXCEPT ![s] = new], SendOK(new, f, cst, block)
      PROVE  \A r \in Servers : SendOK(srv'[r], f, cst, block)
  BY <1>u, <1>1
<1>e. ASSUME Exit(s) PROVE \A r \in Servers : SendOK(srv'[r], f, cst, block)
  <2>1. SendOK([srv[s] EXCEPT !.st = "exit"], f, cst, block)
    <3>1. srv[s] \in ServerStates
      BY <1>1
    <3>2. [srv[s] EXCEPT !.st = "exit"].st = "exit"
      BY <3>1 DEF ServerStates
    <3>3. QED
      BY <3>2 DEF SendOK
  <2>2. QED
    BY <1>e, <1>u, <2>1 DEF Exit
<1>k. ASSUME UNCHANGED srv PROVE \A r \in Servers : SendOK(srv'[r], f, cst, block)
  BY <1>k
<1> HIDE DEF f, B, b
<1>6. CASE StartServer(s)
  <2>1. PICK q \in net : tftp_refuse(s, q) \/ tftp_read(s, q) \/ tftp_write(s, q)
    BY <1>6 DEF StartServer
  <2>2. UNCHANGED <<inq, xfervars>>
    BY <2>1 DEF tftp_refuse, tftp_read, tftp_write, TakeRequest, ServerStep
  <2>3. PktOK(q.pkt, f, cst, block)
    BY DEF NetOK, f
  <2>4. CASE tftp_refuse(s, q)
    <3>1. \A x \in net' : x \in net \/ PktOK(x.pkt, f, cst, block)
      BY <2>4, <1>4 DEF tftp_refuse, Datagram
    <3>2. QED
      BY <2>2, <2>4, <3>1, <1>m, <1>e DEF tftp_refuse, f
  <2>5. CASE tftp_read(s, q)
    <3>1. q.pkt.dat[1] = f
      BY <2>3, <2>5 DEF tftp_read, TakeRequest, PktOK
    <3> DEFINE p == DataPkt(1, <<f, 1>>)
               new == [st |-> "send", file |-> f, block |-> 1, timeout |-> 0, buf |-> p]
    <3>2. srv' = [srv EXCEPT ![s] = new] /\ net' = (net \ {q}) \cup {Datagram(p, s, Client)}
      BY <2>5, <3>1 DEF tftp_read
    <3>3. 1 \in 1..B /\ (cst = "get" => 1 <= block)
      BY <1>1, <1>2
    <3>4. PktOK(p, f, cst, block)
      BY <1>1, <3>3, SentOK DEF f, B
    <3>5. SendOK(new, f, cst, block)
      BY <3>3 DEF SendOK, f, B
    <3> HIDE DEF p
    <3>6. \A x \in net' : x \in net \/ PktOK(x.pkt, f, cst, block)
      BY <3>2, <3>4 DEF Datagram
    <3>7. \A r \in Servers : SendOK(srv'[r], f, cst, block)
      BY <1>u, <3>2, <3>5
    <3>8. QED
      BY <2>2, <3>6, <3>7, <1>m DEF f
  <2>6. CASE tftp_write(s, q)
    BY <2>3, <2>6 DEF tftp_write, TakeRequest, PktOK
  <2>7. QED
    BY <2>1, <2>4, <2>5, <2>6
<1>7. CASE srv_timer(s)
  <2>1. /\ srv[s].st = "send" /\ UNCHANGED <<inq, xfervars>>
        /\ \/ Exit(s) /\ UNCHANGED net
           \/ /\ srv' = [srv EXCEPT ![s].timeout = @ + 1]
              /\ ServerSends(s, srv[s].buf)
    BY <1>3, <1>7 DEF srv_timer, ServerStep
  <2>2. \A x \in net' : x \in net \/ PktOK(x.pkt, f, cst, block)
    BY <2>1, <1>5 DEF ServerSends, Datagram
  <2>3. CASE srv' = [srv EXCEPT ![s].timeout = @ + 1]
    <3> DEFINE new == [srv[s] EXCEPT !.timeout = @ + 1]
    <3>1. srv[s] \in ServerStates
      BY <1>1
    <3>2. new.st = "send" /\ new.file = srv[s].file /\ new.block = b /\ new.buf = srv[s].buf
      BY <2>1, <3>1 DEF ServerStates, b
    <3>3. SendOK(new, f, cst, block)
      BY <1>3, <2>1, <3>2 DEF SendOK, B, f, b
    <3>4. QED
      BY <1>u, <1>m, <2>1, <2>2, <2>3, <3>3 DEF f
  <2>4. QED
    BY <1>e, <1>m, <2>1, <2>2, <2>3 DEF f
<1>8. CASE srv_fails(s)
  BY <1>8, <1>e, <1>m DEF srv_fails, ServerStep, f
<1>9. CASE ServerLoop(s)
  <2>1. inq[s] # <<>> /\ ServerHandles(s, d)
    BY <1>9 DEF ServerLoop
  <2>2. d.pkt \in Packets /\ PktOK(d.pkt, f, cst, block)
    BY <2>1, HeadOK DEF f
  <2> HIDE DEF d
  <2>3. srv[s].st = "send" /\ UNCHANGED xfervars
    BY <2>1, <1>3 DEF ServerHandles, srv_send_next, srv_send_resync, srv_recv_next,
       srv_recv_resync, srv_dally, srv_error, srv_ignores, ServerReceives, ServerStep
  <2>4. CASE srv_send_next(s, d)
    <3> DEFINE p == DataPkt(b + 1, <<f, b + 1>>)
               new == [srv[s] EXCEPT !.block = b + 1, !.timeout = 0, !.buf = p]
    <3>1. /\ d.pkt.op = "ACK" /\ d.pkt.blk = b % Wrap /\ Dequeue(s)
          /\ \/ b < B /\ ServerNext(s, p) /\ ServerSends(s, p)
             \/ Exit(s) /\ (ServerSends(s, ErrorPkt) \/ UNCHANGED net)
      BY <2>3, <2>4, <1>3 DEF srv_send_next, SendNextBlock, b, B, f
    <3>2. cst = "get" => b + 1 <= block
      <4>1. SUFFICES ASSUME cst = "get" PROVE b + 1 <= block
        OBVIOUS
      <4>2. b % Wrap \in 1..(block - 1)
        BY <2>2, <3>1, <4>1 DEF PktOK
      <4>3. b <= block /\ block <= Wrap
        BY <1>2, <1>3, <2>3, <4>1
      <4>4. b < Wrap => b % Wrap = b
        BY <1>1, ModFacts
      <4>5. b = Wrap => b % Wrap = 0
        BY <1>1
      <4>6. QED
        BY <1>1, <4>2, <4>3, <4>4, <4>5
    <3>3. CASE b < B /\ ServerNext(s, p) /\ ServerSends(s, p)
      <4>1. b + 1 \in 1..B
        BY <1>1, <3>3
      <4>2. PktOK(p, f, cst, block)
        BY <1>1, <3>2, <4>1, SentOK DEF f, B
      <4>3. srv[s] \in ServerStates
        BY <1>1
      <4> HIDE DEF p
      <4>4. new.st = "send" /\ new.file = f /\ new.block = b + 1 /\ new.buf = p
        BY <1>3, <2>3, <4>3 DEF ServerStates
      <4>5. SendOK(new, f, cst, block)
        BY <3>2, <4>1, <4>4 DEF SendOK, p, B, f
      <4>6. srv' = [srv EXCEPT ![s] = new]
        BY <3>3 DEF ServerNext, b
      <4>7. \A x \in net' : x \in net \/ PktOK(x.pkt, f, cst, block)
        BY <3>3, <4>2 DEF ServerSends, Datagram
      <4>8. NetOK'
        BY <1>m, <2>1, <2>3, <3>1, <4>7
      <4>9. \A r \in Servers : SendOK(srv'[r], f, cst, block)
        <5> HIDE DEF new
        <5>1. QED
          BY <1>u, <4>5, <4>6
      <4>10. QED
        BY <2>3, <4>8, <4>9 DEF f
    <3>4. CASE Exit(s) /\ (ServerSends(s, ErrorPkt) \/ UNCHANGED net)
      <4>1. \A x \in net' : x \in net \/ PktOK(x.pkt, f, cst, block)
        BY <3>4, <1>4 DEF ServerSends, Datagram
      <4>2. QED
        BY <1>e, <1>m, <2>1, <2>3, <3>1, <3>4, <4>1 DEF f
    <3>5. QED
      BY <3>1, <3>3, <3>4
  <2>5. CASE srv_send_resync(s, d)
    <3>1. /\ synchnet(s) /\ UNCHANGED srv
          /\ ServerSends(s, srv[s].buf) \/ UNCHANGED net
      BY <2>5 DEF srv_send_resync, srvvars
    <3>2. \A x \in net' : x \in net \/ PktOK(x.pkt, f, cst, block)
      BY <1>5, <2>3, <3>1 DEF ServerSends, Datagram
    <3>3. QED
      BY <1>k, <1>m, <2>3, <3>1, <3>2 DEF f
  <2>6. CASE srv_error(s, d)
    BY <1>e, <1>m, <2>1, <2>3, <2>6 DEF srv_error, f
  <2>7. CASE srv_ignores(s, d)
    BY <1>k, <1>m, <2>1, <2>3, <2>7 DEF srv_ignores, srvvars, f
  <2>8. QED
    <3>1. ~srv_recv_next(s, d) /\ ~srv_recv_resync(s, d) /\ ~srv_dally(s, d)
      BY <2>3 DEF srv_recv_next, srv_recv_resync, srv_dally, ServerReceives, ServerStep
    <3>2. QED
      BY <2>1, <2>4, <2>5, <2>6, <2>7, <3>1 DEF ServerHandles
<1>10. QED
  BY <1>6, <1>7, <1>8, <1>9

LEMMA GetStep == TypeOK /\ TypeOK' /\ GetInv /\ [Next]_vars => GetInv'
<1> SUFFICES ASSUME TypeOK, TypeOK', GetInv, [Next]_vars PROVE GetInv'
  OBVIOUS
<1>0. xfers \in Nat /\ block \in Nat /\ block' \in Nat
      /\ srv \in [Servers -> ServerStates]
  BY DEF TypeOK, XferType
<1>1. CASE xfers = 0
  BY <1>1, FirstStep
<1>2. ASSUME xfers # 0, NEW f, get(f) \/ put(f) PROVE GetInv'
  BY <1>0, <1>2 DEF get, put, StartTransfer, GetInv
<1>3. CASE UNCHANGED <<xfers, cfile>> /\ xfers # 0 /\ ~(xfers = 1 /\ cfile \in GetFiles)
  BY <1>3 DEF GetInv
<1>4. CASE UNCHANGED <<xfers, cfile>> /\ xfers = 1 /\ cfile \in GetFiles
  <2>1. /\ NetOK /\ ReceiverOK
        /\ \A s \in Servers : SendOK(srv[s], cfile, cst, block)
    BY <1>4 DEF GetInv
  <2>2. ASSUME NetOK', ReceiverOK', \A s \in Servers : SendOK(srv'[s], cfile, cst', block')
        PROVE  GetInv'
    BY <1>4, <2>2 DEF GetInv
  <2>3. UNCHANGED xfervars => ReceiverOK'
    BY <2>1 DEF ReceiverOK, xfervars
  <2>4. CASE ClientLoop \/ timer \/ intr \/ ClientSendFails
    <3>1. /\ UNCHANGED srvvars /\ NetOK' /\ ReceiverOK'
          /\ cst' = "get" => cst = "get" /\ block <= block'
      BY <1>4, <2>1, <2>4, GetClientStep
    <3>2. \A r \in ServerStates : SendOK(r, cfile, cst, block) => SendOK(r, cfile, cst', block')
      BY <1>0, <3>1, Monotone
    <3>3. \A s \in Servers : SendOK(srv'[s], cfile, cst', block')
      BY <1>0, <2>1, <3>1, <3>2 DEF srvvars
    <3>4. QED
      BY <2>2, <3>1, <3>3
  <2>5. ASSUME NEW s \in Servers,
               StartServer(s) \/ ServerLoop(s) \/ srv_timer(s) \/ srv_fails(s)
        PROVE  GetInv'
    <3>1. /\ UNCHANGED xfervars /\ NetOK'
          /\ \A r \in Servers : SendOK(srv'[r], cfile, cst, block)
      BY <1>4, <2>1, <2>5, GetServerStep
    <3>2. QED
      BY <2>2, <2>3, <3>1 DEF xfervars
  <2>6. ASSUME NEW d \in net, Deliver(d) PROVE GetInv'
    <3>1. /\ d.to # Port /\ inq' = [inq EXCEPT ![d.to] = Append(@, d)]
          /\ net' \subseteq net /\ UNCHANGED <<xfervars, srvvars>>
      BY <2>6 DEF Deliver
    <3>2. PktOK(d.pkt, cfile, cst, block) /\ d \in Datagrams
      BY <2>1 DEF NetOK, TypeOK, NetType
    <3>3. ASSUME NEW a \in Servers \cup {Client}, NEW i \in 1..Len(inq'[a])
          PROVE  PktOK(inq'[a][i].pkt, cfile, cst, block)
      <4>1. inq[a] \in Seq(Datagrams) /\ DOMAIN inq = Servers \cup {Client}
        BY DEF TypeOK, NetType, Queues
      <4>2. inq'[a] = IF a = d.to THEN Append(inq[a], d) ELSE inq[a]
        BY <3>1, <4>1
      <4>3. inq'[a][i] = d \/ (i \in 1..Len(inq[a]) /\ inq'[a][i] = inq[a][i])
        BY <4>1, <4>2
      <4>4. QED
        BY <2>1, <3>2, <4>3 DEF NetOK
    <3>4. NetOK'
      BY <2>1, <3>1, <3>3 DEF NetOK, xfervars
    <3>5. QED
      BY <2>1, <2>2, <2>3, <3>1, <3>4 DEF xfervars, srvvars
  <2>7. ASSUME UNCHANGED <<net, inq, xfervars, srvvars>> PROVE GetInv'
    <3>1. NetOK'
      BY <2>1, <2>7 DEF NetOK, xfervars
    <3>2. QED
      BY <2>1, <2>2, <2>3, <2>7, <3>1 DEF xfervars, srvvars
  <2>8. CASE ClientCommand
    <3>1. ASSUME \/ \E found \in BOOLEAN : setpeer(found)
                 \/ \E t \in RexmtVals : setrexmt(t)
                 \/ \E t \in TimeoutVals : settimeout(t)
          PROVE  UNCHANGED <<net, inq, xfervars, srvvars>>
      BY <3>1 DEF setpeer, setrexmt, settimeout
    <3>2. QED
      BY <1>2, <1>4, <2>4, <2>7, <2>8, <3>1 DEF ClientCommand
  <2>9. CASE UNCHANGED vars
    BY <2>7, <2>9 DEF vars
  <2>10. QED
    BY <2>4, <2>5, <2>6, <2>8, <2>9 DEF Next
<1>5. QED
  BY <1>1, <1>2, <1>3, <1>4, SameTransfer

\* The invariant of the first get holds for every number of servers, of blocks,
\* of duplicates and of retransmissions, and for every width of th_block.
THEOREM GetInvariant == Spec => []GetInv
<1>1. QED
  BY TypeCorrect, TypeStep, GetInit, GetStep, PTL DEF Spec

\* A get hands the blocks of its own file to write() in order, "ok" means all of
\* them, and the local file is the remote one if none of these writes failed.
THEOREM GetIsCorrect == Spec => []GetIntegrity
<1>1. TypeOK /\ GetInv => GetIntegrity
  <2> SUFFICES ASSUME TypeOK, ReceiverOK, cfile \in GetFiles
               PROVE  outcome = "ok" =>
                        /\ Len(local) = Blocks[cfile]
                        /\ (\A i \in 1..Len(local) : local[i] # <<>>) =>
                             local = Whole(cfile)
    BY DEF GetInv, GetIntegrity, ReceiverOK
  <2>1. local \in Seq(Data \cup {<<>>}) /\ Blocks[cfile] \in Nat
    BY TftpAssumption DEF TypeOK, XferType, Files
  <2>2. SUFFICES ASSUME outcome = "ok", \A i \in 1..Len(local) : local[i] # <<>>
                 PROVE  local = Whole(cfile)
    BY DEF ReceiverOK
  <2>3. /\ local = [i \in 1..Blocks[cfile] |-> local[i]]
        /\ \A i \in 1..Blocks[cfile] : local[i] = <<cfile, i>>
    BY <2>1, <2>2 DEF ReceiverOK, Written
  <2>4. QED
    BY <2>3 DEF Whole
<1>2. QED
  BY <1>1, TypeCorrect, GetInvariant, PTL

\* No tftpd is ahead of the client that it sends to.
THEOREM NeverAhead == Spec => []ServerNotAhead
<1>1. TypeOK /\ GetInv => ServerNotAhead
  BY DEF GetInv, ServerNotAhead, SendOK, TypeOK, XferType
<1>2. QED
  BY <1>1, TypeCorrect, GetInvariant, PTL

-----------------------------------------------------------------------------
(* A put.  Every acknowledgement of block i by an instance s tells that s   *)
(* has stored the first i blocks, unless another instance has opened (and   *)
(* so truncated) the file since; s opens it once, before it sends anything, *)
(* so that it never becomes the last opener again.  No instance stores a    *)
(* block at another block's offset: its int counter, at least 1, equals the *)
(* 16-bit number of one block only.                                         *)

Stored(f, i) == i <= Len(disk[f]) /\ \A j \in 1..i : disk[f][j] = <<f, j>>

Acked(s, f, i) ==
  /\ s \in Servers /\ srv[s].st # "free" /\ i < Wrap
  /\ opener[f] = s => Stored(f, i)

PutPkt(p, src, f) ==
  /\ p.op # "RRQ"
  /\ p.op = "WRQ" => p.dat = <<f>>
  /\ p.op = "DATA" => /\ p.dat[1] = f /\ p.dat[2] \in 1..Blocks[f]
                      /\ p.dat[2] <= Wrap /\ p.blk = p.dat[2] % Wrap
  /\ p.op = "ACK" => Acked(src, f, p.blk)

PutNet ==
  /\ \A d \in net : PutPkt(d.pkt, d.from, cfile)
  /\ \A a \in Servers \cup {Client} : \A i \in 1..Len(inq[a]) :
       PutPkt(inq[a][i].pkt, inq[a][i].from, cfile)

PutClient ==
  /\ cst # "get"
  /\ cst = "put" => /\ block <= Blocks[cfile] /\ block <= Wrap /\ outcome = None
                    /\ PutPkt(cbuf, Client, cfile)
  /\ outcome = "ok" => Acked(peeraddr, cfile, Blocks[cfile])

PutServer(s, f) ==
  /\ srv[s].st # "send"
  /\ srv[s].st = "recv" => /\ srv[s].file = f /\ srv[s].block > 0
                           /\ Acked(s, f, srv[s].block - 1)
  /\ srv[s].st \in {"recv", "dally"} => PutPkt(srv[s].buf, s, f)

PutInv ==
  /\ xfers = 0 => Quiet
  /\ xfers = 0 => \A f \in PutFiles : disk[f] = <<>>
  /\ xfers = 1 /\ cfile \in PutFiles =>
       /\ PutNet /\ PutClient /\ Len(disk[cfile]) <= Blocks[cfile]
       /\ \A s \in Servers : PutServer(s, cfile)

\* What an acknowledgement tells stays true: files only grow, blocks are not
\* overwritten with others, and a file is truncated only by an instance that has
\* acknowledged nothing yet.
LEMMA AckedKept ==
  ASSUME NEW f,
         \A s \in Servers : srv[s].st # "free" => srv'[s].st # "free",
         \/ opener' = opener /\ \A i \in Nat : Stored(f, i) => Stored(f, i)'
         \/ \E s \in Servers : srv[s].st = "free" /\ opener'[f] = s
  PROVE  /\ \A s, i : i \in Nat /\ Acked(s, f, i) => Acked(s, f, i)'
         /\ \A p \in Packets : \A s : PutPkt(p, s, f) => PutPkt(p, s, f)'
<1>1. ASSUME NEW s, NEW i \in Nat, Acked(s, f, i) PROVE Acked(s, f, i)'
  <2>1. /\ s \in Servers /\ srv[s].st # "free" /\ i < Wrap
        /\ opener[f] = s => Stored(f, i)
    BY <1>1 DEF Acked
  <2>2. opener'[f] = s => Stored(f, i)'
    BY <2>1
  <2>3. QED
    BY <2>1, <2>2 DEF Acked
<1>2. ASSUME NEW p \in Packets, NEW s, PutPkt(p, s, f) PROVE PutPkt(p, s, f)'
  <2>1. p.op = "ACK" => p.blk \in Nat
    BY DEF Packets
  <2>2. p.op = "ACK" => Acked(s, f, p.blk)'
    BY <1>1, <1>2, <2>1 DEF PutPkt
  <2>3. QED
    BY <1>2, <2>2 DEF PutPkt
<1>3. QED
  BY <1>1, <1>2

\* The datagrams in flight after a step of the put of f.
LEMMA PutNetStep ==
  ASSUME TypeOK, TypeOK', PutNet, NEW f, cfile = f, cfile' = f,
         \A p \in Packets : \A s : PutPkt(p, s, f) => PutPkt(p, s, f)',
         NEW b \in Servers \cup {Client},
         (inq[b] # <<>> /\ Dequeue(b)) \/ synchnet(b) \/ UNCHANGED inq,
         \A d \in net' : d \in net \/ PutPkt(d.pkt, d.from, f)'
  PROVE  PutNet'
<1>1. ASSUME NEW d \in net' PROVE PutPkt(d.pkt, d.from, f)'
  <2>1. d.pkt \in Packets
    BY DEF TypeOK, NetType, Datagrams
  <2>2. QED
    BY <2>1 DEF PutNet
<1>2. ASSUME NEW a \in Servers \cup {Client}, NEW i \in 1..Len(inq'[a])
      PROVE  PutPkt(inq[a][i].pkt, inq[a][i].from, f)'
  <2>0. NetType
    BY DEF TypeOK
  <2>1. PICK j \in 1..Len(inq[a]) : inq'[a][i] = inq[a][j]
    BY <2>0, QueueShrinks
  <2>2. PICK d : d = inq[a][j]
    OBVIOUS
  <2>3. inq[a] \in Seq(Datagrams)
    BY <2>0 DEF NetType, Queues
  <2>4. d \in Datagrams
    BY <2>2, <2>3
  <2>5. d.pkt \in Packets
    BY <2>4 DEF Datagrams
  <2>6. PutPkt(d.pkt, d.from, f)
    BY <2>2 DEF PutNet
  <2>7. PutPkt(d.pkt, d.from, f)'
    BY <2>5, <2>6
  <2>8. QED
    BY <2>1, <2>2, <2>7
<1>3. QED
  BY <1>1, <1>2 DEF PutNet

LEMMA HeadPut ==
  ASSUME TypeOK, PutNet, NEW a \in Servers \cup {Client}, inq[a] # <<>>
  PROVE  /\ Head(inq[a]) \in Datagrams /\ Head(inq[a]).pkt \in Packets
         /\ PutPkt(Head(inq[a]).pkt, Head(inq[a]).from, cfile)
<1>1. inq[a] \in Seq(Datagrams)
  BY DEF TypeOK, NetType, Queues
<1>2. Head(inq[a]) = inq[a][1] /\ 1 \in 1..Len(inq[a]) /\ Head(inq[a]) \in Datagrams
  BY <1>1
<1>3. QED
  BY <1>2 DEF PutNet, Datagrams

\* The packets that this transfer sends, acknowledgements aside.
LEMMA PutSent ==
  ASSUME NEW f \in PutFiles, NEW s
  PROVE  /\ PutPkt(ErrorPkt, s, f) /\ PutPkt(makerequest("WRQ", f), s, f)
         /\ \A i \in 1..Blocks[f] : i <= Wrap => PutPkt(DataPkt(i, <<f, i>>), s, f)
         /\ \A i \in Nat : Acked(s, f, i) => PutPkt(AckPkt(i), s, f)
<1>1. ASSUME NEW i \in Nat, Acked(s, f, i) PROVE PutPkt(AckPkt(i), s, f)
  <2>1. i % Wrap = i
    BY <1>1, ModFacts, TftpAssumption DEF Acked
  <2>2. QED
    BY <1>1, <2>1 DEF PutPkt, AckPkt
<1>2. QED
  BY <1>1 DEF PutPkt, ErrorPkt, makerequest, DataPkt

\* The one block that a tftpd stores at the offset b is block b of the file.
LEMMA StoredBlock ==
  ASSUME NEW f \in PutFiles, NEW b \in Nat \ {0}, NEW s,
         NEW p \in Packets, p.op = "DATA", p.blk = b, PutPkt(p, s, f)
  PROVE  p.dat = <<f, b>> /\ b < Wrap /\ b <= Blocks[f]
<1>1. p.dat \in Data
  BY DEF Packets
<1>2. p.dat = <<p.dat[1], p.dat[2]>> /\ p.dat[2] \in Nat
  BY <1>1 DEF Data
<1>3. p.dat[1] = f /\ p.dat[2] \in 1..Blocks[f] /\ b = p.dat[2] % Wrap /\ p.dat[2] <= Wrap
  BY DEF PutPkt
<1>4. b \in Nat /\ b > 0 /\ Wrap \in Nat /\ Wrap > 0 /\ Blocks[f] \in Nat
  BY TftpAssumption DEF Files
<1>5. p.dat[2] < Wrap
  <2>1. p.dat[2] = Wrap => p.dat[2] % Wrap = 0
    BY <1>4
  <2>2. QED
    BY <1>2, <1>3, <1>4, <2>1
<1>6. p.dat[2] = b /\ b < Wrap
  BY <1>2, <1>3, <1>4, <1>5, ModFacts
<1>7. QED
  BY <1>2, <1>3, <1>4, <1>6

\* A block stored at its own offset keeps the blocks stored before, and extends
\* the file at most to its length.
LEMMA WriteStores ==
  ASSUME NEW c \in Seq(Data \cup {<<>>}), NEW f, NEW b \in Nat \ {0},
         NEW w, w = WriteBlock(c, b, <<f, b>>)
  PROVE  /\ w[b] = <<f, b>> /\ b <= Len(w) /\ Len(c) <= Len(w)
         /\ \A j \in 1..Len(c) : j # b => w[j] = c[j]
         /\ \A n \in Nat : Len(c) <= n /\ b <= n => Len(w) <= n
<1> DEFINE n == IF Len(c) < b THEN b ELSE Len(c)
<1>1. n \in Nat /\ b \in 1..n /\ Len(c) \in Nat /\ Len(c) <= n /\ b <= n
  OBVIOUS
<1>2. w = [j \in 1..n |-> IF j = b THEN <<f, b>> ELSE IF j <= Len(c) THEN c[j] ELSE <<>>]
  BY DEF WriteBlock
<1>6. \A m \in Nat : Len(c) <= m /\ b <= m => n <= m
  OBVIOUS
<1> HIDE DEF n
<1>3. Len(w) = n
  BY <1>1, <1>2
<1>4. w[b] = <<f, b>>
  BY <1>1, <1>2
<1>5. ASSUME NEW j \in 1..Len(c), j # b PROVE w[j] = c[j]
  <2>1. j \in 1..n /\ j <= Len(c)
    BY <1>1
  <2>2. QED
    BY <1>2, <1>5, <2>1
<1>7. QED
  BY <1>1, <1>3, <1>4, <1>5, <1>6

LEMMA PutClientStep ==
  ASSUME TypeOK, TypeOK', PutNet, PutClient, NEW f \in PutFiles, cfile = f,
         ClientLoop \/ timer \/ intr \/ ClientSendFails
  PROVE  cfile' = f /\ UNCHANGED srvvars /\ PutNet' /\ PutClient'
<1> DEFINE B == Blocks[f]
<1>1. /\ block \in Nat /\ B \in Nat \ {0} /\ Wrap \in Nat /\ Wrap > 1
      /\ cst \in {"put", "prompt"}
  BY TftpAssumption DEF TypeOK, XferType, PutClient, Files
<1>2. cst = "put" => /\ block <= B /\ block <= Wrap /\ outcome = None
                     /\ PutPkt(cbuf, Client, f)
  BY DEF PutClient
<1>3. cst # "prompt" /\ cst = "put"
  <2>1. ClientLoop => cst # "prompt"
    BY DEF ClientLoop, ClientHandles, recvfile_next, recvfile_resync, recvfile_error,
       send_file_next, send_file_resync, send_file_error, ClientIgnores, ClientReceives
  <2>2. QED
    BY <1>1, <2>1 DEF timer, intr, ClientSendFails
<1>k. ASSUME UNCHANGED srvvars
      PROVE  /\ \A s, i : Acked(s, f, i) <=> Acked(s, f, i)'
             /\ \A p, s : PutPkt(p, s, f) <=> PutPkt(p, s, f)'
  <2>1. \A s, i : Acked(s, f, i) <=> Acked(s, f, i)'
    BY <1>k DEF Acked, Stored, srvvars
  <2>2. \A p, s : PutPkt(p, s, f) <=> PutPkt(p, s, f)'
    BY <2>1 DEF PutPkt
  <2>3. QED
    BY <2>1, <2>2
<1>m. ASSUME cfile' = f, UNCHANGED srvvars,
             (inq[Client] # <<>> /\ Dequeue(Client)) \/ synchnet(Client) \/ UNCHANGED inq,
             \A x \in net' : x \in net \/ PutPkt(x.pkt, x.from, f)
      PROVE  PutNet'
  <2>1. \A x \in net' : x \in net \/ PutPkt(x.pkt, x.from, f)'
    BY <1>m, <1>k
  <2>2. \A p \in Packets : \A s : PutPkt(p, s, f) => PutPkt(p, s, f)'
    BY <1>m, <1>k
  <2>3. QED
    BY <1>m, <2>1, <2>2, PutNetStep
<1>s. ASSUME NEW p, NEW a, ClientSends(p, a), PutPkt(p, Client, f)
      PROVE  \A x \in net' : x \in net \/ PutPkt(x.pkt, x.from, f)
  BY <1>s DEF ClientSends, Datagram
<1>r. ASSUME cst' = "prompt", cfile' = f, outcome' # "ok" PROVE PutClient'
  BY <1>r DEF PutClient
<1>t. ASSUME UNCHANGED <<cst, outcome>>, cfile' = f, UNCHANGED srvvars,
             block' <= B, block' <= Wrap, PutPkt(cbuf', Client, f)
      PROVE  PutClient'
  <2>1. PICK p : p = cbuf'
    OBVIOUS
  <2>2. PutPkt(p, Client, f)'
    BY <1>t, <1>k, <2>1
  <2>3. cst' = "put" /\ outcome' = None
    BY <1>2, <1>3, <1>t
  <2>4. QED
    BY <1>t, <2>1, <2>2, <2>3 DEF PutClient, B, None
<1>4. CASE intr
  <2>1. /\ cst' = "prompt" /\ outcome' # "ok" /\ cfile' = f
        /\ UNCHANGED <<net, inq, srvvars>>
    BY <1>4 DEF intr, Finish
  <2>2. QED
    BY <1>m, <1>r, <2>1
<1>5. CASE timer
  <2>1. /\ cfile' = f /\ UNCHANGED <<inq, block, cbuf, srvvars>>
        /\ \/ cst' = "prompt" /\ outcome' # "ok" /\ UNCHANGED net
           \/ ClientSends(cbuf, peeraddr) /\ UNCHANGED <<cst, outcome>>
    BY <1>5 DEF timer, Finish
  <2>2. CASE cst' = "prompt" /\ outcome' # "ok" /\ UNCHANGED net
    BY <1>m, <1>r, <2>1, <2>2
  <2>3. CASE ClientSends(cbuf, peeraddr) /\ UNCHANGED <<cst, outcome>>
    <3>1. PutNet'
      BY <1>m, <1>s, <1>2, <1>3, <2>1, <2>3
    <3>2. PutClient'
      BY <1>t, <1>2, <1>3, <2>1, <2>3
    <3>3. QED
      BY <2>1, <3>1, <3>2
  <2>4. QED
    BY <2>1, <2>2, <2>3
<1>6. CASE ClientSendFails
  <2>1. /\ cst' = "prompt" /\ outcome' # "ok" /\ cfile' = f
        /\ UNCHANGED <<net, inq, srvvars>>
    BY <1>3, <1>6 DEF ClientSendFails, Finish
  <2>2. QED
    BY <1>m, <1>r, <2>1
<1>7. CASE ClientLoop
  <2>1. inq[Client] # <<>> /\ ClientHandles(Head(inq[Client]))
    BY <1>7 DEF ClientLoop
  <2>2. PICK d : d = Head(inq[Client])
    OBVIOUS
  <2>3. d.pkt \in Packets /\ PutPkt(d.pkt, d.from, f) /\ ClientHandles(d)
    BY <2>1, <2>2, HeadPut
  <2>4. ClientReceives(d, "put")
    BY <2>3, <1>3 DEF ClientHandles, recvfile_next, recvfile_resync, recvfile_error,
       send_file_next, send_file_resync, send_file_error, ClientIgnores, ClientReceives
  <2>5. cfile' = f /\ UNCHANGED srvvars /\ peeraddr' = d.from
    BY <2>4 DEF ClientReceives
  <2>6. CASE send_file_next(d)
    <3>1. d.pkt.op = "ACK" /\ d.pkt.blk = block /\ Dequeue(Client)
      BY <2>6 DEF send_file_next
    <3>2. Acked(d.from, f, block)
      BY <2>3, <3>1 DEF PutPkt
    <3>3. block < Wrap
      BY <3>2 DEF Acked
    <3>4. CASE block < B /\ NextPacket(DataPkt(block + 1, <<f, block + 1>>), d.from)
      <4>1. block + 1 \in 1..B /\ block + 1 <= Wrap
        BY <1>1, <3>3, <3>4
      <4>2. PutPkt(DataPkt(block + 1, <<f, block + 1>>), Client, f)
        BY <4>1, PutSent DEF B
      <4>3. PutNet'
        BY <1>m, <1>s, <2>1, <2>5, <3>1, <3>4, <4>2 DEF NextPacket
      <4>4. PutClient'
        BY <1>t, <2>5, <3>4, <4>1, <4>2 DEF NextPacket
      <4>5. QED
        BY <2>5, <4>3, <4>4
    <3>5. CASE ClientSends(ErrorPkt, d.from) /\ Finish("error")
      <4>1. PutNet'
        BY <1>m, <1>s, <2>1, <2>5, <3>1, <3>5, PutSent
      <4>2. PutClient'
        BY <1>r, <2>5, <3>5 DEF Finish
      <4>3. QED
        BY <2>5, <4>1, <4>2
    <3>6. CASE block = B /\ Finish("ok") /\ UNCHANGED net
      <4>1. PutNet'
        BY <1>m, <2>1, <2>5, <3>1, <3>6
      <4>2. PICK a, i : a = d.from /\ i = B /\ Acked(a, f, i)'
        BY <1>k, <2>5, <3>2, <3>6
      <4>3. PutClient'
        BY <2>5, <3>6, <4>2 DEF PutClient, Finish, B
      <4>4. QED
        BY <2>5, <4>1, <4>3
    <3>7. QED
      BY <2>6, <3>4, <3>5, <3>6 DEF send_file_next, B
  <2>7. CASE send_file_resync(d)
    <3>1. /\ synchnet(Client) /\ UNCHANGED <<cst, outcome, block, cbuf>>
          /\ ClientSends(cbuf, d.from) \/ UNCHANGED net
      BY <2>7 DEF send_file_resync
    <3>2. PutNet'
      BY <1>m, <1>s, <1>2, <1>3, <2>5, <3>1
    <3>3. PutClient'
      BY <1>t, <1>2, <1>3, <2>5, <3>1
    <3>4. QED
      BY <2>5, <3>2, <3>3
  <2>8. CASE send_file_error(d)
    <3>1. Dequeue(Client) /\ cst' = "prompt" /\ outcome' # "ok" /\ UNCHANGED net
      BY <2>8 DEF send_file_error, Finish
    <3>2. QED
      BY <1>m, <1>r, <2>1, <2>5, <3>1
  <2>9. CASE ClientIgnores(d)
    <3>1. Dequeue(Client) /\ UNCHANGED <<net, cst, outcome, block, cbuf>>
      BY <2>9 DEF ClientIgnores
    <3>2. PutNet'
      BY <1>m, <2>1, <2>5, <3>1
    <3>3. PutClient'
      BY <1>t, <1>2, <1>3, <2>5, <3>1
    <3>4. QED
      BY <2>5, <3>2, <3>3
  <2>10. QED
    <3>1. ~recvfile_next(d) /\ ~recvfile_resync(d) /\ ~recvfile_error(d)
      BY <1>3 DEF recvfile_next, recvfile_resync, recvfile_error, ClientReceives
    <3>2. QED
      BY <2>3, <2>6, <2>7, <2>8, <2>9, <3>1 DEF ClientHandles
<1>8. QED
  BY <1>4, <1>5, <1>6, <1>7

LEMMA PutServerStep ==
  ASSUME DiskMayFail = FALSE, TypeOK, TypeOK', PutNet, PutClient,
         NEW f \in PutFiles, cfile = f,
         Len(disk[f]) <= Blocks[f], \A r \in Servers : PutServer(r, f),
         NEW s \in Servers,
         StartServer(s) \/ ServerLoop(s) \/ srv_timer(s) \/ srv_fails(s)
  PROVE  /\ UNCHANGED xfervars /\ PutNet' /\ PutClient'
         /\ Len(disk'[f]) <= Blocks[f] /\ \A r \in Servers : PutServer(r, f)'
<1> DEFINE B == Blocks[f]
           b == srv[s].block
<1>1. /\ b \in Nat /\ B \in Nat \ {0} /\ Wrap \in Nat /\ Wrap > 1
      /\ srv \in [Servers -> ServerStates] /\ srv[s] \in ServerStates
      /\ srv[s].buf \in Packets /\ block \in Nat /\ cbuf \in Packets
  BY TftpAssumption DEF TypeOK, XferType, Files, ServerStates
<1>2. /\ srv[s].st # "send"
      /\ srv[s].st = "recv" => srv[s].file = f /\ b > 0 /\ Acked(s, f, b - 1)
      /\ srv[s].st \in {"recv", "dally"} => PutPkt(srv[s].buf, s, f)
  BY DEF PutServer
<1>n. ASSUME \A a \in Servers : srv[a].st # "free" => srv'[a].st # "free",
             \/ opener' = opener /\ \A i \in Nat : Stored(f, i) => Stored(f, i)'
             \/ \E a \in Servers : srv[a].st = "free" /\ opener'[f] = a,
             UNCHANGED xfervars
      PROVE  PutClient'
  <2>1. cfile' = f /\ UNCHANGED <<cst, block, outcome, cbuf, peeraddr>>
    BY <1>n DEF xfervars
  <2>2. PICK p, q : p = cbuf /\ q = peeraddr
    OBVIOUS
  <2>3. /\ \A a, i : i \in Nat /\ Acked(a, f, i) => Acked(a, f, i)'
        /\ \A m \in Packets : \A a : PutPkt(m, a, f) => PutPkt(m, a, f)'
    BY <1>n, AckedKept
  <2>4. cst = "put" => PutPkt(p, Client, f)'
    BY <1>1, <2>2, <2>3 DEF PutClient
  <2>5. outcome = "ok" => Acked(q, f, B)'
    BY <1>1, <2>2, <2>3 DEF PutClient, B
  <2>6. QED
    BY <2>1, <2>2, <2>4, <2>5 DEF PutClient, B
<1>m. ASSUME \A a \in Servers : srv[a].st # "free" => srv'[a].st # "free",
             \/ opener' = opener /\ \A i \in Nat : Stored(f, i) => Stored(f, i)'
             \/ \E a \in Servers : srv[a].st = "free" /\ opener'[f] = a,
             UNCHANGED xfervars,
             (inq[s] # <<>> /\ Dequeue(s)) \/ synchnet(s) \/ UNCHANGED inq,
             \A x \in net' : x \in net \/ PutPkt(x.pkt, x.from, f)'
      PROVE  PutNet'
  <2>1. cfile' = f
    BY <1>m DEF xfervars
  <2>2. \A p \in Packets : \A a : PutPkt(p, a, f) => PutPkt(p, a, f)'
    BY <1>m, AckedKept
  <2>3. QED
    BY <1>m, <2>1, <2>2, PutNetStep
<1>u. ASSUME NEW new, srv' = [srv EXCEPT ![s] = new], new.st \notin {"free", "send"},
             \/ opener' = opener /\ \A i \in Nat : Stored(f, i) => Stored(f, i)'
             \/ srv[s].st = "free" /\ opener'[f] = s,
             new.st = "recv" => new.file = f /\ new.block > 0 /\ Acked(s, f, new.block - 1)',
             new.st \in {"recv", "dally"} => PutPkt(new.buf, s, f)'
      PROVE  /\ \A a \in Servers : srv[a].st # "free" => srv'[a].st # "free"
             /\ \A r \in Servers : PutServer(r, f)'
  <2>1. \A a \in Servers : srv'[a] = IF a = s THEN new ELSE srv[a]
    BY <1>1, <1>u
  <2>2. \A a \in Servers : srv[a].st # "free" => srv'[a].st # "free"
    BY <1>u, <2>1
  <2>3. /\ \A a, i : i \in Nat /\ Acked(a, f, i) => Acked(a, f, i)'
        /\ \A p \in Packets : \A a : PutPkt(p, a, f) => PutPkt(p, a, f)'
    <3>1. \/ opener' = opener /\ \A i \in Nat : Stored(f, i) => Stored(f, i)'
          \/ \E a \in Servers : srv[a].st = "free" /\ opener'[f] = a
      BY <1>u
    <3>2. QED
      BY <2>2, <3>1, AckedKept
  <2>4. ASSUME NEW r \in Servers PROVE PutServer(r, f)'
    <3>1. CASE r = s
      BY <1>u, <2>1, <3>1 DEF PutServer
    <3>2. CASE r # s
      <4>1. PICK q : q = srv[r]
        OBVIOUS
      <4>2. q \in ServerStates /\ q.block \in Nat /\ q.buf \in Packets /\ srv'[r] = q
        BY <1>1, <2>1, <3>2, <4>1 DEF ServerStates
      <4>3. /\ q.st # "send"
            /\ q.st = "recv" => q.file = f /\ q.block > 0 /\ Acked(r, f, q.block - 1)
            /\ q.st \in {"recv", "dally"} => PutPkt(q.buf, r, f)
        BY <4>1 DEF PutServer
      <4>4. q.st = "recv" => Acked(r, f, q.block - 1)'
        <5>1. q.block > 0 => q.block - 1 \in Nat
          BY <4>2
        <5>2. QED
          BY <2>3, <4>3, <5>1
      <4>5. q.st \in {"recv", "dally"} => PutPkt(q.buf, r, f)'
        BY <2>3, <4>2, <4>3
      <4>6. QED
        BY <4>2, <4>3, <4>4, <4>5 DEF PutServer
    <3>3. QED
      BY <3>1, <3>2
  <2>5. QED
    BY <2>2, <2>4
<1>d. ASSUME UNCHANGED <<disk, opener>>
      PROVE  /\ opener' = opener /\ \A i \in Nat : Stored(f, i) => Stored(f, i)'
             /\ Len(disk'[f]) <= B
  BY <1>d DEF Stored
<1>e. ASSUME Exit(s) \/ UNCHANGED srv \/ srv' = [srv EXCEPT ![s].timeout = @ + 1],
             srv[s].st # "free" \/ Exit(s), UNCHANGED <<disk, opener>>
      PROVE  /\ \A a \in Servers : srv[a].st # "free" => srv'[a].st # "free"
             /\ \A r \in Servers : PutServer(r, f)'
             /\ srv[s].st # "free" => \A p \in Packets : \A a : PutPkt(p, a, f) => PutPkt(p, a, f)'
             /\ PutPkt(ErrorPkt, s, f)'
  <2>0. PutPkt(ErrorPkt, s, f)'
    BY DEF PutPkt, ErrorPkt
  <2>1. opener' = opener /\ \A i \in Nat : Stored(f, i) => Stored(f, i)'
    BY <1>d, <1>e
  <2>2. /\ \A a \in Servers : srv[a].st # "free" => srv'[a].st # "free"
        /\ srv'[s].st \in {"exit", srv[s].st}
        /\ srv'[s].file = srv[s].file /\ srv'[s].block = b /\ srv'[s].buf = srv[s].buf
        /\ \A a \in Servers : a # s => srv'[a] = srv[a]
    BY <1>1, <1>e DEF Exit, ServerStates
  <2>3. /\ \A a, i : i \in Nat /\ Acked(a, f, i) => Acked(a, f, i)'
        /\ \A p \in Packets : \A a : PutPkt(p, a, f) => PutPkt(p, a, f)'
    BY <2>1, <2>2, AckedKept
  <2>4. PICK new : new = srv'[s]
    OBVIOUS
  <2>5. srv' = [srv EXCEPT ![s] = new]
    BY <1>1, <1>e, <2>4 DEF Exit
  <2>6. new.st # "free" => \A r \in Servers : PutServer(r, f)'
    <3>1. new.st = "recv" => new.file = f /\ new.block > 0 /\ Acked(s, f, new.block - 1)'
      <4>1. new.st = "recv" => /\ srv[s].st = "recv" /\ new.file = f /\ new.block = b
                               /\ b > 0 /\ Acked(s, f, b - 1) /\ b - 1 \in Nat
        BY <1>1, <1>2, <2>2, <2>4
      <4>2. PICK i : i = b - 1
        OBVIOUS
      <4>3. QED
        BY <2>3, <4>1, <4>2
    <3>2. new.st \in {"recv", "dally"} => PutPkt(new.buf, s, f)'
      <4>1. PICK p : p = srv[s].buf
        OBVIOUS
      <4>2. new.st \in {"recv", "dally"} => PutPkt(p, s, f) /\ new.buf = p /\ p \in Packets
        BY <1>1, <1>2, <2>2, <2>4, <4>1
      <4>3. QED
        BY <2>3, <4>2
    <3>3. SUFFICES ASSUME new.st # "free" PROVE \A r \in Servers : PutServer(r, f)'
      OBVIOUS
    <3>4. new.st \notin {"free", "send"}
      BY <1>2, <2>2, <2>4, <3>3
    <3>5. QED
      BY <1>u, <2>1, <2>5, <3>1, <3>2, <3>4
  <2>7. new.st # "free"
    <3>1. Exit(s) => new.st = "exit"
      BY <1>1, <2>4 DEF Exit, ServerStates
    <3>2. QED
      BY <1>e, <2>2, <2>4, <3>1
  <2>8. QED
    BY <2>0, <2>2, <2>3, <2>6, <2>7
<1>z. ASSUME Exit(s) \/ UNCHANGED srv \/ srv' = [srv EXCEPT ![s].timeout = @ + 1],
             srv[s].st # "free" \/ Exit(s), UNCHANGED <<disk, opener>>, UNCHANGED xfervars,
             (inq[s] # <<>> /\ Dequeue(s)) \/ synchnet(s) \/ UNCHANGED inq,
             \A x \in net' : \/ x \in net
                             \/ x.from = s /\ x.pkt = ErrorPkt
                             \/ x.from = s /\ x.pkt = srv[s].buf /\ srv[s].st \in {"recv", "dally"}
      PROVE  /\ UNCHANGED xfervars /\ PutNet' /\ PutClient'
             /\ Len(disk'[f]) <= B /\ \A r \in Servers : PutServer(r, f)'
  <2>1. /\ \A a \in Servers : srv[a].st # "free" => srv'[a].st # "free"
        /\ \A r \in Servers : PutServer(r, f)'
        /\ srv[s].st # "free" => \A p \in Packets : \A a : PutPkt(p, a, f) => PutPkt(p, a, f)'
        /\ PutPkt(ErrorPkt, s, f)'
    BY <1>e, <1>z
  <2>2. opener' = opener /\ (\A i \in Nat : Stored(f, i) => Stored(f, i)') /\ Len(disk'[f]) <= B
    BY <1>d, <1>z
  <2>3. PICK p : p = srv[s].buf
    OBVIOUS
  <2>4. srv[s].st \in {"recv", "dally"} => PutPkt(p, s, f)'
    BY <1>1, <1>2, <2>1, <2>3
  <2>5. ASSUME NEW x \in net' PROVE x \in net \/ PutPkt(x.pkt, x.from, f)'
    <3>1. PICK e : e = ErrorPkt
      OBVIOUS
    <3>2. PutPkt(e, s, f)'
      BY <2>1, <3>1
    <3>3. QED
      BY <1>z, <2>3, <2>4, <3>1, <3>2
  <2>6. PutNet'
    BY <1>m, <1>z, <2>1, <2>2, <2>5
  <2>7. PutClient'
    BY <1>n, <1>z, <2>1, <2>2
  <2>8. QED
    BY <1>z, <2>1, <2>2, <2>6, <2>7
<1>6. CASE StartServer(s)
  <2>1. PICK q \in net : tftp_refuse(s, q) \/ tftp_read(s, q) \/ tftp_write(s, q)
    BY <1>6 DEF StartServer
  <2>2. UNCHANGED <<inq, xfervars>> /\ srv[s].st = "free"
    BY <2>1 DEF tftp_refuse, tftp_read, tftp_write, TakeRequest, ServerStep
  <2>3. PutPkt(q.pkt, q.from, f)
    BY DEF PutNet
  <2>4. CASE tftp_refuse(s, q)
    <3>1. Exit(s) /\ UNCHANGED <<disk, opener>>
      BY <2>4 DEF tftp_refuse
    <3>2. \A x \in net' : x \in net \/ (x.from = s /\ x.pkt = ErrorPkt)
      BY <2>4 DEF tftp_refuse, Datagram
    <3>3. QED
      BY <1>z, <2>2, <3>1, <3>2
  <2>5. CASE tftp_read(s, q)
    BY <2>3, <2>5 DEF tftp_read, TakeRequest, PutPkt
  <2>6. CASE tftp_write(s, q)
    <3>1. q.pkt.dat[1] = f
      BY <2>3, <2>6 DEF tftp_write, TakeRequest, PutPkt
    <3>2. PICK new : new = [st |-> "recv", file |-> f, block |-> 1, timeout |-> 0,
                            buf |-> AckPkt(0)]
      OBVIOUS
    <3>3. /\ srv' = [srv EXCEPT ![s] = new]
          /\ net' = (net \ {q}) \cup {Datagram(AckPkt(0), s, Client)}
          /\ disk' = [disk EXCEPT ![f] = <<>>] /\ opener' = [opener EXCEPT ![f] = s]
      BY <2>6, <3>1, <3>2 DEF tftp_write
    <3>4. disk'[f] = <<>> /\ opener'[f] = s /\ srv'[s].st # "free"
      BY <1>1, <3>2, <3>3 DEF TypeOK, DiskType
    <3>5. Acked(s, f, 0)'
      BY <1>1, <3>4 DEF Acked, Stored
    <3>6. PICK p : p = AckPkt(0)
      OBVIOUS
    <3>7. PutPkt(p, s, f)'
      <4>1. p.op = "ACK" /\ p.blk = 0
        BY <1>1, <3>6, ModFacts DEF AckPkt
      <4>2. QED
        BY <3>5, <4>1 DEF PutPkt
    <3>8. /\ new.st = "recv" /\ new.file = f /\ new.block = 1 /\ new.buf = p
          /\ new.block - 1 = 0 /\ new.block > 0 /\ new.st \notin {"free", "send"}
      BY <3>2, <3>6
    <3>9. /\ \A a \in Servers : srv[a].st # "free" => srv'[a].st # "free"
          /\ \A r \in Servers : PutServer(r, f)'
      <4>1. Acked(s, f, new.block - 1)' /\ PutPkt(new.buf, s, f)'
        BY <3>5, <3>7, <3>8
      <4>2. QED
        BY <1>u, <2>2, <3>3, <3>4, <3>8, <4>1
    <3>10. \A x \in net' : x \in net \/ PutPkt(x.pkt, x.from, f)'
      <4>1. \A x \in net' : x \in net \/ (x.pkt = p /\ x.from = s)
        BY <3>3, <3>6 DEF Datagram
      <4>2. QED
        BY <3>7, <4>1
    <3>11. PutNet'
      BY <1>m, <2>2, <3>4, <3>9, <3>10
    <3>12. PutClient'
      BY <1>n, <2>2, <3>4, <3>9
    <3>13. Len(disk'[f]) <= B
      BY <1>1, <3>4
    <3>14. QED
      BY <2>2, <3>9, <3>11, <3>12, <3>13
  <2>7. QED
    BY <2>1, <2>4, <2>5, <2>6
<1>7. CASE srv_timer(s)
  <2>1. /\ srv[s].st \in {"recv", "dally"} /\ UNCHANGED <<inq, disk, opener, xfervars>>
        /\ \/ Exit(s) /\ UNCHANGED net
           \/ /\ srv' = [srv EXCEPT ![s].timeout = @ + 1]
              /\ ServerSends(s, srv[s].buf)
    BY <1>2, <1>7 DEF srv_timer, ServerStep
  <2>2. \A x \in net' : x \in net \/ (x.from = s /\ x.pkt = srv[s].buf)
    BY <2>1 DEF ServerSends, Datagram
  <2>3. QED
    BY <1>z, <2>1, <2>2
<1>8. CASE srv_fails(s)
  <2>1. Exit(s) /\ UNCHANGED <<net, inq, disk, opener, xfervars>>
    BY <1>8 DEF srv_fails, ServerStep
  <2>2. QED
    BY <1>z, <2>1
<1>9. CASE ServerLoop(s)
  <2>1. inq[s] # <<>> /\ ServerHandles(s, Head(inq[s]))
    BY <1>9 DEF ServerLoop
  <2>2. PICK d : d = Head(inq[s])
    OBVIOUS
  <2>3. d.pkt \in Packets /\ PutPkt(d.pkt, d.from, f) /\ ServerHandles(s, d)
    BY <2>1, <2>2, HeadPut
  <2>4. srv[s].st \in {"recv", "dally"} /\ UNCHANGED xfervars
    BY <2>3, <1>2 DEF ServerHandles, srv_send_next, srv_send_resync, srv_recv_next,
       srv_recv_resync, srv_dally, srv_error, srv_ignores, ServerReceives, ServerStep
  <2>5. CASE srv_recv_next(s, d)
    <3>1. /\ srv[s].st = "recv" /\ d.pkt.op = "DATA" /\ d.pkt.blk = b
          /\ StoreBlock(s, f, b, d.pkt.dat)
      BY <1>2, <2>5 DEF srv_recv_next, ServerReceives, ServerStep
    <3>2. b \in Nat \ {0}
      BY <1>1, <1>2, <3>1
    <3>3. PICK c : c = b
      OBVIOUS
    <3>4. c \in Nat \ {0} /\ d.pkt.dat = <<f, c>> /\ c < Wrap /\ c <= B
      BY <2>3, <3>1, <3>2, <3>3, StoredBlock
    <3>5. /\ Dequeue(s) /\ opener' = opener
          /\ disk' = [disk EXCEPT ![f] = WriteBlock(@, c, <<f, c>>)]
          /\ ServerSends(s, AckPkt(c))
          /\ \/ ServerNext(s, AckPkt(c))
             \/ srv' = [srv EXCEPT ![s].st = "dally", ![s].buf = AckPkt(c)]
      BY <3>1, <3>3, <3>4 DEF StoreBlock
    <3>6. disk[f] \in Seq(Data \cup {<<>>}) /\ disk'[f] = WriteBlock(disk[f], c, <<f, c>>)
      BY <3>5 DEF TypeOK, DiskType
    <3>7. /\ disk'[f][c] = <<f, c>> /\ c <= Len(disk'[f]) /\ Len(disk[f]) <= Len(disk'[f])
          /\ \A j \in 1..Len(disk[f]) : j # c => disk'[f][j] = disk[f][j]
          /\ Len(disk'[f]) <= B
      <4>1. PICK old, w : old = disk[f] /\ w = WriteBlock(old, c, <<f, c>>)
        OBVIOUS
      <4>2. /\ w[c] = <<f, c>> /\ c <= Len(w) /\ Len(old) <= Len(w)
            /\ \A j \in 1..Len(old) : j # c => w[j] = old[j]
            /\ \A n \in Nat : Len(old) <= n /\ c <= n => Len(w) <= n
        <5>1. old \in Seq(Data \cup {<<>>}) /\ c \in Nat \ {0} /\ w = WriteBlock(old, c, <<f, c>>)
          BY <3>4, <3>6, <4>1
        <5>2. QED
          BY ONLY <5>1, WriteStores
      <4>3. QED
        BY <1>1, <3>4, <3>6, <4>1, <4>2
    <3>8. Len(disk[f]) \in Nat /\ Len(disk'[f]) \in Nat
      BY <3>6 DEF TypeOK, DiskType
    <3>9. ASSUME NEW i \in Nat, Stored(f, i) PROVE Stored(f, i)'
      <4>1. i <= Len(disk[f]) /\ \A j \in 1..i : disk[f][j] = <<f, j>>
        BY <3>9 DEF Stored
      <4>2. i <= Len(disk'[f])
        BY <3>7, <3>8, <4>1
      <4>3. ASSUME NEW j \in 1..i PROVE disk'[f][j] = <<f, j>>
        <5>1. j \in 1..Len(disk[f]) /\ disk[f][j] = <<f, j>>
          BY <3>8, <4>1
        <5>2. QED
          BY <3>7, <5>1
      <4>4. QED
        BY <4>2, <4>3 DEF Stored
    <3>10. Acked(s, f, c - 1)
      BY <1>2, <3>1, <3>3
    <3>11. PICK p : p = AckPkt(c)
      OBVIOUS
    <3>12. PICK new : srv' = [srv EXCEPT ![s] = new] /\ new = srv'[s]
      BY <1>1, <3>5 DEF ServerNext
    <3>13. /\ new.st \in {"recv", "dally"} /\ new.file = f /\ new.buf = p
           /\ new.st = "recv" => new.block = c + 1
      <4>1. srv[s].file = f /\ srv[s].st = "recv" /\ srv[s] \in ServerStates
        BY <1>1, <1>2, <3>1
      <4>2. CASE ServerNext(s, AckPkt(c))
        <5>1. new = [srv[s] EXCEPT !.block = c + 1, !.timeout = 0, !.buf = p]
          BY <1>1, <3>3, <3>11, <3>12, <4>2 DEF ServerNext
        <5>2. QED
          BY <4>1, <5>1 DEF ServerStates
      <4>3. CASE srv' = [srv EXCEPT ![s].st = "dally", ![s].buf = AckPkt(c)]
        <5>1. new = [srv[s] EXCEPT !.st = "dally", !.buf = p]
          BY <1>1, <3>11, <3>12, <4>3
        <5>2. QED
          BY <4>1, <5>1 DEF ServerStates
      <4>4. QED
        BY <3>5, <4>2, <4>3
    <3>14. \A a \in Servers : srv[a].st # "free" => srv'[a].st # "free"
      BY <1>1, <3>12, <3>13
    <3>15. Acked(s, f, c)'
      <4>1. Acked(s, f, c - 1)'
        <5>1. c - 1 \in Nat
          BY <3>4
        <5>2. \A a, i : i \in Nat /\ Acked(a, f, i) => Acked(a, f, i)'
          BY <3>5, <3>9, <3>14, AckedKept
        <5>3. QED
          BY <3>10, <5>1, <5>2
      <4>2. (opener[f] = s)' => Stored(f, c - 1)'
        BY <4>1 DEF Acked
      <4>3. Stored(f, c - 1)' => Stored(f, c)'
        BY <3>4, <3>7, <3>8 DEF Stored
      <4>4. QED
        BY <3>4, <3>12, <3>13, <4>2, <4>3 DEF Acked
    <3>16. PutPkt(p, s, f)'
      <4>1. p.op = "ACK" /\ p.blk = c
        BY <1>1, <3>4, <3>11, ModFacts DEF AckPkt
      <4>2. QED
        BY <3>15, <4>1 DEF PutPkt
    <3>17. \A r \in Servers : PutServer(r, f)'
      <4>1. new.st = "recv" => new.block > 0 /\ Acked(s, f, new.block - 1)'
        <5>1. new.st = "recv" => new.block > 0 /\ new.block - 1 = c
          BY <3>4, <3>13
        <5>2. QED
          BY <3>15, <5>1
      <4>2. QED
        BY <1>u, <3>5, <3>9, <3>12, <3>13, <3>16, <4>1
    <3>18. \A x \in net' : x \in net \/ PutPkt(x.pkt, x.from, f)'
      <4>1. \A x \in net' : x \in net \/ (x.pkt = p /\ x.from = s)
        BY <3>5, <3>11 DEF ServerSends, Datagram
      <4>2. QED
        BY <3>16, <4>1
    <3>19. PutNet'
      BY <1>m, <2>1, <2>4, <3>5, <3>9, <3>14, <3>18
    <3>20. PutClient'
      BY <1>n, <2>4, <3>5, <3>9, <3>14
    <3>21. QED
      BY <2>4, <3>7, <3>17, <3>19, <3>20
  <2>6. CASE srv_recv_resync(s, d)
    <3>1. /\ synchnet(s) /\ UNCHANGED <<srv, disk, opener>>
          /\ ServerSends(s, srv[s].buf) \/ UNCHANGED net
      BY <2>6 DEF srv_recv_resync, srvvars
    <3>2. \A x \in net' : x \in net \/ (x.from = s /\ x.pkt = srv[s].buf)
      BY <3>1 DEF ServerSends, Datagram
    <3>3. QED
      BY <1>z, <2>4, <3>1, <3>2
  <2>7. CASE srv_dally(s, d)
    <3>1. /\ Dequeue(s) /\ Exit(s) /\ UNCHANGED <<disk, opener>>
          /\ ServerSends(s, srv[s].buf) \/ UNCHANGED net
      BY <2>7 DEF srv_dally
    <3>2. \A x \in net' : x \in net \/ (x.from = s /\ x.pkt = srv[s].buf)
      BY <3>1 DEF ServerSends, Datagram
    <3>3. QED
      BY <1>z, <2>1, <2>4, <3>1, <3>2
  <2>8. CASE srv_error(s, d)
    <3>1. Dequeue(s) /\ Exit(s) /\ UNCHANGED <<net, disk, opener>>
      BY <2>8 DEF srv_error
    <3>2. QED
      BY <1>z, <2>1, <2>4, <3>1
  <2>9. CASE srv_ignores(s, d)
    <3>1. Dequeue(s) /\ UNCHANGED <<net, srv, disk, opener>>
      BY <2>9 DEF srv_ignores, srvvars
    <3>2. QED
      BY <1>z, <2>1, <2>4, <3>1
  <2>10. QED
    <3>1. ~srv_send_next(s, d) /\ ~srv_send_resync(s, d)
      BY <2>4 DEF srv_send_next, srv_send_resync, ServerReceives, ServerStep
    <3>2. QED
      BY <2>3, <2>5, <2>6, <2>7, <2>8, <2>9, <3>1 DEF ServerHandles
<1>10. QED
  BY <1>6, <1>7, <1>8, <1>9

LEMMA PutStep ==
  ASSUME DiskMayFail = FALSE, TypeOK, TypeOK', PutInv, [Next]_vars
  PROVE  PutInv'
<1>0. xfers \in Nat /\ block \in Nat
  BY DEF TypeOK, XferType
<1>1. ASSUME NEW f \in Files, get(f) \/ put(f) PROVE PutInv'
  <2>1. /\ xfers' = xfers + 1 /\ cfile' = f /\ outcome' = None
        /\ UNCHANGED <<inq, srvvars>>
    BY <1>1 DEF get, put, StartTransfer
  <2>2. CASE xfers # 0 \/ f \notin PutFiles
    BY <1>0, <2>1, <2>2 DEF PutInv
  <2>3. CASE xfers = 0 /\ f \in PutFiles
    <3>1. /\ cst' = "put" /\ block' = 0 /\ cbuf' = makerequest("WRQ", f)
          /\ net' = net \cup {Datagram(makerequest("WRQ", f), Client, Port)}
      BY <1>1, <2>3, TftpAssumption DEF get, put, StartTransfer, ClientSends
    <3>2. Quiet /\ disk[f] = <<>>
      BY <2>3 DEF PutInv
    <3>3. PICK p : p = makerequest("WRQ", f)
      OBVIOUS
    <3>4. PutPkt(p, Client, f)'
      BY <3>3 DEF PutPkt, makerequest
    <3>5. PutNet'
      <4>1. \A d \in net' : d.pkt = p /\ d.from = Client
        BY <3>1, <3>2, <3>3 DEF Quiet, Datagram
      <4>2. \A a \in Servers \cup {Client} : Len(inq'[a]) = 0
        BY <2>1, <3>2 DEF Quiet
      <4>3. QED
        BY <2>1, <3>4, <4>1, <4>2 DEF PutNet
    <3>6. PutClient'
      <4>1. Blocks[f] \in Nat /\ Wrap \in Nat
        BY TftpAssumption
      <4>2. QED
        BY <2>1, <3>1, <3>3, <3>4, <4>1 DEF PutClient, None
    <3>7. \A s \in Servers : PutServer(s, f)'
      BY <2>1, <3>2 DEF PutServer, Quiet, srvvars
    <3>8. Len(disk'[f]) <= Blocks[f]
      BY <2>1, <3>2, TftpAssumption DEF srvvars
    <3>9. QED
      BY <2>1, <2>3, <3>5, <3>6, <3>7, <3>8 DEF PutInv
  <2>4. QED
    BY <2>2, <2>3
<1>2. ASSUME UNCHANGED <<net, inq, xfervars, srvvars>> PROVE PutInv'
  <2>1. Quiet => Quiet'
    BY <1>2 DEF Quiet, xfervars, srvvars
  <2>2. \A f, s, i : Acked(s, f, i) <=> Acked(s, f, i)'
    BY <1>2 DEF Acked, Stored, srvvars
  <2>3. \A p, s, f : PutPkt(p, s, f) <=> PutPkt(p, s, f)'
    BY <2>2 DEF PutPkt
  <2>4. PutNet => PutNet'
    BY <1>2, <2>3 DEF PutNet, xfervars
  <2>5. PutClient => PutClient'
    BY <1>2, <2>2, <2>3 DEF PutClient, xfervars
  <2>6. \A s, f : PutServer(s, f) => PutServer(s, f)'
    BY <1>2, <2>2, <2>3 DEF PutServer, srvvars
  <2>7. QED
    BY <1>2, <2>1, <2>4, <2>5, <2>6 DEF PutInv, xfervars, srvvars
<1>3. ASSUME \/ \E found \in BOOLEAN : setpeer(found)
             \/ \E t \in RexmtVals : setrexmt(t)
             \/ \E t \in TimeoutVals : settimeout(t)
             \/ UNCHANGED vars
      PROVE  UNCHANGED <<net, inq, xfervars, srvvars>>
  BY <1>3 DEF setpeer, setrexmt, settimeout, vars
<1>4. CASE xfers = 0
  <2>1. Quiet
    BY <1>4 DEF PutInv
  <2>2. ~ClientLoop /\ ~timer /\ ~ClientSendFails /\ ~intr /\ ~(\E d \in net : Deliver(d))
    BY <2>1 DEF Quiet, ClientLoop, timer, ClientSendFails, intr
  <2>3. ASSUME NEW s \in Servers
        PROVE  ~StartServer(s) /\ ~ServerLoop(s) /\ ~srv_timer(s) /\ ~srv_fails(s)
    BY <2>1 DEF Quiet, StartServer, ServerLoop, srv_timer, srv_fails, ServerStep
  <2>4. QED
    BY <1>1, <1>2, <1>3, <2>2, <2>3 DEF Next, ClientCommand
<1>5. CASE UNCHANGED <<xfers, cfile>> /\ xfers # 0 /\ ~(xfers = 1 /\ cfile \in PutFiles)
  BY <1>5 DEF PutInv
<1>6. CASE UNCHANGED <<xfers, cfile>> /\ xfers = 1 /\ cfile \in PutFiles
  <2>1. PICK f \in PutFiles : f = cfile
    BY <1>6
  <2>2. /\ PutNet /\ PutClient /\ Len(disk[f]) <= Blocks[f]
        /\ \A s \in Servers : PutServer(s, f)
    BY <1>6, <2>1 DEF PutInv
  <2>3. ASSUME PutNet', PutClient', Len(disk'[f]) <= Blocks[f],
               \A s \in Servers : PutServer(s, f)'
        PROVE  PutInv'
    BY <1>6, <2>1, <2>3 DEF PutInv
  <2>4. CASE ClientLoop \/ timer \/ intr \/ ClientSendFails
    <3>1. UNCHANGED srvvars /\ PutNet' /\ PutClient'
      BY <2>1, <2>2, <2>4, PutClientStep
    <3>2. \A s, i : Acked(s, f, i) <=> Acked(s, f, i)'
      BY <3>1 DEF Acked, Stored, srvvars
    <3>3. \A p, s : PutPkt(p, s, f) <=> PutPkt(p, s, f)'
      BY <3>2 DEF PutPkt
    <3>4. \A s \in Servers : PutServer(s, f)'
      BY <2>2, <3>1, <3>2, <3>3 DEF PutServer, srvvars
    <3>5. QED
      BY <2>2, <2>3, <3>1, <3>4 DEF srvvars
  <2>5. ASSUME NEW s \in Servers,
               StartServer(s) \/ ServerLoop(s) \/ srv_timer(s) \/ srv_fails(s)
        PROVE  PutInv'
    BY <2>1, <2>2, <2>3, <2>5, PutServerStep
  <2>6. ASSUME NEW d \in net, Deliver(d) PROVE PutInv'
    <3>1. /\ d.to # Port /\ inq' = [inq EXCEPT ![d.to] = Append(@, d)]
          /\ net' \subseteq net /\ UNCHANGED <<xfervars, srvvars>>
      BY <2>6 DEF Deliver
    <3>2. PutPkt(d.pkt, d.from, f) /\ d \in Datagrams
      BY <2>1, <2>2 DEF PutNet, TypeOK, NetType
    <3>3. \A s, i : Acked(s, f, i) <=> Acked(s, f, i)'
      BY <3>1 DEF Acked, Stored, srvvars
    <3>4. \A p, s : PutPkt(p, s, f) <=> PutPkt(p, s, f)'
      BY <3>3 DEF PutPkt
    <3>5. ASSUME NEW a \in Servers \cup {Client}, NEW i \in 1..Len(inq'[a])
          PROVE  PutPkt(inq[a][i].pkt, inq[a][i].from, f)'
      <4>1. inq[a] \in Seq(Datagrams) /\ DOMAIN inq = Servers \cup {Client}
        BY DEF TypeOK, NetType, Queues
      <4>2. inq'[a] = IF a = d.to THEN Append(inq[a], d) ELSE inq[a]
        BY <3>1, <4>1
      <4>3. PICK e : e = inq'[a][i]
        OBVIOUS
      <4>4. e = d \/ (i \in 1..Len(inq[a]) /\ e = inq[a][i])
        BY <4>1, <4>2, <4>3
      <4>5. PutPkt(e.pkt, e.from, f)
        BY <2>1, <2>2, <3>2, <4>4 DEF PutNet
      <4>6. PutPkt(e.pkt, e.from, f)'
        BY <3>4, <4>5
      <4>7. QED
        BY <4>3, <4>6
    <3>6. \A e \in net' : PutPkt(e.pkt, e.from, f)'
      BY <2>1, <2>2, <3>1, <3>4 DEF PutNet
    <3>7. PutNet'
      BY <1>6, <2>1, <3>5, <3>6 DEF PutNet
    <3>8. PutClient'
      <4>1. PICK p, q : p = cbuf /\ q = peeraddr
        OBVIOUS
      <4>2. cst = "put" => PutPkt(p, Client, f)'
        BY <2>1, <2>2, <3>4, <4>1 DEF PutClient
      <4>3. outcome = "ok" => Acked(q, f, Blocks[f])'
        BY <2>1, <2>2, <3>3, <4>1 DEF PutClient
      <4>4. QED
        BY <2>1, <2>2, <3>1, <4>1, <4>2, <4>3 DEF PutClient, xfervars
    <3>9. \A s \in Servers : PutServer(s, f)'
      BY <2>2, <3>1, <3>3, <3>4 DEF PutServer, srvvars
    <3>10. QED
      BY <2>2, <2>3, <3>1, <3>7, <3>8, <3>9 DEF srvvars
  <2>7. QED
    BY <1>1, <1>2, <1>3, <2>4, <2>5, <2>6 DEF Next, ClientCommand
<1>7. QED
  BY <1>1, <1>4, <1>5, <1>6, SameTransfer

\* On a disk that accepts every write, a put that the client sees acknowledged
\* to the end is stored whole, unless another tftpd truncated the file since,
\* for every number of servers, of blocks and of retransmissions, and for every
\* width of th_block.
THEOREM PutIsStored ==
  ASSUME DiskMayFail = FALSE
  PROVE  Spec => []PutStored
<1>1. Init => PutInv
  BY DEF Init, PutInv, Quiet, IdleServer
<1>2. TypeOK /\ TypeOK' /\ PutInv /\ [Next]_vars => PutInv'
  BY PutStep
<1>3. TypeOK /\ PutInv => PutStored
  <2> SUFFICES ASSUME TypeOK, PutClient, Len(disk[cfile]) <= Blocks[cfile],
                      cfile \in PutFiles, outcome = "ok", opener[cfile] = peeraddr
               PROVE  disk[cfile] = Whole(cfile)
    BY DEF PutInv, PutStored
  <2>1. disk[cfile] \in Seq(Data \cup {<<>>}) /\ Blocks[cfile] \in Nat
    BY TftpAssumption DEF TypeOK, DiskType, Files
  <2>2. Stored(cfile, Blocks[cfile])
    BY DEF PutClient, Acked
  <2>3. /\ disk[cfile] = [i \in 1..Blocks[cfile] |-> disk[cfile][i]]
        /\ \A i \in 1..Blocks[cfile] : disk[cfile][i] = <<cfile, i>>
    BY <2>1, <2>2 DEF Stored
  <2>4. QED
    BY <2>3 DEF Whole
<1>4. QED
  BY <1>1, <1>2, <1>3, TypeCorrect, PTL DEF Spec

\* What either transfer reports as done is done, on such a disk.
THEOREM TransferIsDelivered ==
  ASSUME DiskMayFail = FALSE
  PROVE  Spec => []Delivered
<1>1. TypeOK /\ GetIntegrity /\ PutStored => Delivered
  BY DEF Delivered
<1>2. QED
  BY <1>1, TypeCorrect, GetIsCorrect, PutIsStored, PTL
=============================================================================
