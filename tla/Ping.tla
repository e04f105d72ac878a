-------------------------------- MODULE Ping --------------------------------
(***************************************************************************)
(* ping and ping6: the hosts named on the command line are asked one after   *)
(* the other with the same identifier and the same socket.  Answers may be   *)
(* lost, late (even for a host that was given up) or doubled.                *)
(***************************************************************************)
EXTENDS Naturals, FiniteSets

CONSTANTS
  TabSize,             \* PING_CKTABSIZE: bits of the table of answers
  SeqValues,              \* the sequence number of a packet has so many values
  PingLines,           \* command lines: -c (0 is for ever), -l, how many hosts
  MaxXmit,             \* bounds what is sent with -c 0
  MaxOdd               \* bounds odd answers and failures of sendto

ASSUME PingAssumption ==
  /\ TabSize \in Nat \ {0} /\ SeqValues \in Nat \ {0} /\ SeqValues % TabSize = 0
  /\ PingLines \subseteq [count : Nat, preload : Nat, hosts : Nat \ {0}]
  /\ MaxXmit \in Nat /\ MaxOdd \in Nat

VARIABLES
  opts,                \* the command line
  ping,                \* struct ping_data and the local variables of ping_run
  pc,                  \* where ping_run is
  pstop,               \* stop
  echoes,              \* packets on their way to us
  past                 \* history: numbers answered, hosts that answered, and
                       \* whether an answer came too late to be told apart

pingvars == <<opts, ping, pc, pstop, echoes, past>>

----------------------------------------------------------------------------
Reset(h, status) ==
  [host |-> h, status |-> status, num_xmit |-> 0, num_recv |-> 0, num_rept |-> 0,
   cktab |-> {}, nresp |-> 0, finishing |-> FALSE, preloaded |-> 0]

PingInit ==
  /\ opts \in PingLines
  /\ ping = Reset(1, 0) /\ pc = "preload" /\ pstop = FALSE /\ echoes = {}
  /\ past = [got |-> {}, answered |-> {}, late |-> FALSE, odd |-> 0]

(* Mutant: the number's bit is not cleared when it is used again. *)
XmitKeepsBit(p, sent) == IF sent THEN [p EXCEPT !.num_xmit = @ + 1] ELSE p

ping_xmit(p, sent) ==
  LET q == [p EXCEPT !.cktab = @ \ {p.num_xmit % TabSize}]
  IN IF sent THEN [q EXCEPT !.num_xmit = @ + 1] ELSE q

(* What comes back for an echo: nothing, a reply or something odd: two, an     *)
(* error that quotes it or, as every raw socket gets everything, a packet for  *)
(* some other program.                                                        *)
Packet(kind, copy) == [kind |-> kind, host |-> ping.host, n |-> ping.num_xmit, copy |-> copy]
Usual == {{}, {Packet("reply", 1)}}
OddOnes == {{Packet("reply", 1), Packet("reply", 2)}, {Packet("error", 1)}, {Packet("other", 1)}}

(* send_echo, in the loop or, as the preloaded-th, before it. *)
send_echo(preloaded) ==
  \E sent \in BOOLEAN :
    /\ ping' = [ping_xmit(ping, sent) EXCEPT !.preloaded = preloaded]
    /\ \E a \in IF sent THEN Usual \cup OddOnes ELSE {{}} :
         /\ echoes' = echoes \cup a
         /\ IF sent /\ a \in Usual THEN past' = past
            ELSE past.odd < MaxOdd /\ past' = [past EXCEPT !.odd = @ + 1]

(* The packets sent before the loop: -l of them, and one. *)
Preload ==
  /\ pc = "preload" /\ send_echo(ping.preloaded + 1)
  /\ pc' = IF ping.preloaded = opts.preload THEN "loop" ELSE "preload"
  /\ UNCHANGED <<opts, pstop>>

Loop ==
  /\ pc = "loop" /\ pc' = IF pstop THEN "finish" ELSE "select"
  /\ UNCHANGED <<opts, ping, pstop, echoes, past>>

(* A reply that is not known yet, and one that is. *)
echo_reply(p, seq) ==
  IF seq % TabSize \in p.cktab THEN [p EXCEPT !.num_rept = @ + 1]
  ELSE [p EXCEPT !.cktab = @ \cup {seq % TabSize}, !.num_recv = @ + 1]

(* Whoever answers, the identifier decides; an error is ours when the packet  *)
(* that it quotes went to the host of now.                                    *)
my_echo_reply(m) == m.host = ping.host
ping_recv(p, m) ==
  CASE m.kind = "reply" -> echo_reply(p, m.n % SeqValues)
    [] OTHER -> p
Mine(m) == m.kind = "reply" \/ (m.kind = "error" /\ my_echo_reply(m))

Noted(m) ==
  IF m.kind # "reply" THEN past
  ELSE [past EXCEPT !.got = IF m.host = ping.host THEN @ \cup {m.n} ELSE @,
                    !.answered = IF m.host = ping.host THEN @ \cup {m.host} ELSE @,
                    !.late = @ \/ m.host # ping.host \/ m.n + TabSize <= ping.num_xmit]

Receive ==
  /\ pc = "select"
  /\ \E m \in echoes :
       LET q == ping_recv(ping, m)
           nresp == IF Mine(m) THEN q.nresp + 1 ELSE q.nresp
       IN /\ echoes' = echoes \ {m} /\ ping' = [q EXCEPT !.nresp = nresp] /\ past' = Noted(m)
          /\ pc' = IF opts.count # 0 /\ nresp >= opts.count THEN "finish" ELSE "loop"
  /\ UNCHANGED <<opts, pstop>>

(* Mutant: one more than was asked for. *)
OneTooMany == opts.count = 0 \/ ping.num_xmit <= opts.count

(* MaxXmit only bounds what is sent while nobody interrupts. *)
EchoesLeft == opts.count = 0 \/ ping.num_xmit < opts.count
MaySend == opts.count # 0 \/ ping.num_xmit < MaxXmit \/ pstop

(* Mutant: the end of the wait is not remembered. *)
TimesOutAgain ==
  /\ pc = "select" /\ pc' = "loop" /\ UNCHANGED <<opts, pstop>>
  /\ IF EchoesLeft THEN MaySend /\ send_echo(ping.preloaded) ELSE UNCHANGED <<ping, echoes, past>>

(* select returns 0: the next echo, or one last wait of MAXWAIT seconds. *)
TimesOut ==
  /\ pc = "select" /\ UNCHANGED <<opts, pstop>>
  /\ IF EchoesLeft THEN MaySend /\ send_echo(ping.preloaded) /\ pc' = "loop"
     ELSE /\ ping' = [ping EXCEPT !.finishing = TRUE] /\ UNCHANGED <<echoes, past>>
          /\ pc' = IF ping.finishing THEN "finish" ELSE "loop"

(* SIGINT: it ends select, unless it comes just before it. *)
sig_int ==
  /\ ~pstop /\ pc # "exit" /\ pstop' = TRUE
  /\ pc' \in IF pc = "select" THEN {"select", "loop"} ELSE {pc}
  /\ UNCHANGED <<opts, ping, echoes, past>>

(* Mutant: the status is that of the last host. *)
FinishLast ==
  LET status == IF ping.num_recv = 0 THEN 1 ELSE 0
  IN /\ pc = "finish"
     /\ IF ping.host = opts.hosts THEN pc' = "exit" /\ ping' = [ping EXCEPT !.status = status] /\ past' = past
        ELSE pc' = "preload" /\ ping' = Reset(ping.host + 1, status) /\ past' = [past EXCEPT !.got = {}]
     /\ UNCHANGED <<opts, pstop, echoes>>

(* ping_unset_data, echo_finish and ping_reset, then the next host. *)
Finish ==
  LET status == IF ping.num_recv = 0 THEN 1 ELSE ping.status
  IN /\ pc = "finish"
     /\ IF ping.host = opts.hosts THEN pc' = "exit" /\ ping' = [ping EXCEPT !.status = status] /\ past' = past
        ELSE pc' = "preload" /\ ping' = Reset(ping.host + 1, status) /\ past' = [past EXCEPT !.got = {}]
     /\ UNCHANGED <<opts, pstop, echoes>>

Runs == Preload \/ Loop \/ Receive \/ TimesOut \/ Finish
PingNext == Runs \/ sig_int

(* The program runs, and select returns. *)
PingFairness == WF_pingvars(Runs)
PingSpec == PingInit /\ [][PingNext]_pingvars /\ PingFairness

----------------------------------------------------------------------------
(* Types; with -c no more is sent than was asked for, by -c or by -l. *)
PingTypeOK ==
  /\ ping.num_recv \in Nat /\ ping.num_rept \in Nat /\ ping.cktab \subseteq 0 .. TabSize - 1
  /\ ping.host \in 1 .. opts.hosts /\ ping.status \in {0, 1} /\ ping.finishing \in BOOLEAN
  /\ pc \in {"preload", "loop", "select", "finish", "exit"}
  /\ ping.preloaded \in 0 .. opts.preload + 1
  /\ opts.count # 0 => ping.num_xmit <= IF opts.count > opts.preload THEN opts.count ELSE opts.preload + 1

(* The summary tells the truth (ping_finish): every number that was answered  *)
(* counts once, whatever was doubled, reordered or sent in vain, as long as   *)
(* no answer was late by a whole table or for another host.                   *)
SummaryTrue ==
  ~past.late => ping.num_recv = Cardinality(past.got) /\ ping.num_recv <= ping.num_xmit

(* The exit status is 0 when every host has answered, and only then. *)
StatusTrue ==
  (pc = "exit" /\ ~past.late) => (ping.status = 0 <=> past.answered = 1 .. opts.hosts)

(* ping.8: -c stops after sending and receiving that many packets.  With it,  *)
(* or after an interrupt, ping comes to an end.                               *)
PingEnds == (opts.count # 0 \/ pstop) ~> pc = "exit"

(* What ping prints and the status it exits with are true.                      *)
PingTrue == PingTypeOK /\ SummaryTrue /\ StatusTrue
=============================================================================
