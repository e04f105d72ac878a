---------------------------- MODULE ProbeProofs ----------------------------
(***************************************************************************)
(* RouteTrue of Traceroute and PingTrue of Ping for every number of hops,    *)
(* probes, hosts and packets: both match the answers of the network with     *)
(* what was asked by a number that is used again after a while.              *)
(***************************************************************************)
EXTENDS Ping, Traceroute, FiniteSetTheorems, TLAPS

(* Quotient and remainder. *)
LEMMA DivMod ==
  ASSUME NEW P \in Nat \ {0}, NEW x \in Nat
  PROVE  x = P * (x \div P) + (x % P) /\ x % P \in 0 .. P - 1 /\ x \div P \in Nat
  OBVIOUS

(* They are determined by the number. *)
LEMMA UniqueMod ==
  ASSUME NEW P \in Nat \ {0}, NEW q1 \in Int, NEW q2 \in Int, NEW r1 \in 0 .. P - 1, NEW r2 \in 0 .. P - 1,
         P * q1 + r1 = P * q2 + r2
  PROVE  q1 = q2 /\ r1 = r2
  <1>1. P * (q1 - q2) = r2 - r1 /\ r2 - r1 < P /\ r2 - r1 > -P
    OBVIOUS
  <1>2. CASE q1 > q2
    <2>1. q1 - q2 >= 1
      BY <1>2
    <2>2. P * (q1 - q2) >= P
      BY <2>1
    <2> QED BY <1>1, <2>2
  <1>3. CASE q1 < q2
    <2>1. q1 - q2 <= -1
      BY <1>3
    <2>2. P * (q1 - q2) <= -P
      BY <2>1
    <2> QED BY <1>1, <2>2
  <1>4. q1 = q2
    BY <1>2, <1>3
  <1> QED BY <1>1, <1>4

(* Counting up modulo P. *)
LEMMA SuccMod ==
  ASSUME NEW P \in Nat \ {0}, NEW x \in 0 .. P - 1
  PROVE  (x + 1) % P = IF x + 1 = P THEN 0 ELSE x + 1
  <1>1. x + 1 = P * ((x + 1) \div P) + ((x + 1) % P) /\ (x + 1) % P \in 0 .. P - 1 /\ (x + 1) \div P \in Nat
    <2>1. x + 1 \in Nat
      OBVIOUS
    <2> QED BY <2>1, DivMod
  <1>2. CASE x + 1 = P
    <2>1. P * 1 + 0 = P * ((x + 1) \div P) + ((x + 1) % P)
      BY <1>1, <1>2
    <2> QED BY <1>1, <1>2, <2>1, UniqueMod
  <1>3. CASE x + 1 # P
    <2>1. P * 0 + (x + 1) = P * ((x + 1) \div P) + ((x + 1) % P) /\ x + 1 \in 0 .. P - 1
      BY <1>1, <1>3
    <2> QED BY <1>1, <1>3, <2>1, UniqueMod
  <1> QED BY <1>2, <1>3

-----------------------------------------------------------------------------
(* traceroute *)

(* The port of the probes of a hop. *)
PortOf(h) == IF opt_port + h - 1 < PortMod THEN opt_port + h - 1 ELSE opt_port + h - 1 - PortMod

Icmp == [from : {"dest", "router", "stranger"},
         type : {"TIME_EXCEEDED", "PORT_UNREACH", "ECHOREPLY", "other", "theirs"}, port : Nat, hop : Nat, n : Nat]

(* What a packet that answers a probe says is true of the route, and its port *)
(* is that of its hop.                                                        *)
AnswersTrue ==
  \A m \in icmp :
    m.from # "stranger" =>
      /\ m.hop \in 1 .. trace.hop /\ m.hop <= opt_max_hops
      /\ route.type = "udp" => m.port = PortOf(m.hop)
      /\ (m.type = "PORT_UNREACH" \/ m.from = "dest") => route.far # 0 /\ m.hop >= route.far

RouteState ==
  /\ route \in [type : Methods, far : Nat]
  /\ trace \in [hop : Nat, ttl : Nat, port : Nat, tries : Nat, readonly : BOOLEAN]
  /\ hist \in [sent : Nat, shown : SUBSET [at : Nat, of : Icmp], strays : Nat]
  /\ icmp \subseteq Icmp
  /\ \A m \in icmp : m.from = "stranger" => m.type \in {"other", "theirs"}
  /\ at # "exit" => trace.hop <= opt_max_hops
  /\ at = "select" => trace.tries < opt_max_tries
  /\ trace.readonly => trace.tries < opt_max_tries
  /\ route.type = "udp" => trace.port = PortOf(trace.hop)

(* The inductive invariant. *)
RouteInv == RouteState /\ AnswersTrue /\ TraceTypeOK /\ Attribution /\ StopsThere

(* The ports of two hops differ, and the next hop has the next port. *)
LEMMA PortsDiffer ==
  /\ \A h \in 1 .. opt_max_hops + 1 : PortOf(h) \in 0 .. PortMod - 1
  /\ \A g, h \in 1 .. opt_max_hops : PortOf(g) = PortOf(h) => g = h
  /\ \A h \in 1 .. opt_max_hops : (PortOf(h) + 1) % PortMod = PortOf(h + 1)
  <1>1. PortMod \in Nat \ {0} /\ opt_max_hops \in Nat \ {0} /\ opt_max_hops <= PortMod /\ opt_port \in 0 .. PortMod - 1
    BY TraceAssumption
  <1>2. \A h \in 1 .. opt_max_hops + 1 : PortOf(h) \in 0 .. PortMod - 1
    BY <1>1 DEF PortOf
  <1>3. \A g, h \in 1 .. opt_max_hops : PortOf(g) = PortOf(h) => g = h
    BY <1>1 DEF PortOf
  <1>4. ASSUME NEW h \in 1 .. opt_max_hops PROVE (PortOf(h) + 1) % PortMod = PortOf(h + 1)
    <2>1. (PortOf(h) + 1) % PortMod = IF PortOf(h) + 1 = PortMod THEN 0 ELSE PortOf(h) + 1
      <3>1. PortOf(h) \in 0 .. PortMod - 1
        BY <1>1, <1>2
      <3> QED BY <1>1, <3>1, SuccMod
    <2> QED BY <1>1, <2>1 DEF PortOf
  <1> QED BY <1>2, <1>3, <1>4

LEMMA RouteInitInv == TraceInit => RouteInv
  <1> SUFFICES ASSUME TraceInit PROVE RouteInv
    OBVIOUS
  <1>1. /\ opt_port \in Nat /\ opt_port < PortMod /\ PortMod \in Nat /\ opt_max_hops \in 1 .. 255
        /\ opt_max_tries \in Nat \ {0}
    BY TraceAssumption
  <1>2. trace = [hop |-> 1, ttl |-> 1, port |-> opt_port, tries |-> 0, readonly |-> FALSE]
    BY DEF TraceInit, trace_init, TRACE_TTL
  <1>3. route \in [type : Methods, far : Nat]
    BY TraceAssumption DEF TraceInit
  <1>4. PortOf(1) = opt_port
    BY <1>1 DEF PortOf
  <1>5. RouteState
    BY <1>1, <1>2, <1>3, <1>4 DEF RouteState, TraceInit
  <1>6. TraceTypeOK
    <2>1. 1 % 256 = 1
      OBVIOUS
    <2>2. /\ trace.hop = 1 /\ trace.tries = 0 /\ trace.ttl = 1 /\ trace.port = opt_port /\ trace.readonly = FALSE
          /\ hist.sent = 0
      BY <1>2 DEF TraceInit
    <2>3. at = "try" /\ tstop \in BOOLEAN
      BY DEF TraceInit
    <2> QED BY <1>1, <2>1, <2>2, <2>3 DEF TraceTypeOK
  <1>7. AnswersTrue /\ Attribution /\ StopsThere
    BY DEF AnswersTrue, Attribution, StopsThere, TraceInit
  <1> QED BY <1>5, <1>6, <1>7 DEF RouteInv

(* A probe is sent, or the wait begins again. *)
LEMMA TryStep ==
  ASSUME RouteInv, Try
  PROVE  RouteInv'
  <1> USE DEF RouteInv
  <1>1. at = "try" /\ trace.tries < opt_max_tries /\ at' = "select" /\ UNCHANGED <<route, trace, tstop>>
    BY DEF Try
  <1>2. CASE trace.readonly
    <2>1. UNCHANGED <<icmp, hist>>
      BY <1>2 DEF Try
    <2> QED BY <1>1, <1>2, <2>1 DEF RouteState, AnswersTrue, TraceTypeOK, Attribution, StopsThere
  <1>3. CASE ~trace.readonly
    <2>1. hist' = [hist EXCEPT !.sent = @ + 1] /\ icmp' \subseteq icmp \cup {Answer}
      BY <1>3 DEF Try, trace_write
    <2>2. trace.hop \in 1 .. opt_max_hops /\ trace.ttl = trace.hop
      BY <1>1, TraceAssumption DEF RouteState, TraceTypeOK
    <2>3. route.far \in Nat /\ hist.sent \in Nat /\ trace.port \in Nat /\ trace.hop \in Nat
      BY DEF RouteState
    <2>4. /\ Answer \in Icmp /\ Answer.from # "stranger" /\ Answer.hop = trace.hop /\ Answer.port = trace.port
          /\ (Answer.type = "PORT_UNREACH" \/ Answer.from = "dest") => route.far # 0 /\ trace.hop >= route.far
      BY <2>2, <2>3 DEF Answer, Icmp
    <2>5. /\ hist' \in [sent : Nat, shown : SUBSET [at : Nat, of : Icmp], strays : Nat]
          /\ hist'.sent = hist.sent + 1 /\ hist'.shown = hist.shown
      BY <2>1 DEF RouteState
    <2>6. AnswersTrue'
      <3> SUFFICES ASSUME NEW m \in icmp', m.from # "stranger"
                   PROVE  /\ m.hop \in 1 .. trace.hop /\ m.hop <= opt_max_hops
                          /\ route.type = "udp" => m.port = PortOf(m.hop)
                          /\ (m.type = "PORT_UNREACH" \/ m.from = "dest") => route.far # 0 /\ m.hop >= route.far
        BY <1>1 DEF AnswersTrue
      <3>1. CASE m = Answer
        <4> HIDE DEF RouteInv
        <4>1. RouteState
          BY DEF RouteInv
        <4> QED BY <2>2, <2>4, <3>1, <4>1, TraceAssumption DEF RouteState
      <3>2. CASE m \in icmp
        BY <3>2 DEF AnswersTrue
      <3> QED BY <2>1, <3>1, <3>2
    <2>7. RouteState'
      BY <1>1, <2>1, <2>4, <2>5 DEF RouteState
    <2>8. TraceTypeOK'
      BY <1>1, <1>3, <2>3, <2>5 DEF TraceTypeOK
    <2>9. Attribution' /\ StopsThere'
      BY <1>1, <2>5 DEF Attribution, StopsThere
    <2> QED BY <2>6, <2>7, <2>8, <2>9
  <1> QED BY <1>2, <1>3

(* The next try. *)
LEMMA NextTryState ==
  ASSUME RouteInv, at = "select"
  PROVE  LET t == NextTry(trace) IN
         /\ t \in [hop : Nat, ttl : Nat, port : Nat, tries : Nat, readonly : BOOLEAN]
         /\ t.hop = trace.hop /\ t.ttl = trace.ttl /\ t.port = trace.port
         /\ t.tries = trace.tries + 1 /\ t.tries <= opt_max_tries /\ ~t.readonly
  <1>1. trace \in [hop : Nat, ttl : Nat, port : Nat, tries : Nat, readonly : BOOLEAN] /\ trace.tries < opt_max_tries
    BY DEF RouteInv, RouteState
  <1> DEFINE t == NextTry(trace)
  <1>2. trace.tries + 1 \in Nat /\ trace.tries + 1 <= opt_max_tries
    BY <1>1, TraceAssumption
  <1>3. t = [trace EXCEPT !.tries = @ + 1, !.readonly = FALSE]
    BY DEF NextTry
  <1>4. /\ t \in [hop : Nat, ttl : Nat, port : Nat, tries : Nat, readonly : BOOLEAN]
        /\ t.hop = trace.hop /\ t.ttl = trace.ttl /\ t.port = trace.port
        /\ t.tries = trace.tries + 1 /\ t.readonly = FALSE
    BY <1>1, <1>2, <1>3
  <1> QED BY <1>2, <1>4

LEMMA ExpiresStep ==
  ASSUME RouteInv, Expires
  PROVE  RouteInv'
  <1> USE DEF RouteInv
  <1>1. at = "select" /\ at' = "try" /\ trace' = NextTry(trace) /\ UNCHANGED <<route, tstop, icmp, hist>>
    BY DEF Expires
  <1>2. /\ trace' \in [hop : Nat, ttl : Nat, port : Nat, tries : Nat, readonly : BOOLEAN]
        /\ trace'.hop = trace.hop /\ trace'.ttl = trace.ttl /\ trace'.port = trace.port
        /\ trace'.tries = trace.tries + 1 /\ trace'.tries <= opt_max_tries /\ ~trace'.readonly
    BY <1>1, NextTryState
  <1>3. RouteState'
    BY <1>1, <1>2 DEF RouteState
  <1>4. TraceTypeOK'
    BY <1>1, <1>2, TraceAssumption DEF TraceTypeOK
  <1>5. AnswersTrue' /\ Attribution' /\ StopsThere'
    BY <1>1, <1>2 DEF AnswersTrue, Attribution, StopsThere
  <1> QED BY <1>3, <1>4, <1>5

(* A packet is read: with UDP its port is that of one hop only. *)
LEMMA ReadPacketStep ==
  ASSUME RouteInv, Read
  PROVE  RouteInv'
  <1> USE DEF RouteInv
  <1>1. PICK m \in icmp :
          /\ icmp' = icmp \ {m} /\ trace' = AfterRead(m)
          /\ tstop' = (tstop \/ (trace_read(m) /\ Stops(m)))
          /\ hist' = IF trace_read(m) THEN [hist EXCEPT !.shown = @ \cup {[at |-> trace.hop, of |-> m]}] ELSE hist
    BY DEF Read
  <1>2. at = "select" /\ at' = "try" /\ UNCHANGED route
    BY DEF Read
  <1>3. m \in Icmp /\ trace.hop \in 1 .. opt_max_hops /\ trace.tries < opt_max_tries /\ trace.tries \in Nat
        /\ hist.sent = trace.tries + 1
    BY <1>1, <1>2 DEF RouteState, TraceTypeOK
  <1>4. CASE trace_read(m)
    <2>1. /\ trace' \in [hop : Nat, ttl : Nat, port : Nat, tries : Nat, readonly : BOOLEAN]
          /\ trace'.hop = trace.hop /\ trace'.ttl = trace.ttl /\ trace'.port = trace.port
          /\ trace'.tries = trace.tries + 1 /\ trace'.tries <= opt_max_tries /\ ~trace'.readonly
      BY <1>1, <1>2, <1>4, NextTryState DEF AfterRead
    <2> DEFINE new == [at |-> trace.hop, of |-> m]
    <2>2. hist' \in [sent : Nat, shown : SUBSET [at : Nat, of : Icmp], strays : Nat] /\ hist'.sent = hist.sent
          /\ hist'.shown = hist.shown \cup {new}
      <3>1. new \in [at : Nat, of : Icmp]
        BY <1>3
      <3> HIDE DEF new
      <3> QED BY <1>1, <1>4, <3>1 DEF RouteState, new
    <2>3. route.type = "udp" => m.hop = trace.hop
      <3> SUFFICES ASSUME route.type = "udp" PROVE m.hop = trace.hop
        OBVIOUS
      <3>1. m.type \in {"TIME_EXCEEDED", "PORT_UNREACH"} /\ m.port = trace.port
        BY <1>4 DEF trace_read
      <3>2. m.from # "stranger"
        BY <1>1, <3>1 DEF RouteState
      <3>3. m.hop \in 1 .. opt_max_hops /\ m.port = PortOf(m.hop)
        BY <1>1, <1>3, <3>2 DEF AnswersTrue, Icmp
      <3>4. trace.port = PortOf(trace.hop)
        BY DEF RouteState
      <3> QED BY <1>3, <3>1, <3>3, <3>4, PortsDiffer
    <2>4. Stops(m) => route.far # 0 /\ trace.hop >= route.far
      <3> SUFFICES ASSUME Stops(m) PROVE route.far # 0 /\ trace.hop >= route.far
        OBVIOUS
      <3>1. m.type = "PORT_UNREACH" \/ m.from = "dest"
        BY DEF Stops
      <3>2. m.from # "stranger"
        BY <1>1, <3>1 DEF RouteState
      <3>3. route.far # 0 /\ m.hop >= route.far /\ m.hop \in 1 .. trace.hop /\ route.far \in Nat
        BY <1>1, <3>1, <3>2 DEF AnswersTrue, RouteState
      <3> QED BY <1>3, <3>3
    <2>5. RouteState'
      BY <1>1, <1>2, <2>1, <2>2 DEF RouteState
    <2>6. AnswersTrue'
      BY <1>1, <1>2, <2>1 DEF AnswersTrue
    <2>7. tstop' \in BOOLEAN
      BY <1>1
    <2>8. TraceTypeOK'
      BY <1>2, <1>3, <2>1, <2>2, <2>7, TraceAssumption DEF TraceTypeOK
    <2>9. Attribution'
      BY <1>2, <2>2, <2>3 DEF Attribution
    <2>10. StopsThere'
      BY <1>1, <1>2, <2>1, <2>4 DEF StopsThere
    <2> QED BY <2>5, <2>6, <2>8, <2>9, <2>10
  <1>5. CASE ~trace_read(m)
    <2>1. trace' = [trace EXCEPT !.readonly = TRUE] /\ hist' = hist
      BY <1>1, <1>5 DEF AfterRead
    <2>2. tstop' <=> tstop
      BY <1>1, <1>5
    <2>3. tstop' \in BOOLEAN
      BY <1>1
    <2>4. /\ trace' \in [hop : Nat, ttl : Nat, port : Nat, tries : Nat, readonly : BOOLEAN]
          /\ trace'.hop = trace.hop /\ trace'.ttl = trace.ttl /\ trace'.port = trace.port
          /\ trace'.tries = trace.tries /\ trace'.readonly
      BY <2>1 DEF RouteState
    <2>5. RouteState'
      BY <1>1, <1>2, <1>3, <2>1, <2>4 DEF RouteState
    <2>6. TraceTypeOK'
      BY <1>2, <1>3, <2>1, <2>3, <2>4 DEF TraceTypeOK
    <2>7. AnswersTrue' /\ Attribution'
      BY <1>1, <1>2, <2>1, <2>4 DEF AnswersTrue, Attribution
    <2>8. StopsThere'
      BY <1>2, <2>2, <2>4 DEF StopsThere
    <2> QED BY <2>5, <2>6, <2>7, <2>8
  <1> QED BY <1>4, <1>5

(* The next hop, or the end. *)
LEMMA NextHopStep ==
  ASSUME RouteInv, NextHop
  PROVE  RouteInv'
  <1> USE DEF RouteInv
  <1>1. /\ at = "try" /\ trace.tries = opt_max_tries
        /\ trace' = [trace_inc_port(trace_inc_ttl(trace)) EXCEPT !.hop = @ + 1, !.tries = 0]
        /\ at' = IF tstop \/ trace.hop = opt_max_hops THEN "exit" ELSE "try"
        /\ hist' = [hist EXCEPT !.sent = 0] /\ UNCHANGED <<route, tstop, icmp>>
    BY DEF NextHop
  <1>2. trace.hop \in 1 .. opt_max_hops /\ ~trace.readonly
    BY <1>1 DEF RouteState, TraceTypeOK
  <1>3. trace \in [hop : Nat, ttl : Nat, port : Nat, tries : Nat, readonly : BOOLEAN]
    BY DEF RouteState
  <1>4. (trace.ttl + 1) % 256 \in Nat /\ (trace.port + 1) % PortMod \in 0 .. PortMod - 1
    BY <1>3, TraceAssumption
  <1>5. /\ trace' \in [hop : Nat, ttl : Nat, port : Nat, tries : Nat, readonly : BOOLEAN]
        /\ trace'.hop = trace.hop + 1 /\ trace'.ttl = (trace.ttl + 1) % 256 /\ trace'.tries = 0
        /\ trace'.readonly = trace.readonly
        /\ trace'.port = IF route.type = "udp" THEN (trace.port + 1) % PortMod ELSE trace.port
    <2> DEFINE Trace == [hop : Nat, ttl : Nat, port : Nat, tries : Nat, readonly : BOOLEAN]
               t == trace_inc_ttl(trace)
               u == trace_inc_port(t)
    <2>1. /\ t \in Trace /\ t.hop = trace.hop /\ t.ttl = (trace.ttl + 1) % 256 /\ t.port = trace.port
          /\ t.readonly = trace.readonly
      BY <1>3, <1>4 DEF trace_inc_ttl
    <2> HIDE DEF t
    <2>2. /\ u \in Trace /\ u.hop = trace.hop /\ u.ttl = (trace.ttl + 1) % 256 /\ u.readonly = trace.readonly
          /\ u.port = IF route.type = "udp" THEN (trace.port + 1) % PortMod ELSE trace.port
      BY <1>4, <2>1 DEF trace_inc_port
    <2>3. trace' = [u EXCEPT !.hop = @ + 1, !.tries = 0]
      BY <1>1 DEF t
    <2> HIDE DEF u
    <2>4. trace' \in Trace /\ trace'.hop = u.hop + 1 /\ trace'.ttl = u.ttl /\ trace'.tries = 0 /\ trace'.port = u.port
      <3>1. u \in Trace /\ u.hop + 1 \in Nat
        BY <1>3, <2>2
      <3>2. trace' \in Trace
        BY <2>3, <3>1
      <3>3. trace'.hop = u.hop + 1
        BY <2>3, <3>1
      <3>4. trace'.ttl = u.ttl /\ trace'.tries = 0 /\ trace'.port = u.port
        BY <2>3, <3>1
      <3> QED BY <3>2, <3>3, <3>4
    <2>5. trace'.readonly = u.readonly
      BY <2>2, <2>3
    <2> QED BY <2>2, <2>4, <2>5, ZenonT(30)
  <1>6. trace'.ttl = trace'.hop % 256
    BY <1>2, <1>5, TraceAssumption DEF TraceTypeOK
  <1>7. hist' \in [sent : Nat, shown : SUBSET [at : Nat, of : Icmp], strays : Nat] /\ hist'.sent = 0
        /\ hist'.shown = hist.shown
    BY <1>1 DEF RouteState
  <1>8. route.type = "udp" => trace'.port = PortOf(trace'.hop)
    BY <1>2, <1>5, PortsDiffer DEF RouteState
  <1>9. at' # "exit" => trace'.hop <= opt_max_hops
    <2>1. at' # "exit" => trace.hop # opt_max_hops
      BY <1>1
    <2> QED BY <1>2, <1>5, <2>1, TraceAssumption
  <1>10. RouteState'
    BY <1>1, <1>5, <1>7, <1>8, <1>9 DEF RouteState
  <1>11. TraceTypeOK'
    <2>1. trace'.port \in 0 .. PortMod - 1
      BY <1>4, <1>5 DEF TraceTypeOK
    <2> QED BY <1>1, <1>2, <1>5, <1>6, <1>7, <2>1, TraceAssumption DEF TraceTypeOK
  <1>12. AnswersTrue'
    BY <1>1, <1>2, <1>5 DEF AnswersTrue
  <1>13. Attribution' /\ StopsThere'
    BY <1>1, <1>2, <1>5, <1>7 DEF Attribution, StopsThere, RouteState
  <1> QED BY <1>10, <1>11, <1>12, <1>13

(* A packet for another program. *)
LEMMA StrayStep ==
  ASSUME RouteInv, Stray
  PROVE  RouteInv'
  <1> USE DEF RouteInv
  <1>1. PICK type \in {"other", "theirs"} :
          icmp' = icmp \cup {[from |-> "stranger", type |-> type, port |-> PortMod, hop |-> 0, n |-> hist.strays]}
    BY DEF Stray
  <1>2. hist' = [hist EXCEPT !.strays = @ + 1] /\ UNCHANGED <<route, trace, at, tstop>>
    BY DEF Stray
  <1> DEFINE x == [from |-> "stranger", type |-> type, port |-> PortMod, hop |-> 0, n |-> hist.strays]
  <1>3. x \in Icmp /\ x.from = "stranger" /\ x.type \in {"other", "theirs"} /\ icmp' = icmp \cup {x}
    BY <1>1, TraceAssumption DEF Icmp, RouteState
  <1>4. hist' \in [sent : Nat, shown : SUBSET [at : Nat, of : Icmp], strays : Nat] /\ hist'.sent = hist.sent
        /\ hist'.shown = hist.shown
    BY <1>2 DEF RouteState
  <1> HIDE DEF x
  <1>5. RouteState'
    BY <1>2, <1>3, <1>4 DEF RouteState
  <1>6. AnswersTrue'
    BY <1>2, <1>3 DEF AnswersTrue
  <1>7. TraceTypeOK' /\ Attribution' /\ StopsThere'
    BY <1>2, <1>4 DEF TraceTypeOK, Attribution, StopsThere
  <1> QED BY <1>5, <1>6, <1>7

(* traceroute never sends two probes in a try, shows with UDP every answer at *)
(* the hop whose probe it answers, however late, and stops at the             *)
(* destination, for every number of hops up to the number of ports.           *)
THEOREM RouteIsTrue == TraceSpec => []RouteTrue
  <1>1. RouteInv /\ [TraceNext]_tracevars => RouteInv'
    <2> SUFFICES ASSUME RouteInv, [TraceNext]_tracevars PROVE RouteInv'
      OBVIOUS
    <2>1. CASE UNCHANGED tracevars
      BY <2>1 DEF tracevars, RouteInv, RouteState, AnswersTrue, TraceTypeOK, Attribution, StopsThere
    <2> QED BY <2>1, TryStep, ExpiresStep, ReadPacketStep, NextHopStep, StrayStep DEF TraceNext, Traces
  <1>2. RouteInv => RouteTrue
    BY DEF RouteInv, RouteTrue
  <1> QED BY <1>1, <1>2, RouteInitInv, PTL DEF TraceSpec

-----------------------------------------------------------------------------
(* ping *)

(* Numbers that are less than P apart have different remainders. *)
LEMMA WindowMod ==
  ASSUME NEW P \in Nat \ {0}, NEW x \in Nat, NEW y \in Nat, x < y, y < x + P
  PROVE  x % P # y % P
  <1> SUFFICES ASSUME x % P = y % P PROVE FALSE
    OBVIOUS
  <1>1. PICK a \in Nat, b \in Nat : x = P * a + (x % P) /\ y = P * b + (y % P)
    BY DivMod
  <1>2. P * (b - a) = y - x
    BY <1>1
  <1>3. CASE b - a >= 1
    <2>1. P * (b - a) >= P
      BY <1>3
    <2> QED BY <1>2, <2>1
  <1>4. CASE b - a <= 0
    <2>1. P * (b - a) <= 0
      BY <1>4
    <2> QED BY <1>2, <2>1
  <1> QED BY <1>3, <1>4

(* The bit of a number does not depend on how often sequence numbers have wrapped. *)
LEMMA NestedMod ==
  ASSUME NEW P \in Nat \ {0}, NEW S \in Nat \ {0}, S % P = 0, NEW x \in Nat
  PROVE  (x % S) % P = x % P
  <1>1. PICK k \in Nat : S = P * k
    <2>1. S = P * (S \div P) + (S % P) /\ S \div P \in Nat
      BY DivMod
    <2> QED BY <2>1
  <1>2. PICK a \in Nat : x = S * a + (x % S) /\ x % S \in Nat
    <2>1. x = S * (x \div S) + (x % S) /\ x % S \in 0 .. S - 1 /\ x \div S \in Nat
      BY DivMod
    <2>2. x % S \in Nat
      BY <2>1
    <2> QED BY <2>1, <2>2, Zenon
  <1>3. PICK b \in Nat : x % S = P * b + ((x % S) % P) /\ (x % S) % P \in 0 .. P - 1
    BY <1>2, DivMod
  <1>4. PICK c \in Nat : x = P * c + (x % P) /\ x % P \in 0 .. P - 1
    BY DivMod
  <1>5. x = P * (k * a + b) + ((x % S) % P)
    BY <1>1, <1>2, <1>3
  <1> DEFINE q == k * a + b
             r == (x % S) % P
             t == x % P
  <1>6. q \in Int /\ r \in 0 .. P - 1 /\ t \in 0 .. P - 1 /\ P * q + r = P * c + t
    BY <1>3, <1>4, <1>5
  <1> HIDE DEF q, r, t
  <1>7. r = t
    BY <1>6, UniqueMod
  <1> QED BY <1>7 DEF r, t

LEMMA Numbers ==
  ASSUME NEW n \in Nat
  PROVE  IsFiniteSet(0 .. n - 1) /\ Cardinality(0 .. n - 1) = n
  <1> DEFINE b == n - 1
  <1>1. b \in Int /\ 0 \in Int
    OBVIOUS
  <1> HIDE DEF b
  <1>2. /\ IsFiniteSet(0 .. b)
        /\ Cardinality(0 .. b) = (IF 0 > b THEN 0 ELSE b - 0 + 1)
    BY <1>1, FS_Interval
  <1>3. (IF 0 > b THEN 0 ELSE b - 0 + 1) = n
    BY DEF b
  <1> QED BY <1>2, <1>3 DEF b

PingData ==
  [host : Nat, status : {0, 1}, num_xmit : Nat, num_recv : Nat, num_rept : Nat,
   cktab : SUBSET (0 .. TabSize - 1), nresp : Nat, finishing : BOOLEAN, preloaded : Nat]

Echo == [kind : {"reply", "error", "other"}, host : Nat, n : Nat, copy : Nat]

(* Replies are to what was sent. *)
EchoesTrue ==
  \A m \in echoes : m.kind = "reply" =>
    m.host \in 1 .. ping.host /\ (m.host = ping.host => m.n < ping.num_xmit)

(* The table tells, of the last TabSize - 1 numbers, those that were answered. *)
TableTrue ==
  /\ past.got \subseteq 0 .. ping.num_xmit - 1
  /\ ~past.late =>
       /\ ping.num_recv = Cardinality(past.got)
       /\ \A k \in 0 .. ping.num_xmit - 1 :
            k + TabSize > ping.num_xmit => (k \in past.got <=> k % TabSize \in ping.cktab)

(* The status so far is that of the hosts that were given up or have answered. *)
HostsTrue ==
  ~past.late =>
    /\ past.answered \subseteq 1 .. ping.host
    /\ ping.host \in past.answered <=> past.got # {}
    /\ pc # "exit" => (ping.status = 0 <=> 1 .. ping.host - 1 \subseteq past.answered)
    /\ pc = "exit" => (ping.status = 0 <=> 1 .. ping.host \subseteq past.answered)

PingState ==
  /\ opts \in [count : Nat, preload : Nat, hosts : Nat \ {0}]
  /\ ping \in PingData /\ echoes \subseteq Echo
  /\ past \in [got : SUBSET Nat, answered : SUBSET Nat, late : BOOLEAN, odd : Nat]
  /\ pc = "preload" => ping.preloaded <= opts.preload /\ ping.num_xmit <= ping.preloaded
  /\ pc = "exit" => ping.host = opts.hosts

(* The inductive invariant. *)
PingInv == PingState /\ PingTypeOK /\ EchoesTrue /\ TableTrue /\ HostsTrue

LEMMA PingInitInv == PingInit => PingInv
  <1> SUFFICES ASSUME PingInit PROVE PingInv
    OBVIOUS
  <1>1. opts \in [count : Nat, preload : Nat, hosts : Nat \ {0}] /\ TabSize \in Nat \ {0}
    BY PingAssumption DEF PingInit
  <1>2. /\ ping = [host |-> 1, status |-> 0, num_xmit |-> 0, num_recv |-> 0, num_rept |-> 0,
                   cktab |-> {}, nresp |-> 0, finishing |-> FALSE, preloaded |-> 0]
        /\ pc = "preload" /\ echoes = {} /\ past = [got |-> {}, answered |-> {}, late |-> FALSE, odd |-> 0]
    BY DEF PingInit, Reset
  <1>3. PingState
    BY <1>1, <1>2 DEF PingState, PingData
  <1>4. PingTypeOK
    BY <1>1, <1>2 DEF PingTypeOK
  <1>5. EchoesTrue
    BY <1>2 DEF EchoesTrue
  <1>6. TableTrue
    BY <1>2, FS_EmptySet DEF TableTrue
  <1>7. HostsTrue
    BY <1>2 DEF HostsTrue
  <1> QED BY <1>3, <1>4, <1>5, <1>6, <1>7 DEF PingInv

(* An echo is sent, or sendto fails: only the bit of the number that is used *)
(* next is cleared.                                                          *)
LEMMA SendKept ==
  ASSUME PingState, EchoesTrue, TableTrue, ping.host \in Nat \ {0}, NEW pl \in Nat, send_echo(pl)
  PROVE  /\ ping' \in PingData /\ ping'.host = ping.host /\ ping'.status = ping.status /\ ping'.num_recv = ping.num_recv
         /\ ping'.preloaded = pl /\ ping'.num_xmit \in {ping.num_xmit, ping.num_xmit + 1}
         /\ echoes' \subseteq Echo
         /\ past' \in [got : SUBSET Nat, answered : SUBSET Nat, late : BOOLEAN, odd : Nat]
         /\ past'.got = past.got /\ past'.answered = past.answered /\ past'.late = past.late
         /\ EchoesTrue' /\ TableTrue'
  <1>1. PICK sent \in BOOLEAN :
          /\ ping' = [ping_xmit(ping, sent) EXCEPT !.preloaded = pl]
          /\ \E a \in IF sent THEN Usual \cup OddOnes ELSE {{}} :
               /\ echoes' = echoes \cup a
               /\ IF sent /\ a \in Usual THEN past' = past
                  ELSE past.odd < MaxOdd /\ past' = [past EXCEPT !.odd = @ + 1]
    BY DEF send_echo
  <1>2. PICK a \in IF sent THEN Usual \cup OddOnes ELSE {{}} :
          /\ echoes' = echoes \cup a
          /\ past' = past \/ past' = [past EXCEPT !.odd = @ + 1]
    BY <1>1
  <1> DEFINE x == ping.num_xmit
             bit == x % TabSize
  <1>3. ping \in PingData /\ x \in Nat /\ ping.host \in Nat /\ TabSize \in Nat \ {0}
    BY PingAssumption DEF PingState, PingData
  <1>4. bit \in 0 .. TabSize - 1
    BY <1>3, DivMod
  <1>5. /\ ping' \in PingData /\ ping'.host = ping.host /\ ping'.status = ping.status /\ ping'.num_recv = ping.num_recv
        /\ ping'.preloaded = pl /\ ping'.num_xmit = (IF sent THEN x + 1 ELSE x)
        /\ ping'.cktab = ping.cktab \ {bit}
    <2> DEFINE q == [ping EXCEPT !.cktab = @ \ {bit}]
               r == IF sent THEN [q EXCEPT !.num_xmit = @ + 1] ELSE q
    <2>1. /\ q \in PingData /\ q.host = ping.host /\ q.status = ping.status /\ q.num_recv = ping.num_recv
          /\ q.num_xmit = x /\ q.cktab = ping.cktab \ {bit}
      <3> HIDE DEF bit
      <3> QED BY <1>3 DEF PingData
    <2> HIDE DEF q
    <2>2. /\ r \in PingData /\ r.host = ping.host /\ r.status = ping.status /\ r.num_recv = ping.num_recv
          /\ r.num_xmit = (IF sent THEN x + 1 ELSE x) /\ r.cktab = ping.cktab \ {bit}
      <3>1. CASE sent
        <4>1. r = [q EXCEPT !.num_xmit = @ + 1] /\ q.num_xmit + 1 \in Nat
          BY <1>3, <2>1, <3>1
        <4> HIDE DEF r
        <4> QED BY <2>1, <3>1, <4>1 DEF PingData
      <3>2. CASE ~sent
        BY <2>1, <3>2
      <3> QED BY <3>1, <3>2
    <2>3. ping' = [r EXCEPT !.preloaded = pl]
      BY <1>1 DEF ping_xmit, q
    <2> HIDE DEF r
    <2> QED BY <2>2, <2>3 DEF PingData
  <1>6. \A m \in a : m \in Echo /\ m.host = ping.host /\ m.n = x /\ sent
    <2>1. \A kind \in {"reply", "error", "other"}, c \in {1, 2} :
            Packet(kind, c) \in Echo /\ Packet(kind, c).host = ping.host /\ Packet(kind, c).n = x
      BY <1>3 DEF Packet, Echo
    <2>2. CASE sent
      <3>1. \A m \in a : \E kind \in {"reply", "error", "other"}, c \in {1, 2} : m = Packet(kind, c)
        BY <1>2, <2>2 DEF Usual, OddOnes
      <3> QED BY <2>1, <2>2, <3>1
    <2>3. CASE ~sent
      BY <1>2, <2>3
    <2> QED BY <2>2, <2>3
  <1>7. echoes' \subseteq Echo
    BY <1>2, <1>6 DEF PingState
  <1>8. /\ past' \in [got : SUBSET Nat, answered : SUBSET Nat, late : BOOLEAN, odd : Nat]
        /\ past'.got = past.got /\ past'.answered = past.answered /\ past'.late = past.late
    BY <1>2 DEF PingState
  <1>9. EchoesTrue'
    <2> SUFFICES ASSUME NEW m \in echoes', m.kind = "reply"
                 PROVE  m.host \in 1 .. ping.host /\ (m.host = ping.host => m.n < ping'.num_xmit)
      BY <1>5 DEF EchoesTrue
    <2>1. CASE m \in a
      <3>1. m.host = ping.host /\ m.n = x /\ ping'.num_xmit = x + 1
        BY <1>5, <1>6, <2>1
      <3> QED BY <1>3, <3>1
    <2>2. CASE m \in echoes
      <3>1. m.host \in 1 .. ping.host /\ (m.host = ping.host => m.n < x) /\ m.n \in Nat
        BY <2>2 DEF EchoesTrue, PingState, Echo
      <3> QED BY <1>3, <1>5, <3>1
    <2> QED BY <1>2, <2>1, <2>2
  <1>10. TableTrue'
    <2>1. past.got \subseteq 0 .. x - 1
      BY DEF TableTrue
    <2>2. past.got \subseteq 0 .. ping'.num_xmit - 1
      BY <1>3, <1>5, <2>1
    <2>3. ASSUME ~past.late, NEW k \in 0 .. ping'.num_xmit - 1, k + TabSize > ping'.num_xmit
          PROVE  k \in past.got <=> k % TabSize \in ping'.cktab
      <3>1. CASE k < x
        <4>1. k \in 0 .. x - 1 /\ k \in Nat /\ k + TabSize > x /\ x < k + TabSize
          BY <1>3, <1>5, <2>3, <3>1
        <4>2. k % TabSize # bit
          BY <1>3, <3>1, <4>1, WindowMod
        <4>3. k \in past.got <=> k % TabSize \in ping.cktab
          BY <2>3, <4>1 DEF TableTrue
        <4> QED BY <1>5, <4>2, <4>3
      <3>2. CASE k >= x
        <4>1. k = x
          BY <1>3, <1>5, <2>3, <3>2
        <4>2. k \notin past.got
          BY <1>3, <2>1, <4>1
        <4>3. k % TabSize \notin ping'.cktab
          BY <1>5, <4>1
        <4> QED BY <4>2, <4>3
      <3> QED BY <1>3, <1>5, <2>3, <3>1, <3>2
    <2>4. ~past.late => ping'.num_recv = Cardinality(past.got)
      BY <1>5 DEF TableTrue
    <2> QED BY <1>8, <2>2, <2>3, <2>4 DEF TableTrue
  <1> QED BY <1>5, <1>7, <1>8, <1>9, <1>10

(* The steps that send. *)
LEMMA SendStep ==
  ASSUME PingInv, Preload \/ TimesOut
  PROVE  PingInv'
  <1> USE DEF PingInv
  <1>1. /\ opts \in [count : Nat, preload : Nat, hosts : Nat \ {0}] /\ ping \in PingData
        /\ ping.host \in Nat \ {0} /\ ping.num_xmit \in Nat /\ ping.preloaded \in Nat
    BY DEF PingState, PingData, PingTypeOK
  <1>2. CASE \E pl \in {ping.preloaded, ping.preloaded + 1} :
               /\ send_echo(pl) /\ UNCHANGED <<opts, pstop>>
               /\ \/ pc = "preload" /\ pl = ping.preloaded + 1
                     /\ pc' = IF ping.preloaded = opts.preload THEN "loop" ELSE "preload"
                  \/ pc = "select" /\ pl = ping.preloaded /\ EchoesLeft /\ pc' = "loop"
    <2>1. PICK pl \in {ping.preloaded, ping.preloaded + 1} :
               /\ send_echo(pl) /\ UNCHANGED <<opts, pstop>>
               /\ \/ pc = "preload" /\ pl = ping.preloaded + 1
                     /\ pc' = IF ping.preloaded = opts.preload THEN "loop" ELSE "preload"
                  \/ pc = "select" /\ pl = ping.preloaded /\ EchoesLeft /\ pc' = "loop"
      BY <1>2
    <2>2. pl \in Nat
      BY <1>1
    <2>3. /\ ping' \in PingData /\ ping'.host = ping.host /\ ping'.status = ping.status /\ ping'.num_recv = ping.num_recv
          /\ ping'.preloaded = pl /\ ping'.num_xmit \in {ping.num_xmit, ping.num_xmit + 1}
          /\ echoes' \subseteq Echo
          /\ past' \in [got : SUBSET Nat, answered : SUBSET Nat, late : BOOLEAN, odd : Nat]
          /\ past'.got = past.got /\ past'.answered = past.answered /\ past'.late = past.late
          /\ EchoesTrue' /\ TableTrue'
      BY <1>1, <2>1, <2>2, SendKept
    <2>4. CASE pc = "preload"
      <3>1. /\ pl = ping.preloaded + 1 /\ ping.preloaded <= opts.preload /\ ping.num_xmit <= ping.preloaded
            /\ pc' \in {"loop", "preload"} /\ (pc' = "preload" => ping.preloaded # opts.preload)
        BY <2>1, <2>4 DEF PingState
      <3>2. ping'.preloaded \in 0 .. opts.preload + 1 /\ ping'.num_xmit <= ping'.preloaded
        BY <1>1, <2>3, <3>1
      <3>3. pc' = "preload" => ping'.preloaded <= opts.preload
        BY <1>1, <2>3, <3>1
      <3>4. opts.count # 0 => ping'.num_xmit <= IF opts.count > opts.preload THEN opts.count ELSE opts.preload + 1
        BY <1>1, <2>3, <3>2 DEF PingData
      <3>5. PingTypeOK'
        BY <2>1, <2>3, <3>1, <3>2, <3>4 DEF PingTypeOK, PingData
      <3>6. PingState'
        BY <2>1, <2>3, <3>1, <3>2, <3>3 DEF PingState
      <3>7. HostsTrue'
        BY <2>3, <2>4, <3>1 DEF HostsTrue
      <3> QED BY <2>3, <3>5, <3>6, <3>7
    <2>5. CASE pc = "select"
      <3>1. pl = ping.preloaded /\ pc' = "loop" /\ (opts.count # 0 => ping.num_xmit < opts.count)
        BY <2>1, <2>5 DEF EchoesLeft
      <3>2. opts.count # 0 => ping'.num_xmit <= IF opts.count > opts.preload THEN opts.count ELSE opts.preload + 1
        BY <1>1, <2>3, <3>1
      <3>3. PingTypeOK'
        BY <2>1, <2>3, <3>1, <3>2 DEF PingTypeOK, PingData
      <3>4. PingState'
        BY <2>1, <2>3, <3>1 DEF PingState
      <3>5. HostsTrue'
        BY <2>3, <2>5, <3>1 DEF HostsTrue
      <3> QED BY <2>3, <3>3, <3>4, <3>5
    <2> QED BY <2>1, <2>4, <2>5
  <1>3. CASE /\ pc = "select" /\ UNCHANGED <<opts, pstop, echoes, past>>
             /\ ping' = [ping EXCEPT !.finishing = TRUE] /\ pc' \in {"finish", "loop"}
    <2>1. /\ ping' \in PingData /\ ping'.host = ping.host /\ ping'.status = ping.status /\ ping'.num_recv = ping.num_recv
          /\ ping'.preloaded = ping.preloaded /\ ping'.num_xmit = ping.num_xmit /\ ping'.cktab = ping.cktab
      BY <1>1, <1>3 DEF PingData
    <2>2. PingState'
      BY <1>3, <2>1 DEF PingState
    <2>3. PingTypeOK'
      BY <1>3, <2>1 DEF PingTypeOK, PingData
    <2>4. EchoesTrue' /\ TableTrue' /\ HostsTrue'
      BY <1>3, <2>1 DEF EchoesTrue, TableTrue, HostsTrue
    <2> QED BY <2>2, <2>3, <2>4
  <1>4. CASE Preload
    <2>1. pc = "preload" /\ send_echo(ping.preloaded + 1) /\ UNCHANGED <<opts, pstop>>
          /\ pc' = IF ping.preloaded = opts.preload THEN "loop" ELSE "preload"
      BY <1>4 DEF Preload
    <2> QED BY <1>2, <2>1
  <1>5. CASE TimesOut
    <2>1. pc = "select" /\ UNCHANGED <<opts, pstop>>
          /\ \/ EchoesLeft /\ send_echo(ping.preloaded) /\ pc' = "loop"
             \/ /\ ping' = [ping EXCEPT !.finishing = TRUE] /\ UNCHANGED <<echoes, past>>
                /\ pc' = IF ping.finishing THEN "finish" ELSE "loop"
      BY <1>5 DEF TimesOut
    <2>2. CASE EchoesLeft /\ send_echo(ping.preloaded) /\ pc' = "loop"
      BY <1>2, <2>1, <2>2
    <2>3. CASE ping' = [ping EXCEPT !.finishing = TRUE] /\ UNCHANGED <<echoes, past>> /\ pc' \in {"finish", "loop"}
      BY <1>3, <2>1, <2>3
    <2> QED BY <2>1, <2>2, <2>3
  <1> QED BY <1>4, <1>5

(* What a packet that comes in changes: a reply's bit is that of its number,   *)
(* however often the sequence numbers have wrapped.                           *)
LEMMA ReceiveKept ==
  ASSUME PingState, PingTypeOK, EchoesTrue, TableTrue, HostsTrue, pc = "select",
         NEW m \in echoes, echoes' = echoes \ {m}, past' = Noted(m),
         NEW nr \in Nat, ping' = [ping_recv(ping, m) EXCEPT !.nresp = nr],
         pc' \in {"finish", "loop"}, UNCHANGED <<opts, pstop>>
  PROVE  PingInv'
  <1> DEFINE x == ping.num_xmit
             bit == m.n % TabSize
  <1>1. /\ ping \in PingData /\ x \in Nat /\ ping.host \in Nat \ {0} /\ TabSize \in Nat \ {0}
        /\ SeqValues \in Nat \ {0} /\ SeqValues % TabSize = 0
        /\ m \in Echo /\ m.n \in Nat /\ m.host \in Nat
        /\ past \in [got : SUBSET Nat, answered : SUBSET Nat, late : BOOLEAN, odd : Nat]
    BY PingAssumption DEF PingState, PingData, PingTypeOK, Echo
  <1>2. (m.n % SeqValues) % TabSize = bit
    BY <1>1, NestedMod
  <1>3. bit \in 0 .. TabSize - 1
    BY <1>1, DivMod
  <1>4. /\ ping' \in PingData /\ ping'.host = ping.host /\ ping'.status = ping.status
        /\ ping'.num_xmit = x /\ ping'.preloaded = ping.preloaded
        /\ m.kind # "reply" => ping'.cktab = ping.cktab /\ ping'.num_recv = ping.num_recv
        /\ m.kind = "reply" =>
             /\ ping'.cktab = ping.cktab \cup {bit}
             /\ ping'.num_recv = (IF bit \in ping.cktab THEN ping.num_recv ELSE ping.num_recv + 1)
    <2> HIDE DEF bit
    <2> DEFINE q == ping_recv(ping, m)
    <2>1. /\ q \in PingData /\ q.host = ping.host /\ q.status = ping.status
          /\ q.num_xmit = x /\ q.preloaded = ping.preloaded
          /\ m.kind # "reply" => q.cktab = ping.cktab /\ q.num_recv = ping.num_recv
          /\ m.kind = "reply" =>
               /\ q.cktab = ping.cktab \cup {bit}
               /\ q.num_recv = (IF bit \in ping.cktab THEN ping.num_recv ELSE ping.num_recv + 1)
      <3>1. CASE m.kind # "reply"
        <4>1. q = ping
          BY <3>1 DEF ping_recv
        <4> QED BY <1>1, <3>1, <4>1
      <3>2. CASE m.kind = "reply" /\ bit \in ping.cktab
        <4>1. q = [ping EXCEPT !.num_rept = @ + 1]
          BY <1>2, <3>2 DEF ping_recv, echo_reply
        <4>2. ping.num_rept + 1 \in Nat /\ ping.cktab = ping.cktab \cup {bit}
          BY <1>1, <3>2 DEF PingData
        <4> HIDE DEF q
        <4> QED BY <1>1, <3>2, <4>1, <4>2 DEF PingData
      <3>3. CASE m.kind = "reply" /\ bit \notin ping.cktab
        <4>1. q = [ping EXCEPT !.cktab = @ \cup {bit}, !.num_recv = @ + 1]
          BY <1>2, <3>3 DEF ping_recv, echo_reply
        <4>2. ping.num_recv + 1 \in Nat /\ ping.cktab \cup {bit} \in SUBSET (0 .. TabSize - 1)
          BY <1>1, <1>3 DEF PingData
        <4> HIDE DEF q
        <4> QED BY <1>1, <3>3, <4>1, <4>2 DEF PingData
      <3> QED BY <3>1, <3>2, <3>3
    <2>2. ping' = [q EXCEPT !.nresp = nr]
      OBVIOUS
    <2> HIDE DEF q
    <2> QED BY <2>1, <2>2 DEF PingData
  <1>5. /\ past' \in [got : SUBSET Nat, answered : SUBSET Nat, late : BOOLEAN, odd : Nat]
        /\ past'.got = (IF m.kind = "reply" /\ m.host = ping.host THEN past.got \cup {m.n} ELSE past.got)
        /\ past'.answered = (IF m.kind = "reply" /\ m.host = ping.host THEN past.answered \cup {m.host} ELSE past.answered)
        /\ ~past'.late => ~past.late /\ (m.kind = "reply" => m.host = ping.host /\ ~(m.n + TabSize <= x))
    <2>1. CASE m.kind # "reply"
      <3>1. past' = past
        BY <2>1 DEF Noted
      <3> QED BY <1>1, <2>1, <3>1
    <2>2. CASE m.kind = "reply"
      <3> DEFINE g == IF m.host = ping.host THEN past.got \cup {m.n} ELSE past.got
                 w == IF m.host = ping.host THEN past.answered \cup {m.host} ELSE past.answered
                 l == past.late \/ m.host # ping.host \/ m.n + TabSize <= x
      <3>1. past' = [past EXCEPT !.got = g, !.answered = w, !.late = l]
        BY <2>2 DEF Noted
      <3>2. g \in SUBSET Nat /\ w \in SUBSET Nat /\ l \in BOOLEAN
        BY <1>1
      <3> HIDE DEF g, w, l
      <3>3. past'.got = g /\ past'.answered = w /\ past'.odd = past.odd
            /\ past' \in [got : SUBSET Nat, answered : SUBSET Nat, late : BOOLEAN, odd : Nat]
        BY <1>1, <3>1, <3>2
      <3>4. past'.late = l
        BY <1>1, <3>1
      <3>5. ~l => ~past.late /\ m.host = ping.host /\ ~(m.n + TabSize <= x)
        BY DEF l
      <3>6. ~past'.late => ~l
        BY <3>4, Zenon
      <3> QED BY <2>2, <3>3, <3>5, <3>6 DEF g, w
    <2> QED BY <2>1, <2>2
  <1>6. m.kind = "reply" /\ m.host = ping.host => m.n < x
    BY DEF EchoesTrue
  <1>7. PingState'
    BY <1>4, <1>5 DEF PingState
  <1>8. PingTypeOK'
    BY <1>4 DEF PingTypeOK, PingData
  <1>9. EchoesTrue'
    BY <1>4 DEF EchoesTrue
  <1>10. TableTrue'
    <2>1. past.got \subseteq 0 .. x - 1 /\ past'.got \subseteq 0 .. x - 1
      BY <1>1, <1>5, <1>6 DEF TableTrue
    <2>2. ASSUME ~past'.late
          PROVE  /\ ping'.num_recv = Cardinality(past'.got)
                 /\ \A k \in 0 .. x - 1 :
                      k + TabSize > x => (k \in past'.got <=> k % TabSize \in ping'.cktab)
      <3>1. /\ ping.num_recv = Cardinality(past.got)
            /\ \A k \in 0 .. x - 1 : k + TabSize > x => (k \in past.got <=> k % TabSize \in ping.cktab)
        BY <1>5, <2>2 DEF TableTrue
      <3>2. CASE m.kind # "reply"
        BY <1>4, <1>5, <3>1, <3>2
      <3>3. CASE m.kind = "reply"
        <4>1. m.host = ping.host /\ m.n + TabSize > x /\ m.n \in 0 .. x - 1 /\ past'.got = past.got \cup {m.n}
          BY <1>1, <1>5, <1>6, <2>2, <3>3
        <4>2. m.n \in past.got <=> bit \in ping.cktab
          BY <3>1, <4>1
        <4>3. ping'.num_recv = Cardinality(past'.got)
          <5>1. IsFiniteSet(past.got)
            <6>1. IsFiniteSet(0 .. x - 1)
              BY <1>1, Numbers
            <6> QED BY <2>1, <6>1, FS_Subset
          <5>2. Cardinality(past'.got) = (IF m.n \in past.got THEN Cardinality(past.got) ELSE Cardinality(past.got) + 1)
            BY <4>1, <5>1, FS_AddElement
          <5> QED BY <1>4, <3>1, <3>3, <4>2, <5>2
        <4>4. ASSUME NEW k \in 0 .. x - 1, k + TabSize > x
              PROVE  k \in past'.got <=> k % TabSize \in ping'.cktab
          <5>1. k \in past.got <=> k % TabSize \in ping.cktab
            BY <3>1, <4>4
          <5>2. k # m.n => k % TabSize # bit
            <6>1. k \in Nat /\ k < m.n + TabSize /\ m.n < k + TabSize
              BY <1>1, <4>1, <4>4
            <6>2. CASE k < m.n
              BY <1>1, <6>1, <6>2, WindowMod
            <6>3. CASE m.n < k
              BY <1>1, <6>1, <6>3, WindowMod
            <6> QED BY <1>1, <6>1, <6>2, <6>3
          <5>3. k = m.n => k % TabSize = bit
            OBVIOUS
          <5>4. ping'.cktab = ping.cktab \cup {bit}
            BY <1>4, <3>3
          <5> HIDE DEF bit
          <5> QED BY <4>1, <5>1, <5>2, <5>3, <5>4
        <4> QED BY <4>3, <4>4
      <3> QED BY <3>2, <3>3
    <2> QED BY <1>4, <2>1, <2>2 DEF TableTrue
  <1>11. HostsTrue'
    <2> SUFFICES ASSUME ~past'.late
                 PROVE  /\ past'.answered \subseteq 1 .. ping.host
                        /\ ping.host \in past'.answered <=> past'.got # {}
                        /\ ping.status = 0 <=> 1 .. ping.host - 1 \subseteq past'.answered
      BY <1>4 DEF HostsTrue
    <2>1. /\ past.answered \subseteq 1 .. ping.host
          /\ ping.host \in past.answered <=> past.got # {}
          /\ ping.status = 0 <=> 1 .. ping.host - 1 \subseteq past.answered
      BY <1>5 DEF HostsTrue
    <2>2. CASE m.kind # "reply"
      BY <1>5, <2>1, <2>2
    <2>3. CASE m.kind = "reply"
      <3>1. past'.got = past.got \cup {m.n} /\ past'.answered = past.answered \cup {ping.host}
        BY <1>5, <2>3
      <3>2. ping.host \notin 1 .. ping.host - 1
        BY <1>1
      <3> QED BY <1>1, <2>1, <3>1, <3>2
    <2> QED BY <2>2, <2>3
  <1> QED BY <1>7, <1>8, <1>9, <1>10, <1>11 DEF PingInv

LEMMA ReceiveStep ==
  ASSUME PingInv, Receive
  PROVE  PingInv'
  <1>1. PICK m \in echoes :
          LET q == ping_recv(ping, m)
              nresp == IF Mine(m) THEN q.nresp + 1 ELSE q.nresp
          IN /\ echoes' = echoes \ {m} /\ ping' = [q EXCEPT !.nresp = nresp] /\ past' = Noted(m)
             /\ pc' = IF opts.count # 0 /\ nresp >= opts.count THEN "finish" ELSE "loop"
    BY DEF Receive
  <1> DEFINE q == ping_recv(ping, m)
             nr == IF Mine(m) THEN q.nresp + 1 ELSE q.nresp
  <1>2. q.nresp = ping.nresp /\ ping.nresp \in Nat
    BY DEF ping_recv, echo_reply, PingInv, PingState, PingData
  <1>3. nr \in Nat
    <2> HIDE DEF q
    <2> QED BY <1>2
  <1>4. /\ echoes' = echoes \ {m} /\ past' = Noted(m) /\ ping' = [ping_recv(ping, m) EXCEPT !.nresp = nr]
        /\ pc' \in {"finish", "loop"} /\ pc = "select" /\ UNCHANGED <<opts, pstop>>
    BY <1>1 DEF Receive
  <1> HIDE DEF nr
  <1> QED BY <1>3, <1>4, ReceiveKept DEF PingInv

(* A host is given up, or the program exits: the status remembers the hosts    *)
(* that did not answer.                                                       *)
LEMMA FinishStep ==
  ASSUME PingInv, Finish
  PROVE  PingInv'
  <1> USE DEF PingInv
  <1> DEFINE h == ping.host
             st == IF ping.num_recv = 0 THEN 1 ELSE ping.status
  <1>1. /\ opts \in [count : Nat, preload : Nat, hosts : Nat \ {0}] /\ ping \in PingData /\ TabSize \in Nat \ {0}
        /\ h \in Nat \ {0} /\ h \in 1 .. opts.hosts /\ ping.num_recv \in Nat /\ ping.status \in {0, 1}
        /\ ping.num_xmit \in Nat
        /\ past \in [got : SUBSET Nat, answered : SUBSET Nat, late : BOOLEAN, odd : Nat]
    BY PingAssumption DEF PingState, PingData, PingTypeOK
  <1>2. /\ pc = "finish" /\ UNCHANGED <<opts, pstop, echoes>>
        /\ \/ h = opts.hosts /\ pc' = "exit" /\ ping' = [ping EXCEPT !.status = st] /\ past' = past
           \/ h # opts.hosts /\ pc' = "preload" /\ ping' = Reset(h + 1, st) /\ past' = [past EXCEPT !.got = {}]
    BY DEF Finish
  <1>3. st \in {0, 1}
    BY <1>1
  <1>4. ~past.late => /\ past.answered \subseteq 1 .. h
                      /\ h \in past.answered <=> past.got # {}
                      /\ st = 0 <=> 1 .. h \subseteq past.answered
    <2> SUFFICES ASSUME ~past.late
                 PROVE  st = 0 <=> 1 .. h \subseteq past.answered
      BY DEF HostsTrue
    <2>1. /\ past.answered \subseteq 1 .. h
          /\ h \in past.answered <=> past.got # {}
          /\ ping.status = 0 <=> 1 .. h - 1 \subseteq past.answered
      BY <1>2 DEF HostsTrue
    <2>2. ping.num_recv = 0 <=> past.got = {}
      <3>1. ping.num_recv = Cardinality(past.got) /\ past.got \subseteq 0 .. ping.num_xmit - 1
        BY DEF TableTrue
      <3>2. IsFiniteSet(past.got)
        <4>1. IsFiniteSet(0 .. ping.num_xmit - 1)
          BY <1>1, Numbers
        <4> QED BY <3>1, <4>1, FS_Subset
      <3> QED BY <3>1, <3>2, FS_EmptySet
    <2>3. \A i \in 1 .. h : i = h \/ i \in 1 .. h - 1
      BY <1>1
    <2>4. h \in 1 .. h /\ 1 .. h - 1 \subseteq 1 .. h
      BY <1>1
    <2>5. 1 .. h \subseteq past.answered <=> h \in past.answered /\ 1 .. h - 1 \subseteq past.answered
      BY <2>3, <2>4, Zenon
    <2> QED BY <2>1, <2>2, <2>5
  <1> HIDE DEF st
  <1>5. CASE h = opts.hosts /\ pc' = "exit" /\ ping' = [ping EXCEPT !.status = st] /\ past' = past
    <2>1. /\ ping' \in PingData /\ ping'.host = h /\ ping'.status = st /\ ping'.num_recv = ping.num_recv
          /\ ping'.preloaded = ping.preloaded /\ ping'.num_xmit = ping.num_xmit /\ ping'.cktab = ping.cktab
      BY <1>1, <1>3, <1>5 DEF PingData
    <2>2. PingState'
      BY <1>2, <1>5, <2>1 DEF PingState
    <2>3. PingTypeOK'
      BY <1>2, <1>5, <2>1 DEF PingTypeOK, PingData
    <2>4. EchoesTrue' /\ TableTrue'
      BY <1>2, <1>5, <2>1 DEF EchoesTrue, TableTrue
    <2>5. HostsTrue'
      BY <1>4, <1>5, <2>1 DEF HostsTrue
    <2> QED BY <2>2, <2>3, <2>4, <2>5
  <1>6. CASE h # opts.hosts /\ pc' = "preload" /\ ping' = Reset(h + 1, st) /\ past' = [past EXCEPT !.got = {}]
    <2>1. /\ ping' \in PingData /\ ping'.host = h + 1 /\ ping'.status = st /\ ping'.num_recv = 0
          /\ ping'.preloaded = 0 /\ ping'.num_xmit = 0 /\ ping'.cktab = {}
      BY <1>1, <1>3, <1>6 DEF PingData, Reset
    <2>2. /\ past'.got = {} /\ past'.answered = past.answered /\ past'.late = past.late
          /\ past' \in [got : SUBSET Nat, answered : SUBSET Nat, late : BOOLEAN, odd : Nat]
      BY <1>1, <1>6
    <2>3. PingState'
      BY <1>1, <1>2, <1>6, <2>1, <2>2 DEF PingState
    <2>4. h + 1 \in 1 .. opts.hosts
      BY <1>1, <1>6
    <2>5. PingTypeOK'
      <3>1. opts.count # 0 => 0 <= IF opts.count > opts.preload THEN opts.count ELSE opts.preload + 1
        BY <1>1
      <3>2. 0 \in 0 .. opts.preload + 1
        BY <1>1
      <3> QED BY <1>2, <1>6, <2>1, <2>4, <3>1, <3>2 DEF PingTypeOK, PingData
    <2>6. EchoesTrue'
      <3> SUFFICES ASSUME NEW m \in echoes, m.kind = "reply"
                   PROVE  m.host \in 1 .. h + 1 /\ m.host # h + 1
        BY <1>2, <2>1 DEF EchoesTrue
      <3>1. m.host \in 1 .. h
        BY DEF EchoesTrue
      <3> QED BY <1>1, <3>1
    <2>7. TableTrue'
      BY <2>1, <2>2, FS_EmptySet DEF TableTrue
    <2>8. HostsTrue'
      <3> SUFFICES ASSUME ~past.late
                   PROVE  /\ past.answered \subseteq 1 .. h + 1
                          /\ h + 1 \notin past.answered
                          /\ st = 0 <=> 1 .. (h + 1) - 1 \subseteq past.answered
        BY <1>6, <2>1, <2>2 DEF HostsTrue
      <3>1. (h + 1) - 1 = h /\ 1 .. h \subseteq 1 .. h + 1 /\ h + 1 \notin 1 .. h
        BY <1>1
      <3> QED BY <1>4, <3>1
    <2> QED BY <2>3, <2>5, <2>6, <2>7, <2>8
  <1> QED BY <1>2, <1>5, <1>6

LEMMA OtherPingStep ==
  ASSUME PingInv, Loop \/ sig_int \/ UNCHANGED pingvars
  PROVE  PingInv'
  <1> USE DEF PingInv
  <1>1. UNCHANGED <<opts, ping, echoes, past>>
    BY DEF Loop, sig_int, pingvars
  <1>2. pc' = pc \/ (pc \in {"loop", "select"} /\ pc' \in {"loop", "select", "finish"})
    BY DEF Loop, sig_int, pingvars
  <1>3. PingState'
    BY <1>1, <1>2 DEF PingState
  <1>4. PingTypeOK'
    BY <1>1, <1>2 DEF PingTypeOK
  <1>5. EchoesTrue' /\ TableTrue'
    BY <1>1 DEF EchoesTrue, TableTrue
  <1>6. HostsTrue'
    BY <1>1, <1>2 DEF HostsTrue
  <1> QED BY <1>3, <1>4, <1>5, <1>6

(* What ping prints and its exit status are true, whatever the size of the     *)
(* table, the number of hosts and of packets: ping_xmit clears the bit of the  *)
(* number it uses next, so a set bit means the number in the window, and       *)
(* ping_recv counts a number once.                                            *)
THEOREM PingIsTrue == PingSpec => []PingTrue
  <1>1. PingInit => PingInv
    BY PingInitInv
  <1>2. PingInv /\ [PingNext]_pingvars => PingInv'
    BY SendStep, ReceiveStep, FinishStep, OtherPingStep DEF PingNext, Runs
  <1>3. PingInv => PingTrue
    <2> SUFFICES ASSUME PingInv PROVE PingTrue
      OBVIOUS
    <2> USE DEF PingInv
    <2>1. ping.num_xmit \in Nat /\ ping.host \in Nat /\ opts.hosts \in Nat
      BY DEF PingState, PingData
    <2>2. SummaryTrue
      <3> SUFFICES ASSUME ~past.late PROVE ping.num_recv = Cardinality(past.got) /\ ping.num_recv <= ping.num_xmit
        BY DEF SummaryTrue
      <3>1. ping.num_recv = Cardinality(past.got) /\ past.got \subseteq 0 .. ping.num_xmit - 1
        BY DEF TableTrue
      <3>2. IsFiniteSet(0 .. ping.num_xmit - 1) /\ Cardinality(0 .. ping.num_xmit - 1) = ping.num_xmit
        BY <2>1, Numbers
      <3>3. Cardinality(past.got) <= ping.num_xmit
        BY <3>1, <3>2, FS_Subset
      <3> QED BY <3>1, <3>3
    <2>3. StatusTrue
      <3> SUFFICES ASSUME pc = "exit", ~past.late
                   PROVE  ping.status = 0 <=> past.answered = 1 .. opts.hosts
        BY DEF StatusTrue
      <3>1. ping.host = opts.hosts
        BY DEF PingState
      <3>2. past.answered \subseteq 1 .. ping.host /\ (ping.status = 0 <=> 1 .. ping.host \subseteq past.answered)
        BY DEF HostsTrue
      <3> QED BY <3>1, <3>2
    <2> QED BY <2>2, <2>3 DEF PingTrue
  <1> QED BY <1>1, <1>2, <1>3, PTL DEF PingSpec
=============================================================================
