----------------------------- MODULE TalkProofs -----------------------------
(***************************************************************************)
(* Proofs about module Talk, for every number of users, machines, calls    *)
(* and mishaps: its types, and that only users who call each other, as far *)
(* as their names go, are ever connected.                                  *)
(***************************************************************************)
EXTENDS Talk, WellFoundedInduction, TLAPS

Pcs == {"idle", "lookup", "delstale", "announce", "leave", "dellocal", "delremote",
        "connect", "accept", "accepted", "edit", "talk"}
Types == {"LOOK_UP", "DELETE", "ANNOUNCE", "LEAVE_INVITE"}
RealProcs == [user : Users, n : 1..MaxCalls, to : Users]
Ids == 0..(MaxId - 1)

Client ==
    [user : Users, n : 0..MaxCalls, to : Users \cup {"none"}, pc : Pcs, mid : 0..MaxId,
     lid : Ids, rid : Ids, addr : Procs, waiting : BOOLEAN, queue : Seq(RealProcs),
     peer : Procs, deaf : BOOLEAN, rang : BOOLEAN, shut : BOOLEAN, leaked : Procs]
Entry == [id : 1..(MaxId - 1), type : {"ANNOUNCE", "LEAVE_INVITE"}, proc : RealProcs]

\* Invitations are left with the daemon of the inviting user, and looked up at
\* that of the user who is asked for.
Placed(e, m) == e.type = "LEAVE_INVITE" => Host[e.proc.user] = m
Directed(q) == Placed(q, q.to) /\ (q.type = "LOOK_UP" => Host[q.proc.to] = q.to)

Req == {q \in [type : Types, proc : RealProcs, id : 0..MaxId, to : Machines] : Directed(q)}
Resp == [to : Procs, type : Types, id : Ids, addr : Procs,
         answer : {"SUCCESS", "NOT_HERE", "PERMISSION_DENIED", "unset"}]
Used == [calls : 0..MaxCalls, mishaps : Nat, restarted : BOOLEAN]

DaemonType ==
    /\ tab \in [Machines -> Seq(Entry)] /\ id \in [Machines -> Ids]
    /\ \A m \in Machines : \A i \in 1..Len(tab[m]) : Placed(tab[m][i], m)
NetType == reqs \subseteq Req /\ resps \subseteq Resp /\ wrote \subseteq RealProcs \X Procs

ClientType ==
    /\ cl \in [Users -> Client] /\ used \in Used
    /\ \A u \in Users :
          /\ cl[u].user = u /\ cl[u].n <= used.calls
          /\ cl[u].pc # "idle" => cl[u].n > 0 /\ cl[u].to \in Users \ {u}

\* A process that was started: if it still runs, it calls whom its record says.
\* The numbers of a user's processes grow, so that this stays true for ever.
Genuine(p) ==
    /\ p \in RealProcs /\ p.n <= cl[p.user].n
    /\ Current(p) => cl[p.user].to = p.to

\* p calls the user of c and is called by c, as far as their names go; and one of
\* them exactly.
Match(c, p) ==
    /\ Genuine(p) /\ Namesake(p.user, c.to) /\ Namesake(p.to, c.user)
    /\ p.user = c.to \/ p.to = c.user

\* If p still runs, it has q for its peer and has written its edit characters.
Paired(p, q) ==
    Current(p) => cl[p.user].peer = q /\ cl[p.user].pc \in {"edit", "talk"}

Linked(c) ==
    /\ c.pc = "connect" => Match(c, c.addr) /\ c.addr.user = c.to
    /\ \A i \in 1..Len(c.queue) : Match(c, c.queue[i])
    /\ c.pc \in {"accepted", "dellocal", "delremote", "edit", "talk"} => Match(c, c.peer)
    /\ c.pc = "talk" => Paired(c.peer, Proc(c))

\* Invitations and requests are of processes that were started, and what a
\* LOOK_UP finds is an invitation from the user asked for to one with the name
\* of the user who asks.
Invited ==
    /\ \A m \in Machines : \A i \in 1..Len(tab[m]) : Genuine(tab[m][i].proc)
    /\ \A q \in reqs : Genuine(q.proc)
Invites(p, q) == Genuine(p) /\ p.user = q.to /\ Namesake(p.to, q.user)
Found ==
    \A r \in resps : r.type = "LOOK_UP" /\ r.answer = "SUCCESS" => Invites(r.addr, r.to)
Written == \A w \in wrote : Genuine(w[1]) /\ Paired(w[1], w[2])

TalkInv ==
    /\ DaemonType /\ NetType /\ ClientType
    /\ \A u \in Users : Linked(cl[u])
    /\ Invited /\ Found /\ Written

-----------------------------------------------------------------------------
(* The daemon.                                                             *)

\* A set of positions has a first one.
LEMMA FirstOf ==
    ASSUME NEW S \in SUBSET Nat, S # {}
    PROVE  First(S) \in S
<1> DEFINE R == OpToRel(<, Nat)
<1>1. IsWellFoundedOn(R, Nat)
  BY NatLessThanWellFounded
<1>2. \A x, y \in Nat : x < y => <<x, y>> \in R
  BY DEF OpToRel
<1> HIDE DEF R
<1>3. PICK x \in S : \A y \in S : ~ (<<y, x>> \in R)
  <2>1. S \subseteq Nat /\ S # {}
    OBVIOUS
  <2>2. QED
    BY <1>1, <2>1, WFMin, Zenon
<1>4. ASSUME NEW y \in S PROVE x <= y
  <2>1. x \in Nat /\ y \in Nat
    OBVIOUS
  <2>2. ~ (y < x)
    BY <1>2, <1>3, <2>1
  <2>3. QED
    BY <2>1, <2>2
<1>5. QED
  BY <1>4 DEF First

\* Of the table t a daemon makes what s says of request q: its table holds only
\* its old invitations and the sender's, and a LOOK_UP finds one from a user with
\* the name asked for to one with the name of the user who asks.
Proper(q, t, s) ==
    /\ s.t \in Seq(Entry) /\ s.i \in Ids /\ s.r \in Resp /\ s.r.to = q.proc
    /\ \A j \in 1..Len(s.t) : \/ s.t[j].proc = q.proc /\ s.t[j].type = q.type
                              \/ \E k \in 1..Len(t) : s.t[j].proc = t[k].proc /\ s.t[j].type = t[k].type
    /\ s.r.type = "LOOK_UP" /\ s.r.answer = "SUCCESS" =>
         /\ q.type = "LOOK_UP"
         /\ \E k \in 1..Len(t) : /\ s.r.addr = t[k].proc /\ t[k].type = "LEAVE_INVITE"
                                 /\ Namesake(s.r.addr.user, q.proc.to)
                                 /\ Namesake(s.r.addr.to, q.proc.user)

LEMMA Served ==
    ASSUME NEW q \in Req, NEW t \in Seq(Entry), NEW i \in Ids,
           NEW outcome \in {"logged_in", "absent", "refusing"},
           NEW s, s = process_request(q, t, i, outcome)
    PROVE  Proper(q, t, s)
<1> USE DEF Proper
<1> DEFINE n == new_id(i)
           F == find_request(t, q)
           k0 == First(F)
           M == find_match(t, q)
           m0 == First(M)
<1>0. MaxId \in Nat /\ MaxId > 1 /\ i \in Nat /\ i < MaxId
  BY TalkAssumption DEF Ids
<1>1. n \in 1..(MaxId - 1) /\ n \in Ids /\ 0 \in Ids
  BY <1>0 DEF new_id, Ids
<1>2. /\ q.proc \in RealProcs /\ q.type \in Types /\ q.proc \in Procs /\ None \in Procs
      /\ DOMAIN t = 1..Len(t) /\ \A j \in 1..Len(t) : t[j] \in Entry
  BY DEF Req, RealProcs, Procs
<1>3. F # {} => k0 \in 1..Len(t) /\ t[k0] \in Entry /\ t[k0].id \in Ids
  <2>1. F \subseteq 1..Len(t)
    BY <1>2 DEF find_request
  <2>2. F # {} => k0 \in F
    BY <2>1, FirstOf
  <2>3. QED
    BY <1>0, <1>2, <2>1, <2>2 DEF Entry, Ids
<1>4. M # {} => /\ m0 \in 1..Len(t) /\ t[m0] \in Entry /\ t[m0].id \in Ids
                /\ t[m0].type = "LEAVE_INVITE" /\ Namesake(t[m0].proc.user, q.proc.to)
                /\ Namesake(t[m0].proc.to, q.proc.user)
                /\ t[m0].proc \in Procs
  <2>1. M \subseteq 1..Len(t)
    BY <1>2 DEF find_match
  <2>2. M # {} => m0 \in M
    BY <2>1, FirstOf
  <2>3. M # {} => fuzzy_comp(t[m0], q)
    BY <2>2 DEF find_match
  <2>4. QED
    BY <1>0, <1>2, <2>1, <2>2, <2>3 DEF Entry, Ids, fuzzy_comp, Procs, RealProcs, Namesake
<1>5. ASSUME q.type \in {"ANNOUNCE", "LEAVE_INVITE"}
      PROVE  /\ insert_table(t, n, q) \in Seq(Entry)
             /\ \A j \in 1..Len(insert_table(t, n, q)) :
                  \/ insert_table(t, n, q)[j].proc = q.proc /\ insert_table(t, n, q)[j].type = q.type
                  \/ \E k \in 1..Len(t) : /\ insert_table(t, n, q)[j].proc = t[k].proc
                                          /\ insert_table(t, n, q)[j].type = t[k].type
  <2> DEFINE e == [id |-> n, type |-> q.type, proc |-> q.proc]
  <2>1. e \in Entry /\ e.proc = q.proc /\ e.type = q.type
    BY <1>1, <1>2, <1>5 DEF Entry
  <2> HIDE DEF e
  <2>2. insert_table(t, n, q) = <<e>> \o t
    BY DEF insert_table, e
  <2>3. <<e>> \o t \in Seq(Entry)
    BY <2>1
  <2>4. \A j \in 1..Len(<<e>> \o t) :
          (<<e>> \o t)[j] = e \/ \E k \in 1..Len(t) : (<<e>> \o t)[j] = t[k]
    <3>1. \A j \in 1..Len(<<e>> \o t) : j = 1 \/ j - 1 \in 1..Len(t)
      BY <2>1
    <3>2. \A j \in 1..Len(<<e>> \o t) :
            (<<e>> \o t)[j] = IF j = 1 THEN e ELSE t[j - 1]
      BY <2>1
    <3>3. QED
      BY <3>1, <3>2
  <2>5. QED
    BY <2>1, <2>2, <2>3, <2>4
<1>6. ASSUME F # {}
      PROVE  /\ [t EXCEPT ![k0].id = n] \in Seq(Entry)
             /\ Len([t EXCEPT ![k0].id = n]) = Len(t)
             /\ \A j \in 1..Len(t) : /\ [t EXCEPT ![k0].id = n][j].proc = t[j].proc
                                     /\ [t EXCEPT ![k0].id = n][j].type = t[j].type
  <2> DEFINE e == [t[k0] EXCEPT !.id = n]
  <2>1. e \in Entry /\ e.proc = t[k0].proc /\ e.type = t[k0].type
    BY <1>1, <1>3, <1>6 DEF Entry
  <2>2. [t EXCEPT ![k0].id = n] = [t EXCEPT ![k0] = e]
    OBVIOUS
  <2> HIDE DEF e, k0
  <2>3. QED
    BY <1>3, <1>6, <2>1, <2>2
<1>7. \A a \in {"SUCCESS", "NOT_HERE", "PERMISSION_DENIED", "unset"}, x \in Ids, p \in Procs :
         /\ Reply(q, x, a, p) \in Resp /\ Reply(q, x, a, p).to = q.proc
         /\ Reply(q, x, a, p).type = q.type /\ Reply(q, x, a, p).answer = a
         /\ Reply(q, x, a, p).addr = p
  BY <1>2 DEF Reply, Resp
<1> HIDE DEF n, F, k0, M, m0
<1>8. CASE q.type = "ANNOUNCE"
  <2>1. s = do_announce(q, t, i, outcome)
    BY <1>8 DEF process_request
  <2>2. CASE outcome = "absent"
    <3>1. s = [t |-> t, i |-> i, r |-> Reply(q, 0, "NOT_HERE", None)]
      BY <2>1, <2>2 DEF do_announce
    <3>2. QED
      BY <1>1, <1>2, <1>7, <1>8, <3>1
  <2> DEFINE rung == IF outcome = "refusing" THEN "PERMISSION_DENIED" ELSE "SUCCESS"
  <2>r. rung \in {"SUCCESS", "PERMISSION_DENIED"}
    OBVIOUS
  <2>3. CASE outcome # "absent" /\ F = {}
    <3>1. s = [t |-> insert_table(t, n, q), i |-> n, r |-> Reply(q, n, rung, None)]
      BY <2>1, <2>3 DEF do_announce, F, n
    <3>2. PICK x : x = insert_table(t, n, q)
      OBVIOUS
    <3>3. s = [t |-> x, i |-> n, r |-> Reply(q, n, rung, None)]
      BY <3>1, <3>2
    <3>4. x \in Seq(Entry) /\ \A j \in 1..Len(x) :
             \/ x[j].proc = q.proc /\ x[j].type = q.type
             \/ \E k \in 1..Len(t) : x[j].proc = t[k].proc /\ x[j].type = t[k].type
      BY <1>5, <1>8, <3>2
    <3> HIDE DEF rung
    <3>5. QED
      BY <1>1, <1>2, <1>7, <1>8, <2>r, <3>3, <3>4
  <2>4. CASE outcome # "absent" /\ F # {} /\ q.id > t[k0].id
    <3>1. s = [t |-> [t EXCEPT ![k0].id = n], i |-> n, r |-> Reply(q, n, rung, None)]
      BY <2>1, <2>4 DEF do_announce, F, n, k0
    <3> DEFINE w == [t EXCEPT ![k0].id = n]
    <3>2. s = [t |-> w, i |-> n, r |-> Reply(q, n, rung, None)]
      BY <3>1
    <3>3. w \in Seq(Entry) /\ Len(w) = Len(t) /\ \A j \in 1..Len(t) : w[j].proc = t[j].proc /\ w[j].type = t[j].type
      BY <1>6, <2>4
    <3> HIDE DEF rung, w
    <3>4. QED
      BY <1>1, <1>2, <1>7, <1>8, <2>r, <3>2, <3>3
  <2>5. CASE outcome # "absent" /\ F # {} /\ ~(q.id > t[k0].id)
    <3>1. s = [t |-> t, i |-> i, r |-> Reply(q, t[k0].id, "SUCCESS", None)]
      BY <2>1, <2>5 DEF do_announce, F, k0
    <3>2. QED
      BY <1>2, <1>3, <1>7, <1>8, <2>5, <3>1
  <2>6. QED
    BY <2>2, <2>3, <2>4, <2>5
<1>9. CASE q.type = "LEAVE_INVITE"
  <2>1. s = leave_invite(q, t, i)
    BY <1>9 DEF process_request
  <2>2. CASE F # {}
    <3>1. s = [t |-> t, i |-> i, r |-> Reply(q, t[k0].id, "SUCCESS", None)]
      BY <2>1, <2>2 DEF leave_invite, F, k0
    <3>2. QED
      BY <1>2, <1>3, <1>7, <1>9, <2>2, <3>1
  <2>3. CASE F = {}
    <3>1. s = [t |-> insert_table(t, n, q), i |-> n, r |-> Reply(q, n, "unset", None)]
      BY <2>1, <2>3 DEF leave_invite, F, n
    <3>2. PICK x : x = insert_table(t, n, q)
      OBVIOUS
    <3>3. s = [t |-> x, i |-> n, r |-> Reply(q, n, "unset", None)]
      BY <3>1, <3>2
    <3>4. x \in Seq(Entry) /\ \A j \in 1..Len(x) :
             \/ x[j].proc = q.proc /\ x[j].type = q.type
             \/ \E k \in 1..Len(t) : x[j].proc = t[k].proc /\ x[j].type = t[k].type
      BY <1>5, <1>9, <3>2
    <3>5. QED
      BY <1>1, <1>2, <1>7, <1>9, <3>3, <3>4
  <2>4. QED
    BY <2>2, <2>3
<1>10. CASE q.type = "LOOK_UP"
  <2>1. s = look_up(q, t, i)
    BY <1>10 DEF process_request
  <2>2. CASE M # {}
    <3>1. s = [t |-> t, i |-> i, r |-> Reply(q, t[m0].id, "SUCCESS", t[m0].proc)]
      BY <2>1, <2>2 DEF look_up, M, m0
    <3>2. QED
      BY <1>4, <1>7, <2>2, <3>1
  <2>3. CASE M = {}
    <3>1. s = [t |-> t, i |-> i, r |-> Reply(q, 0, "NOT_HERE", None)]
      BY <2>1, <2>3 DEF look_up, M
    <3>2. QED
      BY <1>1, <1>2, <1>7, <3>1
  <2>4. QED
    BY <2>2, <2>3
<1>11. CASE q.type = "DELETE"
  <2> DEFINE D == {k \in DOMAIN t : t[k].id = q.id}
             d == First(D)
             w == table_delete(t, d)
  <2>1. s = delete_invite(q, t, i)
    BY <1>11 DEF process_request
  <2>2. CASE D # {}
    <3>1. s = [t |-> w, i |-> i, r |-> Reply(q, 0, "SUCCESS", None)]
      BY <2>1, <2>2 DEF delete_invite
    <3>2. d \in 1..Len(t)
      <4>1. D \in SUBSET Nat
        BY <1>2
      <4>2. d \in D
        BY <2>2, <4>1, FirstOf
      <4>3. QED
        BY <1>2, <4>2
    <3> HIDE DEF d
    <3>3. w \in Seq(Entry) /\ \A j \in 1..Len(w) : \E k \in 1..Len(t) : w[j] = t[k]
      <4>1. w = [j \in 1..(Len(t) - d) |-> t[d + j]]
        BY <3>2 DEF table_delete
      <4>2. Len(t) - d \in Nat /\ \A j \in 1..(Len(t) - d) : d + j \in 1..Len(t)
        BY <3>2
      <4>3. Len(w) = Len(t) - d
        BY <4>1, <4>2
      <4>4. \A j \in 1..(Len(t) - d) : w[j] = t[d + j] /\ t[d + j] \in Entry
        BY <1>2, <4>1, <4>2
      <4>5. w \in Seq(Entry)
        BY <4>1, <4>2, <4>4
      <4>6. QED
        BY <4>2, <4>3, <4>4, <4>5
    <3> HIDE DEF w
    <3>4. QED
      BY <1>1, <1>2, <1>7, <1>11, <3>1, <3>3
  <2>3. CASE D = {}
    <3>1. s = [t |-> t, i |-> i, r |-> Reply(q, 0, "NOT_HERE", None)]
      BY <2>1, <2>3 DEF delete_invite
    <3>2. QED
      BY <1>1, <1>2, <1>7, <1>11, <3>1
  <2>4. QED
    BY <2>2, <2>3
<1>12. QED
  BY <1>2, <1>8, <1>9, <1>10, <1>11 DEF Types

-----------------------------------------------------------------------------
(* The clients.                                                            *)

\* b is what client a may become in one step: it stays the same process, or
\* ends, or its user starts another one; and a connection is for good.
Follows(a, b) ==
    /\ b.user = a.user
    /\ \/ b.n > a.n
       \/ /\ b.n = a.n
          /\ b.pc # "idle" => a.pc # "idle" /\ b.to = a.to
          /\ b.pc # "idle" /\ a.pc \in {"edit", "talk"} =>
                b.peer = a.peer /\ b.pc \in {"edit", "talk"}

\* What is known of a process stays true.
LEMMA Kept ==
    ASSUME ClientType, ClientType', \A v \in Users : Follows(cl[v], cl'[v])
    PROVE  \A p : Genuine(p) => Genuine(p)' /\ \A q : Paired(p, q) => Paired(p, q)'
<1> SUFFICES ASSUME NEW p, Genuine(p)
             PROVE  Genuine(p)' /\ \A q : Paired(p, q) => Paired(p, q)'
  OBVIOUS
<1>1. p \in RealProcs /\ p.user \in Users /\ p.n \in Nat
  BY DEF Genuine, RealProcs
<1> DEFINE a == cl[p.user]
<1>2. PICK b : b = cl'[p.user]
  OBVIOUS
<1>3. a.n \in Nat /\ b.n \in Nat /\ Follows(a, b) /\ p.n <= a.n
      /\ (a.pc # "idle" /\ a.n = p.n => a.to = p.to)
  BY <1>1, <1>2 DEF ClientType, Client, Genuine, Current
<1> HIDE DEF a
<1>4. p.n <= b.n /\ (b.pc # "idle" /\ b.n = p.n => a.pc # "idle" /\ a.n = p.n /\ b.to = p.to)
  BY <1>1, <1>3 DEF Follows
<1>5. Genuine(p)'
  BY <1>1, <1>2, <1>4 DEF Genuine, Current
<1>6. ASSUME NEW q, Paired(p, q) PROVE Paired(p, q)'
  <2>1. a.pc # "idle" /\ a.n = p.n => a.peer = q /\ a.pc \in {"edit", "talk"}
    BY <1>6 DEF Paired, Current, a
  <2>2. b.pc # "idle" /\ b.n = p.n => b.peer = q /\ b.pc \in {"edit", "talk"}
    BY <1>1, <1>3, <1>4, <2>1 DEF Follows
  <2>3. QED
    BY <1>2, <2>2 DEF Paired, Current
<1>7. QED
  BY <1>5, <1>6

LEMMA LinkedKept ==
    ASSUME ClientType, ClientType', \A v \in Users : Follows(cl[v], cl'[v]),
           NEW c, Linked(c)
    PROVE  Linked(c)'
<1>1. \A p : Match(c, p) => Match(c, p)'
  BY Kept DEF Match
<1>2. c.pc = "talk" => Paired(c.peer, Proc(c))'
  <2>1. c.pc = "talk" => Genuine(c.peer) /\ Paired(c.peer, Proc(c))
    BY DEF Linked, Match
  <2>2. PICK p, q : p = c.peer /\ q = Proc(c)
    OBVIOUS
  <2>3. c.pc = "talk" => Paired(p, q)'
    BY <2>1, <2>2, Kept
  <2>4. Proc(c) = Proc(c)'
    BY DEF Proc
  <2>5. QED
    BY <2>2, <2>3, <2>4
<1>3. c.pc = "connect" => Match(c, c.addr)' /\ c.addr.user = c.to
  BY <1>1 DEF Linked
<1>4. \A i \in 1..Len(c.queue) : Match(c, c.queue[i])'
  BY <1>1 DEF Linked
<1>5. c.pc \in {"accepted", "dellocal", "delremote", "edit", "talk"} => Match(c, c.peer)'
  BY <1>1 DEF Linked
<1>6. QED
  BY <1>2, <1>3, <1>4, <1>5 DEF Linked

\* A client that has not got further with its connection.
LEMMA LinkedSame ==
    ASSUME NEW a, Linked(a), NEW c,
           c.user = a.user, c.n = a.n, c.to = a.to, c.queue = a.queue \/ c.queue = <<>>,
           c.pc = "connect" => a.pc = "connect" /\ c.addr = a.addr,
           c.pc \in {"accepted", "dellocal", "delremote", "edit"} =>
               /\ a.pc \in {"accepted", "dellocal", "delremote", "edit"}
               /\ c.peer = a.peer,
           c.pc = "talk" => a.pc = "talk" /\ c.peer = a.peer
    PROVE  Linked(c)
<1>1. \A p : Match(a, p) <=> Match(c, p)
  BY DEF Match
<1>2. c.pc = "talk" => Paired(c.peer, Proc(c))
  BY DEF Linked, Proc
<1>3. c.pc = "connect" => Match(c, c.addr) /\ c.addr.user = c.to
  BY <1>1 DEF Linked
<1>4. \A i \in 1..Len(c.queue) : Match(c, c.queue[i])
  BY <1>1 DEF Linked
<1>5. c.pc \in {"accepted", "dellocal", "delremote", "edit", "talk"} => Match(c, c.peer)
  BY <1>1 DEF Linked
<1>6. QED
  BY <1>2, <1>3, <1>4, <1>5 DEF Linked

\* A step that the clients take, in which nobody's invitation gets lost.
LEMMA ClientsKeep ==
    ASSUME TalkInv, DaemonType', NetType', ClientType',
           \A v \in Users : Follows(cl[v], cl'[v]),
           \A v \in Users : cl'[v] = cl[v] \/ Linked(cl[v])',
           \A m \in Machines : \A i \in 1..Len(tab'[m]) :
               Genuine(tab[m][i].proc)' \/ \E k \in 1..Len(tab[m]) : tab'[m][i].proc = tab[m][k].proc,
           \A q \in reqs' : q \in reqs \/ Genuine(q.proc)',
           \A r \in resps' :
               r.type = "LOOK_UP" /\ r.answer = "SUCCESS" =>
                  Invites(r.addr, r.to),
           \A w \in wrote' : w \in wrote \/ (Genuine(w[1]) /\ Paired(w[1], w[2]))'
    PROVE  TalkInv'
<1>0. /\ ClientType /\ \A u \in Users : Linked(cl[u])
      /\ Invited /\ Written
  BY DEF TalkInv
<1>k. \A p : Genuine(p) => Genuine(p)' /\ \A q : Paired(p, q) => Paired(p, q)'
  BY <1>0, Kept
<1>1. ASSUME NEW v \in Users PROVE Linked(cl[v])'
  <2>1. CASE cl'[v] = cl[v]
    <3>1. PICK c : c = cl[v]
      OBVIOUS
    <3>2. Linked(c)
      BY <1>0, <3>1
    <3>3. Linked(c)'
      BY <1>0, <3>2, LinkedKept
    <3>4. QED
      BY <2>1, <3>1, <3>3
  <2>2. QED
    BY <2>1
<1>2. Invited'
  <2>1. ASSUME NEW m \in Machines, NEW i \in 1..Len(tab'[m])
        PROVE  Genuine(tab[m][i].proc)'
    <3>1. CASE \E k \in 1..Len(tab[m]) : tab'[m][i].proc = tab[m][k].proc
      <4>1. PICK k \in 1..Len(tab[m]) : tab'[m][i].proc = tab[m][k].proc
        BY <3>1
      <4>2. PICK p : p = tab[m][k].proc
        OBVIOUS
      <4>3. Genuine(p)'
        BY <1>0, <1>k, <4>2 DEF Invited
      <4>4. QED
        BY <4>1, <4>2, <4>3
    <3>2. QED
      BY <3>1
  <2>2. ASSUME NEW q \in reqs' PROVE Genuine(q.proc)'
    BY <1>0, <1>k DEF Invited
  <2>3. QED
    BY <2>1, <2>2 DEF Invited
<1>3. Found'
  BY <1>k DEF Found, Invites
<1>4. Written'
  BY <1>0, <1>k DEF Written
<1>5. QED
  BY <1>1, <1>2, <1>3, <1>4 DEF TalkInv

\* The processes of users are recorded as what they are.
LEMMA ProcOf ==
    ASSUME NEW c \in Client, c.pc # "idle" => c.n > 0 /\ c.to \in Users
    PROVE  /\ Proc(c).user = c.user /\ Proc(c).n = c.n /\ Proc(c).to = c.to
           /\ c.pc # "idle" => Proc(c) \in RealProcs
  BY TalkAssumption DEF Proc, Client, RealProcs

\* A step of one client, which becomes c, sends requests and writes to its peer.
LEMMA OneClient ==
    ASSUME TalkInv, NEW u \in Users, NEW c \in Client, c.user = u, cl' = [cl EXCEPT ![u] = c],
           used' \in Used, used.calls <= used'.calls, c.n <= used'.calls,
           c.pc # "idle" => c.n > 0 /\ c.to \in Users \ {u},
           Follows(cl[u], c), Linked(c) \/ Linked(c)', UNCHANGED <<tab, id>>,
           \A q \in reqs' :
               \/ q \in reqs
               \/ q \in Req /\ c.pc # "idle" /\ q.proc = Proc(c)
               \/ q \in Req /\ cl[u].pc # "idle" /\ q.proc = P(u),
           resps' \subseteq resps,
           \A w \in wrote' : w \in wrote \/ (w = <<Proc(c), c.peer>> /\ c.pc = "edit")
    PROVE  TalkInv'
<1>0. /\ DaemonType /\ NetType /\ ClientType /\ Invited /\ Found
  BY DEF TalkInv
<1>1. /\ cl'[u] = c /\ \A v \in Users : v # u => cl'[v] = cl[v]
      /\ cl' \in [Users -> Client] /\ cl \in [Users -> Client]
  BY <1>0 DEF ClientType
<1>2. ClientType'
  <2>1. ASSUME NEW v \in Users
        PROVE  /\ cl'[v].user = v /\ cl'[v].n <= used'.calls
               /\ cl'[v].pc # "idle" => cl'[v].n > 0 /\ cl'[v].to \in Users \ {v}
    <3>1. CASE v = u
      BY <1>1, <3>1
    <3>2. CASE v # u
      <4>1. cl'[v] = cl[v] /\ cl[v].n \in Nat /\ used.calls \in Nat /\ used'.calls \in Nat
        BY <1>0, <1>1, <3>2 DEF ClientType, Client, Used
      <4>2. QED
        BY <1>0, <4>1 DEF ClientType
    <3>3. QED
      BY <3>1, <3>2
  <2>2. QED
    BY <1>1, <2>1 DEF ClientType
<1>3. \A v \in Users : Follows(cl[v], cl'[v])
  BY <1>1 DEF Follows
<1>4. Linked(c)'
  <2>1. Linked(c) => Linked(c)'
    BY <1>0, <1>2, <1>3, LinkedKept
  <2>2. QED
    BY <2>1
<1>k. \A p : Genuine(p) => Genuine(p)'
  BY <1>0, <1>2, <1>3, Kept
<1>5. c.pc # "idle" => Genuine(Proc(c))'
  <2>1. PICK p : p = Proc(c)
    OBVIOUS
  <2>2. SUFFICES ASSUME c.pc # "idle" PROVE Genuine(p)'
    BY <2>1 DEF Proc
  <2>3. p.user = u /\ p.n = c.n /\ p.to = c.to /\ p \in RealProcs
    BY <2>1, <2>2, ProcOf
  <2>4. c.n \in Nat
    BY DEF Client
  <2>5. QED
    BY <1>1, <2>3, <2>4 DEF Genuine, Current
<1>6. cl[u].pc # "idle" => Genuine(P(u))
  <2>1. SUFFICES ASSUME cl[u].pc # "idle" PROVE Genuine(P(u))
    OBVIOUS
  <2>2. cl[u] \in Client /\ cl[u].n > 0 /\ cl[u].to \in Users /\ cl[u].user = u /\ cl[u].n \in Nat
    BY <1>0, <1>1, <2>1 DEF ClientType, Client
  <2>3. P(u).user = u /\ P(u).n = cl[u].n /\ P(u).to = cl[u].to /\ P(u) \in RealProcs
    BY <2>1, <2>2, ProcOf DEF P
  <2>4. QED
    BY <2>2, <2>3 DEF Genuine, Current
<1>7. \A q \in reqs' : q \in reqs \/ Genuine(q.proc)'
  <2>1. ASSUME NEW q \in reqs', q \notin reqs PROVE Genuine(q.proc)'
    <3>1. PICK p : p = q.proc
      OBVIOUS
    <3>2. CASE c.pc # "idle" /\ q.proc = Proc(c)
      <4>1. Proc(c)' = Proc(c)
        BY DEF Proc
      <4>2. QED
        BY <1>5, <3>2, <4>1
    <3>3. CASE cl[u].pc # "idle" /\ q.proc = P(u)
      <4>1. Genuine(p)
        BY <1>6, <3>1, <3>3
      <4>2. QED
        BY <1>k, <3>1, <4>1
    <3>4. QED
      BY <2>1, <3>2, <3>3
  <2>2. QED
    BY <2>1
<1>8. \A w \in wrote' : w \in wrote \/ (Genuine(w[1]) /\ Paired(w[1], w[2]))'
  <2>1. ASSUME NEW w \in wrote', w \notin wrote PROVE (Genuine(w[1]) /\ Paired(w[1], w[2]))'
    <3>1. PICK p, q : p = Proc(c) /\ q = c.peer
      OBVIOUS
    <3>2. w[1] = p /\ w[2] = q /\ c.pc = "edit" /\ p.user = u
      BY <2>1, <3>1, ProcOf
    <3>3. Genuine(p)'
      <4>1. Proc(c)' = Proc(c)
        BY DEF Proc
      <4>2. QED
        BY <1>5, <3>1, <3>2, <4>1
    <3>4. Paired(p, q)'
      BY <1>1, <3>1, <3>2 DEF Paired
    <3>5. QED
      BY <3>2, <3>3, <3>4
  <2>2. QED
    BY <2>1
<1>9. NetType'
  <2>1. c.pc = "edit" => <<Proc(c), c.peer>> \in RealProcs \X Procs
    BY ProcOf DEF Client
  <2>2. wrote' \subseteq RealProcs \X Procs
    BY <1>0, <2>1 DEF NetType
  <2>3. reqs' \subseteq Req /\ resps' \subseteq Resp
    BY <1>0 DEF NetType
  <2>4. QED
    BY <2>2, <2>3 DEF NetType
<1>10. DaemonType'
  BY <1>0 DEF DaemonType
<1>11. \A v \in Users : cl'[v] = cl[v] \/ Linked(cl[v])'
  BY <1>1, <1>4
<1>12. \A m \in Machines : \A i \in 1..Len(tab'[m]) :
          \E k \in 1..Len(tab[m]) : tab'[m][i].proc = tab[m][k].proc
  OBVIOUS
<1>13. \A r \in resps' :
          r.type = "LOOK_UP" /\ r.answer = "SUCCESS" =>
             Invites(r.addr, r.to)
  BY <1>0 DEF Found
<1>14. QED
  BY <1>2, <1>3, <1>7, <1>8, <1>9, <1>10, <1>11, <1>12, <1>13, ClientsKeep

\* The request of a client, and what it withdraws when it ends.
LEMMA Requests ==
    ASSUME NEW c \in Client, c.pc # "idle" => c.n > 0 /\ c.to \in Users
    PROVE  /\ Transacting(c) => Request(c) \in Req /\ Request(c).proc = Proc(c) /\ c.pc # "idle"
           /\ c.pc # "idle" => \A q \in Withdrawals(c) : q \in Req /\ q.proc = Proc(c)
<1>1. MaxId \in Nat /\ MaxId > 1 /\ \A u \in Users : Host[u] \in Machines
  BY TalkAssumption
<1>2. c.user \in Users /\ c.mid \in 0..MaxId /\ c.lid \in 0..MaxId /\ c.rid \in 0..MaxId
  BY <1>1 DEF Client, Ids
<1>3. MsgId(c) \in 0..MaxId
  BY <1>1, <1>2 DEF MsgId
<1>4. Transacting(c) => c.pc # "idle" /\ Asks[c.pc] \in Types
  BY DEF Transacting, Asks, Types
<1>t. c.pc # "idle" => Proc(c).user = c.user /\ Proc(c).to = c.to /\ Proc(c) \in RealProcs
  BY ProcOf
<1>5. Transacting(c) => Request(c) \in Req /\ Request(c).proc = Proc(c)
  <2>1. SUFFICES ASSUME Transacting(c) PROVE Request(c) \in Req /\ Request(c).proc = Proc(c)
    OBVIOUS
  <2>2. Proc(c) \in RealProcs
    BY <1>4, <2>1, ProcOf
  <2>3. (IF c.pc \in {"leave", "dellocal"} THEN Host[c.user] ELSE Host[c.to]) \in Machines
    BY <1>1, <1>2, <1>4, <2>1
  <2>4. QED
    <3>1. Request(c) \in [type : Types, proc : RealProcs, id : 0..MaxId, to : Machines]
          /\ Request(c).proc = Proc(c)
      BY <1>3, <1>4, <2>1, <2>2, <2>3 DEF Request
    <3>2. Directed(Request(c))
      BY <1>4, <1>t, <2>1 DEF Request, Directed, Placed, Transacting, Asks
    <3>3. QED
      BY <3>1, <3>2 DEF Req
<1>6. c.pc # "idle" => \A q \in Withdrawals(c) : q \in Req /\ q.proc = Proc(c)
  BY <1>1, <1>2, <1>t DEF Withdrawals, Req, Types, Directed, Placed
<1>7. QED
  BY <1>4, <1>5, <1>6

LEMMA GoOnStep ==
    ASSUME TalkInv, NEW u \in Users, NEW c \in Client, c.user = u, GoOn(c),
           used' \in Used, used.calls <= used'.calls, c.n <= used'.calls,
           c.pc # "idle" => c.n > 0 /\ c.to \in Users \ {u},
           Follows(cl[u], c), Linked(c), UNCHANGED <<tab, id>>,
           resps' \subseteq resps,
           \A w \in wrote' : w \in wrote \/ (w = <<Proc(c), c.peer>> /\ c.pc = "edit")
    PROVE  TalkInv'
<1>1. cl' = [cl EXCEPT ![u] = c]
  BY DEF GoOn
<1>2. \A q \in reqs' : q \in reqs \/ (q \in Req /\ c.pc # "idle" /\ q.proc = Proc(c))
  BY Requests DEF GoOn
<1>3. QED
  BY <1>1, <1>2, OneClient

\* What the invariant says of one client.
LEMMA ClientFacts ==
    ASSUME TalkInv, NEW u \in Users
    PROVE  /\ cl[u] \in Client /\ cl[u].user = u /\ cl[u].n \in Nat /\ used \in Used
           /\ used.calls \in Nat /\ cl[u].n <= used.calls /\ Linked(cl[u])
           /\ cl[u].pc # "idle" => cl[u].n > 0 /\ cl[u].to \in Users \ {u}
           /\ DOMAIN cl = Users
  BY DEF TalkInv, ClientType, Client, Used

LEMMA MishapKeeps ==
    ASSUME used \in Used, NEW k, Mishap(k) \/ UNCHANGED used
    PROVE  used' \in Used /\ used'.calls = used.calls
<1>1. CASE UNCHANGED used
  BY <1>1
<1>2. CASE Mishap(k)
  <2>1. PICK b \in BOOLEAN : b <=> used.restarted \/ k = "restart"
    BY Zenon
  <2>2. used' = [used EXCEPT !.mishaps = @ + 1, !.restarted = b]
    <3>1. (used.restarted \/ k = "restart") \in BOOLEAN
      OBVIOUS
    <3>2. (used.restarted \/ k = "restart") = b
      BY <2>1, <3>1, Zenon
    <3>3. QED
      BY <1>2, <3>2, Zenon DEF Mishap
  <2>3. \A x \in Used : /\ [x EXCEPT !.mishaps = @ + 1, !.restarted = b] \in Used
                       /\ [x EXCEPT !.mishaps = @ + 1, !.restarted = b].calls = x.calls
    <3> SUFFICES ASSUME NEW x \in Used
                 PROVE  /\ [x EXCEPT !.mishaps = @ + 1, !.restarted = b] \in Used
                        /\ [x EXCEPT !.mishaps = @ + 1, !.restarted = b].calls = x.calls
      OBVIOUS
    <3> DEFINE y == [x EXCEPT !.mishaps = @ + 1]
    <3>1. y \in Used /\ y.calls = x.calls
      BY DEF Used
    <3> HIDE DEF y
    <3>2. [y EXCEPT !.restarted = b] \in Used /\ [y EXCEPT !.restarted = b].calls = y.calls
      BY <3>1 DEF Used
    <3>3. QED
      BY <3>1, <3>2 DEF y
  <2>4. QED
    BY <2>2, <2>3
<1>3. QED
  BY <1>1, <1>2

LEMMA QuitStep ==
    ASSUME TalkInv, NEW u \in Users, cl[u].pc # "idle",
           NEW c \in Client, c.user = u, c.n = cl[u].n, c.to = cl[u].to, c.pc = cl[u].pc,
           quit(c), used' \in Used, used.calls <= used'.calls, UNCHANGED <<tab, id>>
    PROVE  TalkInv'
<1>0. PICK d : d = [Idle(u) EXCEPT !.n = c.n]
  OBVIOUS
<1>1. /\ cl[u].n \in Nat /\ used.calls \in Nat /\ used'.calls \in Nat
      /\ cl[u].n <= used.calls /\ cl[u].n > 0 /\ cl[u].to \in Users /\ cl[u] \in Client
      /\ cl[u].user = u
  BY ClientFacts DEF Used
<1>2. d \in Client /\ d.user = u /\ d.n = cl[u].n /\ d.pc = "idle" /\ d.queue = <<>>
  <2>1. 0 \in Ids /\ 0 \in 0..MaxId
    BY TalkAssumption DEF Ids
  <2>2. None \in Procs /\ <<>> \in Seq(RealProcs)
    BY DEF Procs
  <2>3. c.n \in 0..MaxCalls
    BY DEF Client
  <2>4. QED
    BY <1>0, <2>1, <2>2, <2>3 DEF Idle, Client, Pcs
<1>3. cl' = [cl EXCEPT ![u] = d]
  BY <1>0 DEF quit
<1>4. Follows(cl[u], d)
  BY <1>1, <1>2 DEF Follows
<1>5. Linked(d)
  BY <1>2 DEF Linked
<1>6. Proc(c) = P(u)
  BY <1>1 DEF Proc, P
<1>7. \A q \in reqs' : q \in reqs \/ (q \in Req /\ q.proc = P(u))
  BY <1>1, <1>6, Requests DEF quit
<1>8. resps' \subseteq resps /\ wrote' \subseteq wrote
  BY DEF quit
<1>9. d.n <= used'.calls
  BY <1>1, <1>2
<1>10. \A q \in reqs' : \/ q \in reqs
                        \/ q \in Req /\ d.pc # "idle" /\ q.proc = Proc(d)
                        \/ q \in Req /\ cl[u].pc # "idle" /\ q.proc = P(u)
  BY <1>7
<1>11. \A w \in wrote' : w \in wrote \/ (w = <<Proc(d), d.peer>> /\ d.pc = "edit")
  BY <1>8
<1>12. QED
  BY <1>2, <1>3, <1>4, <1>5, <1>8, <1>9, <1>10, <1>11, OneClient

\* A client that only goes on to a state without a new peer.
LEMMA PlainStep ==
    ASSUME TalkInv, NEW u \in Users, cl[u].pc # "idle", NEW c \in Client, GoOn(c),
           c.user = u, c.n = cl[u].n, c.to = cl[u].to, c.queue = cl[u].queue \/ c.queue = <<>>,
           c.pc # "idle", c.pc = "connect" => cl[u].pc = "connect" /\ c.addr = cl[u].addr,
           c.pc \in {"accepted", "dellocal", "delremote", "edit"} =>
               cl[u].pc \in {"accepted", "dellocal", "delremote", "edit"},
           cl[u].pc \in {"edit", "talk"} => c.pc = cl[u].pc,
           c.pc = "talk" => cl[u].pc = "talk",
           c.peer = cl[u].peer \/ c.pc = "announce", used' \in Used, used'.calls = used.calls,
           UNCHANGED <<tab, id>>, resps' \subseteq resps,
           \A w \in wrote' : w \in wrote \/ (w = <<Proc(c), c.peer>> /\ c.pc = "edit")
    PROVE  TalkInv'
<1>1. /\ cl[u].n \in Nat /\ used.calls \in Nat /\ cl[u].n <= used.calls /\ Linked(cl[u])
      /\ cl[u].n > 0 /\ cl[u].to \in Users \ {u} /\ cl[u].user = u
  BY ClientFacts
<1>2. Linked(c)
  BY <1>1, LinkedSame
<1>3. Follows(cl[u], c)
  BY <1>1 DEF Follows
<1>4. QED
  BY <1>1, <1>2, <1>3, GoOnStep

LEMMA CallStep ==
    ASSUME TalkInv, NEW u \in Users, NEW v \in Callees[u], Call(u, v)
    PROVE  TalkInv'
<1> DEFINE c == [Idle(u) EXCEPT !.n = cl[u].n + 1, !.to = v, !.pc = "lookup"]
<1>1. /\ cl[u].n \in Nat /\ used.calls \in Nat /\ cl[u].n <= used.calls /\ used \in Used
      /\ cl[u].user = u
  BY ClientFacts
<1>2. /\ used' = [used EXCEPT !.calls = @ + 1] /\ used.calls < MaxCalls /\ GoOn(c)
      /\ UNCHANGED <<tab, id, resps, wrote>>
  BY DEF Call
<1>3. used' \in Used /\ used'.calls = used.calls + 1 /\ MaxCalls \in Nat
  <2>1. MaxCalls \in Nat
    BY TalkAssumption
  <2>2. QED
    BY <1>1, <1>2, <2>1 DEF Used
<1>4. v \in Users /\ v # u
  <2>1. Callees \in [Users -> SUBSET Users] /\ \A w \in Users : w \notin Callees[w]
    BY TalkAssumption, Zenon
  <2>2. QED
    BY <2>1
<1>5. /\ c \in Client /\ c.user = u /\ c.n = cl[u].n + 1 /\ c.pc = "lookup" /\ c.to = v
      /\ c.queue = <<>>
  <2>1. 0 \in Ids /\ 0 \in 0..MaxId
    BY TalkAssumption DEF Ids
  <2>2. None \in Procs /\ <<>> \in Seq(RealProcs)
    BY DEF Procs
  <2>3. cl[u].n + 1 \in 0..MaxCalls
    BY <1>1, <1>2, <1>3
  <2>4. QED
    BY <1>4, <2>1, <2>2, <2>3 DEF Idle, Client, Pcs
<1> HIDE DEF c
<1>6. Follows(cl[u], c) /\ Linked(c)
  BY <1>1, <1>5 DEF Follows, Linked
<1>7. c.n <= used'.calls /\ used.calls <= used'.calls /\ c.n > 0
  BY <1>1, <1>3, <1>5
<1>8. QED
  BY <1>2, <1>3, <1>4, <1>5, <1>6, <1>7, GoOnStep

\* The steps of a client that has no connection yet, or waits for an answer.
LEMMA WaitStep ==
    ASSUME TalkInv, NEW u \in Users, Repeat(u) \/ Interrupted(u) \/ Discard(u) \/ re_invite(u)
    PROVE  TalkInv'
<1>1. /\ cl[u] \in Client /\ cl[u].user = u /\ cl[u].n \in Nat /\ used \in Used
      /\ used.calls \in Nat /\ cl[u].n <= used.calls /\ Linked(cl[u])
      /\ cl[u].pc # "idle" => cl[u].n > 0 /\ cl[u].to \in Users \ {u}
  BY ClientFacts
<1>2. CASE Repeat(u)
  <2>1. Transacting(cl[u]) /\ GoOn(cl[u]) /\ UNCHANGED <<tab, id, resps, wrote>>
    BY <1>2 DEF Repeat
  <2>2. used' \in Used /\ used'.calls = used.calls
    BY <1>1, <1>2, MishapKeeps DEF Repeat
  <2>3. cl[u].pc \notin {"idle", "edit", "talk"}
    BY <2>1 DEF Transacting, Asks
  <2>4. PICK c : c = cl[u]
    OBVIOUS
  <2>5. QED
    BY <1>1, <2>1, <2>2, <2>3, <2>4, PlainStep
<1>3. CASE Interrupted(u)
  <2>1. PICK c : c = [cl[u] EXCEPT !.deaf = TRUE]
    OBVIOUS
  <2>2. /\ c \in Client /\ c.user = u /\ c.n = cl[u].n /\ c.to = cl[u].to /\ c.pc = cl[u].pc
        /\ c.queue = cl[u].queue /\ c.addr = cl[u].addr /\ c.peer = cl[u].peer
    BY <1>1, <2>1 DEF Client
  <2>3. cl' = [cl EXCEPT ![u] = c] /\ UNCHANGED <<tab, id, reqs, resps, wrote>>
    BY <1>3, <2>1 DEF Interrupted
  <2>4. used' \in Used /\ used'.calls = used.calls
    BY <1>1, <1>3, MishapKeeps DEF Interrupted
  <2>5. cl[u].pc \notin {"idle", "edit", "talk"}
    BY <1>3 DEF Interrupted, Transacting, Asks
  <2>6. Linked(c) /\ Follows(cl[u], c)
    <3>1. Linked(c)
      BY <1>1, <2>2, LinkedSame
    <3>2. Follows(cl[u], c)
      BY <1>1, <2>2 DEF Follows
    <3>3. QED
      BY <3>1, <3>2
  <2>7. /\ c.n <= used'.calls /\ used.calls <= used'.calls
        /\ c.pc # "idle" => c.n > 0 /\ c.to \in Users \ {u}
        /\ UNCHANGED <<tab, id>> /\ resps' \subseteq resps
    BY <1>1, <2>2, <2>3, <2>4
  <2>8. \A q \in reqs' : \/ q \in reqs
                         \/ q \in Req /\ c.pc # "idle" /\ q.proc = Proc(c)
                         \/ q \in Req /\ cl[u].pc # "idle" /\ q.proc = P(u)
    BY <2>3
  <2>9. \A w \in wrote' : w \in wrote \/ (w = <<Proc(c), c.peer>> /\ c.pc = "edit")
    BY <2>3
  <2>10. QED
    BY <2>2, <2>3, <2>4, <2>6, <2>7, <2>8, <2>9, OneClient
<1>4. CASE Discard(u)
  <2>1. PICK r \in Answers(u) :
           /\ Transacting(cl[u]) /\ resps' = resps \ {r} /\ UNCHANGED <<tab, id, wrote, used>>
           /\ GoOn([cl[u] EXCEPT !.deaf = FALSE]) \/ UNCHANGED <<cl, reqs>>
    BY <1>4 DEF Discard
  <2>2. cl[u].pc \notin {"idle", "edit", "talk"}
    BY <2>1 DEF Transacting, Asks
  <2>3. CASE GoOn([cl[u] EXCEPT !.deaf = FALSE])
    <3>1. PICK c : c = [cl[u] EXCEPT !.deaf = FALSE]
      OBVIOUS
    <3>2. /\ c \in Client /\ c.user = u /\ c.n = cl[u].n /\ c.to = cl[u].to /\ c.pc = cl[u].pc
          /\ c.queue = cl[u].queue /\ c.addr = cl[u].addr /\ c.peer = cl[u].peer
      BY <1>1, <3>1 DEF Client
    <3>3. GoOn(c)
      BY <2>3, <3>1
    <3>4. QED
      BY <1>1, <2>1, <2>2, <3>2, <3>3, PlainStep
  <2>4. CASE UNCHANGED <<cl, reqs>>
    <3>1. PICK c : c = cl[u]
      OBVIOUS
    <3>2. cl' = [cl EXCEPT ![u] = c]
      <4>1. cl \in [Users -> Client]
        BY DEF TalkInv, ClientType
      <4>2. QED
        BY <2>4, <3>1, <4>1
    <3>3. Follows(cl[u], c)
      BY <1>1, <3>1 DEF Follows
    <3>4. /\ c \in Client /\ c.user = u /\ c.n <= used'.calls /\ used.calls <= used'.calls
          /\ c.pc # "idle" => c.n > 0 /\ c.to \in Users \ {u}
          /\ UNCHANGED <<tab, id>> /\ resps' \subseteq resps /\ used' \in Used /\ Linked(c)
      BY <1>1, <2>1, <2>4, <3>1
    <3>5. \A q \in reqs' : \/ q \in reqs
                           \/ q \in Req /\ c.pc # "idle" /\ q.proc = Proc(c)
                           \/ q \in Req /\ cl[u].pc # "idle" /\ q.proc = P(u)
      BY <2>4
    <3>6. \A w \in wrote' : w \in wrote \/ (w = <<Proc(c), c.peer>> /\ c.pc = "edit")
      BY <2>1
    <3>7. QED
      BY <3>2, <3>3, <3>4, <3>5, <3>6, OneClient
  <2>5. QED
    BY <2>1, <2>3, <2>4
<1>5. CASE re_invite(u)
  <2>s. PICK shut \in BOOLEAN : GoOn(Rung(cl[u], shut))
    BY <1>5 DEF re_invite
  <2>1. PICK c : c = Rung(cl[u], shut)
    OBVIOUS
  <2>2. /\ c \in Client /\ c.user = u /\ c.n = cl[u].n /\ c.to = cl[u].to
        /\ c.pc = "announce" /\ (c.queue = cl[u].queue \/ c.queue = <<>>)
    <3>1. cl[u].rid \in Ids /\ MaxId \in Nat
      BY <1>1, TalkAssumption DEF Client
    <3>2. cl[u].rid + 1 \in 0..MaxId
      BY <3>1 DEF Ids
    <3>3. PICK q, m : q = (IF shut THEN <<>> ELSE cl[u].queue) /\ m = cl[u].rid + 1
      OBVIOUS
    <3>4. q \in Seq(RealProcs) /\ (q = cl[u].queue \/ q = <<>>)
      <4>1. <<>> \in Seq(RealProcs) /\ cl[u].queue \in Seq(RealProcs)
        BY <1>1 DEF Client
      <4>2. QED
        BY <3>3, <4>1
    <3>5. PICK b : b = [cl[u] EXCEPT !.mid = m, !.queue = q, !.leaked = cl[u].peer]
      OBVIOUS
    <3>6. b \in Client /\ b.user = u /\ b.n = cl[u].n /\ b.to = cl[u].to /\ b.queue = q
      BY <1>1, <3>2, <3>3, <3>4, <3>5 DEF Client
    <3>7. c = [b EXCEPT !.rang = TRUE, !.pc = "announce", !.peer = None, !.shut = shut]
      BY <1>1, <2>1, <3>3, <3>5 DEF Rung, Client
    <3>8. None \in Procs
      BY DEF Procs
    <3>9. QED
      BY <3>4, <3>6, <3>7, <3>8 DEF Client, Pcs
  <2>3. /\ cl[u].pc \in {"accept", "accepted"} /\ GoOn(c) /\ UNCHANGED <<tab, id, resps, wrote>>
    BY <1>5, <2>s, <2>1 DEF re_invite
  <2>4. used' \in Used /\ used'.calls = used.calls
    BY <1>1, <1>5, MishapKeeps DEF re_invite
  <2>5. QED
    BY <1>1, <2>2, <2>3, <2>4, PlainStep
<1>6. QED
  BY <1>2, <1>3, <1>4, <1>5

LEMMA EndStep ==
    ASSUME TalkInv, NEW u \in Users, HangUp(u) \/ Interrupt(u) \/ AcceptFails(u)
    PROVE  TalkInv'
<1>1. cl[u] \in Client /\ cl[u].user = u /\ used \in Used /\ used.calls \in Nat
  BY ClientFacts
<1>2. cl[u].pc # "idle" /\ quit(cl[u]) /\ UNCHANGED <<tab, id>>
  BY DEF HangUp, Interrupt, AcceptFails
<1>3. used' \in Used /\ used'.calls = used.calls
  BY <1>1, MishapKeeps DEF HangUp, Interrupt, AcceptFails
<1>4. PICK c : c = cl[u]
  OBVIOUS
<1>5. QED
  BY <1>1, <1>2, <1>3, <1>4, QuitStep

\* ctl_transact returns.
LEMMA AnsweredStep ==
    ASSUME TalkInv, NEW u \in Users, Answered(u)
    PROVE  TalkInv'
<1>1. /\ cl[u] \in Client /\ cl[u].user = u /\ cl[u].n \in Nat /\ used \in Used
      /\ used.calls \in Nat /\ cl[u].n <= used.calls /\ Linked(cl[u])
      /\ cl[u].pc # "idle" => cl[u].n > 0 /\ cl[u].to \in Users \ {u}
  BY ClientFacts
<1>2. PICK r \in Answers(u) :
         /\ Transacting(cl[u]) /\ r.type = Asks[cl[u].pc] /\ UNCHANGED <<tab, id, used>>
         /\ IF cl[u].pc = "announce" /\ r.answer # "SUCCESS"
            THEN quit([cl[u] EXCEPT !.rid = r.id])
            ELSE \E c \in {AfterAnswer([cl[u] EXCEPT !.deaf = FALSE], r)} :
                    GoOn(c) /\ resps' = resps \ {r} /\ wrote' = wrote \cup Writes(c)
  BY DEF Answered
<1>3. r \in resps /\ r \in Resp /\ r.to = P(u) /\ r.id \in Ids /\ r.id \in 0..MaxId /\ r.addr \in Procs
  <2>1. r \in resps /\ r \in Resp /\ r.to = P(u)
    BY DEF Answers, TalkInv, NetType
  <2>2. QED
    BY <2>1, TalkAssumption DEF Resp, Ids
<1>4. cl[u].pc \in {"lookup", "delstale", "announce", "leave", "dellocal", "delremote"}
  BY <1>2 DEF Transacting, Asks
<1>5. CASE cl[u].pc = "announce" /\ r.answer # "SUCCESS"
  <2>1. PICK c : c = [cl[u] EXCEPT !.rid = r.id]
    OBVIOUS
  <2>2. /\ c \in Client /\ c.user = u /\ c.n = cl[u].n /\ c.to = cl[u].to /\ c.pc = cl[u].pc
    BY <1>1, <1>3, <2>1 DEF Client
  <2>3. quit(c)
    BY <1>2, <1>5, <2>1
  <2>4. QED
    BY <1>1, <1>2, <1>4, <2>2, <2>3, QuitStep
<1>6. CASE ~(cl[u].pc = "announce" /\ r.answer # "SUCCESS")
  <2>1. PICK b : b = [cl[u] EXCEPT !.deaf = FALSE]
    OBVIOUS
  <2>2. /\ b \in Client /\ b.user = u /\ b.n = cl[u].n /\ b.to = cl[u].to /\ b.pc = cl[u].pc
        /\ b.queue = cl[u].queue /\ b.addr = cl[u].addr /\ b.peer = cl[u].peer
    BY <1>1, <2>1 DEF Client
  <2>3. PICK c : /\ c = AfterAnswer(b, r)
                 /\ GoOn(c) /\ resps' = resps \ {r} /\ wrote' = wrote \cup Writes(c)
    BY <1>2, <1>6, <2>1
  <2>4. \A w \in wrote' : w \in wrote \/ (w = <<Proc(c), c.peer>> /\ c.pc = "edit")
    BY <2>3 DEF Writes
  <2>5. CASE b.pc = "lookup" /\ r.answer = "SUCCESS"
    <3>1. c = [b EXCEPT !.mid = r.id, !.addr = r.addr, !.pc = "connect"]
      BY <2>3, <2>5 DEF AfterAnswer
    <3>2. /\ c \in Client /\ c.user = u /\ c.n = cl[u].n /\ c.to = cl[u].to
          /\ c.pc = "connect" /\ c.queue = cl[u].queue /\ c.addr = r.addr
      BY <1>3, <2>2, <3>1 DEF Client, Pcs
    <3>3. /\ Genuine(r.addr) /\ r.addr.user = cl[u].to /\ Namesake(r.addr.to, u)
      <4>1. r.type = "LOOK_UP"
        BY <1>2, <2>2, <2>5 DEF Asks
      <4>2. P(u).to = cl[u].to /\ P(u).user = u
        BY <1>1 DEF P, Proc
      <4>3. QED
        BY <1>3, <2>5, <4>1, <4>2 DEF TalkInv, Found, Invites
    <3>4. Linked(c)
      <4>1. \A p : Match(cl[u], p) <=> Match(c, p)
        BY <1>1, <3>2 DEF Match
      <4>2. Match(c, c.addr)
        BY <3>2, <3>3 DEF Match, Namesake
      <4>3. QED
        BY <1>1, <3>2, <3>3, <4>1, <4>2 DEF Linked
    <3>5. Follows(cl[u], c)
      BY <1>1, <1>4, <3>2 DEF Follows
    <3>6. QED
      BY <1>1, <1>2, <1>4, <2>3, <2>4, <3>2, <3>4, <3>5, GoOnStep
  <2>6. CASE ~(b.pc = "lookup" /\ r.answer = "SUCCESS")
    <3>1. \/ b.pc \in {"lookup", "delstale"} /\ c = [b EXCEPT !.mid = MaxId, !.waiting = TRUE, !.pc = "announce"]
          \/ b.pc = "announce" /\ c = [b EXCEPT !.rid = r.id, !.pc = "leave"]
          \/ b.pc = "leave" /\ c = [b EXCEPT !.lid = r.id, !.pc = "accept"]
          \/ b.pc = "dellocal" /\ c = [b EXCEPT !.pc = "delremote"]
          \/ b.pc = "delremote" /\ c = [b EXCEPT !.waiting = FALSE, !.pc = "edit"]
      BY <1>4, <2>2, <2>3, <2>6 DEF AfterAnswer, Inviting
    <3>2. /\ c \in Client /\ c.user = u /\ c.n = cl[u].n /\ c.to = cl[u].to
          /\ c.queue = cl[u].queue /\ c.peer = cl[u].peer
          /\ c.pc \in {"announce", "leave", "accept", "delremote", "edit"}
          /\ c.pc \in {"delremote", "edit"} => cl[u].pc \in {"dellocal", "delremote"}
      <4>1. MaxId \in 0..MaxId
        BY TalkAssumption
      <4>2. CASE c = [b EXCEPT !.mid = MaxId, !.waiting = TRUE, !.pc = "announce"]
        <5>1. PICK a : a = [b EXCEPT !.waiting = TRUE]
          OBVIOUS
        <5>2. /\ a \in Client /\ a.user = u /\ a.n = b.n /\ a.to = b.to
              /\ a.queue = b.queue /\ a.peer = b.peer
          BY <2>2, <5>1 DEF Client
        <5>3. c = [a EXCEPT !.mid = MaxId, !.pc = "announce"]
          BY <4>2, <5>1
        <5>4. QED
          BY <2>2, <4>1, <5>2, <5>3 DEF Client, Pcs
      <4>3. CASE b.pc = "announce" /\ c = [b EXCEPT !.rid = r.id, !.pc = "leave"]
        BY <1>3, <2>2, <4>3 DEF Client, Pcs
      <4>4. CASE b.pc = "leave" /\ c = [b EXCEPT !.lid = r.id, !.pc = "accept"]
        BY <1>3, <2>2, <4>4 DEF Client, Pcs
      <4>5. CASE b.pc = "dellocal" /\ c = [b EXCEPT !.pc = "delremote"]
        BY <2>2, <4>5 DEF Client, Pcs
      <4>6. CASE b.pc = "delremote" /\ c = [b EXCEPT !.waiting = FALSE, !.pc = "edit"]
        <5>1. PICK a : a = [b EXCEPT !.waiting = FALSE]
          OBVIOUS
        <5>2. /\ a \in Client /\ a.user = u /\ a.n = b.n /\ a.to = b.to
              /\ a.queue = b.queue /\ a.peer = b.peer
          BY <2>2, <5>1 DEF Client
        <5>3. c = [a EXCEPT !.pc = "edit"]
          BY <4>6, <5>1
        <5>4. QED
          BY <2>2, <4>6, <5>2, <5>3 DEF Client, Pcs
      <4>7. QED
        BY <3>1, <4>2, <4>3, <4>4, <4>5, <4>6
    <3>3. QED
      BY <1>1, <1>2, <1>4, <2>3, <2>4, <3>2, PlainStep
  <2>7. QED
    BY <2>5, <2>6
<1>7. QED
  BY <1>5, <1>6

\* The listening socket gives way to the connection.
LEMMA AcceptedStep ==
    ASSUME TalkInv, NEW u \in Users, Accepted(u)
    PROVE  TalkInv'
<1>1. /\ cl[u] \in Client /\ cl[u].user = u /\ used \in Used
  BY ClientFacts
<1>2. PICK c : c = [cl[u] EXCEPT !.queue = <<>>, !.pc = "dellocal"]
  OBVIOUS
<1>3. cl[u].pc = "accepted" /\ GoOn(c) /\ UNCHANGED <<tab, id, resps, wrote, used>>
  BY <1>2 DEF Accepted
<1>4. /\ c \in Client /\ c.user = u /\ c.n = cl[u].n /\ c.to = cl[u].to /\ c.pc = "dellocal"
      /\ c.queue = <<>> /\ c.peer = cl[u].peer
  <2>1. <<>> \in Seq(RealProcs)
    OBVIOUS
  <2>2. QED
    BY <1>1, <1>2, <2>1 DEF Client, Pcs
<1>5. QED
  BY <1>1, <1>3, <1>4, PlainStep

LEMMA AcceptStep ==
    ASSUME TalkInv, NEW u \in Users, Accept(u)
    PROVE  TalkInv'
<1>1. /\ cl[u] \in Client /\ cl[u].user = u /\ cl[u].n \in Nat /\ used \in Used
      /\ used.calls \in Nat /\ cl[u].n <= used.calls /\ Linked(cl[u])
      /\ cl[u].pc # "idle" => cl[u].n > 0 /\ cl[u].to \in Users \ {u}
  BY ClientFacts
<1>2. PICK p : p = Head(cl[u].queue)
  OBVIOUS
<1>2a. PICK q : q = Tail(cl[u].queue)
  OBVIOUS
<1>3. PICK c : c = [cl[u] EXCEPT !.peer = p, !.queue = q, !.pc = "accepted"]
  OBVIOUS
<1>4. cl[u].pc = "accept" /\ cl[u].queue # <<>> /\ GoOn(c) /\ UNCHANGED <<tab, id, resps, wrote, used>>
  BY <1>2, <1>2a, <1>3 DEF Accept
<1>5a. /\ q \in Seq(RealProcs)
       /\ \A i \in 1..Len(q) : i + 1 \in 1..Len(cl[u].queue) /\ q[i] = cl[u].queue[i + 1]
  <2>1. cl[u].queue \in Seq(RealProcs)
    BY <1>1 DEF Client
  <2>2. QED
    BY <1>2a, <1>4, <2>1
<1>5. Match(cl[u], p) /\ p \in RealProcs /\ p \in Procs
  <2>1. cl[u].queue \in Seq(RealProcs)
    BY <1>1 DEF Client
  <2>2. 1 \in 1..Len(cl[u].queue) /\ p = cl[u].queue[1] /\ p \in RealProcs
    BY <1>2, <1>4, <2>1
  <2>3. QED
    BY <1>1, <2>2 DEF Linked, Procs, RealProcs
<1>6. /\ c \in Client /\ c.user = u /\ c.n = cl[u].n /\ c.to = cl[u].to /\ c.pc = "accepted"
      /\ c.queue = q /\ c.peer = p
  BY <1>1, <1>3, <1>5, <1>5a DEF Client, Pcs
<1>7. Linked(c)
  <2>1. \A x : Match(cl[u], x) => Match(c, x)
    BY <1>1, <1>6 DEF Match
  <2>2. \A i \in 1..Len(c.queue) : Match(c, c.queue[i])
    BY <1>1, <1>5a, <1>6, <2>1 DEF Linked
  <2>3. QED
    BY <1>5, <1>6, <2>1, <2>2 DEF Linked
<1>8. Follows(cl[u], c)
  BY <1>1, <1>4, <1>6 DEF Follows
<1>9. QED
  BY <1>1, <1>4, <1>6, <1>7, <1>8, GoOnStep

\* The edit characters that arrive are those of the process that has this one
\* for its peer.
LEMMA EditCharsStep ==
    ASSUME TalkInv, NEW u \in Users, EditChars(u)
    PROVE  TalkInv'
<1>1. /\ cl[u] \in Client /\ cl[u].user = u /\ cl[u].n \in Nat /\ used \in Used
      /\ used.calls \in Nat /\ cl[u].n <= used.calls /\ Linked(cl[u])
      /\ cl[u].pc # "idle" => cl[u].n > 0 /\ cl[u].to \in Users \ {u}
  BY ClientFacts
<1>2. PICK c : c = [cl[u] EXCEPT !.pc = "talk"]
  OBVIOUS
<1>3. /\ cl[u].pc = "edit" /\ <<cl[u].peer, P(u)>> \in wrote /\ cl' = [cl EXCEPT ![u] = c]
      /\ UNCHANGED <<tab, id, reqs, resps, wrote, used>>
  BY <1>2 DEF EditChars
<1>4. /\ c \in Client /\ c.user = u /\ c.n = cl[u].n /\ c.to = cl[u].to /\ c.pc = "talk"
      /\ c.queue = cl[u].queue /\ c.peer = cl[u].peer
  BY <1>1, <1>2 DEF Client, Pcs
<1>5. Linked(c)
  <2>1. \A p : Match(cl[u], p) <=> Match(c, p)
    BY <1>1, <1>4 DEF Match
  <2>2. Proc(c) = P(u)
    BY <1>1, <1>4 DEF Proc, P
  <2>3. Paired(c.peer, Proc(c))
    BY <1>3, <1>4, <2>2 DEF TalkInv, Written
  <2>4. Match(c, c.peer) /\ \A i \in 1..Len(c.queue) : Match(c, c.queue[i])
    BY <1>1, <1>3, <1>4, <2>1 DEF Linked
  <2>5. QED
    BY <1>4, <2>3, <2>4 DEF Linked
<1>6. Follows(cl[u], c)
  BY <1>1, <1>3, <1>4 DEF Follows
<1>7. /\ c.n <= used'.calls /\ used.calls <= used'.calls /\ used' \in Used
      /\ c.pc # "idle" => c.n > 0 /\ c.to \in Users \ {u}
      /\ UNCHANGED <<tab, id>> /\ resps' \subseteq resps
  BY <1>1, <1>3, <1>4
<1>8. \A q \in reqs' : \/ q \in reqs
                       \/ q \in Req /\ c.pc # "idle" /\ q.proc = Proc(c)
                       \/ q \in Req /\ cl[u].pc # "idle" /\ q.proc = P(u)
  BY <1>3
<1>9. \A w \in wrote' : w \in wrote \/ (w = <<Proc(c), c.peer>> /\ c.pc = "edit")
  BY <1>3
<1>10. QED
  BY <1>3, <1>4, <1>5, <1>6, <1>7, <1>8, <1>9, OneClient

\* The connection goes to the process whose invitation was found: it runs, its
\* user is the one called, and it calls this user or a namesake.
LEMMA ConnectStep ==
    ASSUME TalkInv, NEW u \in Users, Connect(u)
    PROVE  TalkInv'
<1>1. /\ cl[u] \in Client /\ cl[u].user = u /\ cl[u].n \in Nat /\ used \in Used
      /\ used.calls \in Nat /\ cl[u].n <= used.calls /\ Linked(cl[u])
      /\ cl[u].pc # "idle" => cl[u].n > 0 /\ cl[u].to \in Users \ {u}
  BY ClientFacts
<1>2. PICK p : p = cl[u].addr
  OBVIOUS
<1>3. /\ cl[u].pc = "connect" /\ UNCHANGED <<tab, id, resps, used>>
      /\ IF Listening(p)
         THEN \E c \in {[cl[u] EXCEPT !.peer = p, !.pc = "edit"]} :
                 /\ cl' = [cl EXCEPT ![u] = c, ![p.user].queue = Append(@, P(u))]
                 /\ wrote' = wrote \cup Writes(c)
                 /\ UNCHANGED reqs
         ELSE GoOn([cl[u] EXCEPT !.pc = "delstale"]) /\ UNCHANGED wrote
  BY <1>2 DEF Connect
<1>4. CASE ~Listening(p)
  <2>1. PICK c : c = [cl[u] EXCEPT !.pc = "delstale"]
    OBVIOUS
  <2>2. /\ c \in Client /\ c.user = u /\ c.n = cl[u].n /\ c.to = cl[u].to /\ c.pc = "delstale"
        /\ c.queue = cl[u].queue /\ c.addr = cl[u].addr /\ c.peer = cl[u].peer
    BY <1>1, <2>1 DEF Client, Pcs
  <2>3. GoOn(c) /\ UNCHANGED wrote
    BY <1>3, <1>4, <2>1
  <2>4. QED
    BY <1>1, <1>3, <2>2, <2>3, PlainStep
<1>5. CASE Listening(p)
  <2>1. /\ Genuine(p) /\ p \in RealProcs /\ p \in Procs /\ p.user = cl[u].to /\ Namesake(p.to, u)
        /\ p.user \in Users /\ p.user # u /\ Current(p) /\ cl[p.user].to = p.to
        /\ cl[p.user].pc \in {"announce", "leave", "accept", "accepted"}
    BY <1>1, <1>2, <1>3, <1>5 DEF Linked, Match, Genuine, Listening, RealProcs, Procs
  <2>2. PICK v, b, me : v = p.user /\ b = cl[v] /\ me = P(u)
    OBVIOUS
  <2>3. PICK c : c = [cl[u] EXCEPT !.peer = p, !.pc = "edit"]
    OBVIOUS
  <2>4. /\ c \in Client /\ c.user = u /\ c.n = cl[u].n /\ c.to = v /\ c.pc = "edit"
        /\ c.queue = cl[u].queue /\ c.peer = p
    BY <1>1, <2>1, <2>2, <2>3 DEF Client, Pcs
  <2>5. PICK d : d = [b EXCEPT !.queue = Append(@, me)]
    OBVIOUS
  <2>6. /\ b \in Client /\ b.user = v /\ b.n \in Nat /\ Linked(b) /\ v \in Users /\ v # u
        /\ b.to = p.to /\ Namesake(b.to, u) /\ b.to \in Users \ {v}
        /\ b.pc \in {"announce", "leave", "accept", "accepted"} /\ b.n > 0 /\ b.n <= used.calls
    BY <2>1, <2>2, ClientFacts
  <2>7. /\ me \in RealProcs /\ me.user = u /\ me.n = cl[u].n /\ me.to = v /\ me = Proc(c)
    <3>1. me = Proc(c)
      BY <1>1, <2>1, <2>2, <2>4 DEF P, Proc
    <3>2. QED
      BY <1>1, <1>3, <2>4, <2>6, <3>1, ProcOf
  <2>8. /\ d \in Client /\ d.user = v /\ d.n = b.n /\ d.to = b.to /\ d.pc = b.pc
        /\ d.queue = Append(b.queue, me)
    <3>1. PICK x : x = Append(b.queue, me)
      OBVIOUS
    <3>2. x \in Seq(RealProcs)
      <4>1. b.queue \in Seq(RealProcs)
        BY <2>6 DEF Client
      <4>2. QED
        BY <2>7, <3>1, <4>1
    <3>3. d = [b EXCEPT !.queue = x]
      BY <2>5, <3>1
    <3>4. QED
      BY <2>6, <3>1, <3>2, <3>3 DEF Client
  <2>9. /\ cl' = [cl EXCEPT ![u] = c, ![v] = d] /\ wrote' = wrote \cup {<<me, p>>}
        /\ UNCHANGED reqs
    <3>1. /\ cl' = [cl EXCEPT ![u] = c, ![v].queue = Append(@, me)]
          /\ wrote' = wrote \cup Writes(c) /\ UNCHANGED reqs
      BY <1>3, <1>5, <2>2, <2>3
    <3>3. cl' = [cl EXCEPT ![u] = c, ![v] = d]
      <4>1. cl \in [Users -> Client]
        BY DEF TalkInv, ClientType
      <4>2. \A w \in Users : cl'[w] = [cl EXCEPT ![u] = c, ![v] = d][w]
        BY <2>2, <2>5, <2>6, <3>1, <4>1
      <4>3. cl' = [w \in Users |-> cl'[w]]
        BY <3>1, <4>1
      <4>4. [cl EXCEPT ![u] = c, ![v] = d] = [w \in Users |-> [cl EXCEPT ![u] = c, ![v] = d][w]]
        BY <4>1
      <4>5. QED
        BY <4>2, <4>3, <4>4
    <3>4. Writes(c) = {<<me, p>>}
      BY <2>4, <2>7 DEF Writes
    <3>5. QED
      BY <3>1, <3>3, <3>4
  <2>10. /\ cl \in [Users -> Client] /\ cl' \in [Users -> Client] /\ cl'[u] = c /\ cl'[v] = d
         /\ \A w \in Users : w # u /\ w # v => cl'[w] = cl[w]
    <3>1. cl \in [Users -> Client]
      BY DEF TalkInv, ClientType
    <3>2. QED
      BY <2>4, <2>6, <2>8, <2>9, <3>1
  <2>11. ClientType'
    <3>1. ASSUME NEW w \in Users
          PROVE  /\ cl'[w].user = w /\ cl'[w].n <= used'.calls
                 /\ cl'[w].pc # "idle" => cl'[w].n > 0 /\ cl'[w].to \in Users \ {w}
      <4>1. CASE w = u
        BY <1>1, <1>3, <2>4, <2>6, <2>10, <4>1
      <4>2. CASE w = v
        BY <1>3, <2>6, <2>8, <2>10, <4>2
      <4>3. CASE w # u /\ w # v
        <5>1. cl'[w] = cl[w] /\ used' = used
          BY <1>3, <2>10, <4>3
        <5>2. QED
          BY <5>1 DEF TalkInv, ClientType
      <4>4. QED
        BY <4>1, <4>2, <4>3
    <3>2. QED
      BY <1>1, <1>3, <2>10, <3>1 DEF ClientType
  <2>12. \A w \in Users : Follows(cl[w], cl'[w])
    <3>1. Follows(cl[u], c)
      BY <1>1, <1>3, <2>1, <2>2, <2>4 DEF Follows
    <3>2. Follows(b, d)
      BY <2>6, <2>8 DEF Follows
    <3>3. QED
      BY <2>2, <2>10, <3>1, <3>2 DEF Follows
  <2>13. ClientType
    BY DEF TalkInv
  <2>14. \A q : Genuine(q) => Genuine(q)'
    BY <2>11, <2>12, <2>13, Kept
  <2>15. Genuine(me)'
    BY <1>1, <2>4, <2>7, <2>10 DEF Genuine, Current
  <2>16. Genuine(p)'
    BY <2>1, <2>14
  <2>17. Linked(c)'
    <3>1. \A x : Match(cl[u], x) => Match(c, x)'
      BY <1>1, <2>1, <2>2, <2>4, <2>14 DEF Match, Namesake
    <3>2. \A i \in 1..Len(c.queue) : Match(c, c.queue[i])'
      BY <1>1, <2>4, <3>1 DEF Linked
    <3>3. Match(c, p)'
      BY <2>1, <2>2, <2>4, <2>16 DEF Match, Namesake
    <3>4. QED
      BY <2>4, <3>2, <3>3 DEF Linked
  <2>18. Linked(d)'
    <3>1. b.queue \in Seq(RealProcs)
      BY <2>6 DEF Client
    <3>2. \A i \in 1..Len(d.queue) : d.queue[i] = me \/ (i \in 1..Len(b.queue) /\ d.queue[i] = b.queue[i])
      BY <2>7, <2>8, <3>1
    <3>3. \A x : Match(b, x) => Match(d, x)'
      BY <2>6, <2>8, <2>14 DEF Match, Namesake
    <3>4. Match(d, me)'
      BY <2>6, <2>7, <2>8, <2>15 DEF Match, Namesake
    <3>5. \A i \in 1..Len(d.queue) : Match(d, d.queue[i])'
      BY <2>6, <3>2, <3>3, <3>4 DEF Linked
    <3>6. d.pc = "accepted" => Match(d, d.peer)'
      BY <2>5, <2>6, <2>8, <3>3 DEF Linked
    <3>7. QED
      BY <2>6, <2>8, <3>5, <3>6 DEF Linked
  <2>19. \A w \in Users : cl'[w] = cl[w] \/ Linked(cl[w])'
    BY <2>10, <2>17, <2>18
  <2>20. Paired(me, p)'
    BY <2>4, <2>7, <2>10 DEF Paired
  <2>21. \A w \in wrote' : w \in wrote \/ (Genuine(w[1]) /\ Paired(w[1], w[2]))'
    <3>1. \A w \in wrote' : w \in wrote \/ (w[1] = me /\ w[2] = p)
      BY <2>9
    <3>2. QED
      BY <2>15, <2>20, <3>1
  <2>22. DaemonType' /\ NetType'
    <3>1. DaemonType /\ NetType
      BY DEF TalkInv
    <3>2. DaemonType'
      BY <1>3, <3>1 DEF DaemonType
    <3>3. wrote' \subseteq RealProcs \X Procs
      BY <2>1, <2>7, <2>9, <3>1 DEF NetType
    <3>4. QED
      BY <1>3, <2>9, <3>1, <3>2, <3>3 DEF NetType
  <2>23. \A m \in Machines : \A i \in 1..Len(tab'[m]) :
            \E k \in 1..Len(tab[m]) : tab'[m][i].proc = tab[m][k].proc
    BY <1>3
  <2>24. \A r \in resps' :
            r.type = "LOOK_UP" /\ r.answer = "SUCCESS" =>
               Invites(r.addr, r.to)
    BY <1>3 DEF TalkInv, Found
  <2>25. QED
    BY <2>9, <2>11, <2>12, <2>19, <2>21, <2>22, <2>23, <2>24, ClientsKeep
<1>6. QED
  BY <1>4, <1>5

\* A step of a daemon or of the network: no client moves.
LEMMA StillStep ==
    ASSUME TalkInv, UNCHANGED <<cl, wrote>>, used' \in Used, used'.calls = used.calls,
           DaemonType', reqs' \subseteq reqs, resps' \subseteq Resp,
           \A m \in Machines : \A i \in 1..Len(tab'[m]) :
               Genuine(tab'[m][i].proc) \/ \E k \in 1..Len(tab[m]) : tab'[m][i].proc = tab[m][k].proc,
           \A r \in resps' :
               r.type = "LOOK_UP" /\ r.answer = "SUCCESS" =>
                  Invites(r.addr, r.to)
    PROVE  TalkInv'
<1>1. ClientType /\ NetType /\ used \in Used
  BY DEF TalkInv, ClientType
<1>2. ClientType'
  BY <1>1 DEF ClientType
<1>3. NetType'
  BY <1>1 DEF NetType
<1>4. \A v \in Users : Follows(cl[v], cl'[v])
  BY DEF Follows
<1>5. \A p : Genuine(p) => Genuine(p)'
  BY <1>1, <1>2, <1>4, Kept
<1>6. \A m \in Machines : \A i \in 1..Len(tab'[m]) :
         Genuine(tab[m][i].proc)' \/ \E k \in 1..Len(tab[m]) : tab'[m][i].proc = tab[m][k].proc
  <2>1. ASSUME NEW m \in Machines, NEW i \in 1..Len(tab'[m]), Genuine(tab'[m][i].proc)
        PROVE  Genuine(tab[m][i].proc)'
    <3>1. PICK p : p = tab'[m][i].proc
      OBVIOUS
    <3>2. Genuine(p)'
      BY <1>5, <2>1, <3>1
    <3>3. QED
      BY <3>1, <3>2
  <2>2. QED
    BY <2>1
<1>7. \A v \in Users : cl'[v] = cl[v] \/ Linked(cl[v])'
  OBVIOUS
<1>8. \A q \in reqs' : q \in reqs \/ Genuine(q.proc)'
  OBVIOUS
<1>9. \A w \in wrote' : w \in wrote \/ (Genuine(w[1]) /\ Paired(w[1], w[2]))'
  OBVIOUS
<1>10. QED
  BY <1>2, <1>3, <1>4, <1>6, <1>7, <1>8, <1>9, ClientsKeep

LEMMA ServeStep ==
    ASSUME TalkInv, NEW m \in Machines, Serve(m)
    PROVE  TalkInv'
<1>1. PICK q \in {x \in reqs : x.to = m}, outcome \in {"logged_in", "absent", "refusing"} :
       \E s \in {process_request(q, tab[m], id[m], outcome)} :
         /\ IF outcome = "logged_in" THEN UNCHANGED used
                                      ELSE q.type = "ANNOUNCE" /\ Mishap(outcome)
         /\ tab' = [tab EXCEPT ![m] = s.t]
         /\ id' = [id EXCEPT ![m] = s.i]
         /\ reqs' = reqs \ {q}
         /\ resps' = IF Current(q.proc) THEN resps \cup {s.r} ELSE resps
         /\ UNCHANGED <<cl, wrote>>
  BY DEF Serve
<1>s. PICK s \in {process_request(q, tab[m], id[m], outcome)} :
         /\ IF outcome = "logged_in" THEN UNCHANGED used
                                      ELSE q.type = "ANNOUNCE" /\ Mishap(outcome)
         /\ tab' = [tab EXCEPT ![m] = s.t]
         /\ id' = [id EXCEPT ![m] = s.i]
         /\ reqs' = reqs \ {q}
         /\ resps' = IF Current(q.proc) THEN resps \cup {s.r} ELSE resps
         /\ UNCHANGED <<cl, wrote>>
  BY <1>1
<1>2. /\ DaemonType /\ NetType /\ Invited /\ Found /\ used \in Used
      /\ q \in reqs /\ q \in Req /\ q.proc \in Procs /\ Genuine(q.proc)
      /\ tab \in [Machines -> Seq(Entry)] /\ id \in [Machines -> Ids]
  BY DEF TalkInv, DaemonType, NetType, ClientType, Invited, Req, Procs, RealProcs
<1>3. PICK t, i : t = tab[m] /\ i = id[m]
  OBVIOUS
<1>4. /\ t \in Seq(Entry) /\ i \in Ids /\ s = process_request(q, t, i, outcome)
      /\ outcome \in {"logged_in", "absent", "refusing"}
  BY <1>1, <1>s, <1>2, <1>3
<1>5. Proper(q, t, s)
  <2>1. q \in Req
    BY <1>2
  <2>2. QED
    BY <1>4, <2>1, Served
<1>6. used' \in Used /\ used'.calls = used.calls
  BY <1>s, <1>2, MishapKeeps
<1>7. DaemonType'
  <2>1. tab' \in [Machines -> Seq(Entry)] /\ id' \in [Machines -> Ids]
    BY <1>s, <1>2, <1>5 DEF Proper
  <2>2. ASSUME NEW n \in Machines, NEW j \in 1..Len(tab'[n]) PROVE Placed(tab'[n][j], n)
    <3>1. CASE n = m
      <4>1. tab'[n] = s.t /\ j \in 1..Len(s.t) /\ Placed(q, m)
        BY <1>s, <1>2, <2>2, <3>1 DEF Req, Directed
      <4>2. \A k \in 1..Len(t) : Placed(t[k], m)
        BY <1>2, <1>3 DEF DaemonType
      <4>3. \/ s.t[j].proc = q.proc /\ s.t[j].type = q.type
            \/ \E k \in 1..Len(t) : s.t[j].proc = t[k].proc /\ s.t[j].type = t[k].type
        BY <1>5, <4>1 DEF Proper
      <4>4. QED
        BY <3>1, <4>1, <4>2, <4>3 DEF Placed
    <3>2. CASE n # m
      BY <1>s, <1>2, <2>2, <3>2 DEF DaemonType
    <3>3. QED
      BY <3>1, <3>2
  <2>3. QED
    BY <2>1, <2>2 DEF DaemonType, Placed
<1>8. resps' \subseteq Resp
  BY <1>s, <1>2, <1>5 DEF Proper, NetType
<1>9. ASSUME NEW n \in Machines, NEW j \in 1..Len(tab'[n])
      PROVE  Genuine(tab'[n][j].proc) \/ \E k \in 1..Len(tab[n]) : tab'[n][j].proc = tab[n][k].proc
  <2>1. CASE n = m
    BY <1>s, <1>2, <1>3, <1>5, <2>1 DEF Proper
  <2>2. CASE n # m
    BY <1>s, <1>2, <2>2
  <2>3. QED
    BY <2>1, <2>2
<1>10. ASSUME NEW r \in resps', r.type = "LOOK_UP", r.answer = "SUCCESS"
       PROVE  Invites(r.addr, r.to)
  <2>1. CASE r \in resps
    BY <1>2, <1>10, <2>1 DEF Found
  <2>2. CASE r = s.r
    <3>1. PICK k \in 1..Len(t) : /\ r.addr = t[k].proc /\ t[k].type = "LEAVE_INVITE"
                                 /\ Namesake(r.addr.user, q.proc.to)
                                 /\ Namesake(r.addr.to, q.proc.user)
      BY <1>5, <1>10, <2>2 DEF Proper
    <3>2. Genuine(t[k].proc) /\ Placed(t[k], m)
      BY <1>2, <1>3 DEF Invited, DaemonType
    <3>3. q.type = "LOOK_UP" /\ r.to = q.proc
      BY <1>5, <1>10, <2>2 DEF Proper
    <3>4. Host[r.addr.user] = m /\ Host[q.proc.to] = m
      BY <1>1, <1>2, <3>1, <3>2, <3>3 DEF Placed, Req, Directed
    <3>5. r.addr.user \in Users /\ q.proc.to \in Users
      BY <1>2, <3>1, <3>2 DEF Genuine, RealProcs, Req
    <3>6. r.addr.user = q.proc.to
      BY <3>1, <3>4, <3>5, TalkAssumption DEF Namesake
    <3>7. QED
      BY <3>1, <3>2, <3>3, <3>6 DEF Invites
  <2>3. QED
    BY <1>s, <2>1, <2>2
<1>11. UNCHANGED <<cl, wrote>> /\ reqs' \subseteq reqs
  BY <1>s
<1>12. QED
  BY <1>6, <1>7, <1>8, <1>9, <1>10, <1>11, StillStep

LEMMA NetStep ==
    ASSUME TalkInv, Lose \/ \E m \in Machines : IdleExit(m)
    PROVE  TalkInv'
<1>1. DaemonType /\ NetType /\ used \in Used /\ Found
  BY DEF TalkInv, ClientType
<1>2. used' \in Used /\ used'.calls = used.calls
  BY <1>1, MishapKeeps DEF Lose, IdleExit
<1>3. UNCHANGED <<cl, wrote>> /\ reqs' \subseteq reqs /\ resps' \subseteq resps
  BY DEF Lose, IdleExit
<1>4. DaemonType' /\ \A n \in Machines : tab'[n] = tab[n] \/ tab'[n] = <<>>
  <2>1. CASE Lose
    BY <1>1, <2>1 DEF Lose, DaemonType
  <2>2. CASE \E m \in Machines : IdleExit(m)
    <3>1. PICK m \in Machines : tab' = [tab EXCEPT ![m] = <<>>] /\ id' = [id EXCEPT ![m] = 0]
      BY <2>2 DEF IdleExit
    <3>2. 0 \in Ids /\ <<>> \in Seq(Entry)
      BY TalkAssumption DEF Ids
    <3>3. QED
      BY <1>1, <3>1, <3>2 DEF DaemonType
  <2>3. QED
    BY <2>1, <2>2
<1>5. resps' \subseteq Resp
  BY <1>1, <1>3 DEF NetType
<1>6. \A n \in Machines : \A i \in 1..Len(tab'[n]) :
         \E k \in 1..Len(tab[n]) : tab'[n][i].proc = tab[n][k].proc
  BY <1>4
<1>7. \A r \in resps' :
         r.type = "LOOK_UP" /\ r.answer = "SUCCESS" =>
            Invites(r.addr, r.to)
  BY <1>1, <1>3 DEF Found
<1>8. QED
  BY <1>2, <1>3, <1>4, <1>5, <1>6, <1>7, StillStep

-----------------------------------------------------------------------------
(* The theorems.                                                           *)

LEMMA TalkInit == Init => TalkInv
<1> SUFFICES ASSUME Init PROVE TalkInv
  OBVIOUS
<1>1. 0 \in Ids /\ 0 \in 0..MaxId /\ None \in Procs /\ MaxCalls \in Nat /\ 0 \in 0..MaxCalls
  BY TalkAssumption DEF Ids, Procs
<1>2. DaemonType
  <2>1. <<>> \in Seq(Entry)
    OBVIOUS
  <2>2. QED
    BY <1>1, <2>1 DEF Init, DaemonType
<1>3. ASSUME NEW u \in Users
      PROVE  /\ cl[u] \in Client /\ cl[u].user = u /\ cl[u].n = 0 /\ cl[u].pc = "idle"
             /\ cl[u].queue = <<>>
  <2>1. cl[u] = Idle(u)
    BY DEF Init
  <2>2. <<>> \in Seq(RealProcs)
    OBVIOUS
  <2>3. QED
    BY <1>1, <2>1, <2>2 DEF Idle, Client, Pcs
<1>4. used \in Used /\ used.calls = 0
  BY <1>1 DEF Init, Used
<1>5. ClientType
  <2>1. cl \in [Users -> Client]
    BY <1>3 DEF Init
  <2>2. QED
    BY <1>3, <1>4, <2>1 DEF ClientType
<1>6. \A u \in Users : Linked(cl[u])
  BY <1>3 DEF Linked
<1>7. NetType /\ Invited /\ Found /\ Written
  BY DEF Init, NetType, Invited, Found, Written
<1>8. QED
  BY <1>2, <1>5, <1>6, <1>7 DEF TalkInv

LEMMA TalkStep == TalkInv /\ [Next]_vars => TalkInv'
<1> SUFFICES ASSUME TalkInv, [Next]_vars PROVE TalkInv'
  OBVIOUS
<1>1. ASSUME NEW u \in Users, Step(u) PROVE TalkInv'
  BY <1>1, WaitStep, AnsweredStep, ConnectStep, AcceptStep, AcceptedStep, EditCharsStep, EndStep DEF Step
<1>2. ASSUME NEW u \in Users, NEW v \in Callees[u], Call(u, v) PROVE TalkInv'
  BY <1>2, CallStep
<1>3. ASSUME NEW u \in Users, Interrupted(u) \/ re_invite(u) PROVE TalkInv'
  BY <1>3, WaitStep
<1>4. ASSUME NEW u \in Users, Interrupt(u) PROVE TalkInv'
  BY <1>4, EndStep
<1>5. ASSUME NEW m \in Machines, Serve(m) PROVE TalkInv'
  BY <1>5, ServeStep
<1>6. CASE Lose \/ \E m \in Machines : IdleExit(m)
  BY <1>6, NetStep
<1>7. CASE UNCHANGED vars
  <2>1. /\ used \in Used /\ DaemonType /\ NetType /\ Found
    BY DEF TalkInv, ClientType
  <2>2. DaemonType' /\ resps' \subseteq Resp /\ reqs' \subseteq reqs /\ used' \in Used
    BY <1>7, <2>1 DEF vars, DaemonType, NetType
  <2>3. \A m \in Machines : \A i \in 1..Len(tab'[m]) :
           \E k \in 1..Len(tab[m]) : tab'[m][i].proc = tab[m][k].proc
    BY <1>7 DEF vars
  <2>4. \A r \in resps' :
           r.type = "LOOK_UP" /\ r.answer = "SUCCESS" =>
              Invites(r.addr, r.to)
    BY <1>7, <2>1 DEF vars, Found
  <2>5. UNCHANGED <<cl, wrote>> /\ used'.calls = used.calls
    BY <1>7 DEF vars
  <2>6. QED
    BY <2>2, <2>3, <2>4, <2>5, StillStep
<1>8. QED
  BY <1>1, <1>2, <1>3, <1>4, <1>5, <1>6, <1>7 DEF Next

\* The types of everything the clients and daemons keep and send.
THEOREM TalkTypes == Spec => []TypeOK
<1>1. TalkInv => TypeOK
  <2> SUFFICES ASSUME TalkInv PROVE TypeOK
    OBVIOUS
  <2>1. /\ tab \in [Machines -> Seq(Entry)] /\ id \in [Machines -> Ids] /\ reqs \subseteq Req
        /\ resps \subseteq Resp /\ MaxId \in Nat
    BY TalkAssumption DEF TalkInv, DaemonType, NetType
  <2>2. RealProcs \subseteq Procs \ {None}
    BY DEF RealProcs, Procs, None
  <2>3. ASSUME NEW m \in Machines
        PROVE  /\ id[m] \in 0..(MaxId - 1)
               /\ \A e \in Range(tab[m]) : /\ e.id \in 1..(MaxId - 1)
                                           /\ e.type \in {"ANNOUNCE", "LEAVE_INVITE"}
                                           /\ e.proc \in Procs \ {None}
    <3>1. Range(tab[m]) \subseteq Entry
      BY <2>1 DEF Range
    <3>2. QED
      BY <2>1, <2>2, <3>1 DEF Entry, Ids
  <2>4. ASSUME NEW u \in Users
        PROVE  /\ cl[u].user = u /\ {cl[u].addr, cl[u].peer, cl[u].leaked} \subseteq Procs
               /\ {cl[u].lid, cl[u].rid} \subseteq 0..(MaxId - 1)
               /\ cl[u].mid \in 0..MaxId
    BY ClientFacts DEF Client, Ids
  <2>5. \A q \in reqs : q.proc \in Procs \ {None} /\ q.to \in Machines /\ q.id \in 0..MaxId
    BY <2>1, <2>2 DEF Req
  <2>6. \A r \in resps : r.to \in Procs /\ r.addr \in Procs /\ r.id \in 0..(MaxId - 1)
    BY <2>1 DEF Resp, Ids
  <2>7. QED
    BY <2>3, <2>4, <2>5, <2>6 DEF TypeOK
<1>2. QED
  BY <1>1, TalkInit, TalkStep, PTL DEF Spec

\* Whoever is connected is connected to a process of a user with the name they
\* called, which calls one with theirs, and one of the two is the user called; in
\* the conversation both have each other for their peer (find_match).
THEOREM CallsAreMutual == Spec => []MutualCall
<1>1. TalkInv => MutualCall
  <2> SUFFICES ASSUME TalkInv, NEW u \in Users
               PROVE  /\ cl[u].pc \in {"edit", "talk"} =>
                             /\ Namesake(cl[u].peer.user, cl[u].to) /\ Namesake(cl[u].peer.to, u)
                             /\ cl[u].peer.user = cl[u].to \/ cl[u].peer.to = u
                      /\ cl[u].pc = "talk" /\ Current(cl[u].peer) =>
                             cl[cl[u].peer.user].peer = P(u)
    BY DEF MutualCall
  <2>1. Linked(cl[u]) /\ cl[u].user = u
    BY ClientFacts
  <2>2. QED
    BY <2>1 DEF Linked, Match, Paired, P
<1>2. QED
  BY <1>1, TalkInit, TalkStep, PTL DEF Spec

\* Both together, for any number of users, calls and mishaps.
THEOREM CallsAreRight == Spec => []CallsRight
<1>1. TypeOK /\ MutualCall <=> CallsRight
  BY DEF CallsRight
<1>2. QED
  BY <1>1, TalkTypes, CallsAreMutual, PTL
=============================================================================
