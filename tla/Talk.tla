-------------------------------- MODULE Talk --------------------------------
(***************************************************************************)
(* A call with talk: the clients (src/talk) and the talk daemons of the    *)
(* machines (src/talkd).                                                   *)
(*                                                                         *)
(* A client first asks the callee's daemon whether the callee has invited  *)
(* it (LOOK_UP).  If so it connects to the address in the invitation; if   *)
(* not, or if that connection is refused, it announces itself to the       *)
(* callee's daemon, which rings the callee, leaves an invitation with its  *)
(* own daemon and waits for a connection.  The dialogue with the daemons   *)
(* is over datagrams that may be lost, delayed and overtaken;              *)
(* ctl_transact repeats a request until an answer of its type arrives.     *)
(*                                                                         *)
(* A process of talk is [user, n, to]: who runs it, its process number and *)
(* whom it calls.  Address and process of an invitation are that record.   *)
(* A user is a login name on a machine and runs one talk at a time.  The    *)
(* daemons tell users apart by their names only, and processes by name and  *)
(* pid, so that two machines may have what looks the same.                  *)
(***************************************************************************)
EXTENDS Integers, FiniteSets, Sequences, SequencesExt

CONSTANTS
    Users, Machines,
    Host, Name,    \* the machine and the login name of each user
    Pid,           \* the pids of each user's processes, by their number
    Callees,       \* whom each user may call
    MaxId,         \* ids of a daemon are below this (16000 in the code)
    MaxCalls,      \* bound: calls made by all users together
    MaxActive,     \* bound: clients that run at a time
    MaxMishaps,    \* bound: mishaps in a behaviour, of all kinds together
    Kinds          \* the kinds of mishap that may happen

ASSUME TalkAssumption ==
    /\ Host \in [Users -> Machines]
    /\ \A u, v \in Users : Host[u] = Host[v] /\ Name[u] = Name[v] => u = v
    /\ Pid \in [Users -> [1..MaxCalls -> Nat]]
    /\ Callees \in [Users -> SUBSET Users] /\ \A u \in Users : u \notin Callees[u]
    /\ MaxId \in Nat \ {0, 1}
    /\ MaxCalls \in Nat /\ MaxActive \in Nat /\ MaxMishaps \in Nat
    /\ Kinds \subseteq {"loss", "early", "alarm", "ring", "quit", "restart",
                    "absent", "refusing"}

VARIABLES
    tab,     \* invitations of each daemon, the newest first
    id,      \* current_id of each daemon
    cl,      \* the client of each user
    reqs,    \* requests on their way
    resps,   \* answers on their way or in the client's socket
    wrote,   \* <<p, q>>: p has written its edit characters to q
    used     \* calls and mishaps so far, and whether a daemon was restarted

vars == <<tab, id, cl, reqs, resps, wrote, used>>

None == [user |-> "none", n |-> 0, to |-> "none"]
Procs == [user : Users, n : 1..MaxCalls, to : Users] \cup {None}

\* Another mishap of kind k is within the bound.
Mishap(k) ==
    /\ k \in Kinds /\ used.mishaps < MaxMishaps
    /\ used' = [used EXCEPT !.mishaps = @ + 1, !.restarted = @ \/ k = "restart"]

Proc(c) == [user |-> c.user, n |-> c.n, to |-> c.to]
P(u) == Proc(cl[u])
Current(p) == cl[p.user].pc # "idle" /\ cl[p.user].n = p.n

-----------------------------------------------------------------------------
(* Requests of a client *)

\* What the client asks in each of its transactions.
Asks == [lookup |-> "LOOK_UP", delstale |-> "DELETE", announce |-> "ANNOUNCE",
         leave |-> "LEAVE_INVITE", dellocal |-> "DELETE", delremote |-> "DELETE"]

Transacting(c) == c.pc \in DOMAIN Asks

\* The id of the request; the daemon ignores it in the other two types.
MsgId(c) == CASE c.pc \in {"delstale", "announce"} -> c.mid
              [] c.pc = "dellocal" -> c.lid
              [] c.pc = "delremote" -> c.rid
              [] OTHER -> 0

Request(c) ==
    [type |-> Asks[c.pc], proc |-> Proc(c), id |-> MsgId(c),
     to |-> IF c.pc \in {"leave", "dellocal"} THEN Host[c.user] ELSE Host[c.to]]

\* The client goes on as c.  If c is in a transaction its request is sent.
GoOn(c) ==
    /\ cl' = [cl EXCEPT ![c.user] = c]
    /\ reqs' = IF Transacting(c) THEN reqs \cup {Request(c)} ELSE reqs

\* Answers in the client's control socket or on their way to it.
Answers(u) == {r \in resps : r.to = P(u)}

Idle(u) == [user |-> u, n |-> 0, to |-> "none", pc |-> "idle", mid |-> 0, lid |-> 0,
            rid |-> 0, addr |-> None, waiting |-> FALSE, queue |-> <<>>, peer |-> None,
            deaf |-> FALSE, rang |-> FALSE, shut |-> FALSE, leaked |-> None]

\* Mutant: the two ids are taken for each other.
Withdrawals_Swapped(c) ==
    IF c.waiting
    THEN {[type |-> "DELETE", proc |-> Proc(c), id |-> c.lid, to |-> Host[c.to]],
          [type |-> "DELETE", proc |-> Proc(c), id |-> c.rid, to |-> Host[c.user]]}
    ELSE {}

\* send_delete: the invitations are withdrawn, no answer is awaited.
Withdrawals(c) ==
    IF c.waiting
    THEN {[type |-> "DELETE", proc |-> Proc(c), id |-> c.rid, to |-> Host[c.to]],
          [type |-> "DELETE", proc |-> Proc(c), id |-> c.lid, to |-> Host[c.user]]}
    ELSE {}

\* quit: also the end of every path of p_error.  The sockets are closed.
quit(c) ==
    /\ cl' = [cl EXCEPT ![c.user] = [Idle(c.user) EXCEPT !.n = c.n]]
    /\ reqs' = reqs \cup Withdrawals(c)
    /\ resps' = {r \in resps : r.to # Proc(c)}
    /\ wrote' = {w \in wrote : w[2] # Proc(c)}

-----------------------------------------------------------------------------
(* The client: main, check_local, invite_remote, set_edit_chars, talk *)

Call(u, v) ==
    /\ cl[u].pc = "idle" /\ v \in Callees[u]
    /\ used.calls < MaxCalls /\ used' = [used EXCEPT !.calls = @ + 1]
    /\ Cardinality({w \in Users : cl[w].pc # "idle"}) < MaxActive
    /\ GoOn([Idle(u) EXCEPT !.n = cl[u].n + 1, !.to = v, !.pc = "lookup"])
    /\ UNCHANGED <<tab, id, resps, wrote>>

\* Nothing of the transaction is on its way any more.
Unanswered(u) == Request(cl[u]) \notin reqs /\ Answers(u) = {}

\* select has timed out, the request is sent again; as a mishap also while
\* the first copy's answer is still on its way.
Repeat(u) ==
    /\ Transacting(cl[u]) /\ ~cl[u].deaf
    /\ Request(cl[u]) \notin reqs
    /\ \/ Unanswered(u) /\ UNCHANGED used
       \/ ~Unanswered(u) /\ Mishap("early")
    /\ GoOn(cl[u])
    /\ UNCHANGED <<tab, id, resps, wrote>>

\* The timer of start_msgs interrupts select: "continue" leaves the loop, as
\* nready is -1, and the client waits in recv without sending again.  While
\* re_invite runs and after it the signal is blocked.
Interrupted(u) ==
    /\ Transacting(cl[u]) /\ ~cl[u].deaf /\ ~cl[u].rang
    /\ Mishap("alarm")
    /\ cl' = [cl EXCEPT ![u].deaf = TRUE]
    /\ UNCHANGED <<tab, id, reqs, resps, wrote>>

\* An answer to an earlier request is dropped; when no other one is queued
\* the request is sent again.
Discard(u) ==
    \E r \in Answers(u) :
       /\ Transacting(cl[u]) /\ r.type # Asks[cl[u].pc]
       /\ resps' = resps \ {r}
       /\ \/ GoOn([cl[u] EXCEPT !.deaf = FALSE])
          \/ Answers(u) # {r} /\ UNCHANGED <<cl, reqs>>
       /\ UNCHANGED <<tab, id, wrote, used>>

\* invite_remote up to its announcement, under an id above all others.
Inviting(c) == [c EXCEPT !.mid = MaxId, !.waiting = TRUE, !.pc = "announce"]

\* What the client does after the answer r to its request.
AfterAnswer(c, r) ==
    CASE c.pc = "lookup" /\ r.answer = "SUCCESS" ->
             [c EXCEPT !.mid = r.id, !.addr = r.addr, !.pc = "connect"]
      [] c.pc = "lookup" /\ r.answer # "SUCCESS" -> Inviting(c)
      [] c.pc = "delstale"  -> Inviting(c)
      [] c.pc = "announce"  -> [c EXCEPT !.rid = r.id, !.pc = "leave"]
      [] c.pc = "leave"     -> [c EXCEPT !.lid = r.id, !.pc = "accept"]
      [] c.pc = "dellocal"  -> [c EXCEPT !.pc = "delremote"]
      [] c.pc = "delremote" -> [c EXCEPT !.waiting = FALSE, !.pc = "edit"]

\* Mutant: the side that accepted only reads.
Writes_Caller(c) == IF c.pc = "edit" /\ c.addr # None THEN {<<Proc(c), c.peer>>} ELSE {}

\* Entering set_edit_chars the client writes its edit characters.
Writes(c) == IF c.pc = "edit" THEN {<<Proc(c), c.peer>>} ELSE {}

\* ctl_transact returns with an answer of the right type: which daemon sent
\* it, and to which request, is not looked at.
Answered(u) ==
    \E r \in Answers(u) :
       /\ Transacting(cl[u]) /\ r.type = Asks[cl[u].pc]
       /\ IF cl[u].pc = "announce" /\ r.answer # "SUCCESS"
          THEN quit([cl[u] EXCEPT !.rid = r.id])
          ELSE \E c \in {AfterAnswer([cl[u] EXCEPT !.deaf = FALSE], r)} :
                  /\ GoOn(c)
                  /\ resps' = resps \ {r}
                  /\ wrote' = wrote \cup Writes(c)
       /\ UNCHANGED <<tab, id, used>>

Listening(p) ==
    Current(p) /\ cl[p.user].pc \in {"announce", "leave", "accept", "accepted"} /\ ~cl[p.user].shut

\* connect: the kernel completes it while the other process listens, before
\* that process has accepted.  If it is refused the invitation is stale.
Connect(u) ==
    /\ cl[u].pc = "connect"
    /\ \E p \in {cl[u].addr} :
          IF Listening(p)
          THEN \E c \in {[cl[u] EXCEPT !.peer = p, !.pc = "edit"]} :
                  /\ cl' = [cl EXCEPT ![u] = c, ![p.user].queue = Append(@, P(u))]
                  /\ wrote' = wrote \cup Writes(c)
                  /\ UNCHANGED reqs
          ELSE GoOn([cl[u] EXCEPT !.pc = "delstale"]) /\ UNCHANGED wrote
    /\ UNCHANGED <<tab, id, resps, used>>

\* accept returns a connection; the timer of re_invite is still on.
Accept(u) ==
    /\ cl[u].pc = "accept" /\ ~cl[u].shut /\ cl[u].queue # <<>>
    /\ GoOn([cl[u] EXCEPT !.peer = Head(cl[u].queue), !.queue = Tail(cl[u].queue), !.pc = "accepted"])
    /\ UNCHANGED <<tab, id, resps, wrote, used>>

\* accept fails: sockt is not the listening socket any more.
AcceptFails(u) ==
    /\ cl[u].pc = "accept" /\ cl[u].shut
    /\ quit(cl[u])
    /\ UNCHANGED <<tab, id, used>>

\* The listening socket is closed, and with it the other connections; the
\* connection takes its place and start_msgs sets another timer.
Accepted(u) ==
    /\ cl[u].pc = "accepted"
    /\ GoOn([cl[u] EXCEPT !.queue = <<>>, !.pc = "dellocal"])
    /\ UNCHANGED <<tab, id, resps, wrote, used>>

\* Announcing again.  A connection that accept has returned stays open and is
\* forgotten; shut: the listening socket was closed already.
Rung(c, shut) ==
    [c EXCEPT !.mid = c.rid + 1, !.rang = TRUE, !.pc = "announce", !.peer = None,
              !.leaked = c.peer, !.queue = IF shut THEN <<>> ELSE @, !.shut = shut]

\* The handler re_invite: ring again.  It leaves by longjmp to the call of
\* accept, also when accept has returned.  SIGALRM stays blocked: there is no
\* second time.
re_invite(u) ==
    /\ cl[u].pc \in {"accept", "accepted"} /\ ~cl[u].rang
    /\ Mishap("ring")
    /\ \E shut \in {FALSE, cl[u].pc = "accepted"} : GoOn(Rung(cl[u], shut))
    /\ UNCHANGED <<tab, id, resps, wrote>>

\* The connection of u, at either end, is still open.
Open(u) ==
    LET p == cl[u].peer IN
    Current(p) /\ (P(u) \in {cl[p.user].peer, cl[p.user].leaked} \/ Contains(cl[p.user].queue, P(u)))

\* set_edit_chars reads the edit characters of the other side.
EditChars(u) ==
    /\ cl[u].pc = "edit" /\ <<cl[u].peer, P(u)>> \in wrote
    /\ cl' = [cl EXCEPT ![u].pc = "talk"]
    /\ UNCHANGED <<tab, id, reqs, resps, wrote, used>>

\* "Lost the connection", or "Connection closed. Exiting".
HangUp(u) ==
    /\ cl[u].pc \in {"edit", "talk"} /\ ~Open(u)
    /\ quit(cl[u])
    /\ UNCHANGED <<tab, id, used>>

\* The user interrupts the program (sig_sent), or a system call fails.
Interrupt(u) ==
    /\ cl[u].pc # "idle"
    /\ Mishap("quit")
    /\ quit(cl[u])
    /\ UNCHANGED <<tab, id>>

-----------------------------------------------------------------------------
(* The daemon: process_request, do_announce and the table *)

\* Mutant: the current id is given out and then advanced, so 0 is used.
new_id_Zero(i) == i % MaxId

new_id(i) == LET n == (i + 1) % MaxId IN IF n = 0 THEN 1 ELSE n

\* The daemon has the two login names of a request, and no machine.
Namesake(u, v) == Name[u] = Name[v]

\* Mutant: the names are not crossed.
fuzzy_comp_Straight(e, q) ==
    e.type = "LEAVE_INVITE" /\ Namesake(q.proc.user, e.proc.user) /\ Namesake(q.proc.to, e.proc.to)

\* fuzzy_comp and exact_comp.  Entries never expire: lookup_request compares
\* ptr->time - now, which is never positive, with max_request_ttl.
fuzzy_comp(e, q) ==
    /\ e.type = "LEAVE_INVITE"
    /\ Namesake(q.proc.user, e.proc.to)
    /\ Namesake(q.proc.to, e.proc.user)

\* To the daemon the processes p and q are the same.
SamePeer(p, q) ==
    Pid[p.user][p.n] = Pid[q.user][q.n] /\ Namesake(p.user, q.user) /\ Namesake(p.to, q.to)

exact_comp(e, q) == e.type = q.type /\ SamePeer(e.proc, q.proc)

\* Positions of the entries that match; the first one is found.
find_match(t, q) == {i \in DOMAIN t : fuzzy_comp(t[i], q)}
find_request(t, q) == {i \in DOMAIN t : exact_comp(t[i], q)}
First(S) == CHOOSE i \in S : \A j \in S : i <= j

insert_table(t, i, q) == <<[id |-> i, type |-> q.type, proc |-> q.proc]>> \o t

\* insert_table never sets prev of the entry that was first, so prev is NULL
\* in every entry: the list then starts behind the deleted one.
table_delete(t, k) == SubSeq(t, k + 1, Len(t))

\* A daemon with table t and last id i makes of request q the table, the id
\* and the answer given.
Reply(q, i, answer, addr) ==
    [to |-> q.proc, type |-> q.type, id |-> i, answer |-> answer, addr |-> addr]

\* The outcome is what find_user, the host table and announce find.
do_announce(q, t, i, outcome) ==
    LET F == find_request(t, q)
        k == First(F)
        n == new_id(i)
        rung == IF outcome = "refusing" THEN "PERMISSION_DENIED" ELSE "SUCCESS"
    IN CASE outcome = "absent" ->
                [t |-> t, i |-> i, r |-> Reply(q, 0, "NOT_HERE", None)]
         [] outcome # "absent" /\ F = {} ->
                [t |-> insert_table(t, n, q), i |-> n, r |-> Reply(q, n, rung, None)]
         [] outcome # "absent" /\ F # {} /\ q.id > t[k].id ->
                [t |-> [t EXCEPT ![k].id = n], i |-> n, r |-> Reply(q, n, rung, None)]
         [] OTHER ->
                [t |-> t, i |-> i, r |-> Reply(q, t[k].id, "SUCCESS", None)]

leave_invite(q, t, i) ==
    LET F == find_request(t, q)
        n == new_id(i)
    IN IF F # {}
       THEN [t |-> t, i |-> i, r |-> Reply(q, t[First(F)].id, "SUCCESS", None)]
       ELSE [t |-> insert_table(t, n, q), i |-> n, r |-> Reply(q, n, "unset", None)]

look_up(q, t, i) ==
    LET F == find_match(t, q)
        e == t[First(F)]
    IN [t |-> t, i |-> i,
        r |-> IF F # {} THEN Reply(q, e.id, "SUCCESS", e.proc)
                        ELSE Reply(q, 0, "NOT_HERE", None)]

delete_invite(q, t, i) ==
    LET F == {k \in DOMAIN t : t[k].id = q.id}
    IN IF F # {}
       THEN [t |-> table_delete(t, First(F)), i |-> i, r |-> Reply(q, 0, "SUCCESS", None)]
       ELSE [t |-> t, i |-> i, r |-> Reply(q, 0, "NOT_HERE", None)]

process_request(q, t, i, outcome) ==
    CASE q.type = "ANNOUNCE"     -> do_announce(q, t, i, outcome)
      [] q.type = "LEAVE_INVITE" -> leave_invite(q, t, i)
      [] q.type = "LOOK_UP"      -> look_up(q, t, i)
      [] q.type = "DELETE"       -> delete_invite(q, t, i)

\* talkd_run takes a request, updates its table and answers; an answer to a
\* process that has ended goes nowhere.
Serve(m) ==
    \E q \in {x \in reqs : x.to = m}, outcome \in {"logged_in", "absent", "refusing"} :
    \E s \in {process_request(q, tab[m], id[m], outcome)} :
       /\ IF outcome = "logged_in" THEN UNCHANGED used
                                    ELSE q.type = "ANNOUNCE" /\ Mishap(outcome)
       /\ tab' = [tab EXCEPT ![m] = s.t]
       /\ id' = [id EXCEPT ![m] = s.i]
       /\ reqs' = reqs \ {q}
       /\ resps' = IF Current(q.proc) THEN resps \cup {s.r} ELSE resps
       /\ UNCHANGED <<cl, wrote>>

\* alarm_handler: an idle daemon exits.  inetd starts another one when a
\* request comes, with an empty table and its first id again.
IdleExit(m) ==
    /\ Mishap("restart")
    /\ tab' = [tab EXCEPT ![m] = <<>>]
    /\ id' = [id EXCEPT ![m] = 0]
    /\ UNCHANGED <<cl, reqs, resps, wrote>>

Lose ==
    /\ Mishap("loss")
    /\ \/ \E q \in reqs : reqs' = reqs \ {q} /\ UNCHANGED resps
       \/ \E r \in resps : resps' = resps \ {r} /\ UNCHANGED reqs
    /\ UNCHANGED <<tab, id, cl, wrote>>

-----------------------------------------------------------------------------
Init ==
    /\ tab = [m \in Machines |-> <<>>]
    /\ id = [m \in Machines |-> 0]
    /\ cl = [u \in Users |-> Idle(u)]
    /\ reqs = {} /\ resps = {} /\ wrote = {}
    /\ used = [calls |-> 0, mishaps |-> 0, restarted |-> FALSE]

\* Steps a running client takes by itself.
Step(u) ==
    \/ Repeat(u) \/ Discard(u) \/ Answered(u)
    \/ Connect(u) \/ Accept(u) \/ AcceptFails(u) \/ Accepted(u) \/ EditChars(u) \/ HangUp(u)

Next ==
    \/ \E u \in Users : Step(u)
    \/ \E u \in Users : \E v \in Callees[u] : Call(u, v)
    \/ \E u \in Users : Interrupted(u)
    \/ \E u \in Users : re_invite(u)
    \/ \E u \in Users : Interrupt(u)
    \/ \E m \in Machines : Serve(m)
    \/ \E m \in Machines : IdleExit(m)
    \/ Lose

Spec == Init /\ [][Next]_vars

\* The client has something to do: a mere repetition of a request whose
\* answer is on its way is not counted.
Runnable(u) ==
    \/ Transacting(cl[u]) /\ (Answers(u) # {} \/ (~cl[u].deaf /\ Unanswered(u)))
    \/ cl[u].pc \in {"connect", "accepted"}
    \/ cl[u].pc = "accept" /\ (cl[u].shut \/ cl[u].queue # <<>>)
    \/ cl[u].pc = "edit" /\ <<cl[u].peer, P(u)>> \in wrote
    \/ cl[u].pc \in {"edit", "talk"} /\ ~Open(u)

\* Weak fairness with the enabling conditions written out: clients keep
\* running and daemons keep serving.  Nobody has to call, ring again or give
\* up, and datagrams need not get lost.
FairSpec ==
    /\ Spec
    /\ \A u \in Users : []<>~Runnable(u) \/ []<><<Step(u)>>_vars
    /\ \A m \in Machines : []<>(\A q \in reqs : q.to # m) \/ []<><<Serve(m)>>_vars

-----------------------------------------------------------------------------
(* Properties *)

TypeOK ==
    /\ \A m \in Machines : /\ id[m] \in 0..(MaxId - 1)
                            /\ \A e \in Range(tab[m]) :
                                  /\ e.id \in 1..(MaxId - 1)
                                  /\ e.type \in {"ANNOUNCE", "LEAVE_INVITE"}
                                  /\ e.proc \in Procs \ {None}
    /\ \A u \in Users : /\ cl[u].user = u /\ {cl[u].addr, cl[u].peer, cl[u].leaked} \subseteq Procs
                         /\ {cl[u].lid, cl[u].rid} \subseteq 0..(MaxId - 1)
                         /\ cl[u].mid \in 0..MaxId
    /\ \A q \in reqs : q.proc \in Procs \ {None} /\ q.to \in Machines /\ q.id \in 0..MaxId
    /\ \A r \in resps : r.to \in Procs /\ r.addr \in Procs /\ r.id \in 0..(MaxId - 1)

\* Whoever gets a connection gets a process of a user with the name they
\* called, which calls a user with their name, whatever invitations are left in
\* the tables; and one of the two is the very user called.  (Both need not be:
\* the invitation of a user is picked up by a namesake on another machine.)
\* Once both sides have exchanged their edit characters each is the other's
\* peer (look_up.c, find_match, accept and set_edit_chars together).
MutualCall ==
    \A u \in Users :
       /\ cl[u].pc \in {"edit", "talk"} =>
             /\ Namesake(cl[u].peer.user, cl[u].to) /\ Namesake(cl[u].peer.to, u)
             /\ cl[u].peer.user = cl[u].to \/ cl[u].peer.to = u
       /\ cl[u].pc = "talk" /\ Current(cl[u].peer) => cl[cl[u].peer.user].peer = P(u)

\* As long as no daemon has been restarted, a DELETE on its way, however
\* late, names no invitation but its sender's own or one made to its sender, as
\* far as the daemon can tell (send_delete and check_local against new_id).
DeletesOwn ==
    ~used.restarted =>
       \A q \in reqs : q.type = "DELETE" =>
          \A e \in Range(tab[q.to]) :
             e.id = q.id => SamePeer(e.proc, q.proc) \/ Namesake(e.proc.to, q.proc.user)

\* The client waits in recv for an answer that nobody will send.
Deaf(u) == cl[u].deaf /\ Transacting(cl[u]) /\ Unanswered(u)

\* The peer of the client has accepted its connection and forgotten it.
Forgotten(u) ==
    /\ cl[u].pc = "edit" /\ Current(cl[u].peer)
    /\ cl[cl[u].peer.user].leaked = P(u)

\* Setting up a call ends: in the conversation, waiting for the other party,
\* or at the prompt.  Two exceptions: this client or the one it talks to was
\* interrupted in select and its request or answer got lost (ctl_transact); or
\* the timer rang between the return of accept and the end of the timer, which
\* leaves the other party in set_edit_chars (re_invite).
SetupEnds ==
    \A u \in Users :
       (Transacting(cl[u]) \/ cl[u].pc \in {"connect", "accepted", "edit"})
          ~> (cl[u].pc \in {"accept", "talk", "idle"} \/ Forgotten(u) \/ \E v \in {u, cl[u].peer.user} : v \in Users /\ Deaf(v))

\* Clients and daemons keep what they should, and only users who called each
\* other, as far as their names go, are connected.
CallsRight == TypeOK /\ MutualCall
=============================================================================
