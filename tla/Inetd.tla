------------------------------- MODULE Inetd -------------------------------
(***************************************************************************)
(* The super-server of inetd/inetd.c: the main loop, its three signal      *)
(* handlers (reapchild, config, retry), the servers it starts and the      *)
(* clients that want them.                                                 *)
(*                                                                         *)
(* A descriptor is named by its service.  Signals are blocked from the     *)
(* count of the invocation to the registration of the child, so that is    *)
(* one step; a handler may run between any two other steps of the main     *)
(* loop, and reapchild and retry between two files that config reads.      *)
(* The build is the default one, with IPv6, which never compares the port  *)
(* of a service that is read again.                                        *)
(***************************************************************************)
EXTENDS Integers, Sequences, FiniteSets, SequencesExt

CONSTANTS
  Services,      \* names (with protocol) of services
  Stream,        \* the services on stream sockets
  Inline,        \* internal services that run without fork
  Mux,           \* services reached through tcpmux only
  Pids,          \* process ids of servers; a bound on those that run at once
  Confs,         \* what the configuration files may contain
  toomany,       \* option -R
  QueueMax,      \* bound on the requests waiting at a socket
  MaxHups,       \* bound on the number of SIGHUPs
  MaxFails       \* bound on the number of handlers in which bind fails

ASSUME InetdAssumption ==
  /\ Services # {}
  /\ Stream \subseteq Services /\ Inline \subseteq Services /\ Mux \subseteq Services
  /\ Pids \subseteq Nat \ {0, 1} /\ toomany \in Nat \ {0}
  /\ QueueMax \in Nat /\ MaxHups \in Nat /\ MaxFails \in Nat

\* A line of a configuration file.
Line == [name : Services, wait : {0, 1}, max : Nat]

\* A file has one line for a service.
ASSUME ConfAssumption ==
  \A c \in Confs :
    /\ c \in Seq(Seq(Line)) /\ c # <<>>
    /\ \A i \in DOMAIN c : \A j, k \in DOMAIN c[i] : c[i][j].name = c[i][k].name => j = k

VARIABLES
  servtab,    \* the list of services, head first
  sep,        \* the entry of each service
  allsock,    \* descriptors that select watches
  nsock,      \* what the program takes for their number
  timingout,  \* an alarm for retry is set
  child,      \* "none", "running" or "zombie" for each process
  conf, hup,  \* contents of the files; a SIGHUP has been sent
  file,       \* the file that config reads, 0 if it does not run
  checked,    \* services that it has seen in a file
  pc,         \* where the main loop is
  readable,   \* its descriptors to look at
  n, todo,    \* ready ones not looked at yet; entries not looked at yet
  cur,        \* the service being served
  hups, fails \* SIGHUPs and failing handlers so far

daemon == <<servtab, sep, allsock, nsock, timingout>>
config_vars == <<conf, hup, file, checked>>
loop == <<pc, readable, n, todo, cur>>
vars == <<daemon, child, config_vars, loop, hups, fails>>

(***************************************************************************)
(* open is se_fd >= 0; wait is 0, 1 or a pid; late says that CNT_INTVL has *)
(* passed since se_time.  queue and servers belong to the socket: requests *)
(* not taken yet, and the processes started with it.                       *)
(***************************************************************************)
getconfigent(line) ==
  [open |-> FALSE, wait |-> IF line.name \in Mux \cup Inline THEN 0 ELSE line.wait,
   max |-> line.max, count |-> 0, late |-> FALSE, queue |-> 0, servers |-> {}]

Init ==
  /\ servtab = <<>> /\ allsock = {} /\ nsock = 0 /\ timingout = FALSE
  /\ sep = [s \in Services |-> getconfigent([name |-> s, wait |-> 0, max |-> 0])]
  /\ child = [p \in Pids |-> "none"]
  /\ conf \in Confs /\ hup = FALSE /\ file = 1 /\ checked = {}
  /\ pc = "start" /\ readable = {} /\ n = 0 /\ todo = <<>> /\ cur = CHOOSE s \in Services : TRUE
  /\ hups = 0 /\ fails = 0
-----------------------------------------------------------------------------
(***************************************************************************)
(* setup of the services ss, for which bind fails if they are in bad, and  *)
(* close_sep of the services gone.                                         *)
(***************************************************************************)

\* Mutant: no alarm is set when bind fails.
Alarm_Never(ss, bad) == timingout

Alarm(ss, bad) == timingout \/ ss \cap bad # {}

setup(e) == [e EXCEPT !.open = TRUE]

close_sep(e) ==
  [e EXCEPT !.open = FALSE, !.count = 0, !.queue = 0, !.servers = {},
            !.wait = IF @ > 1 THEN 1 ELSE @]

\* Services of the table that have a socket.
Open == {s \in Range(servtab) : sep[s].open}

\* FD_SET and FD_CLR; nsock counts one less for a socket that was not watched.
Sockets(opened, closed) ==
  /\ allsock' = (allsock \cup opened) \ closed
  /\ nsock' = nsock + Cardinality(opened) - Cardinality(closed)

\* The services for which bind fails in one handler.
Failing(bad) ==
  /\ bad = {} \/ fails < MaxFails
  /\ fails' = IF bad = {} THEN fails ELSE fails + 1

\* Mutant: the pid of a server that runs is overwritten.
Redo_Always(e, line) ==
  [e EXCEPT !.wait = IF line.name \in Mux \cup Inline THEN 0 ELSE line.wait]

\* A line for a service of the table; se_max is not taken over.
Redo(e, line) ==
  IF line.name \notin Inline /\ (e.wait = 1 \/ line.wait = 0)
  THEN [e EXCEPT !.wait = IF line.name \in Mux THEN 0 ELSE line.wait] ELSE e

\* The entries of a list that belong to a set, in the order of the list.
Only(list, set) ==
  LET at == {i \in DOMAIN list : list[i] \in set}
      rank == [i \in at |-> Cardinality({j \in at : j <= i})]
  IN [k \in 1 .. Cardinality(at) |-> list[CHOOSE i \in at : rank[i] = k]]

\* New entries go to the head of the table, one after the other.
enter(new) == Reverse(new) \o servtab

\* The entry of a line, merged with the one of the table if there is one.
Merged(line) ==
  IF line.name \in Range(servtab) THEN Redo(sep[line.name], line) ELSE getconfigent(line)

\* One file: its lines are merged, what has no socket is set up, and what no
\* file has mentioned yet is dropped.
nextconfig(lines, bad) ==
  LET names == [i \in DOMAIN lines |-> lines[i].name]
      entry == [s \in Range(names) |-> Merged(lines[CHOOSE i \in DOMAIN lines : names[i] = s])]
      tried == {s \in Range(names) \ Mux : ~entry[s].open}
      keep == checked \cup Range(names)
      gone == {s \in Range(servtab) \ keep : sep[s].open}
      new == Only(names, Services \ Range(servtab))
  IN /\ servtab' = Only(enter(new), keep)
     /\ sep' = [s \in Services |->
                  CASE s \in tried \ bad -> setup(entry[s])
                    [] s \in Range(names) \ (tried \ bad) -> entry[s]
                    [] s \in gone -> close_sep(sep[s])
                    [] OTHER -> sep[s]]
     /\ Sockets(tried \ bad, gone)
     /\ timingout' = Alarm(tried, bad)
     /\ checked' = keep
-----------------------------------------------------------------------------
\* A handler ends select.  The loop does not come to an entry that has been
\* dropped; if it is serving it, it goes on with freed memory.
Interrupted(table) ==
  /\ pc' = CASE pc = "select" -> "top"
             [] pc = "fork" /\ cur \notin Range(table) -> "freed"
             [] OTHER -> pc
  /\ todo' = Only(todo, Range(table))
  /\ UNCHANGED <<readable, n, cur>>

\* SIGHUP: config begins, and ...
config ==
  /\ hup /\ file = 0
  /\ hup' = FALSE /\ file' = 1 /\ checked' = {}
  /\ Interrupted(servtab)
  /\ UNCHANGED <<daemon, child, conf, hups, fails>>

\* ... reads its files.
ReadFile ==
  /\ file \in DOMAIN conf
  /\ \E bad \in SUBSET {line.name : line \in Range(conf[file])} : Failing(bad) /\ nextconfig(conf[file], bad)
  /\ file' = (file + 1) % (Len(conf) + 1)
  /\ Interrupted(servtab')
  /\ UNCHANGED <<child, conf, hup, hups>>

Zombies == {p \in Pids : child[p] = "zombie"}

\* Mutant: every server that ends counts, not only those that had a socket.
reapchild_CountsAll ==
  LET restored == {s \in Range(servtab) : sep[s].wait \in Zombies} IN
  /\ Zombies # {}
  /\ child' = [p \in Pids |-> IF p \in Zombies THEN "none" ELSE child[p]]
  /\ sep' = [s \in Services |-> IF s \in restored THEN [sep[s] EXCEPT !.wait = 1] ELSE sep[s]]
  /\ allsock' = allsock \cup restored
  /\ nsock' = nsock + Cardinality(Zombies)
  /\ Interrupted(servtab)
  /\ UNCHANGED <<servtab, timingout, config_vars, hups, fails>>

\* SIGCHLD: every child that has ended.
reapchild ==
  LET restored == {s \in Range(servtab) : sep[s].wait \in Zombies} IN
  /\ Zombies # {}
  /\ child' = [p \in Pids |-> IF p \in Zombies THEN "none" ELSE child[p]]
  /\ sep' = [s \in Services |-> IF s \in restored THEN [sep[s] EXCEPT !.wait = 1] ELSE sep[s]]
  /\ allsock' = allsock \cup restored
  /\ nsock' = nsock + Cardinality(restored)
  /\ Interrupted(servtab)
  /\ UNCHANGED <<servtab, timingout, config_vars, hups, fails>>

\* SIGALRM.
retry ==
  /\ timingout
  /\ LET closed == {s \in Range(servtab) \ Mux : ~sep[s].open} IN
       \E bad \in SUBSET closed :
         /\ Failing(bad)
         /\ sep' = [s \in Services |-> IF s \in closed \ bad THEN setup(sep[s]) ELSE sep[s]]
         /\ Sockets(closed \ bad, {})
         /\ timingout' = (bad # {})
  /\ Interrupted(servtab)
  /\ UNCHANGED <<servtab, child, config_vars, hups>>
-----------------------------------------------------------------------------
(* The main loop runs only while no handler does.                           *)
At(label) == pc = label /\ file = 0

Started ==
  /\ At("start") /\ pc' = "top"
  /\ UNCHANGED <<daemon, child, config_vars, readable, n, todo, cur, hups, fails>>

\* With nothing to watch the loop waits for a signal that changes that.
CopySockets ==
  /\ At("top") /\ nsock # 0
  /\ readable' = allsock /\ pc' = "copied"
  /\ UNCHANGED <<daemon, child, config_vars, n, todo, cur, hups, fails>>

\* select fails at once if a descriptor has been closed meanwhile.
EnterSelect ==
  /\ At("copied")
  /\ pc' = IF \A s \in readable : sep[s].open THEN "select" ELSE "top"
  /\ UNCHANGED <<daemon, child, config_vars, readable, n, todo, cur, hups, fails>>

SelectReturns ==
  LET ready == {s \in readable : sep[s].queue > 0} IN
  /\ At("select") /\ ready # {}
  /\ readable' = ready /\ n' = Cardinality(ready) /\ todo' = servtab
  /\ pc' = "scan"
  /\ UNCHANGED <<daemon, child, config_vars, cur, hups, fails>>

ScanEnds ==
  /\ At("scan") /\ (n = 0 \/ todo = <<>>)
  /\ pc' = "top"
  /\ UNCHANGED <<daemon, child, config_vars, readable, n, todo, cur, hups, fails>>

Wanted(s) == sep[s].open /\ s \in readable

SkipEntry ==
  /\ At("scan") /\ n > 0 /\ todo # <<>> /\ ~Wanted(Head(todo))
  /\ todo' = Tail(todo)
  /\ UNCHANGED <<daemon, child, config_vars, pc, readable, n, cur, hups, fails>>

Accepts(s) == sep[s].wait = 0 /\ s \in Stream

\* accept takes a connection, and waits for one if there is none.
TakeEntry ==
  /\ At("scan") /\ n > 0 /\ todo # <<>> /\ Wanted(Head(todo))
  /\ LET s == Head(todo) IN
       /\ cur' = s
       /\ IF Accepts(s) THEN sep[s].queue > 0 /\ sep' = [sep EXCEPT ![s].queue = @ - 1]
          ELSE UNCHANGED sep
  /\ n' = n - 1 /\ todo' = Tail(todo) /\ pc' = "fork"
  /\ UNCHANGED <<servtab, allsock, nsock, timingout, child, config_vars, readable, hups, fails>>

\* accept fails, for want of descriptors.
AcceptFails ==
  /\ At("scan") /\ n > 0 /\ todo # <<>> /\ Wanted(Head(todo)) /\ Accepts(Head(todo))
  /\ n' = n - 1 /\ todo' = Tail(todo)
  /\ UNCHANGED <<daemon, child, config_vars, pc, readable, cur, hups, fails>>

Serving(s) == At("fork") /\ s = cur

NextEntry == pc' = "scan" /\ UNCHANGED <<readable, n, todo, cur>>

\* The internal services that run without fork: those on datagrams read one
\* and answer it, the others write to the connection accepted before.
bi_fn(s) ==
  IF s \in Stream THEN UNCHANGED sep
  ELSE sep[s].queue > 0 /\ sep' = [sep EXCEPT ![s].queue = @ - 1]

RunInline(s) ==
  /\ Serving(s) /\ s \in Inline
  /\ bi_fn(s)
  /\ NextEntry
  /\ UNCHANGED <<servtab, allsock, nsock, timingout, child, config_vars, hups, fails>>

\* Mutant: only the limit of the configuration file counts.
AtLimit_MaxOnly(e) == e.count > 0 /\ e.max > 0 /\ e.count + 1 > e.max

\* The invocation is one too many for its interval.
AtLimit(e) == e.count > 0 /\ ((e.max > 0 /\ e.count + 1 > e.max) \/ e.count + 1 >= toomany)

\* se_count and se_time after one more invocation.
Counted(e) ==
  IF e.count = 0 \/ AtLimit(e) THEN [e EXCEPT !.count = 1, !.late = FALSE]
  ELSE [e EXCEPT !.count = @ + 1]

MayStart(s) == Serving(s) /\ s \notin Inline /\ (AtLimit(sep[s]) => sep[s].late)

\* Mutant: the socket of a single-threaded server is still watched.
StartServer_Watched(s, p) ==
  /\ MayStart(s) /\ child[p] = "none"
  /\ child' = [child EXCEPT ![p] = "running"]
  /\ LET e == Counted(sep[s]) IN
       sep' = [sep EXCEPT ![s] = IF e.wait > 0 THEN [e EXCEPT !.wait = p, !.servers = @ \cup {p}] ELSE e]
  /\ NextEntry
  /\ UNCHANGED <<servtab, allsock, nsock, timingout, config_vars, hups, fails>>

\* A server is started; a single-threaded one takes over the socket.
StartServer(s, p) ==
  /\ MayStart(s) /\ child[p] = "none"
  /\ child' = [child EXCEPT ![p] = "running"]
  /\ LET e == Counted(sep[s]) IN
       IF e.wait > 0
       THEN /\ sep' = [sep EXCEPT ![s] = [e EXCEPT !.wait = p, !.servers = @ \cup {p}]]
            /\ allsock' = allsock \ {s} /\ nsock' = IF e.open THEN nsock - 1 ELSE nsock
       ELSE /\ sep' = [sep EXCEPT ![s] = e]
            /\ UNCHANGED <<allsock, nsock>>
  /\ NextEntry
  /\ UNCHANGED <<servtab, timingout, config_vars, hups, fails>>

ForkFails(s) ==
  /\ MayStart(s)
  /\ sep' = [sep EXCEPT ![s] = Counted(@)]
  /\ NextEntry
  /\ UNCHANGED <<servtab, allsock, nsock, timingout, child, config_vars, hups, fails>>

\* Too many invocations too fast: the service is closed, then ...
Loops(s) ==
  /\ Serving(s) /\ s \notin Inline /\ AtLimit(sep[s]) /\ ~sep[s].late
  /\ sep' = [sep EXCEPT ![s] = close_sep(@)]
  /\ Sockets({}, {s} \cap Open)
  /\ pc' = "looping"
  /\ UNCHANGED <<servtab, timingout, child, config_vars, readable, n, todo, cur, hups, fails>>

\* ... with signals allowed again, an alarm is set to open it later.
SetAlarm ==
  /\ At("looping")
  /\ timingout' = TRUE
  /\ NextEntry
  /\ UNCHANGED <<servtab, sep, allsock, nsock, child, config_vars, hups, fails>>

\* config has freed the entry after accept: what is left in the memory of the
\* entry is used, a server of which inetd keeps no record may be started.
ServeFreed ==
  /\ At("freed")
  /\ \/ UNCHANGED child
     \/ \E p \in Pids : child[p] = "none" /\ child' = [child EXCEPT ![p] = "running"]
  /\ NextEntry
  /\ UNCHANGED <<daemon, config_vars, hups, fails>>
-----------------------------------------------------------------------------
\* A client sends a datagram or connects.
Request(s) ==
  /\ sep[s].open /\ sep[s].queue < QueueMax
  /\ sep' = [sep EXCEPT ![s].queue = @ + 1]
  /\ UNCHANGED <<servtab, allsock, nsock, timingout, child, config_vars, loop, hups, fails>>

\* A single-threaded server takes a request from the socket it was given, or
\* run_service does because there is no such user or program.
ServerTakes(s) ==
  /\ sep[s].servers # {} /\ sep[s].queue > 0
  /\ sep' = [sep EXCEPT ![s].queue = @ - 1]
  /\ UNCHANGED <<servtab, allsock, nsock, timingout, child, config_vars, loop, hups, fails>>

\* A server ends, whether it took a request or not.
ServerExits(p) ==
  /\ child[p] = "running"
  /\ child' = [child EXCEPT ![p] = "zombie"]
  /\ sep' = [s \in Services |-> [sep[s] EXCEPT !.servers = @ \ {p}]]
  /\ UNCHANGED <<servtab, allsock, nsock, timingout, config_vars, loop, hups, fails>>

\* CNT_INTVL seconds after the first invocation that counts.
IntervalPasses(s) ==
  /\ sep[s].count > 0 /\ ~sep[s].late
  /\ sep' = [sep EXCEPT ![s].late = TRUE]
  /\ UNCHANGED <<servtab, allsock, nsock, timingout, child, config_vars, loop, hups, fails>>

\* The administrator changes the files, or not, and sends SIGHUP.
Hangup(c) ==
  /\ pc # "start" /\ file = 0 /\ hups < MaxHups
  /\ conf' = c /\ hup' = TRUE /\ hups' = hups + 1
  /\ UNCHANGED <<daemon, file, checked, child, loop, fails>>

MainLoop ==
  \/ Started \/ CopySockets \/ EnterSelect \/ SelectReturns \/ ScanEnds \/ SkipEntry \/ TakeEntry \/ AcceptFails
  \/ \E s \in Services : RunInline(s) \/ ForkFails(s) \/ Loops(s) \/ \E p \in Pids : StartServer(s, p)
  \/ SetAlarm \/ ServeFreed

Next ==
  \/ MainLoop \/ reapchild \/ config \/ ReadFile \/ retry
  \/ \E s \in Services : Request(s) \/ ServerTakes(s) \/ IntervalPasses(s)
  \/ \E p \in Pids : ServerExits(p)
  \/ \E c \in Confs : Hangup(c)

Spec == Init /\ [][Next]_vars

\* Weak fairness, with the enabling conditions written out: handlers go on, the
\* alarm expires, and the main loop sets the alarm that it is about to set.
FairSpec ==
  /\ Spec
  /\ []<>(file = 0) \/ []<><<ReadFile>>_vars
  /\ []<>~timingout \/ []<><<retry>>_vars
  /\ []<>~At("looping") \/ []<><<SetAlarm>>_vars
-----------------------------------------------------------------------------
Entry ==
  [open : BOOLEAN, wait : {0, 1} \cup Pids, max : Nat, count : 0..toomany, late : BOOLEAN,
   queue : 0..QueueMax, servers : SUBSET Pids]

TypeOK ==
  /\ servtab \in Seq(Services) /\ sep \in [Services -> Entry]
  /\ allsock \subseteq Services /\ nsock \in Int /\ timingout \in BOOLEAN
  /\ child \in [Pids -> {"none", "running", "zombie"}]
  /\ conf \in Confs /\ hup \in BOOLEAN
  /\ file \in Nat /\ checked \subseteq Services
  /\ pc \in {"start", "top", "copied", "select", "scan", "fork", "freed", "looping"}
  /\ readable \subseteq Services /\ n \in Nat /\ todo \in Seq(Services) /\ cur \in Services
  /\ hups \in 0..MaxHups /\ fails \in 0..MaxFails

\* At most one server at a time has the socket of a service, however its end,
\* a reload and the main loop interleave (the point of se_wait).
OneServer == \A s \in Services : Cardinality(sep[s].servers) <= 1

\* Every open socket is watched, or its entry holds the pid of a server that
\* is not reaped yet, so that reapchild will watch it again; nothing else is
\* watched.  The exception is a service that a reload made nowait while its
\* server was running: nextconfig overwrites the pid, reapchild does not find
\* it, and the socket is not watched until it is closed.
Watched ==
  /\ allsock \subseteq Open
  /\ \A s \in Open \ allsock :
       \/ sep[s].wait > 1 /\ child[sep[s].wait] # "none"
       \/ sep[s].wait = 0 /\ hups > 0

\* A service of the table that has no socket (bind failed, or it was closed
\* because it looped) gets one again, by the alarm that retry answers.
ServicesReopen ==
  \A s \in Services \ Mux :
    (s \in Range(servtab) /\ ~sep[s].open) ~> (s \notin Range(servtab) \/ sep[s].open)

\* inetd.c on close_sep: "Don't keep the pid of this running deamon: when
\* reapchild() reaps this pid, it would erroneously increment nsock".  nsock
\* never counts a socket that is not watched, and until the first reload it
\* counts them all (a reload that closes the socket of a running server counts
\* it twice, after which inetd may pause with sockets open).
NsockCounts ==
  /\ nsock <= Cardinality(allsock)
  /\ hups = 0 => nsock = Cardinality(allsock)

\* What an entry says of its socket: a closed one belongs to nobody, a watched
\* one to inetd, and any other to the one server whose pid the entry holds,
\* unless a reload has overwritten it with 0.
EntriesTrue ==
  \A s \in Services :
    LET e == sep[s] IN
    /\ ~e.open => e.servers = {} /\ e.wait \in {0, 1}
    /\ e.open => s \in Range(servtab)
    /\ s \in allsock => e.open /\ e.servers = {} /\ e.wait \in {0, 1}
    /\ e.open /\ s \notin allsock => e.wait > 1 \/ (e.wait = 0 /\ hups > 0)
    /\ e.wait > 1 => child[e.wait] # "none"
    /\ \A p \in e.servers : child[p] = "running" /\ e.wait \in {0, p}
    /\ \A p, q \in e.servers : p = q

\* What the main loop relies on after select: an entry that it has still to look
\* at, or is serving, is watched if select found it ready and it is open.
LoopTrue ==
  /\ IsInjective(servtab) /\ IsInjective(todo)
  /\ pc \in {"copied", "select"} => readable \cap Open \subseteq allsock
  /\ pc \in {"scan", "fork", "looping", "freed"} => Range(todo) \cap readable \cap Open \subseteq allsock
  /\ pc = "fork" => cur \in allsock /\ cur \notin Range(todo)
  /\ pc = "start" => hups = 0 /\ \A p \in Pids : child[p] = "none"
  /\ hups = 0 => ~hup /\ (file # 0 => pc = "start")
  /\ IsFiniteSet(allsock) /\ IsFiniteSet(readable)

\* No socket that should be served is left out of select, nor inetd asleep with
\* sockets open, whatever handlers ran.
SocketsKept == TypeOK /\ Watched /\ NsockCounts /\ EntriesTrue /\ LoopTrue
=============================================================================
