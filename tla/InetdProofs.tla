--------------------------- MODULE InetdProofs ---------------------------
(***************************************************************************)
(* SocketsKept and OneServer of Inetd for all services, processes and        *)
(* configuration files.  SocketsKept is inductive: EntriesTrue relates each  *)
(* entry to the sockets watched and to the servers that run, and LoopTrue    *)
(* carries over what select returned through the handlers that run before   *)
(* the main loop uses it.                                                    *)
(***************************************************************************)
EXTENDS Inetd, FiniteSetTheorems, TLAPS

(* The elements of a sequence. *)
LEMMA SeqRange ==
  ASSUME NEW S, NEW s \in Seq(S)
  PROVE  /\ Range(s) \subseteq S /\ IsFiniteSet(Range(s))
         /\ \A i \in 1 .. Len(s) : s[i] \in Range(s)
         /\ \A x \in Range(s) : \E i \in 1 .. Len(s) : s[i] = x
  <1>1. DOMAIN s = 1 .. Len(s) /\ Len(s) \in Nat
    OBVIOUS
  <1>2. IsFiniteSet(1 .. Len(s))
    BY <1>1, FS_Interval
  <1>3. s \in Surjection(1 .. Len(s), Range(s))
    BY <1>1 DEF Surjection, Range
  <1>4. IsFiniteSet(Range(s))
    BY <1>2, <1>3, FS_Surjection
  <1> QED BY <1>1, <1>4 DEF Range

(* Reversing a sequence. *)
LEMMA ReverseRange ==
  ASSUME NEW S, NEW s \in Seq(S)
  PROVE  Reverse(s) \in Seq(S) /\ Range(Reverse(s)) = Range(s) /\ (IsInjective(s) => IsInjective(Reverse(s)))
  <1>1. Reverse(s) \in Seq(S) /\ Len(Reverse(s)) = Len(s) /\ Len(s) \in Nat
    BY DEF Reverse
  <1>2. \A i \in 1..Len(s) : Reverse(s)[i] = s[(Len(s) - i) + 1] /\ (Len(s) - i) + 1 \in 1..Len(s)
    BY DEF Reverse
  <1>3. \A i \in 1..Len(s) : s[i] = Reverse(s)[(Len(s) - i) + 1] /\ (Len(s) - i) + 1 \in 1..Len(s)
    BY DEF Reverse
  <1>4. DOMAIN s = 1 .. Len(s) /\ DOMAIN Reverse(s) = 1 .. Len(s)
    BY <1>1
  <1>5. Range(Reverse(s)) \subseteq Range(s)
    BY <1>2, <1>4 DEF Range
  <1>6. Range(s) \subseteq Range(Reverse(s))
    BY <1>3, <1>4 DEF Range
  <1>7. ASSUME IsInjective(s), NEW i \in 1 .. Len(s), NEW j \in 1 .. Len(s), Reverse(s)[i] = Reverse(s)[j]
        PROVE  i = j
    <2>1. (Len(s) - i) + 1 = (Len(s) - j) + 1
      BY <1>2, <1>4, <1>7 DEF IsInjective
    <2> QED BY <1>1, <2>1
  <1>8. IsInjective(s) => IsInjective(Reverse(s))
    BY <1>4, <1>7 DEF IsInjective
  <1> QED BY <1>1, <1>5, <1>6, <1>8

(* Joining two sequences. *)
LEMMA ConcatRange ==
  ASSUME NEW S, NEW s \in Seq(S), NEW t \in Seq(S)
  PROVE  /\ s \o t \in Seq(S) /\ Range(s \o t) = Range(s) \cup Range(t)
         /\ IsInjective(s) /\ IsInjective(t) /\ Range(s) \cap Range(t) = {} => IsInjective(s \o t)
  <1>1. s \o t \in Seq(S) /\ Len(s \o t) = Len(s) + Len(t) /\ Len(s) \in Nat /\ Len(t) \in Nat
    OBVIOUS
  <1>2. DOMAIN s = 1 .. Len(s) /\ DOMAIN t = 1 .. Len(t) /\ DOMAIN (s \o t) = 1 .. Len(s) + Len(t)
    BY <1>1
  <1>3. \A i \in 1 .. Len(s) : (s \o t)[i] = s[i] /\ i \in 1 .. Len(s) + Len(t)
    BY <1>1
  <1>4. \A i \in 1 .. Len(t) : (s \o t)[i + Len(s)] = t[i] /\ i + Len(s) \in 1 .. Len(s) + Len(t)
    BY <1>1
  <1>5. \A i \in 1 .. Len(s) + Len(t) : i \notin 1 .. Len(s) => i - Len(s) \in 1 .. Len(t) /\ (s \o t)[i] = t[i - Len(s)]
    BY <1>1
  <1>6. Range(s \o t) = Range(s) \cup Range(t)
    <2>1. Range(s) \subseteq Range(s \o t)
      BY <1>2, <1>3 DEF Range
    <2>2. Range(t) \subseteq Range(s \o t)
      BY <1>2, <1>4 DEF Range
    <2>3. ASSUME NEW i \in 1 .. Len(s) + Len(t) PROVE (s \o t)[i] \in Range(s) \cup Range(t)
      BY <1>2, <1>3, <1>5 DEF Range
    <2>4. Range(s \o t) \subseteq Range(s) \cup Range(t)
      BY <1>2, <2>3 DEF Range
    <2> QED BY <2>1, <2>2, <2>4
  <1>7. ASSUME IsInjective(s), IsInjective(t), Range(s) \cap Range(t) = {},
               NEW i \in 1 .. Len(s) + Len(t), NEW j \in 1 .. Len(s) + Len(t), (s \o t)[i] = (s \o t)[j]
        PROVE  i = j
    <2>1. CASE i \in 1 .. Len(s) /\ j \in 1 .. Len(s)
      BY <1>2, <1>3, <1>7, <2>1 DEF IsInjective
    <2>2. CASE i \notin 1 .. Len(s) /\ j \notin 1 .. Len(s)
      <3>1. i - Len(s) = j - Len(s)
        BY <1>2, <1>5, <1>7, <2>2 DEF IsInjective
      <3> QED BY <1>1, <3>1
    <2>3. CASE i \in 1 .. Len(s) /\ j \notin 1 .. Len(s)
      BY <1>2, <1>3, <1>5, <1>7, <2>3 DEF Range
    <2>4. CASE i \notin 1 .. Len(s) /\ j \in 1 .. Len(s)
      BY <1>2, <1>3, <1>5, <1>7, <2>4 DEF Range
    <2> QED BY <2>1, <2>2, <2>3, <2>4
  <1>8. IsInjective(s) /\ IsInjective(t) /\ Range(s) \cap Range(t) = {} => IsInjective(s \o t)
    BY <1>2, <1>7 DEF IsInjective
  <1> QED BY <1>1, <1>6, <1>8

(* Only keeps the elements that belong to the set: ranks are an injection of *)
(* their places into as many numbers, and so onto them.                      *)
LEMMA OnlyRange ==
  ASSUME NEW S, NEW list \in Seq(S), NEW set
  PROVE  /\ Only(list, set) \in Seq(S)
         /\ Range(Only(list, set)) = Range(list) \cap set
         /\ IsInjective(list) => IsInjective(Only(list, set))
  <1> DEFINE at == {i \in DOMAIN list : list[i] \in set}
             upto(i) == {j \in at : j <= i}
             rank == [i \in at |-> Cardinality(upto(i))]
             size == Cardinality(at)
             o == Only(list, set)
             pick(k) == CHOOSE i \in at : rank[i] = k
  <1>1. DOMAIN list = 1 .. Len(list) /\ Len(list) \in Nat
    OBVIOUS
  <1>2. IsFiniteSet(at) /\ size \in Nat
    <2>1. IsFiniteSet(1 .. Len(list)) /\ at \in SUBSET (1 .. Len(list))
      BY <1>1, FS_Interval
    <2>2. IsFiniteSet(at)
      BY <2>1, FS_Subset
    <2> QED BY <2>2, FS_CardinalityType
  <1>3. \A i \in at : IsFiniteSet(upto(i)) /\ Cardinality(upto(i)) \in Nat /\ Cardinality(upto(i)) <= size /\ i \in upto(i)
    <2>1. ASSUME NEW i \in at PROVE upto(i) \in SUBSET at /\ i \in upto(i)
      BY <1>1
    <2>2. \A T \in SUBSET at : IsFiniteSet(T) /\ Cardinality(T) <= size
      BY <1>2, FS_Subset
    <2>3. \A T \in SUBSET at : Cardinality(T) \in Nat
      BY <2>2, FS_CardinalityType
    <2> QED BY <2>1, <2>2, <2>3
  <1>4. \A i \in at : Cardinality(upto(i)) # 0
    BY <1>3, FS_EmptySet
  <1>5. rank \in [at -> 1 .. size]
    <2>1. \A c \in Nat : c <= size /\ c # 0 => c \in 1 .. size
      BY <1>2
    <2>2. \A i \in at : Cardinality(upto(i)) \in 1 .. size
      <3> HIDE DEF upto, size
      <3> QED BY <1>3, <1>4, <2>1
    <2> HIDE DEF upto, size, at
    <2> QED BY <2>2
  <1>6. ASSUME NEW i \in at, NEW j \in at, i < j PROVE rank[i] # rank[j]
    <2>1. upto(i) \subseteq upto(j) /\ upto(i) # upto(j)
      BY <1>1, <1>3, <1>6
    <2>2. Cardinality(upto(i)) # Cardinality(upto(j))
      BY <1>3, <2>1, FS_Subset
    <2> QED BY <2>2
  <1>7. \A i, j \in at : rank[i] = rank[j] => i = j
    <2>1. \A i, j \in at : i < j \/ j < i \/ i = j
      BY <1>1
    <2> QED BY <1>6, <2>1
  <1>8. rank \in Surjection(at, 1 .. size)
    <2>1. rank \in Injection(at, 1 .. size)
      BY <1>5, <1>7 DEF Injection, IsInjective
    <2>2. IsFiniteSet(1 .. size) /\ Cardinality(1 .. size) = size
      BY <1>2, FS_Interval
    <2> QED BY <2>1, <2>2, FS_Injection
  <1>9. \A k \in 1 .. size : pick(k) \in at /\ rank[pick(k)] = k
    BY <1>8 DEF Surjection
  <1>10. o = [k \in 1 .. size |-> list[pick(k)]]
    BY DEF Only
  <1>11. DOMAIN o = 1 .. size /\ \A k \in 1 .. size : o[k] = list[pick(k)]
    BY <1>10
  <1> HIDE DEF o, rank, upto, size, pick
  <1>12. \A k \in 1 .. size : o[k] \in S /\ o[k] \in Range(list) \cap set
    BY <1>1, <1>9, <1>11 DEF Range
  <1>13. \A i \in at : rank[i] \in 1 .. size /\ o[rank[i]] = list[i]
    BY <1>5, <1>7, <1>9, <1>11
  <1>14. o \in Seq(S)
    BY <1>2, <1>10, <1>12
  <1>15. Range(o) = Range(list) \cap set
    <2>1. Range(o) \subseteq Range(list) \cap set
      BY <1>11, <1>12 DEF Range
    <2>2. Range(list) \cap set \subseteq Range(o)
      BY <1>11, <1>13 DEF Range
    <2> QED BY <2>1, <2>2
  <1>16. IsInjective(list) => IsInjective(o)
    BY <1>1, <1>9, <1>11 DEF IsInjective
  <1> QED BY <1>14, <1>15, <1>16 DEF o

(* The sockets watched after some were opened and some closed, and their number. *)
LEMMA CountSockets ==
  ASSUME NEW A, NEW O, NEW C, IsFiniteSet(A), IsFiniteSet(O), IsFiniteSet(C), A \cap O = {}
  PROVE  /\ IsFiniteSet((A \cup O) \ C)
         /\ Cardinality((A \cup O) \ C) >= Cardinality(A) + Cardinality(O) - Cardinality(C)
         /\ C \subseteq A \cup O => Cardinality((A \cup O) \ C) = Cardinality(A) + Cardinality(O) - Cardinality(C)
         /\ Cardinality(A) \in Nat /\ Cardinality(O) \in Nat /\ Cardinality(C) \in Nat
         /\ Cardinality((A \cup O) \ C) \in Nat
  <1> DEFINE U == A \cup O
  <1>1. Cardinality(A) \in Nat /\ Cardinality(O) \in Nat /\ Cardinality(C) \in Nat /\ Cardinality({}) = 0
    BY FS_CardinalityType, FS_EmptySet
  <1>2. IsFiniteSet(U) /\ Cardinality(U) = Cardinality(A) + Cardinality(O)
    <2>1. IsFiniteSet(U) /\ Cardinality(U) = Cardinality(A) + Cardinality(O) - Cardinality(A \cap O)
      BY FS_Union
    <2> QED BY <1>1, <2>1
  <1>3. IsFiniteSet(U \ C) /\ Cardinality(U \ C) = Cardinality(U) - Cardinality(U \cap C)
    BY <1>2, FS_Difference
  <1>4. IsFiniteSet(U \cap C) /\ Cardinality(U \cap C) <= Cardinality(C)
    BY FS_Subset
  <1>5. Cardinality(U \cap C) \in Nat /\ Cardinality(U \ C) \in Nat
    BY <1>3, <1>4, FS_CardinalityType
  <1>6. C \subseteq U => Cardinality(U \cap C) = Cardinality(C)
    <2>1. C \subseteq U => U \cap C = C
      OBVIOUS
    <2> QED BY <2>1
  <1> HIDE DEF U
  <1>7. /\ Cardinality(U \ C) >= Cardinality(A) + Cardinality(O) - Cardinality(C)
        /\ C \subseteq U => Cardinality(U \ C) = Cardinality(A) + Cardinality(O) - Cardinality(C)
    BY <1>1, <1>2, <1>3, <1>4, <1>5, <1>6
  <1> QED BY <1>1, <1>3, <1>5, <1>7 DEF U

-----------------------------------------------------------------------------
USE DEF At, daemon, config_vars, loop

(* What EntriesTrue says of the sockets that are not watched. *)
LEMMA WatchedHolds == TypeOK /\ EntriesTrue => Watched
  <1> SUFFICES ASSUME TypeOK, EntriesTrue PROVE Watched
    OBVIOUS
  <1>1. Range(servtab) \subseteq Services
    BY SeqRange DEF TypeOK
  <1>2. Open = {s \in Services : sep[s].open}
    BY <1>1 DEF Open, EntriesTrue
  <1>3. allsock \subseteq Open
    BY <1>2 DEF TypeOK, EntriesTrue
  <1>4. ASSUME NEW s \in Open \ allsock
        PROVE  (sep[s].wait > 1 /\ child[sep[s].wait] # "none") \/ (sep[s].wait = 0 /\ hups > 0)
    BY <1>2 DEF EntriesTrue
  <1> QED BY <1>3, <1>4 DEF Watched

(* The inductive invariant. *)
InetdInv == TypeOK /\ EntriesTrue /\ NsockCounts /\ LoopTrue

(* It holds at first. *)
LEMMA InitInv == Init => InetdInv
  <1> SUFFICES ASSUME Init PROVE InetdInv
    OBVIOUS
  <1>1. TypeOK
    <2>1. \A s \in Services : getconfigent([name |-> s, wait |-> 0, max |-> 0]) \in Entry
      BY InetdAssumption DEF getconfigent, Entry
    <2>2. (CHOOSE s \in Services : TRUE) \in Services
      BY InetdAssumption
    <2>3. sep \in [Services -> Entry]
      BY <2>1 DEF Init
    <2>4. cur \in Services
      BY <2>2 DEF Init
    <2>5. child \in [Pids -> {"none", "running", "zombie"}]
      BY DEF Init
    <2>6. hups \in 0 .. MaxHups /\ fails \in 0 .. MaxFails
      BY InetdAssumption DEF Init
    <2>7. servtab \in Seq(Services) /\ todo \in Seq(Services) /\ file \in Nat /\ n \in Nat /\ nsock \in Int
      BY DEF Init
    <2>8. timingout \in BOOLEAN /\ hup \in BOOLEAN
      BY DEF Init
    <2>9. /\ allsock \subseteq Services /\ conf \in Confs /\ checked \subseteq Services /\ readable \subseteq Services
          /\ pc \in {"start", "top", "copied", "select", "scan", "fork", "freed", "looping"}
      BY DEF Init
    <2> QED BY <2>3, <2>4, <2>5, <2>6, <2>7, <2>8, <2>9 DEF TypeOK
  <1>2. EntriesTrue
    BY DEF Init, EntriesTrue, getconfigent
  <1>3. NsockCounts
    BY FS_EmptySet DEF Init, NsockCounts
  <1>4. LoopTrue
    BY FS_EmptySet DEF Init, LoopTrue, IsInjective
  <1> QED BY <1>1, <1>2, <1>3, <1>4 DEF InetdInv

(* A step that changes no more of the entries than their counters and queues. *)
SameEntries ==
  /\ \A s \in Services :
       sep'[s].open = sep[s].open /\ sep'[s].wait = sep[s].wait /\ sep'[s].servers = sep[s].servers
  /\ UNCHANGED <<servtab, allsock, nsock, hups>>

LEMMA SameEntriesKept ==
  ASSUME TypeOK, EntriesTrue, NsockCounts, SameEntries, UNCHANGED child
  PROVE  EntriesTrue' /\ NsockCounts' /\ Open' = Open
  <1>1. Range(servtab) \subseteq Services
    BY SeqRange DEF TypeOK
  <1>2. EntriesTrue'
    BY DEF EntriesTrue, SameEntries
  <1>3. NsockCounts'
    BY DEF NsockCounts, SameEntries
  <1>4. Open' = Open
    BY <1>1 DEF Open, SameEntries
  <1> QED BY <1>2, <1>3, <1>4

(* The scan goes on to the next entry. *)
LEMMA TodoTail ==
  ASSUME TypeOK, todo # <<>>, IsInjective(todo)
  PROVE  /\ Tail(todo) \in Seq(Services) /\ IsInjective(Tail(todo))
         /\ Range(Tail(todo)) \subseteq Range(todo)
         /\ Head(todo) \in Range(todo) /\ Head(todo) \notin Range(Tail(todo)) /\ Head(todo) \in Services
  <1>1. todo \in Seq(Services) /\ DOMAIN todo = 1 .. Len(todo) /\ Len(todo) \in Nat \ {0}
    BY DEF TypeOK
  <1>2. Tail(todo) \in Seq(Services) /\ DOMAIN Tail(todo) = 1 .. Len(todo) - 1
    BY <1>1
  <1>3. \A i \in 1 .. Len(todo) - 1 : Tail(todo)[i] = todo[i + 1] /\ i + 1 \in 1 .. Len(todo) /\ i + 1 # 1
    BY <1>1
  <1>4. Head(todo) = todo[1] /\ 1 \in 1 .. Len(todo)
    BY <1>1
  <1>5. IsInjective(Tail(todo))
    BY <1>1, <1>2, <1>3 DEF IsInjective
  <1>6. Head(todo) \in Range(todo) /\ Head(todo) \in Services
    BY <1>1, <1>4 DEF Range
  <1>7. Range(Tail(todo)) \subseteq Range(todo)
    BY <1>1, <1>2, <1>3 DEF Range
  <1>8. Head(todo) \notin Range(Tail(todo))
    BY <1>1, <1>2, <1>3, <1>4 DEF Range, IsInjective
  <1> QED BY <1>2, <1>5, <1>6, <1>7, <1>8

(* The steps of the main loop that start and close nothing. *)
LEMMA LoopStep ==
  ASSUME InetdInv,
         \/ Started \/ CopySockets \/ EnterSelect \/ SelectReturns \/ ScanEnds \/ SkipEntry \/ AcceptFails \/ SetAlarm
  PROVE  InetdInv'
  <1> USE DEF InetdInv
  <1>1. SameEntries /\ UNCHANGED <<child, sep>>
    BY DEF SameEntries, Started, CopySockets, EnterSelect, SelectReturns, ScanEnds, SkipEntry, AcceptFails, SetAlarm
  <1>2. EntriesTrue' /\ NsockCounts' /\ Open' = Open
    BY <1>1, SameEntriesKept
  <1>3. Range(servtab) \subseteq Services /\ readable \cap Services = readable
    BY SeqRange DEF TypeOK
  <1>4. CASE Started
    BY <1>2, <1>4 DEF Started, TypeOK, LoopTrue
  <1>5. CASE CopySockets
    BY <1>2, <1>5 DEF CopySockets, TypeOK, LoopTrue
  <1>6. CASE EnterSelect
    BY <1>2, <1>6 DEF EnterSelect, TypeOK, LoopTrue
  <1>7. CASE SelectReturns
    <2> DEFINE ready == {s \in readable : sep[s].queue > 0}
    <2>1. IsFiniteSet(ready) /\ Cardinality(ready) \in Nat /\ ready \subseteq readable
      BY FS_Subset, FS_CardinalityType DEF LoopTrue
    <2>2. readable' = ready /\ n' = Cardinality(ready) /\ todo' = servtab /\ pc = "select" /\ pc' = "scan"
      BY <1>7 DEF SelectReturns
    <2>3. UNCHANGED <<daemon, child, config_vars, cur, hups, fails>>
      BY <1>7 DEF SelectReturns
    <2> HIDE DEF ready
    <2>4. TypeOK'
      BY <2>1, <2>2, <2>3 DEF TypeOK
    <2>5. LoopTrue'
      BY <1>2, <2>1, <2>2, <2>3 DEF LoopTrue
    <2> QED BY <1>2, <2>4, <2>5
  <1>8. CASE ScanEnds
    BY <1>2, <1>8 DEF ScanEnds, TypeOK, LoopTrue
  <1>9. CASE SkipEntry
    BY <1>2, <1>9, TodoTail DEF SkipEntry, TypeOK, LoopTrue
  <1>10. CASE AcceptFails
    BY <1>2, <1>10, TodoTail DEF AcceptFails, TypeOK, LoopTrue
  <1>11. CASE SetAlarm
    BY <1>2, <1>11 DEF SetAlarm, NextEntry, TypeOK, LoopTrue
  <1> QED BY <1>4, <1>5, <1>6, <1>7, <1>8, <1>9, <1>10, <1>11

(* The main loop takes an entry: it is watched. *)
LEMMA TakeStep ==
  ASSUME InetdInv, TakeEntry
  PROVE  InetdInv'
  <1> USE DEF InetdInv
  <1> DEFINE s == Head(todo)
  <1>1. s \in Services /\ s \in Range(todo) /\ s \notin Range(Tail(todo)) /\ Range(Tail(todo)) \subseteq Range(todo)
        /\ Tail(todo) \in Seq(Services) /\ IsInjective(Tail(todo))
    BY TodoTail DEF TakeEntry, LoopTrue
  <1>2. sep'[s] \in Entry /\ sep' \in [Services -> Entry]
    <2>1. sep[s] \in Entry
      BY <1>1 DEF TypeOK
    <2>2. sep[s].queue > 0 => [sep[s] EXCEPT !.queue = @ - 1] \in Entry
      BY <2>1, InetdAssumption DEF Entry
    <2> QED BY <1>1, <2>1, <2>2 DEF TakeEntry, TypeOK
  <1>3. SameEntries /\ UNCHANGED child
    <2>1. sep[s] \in Entry /\ DOMAIN sep = Services
      BY <1>1 DEF TypeOK
    <2>2. LET e == [sep[s] EXCEPT !.queue = @ - 1] IN
          e.open = sep[s].open /\ e.wait = sep[s].wait /\ e.servers = sep[s].servers
      BY <2>1 DEF Entry
    <2> QED BY <1>1, <2>1, <2>2 DEF SameEntries, TakeEntry
  <1>4. EntriesTrue' /\ NsockCounts' /\ Open' = Open
    BY <1>3, SameEntriesKept
  <1>5. s \in allsock
    <2>1. s \in Open
      BY <1>1 DEF TakeEntry, Wanted, Open, EntriesTrue
    <2> QED BY <1>1, <2>1 DEF TakeEntry, Wanted, LoopTrue
  <1>6. cur' = s /\ todo' = Tail(todo) /\ pc' = "fork" /\ pc = "scan" /\ n' = n - 1 /\ n > 0
        /\ UNCHANGED <<servtab, allsock, nsock, timingout, child, config_vars, readable, hups, fails>>
    BY DEF TakeEntry
  <1> HIDE DEF s
  <1>7. TypeOK'
    BY <1>1, <1>2, <1>6 DEF TypeOK
  <1>8. LoopTrue'
    BY <1>1, <1>4, <1>5, <1>6 DEF LoopTrue
  <1> QED BY <1>4, <1>7, <1>8

(* One more invocation changes the count of the entry alone. *)
LEMMA CountedEntry ==
  ASSUME NEW e \in Entry
  PROVE  /\ Counted(e) \in Entry /\ Counted(e).open = e.open /\ Counted(e).wait = e.wait
         /\ Counted(e).servers = e.servers
  <1>1. toomany \in Nat \ {0}
    BY InetdAssumption
  <1>2. e.count \in 0 .. toomany /\ ~(e.count = 0 \/ AtLimit(e)) => e.count + 1 \in 0 .. toomany
    BY <1>1 DEF AtLimit, Entry
  <1>3. CASE e.count = 0 \/ AtLimit(e)
    <2>1. Counted(e) = [e EXCEPT !.count = 1, !.late = FALSE] /\ 1 \in 0 .. toomany
      BY <1>1, <1>3 DEF Counted
    <2> QED BY <2>1 DEF Entry
  <1>4. CASE ~(e.count = 0 \/ AtLimit(e))
    <2>1. Counted(e) = [e EXCEPT !.count = @ + 1] /\ e.count + 1 \in 0 .. toomany
      BY <1>2, <1>4 DEF Counted, Entry
    <2> QED BY <2>1 DEF Entry
  <1> QED BY <1>3, <1>4

(* The steps that serve an entry without a server: an internal service, or  *)
(* a fork that fails.                                                        *)
LEMMA ServeStep ==
  ASSUME InetdInv, NEW s \in Services, RunInline(s) \/ ForkFails(s)
  PROVE  InetdInv'
  <1> USE DEF InetdInv
  <1>1. sep[s] \in Entry
    BY DEF TypeOK
  <1>2. sep'[s] \in Entry /\ sep' \in [Services -> Entry] /\ SameEntries
    <2>1. CASE RunInline(s)
      <3> DEFINE e == [sep[s] EXCEPT !.queue = @ - 1]
      <3>1. /\ sep[s].queue > 0 => e \in Entry
            /\ e.open = sep[s].open /\ e.wait = sep[s].wait /\ e.servers = sep[s].servers
        BY <1>1, InetdAssumption DEF Entry
      <3>2. sep' = sep \/ (sep[s].queue > 0 /\ sep' = [sep EXCEPT ![s] = e])
        BY <2>1 DEF RunInline, bi_fn
      <3> HIDE DEF e
      <3>3. sep' \in [Services -> Entry] /\ sep'[s] \in Entry
        BY <1>1, <3>1, <3>2 DEF TypeOK
      <3> QED BY <2>1, <3>1, <3>2, <3>3 DEF RunInline, SameEntries, TypeOK
    <2>2. CASE ForkFails(s)
      BY <1>1, <2>2, CountedEntry DEF ForkFails, SameEntries, TypeOK
    <2> QED BY <2>1, <2>2
  <1>3. UNCHANGED child
    BY DEF RunInline, ForkFails
  <1>4. EntriesTrue' /\ NsockCounts' /\ Open' = Open
    BY <1>2, <1>3, SameEntriesKept
  <1>5. /\ pc = "fork" /\ NextEntry
        /\ UNCHANGED <<servtab, allsock, nsock, timingout, child, config_vars, hups, fails>>
    BY DEF RunInline, ForkFails, MayStart, Serving
  <1>6. TypeOK'
    BY <1>2, <1>5 DEF TypeOK, NextEntry
  <1>7. LoopTrue'
    BY <1>4, <1>5 DEF LoopTrue, NextEntry
  <1> QED BY <1>4, <1>6, <1>7

(* What the entry says that is being served. *)
LEMMA Served ==
  ASSUME InetdInv, NEW s \in Services, Serving(s)
  PROVE  /\ pc = "fork" /\ file = 0 /\ s \in allsock /\ s \notin Range(todo) /\ s \in Open
         /\ sep[s] \in Entry /\ sep[s].open /\ sep[s].servers = {} /\ sep[s].wait \in {0, 1}
         /\ Open = {t \in Services : sep[t].open}
         /\ IsFiniteSet(allsock) /\ Cardinality(allsock) \in Nat
         /\ IsFiniteSet(allsock \ {s}) /\ Cardinality(allsock \ {s}) = Cardinality(allsock) - 1
  <1> USE DEF InetdInv
  <1>1. pc = "fork" /\ file = 0 /\ s \in allsock /\ s \notin Range(todo)
    BY DEF Serving, LoopTrue
  <1>2. sep[s] \in Entry /\ sep[s].open /\ sep[s].servers = {} /\ sep[s].wait \in {0, 1}
    BY <1>1 DEF TypeOK, EntriesTrue
  <1>3. Range(servtab) \subseteq Services
    BY SeqRange DEF TypeOK
  <1>4. Open = {t \in Services : sep[t].open}
    BY <1>3 DEF Open, EntriesTrue
  <1>5. IsFiniteSet(allsock) /\ Cardinality(allsock) \in Nat
    BY FS_CardinalityType DEF LoopTrue
  <1>6. IsFiniteSet(allsock \ {s}) /\ Cardinality(allsock \ {s}) = Cardinality(allsock) - 1
    BY <1>1, <1>5, FS_RemoveElement
  <1> QED BY <1>1, <1>2, <1>4, <1>5, <1>6

(* A server is started: its pid is kept if it takes over the socket. *)
LEMMA StartStep ==
  ASSUME InetdInv, NEW s \in Services, NEW p \in Pids, StartServer(s, p)
  PROVE  InetdInv'
  <1> USE DEF InetdInv
  <1> DEFINE e == Counted(sep[s])
             f == [e EXCEPT !.wait = p, !.servers = @ \cup {p}]
  <1>1. /\ child[p] = "none" /\ child' = [child EXCEPT ![p] = "running"] /\ NextEntry
        /\ UNCHANGED <<servtab, timingout, config_vars, hups, fails>>
        /\ Serving(s)
    BY DEF StartServer, MayStart
  <1>2. /\ pc = "fork" /\ file = 0 /\ s \in allsock /\ s \notin Range(todo) /\ s \in Open
        /\ sep[s] \in Entry /\ sep[s].open /\ sep[s].servers = {} /\ sep[s].wait \in {0, 1}
        /\ Open = {t \in Services : sep[t].open}
        /\ Cardinality(allsock) \in Nat
        /\ IsFiniteSet(allsock \ {s}) /\ Cardinality(allsock \ {s}) = Cardinality(allsock) - 1
    BY <1>1, Served
  <1>3. e \in Entry /\ e.open /\ e.wait = sep[s].wait /\ e.servers = {}
    BY <1>2, CountedEntry
  <1>4. f \in Entry /\ f.open /\ f.wait = p /\ f.servers = {p}
    <2> HIDE DEF e
    <2> QED BY <1>3 DEF Entry
  <1>5. p > 1 /\ p \notin {0, 1}
    BY InetdAssumption
  <1>6. child' \in [Pids -> {"none", "running", "zombie"}] /\ child'[p] = "running"
        /\ \A q \in Pids : q # p => child'[q] = child[q]
    BY <1>1 DEF TypeOK
  <1>7. \/ sep[s].wait = 1 /\ sep' = [sep EXCEPT ![s] = f] /\ allsock' = allsock \ {s} /\ nsock' = nsock - 1
        \/ sep[s].wait = 0 /\ sep' = [sep EXCEPT ![s] = e] /\ UNCHANGED <<allsock, nsock>>
    BY <1>2, <1>3 DEF StartServer
  <1> HIDE DEF e, f
  <1>8. /\ sep' \in [Services -> Entry] /\ \A t \in Services : t # s => sep'[t] = sep[t]
        /\ sep'[s] \in {e, f} /\ sep'[s].open
    BY <1>3, <1>4, <1>7 DEF TypeOK
  <1>9. TypeOK'
    BY <1>1, <1>6, <1>7, <1>8 DEF TypeOK, NextEntry
  <1>10. EntriesTrue'
    <2> SUFFICES ASSUME NEW t \in Services
                 PROVE  /\ ~sep'[t].open => sep'[t].servers = {} /\ sep'[t].wait \in {0, 1}
                        /\ sep'[t].open => t \in Range(servtab')
                        /\ t \in allsock' => sep'[t].open /\ sep'[t].servers = {} /\ sep'[t].wait \in {0, 1}
                        /\ sep'[t].open /\ t \notin allsock' => sep'[t].wait > 1 \/ (sep'[t].wait = 0 /\ hups' > 0)
                        /\ sep'[t].wait > 1 => child'[sep'[t].wait] # "none"
                        /\ \A q \in sep'[t].servers : child'[q] = "running" /\ sep'[t].wait \in {0, q}
                        /\ \A q, r \in sep'[t].servers : q = r
      BY DEF EntriesTrue
    <2>1. CASE t = s
      <3>1. s \in Range(servtab) /\ servtab' = servtab
        BY <1>1, <1>2 DEF Open
      <3>2. CASE sep[s].wait = 1 /\ sep' = [sep EXCEPT ![s] = f] /\ allsock' = allsock \ {s}
        <4>1. sep'[s] = f
          BY <3>2 DEF TypeOK
        <4> QED BY <1>4, <1>5, <1>6, <2>1, <3>1, <3>2, <4>1
      <3>3. CASE sep[s].wait = 0 /\ sep' = [sep EXCEPT ![s] = e] /\ UNCHANGED allsock
        <4>1. sep'[s] = e
          BY <3>3 DEF TypeOK
        <4> QED BY <1>2, <1>3, <2>1, <3>1, <3>3, <4>1
      <3> QED BY <1>7, <3>2, <3>3
    <2>2. CASE t # s
      <3>1. sep'[t] = sep[t] /\ (t \in allsock' <=> t \in allsock) /\ servtab' = servtab /\ hups' = hups
        BY <1>1, <1>7, <1>8, <2>2
      <3>2. sep[t] \in Entry
        BY DEF TypeOK
      <3>3. \A q \in Pids : (child[q] = "running" => child'[q] = "running") /\ (child[q] # "none" => child'[q] # "none")
        BY <1>1, <1>6
      <3>4. sep[t].servers \subseteq Pids /\ sep[t].wait \in {0, 1} \cup Pids
        BY <3>2 DEF Entry
      <3>5. sep[t].wait > 1 => sep[t].wait \in Pids
        BY <3>4
      <3> QED BY <3>1, <3>3, <3>4, <3>5 DEF EntriesTrue
    <2> QED BY <2>1, <2>2
  <1>11. NsockCounts'
    <2>1. nsock \in Int /\ hups' = hups
      BY <1>1 DEF TypeOK
    <2>2. CASE allsock' = allsock \ {s} /\ nsock' = nsock - 1
      BY <1>2, <2>1, <2>2 DEF NsockCounts
    <2>3. CASE UNCHANGED <<allsock, nsock>>
      BY <2>1, <2>3 DEF NsockCounts
    <2> QED BY <1>7, <2>2, <2>3
  <1>12. LoopTrue'
    <2>1. Open' = Open
      <3>1. \A t \in Services : sep'[t].open <=> sep[t].open
        BY <1>2, <1>8
      <3>2. Range(servtab) \subseteq Services /\ servtab' = servtab
        BY <1>1, SeqRange DEF TypeOK
      <3> QED BY <3>1, <3>2 DEF Open
    <2>2. pc' = "scan" /\ UNCHANGED <<readable, n, todo, cur>>
      BY <1>1 DEF NextEntry
    <2> QED BY <1>1, <1>2, <1>7, <2>1, <2>2 DEF LoopTrue
  <1> QED BY <1>9, <1>10, <1>11, <1>12

(* Closing an entry. *)
LEMMA ClosedEntry ==
  ASSUME NEW e \in Entry
  PROVE  /\ close_sep(e) \in Entry /\ close_sep(e).open = FALSE /\ close_sep(e).servers = {}
         /\ close_sep(e).wait \in {0, 1}
  <1> DEFINE w == IF e.wait > 1 THEN 1 ELSE e.wait
  <1>1. w \in {0, 1}
    <2>1. e.wait \in {0, 1} \cup Pids
      BY DEF Entry
    <2>2. \A p \in Pids : p > 1
      BY InetdAssumption
    <2> QED BY <2>1, <2>2
  <1>2. close_sep(e) = [e EXCEPT !.open = FALSE, !.count = 0, !.queue = 0, !.servers = {}, !.wait = w]
    BY DEF close_sep
  <1>3. 0 \in 0 .. toomany /\ 0 \in 0 .. QueueMax
    BY InetdAssumption
  <1> HIDE DEF w
  <1> QED BY <1>1, <1>2, <1>3 DEF Entry

(* A service that loops is closed. *)
LEMMA LoopsStep ==
  ASSUME InetdInv, NEW s \in Services, Loops(s)
  PROVE  InetdInv'
  <1> USE DEF InetdInv
  <1> DEFINE f == close_sep(sep[s])
  <1>1. /\ pc = "fork" /\ file = 0 /\ s \in allsock /\ s \notin Range(todo) /\ s \in Open
        /\ sep[s] \in Entry /\ sep[s].open /\ sep[s].servers = {} /\ sep[s].wait \in {0, 1}
        /\ Open = {t \in Services : sep[t].open}
        /\ Cardinality(allsock) \in Nat
        /\ IsFiniteSet(allsock \ {s}) /\ Cardinality(allsock \ {s}) = Cardinality(allsock) - 1
    BY Served DEF Loops
  <1>2. f \in Entry /\ ~f.open /\ f.servers = {} /\ f.wait \in {0, 1}
    BY <1>1, ClosedEntry
  <1> HIDE DEF f
  <1>3. {s} \cap Open = {s} /\ Cardinality({s}) = 1 /\ Cardinality({}) = 0
    <2>1. {s} \cap Open = {s}
      BY <1>1
    <2> QED BY <2>1, FS_Singleton, FS_EmptySet
  <1>4. /\ sep' = [sep EXCEPT ![s] = f] /\ allsock' = allsock \ {s} /\ nsock' = nsock - 1 /\ pc' = "looping"
        /\ UNCHANGED <<servtab, timingout, child, config_vars, readable, n, todo, cur, hups, fails>>
    <2>1. Sockets({}, {s} \cap Open) /\ nsock \in Int /\ sep' = [sep EXCEPT ![s] = f]
      BY DEF Loops, TypeOK, f
    <2>2. allsock' = allsock \ {s} /\ nsock' = nsock - 1
      <3>1. Sockets({}, {s})
        BY <1>3, <2>1
      <3>2. allsock' = (allsock \cup {}) \ {s} /\ nsock' = nsock + Cardinality({}) - Cardinality({s})
        BY <3>1 DEF Sockets
      <3>3. nsock' = nsock + 0 - 1
        BY <1>3, <3>2
      <3> QED BY <2>1, <3>2, <3>3
    <2> QED BY <2>1, <2>2 DEF Loops
  <1>5. sep' \in [Services -> Entry] /\ sep'[s] = f /\ \A t \in Services : t # s => sep'[t] = sep[t]
    BY <1>2, <1>4 DEF TypeOK
  <1>6. TypeOK'
    BY <1>4, <1>5 DEF TypeOK
  <1>7. EntriesTrue'
    BY <1>2, <1>4, <1>5 DEF EntriesTrue
  <1>8. NsockCounts'
    BY <1>1, <1>4 DEF NsockCounts, TypeOK
  <1>9. LoopTrue'
    <2>1. Open' \subseteq Open \ {s}
      BY <1>1, <1>2, <1>4, <1>5 DEF Open
    <2> QED BY <1>1, <1>4, <2>1 DEF LoopTrue
  <1> QED BY <1>6, <1>7, <1>8, <1>9

(* What happens after an entry was freed touches no entry. *)
LEMMA FreedStep ==
  ASSUME InetdInv, ServeFreed
  PROVE  InetdInv'
  <1> USE DEF InetdInv
  <1>1. pc = "freed" /\ pc' = "scan" /\ UNCHANGED <<daemon, config_vars, hups, fails, readable, n, todo, cur>>
    BY DEF ServeFreed, NextEntry
  <1>2. /\ child' \in [Pids -> {"none", "running", "zombie"}]
        /\ \A q \in Pids : (child[q] = "running" => child'[q] = "running") /\ (child[q] # "none" => child'[q] # "none")
    BY DEF ServeFreed, TypeOK
  <1>3. \A t \in Services : sep[t].servers \subseteq Pids /\ (sep[t].wait > 1 => sep[t].wait \in Pids)
    <2>1. \A t \in Services : sep[t] \in Entry
      BY DEF TypeOK
    <2>2. \A e \in Entry : e.servers \subseteq Pids /\ (e.wait > 1 => e.wait \in Pids)
      BY DEF Entry
    <2> QED BY <2>1, <2>2
  <1>4. TypeOK'
    BY <1>1, <1>2 DEF TypeOK
  <1>5. EntriesTrue'
    BY <1>1, <1>2, <1>3 DEF EntriesTrue
  <1>6. NsockCounts'
    BY <1>1 DEF NsockCounts
  <1>7. LoopTrue'
    BY <1>1 DEF LoopTrue, Open
  <1> QED BY <1>4, <1>5, <1>6, <1>7

-----------------------------------------------------------------------------
(* A handler leaves the main loop what it relies on, if it watches what it  *)
(* opens, goes on watching what it leaves open, and closes only what it     *)
(* drops.                                                                    *)
LEMMA InterruptedLoop ==
  ASSUME TypeOK, LoopTrue, Interrupted(servtab'), servtab' \in Seq(Services), IsInjective(servtab'),
         allsock \subseteq Open, allsock \cap Open' \subseteq allsock', Open' \ Open \subseteq allsock',
         Open \cap Range(servtab') \subseteq Open', IsFiniteSet(allsock'), hups' = hups,
         pc = "start" => UNCHANGED child, hups = 0 => ~hup' /\ (file' # 0 => file # 0)
  PROVE  /\ LoopTrue'
         /\ pc' \in {"start", "top", "copied", "select", "scan", "fork", "freed", "looping"}
         /\ readable' \subseteq Services /\ n' \in Nat /\ todo' \in Seq(Services) /\ cur' \in Services
  <1>1. todo' = Only(todo, Range(servtab')) /\ UNCHANGED <<readable, n, cur>>
    BY DEF Interrupted
  <1>2. todo' \in Seq(Services) /\ Range(todo') = Range(todo) \cap Range(servtab') /\ IsInjective(todo')
    BY <1>1, OnlyRange DEF TypeOK, LoopTrue
  <1>3. pc' = CASE pc = "select" -> "top"
                [] pc = "fork" /\ cur \notin Range(servtab') -> "freed"
                [] OTHER -> pc
    BY DEF Interrupted
  <1>4. \/ pc = "select" /\ pc' = "top"
        \/ pc = "fork" /\ cur \notin Range(servtab') /\ pc' = "freed"
        \/ pc # "select" /\ (pc = "fork" => cur \in Range(servtab')) /\ pc' = pc
    BY <1>3
  <1>5. /\ pc' \in {"start", "top", "copied", "select", "scan", "fork", "freed", "looping"}
        /\ readable' \subseteq Services /\ n' \in Nat /\ cur' \in Services
    BY <1>1, <1>4 DEF TypeOK
  <1>6. readable \cap Open \subseteq allsock => readable \cap Open' \subseteq allsock'
    OBVIOUS
  <1>7. Range(todo) \cap readable \cap Open \subseteq allsock => Range(todo') \cap readable \cap Open' \subseteq allsock'
    BY <1>2
  <1>8. pc' = "fork" => cur' \in allsock' /\ cur' \notin Range(todo')
    BY <1>1, <1>2, <1>4 DEF LoopTrue
  <1>9. pc' = "start" => hups' = 0 /\ \A q \in Pids : child'[q] = "none"
    BY <1>4 DEF LoopTrue
  <1>10. hups' = 0 => ~hup' /\ (file' # 0 => pc' = "start")
    BY <1>4 DEF LoopTrue
  <1>11. pc' \in {"copied", "select"} => readable' \cap Open' \subseteq allsock'
    BY <1>1, <1>4, <1>6 DEF LoopTrue
  <1>12. pc' \in {"scan", "fork", "looping", "freed"} => Range(todo') \cap readable' \cap Open' \subseteq allsock'
    BY <1>1, <1>4, <1>7 DEF LoopTrue
  <1>13. LoopTrue'
    BY <1>1, <1>2, <1>8, <1>9, <1>10, <1>11, <1>12 DEF LoopTrue
  <1> QED BY <1>2, <1>5, <1>13

(* A handler that opens the sockets opened and closes the sockets closed, and *)
(* takes the pid out of no other entry but by making it nowait.               *)
Handled(opened, closed) ==
  /\ servtab' \in Seq(Services) /\ IsInjective(servtab') /\ sep' \in [Services -> Entry]
  /\ Sockets(opened, closed)
  /\ UNCHANGED <<child, hups>>
  /\ opened \subseteq Range(servtab') /\ opened \cap allsock = {} /\ opened \cap closed = {}
  /\ closed \subseteq Open \ Range(servtab') /\ IsFiniteSet(opened) /\ (hups = 0 => closed \subseteq allsock)
  /\ \A s \in Services :
       /\ s \in opened => sep'[s].open /\ sep'[s].servers = {} /\ sep'[s].wait \in {0, 1}
       /\ s \in closed => ~sep'[s].open
       /\ s \notin opened /\ ~sep[s].open => ~sep'[s].open
       /\ ~sep'[s].open => sep'[s].servers = {} /\ sep'[s].wait \in {0, 1}
       /\ s \notin opened \cup closed /\ sep[s].open =>
            /\ sep'[s].open /\ s \in Range(servtab') /\ sep'[s].servers = sep[s].servers
            /\ sep'[s].wait = sep[s].wait \/ (sep'[s].wait = 0 /\ (hups = 0 => s \in allsock))

LEMMA HandledKept ==
  ASSUME InetdInv, NEW opened, NEW closed, Handled(opened, closed), Interrupted(servtab'),
         hups = 0 => ~hup' /\ (file' # 0 => file # 0)
  PROVE  /\ EntriesTrue' /\ NsockCounts' /\ LoopTrue'
         /\ allsock' \subseteq Services /\ nsock' \in Int
         /\ pc' \in {"start", "top", "copied", "select", "scan", "fork", "freed", "looping"}
         /\ readable' \subseteq Services /\ n' \in Nat /\ todo' \in Seq(Services) /\ cur' \in Services
  <1> USE DEF InetdInv
  <1>1. Range(servtab) \subseteq Services /\ IsFiniteSet(Range(servtab)) /\ Range(servtab') \subseteq Services
    BY SeqRange DEF TypeOK, Handled
  <1>2. Open = {s \in Services : sep[s].open} /\ allsock \subseteq Open
    BY <1>1 DEF Open, EntriesTrue, TypeOK
  <1>3. Open' = {s \in Services : sep'[s].open}
    BY <1>1, <1>2 DEF Open, Handled
  <1>4. allsock' = (allsock \cup opened) \ closed /\ nsock' = nsock + Cardinality(opened) - Cardinality(closed)
    BY DEF Handled, Sockets
  <1>5. IsFiniteSet(closed)
    <2>1. closed \subseteq Range(servtab)
      BY DEF Handled, Open
    <2> QED BY <1>1, <2>1, FS_Subset
  <1>6. /\ IsFiniteSet(allsock')
        /\ Cardinality(allsock') >= Cardinality(allsock) + Cardinality(opened) - Cardinality(closed)
        /\ closed \subseteq allsock \cup opened =>
             Cardinality(allsock') = Cardinality(allsock) + Cardinality(opened) - Cardinality(closed)
        /\ Cardinality(allsock) \in Nat /\ Cardinality(opened) \in Nat /\ Cardinality(closed) \in Nat
        /\ Cardinality(allsock') \in Nat
    <2>1. IsFiniteSet(allsock) /\ IsFiniteSet(opened) /\ allsock \cap opened = {}
      BY DEF Handled, LoopTrue
    <2>2. /\ IsFiniteSet((allsock \cup opened) \ closed)
          /\ Cardinality((allsock \cup opened) \ closed)
               >= Cardinality(allsock) + Cardinality(opened) - Cardinality(closed)
          /\ closed \subseteq allsock \cup opened =>
               Cardinality((allsock \cup opened) \ closed)
                 = Cardinality(allsock) + Cardinality(opened) - Cardinality(closed)
          /\ Cardinality(allsock) \in Nat /\ Cardinality(opened) \in Nat /\ Cardinality(closed) \in Nat
          /\ Cardinality((allsock \cup opened) \ closed) \in Nat
      BY <1>5, <2>1, CountSockets, Zenon
    <2> QED BY <1>4, <2>2, Zenon
  <1>7. NsockCounts'
    <2>1. nsock \in Int /\ hups' = hups
      BY DEF TypeOK, Handled
    <2>2. nsock' <= Cardinality(allsock')
      BY <1>4, <1>6, <2>1 DEF NsockCounts
    <2>3. hups = 0 => closed \subseteq allsock \cup opened
      BY DEF Handled
    <2>4. hups = 0 => nsock' = Cardinality(allsock')
      BY <1>4, <1>6, <2>1, <2>3 DEF NsockCounts
    <2> QED BY <2>1, <2>2, <2>4 DEF NsockCounts
  <1>8. allsock' \subseteq Services /\ nsock' \in Int
    BY <1>1, <1>4, <1>6 DEF TypeOK, Handled
  <1>9. EntriesTrue'
    <2> SUFFICES ASSUME NEW t \in Services
                 PROVE  /\ ~sep'[t].open => sep'[t].servers = {} /\ sep'[t].wait \in {0, 1}
                        /\ sep'[t].open => t \in Range(servtab')
                        /\ t \in allsock' => sep'[t].open /\ sep'[t].servers = {} /\ sep'[t].wait \in {0, 1}
                        /\ sep'[t].open /\ t \notin allsock' => sep'[t].wait > 1 \/ (sep'[t].wait = 0 /\ hups' > 0)
                        /\ sep'[t].wait > 1 => child'[sep'[t].wait] # "none"
                        /\ \A q \in sep'[t].servers : child'[q] = "running" /\ sep'[t].wait \in {0, q}
                        /\ \A q, r \in sep'[t].servers : q = r
      BY DEF EntriesTrue
    <2>1. UNCHANGED <<child, hups>> /\ hups \in Nat /\ (hups # 0 => hups > 0)
      BY InetdAssumption DEF Handled, TypeOK
    <2>2. CASE t \in opened
      BY <1>4, <2>1, <2>2 DEF Handled
    <2>3. CASE ~sep'[t].open
      BY <1>4, <2>1, <2>3 DEF Handled, EntriesTrue
    <2>4. CASE t \notin opened /\ sep'[t].open
      <3>1. sep[t].open /\ t \notin closed /\ (t \in allsock' <=> t \in allsock)
        BY <1>4, <2>4 DEF Handled
      <3>2. /\ t \in Range(servtab') /\ sep'[t].servers = sep[t].servers
            /\ sep'[t].wait = sep[t].wait \/ (sep'[t].wait = 0 /\ (hups = 0 => t \in allsock))
        BY <2>4, <3>1 DEF Handled
      <3> QED BY <2>1, <2>4, <3>1, <3>2 DEF EntriesTrue
    <2> QED BY <2>2, <2>3, <2>4
  <1>10. allsock \cap Open' \subseteq allsock' /\ Open' \ Open \subseteq allsock' /\ Open \cap Range(servtab') \subseteq Open'
    BY <1>2, <1>3, <1>4 DEF Handled
  <1>11. servtab' \in Seq(Services) /\ IsInjective(servtab') /\ hups' = hups /\ (pc = "start" => UNCHANGED child)
    BY DEF Handled
  <1>12. /\ LoopTrue'
         /\ pc' \in {"start", "top", "copied", "select", "scan", "fork", "freed", "looping"}
         /\ readable' \subseteq Services /\ n' \in Nat /\ todo' \in Seq(Services) /\ cur' \in Services
    BY <1>2, <1>6, <1>10, <1>11, InterruptedLoop
  <1> QED BY <1>7, <1>8, <1>9, <1>12

(* SIGHUP. *)
LEMMA HangupStep ==
  ASSUME InetdInv, config \/ \E c \in Confs : Hangup(c)
  PROVE  InetdInv'
  <1> USE DEF InetdInv
  <1>1. SameEntries /\ UNCHANGED <<child, sep>> => EntriesTrue' /\ NsockCounts' /\ Open' = Open
    BY SameEntriesKept
  <1>2. CASE config
    <2>1. UNCHANGED <<daemon, child, conf, hups, fails>> /\ hup' = FALSE /\ file' = 1 /\ checked' = {} /\ hup
          /\ Interrupted(servtab')
      BY <1>2 DEF config
    <2>2. EntriesTrue' /\ NsockCounts' /\ Open' = Open
      BY <1>1, <2>1 DEF SameEntries
    <2>3. allsock \subseteq Open
      BY WatchedHolds DEF Watched
    <2>4. servtab' \in Seq(Services) /\ IsInjective(servtab') /\ IsFiniteSet(allsock') /\ hups # 0
      BY <2>1 DEF TypeOK, LoopTrue
    <2>5. /\ LoopTrue'
          /\ pc' \in {"start", "top", "copied", "select", "scan", "fork", "freed", "looping"}
          /\ readable' \subseteq Services /\ n' \in Nat /\ todo' \in Seq(Services) /\ cur' \in Services
      BY <2>1, <2>2, <2>3, <2>4, InterruptedLoop
    <2>6. TypeOK'
      BY <2>1, <2>5 DEF TypeOK
    <2> QED BY <2>2, <2>5, <2>6
  <1>3. CASE \E c \in Confs : Hangup(c)
    <2> PICK c \in Confs : Hangup(c)
      BY <1>3
    <2>1. /\ pc # "start" /\ hups < MaxHups /\ conf' = c /\ hup' = TRUE /\ hups' = hups + 1
          /\ UNCHANGED <<daemon, file, checked, child, loop, fails>>
      BY DEF Hangup
    <2>2. hups' \in 0 .. MaxHups /\ hups' > 0 /\ hups' # 0
      BY <2>1, InetdAssumption DEF TypeOK
    <2>3. TypeOK'
      BY <2>1, <2>2 DEF TypeOK
    <2>4. EntriesTrue'
      BY <2>1, <2>2 DEF EntriesTrue
    <2>5. NsockCounts'
      BY <2>1, <2>2 DEF NsockCounts
    <2>6. LoopTrue'
      BY <2>1, <2>2 DEF LoopTrue, Open
    <2> QED BY <2>3, <2>4, <2>5, <2>6
  <1> QED BY <1>2, <1>3

(* SIGCHLD: a socket is watched again because its entry holds the pid. *)
LEMMA ReapStep ==
  ASSUME InetdInv, reapchild
  PROVE  InetdInv'
  <1> USE DEF InetdInv
  <1> DEFINE restored == {s \in Range(servtab) : sep[s].wait \in Zombies}
  <1>1. /\ Zombies # {} /\ child' = [p \in Pids |-> IF p \in Zombies THEN "none" ELSE child[p]]
        /\ sep' = [s \in Services |-> IF s \in restored THEN [sep[s] EXCEPT !.wait = 1] ELSE sep[s]]
        /\ allsock' = allsock \cup restored /\ nsock' = nsock + Cardinality(restored)
        /\ Interrupted(servtab')
        /\ UNCHANGED <<servtab, timingout, config_vars, hups, fails>>
    BY DEF reapchild
  <1>2. Range(servtab) \subseteq Services /\ IsFiniteSet(Range(servtab))
    BY SeqRange DEF TypeOK
  <1>3. \A t \in Services : sep[t] \in Entry /\ sep[t].servers \subseteq Pids /\ (sep[t].wait > 1 => sep[t].wait \in Pids)
    <2>1. \A t \in Services : sep[t] \in Entry
      BY DEF TypeOK
    <2>2. \A e \in Entry : e.servers \subseteq Pids /\ (e.wait > 1 => e.wait \in Pids)
      BY DEF Entry
    <2> QED BY <2>1, <2>2
  <1>4. \A q \in Pids : q > 1 /\ q # 0 /\ q # 1
    BY InetdAssumption
  <1>5. \A t \in restored : t \in Services /\ sep[t].open /\ t \notin allsock /\ sep[t].servers = {}
    <2> SUFFICES ASSUME NEW t \in restored PROVE t \in Services /\ sep[t].open /\ t \notin allsock /\ sep[t].servers = {}
      OBVIOUS
    <2>1. t \in Services /\ sep[t].wait \in Pids /\ child[sep[t].wait] = "zombie"
      BY <1>2 DEF Zombies
    <2>2. sep[t].open /\ t \notin allsock
      BY <1>4, <2>1 DEF EntriesTrue
    <2>3. sep[t].servers = {}
      BY <1>4, <2>1 DEF EntriesTrue
    <2> QED BY <2>1, <2>2, <2>3
  <1>6. \A t \in Services : t \notin restored /\ sep[t].wait > 1 => sep[t].wait \notin Zombies
    BY DEF EntriesTrue
  <1>7. IsFiniteSet(restored)
    BY <1>2, FS_Subset
  <1> HIDE DEF restored
  <1>8. /\ \A t \in restored : LET e == [sep[t] EXCEPT !.wait = 1] IN
              e \in Entry /\ e.wait = 1 /\ e.open = sep[t].open /\ e.servers = sep[t].servers
    BY <1>3, <1>5 DEF Entry
  <1>9. /\ sep' \in [Services -> Entry]
        /\ \A t \in restored : sep'[t].wait = 1 /\ sep'[t].open = sep[t].open /\ sep'[t].servers = sep[t].servers
        /\ \A t \in Services \ restored : sep'[t] = sep[t]
    BY <1>1, <1>3, <1>5, <1>8
  <1>10. /\ child' \in [Pids -> {"none", "running", "zombie"}]
         /\ \A q \in Pids : child[q] = "running" => child'[q] = "running"
         /\ \A q \in Pids : q \notin Zombies => child'[q] = child[q]
    BY <1>1 DEF TypeOK, Zombies
  <1>11. EntriesTrue'
    <2> SUFFICES ASSUME NEW t \in Services
                 PROVE  /\ ~sep'[t].open => sep'[t].servers = {} /\ sep'[t].wait \in {0, 1}
                        /\ sep'[t].open => t \in Range(servtab')
                        /\ t \in allsock' => sep'[t].open /\ sep'[t].servers = {} /\ sep'[t].wait \in {0, 1}
                        /\ sep'[t].open /\ t \notin allsock' => sep'[t].wait > 1 \/ (sep'[t].wait = 0 /\ hups' > 0)
                        /\ sep'[t].wait > 1 => child'[sep'[t].wait] # "none"
                        /\ \A q \in sep'[t].servers : child'[q] = "running" /\ sep'[t].wait \in {0, q}
                        /\ \A q, r \in sep'[t].servers : q = r
      BY DEF EntriesTrue
    <2>1. CASE t \in restored
      <3>1. t \in Range(servtab')
        BY <1>1, <2>1 DEF restored
      <3>2. sep'[t].open /\ sep'[t].servers = {} /\ sep'[t].wait = 1 /\ t \in allsock'
        BY <1>1, <1>5, <1>9, <2>1
      <3> QED BY <3>1, <3>2
    <2>2. CASE t \notin restored
      <3>1. sep'[t] = sep[t] /\ (t \in allsock' <=> t \in allsock) /\ servtab' = servtab /\ hups' = hups
        BY <1>1, <1>9, <2>2
      <3>2. sep[t].wait > 1 => child'[sep[t].wait] # "none"
        BY <1>3, <1>6, <1>10, <2>2 DEF EntriesTrue
      <3>3. \A q \in sep[t].servers : child'[q] = "running" /\ sep[t].wait \in {0, q}
        BY <1>3, <1>10 DEF EntriesTrue
      <3> QED BY <3>1, <3>2, <3>3 DEF EntriesTrue
    <2> QED BY <2>1, <2>2
  <1>12. Open' = Open
    BY <1>1, <1>2, <1>9 DEF Open
  <1>13. IsFiniteSet(allsock') /\ NsockCounts' /\ nsock' \in Int
    <2>1. allsock \cap restored = {} /\ IsFiniteSet(allsock) /\ nsock \in Int
      BY <1>5 DEF LoopTrue, TypeOK
    <2>2. /\ IsFiniteSet(allsock')
          /\ Cardinality(allsock') = Cardinality(allsock) + Cardinality(restored) - Cardinality(allsock \cap restored)
      BY <1>1, <1>7, <2>1, FS_Union
    <2>3. Cardinality(allsock \cap restored) = 0 /\ Cardinality(allsock) \in Nat /\ Cardinality(restored) \in Nat
      BY <1>7, <2>1, FS_EmptySet, FS_CardinalityType
    <2> QED BY <1>1, <2>1, <2>2, <2>3 DEF NsockCounts
  <1>14. pc # "start"
    BY <1>1 DEF LoopTrue, Zombies
  <1>15. allsock \subseteq Open /\ allsock \subseteq allsock' /\ allsock' \subseteq Services
    BY <1>1, <1>5, WatchedHolds DEF Watched, TypeOK
  <1>16. servtab' \in Seq(Services) /\ IsInjective(servtab') /\ hups' = hups /\ (hups = 0 => ~hup' /\ (file' # 0 => file # 0))
    BY <1>1 DEF LoopTrue, TypeOK
  <1>17. /\ LoopTrue'
         /\ pc' \in {"start", "top", "copied", "select", "scan", "fork", "freed", "looping"}
         /\ readable' \subseteq Services /\ n' \in Nat /\ todo' \in Seq(Services) /\ cur' \in Services
    BY <1>1, <1>12, <1>13, <1>14, <1>15, <1>16, InterruptedLoop
  <1>18. TypeOK'
    BY <1>1, <1>9, <1>10, <1>13, <1>15, <1>16, <1>17 DEF TypeOK
  <1> QED BY <1>11, <1>13, <1>17, <1>18

(* SIGALRM: what has no socket is opened. *)
LEMMA RetryStep ==
  ASSUME InetdInv, retry
  PROVE  InetdInv'
  <1> USE DEF InetdInv
  <1> DEFINE shut == {s \in Range(servtab) \ Mux : ~sep[s].open}
  <1>1. PICK bad \in SUBSET shut :
          /\ Failing(bad)
          /\ sep' = [s \in Services |-> IF s \in shut \ bad THEN setup(sep[s]) ELSE sep[s]]
          /\ Sockets(shut \ bad, {})
          /\ timingout' = (bad # {})
    BY DEF retry
  <1>2. Interrupted(servtab') /\ UNCHANGED <<servtab, child, config_vars, hups>>
    BY DEF retry
  <1>3. Range(servtab) \subseteq Services /\ IsFiniteSet(Range(servtab))
    BY SeqRange DEF TypeOK
  <1>4. IsFiniteSet(shut \ bad)
    BY <1>3, FS_Subset
  <1>5. \A e \in Entry : setup(e) \in Entry /\ setup(e).open /\ setup(e).wait = e.wait /\ setup(e).servers = e.servers
    BY DEF Entry, setup
  <1>6. shut \subseteq Range(servtab) /\ \A t \in shut : ~sep[t].open
    OBVIOUS
  <1> HIDE DEF shut
  <1>7. /\ sep' \in [Services -> Entry]
        /\ \A t \in Services : t \in shut \ bad => sep'[t] = setup(sep[t])
        /\ \A t \in Services : t \notin shut \ bad => sep'[t] = sep[t]
    BY <1>1, <1>5 DEF TypeOK
  <1>8. Handled(shut \ bad, {})
    <2>1. \A t \in Services : sep[t] \in Entry
      BY DEF TypeOK
    <2>2. servtab' \in Seq(Services) /\ IsInjective(servtab')
      BY <1>2 DEF TypeOK, LoopTrue
    <2>3. (shut \ bad) \cap allsock = {}
      BY <1>6 DEF EntriesTrue, TypeOK
    <2>4. \A t \in Services : sep[t].open => t \in Range(servtab')
      BY <1>2 DEF EntriesTrue
    <2>5. \A t \in Services : t \in shut \ bad => sep'[t].open /\ sep'[t].servers = {} /\ sep'[t].wait \in {0, 1}
      BY <1>5, <1>6, <1>7, <2>1 DEF EntriesTrue
    <2>6. \A t \in Services : ~sep'[t].open => sep'[t].servers = {} /\ sep'[t].wait \in {0, 1}
      BY <1>7, <2>5 DEF EntriesTrue
    <2> QED BY <1>1, <1>2, <1>4, <1>6, <1>7, <2>2, <2>3, <2>4, <2>5, <2>6 DEF Handled
  <1>9. /\ EntriesTrue' /\ NsockCounts' /\ LoopTrue'
        /\ allsock' \subseteq Services /\ nsock' \in Int
        /\ pc' \in {"start", "top", "copied", "select", "scan", "fork", "freed", "looping"}
        /\ readable' \subseteq Services /\ n' \in Nat /\ todo' \in Seq(Services) /\ cur' \in Services
    <2>1. hups = 0 => ~hup' /\ (file' # 0 => file # 0)
      BY <1>2 DEF LoopTrue
    <2> QED BY <1>2, <1>8, <2>1, HandledKept
  <1>10. fails' \in 0 .. MaxFails
    BY <1>1, InetdAssumption DEF Failing, TypeOK
  <1>11. timingout' \in BOOLEAN
    BY <1>1
  <1>12. TypeOK'
    BY <1>2, <1>7, <1>9, <1>10, <1>11 DEF TypeOK
  <1> QED BY <1>9, <1>12

(* A line of a file becomes an entry: the socket and its servers stay those *)
(* of the table, and a pid stays in the entry unless the line says nowait.   *)
LEMMA MergedEntry ==
  ASSUME TypeOK, EntriesTrue, NEW line \in Line
  PROVE  LET s == line.name
             e == Merged(line)
         IN /\ e \in Entry /\ (e.open <=> sep[s].open)
            /\ sep[s].open => e.servers = sep[s].servers /\ (e.wait = sep[s].wait \/ e.wait = 0)
            /\ ~sep[s].open => e.servers = {} /\ e.wait \in {0, 1}
  <1> DEFINE s == line.name
             e == Merged(line)
  <1>1. s \in Services /\ line.wait \in {0, 1} /\ line.max \in Nat
    BY DEF Line
  <1>2. sep[s] \in Entry
    BY <1>1 DEF TypeOK
  <1>3. CASE s \notin Range(servtab)
    <2>1. e = getconfigent(line)
      BY <1>3 DEF Merged
    <2>2. e \in Entry /\ e.open = FALSE /\ e.servers = {} /\ e.wait \in {0, 1}
      BY <1>1, <2>1, InetdAssumption DEF getconfigent, Entry
    <2>3. ~sep[s].open
      BY <1>1, <1>3 DEF EntriesTrue
    <2> QED BY <2>2, <2>3
  <1>4. CASE s \in Range(servtab)
    <2> DEFINE w == IF s \in Mux THEN 0 ELSE line.wait
    <2>1. e = Redo(sep[s], line)
      BY <1>4 DEF Merged
    <2>2. CASE s \notin Inline /\ (sep[s].wait = 1 \/ line.wait = 0)
      <3>1. e = [sep[s] EXCEPT !.wait = w]
        BY <2>1, <2>2 DEF Redo
      <3>2. w \in {0, 1} /\ (w = sep[s].wait \/ w = 0)
        BY <1>1, <2>2
      <3> HIDE DEF w, e
      <3>3. e \in Entry /\ e.open = sep[s].open /\ e.servers = sep[s].servers /\ e.wait = w
        BY <1>2, <3>1, <3>2 DEF Entry
      <3> QED BY <1>1, <3>2, <3>3 DEF EntriesTrue, e
    <2>3. CASE ~(s \notin Inline /\ (sep[s].wait = 1 \/ line.wait = 0))
      <3>1. e = sep[s]
        BY <2>1, <2>3 DEF Redo
      <3> QED BY <1>1, <1>2, <3>1 DEF EntriesTrue
    <2> QED BY <2>2, <2>3
  <1> QED BY <1>3, <1>4

(* One file of the configuration. *)
LEMMA ReadStep ==
  ASSUME InetdInv, ReadFile
  PROVE  InetdInv'
  <1> USE DEF InetdInv
  <1> DEFINE lines == conf[file]
             names == [i \in DOMAIN lines |-> lines[i].name]
             lineof(t) == lines[CHOOSE i \in DOMAIN lines : names[i] = t]
             entry == [t \in Range(names) |-> Merged(lineof(t))]
             tried == {t \in Range(names) \ Mux : ~entry[t].open}
             keep == checked \cup Range(names)
             gone == {t \in Range(servtab) \ keep : sep[t].open}
             new == Only(names, Services \ Range(servtab))
  <1>1. PICK bad : Failing(bad) /\ nextconfig(lines, bad)
    BY DEF ReadFile
  <1>2. /\ file \in DOMAIN conf /\ file' = (file + 1) % (Len(conf) + 1) /\ Interrupted(servtab')
        /\ UNCHANGED <<child, conf, hup, hups>>
    BY DEF ReadFile
  <1> DEFINE opened == tried \ bad
  <1>3. /\ servtab' = Only(Reverse(new) \o servtab, keep)
        /\ sep' = [t \in Services |->
                     CASE t \in opened -> setup(entry[t])
                       [] t \in Range(names) \ opened -> entry[t]
                       [] t \in gone -> close_sep(sep[t])
                       [] OTHER -> sep[t]]
        /\ Sockets(opened, gone)
        /\ timingout' = (timingout \/ tried \cap bad # {})
        /\ checked' = keep
    BY <1>1 DEF nextconfig, enter, Alarm
  <1>4. /\ lines \in Seq(Line) /\ \A i, j \in DOMAIN lines : lines[i].name = lines[j].name => i = j
        /\ conf \in Seq(Seq(Line)) /\ conf # <<>>
    <2>1. conf \in Confs
      BY DEF TypeOK
    <2>2. conf \in Seq(Seq(Line)) /\ conf # <<>>
          /\ \A i \in DOMAIN conf : \A j, k \in DOMAIN conf[i] : conf[i][j].name = conf[i][k].name => j = k
      BY <2>1, ConfAssumption
    <2>3. conf[file] \in Seq(Line)
      BY <1>2, <2>2
    <2> QED BY <1>2, <2>2, <2>3
  <1>5. names \in Seq(Services) /\ IsInjective(names)
    <2>1. \A i \in DOMAIN lines : lines[i] \in Line
      BY <1>4
    <2>2. \A i \in DOMAIN lines : lines[i].name \in Services
      BY <2>1 DEF Line
    <2>3. DOMAIN lines = 1 .. Len(lines) /\ Len(lines) \in Nat
      BY <1>4
    <2> HIDE DEF lines
    <2>4. names \in Seq(Services)
      BY <2>2, <2>3
    <2>5. IsInjective(names)
      BY <1>4 DEF IsInjective
    <2> QED BY <2>4, <2>5
  <1>6. \A t \in Range(names) : lineof(t) \in Line /\ lineof(t).name = t /\ t \in Services
    <2> SUFFICES ASSUME NEW t \in Range(names) PROVE lineof(t) \in Line /\ lineof(t).name = t /\ t \in Services
      OBVIOUS
    <2>1. DOMAIN names = DOMAIN lines /\ \A i \in DOMAIN lines : names[i] = lines[i].name
      OBVIOUS
    <2>2. \E i \in DOMAIN lines : names[i] = t
      BY <2>1 DEF Range
    <2>3. \A i \in DOMAIN lines : lines[i] \in Line
      BY <1>4
    <2> HIDE DEF lines, names
    <2>4. PICK i \in DOMAIN lines : i = (CHOOSE j \in DOMAIN lines : names[j] = t) /\ names[i] = t
      BY <2>2
    <2>5. lineof(t) = lines[i]
      BY <2>4
    <2>6. lineof(t) \in Line /\ lineof(t).name = t
      BY <2>1, <2>3, <2>4, <2>5
    <2> HIDE DEF lineof
    <2> QED BY <2>6 DEF Line
  <1>7. \A t \in Range(names) :
          /\ entry[t] \in Entry /\ (entry[t].open <=> sep[t].open)
          /\ sep[t].open => entry[t].servers = sep[t].servers /\ (entry[t].wait = sep[t].wait \/ entry[t].wait = 0)
          /\ ~sep[t].open => entry[t].servers = {} /\ entry[t].wait \in {0, 1}
    <2> SUFFICES ASSUME NEW t \in Range(names)
                 PROVE  /\ entry[t] \in Entry /\ (entry[t].open <=> sep[t].open)
                        /\ sep[t].open => entry[t].servers = sep[t].servers /\ (entry[t].wait = sep[t].wait \/ entry[t].wait = 0)
                        /\ ~sep[t].open => entry[t].servers = {} /\ entry[t].wait \in {0, 1}
      OBVIOUS
    <2>1. lineof(t) \in Line /\ lineof(t).name = t /\ entry[t] = Merged(lineof(t))
      BY <1>6
    <2> HIDE DEF lineof, entry
    <2> QED BY <2>1, MergedEntry
  <1>8. \A t \in Services : sep[t] \in Entry
    BY DEF TypeOK
  <1>9. /\ Range(servtab) \subseteq Services /\ IsFiniteSet(Range(names)) /\ Range(names) \subseteq Services
    <2> HIDE DEF names
    <2> QED BY <1>5, SeqRange DEF TypeOK
  <1>10. servtab' \in Seq(Services) /\ IsInjective(servtab') /\ Range(servtab') = (Range(names) \cup Range(servtab)) \cap keep
    <2> HIDE DEF names, keep
    <2>1. new \in Seq(Services) /\ IsInjective(new) /\ Range(new) = Range(names) \cap (Services \ Range(servtab))
      BY <1>5, OnlyRange
    <2> HIDE DEF new
    <2>2. Reverse(new) \in Seq(Services) /\ IsInjective(Reverse(new)) /\ Range(Reverse(new)) = Range(new)
      BY <2>1, ReverseRange
    <2>3. Range(Reverse(new)) \cap Range(servtab) = {}
      BY <2>1, <2>2
    <2>4. /\ Reverse(new) \o servtab \in Seq(Services) /\ IsInjective(Reverse(new) \o servtab)
          /\ Range(Reverse(new) \o servtab) = Range(Reverse(new)) \cup Range(servtab)
      BY <2>2, <2>3, ConcatRange DEF TypeOK, LoopTrue
    <2>5. Range(Reverse(new) \o servtab) = Range(names) \cup Range(servtab)
      BY <1>9, <2>1, <2>2, <2>4
    <2>6. servtab' = Only(Reverse(new) \o servtab, keep)
      BY <1>3
    <2>7. /\ Only(Reverse(new) \o servtab, keep) \in Seq(Services) /\ IsInjective(Only(Reverse(new) \o servtab, keep))
          /\ Range(Only(Reverse(new) \o servtab, keep)) = Range(Reverse(new) \o servtab) \cap keep
      BY <2>4, OnlyRange
    <2> QED BY <2>5, <2>6, <2>7
  <1>11. IsFiniteSet(opened) /\ opened \subseteq Range(names) /\ tried \subseteq Range(names)
    BY <1>9, FS_Subset
  <1>12. \A t \in opened : ~sep[t].open /\ t \in Range(names)
    BY <1>7
  <1>13. /\ gone \subseteq Open /\ gone \cap keep = {} /\ gone \cap Range(names) = {} /\ Range(names) \subseteq keep
         /\ \A t \in Range(servtab) : sep[t].open /\ t \notin gone => t \in keep
    BY DEF Open
  <1> HIDE DEF lines, names, entry, tried, keep, gone, new, opened
  <1>14. \A e \in Entry : setup(e) \in Entry /\ setup(e).open /\ setup(e).wait = e.wait /\ setup(e).servers = e.servers
    BY DEF Entry, setup
  <1>15. /\ DOMAIN sep' = Services
         /\ \A t \in Services : t \in opened => sep'[t] = setup(entry[t])
         /\ \A t \in Services : t \in Range(names) \ opened => sep'[t] = entry[t]
         /\ \A t \in Services : t \in gone => sep'[t] = close_sep(sep[t])
         /\ \A t \in Services : t \notin Range(names) \cup gone => sep'[t] = sep[t]
    BY <1>3, <1>11, <1>13
  <1>16. sep' \in [Services -> Entry]
    <2>1. \A t \in Services : sep'[t] \in Entry
      <3> SUFFICES ASSUME NEW t \in Services PROVE sep'[t] \in Entry
        OBVIOUS
      <3>1. CASE t \in opened
        BY <1>7, <1>11, <1>14, <1>15, <3>1
      <3>2. CASE t \in Range(names) \ opened
        BY <1>7, <1>15, <3>2
      <3>3. CASE t \in gone
        BY <1>8, <1>15, <3>3, ClosedEntry
      <3>4. CASE t \notin Range(names) \cup gone
        BY <1>8, <1>15, <3>4
      <3> QED BY <3>1, <3>2, <3>3, <3>4
    <2>2. sep' = [t \in Services |-> sep'[t]]
      BY <1>3
    <2> QED BY <2>1, <2>2
  <1>17. Handled(opened, gone)
    <2>1. opened \subseteq Range(servtab') /\ opened \cap allsock = {} /\ opened \cap gone = {}
      BY <1>10, <1>11, <1>12, <1>13 DEF EntriesTrue, TypeOK
    <2>2. gone \subseteq Open \ Range(servtab')
      BY <1>10, <1>13
    <2>3. hups = 0 => Open \subseteq allsock
      <3>1. hups = 0 => pc = "start"
        BY <1>2, <1>4 DEF LoopTrue
      <3>2. hups = 0 => \A q \in Pids : child[q] = "none"
        BY <3>1 DEF LoopTrue
      <3>3. \A t \in Services : sep[t].wait > 1 => sep[t].wait \in Pids
        BY <1>8 DEF Entry
      <3>4. hups = 0 => hups \in Nat /\ ~(hups > 0)
        OBVIOUS
      <3>5. \A t \in Services : hups = 0 /\ sep[t].open => t \in allsock
        BY <3>2, <3>3, <3>4 DEF EntriesTrue
      <3> QED BY <1>9, <3>5 DEF Open
    <2> SUFFICES ASSUME NEW t \in Services
                 PROVE  /\ t \in opened => sep'[t].open /\ sep'[t].servers = {} /\ sep'[t].wait \in {0, 1}
                        /\ t \in gone => ~sep'[t].open
                        /\ t \notin opened /\ ~sep[t].open => ~sep'[t].open
                        /\ ~sep'[t].open => sep'[t].servers = {} /\ sep'[t].wait \in {0, 1}
                        /\ t \notin opened \cup gone /\ sep[t].open =>
                             /\ sep'[t].open /\ t \in Range(servtab') /\ sep'[t].servers = sep[t].servers
                             /\ sep'[t].wait = sep[t].wait \/ (sep'[t].wait = 0 /\ (hups = 0 => t \in allsock))
      BY <1>2, <1>3, <1>10, <1>11, <1>13, <1>16, <2>1, <2>2, <2>3 DEF Handled
    <2>4. CASE t \in opened
      <3>1. t \in Range(names) /\ ~sep[t].open /\ sep'[t] = setup(entry[t]) /\ t \notin gone
        BY <1>12, <1>13, <1>15, <2>4
      <3>2. entry[t] \in Entry /\ entry[t].servers = {} /\ entry[t].wait \in {0, 1}
        BY <1>7, <3>1
      <3>3. sep'[t].open /\ sep'[t].servers = {} /\ sep'[t].wait \in {0, 1}
        BY <1>14, <3>1, <3>2
      <3> QED BY <2>4, <3>1, <3>3
    <2>5. CASE t \in Range(names) \ opened
      <3>1. sep'[t] = entry[t] /\ t \notin gone /\ t \in Range(servtab')
        BY <1>10, <1>13, <1>15, <2>5
      <3>2. sep[t].open /\ hups = 0 => t \in allsock
        BY <2>3 DEF Open, EntriesTrue
      <3> QED BY <1>7, <2>5, <3>1, <3>2
    <2>6. CASE t \in gone
      <3>1. t \notin opened /\ sep'[t] = close_sep(sep[t]) /\ sep[t] \in Entry
        BY <1>8, <1>11, <1>13, <1>15, <2>6
      <3>2. sep'[t].open = FALSE /\ sep'[t].servers = {} /\ sep'[t].wait \in {0, 1}
        BY <3>1, ClosedEntry
      <3> QED BY <2>6, <3>1, <3>2
    <2>7. CASE t \notin Range(names) \cup gone
      <3>1. sep'[t] = sep[t] /\ t \notin opened
        BY <1>11, <1>15, <2>7
      <3>2. sep[t].open => t \in Range(servtab')
        BY <1>10, <1>13, <2>7 DEF EntriesTrue
      <3> QED BY <2>7, <3>1, <3>2 DEF EntriesTrue
    <2> QED BY <2>4, <2>5, <2>6, <2>7
  <1>18. hups = 0 => ~hup' /\ (file' # 0 => file # 0)
    BY <1>2, <1>4 DEF LoopTrue
  <1>19. /\ EntriesTrue' /\ NsockCounts' /\ LoopTrue'
         /\ allsock' \subseteq Services /\ nsock' \in Int
         /\ pc' \in {"start", "top", "copied", "select", "scan", "fork", "freed", "looping"}
         /\ readable' \subseteq Services /\ n' \in Nat /\ todo' \in Seq(Services) /\ cur' \in Services
    BY <1>2, <1>17, <1>18, HandledKept
  <1>20. fails' \in 0 .. MaxFails
    BY <1>1, InetdAssumption DEF Failing, TypeOK
  <1>21. timingout' \in BOOLEAN
    BY <1>3
  <1>22. file' \in Nat
    <2>1. Len(conf) + 1 \in Nat \ {0} /\ file + 1 \in Nat
      BY <1>4 DEF TypeOK
    <2> QED BY <1>2, <2>1
  <1>23. checked' \subseteq Services
    BY <1>3, <1>9 DEF keep, TypeOK
  <1>24. TypeOK'
    BY <1>2, <1>10, <1>16, <1>19, <1>20, <1>21, <1>22, <1>23 DEF TypeOK
  <1> QED BY <1>19, <1>24

(* Clients, servers and time. *)
LEMMA OutsideStep ==
  ASSUME InetdInv, \/ \E s \in Services : Request(s) \/ ServerTakes(s) \/ IntervalPasses(s)
                   \/ \E p \in Pids : ServerExits(p)
  PROVE  InetdInv'
  <1> USE DEF InetdInv
  <1>1. \A t \in Services : sep[t] \in Entry
    BY DEF TypeOK
  <1>2. Range(servtab) \subseteq Services
    BY SeqRange DEF TypeOK
  <1>3. ASSUME NEW s \in Services, Request(s) \/ ServerTakes(s) \/ IntervalPasses(s) PROVE InetdInv'
    <2>1. PICK e \in Entry : /\ sep' = [sep EXCEPT ![s] = e]
                             /\ e.open = sep[s].open /\ e.wait = sep[s].wait /\ e.servers = sep[s].servers
      <3>1. CASE Request(s)
        <4>1. [sep[s] EXCEPT !.queue = @ + 1] \in Entry
          BY <1>1, <3>1, InetdAssumption DEF Request, Entry
        <4> QED BY <1>1, <3>1, <4>1 DEF Request, Entry
      <3>2. CASE ServerTakes(s)
        <4>1. [sep[s] EXCEPT !.queue = @ - 1] \in Entry
          BY <1>1, <3>2, InetdAssumption DEF ServerTakes, Entry
        <4> QED BY <1>1, <3>2, <4>1 DEF ServerTakes, Entry
      <3>3. CASE IntervalPasses(s)
        <4>1. [sep[s] EXCEPT !.late = TRUE] \in Entry
          BY <1>1 DEF Entry
        <4> QED BY <1>1, <3>3, <4>1 DEF IntervalPasses, Entry
      <3> QED BY <1>3, <3>1, <3>2, <3>3
    <2>2. UNCHANGED <<servtab, allsock, nsock, timingout, child, config_vars, loop, hups, fails>>
      BY <1>3 DEF Request, ServerTakes, IntervalPasses
    <2>3. SameEntries /\ sep' \in [Services -> Entry]
      BY <2>1, <2>2 DEF SameEntries, TypeOK
    <2>4. EntriesTrue' /\ NsockCounts' /\ Open' = Open
      BY <2>2, <2>3, SameEntriesKept
    <2>5. TypeOK'
      BY <2>2, <2>3 DEF TypeOK
    <2>6. LoopTrue'
      BY <2>2, <2>4 DEF LoopTrue
    <2> QED BY <2>4, <2>5, <2>6
  <1>4. ASSUME NEW p \in Pids, ServerExits(p) PROVE InetdInv'
    <2>1. /\ child[p] = "running" /\ child' = [child EXCEPT ![p] = "zombie"]
          /\ sep' = [s \in Services |-> [sep[s] EXCEPT !.servers = @ \ {p}]]
          /\ UNCHANGED <<servtab, allsock, nsock, timingout, config_vars, loop, hups, fails>>
      BY <1>4 DEF ServerExits
    <2>2. \A e \in Entry : LET f == [e EXCEPT !.servers = @ \ {p}] IN
            f \in Entry /\ f.open = e.open /\ f.wait = e.wait /\ f.servers = e.servers \ {p}
            /\ e.servers \subseteq Pids /\ (e.wait > 1 => e.wait \in Pids)
      BY DEF Entry
    <2>3. /\ sep' \in [Services -> Entry]
          /\ \A t \in Services : /\ sep'[t].open = sep[t].open /\ sep'[t].wait = sep[t].wait
                                 /\ sep'[t].servers = sep[t].servers \ {p}
                                 /\ sep[t].servers \subseteq Pids /\ (sep[t].wait > 1 => sep[t].wait \in Pids)
      BY <1>1, <2>1, <2>2
    <2>4. /\ child' \in [Pids -> {"none", "running", "zombie"}]
          /\ \A q \in Pids : (child[q] # "none" => child'[q] # "none") /\ (q # p => child'[q] = child[q])
      BY <2>1 DEF TypeOK
    <2>5. TypeOK'
      BY <2>1, <2>3, <2>4 DEF TypeOK
    <2>6. EntriesTrue'
      BY <2>1, <2>3, <2>4 DEF EntriesTrue
    <2>7. NsockCounts'
      BY <2>1 DEF NsockCounts
    <2>8. Open' = Open
      BY <1>2, <2>1, <2>3 DEF Open
    <2>9. LoopTrue'
      BY <2>1, <2>8 DEF LoopTrue
    <2> QED BY <2>5, <2>6, <2>7, <2>9
  <1> QED BY <1>3, <1>4

(* Every step keeps the invariant. *)
LEMMA NextInv == InetdInv /\ [Next]_vars => InetdInv'
  <1> SUFFICES ASSUME InetdInv, [Next]_vars PROVE InetdInv'
    OBVIOUS
  <1>1. CASE MainLoop
    BY <1>1, LoopStep, TakeStep, ServeStep, LoopsStep, StartStep, FreedStep DEF MainLoop
  <1>2. CASE reapchild
    BY <1>2, ReapStep
  <1>3. CASE config \/ \E c \in Confs : Hangup(c)
    BY <1>3, HangupStep
  <1>4. CASE ReadFile
    BY <1>4, ReadStep
  <1>5. CASE retry
    BY <1>5, RetryStep
  <1>6. CASE \/ \E s \in Services : Request(s) \/ ServerTakes(s) \/ IntervalPasses(s)
             \/ \E p \in Pids : ServerExits(p)
    BY <1>6, OutsideStep
  <1>7. CASE UNCHANGED vars
    BY <1>7 DEF vars, InetdInv, TypeOK, EntriesTrue, NsockCounts, LoopTrue, Open
  <1> QED BY <1>1, <1>2, <1>3, <1>4, <1>5, <1>6, <1>7 DEF Next

(* The inductive invariant holds in every state, and with it what            *)
(* SocketsKept says of the entries, the main loop and nsock.                 *)
LEMMA InvHolds == Spec => []InetdInv
  BY InitInv, NextInv, PTL DEF Spec

(* Whatever the handlers of inetd do between two steps of its main loop, a   *)
(* socket that is open is watched, or its entry holds the pid of the server  *)
(* that has it; nsock never counts more than is watched.                     *)
THEOREM SocketsAreKept == Spec => []SocketsKept
  <1>1. InetdInv => SocketsKept
    BY WatchedHolds DEF InetdInv, SocketsKept
  <1> QED BY <1>1, InvHolds, PTL

(* se_wait does its work: no two servers have the socket of a service.       *)
THEOREM OneServerOnly == Spec => []OneServer
  <1>1. InetdInv => OneServer
    <2> SUFFICES ASSUME InetdInv, NEW s \in Services PROVE Cardinality(sep[s].servers) <= 1
      BY DEF OneServer
    <2>1. \A p, q \in sep[s].servers : p = q
      BY DEF InetdInv, EntriesTrue
    <2>2. CASE sep[s].servers = {}
      BY <2>2, FS_EmptySet
    <2>3. CASE sep[s].servers # {}
      <3>1. PICK p \in sep[s].servers : TRUE
        BY <2>3
      <3>2. sep[s].servers = {p}
        BY <2>1, <3>1
      <3> QED BY <3>2, FS_Singleton
    <2> QED BY <2>2, <2>3
  <1> QED BY <1>1, InvHolds, PTL
=============================================================================
