---------------------------- MODULE RemoteProofs ----------------------------
(***************************************************************************)
(* Proofs about modules Rlogin and Rsh: a remote login keeps account of all  *)
(* output, leaves the terminal as it was, and the daemon counts its sessions; *)
(* a remote command has all its output shown, on both connections.           *)
(***************************************************************************)
EXTENDS Rlogin, Rsh, SequenceTheorems, WellFoundedInduction, TLAPS

ParentPcs == {"connect", "run", "stop", "tstp", "stopped", "cont", "quit", "kill", "exit"}
ReaderPcs == {"none", "start", "read", "filled", "write", "oob", "modes", "exit"}
Controls == {"flush", "nostop", "dostop"}
Sizes == 0 .. MaxResizes
Items == [k : {"data", "mark", "nul", "soh"}, n : Nat, bits : SUBSET (Controls \cup {"window"})]
Outputs == {t \in Items : IsData(t)}
Inputs == [k : {"key", "win"}, n : Sizes]

Parent ==
  [pc : ParentPcs, typed : Nat, bol : BOOLEAN, local : BOOLEAN, win : Sizes, dosigwinch : BOOLEAN, usr1 : BOOLEAN,
   winch : BOOLEAN, chld : BOOLEAN, sigchld : BOOLEAN, missed : BOOLEAN, early : BOOLEAN, late : BOOLEAN]
Reader ==
  [pc : ReaderPcs, back : {"read", "filled", "write"}, buf : Seq(Outputs), heard : Nat, taken : Nat, rcvd : BOOLEAN,
   bits : SUBSET (Controls \cup {"window"}), raw : BOOLEAN]
Terminal == [raw : BOOLEAN, size : Sizes, flow : BOOLEAN, shown : Seq(Nat)]
Rlogind ==
  [pc : {"auth", "loop", "cleanup", "exit"}, urgent : Nat, last : Items, heard : BOOLEAN, garbage : BOOLEAN,
   pbuf : Seq(Outputs)]
Shell ==
  [pc : {"none", "shell", "exit"}, n : 0 .. MaxUnits, q : Seq(Outputs), in : Nat, cntl : SUBSET Controls,
   controls : 0 .. MaxControls, flow : BOOLEAN, size : Sizes \cup {-1}]
Counter ==
  [pc : {"off", "check", "accept", "pause", "forked"}, numchildren : Int, live : Nat, zombies : Nat,
   sigchld : BOOLEAN, sessions : Nat]

Types ==
  /\ rlopt \in [bad : LoginFaults \cup {"none"}, daemon : BOOLEAN]
  /\ par \in Parent /\ rdr \in Reader /\ term \in Terminal /\ rld \in Rlogind /\ shl \in Shell /\ dmn \in Counter
  /\ inflight \in Seq(Items) /\ arrived \in Seq(Items) /\ rlup \in Seq(Inputs)
  /\ fate \in [1 .. MaxUnits -> {"none", "flushed", "swallowed", "cleanup"}]

\* What the parent may know, and the terminal's modes: the raw mode that the
\* child sets is undone, unless the child is late.
ParentInv ==
  /\ ~(par.bol /\ par.local)
  /\ par.pc = "connect" => rdr.pc = "none" /\ ~term.raw
  /\ par.pc = "exit" => rdr.pc \in {"none", "exit"}
  /\ par.pc \in {"tstp", "stopped", "kill", "exit"} => ~term.raw \/ par.late

\* The marks sent, and the one that is due.
MarkInv ==
  /\ rld.pc = "auth" => /\ inflight = <<>> /\ arrived = <<>> /\ rld.urgent = 0
                        /\ shl.pc = "none" /\ shl.cntl = {} /\ shl.q = <<>> /\ rld.pbuf = <<>>
  /\ rld.urgent <= shl.controls + 1
  /\ shl.cntl # {} => rld.urgent <= shl.controls

\* numchildren lags behind the children that live and the dead ones that are
\* not waited for by the child that is not counted yet.
CountInv ==
  /\ dmn.numchildren = dmn.live + dmn.zombies - (IF dmn.pc = "forked" THEN 1 ELSE 0)
  /\ dmn.zombies > 0 => dmn.sigchld
  /\ dmn.numchildren <= MaxChildren + 1
  /\ dmn.pc \in {"accept", "forked"} => dmn.numchildren <= MaxChildren

\* The places where a unit of output can be, the last one first: shown, in the
\* reader's buffer, arrived, in flight, in rlogind's buffer, in the terminal.
Places(s, b, a, f, p, q) == <<Range(s), Ns(b), Ns(a), Ns(f), Ns(p), Ns(q)>>
Below(A, B) == \A x \in A, y \in B : x < y
Chain(p) == \A i, j \in 1 .. 6 : i < j => Below(p[i], p[j])
Ordered(s) == \A i, j \in 1 .. Len(s) : i < j /\ IsData(s[i]) /\ IsData(s[j]) => s[i].n < s[j].n
Rising(s) == \A i, j \in 1 .. Len(s) : i < j => s[i] < s[j]

All(p) == UNION {p[i] : i \in 1 .. 6}

\* Every unit 1 .. n is in one of the places p or in F, the older ones further on.
Settled(p, F, n) ==
  /\ Chain(p)
  /\ \A i \in 1 .. 6 : p[i] \cap F = {}
  /\ All(p) \cup F = 1 .. n

Account(s, b, a, f, p, q, F, n) ==
  /\ Rising(s) /\ Ordered(b) /\ Ordered(a) /\ Ordered(f) /\ Ordered(p) /\ Ordered(q)
  /\ Settled(Places(s, b, a, f, p, q), F, n)

Fated == {n \in 1 .. MaxUnits : fate[n] # "none"}
OutputInv ==
  /\ Account(term.shown, rdr.buf, arrived, inflight, rld.pbuf, shl.q, Fated, shl.n)
  /\ rdr.pc \in {"none", "start", "read"} \/ (rdr.pc \in {"oob", "modes"} /\ rdr.back = "read") => rdr.buf = <<>>

RlInv == Types /\ ParentInv /\ MarkInv /\ CountInv /\ OutputInv

-----------------------------------------------------------------------------
(* The units in a stream.                                                    *)

LEMMA NsOf ==
    ASSUME NEW s \in Seq(Items)
    PROVE  /\ \A n : n \in Ns(s) <=> \E i \in 1 .. Len(s) : IsData(s[i]) /\ s[i].n = n
           /\ Ns(s) \subseteq Nat
<1>1. \A n : n \in Ns(s) <=> \E i \in 1 .. Len(s) : IsData(s[i]) /\ s[i].n = n
  <2>1. \A n : n \in Ns(s) <=> \E i \in {j \in 1 .. Len(s) : IsData(s[j])} : n = s[i].n
    BY Zenon DEF Ns
  <2>2. QED
    BY <2>1, Zenon
<1>2. \A i \in 1 .. Len(s) : s[i].n \in Nat
  <2>1. \A i \in 1 .. Len(s) : s[i] \in Items
    OBVIOUS
  <2>2. \A x \in Items : x.n \in Nat
    BY DEF Items
  <2>3. QED
    BY <2>1, <2>2
<1>3. QED
  BY <1>1, <1>2

LEMMA OutputsAreItems ==
    /\ Outputs \subseteq Items /\ Seq(Outputs) \subseteq Seq(Items)
    /\ Ns(<<>>) = {} /\ Ordered(<<>>)
<1>1. Outputs \subseteq Items
  BY DEF Outputs
<1>2. Seq(Outputs) \subseteq Seq(Items)
  BY <1>1
<1>3. Ns(<<>>) = {} /\ Ordered(<<>>)
  BY DEF Ns, Ordered
<1>4. QED
  BY <1>1, <1>2, <1>3

LEMMA Joined ==
    ASSUME NEW s \in Seq(Items), NEW t \in Seq(Items)
    PROVE  /\ s \o t \in Seq(Items) /\ Ns(s \o t) = Ns(s) \cup Ns(t)
           /\ Ordered(s) /\ Ordered(t) /\ Below(Ns(s), Ns(t)) => Ordered(s \o t)
<1> DEFINE w == s \o t
<1>1. w \in Seq(Items) /\ Len(w) = Len(s) + Len(t) /\ Len(s) \in Nat /\ Len(t) \in Nat
  OBVIOUS
<1>2. \A i \in 1 .. Len(w) : \/ i \in 1 .. Len(s) /\ w[i] = s[i]
                             \/ i - Len(s) \in 1 .. Len(t) /\ i > Len(s) /\ w[i] = t[i - Len(s)]
  BY <1>1
<1>3. /\ \A i \in 1 .. Len(s) : i \in 1 .. Len(w) /\ w[i] = s[i]
      /\ \A i \in 1 .. Len(t) : i + Len(s) \in 1 .. Len(w) /\ w[i + Len(s)] = t[i]
  BY <1>1
<1> HIDE DEF w
<1>4. Ns(w) = Ns(s) \cup Ns(t)
  <2>1. \A n \in Ns(w) : n \in Ns(s) \/ n \in Ns(t)
    <3> SUFFICES ASSUME NEW n \in Ns(w) PROVE n \in Ns(s) \/ n \in Ns(t)
      OBVIOUS
    <3>1. PICK i \in 1 .. Len(w) : IsData(w[i]) /\ w[i].n = n
      BY <1>1, NsOf
    <3>2. CASE i \in 1 .. Len(s) /\ w[i] = s[i]
      BY <3>1, <3>2, NsOf
    <3>3. CASE i - Len(s) \in 1 .. Len(t) /\ w[i] = t[i - Len(s)]
      BY <3>1, <3>3, NsOf
    <3>4. QED
      BY <1>2, <3>2, <3>3
  <2>2. \A n \in Ns(s) : n \in Ns(w)
    <3> SUFFICES ASSUME NEW n \in Ns(s) PROVE n \in Ns(w)
      OBVIOUS
    <3>1. PICK i \in 1 .. Len(s) : IsData(s[i]) /\ s[i].n = n
      BY NsOf
    <3>2. QED
      BY <1>1, <1>3, <3>1, NsOf
  <2>3. \A n \in Ns(t) : n \in Ns(w)
    <3> SUFFICES ASSUME NEW n \in Ns(t) PROVE n \in Ns(w)
      OBVIOUS
    <3>1. PICK i \in 1 .. Len(t) : IsData(t[i]) /\ t[i].n = n
      BY NsOf
    <3>2. i + Len(s) \in 1 .. Len(w) /\ w[i + Len(s)] = t[i]
      BY <1>3
    <3>3. QED
      BY <1>1, <3>1, <3>2, NsOf
  <2>4. QED
    BY <2>1, <2>2, <2>3
<1>5. ASSUME Ordered(s), Ordered(t), Below(Ns(s), Ns(t)) PROVE Ordered(w)
  <2> SUFFICES ASSUME NEW i \in 1 .. Len(w), NEW j \in 1 .. Len(w), i < j, IsData(w[i]), IsData(w[j])
               PROVE  w[i].n < w[j].n
    BY DEF Ordered
  <2>1. CASE i \in 1 .. Len(s) /\ w[i] = s[i] /\ j \in 1 .. Len(s) /\ w[j] = s[j]
    BY <1>5, <2>1 DEF Ordered
  <2>2. CASE i \in 1 .. Len(s) /\ w[i] = s[i] /\ j - Len(s) \in 1 .. Len(t) /\ w[j] = t[j - Len(s)]
    <3>1. w[i].n \in Ns(s) /\ w[j].n \in Ns(t)
      BY <2>2, NsOf
    <3>2. QED
      BY <1>5, <3>1 DEF Below
  <2>3. CASE /\ i - Len(s) \in 1 .. Len(t) /\ w[i] = t[i - Len(s)]
             /\ j - Len(s) \in 1 .. Len(t) /\ w[j] = t[j - Len(s)]
    <3>1. i - Len(s) < j - Len(s)
      BY <1>1
    <3>2. QED
      BY <1>5, <2>3, <3>1 DEF Ordered
  <2>4. QED
    BY <1>1, <1>2, <2>1, <2>2, <2>3
<1>6. QED
  BY <1>1, <1>4, <1>5 DEF w

\* a and b are the parts of s.
Cut(s, a, b) ==
  /\ a \in Seq(Items) /\ b \in Seq(Items) /\ Ns(s) = Ns(a) \cup Ns(b)
  /\ Ordered(s) => Ordered(a) /\ Ordered(b) /\ Below(Ns(a), Ns(b))
  /\ s \in Seq(Outputs) => a \in Seq(Outputs) /\ b \in Seq(Outputs)

LEMMA Parted ==
    ASSUME NEW s \in Seq(Items), NEW i \in 0 .. Len(s)
    PROVE  Cut(s, SubSeq(s, 1, i), SubSeq(s, i + 1, Len(s)))
<1> DEFINE a == SubSeq(s, 1, i)
<1> DEFINE b == SubSeq(s, i + 1, Len(s))
<1>1. Len(s) \in Nat /\ i \in Nat /\ i <= Len(s) /\ Len(s) - i \in Nat
  OBVIOUS
<1>2. a = [k \in 1 .. i |-> s[k]] /\ Len(a) = i
  BY <1>1
<1>3. b = [k \in 1 .. (Len(s) - i) |-> s[i + k]] /\ Len(b) = Len(s) - i
  BY <1>1
<1> HIDE DEF a, b
<1>4. /\ \A k \in 1 .. i : k \in 1 .. Len(s) /\ a[k] = s[k]
      /\ \A k \in 1 .. Len(b) : i + k \in 1 .. Len(s) /\ b[k] = s[i + k]
  BY <1>1, <1>2, <1>3
<1>5. a \in Seq(Items) /\ b \in Seq(Items)
  BY <1>1, <1>2, <1>3, <1>4
<1>6. s \in Seq(Outputs) => a \in Seq(Outputs) /\ b \in Seq(Outputs)
  BY <1>1, <1>2, <1>3, <1>4
<1>7. s = a \o b
  <2>0. Len(a) = i /\ Len(b) = Len(s) - i
    BY <1>2, <1>3
  <2>1. a \o b \in Seq(Items) /\ Len(a \o b) = Len(s)
    BY <1>1, <1>5, <2>0
  <2>2. \A k \in 1 .. Len(s) : (a \o b)[k] = IF k <= Len(a) THEN a[k] ELSE b[k - Len(a)]
    BY <1>1, <1>5, <2>0
  <2>3. \A k \in 1 .. Len(s) : (a \o b)[k] = s[k]
    <3> SUFFICES ASSUME NEW k \in 1 .. Len(s) PROVE (a \o b)[k] = s[k]
      OBVIOUS
    <3>1. CASE k <= i
      BY <1>1, <1>4, <2>0, <2>2, <3>1
    <3>2. CASE ~(k <= i)
      <4>1. k - i \in 1 .. Len(b) /\ i + (k - i) = k
        BY <1>1, <2>0, <3>2
      <4>2. QED
        BY <1>4, <2>0, <2>2, <3>2, <4>1
    <3>3. QED
      BY <3>1, <3>2
  <2>4. QED
    BY <2>1, <2>3, SeqEqual, Zenon
<1>8. Ns(s) = Ns(a) \cup Ns(b)
  BY <1>5, <1>7, Joined
<1>9. ASSUME Ordered(s) PROVE Ordered(a) /\ Ordered(b) /\ Below(Ns(a), Ns(b))
  <2>1. Ordered(a)
    BY <1>2, <1>4, <1>9 DEF Ordered
  <2>2. Ordered(b)
    <3> SUFFICES ASSUME NEW k \in 1 .. Len(b), NEW m \in 1 .. Len(b), k < m, IsData(b[k]), IsData(b[m])
                 PROVE  b[k].n < b[m].n
      BY DEF Ordered
    <3>1. i + k \in 1 .. Len(s) /\ i + m \in 1 .. Len(s) /\ i + k < i + m
      BY <1>1, <1>4
    <3>2. QED
      BY <1>4, <1>9, <3>1 DEF Ordered
  <2>3. Below(Ns(a), Ns(b))
    <3> SUFFICES ASSUME NEW x \in Ns(a), NEW y \in Ns(b) PROVE x < y
      BY DEF Below
    <3>1. PICK k \in 1 .. Len(a) : IsData(a[k]) /\ a[k].n = x
      BY <1>5, NsOf
    <3>2. PICK m \in 1 .. Len(b) : IsData(b[m]) /\ b[m].n = y
      BY <1>5, NsOf
    <3>3. k \in 1 .. Len(s) /\ i + m \in 1 .. Len(s) /\ k < i + m /\ s[k] = a[k] /\ s[i + m] = b[m]
      BY <1>1, <1>2, <1>3, <1>4
    <3>4. QED
      BY <1>9, <3>1, <3>2, <3>3 DEF Ordered
  <2>4. QED
    BY <2>1, <2>2, <2>3
<1>10. Cut(s, a, b)
  BY <1>5, <1>6, <1>8, <1>9 DEF Cut
<1>11. QED
  BY <1>10 DEF a, b

LEMMA Single ==
    ASSUME NEW x \in Items
    PROVE  /\ <<x>> \in Seq(Items) /\ Ordered(<<x>>)
           /\ Ns(<<x>>) = IF IsData(x) THEN {x.n} ELSE {}
  BY DEF Ns, Ordered

LEMMA Headed ==
    ASSUME NEW s \in Seq(Items), s # <<>>
    PROVE  /\ Head(s) \in Items /\ Head(s) = s[1] /\ Tail(s) \in Seq(Items)
           /\ Ns(s) = Ns(<<Head(s)>>) \cup Ns(Tail(s))
           /\ Ordered(s) => Ordered(Tail(s)) /\ Below(Ns(<<Head(s)>>), Ns(Tail(s)))
           /\ s \in Seq(Outputs) => Tail(s) \in Seq(Outputs) /\ Head(s) \in Outputs
<1>1. Len(s) \in Nat /\ 1 \in 0 .. Len(s) /\ Head(s) \in Items /\ Head(s) = s[1]
  OBVIOUS
<1>2. Tail(s) = SubSeq(s, 1 + 1, Len(s))
  BY <1>1
<1>3. <<Head(s)>> = SubSeq(s, 1, 1)
  BY <1>1
<1>4. s \in Seq(Outputs) => Head(s) \in Outputs
  <2>1. 1 \in 1 .. Len(s)
    BY <1>1
  <2>2. QED
    BY <1>1, <2>1
<1>5. Cut(s, SubSeq(s, 1, 1), SubSeq(s, 1 + 1, Len(s)))
  BY <1>1, Parted
<1>6. Cut(s, <<Head(s)>>, Tail(s))
  BY <1>2, <1>3, <1>5, Zenon
<1>7. QED
  BY <1>1, <1>4, <1>6 DEF Cut

LEMMA Added ==
    ASSUME NEW s \in Seq(Items), NEW x \in Items
    PROVE  /\ Append(s, x) \in Seq(Items) /\ Ns(Append(s, x)) = Ns(s) \cup Ns(<<x>>)
           /\ Ordered(s) /\ Below(Ns(s), Ns(<<x>>)) => Ordered(Append(s, x))
<1>1. Append(s, x) = s \o <<x>>
  OBVIOUS
<1>2. QED
  BY <1>1, Joined, Single
-----------------------------------------------------------------------------
(* The places: what moves to the next place, is lost, or is new.             *)

LEMMA InAll ==
    ASSUME NEW p
    PROVE  \A x : x \in All(p) <=> \E i \in 1 .. 6 : x \in p[i]
  BY Zenon DEF All

LEMMA SettledIn ==
    ASSUME NEW p, NEW F, NEW n \in Nat, Settled(p, F, n), NEW i \in 1 .. 6
    PROVE  p[i] \subseteq 1 .. n
  BY InAll DEF Settled

LEMMA MoveOn ==
    ASSUME NEW p, NEW q, NEW F, NEW n \in Nat, NEW k \in 1 .. 5, NEW X,
           Settled(p, F, n),
           p[k + 1] = X \cup q[k + 1], Below(X, q[k + 1]), q[k] = p[k] \cup X,
           \A i \in 1 .. 6 : i # k /\ i # k + 1 => q[i] = p[i]
    PROVE  Settled(q, F, n)
<1>1. k + 1 \in 1 .. 6 /\ k \in 1 .. 6
  OBVIOUS
<1>2. Chain(q)
  <2> SUFFICES ASSUME NEW i \in 1 .. 6, NEW j \in 1 .. 6, i < j, NEW x \in q[i], NEW y \in q[j]
               PROVE  x < y
    BY DEF Chain, Below
  <2>0. \A l, m \in 1 .. 6 : l < m => \A u \in p[l], v \in p[m] : u < v
    BY DEF Settled, Chain, Below
  <2>1. CASE i = k /\ j = k + 1
    <3>1. x \in X \/ x \in p[k]
      BY <2>1
    <3>2. y \in q[k + 1] /\ y \in p[k + 1]
      BY <2>1
    <3>3. QED
      BY <1>1, <2>0, <3>1, <3>2 DEF Below
  <2>2. CASE i = k /\ j # k + 1
    <3>1. y \in p[j] /\ k + 1 < j
      BY <2>2
    <3>2. x \in p[k + 1] \/ x \in p[k]
      BY <2>2
    <3>3. QED
      BY <1>1, <2>0, <2>2, <3>1, <3>2
  <2>3. CASE i = k + 1
    <3>1. y \in p[j] /\ x \in p[k + 1]
      BY <2>3
    <3>2. QED
      BY <1>1, <2>0, <2>3, <3>1
  <2>4. CASE i # k /\ i # k + 1
    <3>1. x \in p[i]
      BY <2>4
    <3>2. CASE j = k
      <4>1. y \in p[k] \/ (y \in p[k + 1] /\ i < k + 1)
        BY <3>2
      <4>2. QED
        BY <1>1, <2>0, <3>1, <3>2, <4>1
    <3>3. CASE j # k
      <4>1. y \in p[j]
        BY <3>3
      <4>2. QED
        BY <2>0, <3>1, <4>1
    <3>4. QED
      BY <3>2, <3>3
  <2>5. QED
    BY <2>1, <2>2, <2>3, <2>4
<1>3. \A i \in 1 .. 6 : q[i] \subseteq p[i] \/ (i = k /\ q[i] \subseteq p[k] \cup p[k + 1])
  BY <1>1
<1>4. \A i \in 1 .. 6 : q[i] \cap F = {}
  BY <1>1, <1>3 DEF Settled
<1>5. All(q) = All(p)
  <2>1. \A x : x \in All(q) => x \in All(p)
    BY <1>1, <1>3, InAll
  <2>2. \A x : x \in All(p) => x \in All(q)
    <3>1. p[k] \subseteq q[k] /\ p[k + 1] \subseteq q[k] \cup q[k + 1]
      OBVIOUS
    <3>2. \A i \in 1 .. 6 : \A x \in p[i] : \E j \in 1 .. 6 : x \in q[j]
      BY <1>1, <3>1
    <3>3. QED
      BY <3>2, InAll
  <2>3. QED
    BY <2>1, <2>2
<1>6. QED
  BY <1>2, <1>4, <1>5 DEF Settled

LEMMA LoseSome ==
    ASSUME NEW p, NEW q, NEW d, NEW F, NEW D, NEW n \in Nat,
           Settled(p, F, n),
           \A i \in 1 .. 6 : p[i] = d[i] \cup q[i] /\ Below(d[i], q[i]),
           D = All(d)
    PROVE  Settled(q, F \cup D, n) /\ D \subseteq 1 .. n
<1>1. \A i \in 1 .. 6 : \A x \in p[i] : x \in Nat
  BY SettledIn
<1>2. Chain(q)
  BY DEF Settled, Chain, Below
<1>3. ASSUME NEW i \in 1 .. 6, NEW x \in q[i] PROVE x \notin F \cup D
  <2>1. x \in p[i] /\ x \in Nat /\ x \notin F
    BY <1>1, <1>3 DEF Settled
  <2>2. ASSUME x \in D PROVE FALSE
    <3>1. PICK j \in 1 .. 6 : x \in d[j]
      BY <2>2, InAll
    <3>2. x \in p[j]
      BY <3>1
    <3>3. CASE i = j
      BY <1>3, <2>1, <3>1, <3>3 DEF Below
    <3>4. CASE i # j
      <4>1. i < j \/ j < i
        BY <3>4
      <4>2. QED
        BY <2>1, <3>2, <4>1 DEF Settled, Chain, Below
    <3>5. QED
      BY <3>3, <3>4
  <2>3. QED
    BY <2>1, <2>2
<1>4. All(q) \cup D = All(p)
  <2>1. \A x : x \in All(q) \cup D <=> \E i \in 1 .. 6 : x \in q[i] \/ x \in d[i]
    BY InAll
  <2>2. \A x : x \in All(p) <=> \E i \in 1 .. 6 : x \in q[i] \/ x \in d[i]
    BY InAll
  <2>3. QED
    BY <2>1, <2>2
<1>5. QED
  BY <1>2, <1>3, <1>4 DEF Settled

LEMMA WriteOne ==
    ASSUME NEW p, NEW q, NEW F, NEW n \in Nat, Settled(p, F, n),
           q[6] = p[6] \cup {n + 1}, \A i \in 1 .. 5 : q[i] = p[i]
    PROVE  Settled(q, F, n + 1)
<1>1. \A i \in 1 .. 6 : p[i] \subseteq 1 .. n
  BY SettledIn
<1>2. \A i \in 1 .. 6 : i # 6 => q[i] = p[i]
  OBVIOUS
<1>3. F \subseteq 1 .. n
  BY DEF Settled
<1>4. Chain(q)
  BY <1>1, <1>2 DEF Settled, Chain, Below
<1>5. \A i \in 1 .. 6 : q[i] \cap F = {}
  BY <1>2, <1>3 DEF Settled
<1>6. All(q) = All(p) \cup {n + 1}
  <2>1. \A i \in 1 .. 6 : q[i] \subseteq p[i] \cup {n + 1} /\ p[i] \subseteq q[i]
    BY <1>2
  <2>2. n + 1 \in q[6] /\ 6 \in 1 .. 6
    OBVIOUS
  <2>3. \A x : x \in All(q) <=> x \in All(p) \/ x = n + 1
    BY <2>1, <2>2, InAll
  <2>4. QED
    BY <2>3
<1>7. QED
  BY <1>4, <1>5, <1>6 DEF Settled

-----------------------------------------------------------------------------
(* What the steps do to the account.                                         *)

\* The streams have their types.
Streams(s, b, a, f, p, q, n) ==
  /\ s \in Seq(Nat) /\ b \in Seq(Outputs) /\ a \in Seq(Items) /\ f \in Seq(Items)
  /\ p \in Seq(Outputs) /\ q \in Seq(Outputs) /\ n \in Nat

LEMMA PlacesAre ==
    ASSUME NEW s, NEW b, NEW a, NEW f, NEW p, NEW q
    PROVE  /\ Places(s, b, a, f, p, q)[1] = Range(s) /\ Places(s, b, a, f, p, q)[2] = Ns(b)
           /\ Places(s, b, a, f, p, q)[3] = Ns(a) /\ Places(s, b, a, f, p, q)[4] = Ns(f)
           /\ Places(s, b, a, f, p, q)[5] = Ns(p) /\ Places(s, b, a, f, p, q)[6] = Ns(q)
  BY DEF Places

LEMMA Six ==
    \A i \in 1 .. 6 : i = 1 \/ i = 2 \/ i = 3 \/ i = 4 \/ i = 5 \/ i = 6
  OBVIOUS

\* The units of every place are known ones.
LEMMA PlacesKnown ==
    ASSUME NEW s, NEW b, NEW a, NEW f, NEW p, NEW q, NEW F, NEW n \in Nat, Account(s, b, a, f, p, q, F, n)
    PROVE  /\ Range(s) \subseteq 1 .. n /\ Ns(b) \subseteq 1 .. n /\ Ns(a) \subseteq 1 .. n
           /\ Ns(f) \subseteq 1 .. n /\ Ns(p) \subseteq 1 .. n /\ Ns(q) \subseteq 1 .. n
<1>1. PICK z : z = Places(s, b, a, f, p, q)
  OBVIOUS
<1>2. \A i \in 1 .. 6 : z[i] \subseteq 1 .. n
  BY <1>1, SettledIn DEF Account
<1>3. QED
  BY <1>1, <1>2, PlacesAre

\* Shown: the head of the buffer.
LEMMA Show ==
    ASSUME NEW s, NEW b, NEW a, NEW f, NEW p, NEW q, NEW F, NEW n, Streams(s, b, a, f, p, q, n),
           b # <<>>, Account(s, b, a, f, p, q, F, n)
    PROVE  /\ Account(Append(s, Head(b).n), Tail(b), a, f, p, q, F, n)
           /\ Append(s, Head(b).n) \in Seq(Nat) /\ Tail(b) \in Seq(Outputs)
<1>1. b \in Seq(Items) /\ s \in Seq(Nat) /\ n \in Nat /\ b \in Seq(Outputs)
  BY OutputsAreItems DEF Streams
<1>2. /\ Head(b) \in Items /\ Tail(b) \in Seq(Items) /\ Tail(b) \in Seq(Outputs) /\ Head(b) \in Outputs
      /\ Ns(b) = Ns(<<Head(b)>>) \cup Ns(Tail(b))
      /\ Ordered(b) => Ordered(Tail(b)) /\ Below(Ns(<<Head(b)>>), Ns(Tail(b)))
  BY <1>1, Headed
<1>3. PICK m \in Nat : m = Head(b).n
  BY <1>2 DEF Items
<1>4. Ns(<<Head(b)>>) = {m}
  BY <1>2, <1>3, Single DEF Outputs
<1>5. /\ Append(s, m) \in Seq(Nat) /\ Len(Append(s, m)) = Len(s) + 1 /\ Len(s) \in Nat
      /\ \A i \in 1 .. Len(s) : Append(s, m)[i] = s[i]
      /\ Append(s, m)[Len(s) + 1] = m
  BY <1>1
<1>6. Range(Append(s, m)) = Range(s) \cup {m}
  <2>1. \A x : x \in Range(s) <=> \E i \in 1 .. Len(s) : s[i] = x
    BY <1>1 DEF Range
  <2>2. \A x : x \in Range(Append(s, m)) <=> \E i \in 1 .. Len(s) + 1 : Append(s, m)[i] = x
    <3>1. DOMAIN Append(s, m) = 1 .. Len(s) + 1
      BY <1>5
    <3>2. QED
      BY <3>1, Zenon DEF Range
  <2>3. QED
    BY <1>5, <2>1, <2>2
<1>7. PICK z : z = Places(s, b, a, f, p, q)
  OBVIOUS
<1>8. PICK y : y = Places(Append(s, m), Tail(b), a, f, p, q)
  OBVIOUS
<1>a. /\ z[1] = Range(s) /\ z[2] = Ns(b) /\ z[3] = Ns(a) /\ z[4] = Ns(f) /\ z[5] = Ns(p) /\ z[6] = Ns(q)
  BY <1>7 DEF Places
<1>b. /\ y[1] = Range(s) \cup {m} /\ y[2] = Ns(Tail(b)) /\ y[3] = Ns(a) /\ y[4] = Ns(f) /\ y[5] = Ns(p) /\ y[6] = Ns(q)
  BY <1>6, <1>8 DEF Places
<1>9. Settled(z, F, n) /\ Below(Range(s), Ns(b))
  BY <1>7, <1>a DEF Account, Settled, Chain
<1>10. Settled(y, F, n)
  <2>1. /\ z[1 + 1] = {m} \cup y[1 + 1] /\ Below({m}, y[1 + 1]) /\ y[1] = z[1] \cup {m}
        /\ \A i \in 1 .. 6 : i # 1 /\ i # 1 + 1 => y[i] = z[i]
    <3>1. Below({m}, Ns(Tail(b)))
      BY <1>2, <1>4 DEF Account
    <3>2. Ns(b) = {m} \cup Ns(Tail(b)) /\ 1 + 1 = 2
      BY <1>2, <1>4
    <3>3. \A i \in 1 .. 6 : i # 1 /\ i # 2 => y[i] = z[i]
      BY <1>a, <1>b, Six
    <3>4. QED
      BY <1>a, <1>b, <3>1, <3>2, <3>3
  <2>2. 1 \in 1 .. 5
    OBVIOUS
  <2>3. QED
    BY <1>1, <1>9, <2>1, <2>2, MoveOn, Zenon
<1>11. Rising(Append(s, m))
  <2>1. \A i \in 1 .. Len(s) : s[i] \in Range(s)
    BY <1>1 DEF Range
  <2>2. \A i \in 1 .. Len(s) : s[i] < m
    <3>1. m \in Ns(b)
      BY <1>2, <1>4
    <3>2. QED
      BY <1>9, <2>1, <3>1 DEF Below
  <2>3. Rising(s)
    BY DEF Account
  <2>4. PICK w : w = Append(s, m)
    OBVIOUS
  <2>5. /\ Len(w) = Len(s) + 1 /\ w[Len(s) + 1] = m /\ Len(s) \in Nat
        /\ \A i \in 1 .. Len(s) : w[i] = s[i]
    BY <1>5, <2>4
  <2>6. \A i, j \in 1 .. Len(w) : i < j => w[i] < w[j]
    BY <2>2, <2>3, <2>5 DEF Rising
  <2>7. QED
    BY <2>4, <2>6 DEF Rising
<1>12. QED
  BY <1>2, <1>3, <1>5, <1>8, <1>10, <1>11, Zenon DEF Account

\* Read: the first i of what has arrived.
LEMMA Take ==
    ASSUME NEW s, NEW b, NEW a, NEW f, NEW p, NEW q, NEW F, NEW n, Streams(s, b, a, f, p, q, n),
           Account(s, b, a, f, p, q, F, n),
           NEW i \in 0 .. Len(a), b = <<>>
    PROVE  Account(s, SubSeq(a, 1, i), SubSeq(a, i + 1, Len(a)), f, p, q, F, n)
<1>1. a \in Seq(Items) /\ n \in Nat /\ Ns(b) = {}
  BY OutputsAreItems DEF Streams
<1>2. PICK a1 : a1 = SubSeq(a, 1, i)
  OBVIOUS
<1>3. PICK a2 : a2 = SubSeq(a, i + 1, Len(a))
  OBVIOUS
<1>4. Cut(a, a1, a2)
  BY <1>1, <1>2, <1>3, Parted
<1>5. Ns(a) = Ns(a1) \cup Ns(a2) /\ Ordered(a1) /\ Ordered(a2) /\ Below(Ns(a1), Ns(a2))
  BY <1>4 DEF Cut, Account
<1>z. PICK z : z = Places(s, b, a, f, p, q)
  OBVIOUS
<1>x. /\ z[1] = Range(s) /\ z[2] = Ns(b) /\ z[3] = Ns(a) /\ z[4] = Ns(f) /\ z[5] = Ns(p) /\ z[6] = Ns(q)
      /\ Settled(z, F, n)
  BY <1>z DEF Places, Account
<1>y. PICK y : y = Places(s, a1, a2, f, p, q)
  OBVIOUS
<1>w. y[1] = Range(s) /\ y[2] = Ns(a1) /\ y[3] = Ns(a2) /\ y[4] = Ns(f) /\ y[5] = Ns(p) /\ y[6] = Ns(q)
  BY <1>y DEF Places
<1>6. Settled(y, F, n)
  <2>1. /\ z[2 + 1] = Ns(a1) \cup y[2 + 1] /\ Below(Ns(a1), y[2 + 1]) /\ y[2] = z[2] \cup Ns(a1)
        /\ \A j \in 1 .. 6 : j # 2 /\ j # 2 + 1 => y[j] = z[j]
    BY <1>1, <1>5, <1>x, <1>w, Six
  <2>2. 2 \in 1 .. 5
    OBVIOUS
  <2>3. QED
    BY <1>1, <1>x, <2>1, <2>2, MoveOn, Zenon
<1>7. QED
  BY <1>2, <1>3, <1>5, <1>6, <1>y, Zenon DEF Account

\* Delivered: the head of what is in flight.
LEMMA Arrive ==
    ASSUME NEW s, NEW b, NEW a, NEW f, NEW p, NEW q, NEW F, NEW n, Streams(s, b, a, f, p, q, n),
           Account(s, b, a, f, p, q, F, n), f # <<>>
    PROVE  /\ Account(s, b, Append(a, Head(f)), Tail(f), p, q, F, n)
           /\ Append(a, Head(f)) \in Seq(Items) /\ Tail(f) \in Seq(Items)
<1>1. a \in Seq(Items) /\ f \in Seq(Items) /\ n \in Nat
  BY DEF Streams
<1>2. PICK X : X = Ns(<<Head(f)>>)
  OBVIOUS
<1>3. /\ Head(f) \in Items /\ Tail(f) \in Seq(Items) /\ Ns(f) = X \cup Ns(Tail(f))
      /\ Ordered(Tail(f)) /\ Below(X, Ns(Tail(f)))
  BY <1>1, <1>2, Headed DEF Account
<1>z. PICK z : z = Places(s, b, a, f, p, q)
  OBVIOUS
<1>x. /\ z[1] = Range(s) /\ z[2] = Ns(b) /\ z[3] = Ns(a) /\ z[4] = Ns(f) /\ z[5] = Ns(p) /\ z[6] = Ns(q)
      /\ Settled(z, F, n)
  BY <1>z DEF Places, Account
<1>4. Below(Ns(a), X)
  BY <1>3, <1>x DEF Settled, Chain, Below
<1>5. Append(a, Head(f)) \in Seq(Items) /\ Ns(Append(a, Head(f))) = Ns(a) \cup X /\ Ordered(Append(a, Head(f)))
  BY <1>1, <1>2, <1>3, <1>4, Added, Zenon DEF Account
<1>y. PICK y : y = Places(s, b, Append(a, Head(f)), Tail(f), p, q)
  OBVIOUS
<1>w. y[1] = Range(s) /\ y[2] = Ns(b) /\ y[3] = Ns(a) \cup X /\ y[4] = Ns(Tail(f)) /\ y[5] = Ns(p) /\ y[6] = Ns(q)
  BY <1>5, <1>y DEF Places
<1>6. Settled(y, F, n)
  <2>1. /\ z[3 + 1] = X \cup y[3 + 1] /\ Below(X, y[3 + 1]) /\ y[3] = z[3] \cup X
        /\ \A j \in 1 .. 6 : j # 3 /\ j # 3 + 1 => y[j] = z[j]
    BY <1>3, <1>x, <1>w, Six
  <2>2. 3 \in 1 .. 5
    OBVIOUS
  <2>3. QED
    BY <1>1, <1>x, <2>1, <2>2, MoveOn, Zenon
<1>7. QED
  BY <1>3, <1>5, <1>6, <1>y, Zenon DEF Account

\* Written to the connection: the first i of rlogind's buffer.
LEMMA Send ==
    ASSUME NEW s, NEW b, NEW a, NEW f, NEW p, NEW q, NEW F, NEW n, Streams(s, b, a, f, p, q, n),
           Account(s, b, a, f, p, q, F, n),
           NEW i \in 0 .. Len(p)
    PROVE  /\ Account(s, b, a, f \o SubSeq(p, 1, i), SubSeq(p, i + 1, Len(p)), q, F, n)
           /\ f \o SubSeq(p, 1, i) \in Seq(Items) /\ SubSeq(p, i + 1, Len(p)) \in Seq(Outputs)
<1>1. p \in Seq(Items) /\ p \in Seq(Outputs) /\ f \in Seq(Items) /\ n \in Nat
  BY OutputsAreItems DEF Streams
<1>2. PICK p1 : p1 = SubSeq(p, 1, i)
  OBVIOUS
<1>3. PICK p2 : p2 = SubSeq(p, i + 1, Len(p))
  OBVIOUS
<1>4. Cut(p, p1, p2)
  BY <1>1, <1>2, <1>3, Parted
<1>5. /\ Ns(p) = Ns(p1) \cup Ns(p2) /\ Ordered(p1) /\ Ordered(p2) /\ Below(Ns(p1), Ns(p2))
      /\ p1 \in Seq(Items) /\ p2 \in Seq(Outputs)
  BY <1>1, <1>4 DEF Cut, Account
<1>z. PICK z : z = Places(s, b, a, f, p, q)
  OBVIOUS
<1>x. /\ z[1] = Range(s) /\ z[2] = Ns(b) /\ z[3] = Ns(a) /\ z[4] = Ns(f) /\ z[5] = Ns(p) /\ z[6] = Ns(q)
      /\ Settled(z, F, n)
  BY <1>z DEF Places, Account
<1>6. Below(Ns(f), Ns(p1))
  BY <1>5, <1>x DEF Settled, Chain, Below
<1>7. f \o p1 \in Seq(Items) /\ Ns(f \o p1) = Ns(f) \cup Ns(p1) /\ Ordered(f \o p1)
  BY <1>1, <1>5, <1>6, Joined, Zenon DEF Account
<1>y. PICK y : y = Places(s, b, a, f \o p1, p2, q)
  OBVIOUS
<1>w. y[1] = Range(s) /\ y[2] = Ns(b) /\ y[3] = Ns(a) /\ y[4] = Ns(f) \cup Ns(p1) /\ y[5] = Ns(p2) /\ y[6] = Ns(q)
  BY <1>7, <1>y DEF Places
<1>8. Settled(y, F, n)
  <2>1. /\ z[4 + 1] = Ns(p1) \cup y[4 + 1] /\ Below(Ns(p1), y[4 + 1]) /\ y[4] = z[4] \cup Ns(p1)
        /\ \A j \in 1 .. 6 : j # 4 /\ j # 4 + 1 => y[j] = z[j]
    BY <1>5, <1>x, <1>w, Six
  <2>2. 4 \in 1 .. 5
    OBVIOUS
  <2>3. QED
    BY <1>1, <1>x, <2>1, <2>2, MoveOn, Zenon
<1>9. QED
  BY <1>2, <1>3, <1>5, <1>7, <1>8, <1>y, Zenon DEF Account

\* Read from the terminal: all that is there.
LEMMA Fetch ==
    ASSUME NEW s, NEW b, NEW a, NEW f, NEW p, NEW q, NEW F, NEW n, Streams(s, b, a, f, p, q, n),
           Account(s, b, a, f, p, q, F, n), p = <<>>
    PROVE  Account(s, b, a, f, q, <<>>, F, n)
<1>1. n \in Nat /\ Ns(p) = {} /\ Ns(<<>>) = {} /\ Ordered(<<>>)
  BY OutputsAreItems DEF Streams
<1>z. PICK z : z = Places(s, b, a, f, p, q)
  OBVIOUS
<1>x. /\ z[1] = Range(s) /\ z[2] = Ns(b) /\ z[3] = Ns(a) /\ z[4] = Ns(f) /\ z[5] = Ns(p) /\ z[6] = Ns(q)
      /\ Settled(z, F, n)
  BY <1>z DEF Places, Account
<1>y. PICK y : y = Places(s, b, a, f, q, <<>>)
  OBVIOUS
<1>w. y[1] = Range(s) /\ y[2] = Ns(b) /\ y[3] = Ns(a) /\ y[4] = Ns(f) /\ y[5] = Ns(q) /\ y[6] = {}
  BY <1>1, <1>y DEF Places
<1>2. Settled(y, F, n)
  <2>1. /\ z[5 + 1] = Ns(q) \cup y[5 + 1] /\ Below(Ns(q), y[5 + 1]) /\ y[5] = z[5] \cup Ns(q)
        /\ \A j \in 1 .. 6 : j # 5 /\ j # 5 + 1 => y[j] = z[j]
    <3>1. Below(Ns(q), {}) /\ 5 + 1 = 6
      BY DEF Below
    <3>2. QED
      BY <1>1, <1>x, <1>w, <3>1, Six
  <2>2. 5 \in 1 .. 5
    OBVIOUS
  <2>3. QED
    BY <1>1, <1>x, <2>1, <2>2, MoveOn, Zenon
<1>3. QED
  BY <1>1, <1>2, <1>y, Zenon DEF Account

\* Written by the remote programs: the unit n + 1.
LEMMA Written ==
    ASSUME NEW s, NEW b, NEW a, NEW f, NEW p, NEW q, NEW F, NEW n, Streams(s, b, a, f, p, q, n),
           Account(s, b, a, f, p, q, F, n)
    PROVE  /\ Account(s, b, a, f, p, Append(q, Data(n + 1)), F, n + 1)
           /\ Append(q, Data(n + 1)) \in Seq(Outputs)
<1>1. q \in Seq(Items) /\ q \in Seq(Outputs) /\ n \in Nat /\ n + 1 \in Nat
  BY OutputsAreItems DEF Streams
<1>2. PICK x : x = Data(n + 1)
  OBVIOUS
<1>3. x \in Items /\ IsData(x) /\ x.n = n + 1 /\ x \in Outputs
  BY <1>1, <1>2 DEF Data, Items, Outputs, IsData
<1>4. Ns(<<x>>) = {n + 1}
  BY <1>3, Single
<1>z. PICK z : z = Places(s, b, a, f, p, q)
  OBVIOUS
<1>x. /\ z[1] = Range(s) /\ z[2] = Ns(b) /\ z[3] = Ns(a) /\ z[4] = Ns(f) /\ z[5] = Ns(p) /\ z[6] = Ns(q)
      /\ Settled(z, F, n)
  BY <1>z DEF Places, Account
<1>5. Below(Ns(q), {n + 1})
  <2>1. Ns(q) \subseteq 1 .. n
    BY <1>1, PlacesKnown
  <2>2. QED
    BY <1>1, <2>1 DEF Below
<1>6. Append(q, x) \in Seq(Items) /\ Ns(Append(q, x)) = Ns(q) \cup {n + 1} /\ Ordered(Append(q, x))
  BY <1>1, <1>3, <1>4, <1>5, Added, Zenon DEF Account
<1>7. Append(q, x) \in Seq(Outputs)
  BY <1>1, <1>3
<1>y. PICK y : y = Places(s, b, a, f, p, Append(q, x))
  OBVIOUS
<1>w. y[1] = Range(s) /\ y[2] = Ns(b) /\ y[3] = Ns(a) /\ y[4] = Ns(f) /\ y[5] = Ns(p) /\ y[6] = Ns(q) \cup {n + 1}
  BY <1>6, <1>y DEF Places
<1>8. Settled(y, F, n + 1)
  <2>1. y[6] = z[6] \cup {n + 1} /\ \A i \in 1 .. 5 : y[i] = z[i]
    BY <1>x, <1>w, Six
  <2>2. QED
    BY <1>1, <1>x, <2>1, WriteOne, Zenon
<1>9. QED
  BY <1>2, <1>6, <1>7, <1>8, <1>y, Zenon DEF Account

\* Marks and verdicts come and go and no unit moves.
LEMMA SameUnits ==
    ASSUME NEW s, NEW b, NEW a, NEW f, NEW p, NEW q, NEW F, NEW n, Streams(s, b, a, f, p, q, n),
           Account(s, b, a, f, p, q, F, n),
           NEW a2, NEW f2, Ns(a2) = Ns(a), Ns(f2) = Ns(f), Ordered(a2), Ordered(f2)
    PROVE  Account(s, b, a2, f2, p, q, F, n)
  BY Zenon DEF Account, Places

LEMMA HeadSkipped ==
    ASSUME NEW s \in Seq(Items), s # <<>>, ~IsData(Head(s))
    PROVE  Tail(s) \in Seq(Items) /\ Ns(Tail(s)) = Ns(s) /\ (Ordered(s) => Ordered(Tail(s)))
<1>1. Head(s) \in Items /\ Ns(<<Head(s)>>) = {}
  BY Headed, Single
<1>2. QED
  BY <1>1, Headed

LEMMA MarkAdded ==
    ASSUME NEW s \in Seq(Items), NEW x \in Items, ~IsData(x)
    PROVE  Append(s, x) \in Seq(Items) /\ Ns(Append(s, x)) = Ns(s) /\ (Ordered(s) => Ordered(Append(s, x)))
<1>1. Ns(<<x>>) = {} /\ Below(Ns(s), {})
  BY Single DEF Below
<1>2. QED
  BY <1>1, Added

\* b lost the front part with the units D and is now c.
Cuts(b, D, c) == Ns(b) = D \cup Ns(c) /\ Below(D, Ns(c)) /\ Ordered(c)

LEMMA KeptWhole ==
    ASSUME NEW b, Ordered(b)
    PROVE  Cuts(b, {}, b)
  BY DEF Cuts, Below

LEMMA CutWhole ==
    ASSUME NEW b
    PROVE  Cuts(b, Ns(b), <<>>)
  BY OutputsAreItems DEF Cuts, Below

\* Dropped: the fronts of some of the streams.
Dropped(b, a, p, q, b2, a2, p2, q2, D) ==
  \E db, da, dp, dq : /\ Cuts(b, db, b2) /\ Cuts(a, da, a2) /\ Cuts(p, dp, p2) /\ Cuts(q, dq, q2)
                     /\ D = db \cup da \cup dp \cup dq

LEMMA Forget ==
    ASSUME NEW s, NEW b, NEW a, NEW f, NEW p, NEW q, NEW F, NEW n, Streams(s, b, a, f, p, q, n),
           Account(s, b, a, f, p, q, F, n),
           NEW b2, NEW a2, NEW p2, NEW q2, NEW D, Dropped(b, a, p, q, b2, a2, p2, q2, D)
    PROVE  Account(s, b2, a2, f, p2, q2, F \cup D, n) /\ D \subseteq 1 .. n
<1>0. PICK db, da, dp, dq : /\ Cuts(b, db, b2) /\ Cuts(a, da, a2) /\ Cuts(p, dp, p2) /\ Cuts(q, dq, q2)
                            /\ D = db \cup da \cup dp \cup dq
  BY Zenon DEF Dropped
<1>z. PICK z : z = Places(s, b, a, f, p, q)
  OBVIOUS
<1>x. /\ z[1] = Range(s) /\ z[2] = Ns(b) /\ z[3] = Ns(a) /\ z[4] = Ns(f) /\ z[5] = Ns(p) /\ z[6] = Ns(q)
      /\ Settled(z, F, n)
  BY <1>z DEF Places, Account
<1>y. PICK y : y = Places(s, b2, a2, f, p2, q2)
  OBVIOUS
<1>w. y[1] = Range(s) /\ y[2] = Ns(b2) /\ y[3] = Ns(a2) /\ y[4] = Ns(f) /\ y[5] = Ns(p2) /\ y[6] = Ns(q2)
  BY <1>y DEF Places
<1>1. PICK d : d = <<{}, db, da, {}, dp, dq>>
  OBVIOUS
<1>2. d[1] = {} /\ d[2] = db /\ d[3] = da /\ d[4] = {} /\ d[5] = dp /\ d[6] = dq
  BY <1>1
<1>3. \A i \in 1 .. 6 : z[i] = d[i] \cup y[i] /\ Below(d[i], y[i])
  <2>1. \A i \in 1 .. 6 : z[i] = d[i] \cup y[i]
    BY <1>0, <1>x, <1>w, <1>2, Six DEF Cuts
  <2>2. \A i \in 1 .. 6 : Below(d[i], y[i])
    <3>1. \A S : Below({}, S)
      BY DEF Below
    <3>2. QED
      BY <1>0, <1>w, <1>2, <3>1, Six DEF Cuts
  <2>3. QED
    BY <2>1, <2>2
<1>4. D = All(d)
  <2>1. \A x : x \in All(d) <=> x \in db \/ x \in da \/ x \in dp \/ x \in dq
    BY <1>2, InAll, Six
  <2>2. QED
    BY <1>0, <2>1
<1>5. Settled(y, F \cup D, n) /\ D \subseteq 1 .. n
  BY <1>x, <1>3, <1>4, LoseSome DEF Streams
<1>6. QED
  BY <1>0, <1>5, <1>y, Zenon DEF Account, Cuts

-----------------------------------------------------------------------------
(* The first mark of a stream.                                               *)

LEMMA LeastOne ==
    ASSUME NEW S \in SUBSET Nat, S # {}
    PROVE  Min(S) \in S /\ \A y \in S : Min(S) <= y
<1> DEFINE R == OpToRel(<, Nat)
<1>1. IsWellFoundedOn(R, Nat)
  BY NatLessThanWellFounded
<1>2. \A x, y \in Nat : x < y => <<x, y>> \in R
  BY DEF OpToRel
<1> HIDE DEF R
<1>3. PICK x \in S : \A y \in S : ~ (<<y, x>> \in R)
  <2>1. S \subseteq Nat /\ S # {}
    OBVIOUS
  <2>2. QED
    BY <1>1, <2>1, WFMin, Zenon
<1>4. ASSUME NEW y \in S PROVE x <= y
  <2>1. x \in Nat /\ y \in Nat
    OBVIOUS
  <2>2. ~ (y < x)
    BY <1>2, <1>3, <2>1
  <2>3. QED
    BY <2>1, <2>2
<1>5. QED
  BY <1>4 DEF Min

LEMMA BeforeIs ==
    ASSUME arrived \in Seq(Items)
    PROVE  /\ Before \in 0 .. Len(arrived)
           /\ \A i \in 1 .. Before : IsData(arrived[i])
           /\ arrived # <<>> /\ Before = 0 => ~IsData(Head(arrived))
<1> DEFINE I == {i \in 1 .. Len(arrived) : ~IsData(arrived[i])}
<1>1. I \in SUBSET Nat /\ Len(arrived) \in Nat
  OBVIOUS
<1>2. Before = IF (IF I # {} THEN Min(I) ELSE 0) = 0 THEN Len(arrived) ELSE (IF I # {} THEN Min(I) ELSE 0) - 1
  BY DEF Before, SelectInSeq
<1>3. CASE I = {}
  BY <1>1, <1>2, <1>3
<1>4. CASE I # {}
  <2>1. PICK m : m = Min(I)
    OBVIOUS
  <2>2. m \in I /\ \A y \in I : m <= y
    BY <1>1, <1>4, <2>1, LeastOne
  <2>3. Before = m - 1 /\ m \in 1 .. Len(arrived)
    BY <1>1, <1>2, <1>4, <2>1, <2>2
  <2>4. \A i \in 1 .. Before : i \in 1 .. Len(arrived) /\ i \notin I
    BY <1>1, <2>2, <2>3
  <2>5. Before = 0 => m = 1
    BY <2>3
  <2>6. QED
    BY <1>1, <2>2, <2>3, <2>4, <2>5
<1>5. QED
  BY <1>3, <1>4

LEMMA MarkFound ==
    ASSUME NEW s \in Seq(Items), NEW x \in Items, ~IsData(x), \E i \in 1 .. Len(s) : s[i] = x,
           NEW at, at = SelectInSeq(s, LAMBDA t : t = x)
    PROVE  at \in 1 .. Len(s) /\ s[at] = x
<1> DEFINE I == {i \in 1 .. Len(s) : s[i] = x}
<1>1. I \in SUBSET Nat /\ I # {}
  OBVIOUS
<1>2. at = Min(I)
  BY <1>1 DEF SelectInSeq
<1>3. QED
  BY <1>1, <1>2, LeastOne

\* The front up to a mark, and the rest with the mark.
LEMMA CutAt ==
    ASSUME NEW s \in Seq(Items), Ordered(s), NEW i \in 1 .. Len(s), ~IsData(s[i])
    PROVE  /\ Cuts(s, Ns(SubSeq(s, 1, i)), SubSeq(s, i, Len(s)))
           /\ SubSeq(s, i, Len(s)) \in Seq(Items)
<1>1. PICK a : a = SubSeq(s, 1, i)
  OBVIOUS
<1>2. PICK b : b = SubSeq(s, i + 1, Len(s))
  OBVIOUS
<1>3. i \in 0 .. Len(s) /\ Len(s) \in Nat /\ Len(s) \in i .. Len(s) /\ s[i] \in Items
  OBVIOUS
<1>4. Cut(s, a, b)
  BY <1>1, <1>2, <1>3, Parted
<1>5. SubSeq(s, i, Len(s)) = <<s[i]>> \o b
  BY <1>2, <1>3, SubSeqRecursiveFirst
<1>6. Ns(<<s[i]>>) = {} /\ <<s[i]>> \in Seq(Items) /\ Ordered(<<s[i]>>) /\ Below({}, Ns(b))
  BY <1>3, Single DEF Below
<1>7. <<s[i]>> \o b \in Seq(Items) /\ Ns(<<s[i]>> \o b) = Ns(b) /\ Ordered(<<s[i]>> \o b)
  <2>1. b \in Seq(Items) /\ Ordered(b)
    BY <1>4 DEF Cut
  <2>2. PICK c \in Seq(Items) : c = <<s[i]>>
    BY <1>6
  <2>3. /\ c \o b \in Seq(Items) /\ Ns(c \o b) = Ns(c) \cup Ns(b)
        /\ Ordered(c) /\ Ordered(b) /\ Below(Ns(c), Ns(b)) => Ordered(c \o b)
    BY <2>1, <2>2, Joined, Zenon
  <2>4. QED
    BY <1>6, <2>1, <2>2, <2>3
<1>8. QED
  BY <1>1, <1>4, <1>5, <1>7 DEF Cut, Cuts

\* The front of i, and the rest.
LEMMA CutAfter ==
    ASSUME NEW s \in Seq(Items), Ordered(s), NEW i \in 0 .. Len(s)
    PROVE  /\ Cuts(s, Ns(SubSeq(s, 1, i)), SubSeq(s, i + 1, Len(s)))
           /\ SubSeq(s, i + 1, Len(s)) \in Seq(Items)
<1>1. PICK a : a = SubSeq(s, 1, i)
  OBVIOUS
<1>2. PICK b : b = SubSeq(s, i + 1, Len(s))
  OBVIOUS
<1>3. Cut(s, a, b)
  BY <1>1, <1>2, Parted
<1>4. QED
  BY <1>1, <1>2, <1>3 DEF Cut, Cuts

-----------------------------------------------------------------------------
(* The parent.                                                               *)

LEMMA OutputKept ==
    ASSUME OutputInv, UNCHANGED <<arrived, inflight, fate>>, term'.shown = term.shown, rdr'.buf = rdr.buf,
           rld'.pbuf = rld.pbuf, shl'.q = shl.q, shl'.n = shl.n,
           rdr'.pc \in {"none", "start", "read"} \/ (rdr'.pc \in {"oob", "modes"} /\ rdr'.back = "read") => rdr'.buf = <<>>
    PROVE  OutputInv'
<1>1. Fated' = Fated
  BY DEF Fated
<1>2. QED
  BY <1>1, Zenon DEF OutputInv

LEMMA SentIsTyped ==
    ASSUME rlup \in Seq(Inputs), NEW ks \in Seq(Inputs), Sent(ks)
    PROVE  rlup' \in Seq(Inputs)
  BY DEF Sent

LEMMA WindowIsTyped ==
    ASSUME rlup \in Seq(Inputs), NEW w \in Sizes, sendwindow(w)
    PROVE  rlup' \in Seq(Inputs)
<1>1. [k |-> "win", n |-> w] \in Inputs
  BY DEF Inputs
<1>2. <<[k |-> "win", n |-> w]>> \in Seq(Inputs)
  BY <1>1
<1>3. QED
  BY <1>2, SentIsTyped DEF sendwindow

LEMMA KeyIsTyped ==
    ASSUME NEW k \in Keys
    PROVE  <<Key(k)>> \in Seq(Inputs) /\ <<Key("esc"), Key(k)>> \in Seq(Inputs)
<1>1. 0 \in Sizes
  BY RlAssumption DEF Sizes
<1>2. [k |-> "key", n |-> 0] \in Inputs
  BY <1>1 DEF Inputs
<1>3. QED
  BY <1>2 DEF Key

\* What a step of the parent leaves alone.
LEMMA ParentFrame ==
    ASSUME RlInv, ParentOnly, par' \in Parent, rdr' \in Reader, term' \in Terminal, rlup' \in Seq(Inputs),
           term'.shown = term.shown, rdr' = rdr \/ rdr' = [rdr EXCEPT !.pc = "exit"], ParentInv'
    PROVE  RlInv'
<1>1. UNCHANGED <<rlopt, inflight, arrived, rld, shl, fate, dmn>>
  BY DEF ParentOnly
<1>2. Types'
  BY <1>1 DEF Types, RlInv
<1>3. MarkInv' /\ CountInv'
  BY <1>1 DEF MarkInv, CountInv, RlInv
<1>4. rdr \in Reader
  BY DEF RlInv, Types
<1>5. rdr'.buf = rdr.buf /\ (rdr'.pc = "exit" \/ (rdr'.pc = rdr.pc /\ rdr'.back = rdr.back))
  BY <1>4 DEF Reader
<1>6. OutputInv'
  BY <1>1, <1>5, OutputKept DEF RlInv, OutputInv
<1>7. QED
  BY <1>2, <1>3, <1>6 DEF RlInv

LEMMA ParentTyped ==
    ASSUME RlInv
    PROVE  /\ par \in Parent /\ rdr \in Reader /\ term \in Terminal /\ rlup \in Seq(Inputs)
           /\ ParentInv /\ par.win \in Sizes /\ term.size \in Sizes
  BY DEF RlInv, Types, Parent, Terminal

LEMMA WriterStep ==
    ASSUME RlInv, NEW k \in Keys, writer(k)
    PROVE  RlInv'
<1> USE ParentTyped
<1>1. UNCHANGED <<rdr, term>> /\ ParentOnly /\ par.pc = "run"
  BY DEF writer
<1>2. PICK b : b \in BOOLEAN /\ b = (k = "susp")
  BY Zenon
<1>3. par' \in Parent /\ par'.pc \in {"run", "quit", "stop"} /\ ~(par'.bol /\ par'.local)
  <2> DEFINE p == [par EXCEPT !.typed = @ + 1, !.bol = FALSE, !.local = FALSE]
             r == [p EXCEPT !.bol = b]
  <2>0. par \in Parent /\ par.typed \in Nat
    BY ParentTyped DEF Parent
  <2>1. p \in Parent /\ p.pc = "run" /\ ~p.bol /\ ~p.local
    <3>1. p.pc = "run" /\ ~p.bol /\ ~p.local
      BY <1>1, <2>0 DEF Parent
    <3>2. par.typed + 1 \in Nat
      BY <2>0
    <3>3. p \in Parent
      BY <2>0, <3>2 DEF Parent
    <3>4. QED
      BY <3>1, <3>3
  <2>2. r \in Parent /\ r.pc = "run" /\ ~r.local
    <3> HIDE DEF p
    <3>1. QED
      BY <1>2, <2>1 DEF Parent, ParentPcs
  <2>a. par' \in {p, r, [p EXCEPT !.pc = "quit"], [r EXCEPT !.pc = "quit"], [p EXCEPT !.local = TRUE],
                  [p EXCEPT !.pc = "stop", !.bol = TRUE]}
    <3>1. r = [p EXCEPT !.bol = k = "susp"]
      BY <1>2, Zenon
    <3> DEFINE q == [p EXCEPT !.bol = k = "susp"]
    <3>2. \/ par' = p \/ par' = [p EXCEPT !.pc = "quit"] \/ par' = [p EXCEPT !.local = TRUE]
          \/ par' = [p EXCEPT !.pc = "stop", !.bol = TRUE] \/ par' = q \/ par' = [q EXCEPT !.pc = "quit"]
      BY Zenon DEF writer
    <3> HIDE DEF p, q
    <3>3. QED
      BY <3>1, <3>2, Zenon DEF q
  <2> HIDE DEF p, r
  <2>b. ASSUME NEW o \in Parent, o.pc = "run", ~o.bol, ~o.local
        PROVE  /\ [o EXCEPT !.pc = "quit"] \in Parent /\ [o EXCEPT !.local = TRUE] \in Parent
               /\ [o EXCEPT !.pc = "stop", !.bol = TRUE] \in Parent
               /\ [o EXCEPT !.pc = "quit"].pc = "quit" /\ ~[o EXCEPT !.pc = "quit"].bol
               /\ [o EXCEPT !.local = TRUE].pc = "run" /\ ~[o EXCEPT !.local = TRUE].bol
               /\ [o EXCEPT !.pc = "stop", !.bol = TRUE].pc = "stop" /\ ~[o EXCEPT !.pc = "stop", !.bol = TRUE].local
    BY <2>b DEF Parent, ParentPcs
  <2>c. [r EXCEPT !.pc = "quit"] \in Parent /\ [r EXCEPT !.pc = "quit"].pc = "quit" /\ ~[r EXCEPT !.pc = "quit"].local
    BY <2>2 DEF Parent, ParentPcs
  <2>3. CASE par' \in {p, r}
    BY <2>1, <2>2, <2>3
  <2>4. CASE par' = [r EXCEPT !.pc = "quit"]
    BY <2>c, <2>4, Zenon
  <2>5. CASE par' = [p EXCEPT !.pc = "quit"]
    BY <2>1, <2>b, <2>5
  <2>6. CASE par' = [p EXCEPT !.local = TRUE]
    BY <2>1, <2>b, <2>6
  <2>7. CASE par' = [p EXCEPT !.pc = "stop", !.bol = TRUE]
    BY <2>1, <2>b, <2>7
  <2>8. QED
    BY <2>a, <2>3, <2>4, <2>5, <2>6, <2>7, Zenon
<1>4. rlup' \in Seq(Inputs)
  BY SentIsTyped, KeyIsTyped DEF writer
<1>5. ParentInv'
  BY <1>1, <1>3 DEF ParentInv
<1>6. QED
  BY <1>1, <1>3, <1>4, <1>5, ParentFrame

LEMMA StopSteps ==
    ASSUME RlInv, StopBegin \/ Stopped \/ Continue \/ StopEnd
    PROVE  RlInv'
<1> USE ParentTyped
<1>1. CASE StopBegin
  <2>1. par' \in Parent /\ term' \in Terminal /\ term'.shown = term.shown /\ UNCHANGED <<rdr, rlup>> /\ ParentOnly
    BY <1>1 DEF StopBegin, Parent, ParentPcs, Terminal, Mode0
  <2>2. ParentInv'
    BY <1>1 DEF StopBegin, Parent, ParentPcs, Terminal, Mode0, ParentInv
  <2>3. QED
    BY <2>1, <2>2, ParentFrame
<1>2. CASE Stopped \/ Continue
  <2>1. par' \in Parent /\ UNCHANGED <<term, rdr, rlup>> /\ ParentOnly
    BY <1>2 DEF Stopped, Continue, Parent, ParentPcs
  <2>2. ParentInv'
    BY <1>2 DEF Stopped, Continue, Parent, ParentPcs, ParentInv
  <2>3. QED
    BY <2>1, <2>2, ParentFrame
<1>3. CASE StopEnd
  <2>1. par' \in Parent /\ term' \in Terminal /\ term'.shown = term.shown /\ UNCHANGED rdr /\ ParentOnly
    BY <1>3 DEF StopEnd, Parent, ParentPcs, Terminal, Mode1
  <2>2. rlup' \in Seq(Inputs)
    BY <1>3, WindowIsTyped DEF StopEnd
  <2>3. ParentInv'
    BY <1>3 DEF StopEnd, Parent, ParentPcs, ParentInv
  <2>4. QED
    BY <2>1, <2>2, <2>3, ParentFrame
<1>4. QED
  BY <1>1, <1>2, <1>3

LEMMA DoneSteps ==
    ASSUME RlInv, DoneMode \/ DoneKill \/ CatchChild
    PROVE  RlInv'
<1> USE ParentTyped
<1>1. CASE DoneMode
  <2>1. par' \in Parent /\ term' \in Terminal /\ term'.shown = term.shown /\ UNCHANGED <<rdr, rlup>> /\ ParentOnly
    BY <1>1 DEF DoneMode, Parent, ParentPcs, Terminal, Mode0
  <2>2. ParentInv'
    BY <1>1 DEF DoneMode, Parent, ParentPcs, Terminal, Mode0, ParentInv
  <2>3. QED
    BY <2>1, <2>2, ParentFrame
<1>2. CASE DoneKill
  <2>1. par' \in Parent /\ rdr' \in Reader /\ rdr' = [rdr EXCEPT !.pc = "exit"] /\ UNCHANGED <<term, rlup>> /\ ParentOnly
    BY <1>2 DEF DoneKill, Parent, ParentPcs, Reader, ReaderPcs
  <2>2. ParentInv'
    BY <1>2 DEF DoneKill, Parent, ParentPcs, Reader, ReaderPcs, ParentInv
  <2>3. QED
    BY <2>1, <2>2, ParentFrame
<1>3. CASE CatchChild
  <2>1. par' \in Parent /\ UNCHANGED <<rdr, term, rlup>> /\ ParentOnly
    BY <1>3 DEF CatchChild, Parent, ParentPcs
  <2>2. ParentInv'
    BY <1>3 DEF CatchChild, Parent, ParentPcs, ParentInv, CanHandle
  <2>3. QED
    BY <2>1, <2>2, ParentFrame
<1>4. QED
  BY <1>1, <1>2, <1>3

LEMMA WindowSteps ==
    ASSUME RlInv, writeroob \/ sigwinch \/ Resize
    PROVE  RlInv'
<1> USE ParentTyped
<1>1. CASE writeroob
  <2>1. par' \in Parent /\ UNCHANGED <<rdr, term>> /\ ParentOnly
    BY <1>1 DEF writeroob, Parent
  <2>2. rlup' \in Seq(Inputs)
    BY <1>1, WindowIsTyped DEF writeroob
  <2>3. ParentInv'
    BY <1>1 DEF writeroob, Parent, ParentInv
  <2>4. QED
    BY <2>1, <2>2, <2>3, ParentFrame
<1>2. CASE sigwinch
  <2>1. par' \in Parent /\ UNCHANGED <<rdr, term>> /\ ParentOnly
    BY <1>2 DEF sigwinch, Parent
  <2>2. rlup' \in Seq(Inputs)
    BY <1>2, WindowIsTyped DEF sigwinch
  <2>3. ParentInv'
    BY <1>2 DEF sigwinch, Parent, ParentInv
  <2>4. QED
    BY <2>1, <2>2, <2>3, ParentFrame
<1>3. CASE Resize
  <2>1. term.size + 1 \in Sizes
    BY <1>3, RlAssumption DEF Resize, Sizes
  <2>2. par' \in Parent /\ term' \in Terminal /\ term'.shown = term.shown /\ UNCHANGED <<rdr, rlup>> /\ ParentOnly
    BY <1>3, <2>1 DEF Resize, Parent, Terminal
  <2>3. ParentInv'
    BY <1>3 DEF Resize, Parent, Terminal, ParentInv
  <2>4. QED
    BY <2>2, <2>3, ParentFrame
<1>4. QED
  BY <1>1, <1>2, <1>3

-----------------------------------------------------------------------------
(* The connection and the reader.                                            *)

LEMMA Accounted ==
    ASSUME RlInv
    PROVE  /\ Streams(term.shown, rdr.buf, arrived, inflight, rld.pbuf, shl.q, shl.n)
           /\ Account(term.shown, rdr.buf, arrived, inflight, rld.pbuf, shl.q, Fated, shl.n)
           /\ arrived \in Seq(Items) /\ Ordered(arrived) /\ Ordered(inflight) /\ inflight \in Seq(Items)
           /\ rdr.buf \in Seq(Outputs) /\ Ordered(rdr.buf) /\ Ordered(rld.pbuf) /\ Ordered(shl.q)
           /\ shl.n \in 0 .. MaxUnits /\ fate \in [1 .. MaxUnits -> {"none", "flushed", "swallowed", "cleanup"}]
<1>1. /\ term.shown \in Seq(Nat) /\ rdr.buf \in Seq(Outputs) /\ rld.pbuf \in Seq(Outputs) /\ shl.q \in Seq(Outputs)
      /\ shl.n \in 0 .. MaxUnits /\ shl.n \in Nat /\ arrived \in Seq(Items) /\ inflight \in Seq(Items)
  BY RlAssumption DEF RlInv, Types, Terminal, Reader, Rlogind, Shell
<1>2. fate \in [1 .. MaxUnits -> {"none", "flushed", "swallowed", "cleanup"}]
  BY DEF RlInv, Types
<1>3. Account(term.shown, rdr.buf, arrived, inflight, rld.pbuf, shl.q, Fated, shl.n)
  BY DEF RlInv, OutputInv
<1>4. Ordered(rdr.buf) /\ Ordered(rld.pbuf) /\ Ordered(shl.q) /\ Ordered(arrived) /\ Ordered(inflight)
  BY <1>3 DEF Account
<1>5. QED
  BY <1>1, <1>2, <1>3, <1>4 DEF Streams

\* What is lost has a fate.
LEMMA LostIsFated ==
    ASSUME RlInv, NEW ns, ns \subseteq 1 .. shl.n, NEW cause \in {"flushed", "swallowed", "cleanup"}, Lose(ns, cause)
    PROVE  /\ fate' \in [1 .. MaxUnits -> {"none", "flushed", "swallowed", "cleanup"}]
           /\ Fated' = Fated \cup ns
<1>1. shl.n \in 0 .. MaxUnits /\ MaxUnits \in Nat
  BY Accounted, RlAssumption
<1>2. fate \in [1 .. MaxUnits -> {"none", "flushed", "swallowed", "cleanup"}]
  BY Accounted
<1>3. fate' \in [1 .. MaxUnits -> {"none", "flushed", "swallowed", "cleanup"}]
  BY <1>2 DEF Lose
<1>4. \A n \in 1 .. MaxUnits : fate'[n] = IF n \in ns THEN cause ELSE fate[n]
  BY DEF Lose
<1>5. ns \subseteq 1 .. MaxUnits
  BY <1>1
<1>6. Fated' = Fated \cup ns
  BY <1>4, <1>5 DEF Fated
<1>7. QED
  BY <1>3, <1>6

LEMMA StartedStep ==
    ASSUME RlInv, Started
    PROVE  RlInv'
<1> USE ParentTyped
<1>1. /\ par' \in Parent /\ rdr' \in Reader /\ UNCHANGED <<rlopt, term, inflight, rlup, rld, shl, fate, dmn>>
      /\ rdr'.buf = rdr.buf /\ rdr'.pc \in {"start", "none"} /\ ParentInv'
  BY DEF Started, Parent, ParentPcs, Reader, ReaderPcs, ParentInv
<1>2. arrived' \in Seq(Items) /\ Ns(arrived') = Ns(arrived) /\ Ordered(arrived') /\ (arrived = <<>> => arrived' = <<>>)
  <2>1. CASE arrived' = arrived
    BY <2>1, Accounted
  <2>2. CASE arrived # <<>> /\ Head(arrived).k = "nul" /\ arrived' = Tail(arrived)
    <3>1. ~IsData(Head(arrived))
      BY <2>2 DEF IsData
    <3>2. QED
      BY <2>2, <3>1, Accounted, HeadSkipped
  <2>3. QED
    BY <2>1, <2>2 DEF Started
<1>3. Account(term.shown, rdr.buf, arrived', inflight, rld.pbuf, shl.q, Fated, shl.n)
  BY <1>2, Accounted, SameUnits
<1>4. Types' /\ MarkInv' /\ CountInv'
  BY <1>1, <1>2 DEF RlInv, Types, MarkInv, CountInv
<1>5. rdr.buf = <<>>
  BY DEF Started, RlInv, OutputInv, ParentInv
<1>6. Fated' = Fated
  BY <1>1 DEF Fated
<1>7. OutputInv'
  BY <1>1, <1>3, <1>5, <1>6 DEF OutputInv
<1>8. QED
  BY <1>1, <1>4, <1>7 DEF RlInv

LEMMA DeliverStep ==
    ASSUME RlInv, Deliver
    PROVE  RlInv'
<1>1. /\ inflight # <<>> /\ arrived' = Append(arrived, Head(inflight)) /\ inflight' = Tail(inflight)
      /\ UNCHANGED <<rlopt, par, rdr, term, rlup, rld, shl, fate, dmn>>
  BY DEF Deliver
<1>2. /\ Account(term.shown, rdr.buf, arrived', inflight', rld.pbuf, shl.q, Fated, shl.n)
      /\ arrived' \in Seq(Items) /\ inflight' \in Seq(Items)
  BY <1>1, Accounted, Arrive
<1>3. Types' /\ ParentInv' /\ CountInv'
  BY <1>1, <1>2 DEF RlInv, Types, ParentInv, CountInv
<1>4. MarkInv'
  BY <1>1 DEF RlInv, MarkInv
<1>5. Fated' = Fated
  BY <1>1 DEF Fated
<1>6. OutputInv'
  BY <1>1, <1>2, <1>5 DEF OutputInv, RlInv
<1>7. QED
  BY <1>3, <1>4, <1>6 DEF RlInv

LEMMA ReaderFrame ==
    ASSUME RlInv, ReaderOnly, par' \in Parent, rdr' \in Reader, term' \in Terminal, arrived' \in Seq(Items),
           fate' \in [1 .. MaxUnits -> {"none", "flushed", "swallowed", "cleanup"}],
           arrived = <<>> => arrived' = <<>>, ParentInv', OutputInv'
    PROVE  RlInv'
<1>1. UNCHANGED <<rlopt, rlup, rld, shl, dmn, inflight>>
  BY DEF ReaderOnly
<1>2. Types' /\ MarkInv' /\ CountInv'
  BY <1>1 DEF RlInv, Types, MarkInv, CountInv
<1>3. QED
  BY <1>2 DEF RlInv

\* The reader is on, so the parent has started it and not ended.
LEMMA ReaderIsOn ==
    ASSUME RlInv, ReaderRuns
    PROVE  par.pc \in ParentPcs \ {"connect", "exit", "stopped"} /\ par \in Parent /\ rdr \in Reader /\ term \in Terminal
<1>1. par \in Parent /\ rdr \in Reader /\ term \in Terminal
  BY ParentTyped
<1>2. QED
  BY <1>1 DEF RlInv, ParentInv, ReaderRuns, Parent

\* A raw mode set while the parent ends or stops makes the child late.
LEMMA RawIsLate ==
    ASSUME par \in Parent, NEW raw \in BOOLEAN, NEW l \in BOOLEAN, l <=> par.late \/ (raw /\ par.pc \in {"kill", "tstp"})
    PROVE  RawSet(raw) = [par EXCEPT !.late = l]
<1>1. par.late \in BOOLEAN
  BY DEF Parent
<1>2. (par.late \/ (raw /\ par.pc \in {"kill", "tstp"})) = l
  BY <1>1
<1>3. QED
  BY <1>2, Zenon DEF RawSet

LEMMA ReaderStartStep ==
    ASSUME RlInv, ReaderStart
    PROVE  RlInv'
<1>1. ReaderRuns /\ ReaderOnly /\ UNCHANGED <<arrived, fate>> /\ rdr.pc = "start"
  BY DEF ReaderStart
<1>2. par.pc \in ParentPcs \ {"connect", "exit", "stopped"} /\ par \in Parent /\ rdr \in Reader /\ term \in Terminal
  BY <1>1, ReaderIsOn
<1>3. PICK l \in BOOLEAN : l <=> par.late \/ par.pc \in {"kill", "tstp"}
  BY <1>2 DEF Parent
<1>4. par' = [par EXCEPT !.late = l]
  BY <1>2, <1>3, RawIsLate DEF ReaderStart
<1>5. rdr' = [rdr EXCEPT !.pc = "read"] /\ term' = Mode1(term)
  BY DEF ReaderStart
<1>6. /\ par' \in Parent /\ rdr' \in Reader /\ term' \in Terminal /\ term'.shown = term.shown
      /\ par'.pc = par.pc /\ par'.late = l /\ par'.bol = par.bol /\ par'.local = par.local
      /\ rdr'.buf = rdr.buf /\ rdr'.pc = "read"
  BY <1>2, <1>3, <1>4, <1>5 DEF Parent, Reader, ReaderPcs, Terminal, Mode1
<1>7. ParentInv'
  <2>1. par.pc \in {"kill", "tstp"} => l
    BY <1>3
  <2>2. ~(par.bol /\ par.local)
    BY DEF RlInv, ParentInv
  <2>3. par.pc \in {"tstp", "stopped", "kill", "exit"} => par'.late
    BY <1>2, <1>6, <2>1
  <2>4. QED
    BY <1>2, <1>6, <2>2, <2>3 DEF ParentInv
<1>8. rdr.buf = <<>>
  BY <1>1 DEF RlInv, OutputInv
<1>9. UNCHANGED <<rld, shl, inflight>>
  BY <1>1 DEF ReaderOnly
<1>10. OutputInv'
  BY <1>1, <1>6, <1>8, <1>9, OutputKept DEF RlInv
<1>11. QED
  BY <1>1, <1>6, <1>7, <1>10, Accounted, ReaderFrame

LEMMA ReaderReadStep ==
    ASSUME RlInv, ReaderRead
    PROVE  RlInv'
<1>1. ReaderRuns /\ ReaderOnly /\ UNCHANGED <<term, fate>> /\ rdr.pc = "read"
  BY DEF ReaderRead
<1>2. /\ par.pc \in ParentPcs \ {"connect", "exit", "stopped"} /\ par \in Parent /\ rdr \in Reader
      /\ term \in Terminal
  BY <1>1, ReaderIsOn
<1>3. rdr.buf = <<>> /\ UNCHANGED <<rld, shl, inflight>> /\ Fated' = Fated
  BY <1>1 DEF RlInv, OutputInv, ReaderOnly, Fated
<1>4. CASE ReaderExit /\ UNCHANGED arrived
  <2>0. PICK g \in BOOLEAN : g = par.sigchld
    BY <1>2 DEF Parent
  <2>1. PICK m \in BOOLEAN : m = ~g
    BY Zenon
  <2>2. par' = [par EXCEPT !.chld = par.sigchld, !.missed = m] /\ rdr' = [rdr EXCEPT !.pc = "exit"]
    BY <1>4, <2>0, <2>1, Zenon DEF ReaderExit
  <2>3. /\ par' \in Parent /\ par'.pc = par.pc /\ par'.late = par.late /\ par'.bol = par.bol /\ par'.local = par.local
        /\ rdr' \in Reader /\ rdr'.pc = "exit" /\ rdr'.buf = rdr.buf
    <3>1. par.sigchld \in BOOLEAN
      BY <1>2 DEF Parent
    <3>2. [par EXCEPT !.chld = par.sigchld, !.missed = m] \in Parent
      BY <1>2, <2>1, <3>1 DEF Parent
    <3>3. rdr' \in Reader /\ rdr'.pc = "exit" /\ rdr'.buf = rdr.buf
      BY <1>2, <2>2 DEF Reader, ReaderPcs
    <3>4. QED
      BY <1>2, <2>2, <3>2, <3>3 DEF Parent
  <2>4. ParentInv'
    BY <1>1, <1>2, <2>3 DEF ParentInv, RlInv
  <2>5. OutputInv'
    BY <1>1, <1>3, <1>4, <2>3, OutputKept DEF RlInv
  <2>6. QED
    BY <1>1, <1>2, <1>4, <2>3, <2>4, <2>5, Accounted, ReaderFrame
<1>5. CASE arrived # <<>> /\ Before = 0 /\ arrived' = Tail(arrived) /\ UNCHANGED <<rdr, par>>
  <2>1. ~IsData(Head(arrived))
    BY <1>5, Accounted, BeforeIs
  <2>2. arrived' \in Seq(Items) /\ Ns(arrived') = Ns(arrived) /\ Ordered(arrived')
    BY <1>5, <2>1, Accounted, HeadSkipped
  <2>3. Account(term.shown, rdr.buf, arrived', inflight, rld.pbuf, shl.q, Fated, shl.n)
    BY <2>2, Accounted, SameUnits
  <2>4. OutputInv'
    BY <1>1, <1>3, <1>5, <2>3 DEF RlInv, OutputInv
  <2>5. ParentInv'
    BY <1>1, <1>5 DEF RlInv, ParentInv
  <2>6. QED
    BY <1>1, <1>2, <1>5, <2>2, <2>4, <2>5, Accounted, ReaderFrame
<1>6. CASE /\ Before > 0
           /\ rdr' = [rdr EXCEPT !.pc = "filled", !.buf = SubSeq(arrived, 1, Before)]
           /\ arrived' = SubSeq(arrived, Before + 1, Len(arrived)) /\ UNCHANGED par
  <2>1. PICK i \in 0 .. Len(arrived) : i = Before
    BY Accounted, BeforeIs
  <2>2. Account(term.shown, SubSeq(arrived, 1, i), SubSeq(arrived, i + 1, Len(arrived)), inflight, rld.pbuf, shl.q, Fated, shl.n)
    BY <1>3, Accounted, Take
  <2>3. SubSeq(arrived, 1, i) \in Seq(Outputs)
    <3>1. \A j \in 1 .. i : arrived[j] \in Outputs
      <4>1. \A j \in 1 .. i : j \in 1 .. Len(arrived) /\ IsData(arrived[j])
        BY <2>1, Accounted, BeforeIs
      <4>2. arrived \in Seq(Items)
        BY Accounted
      <4>3. QED
        BY <4>1, <4>2 DEF Outputs
    <3>2. i \in Int /\ 1 \in Int
      BY Accounted
    <3>3. QED
      BY <3>1, <3>2, SubSeqProperties
  <2>4. arrived' \in Seq(Items)
    BY <1>6, <2>1, Accounted, CutAfter
  <2>5. rdr' \in Reader /\ rdr'.buf = SubSeq(arrived, 1, i) /\ rdr'.pc = "filled"
    BY <1>2, <1>6, <2>1, <2>3 DEF Reader, ReaderPcs
  <2>6. OutputInv'
    BY <1>1, <1>3, <1>6, <2>1, <2>2, <2>5 DEF OutputInv
  <2>7. ParentInv'
    BY <1>1, <1>2, <1>6, <2>5 DEF RlInv, ParentInv
  <2>8. arrived # <<>>
    BY <1>6, <2>1
  <2>9. QED
    BY <1>1, <1>2, <1>6, <2>4, <2>5, <2>6, <2>7, <2>8, Accounted, ReaderFrame
<1>7. QED
  BY <1>4, <1>5, <1>6, Zenon DEF ReaderRead

LEMMA ReaderWriteStep ==
    ASSUME RlInv, ReaderWrite \/ ReaderAssign
    PROVE  RlInv'
<1>1. ReaderRuns /\ ReaderOnly /\ UNCHANGED <<par, arrived, fate>> /\ rdr.pc \in {"filled", "write"}
  BY DEF ReaderWrite, ReaderAssign
<1>2. /\ par.pc \in ParentPcs \ {"connect", "exit", "stopped"} /\ par \in Parent /\ rdr \in Reader
      /\ term \in Terminal
  BY <1>1, ReaderIsOn
<1>3. UNCHANGED <<rld, shl, inflight>> /\ Fated' = Fated
  BY <1>1 DEF RlInv, OutputInv, ReaderOnly, Fated
<1>4. ASSUME term' = term, rdr' = [rdr EXCEPT !.pc = "write"] \/ (rdr.buf = <<>> /\ rdr' = [rdr EXCEPT !.pc = "read"])
      PROVE  RlInv'
  <2>1. rdr' \in Reader /\ rdr'.buf = rdr.buf /\ (rdr'.pc = "write" \/ (rdr'.pc = "read" /\ rdr'.buf = <<>>))
    BY <1>2, <1>4, SMT DEF Reader, ReaderPcs
  <2>2. ParentInv'
    BY <1>1, <1>2, <1>4, <2>1 DEF ParentInv, RlInv
  <2>3. OutputInv'
    BY <1>1, <1>3, <1>4, <2>1, OutputKept DEF RlInv
  <2>4. QED
    BY <1>1, <1>2, <1>4, <2>1, <2>2, <2>3, Accounted, ReaderFrame
<1>5. CASE /\ rdr.buf # <<>> /\ rdr' = [rdr EXCEPT !.buf = Tail(@)] /\ rdr.pc = "write"
           /\ term' = [term EXCEPT !.shown = Append(@, Head(rdr.buf).n)]
  <2>1. /\ Account(Append(term.shown, Head(rdr.buf).n), Tail(rdr.buf), arrived, inflight, rld.pbuf, shl.q, Fated, shl.n)
        /\ Append(term.shown, Head(rdr.buf).n) \in Seq(Nat) /\ Tail(rdr.buf) \in Seq(Outputs)
    BY <1>5, Accounted, Show
  <2>2. /\ rdr' \in Reader /\ rdr'.buf = Tail(rdr.buf) /\ rdr'.pc = "write"
        /\ term' \in Terminal /\ term'.shown = Append(term.shown, Head(rdr.buf).n) /\ term'.raw = term.raw
    BY <1>2, <1>5, <2>1 DEF Reader, Terminal
  <2>3. ParentInv'
    BY <1>1, <1>2, <2>2 DEF ParentInv, RlInv
  <2>4. OutputInv'
    BY <1>1, <1>3, <2>1, <2>2 DEF OutputInv
  <2>5. QED
    BY <1>1, <1>2, <2>2, <2>3, <2>4, Accounted, ReaderFrame
<1>6. CASE ReaderAssign
  <2>1. term' = term /\ rdr' = [rdr EXCEPT !.pc = "write"]
    BY <1>6 DEF ReaderAssign
  <2>2. QED
    BY <1>4, <2>1
<1>7. CASE ReaderWrite
  <2>1. CASE rdr.buf = <<>>
    BY <1>4, <1>7, <2>1 DEF ReaderWrite
  <2>2. CASE rdr.buf # <<>>
    BY <1>5, <1>7, <2>2 DEF ReaderWrite
  <2>3. QED
    BY <2>1, <2>2
<1>8. QED
  BY <1>6, <1>7

LEMMA OobSteps ==
    ASSUME RlInv, Oob \/ OobAgain
    PROVE  RlInv'
<1>1. ReaderRuns /\ ReaderOnly /\ UNCHANGED <<par, term, arrived, fate>>
  BY DEF Oob, OobAgain
<1>2. /\ par.pc \in ParentPcs \ {"connect", "exit", "stopped"} /\ par \in Parent /\ rdr \in Reader
      /\ term \in Terminal
  BY <1>1, ReaderIsOn
<1>3. UNCHANGED <<rld, shl, inflight>> /\ rld.urgent \in Nat
  BY <1>1 DEF RlInv, Types, Rlogind, ReaderOnly
<1>4. CASE Oob
  <2>1. /\ rdr.pc \in {"read", "filled", "write"}
        /\ rdr' = [rdr EXCEPT !.back = rdr.pc, !.pc = "oob", !.heard = rld.urgent, !.rcvd = FALSE]
    BY <1>4 DEF Oob
  <2>2. rdr' \in Reader /\ rdr'.buf = rdr.buf /\ rdr'.pc = "oob" /\ rdr'.back = rdr.pc
    BY <1>2, <1>3, <2>1 DEF Reader, ReaderPcs
  <2>3. rdr'.back = "read" => rdr'.buf = <<>>
    BY <2>2 DEF RlInv, OutputInv
  <2>4. OutputInv'
    BY <1>1, <1>3, <2>2, <2>3, OutputKept DEF RlInv
  <2>5. ParentInv'
    BY <1>1, <1>2 DEF ParentInv, RlInv
  <2>6. QED
    BY <1>1, <1>2, <2>2, <2>4, <2>5, Accounted, ReaderFrame
<1>5. CASE OobAgain
  <2>1. rdr.pc = "oob" /\ rdr' = [rdr EXCEPT !.pc = rdr.back]
    BY <1>5 DEF OobAgain
  <2>2. rdr' \in Reader /\ rdr'.buf = rdr.buf /\ rdr'.pc = rdr.back /\ rdr.back \in {"read", "filled", "write"}
    BY <1>2, <2>1 DEF Reader, ReaderPcs
  <2>3. rdr'.pc = "read" => rdr'.buf = <<>>
    BY <2>1, <2>2 DEF RlInv, OutputInv
  <2>4. OutputInv'
    BY <1>1, <1>3, <2>2, <2>3, OutputKept DEF RlInv
  <2>5. ParentInv'
    BY <1>1, <1>2 DEF ParentInv, RlInv
  <2>6. QED
    BY <1>1, <1>2, <2>2, <2>4, <2>5, Accounted, ReaderFrame
<1>6. QED
  BY <1>4, <1>5

LEMMA OobWaitStep ==
    ASSUME RlInv, OobWait
    PROVE  RlInv'
<1>1. ReaderRuns /\ ReaderOnly /\ UNCHANGED <<par, term>> /\ rdr.pc = "oob"
  BY DEF OobWait
<1>2. /\ par.pc \in ParentPcs \ {"connect", "exit", "stopped"} /\ par \in Parent /\ rdr \in Reader
      /\ term \in Terminal
  BY <1>1, ReaderIsOn
<1>3. UNCHANGED <<rld, shl, inflight>>
  BY <1>1 DEF ReaderOnly
<1>4. ParentInv'
  BY <1>1, <1>2 DEF ParentInv, RlInv
<1>5. CASE arrived # <<>> /\ Before = 0 /\ arrived' = Tail(arrived) /\ UNCHANGED <<fate, rdr>>
  <2>1. ~IsData(Head(arrived))
    BY <1>5, Accounted, BeforeIs
  <2>2. arrived' \in Seq(Items) /\ Ns(arrived') = Ns(arrived) /\ Ordered(arrived')
    BY <1>5, <2>1, Accounted, HeadSkipped
  <2>3. Account(term.shown, rdr.buf, arrived', inflight, rld.pbuf, shl.q, Fated, shl.n) /\ Fated' = Fated
    BY <1>5, <2>2, Accounted, SameUnits DEF Fated
  <2>4. OutputInv'
    BY <1>1, <1>3, <1>5, <2>3 DEF RlInv, OutputInv
  <2>5. QED
    BY <1>1, <1>2, <1>4, <1>5, <2>2, <2>4, Accounted, ReaderFrame
<1>6. CASE /\ Before > 0 /\ arrived' = SubSeq(arrived, Before + 1, Len(arrived))
           /\ Lose(Ns(SubSeq(arrived, 1, Before)), "swallowed") /\ rdr' = [rdr EXCEPT !.rcvd = TRUE]
  <2>1. PICK i \in 0 .. Len(arrived) : i = Before
    BY Accounted, BeforeIs
  <2>2. PICK D : D = Ns(SubSeq(arrived, 1, i))
    OBVIOUS
  <2>3. Cuts(arrived, D, arrived') /\ arrived' \in Seq(Items)
    BY <1>6, <2>1, <2>2, Accounted, CutAfter
  <2>4. Cuts(rdr.buf, {}, rdr.buf) /\ Cuts(rld.pbuf, {}, rld.pbuf) /\ Cuts(shl.q, {}, shl.q)
    BY Accounted, KeptWhole
  <2>5. /\ Account(term.shown, rdr.buf, arrived', inflight, rld.pbuf, shl.q, Fated \cup D, shl.n)
        /\ D \subseteq 1 .. shl.n
    <3>1. {} \cup D \cup {} \cup {} = D
      OBVIOUS
    <3>2. Dropped(rdr.buf, arrived, rld.pbuf, shl.q, rdr.buf, arrived', rld.pbuf, shl.q, D)
      BY <2>3, <2>4, <3>1, Zenon DEF Dropped
    <3>3. /\ Streams(term.shown, rdr.buf, arrived, inflight, rld.pbuf, shl.q, shl.n)
          /\ Account(term.shown, rdr.buf, arrived, inflight, rld.pbuf, shl.q, Fated, shl.n)
      BY Accounted, Zenon
    <3>4. QED
      BY <3>2, <3>3, Forget, Zenon
  <2>6. Lose(D, "swallowed")
    BY <1>6, <2>1, <2>2
  <2>7. fate' \in [1 .. MaxUnits -> {"none", "flushed", "swallowed", "cleanup"}] /\ Fated' = Fated \cup D
    BY <2>5, <2>6, LostIsFated
  <2>8. /\ rdr' \in Reader /\ rdr'.buf = rdr.buf /\ rdr'.pc = rdr.pc /\ rdr'.back = rdr.back
    BY <1>2, <1>6 DEF Reader
  <2>9. OutputInv'
    BY <1>1, <1>3, <2>5, <2>7, <2>8 DEF RlInv, OutputInv
  <2>10. arrived # <<>>
    BY <1>6, <2>1
  <2>11. QED
    BY <1>1, <1>2, <1>4, <2>3, <2>7, <2>8, <2>9, <2>10, ReaderFrame
<1>7. QED
  BY <1>5, <1>6 DEF OobWait

\* The child takes the mark and reads the modes of the terminal.
LEMMA OobMarkStep ==
    ASSUME RlInv, OobMark
    PROVE  RlInv'
<1>1. ReaderRuns /\ ReaderOnly /\ rdr.pc = "oob" /\ UNCHANGED <<term, arrived, fate>>
  BY DEF OobMark
<1>2. /\ par.pc \in ParentPcs \ {"connect", "exit", "stopped"} /\ par \in Parent /\ rdr \in Reader
      /\ term \in Terminal
  BY <1>1, ReaderIsOn
<1>3. UNCHANGED <<rld, shl, inflight>> /\ rld.last \in Items
  BY <1>1 DEF ReaderOnly, RlInv, Types, Rlogind
<1>4. PICK n \in Nat, b \in SUBSET (Controls \cup {"window"}), w \in BOOLEAN :
        n = rld.last.n /\ b = rld.last.bits /\ w = term.raw
  BY <1>2, <1>3 DEF Items, Terminal
<1>5. rdr' = [rdr EXCEPT !.pc = "modes", !.taken = n, !.bits = b, !.raw = w]
  BY <1>4 DEF OobMark
<1>6. rdr' \in Reader /\ rdr'.buf = rdr.buf /\ rdr'.pc = "modes" /\ rdr'.back = rdr.back
  BY <1>2, <1>5 DEF Reader, ReaderPcs
<1>7. /\ par' \in Parent /\ par'.pc = par.pc /\ par'.late = par.late /\ par'.bol = par.bol /\ par'.local = par.local
  BY <1>2 DEF OobMark, Parent
<1>8. ParentInv'
  BY <1>1, <1>2, <1>6, <1>7 DEF ParentInv, RlInv
<1>9. rdr'.back = "read" => rdr'.buf = <<>>
  BY <1>1, <1>6 DEF RlInv, OutputInv
<1>10. OutputInv'
  BY <1>1, <1>3, <1>6, <1>9, OutputKept DEF RlInv
<1>11. QED
  BY <1>1, <1>2, <1>6, <1>7, <1>8, <1>10, Accounted, ReaderFrame

\* The modes are set to what was read, and the raw mode is accounted for.
LEMMA ModesAreSet ==
    ASSUME RlInv, SetModes, ReaderRuns
    PROVE  /\ par' \in Parent /\ par'.pc = par.pc /\ par'.bol = par.bol /\ par'.local = par.local
           /\ term' \in Terminal /\ term'.shown = term.shown
           /\ par.pc \in {"tstp", "kill"} => ~term'.raw \/ par'.late
<1>1. /\ par.pc \in ParentPcs \ {"connect", "exit", "stopped"} /\ par \in Parent /\ rdr \in Reader
      /\ term \in Terminal
  BY ReaderIsOn
<1>2. par.pc \in {"tstp", "kill"} => ~term.raw \/ par.late
  BY DEF RlInv, ParentInv
<1>3. CASE UNCHANGED <<par, term>>
  BY <1>1, <1>2, <1>3
<1>4. CASE /\ term' = [term EXCEPT !.flow = "nostop" \notin rdr.bits, !.raw = rdr.raw]
           /\ par' = RawSet(rdr.raw)
  <2>1. PICK w \in BOOLEAN, f \in BOOLEAN : w = rdr.raw /\ f = ("nostop" \notin rdr.bits)
    BY <1>1 DEF Reader
  <2>2. PICK l \in BOOLEAN : l <=> par.late \/ (w /\ par.pc \in {"kill", "tstp"})
    BY <1>1 DEF Parent
  <2>3. par' = [par EXCEPT !.late = l]
    BY <1>1, <1>4, <2>1, <2>2, RawIsLate
  <2>4. term' = [term EXCEPT !.flow = f, !.raw = w]
    BY <1>4, <2>1
  <2>5. /\ par' \in Parent /\ par'.pc = par.pc /\ par'.bol = par.bol /\ par'.local = par.local /\ par'.late = l
    BY <1>1, <2>3 DEF Parent
  <2>6. term' \in Terminal /\ term'.shown = term.shown /\ term'.raw = w
    BY <1>1, <2>4 DEF Terminal
  <2>7. QED
    BY <2>2, <2>5, <2>6
<1>5. QED
  BY <1>3, <1>4 DEF SetModes

LEMMA OobBitsStep ==
    ASSUME RlInv, OobBits
    PROVE  RlInv'
<1>1. ReaderRuns /\ ReaderOnly /\ rdr.pc = "modes" /\ SetModes
  BY DEF OobBits
<1>2. /\ par.pc \in ParentPcs \ {"connect", "exit", "stopped"} /\ par \in Parent /\ rdr \in Reader
      /\ term \in Terminal
  BY <1>1, ReaderIsOn
<1>3. UNCHANGED <<rld, shl, inflight>>
  BY <1>1 DEF ReaderOnly
<1>5. /\ par' \in Parent /\ par'.pc = par.pc /\ par'.bol = par.bol /\ par'.local = par.local
      /\ term' \in Terminal /\ term'.shown = term.shown
      /\ par.pc \in {"tstp", "kill"} => ~term'.raw \/ par'.late
  BY <1>1, ModesAreSet
<1>7. rdr' \in Reader /\ rdr'.pc # "none" => ParentInv'
  BY <1>1, <1>2, <1>5 DEF ParentInv, RlInv
<1>8. CASE \E at \in 1 .. Len(arrived) :
             /\ arrived[at].k = "mark" /\ arrived' = SubSeq(arrived, at, Len(arrived)) /\ rdr' = Flushed(rdr)
             /\ Lose(Ns(SubSeq(arrived, 1, at)) \cup Ns(rdr.buf), "flushed")
  <2>a. PICK at \in 1 .. Len(arrived) :
          /\ ~IsData(arrived[at]) /\ arrived' = SubSeq(arrived, at, Len(arrived)) /\ rdr' = Flushed(rdr)
          /\ Lose(Ns(SubSeq(arrived, 1, at)) \cup Ns(rdr.buf), "flushed")
    BY <1>8 DEF IsData
  <2>b. arrived # <<>>
    BY <2>a
  <2>1. PICK A : A = Ns(SubSeq(arrived, 1, at))
    OBVIOUS
  <2>2. PICK D : D = A \cup Ns(rdr.buf)
    OBVIOUS
  <2>3. Cuts(arrived, A, arrived') /\ arrived' \in Seq(Items)
    BY <2>a, <2>1, Accounted, CutAt
  <2>4. /\ rdr' \in Reader /\ rdr'.pc = "read" /\ rdr'.buf = <<>>
    <3>1. rdr' = [rdr EXCEPT !.pc = "read", !.buf = <<>>]
      BY <2>a DEF Flushed
    <3>2. QED
      BY <1>2, <3>1, EmptySeq DEF Reader, ReaderPcs
  <2>5. Cuts(rdr.buf, Ns(rdr.buf), rdr'.buf) /\ Cuts(rld.pbuf, {}, rld.pbuf) /\ Cuts(shl.q, {}, shl.q)
    BY <2>4, Accounted, KeptWhole, CutWhole
  <2>6. Dropped(rdr.buf, arrived, rld.pbuf, shl.q, rdr'.buf, arrived', rld.pbuf, shl.q, D)
    <3>1. Ns(rdr.buf) \cup A \cup {} \cup {} = D
      BY <2>2
    <3>2. QED
      BY <2>3, <2>5, <3>1, Zenon DEF Dropped
  <2>7. /\ Streams(term.shown, rdr.buf, arrived, inflight, rld.pbuf, shl.q, shl.n)
        /\ Account(term.shown, rdr.buf, arrived, inflight, rld.pbuf, shl.q, Fated, shl.n)
    BY Accounted, Zenon
  <2>8. /\ Account(term.shown, rdr'.buf, arrived', inflight, rld.pbuf, shl.q, Fated \cup D, shl.n)
        /\ D \subseteq 1 .. shl.n
    BY <2>6, <2>7, Forget, Zenon
  <2>9. Lose(D, "flushed")
    BY <2>a, <2>1, <2>2
  <2>10. fate' \in [1 .. MaxUnits -> {"none", "flushed", "swallowed", "cleanup"}] /\ Fated' = Fated \cup D
    BY <2>8, <2>9, LostIsFated
  <2>11. OutputInv'
    BY <1>3, <1>5, <2>4, <2>8, <2>10 DEF OutputInv
  <2>12. QED
    BY <1>1, <1>5, <1>7, <2>b, <2>3, <2>4, <2>10, <2>11, ReaderFrame
<1>9. CASE arrived' = arrived /\ rdr' = Flushed(rdr) /\ Lose(Ns(rdr.buf), "swallowed")
  <2>1. PICK D : D = Ns(rdr.buf)
    OBVIOUS
  <2>2. /\ rdr' \in Reader /\ rdr'.pc = "read" /\ rdr'.buf = <<>>
    <3>1. rdr' = [rdr EXCEPT !.pc = "read", !.buf = <<>>]
      BY <1>9 DEF Flushed
    <3>2. QED
      BY <1>2, <3>1, EmptySeq DEF Reader, ReaderPcs
  <2>3. /\ Cuts(rdr.buf, D, rdr'.buf) /\ Cuts(arrived, {}, arrived') /\ Cuts(rld.pbuf, {}, rld.pbuf)
        /\ Cuts(shl.q, {}, shl.q)
    BY <1>9, <2>1, <2>2, Accounted, KeptWhole, CutWhole
  <2>4. Dropped(rdr.buf, arrived, rld.pbuf, shl.q, rdr'.buf, arrived', rld.pbuf, shl.q, D)
    <3>1. D \cup {} \cup {} \cup {} = D
      OBVIOUS
    <3>2. QED
      BY <2>3, <3>1, Zenon DEF Dropped
  <2>5. /\ Streams(term.shown, rdr.buf, arrived, inflight, rld.pbuf, shl.q, shl.n)
        /\ Account(term.shown, rdr.buf, arrived, inflight, rld.pbuf, shl.q, Fated, shl.n)
    BY Accounted, Zenon
  <2>6. /\ Account(term.shown, rdr'.buf, arrived', inflight, rld.pbuf, shl.q, Fated \cup D, shl.n)
        /\ D \subseteq 1 .. shl.n
    BY <2>4, <2>5, Forget, Zenon
  <2>7. Lose(D, "swallowed")
    BY <1>9, <2>1
  <2>8. fate' \in [1 .. MaxUnits -> {"none", "flushed", "swallowed", "cleanup"}] /\ Fated' = Fated \cup D
    BY <2>6, <2>7, LostIsFated
  <2>9. OutputInv'
    BY <1>3, <1>5, <2>2, <2>6, <2>8 DEF OutputInv
  <2>10. QED
    BY <1>1, <1>5, <1>7, <1>9, <2>2, <2>8, <2>9, Accounted, ReaderFrame
<1>10. CASE UNCHANGED <<arrived, fate>> /\ rdr' = [rdr EXCEPT !.pc = rdr.back]
  <2>1. rdr' \in Reader /\ rdr'.buf = rdr.buf /\ rdr'.pc = rdr.back /\ rdr.back \in {"read", "filled", "write"}
    BY <1>2, <1>10 DEF Reader, ReaderPcs
  <2>2. rdr'.pc = "read" => rdr'.buf = <<>>
    BY <1>1, <2>1 DEF RlInv, OutputInv
  <2>3. OutputInv'
    BY <1>3, <1>5, <1>10, <2>1, <2>2, OutputKept DEF RlInv
  <2>4. QED
    BY <1>1, <1>5, <1>7, <1>10, <2>1, <2>3, Accounted, ReaderFrame
<1>12. QED
  BY <1>8, <1>9, <1>10 DEF OobBits

-----------------------------------------------------------------------------
(* rlogind and the programs behind the terminal.                             *)

LEMMA DaemonFrame ==
    ASSUME RlInv, DaemonOnly, rlup' \in Seq(Inputs), inflight' \in Seq(Items), rld' \in Rlogind, shl' \in Shell,
           fate' \in [1 .. MaxUnits -> {"none", "flushed", "swallowed", "cleanup"}], MarkInv',
           Account(term.shown, rdr.buf, arrived, inflight', rld'.pbuf, shl'.q, Fated', shl'.n)
    PROVE  RlInv'
<1>1. UNCHANGED <<rlopt, par, rdr, term, arrived, dmn>>
  BY DEF DaemonOnly
<1>2. Types' /\ ParentInv' /\ CountInv'
  BY <1>1 DEF RlInv, Types, ParentInv, CountInv
<1>3. OutputInv'
  BY <1>1 DEF RlInv, OutputInv
<1>4. QED
  BY <1>2, <1>3 DEF RlInv

LEMMA DaemonTyped ==
    ASSUME RlInv
    PROVE  /\ rld \in Rlogind /\ shl \in Shell /\ rlup \in Seq(Inputs) /\ MarkInv
           /\ rld.urgent \in Nat /\ shl.controls \in 0 .. MaxControls /\ MaxControls \in Nat
           /\ shl.n \in 0 .. MaxUnits /\ MaxUnits \in Nat /\ shl.in \in Nat
           /\ shl.cntl \in SUBSET Controls
  BY RlAssumption DEF RlInv, Types, Rlogind, Shell

LEMMA VerdictsAre ==
    /\ Verdict1("nul") \in Items /\ Verdict1("soh") \in Items /\ Mark(1, {"window"}) \in Items
    /\ ~IsData(Verdict1("nul")) /\ ~IsData(Verdict1("soh")) /\ ~IsData(Mark(1, {"window"}))
  BY DEF Verdict1, Mark, Items, IsData, Controls

LEMMA NoUnits ==
    ASSUME NEW s \in Seq(Items), \A i \in 1 .. Len(s) : ~IsData(s[i])
    PROVE  Ns(s) = {} /\ Ordered(s)
  BY NsOf DEF Ordered

LEMMA RlogindAuthStep ==
    ASSUME RlInv, RlogindAuth
    PROVE  RlInv'
<1>1. DaemonOnly /\ UNCHANGED <<rlup, fate>> /\ rld.pc = "auth" /\ Fated' = Fated
  BY DEF RlogindAuth, Fated
<1>2. inflight = <<>> /\ rld.urgent = 0 /\ shl.cntl = {}
  BY <1>1, DaemonTyped DEF MarkInv
<1>a. rlopt.bad \in {"noname", "port", "mismatch", "unknown", "root", "ptys", "none"}
  BY RlAssumption DEF RlInv, Types
<1>b. /\ \/ inflight' = <<>> \/ inflight' = <<Verdict1("soh")>> \/ inflight' = <<Verdict1("nul")>> \o <<>>
         \/ inflight' = <<Verdict1("nul"), Mark(1, {"window"})>>
      /\ \/ rld' = [rld EXCEPT !.pc = "exit"] /\ shl' = shl
         \/ rld' = Urgent([rld EXCEPT !.pc = "loop"], {"window"}) /\ shl' = [shl EXCEPT !.pc = "shell"]
  <2>1. CASE rlopt.bad = "noname"
    <3>1. rlopt.bad # "none" /\ rlopt.bad # "ptys" /\ ~(HostRefused \/ ~do_rlogin)
      BY <2>1 DEF HostRefused, do_rlogin
    <3>2. inflight' = <<>> /\ rld' = [rld EXCEPT !.pc = "exit"] /\ UNCHANGED shl
      BY <2>1, <3>1 DEF RlogindAuth
    <3>3. QED
      BY <3>2
  <2>2. CASE rlopt.bad \in {"port", "mismatch", "unknown", "root"}
    <3>1. HostRefused \/ ~do_rlogin
      BY <2>2 DEF HostRefused, do_rlogin
    <3>2. rlopt.bad # "noname" /\ rlopt.bad # "ptys" /\ rlopt.bad # "none"
      BY <2>2
    <3>3. inflight' = fatal(FALSE) /\ rld' = [rld EXCEPT !.pc = "exit"] /\ UNCHANGED shl
      BY <3>1, <3>2 DEF RlogindAuth
    <3>4. QED
      BY <3>3 DEF fatal
  <2>3. CASE rlopt.bad = "ptys"
    BY <2>3 DEF RlogindAuth, fatal, HostRefused, do_rlogin
  <2>4. CASE rlopt.bad = "none"
    <3>1. /\ rlopt.bad # "noname" /\ rlopt.bad # "ptys" /\ ~(HostRefused \/ ~do_rlogin)
      BY <2>4 DEF HostRefused, do_rlogin
    <3>2. /\ inflight' = <<Verdict1("nul"), Mark(1, {"window"})>>
          /\ rld' = Urgent([rld EXCEPT !.pc = "loop"], {"window"}) /\ shl' = [shl EXCEPT !.pc = "shell"]
      BY <2>4, <3>1 DEF RlogindAuth
    <3>3. QED
      BY <3>2
  <2>5. QED
    BY <1>a, <2>1, <2>2, <2>3, <2>4
<1>3. \/ inflight' = <<>> \/ inflight' = <<Verdict1("soh")>> \/ inflight' = <<Verdict1("nul")>>
      \/ inflight' = <<Verdict1("nul"), Mark(1, {"window"})>>
  <2>1. <<Verdict1("nul")>> \o <<>> = <<Verdict1("nul")>>
    BY VerdictsAre
  <2>2. QED
    BY <1>b, <2>1
<1>4. inflight' \in Seq(Items) /\ \A i \in 1 .. Len(inflight') : ~IsData(inflight'[i])
  <2>1. PICK x \in Items : x = Verdict1("nul")
    BY VerdictsAre
  <2>2. PICK y \in Items : y = Verdict1("soh")
    BY VerdictsAre
  <2>3. PICK z \in Items : z = Mark(1, {"window"})
    BY VerdictsAre
  <2>4. ~IsData(x) /\ ~IsData(y) /\ ~IsData(z)
    BY <2>1, <2>2, <2>3, VerdictsAre
  <2>5. inflight' = <<>> \/ inflight' = <<y>> \/ inflight' = <<x>> \/ inflight' = <<x, z>>
    BY <1>3, <2>1, <2>2, <2>3
  <2>6. \A s \in {<<>>, <<y>>, <<x>>, <<x, z>>} : s \in Seq(Items) /\ \A i \in 1 .. Len(s) : ~IsData(s[i])
    <3>1. \A s \in {<<y>>, <<x>>} : s \in Seq(Items) /\ \A i \in 1 .. Len(s) : ~IsData(s[i])
      BY <2>4
    <3>2. <<x, z>> \in Seq(Items) /\ \A i \in 1 .. Len(<<x, z>>) : ~IsData(<<x, z>>[i])
      <4>1. \A i \in 1 .. Len(<<x, z>>) : i = 1 \/ i = 2
        OBVIOUS
      <4>2. QED
        BY <2>4, <4>1
    <3>3. <<>> \in Seq(Items) /\ \A i \in 1 .. Len(<<>>) : ~IsData(<<>>[i])
      OBVIOUS
    <3> DEFINE Fit(s) == s \in Seq(Items) /\ \A i \in 1 .. Len(s) : ~IsData(s[i])
    <3>4. Fit(<<>>) /\ Fit(<<y>>) /\ Fit(<<x>>) /\ Fit(<<x, z>>)
      BY <3>1, <3>2, <3>3, Zenon
    <3> HIDE DEF Fit
    <3>5. \A s \in {<<>>, <<y>>, <<x>>, <<x, z>>} : Fit(s)
      BY <3>4, Zenon
    <3>6. QED
      BY <3>5, Zenon DEF Fit
  <2>7. QED
    BY <2>5, <2>6
<1>5. Ns(inflight') = {} /\ Ordered(inflight') /\ Ns(inflight) = {}
  BY <1>2, <1>4, NoUnits, OutputsAreItems
<1>6. /\ rld' \in Rlogind /\ rld'.pbuf = rld.pbuf /\ rld'.urgent \in {0, 1} /\ rld'.pc # "auth"
      /\ shl' \in Shell /\ shl'.q = shl.q /\ shl'.n = shl.n /\ shl'.cntl = shl.cntl /\ shl'.controls = shl.controls
  <2>2. CASE rld' = [rld EXCEPT !.pc = "exit"] /\ shl' = shl
    BY <1>2, <2>2, DaemonTyped DEF Rlogind
  <2>3. CASE rld' = Urgent([rld EXCEPT !.pc = "loop"], {"window"}) /\ shl' = [shl EXCEPT !.pc = "shell"]
    <3>1. shl' \in Shell /\ shl'.q = shl.q /\ shl'.n = shl.n /\ shl'.cntl = shl.cntl /\ shl'.controls = shl.controls
      BY <2>3, DaemonTyped DEF Shell
    <3>2. PICK r : r = [rld EXCEPT !.pc = "loop"]
      OBVIOUS
    <3>3. r \in Rlogind /\ r.urgent = 0 /\ r.pbuf = rld.pbuf /\ r.pc = "loop"
      BY <1>2, <3>2, DaemonTyped DEF Rlogind
    <3>4. rld' = [r EXCEPT !.urgent = 1, !.last = Mark(1, {"window"})]
      <4>1. r.urgent + 1 = 1
        BY <3>3
      <4>2. rld' = [r EXCEPT !.urgent = r.urgent + 1, !.last = Mark(r.urgent + 1, {"window"})]
        BY <2>3, <3>2, Zenon DEF Urgent
      <4>3. QED
        BY <4>1, <4>2, Zenon
    <3>5. QED
      BY <3>1, <3>3, <3>4, VerdictsAre DEF Rlogind
  <2>4. QED
    BY <1>b, <2>2, <2>3
<1>7. MarkInv'
  BY <1>2, <1>6, DaemonTyped DEF MarkInv
<1>8. Account(term.shown, rdr.buf, arrived, inflight', rld'.pbuf, shl'.q, Fated', shl'.n)
  BY <1>1, <1>5, <1>6, Accounted, SameUnits
<1>9. QED
  BY <1>1, <1>4, <1>6, <1>7, <1>8, Accounted, DaemonTyped, DaemonFrame

LEMMA ProtoControlStep ==
    ASSUME RlInv, ProtoControl
    PROVE  RlInv'
<1>1. DaemonOnly /\ UNCHANGED rlup /\ rld.pc = "loop" /\ shl.cntl # {} /\ shl' = [shl EXCEPT !.cntl = {}]
  BY DEF ProtoControl
<1>2. PICK bits : bits = Marked(shl.cntl)
  OBVIOUS
<1>3. bits \in SUBSET (Controls \cup {"window"})
  BY <1>2, DaemonTyped DEF Marked
<1>4. PICK x : x = Mark(rld.urgent + 1, bits)
  OBVIOUS
<1>5. x \in Items /\ ~IsData(x)
  BY <1>3, <1>4, DaemonTyped DEF Mark, Items, IsData
<1>6. /\ inflight' = Append(inflight, x)
      /\ rld' = [Urgent(rld, bits) EXCEPT !.pbuf = IF "flush" \in bits THEN <<>> ELSE @]
      /\ IF "flush" \in bits THEN Lose(Ns(rld.pbuf), "flushed") ELSE UNCHANGED fate
  BY <1>2, <1>4 DEF ProtoControl
<1>7. inflight' \in Seq(Items) /\ Ns(inflight') = Ns(inflight) /\ Ordered(inflight')
  BY <1>5, <1>6, Accounted, MarkAdded
<1>8. /\ rld' \in Rlogind /\ rld'.pc = "loop" /\ rld'.urgent = rld.urgent + 1
      /\ rld'.pbuf = IF "flush" \in bits THEN <<>> ELSE rld.pbuf
  <2>1. PICK r : r = [rld EXCEPT !.urgent = @ + 1, !.last = x]
    OBVIOUS
  <2>2. r \in Rlogind /\ r.pc = "loop" /\ r.urgent = rld.urgent + 1 /\ r.pbuf = rld.pbuf
    <3>1. rld.urgent + 1 \in Nat /\ rld \in Rlogind
      BY DaemonTyped
    <3>2. QED
      BY <1>1, <1>5, <2>1, <3>1 DEF Rlogind
  <2>3. rld' = [r EXCEPT !.pbuf = IF "flush" \in bits THEN <<>> ELSE @]
    BY <1>4, <1>6, <2>1 DEF Urgent
  <2>4. QED
    BY <2>2, <2>3, EmptySeq DEF Rlogind
<1>9. shl' \in Shell /\ shl'.q = shl.q /\ shl'.n = shl.n /\ shl'.cntl = {} /\ shl'.controls = shl.controls
  BY <1>1, DaemonTyped DEF Shell
<1>10. MarkInv'
  BY <1>1, <1>8, <1>9, DaemonTyped DEF MarkInv
<1>11. Account(term.shown, rdr.buf, arrived, inflight', rld.pbuf, shl.q, Fated, shl.n)
  BY <1>7, Accounted, SameUnits
<1>12. CASE "flush" \in bits
  <2>1. PICK D : D = Ns(rld.pbuf)
    OBVIOUS
  <2>2. /\ Cuts(rdr.buf, {}, rdr.buf) /\ Cuts(arrived, {}, arrived) /\ Cuts(rld.pbuf, D, rld'.pbuf)
        /\ Cuts(shl.q, {}, shl.q)
    BY <1>8, <1>12, <2>1, Accounted, KeptWhole, CutWhole
  <2>3. Dropped(rdr.buf, arrived, rld.pbuf, shl.q, rdr.buf, arrived, rld'.pbuf, shl.q, D)
    <3>1. {} \cup {} \cup D \cup {} = D
      OBVIOUS
    <3>2. QED
      BY <2>2, <3>1, Zenon DEF Dropped
  <2>4. Streams(term.shown, rdr.buf, arrived, inflight', rld.pbuf, shl.q, shl.n)
    BY <1>7, Accounted DEF Streams
  <2>5. /\ Account(term.shown, rdr.buf, arrived, inflight', rld'.pbuf, shl.q, Fated \cup D, shl.n)
        /\ D \subseteq 1 .. shl.n
    BY <1>11, <2>3, <2>4, Forget, Zenon
  <2>6. Lose(D, "flushed")
    BY <1>6, <1>12, <2>1
  <2>7. fate' \in [1 .. MaxUnits -> {"none", "flushed", "swallowed", "cleanup"}] /\ Fated' = Fated \cup D
    BY <2>5, <2>6, LostIsFated
  <2>8. QED
    BY <1>1, <1>7, <1>8, <1>9, <1>10, <2>5, <2>7, DaemonTyped, DaemonFrame
<1>13. CASE "flush" \notin bits
  <2>1. fate' = fate /\ Fated' = Fated /\ rld'.pbuf = rld.pbuf
    BY <1>6, <1>8, <1>13 DEF Fated
  <2>2. QED
    BY <1>1, <1>7, <1>8, <1>9, <1>10, <1>11, <2>1, Accounted, DaemonTyped, DaemonFrame
<1>14. QED
  BY <1>12, <1>13

LEMMA ProtoInStep ==
    ASSUME RlInv, ProtoIn \/ SigchldCleanup
    PROVE  RlInv'
<1>1. DaemonOnly /\ UNCHANGED <<inflight, fate>> /\ rld.pc = "loop" /\ Fated' = Fated
  BY DEF ProtoIn, SigchldCleanup, Fated
<1>2. \/ rld' = rld \/ rld' = [rld EXCEPT !.heard = TRUE] \/ rld' = [rld EXCEPT !.garbage = TRUE]
      \/ rld' = [rld EXCEPT !.pc = "cleanup"]
  BY DEF ProtoIn, SigchldCleanup, control
<1>3. rld' \in Rlogind /\ rld'.pbuf = rld.pbuf /\ rld'.urgent = rld.urgent /\ rld'.pc # "auth"
  BY <1>1, <1>2, DaemonTyped DEF Rlogind
<1>4. rlup' \in Seq(Inputs) /\ (rlup # <<>> => Head(rlup).n \in Sizes)
  <2>1. rlup' = rlup \/ (rlup # <<>> /\ rlup' = Tail(rlup))
    BY DEF ProtoIn, SigchldCleanup
  <2>2. rlup # <<>> => Head(rlup) \in Inputs /\ Tail(rlup) \in Seq(Inputs)
    BY DaemonTyped
  <2>3. \A x \in Inputs : x.n \in Sizes
    BY DEF Inputs
  <2>4. QED
    BY <2>1, <2>2, <2>3, DaemonTyped
<1>5. \/ shl' = shl \/ (rlup # <<>> /\ shl' = [shl EXCEPT !.size = Head(rlup).n])
      \/ shl' = [shl EXCEPT !.in = @ + 1]
  BY DEF ProtoIn, SigchldCleanup, control
<1>6. shl' \in Shell /\ shl'.q = shl.q /\ shl'.n = shl.n /\ shl'.cntl = shl.cntl /\ shl'.controls = shl.controls
  <2>1. CASE shl' = shl
    BY <2>1, DaemonTyped
  <2>2. CASE rlup # <<>> /\ shl' = [shl EXCEPT !.size = Head(rlup).n]
    <3>1. PICK w \in Sizes \cup {-1} : w = Head(rlup).n
      BY <1>4, <2>2
    <3>2. QED
      BY <2>2, <3>1, DaemonTyped DEF Shell
  <2>3. CASE shl' = [shl EXCEPT !.in = @ + 1]
    <3>1. shl.in + 1 \in Nat
      BY DaemonTyped
    <3>2. QED
      BY <2>3, <3>1, DaemonTyped DEF Shell
  <2>4. QED
    BY <1>5, <2>1, <2>2, <2>3
<1>7. MarkInv'
  BY <1>3, <1>6, DaemonTyped DEF MarkInv
<1>8. Account(term.shown, rdr.buf, arrived, inflight', rld'.pbuf, shl'.q, Fated', shl'.n)
  BY <1>1, <1>3, <1>6, Accounted
<1>9. QED
  BY <1>1, <1>3, <1>4, <1>6, <1>7, <1>8, Accounted, DaemonFrame

LEMMA ProtoOutStep ==
    ASSUME RlInv, ProtoOut
    PROVE  RlInv'
<1>1. DaemonOnly /\ UNCHANGED <<rlup, fate>> /\ rld.pc = "loop" /\ Fated' = Fated
  BY DEF ProtoOut, Fated
<1>2. shl.q \in Seq(Outputs) /\ rld.pbuf \in Seq(Outputs)
  BY DaemonTyped DEF Shell, Rlogind
<1>3. CASE /\ rld.pbuf = <<>> /\ rld' = [rld EXCEPT !.pbuf = shl.q] /\ shl' = [shl EXCEPT !.q = <<>>]
           /\ UNCHANGED inflight
  <2>1. Account(term.shown, rdr.buf, arrived, inflight, shl.q, <<>>, Fated, shl.n)
    BY <1>3, Accounted, Fetch
  <2>2. rld' \in Rlogind /\ rld'.pbuf = shl.q /\ rld'.urgent = rld.urgent /\ rld'.pc = "loop"
    BY <1>1, <1>2, <1>3, DaemonTyped DEF Rlogind
  <2>3. shl' \in Shell /\ shl'.q = <<>> /\ shl'.n = shl.n /\ shl'.cntl = shl.cntl /\ shl'.controls = shl.controls
    BY <1>3, DaemonTyped, EmptySeq DEF Shell
  <2>4. MarkInv'
    BY <2>2, <2>3, DaemonTyped DEF MarkInv
  <2>5. Account(term.shown, rdr.buf, arrived, inflight', rld'.pbuf, shl'.q, Fated', shl'.n)
    BY <1>1, <1>3, <2>1, <2>2, <2>3
  <2>6. QED
    BY <1>1, <1>3, <2>2, <2>3, <2>4, <2>5, Accounted, DaemonTyped, DaemonFrame
<1>4. ASSUME NEW i \in 1 .. Len(rld.pbuf), inflight' = inflight \o SubSeq(rld.pbuf, 1, i),
             rld' = [rld EXCEPT !.pbuf = SubSeq(@, i + 1, Len(@))], shl' = shl
      PROVE  RlInv'
  <2>1. i \in 0 .. Len(rld.pbuf)
    OBVIOUS
  <2>2. /\ Account(term.shown, rdr.buf, arrived, inflight', SubSeq(rld.pbuf, i + 1, Len(rld.pbuf)), shl.q, Fated, shl.n)
        /\ inflight' \in Seq(Items) /\ SubSeq(rld.pbuf, i + 1, Len(rld.pbuf)) \in Seq(Outputs)
    BY <1>4, <2>1, Accounted, Send
  <2>3. PICK p2 : p2 = SubSeq(rld.pbuf, i + 1, Len(rld.pbuf))
    OBVIOUS
  <2>4. rld' \in Rlogind /\ rld'.pbuf = p2 /\ rld'.urgent = rld.urgent /\ rld'.pc = "loop"
    <3>1. rld' = [rld EXCEPT !.pbuf = p2] /\ p2 \in Seq(Outputs)
      BY <1>4, <2>2, <2>3
    <3>2. QED
      BY <1>1, <3>1, DaemonTyped DEF Rlogind
  <2>5. MarkInv'
    BY <1>4, <2>4, DaemonTyped DEF MarkInv
  <2>6. Account(term.shown, rdr.buf, arrived, inflight', rld'.pbuf, shl'.q, Fated', shl'.n)
    BY <1>1, <1>4, <2>2, <2>3, <2>4
  <2>7. QED
    BY <1>1, <1>4, <2>2, <2>4, <2>5, <2>6, Accounted, DaemonTyped, DaemonFrame
<1>5. CASE rld' = [rld EXCEPT !.pc = "cleanup"] /\ UNCHANGED <<inflight, shl>>
  <2>1. rld' \in Rlogind /\ rld'.pbuf = rld.pbuf /\ rld'.urgent = rld.urgent /\ rld'.pc # "auth"
    BY <1>5, DaemonTyped DEF Rlogind
  <2>2. MarkInv'
    BY <1>5, <2>1, DaemonTyped DEF MarkInv
  <2>3. Account(term.shown, rdr.buf, arrived, inflight', rld'.pbuf, shl'.q, Fated', shl'.n)
    BY <1>1, <1>5, <2>1, Accounted
  <2>4. QED
    BY <1>1, <1>5, <2>1, <2>2, <2>3, Accounted, DaemonTyped, DaemonFrame
<1>6. CASE /\ \E i \in 1 .. Len(rld.pbuf) : /\ inflight' = inflight \o SubSeq(rld.pbuf, 1, i)
                                         /\ rld' = [rld EXCEPT !.pbuf = SubSeq(@, i + 1, Len(@))]
           /\ shl' = shl
  BY <1>4, <1>6, Zenon
<1>7. QED
  BY <1>3, <1>5, <1>6, Zenon DEF ProtoOut

LEMMA CleanupStep ==
    ASSUME RlInv, cleanup
    PROVE  RlInv'
<1>1. /\ DaemonOnly /\ UNCHANGED <<inflight, rlup>> /\ rld.pc = "cleanup"
      /\ rld' = [rld EXCEPT !.pc = "exit", !.pbuf = <<>>] /\ shl' = [shl EXCEPT !.pc = "exit", !.q = <<>>]
  BY DEF cleanup
<1>2. PICK D : D = Ns(rld.pbuf) \cup Ns(shl.q)
  OBVIOUS
<1>3. rld' \in Rlogind /\ rld'.pbuf = <<>> /\ rld'.urgent = rld.urgent /\ rld'.pc = "exit"
  <2>1. PICK r : r = [rld EXCEPT !.pc = "exit"]
    OBVIOUS
  <2>2. r \in Rlogind /\ r.urgent = rld.urgent /\ r.pc = "exit"
    BY <2>1, DaemonTyped DEF Rlogind
  <2>3. rld' = [r EXCEPT !.pbuf = <<>>]
    BY <1>1, <2>1
  <2>4. QED
    BY <2>2, <2>3, EmptySeq DEF Rlogind
<1>4. shl' \in Shell /\ shl'.q = <<>> /\ shl'.n = shl.n /\ shl'.cntl = shl.cntl /\ shl'.controls = shl.controls
  <2>1. PICK r : r = [shl EXCEPT !.pc = "exit"]
    OBVIOUS
  <2>2. r \in Shell /\ r.n = shl.n /\ r.cntl = shl.cntl /\ r.controls = shl.controls
    BY <2>1, DaemonTyped DEF Shell
  <2>3. shl' = [r EXCEPT !.q = <<>>]
    BY <1>1, <2>1
  <2>4. QED
    BY <2>2, <2>3, EmptySeq DEF Shell
<1>5. MarkInv'
  BY <1>3, <1>4, DaemonTyped DEF MarkInv
<1>6. /\ Cuts(rdr.buf, {}, rdr.buf) /\ Cuts(arrived, {}, arrived) /\ Cuts(rld.pbuf, Ns(rld.pbuf), rld'.pbuf)
      /\ Cuts(shl.q, Ns(shl.q), shl'.q)
  BY <1>3, <1>4, Accounted, KeptWhole, CutWhole
<1>7. Dropped(rdr.buf, arrived, rld.pbuf, shl.q, rdr.buf, arrived, rld'.pbuf, shl'.q, D)
  <2>1. {} \cup {} \cup Ns(rld.pbuf) \cup Ns(shl.q) = D
    BY <1>2
  <2>2. QED
    BY <1>6, <2>1, Zenon DEF Dropped
<1>8. /\ Streams(term.shown, rdr.buf, arrived, inflight, rld.pbuf, shl.q, shl.n)
      /\ Account(term.shown, rdr.buf, arrived, inflight, rld.pbuf, shl.q, Fated, shl.n)
  BY Accounted, Zenon
<1>9. /\ Account(term.shown, rdr.buf, arrived, inflight, rld'.pbuf, shl'.q, Fated \cup D, shl.n)
      /\ D \subseteq 1 .. shl.n
  BY <1>7, <1>8, Forget, Zenon
<1>10. Lose(D, "cleanup")
  BY <1>2 DEF cleanup
<1>11. fate' \in [1 .. MaxUnits -> {"none", "flushed", "swallowed", "cleanup"}] /\ Fated' = Fated \cup D
  BY <1>9, <1>10, LostIsFated
<1>12. QED
  BY <1>1, <1>3, <1>4, <1>5, <1>9, <1>11, Accounted, DaemonTyped, DaemonFrame

LEMMA RemoteStep ==
    ASSUME RlInv, Remote
    PROVE  RlInv'
<1>1. DaemonOnly /\ UNCHANGED <<inflight, rlup, rld>> /\ shl.pc = "shell" /\ rld.pc # "auth"
  BY DaemonTyped DEF Remote, MarkInv
<1>2. CASE /\ shl.n < MaxUnits /\ shl' = [shl EXCEPT !.n = @ + 1, !.q = Append(@, Data(shl.n + 1))]
           /\ UNCHANGED fate
  <2>1. /\ Account(term.shown, rdr.buf, arrived, inflight, rld.pbuf, Append(shl.q, Data(shl.n + 1)), Fated, shl.n + 1)
        /\ Append(shl.q, Data(shl.n + 1)) \in Seq(Outputs)
    BY Accounted, Written
  <2>2. shl.n + 1 \in 0 .. MaxUnits
    BY <1>2, DaemonTyped
  <2>3. PICK q : q = Append(shl.q, Data(shl.n + 1))
    OBVIOUS
  <2>4. shl' = [shl EXCEPT !.n = shl.n + 1, !.q = q]
    BY <1>2, <2>3
  <2>5. shl' \in Shell /\ shl'.q = q /\ shl'.n = shl.n + 1 /\ shl'.cntl = shl.cntl /\ shl'.controls = shl.controls
    BY <2>1, <2>2, <2>3, <2>4, DaemonTyped DEF Shell
  <2>6. MarkInv'
    BY <1>1, <2>5, DaemonTyped DEF MarkInv
  <2>7. Fated' = Fated
    BY <1>2 DEF Fated
  <2>8. Account(term.shown, rdr.buf, arrived, inflight', rld'.pbuf, shl'.q, Fated', shl'.n)
    BY <1>1, <2>1, <2>3, <2>5, <2>7
  <2>9. QED
    BY <1>1, <1>2, <2>5, <2>6, <2>8, Accounted, DaemonTyped, DaemonFrame
<1>3. CASE /\ shl.controls < MaxControls
           /\ shl' = [shl EXCEPT !.controls = @ + 1, !.cntl = @ \cup {"flush"}, !.q = <<>>]
           /\ Lose(Ns(shl.q), "flushed")
  <2>1. PICK D : D = Ns(shl.q)
    OBVIOUS
  <2>2. PICK r : r = [shl EXCEPT !.controls = @ + 1, !.cntl = @ \cup {"flush"}]
    OBVIOUS
  <2>3. /\ r \in Shell /\ r.n = shl.n /\ r.controls = shl.controls + 1 /\ r.pc = shl.pc
    <3>1. shl.controls + 1 \in 0 .. MaxControls /\ shl.cntl \cup {"flush"} \in SUBSET Controls
      BY <1>3, DaemonTyped DEF Controls
    <3>2. QED
      BY <2>2, <3>1, DaemonTyped DEF Shell
  <2>4. shl' = [r EXCEPT !.q = <<>>]
    BY <1>3, <2>2
  <2>5. shl' \in Shell /\ shl'.q = <<>> /\ shl'.n = shl.n /\ shl'.controls = shl.controls + 1
    BY <2>3, <2>4, EmptySeq DEF Shell
  <2>6. MarkInv'
    BY <1>1, <2>5, DaemonTyped DEF MarkInv
  <2>7. /\ Cuts(rdr.buf, {}, rdr.buf) /\ Cuts(arrived, {}, arrived) /\ Cuts(rld.pbuf, {}, rld'.pbuf)
        /\ Cuts(shl.q, D, shl'.q)
    BY <1>1, <2>1, <2>5, Accounted, KeptWhole, CutWhole
  <2>8. Dropped(rdr.buf, arrived, rld.pbuf, shl.q, rdr.buf, arrived, rld'.pbuf, shl'.q, D)
    <3>1. {} \cup {} \cup {} \cup D = D
      OBVIOUS
    <3>2. QED
      BY <2>7, <3>1, Zenon DEF Dropped
  <2>9. /\ Streams(term.shown, rdr.buf, arrived, inflight, rld.pbuf, shl.q, shl.n)
        /\ Account(term.shown, rdr.buf, arrived, inflight, rld.pbuf, shl.q, Fated, shl.n)
    BY Accounted, Zenon
  <2>10. /\ Account(term.shown, rdr.buf, arrived, inflight, rld'.pbuf, shl'.q, Fated \cup D, shl.n)
         /\ D \subseteq 1 .. shl.n
    BY <2>8, <2>9, Forget, Zenon
  <2>11. Lose(D, "flushed")
    BY <1>3, <2>1
  <2>12. fate' \in [1 .. MaxUnits -> {"none", "flushed", "swallowed", "cleanup"}] /\ Fated' = Fated \cup D
    BY <2>10, <2>11, LostIsFated
  <2>13. QED
    BY <1>1, <2>5, <2>6, <2>10, <2>12, Accounted, DaemonTyped, DaemonFrame
<1>4. ASSUME NEW c \in SUBSET Controls, shl.controls < MaxControls, NEW g \in BOOLEAN,
             shl' = [shl EXCEPT !.controls = @ + 1, !.cntl = c, !.flow = g], fate' = fate
      PROVE  RlInv'
  <2>1. shl.controls + 1 \in 0 .. MaxControls
    BY <1>4, DaemonTyped
  <2>2. /\ shl' \in Shell /\ shl'.n = shl.n /\ shl'.controls = shl.controls + 1 /\ shl'.pc = shl.pc
        /\ shl'.q = shl.q
    BY <1>4, <2>1, DaemonTyped DEF Shell
  <2>3. MarkInv'
    BY <1>1, <2>2, DaemonTyped DEF MarkInv
  <2>4. Account(term.shown, rdr.buf, arrived, inflight', rld'.pbuf, shl'.q, Fated', shl'.n)
    BY <1>1, <1>4, <2>2, Accounted DEF Fated
  <2>5. QED
    BY <1>1, <1>4, <2>2, <2>3, <2>4, Accounted, DaemonTyped, DaemonFrame
<1>5. CASE /\ shl.controls < MaxControls
           /\ shl' = [shl EXCEPT !.controls = @ + 1,
                                 !.cntl = (@ \ {"nostop", "dostop"}) \cup {IF shl.flow THEN "nostop" ELSE "dostop"},
                                 !.flow = ~@]
           /\ UNCHANGED fate
  <2>1. PICK f \in BOOLEAN : f = shl.flow
    BY DaemonTyped DEF Shell
  <2>2. PICK g : g \in BOOLEAN /\ g = ~f
    BY Zenon
  <2>3. PICK c : c = (shl.cntl \ {"nostop", "dostop"}) \cup {IF shl.flow THEN "nostop" ELSE "dostop"}
    OBVIOUS
  <2>4. c \in SUBSET Controls
    BY <2>3, DaemonTyped DEF Controls
  <2>5. shl' = [shl EXCEPT !.controls = @ + 1, !.cntl = c, !.flow = g]
    BY <1>5, <2>1, <2>2, <2>3, Zenon
  <2>6. QED
    BY <1>4, <1>5, <2>2, <2>4, <2>5
<1>6. CASE shl' = [shl EXCEPT !.pc = "exit"] /\ UNCHANGED fate
  <2>1. /\ shl' \in Shell /\ shl'.n = shl.n /\ shl'.controls = shl.controls /\ shl'.q = shl.q /\ shl'.cntl = shl.cntl
    BY <1>6, DaemonTyped DEF Shell
  <2>2. MarkInv'
    BY <1>1, <2>1, DaemonTyped DEF MarkInv
  <2>3. Account(term.shown, rdr.buf, arrived, inflight', rld'.pbuf, shl'.q, Fated', shl'.n)
    BY <1>1, <1>6, <2>1, Accounted DEF Fated
  <2>4. QED
    BY <1>1, <1>6, <2>1, <2>2, <2>3, Accounted, DaemonTyped, DaemonFrame
<1>7. QED
  BY <1>2, <1>3, <1>5, <1>6, Zenon DEF Remote

-----------------------------------------------------------------------------
(* rlogind -d.                                                               *)

LEMMA DmnFrame ==
    ASSUME RlInv, DmnOnly, dmn' \in Counter, CountInv'
    PROVE  RlInv'
<1>1. UNCHANGED <<rlopt, par, rdr, term, inflight, arrived, rlup, rld, shl, fate>>
  BY DEF DmnOnly
<1>2. Types' /\ ParentInv' /\ MarkInv'
  BY <1>1 DEF RlInv, Types, ParentInv, MarkInv
<1>3. Fated' = Fated
  BY <1>1 DEF Fated
<1>4. OutputInv'
  BY <1>1, <1>3, Zenon DEF RlInv, OutputInv
<1>5. QED
  BY <1>2, <1>4 DEF RlInv

LEMMA DmnSteps ==
    ASSUME RlInv, DmnStep
    PROVE  RlInv'
<1> USE RlAssumption
<1>1. dmn \in Counter /\ CountInv /\ MaxChildren \in Nat
  BY DEF RlInv, Types
<1>2. /\ dmn.numchildren \in Int /\ dmn.live \in Nat /\ dmn.zombies \in Nat /\ dmn.sessions \in Nat
      /\ dmn.sigchld \in BOOLEAN /\ dmn.pc \in {"off", "check", "accept", "pause", "forked"}
  BY <1>1 DEF Counter
<1>3. CASE DmnCheck
  <2>1. DmnOnly /\ dmn.pc = "check" /\ dmn' = [dmn EXCEPT !.pc = IF TooMany THEN "pause" ELSE "accept"]
    BY <1>3 DEF DmnCheck
  <2>2. dmn' \in Counter /\ CountInv'
    BY <1>1, <1>2, <2>1 DEF Counter, CountInv, TooMany
  <2>3. QED
    BY <2>1, <2>2, DmnFrame
<1>4. CASE DmnAccept
  <2>1. DmnOnly /\ dmn.pc = "accept" /\ dmn' = [dmn EXCEPT !.pc = "forked", !.sessions = @ + 1, !.live = @ + 1]
    BY <1>4 DEF DmnAccept
  <2>2. dmn.sessions + 1 \in Nat /\ dmn.live + 1 \in Nat
    BY <1>2, <2>1
  <2>3. dmn' \in Counter
    BY <1>1, <2>1, <2>2 DEF Counter
  <2>4. /\ dmn'.pc = "forked" /\ dmn'.live = dmn.live + 1 /\ dmn'.zombies = dmn.zombies
        /\ dmn'.numchildren = dmn.numchildren /\ dmn'.sigchld = dmn.sigchld
    BY <1>1, <1>2, <2>1 DEF Counter
  <2>5. CountInv'
    BY <1>1, <1>2, <2>1, <2>4 DEF CountInv
  <2>6. QED
    BY <2>1, <2>3, <2>5, DmnFrame
<1>5. CASE DmnCount
  <2>1. DmnOnly /\ dmn.pc = "forked" /\ dmn' = [dmn EXCEPT !.pc = "check", !.numchildren = @ + 1]
    BY <1>5 DEF DmnCount
  <2>2. dmn.numchildren + 1 \in Int
    BY <1>2, <2>1
  <2>3. dmn' \in Counter
    BY <1>1, <2>1, <2>2 DEF Counter
  <2>4. /\ dmn'.pc = "check" /\ dmn'.live = dmn.live /\ dmn'.zombies = dmn.zombies
        /\ dmn'.numchildren = dmn.numchildren + 1 /\ dmn'.sigchld = dmn.sigchld
    BY <1>1, <1>2, <2>1 DEF Counter
  <2>5. CountInv'
    BY <1>1, <1>2, <2>1, <2>4 DEF CountInv
  <2>6. QED
    BY <2>1, <2>3, <2>5, DmnFrame
<1>6. CASE DmnChildExits
  <2>1. /\ DmnOnly /\ dmn.live > 0
        /\ dmn' = [dmn EXCEPT !.live = @ - 1, !.zombies = @ + 1, !.sigchld = TRUE]
    BY <1>6 DEF DmnChildExits
  <2>2. dmn.live - 1 \in Nat /\ dmn.zombies + 1 \in Nat
    BY <1>2, <2>1
  <2>3. dmn' \in Counter
    BY <1>1, <2>1, <2>2 DEF Counter
  <2>4. /\ dmn'.pc = dmn.pc /\ dmn'.live = dmn.live - 1 /\ dmn'.zombies = dmn.zombies + 1
        /\ dmn'.numchildren = dmn.numchildren /\ dmn'.sigchld = TRUE
    BY <1>1, <1>2, <2>1 DEF Counter
  <2>5. CountInv'
    BY <1>1, <1>2, <2>1, <2>4 DEF CountInv
  <2>6. QED
    BY <2>1, <2>3, <2>5, DmnFrame
<1>7. CASE rlogind_sigchld
  <2>1. /\ DmnOnly
        /\ dmn' = [dmn EXCEPT !.sigchld = FALSE, !.numchildren = @ - dmn.zombies, !.zombies = @ - @,
                              !.pc = IF @ \in {"accept", "pause"} THEN "check" ELSE @]
    BY <1>7 DEF rlogind_sigchld, Reaped
  <2>2. dmn.numchildren - dmn.zombies \in Int /\ dmn.zombies - dmn.zombies = 0
    BY <1>2, <2>1
  <2>3. dmn' \in Counter
    <3>1. PICK c : c = dmn.numchildren - dmn.zombies
      OBVIOUS
    <3>2. PICK k : k = IF dmn.pc \in {"accept", "pause"} THEN "check" ELSE dmn.pc
      OBVIOUS
    <3>3. c \in Int /\ k \in {"off", "check", "accept", "pause", "forked"}
      BY <1>2, <2>2, <3>1, <3>2
    <3>4. dmn' = [dmn EXCEPT !.sigchld = FALSE, !.numchildren = c, !.zombies = 0, !.pc = k]
      BY <2>1, <2>2, <3>1, <3>2, Zenon
    <3>5. QED
      BY <1>1, <3>3, <3>4 DEF Counter
  <2>4. /\ dmn'.pc \in {dmn.pc, "check"} /\ dmn'.live = dmn.live /\ dmn'.zombies = 0
        /\ dmn'.numchildren = dmn.numchildren - dmn.zombies /\ dmn'.sigchld = FALSE
        /\ (dmn'.pc = "forked" <=> dmn.pc = "forked") /\ (dmn'.pc = "accept" => dmn.pc = "accept")
    BY <1>1, <1>2, <2>1 DEF Counter
  <2>5. CountInv'
    BY <1>1, <1>2, <2>1, <2>4 DEF CountInv
  <2>6. QED
    BY <2>1, <2>3, <2>5, DmnFrame
<1>8. QED
  BY <1>3, <1>4, <1>5, <1>6, <1>7 DEF DmnStep

-----------------------------------------------------------------------------
(* The invariant and the theorem.                                            *)

LEMMA RemoteInit ==
    ASSUME RlInit
    PROVE  RlInv
<1> USE RlAssumption
<1>1. /\ rlopt \in [bad : LoginFaults \cup {"none"}, daemon : BOOLEAN]
      /\ par = [NewParent EXCEPT !.pc = IF rlopt.daemon THEN "exit" ELSE @]
      /\ rdr = NewReader /\ term = NewTerminal /\ inflight = <<>> /\ arrived = <<>> /\ rlup = <<>>
      /\ rld = [NewRlogind EXCEPT !.pc = IF rlopt.daemon THEN "exit" ELSE @]
      /\ shl = NewRemote /\ fate = [n \in 1 .. MaxUnits |-> "none"]
      /\ dmn = [NewCount EXCEPT !.pc = IF rlopt.daemon THEN "check" ELSE @]
  BY DEF RlInit
<1>2. 0 \in Sizes /\ MaxControls \in Nat /\ MaxUnits \in Nat /\ MaxChildren \in Nat
  BY DEF Sizes
<1>3. par \in Parent /\ rdr \in Reader /\ term \in Terminal
  <2>1. NewParent \in Parent
    BY <1>2 DEF NewParent, Parent, ParentPcs
  <2>2. par \in Parent
    BY <1>1, <2>1 DEF Parent, ParentPcs
  <2>3. rdr \in Reader
    BY <1>1, EmptySeq DEF NewReader, Reader, ReaderPcs
  <2>4. term \in Terminal
    BY <1>1, <1>2, EmptySeq DEF NewTerminal, Terminal
  <2>5. QED
    BY <2>2, <2>3, <2>4
<1>4. rld \in Rlogind /\ shl \in Shell /\ dmn \in Counter
  <2>1. NewRlogind \in Rlogind
    <3>1. Mark(0, {}) \in Items
      BY DEF Mark, Items
    <3>2. QED
      BY <3>1, EmptySeq DEF NewRlogind, Rlogind
  <2>2. rld \in Rlogind
    BY <1>1, <2>1 DEF Rlogind
  <2>3. shl \in Shell
    BY <1>1, <1>2, EmptySeq DEF NewRemote, Shell
  <2>4. NewCount \in Counter
    BY DEF NewCount, Counter
  <2>5. dmn \in Counter
    BY <1>1, <2>4 DEF Counter
  <2>6. QED
    BY <2>2, <2>3, <2>5
<1>5. Types
  BY <1>1, <1>3, <1>4, EmptySeq DEF Types
<1>6. ParentInv
  BY <1>1 DEF ParentInv, NewParent, NewReader, NewTerminal
<1>7. MarkInv
  BY <1>1 DEF MarkInv, NewRlogind, NewRemote
<1>8. CountInv
  BY <1>1, <1>2 DEF CountInv, NewCount
<1>9. Fated = {}
  BY <1>1 DEF Fated
<1>10. Settled(Places(<<>>, <<>>, <<>>, <<>>, <<>>, <<>>), {}, 0)
  <2>1. PICK p : p = Places(<<>>, <<>>, <<>>, <<>>, <<>>, <<>>)
    OBVIOUS
  <2>2. Range(<<>>) = {}
    BY DEF Range
  <2>3. p[1] = {} /\ p[2] = {} /\ p[3] = {} /\ p[4] = {} /\ p[5] = {} /\ p[6] = {}
    BY <2>1, <2>2, OutputsAreItems DEF Places
  <2>4. \A i \in 1 .. 6 : p[i] = {}
    BY <2>3, Six
  <2>5. All(p) = {}
    BY <2>4, InAll
  <2>6. Settled(p, {}, 0)
    BY <2>4, <2>5 DEF Settled, Chain, Below
  <2>7. QED
    BY <2>1, <2>6
<1>11. Account(<<>>, <<>>, <<>>, <<>>, <<>>, <<>>, {}, 0)
  <2>1. Rising(<<>>)
    BY DEF Rising
  <2>2. QED
    BY <1>10, <2>1, OutputsAreItems DEF Account
<1>12. OutputInv
  <2>1. term.shown = <<>> /\ rdr.buf = <<>> /\ rld.pbuf = <<>> /\ shl.q = <<>> /\ shl.n = 0
    BY <1>1 DEF NewTerminal, NewReader, NewRlogind, NewRemote
  <2>2. QED
    BY <1>1, <1>9, <1>11, <2>1 DEF OutputInv
<1>13. QED
  BY <1>5, <1>6, <1>7, <1>8, <1>12 DEF RlInv

LEMMA RemoteStepKeeps ==
    ASSUME RlInv, [RlNext]_rlvars
    PROVE  RlInv'
<1>1. CASE ParentStep
  BY <1>1, StartedStep, StopSteps, DoneSteps DEF ParentStep
<1>2. CASE CatchChild \/ writeroob \/ sigwinch \/ Resize \/ Continue
  BY <1>2, DoneSteps, WindowSteps, StopSteps
<1>3. CASE \E k \in Keys : writer(k)
  BY <1>3, WriterStep
<1>4. CASE ReaderStep
  BY <1>4, ReaderStartStep, ReaderReadStep, ReaderWriteStep DEF ReaderStep
<1>5. CASE Oob \/ OobStep
  BY <1>5, OobSteps, OobMarkStep, OobBitsStep, OobWaitStep DEF OobStep
<1>6. CASE Deliver
  BY <1>6, DeliverStep
<1>7. CASE ProtoStep \/ SigchldCleanup
  BY <1>7, RlogindAuthStep, ProtoControlStep, ProtoInStep, ProtoOutStep, CleanupStep DEF ProtoStep
<1>8. CASE Remote
  BY <1>8, RemoteStep
<1>9. CASE DmnStep
  BY <1>9, DmnSteps
<1>10. CASE UNCHANGED rlvars
  <2>1. UNCHANGED <<rlopt, par, rdr, term, inflight, arrived, rlup, rld, shl, fate, dmn>>
    BY <1>10 DEF rlvars
  <2>2. Fated' = Fated
    BY <2>1 DEF Fated
  <2>3. OutputInv'
    BY <2>1, <2>2, Zenon DEF RlInv, OutputInv
  <2>4. QED
    BY <2>1, <2>3 DEF RlInv, Types, ParentInv, MarkInv, CountInv
<1>11. QED
  BY <1>1, <1>2, <1>3, <1>4, <1>5, <1>6, <1>7, <1>8, <1>9, <1>10 DEF RlNext

\* Places that are ordered have no unit in common.
LEMMA Apart ==
    ASSUME NEW p, NEW F, NEW n \in Nat, Settled(p, F, n)
    PROVE  \A i, j \in 1 .. 6 : i # j => p[i] \cap p[j] = {}
<1> SUFFICES ASSUME NEW i \in 1 .. 6, NEW j \in 1 .. 6, i # j, NEW x \in p[i], x \in p[j]
             PROVE  FALSE
  OBVIOUS
<1>1. x \in Nat
  BY SettledIn
<1>2. i < j \/ j < i
  OBVIOUS
<1>3. QED
  BY <1>1, <1>2 DEF Settled, Chain, Below

LEMMA InvariantIsSafe ==
    ASSUME RlInv
    PROVE  RlSafe
<1>1. RlTypeOK
  <2>1. /\ par.pc \in ParentPcs /\ rdr.pc \in ReaderPcs /\ ~(par.bol /\ par.local)
        /\ term.size \in Sizes
    BY ParentTyped DEF Parent, Reader, ParentInv
  <2>2. rld.pc \in {"auth", "loop", "cleanup", "exit"} /\ shl.pc \in {"none", "shell", "exit"} /\ shl.size \in Sizes \cup {-1}
    BY DaemonTyped DEF Rlogind, Shell
  <2>3. rld.urgent \in 0 .. MaxControls + 1
    BY DaemonTyped DEF MarkInv
  <2>4. dmn.numchildren \in -MaxChildren - 1 .. MaxChildren + 1
    <3>1. dmn.numchildren \in Int /\ dmn.live \in Nat /\ dmn.zombies \in Nat /\ MaxChildren \in Nat /\ CountInv
      BY RlAssumption DEF RlInv, Types, Counter
    <3>2. QED
      BY <3>1 DEF CountInv
  <2>5. QED
    BY <2>1, <2>2, <2>3, <2>4, RlAssumption DEF RlTypeOK, ParentPcs, ReaderPcs, Sizes
<1>2. RlTerminal
  BY DEF RlInv, ParentInv, RlTerminal
<1>3. RlCount
  <2>1. dmn.numchildren \in Int /\ dmn.live \in Nat /\ dmn.zombies \in Nat
    BY DEF RlInv, Types, Counter
  <2>2. QED
    BY <2>1 DEF RlInv, CountInv, RlCount
<1>4. RlAccounted
  <2>1. PICK w : w = <<Ns(shl.q), Ns(rld.pbuf), Ns(inflight), Ns(arrived), Ns(rdr.buf), Range(term.shown), Fated>>
    OBVIOUS
  <2>2. PICK p : p = Places(term.shown, rdr.buf, arrived, inflight, rld.pbuf, shl.q)
    OBVIOUS
  <2>3. /\ Len(w) = 7 /\ w[1] = p[6] /\ w[2] = p[5] /\ w[3] = p[4] /\ w[4] = p[3] /\ w[5] = p[2] /\ w[6] = p[1]
        /\ w[7] = Fated
    BY <2>1, <2>2 DEF Places
  <2>4. Settled(p, Fated, shl.n) /\ shl.n \in Nat /\ Rising(term.shown)
    BY <2>2, Accounted, RlAssumption DEF Account
  <2>5. \A i \in 1 .. 7 : (i = 7 /\ w[i] = Fated) \/ (7 - i \in 1 .. 6 /\ w[i] = p[7 - i])
    <3>1. \A i \in 1 .. 7 : i = 7 \/ 7 - i \in 1 .. 6
      OBVIOUS
    <3>2. \A i \in 1 .. 6 : w[i] = p[7 - i]
      BY <2>3, Six
    <3>3. QED
      BY <2>3, <3>1, <3>2
  <2>6. \A i, j \in 1 .. Len(w) : i # j => w[i] \cap w[j] = {}
    <3>1. \A i, j \in 1 .. 6 : i # j => p[i] \cap p[j] = {}
      BY <2>4, Apart
    <3>2. \A i \in 1 .. 6 : p[i] \cap Fated = {} /\ Fated \cap p[i] = {}
      BY <2>4 DEF Settled
    <3>3. QED
      BY <2>3, <2>5, <3>1, <3>2
  <2>7. UNION Range(w) = 1 .. shl.n
    <3>1. \A x : x \in UNION Range(w) <=> \E i \in 1 .. 7 : x \in w[i]
      <4>1. DOMAIN w = 1 .. 7
        BY <2>1
      <4>2. \A s : s \in Range(w) <=> \E i \in 1 .. 7 : s = w[i]
        BY <4>1, Zenon DEF Range
      <4>3. QED
        BY <4>2, Zenon
    <3>2. \A x : x \in All(p) <=> \E i \in 1 .. 6 : x \in p[i]
      BY InAll
    <3>3. \A i \in 1 .. 6 : 7 - i \in 1 .. 7 /\ w[7 - i] = p[i]
      BY <2>3, Six
    <3>4. \A x : x \in UNION Range(w) <=> x \in All(p) \/ x \in Fated
      BY <2>3, <2>5, <3>1, <3>2, <3>3
    <3>5. All(p) \cup Fated = 1 .. shl.n
      BY <2>4 DEF Settled
    <3>6. QED
      BY <3>4, <3>5
  <2>8. \A i, j \in 1 .. Len(term.shown) : i < j => term.shown[i] < term.shown[j]
    BY <2>4 DEF Rising
  <2>9. QED
    BY <2>1, <2>6, <2>7, <2>8, ZenonT(30) DEF RlAccounted, Fated
<1>5. QED
  BY <1>1, <1>2, <1>3, <1>4 DEF RlSafe

(* A remote login is safe: every unit of output is in one place or lost for a  *)
(* reason of the code, what is shown is shown once and in order, rlogin leaves *)
(* the terminal as it was, and rlogind -d counts the sessions that run.        *)
THEOREM RemoteIsSafe == RlSpec => []RlSafe
<1>1. RlInit => RlInv
  BY RemoteInit
<1>2. RlInv /\ [RlNext]_rlvars => RlInv'
  BY RemoteStepKeeps
<1>3. RlInv => RlSafe
  BY InvariantIsSafe
<1>4. QED
  BY <1>1, <1>2, <1>3, PTL DEF RlSpec

-----------------------------------------------------------------------------
(* rsh and rshd or rexecd.                                                   *)

Texts == {"nul", "soh", "msg", "out", "err"}
Client ==
  [pc : {"connect", "accept", "auth", "talk", "failed", "exit"}, lib : {"rcmd", "kcmd"}, timo : {1, 2, 4, 8},
   rem : BOOLEAN, rfd2 : BOOLEAN, out : Seq(Texts), err : Seq(Texts), signalled : BOOLEAN, killed : BOOLEAN,
   status : {0, 1}]
Copy == [pc : {"none", "read", "write", "done"}, n : 0 .. MaxIn, shut : BOOLEAN]
Daemon ==
  [pc : {"start", "port", "strings", "control", "exit"}, conn2 : BOOLEAN, s : BOOLEAN, pv : BOOLEAN, shut : BOOLEAN]
Command ==
  [pc : {"none", "forked", "leader", "run", "exit"}, sig : {"none", "hit", "missed"}, in : 0 .. MaxIn,
   outs : Nat, errs : Nat, rem : Seq(Texts), pipe : Seq(Texts)]

RshTypes ==
  /\ sopt \in [daemon : {"rshd", "rexecd"}, port : BOOLEAN, nflag : BOOLEAN, bad : ServerFaults \cup {"none"}]
  /\ cl \in Client /\ kid \in Copy /\ srv \in Daemon /\ cmd \in Command
  /\ pup \in Seq({"port", "strings", "in"}) /\ sup \in Seq({"INT"})
  /\ pdown \in Seq(Texts) /\ sdown \in Seq(Texts) /\ pv \in Seq(Texts)

Waiting == cl.pc \in {"connect", "accept", "auth", "failed"}
Asking == srv.pc \in {"start", "port", "strings"}
None == cmd.pc = "none"

(* What stands in the primary connection: the port and the strings until the  *)
(* daemon has read them, then at most what the copy has read and written.      *)
InputInv ==
  /\ Asking => kid.pc = "none" /\ None /\ Len(pup) <= 2
  /\ kid.pc = "none" => kid.n = 0
  /\ sopt.port /\ srv.pc \in {"start", "port"} => Len(pup) <= 1
  /\ srv.pc = "strings" => Len(pup) <= 1
  /\ None => cmd.in = 0
  /\ ~None => Len(pup) + cmd.in + (IF kid.pc = "write" THEN 1 ELSE 0) <= kid.n

(* How far the two sides are together. *)
StageInv ==
  /\ cl.pc = "connect" => srv.pc = "start" /\ pup = <<>> /\ ~cl.rfd2
  /\ cl.pc = "accept" => sopt.port /\ ~cl.rfd2 /\ None /\ (srv.conn2 => pup = <<>>)
  /\ cl.pc = "auth" => (cl.rfd2 <=> sopt.port)
  /\ cl.pc = "failed" => srv.pc \in {"start", "exit"} /\ None
  /\ cl.pc = "talk" \/ (cl.pc = "exit" /\ cl.status = 0) => ~Asking
  /\ cl.pc = "exit" /\ cl.status = 1 /\ ~cl.killed => None /\ srv.pc \in {"start", "exit"}
  /\ srv.pc \in {"start", "port"} => ~srv.conn2
  /\ Asking => ~srv.shut
  /\ srv.pc \in {"strings", "control"} \/ ~None => (srv.conn2 <=> sopt.port)
  /\ srv.pc = "control" => ~None /\ sopt.port /\ (srv.shut <=> ~srv.pv)
  /\ ~None => sopt.bad \notin Refusals
  /\ cl.pc = "talk" => sopt.bad \notin Refusals

(* What rsh has to show of its primary connection. *)
Told == IF None THEN rshd_error(TRUE) ELSE cmd.rem

(* What a client that has not read the verdict finds: of a command, or of none. *)
Accepted == pdown = <<"nul">> \o cmd.rem
Refused == pdown \in {<<>>, <<"soh">>} \/ (pdown = <<"nul">> \o rshd_error(TRUE) /\ sopt.bad \notin Refusals)
Piped == cl.err \o sdown \o pv = cmd.pipe

(* The output of the command: before the verdict is read all of it follows the  *)
(* verdict, and in talk what was shown and what is under way are all of it.       *)
PrimaryInv ==
  /\ Asking => pdown = <<>>
  /\ None => cmd.rem = <<>>
  /\ Waiting => cl.out = <<>> /\ kid.pc = "none"
  /\ Waiting /\ ~None => Accepted
  /\ Waiting /\ None => Refused
  /\ cl.pc = "talk" /\ cl.rem => cl.out \o pdown = Told
  /\ cl.pc = "talk" /\ ~cl.rem => cl.out = Told /\ CmdGone
  /\ cl.pc = "exit" /\ cl.status = 0 => cl.out = Told /\ CmdGone

(* The error output on the second connection, through the pipe and the control *)
(* process, which ends only when the pipe has.                                  *)
SecondInv ==
  /\ None => cl.err = <<>> /\ sdown = <<>> /\ pv = <<>> /\ cmd.pipe = <<>>
  /\ ~sopt.port => cl.err = <<>> /\ cmd.pipe = <<>> /\ sdown = <<>> /\ pv = <<>>
  /\ Waiting => cl.err = <<>>
  /\ cl.pc # "exit" /\ srv.pc = "control" /\ srv.pv => Piped
  /\ cl.pc # "exit" /\ ~None /\ (srv.pc = "exit" \/ ~srv.pv) /\ sopt.port => CmdGone /\ pv = <<>> /\ cl.err \o sdown = cmd.pipe
  /\ cl.pc = "talk" /\ ~None /\ ~cl.rfd2 /\ sopt.port => CmdGone /\ cl.err = cmd.pipe
  /\ cl.pc = "exit" /\ cl.status = 0 => cl.err = cmd.pipe

RshInv == RshTypes /\ InputInv /\ StageInv /\ PrimaryInv /\ SecondInv

(* Taking the first element of one sequence to the end of another one. *)
LEMMA Shift ==
    \A s, t \in Seq(Texts) :
       t # <<>> => Append(s, Head(t)) \o Tail(t) = s \o t /\ Append(s, Head(t)) \in Seq(Texts) /\ Tail(t) \in Seq(Texts)
  OBVIOUS

(* Adding to the second of two sequences. *)
LEMMA AddBehind ==
    \A s, t \in Seq(Texts), x \in Texts :
       s \o Append(t, x) = Append(s \o t, x) /\ s \o t \in Seq(Texts) /\ Append(t, x) \in Seq(Texts)
  OBVIOUS

(* rcmd or kcmd that gives up. *)
LEMMA LostIs ==
    ASSUME cl \in Client
    PROVE  /\ Lost \in Client /\ Lost.out = cl.out /\ Lost.err = cl.err /\ Lost.rfd2 = cl.rfd2
           /\ Lost.pc = "failed" \/ (Lost.pc = "exit" /\ Lost.status = 1)
           /\ cl.lib # "kcmd" => Lost.pc = "exit"
<1>1. CASE cl.lib = "kcmd"
  BY <1>1 DEF Lost, Client
<1>2. CASE cl.lib # "kcmd"
  BY <1>2 DEF Lost, Client
<1>3. QED
  BY <1>1, <1>2

LEMMA RshStart == RshInit => RshInv
<1> SUFFICES ASSUME RshInit PROVE RshInv
  OBVIOUS
<1>1. RshTypes
  BY RshAssumption DEF RshInit, RshTypes, NewClient, NewDaemon, cmd_init, Client, Copy, Daemon, Command
<1>2. cl.pc = "connect" /\ srv.pc = "start" /\ cmd.pc = "none" /\ cl.out = <<>> /\ cl.err = <<>> /\ ~cl.rfd2
  BY DEF RshInit, NewClient, NewDaemon, cmd_init
<1>3. QED
  BY <1>1, <1>2 DEF RshInit, NewClient, NewDaemon, cmd_init, RshInv, InputInv, StageInv, PrimaryInv, SecondInv, Waiting, Asking, None, Accepted, Refused, Piped

LEMMA ConnectSteps == ASSUME RshInv, Connect \/ ConnectRefused PROVE RshInv'
<1>1. /\ RshTypes /\ cl.pc = "connect" /\ srv.pc = "start" /\ None /\ pup = <<>> /\ pdown = <<>>
      /\ ~cl.rfd2 /\ UNCHANGED <<kid, pdown, sup, sdown, sopt, srv, cmd, pv>>
  BY DEF RshInv, PrimaryInv, StageInv, InputInv, Asking, Connect, ConnectRefused, ClientOnly, Accepted, Refused
<1>2. /\ cl' \in Client /\ cl'.pc \in {"connect", "accept", "auth", "failed", "exit"}
      /\ (cl'.pc = "exit" => cl'.status = 1) /\ cl'.out = cl.out /\ cl'.err = cl.err /\ cl'.rfd2 = cl.rfd2
      /\ cl'.pc = "accept" => sopt.port
      /\ cl'.pc = "auth" => ~sopt.port
  <2>1. CASE Connect
    BY <1>1, <2>1 DEF Connect, RshTypes, Client
  <2>2. CASE ConnectRefused
    <3>1. cl \in Client /\ cl' = (IF cl.timo <= 4 THEN [cl EXCEPT !.timo = 2 * @] ELSE Lost)
      BY <1>1, <2>2 DEF ConnectRefused, RshTypes, Retry, RetryMax
    <3>2. CASE cl.timo <= 4
      <4>1. cl' = [cl EXCEPT !.timo = 2 * @] /\ 2 * cl.timo \in {2, 4, 8}
        BY <3>1, <3>2 DEF Client
      <4>2. QED
        BY <1>1, <3>1, <4>1 DEF Client
    <3>3. CASE ~(cl.timo <= 4)
      <4>1. cl' = Lost
        BY <3>1, <3>3, Zenon
      <4>2. QED
        BY <1>1, <3>1, <4>1, LostIs, Zenon
    <3>4. QED
      BY <3>2, <3>3
  <2>3. QED
    BY <2>1, <2>2
<1>3. /\ pup' \in Seq({"port", "strings", "in"}) /\ Len(pup') <= 2 /\ (sopt.port => Len(pup') <= 1)
      /\ cl'.pc = "connect" => pup' = <<>>
  <2>1. CASE Connect
    <3>0. cl'.pc # "connect"
      BY <1>1, <2>1 DEF Connect, RshTypes, Client
    <3>1. CASE sopt.port
      <4>1. pup' = <<"port">>
        BY <1>1, <2>1, <3>1 DEF Connect
      <4>2. QED
        BY <3>0, <4>1
    <3>2. CASE ~sopt.port
      <4>1. pup' = <<"port", "strings">>
        BY <1>1, <2>1, <3>2 DEF Connect
      <4>2. QED
        BY <3>0, <3>2, <4>1
    <3>3. QED
      BY <3>1, <3>2
  <2>2. CASE ConnectRefused
    BY <1>1, <2>2 DEF ConnectRefused, RshTypes
  <2>3. QED
    BY <2>1, <2>2
<1>4. RshTypes'
  BY <1>1, <1>2, <1>3 DEF RshTypes
<1>5. InputInv'
  BY <1>1, <1>3 DEF InputInv, RshInv, Asking, None
<1>6. StageInv'
  BY <1>1, <1>2, <1>3 DEF StageInv, RshInv, Asking, None, Refusals
<1>7. PrimaryInv'
  BY <1>1, <1>2 DEF PrimaryInv, RshInv, Asking, None, Waiting, Accepted, Refused
<1>8. SecondInv'
  BY <1>1, <1>2 DEF SecondInv, RshInv, Asking, None, Waiting, Piped
<1>9. QED
  BY <1>4, <1>5, <1>6, <1>7, <1>8 DEF RshInv

LEMMA TryStep == ASSUME RshInv, try_connect PROVE RshInv'
<1>1. /\ RshTypes /\ cl.pc = "failed" /\ None /\ kid.pc = "none" /\ pup' = <<>> /\ pdown' = <<>>
      /\ cl' = NewClient("rcmd") /\ srv' = NewDaemon /\ UNCHANGED <<sopt, kid, cmd, sup, sdown, pv>>
  BY DEF RshInv, PrimaryInv, StageInv, Waiting, try_connect, Accepted, Refused
<1>2. cl' \in Client /\ cl'.pc = "connect" /\ cl'.out = <<>> /\ cl'.err = <<>> /\ ~cl'.rfd2
  BY <1>1 DEF NewClient, Client
<1>3. srv' \in Daemon /\ srv'.pc = "start" /\ ~srv'.conn2 /\ ~srv'.shut
  BY <1>1 DEF NewDaemon, Daemon
<1>4. RshTypes'
  BY <1>1, <1>2, <1>3 DEF RshTypes
<1>5. InputInv'
  BY <1>1, <1>3 DEF InputInv, RshInv, Asking, None
<1>6. StageInv'
  BY <1>1, <1>2, <1>3 DEF StageInv, RshInv, Asking, None
<1>7. PrimaryInv'
  BY <1>1, <1>2 DEF PrimaryInv, RshInv, Asking, None, Waiting, Accepted, Refused
<1>8. SecondInv'
  BY <1>1, <1>2, <1>3 DEF SecondInv, RshInv, Asking, None, Waiting, Piped
<1>9. QED
  BY <1>4, <1>5, <1>6, <1>7, <1>8 DEF RshInv

LEMMA AcceptStep == ASSUME RshInv, Accept PROVE RshInv'
<1>1. /\ RshTypes /\ cl.pc = "accept" /\ sopt.port /\ ~cl.rfd2 /\ UNCHANGED <<kid, pdown, sup, sdown, sopt, srv, cmd, pv>>
      /\ kid.pc = "none" /\ cl.out = <<>> /\ cl.err = <<>> /\ None
  BY DEF RshInv, StageInv, PrimaryInv, SecondInv, Waiting, Accept, ClientOnly, Accepted, Refused, Piped
<1>2. /\ cl' \in Client /\ cl'.out = <<>> /\ cl'.err = <<>>
      /\ \/ cl'.pc = "auth" /\ cl'.rfd2 /\ srv.conn2 /\ pup' = Append(pup, "strings")
         \/ cl'.pc = "exit" /\ cl'.status = 1 /\ srv.pc = "exit" /\ pup' = pup
  <2>1. CASE srv.conn2 /\ cl' = [cl EXCEPT !.pc = "auth", !.rfd2 = TRUE] /\ pup' = Append(pup, "strings")
    BY <1>1, <2>1 DEF RshTypes, Client
  <2>2. CASE ServerGone /\ cl.lib # "kcmd" /\ cl' = Lost /\ UNCHANGED pup
    BY <1>1, <2>2, LostIs DEF RshTypes, ServerGone
  <2>3. QED
    BY <2>1, <2>2 DEF Accept
<1>3. /\ pup' \in Seq({"port", "strings", "in"})
      /\ cl'.pc = "auth" => pup = <<>> /\ Len(pup') = 1 /\ srv.pc \notin {"start", "port"}
  <2>1. cl'.pc = "auth" => srv.conn2 /\ pup = <<>> /\ srv.pc \notin {"start", "port"}
    BY <1>1, <1>2 DEF RshInv, StageInv
  <2>2. CASE cl'.pc = "auth"
    <3>1. pup' = <<"strings">>
      BY <1>2, <2>1, <2>2
    <3>2. QED
      BY <2>1, <3>1
  <2>3. CASE cl'.pc # "auth"
    BY <1>1, <1>2, <2>3 DEF RshTypes
  <2>4. QED
    BY <2>2, <2>3
<1>4. RshTypes'
  BY <1>1, <1>2, <1>3 DEF RshTypes
<1>5. InputInv'
  BY <1>1, <1>2, <1>3 DEF InputInv, RshInv, Asking, None
<1>6. StageInv'
  BY <1>1, <1>2, <1>3 DEF StageInv, RshInv, Asking, None
<1>7. PrimaryInv'
  BY <1>1, <1>2 DEF PrimaryInv, RshInv, Asking, None, Waiting, Refusals, rshd_error, Accepted, Refused
<1>8. SecondInv'
  BY <1>1, <1>2 DEF SecondInv, RshInv, Asking, None, Waiting, Piped
<1>9. QED
  BY <1>4, <1>5, <1>6, <1>7, <1>8 DEF RshInv

(* The verdict is the first thing that the daemon says. *)
LEMMA VerdictStep == ASSUME RshInv, Verdict PROVE RshInv'
<1>1. /\ RshTypes /\ cl.pc = "auth" /\ (cl.rfd2 <=> sopt.port) /\ UNCHANGED <<pup, sup, sdown, sopt, srv, cmd, pv>>
      /\ kid.pc = "none" /\ cl.out = <<>> /\ cl.err = <<>>
  BY DEF RshInv, StageInv, PrimaryInv, SecondInv, Waiting, Verdict, ClientOnly, Accepted, Refused, Piped
<1>2. PICK told : told = Told
  OBVIOUS
<1>3. told \in Seq(Texts)
  <2>1. cmd.rem \in Seq(Texts)
    BY <1>1 DEF RshTypes, Command
  <2>2. rshd_error(TRUE) \in Seq(Texts)
    <3>1. rshd_error(TRUE) = <<"msg">> \/ rshd_error(TRUE) = <<"soh">>
      BY Zenon DEF rshd_error
    <3>2. <<"msg">> \in Seq(Texts) /\ <<"soh">> \in Seq(Texts)
      BY DEF Texts
    <3>3. QED
      BY <3>1, <3>2, Zenon
  <2>3. QED
    BY <1>2, <2>1, <2>2, Zenon DEF Told
<1>4. LET p == <<"nul">> \o told IN p # <<>> /\ Head(p) = "nul" /\ Tail(p) = told
  BY <1>3
<1>5. \/ pdown = <<>> /\ None
      \/ pdown = <<"soh">> /\ None /\ ~Asking
      \/ pdown = <<"nul">> \o told /\ ~Asking /\ sopt.bad \notin Refusals
  <2>1. pdown # <<>> => ~Asking
    BY DEF RshInv, PrimaryInv, Accepted, Refused
  <2>2. CASE None
    <3>1. told = rshd_error(TRUE)
      BY <1>2, <2>2 DEF Told
    <3>2. pdown \in {<<>>, <<"soh">>} \/ (pdown = <<"nul">> \o rshd_error(TRUE) /\ sopt.bad \notin Refusals)
      BY <1>1, <2>2 DEF RshInv, PrimaryInv, Waiting, Accepted, Refused
    <3>3. QED
      BY <1>4, <2>1, <2>2, <3>1, <3>2
  <2>3. CASE ~None
    <3>1. told = cmd.rem /\ sopt.bad \notin Refusals /\ ~Asking
      BY <1>2, <2>3 DEF Told, RshInv, StageInv, InputInv
    <3>2. pdown = <<"nul">> \o told
      BY <1>1, <2>3, <3>1 DEF RshInv, PrimaryInv, Waiting, Accepted, Refused
    <3>3. QED
      BY <3>1, <3>2
  <2>4. QED
    BY <2>2, <2>3
<1>6. CASE pdown = <<"nul">> \o told /\ ~Asking /\ sopt.bad \notin Refusals
  <2>1. /\ pdown' = told /\ ~Asking /\ sopt.bad \notin Refusals
        /\ cl' = [cl EXCEPT !.pc = "talk", !.rem = TRUE] /\ kid' = [kid EXCEPT !.pc = IF sopt.nflag THEN "done" ELSE "read"]
    <3>1. pdown # <<>> /\ Head(pdown) = "nul" /\ Tail(pdown) = told
      BY <1>4, <1>6, Zenon
    <3>2. QED
      BY <1>6, <3>1, Zenon DEF Verdict, Eof, PdownEof
  <2>2. cl' \in Client /\ cl'.pc = "talk" /\ cl'.rem /\ cl'.out = <<>> /\ cl'.err = <<>> /\ (cl'.rfd2 <=> sopt.port)
    BY <1>1, <2>1 DEF RshTypes, Client
  <2>3. kid' \in Copy /\ kid'.n = kid.n /\ kid'.pc \in {"done", "read"}
    BY <1>1, <2>1 DEF RshTypes, Copy
  <2>4. Told' = told /\ <<>> \o told = told
    BY <1>1, <1>2, <1>3 DEF Told, None, rshd_error
  <2>5. RshTypes'
    BY <1>1, <1>3, <2>1, <2>2, <2>3 DEF RshTypes
  <2>6. InputInv'
    BY <1>1, <2>1, <2>3 DEF InputInv, RshInv, Asking, None
  <2>7. StageInv'
    BY <1>1, <2>1, <2>2 DEF StageInv, RshInv, Asking, None, Refusals
  <2>8. PrimaryInv'
    BY <1>1, <2>1, <2>2, <2>4 DEF RshInv, PrimaryInv, Asking, None, Waiting, Accepted, Refused
  <2>9. SecondInv'
    BY <1>1, <2>1, <2>2 DEF SecondInv, RshInv, Asking, None, Waiting, CmdGone, Piped
  <2>10. QED
    BY <2>5, <2>6, <2>7, <2>8, <2>9 DEF RshInv
<1>7. CASE pdown = <<>> \/ pdown = <<"soh">>
  <2>1. /\ None /\ ~Asking /\ cl' = Lost /\ UNCHANGED kid /\ pdown' = <<>>
    <3>1. CASE pdown = <<"soh">>
      <4>1. pdown # <<>> /\ Head(pdown) = "soh" /\ Tail(pdown) = <<>> /\ "soh" # "nul"
        BY <3>1
      <4>2. None /\ ~Asking
        <5>1. pdown # <<"nul">> \o told
          BY <1>4, <4>1
        <5>2. QED
          BY <1>5, <4>1, <5>1
      <4>3. QED
        BY <4>1, <4>2, Zenon DEF Verdict, Eof, PdownEof
    <3>2. CASE pdown = <<>>
      <4>1. cl' = Lost /\ UNCHANGED <<kid, pdown>> /\ srv.pc \in {"control", "exit"}
        BY <3>2, Zenon DEF Verdict, Eof, PdownEof
      <4>2. pdown # <<"nul">> \o told
        BY <1>4, <3>2
      <4>3. QED
        BY <1>5, <3>2, <4>1, <4>2 DEF Asking
    <3>3. QED
      BY <1>7, <3>1, <3>2
  <2>2. cl' \in Client /\ cl'.out = <<>> /\ cl'.err = <<>> /\ (cl'.pc = "failed" \/ (cl'.pc = "exit" /\ cl'.status = 1))
    BY <1>1, <2>1, LostIs DEF RshTypes
  <2>3. srv.pc = "exit"
    BY <1>1, <2>1 DEF RshInv, StageInv, RshTypes, Daemon, Asking
  <2>5. RshTypes'
    BY <1>1, <2>1, <2>2 DEF RshTypes
  <2>6. InputInv'
    BY <1>1, <2>1 DEF InputInv, RshInv, Asking, None
  <2>7. StageInv'
    BY <1>1, <2>1, <2>2, <2>3 DEF StageInv, RshInv, Asking, None
  <2>8. PrimaryInv'
    BY <1>1, <2>1, <2>2 DEF RshInv, PrimaryInv, Asking, None, Waiting, Accepted, Refused
  <2>9. SecondInv'
    BY <1>1, <2>1, <2>2 DEF SecondInv, RshInv, Asking, None, Waiting, CmdGone, Piped
  <2>10. QED
    BY <2>5, <2>6, <2>7, <2>8, <2>9 DEF RshInv
<1>8. QED
  BY <1>5, <1>6, <1>7

(* talk: the error output of the second connection. *)
LEMMA TalkErrStep == ASSUME RshInv, TalkErr PROVE RshInv'
<1>1. /\ RshTypes /\ cl.pc = "talk" /\ cl.rfd2 /\ UNCHANGED <<pup, pdown, kid, sup, sopt, srv, cmd, pv>> /\ ~Asking
  BY DEF RshInv, StageInv, TalkErr, ClientOnly
<1>2. CASE sdown # <<>> /\ sdown' = Tail(sdown) /\ cl' = [cl EXCEPT !.err = Append(@, Head(sdown))]
  <2>1. cl.err \in Seq(Texts) /\ sdown \in Seq(Texts) /\ pv \in Seq(Texts) /\ ~None /\ sopt.port
    BY <1>1, <1>2 DEF RshInv, RshTypes, Client, SecondInv, Piped
  <2>2. Append(cl.err, Head(sdown)) \o sdown' = cl.err \o sdown /\ sdown' \in Seq(Texts) /\ Append(cl.err, Head(sdown)) \in Seq(Texts)
    <3>1. sdown # <<>> /\ sdown' = Tail(sdown)
      BY <1>2
    <3>2. QED
      BY <2>1, <3>1, Shift, Zenon
  <2>3. /\ cl' \in Client /\ cl'.pc = "talk" /\ cl'.rem = cl.rem /\ cl'.rfd2 /\ cl'.out = cl.out
        /\ cl'.err = Append(cl.err, Head(sdown))
    BY <1>1, <1>2, <2>2 DEF RshTypes, Client
  <2>4. cl'.err \o sdown' = cl.err \o sdown
    BY <2>2, <2>3
  <2>5. RshTypes'
    BY <1>1, <2>2, <2>3 DEF RshTypes
  <2>6. InputInv'
    BY <1>1 DEF InputInv, RshInv, Asking, None
  <2>7. StageInv'
    BY <1>1, <2>3 DEF StageInv, RshInv, Asking, None, Refusals
  <2>8. PrimaryInv'
    BY <1>1, <2>3 DEF PrimaryInv, RshInv, Asking, None, Waiting, Told, CmdGone, rshd_error, Accepted, Refused
  <2>9. SecondInv'
    BY <1>1, <2>1, <2>3, <2>4 DEF SecondInv, RshInv, None, Waiting, CmdGone, Piped
  <2>10. QED
    BY <2>5, <2>6, <2>7, <2>8, <2>9 DEF RshInv
<1>3. CASE Eof(sdown, srv.shut \/ ServerGone) /\ cl' = [cl EXCEPT !.rfd2 = FALSE] /\ UNCHANGED sdown
  <2>1. cl' \in Client /\ cl'.pc = "talk" /\ cl'.rem = cl.rem /\ ~cl'.rfd2 /\ cl'.out = cl.out /\ cl'.err = cl.err
    BY <1>1, <1>3 DEF RshTypes, Client
  <2>2. sdown = <<>> /\ (srv.pc = "exit" \/ srv.shut) /\ cl.err \o sdown = cl.err
    BY <1>1, <1>3 DEF Eof, ServerGone, RshTypes, Client
  <2>3. srv.pc = "exit" \/ ~srv.pv
    BY <1>1, <2>2 DEF RshInv, StageInv, Asking, RshTypes, Daemon
  <2>4. ~None /\ sopt.port => CmdGone /\ cl.err = cmd.pipe
    BY <1>1, <2>2, <2>3 DEF RshInv, SecondInv, Piped
  <2>5. RshTypes'
    BY <1>1, <1>3, <2>1 DEF RshTypes
  <2>6. InputInv'
    BY <1>1 DEF InputInv, RshInv, Asking, None
  <2>7. StageInv'
    BY <1>1, <2>1 DEF StageInv, RshInv, Asking, None, Refusals
  <2>8. PrimaryInv'
    BY <1>1, <2>1 DEF PrimaryInv, RshInv, Asking, None, Waiting, Told, CmdGone, rshd_error, Accepted, Refused
  <2>9. SecondInv'
    BY <1>1, <1>3, <2>1, <2>4 DEF SecondInv, RshInv, None, Waiting, CmdGone, Piped
  <2>10. QED
    BY <2>5, <2>6, <2>7, <2>8, <2>9 DEF RshInv
<1>4. QED
  BY <1>2, <1>3 DEF TalkErr

(* talk: the output of the primary connection. *)
LEMMA TalkOutStep == ASSUME RshInv, TalkOut PROVE RshInv'
<1>1. /\ RshTypes /\ cl.pc = "talk" /\ cl.rem /\ UNCHANGED <<pup, kid, sup, sdown, sopt, srv, cmd, pv>> /\ ~Asking
      /\ cl.out \o pdown = Told
  BY DEF RshInv, StageInv, PrimaryInv, TalkOut, ClientOnly, Accepted, Refused
<1>2. Told' = Told
  BY <1>1 DEF Told, None, rshd_error
<1>3. /\ cl' \in Client /\ cl'.pc = "talk" /\ cl'.rfd2 = cl.rfd2 /\ cl'.err = cl.err /\ pdown' \in Seq(Texts)
      /\ cl'.rem => cl'.out \o pdown' = Told
      /\ ~cl'.rem => cl'.out = Told /\ CmdGone
  <2>1. cl.out \in Seq(Texts) /\ pdown \in Seq(Texts)
    BY <1>1 DEF RshTypes, Client
  <2>2. CASE pdown # <<>> /\ pdown' = Tail(pdown) /\ cl' = [cl EXCEPT !.out = Append(@, Head(pdown))]
    <3>1. Append(cl.out, Head(pdown)) \o pdown' = cl.out \o pdown /\ pdown' \in Seq(Texts) /\ Append(cl.out, Head(pdown)) \in Seq(Texts)
      <4>1. pdown # <<>> /\ pdown' = Tail(pdown)
        BY <2>2
      <4>2. QED
        BY <2>1, <4>1, Shift, Zenon
    <3>2. /\ cl' \in Client /\ cl'.pc = "talk" /\ cl'.rfd2 = cl.rfd2 /\ cl'.err = cl.err
          /\ cl'.rem = cl.rem /\ cl'.out = Append(cl.out, Head(pdown))
      BY <1>1, <2>2, <3>1 DEF RshTypes, Client
    <3>3. QED
      BY <1>1, <3>1, <3>2
  <2>3. CASE PdownEof /\ cl' = [cl EXCEPT !.rem = FALSE] /\ UNCHANGED pdown
    <3>1. pdown = <<>> /\ CmdGone /\ cl.out \o pdown = cl.out
      BY <2>1, <2>3 DEF PdownEof, Eof
    <3>2. cl' \in Client /\ cl'.pc = "talk" /\ cl'.rfd2 = cl.rfd2 /\ cl'.err = cl.err /\ ~cl'.rem /\ cl'.out = cl.out
      BY <1>1, <2>3 DEF RshTypes, Client
    <3>3. QED
      BY <1>1, <2>1, <2>3, <3>1, <3>2
  <2>4. QED
    BY <2>2, <2>3 DEF TalkOut
<1>5. RshTypes'
  BY <1>1, <1>3 DEF RshTypes
<1>6. InputInv'
  BY <1>1 DEF InputInv, RshInv, Asking, None
<1>7. StageInv'
  BY <1>1, <1>3 DEF StageInv, RshInv, Asking, None, Refusals
<1>8. PrimaryInv'
  BY <1>1, <1>2, <1>3 DEF RshInv, PrimaryInv, Asking, None, Waiting, CmdGone, Accepted, Refused
<1>9. SecondInv'
  BY <1>1, <1>3 DEF SecondInv, RshInv, None, Waiting, CmdGone, Piped
<1>10. QED
  BY <1>5, <1>6, <1>7, <1>8, <1>9 DEF RshInv

(* talk is over when both connections have ended. *)
LEMMA TalkDoneStep == ASSUME RshInv, TalkDone PROVE RshInv'
<1>1. /\ RshTypes /\ cl.pc = "talk" /\ ~cl.rem /\ ~cl.rfd2 /\ UNCHANGED <<pup, pdown, sup, sdown, sopt, srv, cmd, pv>> /\ ~Asking
      /\ cl.out = Told /\ CmdGone /\ kid' = [kid EXCEPT !.pc = "done"] /\ cl' = [cl EXCEPT !.pc = "exit", !.status = 0]
  BY DEF RshInv, StageInv, PrimaryInv, TalkDone, TalkOver, ClientOnly, Accepted, Refused
<1>2. cl' \in Client /\ cl'.pc = "exit" /\ cl'.status = 0 /\ cl'.out = cl.out /\ cl'.err = cl.err
  BY <1>1 DEF RshTypes, Client
<1>3. kid' \in Copy /\ kid'.pc = "done" /\ kid'.n = kid.n
  BY <1>1 DEF RshTypes, Copy
<1>4. cl.err = cmd.pipe
  BY <1>1 DEF RshInv, SecondInv, None, Piped
<1>5. Told' = Told
  BY <1>1 DEF Told, None, rshd_error
<1>6. RshTypes'
  BY <1>1, <1>2, <1>3 DEF RshTypes
<1>7. InputInv'
  <2>1. ~None => Len(pup) + cmd.in + (IF kid.pc = "write" THEN 1 ELSE 0) <= kid.n /\ Len(pup) \in Nat /\ cmd.in \in Nat /\ kid.n \in Nat
    BY <1>1 DEF InputInv, RshInv, RshTypes, Copy, Command
  <2>2. QED
    BY <1>1, <1>3, <2>1 DEF InputInv, RshInv, Asking, None
<1>8. StageInv'
  BY <1>1, <1>2 DEF StageInv, RshInv, Asking, None, Refusals
<1>9. PrimaryInv'
  BY <1>1, <1>2, <1>5 DEF RshInv, PrimaryInv, Asking, None, Waiting, CmdGone, Accepted, Refused
<1>10. SecondInv'
  BY <1>1, <1>2, <1>4 DEF SecondInv, RshInv, None, Waiting, CmdGone, Piped
<1>11. QED
  BY <1>6, <1>7, <1>8, <1>9, <1>10 DEF RshInv

(* The copy that reads the input. *)
LEMMA KidSteps == ASSUME RshInv, KidRead \/ KidWrite PROVE RshInv'
<1>1. /\ RshTypes /\ kid.pc \in {"read", "write"} /\ UNCHANGED <<cl, pdown, sup, sdown, sopt, srv, cmd, pv>> /\ ~Asking
      /\ kid \in Copy /\ pup \in Seq({"port", "strings", "in"}) /\ cmd.in \in Nat /\ Len(pup) \in Nat
  BY RshAssumption DEF RshInv, InputInv, RshTypes, Command, KidRead, KidWrite, ClientOnly
<1>2. /\ kid' \in Copy /\ kid'.pc # "none" /\ pup' \in Seq({"port", "strings", "in"})
      /\ \/ kid'.pc = "write" /\ kid.pc = "read" /\ kid'.n = kid.n + 1 /\ Len(pup') = Len(pup)
         \/ kid'.pc = "done" /\ kid'.n = kid.n /\ Len(pup') = Len(pup)
         \/ kid'.pc = "read" /\ kid.pc = "write" /\ kid'.n = kid.n /\ Len(pup') = Len(pup) + 1
  <2>1. CASE KidRead
    <3>1. CASE kid.pc = "read" /\ kid.n < MaxIn /\ kid' = [kid EXCEPT !.pc = "write", !.n = @ + 1]
      <4>1. kid.n + 1 \in 0 .. MaxIn
        BY <1>1, <3>1, RshAssumption DEF Copy
      <4>2. QED
        BY <1>1, <2>1, <3>1, <4>1 DEF KidRead, Copy
    <3>2. CASE kid' = [kid EXCEPT !.pc = "done", !.shut = TRUE]
      BY <1>1, <2>1, <3>2 DEF KidRead, Copy
    <3>3. QED
      BY <2>1, <3>1, <3>2 DEF KidRead
  <2>2. CASE KidWrite
    <3>1. CASE kid.pc = "write" /\ pup' = Append(pup, "in") /\ kid' = [kid EXCEPT !.pc = "read"]
      <4>1. kid' \in Copy /\ kid'.pc = "read" /\ kid'.n = kid.n
        BY <1>1, <3>1 DEF Copy
      <4>2. pup' \in Seq({"port", "strings", "in"}) /\ Len(pup') = Len(pup) + 1
        BY <1>1, <3>1
      <4>3. QED
        BY <3>1, <4>1, <4>2
    <3>2. CASE kid' = [kid EXCEPT !.pc = "done", !.shut = TRUE] /\ UNCHANGED pup
      BY <1>1, <3>2 DEF Copy
    <3>3. QED
      BY <2>2, <3>1, <3>2 DEF KidWrite
  <2>3. QED
    BY <2>1, <2>2
<1>3. RshTypes'
  BY <1>1, <1>2 DEF RshTypes
<1>4. InputInv'
  <2>1. kid.n \in Nat /\ kid'.n \in Nat
    BY <1>1, <1>2, RshAssumption DEF Copy
  <2>2. ~None => Len(pup) + cmd.in + (IF kid.pc = "write" THEN 1 ELSE 0) <= kid.n
    BY DEF RshInv, InputInv
  <2>3. ~None => Len(pup') + cmd.in + (IF kid'.pc = "write" THEN 1 ELSE 0) <= kid'.n
    BY <1>1, <1>2, <2>1, <2>2
  <2>4. QED
    BY <1>1, <1>2, <2>3 DEF RshInv, InputInv, Asking, None
<1>5. ~Waiting
  BY <1>1 DEF RshInv, PrimaryInv, Accepted, Refused
<1>6. StageInv'
  BY <1>1, <1>5 DEF RshInv, StageInv, Asking, None, Refusals, Waiting
<1>7. PrimaryInv'
  BY <1>1, <1>5 DEF RshInv, PrimaryInv, Asking, None, Told, CmdGone, rshd_error, Waiting, Accepted, Refused
<1>8. SecondInv'
  BY <1>1, <1>5 DEF RshInv, SecondInv, None, CmdGone, Waiting, Piped
<1>9. QED
  BY <1>3, <1>4, <1>6, <1>7, <1>8 DEF RshInv

(* Signals of the user. *)
LEMMA SignalSteps == ASSUME RshInv, sendsig \/ ClientKilled PROVE RshInv'
<1>1. RshTypes /\ cl \in Client /\ UNCHANGED <<kid, pup, pdown, sdown, sopt, srv, cmd, pv>>
  BY DEF RshInv, RshTypes, sendsig, ClientKilled, ClientOnly
<1>2. CASE sendsig
  <2>1. /\ cl' \in Client /\ cl'.pc = "talk" /\ cl.pc = "talk" /\ cl'.rem = cl.rem /\ cl'.rfd2 = cl.rfd2
        /\ cl'.out = cl.out /\ cl'.err = cl.err
    BY <1>1, <1>2 DEF sendsig, Client
  <2>2. sup' \in Seq({"INT"})
    <3>1. sup' = sup \/ sup' = Append(sup, "INT")
      BY <1>2 DEF sendsig
    <3>2. sup \in Seq({"INT"})
      BY <1>1 DEF RshTypes
    <3>3. Append(sup, "INT") \in Seq({"INT"})
      BY <3>2
    <3>4. QED
      BY <3>1, <3>2, <3>3
  <2>3. RshTypes'
    BY <1>1, <2>1, <2>2 DEF RshTypes
  <2>4. InputInv'
    BY <1>1 DEF RshInv, InputInv, Asking, None
  <2>5. StageInv'
    BY <1>1, <2>1 DEF RshInv, StageInv, Asking, None, Refusals
  <2>6. PrimaryInv'
    BY <1>1, <2>1 DEF RshInv, PrimaryInv, Asking, None, Told, CmdGone, rshd_error, Waiting, Accepted, Refused
  <2>7. SecondInv'
    BY <1>1, <2>1 DEF RshInv, SecondInv, None, CmdGone, Waiting, Piped
  <2>8. QED
    BY <2>3, <2>4, <2>5, <2>6, <2>7 DEF RshInv
<1>3. CASE ClientKilled
  <2>1. cl' \in Client /\ cl'.pc = "exit" /\ cl'.status = 1 /\ cl'.killed /\ cl'.err = cl.err
    BY <1>1, <1>3 DEF ClientKilled, Client
  <2>2. UNCHANGED sup
    BY <1>3 DEF ClientKilled
  <2>3. RshTypes'
    BY <1>1, <2>1, <2>2 DEF RshTypes
  <2>4. InputInv'
    BY <1>1 DEF RshInv, InputInv, Asking, None
  <2>5. StageInv'
    BY <1>1, <2>1 DEF RshInv, StageInv, Asking, None, Refusals
  <2>6. PrimaryInv'
    BY <1>1, <2>1 DEF RshInv, PrimaryInv, Asking, None, Waiting, Accepted, Refused
  <2>7. SecondInv'
    BY <1>1, <2>1 DEF RshInv, SecondInv, None, Waiting, Piped
  <2>8. QED
    BY <2>3, <2>4, <2>5, <2>6, <2>7 DEF RshInv
<1>4. QED
  BY <1>2, <1>3

(* The daemon before it has checked the request. *)
LEMMA AskSteps == ASSUME RshInv, DoitStart \/ DoitPort \/ DoitAlarm PROVE RshInv'
<1>1. /\ RshTypes /\ srv \in Daemon /\ srv.pc \in {"start", "port"} /\ ~srv.conn2 /\ ~srv.shut /\ Asking /\ None /\ pdown = <<>>
      /\ pup \in Seq({"port", "strings", "in"}) /\ Len(pup) \in Nat
      /\ Len(pup) <= 2 /\ (sopt.port => Len(pup) <= 1) /\ UNCHANGED <<cl, kid, pdown, sup, sdown, sopt, cmd, pv>>
  <2>1. srv.pc \in {"start", "port"} /\ UNCHANGED <<cl, kid, pdown, sup, sdown, sopt, cmd, pv>>
    BY DEF DoitStart, DoitPort, DoitAlarm, ServerOnly
  <2>2. Asking /\ None
    BY <2>1 DEF RshInv, InputInv, Asking
  <2>3. QED
    BY <2>1, <2>2 DEF RshInv, RshTypes, InputInv, StageInv, PrimaryInv, Accepted, Refused
<1>2. \/ srv.pc = "start" /\ srv' = [srv EXCEPT !.pc = "port"] /\ pup' = pup /\ cl.pc \in {"accept", "auth"}
      \/ srv' = [srv EXCEPT !.pc = "exit"] /\ cl.pc # "connect" /\ (pup' = pup \/ (pup # <<>> /\ pup' = Tail(pup)))
      \/ pup # <<>> /\ pup' = Tail(pup) /\ srv' = [srv EXCEPT !.pc = "strings", !.conn2 = sopt.port]
         /\ srv.pc = "port"
  <2>1. CASE DoitStart
    BY <2>1, Zenon DEF DoitStart, SrvExit
  <2>2. srv.pc = "port" => cl.pc # "connect"
    BY DEF RshInv, StageInv
  <2>3. CASE DoitPort
    BY <2>2, <2>3, Zenon DEF DoitPort, SrvExit, Eof
  <2>4. CASE DoitAlarm
    BY <2>2, <2>4, Zenon DEF DoitAlarm, SrvExit
  <2>5. QED
    BY <2>1, <2>3, <2>4
<1>3. pup' \in Seq({"port", "strings", "in"}) /\ Len(pup') \in Nat /\ Len(pup') <= Len(pup)
      /\ (pup # <<>> /\ pup' = Tail(pup) => Len(pup') = Len(pup) - 1)
  BY <1>1, <1>2
<1>4. /\ srv' \in Daemon /\ ~srv'.shut
      /\ \/ srv'.pc = "port" /\ srv.pc = "start" /\ cl.pc \in {"accept", "auth"} /\ ~srv'.conn2 /\ pup' = pup
         \/ srv'.pc = "exit" /\ ~srv'.conn2
         \/ srv'.pc = "strings" /\ srv.pc = "port" /\ (srv'.conn2 <=> sopt.port) /\ Len(pup') = Len(pup) - 1
  BY <1>1, <1>2, <1>3 DEF Daemon, RshTypes
<1>5. Len(pup') = 0 => pup' = <<>>
  BY <1>3
<1>6. RshTypes'
  BY <1>1, <1>3, <1>4 DEF RshTypes
<1>7. InputInv'
  BY <1>1, <1>3, <1>4 DEF RshInv, InputInv, Asking, None
<1>8. StageInv'
  BY <1>1, <1>2, <1>3, <1>4, <1>5 DEF RshInv, StageInv, Asking, None, Refusals
<1>9. PrimaryInv'
  BY <1>1 DEF RshInv, PrimaryInv, StageInv, Asking, None, Waiting, CmdGone, Accepted, Refused
<1>10. SecondInv'
  BY <1>1, <1>4 DEF RshInv, SecondInv, None, Waiting, CmdGone, Piped
<1>11. QED
  BY <1>6, <1>7, <1>8, <1>9, <1>10 DEF RshInv

(* rshd and rexecd say the same when they run a command, and something else   *)
(* when they do not.                                                            *)
LEMMA ErrorIs ==
    /\ rshd_error(FALSE) = <<"soh">>
    /\ rshd_error(TRUE) \in {<<"msg">>, <<"soh">>}
    /\ <<"nul">> \o rshd_error(TRUE) \in Seq(Texts) /\ <<"soh">> \in Seq(Texts) /\ <<"nul">> \in Seq(Texts)
    /\ <<>> \o <<"soh">> = <<"soh">> /\ <<"nul">> \o <<>> = <<"nul">> /\ Append(<<>>, "nul") = <<"nul">>
    /\ <<>> \o <<"nul">> \o rshd_error(TRUE) = <<"nul">> \o rshd_error(TRUE)
<1>1. rshd_error(FALSE) = <<"soh">>
  BY Zenon DEF rshd_error
<1>2. rshd_error(TRUE) = <<"msg">> \/ rshd_error(TRUE) = <<"soh">>
  BY Zenon DEF rshd_error
<1>3. PICK e : e = rshd_error(TRUE)
  OBVIOUS
<1>4. e \in Seq(Texts) /\ <<"nul">> \in Seq(Texts) /\ <<"soh">> \in Seq(Texts)
  <2>1. <<"msg">> \in Seq(Texts) /\ <<"nul">> \in Seq(Texts) /\ <<"soh">> \in Seq(Texts)
    BY DEF Texts
  <2>2. QED
    BY <1>2, <1>3, <2>1, Zenon
<1>5. <<"nul">> \o e \in Seq(Texts) /\ <<>> \o <<"nul">> \o e = <<"nul">> \o e
  BY <1>4
<1>6. <<>> \o <<"soh">> = <<"soh">> /\ <<"nul">> \o <<>> = <<"nul">> /\ Append(<<>>, "nul") = <<"nul">>
  OBVIOUS
<1>7. QED
  BY <1>1, <1>2, <1>3, <1>4, <1>5, <1>6, Zenon

(* The checks and the fork. *)
LEMMA StringsStep == ASSUME RshInv, DoitStrings PROVE RshInv'
<1>1. /\ RshTypes /\ srv \in Daemon /\ srv.pc = "strings" /\ (srv.conn2 <=> sopt.port) /\ ~srv.shut /\ Asking /\ None
      /\ pdown = <<>> /\ pup \in Seq({"port", "strings", "in"}) /\ Len(pup) \in Nat /\ Len(pup) <= 1
      /\ kid.pc = "none" /\ kid.n = 0 /\ cmd.in = 0 /\ cmd.rem = <<>> /\ cmd.pipe = <<>> /\ cl.err = <<>>
      /\ sdown = <<>> /\ pv = <<>> /\ cmd \in Command /\ UNCHANGED <<cl, kid, sup, sdown, sopt, pv>>
  <2>1. srv.pc = "strings" /\ UNCHANGED <<cl, kid, sup, sdown, sopt, pv>>
    BY DEF DoitStrings, ServerOnly
  <2>2. Asking /\ None /\ kid.pc = "none"
    BY <2>1 DEF RshInv, InputInv, Asking
  <2>3. QED
    BY <2>1, <2>2 DEF RshInv, RshTypes, InputInv, StageInv, PrimaryInv, SecondInv, Accepted, Refused, Piped
<1>2. cl.pc = "auth" \/ (cl.pc = "accept" /\ pup = <<>>) \/ (cl.pc = "exit" /\ cl.status = 1 /\ cl.killed)
  BY <1>1 DEF RshInv, StageInv, RshTypes, Client
<1>3. Waiting => cl.out = <<>>
  BY DEF RshInv, PrimaryInv, Accepted, Refused
<1>4. CASE /\ srv' = SrvExit(srv) /\ UNCHANGED cmd
           /\ \/ pdown' = <<"soh">> /\ cl.pc # "accept"
              \/ pdown' = <<"nul">> \o rshd_error(TRUE) /\ Passed /\ cl.pc # "accept"
           /\ pup' \in Seq({"port", "strings", "in"})
  <2>1. srv' \in Daemon /\ srv'.pc = "exit" /\ (srv'.conn2 <=> sopt.port)
    BY <1>1, <1>4 DEF SrvExit, Daemon, RshTypes
  <2>2. pdown' \in Seq(Texts)
    BY <1>4, ErrorIs, Zenon
  <2>3. RshTypes'
    BY <1>1, <1>4, <2>1, <2>2 DEF RshTypes
  <2>4. InputInv'
    BY <1>1, <1>4, <2>1 DEF InputInv, Asking, None
  <2>5. StageInv'
    BY <1>1, <1>2, <1>4, <2>1 DEF RshInv, StageInv, Asking, None, Refusals
  <2>6. PrimaryInv'
    <3>1. Refused'
      <4>1. sopt' = sopt
        BY <1>1
      <4>2. Refusals' = Refusals /\ rshd_error(TRUE)' = rshd_error(TRUE)
        BY <4>1, Zenon DEF Refusals, rshd_error
      <4>3. CASE pdown' = <<"soh">>
        BY <4>3 DEF Refused
      <4>4. CASE pdown' = <<"nul">> \o rshd_error(TRUE) /\ Passed
        BY <4>1, <4>2, <4>4, Zenon DEF Passed, Refused
      <4>5. QED
        BY <1>4, <4>3, <4>4
    <3>2. QED
      BY <1>1, <1>2, <1>3, <1>4, <2>1, <3>1 DEF PrimaryInv, Asking, None, Waiting
  <2>7. SecondInv'
    BY <1>1, <1>2, <1>4, <2>1 DEF SecondInv, None, Waiting, CmdGone, Piped
  <2>8. QED
    BY <2>3, <2>4, <2>5, <2>6, <2>7 DEF RshInv
<1>5. CASE /\ Passed /\ pup # <<>> /\ pup' = Tail(pup) /\ pdown' = <<"nul">>
           /\ \/ /\ sopt.port /\ srv' = [srv EXCEPT !.pc = "control", !.s = TRUE, !.pv = TRUE]
                 /\ cmd' = [cmd EXCEPT !.pc = "forked"]
              \/ ~sopt.port /\ srv' = SrvExit(srv) /\ cmd' = [cmd EXCEPT !.pc = "leader"]
  <2>1. /\ srv' \in Daemon /\ (srv'.conn2 <=> sopt.port) /\ ~srv'.shut
        /\ (srv'.pc = "control" /\ sopt.port /\ srv'.pv) \/ (srv'.pc = "exit" /\ ~sopt.port)
    BY <1>1, <1>5 DEF SrvExit, Daemon
  <2>2. /\ cmd' \in Command /\ cmd'.pc \in {"forked", "leader"} /\ cmd'.in = 0 /\ cmd'.rem = <<>> /\ cmd'.pipe = <<>>
    BY <1>1, <1>5 DEF Command
  <2>3. pup' = <<>> /\ pdown' \in Seq(Texts) /\ pup' \in Seq({"port", "strings", "in"}) /\ Len(pup') = 0
    BY <1>1, <1>5, ErrorIs
  <2>4. RshTypes'
    BY <1>1, <2>1, <2>2, <2>3 DEF RshTypes
  <2>5. InputInv'
    BY <1>1, <2>1, <2>2, <2>3 DEF InputInv, Asking, None
  <2>6. sopt.bad \notin Refusals /\ Refusals' = Refusals
    BY <1>1, <1>5, Zenon DEF Passed, Refusals
  <2>7. StageInv'
    BY <1>1, <1>2, <1>5, <2>1, <2>2, <2>6 DEF RshInv, StageInv, Asking, None
  <2>8. PrimaryInv'
    <3>0. pdown' = <<"nul">> /\ cmd'.rem = <<>>
      BY <1>5, <2>2
    <3>1. Accepted'
      BY <3>0, ErrorIs, Zenon DEF Accepted
    <3>2. QED
      BY <1>1, <1>2, <1>3, <2>1, <2>2, <3>1 DEF PrimaryInv, Asking, None, Waiting
  <2>9. SecondInv'
    <3>1. cl.err \o sdown \o pv = <<>>
      BY <1>1
    <3>2. QED
      BY <1>1, <1>2, <2>1, <2>2, <3>1 DEF SecondInv, None, Waiting, CmdGone, Piped
  <2>10. QED
    BY <2>4, <2>5, <2>7, <2>8, <2>9 DEF RshInv
<1>6. pup # <<>> => Tail(pup) \in Seq({"port", "strings", "in"})
  BY <1>1
<1>7. CASE Eof(pup, PupGone) /\ srv' = SrvExit(srv) /\ pdown' = pdown \o rshd_error(FALSE) /\ UNCHANGED <<pup, cmd>>
  <2>1. pdown' = <<"soh">>
    BY <1>1, <1>7, ErrorIs
  <2>2. cl.pc # "accept"
    BY <1>7 DEF Eof, PupGone, ClientGone
  <2>3. QED
    BY <1>1, <1>4, <1>7, <2>1, <2>2
<1>8. CASE pup # <<>> /\ pup' = Tail(pup) /\ ~(Eof(pup, PupGone) /\ UNCHANGED pup)
  <2>1. CASE ~Passed
    <3>1. srv' = SrvExit(srv) /\ pdown' = pdown \o rshd_error(FALSE) /\ UNCHANGED cmd
      BY <1>8, <2>1, Zenon DEF DoitStrings, Eof
    <3>2. pdown' = <<"soh">>
      BY <1>1, <3>1, ErrorIs
    <3>3. QED
      BY <1>2, <1>4, <1>6, <1>8, <3>1, <3>2
  <2>2. CASE Passed /\ sopt.port /\ Bad("fork")
    <3>1. srv' = SrvExit(srv) /\ pdown' = pdown \o <<"nul">> \o rshd_error(TRUE) /\ UNCHANGED cmd
      BY <1>8, <2>2, Zenon DEF DoitStrings, Eof
    <3>2. pdown' = <<"nul">> \o rshd_error(TRUE)
      BY <1>1, <3>1, ErrorIs, Zenon
    <3>3. QED
      BY <1>2, <1>4, <1>6, <1>8, <2>2, <3>1, <3>2
  <2>3. CASE Passed /\ ~(sopt.port /\ Bad("fork"))
    <3>1. /\ pdown' = Append(pdown, "nul")
          /\ \/ /\ sopt.port /\ srv' = [srv EXCEPT !.pc = "control", !.s = TRUE, !.pv = TRUE]
                /\ cmd' = [cmd EXCEPT !.pc = "forked"]
             \/ ~sopt.port /\ srv' = SrvExit(srv) /\ cmd' = [cmd EXCEPT !.pc = "leader"]
      BY <1>8, <2>3, Zenon DEF DoitStrings, Eof
    <3>2. pdown' = <<"nul">>
      BY <1>1, <3>1, ErrorIs
    <3>3. QED
      BY <1>5, <1>8, <2>3, <3>1, <3>2
  <2>4. QED
    BY <2>1, <2>2, <2>3
<1>9. QED
  BY <1>7, <1>8, Zenon DEF DoitStrings, Eof

(* The control process passes a signal on. *)
LEMMA PassSignal == ASSUME RshInv, ControlSignal PROVE RshInv'
<1>1. /\ RshTypes /\ srv \in Daemon /\ srv.pc = "control" /\ ~Asking /\ ~None /\ cmd \in Command
      /\ UNCHANGED <<cl, kid, sopt, pup, pdown, sdown, pv>>
  BY DEF RshInv, RshTypes, StageInv, ControlSignal, ServerOnly, Asking
<1>2. /\ srv' \in Daemon /\ srv'.pc = "control" /\ srv'.conn2 = srv.conn2 /\ srv'.pv = srv.pv /\ srv'.shut = srv.shut
      /\ sup' \in Seq({"INT"}) /\ (cmd' = cmd \/ cmd' = killpg)
  <2>1. CASE sup # <<>> /\ sup' = Tail(sup) /\ UNCHANGED srv /\ cmd' = killpg
    BY <1>1, <2>1 DEF RshTypes
  <2>2. CASE srv' = [srv EXCEPT !.s = FALSE] /\ UNCHANGED <<sup, cmd>>
    BY <1>1, <2>2 DEF RshTypes, Daemon
  <2>3. QED
    BY <2>1, <2>2 DEF ControlSignal
<1>3. /\ cmd' \in Command /\ cmd'.pc # "none" /\ (cmd.pc = "exit" => cmd'.pc = "exit") /\ cmd'.in = cmd.in
      /\ cmd'.rem = cmd.rem /\ cmd'.pipe = cmd.pipe
  <2>1. CASE cmd' = cmd
    BY <1>1, <2>1 DEF None
  <2>2. CASE cmd' = killpg
    <3>1. CASE cmd.pc = "forked"
      BY <1>1, <2>2, <3>1 DEF killpg, Command
    <3>2. CASE cmd.pc \in {"leader", "run"}
      <4>1. cmd' = [cmd EXCEPT !.pc = "exit", !.sig = "hit"]
        BY <2>2, <3>2 DEF killpg
      <4>2. QED
        BY <1>1, <3>2, <4>1 DEF Command
    <3>3. CASE cmd.pc \in {"none", "exit"}
      BY <1>1, <2>2, <3>3 DEF killpg, None
    <3>4. QED
      BY <1>1, <3>1, <3>2, <3>3 DEF Command
  <2>3. QED
    BY <1>2, <2>1, <2>2
<1>4. RshTypes'
  BY <1>1, <1>2, <1>3 DEF RshTypes
<1>5. InputInv'
  BY <1>1, <1>2, <1>3 DEF RshInv, InputInv, Asking, None
<1>6. StageInv'
  BY <1>1, <1>2, <1>3 DEF RshInv, StageInv, Asking, None, Refusals
<1>7. PrimaryInv'
  BY <1>1, <1>2, <1>3 DEF RshInv, PrimaryInv, Asking, None, Waiting, Told, CmdGone, Accepted, Refused
<1>8. SecondInv'
  BY <1>1, <1>2, <1>3 DEF RshInv, SecondInv, None, Waiting, CmdGone, Piped
<1>9. QED
  BY <1>4, <1>5, <1>6, <1>7, <1>8 DEF RshInv


(* The control process passes error output on, shuts the second connection,   *)
(* and ends.                                                                    *)
LEMMA RelaySteps == ASSUME RshInv, ControlErr \/ ControlDone PROVE RshInv'
<1>1. /\ RshTypes /\ srv \in Daemon /\ srv.pc = "control" /\ (srv.shut <=> ~srv.pv) /\ sopt.port /\ srv.conn2
      /\ ~None /\ ~Asking /\ cl.err \in Seq(Texts) /\ sdown \in Seq(Texts) /\ pv \in Seq(Texts)
      /\ UNCHANGED <<sopt, cl, kid, cmd, pup, pdown, sup>>
  <2>1. srv.pc = "control" /\ UNCHANGED <<sopt, cl, kid, cmd, pup, pdown, sup>>
    BY DEF ControlErr, ControlDone, ServerOnly
  <2>2. QED
    BY <2>1 DEF RshInv, RshTypes, StageInv, Asking, Client
<1>2. CASE /\ srv.pv /\ pv # <<>> /\ pv' = Tail(pv)
           /\ ~ClientGone /\ sdown' = Append(sdown, Head(pv)) /\ UNCHANGED srv
  <2>1. /\ pv' \in Seq(Texts) /\ sdown' \in Seq(Texts)
        /\ cl.err \o sdown' \o pv' = cl.err \o sdown \o pv
    <3>1. PICK x : x = Head(pv)
      OBVIOUS
    <3>2. x \in Texts
      BY <1>1, <1>2, <3>1
    <3>3. /\ cl.err \o Append(sdown, x) = Append(cl.err \o sdown, x) /\ cl.err \o sdown \in Seq(Texts)
          /\ Append(sdown, x) \in Seq(Texts)
      BY <1>1, <3>2, AddBehind
    <3>4. Append(cl.err \o sdown, x) \o Tail(pv) = cl.err \o sdown \o pv /\ Tail(pv) \in Seq(Texts)
      BY <1>1, <1>2, <3>1, <3>3, Shift
    <3>5. QED
      BY <1>2, <3>1, <3>3, <3>4, Zenon
  <2>2. RshTypes'
    BY <1>1, <1>2, <2>1 DEF RshTypes
  <2>3. InputInv'
    BY <1>1, <1>2 DEF RshInv, InputInv, Asking, None
  <2>4. StageInv'
    BY <1>1, <1>2 DEF RshInv, StageInv, Asking, None, Refusals
  <2>5. PrimaryInv'
    BY <1>1, <1>2 DEF RshInv, PrimaryInv, Asking, None, Waiting, Told, CmdGone, Accepted, Refused
  <2>6. SecondInv'
    BY <1>1, <1>2, <2>1 DEF RshInv, SecondInv, None, Waiting, CmdGone, Piped
  <2>7. QED
    BY <2>2, <2>3, <2>4, <2>5, <2>6 DEF RshInv
<1>3. CASE /\ srv' = SrvExit(srv) /\ sdown' = sdown
           /\ pv' \in Seq(Texts) /\ (~ClientGone => ~srv.pv /\ pv' = pv)
  <2>1. srv' \in Daemon /\ srv'.pc = "exit" /\ srv'.conn2
    BY <1>1, <1>3 DEF SrvExit, Daemon
  <2>2. RshTypes'
    BY <1>1, <1>3, <2>1 DEF RshTypes
  <2>3. InputInv'
    BY <1>1, <2>1 DEF RshInv, InputInv, Asking, None
  <2>4. StageInv'
    BY <1>1, <2>1 DEF RshInv, StageInv, Asking, None, Refusals
  <2>5. PrimaryInv'
    BY <1>1, <2>1 DEF RshInv, PrimaryInv, Asking, None, Waiting, Told, CmdGone, Accepted, Refused
  <2>6. SecondInv'
    BY <1>1, <1>3, <2>1 DEF RshInv, SecondInv, None, Waiting, CmdGone, ClientGone, Piped
  <2>7. QED
    BY <2>2, <2>3, <2>4, <2>5, <2>6 DEF RshInv
<1>4. CASE srv.pv /\ pv = <<>> /\ CmdGone /\ srv' = Shut(srv) /\ UNCHANGED <<pv, sdown>>
  <2>1. srv' \in Daemon /\ srv'.pc = "control" /\ srv'.conn2 /\ ~srv'.pv /\ srv'.shut
    BY <1>1, <1>4 DEF Shut, Daemon
  <2>2. cl.err \o sdown \o pv = cl.err \o sdown
    BY <1>1, <1>4
  <2>3. RshTypes'
    BY <1>1, <1>4, <2>1 DEF RshTypes
  <2>4. InputInv'
    BY <1>1, <2>1 DEF RshInv, InputInv, Asking, None
  <2>5. StageInv'
    BY <1>1, <2>1 DEF RshInv, StageInv, Asking, None, Refusals
  <2>6. PrimaryInv'
    BY <1>1, <2>1 DEF RshInv, PrimaryInv, Asking, None, Waiting, Told, CmdGone, Accepted, Refused
  <2>7. SecondInv'
    BY <1>1, <1>4, <2>1, <2>2 DEF RshInv, SecondInv, None, Waiting, CmdGone, Piped
  <2>8. QED
    BY <2>3, <2>4, <2>5, <2>6, <2>7 DEF RshInv
<1>5. pv # <<>> => Tail(pv) \in Seq(Texts)
  BY <1>1
<1>6. CASE ControlErr
  <2>1. CASE pv # <<>> /\ pv' = Tail(pv) /\ ClientGone /\ srv' = SrvExit(srv) /\ UNCHANGED sdown
    BY <1>3, <1>5, <2>1
  <2>2. QED
    BY <1>2, <1>4, <1>6, <2>1 DEF ControlErr, Eof
<1>7. CASE ControlDone
  BY <1>1, <1>3, <1>7 DEF ControlDone
<1>8. QED
  BY <1>6, <1>7

(* What a step of the command may do: take input, and write one text to the    *)
(* primary connection or, where there is a second one, to the pipe.             *)
Wrote(x) ==
  \/ pdown' = Append(pdown, x) /\ cmd'.rem = Append(cmd.rem, x) /\ pv' = pv /\ cmd'.pipe = cmd.pipe
  \/ sopt.port /\ pv' = Append(pv, x) /\ cmd'.pipe = Append(cmd.pipe, x) /\ pdown' = pdown /\ cmd'.rem = cmd.rem
Silent == pdown' = pdown /\ pv' = pv /\ cmd'.rem = cmd.rem /\ cmd'.pipe = cmd.pipe
Works ==
  /\ cmd.pc \notin {"none", "exit"} /\ CmdOnly
  /\ cmd' \in Command /\ cmd'.pc # "none"
  /\ pup' \in Seq({"port", "strings", "in"}) /\ Len(pup') + cmd'.in <= Len(pup) + cmd.in
  /\ Silent \/ \E x \in Texts : Wrote(x)

LEMMA CommandStep == ASSUME RshInv, Works PROVE RshInv'
<1>1. /\ RshTypes /\ cmd \in Command /\ cmd' \in Command /\ ~None /\ cmd'.pc # "none" /\ ~CmdGone
      /\ UNCHANGED <<sopt, cl, kid, srv, sup, sdown>>
      /\ cl.err \in Seq(Texts) /\ cl.out \in Seq(Texts) /\ sdown \in Seq(Texts) /\ pv \in Seq(Texts) /\ pdown \in Seq(Texts)
      /\ cmd.rem \in Seq(Texts) /\ cmd.pipe \in Seq(Texts)
      /\ pup' \in Seq({"port", "strings", "in"}) /\ Len(pup') + cmd'.in <= Len(pup) + cmd.in
  BY DEF RshInv, RshTypes, Works, CmdOnly, CmdGone, None, Client, Command
<1>2. ~Asking
  BY <1>1 DEF RshInv, InputInv
<1>3. sopt.port /\ cl.pc # "exit" => srv.pc = "control" /\ srv.pv
  BY <1>1, <1>2 DEF RshInv, SecondInv, RshTypes, Daemon, Asking, Piped
<1>4. InputInv'
  <2>1. Len(pup) \in Nat /\ Len(pup') \in Nat /\ cmd.in \in Nat /\ cmd'.in \in Nat /\ kid.n \in Nat
    <3>1. Len(pup) \in Nat /\ Len(pup') \in Nat
      BY <1>1 DEF RshTypes
    <3>2. kid.n \in 0 .. MaxIn
      BY <1>1 DEF RshTypes, Copy
    <3>3. cmd.in \in 0 .. MaxIn /\ cmd'.in \in 0 .. MaxIn
      BY <1>1 DEF Command
    <3>4. QED
      BY <3>1, <3>2, <3>3, RshAssumption
  <2>2. Len(pup) + cmd.in + (IF kid.pc = "write" THEN 1 ELSE 0) <= kid.n
    BY <1>1 DEF RshInv, InputInv
  <2>3. Len(pup') + cmd'.in + (IF kid.pc = "write" THEN 1 ELSE 0) <= kid.n
    <3>1. \A a, b, c, d, w, m \in Nat : a + b + w <= m /\ c + d <= a + b => c + d + w <= m
      OBVIOUS
    <3>2. Len(pup') + cmd'.in <= Len(pup) + cmd.in /\ (IF kid.pc = "write" THEN 1 ELSE 0) \in Nat
      BY <1>1
    <3>3. QED
      BY <2>1, <2>2, <3>1, <3>2
  <2>4. QED
    BY <1>1, <1>2, <2>3 DEF RshInv, InputInv, Asking, None
<1>5. StageInv'
  BY <1>1, <1>2 DEF RshInv, StageInv, Asking, None, Refusals
<1>6. ~(cl.pc = "talk" /\ ~cl.rem) /\ ~(cl.pc = "exit" /\ cl.status = 0)
  BY <1>1 DEF RshInv, PrimaryInv, Accepted, Refused
<1>7. ~(cl.pc = "talk" /\ ~cl.rfd2 /\ sopt.port)
  BY <1>1 DEF RshInv, SecondInv, Piped
<1>8. Waiting => pdown = <<"nul">> \o cmd.rem /\ cl.out = <<>> /\ kid.pc = "none" /\ cl.err = <<>>
  BY <1>1 DEF RshInv, PrimaryInv, SecondInv, Accepted, Refused, Piped
<1>9. cl.pc = "talk" => cl.out \o pdown = cmd.rem
  BY <1>1, <1>6 DEF RshInv, PrimaryInv, Told, Accepted, Refused
<1>10. ~sopt.port => cl.err = <<>> /\ cmd.pipe = <<>> /\ sdown = <<>> /\ pv = <<>>
  BY DEF RshInv, SecondInv, Piped
<1>11. sopt.port /\ cl.pc # "exit" => cl.err \o sdown \o pv = cmd.pipe
  BY <1>3 DEF RshInv, SecondInv, Piped
<1>12. ASSUME /\ pdown' \in Seq(Texts) /\ pv' \in Seq(Texts)
              /\ Waiting => pdown' = <<"nul">> \o cmd'.rem
              /\ cl.pc = "talk" => cl.out \o pdown' = cmd'.rem
              /\ ~sopt.port => cmd'.pipe = <<>> /\ pv' = <<>>
              /\ sopt.port /\ cl.pc # "exit" => cl.err \o sdown \o pv' = cmd'.pipe
       PROVE  RshInv'
  <2>1. RshTypes'
    BY <1>1, <1>12 DEF RshTypes
  <2>2. PrimaryInv'
    <3>1. Waiting => Accepted'
      BY <1>12, Zenon DEF Accepted
    <3>2. QED
      BY <1>1, <1>2, <1>6, <1>8, <1>12, <3>1 DEF PrimaryInv, Asking, None, Waiting, Told
  <2>3. SecondInv'
    <3>1. cl'.pc # "exit" /\ sopt.port => Piped'
      BY <1>1, <1>12, Zenon DEF Piped
    <3>2. QED
      BY <1>1, <1>3, <1>6, <1>7, <1>8, <1>10, <1>12, <3>1 DEF SecondInv, None, Waiting, StageInv, RshInv
  <2>4. QED
    BY <1>4, <1>5, <2>1, <2>2, <2>3 DEF RshInv
<1>13. CASE Silent
  BY <1>1, <1>8, <1>9, <1>10, <1>11, <1>12, <1>13 DEF Silent
<1>14. ASSUME NEW x \in Texts, Wrote(x) PROVE RshInv'
  <2>1. CASE pdown' = Append(pdown, x) /\ cmd'.rem = Append(cmd.rem, x) /\ pv' = pv /\ cmd'.pipe = cmd.pipe
    <3>1. pdown' \in Seq(Texts)
      BY <1>1, <2>1
    <3>2. Waiting => pdown' = <<"nul">> \o cmd'.rem
      <4>1. <<"nul">> \in Seq(Texts)
        BY DEF Texts
      <4>2. <<"nul">> \o Append(cmd.rem, x) = Append(<<"nul">> \o cmd.rem, x)
        BY <1>1, <4>1, AddBehind
      <4>3. QED
        BY <1>8, <2>1, <4>2, Zenon
    <3>3. cl.pc = "talk" => cl.out \o pdown' = cmd'.rem
      <4>0. cl.out \in Seq(Texts) /\ pdown \in Seq(Texts)
        BY <1>1
      <4>1. cl.out \o Append(pdown, x) = Append(cl.out \o pdown, x)
        BY <4>0, AddBehind
      <4>2. QED
        BY <1>9, <2>1, <4>1, Zenon
    <3>4. QED
      BY <1>1, <1>10, <1>11, <1>12, <2>1, <3>1, <3>2, <3>3
  <2>2. CASE sopt.port /\ pv' = Append(pv, x) /\ cmd'.pipe = Append(cmd.pipe, x) /\ pdown' = pdown /\ cmd'.rem = cmd.rem
    <3>1. pv' \in Seq(Texts)
      BY <1>1, <2>2
    <3>2. cl.pc # "exit" => cl.err \o sdown \o pv' = cmd'.pipe
      <4>1. cl.err \o sdown \in Seq(Texts)
        BY <1>1, AddBehind
      <4>2. (cl.err \o sdown) \o Append(pv, x) = Append((cl.err \o sdown) \o pv, x)
        BY <1>1, <4>1, AddBehind
      <4>3. QED
        BY <1>11, <2>2, <4>2, Zenon
    <3>3. QED
      BY <1>1, <1>8, <1>9, <1>12, <2>2, <3>1, <3>2
  <2>3. QED
    BY <1>14, <2>1, <2>2 DEF Wrote
<1>15. QED
  BY <1>13, <1>14 DEF Works

LEMMA CommandSteps == ASSUME RshInv, CmdSetpgid \/ CmdExec \/ CmdRun PROVE RshInv'
<1>1. /\ cmd \in Command /\ cmd.pc \notin {"none", "exit"} /\ CmdOnly
      /\ pup \in Seq({"port", "strings", "in"}) /\ Len(pup) \in Nat /\ cmd.in \in Nat
  <2>1. cmd.in \in 0 .. MaxIn
    BY DEF RshInv, RshTypes, Command
  <2>2. cmd.in \in Nat
    BY <2>1, RshAssumption
  <2>3. QED
    BY <2>2 DEF RshInv, RshTypes, CmdSetpgid, CmdExec, CmdRun
<1>2. "msg" \in Texts /\ "out" \in Texts /\ "err" \in Texts
  BY DEF Texts
<1>3. ASSUME NEW c \in Command, NEW x \in Texts, c.pc # "none", c.in = cmd.in, c.rem = cmd.rem, c.pipe = cmd.pipe,
             Stdout(c, x) \/ Stderr(c, x), UNCHANGED pup
      PROVE  RshInv'
  <2>1. \/ pdown' = Append(pdown, x) /\ cmd' = [c EXCEPT !.rem = Append(@, x)] /\ pv' = pv
        \/ sopt.port /\ pv' = Append(pv, x) /\ cmd' = [c EXCEPT !.pipe = Append(@, x)] /\ pdown' = pdown
    BY <1>3 DEF Stdout, Stderr
  <2>2. Append(c.rem, x) \in Seq(Texts) /\ Append(c.pipe, x) \in Seq(Texts)
    BY <1>3 DEF Command
  <2>3. cmd' \in Command /\ cmd'.pc # "none" /\ cmd'.in = cmd.in
    BY <1>3, <2>1, <2>2 DEF Command
  <2>4. Wrote(x)
    BY <1>3, <2>1 DEF Wrote, Command
  <2>5. Works
    BY <1>1, <1>3, <2>3, <2>4 DEF Works
  <2>6. QED
    BY <2>5, CommandStep
<1>4. ASSUME cmd' \in Command, cmd'.pc # "none", UNCHANGED <<pdown, pv>>, cmd'.rem = cmd.rem, cmd'.pipe = cmd.pipe,
             pup' \in Seq({"port", "strings", "in"}), Len(pup') + cmd'.in <= Len(pup) + cmd.in
      PROVE  RshInv'
  <2>1. Works
    BY <1>1, <1>4 DEF Works, Silent
  <2>2. QED
    BY <2>1, CommandStep
<1>5. ASSUME NEW q \in {"leader", "run", "exit"}, cmd' = [cmd EXCEPT !.pc = q], UNCHANGED <<pup, pdown, pv>>
      PROVE  RshInv'
  <2>1. cmd' \in Command /\ cmd'.pc # "none" /\ cmd'.rem = cmd.rem /\ cmd'.pipe = cmd.pipe /\ cmd'.in = cmd.in
    BY <1>1, <1>5 DEF Command
  <2>2. QED
    BY <1>1, <1>4, <1>5, <2>1
<1>6. CASE CmdSetpgid
  BY <1>5, <1>6 DEF CmdSetpgid
<1>7. CASE CmdExec
  <2>1. CASE Bad("nodir")
    <3>1. PICK q \in {"run", "exit"} : q = (IF sopt.daemon = "rshd" THEN "run" ELSE "exit")
      OBVIOUS
    <3>2. Stderr([cmd EXCEPT !.pc = q], "msg") /\ UNCHANGED pup
      BY <1>7, <2>1, <3>1 DEF CmdExec
    <3>3. PICK c : c = [cmd EXCEPT !.pc = q]
      OBVIOUS
    <3>4. c \in Command /\ c.pc # "none" /\ c.in = cmd.in /\ c.rem = cmd.rem /\ c.pipe = cmd.pipe
      BY <1>1, <3>3 DEF Command
    <3>5. Stderr(c, "msg")
      BY <3>2, <3>3, Zenon
    <3>6. QED
      BY <1>2, <1>3, <3>2, <3>4, <3>5
  <2>2. CASE ~Bad("nodir")
    BY <1>5, <1>7, <2>2 DEF CmdExec
  <2>3. QED
    BY <2>1, <2>2
<1>8. CASE CmdRun
  <2>1. CASE pup # <<>> /\ pup' = Tail(pup) /\ cmd' = [cmd EXCEPT !.in = @ + 1] /\ UNCHANGED <<pdown, pv>>
    <3>1. pup' \in Seq({"port", "strings", "in"}) /\ Len(pup') = Len(pup) - 1 /\ Len(pup) >= 1
      BY <1>1, <2>1
    <3>2. cmd.in + 1 \in 0 .. MaxIn
      <4>1. ~None /\ kid.n \in 0 .. MaxIn
        BY <1>1 DEF None, RshInv, RshTypes, Copy
      <4>2. Len(pup) + cmd.in + (IF kid.pc = "write" THEN 1 ELSE 0) <= kid.n
        BY <4>1 DEF RshInv, InputInv
      <4>3. (IF kid.pc = "write" THEN 1 ELSE 0) \in Nat
        OBVIOUS
      <4>4. \A a, b, w, m, top \in Nat : a >= 1 /\ a + b + w <= m /\ m <= top => b + 1 \in 0 .. top
        OBVIOUS
      <4>5. kid.n \in Nat /\ kid.n <= MaxIn
        BY <4>1, RshAssumption
      <4>6. QED
        BY <1>1, <3>1, <4>2, <4>3, <4>4, <4>5, RshAssumption
    <3>3. /\ cmd' \in Command /\ cmd'.pc # "none" /\ cmd'.in = cmd.in + 1 /\ cmd'.rem = cmd.rem /\ cmd'.pipe = cmd.pipe
      BY <1>1, <2>1, <3>2 DEF Command
    <3>4. Len(pup') + cmd'.in <= Len(pup) + cmd.in
      <4>1. \A a, b \in Nat : (a - 1) + (b + 1) <= a + b
        OBVIOUS
      <4>2. QED
        BY <1>1, <3>1, <3>3, <4>1
    <3>5. QED
      BY <1>4, <2>1, <3>1, <3>3, <3>4
  <2>2. CASE Stdout([cmd EXCEPT !.outs = @ + 1], "out") /\ UNCHANGED pup
    <3>0. cmd.outs + 1 \in Nat
      BY <1>1 DEF Command
    <3>1. PICK c : c = [cmd EXCEPT !.outs = @ + 1]
      OBVIOUS
    <3>2. c \in Command /\ c.pc # "none" /\ c.in = cmd.in /\ c.rem = cmd.rem /\ c.pipe = cmd.pipe
      BY <1>1, <3>0, <3>1 DEF Command
    <3>3. Stdout(c, "out")
      BY <2>2, <3>1, Zenon
    <3>4. QED
      BY <1>2, <1>3, <2>2, <3>2, <3>3
  <2>3. CASE Stderr([cmd EXCEPT !.errs = @ + 1], "err") /\ UNCHANGED pup
    <3>0. cmd.errs + 1 \in Nat
      BY <1>1 DEF Command
    <3>1. PICK c : c = [cmd EXCEPT !.errs = @ + 1]
      OBVIOUS
    <3>2. c \in Command /\ c.pc # "none" /\ c.in = cmd.in /\ c.rem = cmd.rem /\ c.pipe = cmd.pipe
      BY <1>1, <3>0, <3>1 DEF Command
    <3>3. Stderr(c, "err")
      BY <2>3, <3>1, Zenon
    <3>4. QED
      BY <1>2, <1>3, <2>3, <3>2, <3>3
  <2>4. CASE cmd' = [cmd EXCEPT !.pc = "exit"] /\ UNCHANGED <<pup, pdown, pv>>
    BY <1>5, <2>4
  <2>5. QED
    BY <1>8, <2>1, <2>2, <2>3, <2>4 DEF CmdRun
<1>9. QED
  BY <1>6, <1>7, <1>8

LEMMA RshStutters == ASSUME RshInv, UNCHANGED rshvars PROVE RshInv'
<1>1. UNCHANGED <<sopt, cl, kid, srv, cmd, pup, pdown, sup, sdown, pv>>
  BY DEF rshvars
<1>2. RshTypes'
  BY <1>1 DEF RshInv, RshTypes
<1>3. InputInv'
  BY <1>1 DEF RshInv, InputInv, Asking, None
<1>4. StageInv'
  BY <1>1 DEF RshInv, StageInv, Asking, None, Refusals
<1>5. PrimaryInv'
  BY <1>1 DEF RshInv, PrimaryInv, Asking, None, Waiting, Told, CmdGone, Accepted, Refused, Refusals, rshd_error
<1>6. SecondInv'
  BY <1>1 DEF RshInv, SecondInv, None, Waiting, CmdGone, Piped
<1>7. QED
  BY <1>2, <1>3, <1>4, <1>5, <1>6 DEF RshInv

LEMMA RshKeeps == ASSUME RshInv, [RshNext]_rshvars PROVE RshInv'
<1>1. CASE ClientStep
  BY <1>1, ConnectSteps, TryStep, AcceptStep, VerdictStep, TalkErrStep, TalkOutStep, TalkDoneStep DEF ClientStep
<1>2. CASE KidStep \/ KidRead
  BY <1>2, KidSteps DEF KidStep
<1>3. CASE sendsig \/ ClientKilled
  BY <1>3, SignalSteps
<1>4. CASE DaemonStep \/ DoitAlarm
  BY <1>4, AskSteps, StringsStep, PassSignal, RelaySteps DEF DaemonStep
<1>5. CASE CmdStep \/ CmdRun
  BY <1>5, CommandSteps DEF CmdStep
<1>6. CASE UNCHANGED rshvars
  BY <1>6, RshStutters
<1>7. QED
  BY <1>1, <1>2, <1>3, <1>4, <1>5, <1>6 DEF RshNext

(* rsh that ends by itself with status 0 has shown all that the command wrote,   *)
(* on both outputs and in order, or the reason why there was none; the verdict    *)
(* it went on with is true (talk 665-724 of rsh.c, doit 892-1005 of rshd.c).      *)
THEOREM RshIsSafe == RshSpec => []RshSafe
<1>1. RshInv => RshSafe
  <2> SUFFICES ASSUME RshInv PROVE RshSafe
    OBVIOUS
  <2>1. RshTypeOK
    <3>1. cmd.in \in 0 .. MaxIn
      BY DEF RshInv, RshTypes, Command
    <3>2. cmd.in <= MaxIn
      BY <3>1, RshAssumption
    <3>3. QED
      BY <3>2 DEF RshInv, RshTypes, Client, Copy, Daemon, Command, RshTypeOK
  <2>2. RshOutputWhole
    BY DEF RshInv, PrimaryInv, SecondInv, Told, None, RshOutputWhole
  <2>3. RshVerdict
    BY DEF RshInv, StageInv, None, RshVerdict
  <2>4. QED
    BY <2>1, <2>2, <2>3 DEF RshSafe
<1>2. QED
  BY RshStart, RshKeeps, <1>1, PTL DEF RshSpec
=============================================================================
