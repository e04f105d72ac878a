--------------------------- MODULE SyslogProofs ---------------------------
(***************************************************************************)
(* Proofs about module Syslog: no message is lost by the suppression of    *)
(* repeated lines, and the daemon crashes only where CrashCauses says, for *)
(* every configuration and any number of messages, failures and signals.   *)
(***************************************************************************)
EXTENDS Syslog, WellFoundedInduction, TLAPS

----------------------------------------------------------------------------
(* Shapes.  The values of fields that no argument looks into are left open. *)
IsEntry(f) ==
  f = [kind |-> f.kind, name |-> f.name, mask |-> f.mask, age |-> f.age, prevline |-> f.prevline,
       prevhost |-> f.prevhost, prevpri |-> f.prevpri, prevcount |-> f.prevcount, rep |-> f.rep, freed |-> f.freed]

IsFrame(x) == x = [op |-> x.op, i |-> x.i, ph |-> x.ph, m |-> x.m]

IsDaemon(x) ==
  x = [up |-> x.up, at |-> x.at, files |-> x.files, stack |-> x.stack, initialized |-> x.initialized,
       restart |-> x.restart, reenter |-> x.reenter, seen |-> x.seen, was |-> x.was, markseq |-> x.markseq,
       alarm |-> x.alarm, slow |-> x.slow, conf |-> x.conf]

IsReader(o) == o = [last |-> o.last, owed |-> o.owed, wrong |-> o.wrong]

Values(s) == {s[i] : i \in DOMAIN s}
IsSeq(s) == s \in Seq(Values(s))

IsOut(o) == o = [n \in Names |-> o[n]] /\ \A n \in Names : IsReader(o[n])
IsFiles(s) == IsSeq(s) /\ \A i \in DOMAIN s : IsEntry(s[i])
IsStack(s) == IsSeq(s) /\ \A p \in DOMAIN s : IsFrame(s[p])

IsTurn(t) ==
  /\ t = [d |-> t.d, out |-> t.out, lost |-> t.lost] /\ IsDaemon(t.d) /\ IsOut(t.out)
  /\ IsFiles(t.d.files) /\ IsStack(t.d.stack)

(* What the arguments use of the other fields of the daemon. *)
SameRest(r, t) ==
  r.d.up = t.d.up /\ r.d.at = t.d.at /\ r.d.initialized = t.d.initialized /\ r.d.was = t.d.was /\ r.d.conf = t.d.conf

----------------------------------------------------------------------------
(* The invariant, over a turn.  An entry counts only what it has a host for *)
(* (the count of a host that is not known yet is of retries).               *)
EntryOK(f) ==
  /\ f.kind \in Kinds /\ f.rep \in 0..MaxRepeat /\ f.prevcount \in Nat /\ f.freed \in BOOLEAN
  /\ f.prevcount > 0 /\ f.prevhost = NoHost => f.kind = "UNKN"

FilesOK(t) ==
  /\ t.d.conf \in Confs \cup {DefaultConf, <<>>}
  /\ \A j \in DOMAIN t.d.files :
       EntryOK(t.d.files[j]) /\ j \in DOMAIN t.d.conf /\ t.d.files[j].name = t.d.conf[j].name

Live(t) == Tracked \ t.lost

(* The file of an entry is not followed any more. *)
Dead(t, j) == j \in DOMAIN t.d.files /\ t.d.files[j].name \notin Live(t)

(* o is what the reader of the file of entry f knows. *)
Followed(f, o) ==
  /\ f.kind \in Files /\ ~o.wrong /\ o.owed = Owed(f)
  /\ f.prevcount > 0 => f.prevline # ""
  /\ f.prevline # "" /\ f.prevhost # NoHost => o.last = Said(f.prevline, f.prevhost)

OutOK(t) ==
  \A n \in Live(t) :
    /\ ~t.out[n].wrong
    /\ \A j \in DOMAIN t.d.files : t.d.files[j].name = n => Followed(t.d.files[j], t.out[n])
    /\ (\A j \in DOMAIN t.d.files : t.d.files[j].name # n) => t.out[n].owed = <<>>

Settled(t, j) == t.d.files[j].name \in Live(t) => t.d.files[j].prevcount = 0

LastWord(t, j) ==
  t.d.files[j].name \in Live(t) /\ t.d.files[j].prevcount > 0
    => Said(t.d.files[j].prevline, t.d.files[j].prevhost) \in LastWords

(* What is said after die has flushed the entries. *)
Own(x) == "MARK" \in x.m.flags \/ Said(x.m.text, x.m.host) \in LastWords

GoodMsg(m) == m.host # NoHost /\ m.text \notin {"", Null, Repeated}

Ended(s) == \E p \in DOMAIN s : s[p].op = "die"
Bye(s) == \E p \in DOMAIN s : s[p].op = "die" /\ s[p].ph = "bye"

(* A frame is at place p of the stack.  logmsg does nothing but write to   *)
(* the console while no configuration is in use; between the flush of an   *)
(* entry and the line that follows nothing is counted for it.              *)
LogOK(t, p, x) ==
  /\ x.i \in Nat \ {0} /\ x.ph \in {"look", "save", "backoff"}
  /\ GoodMsg(x.m) \/ (p = 1 /\ 2 \in DOMAIN t.d.stack /\ t.d.stack[2].op = "die")
  /\ ~t.d.initialized => x.i = 1 /\ x.ph = "look"
  /\ x.ph # "look" => x.i \in DOMAIN t.d.files
  /\ x.ph = "save" /\ t.d.files[x.i].name \in Live(t) => p = Len(t.d.stack) /\ t.d.files[x.i].prevcount = 0

MarkOK(t, p, x) ==
  /\ x.i \in Nat \ {0} /\ x.ph \in {"mark", "flush", "backoff"}
  /\ x.ph = "backoff" => x.i \in DOMAIN t.d.files

(* What die and init have passed is settled and stays so. *)
DieOK(t, p, x) ==
  /\ x.i \in Nat \ {0} /\ x.ph \in {"flush", "bye"}
  /\ p = 1 \/ (p = 2 /\ t.d.stack[1].op = "log")
  /\ x.ph = "flush" => ~t.d.initialized /\ \A j \in DOMAIN t.d.files : j < x.i => Settled(t, j)
  /\ x.ph = "bye" => /\ \A j \in DOMAIN t.d.files : LastWord(t, j)
                     /\ \A q \in DOMAIN t.d.stack : q > p /\ t.d.stack[q].op = "log" => Own(t.d.stack[q])

InitOK(t, p, x) ==
  /\ x.i \in Nat \ {0} /\ x.ph \in {"start", "flush", "free", "read", "done"} /\ p = 1
  /\ x.ph = "start" => x.i = 1
  /\ x.ph = "flush" => x.i = 1 \/ ~t.d.initialized
  /\ x.ph = "flush" => \A j \in DOMAIN t.d.files : j < x.i => Settled(t, j)
  /\ x.ph = "free" => /\ ~t.d.initialized /\ x.i \in DOMAIN t.d.files
                      /\ \A j \in DOMAIN t.d.files : j <= x.i => Settled(t, j)
  /\ x.ph = "read" => /\ ~t.d.initialized /\ x.i = Len(t.d.files) + 1
                      /\ \A j \in DOMAIN t.d.files : ~t.d.files[j].freed

FrameOK(t, p, x) ==
  /\ x.op \in {"log", "mark", "die", "init", "walled", "reset"}
  /\ x.op = "reset" => Dead(t, x.i)
  /\ x.op = "log" => LogOK(t, p, x)
  /\ x.op = "mark" => MarkOK(t, p, x)
  /\ x.op = "die" => DieOK(t, p, x)
  /\ x.op = "init" => InitOK(t, p, x)

StackOK(t) == \A p \in DOMAIN t.d.stack : FrameOK(t, p, t.d.stack[p])

(* Entries are freed only while no configuration is in use, and not while  *)
(* die may bring it back.                                                  *)
UseOK(t) ==
  /\ t.d.up \in {"up", "exit", "crash"} /\ t.d.at \in {"loop", "poll", "woken"} /\ t.d.initialized \in BOOLEAN /\ t.d.was \in BOOLEAN
  /\ t.d.up # "up" => t.d.stack = <<>>
  /\ t.d.initialized \/ t.d.was => \A j \in DOMAIN t.d.files : ~t.d.files[j].freed
  /\ t.d.was => t.d.up # "up" \/ Ended(t.d.stack)

EndOK(t) ==
  /\ t.d.up = "crash" =>
       \E j \in DOMAIN t.d.files : t.d.files[j].freed \/ (t.d.files[j].kind = "UNKN" /\ t.d.files[j].prevhost = NoHost)
  /\ t.d.up = "exit" => \A n \in Live(t) : \A k \in DOMAIN t.out[n].owed : t.out[n].owed[k] \in LastWords

Good(t) == IsTurn(t) /\ FilesOK(t) /\ OutOK(t) /\ StackOK(t) /\ UseOK(t) /\ EndOK(t)

(* fprintlog has written a line to a followed file and the count of its    *)
(* entry is still to be reset: the state is good once that is done.  What  *)
(* a handler would write twice is either counted, or it is a message that  *)
(* logmsg, in which only SIGTERM comes, has just written.                  *)
Owes(t) ==
  /\ t.d.stack # <<>> /\ Top(t).op = "reset" /\ Top(t).i \in DOMAIN t.d.files
  /\ t.d.files[Top(t).i].name \in Live(t)

Clean(t) == IF Owes(t) THEN reset(t) ELSE t

Half(t) ==
  /\ IsTurn(t) /\ EntryOK(t.d.files[Top(t).i]) /\ t.d.files[Top(t).i].kind # "UNKN"
  /\ t.d.files[Top(t).i].prevcount > 0 \/ \E p \in DOMAIN t.d.stack : t.d.stack[p].op = "log"

Sound(t) == Good(Clean(t)) /\ (Owes(t) => Half(t))

----------------------------------------------------------------------------
(* Sequences of any values.  r is s with g after it; s is r with a last    *)
(* element more.                                                           *)
Extended(s, g, r) ==
  /\ IsSeq(r) /\ Len(r) = Len(s) + 1 /\ DOMAIN r = DOMAIN s \cup {Len(r)} /\ r[Len(r)] = g
  /\ \A j \in DOMAIN s : r[j] = s[j]

Shortened(s, r) ==
  /\ IsSeq(r) /\ Len(r) = Len(s) - 1 /\ DOMAIN s = DOMAIN r \cup {Len(s)} /\ Len(s) \notin DOMAIN r
  /\ \A j \in DOMAIN r : r[j] = s[j]

LEMMA SeqDomain ==
  ASSUME NEW s, IsSeq(s)
  PROVE  Len(s) \in Nat /\ DOMAIN s = 1..Len(s)
  BY DEF IsSeq

LEMMA OpenSeq ==
  ASSUME NEW S, NEW s \in Seq(S)
  PROVE  IsSeq(s)
  <1>1. s \in Seq(Values(s))
    BY DEF Values
  <1> QED BY <1>1 DEF IsSeq

LEMMA FunSeq ==
  ASSUME NEW n \in Nat, NEW f, f = [i \in 1..n |-> f[i]]
  PROVE  IsSeq(f)
  <1>1. f \in [1..n -> Values(f)]
    BY DEF Values
  <1> QED BY <1>1 DEF IsSeq

LEMMA SeqSet ==
  ASSUME NEW s, IsSeq(s), NEW i \in DOMAIN s, NEW g, NEW r, r = [s EXCEPT ![i] = g]
  PROVE  /\ IsSeq(r) /\ DOMAIN r = DOMAIN s /\ Len(r) = Len(s) /\ r[i] = g
         /\ \A j \in DOMAIN s : j # i => r[j] = s[j]
  <1>1. Len(s) \in Nat /\ DOMAIN s = 1..Len(s)
    BY SeqDomain
  <1>2. s \in Seq(Values(s) \cup {g}) /\ g \in Values(s) \cup {g}
    BY DEF IsSeq
  <1>3. r \in Seq(Values(s) \cup {g}) /\ DOMAIN r = DOMAIN s /\ Len(r) = Len(s)
    BY <1>1, <1>2
  <1>4. r[i] = g /\ \A j \in DOMAIN s : j # i => r[j] = s[j]
    BY <1>1, <1>2
  <1>5. IsSeq(r)
    BY <1>3, OpenSeq
  <1> QED BY <1>3, <1>4, <1>5

LEMMA SeqAppend ==
  ASSUME NEW s, IsSeq(s), NEW g, NEW r, r = Append(s, g)
  PROVE  Extended(s, g, r)
  <1>1. Len(s) \in Nat /\ DOMAIN s = 1..Len(s)
    BY SeqDomain
  <1>2. s \in Seq(Values(s) \cup {g}) /\ g \in Values(s) \cup {g}
    BY DEF IsSeq
  <1>3. /\ r \in Seq(Values(s) \cup {g}) /\ Len(r) = Len(s) + 1
        /\ r[Len(r)] = g /\ \A j \in DOMAIN s : r[j] = s[j]
    BY <1>1, <1>2
  <1>4. DOMAIN r = 1..Len(r)
    BY <1>3
  <1>5. DOMAIN r = DOMAIN s \cup {Len(r)}
    BY <1>1, <1>3, <1>4
  <1>6. IsSeq(r)
    BY <1>3, OpenSeq
  <1> QED BY <1>3, <1>5, <1>6 DEF Extended

LEMMA AppendTwo ==
  ASSUME NEW x, NEW y
  PROVE  Append(<<y>>, x) = <<y, x>>
  <1>1. PICK r, s : r = Append(<<y>>, x) /\ s = <<y, x>>
    OBVIOUS
  <1>2. <<y>> \in Seq({x, y}) /\ Len(<<y>>) = 1
    OBVIOUS
  <1>3. r \in Seq({x, y}) /\ Len(r) = 2 /\ r[1] = y /\ r[2] = x
    BY <1>1, <1>2
  <1>4. s \in Seq({x, y}) /\ Len(s) = 2 /\ s[1] = y /\ s[2] = x
    BY <1>1
  <1>5. r = s
    BY <1>3, <1>4
  <1> QED BY <1>1, <1>5

LEMMA FrontAppend ==
  ASSUME NEW s, IsSeq(s), NEW x
  PROVE  Front(Append(s, x)) = s
  <1>1. PICK r, q : r = Append(s, x) /\ q = Front(r)
    OBVIOUS
  <1>2. Len(s) \in Nat /\ s \in Seq(Values(s) \cup {x}) /\ x \in Values(s) \cup {x}
    BY SeqDomain DEF IsSeq
  <1>3. r \in Seq(Values(s) \cup {x}) /\ Len(r) = Len(s) + 1 /\ \A j \in 1..Len(s) : r[j] = s[j]
    BY <1>1, <1>2
  <1>4. q \in Seq(Values(s) \cup {x}) /\ Len(q) = Len(s) /\ \A j \in 1..Len(s) : q[j] = s[j]
    BY <1>1, <1>2, <1>3 DEF Front
  <1>5. q = s
    BY <1>2, <1>4
  <1> QED BY <1>1, <1>5

LEMMA SeqFront ==
  ASSUME NEW s, IsSeq(s), s # <<>>, NEW r, r = Front(s)
  PROVE  Shortened(s, r)
  <1>1. Len(s) \in Nat \ {0} /\ DOMAIN s = 1..Len(s)
    BY DEF IsSeq
  <1>2. /\ r \in Seq(Values(s)) /\ Len(r) = Len(s) - 1 /\ \A j \in 1..Len(r) : r[j] = s[j]
    BY <1>1 DEF Front, IsSeq
  <1>3. DOMAIN r = 1..Len(r)
    BY <1>2
  <1>4. DOMAIN s = DOMAIN r \cup {Len(s)} /\ Len(s) \notin DOMAIN r
    BY <1>1, <1>2, <1>3
  <1>5. IsSeq(r)
    BY <1>2, OpenSeq
  <1> QED BY <1>2, <1>3, <1>4, <1>5 DEF Shortened

----------------------------------------------------------------------------
(* What the operators on a turn change.                                    *)
LEMMA SetFacts ==
  ASSUME NEW t, IsTurn(t), NEW i \in DOMAIN t.d.files, NEW g, IsEntry(g), NEW r, r = Set(t, i, g)
  PROVE  /\ IsTurn(r) /\ r.out = t.out /\ r.lost = t.lost /\ r.d.stack = t.d.stack /\ SameRest(r, t)
         /\ Len(r.d.files) = Len(t.d.files) /\ DOMAIN r.d.files = DOMAIN t.d.files /\ r.d.files[i] = g
         /\ \A j \in DOMAIN t.d.files : j # i => r.d.files[j] = t.d.files[j]
  <1>1. /\ r = [d |-> r.d, out |-> r.out, lost |-> r.lost] /\ r.out = t.out /\ r.lost = t.lost
        /\ IsDaemon(r.d) /\ r.d.stack = t.d.stack /\ SameRest(r, t) /\ r.d.files = [t.d.files EXCEPT ![i] = g]
    BY DEF Set, IsTurn, IsDaemon, SameRest
  <1>2. /\ IsSeq(r.d.files) /\ Len(r.d.files) = Len(t.d.files) /\ DOMAIN r.d.files = DOMAIN t.d.files
        /\ r.d.files[i] = g /\ \A j \in DOMAIN t.d.files : j # i => r.d.files[j] = t.d.files[j]
    BY <1>1, SeqSet DEF IsTurn, IsFiles
  <1>3. IsFiles(r.d.files)
    BY <1>2 DEF IsTurn, IsFiles
  <1> QED BY <1>1, <1>2, <1>3 DEF IsTurn

LEMMA SetTopFacts ==
  ASSUME NEW t, IsTurn(t), t.d.stack # <<>>, NEW fr, IsFrame(fr), NEW r, r = SetTop(t, fr)
  PROVE  /\ IsTurn(r) /\ r.out = t.out /\ r.lost = t.lost /\ r.d.files = t.d.files /\ SameRest(r, t)
         /\ r.d.stack # <<>> /\ Len(r.d.stack) = Len(t.d.stack) /\ DOMAIN r.d.stack = DOMAIN t.d.stack /\ Top(r) = fr
         /\ \A p \in DOMAIN t.d.stack : p # Len(t.d.stack) => r.d.stack[p] = t.d.stack[p]
  <1> DEFINE n == Len(t.d.stack)
  <1>0. n \in DOMAIN t.d.stack /\ n # 0
    BY DEF IsTurn, IsStack, IsSeq
  <1>1. /\ r = [d |-> r.d, out |-> r.out, lost |-> r.lost] /\ r.out = t.out /\ r.lost = t.lost
        /\ IsDaemon(r.d) /\ r.d.files = t.d.files /\ SameRest(r, t) /\ r.d.stack = [t.d.stack EXCEPT ![n] = fr]
    BY DEF SetTop, IsTurn, IsDaemon, SameRest
  <1>2. /\ IsSeq(r.d.stack) /\ Len(r.d.stack) = n /\ DOMAIN r.d.stack = DOMAIN t.d.stack
        /\ r.d.stack[n] = fr /\ \A j \in DOMAIN t.d.stack : j # n => r.d.stack[j] = t.d.stack[j]
    BY <1>0, <1>1, SeqSet DEF IsTurn, IsStack
  <1>3. IsStack(r.d.stack)
    BY <1>2 DEF IsTurn, IsStack
  <1>4. r.d.stack # <<>>
    BY <1>0, <1>2
  <1> QED BY <1>1, <1>2, <1>3, <1>4 DEF IsTurn, Top, Last

LEMMA PushFacts ==
  ASSUME NEW t, IsTurn(t), NEW fr, IsFrame(fr), NEW r, r = Push(t, fr)
  PROVE  /\ IsTurn(r) /\ r.out = t.out /\ r.lost = t.lost /\ r.d.files = t.d.files /\ SameRest(r, t)
         /\ r.d.stack = Append(t.d.stack, fr)
         /\ r.d.stack # <<>> /\ Len(r.d.stack) = Len(t.d.stack) + 1 /\ DOMAIN r.d.stack = DOMAIN t.d.stack \cup {Len(r.d.stack)}
         /\ Top(r) = fr /\ \A p \in DOMAIN t.d.stack : r.d.stack[p] = t.d.stack[p]
  <1>0. IsSeq(t.d.stack)
    BY DEF IsTurn, IsStack
  <1>1. /\ r = [d |-> r.d, out |-> r.out, lost |-> r.lost] /\ r.out = t.out /\ r.lost = t.lost
        /\ IsDaemon(r.d) /\ r.d.files = t.d.files /\ SameRest(r, t) /\ r.d.stack = Append(t.d.stack, fr)
    BY DEF Push, IsTurn, IsDaemon, SameRest
  <1>a. Extended(t.d.stack, fr, r.d.stack)
    BY <1>0, <1>1, SeqAppend
  <1>2. /\ IsSeq(r.d.stack) /\ Len(r.d.stack) = Len(t.d.stack) + 1 /\ DOMAIN r.d.stack = DOMAIN t.d.stack \cup {Len(r.d.stack)}
        /\ r.d.stack[Len(r.d.stack)] = fr /\ \A j \in DOMAIN t.d.stack : r.d.stack[j] = t.d.stack[j]
    BY <1>a DEF Extended
  <1>3. IsStack(r.d.stack)
    BY <1>2 DEF IsTurn, IsStack
  <1>4. r.d.stack # <<>>
    BY <1>2
  <1> QED BY <1>1, <1>2, <1>3, <1>4 DEF IsTurn, Top, Last

LEMMA PushPop ==
  ASSUME NEW t, IsTurn(t), NEW fr, IsFrame(fr), NEW q, IsTurn(q), q.d.stack = Push(t, fr).d.stack
  PROVE  Pop(q).d.stack = t.d.stack
  <1>1. q.d.stack = Append(t.d.stack, fr) /\ IsSeq(t.d.stack)
    BY PushFacts DEF IsTurn, IsStack
  <1>2. Pop(q).d.stack = Front(q.d.stack)
    BY DEF Pop, IsTurn, IsDaemon
  <1> QED BY <1>1, <1>2, FrontAppend

LEMMA PopStack ==
  ASSUME NEW t, IsTurn(t)
  PROVE  Pop(t).d.stack = Front(t.d.stack)
  BY DEF Pop, IsTurn, IsDaemon

LEMMA PopFacts ==
  ASSUME NEW t, IsTurn(t), t.d.stack # <<>>, NEW r, r = Pop(t)
  PROVE  /\ IsTurn(r) /\ r.out = t.out /\ r.lost = t.lost /\ r.d.files = t.d.files /\ SameRest(r, t)
         /\ Len(r.d.stack) = Len(t.d.stack) - 1 /\ DOMAIN t.d.stack = DOMAIN r.d.stack \cup {Len(t.d.stack)}
         /\ Len(t.d.stack) \notin DOMAIN r.d.stack
         /\ \A p \in DOMAIN r.d.stack : r.d.stack[p] = t.d.stack[p]
  <1>0. IsSeq(t.d.stack)
    BY DEF IsTurn, IsStack
  <1>1. /\ r = [d |-> r.d, out |-> r.out, lost |-> r.lost] /\ r.out = t.out /\ r.lost = t.lost
        /\ IsDaemon(r.d) /\ r.d.files = t.d.files /\ SameRest(r, t) /\ r.d.stack = Front(t.d.stack)
    BY DEF Pop, IsTurn, IsDaemon, SameRest
  <1>a. Shortened(t.d.stack, r.d.stack)
    BY <1>0, <1>1, SeqFront
  <1>2. /\ IsSeq(r.d.stack) /\ Len(r.d.stack) = Len(t.d.stack) - 1 /\ DOMAIN t.d.stack = DOMAIN r.d.stack \cup {Len(t.d.stack)}
        /\ Len(t.d.stack) \notin DOMAIN r.d.stack /\ \A j \in DOMAIN r.d.stack : r.d.stack[j] = t.d.stack[j]
    BY <1>a DEF Shortened
  <1>3. IsStack(r.d.stack)
    BY <1>2 DEF IsTurn, IsStack
  <1> QED BY <1>1, <1>2, <1>3 DEF IsTurn

LEMMA LoseFacts ==
  ASSUME NEW t, IsTurn(t), NEW n, NEW r, r = Lose(t, n)
  PROVE  IsTurn(r) /\ r.out = t.out /\ r.lost = t.lost \cup {n} /\ r.d = t.d
  BY DEF Lose, IsTurn

----------------------------------------------------------------------------
(* What a reader concludes.                                                *)
LEMMA TrackedNames == Tracked \subseteq Names
  BY DEF Tracked

(* Nothing owed. *)
LEMMA OwedNone ==
  ASSUME NEW f, f.prevcount = 0
  PROVE  Owed(f) = <<>>
  <1>1. 1..f.prevcount = {}
    OBVIOUS
  <1>2. Owed(f) = [k \in {} |-> Said(f.prevline, f.prevhost)]
    BY <1>1 DEF Owed
  <1> QED BY <1>2

Times(x, c) == [k \in 1..c |-> x]

LEMMA Constant ==
  ASSUME NEW c \in Nat, NEW x
  PROVE  LET s == Times(x, c)
         IN  s \in Seq({x}) /\ Len(s) = c /\ SubSeq(s, 1, c) = s /\ SubSeq(s, c + 1, c) = <<>>
  <1> DEFINE s == [k \in 1..c |-> x]
  <1>1. s \in Seq({x}) /\ Len(s) = c
    OBVIOUS
  <1>2. SubSeq(s, 1, c) = s
    <2>1. SubSeq(s, 1, c) \in Seq({x}) /\ Len(SubSeq(s, 1, c)) = c
      BY <1>1
    <2>2. \A k \in 1..c : SubSeq(s, 1, c)[k] = s[k]
      BY <1>1, <2>1
    <2> QED BY <1>1, <2>1, <2>2
  <1>3. SubSeq(s, c + 1, c) = <<>>
    BY <1>1
  <1> QED BY <1>1, <1>2, <1>3 DEF Times

(* A line that stands for all that is owed. *)
LEMMA HeardAll ==
  ASSUME NEW o, IsReader(o), NEW x, NEW c \in Nat \ {0}, NEW line, line.n = c,
         o.owed = Times(x, c), Copies(o, line) = Times(x, c)
  PROVE  Heard(o, line) = [last |-> x, owed |-> <<>>, wrong |-> o.wrong]
  <1>0. PICK s : s = Times(x, c)
    OBVIOUS
  <1>1. s \in Seq({x}) /\ Len(s) = c /\ SubSeq(s, 1, c) = s /\ SubSeq(s, c + 1, c) = <<>>
    BY <1>0, Constant
  <1>2. IsPrefix(s, s)
    BY <1>1 DEF IsPrefix
  <1>3. s[c] = x /\ Last(s) = s[c]
    BY <1>0, <1>1 DEF Last, Times
  <1>4. Heard(o, line) = [[o EXCEPT !.last = x] EXCEPT !.owed = SubSeq(@, c + 1, Len(@))]
    BY <1>0, <1>2, <1>3, Zenon DEF Heard
  <1>5. [o EXCEPT !.last = x].owed = s
    BY <1>0 DEF IsReader
  <1>6. Heard(o, line) = [[o EXCEPT !.last = x] EXCEPT !.owed = <<>>]
    BY <1>1, <1>4, <1>5
  <1> QED BY <1>6 DEF IsReader

LEMMA HeardReader ==
  ASSUME NEW o, IsReader(o), NEW line
  PROVE  IsReader(Heard(o, line)) /\ IsReader([o EXCEPT !.last = Last(Copies(o, line))])
  <1>1. \A z, x : IsReader(z) => IsReader([z EXCEPT !.last = x])
    BY DEF IsReader
  <1>2. \A z, x : IsReader(z) => IsReader([z EXCEPT !.owed = x])
    BY DEF IsReader
  <1>3. \A z, x : IsReader(z) => IsReader([z EXCEPT !.wrong = x])
    BY DEF IsReader
  <1> QED BY <1>1, <1>2, <1>3, Zenon DEF Heard

LEMMA WriteFacts ==
  ASSUME NEW t, IsTurn(t), NEW name, NEW line, NEW r, r = Write(t, name, line)
  PROVE  /\ IsTurn(r) /\ r.d = t.d /\ r.lost = t.lost
         /\ \A n \in Names : n # name => r.out[n] = t.out[n]
         /\ name \in Live(t) => r.out[name] = Heard(t.out[name], line)
  <1> DEFINE new == IF name \in Tracked \ t.lost THEN Heard(t.out[name], line)
                    ELSE [t.out[name] EXCEPT !.last = Last(Copies(t.out[name], line))]
  <1>1. PICK g : g = new
    OBVIOUS
  <1>2. r = [t EXCEPT !.out[name] = g]
    BY <1>1 DEF Write
  <1>3. /\ r = [d |-> r.d, out |-> r.out, lost |-> r.lost] /\ r.d = t.d /\ r.lost = t.lost
        /\ r.out = [t.out EXCEPT ![name] = g]
    BY <1>2 DEF IsTurn
  <1>4. name \in Names => IsReader(g)
    BY <1>1, HeardReader DEF IsTurn, IsOut
  <1>5. /\ r.out = [n \in Names |-> r.out[n]]
        /\ \A n \in Names : r.out[n] = IF n = name THEN g ELSE t.out[n]
    BY <1>3 DEF IsTurn, IsOut
  <1>6. IsOut(r.out)
    BY <1>4, <1>5 DEF IsTurn, IsOut
  <1>7. name \in Live(t) => r.out[name] = Heard(t.out[name], line)
    BY <1>1, <1>5, TrackedNames DEF Live
  <1> QED BY <1>3, <1>5, <1>6, <1>7 DEF IsTurn

----------------------------------------------------------------------------
(* fprintlog.  A frame that a failure puts on the stack.                   *)
NewLog(x) == x.op = "log" /\ x.i = 1 /\ x.ph = "look" /\ GoodMsg(x.m) /\ Own(x)
NewFrame(x) == x.op = "walled" \/ NewLog(x)

Pushed(s, r) ==
  /\ \A p \in DOMAIN s : p \in DOMAIN r /\ r[p] = s[p]
  /\ \A q \in DOMAIN r : q \notin DOMAIN s => NewFrame(r[q])

(* The same with frames of fprintlog for entry i.                          *)
Stacked(s, r, i) ==
  /\ \A p \in DOMAIN s : p \in DOMAIN r /\ r[p] = s[p]
  /\ \A q \in DOMAIN r : q \notin DOMAIN s => NewFrame(r[q]) \/ (r[q].op = "reset" /\ r[q].i = i)

Alike(g, f) == g.name = f.name /\ g.prevline = f.prevline /\ g.prevhost = f.prevhost /\ g.rep = f.rep /\ g.freed = f.freed

(* Only entry i, what its file was told and the end of the stack changed.  *)
Touched(t, r, i) ==
  /\ IsTurn(r) /\ SameRest(r, t) /\ t.lost \subseteq r.lost
  /\ DOMAIN r.d.files = DOMAIN t.d.files /\ Alike(r.d.files[i], t.d.files[i])
  /\ \A j \in DOMAIN t.d.files : j # i => r.d.files[j] = t.d.files[j]
  /\ Stacked(t.d.stack, r.d.stack, i)
  /\ \A n \in Live(r) : n # t.d.files[i].name => r.out[n] = t.out[n]
  /\ t.d.files[i].name \in Live(r) => r.d.stack = t.d.stack

(* A line was given to the destination of entry i. *)
Service(t, r, i, line) ==
  /\ Touched(t, r, i)
  /\ r.d.files[i].kind \in Kinds /\ r.d.files[i].prevcount \in Nat
  /\ t.d.files[i].name \in Live(r) =>
       /\ r.d.files[i].kind = t.d.files[i].kind /\ r.d.files[i].prevcount = t.d.files[i].prevcount
       /\ r.out[t.d.files[i].name] = Heard(t.out[t.d.files[i].name], line)

LEMMA OwnWords ==
  ASSUME NEW text \in {"exiting", "write", "sendto", "tty"}, NEW x, x = LogFrame(Message("syslog", 1, text, LocalHostName, {}))
  PROVE  IsFrame(x) /\ NewLog(x)
  <1>1. /\ x.op = "log" /\ x.i = 1 /\ x.ph = "look" /\ x.m.text = text /\ x.m.host = LocalHostName
        /\ x = [op |-> "log", i |-> 1, ph |-> "look", m |-> x.m]
    BY DEF LogFrame, Message
  <1>2. GoodMsg(x.m)
    BY <1>1, SyslogAssumption DEF GoodMsg, Null, Repeated
  <1>3. Own(x)
    BY <1>1 DEF Own, LastWords
  <1> QED BY <1>1, <1>2, <1>3 DEF IsFrame, NewLog

LEMMA PushedOne ==
  ASSUME NEW t, IsTurn(t), NEW x, IsFrame(x), NewFrame(x), NEW r, r = Push(t, x)
  PROVE  Pushed(t.d.stack, r.d.stack)
  BY PushFacts DEF Pushed

LEMMA PushedTwo ==
  ASSUME NEW s, NEW q, NEW r, Pushed(s, q), Pushed(q, r)
  PROVE  Pushed(s, r)
  BY DEF Pushed

LEMMA PushedNone ==
  ASSUME NEW s
  PROVE  Pushed(s, s)
  BY DEF Pushed

LEMMA StackedNone ==
  ASSUME NEW s, NEW i
  PROVE  Stacked(s, s, i)
  BY DEF Stacked

LEMMA StackedPushed ==
  ASSUME NEW s, NEW q, NEW r, NEW i, Stacked(s, q, i), Pushed(q, r)
  PROVE  Stacked(s, r, i)
  BY DEF Stacked, Pushed

LEMMA StackedTwo ==
  ASSUME NEW s, NEW q, NEW r, NEW i, Stacked(s, q, i), Stacked(q, r, i)
  PROVE  Stacked(s, r, i)
  BY DEF Stacked

(* What syslogd says about itself goes on top. *)
LEMMA logerrorFacts ==
  ASSUME NEW t, IsTurn(t), NEW text \in {"exiting", "write", "sendto", "tty"}, NEW r, r = logerror(t, text)
  PROVE  /\ IsTurn(r) /\ r.out = t.out /\ r.lost = t.lost /\ r.d.files = t.d.files /\ SameRest(r, t)
         /\ Pushed(t.d.stack, r.d.stack) /\ Len(r.d.stack) = Len(t.d.stack) + 1
         /\ DOMAIN r.d.stack = DOMAIN t.d.stack \cup {Len(r.d.stack)} /\ NewLog(Top(r))
  <1>1. PICK x : x = LogFrame(Message("syslog", 1, text, LocalHostName, {}))
    OBVIOUS
  <1>2. r = Push(t, x)
    BY <1>1 DEF logerror
  <1>3. IsFrame(x) /\ NewLog(x) /\ NewFrame(x)
    BY <1>1, OwnWords DEF NewFrame
  <1>4. Pushed(t.d.stack, r.d.stack)
    BY <1>2, <1>3, PushedOne
  <1> QED BY <1>2, <1>3, <1>4, PushFacts

(* An entry was set, and perhaps its file lost. *)
LEMMA TouchedSet ==
  ASSUME NEW t, IsTurn(t), NEW i \in DOMAIN t.d.files, NEW g, IsEntry(g), Alike(g, t.d.files[i]), NEW r, r = Set(t, i, g)
  PROVE  Touched(t, r, i) /\ r.d.files[i] = g /\ r.out = t.out /\ r.lost = t.lost /\ r.d.stack = t.d.stack
  BY SetFacts, StackedNone DEF Touched

(* The ways a line can go: written, lost with its file, or not for a file  *)
(* that is followed.                                                       *)
Replaces(g, f) == IsEntry(g) /\ Alike(g, f) /\ g.kind \in Kinds /\ g.prevcount \in Nat

LEMMA Written ==
  ASSUME NEW t, IsTurn(t), NEW i \in DOMAIN t.d.files, NEW f, f = t.d.files[i], NEW g, Replaces(g, f),
         f.name \in Live(t) => g.kind = f.kind /\ g.prevcount = f.prevcount, NEW line, NEW r, r = Write(Set(t, i, g), f.name, line)
  PROVE  Service(t, r, i, line)
  <1>1. PICK u : u = Set(t, i, g)
    OBVIOUS
  <1>2. Touched(t, u, i) /\ u.d.files[i] = g /\ u.out = t.out /\ u.lost = t.lost /\ u.d.stack = t.d.stack /\ IsTurn(u)
    BY <1>1, TouchedSet DEF Replaces, Touched
  <1>3. /\ IsTurn(r) /\ r.d = u.d /\ r.lost = u.lost
        /\ \A n \in Names : n # f.name => r.out[n] = u.out[n]
        /\ f.name \in Live(u) => r.out[f.name] = Heard(u.out[f.name], line)
    BY <1>1, <1>2, WriteFacts
  <1>4. Live(u) = Live(t) /\ Live(r) = Live(t) /\ Live(t) \subseteq Names
    BY <1>2, <1>3, TrackedNames DEF Live
  <1>5. Touched(t, r, i)
    BY <1>2, <1>3, <1>4, SMTT(30), ZenonT(60) DEF Touched, SameRest
  <1> QED BY <1>2, <1>3, <1>4, <1>5 DEF Service, Replaces

LEMMA LostLine ==
  ASSUME NEW t, IsTurn(t), NEW i \in DOMAIN t.d.files, NEW f, f = t.d.files[i], NEW g, Replaces(g, f),
         NEW line, NEW r, r = Lose(Set(t, i, g), f.name)
  PROVE  Service(t, r, i, line) /\ f.name \notin Live(r)
  <1>1. PICK u : u = Set(t, i, g)
    OBVIOUS
  <1>2. Touched(t, u, i) /\ u.d.files[i] = g /\ u.out = t.out /\ u.lost = t.lost /\ u.d.stack = t.d.stack /\ IsTurn(u)
    BY <1>1, TouchedSet DEF Replaces, Touched
  <1>3. IsTurn(r) /\ r.out = u.out /\ r.lost = u.lost \cup {f.name} /\ r.d = u.d
    BY <1>1, <1>2, LoseFacts
  <1>4. f.name \notin Live(r) /\ Live(r) \subseteq Live(t)
    BY <1>2, <1>3 DEF Live
  <1>5. Touched(t, r, i)
    BY <1>2, <1>3, <1>4 DEF Touched, SameRest
  <1> QED BY <1>2, <1>3, <1>4, <1>5 DEF Service, Replaces

LEMMA FailedLine ==
  ASSUME NEW t, IsTurn(t), NEW i \in DOMAIN t.d.files, NEW f, f = t.d.files[i], NEW g, Replaces(g, f),
         NEW line, NEW text \in {"exiting", "write", "sendto", "tty"}, NEW r, r = logerror(Lose(Set(t, i, g), f.name), text)
  PROVE  Service(t, r, i, line)
  <1>1. PICK u : u = Lose(Set(t, i, g), f.name)
    OBVIOUS
  <1>a. Service(t, u, i, line) /\ f.name \notin Live(u)
    BY <1>1, LostLine
  <1>2. Service(t, u, i, line) /\ f.name \notin Live(u) /\ IsTurn(u)
    BY <1>a DEF Service, Touched
  <1>3. /\ IsTurn(r) /\ r.out = u.out /\ r.lost = u.lost /\ r.d.files = u.d.files /\ SameRest(r, u)
        /\ Pushed(u.d.stack, r.d.stack)
    <2>1. r = logerror(u, text)
      BY <1>1
    <2> QED BY <1>2, <2>1, logerrorFacts
  <1>4. Live(r) = Live(u)
    BY <1>3 DEF Live
  <1>5. Stacked(t.d.stack, r.d.stack, i)
    BY <1>2, <1>3, StackedPushed DEF Service, Touched
  <1>6. Touched(t, r, i)
    BY <1>2, <1>3, <1>4, <1>5, ZenonT(60) DEF Service, Touched, SameRest
  <1> QED BY <1>2, <1>3, <1>4, <1>6 DEF Service

LEMMA LeftOut ==
  ASSUME NEW t, IsTurn(t), NEW i \in DOMAIN t.d.files, NEW f, f = t.d.files[i], NEW g, Replaces(g, f), f.name \notin Live(t),
         NEW line, NEW r, r = Set(t, i, g)
  PROVE  Service(t, r, i, line)
  <1>2. Touched(t, r, i) /\ r.d.files[i] = g /\ r.lost = t.lost
    BY TouchedSet DEF Replaces
  <1> QED BY <1>2 DEF Service, Replaces, Live

LEMMA Kept ==
  ASSUME NEW f, IsEntry(f), f.kind \in Kinds, f.prevcount \in Nat
  PROVE  /\ Replaces([f EXCEPT !.age = 0], f) /\ [f EXCEPT !.age = 0].kind = f.kind
         /\ \A k \in Kinds : /\ Replaces([f EXCEPT !.kind = k], f) /\ Replaces([f EXCEPT !.age = 0, !.kind = k], f)
                             /\ [f EXCEPT !.age = 0, !.kind = k].kind = k
  <1>1. Replaces([f EXCEPT !.age = 0], f) /\ [f EXCEPT !.age = 0].kind = f.kind
    BY DEF Replaces, IsEntry, Alike
  <1>2. ASSUME NEW k \in Kinds PROVE Replaces([f EXCEPT !.kind = k], f)
    BY DEF Replaces, IsEntry, Alike
  <1>3. ASSUME NEW k \in Kinds
        PROVE  Replaces([f EXCEPT !.age = 0, !.kind = k], f) /\ [f EXCEPT !.age = 0, !.kind = k].kind = k
    <2>1. PICK g : g = [f EXCEPT !.age = 0]
      OBVIOUS
    <2>2. [f EXCEPT !.age = 0, !.kind = k] = [g EXCEPT !.kind = k]
      BY <2>1, Zenon
    <2>3. Replaces(g, f)
      BY <1>1, <2>1
    <2>4. Replaces([g EXCEPT !.kind = k], f) /\ [g EXCEPT !.kind = k].kind = k
      BY <2>3 DEF Replaces, IsEntry, Alike
    <2> QED BY <2>2, <2>4, Zenon
  <1> QED BY <1>1, <1>2, <1>3, Zenon

LEMMA ForwardServes ==
  ASSUME NEW t, IsTurn(t), NEW i \in DOMAIN t.d.files, NEW f, f = t.d.files[i], IsEntry(f), f.kind \in Kinds, f.prevcount \in Nat,
         f.name \notin Live(t), NEW from, NEW line, NEW ok, NEW r, r = Forward(t, i, from, line, ok)
  PROVE  Service(t, r, i, line)
  <1> DEFINE sent(k) == [f EXCEPT !.age = 0, !.kind = k]
  <1>1. {"FORW", "SUSP"} \subseteq Kinds
    BY DEF Kinds
  <1>2. PICK a, b, c : a = [f EXCEPT !.kind = "FORW"] /\ b = sent("FORW") /\ c = sent("SUSP")
    OBVIOUS
  <1>3. Replaces(a, f) /\ Replaces(b, f) /\ Replaces(c, f)
    BY <1>1, <1>2, Kept
  <1>4. r \in {Set(t, i, a), Write(Set(t, i, b), f.name, line), logerror(Lose(Set(t, i, c), f.name), "sendto")}
    BY <1>2 DEF Forward
  <1> HIDE DEF sent
  <1>5. CASE r = Set(t, i, a)
    BY <1>3, <1>5, LeftOut
  <1>6. CASE r = Write(Set(t, i, b), f.name, line)
    BY <1>3, <1>6, Written
  <1>7. CASE r = logerror(Lose(Set(t, i, c), f.name), "sendto")
    <2>1. PICK text \in {"exiting", "write", "sendto", "tty"} : text = "sendto"
      OBVIOUS
    <2>2. r = logerror(Lose(Set(t, i, c), f.name), text)
      BY <1>7, <2>1
    <2> QED BY <1>3, <2>2, FailedLine
  <1> QED BY <1>4, <1>5, <1>6, <1>7

LEMMA WriteFileServes ==
  ASSUME NEW t, IsTurn(t), NEW i \in DOMAIN t.d.files, NEW f, f = t.d.files[i], IsEntry(f), f.kind \in Kinds, f.prevcount \in Nat,
         NEW line, NEW e, NEW r, r = WriteFile(t, i, line, e)
  PROVE  Service(t, r, i, line)
  <1>1. "UNUSED" \in Kinds
    BY DEF Kinds
  <1>0. PICK k \in Kinds : k = f.kind
    OBVIOUS
  <1>2. PICK a : a = [f EXCEPT !.age = 0, !.kind = k]
    OBVIOUS
  <1>a. PICK b : b = [f EXCEPT !.age = 0, !.kind = "UNUSED"]
    OBVIOUS
  <1>b. Replaces(a, f)
    BY <1>2, Kept
  <1>d. a.kind = k /\ a.prevcount = f.prevcount
    BY <1>2 DEF IsEntry
  <1>c. Replaces(b, f)
    BY <1>1, <1>a, Kept
  <1>3. Replaces(a, f) /\ Replaces(b, f) /\ a.kind = f.kind /\ a.prevcount = f.prevcount
    BY <1>0, <1>b, <1>c, <1>d
  <1>4. r \in {Write(Set(t, i, a), f.name, line), Lose(Set(t, i, a), f.name), logerror(Lose(Set(t, i, b), f.name), "write")}
    BY <1>0, <1>2, <1>a DEF WriteFile
  <1>5. CASE r = Write(Set(t, i, a), f.name, line)
    BY <1>3, <1>5, Written
  <1>6. CASE r = Lose(Set(t, i, a), f.name)
    BY <1>3, <1>6, LostLine
  <1>7. CASE r = logerror(Lose(Set(t, i, b), f.name), "write")
    <2>1. PICK text \in {"exiting", "write", "sendto", "tty"} : text = "write"
      OBVIOUS
    <2>2. r = logerror(Lose(Set(t, i, b), f.name), text)
      BY <1>7, <2>1
    <2> QED BY <1>3, <2>2, FailedLine
  <1> QED BY <1>4, <1>5, <1>6, <1>7

(* The frame that marks a message to users, and then the one of the error. *)
LEMMA wallmsgServes ==
  ASSUME NEW t, IsTurn(t), NEW i \in DOMAIN t.d.files, NEW f, f = t.d.files[i], IsEntry(f), f.kind \in Kinds, f.prevcount \in Nat,
         f.name \notin Live(t), NEW line, NEW ok, NEW r, r = wallmsg(t, i, line, ok)
  PROVE  Service(t, r, i, line)
  <1>1. PICK a, x : a = [f EXCEPT !.age = 0] /\ x = [op |-> "walled", i |-> 0, ph |-> "", m |-> NoMsg]
    OBVIOUS
  <1>2. Replaces(a, f) /\ IsFrame(x) /\ NewFrame(x)
    BY <1>1, Kept DEF IsFrame, NewFrame
  <1>3. PICK u : u = Write(Set(t, i, a), f.name, line)
    OBVIOUS
  <1>4. Service(t, u, i, line) /\ IsTurn(u)
    <2>1. Service(t, u, i, line)
      BY <1>2, <1>3, Written
    <2> QED BY <2>1 DEF Service, Touched
  <1>5. r \in {Set(t, i, a), u, logerror(Push([u EXCEPT !.d.reenter = TRUE], x), "tty")}
    BY <1>1, <1>3 DEF wallmsg
  <1>6. CASE r = Set(t, i, a)
    BY <1>2, <1>6, LeftOut
  <1>7. CASE r = logerror(Push([u EXCEPT !.d.reenter = TRUE], x), "tty")
    <2>0. PICK text \in {"exiting", "write", "sendto", "tty"} : text = "tty"
      OBVIOUS
    <2>1. PICK v : v = [u EXCEPT !.d.reenter = TRUE]
      OBVIOUS
    <2>a. PICK w : w = Push(v, x)
      OBVIOUS
    <2>2. /\ IsTurn(v) /\ v.out = u.out /\ v.lost = u.lost /\ v.d.files = u.d.files /\ v.d.stack = u.d.stack /\ SameRest(v, u)
      BY <1>4, <2>1 DEF IsTurn, IsDaemon, SameRest
    <2>3. /\ IsTurn(w) /\ w.out = v.out /\ w.lost = v.lost /\ w.d.files = v.d.files /\ SameRest(w, v)
          /\ Pushed(v.d.stack, w.d.stack)
      <3>1. Pushed(v.d.stack, w.d.stack)
        BY <1>2, <2>a, <2>2, PushedOne
      <3>2. IsTurn(w) /\ w.out = v.out /\ w.lost = v.lost /\ w.d.files = v.d.files /\ SameRest(w, v)
        BY <1>2, <2>a, <2>2, PushFacts
      <3> QED BY <3>1, <3>2, Zenon
    <2>4. r = logerror(w, text)
      BY <1>7, <2>0, <2>1, <2>a, Zenon
    <2>5. /\ IsTurn(r) /\ r.out = w.out /\ r.lost = w.lost /\ r.d.files = w.d.files /\ SameRest(r, w)
          /\ Pushed(w.d.stack, r.d.stack)
      BY <2>3, <2>4, logerrorFacts
    <2>6. Pushed(u.d.stack, r.d.stack)
      BY <2>2, <2>3, <2>5, PushedTwo
    <2>7. Stacked(t.d.stack, r.d.stack, i)
      BY <1>4, <2>6, StackedPushed DEF Service, Touched
    <2>8. r.out = u.out /\ r.lost = u.lost /\ r.d.files = u.d.files /\ SameRest(r, u) /\ Live(r) = Live(u)
      BY <2>2, <2>3, <2>5 DEF SameRest, Live
    <2>9. f.name \notin Live(r)
      BY <1>4, <2>8 DEF Service, Touched, Live
    <2>10. Touched(t, r, i)
      BY <1>4, <2>5, <2>7, <2>8, <2>9 DEF Service, Touched, SameRest
    <2> QED BY <1>4, <2>8, <2>9, <2>10 DEF Service
  <1> QED BY <1>4, <1>5, <1>6, <1>7

LEMMA TouchedTwo ==
  ASSUME NEW t, NEW u, NEW r, NEW i, i \in DOMAIN t.d.files, Touched(t, u, i), Touched(u, r, i), t.d.files[i].name \notin Live(u)
  PROVE  Touched(t, r, i) /\ t.d.files[i].name \notin Live(r)
  <1>1. Stacked(t.d.stack, r.d.stack, i)
    BY StackedTwo DEF Touched
  <1>2. Live(r) \subseteq Live(u)
    BY DEF Touched, Live
  <1> QED BY <1>1, <1>2, SMTT(30), ZenonT(60) DEF Touched, Alike, SameRest

(* What fprintlog does when it has a host and the entry is there: the      *)
(* entry of a followed file counts nothing any more, and its reader heard  *)
(* the line.                                                               *)
Printed(t, r, i, line) ==
  /\ Touched(t, r, i) /\ EntryOK(r.d.files[i]) /\ Settled(r, i)
  /\ t.d.files[i].name \in Live(r) =>
       r.d.files[i].kind = t.d.files[i].kind /\ r.out[t.d.files[i].name] = Heard(t.out[t.d.files[i].name], line)

LEMMA LiveKinds == Files \subseteq Kinds /\ "UNKN" \notin Files
  BY DEF Files, Kinds

LEMMA ServedServes ==
  ASSUME NEW t, IsTurn(t), NEW i \in DOMAIN t.d.files, NEW f, f = t.d.files[i], EntryOK(f), f.name \in Live(t) => f.kind \in Files,
         NEW from, NEW msg, NEW e, NEW u, u = Served(t, i, from, msg, e), NEW line, line = LineOf(f, msg)
  PROVE  Service(t, u, i, line)
  <1> DEFINE F == t.d.files[i]
             a == [F EXCEPT !.age = 0]
             b == [F EXCEPT !.kind = "FORW", !.prevcount = 0]
             c == IF F.prevcount = 0 THEN [F EXCEPT !.kind = "UNUSED"] ELSE [F EXCEPT !.prevcount = @ - 1]
             over == F.age >= SuspendTime
  <1>1. u = CASE F.kind = "UNUSED" -> Set(t, i, a)
              [] F.kind = "SUSP" -> IF over THEN Forward(t, i, from, LineOf(F, msg), e = "ok") ELSE t
              [] F.kind = "UNKN" ->
                   IF ~over THEN t ELSE IF e = "ok" THEN Forward(Set(t, i, b), i, from, LineOf(F, msg), TRUE) ELSE Set(t, i, c)
              [] F.kind = "FORW" -> Forward(t, i, from, LineOf(F, msg), e = "ok")
              [] F.kind \in Files \cup {"CONSOLE"} -> WriteFile(t, i, LineOf(F, msg), e)
              [] F.kind = "WALL" -> wallmsg(t, i, LineOf(F, msg), e = "ok")
    BY Zenon DEF Served
  <1>3. IsEntry(f) /\ f.kind \in Kinds /\ f.prevcount \in Nat
    BY DEF IsTurn, IsFiles, EntryOK
  <1>a. f.name \notin Live(t) => Service(t, t, i, line)
    BY <1>3, StackedNone DEF Service, Touched, SameRest, Alike
  <1>4. CASE f.kind = "UNUSED"
    <2>1. Replaces(a, f) /\ f.name \notin Live(t)
      BY <1>3, <1>4, Kept DEF Files
    <2>2. u = Set(t, i, a)
      BY <1>1, <1>4 DEF Files
    <2> QED BY <2>1, <2>2, LeftOut
  <1>5. CASE f.kind = "SUSP"
    <2>1. f.name \notin Live(t)
      BY <1>5 DEF Files
    <2>2. u = t \/ u = Forward(t, i, from, line, e = "ok")
      BY <1>1, <1>5 DEF Files
    <2> QED BY <1>3, <1>a, <2>1, <2>2, ForwardServes
  <1>6. CASE f.kind = "UNKN"
    <2>1. f.name \notin Live(t)
      BY <1>6 DEF Files
    <2>2. u = t \/ u = Forward(Set(t, i, b), i, from, line, TRUE) \/ u = Set(t, i, c)
      BY <1>1, <1>6 DEF Files
    <2>3. CASE u = Set(t, i, c)
      <3>1. Replaces(c, f)
        <4>1. CASE f.prevcount = 0
          BY <1>3, <4>1, Kept DEF Kinds
        <4>2. CASE f.prevcount # 0
          <5>1. f.prevcount - 1 \in Nat
            BY <1>3, <4>2
          <5> QED BY <1>3, <4>2, <5>1 DEF Replaces, IsEntry, Alike
        <4> QED BY <4>1, <4>2
      <3> QED BY <2>1, <2>3, <3>1, LeftOut
    <2>4. CASE u = Forward(Set(t, i, b), i, from, line, TRUE)
      <3>1. PICK v, g : v = Set(t, i, b) /\ g = b
        OBVIOUS
      <3>2. Replaces(g, f)
        <4>1. PICK h : h = [f EXCEPT !.kind = "FORW"]
          OBVIOUS
        <4>2. Replaces(h, f)
          BY <1>3, <4>1, Kept DEF Kinds
        <4>3. g = [h EXCEPT !.prevcount = 0]
          BY <3>1, <4>1, Zenon
        <4> QED BY <4>2, <4>3 DEF Replaces, IsEntry, Alike
      <3>3. Touched(t, v, i) /\ v.d.files[i] = g /\ v.lost = t.lost
        BY <3>1, <3>2, TouchedSet DEF Replaces
      <3>4. IsTurn(v) /\ i \in DOMAIN v.d.files /\ g.name = f.name /\ g.name \notin Live(v) /\ f.name \notin Live(v)
        BY <2>1, <3>2, <3>3 DEF Touched, Replaces, Alike, Live
      <3>5. Service(v, u, i, line)
        BY <2>4, <3>1, <3>2, <3>3, <3>4, ForwardServes DEF Replaces
      <3>6. Touched(t, u, i) /\ f.name \notin Live(u)
        BY <3>3, <3>4, <3>5, TouchedTwo DEF Service
      <3> QED BY <3>5, <3>6 DEF Service
    <2> QED BY <1>a, <2>1, <2>2, <2>3, <2>4
  <1>7. CASE f.kind = "FORW"
    <2>1. f.name \notin Live(t)
      BY <1>7 DEF Files
    <2>2. u = Forward(t, i, from, line, e = "ok")
      BY <1>1, <1>7 DEF Files
    <2> QED BY <1>3, <2>1, <2>2, ForwardServes
  <1>8. CASE f.kind \in Files \cup {"CONSOLE"}
    <2>1. u = WriteFile(t, i, line, e)
      BY <1>1, <1>8 DEF Files
    <2> QED BY <1>3, <2>1, WriteFileServes
  <1>9. CASE f.kind = "WALL"
    <2>1. f.name \notin Live(t)
      BY <1>9 DEF Files
    <2>2. u = wallmsg(t, i, line, e = "ok")
      BY <1>1, <1>9 DEF Files
    <2> QED BY <1>3, <2>1, <2>2, wallmsgServes
  <1> QED BY <1>3, <1>4, <1>5, <1>6, <1>7, <1>8, <1>9 DEF Kinds

(* Before the count is reset: the entry is as it was, and so is the stack  *)
(* below.                                                                  *)
Halfway(t, q, i) ==
  /\ IsTurn(q) /\ Top(q).i = i /\ EntryOK(q.d.files[i]) /\ q.d.files[i].kind # "UNKN"
  /\ q.d.files[i].prevcount = t.d.files[i].prevcount
  /\ \A p \in DOMAIN t.d.stack : p \in DOMAIN q.d.stack /\ q.d.stack[p] = t.d.stack[p]

LEMMA CleanOwing ==
  ASSUME NEW q, Owes(q), NEW i, i = Top(q).i, NEW g, g = q.d.files[i], g.kind # "UNKN"
  PROVE  Clean(q) = Set(Pop(q), i, [g EXCEPT !.prevcount = 0])
  BY Zenon DEF Clean, reset

(* After its service, an entry whose file is not followed any more. *)
LEMMA ServedDead ==
  ASSUME NEW t, IsTurn(t), NEW i \in DOMAIN t.d.files, NEW f, f = t.d.files[i], EntryOK(f), f.prevhost # NoHost,
         NEW fr, IsFrame(fr), fr.op = "reset", fr.i = i, NEW v, v = Push(t, fr), NEW line, NEW q, Service(v, q, i, line),
         f.name \notin Live(q)
  PROVE  Printed(t, q, i, line) /\ ~Owes(q)
  <1>1. /\ IsTurn(v) /\ v.out = t.out /\ v.lost = t.lost /\ v.d.files = t.d.files /\ SameRest(v, t)
        /\ DOMAIN v.d.stack = DOMAIN t.d.stack \cup {Len(v.d.stack)} /\ v.d.stack[Len(v.d.stack)] = fr
        /\ Len(v.d.stack) = Len(t.d.stack) + 1 /\ \A p \in DOMAIN t.d.stack : v.d.stack[p] = t.d.stack[p]
    BY PushFacts DEF Top, Last
  <1>2. Touched(v, q, i)
    BY DEF Service
  <1>3. Stacked(t.d.stack, q.d.stack, i)
    <2>1. Stacked(t.d.stack, v.d.stack, i)
      BY <1>1 DEF Stacked
    <2> QED BY <1>2, <2>1, StackedTwo DEF Touched
  <1>4. IsTurn(q) /\ SameRest(q, t) /\ t.lost \subseteq q.lost
    BY <1>1, <1>2 DEF Touched, SameRest
  <1>5. Touched(t, q, i)
    BY <1>1, <1>2, <1>3, <1>4 DEF Touched
  <1>6. EntryOK(q.d.files[i]) /\ Settled(q, i) /\ q.d.files[i].name = f.name
    <2>1. PICK g : g = q.d.files[i]
      OBVIOUS
    <2>2. g.kind \in Kinds /\ g.prevcount \in Nat /\ Alike(g, f)
      BY <1>5, <2>1 DEF Service, Touched
    <2> QED BY <2>1, <2>2 DEF EntryOK, Alike, Settled
  <1>7. ~Owes(q)
    <2> SUFFICES ASSUME Owes(q) PROVE FALSE
      OBVIOUS
    <2>1. PICK n : n = Len(q.d.stack)
      OBVIOUS
    <2>2. n \in DOMAIN q.d.stack /\ n \in Nat /\ DOMAIN q.d.stack = 1..n /\ Top(q) = q.d.stack[n]
      BY <1>4, <2>1, SeqDomain DEF IsTurn, IsStack, IsSeq, Owes, Top, Last
    <2>3. n \notin DOMAIN t.d.stack
      <3>1. PICK k, l \in Nat : DOMAIN t.d.stack = 1..k /\ DOMAIN v.d.stack = 1..l /\ l = Len(v.d.stack) /\ l = k + 1
        BY <1>1, SeqDomain DEF IsTurn, IsStack
      <3>2. l \in DOMAIN q.d.stack
        BY <1>2, <3>1 DEF Touched, Stacked
      <3> QED BY <2>2, <3>1, <3>2
    <2>4. Top(q).i = i
      BY <1>3, <2>2, <2>3 DEF Owes, Stacked, NewFrame, NewLog
    <2> QED BY <1>6, <2>4 DEF Owes
  <1> QED BY <1>5, <1>6, <1>7 DEF Printed

(* One that is followed: nothing is logged, and the frame is on top. *)
LEMMA ServedLive ==
  ASSUME NEW t, IsTurn(t), NEW i \in DOMAIN t.d.files, NEW f, f = t.d.files[i], EntryOK(f), f.kind \in Files, f.prevhost # NoHost,
         NEW fr, IsFrame(fr), fr.op = "reset", fr.i = i, NEW v, v = Push(t, fr), NEW line, NEW q, Service(v, q, i, line),
         f.name \in Live(q), NEW r, r = Clean(q)
  PROVE  Printed(t, r, i, line) /\ Owes(q) /\ Halfway(t, q, i)
  <1>1. /\ IsTurn(v) /\ v.out = t.out /\ v.lost = t.lost /\ v.d.files = t.d.files /\ SameRest(v, t)
        /\ v.d.stack # <<>> /\ Top(v) = fr
        /\ DOMAIN v.d.stack = DOMAIN t.d.stack \cup {Len(v.d.stack)} /\ \A p \in DOMAIN t.d.stack : v.d.stack[p] = t.d.stack[p]
    BY PushFacts
  <1>2. PICK g : g = q.d.files[i]
    OBVIOUS
  <1>3. /\ IsTurn(q) /\ SameRest(q, v) /\ v.lost \subseteq q.lost /\ DOMAIN q.d.files = DOMAIN v.d.files /\ Alike(g, f)
        /\ \A j \in DOMAIN v.d.files : j # i => q.d.files[j] = v.d.files[j]
        /\ \A n \in Live(q) : n # f.name => q.out[n] = v.out[n]
        /\ q.d.stack = v.d.stack
    BY <1>1, <1>2 DEF Service, Touched
  <1>4. g.kind = f.kind /\ g.prevcount = f.prevcount /\ g.name = f.name /\ q.out[f.name] = Heard(t.out[f.name], line)
    BY <1>1, <1>2, <1>3 DEF Service, Alike
  <1>5. Top(q) = fr
    BY <1>1, <1>3 DEF Top
  <1>6. Owes(q)
    BY <1>1, <1>2, <1>3, <1>4, <1>5 DEF Owes
  <1>7. EntryOK(g) /\ g.kind # "UNKN" /\ IsEntry(g)
    BY <1>1, <1>2, <1>3, <1>4, LiveKinds DEF EntryOK, Alike, IsTurn, IsFiles
  <1>8. Halfway(t, q, i)
    BY <1>1, <1>2, <1>3, <1>4, <1>5, <1>7 DEF Halfway
  <1>9. PICK w, h : w = Pop(q) /\ h = [g EXCEPT !.prevcount = 0]
    OBVIOUS
  <1>10. r = Set(w, i, h)
    BY <1>2, <1>5, <1>6, <1>7, <1>9, CleanOwing
  <1>11. IsEntry(h) /\ Alike(h, g) /\ h.prevcount = 0 /\ h.kind = g.kind
    BY <1>7, <1>9 DEF IsEntry, Alike
  <1>12. IsTurn(w) /\ w.out = q.out /\ w.lost = q.lost /\ w.d.files = q.d.files /\ SameRest(w, q)
    BY <1>1, <1>3, <1>9, PopFacts
  <1>13. w.d.stack = t.d.stack
    BY <1>3, <1>9, PushPop
  <1>14. /\ IsTurn(r) /\ r.out = w.out /\ r.lost = w.lost /\ r.d.stack = w.d.stack /\ SameRest(r, w)
         /\ DOMAIN r.d.files = DOMAIN w.d.files /\ r.d.files[i] = h
         /\ \A j \in DOMAIN w.d.files : j # i => r.d.files[j] = w.d.files[j]
    BY <1>1, <1>3, <1>10, <1>11, <1>12, SetFacts
  <1>15. Live(r) = Live(q)
    BY <1>12, <1>14 DEF Live
  <1>16. Touched(t, r, i)
    <2>1. Alike(h, f)
      BY <1>3, <1>11 DEF Alike
    <2>2. SameRest(r, t) /\ t.lost \subseteq r.lost
      BY <1>1, <1>3, <1>12, <1>14 DEF SameRest
    <2> QED BY <1>1, <1>3, <1>12, <1>13, <1>14, <1>15, <2>1, <2>2, StackedNone DEF Touched
  <1>17. EntryOK(h) /\ Settled(r, i)
    BY <1>7, <1>11, <1>14 DEF EntryOK, Alike, Settled
  <1> QED BY <1>4, <1>6, <1>8, <1>11, <1>12, <1>14, <1>16, <1>17 DEF Printed

LEMMA fprintlogPrints ==
  ASSUME NEW t, IsTurn(t), NEW i \in DOMAIN t.d.files, NEW f, f = t.d.files[i], EntryOK(f), f.name \in Live(t) => f.kind \in Files,
         NEW from, NEW msg, NEW e, NEW q, q = fprintlog(t, i, from, msg, e), NEW r, r = Clean(q), NEW line, line = LineOf(f, msg),
         f.prevhost # NoHost, ~f.freed
  PROVE  Printed(t, r, i, line) /\ (Owes(q) => Halfway(t, q, i))
  <1>1. PICK fr : fr = [op |-> "reset", i |-> i, ph |-> "", m |-> NoMsg]
    OBVIOUS
  <1>2. PICK v : v = Push(t, fr)
    OBVIOUS
  <1>3. IsFrame(fr) /\ fr.op = "reset" /\ fr.i = i
    BY <1>1 DEF IsFrame
  <1>4. q = Served(v, i, from, msg, e)
    <2>1. ~(t.d.files[i].prevhost = NoHost \/ t.d.files[i].freed)
      OBVIOUS
    <2> QED BY <1>1, <1>2, <2>1, Zenon DEF fprintlog
  <1>5. IsTurn(v) /\ v.lost = t.lost /\ v.d.files = t.d.files
    BY <1>2, <1>3, PushFacts
  <1>6. Live(v) = Live(t)
    BY <1>5 DEF Live
  <1>7. Service(v, q, i, line)
    BY <1>4, <1>5, <1>6, ServedServes
  <1>8. Live(q) \subseteq Live(t)
    BY <1>6, <1>7 DEF Service, Touched, Live
  <1>9. CASE f.name \in Live(q)
    BY <1>2, <1>3, <1>7, <1>8, <1>9, ServedLive
  <1>10. CASE f.name \notin Live(q)
    <2>1. Printed(t, q, i, line) /\ ~Owes(q)
      BY <1>2, <1>3, <1>7, <1>10, ServedDead
    <2> QED BY <2>1 DEF Clean
  <1> QED BY <1>9, <1>10

----------------------------------------------------------------------------
(* A followed file has one entry at most. *)
LEMMA OneEntry ==
  ASSUME NEW t, FilesOK(t), NEW j \in DOMAIN t.d.files, NEW k \in DOMAIN t.d.files,
         t.d.files[j].name = t.d.files[k].name, t.d.files[j].name \in Tracked
  PROVE  j = k
  <1>1. PICK c : c = t.d.conf
    OBVIOUS
  <1>2. c \in Confs \cup {DefaultConf, <<>>} /\ j \in DOMAIN c /\ k \in DOMAIN c /\ c[j].name = c[k].name /\ c[j].name \in Tracked
    BY <1>1 DEF FilesOK
  <1>3. CASE c \in Confs
    BY <1>2, <1>3 DEF Tracked
  <1>4. CASE c = DefaultConf
    <2>1. DOMAIN c = {1, 2} /\ c[1].name = "console" /\ c[2].name = "users"
      BY <1>4 DEF DefaultConf
    <2>2. "console" \notin Tracked /\ "users" \notin Tracked
      BY DEF Tracked
    <2> QED BY <1>2, <2>1, <2>2
  <1>5. CASE c = <<>>
    BY <1>2, <1>5
  <1> QED BY <1>2, <1>3, <1>4, <1>5

(* What a function that runs leaves alone. *)
Calm(t, r) ==
  /\ IsTurn(r) /\ SameRest(r, t) /\ t.lost \subseteq r.lost /\ DOMAIN r.d.files = DOMAIN t.d.files
  /\ FilesOK(r) /\ OutOK(r)
  /\ \A j \in DOMAIN t.d.files : r.d.files[j].name = t.d.files[j].name /\ r.d.files[j].freed = t.d.files[j].freed
  /\ ~t.d.initialized => \A j \in DOMAIN t.d.files : Settled(t, j) => Settled(r, j)
  /\ Bye(t.d.stack) => \A j \in DOMAIN t.d.files : LastWord(t, j) => LastWord(r, j)

(* Only entry i and its reader changed. *)
Changed(t, r, i) ==
  /\ IsTurn(r) /\ SameRest(r, t) /\ t.lost \subseteq r.lost /\ DOMAIN r.d.files = DOMAIN t.d.files
  /\ r.d.files[i].name = t.d.files[i].name /\ r.d.files[i].freed = t.d.files[i].freed
  /\ \A j \in DOMAIN t.d.files : j # i => r.d.files[j] = t.d.files[j]
  /\ \A n \in Live(r) : n # t.d.files[i].name => r.out[n] = t.out[n]

LEMMA TouchedChanged ==
  ASSUME NEW t, NEW i, NEW r, Touched(t, r, i)
  PROVE  Changed(t, r, i)
  BY DEF Touched, Changed, Alike

LEMMA LiveLess ==
  ASSUME NEW t, NEW r, t.lost \subseteq r.lost
  PROVE  Live(r) \subseteq Live(t)
  BY DEF Live

LEMMA ChangedTwo ==
  ASSUME NEW t, NEW u, NEW r, NEW i \in DOMAIN t.d.files, Changed(t, u, i), Changed(u, r, i)
  PROVE  Changed(t, r, i)
  <1>1. Live(r) \subseteq Live(u)
    BY LiveLess DEF Changed
  <1> QED BY <1>1 DEF Changed, SameRest

LEMMA ChangedFiles ==
  ASSUME NEW t, FilesOK(t), NEW i \in DOMAIN t.d.files, NEW r, Changed(t, r, i), EntryOK(r.d.files[i])
  PROVE  FilesOK(r)
  BY DEF FilesOK, Changed, SameRest

LEMMA ChangedOut ==
  ASSUME NEW t, FilesOK(t), OutOK(t), NEW i \in DOMAIN t.d.files, NEW r, Changed(t, r, i), NEW name, name = t.d.files[i].name,
         name \in Live(r) => Followed(r.d.files[i], r.out[name])
  PROVE  OutOK(r)
  <1> SUFFICES ASSUME NEW n \in Live(r)
               PROVE  /\ ~r.out[n].wrong
                      /\ \A j \in DOMAIN r.d.files : r.d.files[j].name = n => Followed(r.d.files[j], r.out[n])
                      /\ (\A j \in DOMAIN r.d.files : r.d.files[j].name # n) => r.out[n].owed = <<>>
    BY DEF OutOK
  <1>1. /\ DOMAIN r.d.files = DOMAIN t.d.files /\ r.d.files[i].name = name
        /\ \A j \in DOMAIN t.d.files : j # i => r.d.files[j] = t.d.files[j]
        /\ n \in Live(t) /\ n \in Tracked
    BY DEF Changed, Live
  <1>2. CASE n = name
    <2>1. ASSUME NEW j \in DOMAIN t.d.files, r.d.files[j].name = n PROVE j = i
      <3>1. t.d.files[j].name = t.d.files[i].name
        BY <1>1, <1>2, <2>1
      <3> QED BY <1>1, <1>2, <3>1, OneEntry
    <2>2. Followed(r.d.files[i], r.out[n])
      BY <1>2
    <2> QED BY <1>1, <1>2, <2>1, <2>2 DEF Followed
  <1>3. CASE n # name
    <2>1. r.out[n] = t.out[n]
      BY <1>3 DEF Changed
    <2>2. /\ ~t.out[n].wrong
          /\ \A j \in DOMAIN t.d.files : t.d.files[j].name = n => Followed(t.d.files[j], t.out[n])
          /\ (\A j \in DOMAIN t.d.files : t.d.files[j].name # n) => t.out[n].owed = <<>>
      BY <1>1 DEF OutOK
    <2> QED BY <1>1, <1>3, <2>1, <2>2
  <1> QED BY <1>2, <1>3

LEMMA ChangedCalm ==
  ASSUME NEW t, FilesOK(t), OutOK(t), NEW i \in DOMAIN t.d.files, NEW r, Changed(t, r, i), EntryOK(r.d.files[i]),
         NEW name, name = t.d.files[i].name, name \in Live(r) => Followed(r.d.files[i], r.out[name]),
         ~t.d.initialized => (Settled(t, i) => Settled(r, i)), Bye(t.d.stack) => (LastWord(t, i) => LastWord(r, i))
  PROVE  Calm(t, r)
  <1>1. FilesOK(r) /\ OutOK(r)
    BY ChangedFiles, ChangedOut
  <1>2. /\ IsTurn(r) /\ SameRest(r, t) /\ t.lost \subseteq r.lost /\ DOMAIN r.d.files = DOMAIN t.d.files
        /\ \A j \in DOMAIN t.d.files : j # i => r.d.files[j] = t.d.files[j]
        /\ \A j \in DOMAIN t.d.files : r.d.files[j].name = t.d.files[j].name /\ r.d.files[j].freed = t.d.files[j].freed
    BY DEF Changed
  <1>3. Live(r) \subseteq Live(t)
    BY <1>2, LiveLess
  <1>4. ~t.d.initialized => \A j \in DOMAIN t.d.files : Settled(t, j) => Settled(r, j)
    BY <1>2, <1>3 DEF Settled
  <1>5. Bye(t.d.stack) => \A j \in DOMAIN t.d.files : LastWord(t, j) => LastWord(r, j)
    BY <1>2, <1>3 DEF LastWord
  <1> QED BY <1>1, <1>2, <1>4, <1>5 DEF Calm

(* A repetition line, or the one line that waits, is what is owed. *)
LEMMA FlushFollows ==
  ASSUME NEW f, NEW o, IsReader(o), EntryOK(f), f.prevcount > 0, Followed(f, o), NEW line, line = LineOf(f, Null), NEW h, h = Heard(o, line)
  PROVE  ~h.wrong /\ h.owed = <<>> /\ h.last = Said(f.prevline, f.prevhost)
  <1>1. PICK x : x = Said(f.prevline, f.prevhost)
    OBVIOUS
  <1>2. PICK c \in Nat \ {0} : c = f.prevcount
    BY DEF EntryOK
  <1>3. f.prevline # ""
    BY DEF Followed
  <1>4. f.prevhost # NoHost
    BY LiveKinds DEF EntryOK, Followed
  <1>5. o.last = x
    BY <1>1, <1>3, <1>4 DEF Followed
  <1>6. o.owed = Times(x, c)
    BY <1>1, <1>2 DEF Followed, Owed, Times
  <1>9. ~o.wrong
    BY DEF Followed
  <1>7. CASE c > 1
    <2>1. line.text = Repeated /\ line.n = c
      BY <1>2, <1>7 DEF LineOf
    <2>2. Copies(o, line) = Times(x, c)
      BY <1>5, <2>1, Zenon DEF Copies, Times
    <2>3. Heard(o, line) = [last |-> x, owed |-> <<>>, wrong |-> o.wrong]
      BY <1>6, <2>1, <2>2, HeardAll, Zenon
    <2> QED BY <1>1, <1>9, <2>3
  <1>8. CASE c = 1
    <2>1. line.text = f.prevline /\ line.host = f.prevhost /\ line.n = c
      BY <1>2, <1>8 DEF LineOf
    <2>2. Copies(o, line) = Times(x, c)
      BY <1>1, <1>5, <2>1, Zenon DEF Copies, Times
    <2>3. Heard(o, line) = [last |-> x, owed |-> <<>>, wrong |-> o.wrong]
      BY <1>6, <2>1, <2>2, HeardAll, Zenon
    <2> QED BY <1>1, <1>9, <2>3
  <1> QED BY <1>7, <1>8

LEMMA LiveEntry ==
  ASSUME NEW t, OutOK(t), NEW i \in DOMAIN t.d.files, t.d.files[i].name \in Live(t)
  PROVE  Followed(t.d.files[i], t.out[t.d.files[i].name]) /\ t.d.files[i].kind \in Files
  BY DEF OutOK, Followed

LEMMA PrintedCalm ==
  ASSUME NEW t, FilesOK(t), OutOK(t), NEW i \in DOMAIN t.d.files, NEW line, NEW r, Printed(t, r, i, line),
         NEW name, name = t.d.files[i].name, name \in Live(r) => Followed(r.d.files[i], r.out[name])
  PROVE  Calm(t, r)
  <1>1. Changed(t, r, i) /\ EntryOK(r.d.files[i]) /\ Settled(r, i)
    BY TouchedChanged DEF Printed
  <1>2. LastWord(r, i)
    BY <1>1 DEF LastWord, Settled
  <1> QED BY <1>1, <1>2, ChangedCalm

(* fprintlog for an entry that counts repetitions. *)
LEMMA fprintlogCounted ==
  ASSUME NEW t, IsTurn(t), FilesOK(t), OutOK(t), NEW i \in DOMAIN t.d.files, NEW f, f = t.d.files[i], f.prevcount > 0,
         f.prevhost # NoHost, ~f.freed, NEW from, NEW e, NEW q, q = fprintlog(t, i, from, Null, e), NEW r, r = Clean(q)
  PROVE  Calm(t, r) /\ Touched(t, r, i) /\ Settled(r, i) /\ (Owes(q) => Half(q))
  <1>1. PICK line : line = LineOf(f, Null)
    OBVIOUS
  <1>2. EntryOK(f) /\ (f.name \in Live(t) => Followed(f, t.out[f.name]) /\ f.kind \in Files)
    BY LiveEntry DEF FilesOK
  <1>3. Printed(t, r, i, line) /\ (Owes(q) => Halfway(t, q, i))
    BY <1>1, <1>2, fprintlogPrints
  <1>a. Owes(q) => Half(q)
    BY <1>3 DEF Half, Halfway
  <1>4. ASSUME f.name \in Live(r) PROVE Followed(r.d.files[i], r.out[f.name])
    <2>1. PICK g, o, h : g = r.d.files[i] /\ o = t.out[f.name] /\ h = Heard(o, line)
      OBVIOUS
    <2>2. f.name \in Live(t) /\ f.name \in Names
      BY <1>3, <1>4, LiveLess, TrackedNames DEF Printed, Touched, Live
    <2>3. IsReader(o)
      BY <2>1, <2>2 DEF IsTurn, IsOut
    <2>a. Followed(f, o) /\ EntryOK(f)
      BY <1>2, <2>1, <2>2
    <2>b. h = Heard(o, line)
      BY <2>1
    <2>4. ~h.wrong /\ h.owed = <<>> /\ h.last = Said(f.prevline, f.prevhost)
      BY <1>1, <2>3, <2>a, <2>b, FlushFollows
    <2>5. r.out[f.name] = h /\ g.kind = f.kind /\ Alike(g, f) /\ g.prevcount = 0
      BY <1>3, <1>4, <2>1 DEF Printed, Touched, Settled, Alike
    <2>6. Owed(g) = <<>>
      BY <2>5, OwedNone
    <2> QED BY <1>2, <2>1, <2>2, <2>4, <2>5, <2>6 DEF Followed, Alike
  <1>5. Calm(t, r)
    BY <1>3, <1>4, PrintedCalm
  <1> QED BY <1>3, <1>5, <1>a DEF Printed

(* What makes the daemon crash. *)
Fatal(t, i) == t.d.files[i].freed \/ (t.d.files[i].kind = "UNKN" /\ t.d.files[i].prevhost = NoHost)

LEMMA flushFacts ==
  ASSUME NEW t, IsTurn(t), FilesOK(t), OutOK(t), NEW i \in DOMAIN t.d.files, Top(t).op # "reset",
         NEW from, NEW e, NEW q, q = flush(t, i, from, e), NEW r, r = Clean(q)
  PROVE  (q = Crash(t) /\ Fatal(t, i)) \/ (Calm(t, r) /\ Touched(t, r, i) /\ Settled(r, i) /\ (Owes(q) => Half(q)))
  <1>1. PICK f : f = t.d.files[i]
    OBVIOUS
  <1>2. EntryOK(f) /\ IsEntry(f)
    BY <1>1 DEF FilesOK, IsTurn, IsFiles
  <1>3. CASE f.prevcount = 0
    <2>0. q = t
      BY <1>1, <1>3 DEF flush
    <2>1. r = t /\ ~Owes(q)
      BY <2>0 DEF Clean, Owes
    <2>2. Calm(t, t)
      BY DEF Calm, SameRest
    <2>3. Touched(t, t, i)
      BY StackedNone DEF Touched, SameRest, Alike
    <2> QED BY <1>1, <1>3, <2>1, <2>2, <2>3 DEF Settled
  <1>4. CASE f.prevcount > 0 /\ (f.freed \/ f.prevhost = NoHost)
    <2>1. q = fprintlog(t, i, from, Null, e)
      BY <1>1, <1>4 DEF flush
    <2>2. t.d.files[i].prevhost = NoHost \/ t.d.files[i].freed
      BY <1>1, <1>4
    <2>3. q = Crash(t)
      BY <2>1, <2>2, Zenon DEF fprintlog
    <2>4. Fatal(t, i)
      BY <1>1, <1>2, <1>4 DEF Fatal, EntryOK
    <2> QED BY <2>3, <2>4
  <1>5. CASE f.prevcount > 0 /\ ~f.freed /\ f.prevhost # NoHost
    <2>1. q = fprintlog(t, i, from, Null, e)
      BY <1>1, <1>5 DEF flush
    <2> QED BY <1>1, <1>5, <2>1, fprintlogCounted
  <1>6. f.prevcount = 0 \/ f.prevcount > 0
    BY <1>2 DEF EntryOK
  <1> QED BY <1>3, <1>4, <1>5, <1>6

----------------------------------------------------------------------------
(* A step of the function on top of the stack: the frames below keep what  *)
(* they rely on.                                                           *)
LEMMA NoElements == IsSeq(<<>>) /\ DOMAIN <<>> = {} /\ IsStack(<<>>) /\ IsFiles(<<>>)
  <1>1. <<>> \in Seq({0})
    OBVIOUS
  <1>2. IsSeq(<<>>)
    BY <1>1, OpenSeq
  <1>3. DOMAIN <<>> = {}
    OBVIOUS
  <1> QED BY <1>2, <1>3 DEF IsStack, IsFiles

LEMMA CrashGood ==
  ASSUME NEW t, IsTurn(t), FilesOK(t), OutOK(t), t.d.initialized \in BOOLEAN, t.d.was \in BOOLEAN,
         t.d.at \in {"loop", "poll", "woken"}, t.d.initialized \/ t.d.was => \A j \in DOMAIN t.d.files : ~t.d.files[j].freed,
         NEW i \in DOMAIN t.d.files, Fatal(t, i), NEW r, r = Crash(t)
  PROVE  Good(r)
  <1>1. /\ r = [d |-> r.d, out |-> r.out, lost |-> r.lost] /\ IsDaemon(r.d) /\ r.out = t.out /\ r.lost = t.lost
        /\ r.d.files = t.d.files /\ r.d.conf = t.d.conf /\ r.d.stack = <<>> /\ r.d.up = "crash"
        /\ r.d.initialized = t.d.initialized /\ r.d.was = t.d.was /\ r.d.at = t.d.at
    BY DEF Crash, IsTurn, IsDaemon
  <1>2. IsTurn(r)
    BY <1>1, NoElements DEF IsTurn
  <1>3. FilesOK(r) /\ OutOK(r)
    BY <1>1 DEF FilesOK, OutOK, Live
  <1>4. StackOK(r)
    BY <1>1, NoElements DEF StackOK
  <1>5. UseOK(r) /\ EndOK(r)
    BY <1>1 DEF UseOK, EndOK, Fatal
  <1> QED BY <1>2, <1>3, <1>4, <1>5 DEF Good

Continues(t, r) ==
  LET N == Len(t.d.stack)
  IN  /\ \A p \in DOMAIN t.d.stack : p # N => p \in DOMAIN r.d.stack /\ r.d.stack[p] = t.d.stack[p]
      /\ N \in DOMAIN r.d.stack => r.d.stack[N].op = t.d.stack[N].op /\ r.d.stack[N].m = t.d.stack[N].m
      /\ t.d.stack[N].op = "die" => N \in DOMAIN r.d.stack
      /\ \A q \in DOMAIN r.d.stack : q \notin DOMAIN t.d.stack =>
           NewFrame(r.d.stack[q]) \/ (r.d.stack[q].op = "reset" /\ Dead(r, r.d.stack[q].i))

(* What fprintlog leaves on the stack is for a file that is not followed   *)
(* any more.                                                               *)
Above(s, r, i) == Stacked(s, r.d.stack, i) /\ (Dead(r, i) \/ r.d.stack = s)

LEMMA TouchedAbove ==
  ASSUME NEW t, NEW i \in DOMAIN t.d.files, NEW r, Touched(t, r, i)
  PROVE  Above(t.d.stack, r, i)
  BY DEF Touched, Above, Dead, Alike

LEMMA GoodSound ==
  ASSUME NEW t, Good(t)
  PROVE  ~Owes(t) /\ Clean(t) = t /\ Sound(t)
  <1>1. ~Owes(t)
    <2> SUFFICES ASSUME Owes(t) PROVE FALSE
      OBVIOUS
    <2>1. PICK n : n = Len(t.d.stack)
      OBVIOUS
    <2>2. n \in DOMAIN t.d.stack /\ Top(t) = t.d.stack[n]
      BY <2>1, SeqDomain DEF Good, IsTurn, IsStack, IsSeq, Owes, Top, Last
    <2>3. Dead(t, Top(t).i)
      BY <2>2 DEF Good, StackOK, FrameOK, Owes
    <2> QED BY <2>3 DEF Dead, Owes
  <1> QED BY <1>1 DEF Clean, Sound

LEMMA SameLen ==
  ASSUME NEW s, IsSeq(s), NEW r, IsSeq(r), DOMAIN s = DOMAIN r
  PROVE  Len(s) = Len(r)
  <1>1. Len(s) \in Nat /\ Len(r) \in Nat /\ 1..Len(s) = 1..Len(r)
    BY SeqDomain
  <1>2. \A a, b \in Nat : 1..a = 1..b => a = b
    <2> SUFFICES ASSUME NEW a \in Nat, NEW b \in Nat, 1..a = 1..b PROVE a = b
      OBVIOUS
    <2>1. a # 0 => a \in 1..b
      OBVIOUS
    <2>2. b # 0 => b \in 1..a
      OBVIOUS
    <2> QED BY <2>1, <2>2
  <1> QED BY <1>1, <1>2

LEMMA LowerFrame ==
  ASSUME NEW t, Good(t), NEW r, Calm(t, r), Continues(t, r), NEW p \in DOMAIN t.d.stack, p # Len(t.d.stack)
  PROVE  FrameOK(r, p, t.d.stack[p])
  <1> DEFINE N == Len(t.d.stack)
  <1>1. PICK x : x = t.d.stack[p]
    OBVIOUS
  <1>2. /\ IsSeq(t.d.stack) /\ N \in Nat /\ DOMAIN t.d.stack = 1..N /\ p \in Nat /\ p < N
        /\ FrameOK(t, p, x)
    BY <1>1, SeqDomain DEF Good, IsTurn, IsStack, StackOK
  <1>3. /\ DOMAIN r.d.files = DOMAIN t.d.files /\ Live(r) \subseteq Live(t) /\ r.d.initialized = t.d.initialized
        /\ \A j \in DOMAIN t.d.files : r.d.files[j].name = t.d.files[j].name
    BY LiveLess DEF Calm, SameRest
  <1>4. ASSUME x.op = "log" PROVE LogOK(r, p, x)
    <2>1. LogOK(t, p, x)
      BY <1>2, <1>4 DEF FrameOK
    <2>2. 2 \in DOMAIN t.d.stack /\ t.d.stack[2].op = "die" => 2 \in DOMAIN r.d.stack /\ r.d.stack[2].op = "die"
      BY <1>2 DEF Continues
    <2> QED BY <1>2, <1>3, <2>1, <2>2 DEF LogOK
  <1>5. ASSUME x.op = "mark" PROVE MarkOK(r, p, x)
    BY <1>2, <1>3, <1>5 DEF FrameOK, MarkOK
  <1>6. ASSUME x.op = "die" PROVE DieOK(r, p, x)
    <2>1. DieOK(t, p, x)
      BY <1>2, <1>6 DEF FrameOK
    <2>2. p = 1 \/ (p = 2 /\ r.d.stack[1].op = "log")
      BY <1>2, <2>1 DEF DieOK, Continues
    <2>3. ASSUME x.ph = "flush" PROVE ~r.d.initialized /\ \A j \in DOMAIN r.d.files : j < x.i => Settled(r, j)
      BY <1>3, <2>1, <2>3 DEF DieOK, Calm
    <2>4. ASSUME x.ph = "bye" PROVE \A j \in DOMAIN r.d.files : LastWord(r, j)
      <3>1. Bye(t.d.stack)
        BY <1>1, <1>6, <2>4 DEF Bye
      <3> QED BY <1>3, <2>1, <2>4, <3>1 DEF DieOK, Calm
    <2>5. ASSUME x.ph = "bye", NEW q \in DOMAIN r.d.stack, q > p, r.d.stack[q].op = "log" PROVE Own(r.d.stack[q])
      <3>1. CASE q \notin DOMAIN t.d.stack
        BY <2>5, <3>1 DEF Continues, NewFrame, NewLog
      <3>2. CASE q \in DOMAIN t.d.stack /\ q # N
        BY <2>1, <2>5, <3>2 DEF DieOK, Continues
      <3>3. CASE q \in DOMAIN t.d.stack /\ q = N
        <4>1. t.d.stack[q].op = "log" /\ t.d.stack[q].m = r.d.stack[q].m
          BY <2>5, <3>3 DEF Continues
        <4>2. Own(t.d.stack[q])
          BY <2>1, <2>5, <3>3, <4>1 DEF DieOK
        <4> QED BY <4>1, <4>2 DEF Own
      <3> QED BY <3>1, <3>2, <3>3
    <2> QED BY <2>1, <2>2, <2>3, <2>4, <2>5 DEF DieOK
  <1>7. ASSUME x.op = "init" PROVE InitOK(r, p, x)
    <2>1. InitOK(t, p, x)
      BY <1>2, <1>7 DEF FrameOK
    <2>2. Len(r.d.files) = Len(t.d.files) /\ DOMAIN t.d.files \subseteq Nat \ {0}
      BY <1>3, SameLen, SeqDomain DEF Calm, Good, IsTurn, IsFiles
    <2>3. ~t.d.initialized => \A j \in DOMAIN t.d.files : Settled(t, j) => Settled(r, j)
      BY DEF Calm
    <2>4. x.ph = "flush" => \A j \in DOMAIN r.d.files : j < x.i => Settled(r, j)
      BY <1>3, <2>1, <2>2, <2>3 DEF InitOK
    <2>5. \A j \in DOMAIN t.d.files : r.d.files[j].freed = t.d.files[j].freed
      BY DEF Calm
    <2> QED BY <1>3, <2>1, <2>2, <2>3, <2>4, <2>5 DEF InitOK
  <1>8. ASSUME x.op = "reset" PROVE Dead(r, x.i)
    BY <1>2, <1>3, <1>8 DEF FrameOK, Dead
  <1> QED BY <1>1, <1>2, <1>4, <1>5, <1>6, <1>7, <1>8 DEF FrameOK

LEMMA GoodStep ==
  ASSUME NEW t, Good(t), t.d.up = "up", NEW r, Calm(t, r), Continues(t, r),
         Len(t.d.stack) \in DOMAIN r.d.stack => FrameOK(r, Len(t.d.stack), r.d.stack[Len(t.d.stack)])
  PROVE  Good(r)
  <1> DEFINE N == Len(t.d.stack)
  <1>1. IsTurn(r) /\ FilesOK(r) /\ OutOK(r) /\ SameRest(r, t)
    BY DEF Calm
  <1>2. StackOK(r)
    <2> SUFFICES ASSUME NEW p \in DOMAIN r.d.stack PROVE FrameOK(r, p, r.d.stack[p])
      BY DEF StackOK
    <2>1. CASE p = N
      BY <2>1
    <2>2. CASE p # N /\ p \in DOMAIN t.d.stack
      <3>1. r.d.stack[p] = t.d.stack[p]
        BY <2>2 DEF Continues
      <3> QED BY <2>2, <3>1, LowerFrame
    <2>3. CASE p \notin DOMAIN t.d.stack
      <3>2. PICK x : x = r.d.stack[p]
        OBVIOUS
      <3>1. NewFrame(x) \/ (x.op = "reset" /\ Dead(r, x.i))
        BY <2>3, <3>2 DEF Continues
      <3>a. x.op = "reset" /\ Dead(r, x.i) => FrameOK(r, p, x)
        BY DEF FrameOK
      <3>3. x.op = "walled" => FrameOK(r, p, x)
        BY DEF FrameOK
      <3>4. ASSUME NewLog(x) PROVE FrameOK(r, p, x)
        <4>1. x.op = "log" /\ x.i = 1 /\ x.ph = "look" /\ GoodMsg(x.m)
          BY <3>4 DEF NewLog
        <4>2. LogOK(r, p, x)
          BY <4>1 DEF LogOK
        <4> QED BY <4>1, <4>2 DEF FrameOK
      <3> QED BY <3>1, <3>2, <3>3, <3>4, <3>a DEF NewFrame
    <2> QED BY <2>1, <2>2, <2>3
  <1>3. Ended(t.d.stack) => Ended(r.d.stack)
    BY DEF Ended, Continues
  <1>4. UseOK(r) /\ EndOK(r)
    BY <1>1, <1>3 DEF Good, UseOK, EndOK, SameRest, Calm
  <1> QED BY <1>1, <1>2, <1>4 DEF Good

LEMMA CalmTwo ==
  ASSUME NEW t, NEW u, NEW r, Calm(t, u), Calm(u, r), Bye(t.d.stack) => Bye(u.d.stack)
  PROVE  Calm(t, r)
  BY DEF Calm, SameRest

(* No entry and no reader of a followed file changed. *)
LEMMA Quiet ==
  ASSUME NEW t, FilesOK(t), OutOK(t), NEW r, IsTurn(r), SameRest(r, t), r.lost = t.lost, r.d.files = t.d.files,
         \A n \in Live(t) : r.out[n] = t.out[n]
  PROVE  Calm(t, r)
  <1>1. Live(r) = Live(t)
    BY DEF Live
  <1>2. FilesOK(r)
    BY DEF FilesOK, SameRest
  <1>3. OutOK(r)
    BY <1>1 DEF OutOK
  <1>4. \A j \in DOMAIN t.d.files : (Settled(t, j) => Settled(r, j)) /\ (LastWord(t, j) => LastWord(r, j))
    BY <1>1 DEF Settled, LastWord
  <1> QED BY <1>2, <1>3, <1>4 DEF Calm

LEMMA LeastOne ==
  ASSUME NEW S \in SUBSET Nat, S # {}
  PROVE  Min(S) \in S /\ \A y \in S : Min(S) <= y
  <1> DEFINE R == OpToRel(<, Nat)
  <1>1. IsWellFoundedOn(R, Nat)
    BY NatLessThanWellFounded
  <1>2. \A x, y \in Nat : x < y => <<x, y>> \in R
    BY DEF OpToRel
  <1> HIDE DEF R
  <1>3. PICK x \in S : \A y \in S : ~ (<<y, x>> \in R)
    <2>1. S \subseteq Nat /\ S # {}
      OBVIOUS
    <2> QED BY <1>1, <2>1, WFMin, Zenon
  <1>4. ASSUME NEW y \in S PROVE x <= y
    <2>1. x \in Nat /\ y \in Nat
      OBVIOUS
    <2>2. ~ (y < x)
      BY <1>2, <1>3, <2>1
    <2> QED BY <2>1, <2>2
  <1> QED BY <1>4 DEF Min

(* The entry a loop stops at. *)
LEMMA FirstFacts ==
  ASSUME NEW t, IsTurn(t), NEW S, S \subseteq DOMAIN t.d.files, NEW i \in Nat, NEW k, k = First(S, t, i)
  PROVE  /\ k \in Nat \ {0} /\ (k > Len(t.d.files) \/ (k \in S /\ k >= i))
         /\ \A j \in S : j >= i => j >= k
  <1>1. Len(t.d.files) \in Nat /\ DOMAIN t.d.files = 1..Len(t.d.files)
    BY SeqDomain DEF IsTurn, IsFiles
  <1>2. PICK C : C = {j \in S : j >= i} \cup {Len(t.d.files) + 1}
    OBVIOUS
  <1>3. C \in SUBSET Nat /\ C # {} /\ 0 \notin C
    BY <1>1, <1>2
  <1>4. k = Min(C)
    BY <1>2 DEF First
  <1>5. k \in C /\ \A y \in C : k <= y
    BY <1>3, <1>4, LeastOne
  <1> QED BY <1>1, <1>2, <1>3, <1>5

----------------------------------------------------------------------------
(* logmsg.  The frame on top, and the places it can be at. *)
LEMMA TopFrame ==
  ASSUME NEW t, Good(t), t.d.stack # <<>>, NEW fr, fr = Top(t), NEW N, N = Len(t.d.stack)
  PROVE  /\ N \in Nat \ {0} /\ DOMAIN t.d.stack = 1..N /\ N \in DOMAIN t.d.stack /\ fr = t.d.stack[N]
         /\ IsFrame(fr) /\ FrameOK(t, N, fr)
  <1>1. IsSeq(t.d.stack) /\ N \in Nat /\ N # 0 /\ DOMAIN t.d.stack = 1..N
    BY SeqDomain DEF Good, IsTurn, IsStack, IsSeq
  <1>2. fr = t.d.stack[N]
    BY DEF Top, Last
  <1> QED BY <1>1, <1>2 DEF Good, IsTurn, IsStack, StackOK

(* The function goes on with entry i set to g and its frame to x. *)
Moved(t, r, i, g, x) ==
  /\ IsTurn(r) /\ r.out = t.out /\ r.lost = t.lost /\ SameRest(r, t)
  /\ DOMAIN r.d.files = DOMAIN t.d.files /\ Len(r.d.files) = Len(t.d.files) /\ r.d.files[i] = g
  /\ \A j \in DOMAIN t.d.files : j # i => r.d.files[j] = t.d.files[j]
  /\ r.d.stack # <<>> /\ Len(r.d.stack) = Len(t.d.stack) /\ DOMAIN r.d.stack = DOMAIN t.d.stack
  /\ r.d.stack[Len(t.d.stack)] = x
  /\ \A p \in DOMAIN t.d.stack : p # Len(t.d.stack) => r.d.stack[p] = t.d.stack[p]

LEMMA MovedFacts ==
  ASSUME NEW t, IsTurn(t), t.d.stack # <<>>, NEW i \in DOMAIN t.d.files, NEW g, IsEntry(g), NEW x, IsFrame(x),
         NEW r, r = SetTop(Set(t, i, g), x)
  PROVE  Moved(t, r, i, g, x)
  <1>1. PICK u : u = Set(t, i, g)
    OBVIOUS
  <1>2. /\ IsTurn(u) /\ u.out = t.out /\ u.lost = t.lost /\ u.d.stack = t.d.stack /\ SameRest(u, t)
        /\ Len(u.d.files) = Len(t.d.files) /\ DOMAIN u.d.files = DOMAIN t.d.files /\ u.d.files[i] = g
        /\ \A j \in DOMAIN t.d.files : j # i => u.d.files[j] = t.d.files[j]
    BY <1>1, SetFacts
  <1>3. /\ IsTurn(r) /\ r.out = u.out /\ r.lost = u.lost /\ r.d.files = u.d.files /\ SameRest(r, u)
        /\ r.d.stack # <<>> /\ Len(r.d.stack) = Len(u.d.stack) /\ DOMAIN r.d.stack = DOMAIN u.d.stack /\ Top(r) = x
        /\ \A p \in DOMAIN u.d.stack : p # Len(u.d.stack) => r.d.stack[p] = u.d.stack[p]
    BY <1>1, <1>2, SetTopFacts
  <1> QED BY <1>2, <1>3 DEF Moved, SameRest, Top, Last

LEMMA MovedContinues ==
  ASSUME NEW t, Good(t), t.d.stack # <<>>, NEW i, NEW g, NEW x, NEW u, Moved(t, u, i, g, x),
         x.op = Top(t).op, x.m = Top(t).m, NEW r, Pushed(u.d.stack, r.d.stack)
  PROVE  Continues(t, r) /\ r.d.stack[Len(t.d.stack)] = x
  <1>1. Len(t.d.stack) \in DOMAIN t.d.stack /\ Top(t) = t.d.stack[Len(t.d.stack)]
    BY TopFrame
  <1> QED BY <1>1 DEF Moved, Pushed, Continues

(* The function goes on, and has put frames on the stack.                  *)
Turns(t, u, x) == \E i, g : Moved(t, u, i, g, x)
Rises(u, r) == \E k : Above(u.d.stack, r, k)

LEMMA TurnsRises ==
  ASSUME NEW t, Good(t), t.d.stack # <<>>, NEW x, x.op = Top(t).op, x.m = Top(t).m, NEW u, Turns(t, u, x),
         NEW r, Rises(u, r)
  PROVE  Continues(t, r) /\ r.d.stack[Len(t.d.stack)] = x
  <1>1. PICK i, g : Moved(t, u, i, g, x)
    BY DEF Turns
  <1>2. PICK k : Above(u.d.stack, r, k)
    BY DEF Rises
  <1>3. Len(t.d.stack) \in DOMAIN t.d.stack /\ Top(t) = t.d.stack[Len(t.d.stack)]
    BY TopFrame
  <1>4. \A q \in DOMAIN r.d.stack : q \notin DOMAIN t.d.stack =>
          NewFrame(r.d.stack[q]) \/ (r.d.stack[q].op = "reset" /\ Dead(r, r.d.stack[q].i))
    BY <1>1, <1>2 DEF Moved, Above, Stacked
  <1> QED BY <1>1, <1>2, <1>3, <1>4 DEF Moved, Above, Stacked, Continues

(* The frame of die is not the one on top: it stays as it is. *)
LEMMA MovedBye ==
  ASSUME NEW t, Good(t), t.d.stack # <<>>, Top(t).op # "die", NEW i, NEW g, NEW x, NEW u, Moved(t, u, i, g, x)
  PROVE  Bye(t.d.stack) => Bye(u.d.stack)
  <1>1. Len(t.d.stack) \in DOMAIN t.d.stack /\ Top(t) = t.d.stack[Len(t.d.stack)]
    BY TopFrame
  <1> QED BY <1>1 DEF Moved, Bye

LEMMA MovedChanged ==
  ASSUME NEW t, NEW i, NEW g, NEW x, NEW r, Moved(t, r, i, g, x), g.name = t.d.files[i].name, g.freed = t.d.files[i].freed
  PROVE  Changed(t, r, i)
  BY DEF Moved, Changed

(* Nothing changed in the entry that a reader depends on. *)
SameLine(g, f) ==
  IsEntry(g) /\ Alike([g EXCEPT !.rep = f.rep], f) /\ g.prevcount = f.prevcount /\ g.kind = f.kind /\ g.rep \in 0..MaxRepeat

LEMMA MovedCalm ==
  ASSUME NEW t, FilesOK(t), OutOK(t), NEW i \in DOMAIN t.d.files, NEW g, SameLine(g, t.d.files[i]),
         NEW x, NEW r, Moved(t, r, i, g, x)
  PROVE  Calm(t, r)
  <1>1. PICK f : f = t.d.files[i]
    OBVIOUS
  <1>2. /\ g.name = f.name /\ g.prevline = f.prevline /\ g.prevhost = f.prevhost /\ g.freed = f.freed
        /\ g.prevcount = f.prevcount /\ g.kind = f.kind /\ g.rep \in 0..MaxRepeat
    BY <1>1 DEF SameLine, Alike, IsEntry
  <1>3. Changed(t, r, i) /\ r.d.files[i] = g /\ r.lost = t.lost /\ r.out = t.out
    BY <1>1, <1>2, MovedChanged DEF Moved
  <1>4. EntryOK(g)
    BY <1>1, <1>2 DEF FilesOK, EntryOK
  <1>5. Live(r) = Live(t)
    BY <1>3 DEF Live
  <1>6. f.name \in Live(r) => Followed(g, r.out[f.name])
    <2>1. f.name \in Live(t) => Followed(f, t.out[f.name])
      BY <1>1, LiveEntry
    <2>2. Owed(g) = Owed(f)
      BY <1>2 DEF Owed
    <2> QED BY <1>2, <1>3, <1>5, <2>1, <2>2 DEF Followed
  <1>7. (Settled(t, i) => Settled(r, i)) /\ (LastWord(t, i) => LastWord(r, i))
    BY <1>1, <1>2, <1>3, <1>5 DEF Settled, LastWord
  <1> QED BY <1>1, <1>3, <1>4, <1>6, <1>7, ChangedCalm

LEMMA SameEntry ==
  ASSUME NEW f, IsEntry(f), EntryOK(f)
  PROVE  SameLine(f, f) /\ SameLine([f EXCEPT !.rep = BackOff(@)], f)
  <1>1. f.rep \in Nat /\ MaxRepeat = 1
    BY DEF EntryOK, MaxRepeat, RepeatInterval
  <1>2. PICK n : n = BackOff(f.rep)
    OBVIOUS
  <1>3. n \in 0..MaxRepeat
    BY <1>1, <1>2 DEF BackOff
  <1>4. SameLine(f, f)
    BY DEF SameLine, Alike, IsEntry, EntryOK
  <1>5. SameLine([f EXCEPT !.rep = n], f)
    BY <1>3 DEF SameLine, Alike, IsEntry, EntryOK
  <1> QED BY <1>2, <1>4, <1>5

(* A message is for the file of entry i. *)
Notified(t, r, name, x) ==
  /\ IsTurn(r) /\ r.d = t.d /\ r.lost = t.lost
  /\ \A n \in Names : n # name => r.out[n] = t.out[n]
  /\ name \in Live(t) =>
       r.out[name] = [last |-> t.out[name].last, owed |-> Append(t.out[name].owed, x), wrong |-> t.out[name].wrong]

LEMMA TellFacts ==
  ASSUME NEW t, IsTurn(t), NEW i, NEW m, NEW name, name = t.d.files[i].name, NEW x, x = Said(m.text, m.host),
         NEW r, r = Tell(t, i, m)
  PROVE  Notified(t, r, name, x)
  <1>1. CASE name \notin Live(t)
    <2>1. r = t
      BY <1>1 DEF Tell, Live
    <2> QED BY <1>1, <2>1 DEF Notified
  <1>2. CASE name \in Live(t)
    <2>1. PICK o : o = t.out[name]
      OBVIOUS
    <2>2. PICK q : q = Append(o.owed, x)
      OBVIOUS
    <2>3. PICK g : g = [o EXCEPT !.owed = q]
      OBVIOUS
    <2>4. name \in Names
      BY <1>2, TrackedNames DEF Live
    <2>5. IsReader(o)
      BY <2>1, <2>4 DEF IsTurn, IsOut
    <2>6. g = [last |-> o.last, owed |-> q, wrong |-> o.wrong] /\ IsReader(g)
      BY <2>3, <2>5 DEF IsReader
    <2>7. r = [t EXCEPT !.out[name].owed = Append(@, x)]
      BY <1>2 DEF Tell, Live
    <2>8. r.out = [t.out EXCEPT ![name] = g] /\ r.d = t.d /\ r.lost = t.lost /\ r = [d |-> r.d, out |-> r.out, lost |-> r.lost]
      BY <2>1, <2>2, <2>3, <2>7 DEF IsTurn
    <2>9. /\ r.out = [n \in Names |-> r.out[n]]
          /\ \A n \in Names : r.out[n] = IF n = name THEN g ELSE t.out[n]
      BY <2>8 DEF IsTurn, IsOut
    <2>10. IsOut(r.out)
      BY <2>6, <2>9 DEF IsTurn, IsOut
    <2>11. IsTurn(r)
      BY <2>8, <2>10 DEF IsTurn
    <2> QED BY <2>1, <2>2, <2>4, <2>6, <2>8, <2>9, <2>11 DEF Notified
  <1> QED BY <1>1, <1>2

LEMMA OneMore ==
  ASSUME NEW x, NEW c \in Nat, NEW s, s = Times(x, c)
  PROVE  Append(s, x) = Times(x, c + 1)
  <1>1. PICK q : q = Append(s, x)
    OBVIOUS
  <1>2. s \in Seq({x}) /\ Len(s) = c
    BY DEF Times
  <1>3. q \in Seq({x}) /\ Len(q) = c + 1
    BY <1>1, <1>2
  <1>4. \A k \in 1..(c + 1) : q[k] = x
    BY <1>3
  <1>5. q = [k \in 1..(c + 1) |-> x]
    BY <1>3, <1>4
  <1> QED BY <1>1, <1>5 DEF Times

(* One more repetition of the saved line is counted. *)
LEMMA CountCalm ==
  ASSUME NEW t, Good(t), t.d.stack # <<>>, t.d.initialized, NEW i \in DOMAIN t.d.files, NEW f, f = t.d.files[i],
         NEW m, Same(f, m), GoodMsg(m), Bye(t.d.stack) => "MARK" \in m.flags \/ Said(m.text, m.host) \in LastWords,
         NEW g, g = [f EXCEPT !.prevcount = @ + 1], NEW x, NEW u, Moved(t, u, i, g, x), NEW r, r = Tell(u, i, m)
  PROVE  Calm(t, r) /\ r.d = u.d
  <1>1. IsEntry(f) /\ EntryOK(f) /\ IsTurn(t) /\ FilesOK(t) /\ OutOK(t)
    BY DEF Good, FilesOK, IsTurn, IsFiles
  <1>2. "MARK" \notin m.flags /\ f.prevhost # NoHost /\ m.text = f.prevline /\ m.host = f.prevhost
    BY DEF Same
  <1>3. /\ g.name = f.name /\ g.freed = f.freed /\ g.kind = f.kind /\ g.prevline = f.prevline /\ g.prevhost = f.prevhost
        /\ g.rep = f.rep /\ g.prevcount = f.prevcount + 1
    BY <1>1 DEF IsEntry
  <1>4. EntryOK(g)
    BY <1>1, <1>2, <1>3 DEF EntryOK
  <1>5. Changed(t, u, i) /\ IsTurn(u) /\ u.out = t.out /\ u.lost = t.lost /\ u.d.files[i] = g /\ SameRest(u, t)
    BY <1>3, MovedChanged DEF Moved
  <1>6. PICK name : name = f.name
    OBVIOUS
  <1>a. PICK y : y = Said(m.text, m.host)
    OBVIOUS
  <1>b. Notified(u, r, name, y)
    BY <1>3, <1>5, <1>6, <1>a, TellFacts
  <1>7. /\ IsTurn(r) /\ r.d = u.d /\ r.lost = u.lost
        /\ \A n \in Names : n # name => r.out[n] = u.out[n]
        /\ name \in Live(u) =>
              r.out[name] = [last |-> u.out[name].last, owed |-> Append(u.out[name].owed, y), wrong |-> u.out[name].wrong]
    BY <1>b DEF Notified
  <1>8. Live(r) = Live(t) /\ Live(u) = Live(t) /\ Live(t) \subseteq Names
    BY <1>5, <1>7, TrackedNames DEF Live
  <1>9. Changed(t, r, i)
    <2>1. ASSUME NEW n \in Live(r), n # t.d.files[i].name PROVE r.out[n] = t.out[n]
      <3>1. n # name /\ n \in Names
        BY <1>6, <1>8, <2>1
      <3>2. r.out[n] = u.out[n]
        BY <1>b, <3>1 DEF Notified
      <3> QED BY <1>5, <3>2
    <2>2. IsTurn(r) /\ SameRest(r, t) /\ t.lost \subseteq r.lost
      BY <1>5, <1>7 DEF SameRest
    <2> QED BY <1>5, <1>7, <2>1, <2>2, ZenonT(60) DEF Changed
  <1>10. ASSUME name \in Live(r) PROVE Followed(g, r.out[name])
    <2>1. Followed(f, t.out[name])
      BY <1>1, <1>6, <1>8, <1>10, LiveEntry
    <2>3. t.out[name].owed = Times(y, f.prevcount)
      BY <1>2, <1>a, <2>1 DEF Followed, Owed, Times
    <2>4. Append(t.out[name].owed, y) = Times(y, f.prevcount + 1)
      BY <1>1, <2>3, OneMore DEF EntryOK
    <2>5. Owed(g) = Times(y, f.prevcount + 1)
      BY <1>2, <1>3, <1>a DEF Owed, Times
    <2>6. m.text # ""
      BY DEF GoodMsg
    <2>a. PICK o, q : o = t.out[name] /\ q = Append(o.owed, y)
      OBVIOUS
    <2>b. r.out[name] = [last |-> o.last, owed |-> q, wrong |-> o.wrong]
      <3>1. name \in Live(u) /\ u.out = t.out
        BY <1>5, <1>8, <1>10
      <3> QED BY <1>b, <2>a, <3>1, Zenon DEF Notified
    <2>7. r.out[name].owed = Owed(g) /\ r.out[name].last = t.out[name].last /\ ~r.out[name].wrong
      <3>1. q = Owed(g)
        BY <2>4, <2>5, <2>a
      <3>2. ~o.wrong
        BY <2>1, <2>a DEF Followed
      <3> QED BY <2>a, <2>b, <3>1, <3>2
    <2> QED BY <1>2, <1>3, <2>1, <2>6, <2>7 DEF Followed
  <1>11. Bye(t.d.stack) => LastWord(r, i)
    <2>1. Said(g.prevline, g.prevhost) = y
      BY <1>2, <1>3, <1>a
    <2>2. Bye(t.d.stack) => y \in LastWords
      BY <1>2, <1>a
    <2> QED BY <1>5, <1>7, <2>1, <2>2 DEF LastWord
  <1>12. r.d.files[i] = g
    BY <1>5, <1>7
  <1>13. name \in Live(r) => Followed(r.d.files[i], r.out[name])
    BY <1>10, <1>12
  <1>14. Calm(t, r)
    BY <1>1, <1>4, <1>6, <1>9, <1>11, <1>12, <1>13, ChangedCalm
  <1> QED BY <1>7, <1>14

LEMMA SetChanged ==
  ASSUME NEW t, IsTurn(t), NEW i \in DOMAIN t.d.files, NEW g, IsEntry(g), g.name = t.d.files[i].name, g.freed = t.d.files[i].freed,
         NEW r, r = Set(t, i, g)
  PROVE  Changed(t, r, i)
  BY SetFacts DEF Changed

LEMMA ToldChanged ==
  ASSUME NEW t, NEW i, NEW name, name = t.d.files[i].name, NEW x, NEW r, Notified(t, r, name, x)
  PROVE  Changed(t, r, i)
  <1>1. Live(r) = Live(t) /\ Live(t) \subseteq Names
    BY TrackedNames DEF Notified, Live
  <1> QED BY <1>1 DEF Notified, Changed, SameRest

(* The reader of a file to which nothing is owed hears a line of it. *)
LEMMA HeardNew ==
  ASSUME NEW a, a.owed = <<>>, NEW y, NEW o, o = [last |-> a.last, owed |-> Append(a.owed, y), wrong |-> a.wrong],
         NEW line, line.n = 1, line.text # Repeated, Said(line.text, line.host) = y
  PROVE  Heard(o, line) = [last |-> y, owed |-> <<>>, wrong |-> a.wrong]
  <1>1. Times(y, 0) = <<>>
    <2>1. 1..0 = {}
      OBVIOUS
    <2>2. Times(y, 0) = [k \in {} |-> y]
      BY <2>1 DEF Times
    <2> QED BY <2>2
  <1>2. Append(a.owed, y) = Times(y, 1)
    <2>1. Append(a.owed, y) = Times(y, 0 + 1)
      BY <1>1, OneMore
    <2> QED BY <2>1
  <1>3. o.owed = Times(y, 1) /\ IsReader(o) /\ o.wrong = a.wrong
    BY <1>2 DEF IsReader
  <1>4. Copies(o, line) = Times(y, 1)
    BY Zenon DEF Copies, Times
  <1>5. Heard(o, line) = [last |-> y, owed |-> <<>>, wrong |-> o.wrong]
    BY <1>3, <1>4, HeardAll
  <1> QED BY <1>3, <1>5

(* What NewLine saves in an entry. *)
Saved(f, g, m) ==
  /\ IsEntry(g) /\ g.name = f.name /\ g.freed = f.freed /\ g.kind = f.kind /\ g.prevcount = f.prevcount /\ g.rep = 0
  /\ g.prevhost = m.host /\ g.prevline = IF m.long THEN "" ELSE m.text

LEMMA NewLineSaves ==
  ASSUME NEW u, NEW i, NEW f, f = u.d.files[i], IsEntry(f), NEW m, NEW e, NEW r, r = NewLine(u, i, m, e)
  PROVE  \E g, msg : /\ Saved(f, g, m) /\ msg = (IF m.long THEN m.text ELSE Null)
                     /\ r = fprintlog(Tell(Set(u, i, g), i, m), i, m.host, msg, e)
  <1> DEFINE G == [u.d.files[i] EXCEPT !.rep = 0, !.prevhost = m.host,
                        !.prevline = IF m.long THEN "" ELSE m.text,
                        !.prevpri = IF m.long THEN @ ELSE m.pri]
  <1>1. r = fprintlog(Tell(Set(u, i, G), i, m), i, m.host, IF m.long THEN m.text ELSE Null, e)
    BY Zenon DEF NewLine
  <1>2. Saved(f, G, m)
    <2>1. PICK l, p, h : l = (IF m.long THEN "" ELSE m.text) /\ p = (IF m.long THEN f.prevpri ELSE m.pri) /\ h = m.host
      OBVIOUS
    <2>2. PICK g : g = [f EXCEPT !.rep = 0, !.prevhost = h, !.prevline = l, !.prevpri = p]
      OBVIOUS
    <2>3. g = G
      BY <2>1, <2>2, Zenon
    <2>4. /\ IsEntry(g) /\ g.name = f.name /\ g.freed = f.freed /\ g.kind = f.kind /\ g.prevcount = f.prevcount
          /\ g.rep = 0 /\ g.prevhost = h /\ g.prevline = l
      BY <2>2 DEF IsEntry
    <2> QED BY <2>1, <2>3, <2>4, Zenon DEF Saved
  <1> QED BY <1>1, <1>2, Zenon

LEMMA NewLineCalm ==
  ASSUME NEW t, Good(t), NEW i \in DOMAIN t.d.files, NEW f, f = t.d.files[i], ~f.freed,
         NEW m, GoodMsg(m), f.name \in Live(t) => f.prevcount = 0, NEW x, NEW u, Moved(t, u, i, f, x),
         NEW l \in DOMAIN u.d.stack, u.d.stack[l].op = "log", NEW e, NEW q, q = NewLine(u, i, m, e), NEW r, r = Clean(q)
  PROVE  Calm(t, r) /\ Above(u.d.stack, r, i) /\ (Owes(q) => Half(q))
  <1>1. IsEntry(f) /\ EntryOK(f) /\ IsTurn(t) /\ FilesOK(t) /\ OutOK(t)
    BY DEF Good, FilesOK, IsTurn, IsFiles
  <1>2. IsTurn(u) /\ i \in DOMAIN u.d.files /\ u.d.files[i] = f /\ u.out = t.out /\ u.lost = t.lost
    BY DEF Moved
  <1>3. PICK g, msg : /\ Saved(f, g, m) /\ msg = (IF m.long THEN m.text ELSE Null)
                      /\ q = fprintlog(Tell(Set(u, i, g), i, m), i, m.host, msg, e)
    BY <1>1, <1>2, NewLineSaves
  <1>4. PICK v : v = Set(u, i, g)
    OBVIOUS
  <1>a. IsEntry(g)
    BY <1>3 DEF Saved
  <1>5. IsTurn(v) /\ v.out = u.out /\ v.lost = u.lost /\ v.d.stack = u.d.stack /\ v.d.files[i] = g /\ DOMAIN v.d.files = DOMAIN u.d.files
    BY <1>2, <1>4, <1>a, SetFacts
  <1>6. PICK w : w = Tell(v, i, m)
    OBVIOUS
  <1>7. PICK name : name = f.name
    OBVIOUS
  <1>8. PICK y : y = Said(m.text, m.host)
    OBVIOUS
  <1>9. Notified(v, w, name, y)
    BY <1>3, <1>5, <1>6, <1>7, <1>8, TellFacts DEF Saved
  <1>10. IsTurn(w) /\ w.d = v.d /\ w.lost = v.lost
    BY <1>9 DEF Notified
  <1>11. EntryOK(g) /\ g.prevhost # NoHost /\ ~g.freed /\ g.name = name
    <2>1. 0 \in 0..MaxRepeat
      BY DEF MaxRepeat, RepeatInterval
    <2> QED BY <1>1, <1>3, <1>7, <2>1 DEF Saved, EntryOK, GoodMsg
  <1>12. Live(w) = Live(t)
    BY <1>2, <1>5, <1>10 DEF Live
  <1>13. PICK line : line = LineOf(g, msg)
    OBVIOUS
  <1>14. name \in Live(t) => Followed(f, t.out[name]) /\ f.kind \in Files
    BY <1>1, <1>7, LiveEntry
  <1>15. Printed(w, r, i, line) /\ (Owes(q) => Halfway(w, q, i))
    <2>1. i \in DOMAIN w.d.files /\ g = w.d.files[i]
      BY <1>2, <1>5, <1>10
    <2>2. g.name \in Live(w) => g.kind \in Files
      BY <1>3, <1>7, <1>11, <1>12, <1>14 DEF Saved
    <2>3. q = fprintlog(w, i, m.host, msg, e)
      BY <1>3, <1>4, <1>6
    <2> QED BY <1>10, <1>11, <1>13, <2>1, <2>2, <2>3, fprintlogPrints
  <1>16. Changed(t, r, i)
    <2>1. Changed(t, u, i)
      BY MovedChanged
    <2>2. Changed(u, v, i)
      BY <1>2, <1>3, <1>4, SetChanged DEF Saved
    <2>3. Changed(v, w, i)
      BY <1>5, <1>9, <1>11, ToldChanged
    <2>4. Changed(w, r, i)
      BY <1>15, TouchedChanged DEF Printed
    <2>5. Changed(t, v, i)
      BY <2>1, <2>2, ChangedTwo
    <2>6. Changed(t, w, i)
      BY <2>3, <2>5, ChangedTwo
    <2> QED BY <2>4, <2>6, ChangedTwo
  <1>17. PICK h : h = r.d.files[i]
    OBVIOUS
  <1>18. EntryOK(h) /\ Settled(r, i) /\ h.prevline = g.prevline /\ h.prevhost = g.prevhost /\ h.name = name
    BY <1>5, <1>10, <1>11, <1>15, <1>17 DEF Printed, Touched, Alike
  <1>19. ASSUME name \in Live(r) PROVE Followed(h, r.out[name])
    <2>1. name \in Live(t)
      BY <1>16, <1>19, LiveLess DEF Changed
    <2>2. PICK a, o : a = t.out[name] /\ o = w.out[name]
      OBVIOUS
    <2>3. Followed(f, a) /\ f.kind \in Files /\ ~a.wrong
      BY <1>14, <2>1, <2>2 DEF Followed
    <2>4. a.owed = <<>>
      BY <1>7, <2>1, <2>3, OwedNone DEF Followed
    <2>5. o = [last |-> a.last, owed |-> Append(a.owed, y), wrong |-> a.wrong]
      <3>1. name \in Live(v) /\ v.out[name] = a
        BY <1>2, <1>5, <1>10, <1>12, <2>1, <2>2 DEF Live
      <3> QED BY <1>9, <2>2, <3>1, Zenon DEF Notified
    <2>6. g.prevcount = 0
      BY <1>3, <1>7, <2>1 DEF Saved
    <2>7. m.text # Null /\ m.text # Repeated
      BY DEF GoodMsg
    <2>8. line.n = 1 /\ line.text = m.text /\ line.host = m.host
      <3>1. CASE m.long
        <4>1. msg = m.text
          BY <1>3, <3>1
        <4>2. line = [text |-> m.text, host |-> m.host, n |-> 1]
          BY <1>3, <1>13, <2>7, <4>1 DEF LineOf, Saved
        <4> QED BY <4>2
      <3>2. CASE ~m.long
        <4>1. msg = Null /\ g.prevline = m.text /\ g.prevhost = m.host
          BY <1>3, <3>2 DEF Saved
        <4>2. line = [text |-> m.text, host |-> m.host, n |-> 1]
          BY <1>13, <2>6, <4>1 DEF LineOf
        <4> QED BY <4>2
      <3> QED BY <3>1, <3>2
    <2>9. Heard(o, line) = [last |-> y, owed |-> <<>>, wrong |-> a.wrong]
      BY <1>8, <2>4, <2>5, <2>7, <2>8, HeardNew
    <2>10. r.out[name] = Heard(o, line) /\ h.kind = g.kind
      <3>1. w.d.files[i].name = name /\ w.d.files[i] = g
        BY <1>5, <1>10, <1>11
      <3> QED BY <1>15, <1>17, <1>19, <2>2, <3>1 DEF Printed
    <2>11. h.prevcount = 0 /\ Owed(h) = <<>>
      <3>1. h.prevcount = 0
        BY <1>17, <1>18, <1>19 DEF Settled
      <3> QED BY <3>1, OwedNone
    <2>12. h.prevline # "" => Said(h.prevline, h.prevhost) = y
      BY <1>3, <1>8, <1>18 DEF Saved
    <2>13. h.kind \in Files
      BY <1>3, <2>3, <2>10 DEF Saved
    <2>14. r.out[name].last = y /\ r.out[name].owed = <<>> /\ ~r.out[name].wrong
      <3>1. r.out[name] = [last |-> y, owed |-> <<>>, wrong |-> a.wrong]
        BY <2>9, <2>10, Zenon
      <3> QED BY <2>3, <3>1
    <2>15. ~(h.prevcount > 0) /\ r.out[name].owed = Owed(h)
      BY <2>11, <2>14
    <2> QED BY <2>12, <2>13, <2>14, <2>15, Zenon DEF Followed
  <1>20. LastWord(r, i)
    BY <1>18 DEF LastWord, Settled
  <1>21. Calm(t, r)
    BY <1>1, <1>7, <1>16, <1>17, <1>18, <1>19, <1>20, ChangedCalm
  <1>22. Above(u.d.stack, r, i)
    <2>1. i \in DOMAIN w.d.files /\ w.d.stack = u.d.stack
      BY <1>2, <1>5, <1>10
    <2>2. Above(w.d.stack, r, i)
      BY <1>15, <2>1, TouchedAbove DEF Printed
    <2> QED BY <2>1, <2>2
  <1>23. Owes(q) => Half(q)
    <2>1. w.d.stack = u.d.stack
      BY <1>5, <1>10
    <2> QED BY <1>15, <2>1 DEF Half, Halfway
  <1> QED BY <1>21, <1>22, <1>23

(* A function returns: nothing else changed that the invariant is about. *)
LEMMA Returns ==
  ASSUME NEW t, Good(t), t.d.up = "up", t.d.stack # <<>>, Top(t).op # "die",
         NEW r, IsTurn(r), SameRest(r, t), r.lost = t.lost, r.d.files = t.d.files, r.d.stack = Pop(t).d.stack,
         \A n \in Live(t) : r.out[n] = t.out[n]
  PROVE  Good(r)
  <1>1. Calm(t, r)
    BY Quiet DEF Good
  <1>2. PICK u : u = Pop(t)
    OBVIOUS
  <1>3. /\ DOMAIN t.d.stack = DOMAIN u.d.stack \cup {Len(t.d.stack)} /\ Len(t.d.stack) \notin DOMAIN u.d.stack
        /\ \A p \in DOMAIN u.d.stack : u.d.stack[p] = t.d.stack[p]
    BY <1>2, PopFacts DEF Good
  <1>4. t.d.stack[Len(t.d.stack)].op # "die"
    BY DEF Top, Last
  <1>5. r.d.stack = u.d.stack
    BY <1>2
  <1>6. Continues(t, r)
    BY <1>3, <1>4, <1>5 DEF Continues
  <1> QED BY <1>1, <1>3, <1>5, <1>6, GoodStep

LEMMA PopGood ==
  ASSUME NEW t, Good(t), t.d.up = "up", t.d.stack # <<>>, Top(t).op # "die"
  PROVE  Good(Pop(t))
  <1>1. PICK r : r = Pop(t)
    OBVIOUS
  <1>2. IsTurn(r) /\ SameRest(r, t) /\ r.lost = t.lost /\ r.d.files = t.d.files /\ r.out = t.out
    BY <1>1, PopFacts DEF Good
  <1> QED BY <1>1, <1>2, Returns

LEMMA ConsoleGood ==
  ASSUME NEW t, Good(t), t.d.up = "up", t.d.stack # <<>>, Top(t).op # "die", NEW m
  PROVE  Good(Console(Pop(t), m))
  <1>1. PICK u, line : u = Pop(t) /\ line = [text |-> m.text, host |-> LocalHostName, n |-> 1]
    OBVIOUS
  <1>2. IsTurn(u) /\ SameRest(u, t) /\ u.lost = t.lost /\ u.d.files = t.d.files /\ u.out = t.out
    BY <1>1, PopFacts DEF Good
  <1>3. PICK r : r = Write(u, "console", line)
    OBVIOUS
  <1>4. IsTurn(r) /\ r.d = u.d /\ r.lost = u.lost /\ \A n \in Names : n # "console" => r.out[n] = u.out[n]
    BY <1>2, <1>3, WriteFacts
  <1>5. \A n \in Live(t) : n \in Names /\ n # "console"
    BY DEF Live, Tracked
  <1>6. Good(r)
    BY <1>1, <1>2, <1>4, <1>5, Returns DEF SameRest
  <1>7. Console(u, m) = u \/ Console(u, m) = r
    BY <1>1, <1>3, Zenon DEF Console
  <1> QED BY <1>1, <1>6, <1>7, PopGood

(* The function on top has read what is freed, or the host of an unknown   *)
(* entry.                                                                  *)
LEMMA CrashStep ==
  ASSUME NEW t, Good(t), NEW u, Calm(t, u), NEW i \in DOMAIN u.d.files, Fatal(u, i), NEW r, r = Crash(u)
  PROVE  Good(r)
  <1>1. /\ IsTurn(u) /\ FilesOK(u) /\ OutOK(u) /\ u.d.initialized \in BOOLEAN /\ u.d.was \in BOOLEAN
        /\ u.d.at \in {"loop", "poll", "woken"}
        /\ u.d.initialized \/ u.d.was => \A j \in DOMAIN u.d.files : ~u.d.files[j].freed
    BY DEF Calm, Good, UseOK, SameRest
  <1> QED BY <1>1, CrashGood

(* The frame of logmsg after a step at entry i. *)
LEMMA LogFrameOK ==
  ASSUME NEW t, Good(t), t.d.initialized, NEW i \in DOMAIN t.d.files, NEW x, x.op = "log", GoodMsg(x.m),
         x.i \in {i, i + 1}, x.ph \in {"look", "save", "backoff"}, x.ph # "look" => x.i = i, NEW r, Calm(t, r),
         x.ph = "save" => Settled(r, i) /\ (t.d.files[i].name \in Live(r) => Len(t.d.stack) = Len(r.d.stack))
  PROVE  FrameOK(r, Len(t.d.stack), x)
  <1>2. i \in Nat \ {0} /\ i \in DOMAIN r.d.files /\ r.d.initialized /\ r.d.files[i].name = t.d.files[i].name
    BY SeqDomain DEF Good, IsTurn, IsFiles, Calm, SameRest
  <1>3. x.i \in Nat \ {0}
    BY <1>2
  <1>4. LogOK(r, Len(t.d.stack), x)
    BY <1>2, <1>3 DEF LogOK, Settled
  <1> QED BY <1>4 DEF FrameOK

(* What logmsg serves is a message, and one of its own once die has said   *)
(* its last word.                                                          *)
LEMMA logmsgMessage ==
  ASSUME NEW t, Good(t), t.d.stack # <<>>, NEW fr, fr = Top(t), fr.op = "log"
  PROVE  GoodMsg(fr.m) /\ (Bye(t.d.stack) => Own(fr))
  <1>1. PICK N : N = Len(t.d.stack)
    OBVIOUS
  <1>2. /\ N \in Nat \ {0} /\ DOMAIN t.d.stack = 1..N /\ N \in DOMAIN t.d.stack /\ fr = t.d.stack[N]
        /\ FrameOK(t, N, fr)
    BY <1>1, TopFrame
  <1>3. GoodMsg(fr.m)
    BY <1>2 DEF FrameOK, LogOK
  <1>4. ASSUME Bye(t.d.stack) PROVE Own(fr)
    <2>1. PICK p \in DOMAIN t.d.stack : t.d.stack[p].op = "die" /\ t.d.stack[p].ph = "bye"
      BY <1>4 DEF Bye
    <2>2. FrameOK(t, p, t.d.stack[p])
      BY DEF Good, StackOK
    <2>3. p # N /\ N > p
      BY <1>2, <2>1
    <2> QED BY <1>2, <2>1, <2>2, <2>3 DEF FrameOK, DieOK
  <1> QED BY <1>3, <1>4

LEMMA logmsgGood ==
  ASSUME NEW t, Good(t), t.d.up = "up", t.d.stack # <<>>, Top(t).op = "log", NEW e, NEW r, r = logmsg(t, e)
  PROVE  Sound(r)
  <1>1. PICK fr, N : fr = Top(t) /\ N = Len(t.d.stack)
    OBVIOUS
  <1>2. PICK m : m = fr.m
    OBVIOUS
  <1>3. PICK S : S = Freed(t) \cup {j \in DOMAIN t.d.files : Wanted(t.d.files[j], m)}
    OBVIOUS
  <1>4. PICK i : i = IF fr.ph = "look" THEN First(S, t, fr.i) ELSE fr.i
    OBVIOUS
  <1>5. PICK f : f = t.d.files[i]
    OBVIOUS
  <1>6. PICK g : g = [f EXCEPT !.rep = BackOff(@)]
    OBVIOUS
  <1>c. PICK h : h = [f EXCEPT !.prevcount = @ + 1]
    OBVIOUS
  <1>d. PICK a, b, c : /\ a = [fr EXCEPT !.i = i + 1, !.ph = "look"] /\ b = [fr EXCEPT !.i = i, !.ph = "save"]
                       /\ c = [fr EXCEPT !.i = i, !.ph = "backoff"]
    OBVIOUS
  <1>7. r = IF fr.ph = "look" /\ fr.i = 1 /\ ~t.d.initialized THEN Console(Pop(t), m)
            ELSE IF i > Len(t.d.files) THEN Pop(t)
            ELSE IF fr.ph = "backoff" THEN SetTop(Set(t, i, g), a)
            ELSE IF fr.ph = "save" THEN NewLine(SetTop(Set(t, i, f), a), i, m, e)
            ELSE IF f.freed THEN Crash(t)
            ELSE IF ~Same(f, m) THEN flush(SetTop(Set(t, i, f), b), i, m.host, e)
            ELSE IF f.age <= RepeatInterval[f.rep + 1] THEN Tell(SetTop(Set(t, i, h), a), i, m)
            ELSE fprintlog(Tell(SetTop(Set(t, i, h), c), i, m), i, m.host, Null, e)
    BY <1>1, <1>2, <1>3, <1>4, <1>5, <1>6, <1>c, <1>d, Zenon DEF logmsg
  <1>8. /\ IsTurn(t) /\ FilesOK(t) /\ OutOK(t) /\ UseOK(t) /\ N \in Nat \ {0} /\ N \in DOMAIN t.d.stack /\ fr = t.d.stack[N]
        /\ IsFrame(fr) /\ LogOK(t, N, fr) /\ fr.op = "log"
    BY <1>1, TopFrame DEF Good, FrameOK
  <1>9. GoodMsg(m) /\ (Bye(t.d.stack) => "MARK" \in m.flags \/ Said(m.text, m.host) \in LastWords)
    BY <1>1, <1>2, <1>8, logmsgMessage DEF Own
  <1>10. CASE fr.ph = "look" /\ fr.i = 1 /\ ~t.d.initialized
    BY <1>1, <1>7, <1>8, <1>10, ConsoleGood, GoodSound
  <1>11. CASE ~(fr.ph = "look" /\ fr.i = 1 /\ ~t.d.initialized) /\ i > Len(t.d.files)
    BY <1>1, <1>7, <1>8, <1>11, PopGood, GoodSound
  <1>12. CASE ~(fr.ph = "look" /\ fr.i = 1 /\ ~t.d.initialized) /\ ~(i > Len(t.d.files))
    <2>1. t.d.initialized /\ fr.i \in Nat \ {0} /\ fr.ph \in {"look", "save", "backoff"}
      BY <1>8, <1>12 DEF LogOK, UseOK
    <2>2. i \in DOMAIN t.d.files
      <3>1. S \subseteq DOMAIN t.d.files
        BY <1>3 DEF Freed
      <3>2. CASE fr.ph = "look"
        <4>0. PICK q \in Nat : q = fr.i
          BY <2>1
        <4>1. i = First(S, t, q)
          BY <1>4, <3>2, <4>0
        <4>2. i \in S
          BY <1>8, <1>12, <3>1, <4>1, FirstFacts
        <4> QED BY <3>1, <4>2
      <3>3. CASE fr.ph # "look"
        BY <1>4, <1>8, <3>3 DEF LogOK
      <3> QED BY <3>2, <3>3
    <2>3. IsEntry(f) /\ EntryOK(f) /\ ~f.freed
      BY <1>5, <1>8, <2>1, <2>2 DEF IsTurn, IsFiles, FilesOK, UseOK
    <2>4. SameLine(f, f) /\ SameLine(g, f) /\ IsEntry(g)
      BY <1>6, <2>3, SameEntry DEF SameLine
    <2>5. IsEntry(h) /\ h.prevcount = f.prevcount + 1 /\ h.prevhost = f.prevhost /\ h.freed = f.freed
      BY <1>c, <2>3 DEF IsEntry
    <2>a. /\ IsFrame(a) /\ a.op = "log" /\ a.m = fr.m /\ GoodMsg(a.m) /\ a.i = i + 1 /\ a.ph = "look"
          /\ IsFrame(b) /\ b.op = "log" /\ b.m = fr.m /\ GoodMsg(b.m) /\ b.i = i /\ b.ph = "save"
          /\ IsFrame(c) /\ c.op = "log" /\ c.m = fr.m /\ GoodMsg(c.m) /\ c.i = i /\ c.ph = "backoff"
      BY <1>2, <1>8, <1>9, <1>d DEF IsFrame
    <2>b. a.op = Top(t).op /\ a.m = Top(t).m /\ b.op = Top(t).op /\ b.m = Top(t).m /\ c.op = Top(t).op /\ c.m = Top(t).m
      BY <1>1, <1>8, <2>a
    <2>6. /\ \A u : Calm(t, u) => IsFrame(a) /\ a.op = fr.op /\ a.m = fr.m /\ FrameOK(u, N, a)
          /\ \A u : Calm(t, u) => IsFrame(c) /\ c.op = fr.op /\ c.m = fr.m /\ FrameOK(u, N, c)
      <3>1. ASSUME NEW u, Calm(t, u) PROVE IsFrame(a) /\ a.op = fr.op /\ a.m = fr.m /\ FrameOK(u, N, a)
        BY <1>1, <1>8, <2>1, <2>2, <2>a, <3>1, LogFrameOK
      <3>2. ASSUME NEW u, Calm(t, u) PROVE IsFrame(c) /\ c.op = fr.op /\ c.m = fr.m /\ FrameOK(u, N, c)
        BY <1>1, <1>8, <2>1, <2>2, <2>a, <3>2, LogFrameOK
      <3> QED BY <3>1, <3>2, Zenon
    <2>7. Calm(t, t)
      BY <1>8, Quiet DEF SameRest
    <2>8. CASE fr.ph = "backoff"
      <3>1. r = SetTop(Set(t, i, g), a)
        BY <1>7, <1>12, <2>8
      <3>2. Moved(t, r, i, g, a)
        BY <1>8, <2>2, <2>4, <2>6, <2>7, <3>1, MovedFacts
      <3>3. Calm(t, r)
        BY <1>5, <1>8, <2>2, <2>4, <3>2, MovedCalm
      <3>4. Continues(t, r) /\ r.d.stack[N] = a
        BY <1>1, <2>6, <2>7, <3>2, MovedContinues, PushedNone
      <3>5. Good(r)
        BY <1>1, <2>6, <3>3, <3>4, GoodStep
      <3> QED BY <3>5, GoodSound
    <2>9. CASE fr.ph = "save"
      <3>1. PICK u : u = SetTop(Set(t, i, f), a)
        OBVIOUS
      <3>2. r = NewLine(u, i, m, e)
        BY <1>7, <1>12, <2>9, <3>1
      <3>3. Moved(t, u, i, f, a)
        BY <1>8, <2>2, <2>3, <2>6, <2>7, <3>1, MovedFacts
      <3>4. f.name \in Live(t) => f.prevcount = 0
        BY <1>4, <1>5, <1>8, <2>9 DEF LogOK
      <3>a. N \in DOMAIN u.d.stack /\ u.d.stack[N].op = "log"
        BY <1>1, <1>8, <2>a, <3>3 DEF Moved
      <3>b. PICK s : s = Clean(r)
        OBVIOUS
      <3>5. Calm(t, s) /\ Above(u.d.stack, s, i) /\ (Owes(r) => Half(r))
        BY <1>5, <1>9, <2>2, <2>3, <3>2, <3>3, <3>4, <3>a, <3>b, NewLineCalm
      <3>6. Continues(t, s) /\ s.d.stack[N] = a
        <4>1. Turns(t, u, a) /\ Rises(u, s)
          BY <3>3, <3>5 DEF Turns, Rises
        <4> QED BY <1>1, <2>b, <4>1, TurnsRises
      <3>7. Good(s)
        BY <1>1, <2>6, <3>5, <3>6, GoodStep
      <3> QED BY <3>5, <3>7, <3>b DEF Sound
    <2>10. CASE fr.ph = "look" /\ ~Same(f, m)
      <3>1. PICK u : u = SetTop(Set(t, i, f), b)
        OBVIOUS
      <3>2. r = flush(u, i, m.host, e)
        BY <1>7, <1>12, <2>3, <2>10, <3>1
      <3>3. IsFrame(b) /\ b.op = fr.op /\ b.m = fr.m
        BY <1>8, <1>d DEF IsFrame
      <3>4. Moved(t, u, i, f, b)
        BY <1>8, <2>2, <2>3, <3>1, <3>3, MovedFacts
      <3>5. Calm(t, u)
        BY <1>5, <1>8, <2>2, <2>4, <3>4, MovedCalm
      <3>6. IsTurn(u) /\ FilesOK(u) /\ OutOK(u) /\ i \in DOMAIN u.d.files /\ u.d.files[i] = f /\ Len(u.d.stack) = N
        BY <1>1, <2>2, <3>4, <3>5 DEF Moved, Calm
      <3>a. PICK s : s = Clean(r)
        OBVIOUS
      <3>b. Top(u).op # "reset"
        BY <1>1, <2>a, <3>4 DEF Moved, Top, Last
      <3>7. \/ r = Crash(u) /\ Fatal(u, i)
            \/ Calm(u, s) /\ Touched(u, s, i) /\ Settled(s, i) /\ (Owes(r) => Half(r))
        BY <3>2, <3>6, <3>a, <3>b, flushFacts
      <3>8. CASE r = Crash(u) /\ Fatal(u, i)
        BY <3>5, <3>6, <3>8, CrashStep, GoodSound
      <3>9. CASE Calm(u, s) /\ Touched(u, s, i) /\ Settled(s, i) /\ (Owes(r) => Half(r))
        <4>1. Calm(t, s)
          BY <1>1, <1>8, <3>4, <3>5, <3>9, CalmTwo, MovedBye
        <4>2. Continues(t, s) /\ s.d.stack[N] = b
          <5>1. Above(u.d.stack, s, i)
            BY <3>6, <3>9, TouchedAbove
          <5>2. Turns(t, u, b) /\ Rises(u, s)
            BY <3>4, <5>1 DEF Turns, Rises
          <5> QED BY <1>1, <2>b, <5>2, TurnsRises
        <4>3. t.d.files[i].name \in Live(s) => N = Len(s.d.stack)
          BY <1>5, <3>6, <3>9 DEF Touched
        <4>4. FrameOK(s, N, b)
          BY <1>1, <2>1, <2>2, <2>a, <3>9, <4>1, <4>3, LogFrameOK
        <4>5. Good(s)
          BY <1>1, <4>1, <4>2, <4>4, GoodStep
        <4> QED BY <3>9, <3>a, <4>5 DEF Sound
      <3> QED BY <3>7, <3>8, <3>9
    <2>11. CASE fr.ph = "look" /\ Same(f, m) /\ f.age <= RepeatInterval[f.rep + 1]
      <3>1. PICK u : u = SetTop(Set(t, i, h), a)
        OBVIOUS
      <3>2. r = Tell(u, i, m)
        BY <1>7, <1>12, <2>3, <2>11, <3>1
      <3>3. Moved(t, u, i, h, a)
        BY <1>8, <2>2, <2>5, <2>6, <2>7, <3>1, MovedFacts
      <3>4. Calm(t, r) /\ r.d = u.d
        BY <1>5, <1>9, <1>c, <2>1, <2>2, <2>11, <3>2, <3>3, CountCalm
      <3>5. Continues(t, r) /\ r.d.stack[N] = a
        BY <1>1, <2>6, <2>7, <3>3, <3>4, MovedContinues, PushedNone
      <3>6. Good(r)
        BY <1>1, <2>6, <3>4, <3>5, GoodStep
      <3> QED BY <3>6, GoodSound
    <2>12. CASE fr.ph = "look" /\ Same(f, m) /\ ~(f.age <= RepeatInterval[f.rep + 1])
      <3>1. PICK u : u = SetTop(Set(t, i, h), c)
        OBVIOUS
      <3>2. PICK v : v = Tell(u, i, m)
        OBVIOUS
      <3>3. r = fprintlog(v, i, m.host, Null, e)
        BY <1>7, <1>12, <2>3, <2>12, <3>1, <3>2
      <3>4. Moved(t, u, i, h, c)
        BY <1>8, <2>2, <2>5, <2>6, <2>7, <3>1, MovedFacts
      <3>5. Calm(t, v) /\ v.d = u.d
        BY <1>5, <1>9, <1>c, <2>1, <2>2, <2>12, <3>2, <3>4, CountCalm
      <3>6. /\ IsTurn(v) /\ FilesOK(v) /\ OutOK(v) /\ i \in DOMAIN v.d.files /\ v.d.files[i] = h /\ h.prevcount > 0
            /\ h.prevhost # NoHost /\ ~h.freed
        BY <2>2, <2>3, <2>5, <2>12, <3>4, <3>5 DEF Moved, Calm, Same, EntryOK
      <3>a. PICK s : s = Clean(r)
        OBVIOUS
      <3>7. Calm(v, s) /\ Touched(v, s, i) /\ (Owes(r) => Half(r))
        BY <3>3, <3>6, <3>a, fprintlogCounted
      <3>8. Calm(t, s)
        BY <1>1, <1>8, <3>4, <3>5, <3>7, CalmTwo, MovedBye
      <3>9. Continues(t, s) /\ s.d.stack[N] = c
        <4>1. Above(u.d.stack, s, i)
          BY <3>5, <3>6, <3>7, TouchedAbove
        <4>2. Turns(t, u, c) /\ Rises(u, s)
          BY <3>4, <4>1 DEF Turns, Rises
        <4> QED BY <1>1, <2>b, <4>2, TurnsRises
      <3>10. Good(s)
        BY <1>1, <2>6, <3>8, <3>9, GoodStep
      <3> QED BY <3>7, <3>10, <3>a DEF Sound
    <2> QED BY <2>1, <2>8, <2>9, <2>10, <2>11, <2>12
  <1> QED BY <1>10, <1>11, <1>12

----------------------------------------------------------------------------
(* The functions that flush entries one by one. *)
LEMMA SetTopMoved ==
  ASSUME NEW t, IsTurn(t), t.d.stack # <<>>, NEW i \in DOMAIN t.d.files, NEW x, IsFrame(x), NEW r, r = SetTop(t, x)
  PROVE  Moved(t, r, i, t.d.files[i], x)
  BY SetTopFacts DEF Moved, Top, Last

LEMMA TopSetMoved ==
  ASSUME NEW t, IsTurn(t), t.d.stack # <<>>, NEW i \in DOMAIN t.d.files, NEW g, IsEntry(g), NEW x, IsFrame(x),
         NEW u, u = SetTop(t, x), NEW r, r = Set(u, i, g)
  PROVE  Moved(t, r, i, g, x)
  <1>1. Moved(t, u, i, t.d.files[i], x)
    BY SetTopMoved
  <1>2. /\ IsTurn(r) /\ r.out = u.out /\ r.lost = u.lost /\ r.d.stack = u.d.stack /\ SameRest(r, u)
        /\ Len(r.d.files) = Len(u.d.files) /\ DOMAIN r.d.files = DOMAIN u.d.files /\ r.d.files[i] = g
        /\ \A j \in DOMAIN u.d.files : j # i => r.d.files[j] = u.d.files[j]
    BY <1>1, SetFacts DEF Moved
  <1> QED BY <1>1, <1>2 DEF Moved, SameRest

LEMMA FlushStep ==
  ASSUME NEW t, Good(t), t.d.up = "up", t.d.stack # <<>>, Bye(t.d.stack) => Top(t).op # "die",
         NEW x, IsFrame(x), x.op = Top(t).op, x.m = Top(t).m,
         NEW i \in DOMAIN t.d.files, NEW u, u = SetTop(t, x), NEW from, NEW e, NEW r, r = flush(u, i, from, e),
         \A v : Calm(t, v) /\ Continues(t, v) /\ Settled(v, i) => FrameOK(v, Len(t.d.stack), x), x.op # "reset"
  PROVE  Sound(r)
  <1>1. IsTurn(t) /\ FilesOK(t) /\ OutOK(t) /\ IsEntry(t.d.files[i]) /\ EntryOK(t.d.files[i])
    BY DEF Good, FilesOK, IsTurn, IsFiles
  <1>2. Moved(t, u, i, t.d.files[i], x)
    BY <1>1, SetTopMoved
  <1>3. Calm(t, u)
    BY <1>1, <1>2, SameEntry, MovedCalm
  <1>4. IsTurn(u) /\ FilesOK(u) /\ OutOK(u) /\ i \in DOMAIN u.d.files
    BY <1>3 DEF Calm
  <1>a. PICK s : s = Clean(r)
    OBVIOUS
  <1>b. Top(u).op # "reset"
    BY <1>2 DEF Moved, Top, Last
  <1>5. \/ r = Crash(u) /\ Fatal(u, i)
        \/ Calm(u, s) /\ Touched(u, s, i) /\ Settled(s, i) /\ (Owes(r) => Half(r))
    BY <1>4, <1>a, <1>b, flushFacts
  <1>6. CASE r = Crash(u) /\ Fatal(u, i)
    BY <1>3, <1>4, <1>6, CrashStep, GoodSound
  <1>7. CASE Calm(u, s) /\ Touched(u, s, i) /\ Settled(s, i) /\ (Owes(r) => Half(r))
    <2>1. Bye(t.d.stack) => Bye(u.d.stack)
      BY <1>2, MovedBye
    <2>2. Calm(t, s)
      BY <1>3, <1>7, <2>1, CalmTwo
    <2>3. Above(u.d.stack, s, i)
      BY <1>4, <1>7, TouchedAbove
    <2>4. Continues(t, s) /\ s.d.stack[Len(t.d.stack)] = x
      <3>1. Turns(t, u, x) /\ Rises(u, s)
        BY <1>2, <2>3 DEF Turns, Rises
      <3> QED BY <3>1, TurnsRises
    <2>5. Good(s)
      BY <1>7, <2>2, <2>4, GoodStep
    <2> QED BY <1>7, <2>5, <1>a DEF Sound
  <1> QED BY <1>5, <1>6, <1>7

(* The frame of domark after a step. *)
LEMMA MarkFrameOK ==
  ASSUME NEW t, NEW p, NEW x, x.op = "mark", x.i \in Nat \ {0}, x.ph \in {"flush", "backoff"},
         x.ph = "backoff" => x.i \in DOMAIN t.d.files
  PROVE  FrameOK(t, p, x)
  BY DEF FrameOK, MarkOK

LEMMA MarkLog ==
  ASSUME NEW x, x = LogFrame(Message("mark", 1, "mark", LocalHostName, {"MARK"}))
  PROVE  IsFrame(x) /\ NewFrame(x)
  <1>1. /\ x.op = "log" /\ x.i = 1 /\ x.ph = "look" /\ x.m.text = "mark" /\ x.m.host = LocalHostName /\ x.m.flags = {"MARK"}
        /\ x = [op |-> "log", i |-> 1, ph |-> "look", m |-> x.m]
    BY DEF LogFrame, Message
  <1>2. GoodMsg(x.m)
    BY <1>1, SyslogAssumption DEF GoodMsg, Null, Repeated
  <1> QED BY <1>1, <1>2 DEF IsFrame, NewFrame, NewLog, Own

LEMMA domarkMark ==
  ASSUME NEW t, Good(t), t.d.up = "up", t.d.stack # <<>>, Top(t).op = "mark", Top(t).ph = "mark", NEW e, NEW r, r = domark(t, e)
  PROVE  Good(r)
  <1>1. PICK fr, N : fr = Top(t) /\ N = Len(t.d.stack)
    OBVIOUS
  <1>2. PICK x : x = [fr EXCEPT !.i = 1, !.ph = "flush"]
    OBVIOUS
  <1>3. PICK y : y = LogFrame(Message("mark", 1, "mark", LocalHostName, {"MARK"}))
    OBVIOUS
  <1>4. PICK u : u = SetTop(t, x)
    OBVIOUS
  <1>5. PICK v, w : v = [u EXCEPT !.d.markseq = t.d.markseq + 1] /\ w = [u EXCEPT !.d.markseq = 0]
    OBVIOUS
  <1>6. r \in {u, v, Push(w, y)}
    <2>1. r = IF MarkInterval = 0 THEN u ELSE IF t.d.markseq + 1 < MarkInterval THEN v ELSE Push(w, y)
      BY <1>1, <1>2, <1>3, <1>4, <1>5 DEF domark
    <2> QED BY <2>1
  <1>7. /\ IsTurn(t) /\ FilesOK(t) /\ OutOK(t) /\ N \in DOMAIN t.d.stack /\ fr = t.d.stack[N] /\ IsFrame(fr)
    BY <1>1, TopFrame DEF Good
  <1>8. IsFrame(x) /\ x.op = "mark" /\ x.m = fr.m /\ x.i = 1 /\ x.ph = "flush"
    BY <1>1, <1>2, <1>7 DEF IsFrame
  <1>9. /\ IsTurn(u) /\ u.out = t.out /\ u.lost = t.lost /\ u.d.files = t.d.files /\ SameRest(u, t)
        /\ DOMAIN u.d.stack = DOMAIN t.d.stack /\ u.d.stack[N] = x
        /\ \A p \in DOMAIN t.d.stack : p # N => u.d.stack[p] = t.d.stack[p]
    BY <1>1, <1>4, <1>7, <1>8, SetTopFacts DEF Top, Last
  <1>10. \A z \in {v, w} : IsTurn(z) /\ z.out = u.out /\ z.lost = u.lost /\ z.d.files = u.d.files /\ SameRest(z, u) /\ z.d.stack = u.d.stack
    <2>1. IsTurn(v) /\ v.out = u.out /\ v.lost = u.lost /\ v.d.files = u.d.files /\ SameRest(v, u) /\ v.d.stack = u.d.stack
      BY <1>5, <1>9 DEF IsTurn, IsDaemon, SameRest
    <2>2. IsTurn(w) /\ w.out = u.out /\ w.lost = u.lost /\ w.d.files = u.d.files /\ SameRest(w, u) /\ w.d.stack = u.d.stack
      BY <1>5, <1>9 DEF IsTurn, IsDaemon, SameRest
    <2> QED BY <2>1, <2>2
  <1>11. IsTurn(r) /\ r.out = u.out /\ r.lost = u.lost /\ r.d.files = u.d.files /\ SameRest(r, u) /\ Pushed(u.d.stack, r.d.stack)
    <2>1. CASE r = u
      BY <1>9, <2>1, PushedNone DEF SameRest
    <2>2. CASE r = v
      BY <1>10, <2>2, PushedNone
    <2>3. CASE r = Push(w, y)
      <3>1. IsFrame(y) /\ NewFrame(y)
        BY <1>3, MarkLog
      <3>2. IsTurn(w) /\ w.out = u.out /\ w.lost = u.lost /\ w.d.files = u.d.files /\ SameRest(w, u) /\ w.d.stack = u.d.stack
        BY <1>10
      <3>3. IsTurn(r) /\ r.out = w.out /\ r.lost = w.lost /\ r.d.files = w.d.files /\ SameRest(r, w)
        BY <2>3, <3>1, <3>2, PushFacts
      <3>4. Pushed(w.d.stack, r.d.stack)
        BY <2>3, <3>1, <3>2, PushedOne
      <3> QED BY <3>2, <3>3, <3>4 DEF SameRest
    <2> QED BY <1>6, <2>1, <2>2, <2>3
  <1>12. Calm(t, r)
    BY <1>7, <1>9, <1>11, Quiet DEF SameRest
  <1>13. Continues(t, r) /\ r.d.stack[N] = x
    BY <1>1, <1>7, <1>8, <1>9, <1>11 DEF Continues, Pushed
  <1>14. FrameOK(r, N, x)
    BY <1>8, MarkFrameOK
  <1> QED BY <1>1, <1>12, <1>13, <1>14, GoodStep

LEMMA domarkGood ==
  ASSUME NEW t, Good(t), t.d.up = "up", t.d.stack # <<>>, Top(t).op = "mark", NEW e, NEW r, r = domark(t, e)
  PROVE  Sound(r)
  <1>1. PICK fr, N : fr = Top(t) /\ N = Len(t.d.stack)
    OBVIOUS
  <1>2. /\ IsTurn(t) /\ FilesOK(t) /\ OutOK(t) /\ N \in DOMAIN t.d.stack /\ fr = t.d.stack[N] /\ IsFrame(fr) /\ MarkOK(t, N, fr)
    BY <1>1, TopFrame DEF Good, FrameOK
  <1>3. PICK S : S = Freed(t) \cup Due(t)
    OBVIOUS
  <1>4. S \subseteq DOMAIN t.d.files
    BY <1>3 DEF Freed, Due
  <1>5. CASE fr.ph = "mark"
    BY <1>1, <1>5, domarkMark, GoodSound
  <1>6. CASE fr.ph = "backoff"
    <2>1. PICK i, f : i = fr.i /\ f = t.d.files[i]
      OBVIOUS
    <2>2. PICK g, x : g = [f EXCEPT !.rep = BackOff(@)] /\ x = [fr EXCEPT !.i = i + 1, !.ph = "flush"]
      OBVIOUS
    <2>3. r = Set(SetTop(t, x), i, g)
      BY <1>1, <1>6, <2>1, <2>2 DEF domark
    <2>4. i \in DOMAIN t.d.files /\ i \in Nat
      BY <1>2, <1>6, <2>1 DEF MarkOK
    <2>a. IsEntry(f) /\ EntryOK(f)
      BY <1>2, <2>1, <2>4 DEF IsTurn, IsFiles, FilesOK
    <2>5. SameLine(g, f) /\ IsEntry(g)
      BY <2>2, <2>a, SameEntry DEF SameLine
    <2>6. IsFrame(x) /\ x.op = "mark" /\ x.m = fr.m /\ x.i = i + 1 /\ x.ph = "flush"
      BY <1>1, <1>2, <2>2 DEF IsFrame
    <2>7. Moved(t, r, i, g, x)
      BY <1>2, <2>3, <2>4, <2>5, <2>6, TopSetMoved
    <2>8. Calm(t, r)
      BY <1>2, <2>1, <2>4, <2>5, <2>7, MovedCalm
    <2>9. Continues(t, r) /\ r.d.stack[N] = x
      BY <1>1, <2>6, <2>7, MovedContinues, PushedNone
    <2>10. FrameOK(r, N, x)
      BY <2>4, <2>6, MarkFrameOK
    <2>11. Good(r)
      BY <1>1, <2>8, <2>9, <2>10, GoodStep
    <2> QED BY <2>11, GoodSound
  <1>7. CASE fr.ph = "flush"
    <2>0. PICK q \in Nat : q = fr.i
      BY <1>2 DEF MarkOK
    <2>1. PICK i : i = First(S, t, q)
      OBVIOUS
    <2>2. PICK x : x = [fr EXCEPT !.i = i, !.ph = "backoff"]
      OBVIOUS
    <2>3. r = IF i > Len(t.d.files) THEN [Pop(t) EXCEPT !.d.alarm = TRUE]
              ELSE IF t.d.files[i].freed THEN Crash(t)
              ELSE fprintlog(SetTop(t, x), i, LocalHostName, Null, e)
      BY <1>1, <1>3, <1>7, <2>0, <2>1, <2>2 DEF domark
    <2>4. i \in Nat \ {0} /\ (i > Len(t.d.files) \/ i \in S)
      BY <1>2, <1>4, <2>1, FirstFacts
    <2>5. CASE i > Len(t.d.files)
      <3>1. PICK u : u = Pop(t)
        OBVIOUS
      <3>2. IsTurn(u) /\ SameRest(u, t) /\ u.lost = t.lost /\ u.d.files = t.d.files /\ u.out = t.out
        BY <1>2, <3>1, PopFacts
      <3>3. r = [u EXCEPT !.d.alarm = TRUE]
        BY <2>3, <2>5, <3>1
      <3>4. IsTurn(r) /\ SameRest(r, u) /\ r.lost = u.lost /\ r.d.files = u.d.files /\ r.out = u.out /\ r.d.stack = u.d.stack
        BY <3>2, <3>3, ZenonT(60) DEF IsTurn, IsDaemon, SameRest
      <3>5. Good(r)
        BY <3>1, <3>2, <3>4, Returns DEF SameRest
      <3> QED BY <3>5, GoodSound
    <2>6. CASE ~(i > Len(t.d.files)) /\ t.d.files[i].freed
      <3>1. Fatal(t, i) /\ i \in DOMAIN t.d.files
        BY <1>4, <2>4, <2>6 DEF Fatal
      <3>2. Calm(t, t)
        BY <1>2, Quiet DEF SameRest
      <3>3. r = Crash(t)
        BY <2>3, <2>6
      <3> QED BY <3>1, <3>2, <3>3, CrashStep, GoodSound
    <2>7. CASE ~(i > Len(t.d.files)) /\ ~t.d.files[i].freed
      <3>1. i \in DOMAIN t.d.files /\ t.d.files[i].prevcount > 0
        BY <1>3, <1>4, <2>4, <2>7 DEF Freed, Due
      <3>2. IsFrame(x) /\ x.op = "mark" /\ x.m = fr.m /\ x.i = i /\ x.ph = "backoff"
        BY <1>1, <1>2, <2>2 DEF IsFrame
      <3>3. PICK u : u = SetTop(t, x)
        OBVIOUS
      <3>4. u.d.files = t.d.files
        BY <1>2, <3>2, <3>3, SetTopFacts
      <3>5. r = flush(u, i, LocalHostName, e)
        BY <2>3, <2>7, <3>1, <3>3, <3>4 DEF flush
      <3>6. ASSUME NEW v, Calm(t, v) PROVE FrameOK(v, N, x)
        BY <2>4, <3>1, <3>2, <3>6, MarkFrameOK DEF Calm
      <3> QED BY <1>1, <3>1, <3>2, <3>3, <3>5, <3>6, FlushStep
    <2> QED BY <2>5, <2>6, <2>7
  <1> QED BY <1>2, <1>5, <1>6, <1>7 DEF MarkOK

----------------------------------------------------------------------------
(* The end of the daemon. *)
DieTop(t, N, fr) ==
  /\ DieOK(t, N, fr) /\ N \in {1, 2} /\ DOMAIN t.d.stack = 1..N /\ fr = t.d.stack[N] /\ IsFrame(fr)
  /\ N = 2 => t.d.stack[1].op = "log"

LEMMA dieFrame ==
  ASSUME NEW t, Good(t), t.d.stack # <<>>, NEW fr, fr = Top(t), fr.op = "die", NEW N, N = Len(t.d.stack)
  PROVE  DieTop(t, N, fr)
  <1>1. DOMAIN t.d.stack = 1..N /\ fr = t.d.stack[N] /\ IsFrame(fr) /\ FrameOK(t, N, fr)
    BY TopFrame
  <1>2. DieOK(t, N, fr)
    BY <1>1 DEF FrameOK
  <1>a. N = 1 \/ (N = 2 /\ t.d.stack[1].op = "log")
    BY <1>2, Zenon DEF DieOK
  <1>b. 1 # 2
    OBVIOUS
  <1>3. N \in {1, 2} /\ (N = 2 => t.d.stack[1].op = "log")
    BY <1>a, <1>b, Zenon
  <1> QED BY <1>1, <1>2, <1>3 DEF DieTop

(* All that die has passed is settled; its frame is now x. *)
ByeFrom(t, u, N, x) ==
  /\ IsTurn(u) /\ u.out = t.out /\ u.lost = t.lost /\ u.d.files = t.d.files /\ u.d.conf = t.d.conf
  /\ u.d.up = t.d.up /\ u.d.at = t.d.at /\ u.d.was = t.d.was /\ u.d.initialized = t.d.was
  /\ Len(u.d.stack) = N /\ DOMAIN u.d.stack = 1..N /\ u.d.stack[N] = x
  /\ \A p \in DOMAIN t.d.stack : p # N => u.d.stack[p] = t.d.stack[p]

LEMMA ByeSaid ==
  ASSUME NEW t, Good(t), t.d.up = "up", \A j \in DOMAIN t.d.files : Settled(t, j), NEW N, NEW fr, DieTop(t, N, fr),
         fr.op = "die", fr.ph = "flush", NEW x, IsFrame(x), x.op = "die", x.ph = "bye", x.i = fr.i, NEW u, ByeFrom(t, u, N, x),
         NEW text \in {"exiting", "write", "sendto", "tty"}, NEW r, r = logerror(u, text)
  PROVE  Good(r)
  <1>2. /\ DieOK(t, N, fr) /\ N \in {1, 2} /\ DOMAIN t.d.stack = 1..N /\ fr = t.d.stack[N] /\ IsFrame(fr)
        /\ N = 2 => t.d.stack[1].op = "log"
    BY Zenon DEF DieTop
  <1>4. IsFrame(x) /\ x.op = "die" /\ x.ph = "bye" /\ x.i = fr.i
    OBVIOUS
  <1>8. /\ IsTurn(u) /\ u.out = t.out /\ u.lost = t.lost /\ u.d.files = t.d.files /\ u.d.conf = t.d.conf
        /\ u.d.up = t.d.up /\ u.d.at = t.d.at /\ u.d.was = t.d.was /\ u.d.initialized = t.d.was
        /\ Len(u.d.stack) = N /\ DOMAIN u.d.stack = 1..N /\ u.d.stack[N] = x
        /\ \A p \in DOMAIN t.d.stack : p # N => u.d.stack[p] = t.d.stack[p]
    BY Zenon DEF ByeFrom
  <1>11. /\ IsTurn(r) /\ r.out = u.out /\ r.lost = u.lost /\ r.d.files = u.d.files /\ SameRest(r, u)
         /\ Pushed(u.d.stack, r.d.stack) /\ Len(r.d.stack) = Len(u.d.stack) + 1
         /\ DOMAIN r.d.stack = DOMAIN u.d.stack \cup {Len(r.d.stack)} /\ NewLog(Top(r))
    BY <1>8, logerrorFacts
  <1>12. /\ IsTurn(r) /\ r.out = t.out /\ r.lost = t.lost /\ r.d.files = t.d.files /\ r.d.conf = t.d.conf
         /\ r.d.up = "up" /\ r.d.at = t.d.at /\ r.d.was = t.d.was /\ r.d.initialized = t.d.was
    BY <1>8, <1>11 DEF SameRest
  <1>13. /\ Len(r.d.stack) = N + 1 /\ DOMAIN r.d.stack = (1..N) \cup {N + 1} /\ r.d.stack[N] = x /\ NewLog(r.d.stack[N + 1])
         /\ N = 2 => r.d.stack[1] = t.d.stack[1]
    <2>1. Len(r.d.stack) = N + 1 /\ DOMAIN r.d.stack = (1..N) \cup {N + 1}
      BY <1>8, <1>11
    <2>2. NewLog(r.d.stack[N + 1])
      BY <1>11, <2>1 DEF Top, Last
    <2>3. r.d.stack[N] = x
      BY <1>2, <1>8, <1>11 DEF Pushed
    <2>4. ASSUME N = 2 PROVE r.d.stack[1] = t.d.stack[1]
      <3>1. 1 \in DOMAIN t.d.stack /\ 1 \in DOMAIN u.d.stack /\ 1 # N
        BY <1>2, <1>8, <2>4
      <3>2. u.d.stack[1] = t.d.stack[1]
        BY <1>8, <3>1
      <3>3. r.d.stack[1] = u.d.stack[1]
        BY <1>11, <3>1 DEF Pushed
      <3> QED BY <3>2, <3>3
    <2> QED BY <2>1, <2>2, <2>3, <2>4
  <1>a. Live(r) = Live(t)
    BY <1>12 DEF Live
  <1>b. FilesOK(r)
    BY <1>12 DEF Good, FilesOK
  <1>c. OutOK(r)
    BY <1>12, <1>a DEF Good, OutOK
  <1>14. FilesOK(r) /\ OutOK(r) /\ Live(r) = Live(t)
    BY <1>a, <1>b, <1>c
  <1>15. FrameOK(r, N + 1, r.d.stack[N + 1])
    <2>1. PICK y : y = r.d.stack[N + 1]
      OBVIOUS
    <2>2. y.op = "log" /\ y.i = 1 /\ y.ph = "look" /\ GoodMsg(y.m)
      BY <1>13, <2>1 DEF NewLog
    <2>3. LogOK(r, N + 1, y)
      BY <2>2 DEF LogOK
    <2> QED BY <2>1, <2>2, <2>3 DEF FrameOK
  <1>16. FrameOK(r, N, r.d.stack[N])
    <2>1. \A j \in DOMAIN r.d.files : LastWord(r, j)
      <3> SUFFICES ASSUME NEW j \in DOMAIN r.d.files PROVE LastWord(r, j)
        OBVIOUS
      <3>1. Settled(t, j)
        BY <1>12
      <3>2. r.d.files[j].name \in Live(r) => ~(r.d.files[j].prevcount > 0)
        BY <1>12, <1>14, <3>1 DEF Settled
      <3> QED BY <3>2 DEF LastWord
    <2>2. \A q \in DOMAIN r.d.stack : q > N => Own(r.d.stack[q])
      <3> SUFFICES ASSUME NEW q \in DOMAIN r.d.stack, q > N PROVE Own(r.d.stack[q])
        OBVIOUS
      <3>1. q = N + 1
        BY <1>2, <1>13
      <3> QED BY <1>13, <3>1 DEF NewLog
    <2>3. N = 1 \/ (N = 2 /\ r.d.stack[1].op = "log")
      BY <1>2, <1>13
    <2>4. x.i \in Nat \ {0}
      BY <1>2, <1>4 DEF DieOK
    <2>5. DieOK(r, N, x)
      BY <1>4, <2>1, <2>2, <2>3, <2>4 DEF DieOK
    <2> QED BY <1>4, <1>13, <2>5 DEF FrameOK
  <1>17. ASSUME N = 2 PROVE FrameOK(r, 1, r.d.stack[1])
    <2>1. PICK y : y = t.d.stack[1]
      OBVIOUS
    <2>2. FrameOK(t, 1, y) /\ y.op = "log"
      BY <1>2, <1>17, <2>1 DEF Good, StackOK
    <2>3. y.i = 1 /\ y.ph = "look"
      BY <1>2, <2>2 DEF FrameOK, LogOK, DieOK
    <2>4. 2 \in DOMAIN r.d.stack /\ r.d.stack[2].op = "die"
      BY <1>4, <1>13, <1>17
    <2>5. LogOK(r, 1, y)
      BY <2>3, <2>4 DEF LogOK
    <2> QED BY <1>13, <1>17, <2>1, <2>2, <2>5 DEF FrameOK
  <1>18. StackOK(r)
    <2> SUFFICES ASSUME NEW p \in DOMAIN r.d.stack PROVE FrameOK(r, p, r.d.stack[p])
      BY DEF StackOK
    <2>1. p = N + 1 \/ p = N \/ (N = 2 /\ p = 1)
      BY <1>2, <1>13
    <2> QED BY <1>15, <1>16, <1>17, <2>1
  <1>19. Ended(r.d.stack)
    <2>1. N \in DOMAIN r.d.stack /\ r.d.stack[N].op = "die"
      BY <1>2, <1>4, <1>13
    <2> QED BY <2>1 DEF Ended
  <1>20. UseOK(r) /\ EndOK(r)
    BY <1>12, <1>19 DEF Good, UseOK, EndOK
  <1> QED BY <1>12, <1>14, <1>18, <1>20 DEF Good

(* The configuration that was in use when SIGTERM came is used again. *)
Restored(t, v) ==
  /\ IsTurn(v) /\ v.out = t.out /\ v.lost = t.lost /\ v.d.files = t.d.files /\ v.d.stack = t.d.stack /\ v.d.conf = t.d.conf
  /\ v.d.up = t.d.up /\ v.d.at = t.d.at /\ v.d.initialized = t.d.was /\ v.d.was = t.d.was

LEMMA WasRestored ==
  ASSUME NEW t, IsTurn(t), NEW v, v = [t EXCEPT !.d.initialized = t.d.was]
  PROVE  Restored(t, v)
  BY DEF Restored, IsTurn, IsDaemon

(* It says its last word. *)
LEMMA dieBye ==
  ASSUME NEW t, Good(t), t.d.up = "up", t.d.stack # <<>>, NEW fr, fr = Top(t), fr.op = "die", fr.ph = "flush",
         \A j \in DOMAIN t.d.files : Settled(t, j), NEW v, Restored(t, v), NEW x, x = [fr EXCEPT !.ph = "bye"],
         NEW u, u = SetTop(v, x), NEW text \in {"exiting", "write", "sendto", "tty"}, NEW r, r = logerror(u, text)
  PROVE  Good(r)
  <1>1. PICK N : N = Len(t.d.stack)
    OBVIOUS
  <1>2. DieTop(t, N, fr)
    BY <1>1, dieFrame
  <1>3. DOMAIN t.d.stack = 1..N /\ IsFrame(fr) /\ N \in DOMAIN t.d.stack
    BY <1>2 DEF DieTop
  <1>4. IsFrame(x) /\ x.op = "die" /\ x.ph = "bye" /\ x.i = fr.i
    BY <1>3 DEF IsFrame
  <1>5. IsTurn(v) /\ v.d.stack = t.d.stack /\ v.d.stack # <<>>
    BY DEF Restored
  <1>6. /\ IsTurn(u) /\ u.out = v.out /\ u.lost = v.lost /\ u.d.files = v.d.files /\ SameRest(u, v)
        /\ Len(u.d.stack) = Len(v.d.stack) /\ DOMAIN u.d.stack = DOMAIN v.d.stack /\ Top(u) = x
        /\ \A p \in DOMAIN v.d.stack : p # Len(v.d.stack) => u.d.stack[p] = v.d.stack[p]
    BY <1>4, <1>5, SetTopFacts
  <1>7. Len(u.d.stack) = N /\ DOMAIN u.d.stack = 1..N /\ u.d.stack[N] = x
    <2>1. Len(u.d.stack) = N /\ DOMAIN u.d.stack = 1..N
      BY <1>1, <1>3, <1>5, <1>6, Zenon
    <2>2. u.d.stack[Len(u.d.stack)] = x
      BY <1>6, Zenon DEF Top, Last
    <2> QED BY <2>1, <2>2
  <1>8. ByeFrom(t, u, N, x)
    <2>1. /\ u.out = t.out /\ u.lost = t.lost /\ u.d.files = t.d.files
      BY <1>6 DEF Restored
    <2>2. /\ u.d.up = t.d.up /\ u.d.at = t.d.at /\ u.d.was = t.d.was /\ u.d.initialized = t.d.was /\ u.d.conf = t.d.conf
      BY <1>6 DEF Restored, SameRest
    <2>3. \A p \in DOMAIN t.d.stack : p # N => u.d.stack[p] = t.d.stack[p]
      BY <1>1, <1>5, <1>6
    <2> QED BY <1>6, <1>7, <2>1, <2>2, <2>3, Zenon DEF ByeFrom
  <1> QED BY <1>2, <1>4, <1>8, ByeSaid

LEMMA dieExit ==
  ASSUME NEW t, Good(t), t.d.up = "up", t.d.stack # <<>>, NEW fr, fr = Top(t), fr.op = "die", fr.ph = "bye",
         NEW r, r = [t EXCEPT !.d.up = "exit", !.d.stack = <<>>]
  PROVE  Good(r)
  <1>1. \A j \in DOMAIN t.d.files : LastWord(t, j)
    BY dieFrame DEF DieTop, DieOK
  <1>2. /\ r = [d |-> r.d, out |-> r.out, lost |-> r.lost] /\ IsDaemon(r.d) /\ r.out = t.out /\ r.lost = t.lost
        /\ r.d.files = t.d.files /\ r.d.conf = t.d.conf /\ r.d.stack = <<>> /\ r.d.up = "exit"
        /\ r.d.initialized = t.d.initialized /\ r.d.was = t.d.was /\ r.d.at = t.d.at
    BY DEF Good, IsTurn, IsDaemon
  <1>3. IsTurn(r)
    BY <1>2, NoElements DEF Good, IsTurn
  <1>4. FilesOK(r) /\ OutOK(r) /\ Live(r) = Live(t)
    BY <1>2 DEF Good, FilesOK, OutOK, Live
  <1>5. StackOK(r)
    BY <1>2, NoElements DEF StackOK
  <1>6. EndOK(r)
    <2> SUFFICES ASSUME NEW n \in Live(r), NEW k \in DOMAIN r.out[n].owed PROVE r.out[n].owed[k] \in LastWords
      BY <1>2 DEF EndOK
    <2>1. CASE \E j \in DOMAIN r.d.files : r.d.files[j].name = n
      <3>1. PICK j \in DOMAIN r.d.files : r.d.files[j].name = n
        BY <2>1
      <3>2. PICK f : f = r.d.files[j]
        OBVIOUS
      <3>a. Followed(f, r.out[n])
        BY <1>4, <3>1, <3>2 DEF OutOK
      <3>b. EntryOK(f)
        BY <1>4, <3>1, <3>2 DEF FilesOK
      <3>3. r.out[n].owed = Owed(f) /\ f.prevcount \in Nat
        BY <3>a, <3>b DEF Followed, EntryOK
      <3>4. k \in 1..f.prevcount /\ Owed(f)[k] = Said(f.prevline, f.prevhost)
        BY <3>3 DEF Owed
      <3>5. f.prevcount > 0
        BY <3>3, <3>4
      <3>6. LastWord(t, j) /\ t.d.files[j] = f /\ n \in Live(t) /\ f.name = n
        BY <1>1, <1>2, <1>4, <3>1, <3>2
      <3>7. Said(f.prevline, f.prevhost) \in LastWords
        BY <3>5, <3>6 DEF LastWord
      <3> QED BY <3>3, <3>4, <3>7
    <2>2. CASE \A j \in DOMAIN r.d.files : r.d.files[j].name # n
      <3>1. r.out[n].owed = <<>>
        BY <1>4, <2>2 DEF OutOK
      <3> QED BY <3>1, NoElements
    <2> QED BY <2>1, <2>2
  <1>7. UseOK(r)
    BY <1>2 DEF Good, UseOK
  <1> QED BY <1>3, <1>4, <1>5, <1>6, <1>7 DEF Good

LEMMA dieGood ==
  ASSUME NEW t, Good(t), t.d.up = "up", t.d.stack # <<>>, Top(t).op = "die", NEW e, NEW r, r = die(t, e)
  PROVE  Sound(r)
  <1>1. PICK fr, N : fr = Top(t) /\ N = Len(t.d.stack)
    OBVIOUS
  <1>2. /\ DieOK(t, N, fr) /\ N \in {1, 2} /\ DOMAIN t.d.stack = 1..N /\ fr = t.d.stack[N] /\ IsFrame(fr)
        /\ N = 2 => t.d.stack[1].op = "log"
    <2>1. DieTop(t, N, fr)
      BY <1>1, dieFrame
    <2> QED BY <2>1, Zenon DEF DieTop
  <1>3. IsTurn(t) /\ FilesOK(t) /\ OutOK(t)
    BY DEF Good
  <1>4. PICK S : S = Freed(t) \cup {j \in DOMAIN t.d.files : t.d.files[j].prevcount > 0}
    OBVIOUS
  <1>5. PICK q \in Nat : q = fr.i
    BY <1>2 DEF DieOK
  <1>6. PICK i : i = First(S, t, q)
    OBVIOUS
  <1>7. PICK x : x = [fr EXCEPT !.i = i + 1]
    OBVIOUS
  <1>8. r = IF fr.ph = "bye" THEN [t EXCEPT !.d.up = "exit", !.d.stack = <<>>]
            ELSE IF i > Len(t.d.files)
            THEN logerror(SetTop([t EXCEPT !.d.initialized = t.d.was], [fr EXCEPT !.ph = "bye"]), "exiting")
            ELSE IF t.d.files[i].freed THEN Crash(t)
            ELSE flush(SetTop(t, x), i, LocalHostName, e)
    BY <1>1, <1>4, <1>5, <1>6, <1>7 DEF die
  <1>9. S \subseteq DOMAIN t.d.files
    BY <1>4 DEF Freed
  <1>10. /\ i \in Nat \ {0} /\ (i > Len(t.d.files) \/ (i \in S /\ i >= q))
         /\ \A j \in S : j >= q => j >= i
    BY <1>3, <1>6, <1>9, FirstFacts
  <1>11. CASE fr.ph = "bye"
    BY <1>1, <1>8, <1>11, dieExit, GoodSound
  <1>12. CASE fr.ph = "flush"
    <2>1. Len(t.d.files) \in Nat /\ DOMAIN t.d.files = 1..Len(t.d.files)
      BY <1>3, SeqDomain DEF IsTurn, IsFiles
    <2>2. ~t.d.initialized /\ \A j \in DOMAIN t.d.files : j < q => Settled(t, j)
      BY <1>2, <1>5, <1>12 DEF DieOK
    <2>3. \A j \in DOMAIN t.d.files : j < i => Settled(t, j)
      <3> SUFFICES ASSUME NEW j \in DOMAIN t.d.files, j < i PROVE Settled(t, j)
        OBVIOUS
      <3>1. CASE j < q
        BY <2>2, <3>1
      <3>2. CASE ~(j < q)
        <4>1. j \notin S
          BY <1>10, <2>1, <3>2
        <4>2. t.d.files[j].prevcount \in Nat /\ ~(t.d.files[j].prevcount > 0)
          BY <1>3, <1>4, <4>1 DEF FilesOK, EntryOK
        <4> QED BY <4>2 DEF Settled
      <3> QED BY <3>1, <3>2
    <2>4. CASE i > Len(t.d.files)
      <3>1. \A j \in DOMAIN t.d.files : Settled(t, j)
        BY <1>10, <2>1, <2>3, <2>4
      <3>2. PICK v : v = [t EXCEPT !.d.initialized = t.d.was]
        OBVIOUS
      <3>3. PICK w : w = [fr EXCEPT !.ph = "bye"]
        OBVIOUS
      <3>4. PICK u : u = SetTop(v, w)
        OBVIOUS
      <3>5. PICK text \in {"exiting", "write", "sendto", "tty"} : text = "exiting"
        OBVIOUS
      <3>6. r = logerror(u, text)
        BY <1>8, <1>12, <2>4, <3>2, <3>3, <3>4, <3>5
      <3>7. Restored(t, v)
        BY <1>3, <3>2, WasRestored
      <3>8. Good(r)
        BY <1>1, <1>12, <3>1, <3>3, <3>4, <3>6, <3>7, dieBye
      <3> QED BY <3>8, GoodSound
    <2>5. CASE ~(i > Len(t.d.files)) /\ t.d.files[i].freed
      <3>1. Fatal(t, i) /\ i \in DOMAIN t.d.files
        BY <1>9, <1>10, <2>5 DEF Fatal
      <3>2. Calm(t, t)
        BY <1>3, Quiet DEF SameRest
      <3>3. r = Crash(t)
        BY <1>8, <1>12, <2>5
      <3>4. Good(r)
        BY <3>1, <3>2, <3>3, CrashStep
      <3> QED BY <3>4, GoodSound
    <2>6. CASE ~(i > Len(t.d.files)) /\ ~t.d.files[i].freed
      <3>1. i \in DOMAIN t.d.files
        BY <1>9, <1>10, <2>6
      <3>2. IsFrame(x) /\ x.op = "die" /\ x.m = fr.m /\ x.i = i + 1 /\ x.ph = "flush"
        BY <1>1, <1>2, <1>7, <1>12 DEF IsFrame
      <3>3. r = flush(SetTop(t, x), i, LocalHostName, e)
        BY <1>8, <1>12, <2>6
      <3>4. ~Bye(t.d.stack)
        <4> SUFFICES ASSUME NEW p \in DOMAIN t.d.stack, t.d.stack[p].op = "die", t.d.stack[p].ph = "bye" PROVE FALSE
          BY DEF Bye
        <4>1. p = N \/ (N = 2 /\ p = 1)
          BY <1>2
        <4> QED BY <1>2, <1>12, <4>1
      <3>5. ASSUME NEW v, Calm(t, v), Continues(t, v), Settled(v, i) PROVE FrameOK(v, N, x)
        <4>1. ~v.d.initialized /\ DOMAIN v.d.files = DOMAIN t.d.files
          BY <2>2, <3>5 DEF Calm, SameRest
        <4>2. \A j \in DOMAIN v.d.files : j < i + 1 => Settled(v, j)
          <5> SUFFICES ASSUME NEW j \in DOMAIN v.d.files, j < i + 1 PROVE Settled(v, j)
            OBVIOUS
          <5>1. j < i \/ j = i
            BY <1>10, <2>1, <4>1
          <5>2. CASE j < i
            BY <2>2, <2>3, <3>5, <4>1, <5>2 DEF Calm
          <5> QED BY <3>5, <5>1, <5>2
        <4>3. N = 1 \/ (N = 2 /\ v.d.stack[1].op = "log")
          BY <1>1, <1>2, <3>5 DEF Continues
        <4>4. i + 1 \in Nat \ {0}
          BY <1>10
        <4>5. DieOK(v, N, x)
          BY <3>2, <4>1, <4>2, <4>3, <4>4 DEF DieOK
        <4> QED BY <3>2, <4>5 DEF FrameOK
      <3> QED BY <1>1, <3>1, <3>2, <3>3, <3>4, <3>5, FlushStep
    <2> QED BY <2>4, <2>5, <2>6
  <1> QED BY <1>2, <1>11, <1>12 DEF DieOK

----------------------------------------------------------------------------
(* The start and the reload: init is the first function, above it there    *)
(* are only messages.                                                      *)
FreshLog(x) == x.op = "log" /\ x.i = 1 /\ x.ph = "look" /\ GoodMsg(x.m)

Grown(t, r) ==
  /\ IsTurn(r) /\ r.out = t.out /\ r.lost = t.lost /\ r.d.files = t.d.files /\ SameRest(r, t)
  /\ \A p \in DOMAIN t.d.stack : r.d.stack[p] = t.d.stack[p]
  /\ \A q \in DOMAIN r.d.stack : q \notin DOMAIN t.d.stack => FreshLog(r.d.stack[q])

LEMMA GrownNone ==
  ASSUME NEW t, IsTurn(t)
  PROVE  Grown(t, t)
  BY DEF Grown, SameRest

LEMMA GrownOne ==
  ASSUME NEW t, IsTurn(t), NEW x, IsFrame(x), FreshLog(x), NEW r, r = Push(t, x)
  PROVE  Grown(t, r) /\ DOMAIN t.d.stack \subseteq DOMAIN r.d.stack
  <1>1. /\ IsTurn(r) /\ r.out = t.out /\ r.lost = t.lost /\ r.d.files = t.d.files /\ SameRest(r, t)
        /\ DOMAIN r.d.stack = DOMAIN t.d.stack \cup {Len(r.d.stack)}
        /\ Top(r) = x /\ \A p \in DOMAIN t.d.stack : r.d.stack[p] = t.d.stack[p]
    BY PushFacts
  <1>2. r.d.stack[Len(r.d.stack)] = x
    BY <1>1 DEF Top, Last
  <1> QED BY <1>1, <1>2 DEF Grown

LEMMA GrownTwo ==
  ASSUME NEW t, NEW u, NEW r, Grown(t, u), Grown(u, r), DOMAIN t.d.stack \subseteq DOMAIN u.d.stack
  PROVE  Grown(t, r)
  <1>1. \A p \in DOMAIN t.d.stack : r.d.stack[p] = t.d.stack[p]
    BY DEF Grown
  <1>2. \A q \in DOMAIN r.d.stack : q \notin DOMAIN t.d.stack => FreshLog(r.d.stack[q])
    BY DEF Grown
  <1> QED BY <1>1, <1>2 DEF Grown, SameRest

LEMMA LogFrameFresh ==
  ASSUME NEW m, GoodMsg(m), NEW x, x = LogFrame(m)
  PROVE  IsFrame(x) /\ FreshLog(x)
  BY DEF LogFrame, IsFrame, FreshLog

LEMMA ErrorGrown ==
  ASSUME NEW t, IsTurn(t), NEW text \in {"config", "network"}, NEW r, r = logerror(t, text)
  PROVE  Grown(t, r) /\ DOMAIN t.d.stack \subseteq DOMAIN r.d.stack
  <1>1. PICK m : m = Message("syslog", 1, text, LocalHostName, {})
    OBVIOUS
  <1>2. GoodMsg(m)
    BY <1>1, SyslogAssumption DEF Message, GoodMsg, Null, Repeated
  <1>3. PICK x : x = LogFrame(m)
    OBVIOUS
  <1>4. r = Push(t, x)
    BY <1>1, <1>3 DEF logerror
  <1>5. IsFrame(x) /\ FreshLog(x)
    BY <1>2, <1>3, LogFrameFresh
  <1> QED BY <1>4, <1>5, GrownOne

(* The daemon runs, and die does not. *)
Serving(t) ==
  /\ IsTurn(t) /\ FilesOK(t) /\ OutOK(t) /\ t.d.up = "up" /\ t.d.at \in {"loop", "poll", "woken"}
  /\ t.d.initialized \in BOOLEAN /\ t.d.was = FALSE
  /\ t.d.initialized => \A j \in DOMAIN t.d.files : ~t.d.files[j].freed

LEMMA GrownGood ==
  ASSUME NEW t, Serving(t), NEW r, Grown(t, r),
         \A p \in DOMAIN t.d.stack : p = 1 /\ t.d.stack[p].op = "init" /\ InitOK(t, 1, t.d.stack[p])
  PROVE  Good(r)
  <1>1. Live(r) = Live(t)
    BY DEF Grown, Live
  <1>2. /\ IsTurn(r) /\ r.out = t.out /\ r.lost = t.lost /\ r.d.files = t.d.files /\ SameRest(r, t)
    BY DEF Grown
  <1>3. FilesOK(r) /\ OutOK(r)
    BY <1>1, <1>2 DEF Serving, FilesOK, OutOK, SameRest
  <1>4. StackOK(r)
    <2> SUFFICES ASSUME NEW p \in DOMAIN r.d.stack PROVE FrameOK(r, p, r.d.stack[p])
      BY DEF StackOK
    <2>1. PICK x : x = r.d.stack[p]
      OBVIOUS
    <2>2. CASE FreshLog(x)
      <3>1. x.op = "log" /\ LogOK(r, p, x)
        BY <2>2 DEF FreshLog, LogOK
      <3> QED BY <2>1, <3>1 DEF FrameOK
    <2>3. CASE p \in DOMAIN t.d.stack
      <3>1. p = 1 /\ x.op = "init" /\ InitOK(t, 1, x)
        BY <2>1, <2>3 DEF Grown
      <3>2. \A j \in DOMAIN t.d.files : Settled(r, j) <=> Settled(t, j)
        BY <1>1, <1>2 DEF Settled
      <3>3. InitOK(r, 1, x)
        BY <1>2, <3>1, <3>2 DEF InitOK, SameRest
      <3> QED BY <2>1, <3>1, <3>3 DEF FrameOK
    <2> QED BY <2>1, <2>2, <2>3 DEF Grown
  <1>5. UseOK(r) /\ EndOK(r)
    BY <1>2 DEF Serving, UseOK, EndOK, SameRest
  <1> QED BY <1>2, <1>3, <1>4, <1>5 DEF Good

LEMMA initFrame ==
  ASSUME NEW t, Good(t), t.d.up = "up", t.d.stack # <<>>, NEW fr, fr = Top(t), fr.op = "init"
  PROVE  /\ Len(t.d.stack) = 1 /\ DOMAIN t.d.stack = {1} /\ t.d.stack[1] = fr /\ IsFrame(fr) /\ InitOK(t, 1, fr) /\ Serving(t)
  <1>1. PICK N : N = Len(t.d.stack)
    OBVIOUS
  <1>2. DOMAIN t.d.stack = 1..N /\ fr = t.d.stack[N] /\ IsFrame(fr) /\ FrameOK(t, N, fr)
    BY <1>1, TopFrame
  <1>3. InitOK(t, N, fr)
    BY <1>2 DEF FrameOK
  <1>4. N = 1
    BY <1>3 DEF InitOK
  <1>5. ~Ended(t.d.stack)
    BY <1>2, <1>4 DEF Ended
  <1>6. Serving(t)
    BY <1>5 DEF Serving, Good, UseOK
  <1> QED BY <1>1, <1>2, <1>3, <1>4, <1>6

(* A new entry. *)
NewEntry(g, line) ==
  /\ IsEntry(g) /\ g.name = line.name /\ g.kind \in {"UNKN", "UNUSED", line.kind} /\ ~g.freed /\ g.rep = 0
  /\ g.prevhost = NoHost /\ g.prevline = "" /\ g.prevcount \in Nat /\ (g.kind # "UNKN" => g.prevcount = 0)
  /\ g.freed \in BOOLEAN

(* t with the entry g, whose file is followed only if it can be used. *)
Opened(t, r, g, line) ==
  /\ IsTurn(r) /\ SameRest(r, t) /\ r.out = t.out /\ t.lost \subseteq r.lost /\ r.d.stack = t.d.stack
  /\ r.d.files = Append(t.d.files, g) /\ (line.name \notin r.lost => g.kind = line.kind)

LEMMA EntryFacts ==
  ASSUME NEW mask, NEW name, NEW kind, NEW count, NEW line, line.name = name, kind \in {"UNKN", "UNUSED", line.kind},
         count \in Nat, kind # "UNKN" => count = 0, NEW age,
         NEW g, g = [kind |-> kind, name |-> name, mask |-> mask, age |-> age, prevline |-> "",
                     prevhost |-> NoHost, prevpri |-> 0, prevcount |-> count, rep |-> 0, freed |-> FALSE]
  PROVE  NewEntry(g, line)
  BY DEF NewEntry, IsEntry

LEMMA cflineOpens ==
  ASSUME NEW t, IsTurn(t), NEW line, NEW ok \in BOOLEAN, NEW r, r = cfline(t, line, ok)
  PROVE  \E g, u : NewEntry(g, line) /\ Opened(t, u, g, line) /\ (r = u \/ r = logerror(u, "config"))
  <1> DEFINE S == Selected(line.sel, t.d.seen)
             bad == \E i \in DOMAIN line.sel : Bad(line.sel[i])
             F == [Entry EXCEPT !.mask = S.mask, !.name = line.name]
             K == CASE line.kind = "FORW" /\ ~ok -> "UNKN"
                    [] line.kind \in Files \cup {"CONSOLE"} /\ ~ok -> "UNUSED"
                    [] OTHER -> line.kind
             G == IF bad THEN F
                  ELSE [F EXCEPT !.kind = K, !.prevcount = IF K = "UNKN" THEN RetryMax ELSE 0,
                                 !.age = IF K = "UNKN" THEN 0 ELSE @]
             U == [t EXCEPT !.d.files = Append(@, G), !.d.seen = S.seen, !.lost = IF ok /\ ~bad THEN @ ELSE @ \cup {line.name}]
  <1>1. r = IF bad \/ K = "UNUSED" THEN logerror(U, "config") ELSE U
    BY Zenon DEF cfline
  <1>2. PICK s : s = S
    OBVIOUS
  <1>3. PICK f : f = F
    OBVIOUS
  <1>4. PICK kind : kind = K
    OBVIOUS
  <1>5. kind \in {"UNKN", "UNUSED", line.kind} /\ (ok => kind = line.kind)
    BY <1>4 DEF Files
  <1>6. PICK count, age : /\ count = (IF kind = "UNKN" THEN RetryMax ELSE 0)
                          /\ age = (IF kind = "UNKN" THEN 0 ELSE f.age)
    OBVIOUS
  <1> HIDE DEF S, F, K
  <1>7. PICK g : g = G
    OBVIOUS
  <1>a. g = IF bad THEN f ELSE [f EXCEPT !.kind = kind, !.prevcount = count, !.age = age]
    BY <1>3, <1>4, <1>6, <1>7
  <1> HIDE DEF G
  <1>8. PICK u : u = U
    OBVIOUS
  <1>b. u = [t EXCEPT !.d.files = Append(@, g), !.d.seen = s.seen, !.lost = IF ok /\ ~bad THEN @ ELSE @ \cup {line.name}]
    BY <1>2, <1>7, <1>8
  <1>9. r = u \/ r = logerror(u, "config")
    BY <1>1, <1>8
  <1> HIDE DEF bad
  <1>11. PICK mm, aa : f = [kind |-> "UNUSED", name |-> line.name, mask |-> mm, age |-> aa, prevline |-> "",
                            prevhost |-> NoHost, prevpri |-> 0, prevcount |-> 0, rep |-> 0, freed |-> FALSE]
    <2>1. PICK e : e = Entry
      OBVIOUS
    <2>2. PICK ma, aa : e = [kind |-> "UNUSED", name |-> "", mask |-> ma, age |-> aa, prevline |-> "",
                             prevhost |-> NoHost, prevpri |-> 0, prevcount |-> 0, rep |-> 0, freed |-> FALSE]
      BY <2>1, Zenon DEF Entry
    <2>3. PICK mm : mm = S.mask
      OBVIOUS
    <2>a. PICK nm : nm = line.name
      OBVIOUS
    <2>4. f = [e EXCEPT !.mask = mm, !.name = nm]
      BY <1>3, <2>1, <2>3, <2>a DEF F
    <2>5. f = [kind |-> "UNUSED", name |-> nm, mask |-> mm, age |-> aa, prevline |-> "",
               prevhost |-> NoHost, prevpri |-> 0, prevcount |-> 0, rep |-> 0, freed |-> FALSE]
      BY <2>2, <2>4
    <2> QED BY <2>5, <2>a, Zenon
  <1>12. count \in Nat /\ (kind # "UNKN" => count = 0)
    BY <1>6, SyslogAssumption
  <1>13. NewEntry(g, line)
    <2>1. CASE bad
      <3>1. g = f
        BY <1>a, <2>1
      <3> QED BY <1>11, <3>1, EntryFacts
    <2>2. CASE ~bad
      <3>1. g = [f EXCEPT !.kind = kind, !.prevcount = count, !.age = age]
        BY <1>a, <2>2
      <3>2. g = [kind |-> kind, name |-> line.name, mask |-> mm, age |-> age, prevline |-> "",
                 prevhost |-> NoHost, prevpri |-> 0, prevcount |-> count, rep |-> 0, freed |-> FALSE]
        BY <1>11, <3>1
      <3> QED BY <1>5, <1>12, <3>2, EntryFacts
    <2> QED BY <2>1, <2>2
  <1>14. Opened(t, u, g, line)
    <2>1. PICK L, Q, w : /\ L = (IF ok /\ ~bad THEN t.lost ELSE t.lost \cup {line.name})
                         /\ Q = Append(t.d.files, g) /\ w = s.seen
      OBVIOUS
    <2>2. u = [t EXCEPT !.d.files = Q, !.d.seen = w, !.lost = L]
      BY <1>b, <2>1, Zenon
    <2>3. /\ u = [d |-> u.d, out |-> u.out, lost |-> u.lost] /\ IsDaemon(u.d) /\ u.out = t.out /\ u.lost = L
          /\ u.d.files = Q /\ u.d.stack = t.d.stack /\ SameRest(u, t)
      BY <2>2 DEF IsTurn, IsDaemon, SameRest
    <2>4. Extended(t.d.files, g, Q)
      BY <2>1, SeqAppend DEF IsTurn, IsFiles
    <2>5. IsFiles(Q)
      BY <1>13, <2>4 DEF Extended, IsTurn, IsFiles, NewEntry
    <2>6. IsTurn(u)
      BY <2>3, <2>5 DEF IsTurn
    <2>7. line.name \notin L => ok /\ ~bad
      BY <2>1
    <2>8. ok /\ ~bad => g.kind = line.kind
      BY <1>5, <1>a, <1>11
    <2> QED BY <2>1, <2>3, <2>6, <2>7, <2>8 DEF Opened
  <1> QED BY <1>9, <1>13, <1>14

(* The lines of a configuration in use. *)
LEMMA ConfLines ==
  ASSUME NEW c, c \in Confs \cup {DefaultConf, <<>>}, NEW i \in Nat \ {0}, i <= Len(c)
  PROVE  /\ i \in DOMAIN c /\ c[i].kind \in Kinds
         /\ c[i].name \in Tracked => c[i].kind \in Files
  <1>1. CASE c \in Confs
    <2>a. /\ Len(c) \in Nat /\ DOMAIN c = 1..Len(c)
          /\ \A j \in DOMAIN c : c[j].kind \in Files \cup {"CONSOLE", "FORW", "WALL"}
      BY <1>1, SyslogAssumption, Zenon
    <2>b. i \in DOMAIN c
      BY <2>a
    <2>1. i \in DOMAIN c /\ c[i].kind \in Files \cup {"CONSOLE", "FORW", "WALL"}
      BY <2>a, <2>b
    <2>2. c[i].name \in Tracked => c[i].kind \in Files
      BY <1>1, <2>1 DEF Tracked
    <2> QED BY <2>1, <2>2 DEF Kinds
  <1>2. CASE c = DefaultConf
    <2>1. /\ DOMAIN c = {1, 2} /\ Len(c) = 2 /\ c[1].name = "console" /\ c[2].name = "users"
          /\ c[1].kind = "CONSOLE" /\ c[2].kind = "WALL"
      <3>1. PICK a, b : a = Sel(1) /\ b = Sel(0)
        OBVIOUS
      <3>2. c = <<[sel |-> a, kind |-> "CONSOLE", name |-> "console"], [sel |-> b, kind |-> "WALL", name |-> "users"]>>
        BY <1>2, <3>1, Zenon DEF DefaultConf
      <3> QED BY <3>2
    <2>2. "console" \notin Tracked /\ "users" \notin Tracked
      BY DEF Tracked
    <2>3. i = 1 \/ i = 2
      BY <2>1
    <2> QED BY <2>1, <2>2, <2>3 DEF Kinds
  <1>3. CASE c = <<>>
    BY <1>3
  <1> QED BY <1>1, <1>2, <1>3

(* Line k of the file becomes the k-th entry. *)
Opens(t, r, g, line, k) ==
  /\ Serving(t) /\ k = Len(t.d.files) + 1 /\ k <= Len(t.d.conf) /\ line = t.d.conf[k] /\ ~t.d.initialized
  /\ NewEntry(g, line) /\ Opened(t, r, g, line) /\ \A j \in DOMAIN t.d.files : ~t.d.files[j].freed

LEMMA OpenedGood ==
  ASSUME NEW t, NEW r, NEW g, NEW line, NEW k, Opens(t, r, g, line, k)
  PROVE  Serving(r) /\ Len(r.d.files) = k /\ \A j \in DOMAIN r.d.files : ~r.d.files[j].freed
  <1> USE DEF Opens
  <1>1. IsSeq(t.d.files) /\ FilesOK(t) /\ OutOK(t) /\ t.d.conf \in Confs \cup {DefaultConf, <<>>}
    BY DEF Serving, IsTurn, IsFiles, FilesOK
  <1>2. Len(t.d.files) \in Nat /\ DOMAIN t.d.files = 1..Len(t.d.files)
    BY <1>1, SeqDomain
  <1>3. k \in Nat \ {0} /\ k \notin DOMAIN t.d.files
    BY <1>2
  <1>4. Extended(t.d.files, g, r.d.files)
    BY <1>1, SeqAppend DEF Opened
  <1>5. /\ DOMAIN r.d.files = DOMAIN t.d.files \cup {k} /\ Len(r.d.files) = k /\ r.d.files[k] = g
        /\ \A j \in DOMAIN t.d.files : r.d.files[j] = t.d.files[j]
    BY <1>4 DEF Extended
  <1>6. k \in DOMAIN t.d.conf /\ line.kind \in Kinds /\ (line.name \in Tracked => line.kind \in Files)
    BY <1>1, <1>3, ConfLines
  <1>7. EntryOK(g) /\ g.name = line.name
    <2>1. 0 \in 0..MaxRepeat /\ "UNKN" \in Kinds /\ "UNUSED" \in Kinds
      BY DEF MaxRepeat, RepeatInterval, Kinds
    <2>2. g.kind \in Kinds /\ g.rep \in 0..MaxRepeat /\ g.prevcount \in Nat /\ g.freed \in BOOLEAN /\ g.name = line.name
      BY <1>6, <2>1 DEF NewEntry
    <2>3. g.prevcount > 0 => g.kind = "UNKN"
      <3>1. g.kind # "UNKN" => g.prevcount = 0
        BY DEF NewEntry
      <3> QED BY <2>2, <3>1
    <2> QED BY <2>2, <2>3, Zenon DEF EntryOK
  <1>8. r.d.conf = t.d.conf /\ IsTurn(r) /\ r.out = t.out /\ Live(r) \subseteq Live(t)
    BY LiveLess DEF Opened, SameRest
  <1>9. FilesOK(r)
    BY <1>1, <1>5, <1>6, <1>7, <1>8 DEF FilesOK
  <1>10. OutOK(r)
    <2> SUFFICES ASSUME NEW n \in Live(r)
                 PROVE  /\ ~r.out[n].wrong
                        /\ \A j \in DOMAIN r.d.files : r.d.files[j].name = n => Followed(r.d.files[j], r.out[n])
                        /\ (\A j \in DOMAIN r.d.files : r.d.files[j].name # n) => r.out[n].owed = <<>>
      BY DEF OutOK
    <2>1. /\ ~t.out[n].wrong
          /\ \A j \in DOMAIN t.d.files : t.d.files[j].name = n => Followed(t.d.files[j], t.out[n])
          /\ (\A j \in DOMAIN t.d.files : t.d.files[j].name # n) => t.out[n].owed = <<>>
      BY <1>1, <1>8 DEF OutOK
    <2>2. CASE n = line.name
      <3>1. ASSUME NEW j \in DOMAIN t.d.files PROVE t.d.files[j].name # n
        <4>1. j # k /\ j \in DOMAIN r.d.files /\ k \in DOMAIN r.d.files /\ n \in Tracked
          BY <1>3, <1>5 DEF Live
        <4>2. r.d.files[j].name # r.d.files[k].name \/ r.d.files[j].name \notin Tracked
          BY <1>9, <4>1, OneEntry
        <4> QED BY <1>5, <1>7, <2>2, <4>1, <4>2
      <3>2. t.out[n].owed = <<>>
        BY <2>1, <3>1
      <3>3. g.kind = line.kind /\ g.kind \in Files
        BY <1>6, <2>2 DEF Opened, Live
      <3>4. g.prevcount = 0 /\ g.prevline = ""
        BY <3>3, LiveKinds DEF NewEntry
      <3>5. Owed(g) = <<>>
        BY <3>4, OwedNone
      <3>6. ~(g.prevcount > 0)
        <4>1. PICK z : z = g.prevcount
          OBVIOUS
        <4>2. z = 0
          BY <3>4, <4>1
        <4>3. ~(z > 0)
          BY <4>2
        <4> QED BY <4>1, <4>3
      <3>7. Followed(g, t.out[n])
        BY <2>1, <3>2, <3>3, <3>4, <3>5, <3>6, Zenon DEF Followed
      <3> QED BY <1>5, <1>8, <2>1, <3>1, <3>2, <3>7
    <2>3. CASE n # line.name
      BY <1>5, <1>7, <1>8, <2>1, <2>3
    <2> QED BY <2>2, <2>3
  <1>11. \A j \in DOMAIN r.d.files : ~r.d.files[j].freed
    BY <1>5 DEF NewEntry
  <1>12. Serving(r)
    BY <1>8, <1>9, <1>10, <1>11 DEF Serving, Opened, SameRest
  <1> QED BY <1>5, <1>11, <1>12

(* A step that leaves init on the stack, with x as its frame. *)
LEMMA InitStep ==
  ASSUME NEW u, Serving(u), NEW x, x.op = "init", DOMAIN u.d.stack = {1}, u.d.stack[1] = x, InitOK(u, 1, x), NEW r, Grown(u, r)
  PROVE  Good(r)
  BY GrownGood

(* The frame of init is set. *)
LEMMA InitSet ==
  ASSUME NEW t, IsTurn(t), Len(t.d.stack) = 1, DOMAIN t.d.stack = {1}, NEW x, IsFrame(x), NEW u, u = SetTop(t, x)
  PROVE  /\ IsTurn(u) /\ u.out = t.out /\ u.lost = t.lost /\ u.d.files = t.d.files /\ SameRest(u, t)
         /\ Len(u.d.stack) = 1 /\ DOMAIN u.d.stack = {1} /\ u.d.stack[1] = x
  <1>1. t.d.stack # <<>>
    BY NoElements
  <1>2. /\ IsTurn(u) /\ u.out = t.out /\ u.lost = t.lost /\ u.d.files = t.d.files /\ SameRest(u, t)
        /\ Len(u.d.stack) = Len(t.d.stack) /\ DOMAIN u.d.stack = DOMAIN t.d.stack /\ Top(u) = x
    BY <1>1, SetTopFacts
  <1> QED BY <1>2 DEF Top, Last

LEMMA SameServing ==
  ASSUME NEW t, Serving(t), NEW u, IsTurn(u), u.out = t.out, u.lost = t.lost, u.d.files = t.d.files, SameRest(u, t)
  PROVE  Serving(u)
  <1>1. Live(u) = Live(t)
    BY DEF Live
  <1>2. FilesOK(u)
    BY DEF Serving, FilesOK, SameRest
  <1>3. OutOK(u)
    BY <1>1 DEF Serving, OutOK
  <1> QED BY <1>2, <1>3 DEF Serving, SameRest

(* Two errors at the start, or none. *)
LEMMA initStart ==
  ASSUME NEW t, Good(t), t.d.up = "up", t.d.stack # <<>>, Top(t).op = "init", Top(t).ph = "start", NEW e, NEW conf \in Confs,
         NEW r, r = init(t, e, conf)
  PROVE  Good(r)
  <1>1. PICK fr : fr = Top(t)
    OBVIOUS
  <1>2. Len(t.d.stack) = 1 /\ DOMAIN t.d.stack = {1} /\ IsFrame(fr) /\ InitOK(t, 1, fr) /\ Serving(t) /\ IsTurn(t)
    BY <1>1, initFrame DEF Good
  <1>3. DOMAIN t.d.files \subseteq Nat \ {0}
    BY <1>2, SeqDomain DEF IsTurn, IsFiles
  <1>4. PICK x, y : x = [fr EXCEPT !.ph = "flush"] /\ y = [fr EXCEPT !.ph = "done"]
    OBVIOUS
  <1>5. /\ IsFrame(x) /\ x.op = "init" /\ x.i = 1 /\ x.ph = "flush"
        /\ IsFrame(y) /\ y.op = "init" /\ y.i = 1 /\ y.ph = "done"
    BY <1>1, <1>2, <1>4 DEF IsFrame, InitOK
  <1>6. PICK u, v : u = SetTop(t, x) /\ v = SetTop(t, y)
    OBVIOUS
  <1>7. IsTurn(u) /\ DOMAIN u.d.stack = {1} /\ u.d.stack[1] = x /\ Serving(u) /\ u.d.files = t.d.files
    BY <1>2, <1>5, <1>6, InitSet, SameServing
  <1>8. IsTurn(v) /\ DOMAIN v.d.stack = {1} /\ v.d.stack[1] = y /\ Serving(v) /\ v.d.files = t.d.files
    BY <1>2, <1>5, <1>6, InitSet, SameServing
  <1>9. r = u \/ r = logerror(logerror(v, "network"), "network")
    BY <1>1, <1>4, <1>6 DEF init
  <1>10. CASE r = u
    <2>1. InitOK(u, 1, x)
      BY <1>3, <1>5, <1>7 DEF InitOK
    <2> QED BY <1>5, <1>7, <1>10, <2>1, InitStep, GrownNone
  <1>11. CASE r = logerror(logerror(v, "network"), "network")
    <2>1. PICK text \in {"config", "network"} : text = "network"
      OBVIOUS
    <2>2. PICK w : w = logerror(v, text)
      OBVIOUS
    <2>3. Grown(v, w) /\ DOMAIN v.d.stack \subseteq DOMAIN w.d.stack /\ IsTurn(w)
      BY <1>8, <2>2, ErrorGrown DEF Grown
    <2>4. r = logerror(w, text)
      BY <1>11, <2>1, <2>2
    <2>5. Grown(w, r)
      BY <2>3, <2>4, ErrorGrown
    <2>6. Grown(v, r)
      BY <2>3, <2>5, GrownTwo
    <2>7. InitOK(v, 1, y)
      BY <1>5, <1>8 DEF InitOK
    <2> QED BY <1>5, <1>8, <2>6, <2>7, InitStep
  <1> QED BY <1>9, <1>10, <1>11

LEMMA SameFiles ==
  ASSUME NEW t, FilesOK(t), NEW r, r.d.files = t.d.files, r.d.conf = t.d.conf
  PROVE  FilesOK(r)
  BY DEF FilesOK

LEMMA SameOut ==
  ASSUME NEW t, OutOK(t), NEW r, r.out = t.out, r.lost = t.lost, r.d.files = t.d.files
  PROVE  OutOK(r)
  <1>1. Live(r) = Live(t)
    BY DEF Live
  <1> QED BY <1>1 DEF OutOK

(* The reload begins: no configuration is in use. *)
LEMMA Unused ==
  ASSUME NEW t, Good(t), t.d.up = "up", t.d.stack # <<>>, NEW fr, fr = Top(t), fr.op = "init", fr.ph = "flush",
         NEW u, u = [t EXCEPT !.d.initialized = FALSE]
  PROVE  /\ Good(u) /\ u.d.up = "up" /\ u.d.stack = t.d.stack /\ u.d.files = t.d.files /\ ~u.d.initialized
         /\ u.out = t.out /\ u.lost = t.lost /\ Serving(u)
  <1>1. DOMAIN t.d.stack = {1} /\ t.d.stack[1] = fr /\ IsFrame(fr) /\ InitOK(t, 1, fr) /\ Serving(t)
    BY initFrame
  <1>2. /\ IsTurn(u) /\ u.out = t.out /\ u.lost = t.lost /\ u.d.files = t.d.files /\ u.d.stack = t.d.stack
        /\ u.d.up = t.d.up /\ u.d.at = t.d.at /\ u.d.initialized = FALSE /\ u.d.was = t.d.was /\ u.d.conf = t.d.conf
    <2>1. IsTurn(t)
      BY <1>1 DEF Serving
    <2>2. /\ u = [d |-> u.d, out |-> u.out, lost |-> u.lost] /\ u.out = t.out /\ u.lost = t.lost
          /\ u.d = [t.d EXCEPT !.initialized = FALSE]
      BY <2>1 DEF IsTurn
    <2>3. /\ IsDaemon(u.d) /\ u.d.files = t.d.files /\ u.d.stack = t.d.stack
          /\ u.d.up = t.d.up /\ u.d.at = t.d.at /\ u.d.initialized = FALSE /\ u.d.was = t.d.was /\ u.d.conf = t.d.conf
      BY <2>1, <2>2 DEF IsTurn, IsDaemon
    <2> QED BY <2>1, <2>2, <2>3 DEF IsTurn
  <1>3. Live(u) = Live(t)
    BY <1>2 DEF Live
  <1>4. FilesOK(u)
    BY <1>1, <1>2 DEF Serving, FilesOK
  <1>5. OutOK(u)
    <2>1. OutOK(t)
      BY <1>1 DEF Serving
    <2> QED BY <1>2, <2>1, SameOut
  <1>6. Serving(u)
    BY <1>1, <1>2, <1>4, <1>5 DEF Serving
  <1>7. InitOK(u, 1, fr)
    <2>1. \A j \in DOMAIN t.d.files : Settled(u, j) <=> Settled(t, j)
      BY <1>2, <1>3 DEF Settled
    <2> QED BY <1>1, <1>2, <2>1 DEF InitOK
  <1>8. Good(u)
    BY <1>1, <1>2, <1>6, <1>7, InitStep, GrownNone
  <1> QED BY <1>2, <1>6, <1>8

(* The frame of init after the last entry is gone. *)
LEMMA ReadReady ==
  ASSUME NEW u, Serving(u), ~u.d.initialized, u.d.files = <<>>, Len(u.d.stack) = 1, DOMAIN u.d.stack = {1},
         NEW x, IsFrame(x), x.op = "init", x.i = 1, x.ph = "read", NEW r, r = SetTop(u, x)
  PROVE  Good(r)
  <1>1. IsTurn(u)
    BY DEF Serving
  <1>2. /\ IsTurn(r) /\ r.out = u.out /\ r.lost = u.lost /\ r.d.files = u.d.files /\ SameRest(r, u)
        /\ DOMAIN r.d.stack = {1} /\ r.d.stack[1] = x
    BY <1>1, InitSet
  <1>3. Serving(r)
    BY <1>2, SameServing
  <1>4. DOMAIN r.d.files = {} /\ Len(r.d.files) = 0
    BY <1>2, NoElements
  <1>5. InitOK(r, 1, x)
    BY <1>2, <1>4 DEF InitOK, SameRest
  <1> QED BY <1>2, <1>3, <1>5, InitStep, GrownNone

(* The entries are gone; the file is read. *)
LEMMA initRead ==
  ASSUME NEW t, Serving(t), ~t.d.initialized, Len(t.d.stack) = 1, DOMAIN t.d.stack = {1},
         \A j \in DOMAIN t.d.files : Settled(t, j), NEW c \in Confs \cup {DefaultConf},
         NEW x, IsFrame(x), x.op = "init", x.i = 1, x.ph = "read",
         NEW u, u = [t EXCEPT !.d.files = <<>>, !.d.seen = {}, !.d.conf = c], NEW r, r = SetTop(u, x)
  PROVE  Good(r)
  <1>2. /\ u = [d |-> u.d, out |-> u.out, lost |-> u.lost] /\ IsDaemon(u.d) /\ u.out = t.out /\ u.lost = t.lost
        /\ u.d.files = <<>> /\ u.d.stack = t.d.stack /\ u.d.conf = c
        /\ u.d.up = t.d.up /\ u.d.at = t.d.at /\ u.d.initialized = t.d.initialized /\ u.d.was = t.d.was
    BY DEF Serving, IsTurn, IsDaemon
  <1>3. IsTurn(u)
    BY <1>2, NoElements DEF Serving, IsTurn
  <1>4. FilesOK(u)
    BY <1>2, NoElements DEF FilesOK
  <1>5. OutOK(u)
    <2> SUFFICES ASSUME NEW n \in Live(u) PROVE ~u.out[n].wrong /\ u.out[n].owed = <<>>
      BY <1>2, NoElements DEF OutOK
    <2>1. n \in Live(t)
      BY <1>2 DEF Live
    <2>2. /\ ~t.out[n].wrong
          /\ \A j \in DOMAIN t.d.files : t.d.files[j].name = n => Followed(t.d.files[j], t.out[n])
          /\ (\A j \in DOMAIN t.d.files : t.d.files[j].name # n) => t.out[n].owed = <<>>
      BY <2>1 DEF Serving, OutOK
    <2>3. ASSUME NEW j \in DOMAIN t.d.files, t.d.files[j].name = n PROVE t.out[n].owed = <<>>
      <3>1. t.d.files[j].prevcount = 0
        BY <2>1, <2>3 DEF Settled
      <3>2. Owed(t.d.files[j]) = <<>>
        BY <3>1, OwedNone
      <3> QED BY <2>2, <2>3, <3>2 DEF Followed
    <2> QED BY <1>2, <2>2, <2>3
  <1>6. Serving(u)
    BY <1>2, <1>3, <1>4, <1>5 DEF Serving
  <1>7. Len(u.d.stack) = 1 /\ DOMAIN u.d.stack = {1} /\ ~u.d.initialized /\ u.d.files = <<>>
    BY <1>2
  <1> QED BY <1>6, <1>7, ReadReady

LEMMA initFlush ==
  ASSUME NEW t, Good(t), t.d.up = "up", t.d.stack # <<>>, Top(t).op = "init", Top(t).ph = "flush", NEW e, NEW conf \in Confs,
         NEW r, r = init(t, e, conf)
  PROVE  Sound(r)
  <1>1. PICK fr : fr = Top(t)
    OBVIOUS
  <1>2. PICK i : i = fr.i
    OBVIOUS
  <1>3. PICK u : u = [t EXCEPT !.d.initialized = FALSE]
    OBVIOUS
  <1>4. /\ Good(u) /\ u.d.up = "up" /\ u.d.stack = t.d.stack /\ u.d.files = t.d.files /\ ~u.d.initialized
        /\ u.out = t.out /\ u.lost = t.lost /\ Serving(u)
    BY <1>1, <1>3, Unused
  <1>5. Len(u.d.stack) = 1 /\ DOMAIN u.d.stack = {1} /\ u.d.stack[1] = fr /\ IsFrame(fr) /\ InitOK(u, 1, fr) /\ Top(u) = fr
    <2>1. Top(u) = fr
      BY <1>1, <1>4 DEF Top
    <2> QED BY <1>1, <1>4, <2>1, initFrame
  <1>6. Len(u.d.files) \in Nat /\ DOMAIN u.d.files = 1..Len(u.d.files)
    BY <1>4, SeqDomain DEF Serving, IsTurn, IsFiles
  <1>7. i \in Nat \ {0} /\ \A j \in DOMAIN u.d.files : j < i => Settled(u, j)
    BY <1>1, <1>2, <1>5 DEF InitOK
  <1>8. PICK x, y : x = [fr EXCEPT !.ph = "free"] /\ y = [fr EXCEPT !.i = 1, !.ph = "read"]
    OBVIOUS
  <1>9. /\ IsFrame(x) /\ x.op = fr.op /\ x.m = fr.m /\ x.i = i /\ x.ph = "free"
        /\ IsFrame(y) /\ y.op = fr.op /\ y.i = 1 /\ y.ph = "read"
    BY <1>2, <1>5, <1>8 DEF IsFrame
  <1>10. CASE i > Len(t.d.files)
    <2>1. PICK c \in Confs \cup {DefaultConf} : c = IF e = "ok" THEN conf ELSE DefaultConf
      OBVIOUS
    <2>a. PICK v : v = [u EXCEPT !.d.files = <<>>, !.d.seen = {}, !.d.conf = c]
      OBVIOUS
    <2>2. r = SetTop(v, y)
      BY <1>1, <1>2, <1>3, <1>8, <1>10, <2>1, <2>a DEF init
    <2>3. \A j \in DOMAIN u.d.files : Settled(u, j)
      BY <1>4, <1>6, <1>7, <1>10
    <2>4. y.op = "init" /\ y.i = 1 /\ y.ph = "read" /\ IsFrame(y)
      BY <1>1, <1>9
    <2>5. Good(r)
      BY <1>4, <1>5, <2>2, <2>3, <2>4, <2>a, initRead, ZenonT(60)
    <2> QED BY <2>5, GoodSound
  <1>11. CASE ~(i > Len(t.d.files))
    <2>1. r = flush(SetTop(u, x), i, LocalHostName, e)
      BY <1>1, <1>2, <1>3, <1>8, <1>11 DEF init
    <2>2. i \in DOMAIN u.d.files
      BY <1>4, <1>6, <1>7, <1>11
    <2>3. ASSUME NEW v, Calm(u, v), Settled(v, i) PROVE FrameOK(v, 1, x)
      <3>1. ~v.d.initialized /\ DOMAIN v.d.files = DOMAIN u.d.files
        BY <1>4, <2>3 DEF Calm, SameRest
      <3>2. \A j \in DOMAIN v.d.files : j <= i => Settled(v, j)
        <4> SUFFICES ASSUME NEW j \in DOMAIN v.d.files, j <= i PROVE Settled(v, j)
          OBVIOUS
        <4>1. j < i \/ j = i
          BY <1>6, <1>7, <3>1
        <4>2. CASE j < i
          BY <1>4, <1>7, <2>3, <3>1, <4>2 DEF Calm
        <4> QED BY <2>3, <4>1, <4>2
      <3>3. InitOK(v, 1, x)
        BY <1>7, <1>9, <2>2, <3>1, <3>2 DEF InitOK
      <3> QED BY <1>1, <1>9, <3>3 DEF FrameOK
    <2>4. u.d.stack # <<>> /\ Top(u).op # "die"
      BY <1>1, <1>4, <1>5
    <2>5. x.op # "reset"
      BY <1>1, <1>9
    <2> QED BY <1>4, <1>5, <1>9, <2>1, <2>2, <2>3, <2>4, <2>5, FlushStep
  <1> QED BY <1>10, <1>11

(* An entry is freed; no configuration is in use. *)
LEMMA FreedServing ==
  ASSUME NEW t, Serving(t), ~t.d.initialized, NEW i \in DOMAIN t.d.files, NEW g, IsEntry(g),
         NEW f, f = t.d.files[i], g = [f EXCEPT !.freed = TRUE], NEW x, NEW r, Moved(t, r, i, g, x)
  PROVE  Serving(r) /\ \A j \in DOMAIN t.d.files : Settled(t, j) => Settled(r, j)
  <1>1. IsTurn(t) /\ FilesOK(t) /\ OutOK(t) /\ IsEntry(f) /\ EntryOK(f)
    BY DEF Serving, FilesOK, IsTurn, IsFiles
  <1>2. /\ g.name = f.name /\ g.prevline = f.prevline /\ g.prevhost = f.prevhost /\ g.freed = TRUE
        /\ g.prevcount = f.prevcount /\ g.kind = f.kind /\ g.rep = f.rep
    BY <1>1 DEF IsEntry
  <1>3. /\ IsTurn(r) /\ r.out = t.out /\ r.lost = t.lost /\ SameRest(r, t) /\ DOMAIN r.d.files = DOMAIN t.d.files
        /\ r.d.files[i] = g /\ \A j \in DOMAIN t.d.files : j # i => r.d.files[j] = t.d.files[j]
    BY DEF Moved
  <1>4. Live(r) = Live(t)
    BY <1>3 DEF Live
  <1>5. EntryOK(g)
    BY <1>1, <1>2 DEF EntryOK
  <1>6. \A j \in DOMAIN t.d.files :
          /\ r.d.files[j].name = t.d.files[j].name /\ r.d.files[j].prevcount = t.d.files[j].prevcount /\ EntryOK(r.d.files[j])
          /\ \A o : Followed(t.d.files[j], o) => Followed(r.d.files[j], o)
    <2> SUFFICES ASSUME NEW j \in DOMAIN t.d.files
                 PROVE  /\ r.d.files[j].name = t.d.files[j].name /\ r.d.files[j].prevcount = t.d.files[j].prevcount
                        /\ EntryOK(r.d.files[j]) /\ \A o : Followed(t.d.files[j], o) => Followed(r.d.files[j], o)
      OBVIOUS
    <2>1. CASE j # i
      BY <1>1, <1>3, <2>1 DEF FilesOK
    <2>2. CASE j = i
      <3>1. Owed(g) = Owed(f)
        BY <1>2 DEF Owed
      <3>2. \A o : Followed(f, o) => Followed(g, o)
        BY <1>2, <3>1 DEF Followed
      <3> QED BY <1>2, <1>3, <1>5, <2>2, <3>2
    <2> QED BY <2>1, <2>2
  <1>7. FilesOK(r)
    BY <1>1, <1>3, <1>6 DEF FilesOK, SameRest
  <1>8. OutOK(r)
    <2> SUFFICES ASSUME NEW n \in Live(r)
                 PROVE  /\ ~r.out[n].wrong
                        /\ \A j \in DOMAIN r.d.files : r.d.files[j].name = n => Followed(r.d.files[j], r.out[n])
                        /\ (\A j \in DOMAIN r.d.files : r.d.files[j].name # n) => r.out[n].owed = <<>>
      BY DEF OutOK
    <2>1. /\ ~t.out[n].wrong
          /\ \A j \in DOMAIN t.d.files : t.d.files[j].name = n => Followed(t.d.files[j], t.out[n])
          /\ (\A j \in DOMAIN t.d.files : t.d.files[j].name # n) => t.out[n].owed = <<>>
      BY <1>1, <1>4 DEF OutOK
    <2> QED BY <1>3, <1>6, <2>1
  <1>9. Serving(r)
    BY <1>3, <1>7, <1>8 DEF Serving, SameRest
  <1>10. \A j \in DOMAIN t.d.files : Settled(t, j) => Settled(r, j)
    BY <1>4, <1>6 DEF Settled
  <1> QED BY <1>9, <1>10

LEMMA initFree ==
  ASSUME NEW t, Good(t), t.d.up = "up", t.d.stack # <<>>, Top(t).op = "init", Top(t).ph = "free", NEW e, NEW conf,
         NEW r, r = init(t, e, conf)
  PROVE  Good(r)
  <1>1. PICK fr : fr = Top(t)
    OBVIOUS
  <1>2. /\ Len(t.d.stack) = 1 /\ DOMAIN t.d.stack = {1} /\ t.d.stack[1] = fr /\ IsFrame(fr) /\ InitOK(t, 1, fr)
        /\ Serving(t) /\ IsTurn(t)
    BY <1>1, initFrame DEF Good
  <1>3. PICK i : i = fr.i
    OBVIOUS
  <1>4. /\ i \in Nat /\ i \in DOMAIN t.d.files /\ ~t.d.initialized /\ \A j \in DOMAIN t.d.files : j <= i => Settled(t, j)
    BY <1>1, <1>2, <1>3 DEF InitOK
  <1>5. PICK f : f = t.d.files[i]
    OBVIOUS
  <1>6. IsEntry(f) /\ DOMAIN t.d.files \subseteq Nat
    BY <1>2, <1>4, <1>5, SeqDomain DEF IsTurn, IsFiles
  <1>7. PICK g, x : g = [f EXCEPT !.freed = TRUE] /\ x = [fr EXCEPT !.i = i + 1, !.ph = "flush"]
    OBVIOUS
  <1>8. IsEntry(g)
    BY <1>6, <1>7 DEF IsEntry
  <1>9. IsFrame(x) /\ x.op = "init" /\ x.i = i + 1 /\ x.ph = "flush"
    BY <1>1, <1>2, <1>7 DEF IsFrame
  <1>10. r = SetTop(Set(t, i, g), x)
    BY <1>1, <1>3, <1>5, <1>7 DEF init
  <1>11. Moved(t, r, i, g, x)
    BY <1>2, <1>4, <1>8, <1>9, <1>10, MovedFacts
  <1>12. Serving(r) /\ \A j \in DOMAIN t.d.files : Settled(t, j) => Settled(r, j)
    BY <1>2, <1>4, <1>5, <1>7, <1>8, <1>11, FreedServing
  <1>13. /\ DOMAIN r.d.stack = {1} /\ r.d.stack[1] = x /\ DOMAIN r.d.files = DOMAIN t.d.files
         /\ r.d.initialized = t.d.initialized /\ IsTurn(r)
    BY <1>2, <1>11 DEF Moved, SameRest
  <1>14. \A j \in DOMAIN r.d.files : j < i + 1 => Settled(r, j)
    <2> SUFFICES ASSUME NEW j \in DOMAIN r.d.files, j < i + 1 PROVE Settled(r, j)
      OBVIOUS
    <2>1. j <= i
      BY <1>4, <1>6, <1>13
    <2> QED BY <1>4, <1>12, <1>13, <2>1
  <1>15. InitOK(r, 1, x)
    BY <1>4, <1>9, <1>13, <1>14 DEF InitOK
  <1> QED BY <1>9, <1>12, <1>13, <1>15, InitStep, GrownNone

(* A line of the file becomes an entry. *)
LEMMA LineReady ==
  ASSUME NEW u, Serving(u), ~u.d.initialized, DOMAIN u.d.stack = {1}, NEW x, u.d.stack[1] = x, x.op = "init", x.ph = "read",
         NEW k \in Nat \ {0}, x.i = k + 1, k = Len(u.d.files) + 1, k <= Len(u.d.conf), NEW line, line = u.d.conf[k],
         \A j \in DOMAIN u.d.files : ~u.d.files[j].freed, NEW ok \in BOOLEAN, NEW r, r = cfline(u, line, ok)
  PROVE  Good(r)
  <1>1. IsTurn(u)
    BY DEF Serving
  <1>2. PICK g, v : NewEntry(g, line) /\ Opened(u, v, g, line) /\ (r = v \/ r = logerror(v, "config"))
    BY <1>1, cflineOpens
  <1>3. Serving(v) /\ Len(v.d.files) = k /\ \A j \in DOMAIN v.d.files : ~v.d.files[j].freed
    <2>1. Opens(u, v, g, line, k)
      BY <1>2 DEF Opens
    <2> QED BY <2>1, OpenedGood
  <1>4. /\ DOMAIN v.d.stack = {1} /\ v.d.stack[1] = x /\ ~v.d.initialized /\ IsTurn(v)
    BY <1>2 DEF Opened, SameRest
  <1>5. InitOK(v, 1, x)
    BY <1>3, <1>4 DEF InitOK
  <1>6. Grown(v, r)
    <2>1. PICK text \in {"config", "network"} : text = "config"
      OBVIOUS
    <2> QED BY <1>2, <1>4, <2>1, GrownNone, ErrorGrown
  <1> QED BY <1>3, <1>4, <1>5, <1>6, InitStep

LEMMA initLine ==
  ASSUME NEW t, Good(t), t.d.up = "up", t.d.stack # <<>>, NEW fr, fr = Top(t), fr.op = "init", fr.ph = "read",
         NEW k, k = fr.i, k <= Len(t.d.conf), NEW x, IsFrame(x), x.op = "init", x.ph = "read", x.i = k + 1,
         NEW u, u = SetTop(t, x), NEW ok \in BOOLEAN, NEW r, r = cfline(u, t.d.conf[k], ok)
  PROVE  Good(r)
  <1>1. /\ Len(t.d.stack) = 1 /\ DOMAIN t.d.stack = {1} /\ t.d.stack[1] = fr /\ IsFrame(fr) /\ InitOK(t, 1, fr)
        /\ Serving(t) /\ IsTurn(t)
    BY initFrame DEF Good
  <1>2. k \in Nat \ {0} /\ k = Len(t.d.files) + 1 /\ ~t.d.initialized /\ \A j \in DOMAIN t.d.files : ~t.d.files[j].freed
    BY <1>1 DEF InitOK
  <1>3. /\ IsTurn(u) /\ u.out = t.out /\ u.lost = t.lost /\ u.d.files = t.d.files /\ SameRest(u, t)
        /\ Len(u.d.stack) = 1 /\ DOMAIN u.d.stack = {1} /\ u.d.stack[1] = x
    BY <1>1, InitSet
  <1>4. Serving(u) /\ ~u.d.initialized /\ u.d.conf = t.d.conf
    BY <1>1, <1>2, <1>3, SameServing DEF SameRest
  <1>5. PICK line : line = t.d.conf[k]
    OBVIOUS
  <1>6. r = cfline(u, line, ok) /\ line = u.d.conf[k] /\ k = Len(u.d.files) + 1 /\ k <= Len(u.d.conf)
    BY <1>2, <1>3, <1>4, <1>5
  <1> QED BY <1>2, <1>3, <1>4, <1>6, LineReady

LEMMA RunsReady ==
  ASSUME NEW u, Serving(u), Len(u.d.stack) = 1, DOMAIN u.d.stack = {1},
         NEW y, IsFrame(y), y.op = "init", y.i \in Nat \ {0}, y.ph = "done", NEW v, v = SetTop(u, y)
  PROVE  /\ Serving(v) /\ IsTurn(v) /\ DOMAIN v.d.stack = {1} /\ v.d.stack[1] = y /\ y.op = "init" /\ InitOK(v, 1, y)
  <1>1. IsTurn(u)
    BY DEF Serving
  <1>2. /\ IsTurn(v) /\ v.out = u.out /\ v.lost = u.lost /\ v.d.files = u.d.files /\ SameRest(v, u)
        /\ DOMAIN v.d.stack = {1} /\ v.d.stack[1] = y
    BY <1>1, InitSet
  <1>3. Serving(v)
    BY <1>2, SameServing
  <1>4. InitOK(v, 1, y)
    BY DEF InitOK
  <1> QED BY <1>2, <1>3, <1>4

(* The file has been read: the configuration is in use. *)
LEMMA RunsServing ==
  ASSUME NEW t, Good(t), t.d.up = "up", t.d.stack # <<>>, NEW fr, fr = Top(t), fr.op = "init", fr.ph = "read",
         NEW u, u = [t EXCEPT !.d.initialized = TRUE]
  PROVE  Serving(u) /\ Len(u.d.stack) = 1 /\ DOMAIN u.d.stack = {1} /\ fr.i \in Nat \ {0} /\ IsFrame(fr)
  <1>1. /\ Len(t.d.stack) = 1 /\ DOMAIN t.d.stack = {1} /\ t.d.stack[1] = fr /\ IsFrame(fr) /\ InitOK(t, 1, fr)
        /\ Serving(t) /\ IsTurn(t)
    BY initFrame DEF Good
  <1>2. fr.i \in Nat \ {0} /\ \A j \in DOMAIN t.d.files : ~t.d.files[j].freed
    BY <1>1 DEF InitOK
  <1>4. /\ u = [d |-> u.d, out |-> u.out, lost |-> u.lost] /\ IsDaemon(u.d) /\ u.out = t.out /\ u.lost = t.lost
        /\ u.d.files = t.d.files /\ u.d.stack = t.d.stack /\ u.d.up = t.d.up /\ u.d.at = t.d.at
        /\ u.d.initialized = TRUE /\ u.d.was = t.d.was /\ u.d.conf = t.d.conf
    BY <1>1 DEF IsTurn, IsDaemon
  <1>5. IsTurn(u)
    BY <1>1, <1>4 DEF IsTurn
  <1>6. OutOK(u)
    BY <1>1, <1>4, SameOut DEF Serving
  <1>7. FilesOK(u)
    BY <1>1, <1>4, SameFiles DEF Serving
  <1>8. Serving(u)
    BY <1>1, <1>2, <1>4, <1>5, <1>6, <1>7 DEF Serving
  <1> QED BY <1>1, <1>2, <1>4, <1>8

LEMMA initGood ==
  ASSUME NEW t, Good(t), t.d.up = "up", t.d.stack # <<>>, Top(t).op = "init", NEW e, NEW conf \in Confs,
         NEW r, r = init(t, e, conf)
  PROVE  Sound(r)
  <1>1. PICK fr : fr = Top(t)
    OBVIOUS
  <1>2. /\ IsFrame(fr) /\ fr.ph \in {"start", "flush", "free", "read", "done"}
    BY <1>1, initFrame DEF InitOK
  <1>3. CASE fr.ph = "start"
    BY <1>1, <1>3, initStart, GoodSound
  <1>4. CASE fr.ph = "flush"
    BY <1>1, <1>4, initFlush
  <1>5. CASE fr.ph = "free"
    BY <1>1, <1>5, initFree, GoodSound
  <1>6. CASE fr.ph = "read" /\ fr.i <= Len(t.d.conf)
    <2>1. PICK k : k = fr.i
      OBVIOUS
    <2>2. PICK x : x = [fr EXCEPT !.i = k + 1]
      OBVIOUS
    <2>3. PICK u : u = SetTop(t, x)
      OBVIOUS
    <2>4. PICK ok \in BOOLEAN : ok = (e = "ok")
      OBVIOUS
    <2>5. r = cfline(u, t.d.conf[k], ok)
      BY <1>1, <1>6, <2>1, <2>2, <2>3, <2>4 DEF init
    <2>6. IsFrame(x) /\ x.op = "init" /\ x.ph = "read" /\ x.i = k + 1
      BY <1>1, <1>2, <1>6, <2>1, <2>2 DEF IsFrame
    <2>7. Good(r)
      BY <1>1, <1>6, <2>1, <2>3, <2>5, <2>6, initLine
    <2> QED BY <2>7, GoodSound
  <1>7. CASE fr.ph = "read" /\ ~(fr.i <= Len(t.d.conf))
    <2>1. PICK y : y = [fr EXCEPT !.ph = "done"]
      OBVIOUS
    <2>2. PICK u : u = [t EXCEPT !.d.initialized = TRUE]
      OBVIOUS
    <2>3. PICK v : v = SetTop(u, y)
      OBVIOUS
    <2>4. PICK m : m = Message("syslog", 1, "restart", LocalHostName, {})
      OBVIOUS
    <2>5. PICK x : x = LogFrame(m)
      OBVIOUS
    <2>6. r = v \/ r = Push(v, x)
      BY <1>1, <1>7, <2>1, <2>2, <2>3, <2>4, <2>5 DEF init
    <2>a. /\ Serving(u) /\ Len(u.d.stack) = 1 /\ DOMAIN u.d.stack = {1} /\ fr.i \in Nat \ {0} /\ IsFrame(fr)
      BY <1>1, <1>7, <2>2, RunsServing
    <2>b. IsFrame(y) /\ y.op = "init" /\ y.i \in Nat \ {0} /\ y.ph = "done"
      BY <1>1, <2>1, <2>a DEF IsFrame
    <2>7. /\ Serving(v) /\ IsTurn(v) /\ DOMAIN v.d.stack = {1} /\ v.d.stack[1] = y /\ y.op = "init" /\ InitOK(v, 1, y)
      BY <2>3, <2>a, <2>b, RunsReady
    <2>8. GoodMsg(m)
      BY <2>4, SyslogAssumption DEF Message, GoodMsg, Null, Repeated
    <2>9. Grown(v, r)
      BY <2>5, <2>6, <2>7, <2>8, LogFrameFresh, GrownOne, GrownNone
    <2>10. Good(r)
      BY <2>7, <2>9, InitStep
    <2> QED BY <2>10, GoodSound
  <1>8. CASE fr.ph = "done"
    <2>1. PICK u : u = Pop(t)
      OBVIOUS
    <2>2. IsTurn(u) /\ SameRest(u, t) /\ u.lost = t.lost /\ u.d.files = t.d.files /\ u.out = t.out
      BY <2>1, PopFacts DEF Good
    <2>3. r = [u EXCEPT !.d.restart = FALSE]
      BY <1>1, <1>8, <2>1 DEF init
    <2>4. IsTurn(r) /\ SameRest(r, u) /\ r.lost = u.lost /\ r.d.files = u.d.files /\ r.out = u.out /\ r.d.stack = u.d.stack
      BY <2>2, <2>3, ZenonT(60) DEF IsTurn, IsDaemon, SameRest
    <2>5. Good(r)
      BY <1>1, <2>1, <2>2, <2>4, Returns DEF SameRest
    <2> QED BY <2>5, GoodSound
  <1> QED BY <1>2, <1>3, <1>4, <1>5, <1>6, <1>7, <1>8

----------------------------------------------------------------------------
(* The function on top goes on. *)
LEMMA walledGood ==
  ASSUME NEW t, Good(t), t.d.up = "up", t.d.stack # <<>>, Top(t).op = "walled", NEW u, u = Pop(t),
         NEW r, r = [u EXCEPT !.d.reenter = FALSE]
  PROVE  Good(r)
  <1>1. IsTurn(u) /\ SameRest(u, t) /\ u.lost = t.lost /\ u.d.files = t.d.files /\ u.out = t.out
    BY PopFacts DEF Good
  <1>2. IsTurn(r) /\ SameRest(r, u) /\ r.lost = u.lost /\ r.d.files = u.d.files /\ r.out = u.out /\ r.d.stack = u.d.stack
    BY <1>1 DEF IsTurn, IsDaemon, SameRest
  <1>3. SameRest(r, t) /\ r.lost = t.lost /\ r.d.files = t.d.files /\ r.out = t.out /\ r.d.stack = Pop(t).d.stack
    BY <1>1, <1>2 DEF SameRest
  <1>4. Top(t).op # "die"
    OBVIOUS
  <1> QED BY <1>2, <1>3, <1>4, Returns

(* fprintlog resets the count of an entry whose file is not followed.      *)
LEMMA resetGood ==
  ASSUME NEW t, Good(t), t.d.up = "up", t.d.stack # <<>>, Top(t).op = "reset", NEW r, r = reset(t)
  PROVE  Good(r)
  <1>1. PICK x, N : x = Top(t) /\ N = Len(t.d.stack)
    OBVIOUS
  <1>2. x = t.d.stack[N] /\ N \in DOMAIN t.d.stack /\ FrameOK(t, N, x)
    BY <1>1, TopFrame
  <1>3. PICK i : i = x.i
    OBVIOUS
  <1>4. i \in DOMAIN t.d.files /\ t.d.files[i].name \notin Live(t)
    BY <1>1, <1>2, <1>3 DEF FrameOK, Dead
  <1>5. PICK f, u : f = t.d.files[i] /\ u = Pop(t)
    OBVIOUS
  <1>6. IsEntry(f) /\ EntryOK(f)
    BY <1>4, <1>5 DEF Good, FilesOK, IsTurn, IsFiles
  <1>7. CASE f.kind = "UNKN"
    <2>1. r = u
      BY <1>1, <1>3, <1>5, <1>7 DEF reset
    <2> QED BY <1>5, <2>1, PopGood
  <1>8. CASE f.kind # "UNKN"
    <2>1. PICK h : h = [f EXCEPT !.prevcount = 0]
      OBVIOUS
    <2>2. r = Set(u, i, h)
      BY <1>1, <1>3, <1>5, <1>8, <2>1 DEF reset
    <2>3. /\ IsEntry(h) /\ h.name = f.name /\ h.freed = f.freed /\ h.kind = f.kind /\ h.prevhost = f.prevhost
          /\ h.rep = f.rep /\ h.prevcount = 0
      BY <1>6, <2>1 DEF IsEntry
    <2>4. EntryOK(h)
      BY <1>6, <2>3 DEF EntryOK
    <2>5. /\ IsTurn(u) /\ SameRest(u, t) /\ u.lost = t.lost /\ u.d.files = t.d.files /\ u.out = t.out
          /\ DOMAIN t.d.stack = DOMAIN u.d.stack \cup {N} /\ N \notin DOMAIN u.d.stack
          /\ \A p \in DOMAIN u.d.stack : u.d.stack[p] = t.d.stack[p]
      BY <1>1, <1>5, PopFacts DEF Good
    <2>6. /\ IsTurn(r) /\ r.out = u.out /\ r.lost = u.lost /\ r.d.stack = u.d.stack /\ SameRest(r, u)
          /\ DOMAIN r.d.files = DOMAIN u.d.files /\ r.d.files[i] = h
          /\ \A j \in DOMAIN u.d.files : j # i => r.d.files[j] = u.d.files[j]
      BY <1>4, <2>2, <2>3, <2>5, SetFacts
    <2>7. Calm(t, r)
      <3>1. /\ IsTurn(r) /\ SameRest(r, t) /\ r.lost = t.lost /\ DOMAIN r.d.files = DOMAIN t.d.files /\ r.out = t.out
        BY <2>5, <2>6 DEF SameRest
      <3>2. Live(r) = Live(t)
        BY <3>1 DEF Live
      <3>3. \A j \in DOMAIN t.d.files :
              /\ r.d.files[j].name = t.d.files[j].name /\ r.d.files[j].freed = t.d.files[j].freed /\ EntryOK(r.d.files[j])
              /\ t.d.files[j].name \in Live(t) => r.d.files[j] = t.d.files[j]
        BY <1>4, <1>5, <2>3, <2>4, <2>5, <2>6 DEF Good, FilesOK
      <3>4. FilesOK(r)
        BY <3>1, <3>3 DEF Good, FilesOK, SameRest
      <3>5. OutOK(r)
        BY <3>1, <3>2, <3>3 DEF Good, OutOK
      <3>6. \A j \in DOMAIN t.d.files : (Settled(t, j) => Settled(r, j)) /\ (LastWord(t, j) => LastWord(r, j))
        BY <3>2, <3>3 DEF Settled, LastWord
      <3> QED BY <3>1, <3>2, <3>3, <3>4, <3>5, <3>6 DEF Calm
    <2>8. t.d.stack[N].op # "die"
      BY <1>1, <1>2
    <2>9. Continues(t, r)
      BY <1>1, <2>5, <2>6, <2>8 DEF Continues
    <2> QED BY <1>1, <2>5, <2>6, <2>7, <2>9, GoodStep
  <1> QED BY <1>7, <1>8

LEMMA FrameGood ==
  ASSUME NEW t, Good(t), t.d.up = "up", t.d.stack # <<>>, disk \in Confs, NEW e, NEW r, r = Frame(t, e)
  PROVE  Sound(r)
  <1>1. PICK op : op = Top(t).op
    OBVIOUS
  <1>2. PICK N : N = Len(t.d.stack)
    OBVIOUS
  <1>3. op \in {"log", "mark", "die", "init", "walled", "reset"}
    BY <1>1, <1>2, TopFrame DEF FrameOK
  <1>4. CASE op = "log"
    <2>1. r = logmsg(t, e)
      BY <1>1, <1>4 DEF Frame
    <2> QED BY <1>1, <1>4, <2>1, logmsgGood
  <1>5. CASE op = "mark"
    <2>1. r = domark(t, e)
      BY <1>1, <1>5 DEF Frame
    <2> QED BY <1>1, <1>5, <2>1, domarkGood
  <1>6. CASE op = "die"
    <2>1. r = die(t, e)
      BY <1>1, <1>6 DEF Frame
    <2> QED BY <1>1, <1>6, <2>1, dieGood
  <1>7. CASE op = "init"
    <2>1. r = init(t, e, disk)
      BY <1>1, <1>7 DEF Frame
    <2> QED BY <1>1, <1>7, <2>1, initGood
  <1>8. CASE op = "walled"
    <2>1. r = [Pop(t) EXCEPT !.d.reenter = FALSE]
      BY <1>1, <1>8 DEF Frame
    <2>2. PICK u : u = Pop(t)
      OBVIOUS
    <2>3. r = [u EXCEPT !.d.reenter = FALSE]
      BY <2>1, <2>2
    <2> QED BY <1>1, <1>8, <2>2, <2>3, walledGood, GoodSound
  <1>9. CASE op = "reset"
    <2>1. r = reset(t)
      BY <1>1, <1>9 DEF Frame
    <2> QED BY <1>1, <1>9, <2>1, resetGood, GoodSound
  <1> QED BY <1>3, <1>4, <1>5, <1>6, <1>7, <1>8, <1>9

----------------------------------------------------------------------------
(* main and the signals.  The entries and the readers stay as they are, but *)
(* that entries grow older, and that files may not be followed any more:    *)
(* what is counted for these does not matter.                               *)
Lasting(g, f) == g.name = f.name /\ g.kind = f.kind /\ g.prevhost = f.prevhost /\ g.freed = f.freed

Waits(t, r) ==
  /\ IsTurn(r) /\ r.out = t.out /\ t.lost \subseteq r.lost /\ r.d.up = t.d.up /\ r.d.conf = t.d.conf
  /\ r.d.at \in {"loop", "poll", "woken"} /\ DOMAIN r.d.files = DOMAIN t.d.files
  /\ \A j \in DOMAIN t.d.files :
       /\ Lasting(r.d.files[j], t.d.files[j]) /\ EntryOK(r.d.files[j])
       /\ t.d.files[j].name \in Live(r) =>
            r.d.files[j].prevcount = t.d.files[j].prevcount /\ r.d.files[j].prevline = t.d.files[j].prevline

LEMMA WaitKeeps ==
  ASSUME NEW t, FilesOK(t), OutOK(t), NEW r, Waits(t, r)
  PROVE  /\ IsTurn(r) /\ Live(r) \subseteq Live(t) /\ FilesOK(r) /\ OutOK(r)
         /\ \A j \in DOMAIN t.d.files : (Settled(t, j) => Settled(r, j)) /\ (LastWord(t, j) => LastWord(r, j))
  <1>1. Live(r) \subseteq Live(t)
    BY LiveLess DEF Waits
  <1>2. FilesOK(r)
    BY DEF Waits, Lasting, FilesOK
  <1>3. ASSUME NEW j \in DOMAIN t.d.files, t.d.files[j].name \in Live(r)
        PROVE  \A o : Followed(t.d.files[j], o) => Followed(r.d.files[j], o)
    <2>1. PICK f, g : f = t.d.files[j] /\ g = r.d.files[j]
      OBVIOUS
    <2>2. Lasting(g, f) /\ g.prevcount = f.prevcount /\ g.prevline = f.prevline
      BY <1>3, <2>1 DEF Waits
    <2>3. Owed(g) = Owed(f)
      BY <2>2 DEF Owed, Lasting
    <2>4. \A o : Followed(f, o) => Followed(g, o)
      BY <2>2, <2>3 DEF Followed, Lasting
    <2> QED BY <2>1, <2>4
  <1>4. OutOK(r)
    <2> SUFFICES ASSUME NEW n \in Live(r)
                 PROVE  /\ ~r.out[n].wrong
                        /\ \A j \in DOMAIN r.d.files : r.d.files[j].name = n => Followed(r.d.files[j], r.out[n])
                        /\ (\A j \in DOMAIN r.d.files : r.d.files[j].name # n) => r.out[n].owed = <<>>
      BY DEF OutOK
    <2>1. /\ ~t.out[n].wrong
          /\ \A j \in DOMAIN t.d.files : t.d.files[j].name = n => Followed(t.d.files[j], t.out[n])
          /\ (\A j \in DOMAIN t.d.files : t.d.files[j].name # n) => t.out[n].owed = <<>>
      BY <1>1 DEF OutOK
    <2>2. r.out = t.out /\ DOMAIN r.d.files = DOMAIN t.d.files /\ \A j \in DOMAIN t.d.files : r.d.files[j].name = t.d.files[j].name
      BY DEF Waits, Lasting
    <2> QED BY <1>3, <2>1, <2>2
  <1>5. ASSUME NEW j \in DOMAIN t.d.files PROVE (Settled(t, j) => Settled(r, j)) /\ (LastWord(t, j) => LastWord(r, j))
    <2>1. PICK f, g : f = t.d.files[j] /\ g = r.d.files[j]
      OBVIOUS
    <2>2. /\ g.name = f.name /\ g.prevhost = f.prevhost
          /\ f.name \in Live(r) => f.name \in Live(t) /\ g.prevcount = f.prevcount /\ g.prevline = f.prevline
      BY <1>1, <1>5, <2>1 DEF Waits, Lasting
    <2>3. Settled(t, j) => Settled(r, j)
      BY <2>1, <2>2 DEF Settled
    <2>4. LastWord(t, j) => LastWord(r, j)
      BY <2>1, <2>2 DEF LastWord
    <2> QED BY <2>3, <2>4
  <1> QED BY <1>1, <1>2, <1>4, <1>5 DEF Waits

LEMMA WaitFacts ==
  ASSUME NEW t, Good(t), NEW r, Waits(t, r)
  PROVE  /\ IsTurn(r) /\ Live(r) \subseteq Live(t) /\ FilesOK(r) /\ OutOK(r) /\ EndOK(r)
         /\ \A j \in DOMAIN t.d.files : (Settled(t, j) => Settled(r, j)) /\ (LastWord(t, j) => LastWord(r, j))
         /\ Len(r.d.files) = Len(t.d.files)
  <1>1. /\ IsTurn(r) /\ Live(r) \subseteq Live(t) /\ FilesOK(r) /\ OutOK(r)
        /\ \A j \in DOMAIN t.d.files : (Settled(t, j) => Settled(r, j)) /\ (LastWord(t, j) => LastWord(r, j))
    BY WaitKeeps DEF Good
  <1>2. EndOK(r)
    <2>1. /\ r.d.up = t.d.up /\ r.out = t.out /\ DOMAIN r.d.files = DOMAIN t.d.files
          /\ \A j \in DOMAIN t.d.files : Lasting(r.d.files[j], t.d.files[j])
      BY DEF Waits
    <2> QED BY <1>1, <2>1 DEF Good, EndOK, Lasting
  <1>3. Len(r.d.files) = Len(t.d.files)
    BY <1>1, SameLen DEF Waits, Good, IsTurn, IsFiles
  <1> QED BY <1>1, <1>2, <1>3

(* The entries are the same. *)
Still(t, r) ==
  /\ IsTurn(r) /\ r.out = t.out /\ t.lost \subseteq r.lost /\ r.d.files = t.d.files /\ r.d.up = t.d.up /\ r.d.conf = t.d.conf
  /\ r.d.at \in {"loop", "poll", "woken"}

LEMMA StillWaits ==
  ASSUME NEW t, FilesOK(t), NEW r, Still(t, r)
  PROVE  Waits(t, r)
  BY DEF FilesOK, Still, Waits, Lasting

(* A frame that stays at its place of a stack where no message is logged. *)
LEMMA FrameStays ==
  ASSUME NEW t, Good(t), NEW r, Waits(t, r), r.d.initialized = t.d.initialized,
         NEW p \in DOMAIN t.d.stack, \A q \in DOMAIN t.d.stack : q \in DOMAIN r.d.stack /\ r.d.stack[q] = t.d.stack[q],
         r.d.stack = t.d.stack \/ (t.d.stack[p].op # "log" /\ \A q \in DOMAIN r.d.stack : r.d.stack[q].op # "log")
  PROVE  FrameOK(r, p, t.d.stack[p])
  <1>1. PICK x : x = t.d.stack[p]
    OBVIOUS
  <1>2. FrameOK(t, p, x)
    BY <1>1 DEF Good, StackOK
  <1>3. /\ Live(r) \subseteq Live(t) /\ DOMAIN r.d.files = DOMAIN t.d.files /\ Len(r.d.files) = Len(t.d.files)
        /\ \A j \in DOMAIN t.d.files : (Settled(t, j) => Settled(r, j)) /\ (LastWord(t, j) => LastWord(r, j))
        /\ \A j \in DOMAIN t.d.files : /\ r.d.files[j].name = t.d.files[j].name /\ r.d.files[j].freed = t.d.files[j].freed
                                       /\ t.d.files[j].name \in Live(r) => r.d.files[j].prevcount = t.d.files[j].prevcount
    BY WaitFacts DEF Waits, Lasting
  <1>4. ASSUME x.op = "log" PROVE LogOK(r, p, x)
    <2>1. r.d.stack = t.d.stack
      BY <1>1, <1>4
    <2>2. LogOK(t, p, x)
      BY <1>2, <1>4 DEF FrameOK
    <2> QED BY <1>3, <2>1, <2>2 DEF LogOK
  <1>5. ASSUME x.op = "mark" PROVE MarkOK(r, p, x)
    BY <1>2, <1>3, <1>5 DEF FrameOK, MarkOK
  <1>6. ASSUME x.op = "die" PROVE DieOK(r, p, x)
    <2>1. DieOK(t, p, x)
      BY <1>2, <1>6 DEF FrameOK
    <2>2. p = 1 \/ (p = 2 /\ r.d.stack[1].op = "log")
      <3>1. CASE r.d.stack = t.d.stack
        BY <2>1, <3>1 DEF DieOK
      <3>2. CASE p = 2 /\ t.d.stack[1].op = "log"
        <4>1. 1 \in DOMAIN t.d.stack
          BY <3>2, SeqDomain DEF Good, IsTurn, IsStack
        <4> QED BY <3>2, <4>1
      <3> QED BY <2>1, <3>2 DEF DieOK
    <2>3. ASSUME x.ph = "flush" PROVE ~r.d.initialized /\ \A j \in DOMAIN r.d.files : j < x.i => Settled(r, j)
      BY <1>3, <2>1, <2>3 DEF DieOK
    <2>4. ASSUME x.ph = "bye" PROVE \A j \in DOMAIN r.d.files : LastWord(r, j)
      BY <1>3, <2>1, <2>4 DEF DieOK
    <2>5. ASSUME x.ph = "bye" PROVE \A q \in DOMAIN r.d.stack : q > p /\ r.d.stack[q].op = "log" => Own(r.d.stack[q])
      <3>1. CASE r.d.stack = t.d.stack
        BY <2>1, <2>5, <3>1 DEF DieOK
      <3> QED BY <3>1
    <2> QED BY <2>1, <2>2, <2>3, <2>4, <2>5 DEF DieOK
  <1>7. ASSUME x.op = "init" PROVE InitOK(r, p, x)
    <2>1. InitOK(t, p, x)
      BY <1>2, <1>7 DEF FrameOK
    <2> QED BY <1>3, <2>1 DEF InitOK
  <1>8. ASSUME x.op = "reset" PROVE Dead(r, x.i)
    BY <1>2, <1>3, <1>8 DEF FrameOK, Dead
  <1> QED BY <1>1, <1>2, <1>4, <1>5, <1>6, <1>7, <1>8 DEF FrameOK

(* The functions that run stay as they are. *)
LEMMA WaitGood ==
  ASSUME NEW t, Good(t), NEW r, Waits(t, r), r.d.stack = t.d.stack, r.d.initialized = t.d.initialized, r.d.was = t.d.was
  PROVE  Good(r)
  <1>1. IsTurn(r) /\ FilesOK(r) /\ OutOK(r) /\ EndOK(r)
    BY WaitFacts
  <1>2. StackOK(r)
    BY FrameStays DEF StackOK
  <1>3. UseOK(r)
    BY DEF Good, UseOK, Waits, Lasting
  <1> QED BY <1>1, <1>2, <1>3 DEF Good

(* SIGALRM: domark, which may interrupt fprintlog before the count is reset. *)
Interrupts(r, x) == (x.op = "mark" /\ x.i = 1 /\ x.ph = "mark") \/ (x.op = "reset" /\ Dead(r, x.i))

LEMMA AlarmGood ==
  ASSUME NEW t, Good(t), t.d.up = "up", NEW r, Waits(t, r), r.d.initialized = t.d.initialized, r.d.was = t.d.was,
         \A p \in DOMAIN t.d.stack : p \in DOMAIN r.d.stack /\ r.d.stack[p] = t.d.stack[p] /\ t.d.stack[p].op # "log",
         \A q \in DOMAIN r.d.stack : q \notin DOMAIN t.d.stack => Interrupts(r, r.d.stack[q])
  PROVE  Good(r)
  <1>1. IsTurn(r) /\ FilesOK(r) /\ OutOK(r) /\ EndOK(r)
    BY WaitFacts
  <1>2. \A q \in DOMAIN r.d.stack : r.d.stack[q].op # "log"
    BY DEF Interrupts
  <1>3. StackOK(r)
    <2> SUFFICES ASSUME NEW p \in DOMAIN r.d.stack PROVE FrameOK(r, p, r.d.stack[p])
      BY DEF StackOK
    <2>1. CASE p \in DOMAIN t.d.stack
      BY <1>2, <2>1, FrameStays
    <2>2. CASE p \notin DOMAIN t.d.stack
      <3>1. PICK x : x = r.d.stack[p]
        OBVIOUS
      <3>2. Interrupts(r, x)
        BY <2>2, <3>1
      <3>3. x.op = "mark" /\ x.i = 1 /\ x.ph = "mark" => FrameOK(r, p, x)
        BY DEF FrameOK, MarkOK
      <3>4. x.op = "reset" /\ Dead(r, x.i) => FrameOK(r, p, x)
        BY DEF FrameOK
      <3> QED BY <3>1, <3>2, <3>3, <3>4 DEF Interrupts
    <2> QED BY <2>1, <2>2
  <1>4. UseOK(r)
    <2>1. Ended(t.d.stack) => Ended(r.d.stack)
      BY DEF Ended
    <2> QED BY <2>1 DEF Good, UseOK, Waits, Lasting
  <1> QED BY <1>1, <1>3, <1>4 DEF Good

(* SIGTERM: die, above the frame of the message it interrupts or alone. *)
LEMMA TermGood ==
  ASSUME NEW t, Good(t), t.d.up = "up", NEW r, Waits(t, r), r.d.initialized = FALSE, r.d.was = t.d.initialized,
         NEW x, x.op = "die", x.i = 1, x.ph = "flush", NEW y, y.op = "log", y.i = 1, y.ph = "look",
         r.d.stack = <<x>> \/ r.d.stack = <<y, x>>
  PROVE  Good(r)
  <1>1. IsTurn(r) /\ FilesOK(r) /\ OutOK(r) /\ EndOK(r)
    BY WaitFacts
  <1>2. DOMAIN r.d.files \subseteq Nat \ {0}
    BY <1>1, SeqDomain DEF IsTurn, IsFiles
  <1>3. ASSUME NEW p, p = 1 \/ (p = 2 /\ r.d.stack[1].op = "log") PROVE FrameOK(r, p, x)
    <2>1. DieOK(r, p, x)
      BY <1>2, <1>3 DEF DieOK
    <2> QED BY <2>1 DEF FrameOK
  <1>4. ASSUME r.d.stack = <<y, x>> PROVE FrameOK(r, 1, y)
    <2>1. 2 \in DOMAIN r.d.stack /\ r.d.stack[2].op = "die"
      BY <1>4
    <2>2. LogOK(r, 1, y)
      BY <2>1 DEF LogOK
    <2> QED BY <2>2 DEF FrameOK
  <1>5. StackOK(r)
    <2>1. CASE r.d.stack = <<x>>
      <3>1. DOMAIN r.d.stack = {1} /\ r.d.stack[1] = x
        BY <2>1
      <3> QED BY <1>3, <3>1 DEF StackOK
    <2>2. CASE r.d.stack = <<y, x>>
      <3>1. DOMAIN r.d.stack = {1, 2} /\ r.d.stack[1] = y /\ r.d.stack[2] = x
        BY <2>2
      <3> QED BY <1>3, <1>4, <2>2, <3>1 DEF StackOK
    <2> QED BY <2>1, <2>2
  <1>6. UseOK(r)
    <2>1. Ended(r.d.stack)
      <3>1. \E p \in DOMAIN r.d.stack : r.d.stack[p] = x
        <4>1. CASE r.d.stack = <<x>>
          <5>1. 1 \in DOMAIN r.d.stack /\ r.d.stack[1] = x
            BY <4>1
          <5> QED BY <5>1
        <4>2. CASE r.d.stack = <<y, x>>
          <5>1. 2 \in DOMAIN r.d.stack /\ r.d.stack[2] = x
            BY <4>2
          <5> QED BY <5>1
        <4> QED BY <4>1, <4>2
      <3> QED BY <3>1 DEF Ended
    <2> QED BY <2>1 DEF Good, UseOK, Waits, Lasting
  <1> QED BY <1>1, <1>5, <1>6 DEF Good

(* Nothing runs: the daemon is in use unless it has ended. *)
LEMMA IdleServing ==
  ASSUME NEW t, Good(t), t.d.up = "up", t.d.stack = <<>>
  PROVE  Serving(t)
  <1>1. ~Ended(t.d.stack)
    BY NoElements DEF Ended
  <1> QED BY <1>1 DEF Good, UseOK, Serving

LEMMA WaitServing ==
  ASSUME NEW t, Serving(t), NEW r, Waits(t, r), r.d.initialized = t.d.initialized, r.d.was = t.d.was
  PROVE  Serving(r)
  <1>1. FilesOK(r) /\ OutOK(r)
    BY WaitKeeps DEF Serving
  <1> QED BY <1>1 DEF Serving, Waits, Lasting

(* main calls init. *)
LEMMA StartGood ==
  ASSUME NEW t, Serving(t), t.d.stack = <<InitFrame>>
  PROVE  Good(t)
  <1>1. PICK x : x = InitFrame
    OBVIOUS
  <1>2. x.op = "init" /\ x.i = 1 /\ x.ph = "start"
    BY <1>1 DEF InitFrame
  <1>3. DOMAIN t.d.stack = {1} /\ t.d.stack[1] = x
    BY <1>1
  <1>4. InitOK(t, 1, x)
    BY <1>2 DEF InitOK
  <1>5. Grown(t, t)
    BY GrownNone DEF Serving
  <1> QED BY <1>2, <1>3, <1>4, <1>5, InitStep

(* A datagram is served. *)
LEMMA MessageGood ==
  ASSUME NEW t, Serving(t), t.d.stack = <<>>, NEW m \in Msgs, NEW r, r = printline(t, m) \/ r = printsys(t, m)
  PROVE  Good(r)
  <1>1. m.host # NoHost /\ m.text \notin {"", Null, Repeated} /\ LocalHostName # NoHost
    BY SyslogAssumption
  <1>2. IsTurn(t)
    BY DEF Serving
  <1>3. Grown(t, r)
    <2>1. CASE r = printline(t, m)
      <3>1. PICK fac : fac = IF m.fac = "kern" THEN "user" ELSE m.fac
        OBVIOUS
      <3>2. PICK z : z = [Message(fac, m.pri, m.text, m.host, {}) EXCEPT !.long = m.long]
        OBVIOUS
      <3>3. GoodMsg(z)
        BY <1>1, <3>2 DEF GoodMsg, Message
      <3>4. PICK x : x = LogFrame(z)
        OBVIOUS
      <3>5. IsFrame(x) /\ FreshLog(x)
        BY <3>3, <3>4, LogFrameFresh
      <3>6. PICK u : u = Push(t, x)
        OBVIOUS
      <3>7. r = u \/ r = Push(u, x)
        BY <2>1, <3>1, <3>2, <3>4, <3>6 DEF printline
      <3>8. Grown(t, u) /\ DOMAIN t.d.stack \subseteq DOMAIN u.d.stack /\ IsTurn(u)
        BY <1>2, <3>5, <3>6, GrownOne DEF Grown
      <3>9. CASE r = Push(u, x)
        <4>1. Grown(u, r)
          BY <3>5, <3>8, <3>9, GrownOne
        <4> QED BY <3>8, <4>1, GrownTwo
      <3> QED BY <3>7, <3>8, <3>9
    <2>2. CASE r = printsys(t, m)
      <3>1. PICK flags : flags = IF m.pri = 0 THEN {} ELSE {"IGN_CONS"}
        OBVIOUS
      <3>2. PICK z : z = Message(m.fac, m.pri, m.text, LocalHostName, flags)
        OBVIOUS
      <3>3. GoodMsg(z)
        BY <1>1, <3>2 DEF GoodMsg, Message
      <3>4. PICK x : x = LogFrame(z)
        OBVIOUS
      <3>5. IsFrame(x) /\ FreshLog(x)
        BY <3>3, <3>4, LogFrameFresh
      <3>6. r = Push(t, x)
        BY <2>2, <3>1, <3>2, <3>4 DEF printsys
      <3> QED BY <1>2, <3>5, <3>6, GrownOne
    <2> QED BY <2>1, <2>2
  <1>4. DOMAIN t.d.stack = {}
    BY NoElements
  <1> QED BY <1>3, <1>4, GrownGood

----------------------------------------------------------------------------
(* fprintlog before it resets the count of the entry: t, and s is what     *)
(* becomes of it.                                                          *)
Resets(t, s, N, i) ==
  /\ IsTurn(s) /\ s.out = t.out /\ s.lost = t.lost /\ SameRest(s, t) /\ s.d.stack = Pop(t).d.stack
  /\ N = Len(t.d.stack) /\ t.d.stack[N].op = "reset" /\ t.d.stack[N].i = i /\ t.d.files[i].name \in Live(t)
  /\ DOMAIN t.d.stack = DOMAIN s.d.stack \cup {N} /\ N \notin DOMAIN s.d.stack
  /\ \A p \in DOMAIN s.d.stack : s.d.stack[p] = t.d.stack[p]
  /\ DOMAIN s.d.files = DOMAIN t.d.files /\ i \in DOMAIN t.d.files
  /\ Lasting(s.d.files[i], t.d.files[i]) /\ s.d.files[i].prevline = t.d.files[i].prevline
  /\ s.d.files[i].prevcount = 0 /\ s.d.files[i].rep = t.d.files[i].rep
  /\ \A j \in DOMAIN t.d.files : j # i => s.d.files[j] = t.d.files[j]

LEMMA ResetsThere ==
  ASSUME NEW t, IsTurn(t), Owes(t), NEW N, N = Len(t.d.stack), NEW i, i = Top(t).i, t.d.files[i].kind # "UNKN",
         NEW s, s = Clean(t)
  PROVE  Resets(t, s, N, i)
  <1>1. PICK f, u : f = t.d.files[i] /\ u = Pop(t)
    OBVIOUS
  <1>2. PICK g : g = [f EXCEPT !.prevcount = 0]
    OBVIOUS
  <1>3. s = Set(u, i, g)
    BY <1>1, <1>2, CleanOwing
  <1>4. /\ i \in DOMAIN t.d.files /\ f.name \in Live(t) /\ t.d.stack # <<>> /\ t.d.stack[N].op = "reset" /\ t.d.stack[N].i = i
    BY <1>1 DEF Owes, Top, Last
  <1>5. IsEntry(f)
    BY <1>1, <1>4 DEF IsTurn, IsFiles
  <1>6. /\ IsEntry(g) /\ Lasting(g, f) /\ g.prevline = f.prevline /\ g.prevcount = 0 /\ g.rep = f.rep
    BY <1>2, <1>5 DEF IsEntry, Lasting
  <1>7. /\ IsTurn(u) /\ u.out = t.out /\ u.lost = t.lost /\ u.d.files = t.d.files /\ SameRest(u, t)
        /\ DOMAIN t.d.stack = DOMAIN u.d.stack \cup {N} /\ N \notin DOMAIN u.d.stack
        /\ \A p \in DOMAIN u.d.stack : u.d.stack[p] = t.d.stack[p]
    BY <1>1, <1>4, PopFacts
  <1>8. /\ IsTurn(s) /\ s.out = u.out /\ s.lost = u.lost /\ s.d.stack = u.d.stack /\ SameRest(s, u)
        /\ DOMAIN s.d.files = DOMAIN u.d.files /\ s.d.files[i] = g
        /\ \A j \in DOMAIN u.d.files : j # i => s.d.files[j] = u.d.files[j]
    BY <1>3, <1>4, <1>6, <1>7, SetFacts
  <1>9. SameRest(s, t)
    BY <1>7, <1>8 DEF SameRest
  <1>10. /\ s.out = t.out /\ s.lost = t.lost /\ s.d.stack = u.d.stack /\ DOMAIN s.d.files = DOMAIN t.d.files
         /\ \A j \in DOMAIN t.d.files : j # i => s.d.files[j] = t.d.files[j]
    BY <1>7, <1>8
  <1> QED BY <1>1, <1>4, <1>6, <1>7, <1>8, <1>9, <1>10 DEF Resets

LEMMA SoundTurn ==
  ASSUME NEW t, Sound(t)
  PROVE  IsTurn(t) /\ (~Owes(t) => Good(t)) /\ t.d.at \in {"loop", "poll", "woken"}
  <1>1. CASE ~Owes(t)
    BY <1>1 DEF Sound, Clean, Good, UseOK
  <1>2. CASE Owes(t)
    <2>1. PICK s, N, i : s = Clean(t) /\ N = Len(t.d.stack) /\ i = Top(t).i
      OBVIOUS
    <2>2. Half(t) /\ Good(s)
      BY <1>2, <2>1 DEF Sound
    <2>3. Resets(t, s, N, i)
      BY <1>2, <2>1, <2>2, ResetsThere DEF Half
    <2> QED BY <1>2, <2>2, <2>3 DEF Resets, SameRest, Half, Good, UseOK
  <1> QED BY <1>1, <1>2

(* What the signal handler may write twice is not followed any more. *)
LEMMA TornWaits ==
  ASSUME NEW t, Sound(t), Owes(t), NEW N, N = Len(t.d.stack), NEW i, i = Top(t).i, NEW s, s = Clean(t), NEW r, Still(t, r),
         t.d.files[i].prevcount > 0 => t.d.files[i].name \in r.lost
  PROVE  Good(s) /\ Resets(t, s, N, i) /\ Waits(s, r)
  <1>1. Good(s) /\ Half(t)
    BY DEF Sound
  <1>2. Resets(t, s, N, i)
    BY <1>1, ResetsThere DEF Half
  <1>3. PICK f : f = t.d.files[i]
    OBVIOUS
  <1>4. EntryOK(f) /\ r.d.files = t.d.files /\ Lasting(s.d.files[i], f) /\ s.d.files[i].prevcount = 0 /\ s.d.files[i].prevline = f.prevline
    BY <1>1, <1>2, <1>3 DEF Half, Resets, Still
  <1>5. ASSUME NEW j \in DOMAIN s.d.files
        PROVE  /\ Lasting(r.d.files[j], s.d.files[j]) /\ EntryOK(r.d.files[j])
               /\ s.d.files[j].name \in Live(r) =>
                    r.d.files[j].prevcount = s.d.files[j].prevcount /\ r.d.files[j].prevline = s.d.files[j].prevline
    <2>1. CASE j = i
      <3>1. f.name \in Live(r) => f.prevcount = 0
        BY <1>3, <1>4 DEF Live, EntryOK
      <3> QED BY <1>3, <1>4, <2>1, <3>1 DEF Lasting
    <2>2. CASE j # i
      <3>1. s.d.files[j] = r.d.files[j] /\ EntryOK(s.d.files[j])
        BY <1>1, <1>2, <1>4, <1>5, <2>2 DEF Resets, Good, FilesOK
      <3> QED BY <3>1 DEF Lasting
    <2> QED BY <2>1, <2>2
  <1>6. /\ IsTurn(r) /\ r.out = s.out /\ s.lost \subseteq r.lost /\ r.d.up = s.d.up /\ r.d.conf = s.d.conf
        /\ r.d.at \in {"loop", "poll", "woken"} /\ DOMAIN r.d.files = DOMAIN s.d.files
    BY <1>2 DEF Still, Resets, SameRest
  <1> QED BY <1>1, <1>2, <1>5, <1>6 DEF Waits

(* Time passes, or main goes on: the same functions run. *)
Passes(t, r) ==
  /\ IsTurn(r) /\ r.out = t.out /\ r.lost = t.lost /\ r.d.stack = t.d.stack /\ r.d.at \in {"loop", "poll", "woken"}
  /\ r.d.up = t.d.up /\ r.d.conf = t.d.conf /\ r.d.initialized = t.d.initialized /\ r.d.was = t.d.was
  /\ DOMAIN r.d.files = DOMAIN t.d.files
  /\ \A j \in DOMAIN t.d.files : SameLine(r.d.files[j], t.d.files[j]) /\ r.d.files[j].rep = t.d.files[j].rep

LEMMA OlderEntry ==
  ASSUME NEW f, NEW g, SameLine(g, f), g.rep = f.rep
  PROVE  Lasting(g, f) /\ g.prevcount = f.prevcount /\ g.prevline = f.prevline /\ (EntryOK(f) => EntryOK(g))
  BY DEF SameLine, Alike, IsEntry, Lasting, EntryOK

LEMMA PassSound ==
  ASSUME NEW t, Sound(t), NEW r, Passes(t, r)
  PROVE  Sound(r)
  <1>0. /\ IsTurn(r) /\ r.out = t.out /\ r.lost = t.lost /\ r.d.stack = t.d.stack /\ r.d.at \in {"loop", "poll", "woken"}
        /\ r.d.up = t.d.up /\ r.d.conf = t.d.conf /\ r.d.initialized = t.d.initialized /\ r.d.was = t.d.was
        /\ DOMAIN r.d.files = DOMAIN t.d.files /\ Live(r) = Live(t)
    BY DEF Passes, Live
  <1>1. \A j \in DOMAIN t.d.files :
          /\ Lasting(r.d.files[j], t.d.files[j]) /\ (EntryOK(t.d.files[j]) => EntryOK(r.d.files[j]))
          /\ r.d.files[j].prevcount = t.d.files[j].prevcount /\ r.d.files[j].prevline = t.d.files[j].prevline
          /\ r.d.files[j].rep = t.d.files[j].rep
    BY OlderEntry DEF Passes
  <1>2. CASE ~Owes(t)
    <2>1. Good(t)
      BY <1>2, SoundTurn
    <2>2. Waits(t, r)
      BY <1>0, <1>1, <2>1 DEF Waits, Good, FilesOK
    <2>3. Good(r)
      BY <1>0, <2>1, <2>2, WaitGood
    <2> QED BY <2>3, GoodSound
  <1>3. CASE Owes(t)
    <2>1. PICK s, q, N, i : s = Clean(t) /\ q = Clean(r) /\ N = Len(t.d.stack) /\ i = Top(t).i
      OBVIOUS
    <2>2. Good(s) /\ Half(t)
      BY <1>3, <2>1 DEF Sound
    <2>3. Resets(t, s, N, i)
      BY <1>3, <2>1, <2>2, ResetsThere DEF Half
    <2>4. Top(r) = Top(t) /\ i \in DOMAIN t.d.files /\ r.d.files[i].name = t.d.files[i].name /\ r.d.files[i].kind = t.d.files[i].kind
      BY <1>0, <1>1, <1>3, <2>1 DEF Top, Owes, Lasting
    <2>5. Owes(r)
      BY <1>0, <1>3, <2>1, <2>4 DEF Owes
    <2>6. Resets(r, q, N, i)
      <3>1. r.d.files[i].kind # "UNKN"
        BY <2>1, <2>2, <2>4 DEF Half
      <3> QED BY <1>0, <2>1, <2>4, <2>5, <3>1, ResetsThere
    <2>7. q.d.stack = s.d.stack
      <3>1. Pop(r).d.stack = Front(r.d.stack) /\ Pop(t).d.stack = Front(t.d.stack)
        BY <1>0, SoundTurn, PopStack
      <3> QED BY <1>0, <2>3, <2>6, <3>1 DEF Resets
    <2>8. EntryOK(r.d.files[i]) /\ EntryOK(t.d.files[i])
      BY <1>1, <2>1, <2>2, <2>4 DEF Half
    <2>9. Waits(s, q)
      <3>1. ASSUME NEW j \in DOMAIN s.d.files
            PROVE  /\ Lasting(q.d.files[j], s.d.files[j]) /\ EntryOK(q.d.files[j])
                   /\ q.d.files[j].prevcount = s.d.files[j].prevcount /\ q.d.files[j].prevline = s.d.files[j].prevline
        <4>1. CASE j = i
          <5>1. PICK f, g, h, k : f = t.d.files[i] /\ g = r.d.files[i] /\ h = s.d.files[i] /\ k = q.d.files[i]
            OBVIOUS
          <5>2. Lasting(h, f) /\ Lasting(k, g) /\ h.prevcount = 0 /\ k.prevcount = 0 /\ h.prevline = f.prevline /\ k.prevline = g.prevline
            BY <2>3, <2>6, <5>1 DEF Resets
          <5>3. Lasting(g, f) /\ g.prevline = f.prevline /\ EntryOK(g) /\ k.rep = g.rep
            BY <1>1, <2>4, <2>6, <2>8, <5>1 DEF Resets
          <5>4. EntryOK(k)
            BY <5>2, <5>3 DEF EntryOK, Lasting
          <5> QED BY <4>1, <5>1, <5>2, <5>3, <5>4 DEF Lasting
        <4>2. CASE j # i
          <5>1. q.d.files[j] = r.d.files[j] /\ s.d.files[j] = t.d.files[j] /\ j \in DOMAIN t.d.files
            BY <1>0, <2>3, <2>6, <3>1, <4>2 DEF Resets
          <5>2. EntryOK(t.d.files[j])
            BY <2>2, <3>1, <5>1 DEF Good, FilesOK
          <5> QED BY <1>1, <5>1, <5>2
        <4> QED BY <4>1, <4>2
      <3>2. /\ IsTurn(q) /\ q.out = s.out /\ s.lost = q.lost /\ q.d.up = s.d.up /\ q.d.conf = s.d.conf
            /\ q.d.at \in {"loop", "poll", "woken"} /\ DOMAIN q.d.files = DOMAIN s.d.files
        BY <1>0, <2>3, <2>6 DEF Resets, SameRest
      <3> QED BY <3>1, <3>2 DEF Waits
    <2>10. q.d.initialized = s.d.initialized /\ q.d.was = s.d.was
      BY <1>0, <2>3, <2>6 DEF Resets, SameRest
    <2>11. Good(q)
      BY <2>2, <2>7, <2>9, <2>10, WaitGood
    <2>12. Half(r)
      BY <1>0, <1>1, <2>1, <2>2, <2>4, <2>8 DEF Half
    <2> QED BY <2>1, <2>5, <2>11, <2>12 DEF Sound
  <1> QED BY <1>2, <1>3

LEMMA SoundEntries ==
  ASSUME NEW t, Sound(t)
  PROVE  \A j \in DOMAIN t.d.files : EntryOK(t.d.files[j])
  <1>1. CASE ~Owes(t)
    BY <1>1, SoundTurn DEF Good, FilesOK
  <1>2. CASE Owes(t)
    <2>1. PICK s, N, i : s = Clean(t) /\ N = Len(t.d.stack) /\ i = Top(t).i
      OBVIOUS
    <2>2. Half(t) /\ Good(s)
      BY <1>2, <2>1 DEF Sound
    <2>3. Resets(t, s, N, i)
      BY <1>2, <2>1, <2>2, ResetsThere DEF Half
    <2>4. EntryOK(t.d.files[i])
      BY <2>1, <2>2 DEF Half
    <2>5. \A j \in DOMAIN t.d.files : j # i => EntryOK(t.d.files[j])
      BY <2>2, <2>3 DEF Resets, Good, FilesOK
    <2> QED BY <2>4, <2>5
  <1> QED BY <1>1, <1>2

(* The entries are the same, and so are the functions. *)
LEMMA SameSound ==
  ASSUME NEW t, Sound(t), NEW r, IsTurn(r), r.d.files = t.d.files, r.out = t.out, r.lost = t.lost, r.d.stack = t.d.stack,
         r.d.at \in {"loop", "poll", "woken"}, r.d.up = t.d.up, r.d.conf = t.d.conf,
         r.d.initialized = t.d.initialized, r.d.was = t.d.was
  PROVE  Sound(r)
  <1>1. ASSUME NEW j \in DOMAIN t.d.files PROVE SameLine(t.d.files[j], t.d.files[j])
    <2>1. IsEntry(t.d.files[j])
      BY SoundTurn DEF IsTurn, IsFiles
    <2>2. EntryOK(t.d.files[j])
      BY SoundEntries
    <2> QED BY <2>1, <2>2, SameEntry
  <1>2. Passes(t, r)
    BY <1>1 DEF Passes
  <1> QED BY <1>2, PassSound

LEMMA AgedFiles ==
  ASSUME NEW s, IsFiles(s), \A j \in DOMAIN s : EntryOK(s[j]), NEW G, G = [i \in DOMAIN s |-> Aged(s[i])]
  PROVE  DOMAIN G = DOMAIN s /\ IsFiles(G) /\ \A j \in DOMAIN s : SameLine(G[j], s[j]) /\ G[j].rep = s[j].rep
  <1>1. DOMAIN G = DOMAIN s
    OBVIOUS
  <1>2. ASSUME NEW j \in DOMAIN s PROVE SameLine(G[j], s[j]) /\ G[j].rep = s[j].rep
    <2>1. PICK f : f = s[j]
      OBVIOUS
    <2>2. PICK a : a = IF f.age < AgeMax THEN f.age + 1 ELSE f.age
      OBVIOUS
    <2>3. G[j] = [f EXCEPT !.age = a]
      BY <2>1, <2>2 DEF Aged
    <2>4. IsEntry(f) /\ EntryOK(f)
      BY <2>1 DEF IsFiles
    <2> QED BY <2>1, <2>3, <2>4 DEF SameLine, Alike, IsEntry, EntryOK
  <1>3. IsFiles(G)
    <2>1. DOMAIN s = 1..Len(s) /\ Len(s) \in Nat
      BY SeqDomain DEF IsFiles
    <2>2. G = [i \in 1..Len(s) |-> G[i]]
      BY <2>1
    <2>3. IsSeq(G)
      BY <2>1, <2>2, FunSeq
    <2>4. \A j \in DOMAIN G : IsEntry(G[j])
      BY <1>1, <1>2 DEF SameLine
    <2> QED BY <2>3, <2>4 DEF IsFiles
  <1> QED BY <1>1, <1>2, <1>3

----------------------------------------------------------------------------
LEMMA OneFrame ==
  ASSUME NEW x, IsFrame(x)
  PROVE  IsStack(<<x>>)
  <1>1. <<x>> \in Seq({x}) /\ DOMAIN <<x>> = {1}
    OBVIOUS
  <1>2. IsSeq(<<x>>)
    BY <1>1, OpenSeq
  <1> QED BY <1>1, <1>2 DEF IsStack

LEMMA TwoFrames ==
  ASSUME NEW x, NEW y, IsFrame(x), IsFrame(y)
  PROVE  IsStack(<<y, x>>)
  <1>1. <<y, x>> \in Seq({x, y}) /\ DOMAIN <<y, x>> = {1, 2}
    OBVIOUS
  <1>2. IsSeq(<<y, x>>)
    BY <1>1, OpenSeq
  <1> QED BY <1>1, <1>2 DEF IsStack

LEMMA InitStack ==
  ASSUME NEW x, x = InitFrame
  PROVE  IsStack(<<x>>)
  <1>1. PICK m : m = NoMsg
    OBVIOUS
  <1>2. x = [op |-> "init", i |-> 1, ph |-> "start", m |-> m]
    BY <1>1 DEF InitFrame
  <1>3. IsFrame(x)
    BY <1>2 DEF IsFrame
  <1> QED BY <1>3, OneFrame

(* The invariant of the specification. *)
SyslogInv == Sound(Turn) /\ disk \in Confs /\ inq \in Seq(Msgs)

LEMMA TurnIs ==
  /\ Turn = [d |-> d, out |-> out, lost |-> lost] /\ Turn.d = d /\ Turn.out = out /\ Turn.lost = lost
  BY DEF Turn

LEMMA InitInv == Init => SyslogInv
  <1> SUFFICES ASSUME Init PROVE SyslogInv
    OBVIOUS
  <1>1. PICK t : t = Turn
    OBVIOUS
  <1>2. /\ t = [d |-> t.d, out |-> t.out, lost |-> t.lost] /\ t.d = d /\ t.out = out /\ t.lost = {}
    BY <1>1 DEF Init, Turn
  <1>3. PICK x : x = InitFrame
    OBVIOUS
  <1>4. /\ IsDaemon(d) /\ d.files = <<>> /\ d.stack = <<x>> /\ d.up = "up" /\ d.at = "loop" /\ d.initialized = FALSE
        /\ d.was = FALSE /\ d.conf = <<>>
    BY <1>3 DEF Init, IsDaemon
  <1>6. IsStack(<<x>>)
    BY <1>3, InitStack
  <1>7. IsOut(out) /\ \A n \in Names : ~out[n].wrong /\ out[n].owed = <<>>
    <2>1. PICK u : u = Unwritten
      OBVIOUS
    <2>2. IsReader(u) /\ ~u.wrong /\ u.owed = <<>>
      BY <2>1 DEF Unwritten, IsReader
    <2>3. out = [n \in Names |-> u]
      BY <2>1 DEF Init
    <2> QED BY <2>2, <2>3 DEF IsOut
  <1>8. IsTurn(t)
    BY <1>2, <1>4, <1>6, <1>7, NoElements DEF IsTurn
  <1>9. FilesOK(t)
    BY <1>2, <1>4, NoElements DEF FilesOK
  <1>10. OutOK(t)
    BY <1>2, <1>4, <1>7, NoElements, TrackedNames DEF OutOK, Live
  <1>11. Serving(t)
    BY <1>2, <1>4, <1>8, <1>9, <1>10 DEF Serving
  <1>12. t.d.stack = <<InitFrame>>
    BY <1>2, <1>3, <1>4
  <1>13. Good(t)
    BY <1>11, <1>12, StartGood
  <1>14. disk \in Confs /\ inq \in Seq(Msgs)
    BY DEF Init
  <1> QED BY <1>1, <1>13, <1>14, GoodSound DEF SyslogInv

LEMMA BecomesTurn ==
  ASSUME NEW r, Sound(r), Becomes(r)
  PROVE  Sound(Turn')
  <1>1. r = [d |-> r.d, out |-> r.out, lost |-> r.lost]
    BY SoundTurn DEF IsTurn
  <1>2. Turn' = r
    BY <1>1, Zenon DEF Turn, Becomes
  <1> QED BY <1>2

LEMMA StepInv ==
  ASSUME SyslogInv, Step
  PROVE  Sound(Turn')
  <1>1. PICK t : t = Turn
    OBVIOUS
  <1>2. Sound(t) /\ t.d.up = "up" /\ t.d.stack # <<>> /\ disk \in Confs
    BY <1>1, TurnIs DEF SyslogInv, Step, Up
  <1>3. PICK e, r : r = Frame(t, e) /\ Becomes(r)
    BY <1>1 DEF Step
  <1>4. CASE ~Owes(t)
    <2>1. Sound(r)
      BY <1>2, <1>3, <1>4, SoundTurn, FrameGood
    <2> QED BY <1>3, <2>1, BecomesTurn
  <1>5. CASE Owes(t)
    <2>1. r = reset(t)
      BY <1>3, <1>5 DEF Owes, Frame
    <2>2. Good(r)
      BY <1>2, <1>5, <2>1 DEF Sound, Clean
    <2> QED BY <1>3, <2>2, GoodSound, BecomesTurn
  <1> QED BY <1>4, <1>5

(* A step of main or of a signal, from t to r. *)
LEMMA PollInv ==
  ASSUME SyslogInv, Poll
  PROVE  Sound(Turn')
  <1>1. PICK t : t = Turn
    OBVIOUS
  <1>2. PICK r : r = Turn'
    OBVIOUS
  <1>3. Good(t) /\ t.d = d /\ t.out = out /\ t.lost = lost /\ d.up = "up" /\ d.stack = <<>> /\ IsTurn(t) /\ IsDaemon(d)
    <2>1. Sound(t) /\ t.d = d /\ t.out = out /\ t.lost = lost /\ d.up = "up" /\ d.stack = <<>>
      BY <1>1, TurnIs DEF SyslogInv, Poll, Up
    <2>2. ~Owes(t)
      BY <2>1 DEF Owes
    <2> QED BY <2>1, <2>2, SoundTurn DEF IsTurn
  <1>b. FilesOK(t)
    BY <1>3 DEF Good
  <1>4. r = [d |-> r.d, out |-> r.out, lost |-> r.lost] /\ r.d = d' /\ r.out = out' /\ r.lost = lost'
    BY <1>2 DEF Turn
  <1>5. ASSUME NEW a \in {"loop", "poll", "woken"}, UNCHANGED <<out, lost>>,
               d' = [d EXCEPT !.at = a] \/ d' = [d EXCEPT !.at = a, !.slow = FALSE]
        PROVE  Good(r)
    <2>1. /\ IsDaemon(d') /\ d'.files = d.files /\ d'.stack = d.stack /\ d'.initialized = d.initialized /\ d'.was = d.was
          /\ d'.up = d.up /\ d'.conf = d.conf /\ d'.at = a
      BY <1>3, <1>5, ZenonT(60) DEF IsDaemon
    <2>2. Still(t, r)
      BY <1>3, <1>4, <1>5, <2>1 DEF Still, IsTurn
    <2>3. Waits(t, r)
      BY <1>b, <2>2, StillWaits
    <2> QED BY <1>3, <1>4, <2>1, <2>3, WaitGood
  <1>6. ASSUME d' = [d EXCEPT !.at = "loop", !.stack = <<InitFrame>>], UNCHANGED <<out, lost>>
        PROVE  Good(r)
    <2>1. PICK x : x = InitFrame
      OBVIOUS
    <2>2. PICK s : s = <<x>>
      OBVIOUS
    <2>3. d' = [d EXCEPT !.at = "loop", !.stack = s]
      BY <1>6, <2>1, <2>2
    <2>4. /\ IsDaemon(d') /\ d'.files = d.files /\ d'.stack = s /\ d'.initialized = d.initialized /\ d'.was = d.was
          /\ d'.up = d.up /\ d'.conf = d.conf /\ d'.at = "loop"
      BY <1>3, <2>3 DEF IsDaemon
    <2>5. IsStack(s)
      BY <2>1, <2>2, InitStack
    <2>6. Still(t, r)
      BY <1>3, <1>4, <1>6, <2>4, <2>5 DEF Still, IsTurn
    <2>a. Waits(t, r)
      BY <1>b, <2>6, StillWaits
    <2>7. Serving(r)
      BY <1>3, <1>4, <2>4, <2>a, IdleServing, WaitServing
    <2>8. r.d.stack = <<InitFrame>>
      BY <1>4, <2>1, <2>2, <2>4
    <2> QED BY <2>7, <2>8, StartGood
  <1>7. ASSUME inq # <<>>, Becomes(IF inq[1].fac = "kern" /\ inq[1].host = LocalHostName
                                   THEN printsys([Turn EXCEPT !.d.at = "loop"], inq[1])
                                   ELSE printline([Turn EXCEPT !.d.at = "loop"], inq[1]))
        PROVE  Sound(r)
    <2>1. PICK u : u = [t EXCEPT !.d.at = "loop"]
      OBVIOUS
    <2>2. PICK m \in Msgs : m = inq[1]
      BY <1>7 DEF SyslogInv
    <2>3. PICK v : (v = printline(u, m) \/ v = printsys(u, m)) /\ Becomes(v)
      <3>1. Becomes(IF m.fac = "kern" /\ m.host = LocalHostName THEN printsys(u, m) ELSE printline(u, m))
        BY <1>1, <1>7, <2>1, <2>2
      <3> QED BY <3>1
    <2>4. /\ u.out = t.out /\ u.lost = t.lost /\ u.d.files = t.d.files /\ u.d.up = t.d.up /\ u.d.conf = t.d.conf
          /\ u.d.stack = t.d.stack /\ u.d.at = "loop" /\ u.d.initialized = t.d.initialized /\ u.d.was = t.d.was
          /\ u = [d |-> u.d, out |-> u.out, lost |-> u.lost] /\ IsDaemon(u.d)
      BY <1>3, <2>1 DEF IsTurn, IsDaemon
    <2>5. Still(t, u)
      BY <1>3, <2>4 DEF Still, IsTurn
    <2>a. Waits(t, u)
      BY <1>b, <2>5, StillWaits
    <2>6. Serving(u) /\ u.d.stack = <<>>
      BY <1>3, <2>4, <2>a, IdleServing, WaitServing
    <2>7. Good(v)
      BY <2>3, <2>6, MessageGood
    <2> QED BY <1>2, <2>3, <2>7, GoodSound, BecomesTurn
  <1>8. \/ \E a \in {"loop", "poll", "woken"} : /\ UNCHANGED <<out, lost>>
                                                /\ d' = [d EXCEPT !.at = a] \/ d' = [d EXCEPT !.at = a, !.slow = FALSE]
        \/ d' = [d EXCEPT !.at = "loop", !.stack = <<InitFrame>>] /\ UNCHANGED <<out, lost>>
        \/ inq # <<>> /\ Becomes(IF inq[1].fac = "kern" /\ inq[1].host = LocalHostName
                                 THEN printsys([Turn EXCEPT !.d.at = "loop"], inq[1])
                                 ELSE printline([Turn EXCEPT !.d.at = "loop"], inq[1]))
    BY Zenon DEF Poll
  <1>9. Sound(r)
    BY <1>5, <1>6, <1>7, <1>8, GoodSound
  <1> QED BY <1>2, <1>9

(* SIGTERM: what of a line that fprintlog has written may be written again *)
(* is not followed.                                                        *)
LEMMA TermSound ==
  ASSUME NEW t, Sound(t), t.d.up = "up", NEW r, Still(t, r), r.d.initialized = FALSE, r.d.was = t.d.initialized,
         Owes(t) /\ t.d.files[Top(t).i].prevcount > 0 => t.d.files[Top(t).i].name \in r.lost,
         NEW x, x.op = "die", x.i = 1, x.ph = "flush", NEW y, y.op = "log", y.i = 1, y.ph = "look",
         r.d.stack = <<x>> \/ r.d.stack = <<y, x>>
  PROVE  Good(r)
  <1>1. CASE ~Owes(t)
    <2>1. Good(t)
      BY <1>1, SoundTurn
    <2>2. Waits(t, r)
      BY <2>1, StillWaits DEF Good
    <2> QED BY <2>1, <2>2, TermGood
  <1>2. CASE Owes(t)
    <2>1. PICK s, N, i : s = Clean(t) /\ N = Len(t.d.stack) /\ i = Top(t).i
      OBVIOUS
    <2>2. Good(s) /\ Resets(t, s, N, i) /\ Waits(s, r)
      BY <1>2, <2>1, TornWaits
    <2>3. s.d.up = "up" /\ s.d.initialized = t.d.initialized
      BY <2>2 DEF Resets, SameRest
    <2> QED BY <2>2, <2>3, TermGood
  <1> QED BY <1>1, <1>2

(* SIGALRM likewise. *)
LEMMA AlarmSound ==
  ASSUME NEW t, Sound(t), t.d.up = "up", NEW r, Still(t, r), r.d.initialized = t.d.initialized, r.d.was = t.d.was,
         Owes(t) /\ t.d.files[Top(t).i].prevcount > 0 => t.d.files[Top(t).i].name \in r.lost,
         NEW x, x.op = "mark", x.i = 1, x.ph = "mark", r.d.stack = Append(t.d.stack, x),
         \A p \in DOMAIN t.d.stack : t.d.stack[p].op # "log"
  PROVE  Good(r)
  <1>1. Extended(t.d.stack, x, r.d.stack)
    BY SeqAppend, SoundTurn DEF IsTurn, IsStack
  <1>2. /\ DOMAIN r.d.stack = DOMAIN t.d.stack \cup {Len(r.d.stack)} /\ r.d.stack[Len(r.d.stack)] = x
        /\ \A p \in DOMAIN t.d.stack : r.d.stack[p] = t.d.stack[p]
    BY <1>1 DEF Extended
  <1>3. Interrupts(r, x)
    BY DEF Interrupts
  <1>4. CASE ~Owes(t)
    <2>1. Good(t)
      BY <1>4, SoundTurn
    <2>2. Waits(t, r)
      BY <2>1, StillWaits DEF Good
    <2> QED BY <1>2, <1>3, <2>1, <2>2, AlarmGood
  <1>5. CASE Owes(t)
    <2>1. PICK s, N, i : s = Clean(t) /\ N = Len(t.d.stack) /\ i = Top(t).i
      OBVIOUS
    <2>2. Good(s) /\ Resets(t, s, N, i) /\ Waits(s, r)
      BY <1>5, <2>1, TornWaits
    <2>3. s.d.up = "up" /\ s.d.initialized = t.d.initialized /\ s.d.was = t.d.was
      BY <2>2 DEF Resets, SameRest
    <2>4. /\ DOMAIN t.d.stack = DOMAIN s.d.stack \cup {N} /\ \A p \in DOMAIN s.d.stack : s.d.stack[p] = t.d.stack[p]
          /\ t.d.stack[N].op = "reset" /\ t.d.stack[N].i = i /\ i \in DOMAIN t.d.files
      BY <2>2 DEF Resets
    <2>5. t.d.files[i].prevcount > 0
      BY <1>5, <2>1 DEF Sound, Half
    <2>6. Dead(r, i)
      BY <1>5, <2>1, <2>4, <2>5 DEF Dead, Still, Live
    <2>7. Interrupts(r, r.d.stack[N])
      BY <1>2, <2>4, <2>6 DEF Interrupts
    <2> QED BY <1>2, <1>3, <2>2, <2>3, <2>4, <2>7, AlarmGood
  <1> QED BY <1>4, <1>5

LEMMA TornTop ==
  ASSUME NEW t, t.d = d, IsTurn(t), Owes(t), t.d.files[Top(t).i].prevcount > 0
  PROVE  t.d.files[Top(t).i].name \in Torn
  <1>1. PICK n : n = Len(d.stack)
    OBVIOUS
  <1>2. n \in DOMAIN d.stack /\ Top(t) = d.stack[n]
    BY <1>1, SeqDomain DEF IsTurn, IsStack, IsSeq, Owes, Top, Last
  <1> QED BY <1>2 DEF Torn, Owes

LEMMA HandlerInv ==
  ASSUME SyslogInv, Handler
  PROVE  Sound(Turn')
  <1>1. PICK t : t = Turn
    OBVIOUS
  <1>2. PICK r : r = Turn'
    OBVIOUS
  <1>3. Sound(t) /\ t.d = d /\ t.out = out /\ t.lost = lost /\ d.up = "up" /\ IsTurn(t) /\ IsDaemon(d) /\ IsStack(d.stack)
    <2>1. Sound(t) /\ t.d = d /\ t.out = out /\ t.lost = lost /\ d.up = "up"
      BY <1>1, TurnIs DEF SyslogInv, Handler, Up
    <2> QED BY <2>1, SoundTurn DEF IsTurn
  <1>4. r = [d |-> r.d, out |-> r.out, lost |-> r.lost] /\ r.d = d' /\ r.out = out /\ r.lost = lost'
    BY <1>2 DEF Turn, Handler
  <1>5. PICK a \in {"loop", "poll", "woken"} : a = Woken
    BY <1>3, SoundTurn DEF Woken
  <1>b. ASSUME lost' = lost \cup Torn
        PROVE  t.lost \subseteq r.lost /\ (Owes(t) /\ t.d.files[Top(t).i].prevcount > 0 => t.d.files[Top(t).i].name \in r.lost)
    BY <1>3, <1>4, <1>b, TornTop
  <1>6. ASSUME ~Running("log"), lost' = lost \cup Torn,
               d' = [d EXCEPT !.at = Woken, !.stack = Append(@, [op |-> "mark", i |-> 1, ph |-> "mark", m |-> NoMsg])]
        PROVE  Good(r)
    <2>1. PICK m : m = NoMsg
      OBVIOUS
    <2>2. PICK x : x = [op |-> "mark", i |-> 1, ph |-> "mark", m |-> m]
      OBVIOUS
    <2>3. PICK s : s = Append(d.stack, x)
      OBVIOUS
    <2>4. d' = [d EXCEPT !.at = a, !.stack = s]
      BY <1>5, <1>6, <2>1, <2>2, <2>3
    <2>5. /\ IsDaemon(d') /\ d'.files = d.files /\ d'.stack = s /\ d'.initialized = d.initialized /\ d'.was = d.was
          /\ d'.up = d.up /\ d'.conf = d.conf /\ d'.at = a
      BY <1>3, <2>4 DEF IsDaemon
    <2>6. x.op = "mark" /\ x.i = 1 /\ x.ph = "mark" /\ IsFrame(x)
      BY <2>2 DEF IsFrame
    <2>7. IsStack(s)
      <3>1. Extended(d.stack, x, s)
        BY <1>3, <2>3, SeqAppend DEF IsStack
      <3> QED BY <1>3, <2>6, <3>1 DEF Extended, IsStack
    <2>8. Still(t, r)
      BY <1>3, <1>4, <1>b, <1>6, <2>5, <2>7 DEF Still, IsTurn
    <2>9. \A p \in DOMAIN t.d.stack : t.d.stack[p].op # "log"
      BY <1>3, <1>6 DEF Running
    <2>10. r.d.stack = Append(t.d.stack, x) /\ r.d.initialized = t.d.initialized /\ r.d.was = t.d.was /\ t.d.up = "up"
      BY <1>3, <1>4, <2>3, <2>5
    <2>11. Owes(t) /\ t.d.files[Top(t).i].prevcount > 0 => t.d.files[Top(t).i].name \in r.lost
      BY <1>b, <1>6
    <2> QED BY <1>3, <2>6, <2>8, <2>9, <2>10, <2>11, AlarmSound
  <1>7. ASSUME d' = [d EXCEPT !.at = Woken, !.restart = TRUE], UNCHANGED lost
        PROVE  Sound(r)
    <2>1. /\ IsDaemon(d') /\ d'.files = d.files /\ d'.stack = d.stack /\ d'.initialized = d.initialized /\ d'.was = d.was
          /\ d'.up = d.up /\ d'.conf = d.conf /\ d'.at = a
      BY <1>3, <1>5, <1>7 DEF IsDaemon
    <2>2. IsTurn(r) /\ r.d.files = t.d.files /\ r.out = t.out /\ r.lost = t.lost
      BY <1>3, <1>4, <1>7, <2>1 DEF IsTurn
    <2> QED BY <1>3, <1>4, <2>1, <2>2, SameSound
  <1>8. ASSUME lost' = lost \cup Torn,
               d' = [d EXCEPT !.at = Woken, !.initialized = FALSE, !.was = d.initialized,
                       !.stack = Append(IF Running("log") THEN <<LogFrame(NoMsg)>> ELSE <<>>,
                                        [op |-> "die", i |-> 1, ph |-> "flush", m |-> NoMsg])]
        PROVE  Good(r)
    <2>1. PICK m : m = NoMsg
      OBVIOUS
    <2>2. PICK x, y : x = [op |-> "die", i |-> 1, ph |-> "flush", m |-> m] /\ y = [op |-> "log", i |-> 1, ph |-> "look", m |-> m]
      OBVIOUS
    <2>3. y = LogFrame(NoMsg)
      BY <2>1, <2>2 DEF LogFrame
    <2>4. PICK s : s = Append(IF Running("log") THEN <<y>> ELSE <<>>, x)
      OBVIOUS
    <2>5. s = <<x>> \/ s = <<y, x>>
      <3>1. PICK b : b = IF Running("log") THEN <<y>> ELSE <<>>
        OBVIOUS
      <3>2. b = <<y>> \/ b = <<>>
        BY <3>1
      <3>3. s = Append(b, x)
        BY <2>4, <3>1
      <3>4. Append(<<>>, x) = <<x>>
        OBVIOUS
      <3>5. Append(<<y>>, x) = <<y, x>>
        BY AppendTwo
      <3> QED BY <3>2, <3>3, <3>4, <3>5
    <2>6. d' = [d EXCEPT !.at = a, !.initialized = FALSE, !.was = d.initialized, !.stack = s]
      BY <1>5, <1>8, <2>1, <2>2, <2>3, <2>4
    <2>7. /\ IsDaemon(d') /\ d'.files = d.files /\ d'.stack = s /\ d'.initialized = FALSE /\ d'.was = d.initialized
          /\ d'.up = d.up /\ d'.conf = d.conf /\ d'.at = a
      BY <1>3, <2>6 DEF IsDaemon
    <2>8. /\ x.op = "die" /\ x.i = 1 /\ x.ph = "flush" /\ IsFrame(x)
          /\ y.op = "log" /\ y.i = 1 /\ y.ph = "look" /\ IsFrame(y)
      BY <2>2 DEF IsFrame
    <2>9. IsStack(s)
      BY <2>5, <2>8, OneFrame, TwoFrames
    <2>10. Still(t, r)
      BY <1>3, <1>4, <1>b, <1>8, <2>7, <2>9 DEF Still, IsTurn
    <2>11. (r.d.stack = <<x>> \/ r.d.stack = <<y, x>>) /\ r.d.initialized = FALSE /\ r.d.was = t.d.initialized /\ t.d.up = "up"
      BY <1>3, <1>4, <2>5, <2>7
    <2>12. Owes(t) /\ t.d.files[Top(t).i].prevcount > 0 => t.d.files[Top(t).i].name \in r.lost
      BY <1>b, <1>8
    <2> QED BY <1>3, <2>8, <2>10, <2>11, <2>12, TermSound
  <1>9. Sound(r)
    BY <1>6, <1>7, <1>8, GoodSound DEF Handler
  <1> QED BY <1>2, <1>9

(* The entries have grown older. *)
LEMMA AgedInv ==
  ASSUME SyslogInv, UNCHANGED <<out, lost>>, NEW a, NEW sl,
         d' = [d EXCEPT !.alarm = a, !.slow = sl, !.files = [i \in DOMAIN @ |-> Aged(@[i])]]
  PROVE  Sound(Turn')
  <1>1. PICK t : t = Turn
    OBVIOUS
  <1>2. PICK r : r = Turn'
    OBVIOUS
  <1>3. /\ Sound(t) /\ t.d = d /\ t.out = out /\ t.lost = lost /\ IsTurn(t) /\ IsDaemon(d) /\ IsFiles(d.files) /\ IsStack(d.stack)
        /\ d.at \in {"loop", "poll", "woken"}
    <2>1. Sound(t) /\ t.d = d /\ t.out = out /\ t.lost = lost
      BY <1>1, TurnIs DEF SyslogInv
    <2> QED BY <2>1, SoundTurn DEF IsTurn
  <1>4. r = [d |-> r.d, out |-> r.out, lost |-> r.lost] /\ r.d = d' /\ r.out = out /\ r.lost = lost
    BY <1>2 DEF Turn
  <1>5. PICK G : G = [i \in DOMAIN d.files |-> Aged(d.files[i])]
    OBVIOUS
  <1>6. d' = [d EXCEPT !.alarm = a, !.slow = sl, !.files = G]
    BY <1>5
  <1>7. /\ IsDaemon(d') /\ d'.files = G /\ d'.stack = d.stack /\ d'.initialized = d.initialized /\ d'.was = d.was
        /\ d'.up = d.up /\ d'.conf = d.conf /\ d'.at = d.at
    BY <1>3, <1>6 DEF IsDaemon
  <1>8. \A j \in DOMAIN d.files : EntryOK(d.files[j])
    BY <1>3, SoundEntries
  <1>9. DOMAIN G = DOMAIN d.files /\ IsFiles(G) /\ \A j \in DOMAIN d.files : SameLine(G[j], d.files[j]) /\ G[j].rep = d.files[j].rep
    BY <1>3, <1>5, <1>8, AgedFiles
  <1>10. Passes(t, r)
    BY <1>3, <1>4, <1>7, <1>9 DEF Passes, IsTurn
  <1>11. Sound(r)
    BY <1>3, <1>10, PassSound
  <1> QED BY <1>2, <1>11

LEMMA TickInv ==
  ASSUME SyslogInv, Tick
  PROVE  Sound(Turn')
  <1>1. IsDaemon(d)
    BY SoundTurn, TurnIs DEF SyslogInv, IsTurn
  <1>2. PICK G : G = [i \in DOMAIN d.files |-> Aged(d.files[i])]
    OBVIOUS
  <1>3. d' = [d EXCEPT !.alarm = FALSE, !.files = G]
    BY <1>2 DEF Tick
  <1>4. d' = [d EXCEPT !.alarm = FALSE, !.slow = d.slow, !.files = G]
    BY <1>1, <1>3 DEF IsDaemon
  <1>5. d' = [d EXCEPT !.alarm = FALSE, !.slow = d.slow, !.files = [i \in DOMAIN @ |-> Aged(@[i])]]
    BY <1>2, <1>4
  <1> QED BY <1>5, AgedInv DEF Tick

LEMMA TickBusyInv ==
  ASSUME SyslogInv, TickBusy
  PROVE  Sound(Turn')
  BY AgedInv DEF TickBusy

LEMMA NextInv ==
  ASSUME SyslogInv, [Next]_vars
  PROVE  SyslogInv'
  <1>1. ASSUME UNCHANGED <<d, out, lost>> PROVE Sound(Turn')
    <2>1. Turn' = Turn
      BY <1>1, Zenon DEF Turn
    <2> QED BY <2>1 DEF SyslogInv
  <1>2. Sound(Turn') /\ disk' \in Confs /\ inq' \in Seq(Msgs)
    <2>1. CASE Step
      BY <2>1, StepInv DEF Step, SyslogInv
    <2>2. CASE Poll
      <3>1. inq' = inq \/ (inq # <<>> /\ inq' = Tail(inq))
        BY <2>2 DEF Poll
      <3>2. inq' \in Seq(Msgs)
        BY <3>1 DEF SyslogInv
      <3> QED BY <2>2, <3>2, PollInv DEF Poll, SyslogInv
    <2>3. CASE Handler
      BY <2>3, HandlerInv DEF Handler, SyslogInv
    <2>4. CASE Tick
      BY <2>4, TickInv DEF Tick, SyslogInv
    <2>5. CASE TickBusy
      BY <2>5, TickBusyInv DEF TickBusy, SyslogInv
    <2>6. CASE Receive
      <3>1. inq' \in Seq(Msgs)
        BY <2>6 DEF Receive, SyslogInv
      <3> QED BY <1>1, <2>6, <3>1 DEF Receive, SyslogInv
    <2>7. CASE Administrator
      <3>1. disk' \in Confs
        BY <2>7 DEF Administrator, SyslogInv
      <3> QED BY <1>1, <2>7, <3>1 DEF Administrator, SyslogInv
    <2>8. CASE UNCHANGED vars
      BY <1>1, <2>8 DEF vars, SyslogInv
    <2> QED BY <2>1, <2>2, <2>3, <2>4, <2>5, <2>6, <2>7, <2>8 DEF Next
  <1>3. Sound(Turn)'
    BY <1>2
  <1> QED BY <1>2, <1>3 DEF SyslogInv

(* Whatever signals interrupt logmsg, init and die: every frame on the     *)
(* stack of calls finds the entries as it left them, and an entry that is  *)
(* counted on is followed by the reader of its file.                       *)
THEOREM SyslogInvariant == Spec => []SyslogInv
  BY InitInv, NextInv, PTL DEF Spec

(* What is written and still counted is not owed; nothing else is told.    *)
LEMMA SoundAccounts ==
  ASSUME NEW t, Sound(t), NEW s, s = Clean(t)
  PROVE  /\ Good(s) /\ s.out = t.out /\ Live(s) = Live(t) /\ s.d.up = t.d.up /\ DOMAIN s.d.files = DOMAIN t.d.files
         /\ \A j \in DOMAIN t.d.files : Lasting(s.d.files[j], t.d.files[j])
         /\ \A j \in DOMAIN t.d.files : t.d.files[j].name \in Live(t) =>
              IF \E p \in DOMAIN t.d.stack : t.d.stack[p].op = "reset" /\ t.d.stack[p].i = j
              THEN Owed(s.d.files[j]) = <<>> ELSE s.d.files[j] = t.d.files[j]
  <1>1. Good(s)
    BY DEF Sound
  <1>2. ASSUME NEW p \in DOMAIN s.d.stack, s.d.stack[p].op = "reset"
        PROVE  Dead(s, s.d.stack[p].i)
    BY <1>1, <1>2 DEF Good, StackOK, FrameOK
  <1>3. CASE ~Owes(t)
    <2>1. s = t
      BY <1>3 DEF Clean
    <2>2. ASSUME NEW p \in DOMAIN t.d.stack, t.d.stack[p].op = "reset" PROVE t.d.files[t.d.stack[p].i].name \notin Live(t)
      BY <1>2, <2>1, <2>2 DEF Dead
    <2> QED BY <1>1, <2>1, <2>2 DEF Lasting
  <1>4. CASE Owes(t)
    <2>1. PICK N, i : N = Len(t.d.stack) /\ i = Top(t).i
      OBVIOUS
    <2>2. Resets(t, s, N, i)
      BY <1>4, <2>1, ResetsThere DEF Sound, Half
    <2>3. /\ s.out = t.out /\ s.lost = t.lost /\ s.d.up = t.d.up /\ DOMAIN s.d.files = DOMAIN t.d.files
          /\ Lasting(s.d.files[i], t.d.files[i]) /\ \A j \in DOMAIN t.d.files : j # i => s.d.files[j] = t.d.files[j]
      BY <2>2 DEF Resets, SameRest
    <2>4. Live(s) = Live(t)
      BY <2>3 DEF Live
    <2>5. \A j \in DOMAIN t.d.files : Lasting(s.d.files[j], t.d.files[j])
      BY <2>3 DEF Lasting
    <2>6. ASSUME NEW j \in DOMAIN t.d.files, t.d.files[j].name \in Live(t),
                 NEW p \in DOMAIN t.d.stack, t.d.stack[p].op = "reset", t.d.stack[p].i = j
          PROVE  j = i
      <3>1. p = N \/ (p \in DOMAIN s.d.stack /\ s.d.stack[p] = t.d.stack[p])
        BY <2>2 DEF Resets
      <3>2. CASE p = N
        BY <2>2, <2>6, <3>2 DEF Resets
      <3>3. CASE p \in DOMAIN s.d.stack /\ s.d.stack[p] = t.d.stack[p]
        <4>1. Dead(s, j)
          BY <1>2, <2>6, <3>3
        <4> QED BY <2>4, <2>5, <2>6, <4>1 DEF Dead, Lasting
      <3> QED BY <3>1, <3>2, <3>3
    <2>7. \E p \in DOMAIN t.d.stack : t.d.stack[p].op = "reset" /\ t.d.stack[p].i = i
      BY <2>2 DEF Resets
    <2>8. Owed(s.d.files[i]) = <<>>
      BY <2>2, OwedNone DEF Resets
    <2> QED BY <1>1, <2>3, <2>4, <2>5, <2>6, <2>7, <2>8
  <1> QED BY <1>3, <1>4

LEMMA InvAccounts ==
  ASSUME SyslogInv
  PROVE  LinesAccounted
  <1>1. PICK t : t = Turn
    OBVIOUS
  <1>2. PICK s : s = Clean(t)
    OBVIOUS
  <1>3. Sound(t) /\ t.d = d /\ t.out = out /\ t.lost = lost /\ Live(t) = Tracked \ lost
    BY <1>1, TurnIs DEF SyslogInv, Live
  <1>4. /\ Good(s) /\ s.out = out /\ Live(s) = Live(t) /\ s.d.up = d.up /\ DOMAIN s.d.files = DOMAIN d.files
        /\ \A j \in DOMAIN d.files : Lasting(s.d.files[j], d.files[j])
    BY <1>2, <1>3, SoundAccounts
  <1>5. ASSUME NEW j \in DOMAIN d.files, d.files[j].name \in Live(t)
        PROVE  IF Told(j) THEN Owed(s.d.files[j]) = <<>> ELSE s.d.files[j] = d.files[j]
    BY <1>2, <1>3, <1>5, SoundAccounts DEF Told
  <1>6. TypeOK
    <2>1. d.up \in {"up", "exit", "crash"} /\ d.at \in {"loop", "poll", "woken"}
      BY <1>3, <1>4, SoundTurn DEF Good, UseOK
    <2>2. \A j \in DOMAIN d.files : EntryOK(d.files[j])
      BY <1>3, SoundEntries
    <2> QED BY <2>1, <2>2 DEF TypeOK, EntryOK
  <1>7. Accounted
    <2> SUFFICES ASSUME NEW n \in Tracked \ lost
                 PROVE  /\ ~out[n].wrong
                        /\ \A i \in DOMAIN d.files :
                             d.files[i].name = n => out[n].owed = IF Told(i) THEN <<>> ELSE Owed(d.files[i])
                        /\ (\A i \in DOMAIN d.files : d.files[i].name # n) => out[n].owed = <<>>
      BY DEF Accounted
    <2>1. /\ ~out[n].wrong
          /\ \A j \in DOMAIN d.files : s.d.files[j].name = n => Followed(s.d.files[j], out[n])
          /\ (\A j \in DOMAIN d.files : s.d.files[j].name # n) => out[n].owed = <<>>
      BY <1>3, <1>4 DEF Good, OutOK
    <2>2. \A j \in DOMAIN d.files : s.d.files[j].name = d.files[j].name
      BY <1>4 DEF Lasting
    <2>3. ASSUME NEW i \in DOMAIN d.files, d.files[i].name = n
          PROVE  out[n].owed = IF Told(i) THEN <<>> ELSE Owed(d.files[i])
      <3>1. out[n].owed = Owed(s.d.files[i])
        BY <2>1, <2>2, <2>3 DEF Followed
      <3>2. IF Told(i) THEN Owed(s.d.files[i]) = <<>> ELSE s.d.files[i] = d.files[i]
        BY <1>3, <1>5, <2>3
      <3> QED BY <3>1, <3>2
    <2> QED BY <2>1, <2>2, <2>3
  <1>8. CompleteAtExit
    BY <1>3, <1>4 DEF CompleteAtExit, Good, EndOK
  <1> QED BY <1>6, <1>7, <1>8 DEF LinesAccounted

LEMMA InvCrashes ==
  ASSUME SyslogInv
  PROVE  CrashCauses
  <1>1. PICK t : t = Turn
    OBVIOUS
  <1>2. PICK s : s = Clean(t)
    OBVIOUS
  <1>3. Sound(t) /\ t.d = d
    BY <1>1, TurnIs DEF SyslogInv
  <1>4. /\ EndOK(s) /\ s.d.up = d.up /\ DOMAIN s.d.files = DOMAIN d.files
        /\ \A j \in DOMAIN d.files : Lasting(s.d.files[j], d.files[j])
    BY <1>2, <1>3, SoundAccounts DEF Good
  <1> QED BY <1>4 DEF CrashCauses, EndOK, Lasting

(* No message is lost, added or reordered by the suppression of repeated   *)
(* lines in logmsg, fprintlog, domark and init: what is owed to the file   *)
(* of an entry is what is counted for it, and after die only what syslogd  *)
(* said last may still be counted, unless a write to the file has failed   *)
(* or SIGTERM or SIGALRM came in fprintlog before it had reset the count   *)
(* of a repetition; for every configuration and any number of messages,    *)
(* failures, reloads and signals.                                          *)
THEOREM MessagesKept == Spec => []LinesAccounted
  <1>1. SyslogInv => LinesAccounted
    BY InvAccounts
  <1> QED BY <1>1, SyslogInvariant, PTL

(* syslogd ends without SIGTERM only where a handler meets an entry that   *)
(* init has freed, or fprintlog has no previous host of an unknown one.    *)
THEOREM CrashOnlyThere == Spec => []CrashCauses
  <1>1. SyslogInv => CrashCauses
    BY InvCrashes
  <1> QED BY <1>1, SyslogInvariant, PTL
=============================================================================
