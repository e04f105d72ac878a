--------------------------------- MODULE Rcp ---------------------------------
(***************************************************************************)
(* rcp: a source and a sink joined by the stream that rcmd set up.  The    *)
(* same program runs on both ends; opt.local says which end the user runs. *)
(* What the source sends is a sequence of tokens: the records T, C, D and  *)
(* E, an error record, the units of a file, and "end", the byte after a    *)
(* file.  The sink answers "ok" or "err".  A step runs from one blocking   *)
(* read to the next.  A record begins with one control byte, and a unit of *)
(* file data never looks like a record.                                    *)
(***************************************************************************)
EXTENDS Integers, Sequences, FiniteSets, SequencesExt

CONSTANTS
  Plans,        \* the argument lists: items in the order rsource walks them
  OldSize,      \* the size of the files that exist at the target
  RcpFaults,    \* the calls that may fail
  MaxRcpFaults, \* how many of them fail in a run
  StatusWrap,   \* 256: how many values the status of a process has
  IntMax        \* the largest int

(* status holds what each end exited with, once it has. *)
VARIABLES opt, src, snk, up, down, disk, cut, faults, status

rcpvars == <<opt, src, snk, up, down, disk, cut, faults, status>>

Targ == "targ"
Paths == {it.path : it \in UNION {Range(p) : p \in Plans}} \cup {Targ}

(* What an argument list expands to: files C, and directories from D to E.   *)
(* depth tells in how many directories an item is; arguments are in none.    *)
Nesting(p, depth) ==
  /\ depth[1] = 0 /\ depth[Len(p) + 1] = 0
  /\ \A i \in DOMAIN p :
       /\ depth[i + 1] = depth[i] + (CASE p[i].k = "D" -> 1 [] p[i].k = "E" -> -1 [] p[i].k = "C" -> 0)
       /\ p[i].k # "E" => (p[i].arg <=> depth[i] = 0)

(* No two items are stored under one name: the sink puts an item at the last  *)
(* part of its name, below the directory that it is in.                      *)
GoodPlan(p) ==
  /\ p \in Seq([k : {"C", "D", "E"}, path : Paths \ {Targ}, n : Nat, arg : BOOLEAN])
  /\ \E depth \in [1 .. Len(p) + 1 -> 0 .. Len(p)] : Nesting(p, depth)
  /\ \A i, j \in DOMAIN p : i # j /\ p[i].path = p[j].path => p[i].k # p[j].k /\ "C" \notin {p[i].k, p[j].k}
  /\ \A i \in DOMAIN p : p[i].k = "D" => \E j \in i + 1 .. Len(p) : p[j].k = "E" /\ p[j].path = p[i].path

ASSUME RcpAssumption ==
  /\ OldSize \in Nat /\ MaxRcpFaults \in Nat /\ StatusWrap \in Nat \ {0, 1} /\ IntMax \in Nat
  /\ \A p \in Plans : GoodPlan(p)

Plan == opt.plan
Item == Plan[src.at]
Rec(k, path) == [k |-> k, path |-> path, n |-> 0, arg |-> FALSE]
Garbage == Rec("garbage", Targ)
Unit(path, i) == [Rec("unit", path) EXCEPT !.n = i]

(* At most MaxRcpFaults calls fail; extra notes the failures that are        *)
(* reported by an answer nobody waits for, or not reported in its place.    *)
Fails(f) == f \in RcpFaults /\ Cardinality(faults) < MaxRcpFaults
MayFail(f) == {FALSE} \cup (IF Fails(f) THEN {TRUE} ELSE {})
Noted(fs) == faults' = faults \cup fs

(* exit(errs) of an end, of which the low bits count, or exit(1). *)
Leaves(end, code) == status' = [status EXCEPT ![end] = code % StatusWrap]

(* The size of a file is an off_t at the source and an int at the sink: the    *)
(* digits are added up modulo the width of the int.                           *)
Sizes == 0 .. IntMax
Cint(n) ==
  IF n \in Sizes THEN n
  ELSE LET low == n % (2 * (IntMax + 1)) IN IF low \in Sizes THEN low ELSE low - 2 * (IntMax + 1)

----------------------------------------------------------------------------
(* The source.                                                             *)
(* Where the item after a directory that was not entered starts. *)
AfterDir(at) ==
  CHOOSE j \in at + 1 .. Len(Plan) + 1 :
    /\ Plan[j - 1].k = "E" /\ Plan[j - 1].path = Plan[at].path
Skip(at) == IF Plan[at].k = "D" THEN AfterDir(at) ELSE at + 1

SrcStep(s, sent) == src' = s /\ up' = up \o (IF cut THEN <<>> ELSE sent) /\ UNCHANGED <<opt, snk, disk, cut>>
SrcGo(s, sent) == SrcStep(s, sent) /\ IF s.pc = "exit" THEN Leaves("source", 1) ELSE UNCHANGED status
SrcExit(s, sent) == SrcStep([s EXCEPT !.pc = "exit"], sent) /\ Leaves("source", s.errs)
(* Mutant: the error is not counted. *)
run_err_silent(p) == p
run_err(p) == [p EXCEPT !.errs = @ + 1]
Exit1(p) == [run_err(p) EXCEPT !.pc = "exit"]
ErrRec == Rec("err", Targ)

(* The next argument, or the next entry of a directory. *)
SourceItem ==
  /\ src.pc = "next"
  /\ src.at <= Len(Plan)
  /\ UNCHANGED down
  /\ \/ /\ Item.k = "E"
        /\ SrcGo([src EXCEPT !.pc = "E"], <<Item>>)
        /\ UNCHANGED faults
     \/ /\ \/ Item.k = "D" /\ ~opt.iamrecursive /\ UNCHANGED faults
           \/ Item.k \in {"C", "D"} /\ Fails("open") /\ Noted({"open"})
        /\ SrcGo([run_err(src) EXCEPT !.at = Skip(@)], <<ErrRec>>)
     \/ /\ Item.k = "C" \/ (Item.k = "D" /\ opt.iamrecursive)
        /\ IF opt.pflag THEN SrcGo([src EXCEPT !.pc = "T"], <<Rec("T", Item.path)>>)
                        ELSE SrcGo([src EXCEPT !.pc = Item.k], <<Item>>)
        /\ UNCHANGED faults

SourceDone ==
  /\ src.pc = "next" /\ src.at > Len(Plan)
  /\ SrcExit(src, <<>>)
  /\ UNCHANGED <<down, faults>>

(* The units of the file, all of size, then the closing byte or the error. *)
Units(it, good) == [i \in 1 .. it.n |-> IF good \/ i = 1 THEN Unit(it.path, i) ELSE Garbage]
SendFile ==
  \/ \E bad \in MayFail("read") :
       /\ SrcGo([(IF bad THEN run_err(src) ELSE src) EXCEPT !.pc = "end"],
                Units(Item, ~bad) \o <<IF bad THEN ErrRec ELSE Rec("end", Item.path)>>)
       /\ Noted(IF bad THEN {"read"} ELSE {})
  \/ /\ Fails("srcalloc")
     /\ SrcGo([run_err(src) EXCEPT !.pc = "next", !.at = @ + 1], <<ErrRec>>)
     /\ Noted({"srcalloc"})

(* Mutant: an item is skipped. *)
NextItem_twice(s, at) == [s EXCEPT !.pc = "next", !.at = at + 1]
NextItem(s, at) == [s EXCEPT !.pc = "next", !.at = at]

(* What the caller of response() goes on to. *)
SourceOk ==
  \/ src.pc = "start" /\ SrcGo(NextItem(src, 1), <<>>) /\ UNCHANGED faults
  \/ src.pc = "T" /\ SrcGo([src EXCEPT !.pc = Item.k], <<Item>>) /\ UNCHANGED faults
  \/ src.pc = "C" /\ SendFile
  \/ src.pc \in {"D", "E", "end"} /\ SrcGo(NextItem(src, src.at + 1), <<>>) /\ UNCHANGED faults

SourceErr ==
  /\ UNCHANGED faults
  /\ \/ src.pc = "start" /\ IF opt.local = "source" THEN SrcGo(Exit1(src), <<>>) ELSE SrcGo(NextItem(run_err(src), 1), <<>>)
     \/ src.pc \in {"T", "C", "D"} /\ SrcGo(NextItem(run_err(src), Skip(src.at)), <<>>)
     \/ src.pc \in {"E", "end"} /\ SrcGo(NextItem(run_err(src), src.at + 1), <<>>)

Waiting == src.pc \in {"start", "T", "C", "D", "E", "end"}
SourceGone == cut \/ src.pc = "exit"
(* Mutant: the end of the stream is not noticed. *)
SinkGone_never == FALSE
SinkGone == cut \/ snk.pc = "exit"

SourceResponse ==
  /\ Waiting
  /\ \/ /\ down # <<>>
        /\ down' = Tail(down)
        /\ IF Head(down) = "ok" THEN SourceOk ELSE SourceErr
     \/ /\ down = <<>> /\ SinkGone
        /\ SrcGo(Exit1(src), <<>>)
        /\ UNCHANGED <<down, faults>>

----------------------------------------------------------------------------
(* The sink.  stack holds a frame for every active call of sink.           *)
Frame(targ, isdir) == [targ |-> targ, isdir |-> isdir, setimes |-> FALSE]
Top == snk.stack[Len(snk.stack)]
SetTop(s, f) == [s EXCEPT !.stack[Len(s.stack)] = f]
IsDir(path) == disk[path].kind = "dir"

SnkStep(s, answers) == snk' = s /\ down' = down \o (IF cut THEN <<>> ELSE answers) /\ UNCHANGED <<opt, src, cut>>
SnkGo(s, answers) == SnkStep(s, answers) /\ IF s.pc = "exit" THEN Leaves("sink", 1) ELSE UNCHANGED status
SnkExit(answers) == SnkStep([snk EXCEPT !.pc = "exit"], answers) /\ Leaves("sink", snk.errs)
Np(it) == IF Top.isdir THEN it.path ELSE Top.targ

SinkStart ==
  /\ snk.pc = "start"
  /\ IF opt.dflag /\ ~IsDir(Targ)
     THEN SnkGo(Exit1(snk), <<"err">>)
     ELSE SnkGo([snk EXCEPT !.pc = "rec", !.stack = <<Frame(Targ, IsDir(Targ))>>], <<"ok">>)
  /\ UNCHANGED <<up, disk, faults>>

(* sink returns: to its caller, which sets the times of the directory, or   *)
(* to main, which exits.                                                    *)
Return(answers) ==
  IF Len(snk.stack) = 1
  THEN SnkExit(answers) /\ UNCHANGED <<disk, faults>>
  ELSE LET outer == snk.stack[Len(snk.stack) - 1]
           back  == [snk EXCEPT !.stack = SetTop([snk EXCEPT !.stack = Front(@)], [outer EXCEPT !.setimes = FALSE]).stack]
       IN  \E bad \in IF outer.setimes THEN MayFail("dirtimes") ELSE {FALSE} :
             /\ Noted(IF bad THEN {"dirtimes"} ELSE {})
             /\ SnkGo(IF bad THEN run_err(back) ELSE back, answers \o IF bad THEN <<"err">> ELSE <<>>)
             /\ disk' = IF outer.setimes /\ ~bad THEN [disk EXCEPT ![Top.targ].time = "source"] ELSE disk

Refused == SnkGo(run_err(snk), <<"err">>) /\ UNCHANGED disk

Entered(np) ==
  /\ SnkGo([snk EXCEPT !.stack = Append(@, Frame(np, TRUE))], <<"ok">>)
  /\ disk' = [disk EXCEPT ![np].kind = "dir"]

SinkDir(it) ==
  LET np == Np(it)
  IN  \/ disk[np].kind = "file" /\ Refused /\ UNCHANGED faults
      \/ disk[np].kind = "none" /\ Fails("mkdir") /\ Refused /\ Noted({"mkdir"})
      \/ disk[np].kind # "file" /\ Entered(np) /\ UNCHANGED faults

SinkFile(it) ==
  LET np == Np(it)
  IN  \/ /\ IsDir(np) \/ Fails("create")
         /\ Noted(IF IsDir(np) THEN {} ELSE {"create"})
         /\ Refused
      \/ /\ ~IsDir(np)
         /\ disk' = [disk EXCEPT ![np].kind = "file", ![np].time = IF disk[np].kind = "file" THEN @ ELSE "now"]
         /\ \/ SnkGo([snk EXCEPT !.pc = "data", !.np = np, !.size = Cint(it.n), !.got = <<>>], <<"ok">>) /\ UNCHANGED faults
            \/ Fails("sinkalloc") /\ SnkGo(run_err(snk), <<"ok", "err">>) /\ Noted({"sinkalloc"})

(* One record.  Anything else than a record ends the sink, once the rest of *)
(* the line has come.                                                       *)
SinkRecord ==
  /\ snk.pc = "rec"
  /\ \/ up = <<>> /\ SourceGone /\ Return(<<>>) /\ UNCHANGED up
     \/ /\ up # <<>>
        /\ up' = Tail(up)
        /\ LET it == Head(up)
           IN  \/ it.k = "err" /\ SnkGo(run_err(snk), <<>>) /\ UNCHANGED <<disk, faults>>
               \/ it.k = "E" /\ Return(<<"ok">>)
               \/ it.k = "T" /\ SnkGo(SetTop(snk, [Top EXCEPT !.setimes = TRUE]), <<"ok">>) /\ UNCHANGED <<disk, faults>>
               \/ it.k = "D" /\ SinkDir(it)
               \/ it.k = "C" /\ SinkFile(it)
               \/ /\ it.k \in {"part", "unit", "garbage", "end"}
                  /\ it.k = "part" \/ Len(up) > 1 \/ SourceGone
                  /\ SnkGo(Exit1(snk), <<"err">>) /\ UNCHANGED <<disk, faults>>

(* The bytes of the file, whatever they are. *)
SinkData ==
  /\ snk.pc = "data" /\ Len(snk.got) < snk.size
  /\ \/ /\ up # <<>> /\ Head(up).k # "part"
        /\ up' = Tail(up)
        /\ SnkGo([snk EXCEPT !.got = Append(@, IF Head(up).k = "unit" THEN Head(up) ELSE Garbage)], <<>>)
     \/ /\ \/ up = <<>> /\ SourceGone /\ UNCHANGED up
           \/ up # <<>> /\ Head(up).k = "part" /\ up' = Tail(up)
        /\ SnkGo(Exit1(snk), <<"err">>)
  /\ UNCHANGED <<disk, faults>>

(* Written over what the file held, and then cut to size; ftruncate refuses a  *)
(* negative size.                                                            *)
Over(old, new) == new \o SubSeq(old, Len(new) + 1, Len(old))

Stored(bad) ==
  LET old  == disk[snk.np].data
      body == IF "write" \in bad THEN old ELSE Over(old, snk.got)
      said == bad \cap {"truncate", "chmod"}
      err  == CASE "truncate" \in bad -> "displayed"
                [] bad \cap {"write", "truncate"} = {"write"} -> "yes"
                [] bad \cap {"write", "truncate"} = {} -> "no"
  IN  /\ disk' = [disk EXCEPT ![snk.np] = [kind |-> "file", time |-> "now",
                    data |-> IF "truncate" \in bad THEN body ELSE SubSeq(body, 1, IF Len(body) < snk.size THEN Len(body) ELSE snk.size)]]
      /\ SnkGo([snk EXCEPT !.pc = "resp", !.wrerr = err, !.errs = @ + Cardinality(said)],
               [i \in 1 .. Cardinality(said) |-> "err"])

SinkWritten ==
  /\ snk.pc = "data" /\ Len(snk.got) >= snk.size
  /\ UNCHANGED up
  /\ \E failed \in SUBSET ({"write", "truncate", "chmod"} \cap RcpFaults) :
       /\ Cardinality(faults \cup failed) <= MaxRcpFaults
       /\ Noted(failed)
       /\ Stored(failed \cup IF snk.size < 0 THEN {"truncate"} ELSE {})

(* What the switch on wrerr sends: an error that was displayed was sent. *)
(* Mutant: the error is sent again. *)
Said_twice(wrerr) == IF wrerr = "no" THEN <<"ok">> ELSE <<"err">>
Said(wrerr) == IF wrerr = "displayed" THEN <<>> ELSE <<IF wrerr = "no" THEN "ok" ELSE "err">>

(* The source's verdict is read, the times are set and the sink answers. *)
Answer(s) ==
  \E bad \in IF Top.setimes /\ s.wrerr = "no" THEN MayFail("times") ELSE {FALSE} :
    LET timed == Top.setimes /\ s.wrerr = "no"
        back  == [SetTop(s, IF timed THEN [Top EXCEPT !.setimes = FALSE] ELSE Top) EXCEPT !.pc = "rec"]
    IN  /\ Noted(IF bad THEN {"times"} ELSE {})
        /\ disk' = IF timed /\ ~bad THEN [disk EXCEPT ![s.np].time = "source"] ELSE disk
        /\ SnkGo(IF bad \/ s.wrerr = "yes" THEN run_err(back) ELSE back, IF bad THEN <<"err">> ELSE Said(s.wrerr))

SinkVerdict ==
  /\ snk.pc = "resp"
  /\ \/ up # <<>> /\ up' = Tail(up) /\ Head(up).k = "end" /\ Answer(snk)
     \/ up # <<>> /\ up' = Tail(up) /\ Head(up).k = "err" /\ Answer(run_err(snk))
     \/ /\ IF up # <<>> THEN Head(up).k \notin {"end", "err"} /\ up' = Tail(up) ELSE SourceGone /\ UNCHANGED up
        /\ SnkGo(Exit1(snk), <<>>)
        /\ UNCHANGED <<disk, faults>>

----------------------------------------------------------------------------
(* The connection breaks: what is on its way may be lost, from any byte on. *)
Cut ==
  /\ ~cut /\ cut' = TRUE
  /\ Fails("cut") /\ Noted({"cut"})
  /\ \E i \in 0 .. Len(up), j \in 0 .. Len(down), part \in BOOLEAN :
       /\ up' = SubSeq(up, 1, i) \o IF part /\ i < Len(up) THEN <<Rec("part", Targ)>> ELSE <<>>
       /\ down' = SubSeq(down, 1, j)
  /\ UNCHANGED <<opt, src, snk, disk, status>>

(* A write to an end that is gone: SIGPIPE, whose handler is lostconn, or     *)
(* the write is lost and the next read ends the program.                     *)
lostconn ==
  /\ \/ src.pc \notin {"exit", "start"} /\ SinkGone /\ src' = Exit1(src) /\ Leaves("source", 1) /\ UNCHANGED snk
     \/ snk.pc # "exit" /\ SourceGone /\ snk' = Exit1(snk) /\ Leaves("sink", 1) /\ UNCHANGED src
  /\ UNCHANGED <<opt, up, down, disk, cut, faults>>

RcpInit ==
  /\ opt \in [plan : Plans, local : {"source", "sink"}, pflag : BOOLEAN, iamrecursive : BOOLEAN, dflag : BOOLEAN]
  /\ Cardinality({i \in 1 .. Len(opt.plan) : opt.plan[i].arg}) > 1 => opt.dflag
  /\ disk \in {[p \in Paths |-> [kind |-> k[p], data |-> IF k[p] = "file" THEN [i \in 1 .. OldSize |-> Rec("unit", Targ)] ELSE <<>>, time |-> "old"]] :
                 k \in {f \in [Paths -> {"none", "file", "dir"}] : \A p \in Paths \ {Targ} :
                         f[p] = "none" \/ (f[Targ] = "dir" /\ f[p] = "file" /\ \A it \in Range(opt.plan) : it.path = p => it.arg)}}
  /\ src = [pc |-> "start", at |-> 1, errs |-> 0]
  /\ snk = [pc |-> "start", stack |-> <<>>, np |-> Targ, size |-> 0, got |-> <<>>, wrerr |-> "no", errs |-> 0]
  /\ up = <<>> /\ down = <<>> /\ cut = FALSE /\ faults = {}
  /\ status = [source |-> 0, sink |-> 0]

SourceStep == SourceItem \/ SourceDone \/ SourceResponse
SinkStep == SinkStart \/ SinkRecord \/ SinkData \/ SinkWritten \/ SinkVerdict
RcpNext == SourceStep \/ SinkStep \/ Cut \/ lostconn

RcpSpec == RcpInit /\ [][RcpNext]_rcpvars

RcpFair == WF_rcpvars(SourceStep) /\ WF_rcpvars(SinkStep)

----------------------------------------------------------------------------
(* Every variable has its type. *)
RcpTypeOK ==
  /\ src.pc \in {"start", "next", "T", "C", "D", "E", "end", "exit"} /\ src.at \in 1 .. Len(Plan) + 1
  /\ snk.pc \in {"start", "rec", "data", "resp", "exit"}
  /\ \A f \in Range(snk.stack) : f.targ \in Paths /\ f.isdir \in BOOLEAN /\ f.setimes \in BOOLEAN
  /\ \A i \in 1 .. Len(snk.stack) : i > 1 => snk.stack[i].isdir
  /\ snk.wrerr \in {"yes", "no", "displayed"} /\ Len(snk.got) <= snk.size
  /\ Range(down) \subseteq {"ok", "err"}
  /\ \A t \in Range(up) : t.k \in {"T", "C", "D", "E", "err", "end", "part", "unit", "garbage"} /\ t.path \in Paths
  /\ faults \subseteq RcpFaults /\ status \in [{"source", "sink"} -> 0 .. StatusWrap - 1]

(* The failures after which the two ends are known to lose step: an error    *)
(* that the sink reports besides its answer (fchmod, the times of a          *)
(* directory), or a buffer that cannot be had after the file was accepted.   *)
Extra == {"chmod", "dirtimes", "sinkalloc", "srcalloc"}

(* The two ends stay in step: while no answer was sent out of turn, a source *)
(* that reads an answer and a sink that reads a record, a file or the byte    *)
(* after it are at the same place of the same item (source 489, sink 658).    *)
(* Two answers are on their way only for an empty file: the sink has nothing  *)
(* to wait for and may report ftruncate right behind its "ok".                *)
RcpInStep ==
  faults \cap Extra = {} =>
    /\ (snk.pc = "rec" /\ up # <<>>) => Head(up).k \notin {"unit", "garbage", "end"}
    /\ (snk.pc = "data" /\ Len(snk.got) < snk.size /\ up # <<>>) => Head(up).k \in {"unit", "garbage", "part"}
    /\ (snk.pc = "resp" /\ up # <<>>) => Head(up).k \in {"end", "err", "part"}
    /\ Len(down) <= IF src.pc \in {"C", "exit"} THEN 2 ELSE 1
    /\ src.pc = "next" => (down = <<>> \/ snk.pc = "exit")

(* When the rcp that the user runs exits with status 0, every file of the     *)
(* list is at the target, whole and with its time if -p was given.  A          *)
(* connection that breaks between two records can end a receiving rcp          *)
(* silently (sink 695), and StatusWrap errors, or a multiple of them, end in   *)
(* status 0 as well (main 295).                                                *)
Local == IF opt.local = "source" THEN src ELSE snk
Arrived(it) ==
  \E p \in {it.path, Targ} :
    /\ disk[p].kind = "file"
    /\ disk[p].data = Units(it, TRUE)
    /\ opt.pflag => disk[p].time = "source"
RcpCopied ==
  (/\ Local.pc = "exit" /\ status[opt.local] = 0
   /\ Local.errs < StatusWrap /\ ~(opt.local = "sink" /\ cut))
  => \A i \in 1 .. Len(Plan) : Plan[i].k = "C" => Arrived(Plan[i])

(* Both ends exit, whatever fails or breaks, unless they lost step.           *)
RcpEnds == <>((src.pc = "exit" /\ snk.pc = "exit") \/ faults \cap Extra # {})

(* The two copies of rcp stay in step and what they report as copied is, as    *)
(* long as every size fits the int of the sink (source 541, sink 773).          *)
FilesFit == \A i \in DOMAIN Plan : Plan[i].n \in Sizes
RcpSafe == FilesFit => RcpTypeOK /\ RcpInStep /\ RcpCopied
=============================================================================
