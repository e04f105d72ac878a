----------------------------- MODULE RcpProofs -----------------------------
(***************************************************************************)
(* RcpSafe of Rcp for every argument list, every set of calls that may     *)
(* fail and any number of failures: the two copies of rcp stay in step,    *)
(* and a copy that is reported as good is whole.                           *)
(*                                                                         *)
(* A step of the program is first brought to a form in which it says of    *)
(* every variable what it becomes (StepKinds); each conjunct of the        *)
(* inductive invariant RcpInv is then kept by the forms of the source, by  *)
(* those of the sink and by a cut.                                         *)
(***************************************************************************)
EXTENDS Rcp, FiniteSetTheorems, SequenceTheorems, TLAPS

Tokens == [k : {"T", "C", "D", "E", "err", "end", "part", "unit", "garbage"}, path : Paths, n : Sizes, arg : BOOLEAN]
Frames == [targ : Paths, isdir : BOOLEAN, setimes : BOOLEAN]
Asks == {"T", "C", "D", "E"}
Answers == {"ok", "err"}

Types ==
  /\ opt \in [plan : Plans, local : {"source", "sink"}, pflag : BOOLEAN, iamrecursive : BOOLEAN, dflag : BOOLEAN]
  /\ src \in [pc : {"start", "next", "end", "exit"} \cup Asks, at : 1 .. Len(Plan) + 1, errs : Nat]
  /\ snk \in [pc : {"start", "rec", "data", "resp", "exit"}, stack : Seq(Frames), np : Paths, size : Nat,
              got : Seq(Tokens), wrerr : {"yes", "no", "displayed"}, errs : Nat]
  /\ up \in Seq(Tokens) /\ down \in Seq(Answers)
  /\ disk \in [Paths -> [kind : {"none", "file", "dir"}, data : Seq(Tokens), time : {"old", "now", "source"}]]
  /\ cut \in BOOLEAN /\ faults \subseteq RcpFaults

Waits == src.pc \in Asks \cup {"end"}
SourceAt ==
  /\ src.pc = "start" => src.at = 1
  /\ Waits => src.at <= Len(Plan)
  /\ src.pc \in {"C", "D", "E"} => Item.k = src.pc
  /\ src.pc = "end" => Item.k = "C"
  /\ src.pc = "T" => Item.k \in {"C", "D"} /\ opt.pflag

SinkAt ==
  /\ snk.pc = "start" <=> snk.stack = <<>> /\ snk.pc # "exit"
  /\ \A i \in DOMAIN snk.stack : i > 1 => snk.stack[i].isdir
  /\ snk.stack # <<>> /\ ~snk.stack[1].isdir => ~opt.dflag
  /\ Len(snk.got) <= snk.size
  /\ snk.pc = "resp" => Len(snk.got) = snk.size

OneArgument == ~opt.dflag => \A i, j \in DOMAIN Plan : Plan[i].arg /\ Plan[j].arg => i = j

(* A process that has exited left with 1 or with the number of its errors.   *)
LeftWith(end, p) == p.pc = "exit" => status[end] = 1 \/ status[end] = p.errs % StatusWrap
Statuses ==
  /\ status \in [{"source", "sink"} -> 0 .. StatusWrap - 1]
  /\ LeftWith("source", src) /\ LeftWith("sink", snk)

RcpTypes == FilesFit /\ Types /\ SourceAt /\ SinkAt /\ OneArgument

----------------------------------------------------------------------------
(* In step. *)
NoExtra == faults \cap Extra = {}
IsEnd(t) == t.k \in {"end", "err"}

(* What the sink reads next. *)
UpShape ==
  /\ snk.pc = "start" => up = <<>>
  /\ snk.pc = "rec" =>
       \A i \in DOMAIN up : up[i].k \in Asks \cup {"err", "part"} /\ (i < Len(up) => up[i].k = "err")
  /\ snk.pc = "data" =>
       LET r == snk.size - Len(snk.got)
       IN  /\ Len(up) <= r + 1
           /\ \A i \in DOMAIN up : IF i <= r THEN up[i].k \in {"unit", "garbage", "part"} /\ (i < Len(up) => up[i].k # "part")
                                   ELSE up[i].k \in {"end", "err", "part"}
  /\ snk.pc = "resp" =>
       \A i \in DOMAIN up :
         IF i = 1 THEN up[i].k \in {"end", "err", "part"}
         ELSE up[i].k \in Asks \cup {"err", "part"} /\ (i < Len(up) => up[i].k = "err")

DownShape ==
  /\ Len(down) <= 1 \/ (src.pc \in {"C", "exit"} /\ Len(down) = 2 /\ Head(down) = "ok")
  /\ src.pc = "next" => down = <<>> \/ snk.pc = "exit"

(* The answer was given before the end of the file was read. *)
Early == snk.pc = "resp" /\ snk.wrerr = "displayed" /\ up # <<>> /\ up[1].k # "part"
Listens == snk.pc = "rec" \/ Early
(* Where the records start that the sink has to read first. *)
After == IF snk.pc = "rec" THEN 0 ELSE 1

AllErr(n) == \A i \in DOMAIN up : i > After /\ i <= n => up[i].k = "err"

(* A record or a control is on its way, was answered, or a file was accepted. *)
Coming ==
  /\ Listens /\ down = <<>> /\ Len(up) > After /\ AllErr(Len(up) - 1)
  /\ up[Len(up)].k = src.pc /\ (src.pc = "C" => up[Len(up)].n = Item.n)
Answered == snk.pc = "rec" /\ up = <<>> /\ Len(down) = 1
Accepted ==
  /\ up = <<>> /\ snk.size = Item.n
  /\ \/ snk.pc = "data" /\ snk.got = <<>> /\ down = <<"ok">>
     \/ snk.pc = "resp" /\ snk.size = 0 /\ down = IF snk.wrerr = "displayed" THEN <<"ok", "err">> ELSE <<"ok">>
Filling ==
  \/ snk.pc = "data" /\ down = <<>> /\ Len(up) = snk.size - Len(snk.got) + 1
  \/ snk.pc = "resp" /\ Len(up) = 1 /\ down = IF snk.wrerr = "displayed" THEN <<"err">> ELSE <<>>

Link ==
  /\ src.pc = "start" => up = <<>> /\ \/ snk.pc = "start" /\ down = <<>>
                                      \/ snk.pc = "rec" /\ down = <<"ok">>
  /\ src.pc \in {"next", "exit"} => Listens /\ down = <<>> /\ AllErr(Len(up))
  /\ src.pc \in {"T", "D", "E"} => Coming \/ Answered
  /\ src.pc = "C" => Coming \/ (Answered /\ down = <<"err">>) \/ Accepted
  /\ src.pc = "end" => Filling \/ Answered

(* Only a cut leaves a part of a record. *)
Whole == ~cut => \A i \in DOMAIN up : up[i].k # "part"

InStep == NoExtra => UpShape /\ DownShape /\ (~cut /\ snk.pc # "exit" => Link)

----------------------------------------------------------------------------
(* Nothing went wrong that the source knows of. *)
Depth(p) == CHOOSE depth \in [1 .. Len(p) + 1 -> 0 .. Len(p)] : Nesting(p, depth)
Deep(n) == Len(snk.stack) = n + 1
Level == Depth(Plan)[src.at]

Okd == down # <<>> /\ Head(down) = "ok"
Storing == snk.pc \in {"data", "resp"}
Timed == opt.pflag => Top.setimes
Asked == IF src.pc = "T" THEN Rec("T", Item.path) ELSE Item
Part == Rec("part", Targ)

Done == \A i \in 1 .. src.at - 1 : Plan[i].k = "C" => Arrived(Plan[i])
Written == disk[snk.np].kind = "file" /\ disk[snk.np].data = Units(Item, TRUE)

CleanAnswers ==
  /\ Okd /\ Len(down) > 1 => down[2] = "err"
  /\ src.pc \in {"next", "exit"} => ~Okd
  /\ Okd => up = <<>>
  /\ src.pc \in {"start", "next", "exit"} => up = <<>>
  /\ src.pc = "exit" => src.at = Len(Plan) + 1
  /\ snk.pc = "start" => src.pc = "start" /\ down = <<>>

CleanStore ==
  Storing =>
    /\ src.pc \in {"C", "end"} /\ src.at <= Len(Plan) /\ Deep(Level) /\ Timed /\ snk.size = Item.n
    /\ snk.np \in {Item.path, Targ} /\ (snk.np = Targ => src.at = 1)
    /\ src.pc = "C" => snk.got = <<>>
    /\ \A i \in DOMAIN snk.got : snk.got[i] = Unit(Item.path, i)
    /\ snk.pc = "resp" /\ snk.wrerr = "no" => Written

CleanAsk ==
  src.pc \in Asks =>
    /\ up = <<>> \/ up = <<Asked>> \/ up = <<Part>>
    /\ up = <<Asked>> /\ snk.pc # "exit" => snk.pc = "rec" /\ Deep(Level) /\ (src.pc \in {"C", "D"} => Timed)
    /\ ~cut /\ Okd =>
         /\ src.pc = "T" => snk.pc = "rec" /\ Deep(Level) /\ Top.setimes
         /\ src.pc \in {"D", "E"} => snk.pc = "rec" /\ Deep(Depth(Plan)[src.at + 1])
         /\ src.pc = "C" => Storing \/ Len(down) > 1

CleanEnd ==
  src.pc = "end" =>
    /\ Okd => ~Storing /\ Arrived(Item) /\ (~cut => snk.pc = "rec" /\ Deep(Level))
    /\ snk.pc = "resp" => Len(up) <= 1
    /\ snk.pc # "data" => \A i \in DOMAIN up : up[i].k \in {"unit", "end", "part"}
    /\ snk.pc = "data" =>
         LET r == snk.size - Len(snk.got)
         IN  /\ Len(up) <= r + 1
             /\ \A i \in DOMAIN up :
                  \/ up[i] = IF i <= r THEN Unit(Item.path, Len(snk.got) + i) ELSE Rec("end", Item.path)
                  \/ up[i].k = "part"

CleanRest ==
  /\ src.pc = "start" /\ ~cut /\ ~Okd => snk.pc = "start" \/ down # <<>>
  /\ src.pc = "start" /\ ~cut /\ Okd => snk.pc = "rec" /\ Deep(0)
  /\ src.pc \in {"next", "exit"} /\ ~cut /\ snk.pc # "exit" => snk.pc = "rec" /\ Deep(Level)

Clean == src.errs = 0 => Done /\ CleanAnswers /\ CleanStore /\ CleanAsk /\ CleanEnd /\ CleanRest

(* The sink has not failed. *)
SinkClean ==
  snk.errs = 0 =>
    /\ \A i \in DOMAIN down : down[i] = "ok"
    /\ snk.pc = "exit" /\ ~cut => src.pc = "exit" /\ src.errs = 0

(* An error of the source that the sink does not know of yet. *)
Doomed ==
  src.errs > 0 /\ snk.errs = 0 /\ ~cut =>
    \/ Storing /\ down = <<>> /\ \A i \in DOMAIN up : up[i].k # "end"
    \/ snk.pc = "rec" /\ up # <<>> /\ Head(up).k = "err"

(* The first call of sink stores at the target. *)
Base == snk.stack # <<>> => snk.stack[1].targ = Targ

RcpInv == RcpTypes /\ Base /\ Whole /\ InStep /\ Clean /\ SinkClean /\ Doomed
----------------------------------------------------------------------------
(* The steps, each with all that it changes.                               *)
Reads == up # <<>> /\ up' = Tail(up)
Sends(sent) == up' = up \o (IF cut THEN <<>> ELSE sent)
Hears(answer) == down # <<>> /\ Head(down) = answer /\ down' = Tail(down)
Says(answers) == down' = down \o (IF cut THEN <<>> ELSE answers)
Adds(fs) == faults' = faults \cup fs
Src(pc, at, e) == src' = [pc |-> pc, at |-> at, errs |-> src.errs + e]
IsSnk(x) ==
  x = [pc |-> x.pc, stack |-> x.stack, np |-> x.np, size |-> x.size, got |-> x.got, wrerr |-> x.wrerr, errs |-> x.errs]
Kept(x, y) == IsSnk(y) /\ y.np = x.np /\ y.size = x.size /\ y.got = x.got /\ y.wrerr = x.wrerr
Snk(pc, stack, e) == Kept(snk, snk') /\ snk'.pc = pc /\ snk'.stack = stack /\ snk'.errs = snk.errs + e
OnlySource == UNCHANGED <<opt, snk, disk, cut>>
OnlySink == UNCHANGED <<opt, src, cut>>

AskFor(pc) == IF pc = "T" THEN Rec("T", Item.path) ELSE Item

SAsk ==
  /\ src.pc = "next" /\ src.at <= Len(Plan) /\ OnlySource /\ UNCHANGED <<down, faults>>
  /\ \E pc \in Asks : /\ Src(pc, src.at, 0) /\ Sends(<<AskFor(pc)>>)
                      /\ IF pc = "T" THEN Item.k \in {"C", "D"} /\ opt.pflag ELSE Item.k = pc /\ (pc = "E" \/ ~opt.pflag)

SMissed ==
  /\ src.pc = "next" /\ src.at <= Len(Plan) /\ Item.k \in {"C", "D"} /\ OnlySource /\ UNCHANGED down
  /\ Src("next", Skip(src.at), 1) /\ Sends(<<ErrRec>>) /\ (Adds({}) \/ (Adds({"open"}) /\ "open" \in RcpFaults))

SDone ==
  /\ src.pc = "next" /\ src.at > Len(Plan) /\ OnlySource /\ UNCHANGED <<up, down, faults>>
  /\ Src("exit", src.at, 0)

SMoved ==
  /\ OnlySource /\ UNCHANGED <<up, faults>>
  /\ \/ Hears("ok") /\ src.pc = "start" /\ Src("next", 1, 0)
     \/ Hears("ok") /\ src.pc \in {"D", "E", "end"} /\ Src("next", src.at + 1, 0)
     \/ Hears("err") /\ src.pc = "start" /\ Src("next", 1, 1)
     \/ Hears("err") /\ src.pc \in {"T", "C", "D"} /\ Src("next", Skip(src.at), 1)
     \/ Hears("err") /\ src.pc \in {"E", "end"} /\ Src("next", src.at + 1, 1)

STimed ==
  /\ src.pc = "T" /\ Hears("ok") /\ OnlySource /\ UNCHANGED faults
  /\ Src(Item.k, src.at, 0) /\ Sends(<<Item>>)

SSent ==
  /\ src.pc = "C" /\ Hears("ok") /\ OnlySource
  /\ Src("end", src.at, 0) /\ UNCHANGED faults /\ Sends(Units(Item, TRUE) \o <<Rec("end", Item.path)>>)

SSpoilt ==
  /\ src.pc = "C" /\ Hears("ok") /\ OnlySource
  /\ Src("end", src.at, 1) /\ Adds({"read"}) /\ "read" \in RcpFaults /\ Sends(Units(Item, FALSE) \o <<ErrRec>>)

SNoBuffer ==
  /\ src.pc = "C" /\ Hears("ok") /\ OnlySource
  /\ Src("next", src.at + 1, 1) /\ Adds({"srcalloc"}) /\ "srcalloc" \in RcpFaults /\ Sends(<<ErrRec>>)

SEnded ==
  /\ src.pc # "exit" /\ OnlySource /\ UNCHANGED <<up, faults>> /\ Src("exit", src.at, 1)
  /\ \/ src.pc = "start" /\ Hears("err")
     \/ SinkGone /\ UNCHANGED down

SourceKinds == SAsk \/ SMissed \/ SDone \/ SMoved \/ STimed \/ SSent \/ SSpoilt \/ SNoBuffer \/ SEnded

KStarted ==
  /\ snk.pc = "start" /\ (opt.dflag => IsDir(Targ)) /\ OnlySink /\ UNCHANGED <<up, disk, faults>>
  /\ Snk("rec", <<Frame(Targ, IsDir(Targ))>>, 0) /\ Says(<<"ok">>)

KGone ==
  /\ Snk("exit", snk.stack, 1) /\ OnlySink /\ UNCHANGED <<disk, faults>>
  /\ \/ snk.pc = "start" /\ UNCHANGED up /\ Says(<<"err">>)
     \/ /\ snk.pc = "rec" /\ Reads /\ Says(<<"err">>) /\ Head(up).k \in {"part", "unit", "garbage", "end"}
     \/ /\ snk.pc = "data" /\ Len(snk.got) < snk.size /\ Says(<<"err">>)
        /\ (up = <<>> /\ SourceGone /\ UNCHANGED up) \/ (Reads /\ Head(up).k = "part")
     \/ /\ snk.pc = "resp" /\ UNCHANGED down
        /\ (up = <<>> /\ SourceGone /\ UNCHANGED up) \/ (Reads /\ Head(up).k \notin {"end", "err"})
     \/ snk.pc # "exit" /\ SourceGone /\ UNCHANGED <<up, down>>

KReturned ==
  /\ snk.pc = "rec" /\ Len(snk.stack) = 1 /\ OnlySink /\ UNCHANGED <<disk, faults>> /\ Snk("exit", snk.stack, 0)
  /\ \/ up = <<>> /\ SourceGone /\ UNCHANGED <<up, down>>
     \/ Reads /\ Head(up).k = "E" /\ Says(<<"ok">>)

Outer == snk.stack[Len(snk.stack) - 1]
Popped == [Front(snk.stack) EXCEPT ![Len(snk.stack) - 1] = [Outer EXCEPT !.setimes = FALSE]]

KBack ==
  /\ snk.pc = "rec" /\ Len(snk.stack) # 1 /\ OnlySink
  /\ \E e \in {0, 1}, answers \in {<<>>, <<"ok">>} :
       /\ IF answers = <<>> THEN up = <<>> /\ SourceGone /\ UNCHANGED up ELSE Reads /\ Head(up).k = "E"
       /\ Snk("rec", Popped, e)
       /\ Says(answers \o IF e = 1 THEN <<"err">> ELSE <<>>)
       /\ IF e = 1 THEN Adds({"dirtimes"}) /\ "dirtimes" \in RcpFaults ELSE Adds({})
       /\ disk' = IF Outer.setimes /\ e = 0 THEN [disk EXCEPT ![Top.targ].time = "source"] ELSE disk

KErr ==
  /\ snk.pc = "rec" /\ Reads /\ Head(up).k = "err" /\ OnlySink /\ UNCHANGED <<down, disk, faults>> /\ Snk("rec", snk.stack, 1)

KTimes ==
  /\ snk.pc = "rec" /\ Reads /\ Head(up).k = "T" /\ OnlySink /\ UNCHANGED <<disk, faults>> /\ Says(<<"ok">>)
  /\ Snk("rec", [snk.stack EXCEPT ![Len(snk.stack)] = [Top EXCEPT !.setimes = TRUE]], 0)

KRefused ==
  /\ snk.pc = "rec" /\ Reads /\ Head(up).k \in {"C", "D"} /\ OnlySink /\ UNCHANGED disk
  /\ Snk("rec", snk.stack, 1) /\ Says(<<"err">>)
  /\ Adds({}) \/ (Adds({"mkdir"}) /\ "mkdir" \in RcpFaults) \/ (Adds({"create"}) /\ "create" \in RcpFaults)

KEntered ==
  LET np == Np(Head(up))
  IN  /\ snk.pc = "rec" /\ Reads /\ Head(up).k = "D" /\ OnlySink /\ UNCHANGED faults /\ Says(<<"ok">>)
      /\ disk[np].kind # "file" /\ disk' = [disk EXCEPT ![np].kind = "dir"]
      /\ Snk("rec", Append(snk.stack, Frame(np, TRUE)), 0)

Opened(np) == disk' = [disk EXCEPT ![np].kind = "file", ![np].time = IF disk[np].kind = "file" THEN @ ELSE "now"]

KCreated ==
  LET np == Np(Head(up))
  IN  /\ snk.pc = "rec" /\ Reads /\ Head(up).k = "C" /\ OnlySink /\ UNCHANGED faults /\ Says(<<"ok">>)
      /\ ~IsDir(np) /\ Opened(np)
      /\ IsSnk(snk') /\ snk'.pc = "data" /\ snk'.stack = snk.stack /\ snk'.np = np /\ snk'.size = Head(up).n
      /\ snk'.got = <<>> /\ snk'.wrerr = snk.wrerr /\ snk'.errs = snk.errs

KNoBuffer ==
  LET np == Np(Head(up))
  IN  /\ snk.pc = "rec" /\ Reads /\ Head(up).k = "C" /\ OnlySink /\ Says(<<"ok", "err">>)
      /\ ~IsDir(np) /\ Opened(np) /\ Snk("rec", snk.stack, 1) /\ Adds({"sinkalloc"}) /\ "sinkalloc" \in RcpFaults

KUnit ==
  /\ snk.pc = "data" /\ Len(snk.got) < snk.size /\ Reads /\ Head(up).k # "part" /\ OnlySink
  /\ UNCHANGED <<down, disk, faults>>
  /\ IsSnk(snk') /\ snk'.pc = "data" /\ snk'.stack = snk.stack /\ snk'.np = snk.np /\ snk'.size = snk.size
  /\ snk'.got = Append(snk.got, IF Head(up).k = "unit" THEN Head(up) ELSE Garbage)
  /\ snk'.wrerr = snk.wrerr /\ snk'.errs = snk.errs

Body(bad) == IF "write" \in bad THEN disk[snk.np].data ELSE Over(disk[snk.np].data, snk.got)
KWritten ==
  /\ snk.pc = "data" /\ Len(snk.got) = snk.size /\ OnlySink /\ UNCHANGED up
  /\ \E bad \in SUBSET ({"write", "truncate", "chmod"} \cap RcpFaults), n \in 0 .. 2 :
       /\ n = Cardinality(bad \cap {"truncate", "chmod"})
       /\ Adds(bad) /\ Says([i \in 1 .. n |-> "err"])
       /\ disk' = [disk EXCEPT ![snk.np] = [kind |-> "file", time |-> "now",
                     data |-> IF "truncate" \in bad THEN Body(bad)
                              ELSE SubSeq(Body(bad), 1, IF Len(Body(bad)) < snk.size THEN Len(Body(bad)) ELSE snk.size)]]
       /\ IsSnk(snk') /\ snk'.pc = "resp" /\ snk'.stack = snk.stack /\ snk'.np = snk.np /\ snk'.size = snk.size
       /\ snk'.got = snk.got /\ snk'.errs = snk.errs + n
       /\ snk'.wrerr = IF "truncate" \in bad THEN "displayed" ELSE IF "write" \in bad THEN "yes" ELSE "no"

KAnswered ==
  /\ snk.pc = "resp" /\ Reads /\ Head(up).k \in {"end", "err"} /\ OnlySink
  /\ \E bad \in BOOLEAN, stack \in {snk.stack, [snk.stack EXCEPT ![Len(snk.stack)] = [Top EXCEPT !.setimes = FALSE]]}, e \in 0 .. 2 :
       LET timed == Top.setimes /\ snk.wrerr = "no"
       IN  /\ bad => timed /\ "times" \in RcpFaults
           /\ IF bad THEN Adds({"times"}) ELSE Adds({})
           /\ e = (IF Head(up).k = "err" THEN 1 ELSE 0) + (IF bad \/ snk.wrerr = "yes" THEN 1 ELSE 0)
           /\ Snk("rec", stack, e)
           /\ Says(IF bad THEN <<"err">> ELSE Said(snk.wrerr))
           /\ disk' = IF timed /\ ~bad THEN [disk EXCEPT ![snk.np].time = "source"] ELSE disk

SinkKinds ==
  \/ KStarted \/ KGone \/ KReturned \/ KBack \/ KErr \/ KTimes \/ KRefused \/ KEntered \/ KCreated \/ KNoBuffer
  \/ KUnit \/ KWritten \/ KAnswered

KCut ==
  /\ ~cut /\ cut' = TRUE /\ UNCHANGED <<opt, src, snk, disk>> /\ Adds({"cut"}) /\ "cut" \in RcpFaults
  /\ \E i \in 0 .. Len(up), part \in BOOLEAN :
       up' = SubSeq(up, 1, i) \o IF part /\ i < Len(up) THEN <<Part>> ELSE <<>>
  /\ \E j \in 0 .. Len(down) : down' = SubSeq(down, 1, j)

Kinds == SourceKinds \/ SinkKinds \/ KCut


----------------------------------------------------------------------------
(* The argument list, and what is sent of it.                               *)
LEMMA PlanFacts ==
  ASSUME RcpTypes
  PROVE  /\ GoodPlan(Plan) /\ Len(Plan) \in Nat /\ DOMAIN Plan = 1 .. Len(Plan)
         /\ \A i \in DOMAIN Plan : /\ Plan[i] \in Tokens /\ Plan[i].k \in {"C", "D", "E"} /\ Plan[i].n \in Nat
                                   /\ Plan[i].path \in Paths /\ Plan[i].path # Targ
  <1>1. Plan \in Plans
    BY DEF RcpTypes, Types, Plan
  <1>2. GoodPlan(Plan)
    BY <1>1, RcpAssumption
  <1>3. Plan \in Seq([k : {"C", "D", "E"}, path : Paths \ {Targ}, n : Nat, arg : BOOLEAN])
    BY <1>2 DEF GoodPlan
  <1>4. Len(Plan) \in Nat /\ DOMAIN Plan = 1 .. Len(Plan)
    BY <1>3
  <1>5. \A i \in DOMAIN Plan : Plan[i] \in [k : {"C", "D", "E"}, path : Paths \ {Targ}, n : Nat, arg : BOOLEAN]
    BY <1>3, <1>4, ElementOfSeq
  <1>6. ASSUME NEW i \in DOMAIN Plan
        PROVE  /\ Plan[i] \in Tokens /\ Plan[i].k \in {"C", "D", "E"} /\ Plan[i].n \in Nat
               /\ Plan[i].path \in Paths /\ Plan[i].path # Targ
    <2>1. Plan[i].n \in Sizes
      BY DEF RcpTypes, FilesFit
    <2> QED BY <1>5, <2>1 DEF Tokens
  <1> QED BY <1>2, <1>4, <1>6

\* In how many directories the items of a well nested list are.
LEMMA DepthFacts ==
  ASSUME RcpTypes
  PROVE  Depth(Plan) \in [1 .. Len(Plan) + 1 -> 0 .. Len(Plan)] /\ Nesting(Plan, Depth(Plan))
  <1>1. \E depth \in [1 .. Len(Plan) + 1 -> 0 .. Len(Plan)] : Nesting(Plan, depth)
    BY PlanFacts DEF GoodPlan
  <1> QED BY <1>1 DEF Depth

\* How deep the source is, and how the next item changes that.
LEMMA LevelFacts ==
  ASSUME RcpTypes
  PROVE  /\ Depth(Plan)[1] = 0
         /\ \A i \in 1 .. Len(Plan) + 1 : Depth(Plan)[i] \in Nat
         /\ \A i \in DOMAIN Plan :
              /\ i + 1 \in 1 .. Len(Plan) + 1
              /\ Plan[i].k = "D" => Depth(Plan)[i + 1] = Depth(Plan)[i] + 1
              /\ Plan[i].k = "E" => Depth(Plan)[i] = Depth(Plan)[i + 1] + 1
              /\ Plan[i].k = "C" => Depth(Plan)[i + 1] = Depth(Plan)[i]
              /\ Plan[i].k # "E" => (Plan[i].arg <=> Depth(Plan)[i] = 0)
  <1>1. PICK depth : depth = Depth(Plan)
    OBVIOUS
  <1>2. depth \in [1 .. Len(Plan) + 1 -> 0 .. Len(Plan)] /\ Nesting(Plan, depth)
    BY <1>1, DepthFacts
  <1>3. Len(Plan) \in Nat /\ DOMAIN Plan = 1 .. Len(Plan)
    BY PlanFacts
  <1>4. \A i \in 1 .. Len(Plan) + 1 : depth[i] \in Nat
    BY <1>2, <1>3
  <1>5. \A i \in DOMAIN Plan : i + 1 \in 1 .. Len(Plan) + 1 /\ i \in 1 .. Len(Plan) + 1
    BY <1>3
  <1>6. ASSUME NEW i \in DOMAIN Plan
        PROVE  /\ Plan[i].k = "D" => depth[i + 1] = depth[i] + 1
               /\ Plan[i].k = "E" => depth[i] = depth[i + 1] + 1
               /\ Plan[i].k = "C" => depth[i + 1] = depth[i]
               /\ Plan[i].k # "E" => (Plan[i].arg <=> depth[i] = 0)
    <2>1. depth[i + 1] = depth[i] + (CASE Plan[i].k = "D" -> 1 [] Plan[i].k = "E" -> -1 [] Plan[i].k = "C" -> 0)
      BY <1>2 DEF Nesting
    <2>2. depth[i] \in Nat /\ depth[i + 1] \in Nat
      BY <1>4, <1>5
    <2>3. Plan[i].k # "E" => (Plan[i].arg <=> depth[i] = 0)
      BY <1>2, Zenon DEF Nesting
    <2> QED BY <2>1, <2>2, <2>3
  <1> QED BY <1>1, <1>2, <1>4, <1>5, <1>6 DEF Nesting

\* A directory that is not entered is skipped to its end, at the same depth.
LEMMA SkipFacts ==
  ASSUME RcpTypes, src.at <= Len(Plan)
  PROVE  Skip(src.at) \in 1 .. Len(Plan) + 1
  <1>1. src.at \in DOMAIN Plan /\ Len(Plan) \in Nat /\ DOMAIN Plan = 1 .. Len(Plan)
    BY PlanFacts DEF RcpTypes, Types
  <1>2. CASE Item.k = "D"
    <2>1. PICK i \in src.at + 1 .. Len(Plan) : Plan[i].k = "E" /\ Plan[i].path = Plan[src.at].path
      BY <1>1, <1>2, PlanFacts DEF GoodPlan, Item
    <2>2. i + 1 \in src.at + 1 .. Len(Plan) + 1 /\ (i + 1) - 1 = i
      BY <1>1
    <2>3. AfterDir(src.at) \in src.at + 1 .. Len(Plan) + 1
      BY <2>1, <2>2 DEF AfterDir
    <2> QED BY <1>1, <1>2, <2>3 DEF Skip, Item
  <1>3. CASE Item.k # "D"
    BY <1>1, <1>3 DEF Skip, Item
  <1> QED BY <1>2, <1>3

\* What the source sends besides the items of its list.
LEMMA SentTokens ==
  /\ ErrRec \in Tokens /\ Part \in Tokens /\ Garbage \in Tokens
  /\ \A p \in Paths : Rec("T", p) \in Tokens /\ Rec("end", p) \in Tokens
  /\ \A p \in Paths, i \in Sizes : Unit(p, i) \in Tokens
  <1>1. 0 \in Sizes
    BY RcpAssumption DEF Sizes
  <1> QED BY <1>1 DEF ErrRec, Part, Garbage, Rec, Unit, Tokens, Paths

\* A file is sent as so many units as its record said.
LEMMA UnitsFacts ==
  ASSUME RcpTypes, src.at <= Len(Plan), NEW good \in BOOLEAN
  PROVE  /\ Units(Item, good) \in Seq(Tokens) /\ Len(Units(Item, good)) = Item.n /\ Item.n \in Nat
         /\ \A i \in 1 .. Item.n : Units(Item, good)[i] = IF good \/ i = 1 THEN Unit(Item.path, i) ELSE Garbage
  <1>1. Item.n \in Nat /\ Item.path \in Paths
    BY PlanFacts DEF RcpTypes, Types, Item
  <1>3. 1 .. Item.n \subseteq Sizes
    <2>1. Item \in Tokens
      BY PlanFacts DEF RcpTypes, Types, Item
    <2>2. Item.n \in 0 .. IntMax
      BY <2>1 DEF Tokens, Sizes
    <2> QED BY <2>2, RcpAssumption DEF Sizes
  <1>2. \A i \in 1 .. Item.n : (IF good \/ i = 1 THEN Unit(Item.path, i) ELSE Garbage) \in Tokens
    BY <1>1, <1>3, SentTokens
  <1> QED BY <1>1, <1>2 DEF Units

(* Sequences.                                                               *)
LEMMA Sent ==
  ASSUME NEW s \in Seq(Tokens), NEW t \in Seq(Tokens), NEW r, r = s \o (IF cut THEN <<>> ELSE t)
  PROVE  /\ r \in Seq(Tokens)
         /\ cut => r = s
         /\ ~cut => /\ Len(r) = Len(s) + Len(t)
                    /\ \A i \in DOMAIN s : r[i] = s[i]
                    /\ \A i \in DOMAIN t : r[Len(s) + i] = t[i]
                    /\ s = <<>> => r = t
  <1>1. CASE cut
    BY <1>1
  <1>2. CASE ~cut
    BY <1>2
  <1> QED BY <1>1, <1>2

\* The answers on their way after some were given.
LEMMA Said1 ==
  ASSUME NEW s \in Seq(Answers), NEW t \in Seq(Answers), NEW r, r = s \o (IF cut THEN <<>> ELSE t)
  PROVE  /\ r \in Seq(Answers)
         /\ cut => r = s
         /\ ~cut => /\ Len(r) = Len(s) + Len(t)
                    /\ \A i \in DOMAIN s : r[i] = s[i]
                    /\ \A i \in DOMAIN t : r[Len(s) + i] = t[i]
                    /\ s = <<>> => r = t
                    /\ s # <<>> => r # <<>> /\ Head(r) = Head(s)
                    /\ t = <<>> => r = s
  <1>1. CASE cut
    BY <1>1
  <1>2. CASE ~cut
    BY <1>2
  <1> QED BY <1>1, <1>2

\* The rest of a sequence, and a sequence with an element replaced.
LEMMA TailFacts ==
  ASSUME NEW S, NEW s \in Seq(S), s # <<>>
  PROVE  /\ Tail(s) \in Seq(S) /\ Len(Tail(s)) = Len(s) - 1 /\ Len(s) \in Nat \ {0}
         /\ Head(s) \in S /\ Head(s) = s[1] /\ 1 \in DOMAIN s
         /\ \A i \in DOMAIN Tail(s) : i + 1 \in DOMAIN s /\ Tail(s)[i] = s[i + 1]
  OBVIOUS

LEMMA Replaced ==
  ASSUME NEW S, NEW s \in Seq(S), s # <<>>, NEW f \in S, NEW r, r = [s EXCEPT ![Len(s)] = f]
  PROVE  /\ r \in Seq(S) /\ Len(r) = Len(s) /\ Len(s) \in DOMAIN s /\ r[Len(s)] = f
         /\ \A i \in DOMAIN s : i # Len(s) => r[i] = s[i]
  OBVIOUS

LEMMA FrontFacts ==
  ASSUME NEW S, NEW s \in Seq(S), s # <<>>
  PROVE  /\ Front(s) \in Seq(S) /\ Len(Front(s)) = Len(s) - 1 /\ Len(s) \in Nat \ {0}
         /\ \A i \in 1 .. Len(s) - 1 : Front(s)[i] = s[i] /\ i \in DOMAIN s
  <1>1. Len(s) \in Nat \ {0} /\ \A i \in 1 .. Len(s) : s[i] \in S
    OBVIOUS
  <1>2. Front(s) = [i \in 1 .. Len(s) - 1 |-> s[i]]
    BY <1>1 DEF Front
  <1> QED BY <1>1, <1>2

----------------------------------------------------------------------------
(* Every step is one of the kinds.                                          *)
IsSrc(x) == x = [pc |-> x.pc, at |-> x.at, errs |-> x.errs]

\* The updates of src, as whole records.
LEMMA SrcEdits ==
  ASSUME NEW x, IsSrc(x), NEW pc, NEW at
  PROVE  /\ [x EXCEPT !.pc = pc] = [pc |-> pc, at |-> x.at, errs |-> x.errs]
         /\ [x EXCEPT !.at = at] = [pc |-> x.pc, at |-> at, errs |-> x.errs]
         /\ [x EXCEPT !.pc = pc, !.at = at] = [pc |-> pc, at |-> at, errs |-> x.errs]
  <1>1. [x EXCEPT !.pc = pc] = [pc |-> pc, at |-> x.at, errs |-> x.errs]
    BY DEF IsSrc
  <1>2. [x EXCEPT !.at = at] = [pc |-> x.pc, at |-> at, errs |-> x.errs]
    BY DEF IsSrc
  <1>3. PICK y : y = [x EXCEPT !.pc = pc]
    OBVIOUS
  <1>4. y = [pc |-> pc, at |-> x.at, errs |-> x.errs]
    BY <1>1, <1>3
  <1>5. [y EXCEPT !.at = at] = [pc |-> pc, at |-> at, errs |-> x.errs]
    BY <1>4
  <1> QED BY <1>1, <1>2, <1>3, <1>5

LEMMA SourceIs ==
  ASSUME RcpTypes
  PROVE  /\ src = [pc |-> src.pc, at |-> src.at, errs |-> src.errs] /\ src.errs \in Nat /\ src.at \in Nat
         /\ src.errs + 0 = src.errs
         /\ \A pc : [src EXCEPT !.pc = pc] = [pc |-> pc, at |-> src.at, errs |-> src.errs]
         /\ \A pc : [run_err(src) EXCEPT !.pc = pc] = [pc |-> pc, at |-> src.at, errs |-> src.errs + 1]
         /\ \A at : NextItem(src, at) = [pc |-> "next", at |-> at, errs |-> src.errs]
         /\ \A at : NextItem(run_err(src), at) = [pc |-> "next", at |-> at, errs |-> src.errs + 1]
         /\ \A at : [run_err(src) EXCEPT !.at = at] = [pc |-> src.pc, at |-> at, errs |-> src.errs + 1]
         /\ \A at, pc : [run_err(src) EXCEPT !.pc = pc, !.at = at] = [pc |-> pc, at |-> at, errs |-> src.errs + 1]
         /\ run_err(src).at = src.at
  <1>1. src = [pc |-> src.pc, at |-> src.at, errs |-> src.errs] /\ src.errs \in Nat /\ src.at \in Nat
    BY PlanFacts DEF RcpTypes, Types
  <1>2. src.errs + 0 = src.errs
    BY <1>1
  <1>3. IsSrc(src)
    BY <1>1 DEF IsSrc
  <1>4. run_err(src) = [pc |-> src.pc, at |-> src.at, errs |-> src.errs + 1]
    BY <1>1 DEF run_err
  <1>5. IsSrc(run_err(src)) /\ run_err(src).pc = src.pc /\ run_err(src).at = src.at /\ run_err(src).errs = src.errs + 1
    BY <1>4 DEF IsSrc
  <1>6. ASSUME NEW pc, NEW at
        PROVE  /\ [src EXCEPT !.pc = pc] = [pc |-> pc, at |-> src.at, errs |-> src.errs]
               /\ NextItem(src, at) = [pc |-> "next", at |-> at, errs |-> src.errs]
    BY <1>3, SrcEdits, Zenon DEF NextItem
  <1>7. ASSUME NEW pc, NEW at
        PROVE  /\ [run_err(src) EXCEPT !.pc = pc] = [pc |-> pc, at |-> run_err(src).at, errs |-> run_err(src).errs]
               /\ NextItem(run_err(src), at) = [pc |-> "next", at |-> at, errs |-> run_err(src).errs]
               /\ [run_err(src) EXCEPT !.at = at] = [pc |-> run_err(src).pc, at |-> at, errs |-> run_err(src).errs]
               /\ [run_err(src) EXCEPT !.pc = pc, !.at = at] = [pc |-> pc, at |-> at, errs |-> run_err(src).errs]
    BY <1>5, SrcEdits, Zenon DEF NextItem
  <1> HIDE DEF run_err
  <1>8. ASSUME NEW pc, NEW at
        PROVE  /\ [run_err(src) EXCEPT !.pc = pc] = [pc |-> pc, at |-> src.at, errs |-> src.errs + 1]
               /\ NextItem(run_err(src), at) = [pc |-> "next", at |-> at, errs |-> src.errs + 1]
               /\ [run_err(src) EXCEPT !.at = at] = [pc |-> src.pc, at |-> at, errs |-> src.errs + 1]
               /\ [run_err(src) EXCEPT !.pc = pc, !.at = at] = [pc |-> pc, at |-> at, errs |-> src.errs + 1]
    BY <1>5, <1>7, Zenon
  <1> QED BY <1>1, <1>2, <1>5, <1>6, <1>8, Zenon

LEMMA NothingSent ==
  ASSUME RcpTypes
  PROVE  up \o (IF cut THEN <<>> ELSE <<>>) = up /\ down \o (IF cut THEN <<>> ELSE <<>>) = down
  BY DEF RcpTypes, Types

\* Each action of the source is one of the forms.
LEMMA SourceItemKinds ==
  ASSUME RcpTypes, SourceItem
  PROVE  SAsk \/ SMissed
  <1>1. Item.k \in {"C", "D", "E"}
    BY PlanFacts DEF SourceItem, RcpTypes, Types, Item
  <1>2. CASE Item.k = "E" /\ SrcGo([src EXCEPT !.pc = "E"], <<Item>>) /\ UNCHANGED faults
    BY <1>2, SourceIs, NothingSent DEF SourceItem, SAsk, SrcGo, SrcStep, Src, Sends, OnlySource, AskFor, Asks
  <1>3. CASE /\ \/ Item.k = "D" /\ ~opt.iamrecursive /\ UNCHANGED faults
                \/ Item.k \in {"C", "D"} /\ Fails("open") /\ Noted({"open"})
             /\ SrcGo([run_err(src) EXCEPT !.at = Skip(@)], <<ErrRec>>)
    BY <1>3, SourceIs, NothingSent DEF SourceItem, SMissed, SrcGo, SrcStep, Src, Sends, OnlySource, run_err, Fails, Noted, Adds
  <1>4. CASE /\ Item.k = "C" \/ (Item.k = "D" /\ opt.iamrecursive)
             /\ IF opt.pflag THEN SrcGo([src EXCEPT !.pc = "T"], <<Rec("T", Item.path)>>)
                             ELSE SrcGo([src EXCEPT !.pc = Item.k], <<Item>>)
             /\ UNCHANGED faults
    <2>1. CASE opt.pflag
      BY <1>4, <2>1, SourceIs, NothingSent DEF SourceItem, SAsk, SrcGo, SrcStep, Src, Sends, OnlySource, AskFor, Asks
    <2>2. CASE ~opt.pflag
      BY <1>1, <1>4, <2>2, SourceIs, NothingSent DEF SourceItem, SAsk, SrcGo, SrcStep, Src, Sends, OnlySource, AskFor, Asks
    <2> QED BY <2>1, <2>2
  <1> QED BY <1>2, <1>3, <1>4, SourceIs, NothingSent DEF SourceItem

\* The body of a file: sent, spoilt by a read error, or no buffer.
LEMMA SendFileKinds ==
  ASSUME RcpTypes, src.pc = "C", Hears("ok"), SendFile
  PROVE  SSent \/ SSpoilt \/ SNoBuffer
  <1>1. CASE \E bad \in MayFail("read") :
               /\ SrcGo([(IF bad THEN run_err(src) ELSE src) EXCEPT !.pc = "end"],
                        Units(Item, ~bad) \o <<IF bad THEN ErrRec ELSE Rec("end", Item.path)>>)
               /\ Noted(IF bad THEN {"read"} ELSE {})
    <2>1. PICK bad \in MayFail("read") :
            /\ SrcGo([(IF bad THEN run_err(src) ELSE src) EXCEPT !.pc = "end"],
                     Units(Item, ~bad) \o <<IF bad THEN ErrRec ELSE Rec("end", Item.path)>>)
            /\ Noted(IF bad THEN {"read"} ELSE {})
      BY <1>1
    <2>2. CASE bad = TRUE
      <3>1. SrcGo([run_err(src) EXCEPT !.pc = "end"], Units(Item, FALSE) \o <<ErrRec>>) /\ Noted({"read"})
        BY <2>1, <2>2
      <3>2. "read" \in RcpFaults
        BY <2>2 DEF MayFail, Fails
      <3> QED BY <3>1, <3>2, SourceIs, NothingSent DEF SSpoilt, SrcGo, SrcStep, Src, Sends, OnlySource, run_err, Noted, Adds
    <2>3. CASE bad = FALSE
      <3>1. SrcGo([src EXCEPT !.pc = "end"], Units(Item, TRUE) \o <<Rec("end", Item.path)>>) /\ Noted({})
        BY <2>1, <2>3
      <3> QED BY <3>1, SourceIs, NothingSent DEF SSent, SrcGo, SrcStep, Src, Sends, OnlySource, Noted
    <2> QED BY <2>2, <2>3 DEF MayFail
  <1>2. CASE Fails("srcalloc") /\ SrcGo([run_err(src) EXCEPT !.pc = "next", !.at = @ + 1], <<ErrRec>>) /\ Noted({"srcalloc"})
    BY <1>2, SourceIs, NothingSent DEF SNoBuffer, SrcGo, SrcStep, Src, Sends, OnlySource, run_err, Fails, Noted, Adds
  <1> QED BY <1>1, <1>2 DEF SendFile

\* What response() makes of an answer.
LEMMA ResponseKinds ==
  ASSUME RcpTypes, SourceResponse
  PROVE  SMoved \/ STimed \/ SSent \/ SSpoilt \/ SNoBuffer \/ SEnded
  <1>1. CASE down = <<>>
    BY <1>1, SourceIs, NothingSent DEF SourceResponse, Waiting, SEnded, SrcGo, SrcStep, Src, OnlySource, Exit1, run_err
  <1>2. CASE down # <<>> /\ Head(down) = "ok"
    <2>1. Hears("ok") /\ SourceOk
      BY <1>2 DEF SourceResponse, Hears
    <2>2. CASE src.pc = "C" /\ SendFile
      BY <2>1, <2>2, SendFileKinds
    <2>3. CASE src.pc = "start" /\ SrcGo(NextItem(src, 1), <<>>) /\ UNCHANGED faults
      BY <2>1, <2>3, SourceIs, NothingSent DEF SMoved, SrcGo, SrcStep, Src, OnlySource, NextItem
    <2>4. CASE src.pc = "T" /\ SrcGo([src EXCEPT !.pc = Item.k], <<Item>>) /\ UNCHANGED faults
      BY <2>1, <2>4, SourceIs, NothingSent DEF STimed, SrcGo, SrcStep, Src, Sends, OnlySource
    <2>5. CASE src.pc \in {"D", "E", "end"} /\ SrcGo(NextItem(src, src.at + 1), <<>>) /\ UNCHANGED faults
      BY <2>1, <2>5, SourceIs, NothingSent DEF SMoved, SrcGo, SrcStep, Src, OnlySource, NextItem
    <2> QED BY <2>1, <2>2, <2>3, <2>4, <2>5 DEF SourceOk
  <1>3. CASE down # <<>> /\ Head(down) # "ok"
    <2>1. Head(down) = "err"
      BY <1>3, TailFacts DEF RcpTypes, Types, Answers
    <2>2. Hears("err") /\ SourceErr
      BY <1>3, <2>1 DEF SourceResponse, Hears
    <2>3. CASE src.pc = "start" /\ IF opt.local = "source" THEN SrcGo(Exit1(src), <<>>) ELSE SrcGo(NextItem(run_err(src), 1), <<>>)
      <3>1. CASE opt.local = "source"
        BY <2>2, <2>3, <3>1, SourceIs, NothingSent DEF SourceErr, SEnded, SrcGo, SrcStep, Src, OnlySource, Exit1, run_err
      <3>2. CASE opt.local # "source"
        BY <2>2, <2>3, <3>2, SourceIs, NothingSent DEF SourceErr, SMoved, SrcGo, SrcStep, Src, OnlySource, NextItem, run_err
      <3> QED BY <3>1, <3>2
    <2>4. CASE src.pc \in {"T", "C", "D"} /\ SrcGo(NextItem(run_err(src), Skip(src.at)), <<>>)
      BY <2>2, <2>4, SourceIs, NothingSent DEF SourceErr, SMoved, SrcGo, SrcStep, Src, OnlySource, NextItem, run_err
    <2>5. CASE src.pc \in {"E", "end"} /\ SrcGo(NextItem(run_err(src), src.at + 1), <<>>)
      BY <2>2, <2>5, SourceIs, NothingSent DEF SourceErr, SMoved, SrcGo, SrcStep, Src, OnlySource, NextItem, run_err
    <2> QED BY <2>2, <2>3, <2>4, <2>5 DEF SourceErr
  <1> QED BY <1>1, <1>2, <1>3

LEMMA DoneKind ==
  ASSUME RcpTypes, SourceDone
  PROVE  SDone
  BY SourceIs, NothingSent DEF SourceDone, SDone, SrcExit, SrcGo, SrcStep, Src, OnlySource

(* The sink's record.                                                       *)
LEMMA SnkEdits ==
  ASSUME NEW x, IsSnk(x), NEW v
  PROVE  /\ Kept(x, [x EXCEPT !.pc = v]) /\ [x EXCEPT !.pc = v].pc = v /\ [x EXCEPT !.pc = v].stack = x.stack
         /\ [x EXCEPT !.pc = v].errs = x.errs
         /\ Kept(x, [x EXCEPT !.stack = v]) /\ [x EXCEPT !.stack = v].stack = v /\ [x EXCEPT !.stack = v].pc = x.pc
         /\ [x EXCEPT !.stack = v].errs = x.errs
         /\ Kept(x, [x EXCEPT !.errs = v]) /\ [x EXCEPT !.errs = v].errs = v /\ [x EXCEPT !.errs = v].pc = x.pc
         /\ [x EXCEPT !.errs = v].stack = x.stack
  <1>1. PICK y : y = [x EXCEPT !.pc = v]
    OBVIOUS
  <1>2. IsSnk(y) /\ y.pc = v /\ y.stack = x.stack /\ y.np = x.np /\ y.size = x.size /\ y.got = x.got /\ y.wrerr = x.wrerr /\ y.errs = x.errs
    BY <1>1 DEF IsSnk
  <1>3. PICK z : z = [x EXCEPT !.stack = v]
    OBVIOUS
  <1>4. IsSnk(z) /\ z.pc = x.pc /\ z.stack = v /\ z.np = x.np /\ z.size = x.size /\ z.got = x.got /\ z.wrerr = x.wrerr /\ z.errs = x.errs
    BY <1>3 DEF IsSnk
  <1>5. PICK w : w = [x EXCEPT !.errs = v]
    OBVIOUS
  <1>6. IsSnk(w) /\ w.pc = x.pc /\ w.stack = x.stack /\ w.np = x.np /\ w.size = x.size /\ w.got = x.got /\ w.wrerr = x.wrerr /\ w.errs = v
    BY <1>5 DEF IsSnk
  <1> QED BY <1>1, <1>2, <1>3, <1>4, <1>5, <1>6 DEF Kept

LEMMA SinkIs ==
  ASSUME RcpTypes
  PROVE  /\ IsSnk(snk) /\ snk.errs \in Nat /\ snk.errs + 0 = snk.errs
         /\ snk.stack \in Seq(Frames) /\ Len(snk.stack) \in Nat /\ snk.np \in Paths /\ snk.size \in Nat
         /\ snk.got \in Seq(Tokens) /\ Len(snk.got) \in Nat
         /\ snk.pc \in {"rec", "data", "resp"} => snk.stack # <<>> /\ Len(snk.stack) > 0 /\ Top \in Frames
  <1>1. PICK x : x = snk
    OBVIOUS
  <1>2. x \in [pc : {"start", "rec", "data", "resp", "exit"}, stack : Seq(Frames), np : Paths, size : Nat,
              got : Seq(Tokens), wrerr : {"yes", "no", "displayed"}, errs : Nat]
    BY <1>1 DEF RcpTypes, Types
  <1>3. IsSnk(x) /\ x.errs \in Nat /\ x.stack \in Seq(Frames) /\ x.np \in Paths /\ x.size \in Nat /\ x.got \in Seq(Tokens)
    BY <1>2 DEF IsSnk
  <1>4. Len(x.stack) \in Nat /\ Len(x.got) \in Nat /\ x.errs + 0 = x.errs
    BY <1>3
  <1>5. ASSUME x.pc \in {"rec", "data", "resp"} PROVE x.stack # <<>> /\ Len(x.stack) > 0 /\ x.stack[Len(x.stack)] \in Frames
    <2>1. x.stack # <<>>
      BY <1>1, <1>5 DEF RcpTypes, SinkAt
    <2> QED BY <1>3, <1>4, <2>1
  <1> QED BY <1>1, <1>3, <1>4, <1>5 DEF Top

LEMMA SinkForms ==
  ASSUME NEW x, IsSnk(x)
  PROVE  /\ Kept(x, run_err(x)) /\ run_err(x).pc = x.pc /\ run_err(x).stack = x.stack /\ run_err(x).errs = x.errs + 1
         /\ Kept(x, Exit1(x)) /\ Exit1(x).pc = "exit" /\ Exit1(x).stack = x.stack /\ Exit1(x).errs = x.errs + 1
         /\ \A f : /\ Kept(x, SetTop(x, f)) /\ SetTop(x, f).pc = x.pc /\ SetTop(x, f).errs = x.errs
                   /\ SetTop(x, f).stack = [x.stack EXCEPT ![Len(x.stack)] = f]
  <1>1. PICK y : y = run_err(x)
    OBVIOUS
  <1>2. y = [x EXCEPT !.errs = x.errs + 1]
    BY <1>1 DEF run_err
  <1>3. Kept(x, y) /\ y.pc = x.pc /\ y.stack = x.stack /\ y.errs = x.errs + 1
    BY <1>2, SnkEdits
  <1>4. PICK z : z = Exit1(x)
    OBVIOUS
  <1>5. z = [y EXCEPT !.pc = "exit"]
    BY <1>1, <1>4 DEF Exit1
  <1>6. IsSnk(y)
    BY <1>3 DEF Kept
  <1>7. Kept(y, z) /\ z.pc = "exit" /\ z.stack = y.stack /\ z.errs = y.errs
    BY <1>5, <1>6, SnkEdits
  <1>8. Kept(x, z)
    BY <1>3, <1>7 DEF Kept
  <1>9. ASSUME NEW f
        PROVE  /\ Kept(x, SetTop(x, f)) /\ SetTop(x, f).pc = x.pc /\ SetTop(x, f).errs = x.errs
               /\ SetTop(x, f).stack = [x.stack EXCEPT ![Len(x.stack)] = f]
    <2>1. PICK s : s = [x.stack EXCEPT ![Len(x.stack)] = f]
      OBVIOUS
    <2>2. PICK t : t = SetTop(x, f)
      OBVIOUS
    <2>3. t = [x EXCEPT !.stack = s]
      BY <2>1, <2>2 DEF SetTop
    <2>4. Kept(x, t) /\ t.pc = x.pc /\ t.errs = x.errs /\ t.stack = s
      BY <2>3, SnkEdits
    <2> QED BY <2>1, <2>2, <2>4
  <1> QED BY <1>1, <1>3, <1>4, <1>7, <1>8, <1>9

\* Each action of the sink is one of the forms.
LEMMA StartKinds ==
  ASSUME RcpTypes, SinkStart
  PROVE  KStarted \/ KGone
  <1>1. CASE opt.dflag /\ ~IsDir(Targ)
    <2>1. snk' = Exit1(snk) /\ Says(<<"err">>) /\ OnlySink
      BY <1>1 DEF SinkStart, SnkGo, SnkStep, Says, OnlySink
    <2>2. Snk("exit", snk.stack, 1)
      BY <2>1, SinkIs, SinkForms DEF Snk
    <2> QED BY <2>1, <2>2 DEF SinkStart, KGone
  <1>2. CASE ~(opt.dflag /\ ~IsDir(Targ))
    <2>1. PICK st : st = <<Frame(Targ, IsDir(Targ))>>
      OBVIOUS
    <2>2. snk' = [snk EXCEPT !.pc = "rec", !.stack = st] /\ Says(<<"ok">>) /\ OnlySink
      BY <1>2, <2>1 DEF SinkStart, SnkGo, SnkStep, Says, OnlySink
    <2>3. PICK y : y = [snk EXCEPT !.pc = "rec"]
      OBVIOUS
    <2>4. snk' = [y EXCEPT !.stack = st]
      BY <2>2, <2>3
    <2>5. Kept(snk, y) /\ y.pc = "rec" /\ y.errs = snk.errs
      BY <2>3, SinkIs, SnkEdits
    <2>6. IsSnk(y)
      BY <2>5 DEF Kept
    <2>8. Kept(y, snk') /\ snk'.pc = y.pc /\ snk'.stack = st /\ snk'.errs = y.errs
      BY <2>4, <2>6, SnkEdits
    <2>7. Snk("rec", st, 0)
      BY <2>5, <2>8, SinkIs DEF Snk, Kept
    <2> QED BY <1>2, <2>1, <2>2, <2>7 DEF SinkStart, KStarted
  <1> QED BY <1>1, <1>2

(* What sink returns to, with or without an error. *)
LEMMA ReturnKinds ==
  ASSUME RcpTypes, snk.pc = "rec", NEW answers \in {<<>>, <<"ok">>}, Return(answers),
         IF answers = <<>> THEN up = <<>> /\ SourceGone /\ UNCHANGED up ELSE Reads /\ Head(up).k = "E"
  PROVE  KReturned \/ KBack
  <1>0. IsSnk(snk) /\ snk.errs \in Nat /\ snk.errs + 0 = snk.errs /\ snk.stack \in Seq(Frames) /\ Len(snk.stack) \in Nat \ {0}
    BY SinkIs
  <1>1. CASE Len(snk.stack) = 1
    <2>1. snk' = [snk EXCEPT !.pc = "exit"] /\ Says(answers) /\ OnlySink /\ UNCHANGED <<disk, faults>>
      BY <1>1 DEF Return, SnkExit, SnkStep, Says, OnlySink
    <2>2. Snk("exit", snk.stack, 0)
      BY <2>1, <1>0, SnkEdits DEF Snk
    <2>3. answers = <<>> => down' = down
      BY <2>1, NothingSent DEF Says
    <2>4. answers # <<>> => answers = <<"ok">>
      OBVIOUS
    <2> QED BY <1>1, <2>1, <2>2, <2>3, <2>4 DEF KReturned
  <1>2. CASE Len(snk.stack) # 1
    <2>1. PICK outer : outer = Outer
      OBVIOUS
    <2>2. PICK f : f = [snk EXCEPT !.stack = Front(snk.stack)]
      OBVIOUS
    <2>3. PICK st : st = SetTop(f, [outer EXCEPT !.setimes = FALSE]).stack
      OBVIOUS
    <2>4. PICK back : back = [snk EXCEPT !.stack = st]
      OBVIOUS
    <2>17. Kept(snk, f) /\ f.stack = Front(snk.stack)
      BY <1>0, <2>2, SnkEdits
    <2>5. f.stack = Front(snk.stack) /\ IsSnk(f)
      BY <2>17 DEF Kept
    <2>6. st = [Front(snk.stack) EXCEPT ![Len(Front(snk.stack))] = [outer EXCEPT !.setimes = FALSE]]
      <3>1. PICK o : o = [outer EXCEPT !.setimes = FALSE]
        OBVIOUS
      <3>2. SetTop(f, o).stack = [f.stack EXCEPT ![Len(f.stack)] = o]
        BY <2>5, SinkForms, Zenon
      <3> QED BY <2>3, <2>5, <3>1, <3>2, Zenon
    <2>7. Len(Front(snk.stack)) = Len(snk.stack) - 1
      <3>1. snk.stack \in Seq(Frames) /\ snk.stack # <<>>
        BY <1>0
      <3> QED BY <3>1, FrontFacts
    <2>8. st = Popped
      BY <2>1, <2>6, <2>7 DEF Popped
    <2>18. Kept(snk, back) /\ back.stack = st /\ back.pc = "rec" /\ back.errs = snk.errs
      BY <1>0, <2>4, SnkEdits
    <2>9. Kept(snk, back) /\ back.stack = st /\ back.pc = "rec" /\ back.errs = snk.errs /\ IsSnk(back)
      BY <2>18 DEF Kept
    <2>10. PICK bad \in IF outer.setimes THEN MayFail("dirtimes") ELSE {FALSE} :
             /\ Noted(IF bad THEN {"dirtimes"} ELSE {})
             /\ SnkGo(IF bad THEN run_err(back) ELSE back, answers \o IF bad THEN <<"err">> ELSE <<>>)
             /\ disk' = IF outer.setimes /\ ~bad THEN [disk EXCEPT ![Top.targ].time = "source"] ELSE disk
      BY <1>2, <2>1, <2>2, <2>3, <2>4 DEF Return, Outer
    <2>11. PICK e \in {0, 1} : e = IF bad THEN 1 ELSE 0
      OBVIOUS
    <2>12. OnlySink /\ Says(answers \o IF e = 1 THEN <<"err">> ELSE <<>>)
      BY <2>10, <2>11 DEF SnkGo, SnkStep, OnlySink, Says
    <2>13. Snk("rec", Popped, e)
      <3>1. CASE bad = TRUE
        <4>1. snk' = run_err(back) /\ e = 1
          BY <2>10, <2>11, <3>1 DEF SnkGo, SnkStep
        <4>2. Kept(back, snk') /\ snk'.pc = "rec" /\ snk'.stack = st /\ snk'.errs = snk.errs + 1
          BY <2>9, <4>1, SinkForms
        <4> QED BY <2>8, <2>9, <4>1, <4>2 DEF Snk, Kept
      <3>2. CASE bad = FALSE
        <4>1. snk' = back /\ e = 0
          BY <2>10, <2>11, <3>2 DEF SnkGo, SnkStep
        <4> QED BY <1>0, <2>8, <2>9, <4>1 DEF Snk, Kept
      <3> QED BY <2>10, <3>1, <3>2 DEF MayFail
    <2>14. bad \in BOOLEAN /\ (bad => "dirtimes" \in RcpFaults)
      BY <2>10 DEF MayFail, Fails
    <2>15. IF e = 1 THEN Adds({"dirtimes"}) /\ "dirtimes" \in RcpFaults ELSE Adds({})
      BY <2>10, <2>11, <2>14 DEF Noted, Adds
    <2>16. disk' = IF Outer.setimes /\ e = 0 THEN [disk EXCEPT ![Top.targ].time = "source"] ELSE disk
      BY <2>1, <2>10, <2>11, <2>14
    <2> QED BY <1>2, <2>12, <2>13, <2>15, <2>16 DEF KBack
  <1> QED BY <1>1, <1>2
(* The disjuncts of a record. *)
LEMMA DirKinds ==
  ASSUME RcpTypes, snk.pc = "rec", Reads, Head(up).k = "D", SinkDir(Head(up))
  PROVE  KRefused \/ KEntered
  <1>1. PICK np : np = Np(Head(up))
    OBVIOUS
  <1>2. CASE Refused /\ (UNCHANGED faults \/ (Fails("mkdir") /\ Noted({"mkdir"})))
    <2>1. snk' = run_err(snk) /\ Says(<<"err">>) /\ OnlySink /\ UNCHANGED disk
      BY <1>2 DEF Refused, SnkGo, SnkStep, Says, OnlySink
    <2>2. Snk("rec", snk.stack, 1)
      BY <2>1, SinkIs, SinkForms DEF Snk
    <2>3. Adds({}) \/ (Adds({"mkdir"}) /\ "mkdir" \in RcpFaults)
      BY <1>2 DEF Fails, Noted, Adds
    <2> QED BY <2>1, <2>2, <2>3 DEF KRefused
  <1>3. CASE disk[np].kind # "file" /\ Entered(np) /\ UNCHANGED faults
    <2>1. PICK st : st = Append(snk.stack, Frame(np, TRUE))
      OBVIOUS
    <2>2. snk' = [snk EXCEPT !.stack = st] /\ Says(<<"ok">>) /\ OnlySink /\ disk' = [disk EXCEPT ![np].kind = "dir"]
      BY <1>3, <2>1 DEF Entered, SnkGo, SnkStep, Says, OnlySink
    <2>3. Snk("rec", st, 0)
      BY <2>2, SinkIs, SnkEdits DEF Snk
    <2> QED BY <1>1, <1>3, <2>1, <2>2, <2>3 DEF KEntered
  <1> QED BY <1>1, <1>2, <1>3 DEF SinkDir

\* A record C.
LEMMA FileKinds ==
  ASSUME RcpTypes, snk.pc = "rec", Reads, Head(up).k = "C", SinkFile(Head(up))
  PROVE  KRefused \/ KCreated \/ KNoBuffer
  <1>1. PICK np : np = Np(Head(up))
    OBVIOUS
  <1>2. CASE /\ IsDir(np) \/ Fails("create")
             /\ Noted(IF IsDir(np) THEN {} ELSE {"create"})
             /\ Refused
    <2>1. snk' = run_err(snk) /\ Says(<<"err">>) /\ OnlySink /\ UNCHANGED disk
      BY <1>2 DEF Refused, SnkGo, SnkStep, Says, OnlySink
    <2>2. Snk("rec", snk.stack, 1)
      BY <2>1, SinkIs, SinkForms DEF Snk
    <2>3. Adds({}) \/ (Adds({"create"}) /\ "create" \in RcpFaults)
      BY <1>2 DEF Fails, Noted, Adds
    <2> QED BY <2>1, <2>2, <2>3 DEF KRefused
  <1>3. CASE /\ ~IsDir(np)
             /\ disk' = [disk EXCEPT ![np].kind = "file", ![np].time = IF disk[np].kind = "file" THEN @ ELSE "now"]
             /\ SnkGo([snk EXCEPT !.pc = "data", !.np = np, !.size = Cint(Head(up).n), !.got = <<>>], <<"ok">>) /\ UNCHANGED faults
    <2>1. PICK n : n = Head(up).n /\ n = Cint(Head(up).n)
      <3>1. Head(up).n \in Sizes
        <4>1. up \in Seq(Tokens) /\ up # <<>>
          BY DEF RcpTypes, Types, Reads
        <4>2. Head(up) \in Tokens
          BY <4>1
        <4> QED BY <4>2 DEF Tokens
      <3> QED BY <3>1 DEF Cint
    <2>2. PICK x : x = snk
      OBVIOUS
    <2>3. snk' = [x EXCEPT !.pc = "data", !.np = np, !.size = n, !.got = <<>>] /\ Says(<<"ok">>) /\ OnlySink
      BY <1>3, <2>1, <2>2 DEF SnkGo, SnkStep, Says, OnlySink
    <2>4. IsSnk(x)
      BY <2>2, SinkIs
    <2>5. /\ IsSnk(snk') /\ snk'.pc = "data" /\ snk'.stack = x.stack /\ snk'.np = np /\ snk'.size = n
          /\ snk'.got = <<>> /\ snk'.wrerr = x.wrerr /\ snk'.errs = x.errs
      BY <2>3, <2>4 DEF IsSnk
    <2>6. Opened(np)
      BY <1>3 DEF Opened
    <2> QED BY <1>1, <1>3, <2>1, <2>2, <2>3, <2>5, <2>6 DEF KCreated
  <1>4. CASE /\ ~IsDir(np)
             /\ disk' = [disk EXCEPT ![np].kind = "file", ![np].time = IF disk[np].kind = "file" THEN @ ELSE "now"]
             /\ Fails("sinkalloc") /\ SnkGo(run_err(snk), <<"ok", "err">>) /\ Noted({"sinkalloc"})
    <2>1. snk' = run_err(snk) /\ Says(<<"ok", "err">>) /\ OnlySink
      BY <1>4 DEF SnkGo, SnkStep, Says, OnlySink
    <2>2. Snk("rec", snk.stack, 1)
      BY <2>1, SinkIs, SinkForms DEF Snk
    <2>3. Opened(np) /\ Adds({"sinkalloc"}) /\ "sinkalloc" \in RcpFaults
      BY <1>4 DEF Opened, Fails, Noted, Adds
    <2> QED BY <1>1, <1>4, <2>1, <2>2, <2>3 DEF KNoBuffer
  <1> QED BY <1>1, <1>2, <1>3, <1>4 DEF SinkFile

\* Any record.
LEMMA RecordKinds ==
  ASSUME RcpTypes, SinkRecord
  PROVE  SinkKinds
  <1>0. snk.pc = "rec"
    BY DEF SinkRecord
  <1>1. CASE up = <<>> /\ SourceGone /\ Return(<<>>) /\ UNCHANGED up
    <2>1. KReturned \/ KBack
      BY <1>0, <1>1, ReturnKinds
    <2> QED BY <2>1 DEF SinkKinds
  <1>2. CASE Reads /\ Head(up).k = "E" /\ Return(<<"ok">>)
    <2>1. KReturned \/ KBack
      BY <1>0, <1>2, ReturnKinds
    <2> QED BY <2>1 DEF SinkKinds
  <1>3. CASE Reads /\ Head(up).k = "err" /\ SnkGo(run_err(snk), <<>>) /\ UNCHANGED <<disk, faults>>
    <2>1. snk' = run_err(snk) /\ OnlySink /\ UNCHANGED down
      BY <1>3, NothingSent DEF SnkGo, SnkStep, OnlySink
    <2>2. Snk("rec", snk.stack, 1)
      BY <1>0, <2>1, SinkIs, SinkForms DEF Snk
    <2>3. KErr
      BY <1>0, <1>3, <2>1, <2>2 DEF KErr
    <2> QED BY <2>3 DEF SinkKinds
  <1>4. CASE Reads /\ Head(up).k = "T" /\ SnkGo(SetTop(snk, [Top EXCEPT !.setimes = TRUE]), <<"ok">>) /\ UNCHANGED <<disk, faults>>
    <2>1. PICK f : f = [Top EXCEPT !.setimes = TRUE]
      OBVIOUS
    <2>2. snk' = SetTop(snk, f) /\ OnlySink /\ Says(<<"ok">>)
      BY <1>4, <2>1 DEF SnkGo, SnkStep, OnlySink, Says
    <2>3. IsSnk(snk) /\ snk.errs + 0 = snk.errs
      BY SinkIs
    <2>4. /\ Kept(snk, SetTop(snk, f)) /\ SetTop(snk, f).pc = snk.pc /\ SetTop(snk, f).errs = snk.errs
          /\ SetTop(snk, f).stack = [snk.stack EXCEPT ![Len(snk.stack)] = f]
      BY <2>3, SinkForms, Zenon
    <2>5. Snk("rec", [snk.stack EXCEPT ![Len(snk.stack)] = f], 0)
      BY <1>0, <2>2, <2>3, <2>4 DEF Snk
    <2>6. KTimes
      BY <1>0, <1>4, <2>1, <2>2, <2>5 DEF KTimes
    <2> QED BY <2>6 DEF SinkKinds
  <1>5. CASE Reads /\ Head(up).k = "D" /\ SinkDir(Head(up))
    BY <1>0, <1>5, DirKinds DEF SinkKinds
  <1>6. CASE Reads /\ Head(up).k = "C" /\ SinkFile(Head(up))
    BY <1>0, <1>6, FileKinds DEF SinkKinds
  <1>7. CASE Reads /\ Head(up).k \in {"part", "unit", "garbage", "end"} /\ SnkGo(Exit1(snk), <<"err">>) /\ UNCHANGED <<disk, faults>>
    <2>1. snk' = Exit1(snk) /\ OnlySink /\ Says(<<"err">>)
      BY <1>7 DEF SnkGo, SnkStep, OnlySink, Says
    <2>2. Snk("exit", snk.stack, 1)
      BY <2>1, SinkIs, SinkForms DEF Snk
    <2>3. KGone
      BY <1>0, <1>7, <2>1, <2>2 DEF KGone
    <2> QED BY <2>3 DEF SinkKinds
  <1> QED BY <1>1, <1>2, <1>3, <1>4, <1>5, <1>6, <1>7 DEF SinkRecord, Reads
\* The bytes of a file.
LEMMA DataKinds ==
  ASSUME RcpTypes, SinkData
  PROVE  KUnit \/ KGone
  <1>1. CASE up # <<>> /\ Head(up).k # "part" /\ up' = Tail(up) /\ SnkGo([snk EXCEPT !.got = Append(@, IF Head(up).k = "unit" THEN Head(up) ELSE Garbage)], <<>>)
    <2>1. PICK g : g = Append(snk.got, IF Head(up).k = "unit" THEN Head(up) ELSE Garbage)
      OBVIOUS
    <2>2. PICK x : x = snk
      OBVIOUS
    <2>3. snk' = [x EXCEPT !.got = g] /\ OnlySink /\ UNCHANGED down
      BY <1>1, <2>1, <2>2, NothingSent DEF SnkGo, SnkStep, OnlySink
    <2>4. IsSnk(x)
      BY <2>2, SinkIs
    <2>5. /\ IsSnk(snk') /\ snk'.pc = x.pc /\ snk'.stack = x.stack /\ snk'.np = x.np /\ snk'.size = x.size
          /\ snk'.got = g /\ snk'.wrerr = x.wrerr /\ snk'.errs = x.errs
      BY <2>3, <2>4 DEF IsSnk
    <2> QED BY <1>1, <2>1, <2>2, <2>3, <2>5 DEF SinkData, KUnit, Reads
  <1>2. CASE /\ (up = <<>> /\ SourceGone /\ UNCHANGED up) \/ (Reads /\ Head(up).k = "part")
             /\ SnkGo(Exit1(snk), <<"err">>)
    <2>1. snk' = Exit1(snk) /\ OnlySink /\ Says(<<"err">>)
      BY <1>2 DEF SnkGo, SnkStep, OnlySink, Says
    <2>2. Snk("exit", snk.stack, 1)
      BY <2>1, SinkIs, SinkForms DEF Snk
    <2> QED BY <1>2, <2>1, <2>2 DEF SinkData, KGone
  <1> QED BY <1>1, <1>2 DEF SinkData, Reads

\* The file is cut to size and its mode set.
LEMMA WrittenKind ==
  ASSUME RcpTypes, SinkWritten
  PROVE  KWritten
  <1>10. Len(snk.got) = snk.size /\ snk.pc = "data" /\ ~(snk.size < 0)
    BY SinkIs DEF RcpTypes, SinkAt, SinkWritten
  <1>1. PICK bad \in SUBSET ({"write", "truncate", "chmod"} \cap RcpFaults) :
       /\ Cardinality(faults \cup bad) <= MaxRcpFaults
       /\ Noted(bad)
       /\ LET old  == disk[snk.np].data
              body == IF "write" \in bad THEN old ELSE Over(old, snk.got)
              said == bad \cap {"truncate", "chmod"}
              err  == CASE "truncate" \in bad -> "displayed"
                        [] bad \cap {"write", "truncate"} = {"write"} -> "yes"
                        [] bad \cap {"write", "truncate"} = {} -> "no"
          IN  /\ disk' = [disk EXCEPT ![snk.np] = [kind |-> "file", time |-> "now",
                            data |-> IF "truncate" \in bad THEN body ELSE SubSeq(body, 1, IF Len(body) < snk.size THEN Len(body) ELSE snk.size)]]
              /\ SnkGo([snk EXCEPT !.pc = "resp", !.wrerr = err, !.errs = @ + Cardinality(said)],
                       [i \in 1 .. Cardinality(said) |-> "err"])
    <2>1. \A S : S \cup (IF snk.size < 0 THEN {"truncate"} ELSE {}) = S
      BY <1>10
    <2>2. \E bad \in SUBSET ({"write", "truncate", "chmod"} \cap RcpFaults) :
            Cardinality(faults \cup bad) <= MaxRcpFaults /\ Noted(bad) /\ Stored(bad)
      BY <2>1, Zenon DEF SinkWritten
    <2> QED BY <2>2, Zenon DEF Stored
  <1> DEFINE said == bad \cap {"truncate", "chmod"}
             wr == IF "truncate" \in bad THEN "displayed" ELSE IF "write" \in bad THEN "yes" ELSE "no"
  <1>2. PICK n \in 0 .. 2 : n = Cardinality(said)
    <2>1. said = {} \/ said = {"truncate"} \/ said = {"chmod"} \/ said = {"truncate", "chmod"}
      OBVIOUS
    <2>2. Cardinality({}) = 0 /\ Cardinality({"truncate"}) = 1 /\ Cardinality({"chmod"}) = 1
      BY FS_EmptySet, FS_Singleton
    <2>3. Cardinality({"truncate", "chmod"}) = 2
      <3>1. IsFiniteSet({"truncate"}) /\ "chmod" \notin {"truncate"}
        BY FS_Singleton
      <3>2. Cardinality({"truncate"} \cup {"chmod"}) = Cardinality({"truncate"}) + 1
        BY <3>1, FS_AddElement
      <3>3. {"truncate"} \cup {"chmod"} = {"truncate", "chmod"}
        OBVIOUS
      <3> QED BY <2>2, <3>2, <3>3
    <2> QED BY <2>1, <2>2, <2>3
  <1>3. /\ OnlySink /\ Says([i \in 1 .. n |-> "err"])
    BY <1>1, <1>2 DEF SnkGo, SnkStep, OnlySink, Says
  <1>4. snk' = [snk EXCEPT !.pc = "resp", !.wrerr = wr, !.errs = snk.errs + n]
    <2>1. CASE "truncate" \in bad
      <3>1. bad \cap {"write", "truncate"} # {"write"} /\ bad \cap {"write", "truncate"} # {}
        BY <2>1
      <3>2. (CASE "truncate" \in bad -> "displayed"
               [] bad \cap {"write", "truncate"} = {"write"} -> "yes"
               [] bad \cap {"write", "truncate"} = {} -> "no") = "displayed"
        BY <2>1, <3>1
      <3> QED BY <1>1, <1>2, <2>1, <3>2 DEF SnkGo, SnkStep
    <2>2. CASE "truncate" \notin bad /\ "write" \in bad
      <3>1. bad \cap {"write", "truncate"} = {"write"}
        BY <2>2
      <3> QED BY <1>1, <1>2, <2>2, <3>1 DEF SnkGo, SnkStep
    <2>3. CASE "truncate" \notin bad /\ "write" \notin bad
      <3>1. bad \cap {"write", "truncate"} = {}
        BY <2>3
      <3> QED BY <1>1, <1>2, <2>3, <3>1 DEF SnkGo, SnkStep
    <2> QED BY <2>1, <2>2, <2>3
  <1>5. PICK x : x = snk
    OBVIOUS
  <1>6. PICK w : w = wr
    OBVIOUS
  <1>7. IsSnk(x) /\ snk' = [x EXCEPT !.pc = "resp", !.wrerr = w, !.errs = x.errs + n]
    BY <1>4, <1>5, <1>6, SinkIs
  <1>8. /\ IsSnk(snk') /\ snk'.pc = "resp" /\ snk'.stack = x.stack /\ snk'.np = x.np /\ snk'.size = x.size
        /\ snk'.got = x.got /\ snk'.wrerr = w /\ snk'.errs = x.errs + n
    BY <1>7 DEF IsSnk
  <1>9. Adds(bad) /\ disk' = [disk EXCEPT ![snk.np] = [kind |-> "file", time |-> "now",
                     data |-> IF "truncate" \in bad THEN Body(bad)
                              ELSE SubSeq(Body(bad), 1, IF Len(Body(bad)) < snk.size THEN Len(Body(bad)) ELSE snk.size)]]
    BY <1>1 DEF Noted, Adds, Body
  <1> QED BY <1>2, <1>3, <1>5, <1>6, <1>8, <1>9, <1>10 DEF SinkWritten, KWritten

LEMMA BackForm ==
  ASSUME NEW x, NEW t, Kept(x, t), t.errs = x.errs, NEW y, y = [t EXCEPT !.pc = "rec"]
  PROVE  Kept(x, y) /\ y.pc = "rec" /\ y.errs = x.errs /\ y.stack = t.stack
  <1>1. IsSnk(t)
    BY DEF Kept
  <1>2. Kept(t, y) /\ y.pc = "rec" /\ y.stack = t.stack /\ y.errs = t.errs
    BY <1>1, SnkEdits
  <1>3. Kept(x, y)
    BY <1>2 DEF Kept
  <1> QED BY <1>2, <1>3

\* The times are set and the answer is given.
LEMMA AnsweredKind ==
  ASSUME RcpTypes, snk.pc = "resp", Reads, Head(up).k \in {"end", "err"},
         NEW s, IsSnk(s), Kept(snk, s), s.stack = snk.stack,
         s.errs = snk.errs + (IF Head(up).k = "err" THEN 1 ELSE 0), Answer(s)
  PROVE  KAnswered
  <1> DEFINE timed == Top.setimes /\ s.wrerr = "no"
             f == IF timed THEN [Top EXCEPT !.setimes = FALSE] ELSE Top
             back == [SetTop(s, f) EXCEPT !.pc = "rec"]
             old == [snk.stack EXCEPT ![Len(snk.stack)] = [Top EXCEPT !.setimes = FALSE]]
  <1>1. PICK bad \in IF timed THEN MayFail("times") ELSE {FALSE} :
          /\ Noted(IF bad THEN {"times"} ELSE {})
          /\ disk' = IF timed /\ ~bad THEN [disk EXCEPT ![s.np].time = "source"] ELSE disk
          /\ SnkGo(IF bad \/ s.wrerr = "yes" THEN run_err(back) ELSE back, IF bad THEN <<"err">> ELSE Said(s.wrerr))
    BY DEF Answer
  <1>2. bad \in BOOLEAN /\ (bad => timed /\ "times" \in RcpFaults)
    BY <1>1 DEF MayFail, Fails
  <1>3. s.np = snk.np /\ s.wrerr = snk.wrerr
    BY DEF Kept
  <1>4. PICK g : g = f
    OBVIOUS
  <1>5. PICK t : t = SetTop(s, g)
    OBVIOUS
  <1>6. PICK b : b = [t EXCEPT !.pc = "rec"]
    OBVIOUS
  <1>8. Kept(s, t) /\ t.errs = s.errs /\ t.stack = [s.stack EXCEPT ![Len(s.stack)] = g]
    BY <1>5, SinkForms, Zenon
  <1>9. Kept(s, b) /\ b.pc = "rec" /\ b.errs = s.errs /\ b.stack = t.stack
    BY <1>6, <1>8, BackForm
  <1>10. Kept(s, b) /\ b.pc = "rec" /\ b.stack = [s.stack EXCEPT ![Len(s.stack)] = g] /\ b.errs = s.errs
    BY <1>8, <1>9
  <1>7. b = back
    BY <1>4, <1>5, <1>6
  <1>11. IsSnk(b) /\ Kept(snk, b)
    BY <1>10 DEF Kept
  <1>12. PICK stack \in {snk.stack, old} : stack = b.stack
    <2>1. b.stack = [snk.stack EXCEPT ![Len(snk.stack)] = g]
      BY <1>10
    <2>2. CASE timed
      BY <2>1, <2>2, <1>4 DEF f
    <2>3. CASE ~timed
      <3>1. g = snk.stack[Len(snk.stack)]
        BY <1>4, <2>3 DEF f, Top
      <3>2. snk.stack \in Seq(Frames) /\ Len(snk.stack) \in Nat
        BY SinkIs
      <3>3. [snk.stack EXCEPT ![Len(snk.stack)] = g] = snk.stack
        BY <3>1, <3>2
      <3> QED BY <2>1, <3>3
    <2> QED BY <2>2, <2>3
  <1>13. PICK e \in 0 .. 2 : e = (IF Head(up).k = "err" THEN 1 ELSE 0) + (IF bad \/ snk.wrerr = "yes" THEN 1 ELSE 0)
    OBVIOUS
  <1>14. snk.errs \in Nat
    BY SinkIs
  <1>15. Snk("rec", stack, e)
    <2>1. CASE bad \/ s.wrerr = "yes"
      <3>1. snk' = run_err(b)
        BY <1>1, <1>7, <2>1 DEF SnkGo, SnkStep
      <3>2. Kept(b, snk') /\ snk'.pc = b.pc /\ snk'.stack = b.stack /\ snk'.errs = b.errs + 1
        BY <1>11, <3>1, SinkForms
      <3>3. Kept(snk, snk')
        BY <1>11, <3>2 DEF Kept
      <3>4. snk'.errs = snk.errs + e
        BY <1>3, <1>10, <1>13, <1>14, <2>1, <3>2
      <3> QED BY <1>10, <1>12, <3>2, <3>3, <3>4 DEF Snk
    <2>2. CASE ~(bad \/ s.wrerr = "yes")
      <3>1. snk' = b
        BY <1>1, <1>7, <2>2 DEF SnkGo, SnkStep
      <3>2. snk'.errs = snk.errs + e
        BY <1>3, <1>10, <1>13, <1>14, <2>2, <3>1
      <3> QED BY <1>10, <1>11, <1>12, <3>1, <3>2 DEF Snk
    <2> QED BY <2>1, <2>2
  <1>16. OnlySink /\ Says(IF bad THEN <<"err">> ELSE Said(snk.wrerr))
    BY <1>1, <1>3 DEF SnkGo, SnkStep, OnlySink, Says
  <1>17. IF bad THEN Adds({"times"}) ELSE Adds({})
    BY <1>1, <1>2 DEF Noted, Adds
  <1> QED BY <1>1, <1>2, <1>3, <1>12, <1>13, <1>15, <1>16, <1>17 DEF KAnswered

\* The byte after the file.
LEMMA VerdictKinds ==
  ASSUME RcpTypes, SinkVerdict
  PROVE  KAnswered \/ KGone
  <1>0. snk.pc = "resp" /\ IsSnk(snk) /\ snk.errs \in Nat
    BY SinkIs DEF SinkVerdict
  <1>1. CASE up # <<>> /\ up' = Tail(up) /\ Head(up).k = "end" /\ Answer(snk)
    <2>1. Reads /\ Kept(snk, snk)
      BY <1>0, <1>1 DEF Reads, Kept
    <2>2. snk.errs = snk.errs + (IF Head(up).k = "err" THEN 1 ELSE 0)
      BY <1>0, <1>1
    <2> QED BY <1>0, <1>1, <2>1, <2>2, AnsweredKind
  <1>2. CASE up # <<>> /\ up' = Tail(up) /\ Head(up).k = "err" /\ Answer(run_err(snk))
    <2>1. PICK s : s = run_err(snk)
      OBVIOUS
    <2>2. Kept(snk, s) /\ s.stack = snk.stack /\ s.errs = snk.errs + 1
      BY <1>0, <2>1, SinkForms
    <2>3. IsSnk(s) /\ Reads
      BY <1>2, <2>2 DEF Kept, Reads
    <2> QED BY <1>0, <1>2, <2>1, <2>2, <2>3, AnsweredKind
  <1>3. CASE /\ IF up # <<>> THEN Head(up).k \notin {"end", "err"} /\ up' = Tail(up) ELSE SourceGone /\ UNCHANGED up
             /\ SnkGo(Exit1(snk), <<>>)
             /\ UNCHANGED <<disk, faults>>
    <2>1. snk' = Exit1(snk) /\ OnlySink /\ UNCHANGED down
      BY <1>3, NothingSent DEF SnkGo, SnkStep, OnlySink
    <2>2. Snk("exit", snk.stack, 1)
      BY <1>0, <2>1, SinkForms DEF Snk
    <2> QED BY <1>0, <1>3, <2>1, <2>2 DEF KGone, Reads
  <1> QED BY <1>1, <1>2, <1>3 DEF SinkVerdict

\* The connection breaks.
LEMMA CutKind ==
  ASSUME Cut
  PROVE  KCut
  BY DEF Cut, KCut, Part, Fails, Noted, Adds

\* lostconn ends either side.
LEMMA LostKinds ==
  ASSUME RcpTypes, lostconn
  PROVE  SEnded \/ KGone
  <1>1. CASE src.pc \notin {"exit", "start"} /\ SinkGone /\ src' = Exit1(src) /\ UNCHANGED snk
    BY <1>1, SourceIs DEF lostconn, SEnded, Src, OnlySource, Exit1, run_err
  <1>2. CASE snk.pc # "exit" /\ SourceGone /\ snk' = Exit1(snk) /\ UNCHANGED src
    <2>1. Snk("exit", snk.stack, 1)
      BY <1>2, SinkIs, SinkForms DEF Snk
    <2> QED BY <1>2, <2>1 DEF lostconn, KGone, OnlySink
  <1> QED BY <1>1, <1>2 DEF lostconn

\* Every step of rcp has one of the forms.
LEMMA StepKinds ==
  ASSUME RcpTypes, RcpNext
  PROVE  Kinds
  <1>1. CASE SourceStep
    BY <1>1, SourceItemKinds, ResponseKinds, DoneKind DEF SourceStep, Kinds, SourceKinds
  <1>2. CASE SinkStep
    BY <1>2, StartKinds, RecordKinds, DataKinds, WrittenKind, VerdictKinds DEF SinkStep, Kinds, SinkKinds
  <1> QED BY <1>1, <1>2, CutKind, LostKinds DEF RcpNext, Kinds, SourceKinds, SinkKinds

----------------------------------------------------------------------------
(* The types are kept.                                                      *)
AtOf(pc, at) ==
  /\ at \in 1 .. Len(Plan) + 1
  /\ pc = "start" => at = 1
  /\ pc \in Asks \cup {"end"} => at <= Len(Plan)
  /\ pc \in {"C", "D", "E"} => Plan[at].k = pc
  /\ pc = "end" => Plan[at].k = "C"
  /\ pc = "T" => Plan[at].k \in {"C", "D"} /\ opt.pflag

\* Where the source may be in its list.
LEMMA AtFacts ==
  ASSUME RcpTypes
  PROVE  /\ src.pc \in {"start", "next", "end", "exit"} \cup Asks /\ src.at \in 1 .. Len(Plan) + 1 /\ src.errs \in Nat
         /\ AtOf(src.pc, src.at) /\ Item = Plan[src.at]
         /\ src.at <= Len(Plan) => src.at \in DOMAIN Plan /\ src.at + 1 \in 1 .. Len(Plan) + 1 /\ Item \in Tokens /\ Item.k \in {"C", "D", "E"}
         /\ src.pc \in Asks \cup {"end"} => src.at <= Len(Plan)
  <1>1. src.pc \in {"start", "next", "end", "exit"} \cup Asks /\ src.at \in 1 .. Len(Plan) + 1 /\ src.errs \in Nat
    BY DEF RcpTypes, Types
  <1>2. Len(Plan) \in Nat /\ DOMAIN Plan = 1 .. Len(Plan)
    BY PlanFacts
  <1>3. src.at <= Len(Plan) => src.at \in DOMAIN Plan /\ src.at + 1 \in 1 .. Len(Plan) + 1
    BY <1>1, <1>2
  <1>4. AtOf(src.pc, src.at) /\ Item = Plan[src.at] /\ (src.pc \in Asks \cup {"end"} => src.at <= Len(Plan))
    BY <1>1 DEF AtOf, RcpTypes, SourceAt, Waits, Item
  <1> QED BY <1>1, <1>3, <1>4, PlanFacts

\* A step of the source that gives src these fields keeps the types.
LEMMA SourceTypes ==
  ASSUME RcpTypes, OnlySource, NEW pc \in {"start", "next", "end", "exit"} \cup Asks, NEW at, NEW e \in Nat, Src(pc, at, e), AtOf(pc, at),
         up' \in Seq(Tokens), down' \in Seq(Answers), faults' \subseteq RcpFaults
  PROVE  RcpTypes' /\ Plan' = Plan
  <1>1. /\ opt' = opt /\ snk' = snk /\ disk' = disk /\ cut' = cut /\ Plan' = Plan
    BY DEF OnlySource, Plan
  <1>2. src' = [pc |-> pc, at |-> at, errs |-> src.errs + e] /\ src.errs + e \in Nat /\ at \in 1 .. Len(Plan) + 1
    <2>1. src.errs \in Nat
      BY SourceIs
    <2>2. src' = [pc |-> pc, at |-> at, errs |-> src.errs + e] /\ at \in 1 .. Len(Plan) + 1
      BY DEF Src, AtOf
    <2> QED BY <2>1, <2>2
  <1>3. Types'
    BY <1>1, <1>2 DEF RcpTypes, Types
  <1>4. Item' = Plan[at] /\ src'.pc = pc /\ src'.at = at
    BY <1>1, <1>2 DEF Item
  <1>5. SourceAt'
    BY <1>1, <1>4 DEF SourceAt, Waits, AtOf
  <1>6. SinkAt' /\ OneArgument' /\ FilesFit'
    BY <1>1 DEF RcpTypes, SinkAt, OneArgument, FilesFit, Plan
  <1> QED BY <1>1, <1>3, <1>5, <1>6 DEF RcpTypes

LEMMA Flows ==
  ASSUME RcpTypes
  PROVE  /\ up \in Seq(Tokens) /\ down \in Seq(Answers) /\ faults \subseteq RcpFaults /\ cut \in BOOLEAN
         /\ up # <<>> => Tail(up) \in Seq(Tokens)
         /\ down # <<>> => Tail(down) \in Seq(Answers)
  <1>1. up \in Seq(Tokens) /\ down \in Seq(Answers) /\ faults \subseteq RcpFaults /\ cut \in BOOLEAN
    BY DEF RcpTypes, Types
  <1> QED BY <1>1, TailFacts

LEMMA SendsTypes ==
  ASSUME RcpTypes, NEW sent \in Seq(Tokens), Sends(sent)
  PROVE  up' \in Seq(Tokens)
  BY Flows, Sent DEF Sends

LEMMA HearsTypes ==
  ASSUME RcpTypes, NEW answer, Hears(answer)
  PROVE  down' \in Seq(Answers)
  BY Flows DEF Hears

\* The source keeps the types.
LEMMA SourceKeepsTypes ==
  ASSUME RcpTypes, SourceKinds
  PROVE  RcpTypes' /\ Plan' = Plan
  <1>0. /\ up \in Seq(Tokens) /\ down \in Seq(Answers) /\ faults \subseteq RcpFaults
        /\ Len(Plan) \in Nat /\ src.at \in 1 .. Len(Plan) + 1 /\ 0 \in Nat /\ 1 \in Nat
    BY Flows, PlanFacts, AtFacts
  <1>1. ASSUME src.at <= Len(Plan) PROVE <<Item>> \in Seq(Tokens) /\ <<Rec("T", Item.path)>> \in Seq(Tokens) /\ <<ErrRec>> \in Seq(Tokens)
    <2>1. Item \in Tokens /\ ErrRec \in Tokens /\ Item.path \in Paths
      BY <1>1, AtFacts, SentTokens DEF Tokens
    <2>2. Rec("T", Item.path) \in Tokens
      BY <2>1, SentTokens
    <2> QED BY <2>1, <2>2
  <1>2. CASE SAsk
    <2>1. PICK pc \in Asks : /\ Src(pc, src.at, 0) /\ Sends(<<AskFor(pc)>>)
                      /\ IF pc = "T" THEN Item.k \in {"C", "D"} /\ opt.pflag ELSE Item.k = pc /\ (pc = "E" \/ ~opt.pflag)
      BY <1>2 DEF SAsk
    <2>2. <<AskFor(pc)>> \in Seq(Tokens)
      BY <1>1, <1>2 DEF SAsk, AskFor
    <2>3. up' \in Seq(Tokens)
      BY <2>1, <2>2, SendsTypes
    <2>4. AtOf(pc, src.at)
      BY <1>0, <1>2, <2>1, AtFacts DEF SAsk, AtOf, Asks
    <2> QED BY <1>0, <1>2, <2>1, <2>3, <2>4, SourceTypes DEF SAsk
  <1>3. CASE SMissed
    <2>1. up' \in Seq(Tokens)
      BY <1>1, <1>3, SendsTypes DEF SMissed
    <2>2. AtOf("next", Skip(src.at))
      BY <1>3, SkipFacts DEF SMissed, AtOf, Asks
    <2>3. faults' \subseteq RcpFaults
      BY <1>0, <1>3 DEF SMissed, Adds
    <2> QED BY <1>0, <1>3, <2>1, <2>2, <2>3, SourceTypes DEF SMissed
  <1>4. CASE SDone
    <2>1. AtOf("exit", src.at)
      BY <1>0 DEF AtOf, Asks
    <2> QED BY <1>0, <1>4, <2>1, SourceTypes DEF SDone
  <1>5. CASE SMoved
    <2>1. PICK at \in 1 .. Len(Plan) + 1, e \in {0, 1} : Src("next", at, e)
      <3>1. src.pc \in {"T", "C", "D"} => Skip(src.at) \in 1 .. Len(Plan) + 1
        BY AtFacts, SkipFacts DEF Asks
      <3>2. src.pc \in {"D", "E", "end"} => src.at + 1 \in 1 .. Len(Plan) + 1
        BY AtFacts DEF Asks
      <3>3. 1 \in 1 .. Len(Plan) + 1
        BY <1>0
      <3> QED BY <1>5, <3>1, <3>2, <3>3 DEF SMoved
    <2>2. AtOf("next", at) /\ e \in Nat
      BY DEF AtOf, Asks
    <2>3. down' \in Seq(Answers)
      BY <1>5, HearsTypes DEF SMoved
    <2> QED BY <1>0, <1>5, <2>1, <2>2, <2>3, SourceTypes DEF SMoved
  <1>6. CASE STimed
    <2>1. src.at <= Len(Plan) /\ Item.k \in {"C", "D"} /\ Item = Plan[src.at]
      BY <1>6, AtFacts DEF STimed, AtOf, Asks
    <2>2. AtOf(Item.k, src.at)
      BY <1>0, <2>1 DEF AtOf, Asks
    <2>3. down' \in Seq(Answers) /\ up' \in Seq(Tokens)
      BY <1>1, <1>6, <2>1, HearsTypes, SendsTypes DEF STimed
    <2> QED BY <1>0, <1>6, <2>1, <2>2, <2>3, SourceTypes DEF STimed, Asks
  <1>7. CASE src.pc = "C" /\ (SSent \/ SSpoilt \/ SNoBuffer)
    <2>1. src.at <= Len(Plan) /\ Item.k = "C" /\ Item = Plan[src.at]
      BY <1>7, AtFacts DEF AtOf, Asks
    <2>2. Rec("end", Item.path) \in Tokens /\ ErrRec \in Tokens
      BY <2>1, AtFacts, SentTokens DEF Tokens
    <2>3. Units(Item, TRUE) \o <<Rec("end", Item.path)>> \in Seq(Tokens) /\ Units(Item, FALSE) \o <<ErrRec>> \in Seq(Tokens)
      <3>1. Units(Item, TRUE) \in Seq(Tokens) /\ Units(Item, FALSE) \in Seq(Tokens)
        BY <2>1, UnitsFacts
      <3>2. <<Rec("end", Item.path)>> \in Seq(Tokens) /\ <<ErrRec>> \in Seq(Tokens)
        BY <2>2
      <3> QED BY <3>1, <3>2, ConcatProperties
    <2>4. up' \in Seq(Tokens)
      BY <1>1, <1>7, <2>1, <2>3, SendsTypes DEF SSent, SSpoilt, SNoBuffer
    <2>5. down' \in Seq(Answers)
      BY <1>7, HearsTypes DEF SSent, SSpoilt, SNoBuffer
    <2>6. AtOf("end", src.at) /\ AtOf("next", src.at + 1)
      BY <1>0, <2>1 DEF AtOf, Asks
    <2>7. faults' \subseteq RcpFaults
      BY <1>0, <1>7 DEF SSent, SSpoilt, SNoBuffer, Adds
    <2> QED BY <1>0, <1>7, <2>4, <2>5, <2>6, <2>7, SourceTypes DEF SSent, SSpoilt, SNoBuffer
  <1>8. CASE SEnded
    <2>1. AtOf("exit", src.at)
      BY <1>0 DEF AtOf, Asks
    <2>2. down' \in Seq(Answers)
      BY <1>0, <1>8, HearsTypes DEF SEnded
    <2> QED BY <1>0, <1>8, <2>1, <2>2, SourceTypes DEF SEnded
  <1> QED BY <1>2, <1>3, <1>4, <1>5, <1>6, <1>7, <1>8 DEF SourceKinds, SSent, SSpoilt, SNoBuffer

Disks == [Paths -> [kind : {"none", "file", "dir"}, data : Seq(Tokens), time : {"old", "now", "source"}]]
Held(x) ==
  /\ IsSnk(x) /\ x.pc \in {"start", "rec", "data", "resp", "exit"} /\ x.np \in Paths /\ x.size \in Nat
  /\ x.got \in Seq(Tokens) /\ x.wrerr \in {"yes", "no", "displayed"} /\ x.errs \in Nat
StackOk(st) ==
  /\ st \in Seq(Frames) /\ st # <<>> /\ Len(st) \in Nat \ {0}
  /\ \A i \in DOMAIN st : i > 1 => st[i].isdir
  /\ ~st[1].isdir => ~opt.dflag

\* A step of the sink that gives snk these fields keeps the types.
LEMMA SinkTypes ==
  ASSUME RcpTypes, OnlySink, Held(snk'), snk'.pc # "exit" => snk'.pc # "start" /\ StackOk(snk'.stack),
         snk'.pc = "exit" => snk'.stack = snk.stack,
         Len(snk'.got) <= snk'.size, snk'.pc = "resp" => Len(snk'.got) = snk'.size,
         up' \in Seq(Tokens), down' \in Seq(Answers), disk' \in Disks, faults' \subseteq RcpFaults
  PROVE  RcpTypes' /\ Plan' = Plan
  <1>1. opt' = opt /\ src' = src /\ cut' = cut /\ Plan' = Plan
    BY DEF OnlySink, Plan
  <1>2. Item' = Item
    BY <1>1 DEF Item
  <1>3. SourceAt' /\ OneArgument' /\ FilesFit'
    BY <1>1, <1>2 DEF RcpTypes, SourceAt, Waits, OneArgument, FilesFit
  <1>4. snk'.stack \in Seq(Frames)
    BY DEF StackOk, RcpTypes, Types, Held
  <1>5. snk' \in [pc : {"start", "rec", "data", "resp", "exit"}, stack : Seq(Frames), np : Paths, size : Nat,
              got : Seq(Tokens), wrerr : {"yes", "no", "displayed"}, errs : Nat]
    BY <1>4 DEF Held, IsSnk
  <1>6. Types'
    BY <1>1, <1>5 DEF RcpTypes, Types, Disks
  <1>7. SinkAt'
    <2>1. CASE snk'.pc = "exit"
      BY <1>1, <2>1 DEF RcpTypes, SinkAt
    <2>2. CASE snk'.pc # "exit"
      BY <1>1, <2>2 DEF StackOk, SinkAt
    <2> QED BY <2>1, <2>2
  <1> QED BY <1>1, <1>3, <1>6, <1>7 DEF RcpTypes

LEMMA StackNow ==
  ASSUME RcpTypes, snk.pc \in {"rec", "data", "resp"}
  PROVE  StackOk(snk.stack) /\ Top \in Frames /\ Top = snk.stack[Len(snk.stack)]
  <1>1. snk.stack \in Seq(Frames) /\ snk.stack # <<>> /\ Len(snk.stack) \in Nat /\ Len(snk.stack) > 0 /\ Top \in Frames
    BY SinkIs
  <1> QED BY <1>1 DEF StackOk, RcpTypes, SinkAt, Top

PutTop(st, f) == [st EXCEPT ![Len(st)] = f]

\* The frames: the topmost is changed, one is pushed, one is popped.
LEMMA StackTop ==
  ASSUME NEW st, StackOk(st), NEW f \in Frames, f.isdir = st[Len(st)].isdir
  PROVE  /\ StackOk(PutTop(st, f)) /\ Len(PutTop(st, f)) = Len(st) /\ PutTop(st, f)[Len(st)] = f
         /\ \A i \in DOMAIN st : i # Len(st) => PutTop(st, f)[i] = st[i]
  <1>0. PICK r : r = PutTop(st, f)
    OBVIOUS
  <1>1. /\ st \in Seq(Frames) /\ st # <<>>
    BY DEF StackOk
  <1>2. /\ r \in Seq(Frames) /\ Len(r) = Len(st) /\ Len(st) \in DOMAIN st /\ r[Len(st)] = f
        /\ \A i \in DOMAIN st : i # Len(st) => r[i] = st[i]
    BY <1>0, <1>1, Replaced DEF PutTop
  <1>3. Len(st) \in Nat \ {0} /\ DOMAIN st = 1 .. Len(st) /\ DOMAIN r = 1 .. Len(r)
    BY <1>1, <1>2 DEF StackOk
  <1>4. \A i \in DOMAIN st : r[i].isdir = st[i].isdir
    BY <1>2
  <1>5. r # <<>> /\ 1 \in DOMAIN st
    BY <1>1, <1>2, <1>3
  <1>6. StackOk(r)
    BY <1>2, <1>3, <1>4, <1>5 DEF StackOk
  <1> QED BY <1>0, <1>2, <1>6

LEMMA StackPush ==
  ASSUME NEW st, StackOk(st), NEW f \in Frames, f.isdir, NEW r, r = Append(st, f)
  PROVE  StackOk(r) /\ Len(r) = Len(st) + 1 /\ r[Len(r)] = f
  <1>1. st \in Seq(Frames) /\ st # <<>> /\ Len(st) \in Nat \ {0} /\ DOMAIN st = 1 .. Len(st)
    BY DEF StackOk
  <1>2. r \in Seq(Frames) /\ Len(r) = Len(st) + 1 /\ r[Len(r)] = f /\ \A i \in 1 .. Len(st) : r[i] = st[i]
    BY <1>1
  <1>3. r # <<>> /\ DOMAIN r = 1 .. Len(st) + 1
    BY <1>1, <1>2
  <1>4. ASSUME NEW i \in DOMAIN r, i > 1 PROVE r[i].isdir
    <2>1. CASE i = Len(st) + 1
      BY <1>2, <2>1
    <2>2. CASE i # Len(st) + 1
      <3>1. i \in DOMAIN st /\ r[i] = st[i]
        BY <1>1, <1>2, <1>3, <2>2
      <3> QED BY <1>4, <3>1 DEF StackOk
    <2> QED BY <2>1, <2>2
  <1>5. r[1] = st[1] /\ Len(r) \in Nat \ {0}
    BY <1>1, <1>2
  <1>6. ~r[1].isdir => ~opt.dflag
    BY <1>5 DEF StackOk
  <1> QED BY <1>2, <1>3, <1>4, <1>5, <1>6 DEF StackOk

LEMMA MoreThanOne ==
  ASSUME NEW n \in Nat \ {0}, n # 1
  PROVE  n \in Nat /\ n > 1
  OBVIOUS

LEMMA OnlyOne ==
  ASSUME NEW n \in Nat \ {0}, n <= 1
  PROVE  n = 1
  OBVIOUS

LEMMA StackPop ==
  ASSUME RcpTypes, snk.pc = "rec", Len(snk.stack) # 1
  PROVE  StackOk(Popped) /\ Len(Popped) = Len(snk.stack) - 1 /\ Len(snk.stack) > 1 /\ Outer \in Frames
  <1>1. PICK st : st = snk.stack
    OBVIOUS
  <1>2. StackOk(st)
    BY <1>1, StackNow
  <1>3. st \in Seq(Frames) /\ st # <<>> /\ Len(st) \in Nat /\ Len(st) > 1 /\ DOMAIN st = 1 .. Len(st)
    <2>1. st \in Seq(Frames) /\ st # <<>> /\ Len(st) \in Nat \ {0}
      BY <1>2 DEF StackOk
    <2>2. Len(st) # 1
      BY <1>1
    <2>3. Len(st) \in Nat /\ Len(st) > 1
      BY <2>1, <2>2, MoreThanOne
    <2> QED BY <2>1, <2>3
  <1>4. PICK fr : fr = Front(st)
    OBVIOUS
  <1>5. fr \in Seq(Frames) /\ Len(fr) = Len(st) - 1 /\ \A i \in 1 .. Len(st) - 1 : fr[i] = st[i] /\ i \in DOMAIN st
    BY <1>3, <1>4, FrontFacts
  <1>6. fr # <<>> /\ DOMAIN fr = 1 .. Len(st) - 1 /\ Len(fr) \in Nat \ {0}
    BY <1>3, <1>5
  <1>7. StackOk(fr)
    BY <1>2, <1>3, <1>5, <1>6 DEF StackOk
  <1>8. Outer = fr[Len(fr)] /\ Outer \in Frames
    BY <1>1, <1>3, <1>5, <1>6 DEF Outer
  <1>9. PICK f : f = [Outer EXCEPT !.setimes = FALSE]
    OBVIOUS
  <1>10. f \in Frames /\ f.isdir = fr[Len(fr)].isdir
    BY <1>8, <1>9 DEF Frames
  <1>11. Popped = PutTop(fr, f)
    BY <1>1, <1>4, <1>5, <1>9 DEF Popped, PutTop
  <1>12. StackOk(Popped) /\ Len(Popped) = Len(fr)
    BY <1>7, <1>10, <1>11, StackTop
  <1> QED BY <1>1, <1>3, <1>5, <1>8, <1>12

(* The disk. *)
Nodes == [kind : {"none", "file", "dir"}, data : Seq(Tokens), time : {"old", "now", "source"}]
DPut(d, p, node) == [d EXCEPT ![p] = node]
DTime(d, p) == [d EXCEPT ![p].time = "source"]
DDir(d, p) == [d EXCEPT ![p].kind = "dir"]
DOpen(d, p) == [d EXCEPT ![p].kind = "file", ![p].time = IF d[p].kind = "file" THEN @ ELSE "now"]
DWrite(d, p, new) == [d EXCEPT ![p] = [kind |-> "file", time |-> "now", data |-> new]]

LEMMA DiskPut ==
  ASSUME NEW d \in Disks, NEW p \in Paths, NEW node \in Nodes
  PROVE  /\ DPut(d, p, node) \in Disks /\ DPut(d, p, node)[p] = node
         /\ \A q \in Paths : q # p => DPut(d, p, node)[q] = d[q]
  BY DEF DPut, Disks, Nodes

LEMMA NodeForm ==
  ASSUME NEW d \in Disks, NEW p \in Paths
  PROVE  d[p] \in Nodes
  BY DEF Disks, Nodes

\* What each change of the disk leaves alone.
LEMMA DTimeFacts ==
  ASSUME NEW d \in Disks, NEW p \in Paths
  PROVE  /\ DTime(d, p) \in Disks /\ \A q \in Paths : q # p => DTime(d, p)[q] = d[q]
         /\ DTime(d, p)[p].kind = d[p].kind /\ DTime(d, p)[p].data = d[p].data /\ DTime(d, p)[p].time = "source"
  <1>1. PICK x : x = d[p]
    OBVIOUS
  <1>2. PICK y : y = [x EXCEPT !.time = "source"]
    OBVIOUS
  <1>3. x \in Nodes
    BY <1>1, NodeForm
  <1>4. y \in Nodes /\ y.kind = x.kind /\ y.data = x.data /\ y.time = "source"
    BY <1>2, <1>3 DEF Nodes
  <1>5. DTime(d, p) = DPut(d, p, y)
    BY <1>1, <1>2 DEF DTime, DPut
  <1> QED BY <1>1, <1>4, <1>5, DiskPut

LEMMA DDirFacts ==
  ASSUME NEW d \in Disks, NEW p \in Paths
  PROVE  /\ DDir(d, p) \in Disks /\ \A q \in Paths : q # p => DDir(d, p)[q] = d[q]
         /\ DDir(d, p)[p].kind = "dir"
  <1>1. PICK x : x = d[p]
    OBVIOUS
  <1>2. PICK y : y = [x EXCEPT !.kind = "dir"]
    OBVIOUS
  <1>3. x \in Nodes
    BY <1>1, NodeForm
  <1>4. y \in Nodes /\ y.kind = "dir"
    BY <1>2, <1>3 DEF Nodes
  <1>5. DDir(d, p) = DPut(d, p, y)
    BY <1>1, <1>2 DEF DDir, DPut
  <1> QED BY <1>4, <1>5, DiskPut

LEMMA DOpenFacts ==
  ASSUME NEW d \in Disks, NEW p \in Paths
  PROVE  /\ DOpen(d, p) \in Disks /\ \A q \in Paths : q # p => DOpen(d, p)[q] = d[q]
         /\ DOpen(d, p)[p].kind = "file"
  <1>1. PICK x : x = d[p]
    OBVIOUS
  <1>2. PICK y : y = [x EXCEPT !.kind = "file", !.time = IF x.kind = "file" THEN @ ELSE "now"]
    OBVIOUS
  <1>3. x \in Nodes
    BY <1>1, NodeForm
  <1>4. y \in Nodes /\ y.kind = "file"
    BY <1>2, <1>3 DEF Nodes
  <1>5. DOpen(d, p) = DPut(d, p, y)
    BY <1>1, <1>2 DEF DOpen, DPut
  <1> QED BY <1>4, <1>5, DiskPut

LEMMA DWriteFacts ==
  ASSUME NEW d \in Disks, NEW p \in Paths, NEW new \in Seq(Tokens)
  PROVE  /\ DWrite(d, p, new) \in Disks /\ \A q \in Paths : q # p => DWrite(d, p, new)[q] = d[q]
         /\ DWrite(d, p, new)[p].kind = "file" /\ DWrite(d, p, new)[p].data = new
  <1>1. PICK y : y = [kind |-> "file", time |-> "now", data |-> new]
    OBVIOUS
  <1>2. y \in Nodes /\ y.kind = "file" /\ y.data = new
    BY <1>1 DEF Nodes
  <1>3. DWrite(d, p, new) = DPut(d, p, y)
    BY <1>1 DEF DWrite, DPut
  <1> QED BY <1>2, <1>3, DiskPut

Kept1(new, size) == SubSeq(new, 1, IF Len(new) < size THEN Len(new) ELSE size)
LEMMA Kept1Facts ==
  ASSUME NEW new \in Seq(Tokens), NEW size \in Nat
  PROVE  /\ Kept1(new, size) \in Seq(Tokens) /\ Len(new) \in Nat
         /\ Len(new) >= size => Len(Kept1(new, size)) = size
         /\ \A i \in 1 .. size : Len(new) >= size => Kept1(new, size)[i] = new[i]
  <1>1. PICK n : n = IF Len(new) < size THEN Len(new) ELSE size
    OBVIOUS
  <1>2. Len(new) \in Nat
    OBVIOUS
  <1>3. n \in 0 .. Len(new) /\ (Len(new) >= size => n = size)
    BY <1>1, <1>2
  <1>4. SubSeq(new, 1, n) \in Seq(Tokens) /\ Len(SubSeq(new, 1, n)) = n /\ \A i \in 1 .. n : SubSeq(new, 1, n)[i] = new[i]
    BY <1>2, <1>3, SubSeqProperties
  <1> QED BY <1>1, <1>2, <1>3, <1>4 DEF Kept1

LEMMA OverFacts ==
  ASSUME NEW old \in Seq(Tokens), NEW new \in Seq(Tokens)
  PROVE  /\ Over(old, new) \in Seq(Tokens) /\ Len(Over(old, new)) >= Len(new)
         /\ \A i \in 1 .. Len(new) : Over(old, new)[i] = new[i]
  <1>1. Len(old) \in Nat /\ Len(new) \in Nat
    OBVIOUS
  <1>2. PICK rest : rest = SubSeq(old, Len(new) + 1, Len(old))
    OBVIOUS
  <1>3. rest \in Seq(Tokens)
    BY <1>1, <1>2
  <1>4. Over(old, new) = new \o rest
    BY <1>2 DEF Over
  <1> QED BY <1>1, <1>3, <1>4

LEMMA SnkHeld ==
  ASSUME RcpTypes, NEW pc \in {"start", "rec", "data", "resp", "exit"}, NEW stack, NEW e \in Nat, Snk(pc, stack, e)
  PROVE  /\ Held(snk') /\ snk'.pc = pc /\ snk'.stack = stack /\ snk'.errs = snk.errs + e /\ snk'.np = snk.np
         /\ snk'.size = snk.size /\ snk'.got = snk.got /\ snk'.wrerr = snk.wrerr /\ Len(snk'.got) <= snk'.size
  <1>1. /\ IsSnk(snk') /\ snk'.pc = pc /\ snk'.stack = stack /\ snk'.errs = snk.errs + e /\ snk'.np = snk.np
        /\ snk'.size = snk.size /\ snk'.got = snk.got /\ snk'.wrerr = snk.wrerr
    BY DEF Snk, Kept
  <1>2. /\ snk.errs \in Nat /\ snk.np \in Paths /\ snk.size \in Nat /\ snk.got \in Seq(Tokens)
    BY SinkIs
  <1>3. snk.wrerr \in {"yes", "no", "displayed"} /\ Len(snk.got) <= snk.size
    BY DEF RcpTypes, Types, SinkAt
  <1>4. snk.errs + e \in Nat
    BY <1>2
  <1> QED BY <1>1, <1>2, <1>3, <1>4 DEF Held

LEMMA SaysTypes ==
  ASSUME RcpTypes, NEW answers \in Seq(Answers), Says(answers)
  PROVE  down' \in Seq(Answers)
  BY Flows, Said1 DEF Says

LEMMA ReadsTypes ==
  ASSUME RcpTypes, Reads
  PROVE  up' \in Seq(Tokens) /\ Head(up) \in Tokens /\ Head(up) = up[1] /\ 1 \in DOMAIN up
  BY Flows, TailFacts DEF Reads

LEMMA NpIn ==
  ASSUME RcpTypes, snk.pc = "rec", NEW it \in Tokens
  PROVE  Np(it) \in Paths
  <1>1. Top \in Frames
    BY StackNow
  <1> QED BY <1>1 DEF Np, Tokens, Frames

LEMMA SaysOne == <<"ok">> \in Seq(Answers) /\ <<"err">> \in Seq(Answers) /\ <<"ok", "err">> \in Seq(Answers) /\ <<>> \in Seq(Answers)
  BY DEF Answers

\* The sink keeps the types while it stores a file.
LEMMA SinkStoresTypes ==
  ASSUME RcpTypes, KUnit \/ KWritten \/ KAnswered
  PROVE  RcpTypes' /\ Plan' = Plan
  <1>0. /\ up \in Seq(Tokens) /\ down \in Seq(Answers) /\ faults \subseteq RcpFaults /\ disk \in Disks /\ 0 \in Nat /\ 1 \in Nat
    BY Flows DEF RcpTypes, Types, Disks
  <1>1. /\ snk.errs \in Nat /\ snk.wrerr \in {"yes", "no", "displayed"} /\ Len(snk.got) <= snk.size /\ Len(snk.got) \in Nat
        /\ snk.np \in Paths /\ snk.size \in Nat /\ snk.got \in Seq(Tokens)
    BY SinkIs DEF RcpTypes, Types, SinkAt
  <1>2. CASE KUnit
    <2>1. PICK t : t = IF Head(up).k = "unit" THEN Head(up) ELSE Garbage
      OBVIOUS
    <2>2. snk'.got = Append(snk.got, t)
      BY <1>2, <2>1 DEF KUnit
    <2>3. t \in Tokens /\ up' \in Seq(Tokens)
      BY <1>2, <2>1, ReadsTypes, SentTokens DEF KUnit
    <2>4. snk'.got \in Seq(Tokens) /\ Len(snk'.got) = Len(snk.got) + 1
      BY <1>1, <2>2, <2>3
    <2>5. Len(snk'.got) <= snk'.size
      BY <1>1, <1>2, <2>4 DEF KUnit
    <2>6. Held(snk')
      BY <1>1, <1>2, <2>4 DEF KUnit, Held
    <2>7. StackOk(snk'.stack)
      BY <1>2, StackNow DEF KUnit
    <2> QED BY <1>0, <1>2, <2>3, <2>5, <2>6, <2>7, SinkTypes DEF KUnit
  <1>3. CASE KWritten
    <2>1. PICK bad \in SUBSET ({"write", "truncate", "chmod"} \cap RcpFaults), n \in 0 .. 2 :
       /\ n = Cardinality(bad \cap {"truncate", "chmod"})
       /\ Adds(bad) /\ Says([i \in 1 .. n |-> "err"])
       /\ disk' = [disk EXCEPT ![snk.np] = [kind |-> "file", time |-> "now",
                     data |-> IF "truncate" \in bad THEN Body(bad)
                              ELSE SubSeq(Body(bad), 1, IF Len(Body(bad)) < snk.size THEN Len(Body(bad)) ELSE snk.size)]]
       /\ IsSnk(snk') /\ snk'.pc = "resp" /\ snk'.stack = snk.stack /\ snk'.np = snk.np /\ snk'.size = snk.size
       /\ snk'.got = snk.got /\ snk'.errs = snk.errs + n
       /\ snk'.wrerr = IF "truncate" \in bad THEN "displayed" ELSE IF "write" \in bad THEN "yes" ELSE "no"
      BY <1>3 DEF KWritten
    <2>2. disk[snk.np].data \in Seq(Tokens)
      BY <1>0, <1>1, NodeForm DEF Nodes
    <2>3. Body(bad) \in Seq(Tokens)
      BY <1>1, <2>2, OverFacts DEF Body
    <2>4. PICK new : new = IF "truncate" \in bad THEN Body(bad) ELSE Kept1(Body(bad), snk.size)
      OBVIOUS
    <2>5. new \in Seq(Tokens)
      BY <1>1, <2>3, <2>4, Kept1Facts
    <2>6. disk' = DWrite(disk, snk.np, new)
      BY <2>1, <2>4 DEF DWrite, Kept1
    <2>7. disk' \in Disks
      BY <1>0, <1>1, <2>5, <2>6, DWriteFacts
    <2>8. [i \in 1 .. n |-> "err"] \in Seq(Answers)
      BY DEF Answers
    <2>9. down' \in Seq(Answers)
      BY <2>1, <2>8, SaysTypes
    <2>10. snk'.errs \in Nat
      BY <1>1, <2>1
    <2>11. Held(snk') /\ Len(snk'.got) = snk'.size /\ Len(snk'.got) <= snk'.size
      BY <1>1, <1>3, <2>1, <2>10 DEF KWritten, Held
    <2>12. StackOk(snk'.stack)
      BY <1>3, <2>1, StackNow DEF KWritten
    <2>13. faults' \subseteq RcpFaults
      BY <1>0, <2>1 DEF Adds
    <2> QED BY <1>0, <1>3, <2>1, <2>7, <2>9, <2>11, <2>12, <2>13, SinkTypes DEF KWritten
  <1>4. CASE KAnswered
    <2>1. PICK bad \in BOOLEAN, stack \in {snk.stack, [snk.stack EXCEPT ![Len(snk.stack)] = [Top EXCEPT !.setimes = FALSE]]}, e \in 0 .. 2 :
           /\ bad => "times" \in RcpFaults
           /\ IF bad THEN Adds({"times"}) ELSE Adds({})
           /\ Snk("rec", stack, e)
           /\ Says(IF bad THEN <<"err">> ELSE Said(snk.wrerr))
           /\ disk' = IF (Top.setimes /\ snk.wrerr = "no") /\ ~bad THEN [disk EXCEPT ![snk.np].time = "source"] ELSE disk
      BY <1>4 DEF KAnswered
    <2>2. PICK f : f = [Top EXCEPT !.setimes = FALSE]
      OBVIOUS
    <2>3. stack = snk.stack \/ stack = PutTop(snk.stack, f)
      BY <2>1, <2>2 DEF PutTop
    <2>4. StackOk(snk.stack) /\ Top \in Frames /\ Top = snk.stack[Len(snk.stack)] /\ up' \in Seq(Tokens)
      BY <1>4, StackNow, ReadsTypes DEF KAnswered
    <2>5. f \in Frames /\ f.isdir = Top.isdir
      BY <2>2, <2>4 DEF Frames
    <2>6. StackOk(stack)
      BY <2>3, <2>4, <2>5, StackTop
    <2>7. Held(snk') /\ snk'.pc = "rec" /\ snk'.stack = stack /\ Len(snk'.got) <= snk'.size
      BY <1>0, <2>1, SnkHeld
    <2>8. Said(snk.wrerr) \in Seq(Answers)
      BY SaysOne DEF Said
    <2>9. down' \in Seq(Answers)
      BY <2>1, <2>8, SaysTypes, SaysOne
    <2>10. disk' = disk \/ disk' = DTime(disk, snk.np)
      BY <2>1 DEF DTime
    <2>11. disk' \in Disks
      BY <1>0, <1>1, <2>10, DTimeFacts
    <2>12. faults' \subseteq RcpFaults
      BY <1>0, <2>1 DEF Adds
    <2> QED BY <1>4, <2>4, <2>6, <2>7, <2>9, <2>11, <2>12, SinkTypes DEF KAnswered
  <1> QED BY <1>2, <1>3, <1>4

\* The sink keeps the types.
LEMMA SinkKeepsTypes ==
  ASSUME RcpTypes, SinkKinds
  PROVE  RcpTypes' /\ Plan' = Plan
  <1>0. /\ up \in Seq(Tokens) /\ down \in Seq(Answers) /\ faults \subseteq RcpFaults /\ disk \in Disks /\ 0 \in Nat /\ 1 \in Nat /\ Targ \in Paths
    BY Flows DEF RcpTypes, Types, Disks, Paths
  <1>1. CASE KStarted
    <2>1. PICK f : f = Frame(Targ, IsDir(Targ))
      OBVIOUS
    <2>2. f \in Frames /\ f.isdir = IsDir(Targ)
      BY <1>0, <2>1 DEF Frame, Frames, IsDir
    <2>3. StackOk(<<f>>)
      <3>1. <<f>> \in Seq(Frames) /\ <<f>> # <<>> /\ Len(<<f>>) = 1 /\ <<f>>[1] = f /\ DOMAIN <<f>> = 1 .. 1
        BY <2>2
      <3>2. ~f.isdir => ~opt.dflag
        BY <1>1, <2>2 DEF KStarted
      <3> QED BY <3>1, <3>2 DEF StackOk
    <2>4. Snk("rec", <<f>>, 0) /\ Says(<<"ok">>) /\ UNCHANGED <<up, disk, faults>> /\ OnlySink
      BY <1>1, <2>1 DEF KStarted
    <2>5. Held(snk') /\ snk'.pc = "rec" /\ snk'.stack = <<f>> /\ Len(snk'.got) <= snk'.size
      BY <1>0, <2>4, SnkHeld
    <2>6. down' \in Seq(Answers)
      BY <2>4, SaysTypes, SaysOne
    <2> QED BY <1>0, <2>3, <2>4, <2>5, <2>6, SinkTypes
  <1>2. CASE KGone
    <2>1. Held(snk') /\ snk'.pc = "exit" /\ snk'.stack = snk.stack /\ Len(snk'.got) <= snk'.size
      BY <1>0, <1>2, SnkHeld DEF KGone
    <2>2. up' \in Seq(Tokens)
      BY <1>0, <1>2, ReadsTypes DEF KGone
    <2>3. down' \in Seq(Answers)
      BY <1>0, <1>2, SaysTypes, SaysOne DEF KGone
    <2> QED BY <1>0, <1>2, <2>1, <2>2, <2>3, SinkTypes DEF KGone
  <1>3. CASE KReturned
    <2>1. Held(snk') /\ snk'.pc = "exit" /\ snk'.stack = snk.stack /\ Len(snk'.got) <= snk'.size
      BY <1>0, <1>3, SnkHeld DEF KReturned
    <2>2. up' \in Seq(Tokens)
      BY <1>0, <1>3, ReadsTypes DEF KReturned
    <2>3. down' \in Seq(Answers)
      BY <1>0, <1>3, SaysTypes, SaysOne DEF KReturned
    <2> QED BY <1>0, <1>3, <2>1, <2>2, <2>3, SinkTypes DEF KReturned
  <1>4. CASE KBack
    <2>1. PICK e \in {0, 1}, answers \in {<<>>, <<"ok">>} :
       /\ IF answers = <<>> THEN up = <<>> /\ SourceGone /\ UNCHANGED up ELSE Reads /\ Head(up).k = "E"
       /\ Snk("rec", Popped, e)
       /\ Says(answers \o IF e = 1 THEN <<"err">> ELSE <<>>)
       /\ IF e = 1 THEN Adds({"dirtimes"}) /\ "dirtimes" \in RcpFaults ELSE Adds({})
       /\ disk' = IF Outer.setimes /\ e = 0 THEN [disk EXCEPT ![Top.targ].time = "source"] ELSE disk
      BY <1>4 DEF KBack
    <2>2. StackOk(Popped)
      BY <1>4, StackPop DEF KBack
    <2>3. Held(snk') /\ snk'.pc = "rec" /\ snk'.stack = Popped /\ Len(snk'.got) <= snk'.size
      BY <1>0, <2>1, SnkHeld
    <2>4. up' \in Seq(Tokens)
      BY <1>0, <2>1, ReadsTypes
    <2>5. (answers \o IF e = 1 THEN <<"err">> ELSE <<>>) \in Seq(Answers)
      <3>1. answers \in Seq(Answers) /\ (IF e = 1 THEN <<"err">> ELSE <<>>) \in Seq(Answers)
        BY SaysOne
      <3> QED BY <3>1, ConcatProperties
    <2>6. down' \in Seq(Answers)
      BY <2>1, <2>5, SaysTypes
    <2>7. Top.targ \in Paths
      BY <1>4, StackNow DEF KBack, Frames
    <2>8. disk' = disk \/ disk' = DTime(disk, Top.targ)
      BY <2>1 DEF DTime
    <2>9. disk' \in Disks
      BY <1>0, <2>7, <2>8, DTimeFacts
    <2>10. faults' \subseteq RcpFaults
      BY <1>0, <2>1 DEF Adds
    <2> QED BY <1>4, <2>2, <2>3, <2>4, <2>6, <2>9, <2>10, SinkTypes DEF KBack
  <1>5. CASE KErr
    <2>1. Held(snk') /\ snk'.pc = "rec" /\ snk'.stack = snk.stack /\ Len(snk'.got) <= snk'.size
      BY <1>0, <1>5, SnkHeld DEF KErr
    <2>2. up' \in Seq(Tokens) /\ StackOk(snk.stack)
      BY <1>5, ReadsTypes, StackNow DEF KErr
    <2> QED BY <1>0, <1>5, <2>1, <2>2, SinkTypes DEF KErr
  <1>6. CASE KTimes
    <2>1. PICK f : f = [Top EXCEPT !.setimes = TRUE]
      OBVIOUS
    <2>2. Snk("rec", PutTop(snk.stack, f), 0)
      BY <1>6, <2>1 DEF KTimes, PutTop
    <2>3. Held(snk') /\ snk'.pc = "rec" /\ snk'.stack = PutTop(snk.stack, f) /\ Len(snk'.got) <= snk'.size
      BY <1>0, <2>2, SnkHeld
    <2>4. up' \in Seq(Tokens) /\ StackOk(snk.stack) /\ Top \in Frames /\ Top = snk.stack[Len(snk.stack)]
      BY <1>6, ReadsTypes, StackNow DEF KTimes
    <2>5. f \in Frames /\ f.isdir = Top.isdir
      BY <2>1, <2>4 DEF Frames
    <2>6. StackOk(PutTop(snk.stack, f))
      BY <2>4, <2>5, StackTop
    <2>7. down' \in Seq(Answers)
      BY <1>6, SaysTypes, SaysOne DEF KTimes
    <2> QED BY <1>0, <1>6, <2>3, <2>4, <2>6, <2>7, SinkTypes DEF KTimes
  <1>7. CASE KRefused
    <2>1. Held(snk') /\ snk'.pc = "rec" /\ snk'.stack = snk.stack /\ Len(snk'.got) <= snk'.size
      BY <1>0, <1>7, SnkHeld DEF KRefused
    <2>2. up' \in Seq(Tokens) /\ StackOk(snk.stack) /\ down' \in Seq(Answers)
      BY <1>7, ReadsTypes, StackNow, SaysTypes, SaysOne DEF KRefused
    <2>3. faults' \subseteq RcpFaults
      BY <1>0, <1>7 DEF KRefused, Adds
    <2> QED BY <1>0, <1>7, <2>1, <2>2, <2>3, SinkTypes DEF KRefused
  <1>8. CASE KEntered
    <2>1. PICK np : np = Np(Head(up))
      OBVIOUS
    <2>2. /\ snk.pc = "rec" /\ Reads /\ Head(up).k = "D" /\ OnlySink /\ UNCHANGED faults /\ Says(<<"ok">>)
          /\ disk' = DDir(disk, np) /\ Snk("rec", Append(snk.stack, Frame(np, TRUE)), 0)
      BY <1>8, <2>1 DEF KEntered, DDir
    <2>3. np \in Paths
      BY <2>1, <2>2, NpIn, ReadsTypes
    <2>4. Held(snk') /\ snk'.pc = "rec" /\ snk'.stack = Append(snk.stack, Frame(np, TRUE)) /\ Len(snk'.got) <= snk'.size
      BY <1>0, <2>2, SnkHeld
    <2>5. Frame(np, TRUE) \in Frames /\ Frame(np, TRUE).isdir
      BY <2>3 DEF Frame, Frames
    <2>6. StackOk(snk'.stack)
      BY <2>2, <2>4, <2>5, StackNow, StackPush
    <2>7. up' \in Seq(Tokens) /\ down' \in Seq(Answers)
      BY <2>2, ReadsTypes, SaysTypes, SaysOne
    <2>8. disk' \in Disks
      BY <1>0, <2>2, <2>3, DDirFacts
    <2> QED BY <1>0, <2>2, <2>4, <2>6, <2>7, <2>8, SinkTypes
  <1>9. CASE KCreated
    <2>1. PICK np : np = Np(Head(up))
      OBVIOUS
    <2>2. /\ snk.pc = "rec" /\ Reads /\ OnlySink /\ UNCHANGED faults /\ Says(<<"ok">>) /\ disk' = DOpen(disk, np)
          /\ IsSnk(snk') /\ snk'.pc = "data" /\ snk'.stack = snk.stack /\ snk'.np = np /\ snk'.size = Head(up).n
          /\ snk'.got = <<>> /\ snk'.wrerr = snk.wrerr /\ snk'.errs = snk.errs
      BY <1>9, <2>1 DEF KCreated, Opened, DOpen
    <2>3. np \in Paths /\ Head(up).n \in Nat
      <3>1. np \in Paths /\ Head(up) \in Tokens
        BY <2>1, <2>2, NpIn, ReadsTypes
      <3> QED BY <3>1, RcpAssumption DEF Tokens, Sizes
    <2>4. snk.errs \in Nat /\ snk.wrerr \in {"yes", "no", "displayed"} /\ <<>> \in Seq(Tokens) /\ Len(<<>>) = 0
      BY DEF RcpTypes, Types
    <2>5. Held(snk') /\ Len(snk'.got) <= snk'.size
      BY <2>2, <2>3, <2>4 DEF Held
    <2>6. StackOk(snk'.stack)
      BY <2>2, StackNow
    <2>7. up' \in Seq(Tokens) /\ down' \in Seq(Answers)
      BY <2>2, ReadsTypes, SaysTypes, SaysOne
    <2>8. disk' \in Disks
      BY <1>0, <2>2, <2>3, DOpenFacts
    <2> QED BY <1>0, <2>2, <2>5, <2>6, <2>7, <2>8, SinkTypes
  <1>10. CASE KNoBuffer
    <2>1. PICK np : np = Np(Head(up))
      OBVIOUS
    <2>2. /\ snk.pc = "rec" /\ Reads /\ OnlySink /\ Adds({"sinkalloc"}) /\ "sinkalloc" \in RcpFaults /\ Says(<<"ok", "err">>) /\ disk' = DOpen(disk, np)
          /\ Snk("rec", snk.stack, 1)
      BY <1>10, <2>1 DEF KNoBuffer, Opened, DOpen
    <2>3. np \in Paths
      BY <2>1, <2>2, NpIn, ReadsTypes
    <2>4. Held(snk') /\ snk'.pc = "rec" /\ snk'.stack = snk.stack /\ Len(snk'.got) <= snk'.size
      BY <1>0, <2>2, SnkHeld
    <2>6. StackOk(snk'.stack)
      BY <2>2, <2>4, StackNow
    <2>7. up' \in Seq(Tokens) /\ down' \in Seq(Answers)
      BY <2>2, ReadsTypes, SaysTypes, SaysOne
    <2>8. disk' \in Disks /\ faults' \subseteq RcpFaults
      BY <1>0, <2>2, <2>3, DOpenFacts DEF Adds
    <2> QED BY <1>0, <2>2, <2>4, <2>6, <2>7, <2>8, SinkTypes
  <1> QED BY <1>1, <1>2, <1>3, <1>4, <1>5, <1>6, <1>7, <1>8, <1>9, <1>10, SinkStoresTypes DEF SinkKinds

----------------------------------------------------------------------------
(* The two ends stay in step.                                               *)
LEMMA Appended ==
  ASSUME RcpTypes, NEW t \in Tokens, Sends(<<t>>), ~cut
  PROVE  /\ Len(up) \in Nat /\ DOMAIN up = 1 .. Len(up) /\ DOMAIN up' = 1 .. Len(up) + 1 /\ Len(up') = Len(up) + 1
         /\ up'[Len(up) + 1] = t /\ \A i \in 1 .. Len(up) : up'[i] = up[i]
  <1>1. up \in Seq(Tokens) /\ <<t>> \in Seq(Tokens)
    BY Flows
  <1>2. up' = up \o <<t>>
    BY DEF Sends
  <1> QED BY <1>1, <1>2

LEMMA Shifted ==
  ASSUME RcpTypes, Reads
  PROVE  /\ Len(up) \in Nat \ {0} /\ DOMAIN up = 1 .. Len(up) /\ DOMAIN up' = 1 .. Len(up) - 1 /\ Len(up') = Len(up) - 1
         /\ \A i \in 1 .. Len(up) - 1 : up'[i] = up[i + 1]
         /\ Head(up) = up[1] /\ 1 \in DOMAIN up
  <1>1. up \in Seq(Tokens) /\ up # <<>> /\ up' = Tail(up)
    BY Flows DEF Reads
  <1> QED BY <1>1

LEMMA ShortTail ==
  ASSUME NEW S, NEW s \in Seq(S), s # <<>>
  PROVE  /\ Len(s) \in Nat \ {0} /\ Len(Tail(s)) = Len(s) - 1
         /\ Len(s) = 1 => Tail(s) = <<>> /\ s = <<Head(s)>>
         /\ Len(s) = 2 => Tail(s) = <<s[2]>>
  <1>1. Len(s) \in Nat \ {0} /\ Len(Tail(s)) = Len(s) - 1 /\ Tail(s) \in Seq(S) /\ Head(s) \in S /\ Head(s) = s[1]
        /\ \A i \in 1 .. Len(s) : s[i] \in S
    OBVIOUS
  <1>5. PICK u : u = Tail(s)
    OBVIOUS
  <1>6. u \in Seq(S) /\ Len(u) = Len(s) - 1 /\ \A i \in 1 .. Len(u) : u[i] = s[i + 1]
    BY <1>5
  <1>2. Len(s) = 1 => Tail(s) = <<>>
    <2>1. Len(s) = 1 => Len(u) = 0
      BY <1>6
    <2> QED BY <1>5, <1>6, <2>1, EmptySeq
  <1>3. ASSUME Len(s) = 1 PROVE s = <<Head(s)>>
    <2>1. PICK t : t = <<Head(s)>>
      OBVIOUS
    <2>2. t \in Seq(S) /\ Len(t) = 1 /\ t[1] = Head(s)
      BY <1>1, <2>1
    <2>3. \A i \in 1 .. Len(s) : s[i] = t[i]
      BY <1>1, <1>3, <2>2
    <2>4. s = t
      BY <1>1, <1>3, <2>2, <2>3, SeqEqual
    <2> QED BY <2>1, <2>4
  <1>4. ASSUME Len(s) = 2 PROVE Tail(s) = <<s[2]>>
    <2>1. PICK t : t = <<s[2]>>
      OBVIOUS
    <2>2. t \in Seq(S) /\ Len(t) = 1 /\ t[1] = s[2]
      BY <1>1, <1>4, <2>1
    <2>4. u \in Seq(S) /\ Len(u) = 1 /\ u[1] = s[2]
      BY <1>4, <1>6
    <2>5. \A i \in 1 .. Len(u) : u[i] = t[i]
      BY <2>2, <2>4
    <2>6. u = t
      BY <2>2, <2>4, <2>5, SeqEqual
    <2> QED BY <1>5, <2>1, <2>6
  <1> QED BY <1>1, <1>2, <1>3, <1>4

LEMMA Heard ==
  ASSUME RcpTypes, NEW answer, Hears(answer)
  PROVE  /\ Len(down) \in Nat \ {0} /\ Len(down') = Len(down) - 1 /\ Head(down) = answer /\ down # <<>>
         /\ Len(down) = 1 => down' = <<>> /\ down = <<answer>>
         /\ Len(down) = 2 => Len(down') = 1 /\ down' = <<down[2]>>
  <1>1. down \in Seq(Answers) /\ down # <<>> /\ down' = Tail(down) /\ Head(down) = answer
    BY Flows DEF Hears
  <1>2. /\ Len(down) \in Nat \ {0} /\ Len(Tail(down)) = Len(down) - 1
        /\ Len(down) = 1 => Tail(down) = <<>> /\ down = <<Head(down)>>
        /\ Len(down) = 2 => Tail(down) = <<down[2]>>
    BY <1>1, ShortTail
  <1>3. Len(down) = 2 => Len(down') = 1
    BY <1>1, <1>2
  <1> QED BY <1>1, <1>2, <1>3

(* What a source sends. *)
File(good, t) == Units(Item, good) \o <<t>>

LEMMA OneMore ==
  ASSUME NEW s \in Seq(Tokens), NEW t \in Tokens
  PROVE  /\ s \o <<t>> \in Seq(Tokens) /\ Len(s \o <<t>>) = Len(s) + 1 /\ (s \o <<t>>)[Len(s) + 1] = t
         /\ \A i \in 1 .. Len(s) : (s \o <<t>>)[i] = s[i]
  OBVIOUS

LEMMA SentUnits ==
  ASSUME RcpTypes, src.at <= Len(Plan), NEW good \in BOOLEAN, NEW t \in Tokens
  PROVE  /\ File(good, t) \in Seq(Tokens) /\ Len(File(good, t)) = Item.n + 1 /\ Item.n \in Nat /\ File(good, t)[Item.n + 1] = t
         /\ DOMAIN File(good, t) = 1 .. Item.n + 1
         /\ \A i \in 1 .. Item.n : File(good, t)[i] = IF good \/ i = 1 THEN Unit(Item.path, i) ELSE Garbage
  <1>1. PICK u : u = Units(Item, good)
    OBVIOUS
  <1>2. u \in Seq(Tokens) /\ Len(u) = Item.n /\ Item.n \in Nat /\ \A i \in 1 .. Item.n : u[i] = IF good \/ i = 1 THEN Unit(Item.path, i) ELSE Garbage
    BY <1>1, UnitsFacts
  <1>3. PICK f : f = File(good, t)
    OBVIOUS
  <1>4. f = u \o <<t>>
    BY <1>1, <1>3 DEF File
  <1>5. /\ f \in Seq(Tokens) /\ Len(f) = Len(u) + 1 /\ f[Len(u) + 1] = t /\ \A i \in 1 .. Len(u) : f[i] = u[i]
    BY <1>2, <1>4, OneMore
  <1>6. /\ f \in Seq(Tokens) /\ Len(f) = Item.n + 1 /\ f[Item.n + 1] = t /\ \A i \in 1 .. Item.n : f[i] = u[i]
    BY <1>2, <1>5
  <1>7. DOMAIN f = 1 .. Item.n + 1
    BY <1>6
  <1> QED BY <1>2, <1>3, <1>6, <1>7

LEMMA UnitKinds ==
  /\ \A p, i : Unit(p, i).k = "unit" /\ Unit(p, i).path = p /\ Unit(p, i).n = i
  /\ Garbage.k = "garbage" /\ ErrRec.k = "err" /\ Part.k = "part"
  /\ \A p : Rec("end", p).k = "end" /\ Rec("T", p).k = "T"
  BY DEF Unit, Rec, Garbage, ErrRec, Part

\* A file on its way has its units and then one byte or an error.
LEMMA SentFile ==
  ASSUME RcpTypes, src.at <= Len(Plan), SSent \/ SSpoilt
  PROVE  \E r \in Seq(Tokens) :
           /\ Sends(r) /\ Len(r) = Item.n + 1 /\ Item.n \in Nat /\ DOMAIN r = 1 .. Item.n + 1
           /\ r[Item.n + 1].k = IF SSent THEN "end" ELSE "err"
           /\ \A i \in 1 .. Item.n : r[i].k \in {"unit", "garbage"}
  <1>1. Rec("end", Item.path) \in Tokens /\ ErrRec \in Tokens
    BY AtFacts, SentTokens DEF Tokens
  <1>2. CASE SSent
    <2>1. PICK r : r = File(TRUE, Rec("end", Item.path))
      OBVIOUS
    <2>2. /\ r \in Seq(Tokens) /\ Len(r) = Item.n + 1 /\ Item.n \in Nat /\ DOMAIN r = 1 .. Item.n + 1 /\ r[Item.n + 1] = Rec("end", Item.path)
          /\ \A i \in 1 .. Item.n : r[i] = IF TRUE \/ i = 1 THEN Unit(Item.path, i) ELSE Garbage
      BY <1>1, <2>1, SentUnits
    <2>3. Sends(r)
      BY <1>2, <2>1 DEF SSent, File
    <2> QED BY <1>2, <2>2, <2>3, UnitKinds
  <1>3. CASE SSpoilt /\ ~SSent
    <2>1. PICK r : r = File(FALSE, ErrRec)
      OBVIOUS
    <2>2. /\ r \in Seq(Tokens) /\ Len(r) = Item.n + 1 /\ Item.n \in Nat /\ DOMAIN r = 1 .. Item.n + 1 /\ r[Item.n + 1] = ErrRec
          /\ \A i \in 1 .. Item.n : r[i] = IF FALSE \/ i = 1 THEN Unit(Item.path, i) ELSE Garbage
      BY <1>1, <2>1, SentUnits
    <2>3. Sends(r)
      BY <1>3, <2>1 DEF SSpoilt, File
    <2> QED BY <1>3, <2>2, <2>3, UnitKinds
  <1> QED BY <1>2, <1>3

LEMMA SrcFields ==
  ASSUME NEW pc, NEW at, NEW e, Src(pc, at, e)
  PROVE  src'.pc = pc /\ src'.at = at /\ src'.errs = src.errs + e
  BY DEF Src

LEMMA SourceRest ==
  ASSUME SourceKinds
  PROVE  opt' = opt /\ snk' = snk /\ disk' = disk /\ cut' = cut
  <1>1. OnlySource
    BY Zenon DEF SourceKinds, SAsk, SMissed, SDone, SMoved, STimed, SSent, SSpoilt, SNoBuffer, SEnded
  <1> QED BY <1>1 DEF OnlySource

\* How the source changes what is on its way to it.
LEMMA SourceDown ==
  ASSUME RcpTypes, DownShape, SourceKinds, NoExtra'
  PROVE  DownShape'
  <1>0. snk' = snk /\ Len(down) \in Nat /\ (down = <<>> => Len(down) = 0)
    BY Flows, SourceRest
  <1>1. CASE SAsk
    <2>1. src'.pc \in Asks /\ down' = down /\ src.pc = "next"
      BY <1>1, SrcFields DEF SAsk
    <2> QED BY <1>0, <2>1 DEF DownShape, Asks
  <1>2. CASE SMissed
    <2>1. src'.pc = "next" /\ down' = down /\ src.pc = "next"
      BY <1>2, SrcFields DEF SMissed
    <2> QED BY <1>0, <2>1 DEF DownShape
  <1>3. CASE SDone \/ (SEnded /\ down' = down)
    <2>1. src'.pc = "exit" /\ down' = down /\ src.pc # "exit"
      BY <1>3, SrcFields DEF SDone, SEnded
    <2> QED BY <1>0, <2>1 DEF DownShape
  <1>4. CASE SMoved
    <2>1. src'.pc = "next" /\ ((Hears("ok") /\ src.pc # "C") \/ Hears("err")) /\ src.pc # "exit"
      BY <1>4, SrcFields DEF SMoved
    <2>4. Len(down) \in Nat \ {0} /\ ((Head(down) = "ok" /\ src.pc # "C") \/ Head(down) = "err")
      BY <2>1, Heard
    <2>5. Len(down) <= 1
      BY <2>1, <2>4 DEF DownShape
    <2>2. Len(down) = 1
      BY <2>4, <2>5, OnlyOne
    <2>3. down' = <<>> /\ Len(down') = 0
      BY <2>1, <2>2, Heard
    <2> QED BY <2>1, <2>3 DEF DownShape
  <1>5. CASE STimed \/ SSent \/ SSpoilt
    <2>1. src'.pc # "next" /\ Hears("ok")
      <3>1. CASE STimed
        <4>1. src'.pc = Item.k /\ Hears("ok")
          BY <3>1, SrcFields DEF STimed
        <4> QED BY <3>1, <4>1, AtFacts DEF STimed, Asks
      <3>2. CASE SSent \/ SSpoilt
        <4>1. src'.pc = "end" /\ Hears("ok")
          BY <3>2, SrcFields DEF SSent, SSpoilt
        <4> QED BY <4>1
      <3> QED BY <1>5, <3>1, <3>2
    <2>3. Len(down) \in Nat \ {0} /\ Len(down') = Len(down) - 1
      BY <2>1, Heard
    <2>2. Len(down') <= 1
      BY <2>3 DEF DownShape
    <2> QED BY <2>1, <2>2 DEF DownShape
  <1>6. CASE SNoBuffer
    BY <1>6 DEF SNoBuffer, NoExtra, Extra, Adds
  <1>7. CASE SEnded /\ Hears("err")
    <2>1. src'.pc = "exit"
      BY <1>7, SrcFields DEF SEnded
    <2>2. Len(down) \in Nat \ {0} /\ Len(down') = Len(down) - 1
      BY <1>7, Heard
    <2>3. Len(down') <= 1
      BY <2>2 DEF DownShape
    <2> QED BY <2>1, <2>3 DEF DownShape
  <1>8. CASE SEnded
    <2>1. down' = down \/ Hears("err")
      BY <1>8 DEF SEnded
    <2> QED BY <1>3, <1>7, <1>8, <2>1
  <1>9. CASE SSent \/ SSpoilt
    BY <1>5, <1>9
  <1>10. SAsk \/ SMissed \/ SDone \/ SMoved \/ STimed \/ SSent \/ SSpoilt \/ SNoBuffer \/ SEnded
    BY DEF SourceKinds
  <1> QED BY <1>1, <1>2, <1>3, <1>4, <1>5, <1>6, <1>8, <1>9, <1>10

LEMMA SourceSame ==
  ASSUME RcpTypes, SourceKinds, cut
  PROVE  up' = up /\ snk' = snk /\ cut'
  <1>1. cut' /\ snk' = snk
    BY SourceRest
  <1>2. ASSUME NEW sent, Sends(sent) PROVE up' = up
    BY <1>2, Flows DEF Sends
  <1> QED BY <1>1, <1>2 DEF SourceKinds, SAsk, SMissed, SDone, SMoved, STimed, SSent, SSpoilt, SNoBuffer, SEnded

(* A step of the source while both ends are there. *)
Live == ~cut /\ snk.pc # "exit" /\ Link /\ UpShape /\ DownShape /\ Whole

\* In step: the source asks with a record.
LEMMA AskInStep ==
  ASSUME RcpTypes, Live, SAsk \/ SMissed
  PROVE  UpShape' /\ Link'
  <1>1. PICK t \in Tokens : /\ Sends(<<t>>) /\ snk' = snk /\ down' = down /\ src.pc = "next"
                            /\ \/ src'.pc \in Asks /\ t.k = src'.pc /\ (src'.pc = "C" => t.n = Item'.n)
                               \/ src'.pc = "next" /\ t.k = "err"
    <2>0. ASSUME src.at <= Len(Plan) PROVE Item \in Tokens /\ Rec("T", Item.path) \in Tokens /\ ErrRec \in Tokens
      BY <2>0, AtFacts, SentTokens DEF Tokens
    <2>1. CASE SAsk
      <3>1. PICK pc \in Asks : /\ Src(pc, src.at, 0) /\ Sends(<<AskFor(pc)>>)
                      /\ IF pc = "T" THEN Item.k \in {"C", "D"} /\ opt.pflag ELSE Item.k = pc /\ (pc = "E" \/ ~opt.pflag)
        BY <2>1 DEF SAsk
      <3>2. AskFor(pc) \in Tokens /\ AskFor(pc).k = pc /\ (pc = "C" => AskFor(pc).n = Item.n)
        BY <2>0, <2>1, <3>1, UnitKinds DEF AskFor, SAsk
      <3>3. src'.pc = pc /\ src'.at = src.at
        BY <3>1, SrcFields
      <3>4. Item' = Item
        BY <2>1, <3>3 DEF SAsk, OnlySource, Item, Plan
      <3> QED BY <2>1, <3>1, <3>2, <3>3, <3>4 DEF SAsk, OnlySource
    <2>2. CASE SMissed
      <3>1. src'.pc = "next" /\ Sends(<<ErrRec>>)
        BY <2>2, SrcFields DEF SMissed
      <3>2. ErrRec \in Tokens /\ ErrRec.k = "err" /\ src.pc = "next" /\ snk' = snk /\ down' = down
        BY <2>0, <2>2, UnitKinds DEF SMissed, OnlySource
      <3> QED BY <3>1, <3>2
    <2> QED BY <2>1, <2>2
  <1>2. /\ Len(up) \in Nat /\ DOMAIN up = 1 .. Len(up) /\ DOMAIN up' = 1 .. Len(up) + 1 /\ Len(up') = Len(up) + 1
        /\ up'[Len(up) + 1] = t /\ \A i \in 1 .. Len(up) : up'[i] = up[i]
    BY <1>1, Appended DEF Live
  <1>3. Listens /\ down = <<>> /\ AllErr(Len(up)) /\ UpShape /\ (snk.pc = "resp" => Len(up) >= 1 /\ up[1].k # "part")
    BY <1>1, <1>2 DEF Live, Link, Listens, Early
  <1>4. snk.pc \in {"rec", "resp"} /\ (snk.pc = "rec" => \A i \in 1 .. Len(up) : up[i].k = "err")
        /\ (snk.pc = "resp" => \A i \in 1 .. Len(up) : i > 1 => up[i].k = "err")
    BY <1>2, <1>3 DEF AllErr, After, Listens, Early
  <1>5. UpShape'
    BY <1>1, <1>2, <1>3, <1>4 DEF UpShape, Asks
  <1>6. Listens'
    BY <1>1, <1>2, <1>3, <1>4 DEF Listens, Early
  <1>7. AllErr(Len(up) - 1)' /\ (t.k = "err" => AllErr(Len(up))') /\ After' = After /\ Len(up') > After
    BY <1>1, <1>2, <1>3, <1>4 DEF AllErr, After
  <1>8. CASE src'.pc = "next" /\ t.k = "err"
    BY <1>1, <1>3, <1>5, <1>6, <1>7, <1>8 DEF Link
  <1>9. CASE src'.pc \in Asks /\ t.k = src'.pc /\ (src'.pc = "C" => t.n = Item'.n)
    <2>1. Coming'
      BY <1>1, <1>2, <1>3, <1>6, <1>7, <1>9 DEF Coming
    <2> QED BY <1>5, <1>9, <2>1 DEF Link, Asks
  <1> QED BY <1>1, <1>8, <1>9

\* In step: the source goes on to the next item.
LEMMA MovedInStep ==
  ASSUME RcpTypes, Live, SMoved \/ SDone
  PROVE  UpShape' /\ Link'
  <1>0. snk' = snk /\ up' = up /\ Len(up) \in Nat /\ DOMAIN up = 1 .. Len(up)
    <2>1. up \in Seq(Tokens)
      BY Flows
    <2> QED BY <2>1 DEF SMoved, SDone, OnlySource
  <1>1. UpShape'
    BY <1>0 DEF Live, UpShape
  <1>2. CASE SDone
    <2>1. src'.pc = "exit" /\ src.pc = "next" /\ down' = down
      BY <1>2, SrcFields DEF SDone
    <2>2. Listens /\ down = <<>> /\ AllErr(Len(up))
      BY <2>1 DEF Live, Link
    <2>3. Listens' /\ AllErr(Len(up))'
      BY <1>0, <2>2 DEF Listens, Early, AllErr, After
    <2> QED BY <1>1, <2>1, <2>2, <2>3 DEF Link
  <1>3. CASE SMoved
    <2>1. src'.pc = "next" /\ src.pc \in {"start", "D", "E", "end", "T", "C"} /\ (Hears("ok") \/ Hears("err"))
      BY <1>3, SrcFields DEF SMoved
    <2>2. src.pc = "C" => Hears("err")
      BY <1>3 DEF SMoved
    <2>3. down # <<>>
      BY <2>1 DEF Hears
    <2>4. Listens /\ Len(down) = 1 /\ AllErr(Len(up))
      <3>1. CASE src.pc = "start"
        <4>1. snk.pc = "rec" /\ down = <<"ok">> /\ up = <<>>
          BY <2>3, <3>1 DEF Live, Link
        <4> QED BY <4>1 DEF Listens, AllErr
      <3>2. CASE src.pc \in {"T", "D", "E"}
        BY <2>3, <3>2 DEF Live, Link, Coming, Answered, Listens, AllErr
      <3>3. CASE src.pc = "C"
        <4>1. Head(down) = "err"
          BY <2>2, <3>3 DEF Hears
        <4>2. ~Accepted
          <5>1. Head(<<"ok">>) = "ok" /\ Head(<<"ok", "err">>) = "ok"
            OBVIOUS
          <5> QED BY <4>1, <5>1 DEF Accepted
        <4>3. Answered
          BY <2>3, <3>3, <4>2 DEF Live, Link, Coming
        <4> QED BY <4>3 DEF Answered, Listens, AllErr
      <3>4. CASE src.pc = "end"
        <4>1. CASE Answered
          BY <4>1 DEF Answered, Listens, AllErr
        <4>2. CASE Filling
          <5>1. snk.pc = "resp" /\ Len(up) = 1 /\ snk.wrerr = "displayed" /\ down = <<"err">>
            BY <2>3, <4>2 DEF Filling
          <5>2. up # <<>> /\ up[1].k # "part"
            BY <1>0, <5>1 DEF Live, Whole
          <5> QED BY <1>0, <5>1, <5>2 DEF Listens, Early, AllErr, After
        <4> QED BY <3>4, <4>1, <4>2 DEF Live, Link
      <3> QED BY <2>1, <3>1, <3>2, <3>3, <3>4
    <2>5. down' = <<>>
      BY <2>1, <2>4, Heard
    <2>6. Listens' /\ AllErr(Len(up))'
      BY <1>0, <2>4 DEF Listens, Early, AllErr, After
    <2> QED BY <1>1, <2>1, <2>5, <2>6 DEF Link
  <1> QED BY <1>2, <1>3

\* In step: the source sends the record that follows the times.
LEMMA TimedInStep ==
  ASSUME RcpTypes, Live, STimed
  PROVE  UpShape' /\ Link'
  <1>0. snk' = snk /\ src.pc = "T" /\ src'.pc = Item.k /\ src'.at = src.at /\ opt' = opt /\ Sends(<<Item>>) /\ Hears("ok")
    BY SrcFields DEF STimed, OnlySource
  <1>1. Item' = Item /\ Item \in Tokens /\ Item.k \in {"C", "D"}
    <2>1. Item' = Item
      BY <1>0 DEF Item, Plan
    <2> QED BY <1>0, <2>1, AtFacts DEF AtOf, Asks
  <1>2. down # <<>>
    BY <1>0 DEF Hears
  <1>3. Answered
    BY <1>0, <1>2 DEF Live, Link, Coming
  <1>4. snk.pc = "rec" /\ up = <<>> /\ down' = <<>>
    BY <1>0, <1>3, Heard DEF Answered
  <1>5. Len(up') = 1 /\ up'[1] = Item /\ DOMAIN up' = 1 .. 1
    <2>1. Len(up) = 0
      BY <1>4
    <2> QED BY <1>0, <1>1, <2>1, Appended DEF Live
  <1>6. UpShape'
    BY <1>0, <1>1, <1>4, <1>5 DEF UpShape, Asks
  <1>7. Coming'
    BY <1>0, <1>1, <1>4, <1>5 DEF Coming, Listens, After, AllErr
  <1> QED BY <1>0, <1>1, <1>6, <1>7 DEF Link

\* In step: the source sends the file.
LEMMA FileInStep ==
  ASSUME RcpTypes, Live, SSent \/ SSpoilt
  PROVE  UpShape' /\ Link'
  <1>0. snk' = snk /\ src.pc = "C" /\ src'.pc = "end" /\ Hears("ok")
    BY SrcFields DEF SSent, SSpoilt, OnlySource
  <1>1. PICK r \in Seq(Tokens) :
           /\ Sends(r) /\ Len(r) = Item.n + 1 /\ Item.n \in Nat /\ DOMAIN r = 1 .. Item.n + 1
           /\ r[Item.n + 1].k = IF SSent THEN "end" ELSE "err"
           /\ \A i \in 1 .. Item.n : r[i].k \in {"unit", "garbage"}
    BY <1>0, SentFile, AtFacts
  <1>2. Head(down) = "ok" /\ down # <<>>
    BY <1>0 DEF Hears
  <1>3. Accepted
    <2>1. down # <<"err">>
      BY <1>2
    <2> QED BY <1>0, <1>2, <2>1 DEF Live, Link, Coming
  <1>4. up' = r
    BY <1>1, <1>3, Sent, Flows DEF Live, Accepted, Sends
  <1>5. CASE snk.pc = "data" /\ snk.got = <<>> /\ down = <<"ok">>
    <2>1. Len(snk.got) = 0 /\ Len(down) = 1 /\ snk.size = Item.n
      BY <1>3, <1>5 DEF Accepted
    <2>2. down' = <<>>
      BY <1>0, <2>1, Heard
    <2>3. UpShape'
      BY <1>0, <1>1, <1>4, <1>5, <2>1 DEF UpShape
    <2>4. Filling'
      BY <1>0, <1>1, <1>4, <1>5, <2>1, <2>2 DEF Filling
    <2> QED BY <1>0, <2>3, <2>4 DEF Link
  <1>6. CASE snk.pc = "resp" /\ snk.size = 0 /\ down = IF snk.wrerr = "displayed" THEN <<"ok", "err">> ELSE <<"ok">>
    <2>1. Item.n = 0
      BY <1>3, <1>6 DEF Accepted
    <2>2. down' = IF snk.wrerr = "displayed" THEN <<"err">> ELSE <<>>
      <3>1. CASE snk.wrerr = "displayed"
        <4>1. Len(down) = 2 /\ down[2] = "err"
          BY <1>6, <3>1
        <4> QED BY <1>0, <3>1, <4>1, Heard
      <3>2. CASE snk.wrerr # "displayed"
        <4>1. Len(down) = 1
          BY <1>6, <3>2
        <4> QED BY <1>0, <3>2, <4>1, Heard
      <3> QED BY <3>1, <3>2
    <2>3. Len(up') = 1 /\ DOMAIN up' = 1 .. 1 /\ up'[1].k \in {"end", "err"}
      BY <1>1, <1>4, <2>1
    <2>4. UpShape'
      BY <1>0, <1>6, <2>3 DEF UpShape
    <2>5. Filling'
      BY <1>0, <1>6, <2>2, <2>3 DEF Filling
    <2> QED BY <1>0, <2>4, <2>5 DEF Link
  <1> QED BY <1>3, <1>5, <1>6 DEF Accepted

\* In step: the source.
LEMMA SourceInStep ==
  ASSUME RcpTypes, Whole, InStep, SourceKinds
  PROVE  InStep'
  <1> SUFFICES ASSUME NoExtra'
               PROVE  UpShape' /\ DownShape' /\ (~cut' /\ snk'.pc # "exit" => Link')
    BY DEF InStep
  <1>0. NoExtra /\ snk' = snk /\ cut' = cut
    <2>1. faults \subseteq faults'
      BY DEF SourceKinds, SAsk, SMissed, SDone, SMoved, STimed, SSent, SSpoilt, SNoBuffer, SEnded, Adds
    <2> QED BY <2>1, SourceRest DEF NoExtra
  <1>1. UpShape /\ DownShape /\ (~cut /\ snk.pc # "exit" => Link)
    BY <1>0 DEF InStep
  <1>2. DownShape'
    BY <1>1, SourceDown
  <1>3. CASE cut
    <2>1. up' = up
      BY <1>3, SourceSame
    <2> QED BY <1>0, <1>1, <1>2, <1>3, <2>1 DEF UpShape
  <1>4. CASE snk.pc = "exit"
    BY <1>0, <1>2, <1>4 DEF UpShape
  <1>5. CASE ~cut /\ snk.pc # "exit"
    <2>1. Live
      BY <1>1, <1>5 DEF Live
    <2>2. CASE SEnded
      <3>1. CASE src.pc = "start" /\ Hears("err")
        <4>1. down = <<"ok">> \/ down = <<>>
          BY <2>1, <3>1 DEF Live, Link
        <4>2. Head(<<"ok">>) = "ok"
          OBVIOUS
        <4> QED BY <3>1, <4>1, <4>2 DEF Hears
      <3>2. CASE SinkGone
        BY <1>5, <3>2 DEF SinkGone
      <3> QED BY <2>2, <3>1, <3>2 DEF SEnded
    <2>3. ~SNoBuffer
      BY DEF SNoBuffer, Adds, NoExtra, Extra
    <2> QED BY <1>2, <2>1, <2>2, <2>3, AskInStep, MovedInStep, TimedInStep, FileInStep DEF SourceKinds
  <1> QED BY <1>3, <1>4, <1>5

(* The sink. *)
LEMMA SinkRest ==
  ASSUME SinkKinds
  PROVE  opt' = opt /\ src' = src /\ cut' = cut /\ snk.pc # "exit"
  <1>1. OnlySink
    BY Zenon DEF SinkKinds, KStarted, KGone, KReturned, KBack, KErr, KTimes, KRefused, KEntered, KCreated, KNoBuffer, KUnit, KWritten, KAnswered
  <1>2. snk.pc # "exit"
    BY DEF SinkKinds, KStarted, KGone, KReturned, KBack, KErr, KTimes, KRefused, KEntered, KCreated, KNoBuffer, KUnit, KWritten, KAnswered
  <1> QED BY <1>1, <1>2 DEF OnlySink

LEMMA SnkFields ==
  ASSUME NEW pc, NEW stack, NEW e, Snk(pc, stack, e)
  PROVE  /\ snk'.pc = pc /\ snk'.stack = stack /\ snk'.errs = snk.errs + e /\ snk'.np = snk.np /\ snk'.size = snk.size
         /\ snk'.got = snk.got /\ snk'.wrerr = snk.wrerr
  BY DEF Snk, Kept

(* Which of them read a record and go on to the next. *)
LEMMA RecordRead ==
  ASSUME KErr \/ KTimes \/ KRefused \/ KEntered \/ KNoBuffer
  PROVE  snk.pc = "rec" /\ Reads /\ snk'.pc = "rec" /\ Head(up).k \in Asks \cup {"err"}
  BY SnkFields DEF KErr, KTimes, KRefused, KEntered, KNoBuffer, Asks

LEMMA RecordUp ==
  ASSUME RcpTypes, UpShape, snk.pc = "rec", Reads, snk'.pc = "rec"
  PROVE  UpShape'
  BY Shifted DEF UpShape

\* How the sink changes what is on its way to it.
LEMMA SinkUp ==
  ASSUME RcpTypes, UpShape, SinkKinds
  PROVE  UpShape'
  <1>0. snk.size \in Nat /\ Len(snk.got) \in Nat /\ Len(up) \in Nat /\ DOMAIN up = 1 .. Len(up) /\ (up = <<>> <=> Len(up) = 0)
    <2>1. up \in Seq(Tokens)
      BY Flows
    <2>2. Len(up) \in Nat /\ DOMAIN up = 1 .. Len(up) /\ (up = <<>> <=> Len(up) = 0)
      BY <2>1
    <2> QED BY <2>2, SinkIs
  <1>1. CASE KStarted
    <2>1. up' = <<>> /\ snk'.pc = "rec"
      BY <1>1, SnkFields DEF KStarted, UpShape
    <2> QED BY <2>1 DEF UpShape
  <1>2. CASE KGone \/ KReturned
    <2>1. snk'.pc = "exit"
      BY <1>2, SnkFields DEF KGone, KReturned
    <2> QED BY <2>1 DEF UpShape
  <1>3. CASE KBack
    <2>1. snk'.pc = "rec" /\ snk.pc = "rec" /\ (up' = up \/ Reads)
      BY <1>3, SnkFields DEF KBack
    <2>2. CASE Reads
      BY <2>1, <2>2, RecordUp
    <2>3. CASE up' = up
      BY <2>1, <2>3 DEF UpShape
    <2> QED BY <2>1, <2>2, <2>3
  <1>4. CASE KErr \/ KTimes \/ KRefused \/ KEntered \/ KNoBuffer
    BY <1>4, RecordRead, RecordUp
  <1>5. CASE KCreated
    <2>1. snk.pc = "rec" /\ Reads /\ Head(up).k = "C" /\ snk'.pc = "data"
      BY <1>5 DEF KCreated
    <2>2. Len(up) = 1
      <3>1. Len(up) # 0 /\ up[1].k = "C" /\ 1 \in DOMAIN up
        BY <2>1, Shifted
      <3>2. ~(1 < Len(up))
        BY <2>1, <3>1 DEF UpShape
      <3> QED BY <1>0, <3>1, <3>2
    <2>3. Len(up') = 0 /\ DOMAIN up' = 1 .. 0
      BY <2>1, <2>2, Shifted
    <2>4. snk'.size \in Nat /\ Len(snk'.got) = 0
      <3>1. Head(up).n \in Nat
        <4>1. Head(up) \in Tokens
          BY <2>1, ReadsTypes
        <4> QED BY <4>1, RcpAssumption DEF Tokens, Sizes
      <3> QED BY <1>5, <3>1 DEF KCreated
    <2> QED BY <2>1, <2>3, <2>4 DEF UpShape
  <1>6. CASE KUnit
    <2>1. snk.pc = "data" /\ Reads /\ snk'.pc = "data" /\ snk'.size = snk.size /\ Len(snk.got) < snk.size
      BY <1>6 DEF KUnit
    <2>2. Len(snk'.got) = Len(snk.got) + 1
      BY <1>6, SinkIs DEF KUnit
    <2>3. /\ Len(up') = Len(up) - 1 /\ DOMAIN up' = 1 .. Len(up) - 1 /\ \A i \in 1 .. Len(up) - 1 : up'[i] = up[i + 1]
      BY <2>1, Shifted
    <2>4. snk'.size - Len(snk'.got) = (snk.size - Len(snk.got)) - 1
      BY <1>0, <2>1, <2>2
    <2>5. PICK r \in Nat : r = snk.size - Len(snk.got)
      BY <1>0, <2>1
    <2>6. /\ Len(up) <= r + 1
          /\ \A i \in DOMAIN up : IF i <= r THEN up[i].k \in {"unit", "garbage", "part"} /\ (i < Len(up) => up[i].k # "part")
                                   ELSE up[i].k \in {"end", "err", "part"}
      BY <2>1, <2>5 DEF UpShape
    <2>7. /\ Len(up') <= (r - 1) + 1
          /\ \A i \in DOMAIN up' : IF i <= r - 1 THEN up'[i].k \in {"unit", "garbage", "part"} /\ (i < Len(up') => up'[i].k # "part")
                                   ELSE up'[i].k \in {"end", "err", "part"}
      <3>1. Len(up') <= (r - 1) + 1
        BY <1>0, <2>3, <2>6
      <3>2. ASSUME NEW i \in DOMAIN up'
            PROVE  IF i <= r - 1 THEN up'[i].k \in {"unit", "garbage", "part"} /\ (i < Len(up') => up'[i].k # "part")
                                   ELSE up'[i].k \in {"end", "err", "part"}
        <4>1. i \in Int /\ i + 1 \in DOMAIN up /\ up'[i] = up[i + 1] /\ (i <= r - 1 <=> i + 1 <= r) /\ (i < Len(up') <=> i + 1 < Len(up))
          BY <1>0, <2>3
        <4> QED BY <2>6, <4>1
      <3> QED BY <3>1, <3>2
    <2> QED BY <2>1, <2>4, <2>5, <2>7 DEF UpShape
  <1>7. CASE KWritten
    <2>1. snk.pc = "data" /\ snk'.pc = "resp" /\ up' = up /\ Len(snk.got) = snk.size
      BY <1>7 DEF KWritten
    <2> QED BY <1>0, <2>1 DEF UpShape
  <1>8. CASE KAnswered
    <2>1. snk.pc = "resp" /\ snk'.pc = "rec" /\ Reads
      BY <1>8, SnkFields DEF KAnswered
    <2> QED BY <1>0, <2>1, Shifted DEF UpShape
  <1> QED BY <1>1, <1>2, <1>3, <1>4, <1>5, <1>6, <1>7, <1>8 DEF SinkKinds

(* What the sink's next record tells of the source. *)
LEMMA RecordOf ==
  ASSUME RcpTypes, Live, snk.pc = "rec", Reads, Head(up).k \in Asks
  PROVE  src.pc = Head(up).k /\ up' = <<>> /\ up = <<Head(up)>> /\ down = <<>> /\ Len(up) = 1 /\ (src.pc = "C" => Head(up).n = Item.n)
  <1>1. /\ Len(up) \in Nat \ {0} /\ DOMAIN up = 1 .. Len(up) /\ Head(up) = up[1] /\ 1 \in DOMAIN up /\ up # <<>> /\ up \in Seq(Tokens) /\ up' = Tail(up)
    BY Shifted, Flows DEF Reads
  <1>2. up[1].k # "err"
    BY <1>1 DEF Asks
  <1>3. ~AllErr(Len(up)) /\ (AllErr(Len(up) - 1) => Len(up) <= 1)
    BY <1>1, <1>2 DEF AllErr, After
  <1>4. src.pc \in {"start", "next", "exit", "end"} \cup Asks
    BY AtFacts
  <1>5. Coming
    BY <1>1, <1>3, <1>4 DEF Live, Link, Answered, Accepted, Filling, Asks
  <1>6. Len(up) = 1
    BY <1>1, <1>3, <1>5, OnlyOne DEF Coming
  <1>7. up' = <<>> /\ up = <<Head(up)>>
    BY <1>1, <1>6, ShortTail
  <1>8. up[1].k = src.pc /\ (src.pc = "C" => up[1].n = Item.n) /\ down = <<>>
    BY <1>5, <1>6 DEF Coming
  <1> QED BY <1>1, <1>6, <1>7, <1>8

(* What it says goes out if the stream is whole. *)
LEMMA SaidNow ==
  ASSUME RcpTypes, ~cut, down = <<>>, NEW answers \in Seq(Answers), Says(answers)
  PROVE  down' = answers
  BY DEF Says

LEMMA SaidNothing ==
  ASSUME RcpTypes, NEW answers, Says(answers), cut \/ answers = <<>>
  PROVE  down' = down
  BY NothingSent DEF Says

LEMMA NoAnswer ==
  ASSUME src' = src, down' = <<>>
  PROVE  DownShape'
  BY DEF DownShape

LEMMA OneAnswer ==
  ASSUME src' = src, Len(down') = 1, src.pc # "next" \/ snk'.pc = "exit"
  PROVE  DownShape'
  BY DEF DownShape

\* In step: the sink says that it is ready.
LEMMA StartInStep ==
  ASSUME RcpTypes, Live, KStarted
  PROVE  DownShape' /\ Link'
  <1>1. snk.pc = "start" /\ snk'.pc = "rec" /\ up' = up /\ src' = src /\ Says(<<"ok">>)
    BY SnkFields DEF KStarted, OnlySink
  <1>2. src.pc \in {"start", "next", "exit", "end"} \cup Asks
    BY AtFacts
  <1>3. src.pc = "start"
    BY <1>1, <1>2 DEF Live, Link, Coming, Answered, Accepted, Filling, Listens, Early, Asks
  <1>4. up = <<>> /\ down = <<>>
    BY <1>1, <1>3 DEF Live, Link
  <1>5. down' = <<"ok">>
    BY <1>1, <1>4, SaysOne, SaidNow DEF Live
  <1>6. Len(down') = 1
    BY <1>5
  <1>7. Link'
    BY <1>1, <1>3, <1>4, <1>5 DEF Link
  <1> QED BY <1>1, <1>3, <1>6, <1>7, OneAnswer

\* In step: the sink answers a record.
LEMMA AnsweredInStep ==
  ASSUME RcpTypes, Live, src' = src, opt' = opt, snk.pc = "rec", Reads, Head(up).k \in Asks, snk'.pc = "rec",
         \/ Says(<<"ok">>) /\ Head(up).k # "C"
         \/ Says(<<"err">>)
  PROVE  DownShape' /\ Link'
  <1>1. src.pc = Head(up).k /\ up' = <<>> /\ down = <<>>
    BY RecordOf
  <1>2. (down' = <<"ok">> /\ Head(up).k # "C") \/ down' = <<"err">>
    BY <1>1, SaysOne, SaidNow DEF Live
  <1>3. Len(down') = 1
    BY <1>2
  <1>4. Answered'
    BY <1>1, <1>3 DEF Answered
  <1>5. Link'
    BY <1>1, <1>2, <1>4 DEF Link, Asks
  <1>6. src.pc # "next"
    BY <1>1 DEF Asks
  <1> QED BY <1>3, <1>5, <1>6, OneAnswer

\* In step: the sink accepts a file.
LEMMA CreatedInStep ==
  ASSUME RcpTypes, Live, KCreated
  PROVE  DownShape' /\ Link'
  <1>1. /\ snk.pc = "rec" /\ Reads /\ Head(up).k = "C" /\ src' = src /\ opt' = opt /\ Says(<<"ok">>) /\ snk'.pc = "data"
        /\ snk'.size = Head(up).n /\ snk'.got = <<>>
    BY DEF KCreated, OnlySink
  <1>2. src.pc = "C" /\ up' = <<>> /\ down = <<>> /\ Head(up).n = Item.n
    BY <1>1, RecordOf DEF Asks
  <1>3. down' = <<"ok">>
    BY <1>1, <1>2, SaysOne, SaidNow DEF Live
  <1>4. Len(down') = 1
    BY <1>3
  <1>5. Item' = Item
    BY <1>1 DEF Item, Plan
  <1>6. Accepted'
    BY <1>1, <1>2, <1>3, <1>5 DEF Accepted
  <1>7. Link'
    BY <1>1, <1>2, <1>6 DEF Link
  <1> QED BY <1>1, <1>2, <1>4, <1>7, OneAnswer

\* In step: the sink reads an error of the source.
LEMMA ErrInStep ==
  ASSUME RcpTypes, Live, KErr
  PROVE  DownShape' /\ Link'
  <1>1. snk.pc = "rec" /\ Reads /\ Head(up).k = "err" /\ src' = src /\ opt' = opt /\ down' = down /\ snk'.pc = "rec"
    BY SnkFields DEF KErr, OnlySink
  <1>2. /\ Len(up) \in Nat \ {0} /\ DOMAIN up = 1 .. Len(up) /\ DOMAIN up' = 1 .. Len(up) - 1 /\ Len(up') = Len(up) - 1
        /\ \A i \in 1 .. Len(up) - 1 : up'[i] = up[i + 1]
        /\ Head(up) = up[1] /\ 1 \in DOMAIN up /\ up # <<>>
    BY <1>1, Shifted DEF Reads
  <1>3. src.pc \in {"start", "next", "exit", "end"} \cup Asks /\ Item' = Item
    BY <1>1, AtFacts DEF Item, Plan
  <1>4. down = <<>>
    BY <1>1, <1>2, <1>3 DEF Live, Link, Coming, Answered, Accepted, Filling, Asks
  <1>5. Listens' /\ After' = 0 /\ After = 0
    BY <1>1 DEF Listens, After
  <1>6. ASSUME AllErr(Len(up)) PROVE AllErr(Len(up))'
    <2>1. \A i \in 1 .. Len(up) : up[i].k = "err"
      BY <1>2, <1>5, <1>6 DEF AllErr
    <2>2. \A i \in 1 .. Len(up) - 1 : up'[i].k = "err"
      BY <1>2, <2>1
    <2> QED BY <1>2, <2>2 DEF AllErr
  <1>7. ASSUME AllErr(Len(up) - 1) PROVE AllErr(Len(up) - 1)'
    BY <1>2, <1>5, <1>7 DEF AllErr
  <1>8. CASE src.pc \in {"next", "exit"}
    <2>1. AllErr(Len(up))
      BY <1>8 DEF Live, Link
    <2>2. Link'
      BY <1>1, <1>4, <1>5, <1>6, <1>8, <2>1 DEF Link
    <2> QED BY <1>1, <1>4, <2>2, NoAnswer
  <1>9. CASE src.pc \in Asks
    <2>1. Coming
      BY <1>1, <1>2, <1>9 DEF Live, Link, Answered, Accepted, Asks
    <2>2. Len(up) > 1
      <3>1. Len(up) # 1
        BY <1>1, <1>2, <1>9, <2>1 DEF Coming, Asks
      <3> QED BY <1>2, <3>1, MoreThanOne
    <2>3. up'[Len(up')] = up[Len(up)] /\ Len(up') > 0
      BY <1>2, <2>2
    <2>4. Coming'
      BY <1>1, <1>3, <1>4, <1>5, <1>7, <2>1, <2>3 DEF Coming
    <2>5. Link'
      BY <1>1, <1>9, <2>4 DEF Link, Asks
    <2> QED BY <1>1, <1>4, <2>5, NoAnswer
  <1>10. CASE src.pc \in {"start", "end"}
    BY <1>1, <1>2, <1>10 DEF Live, Link, Answered, Filling
  <1> QED BY <1>3, <1>8, <1>9, <1>10

\* In step: the sink takes a unit of the file.
LEMMA UnitInStep ==
  ASSUME RcpTypes, Live, KUnit
  PROVE  DownShape' /\ Link'
  <1>1. snk.pc = "data" /\ Reads /\ src' = src /\ down' = down /\ snk'.pc = "data" /\ snk'.size = snk.size /\ up # <<>>
    BY DEF KUnit, OnlySink, Reads
  <1>2. Len(snk'.got) = Len(snk.got) + 1 /\ Len(snk.got) \in Nat /\ snk.size \in Nat
    BY SinkIs DEF KUnit
  <1>3. src.pc \in {"start", "next", "exit", "end"} \cup Asks
    BY AtFacts
  <1>4. src.pc = "end" /\ Filling
    BY <1>1, <1>3 DEF Live, Link, Coming, Answered, Accepted, Listens, Early, Asks
  <1>5. Len(up') = Len(up) - 1 /\ Len(up) \in Nat
    BY <1>1, Shifted
  <1>6. Filling'
    BY <1>1, <1>2, <1>4, <1>5 DEF Filling
  <1>7. Link'
    BY <1>1, <1>4, <1>6 DEF Link
  <1>8. down' = <<>>
    BY <1>1, <1>4 DEF Filling
  <1> QED BY <1>1, <1>7, <1>8, NoAnswer

LEMMA ErrAnswers ==
  [i \in 1 .. 0 |-> "err"] = <<>> /\ [i \in 1 .. 1 |-> "err"] = <<"err">>
  <1>1. PICK s : s = [i \in 1 .. 1 |-> "err"]
    OBVIOUS
  <1>2. PICK t : t = <<"err">>
    OBVIOUS
  <1>3. s \in Seq({"err"}) /\ t \in Seq({"err"}) /\ Len(s) = 1 /\ Len(t) = 1 /\ s[1] = "err" /\ t[1] = "err"
    BY <1>1, <1>2
  <1>4. \A i \in 1 .. Len(s) : s[i] = t[i]
    BY <1>3
  <1>5. s = t
    BY <1>3, <1>4, SeqEqual
  <1>6. PICK z : z = [i \in 1 .. 0 |-> "err"]
    OBVIOUS
  <1>7. z \in Seq({"err"}) /\ Len(z) = 0
    BY <1>6
  <1>8. z = <<>>
    BY <1>7, EmptySeq
  <1> QED BY <1>1, <1>2, <1>5, <1>6, <1>8

LEMMA SaysTwo == <<"ok">> \o <<"err">> = <<"ok", "err">>
  <1>1. PICK s : s = <<"ok">> \o <<"err">>
    OBVIOUS
  <1>2. PICK t : t = <<"ok", "err">>
    OBVIOUS
  <1>3. s \in Seq(Answers) /\ t \in Seq(Answers) /\ Len(s) = 2 /\ Len(t) = 2 /\ s[1] = t[1] /\ s[2] = t[2]
    BY <1>1, <1>2 DEF Answers
  <1>4. \A i \in 1 .. Len(s) : s[i] = t[i]
    BY <1>3
  <1>5. s = t
    BY <1>3, <1>4, SeqEqual
  <1> QED BY <1>1, <1>2, <1>5

LEMMA WrittenSays ==
  ASSUME NEW bad, NEW n \in 0 .. 2, n = Cardinality(bad \cap {"truncate", "chmod"}), "chmod" \notin bad, Says([i \in 1 .. n |-> "err"])
  PROVE  n = (IF "truncate" \in bad THEN 1 ELSE 0) /\ Says(IF "truncate" \in bad THEN <<"err">> ELSE <<>>)
  <1>1. CASE "truncate" \in bad
    <2>1. bad \cap {"truncate", "chmod"} = {"truncate"}
      BY <1>1
    <2>2. n = 1
      BY <2>1, FS_Singleton
    <2>3. Says(<<"err">>)
      BY <2>2, ErrAnswers
    <2> QED BY <1>1, <2>2, <2>3
  <1>2. CASE "truncate" \notin bad
    <2>1. bad \cap {"truncate", "chmod"} = {}
      BY <1>2
    <2>2. n = 0
      BY <2>1, FS_EmptySet
    <2>3. Says(<<>>)
      BY <2>2, ErrAnswers
    <2> QED BY <1>2, <2>2, <2>3
  <1> QED BY <1>1, <1>2

\* In step: the file is complete.
LEMMA WrittenInStep ==
  ASSUME RcpTypes, Live, KWritten, NoExtra'
  PROVE  DownShape' /\ Link'
  <1>1. PICK bad \in SUBSET ({"write", "truncate", "chmod"} \cap RcpFaults), n \in 0 .. 2 :
       /\ n = Cardinality(bad \cap {"truncate", "chmod"})
       /\ Adds(bad) /\ Says([i \in 1 .. n |-> "err"])
       /\ snk'.pc = "resp" /\ snk'.size = snk.size /\ snk'.got = snk.got
       /\ snk'.wrerr = IF "truncate" \in bad THEN "displayed" ELSE IF "write" \in bad THEN "yes" ELSE "no"
    BY DEF KWritten
  <1>2. "chmod" \notin bad
    BY <1>1 DEF NoExtra, Extra, Adds
  <1>3. Says(IF "truncate" \in bad THEN <<"err">> ELSE <<>>) /\ (snk'.wrerr = "displayed" <=> "truncate" \in bad)
    BY <1>1, <1>2, WrittenSays
  <1>4. PICK answers \in Seq(Answers) : Says(answers) /\ answers = IF snk'.wrerr = "displayed" THEN <<"err">> ELSE <<>>
    BY <1>3, SaysOne
  <1>5. snk.pc = "data" /\ Len(snk.got) = snk.size /\ up' = up /\ src' = src /\ opt' = opt /\ down' = down \o answers
    BY <1>4 DEF KWritten, OnlySink, Says, Live
  <1>6. src.pc \in {"start", "next", "exit", "end"} \cup Asks /\ Item' = Item
    BY <1>5, AtFacts DEF Item, Plan
  <1>7. CASE src.pc = "C" /\ Accepted
    <2>1. up' = <<>> /\ snk.size = Item.n /\ snk.got = <<>> /\ down = <<"ok">>
      BY <1>5, <1>7 DEF Accepted
    <2>2. snk'.size = 0 /\ snk'.size = Item.n
      <3>1. Len(snk.got) = 0
        BY <2>1
      <3> QED BY <1>1, <1>5, <2>1, <3>1
    <2>3. down' = IF snk'.wrerr = "displayed" THEN <<"ok", "err">> ELSE <<"ok">>
      <3>1. CASE snk'.wrerr = "displayed"
        <4>1. <<"ok">> \o <<"err">> = <<"ok", "err">>
          BY SaysTwo
        <4> QED BY <1>4, <1>5, <2>1, <3>1, <4>1
      <3>2. CASE snk'.wrerr # "displayed"
        <4>1. down \o <<>> = down
          BY Flows
        <4> QED BY <1>4, <1>5, <2>1, <3>2, <4>1
      <3> QED BY <3>1, <3>2
    <2>4. Accepted'
      BY <1>1, <1>6, <2>1, <2>2, <2>3 DEF Accepted
    <2>5. Link'
      BY <1>5, <1>7, <2>4 DEF Link
    <2>6. Len(down') = 1 \/ (Len(down') = 2 /\ Head(down') = "ok")
      BY <2>3
    <2>7. DownShape'
      BY <1>5, <1>7, <2>6 DEF DownShape
    <2> QED BY <2>5, <2>7
  <1>8. CASE src.pc = "end" /\ Filling
    <2>6. down = <<>> /\ Len(up) = snk.size - Len(snk.got) + 1
      BY <1>5, <1>8 DEF Filling
    <2>7. Len(snk.got) \in Nat /\ snk.size \in Nat
      BY SinkIs
    <2>8. snk.size - Len(snk.got) + 1 = 1
      BY <1>5, <2>7
    <2>1. down = <<>> /\ Len(up') = 1
      BY <1>5, <2>6, <2>8
    <2>2. down' = answers
      BY <1>4, <2>1, SaidNow DEF Live
    <2>3. Filling'
      BY <1>1, <1>4, <2>1, <2>2 DEF Filling
    <2>4. Link'
      BY <1>5, <1>8, <2>3 DEF Link
    <2>5. down' = <<>> \/ Len(down') = 1
      BY <1>4, <2>2
    <2> QED BY <1>5, <1>8, <2>4, <2>5, NoAnswer, OneAnswer
  <1> QED BY <1>5, <1>6, <1>7, <1>8 DEF Live, Link, Coming, Answered, Listens, Early, Asks

\* In step: the sink reads the byte after the file.
LEMMA VerdictInStep ==
  ASSUME RcpTypes, Live, KAnswered
  PROVE  DownShape' /\ Link'
  <1>2. snk.pc = "resp" /\ Reads /\ Head(up).k \in {"end", "err"} /\ src' = src /\ opt' = opt /\ snk'.pc = "rec"
    BY SnkFields DEF KAnswered, OnlySink
  <1>3. PICK answers \in Seq(Answers) : Says(answers) /\ IF snk.wrerr = "displayed" THEN answers = <<>> ELSE Len(answers) = 1
    <2>1. PICK wrong \in BOOLEAN : (wrong => snk.wrerr = "no") /\ Says(IF wrong THEN <<"err">> ELSE Said(snk.wrerr))
      BY DEF KAnswered
    <2>2. CASE snk.wrerr = "displayed"
      <3>1. Says(<<>>)
        BY <2>1, <2>2 DEF Said
      <3> QED BY <2>2, <3>1, SaysOne
    <2>3. CASE snk.wrerr # "displayed"
      <3>1. Says(<<"ok">>) \/ Says(<<"err">>)
        BY <2>1, <2>3 DEF Said
      <3>2. Len(<<"ok">>) = 1 /\ Len(<<"err">>) = 1
        OBVIOUS
      <3> QED BY <2>3, <3>1, <3>2, SaysOne
    <2> QED BY <2>2, <2>3
  <1>4. /\ Len(up) \in Nat \ {0} /\ DOMAIN up = 1 .. Len(up) /\ DOMAIN up' = 1 .. Len(up) - 1 /\ Len(up') = Len(up) - 1
        /\ \A i \in 1 .. Len(up) - 1 : up'[i] = up[i + 1]
        /\ up # <<>> /\ (Len(up) = 1 => up' = <<>>)
    <2>1. up \in Seq(Tokens) /\ up # <<>> /\ up' = Tail(up)
      BY <1>2, Flows DEF Reads
    <2> QED BY <1>2, <2>1, Shifted, ShortTail
  <1>5. src.pc \in {"start", "next", "exit", "end"} \cup Asks /\ Item' = Item
    BY <1>2, AtFacts DEF Item, Plan
  <1>6. Listens' /\ After' = 0 /\ After = 1
    BY <1>2 DEF Listens, After
  <1>7. ASSUME AllErr(Len(up)) PROVE AllErr(Len(up))'
    <2>1. \A i \in 1 .. Len(up) : i > 1 => up[i].k = "err"
      BY <1>4, <1>6, <1>7 DEF AllErr
    <2>2. \A i \in 1 .. Len(up) - 1 : up'[i].k = "err"
      BY <1>4, <2>1
    <2> QED BY <1>4, <2>2 DEF AllErr
  <1>8. ASSUME AllErr(Len(up) - 1) PROVE AllErr(Len(up) - 1)'
    <2>1. PICK m \in Int : m = Len(up) - 1
      <3>1. Len(up) \in Int
        BY <1>4
      <3>2. Len(up) - 1 \in Int
        BY <3>1
      <3> QED BY <3>2
    <2>2. AllErr(m)
      BY <1>8, <2>1
    <2>3. \A i \in DOMAIN up : i > 1 /\ i <= m => up[i].k = "err"
      BY <1>6, <2>2 DEF AllErr
    <2>4. \A i \in 1 .. Len(up) - 1 : i > 1 => up[i].k = "err"
      <3> SUFFICES ASSUME NEW i \in 1 .. Len(up) - 1, i > 1
                   PROVE  up[i].k = "err"
        OBVIOUS
      <3>1. Len(up) \in Int /\ DOMAIN up = 1 .. Len(up)
        BY <1>4
      <3>2. i \in DOMAIN up /\ i <= m
        BY <2>1, <3>1
      <3> QED BY <2>3, <3>2
    <2>5. \A i \in 1 .. Len(up) - 2 : up'[i].k = "err"
      BY <1>4, <2>4
    <2> QED BY <1>4, <2>5 DEF AllErr
  <1>9. ASSUME Listens, down = <<>> PROVE down' = <<>>
    <2>1. answers = <<>>
      BY <1>2, <1>3, <1>9 DEF Listens, Early
    <2> QED BY <1>3, <1>9, <2>1, SaidNothing
  <1>10. CASE src.pc \in {"next", "exit"}
    <2>1. Listens /\ down = <<>> /\ AllErr(Len(up))
      BY <1>10 DEF Live, Link
    <2>2. Link'
      BY <1>2, <1>6, <1>7, <1>9, <1>10, <2>1 DEF Link
    <2> QED BY <1>2, <1>9, <2>1, <2>2, NoAnswer
  <1>11. CASE src.pc \in Asks
    <2>1. Coming
      BY <1>2, <1>4, <1>11 DEF Live, Link, Answered, Accepted, Asks
    <2>2. up'[Len(up')] = up[Len(up)] /\ Len(up') > 0
      BY <1>4, <1>6, <2>1 DEF Coming
    <2>3. Coming'
      BY <1>2, <1>5, <1>6, <1>8, <1>9, <2>1, <2>2 DEF Coming
    <2>4. Link'
      BY <1>2, <1>11, <2>3 DEF Link, Asks
    <2> QED BY <1>2, <1>9, <2>1, <2>4, NoAnswer DEF Coming
  <1>12. CASE src.pc = "end"
    <2>1. Len(up) = 1 /\ down = IF snk.wrerr = "displayed" THEN <<"err">> ELSE <<>>
      BY <1>2, <1>12 DEF Live, Link, Answered, Filling
    <2>2. up' = <<>>
      BY <1>4, <2>1
    <2>3. Len(down') = 1
      <3>1. CASE snk.wrerr = "displayed"
        <4>1. down' = down
          BY <1>3, <3>1, SaidNothing
        <4> QED BY <2>1, <3>1, <4>1
      <3>2. CASE snk.wrerr # "displayed"
        <4>1. down' = answers
          BY <1>3, <2>1, <3>2, SaidNow DEF Live
        <4> QED BY <1>3, <3>2, <4>1
      <3> QED BY <3>1, <3>2
    <2>4. Answered'
      BY <1>2, <2>2, <2>3 DEF Answered
    <2>5. Link'
      BY <1>2, <1>12, <2>4 DEF Link
    <2> QED BY <1>2, <1>12, <2>3, <2>5, OneAnswer
  <1>13. CASE src.pc = "start"
    BY <1>2, <1>13 DEF Live, Link
  <1> QED BY <1>5, <1>10, <1>11, <1>12, <1>13

\* In step: the sink leaves a directory.
LEMMA BackInStep ==
  ASSUME RcpTypes, Live, KBack, NoExtra'
  PROVE  DownShape' /\ Link'
  <1>1. PICK answers \in {<<>>, <<"ok">>} :
          /\ IF answers = <<>> THEN up = <<>> /\ SourceGone /\ up' = up ELSE Reads /\ Head(up).k = "E"
          /\ snk'.pc = "rec" /\ Says(answers)
    <2>1. PICK e \in {0, 1}, answers \in {<<>>, <<"ok">>} :
       /\ IF answers = <<>> THEN up = <<>> /\ SourceGone /\ UNCHANGED up ELSE Reads /\ Head(up).k = "E"
       /\ Snk("rec", Popped, e)
       /\ Says(answers \o IF e = 1 THEN <<"err">> ELSE <<>>)
       /\ IF e = 1 THEN Adds({"dirtimes"}) /\ "dirtimes" \in RcpFaults ELSE Adds({})
      BY DEF KBack
    <2>2. e = 0
      BY <2>1 DEF Adds, NoExtra, Extra
    <2>3. answers \o <<>> = answers
      BY SaysOne, ConcatEmptySeq
    <2>4. Says(answers)
      BY <2>1, <2>2, <2>3
    <2> QED BY <2>1, <2>4, SnkFields
  <1>2. snk.pc = "rec" /\ src' = src /\ opt' = opt
    BY DEF KBack, OnlySink
  <1>3. CASE answers = <<"ok">>
    <2>1. Reads /\ Head(up).k = "E" /\ Says(<<"ok">>)
      BY <1>1, <1>3
    <2> QED BY <1>1, <1>2, <2>1, AnsweredInStep DEF Asks
  <1>4. CASE answers = <<>>
    <2>1. src.pc = "exit" /\ up = <<>> /\ up' = <<>>
      BY <1>1, <1>4 DEF SourceGone, Live
    <2>2. down = <<>>
      BY <2>1 DEF Live, Link
    <2>3. down' = <<>>
      BY <1>1, <1>4, <2>2, SaidNothing
    <2>4. Link'
      BY <1>1, <1>2, <2>1, <2>3 DEF Link, Listens, AllErr
    <2> QED BY <1>2, <2>3, <2>4, NoAnswer
  <1> QED BY <1>1, <1>3, <1>4

\* In step: the sink exits.
LEMMA OutInStep ==
  ASSUME RcpTypes, Live, KReturned \/ KGone
  PROVE  DownShape' /\ snk'.pc = "exit"
  <1>1. snk'.pc = "exit" /\ src' = src
    BY SnkFields DEF KReturned, KGone, OnlySink
  <1>2. CASE down' = down
    BY <1>1, <1>2 DEF Live, DownShape
  <1>3. CASE down = <<>> /\ (Says(<<"ok">>) \/ Says(<<"err">>))
    <2>1. Len(down') = 1
      <3>1. down' = <<"ok">> \/ down' = <<"err">>
        BY <1>3, SaysOne, SaidNow DEF Live
      <3> QED BY <3>1
    <2> QED BY <1>1, <2>1, OneAnswer
  <1>4. CASE KReturned
    <2>1. CASE Reads /\ Head(up).k = "E" /\ Says(<<"ok">>)
      BY <1>3, <1>4, <2>1, RecordOf DEF KReturned, Asks
    <2> QED BY <1>2, <1>4, <2>1 DEF KReturned
  <1>5. CASE KGone
    <2>1. src.pc \in {"start", "next", "exit", "end"} \cup Asks
      BY AtFacts
    <2>2. CASE snk.pc = "start"
      <3>1. down = <<>>
        BY <2>1, <2>2 DEF Live, Link, Coming, Answered, Accepted, Filling, Listens, Early, Asks
      <3> QED BY <1>2, <1>3, <1>5, <2>2, <3>1 DEF KGone
    <2>3. CASE snk.pc = "rec" /\ Reads /\ Head(up).k \in {"part", "unit", "garbage", "end"}
      <3>1. up[1].k \in {"unit", "garbage", "end"} /\ 1 \in DOMAIN up
        BY <2>3, Shifted DEF Live, Whole
      <3> QED BY <2>3, <3>1 DEF Live, UpShape, Asks
    <2>4. CASE Reads /\ Head(up).k = "part"
      BY <2>4, Shifted DEF Live, Whole
    <2>5. CASE snk.pc = "data" /\ up = <<>> /\ SourceGone
      <3>1. src.pc = "exit"
        BY <2>5 DEF SourceGone, Live
      <3> QED BY <2>5, <3>1 DEF Live, Link, Listens, Early
    <2> QED BY <1>2, <1>5, <2>2, <2>3, <2>4, <2>5 DEF KGone
  <1> QED BY <1>1, <1>4, <1>5

(* On a cut stream nothing more is said. *)
LEMMA CutDown ==
  ASSUME RcpTypes, DownShape, SinkKinds, cut
  PROVE  DownShape'
  <1>1. src' = src /\ snk.pc # "exit"
    BY SinkRest
  <1>2. ASSUME NEW answers, Says(answers) PROVE down' = down
    BY <1>2, SaidNothing
  <1>3. ASSUME KBack PROVE down' = down
    BY <1>2, <1>3 DEF KBack
  <1>4. ASSUME KWritten PROVE down' = down
    BY <1>2, <1>4 DEF KWritten
  <1>5. ASSUME KAnswered PROVE down' = down
    BY <1>2, <1>5 DEF KAnswered
  <1>6. ASSUME KStarted \/ KGone \/ KReturned \/ KErr \/ KTimes \/ KRefused \/ KEntered \/ KCreated \/ KNoBuffer \/ KUnit PROVE down' = down
    BY <1>2, <1>6 DEF KStarted, KGone, KReturned, KErr, KTimes, KRefused, KEntered, KCreated, KNoBuffer, KUnit
  <1>7. down' = down
    BY <1>3, <1>4, <1>5, <1>6 DEF SinkKinds
  <1> QED BY <1>1, <1>7 DEF DownShape

\* In step: the sink.
LEMMA SinkInStep ==
  ASSUME RcpTypes, Whole, InStep, SinkKinds
  PROVE  InStep'
  <1> SUFFICES ASSUME NoExtra'
               PROVE  UpShape' /\ DownShape' /\ (~cut' /\ snk'.pc # "exit" => Link')
    BY DEF InStep
  <1>0. NoExtra /\ src' = src /\ cut' = cut /\ opt' = opt /\ snk.pc # "exit"
    <2>1. faults \subseteq faults'
      BY DEF SinkKinds, KStarted, KGone, KReturned, KBack, KErr, KTimes, KRefused, KEntered, KCreated, KNoBuffer, KUnit, KWritten, KAnswered, Adds
    <2> QED BY <2>1, SinkRest DEF NoExtra
  <1>1. UpShape /\ DownShape /\ (~cut => Link)
    BY <1>0 DEF InStep
  <1>2. UpShape'
    BY <1>1, SinkUp
  <1>3. CASE cut
    BY <1>0, <1>1, <1>2, <1>3, CutDown
  <1>4. CASE ~cut
    <2>1. Live
      BY <1>0, <1>1, <1>4 DEF Live
    <2>2. ~KNoBuffer
      BY DEF KNoBuffer, Adds, NoExtra, Extra
    <2>3. CASE KTimes \/ KRefused \/ KEntered
      <3>1. snk.pc = "rec" /\ Reads /\ snk'.pc = "rec" /\ Head(up).k \in Asks /\ ((Says(<<"ok">>) /\ Head(up).k # "C") \/ Says(<<"err">>))
        BY <2>3, SnkFields DEF KTimes, KRefused, KEntered, Asks
      <3> QED BY <1>0, <1>2, <2>1, <3>1, AnsweredInStep
    <2>4. CASE KReturned \/ KGone
      BY <1>2, <2>1, <2>4, OutInStep
    <2> QED BY <1>2, <2>1, <2>2, <2>3, <2>4, StartInStep, BackInStep, ErrInStep, CreatedInStep, UnitInStep, WrittenInStep, VerdictInStep DEF SinkKinds
  <1> QED BY <1>3, <1>4

\* Neither side makes parts of records.
LEMMA SourceWhole ==
  ASSUME RcpTypes, Whole, SourceKinds
  PROVE  Whole'
  <1> SUFFICES ASSUME ~cut PROVE \A i \in DOMAIN up' : up'[i].k # "part"
    BY SourceRest DEF Whole
  <1>1. \A i \in DOMAIN up : up[i].k # "part"
    BY DEF Whole
  <1>2. ASSUME NEW t \in Tokens, t.k # "part", Sends(<<t>>) PROVE \A i \in DOMAIN up' : up'[i].k # "part"
    BY <1>1, <1>2, Appended
  <1>3. ASSUME src.at <= Len(Plan)
        PROVE  /\ Item \in Tokens /\ Rec("T", Item.path) \in Tokens /\ ErrRec \in Tokens
               /\ Item.k # "part" /\ Rec("T", Item.path).k # "part" /\ ErrRec.k # "part"
    BY <1>3, AtFacts, SentTokens, UnitKinds DEF Tokens
  <1>4. CASE SAsk
    <2>1. PICK pc \in Asks : Sends(<<AskFor(pc)>>)
      BY <1>4 DEF SAsk
    <2>2. AskFor(pc) \in Tokens /\ AskFor(pc).k # "part"
      BY <1>3, <1>4 DEF SAsk, AskFor
    <2> QED BY <1>2, <2>1, <2>2
  <1>5. CASE SMissed
    BY <1>2, <1>3, <1>5 DEF SMissed
  <1>6. CASE STimed \/ SNoBuffer
    <2>1. src.at <= Len(Plan)
      BY <1>6, AtFacts DEF STimed, SNoBuffer, Asks
    <2> QED BY <1>2, <1>3, <1>6, <2>1 DEF STimed, SNoBuffer
  <1>7. CASE SSent \/ SSpoilt
    <2>1. src.at <= Len(Plan)
      BY <1>7, AtFacts DEF SSent, SSpoilt, Asks
    <2>2. PICK r \in Seq(Tokens) :
           /\ Sends(r) /\ Len(r) = Item.n + 1 /\ Item.n \in Nat /\ DOMAIN r = 1 .. Item.n + 1
           /\ r[Item.n + 1].k = IF SSent THEN "end" ELSE "err"
           /\ \A i \in 1 .. Item.n : r[i].k \in {"unit", "garbage"}
      BY <1>7, <2>1, SentFile
    <2>3. \A i \in DOMAIN r : r[i].k # "part"
      <3>1. \A i \in DOMAIN r : i = Item.n + 1 \/ i \in 1 .. Item.n
        BY <2>2
      <3> QED BY <2>2, <3>1
    <2>4. up \in Seq(Tokens) /\ up' = up \o r
      BY <2>2, Flows DEF Sends
    <2>5. PICK m \in Nat : m = Len(up)
      BY <2>4
    <2>6. Len(up') = m + Len(r) /\ (\A i \in 1 .. m : up'[i] = up[i]) /\ (\A i \in 1 .. Len(r) : up'[m + i] = r[i]) /\ DOMAIN up' = 1 .. m + Len(r) /\ Len(r) \in Nat
      BY <2>4, <2>5
    <2>7. ASSUME NEW i \in DOMAIN up' PROVE up'[i].k # "part"
      <3>1. CASE i <= m
        <4>1. i \in DOMAIN up /\ up'[i] = up[i]
          BY <2>4, <2>5, <2>6, <3>1
        <4> QED BY <1>1, <4>1
      <3>2. CASE ~(i <= m)
        <4>1. PICK q \in 1 .. Len(r) : q = i - m
          BY <2>6, <3>2
        <4>2. up'[i] = r[q] /\ q \in DOMAIN r
          BY <2>2, <2>6, <4>1
        <4> QED BY <2>3, <4>2
      <3> QED BY <3>1, <3>2
    <2> QED BY <2>7
  <1>8. CASE SDone \/ SMoved \/ SEnded
    BY <1>1, <1>8 DEF SDone, SMoved, SEnded
  <1> QED BY <1>4, <1>5, <1>6, <1>7, <1>8 DEF SourceKinds

LEMMA SinkWhole ==
  ASSUME RcpTypes, Whole, SinkKinds
  PROVE  Whole'
  <1>1. up' = up \/ Reads
    BY DEF SinkKinds, KStarted, KGone, KReturned, KBack, KErr, KTimes, KRefused, KEntered, KCreated, KNoBuffer, KUnit, KWritten, KAnswered
  <1>2. cut' = cut
    BY SinkRest
  <1>3. CASE up' = up
    BY <1>2, <1>3 DEF Whole
  <1>4. CASE Reads
    BY <1>2, <1>4, Shifted DEF Whole
  <1> QED BY <1>1, <1>3, <1>4

(* The cut: what is left of the two streams. *)
LEMMA CutLeaves ==
  ASSUME RcpTypes, KCut
  PROVE  /\ up' \in Seq(Tokens) /\ down' \in Seq(Answers)
         /\ Len(up') <= Len(up) /\ Len(up) \in Nat /\ Len(up') \in Nat /\ DOMAIN up' = 1 .. Len(up') /\ DOMAIN up = 1 .. Len(up)
         /\ \A i \in DOMAIN up' : up'[i] = up[i] \/ (up'[i] = Part /\ i = Len(up'))
         /\ Len(down') <= Len(down) /\ Len(down) \in Nat /\ Len(down') \in Nat /\ \A i \in 1 .. Len(down') : down'[i] = down[i]
  <1>1. up \in Seq(Tokens) /\ down \in Seq(Answers) /\ Part \in Tokens
    BY Flows, SentTokens
  <1>2. PICK n \in 0 .. Len(up), part \in BOOLEAN : up' = SubSeq(up, 1, n) \o IF part /\ n < Len(up) THEN <<Part>> ELSE <<>>
    BY DEF KCut
  <1>3. PICK m \in 0 .. Len(down) : down' = SubSeq(down, 1, m)
    BY DEF KCut
  <1>4. Len(up) \in Nat /\ Len(down) \in Nat
    BY <1>1
  <1>5. PICK s : s = SubSeq(up, 1, n)
    OBVIOUS
  <1>6. s \in Seq(Tokens) /\ Len(s) = n /\ \A i \in 1 .. n : s[i] = up[i]
    BY <1>1, <1>2, <1>4, <1>5, SubSeqProperties
  <1>7. down' \in Seq(Answers) /\ Len(down') = m /\ \A i \in 1 .. m : down'[i] = down[i]
    BY <1>1, <1>3, <1>4, SubSeqProperties
  <1>8. CASE part /\ n < Len(up)
    <2>1. up' = s \o <<Part>>
      BY <1>2, <1>5, <1>8
    <2>2. up' \in Seq(Tokens) /\ Len(up') = n + 1 /\ up'[n + 1] = Part /\ \A i \in 1 .. n : up'[i] = up[i]
      <3>1. \A i \in 1 .. n : up'[i] = s[i]
        BY <1>1, <1>6, <2>1
      <3>2. up' \in Seq(Tokens) /\ Len(up') = n + 1 /\ up'[n + 1] = Part
        BY <1>1, <1>6, <2>1
      <3> QED BY <1>6, <3>1, <3>2
    <2>3. DOMAIN up' = 1 .. n + 1 /\ DOMAIN up = 1 .. Len(up)
      BY <1>1, <2>2
    <2>4. \A i \in DOMAIN up' : i \in 1 .. n \/ i = n + 1
      BY <1>2, <2>3
    <2> QED BY <1>2, <1>4, <1>7, <1>8, <2>2, <2>3, <2>4
  <1>9. CASE ~(part /\ n < Len(up))
    <2>1. up' = s \o <<>>
      BY <1>2, <1>5, <1>9
    <2>2. up' = s
      BY <1>6, <2>1
    <2>3. DOMAIN up' = 1 .. n /\ DOMAIN up = 1 .. Len(up)
      BY <1>1, <1>6, <2>2
    <2> QED BY <1>2, <1>4, <1>6, <1>7, <2>2, <2>3
  <1> QED BY <1>8, <1>9

\* A cut keeps the types.
LEMMA CutKeepsTypes ==
  ASSUME RcpTypes, KCut
  PROVE  RcpTypes' /\ Plan' = Plan
  <1>1. opt' = opt /\ src' = src /\ snk' = snk /\ disk' = disk /\ cut' = TRUE /\ faults' \subseteq RcpFaults
    BY Flows DEF KCut, Adds
  <1>2. Plan' = Plan /\ Item' = Item
    BY <1>1 DEF Plan, Item
  <1>3. Types'
    BY <1>1, <1>2, CutLeaves DEF RcpTypes, Types
  <1> QED BY <1>1, <1>2, <1>3 DEF RcpTypes, SourceAt, Waits, SinkAt, OneArgument, FilesFit

\* In step: a cut.
LEMMA CutInStep ==
  ASSUME RcpTypes, InStep, KCut
  PROVE  InStep' /\ Whole'
  <1>1. opt' = opt /\ src' = src /\ snk' = snk /\ cut' /\ (NoExtra' => NoExtra)
    BY DEF KCut, Adds, NoExtra
  <1>2. Whole'
    BY <1>1 DEF Whole
  <1>3. ASSUME NoExtra' PROVE UpShape' /\ DownShape'
    <2>1. UpShape /\ DownShape
      BY <1>1, <1>3 DEF InStep
    <2>2. /\ Len(up') <= Len(up) /\ Len(up) \in Nat /\ Len(up') \in Nat /\ DOMAIN up' = 1 .. Len(up') /\ DOMAIN up = 1 .. Len(up)
          /\ \A i \in DOMAIN up' : i \in DOMAIN up /\ (up'[i].k = up[i].k \/ (up'[i].k = "part" /\ i = Len(up'))) /\ (i < Len(up') => i < Len(up) /\ up'[i].k = up[i].k)
          /\ (up = <<>> => up' = <<>>)
      <3>1. /\ Len(up') <= Len(up) /\ Len(up) \in Nat /\ Len(up') \in Nat /\ DOMAIN up' = 1 .. Len(up') /\ DOMAIN up = 1 .. Len(up)
            /\ \A i \in DOMAIN up' : up'[i] = up[i] \/ (up'[i] = Part /\ i = Len(up'))
            /\ up' \in Seq(Tokens)
        BY CutLeaves
      <3>2. Part.k = "part"
        BY UnitKinds
      <3>3. up = <<>> => up' = <<>>
        <4>1. up = <<>> => Len(up') = 0
          BY <3>1
        <4> QED BY <3>1, <4>1, EmptySeq
      <3>4. ASSUME NEW i \in DOMAIN up'
            PROVE  i \in DOMAIN up /\ (up'[i].k = up[i].k \/ (up'[i].k = "part" /\ i = Len(up'))) /\ (i < Len(up') => i < Len(up) /\ up'[i].k = up[i].k)
        <4>1. i \in DOMAIN up /\ (i < Len(up') => i < Len(up) /\ i # Len(up'))
          BY <3>1
        <4> QED BY <3>1, <3>2, <4>1
      <3> QED BY <3>1, <3>3, <3>4
    <2>3. DownShape'
      <3>1. Len(down') <= Len(down) /\ Len(down) \in Nat /\ Len(down') \in Nat /\ (\A i \in 1 .. Len(down') : down'[i] = down[i]) /\ down \in Seq(Answers) /\ down' \in Seq(Answers)
        BY CutLeaves, Flows
      <3>2. Len(down') <= 1 \/ (Len(down') = 2 /\ Len(down) = 2 /\ Head(down') = Head(down))
        BY <2>1, <3>1 DEF DownShape
      <3>3. down = <<>> => down' = <<>>
        <4>1. down = <<>> => Len(down') = 0
          BY <3>1
        <4> QED BY <3>1, <4>1, EmptySeq
      <3> QED BY <1>1, <2>1, <3>2, <3>3 DEF DownShape
    <2>4. snk.pc = "start" => up' = <<>>
      BY <2>1, <2>2 DEF UpShape
    <2>5. snk.pc = "rec" => \A i \in DOMAIN up' : up'[i].k \in Asks \cup {"err", "part"} /\ (i < Len(up') => up'[i].k = "err")
      BY <2>1, <2>2 DEF UpShape
    <2>6. snk.pc = "data" =>
             /\ Len(up') <= snk.size - Len(snk.got) + 1
             /\ \A i \in DOMAIN up' : IF i <= snk.size - Len(snk.got) THEN up'[i].k \in {"unit", "garbage", "part"} /\ (i < Len(up') => up'[i].k # "part")
                                   ELSE up'[i].k \in {"end", "err", "part"}
      <3>1. snk.size - Len(snk.got) \in Int
        BY SinkIs
      <3> QED BY <2>1, <2>2, <3>1 DEF UpShape
    <2>7. snk.pc = "resp" =>
       \A i \in DOMAIN up' :
         IF i = 1 THEN up'[i].k \in {"end", "err", "part"}
         ELSE up'[i].k \in Asks \cup {"err", "part"} /\ (i < Len(up') => up'[i].k = "err")
      BY <2>1, <2>2 DEF UpShape
    <2> QED BY <1>1, <2>3, <2>4, <2>5, <2>6, <2>7 DEF UpShape
  <1> QED BY <1>1, <1>2, <1>3 DEF InStep

----------------------------------------------------------------------------
(* Clean: the steps of the source.                                          *)
AllClean == Done /\ CleanAnswers /\ CleanStore /\ CleanAsk /\ CleanEnd /\ CleanRest
Has(d, timed, it) ==
  \E p \in {it.path, Targ} : d[p].kind = "file" /\ d[p].data = Units(it, TRUE) /\ (timed => d[p].time = "source")

\* Arrived, of a disk.
LEMMA DoneIs ==
  /\ Done <=> \A i \in 1 .. src.at - 1 : Plan[i].k = "C" => Has(disk, opt.pflag, Plan[i])
  /\ Done' <=> \A i \in 1 .. src'.at - 1 : Plan'[i].k = "C" => Has(disk', opt'.pflag, Plan'[i])
  /\ Arrived(Item) <=> Has(disk, opt.pflag, Item)
  /\ Arrived(Item)' <=> Has(disk', opt'.pflag, Item')
  BY DEF Done, Arrived, Has

SMovedOk ==
  /\ OnlySource /\ UNCHANGED <<up, faults>> /\ Hears("ok")
  /\ \/ src.pc = "start" /\ Src("next", 1, 0)
     \/ src.pc \in {"D", "E", "end"} /\ Src("next", src.at + 1, 0)

\* The forms of the source that count no error.
LEMMA CleanKinds ==
  ASSUME RcpTypes, SourceKinds, src'.errs = 0
  PROVE  src.errs = 0 /\ (SAsk \/ SDone \/ SMovedOk \/ STimed \/ SSent)
  <1>1. src.errs \in Nat
    BY SourceIs
  <1>2. ~SMissed /\ ~SSpoilt /\ ~SNoBuffer /\ ~SEnded
    <2>1. ASSUME NEW pc, NEW at, Src(pc, at, 1) PROVE FALSE
      <3>1. src'.errs = src.errs + 1
        BY <2>1, SrcFields
      <3> QED BY <1>1, <3>1
    <2> QED BY <2>1 DEF SMissed, SSpoilt, SNoBuffer, SEnded
  <1>3. SMoved => SMovedOk
    <2>1. ASSUME NEW pc, NEW at, Src(pc, at, 1) PROVE FALSE
      <3>1. src'.errs = src.errs + 1
        BY <2>1, SrcFields
      <3> QED BY <1>1, <3>1
    <2> QED BY <2>1 DEF SMoved, SMovedOk
  <1>4. ASSUME NEW pc, NEW at, Src(pc, at, 0) PROVE src.errs = 0
    <2>1. src'.errs = src.errs + 0
      BY <1>4, SrcFields
    <2> QED BY <1>1, <2>1
  <1>5. SAsk \/ SDone \/ SMovedOk \/ STimed \/ SSent
    BY <1>2, <1>3 DEF SourceKinds
  <1> QED BY <1>4, <1>5 DEF SAsk, SDone, SMovedOk, STimed, SSent

(* Nothing that the source does not do itself changes.                      *)
LEMMA SourceView ==
  ASSUME RcpTypes, SourceKinds
  PROVE  /\ opt' = opt /\ snk' = snk /\ disk' = disk /\ cut' = cut /\ Plan' = Plan
         /\ Item' = Plan[src'.at] /\ Level' = Depth(Plan)[src'.at]
         /\ (Storing' <=> Storing) /\ Top' = Top /\ (Timed' <=> Timed)
         /\ \A n : Deep(n)' <=> Deep(n)
  <1>1. opt' = opt /\ snk' = snk /\ disk' = disk /\ cut' = cut
    BY SourceRest
  <1>2. Plan' = Plan
    BY <1>1 DEF Plan
  <1> QED BY <1>1, <1>2 DEF Item, Level, Storing, Top, Timed, Deep

\* Clean: the source asks with a record.
LEMMA AskClean ==
  ASSUME RcpTypes, AllClean, SAsk
  PROVE  AllClean'
  <1>0. SourceKinds
    BY DEF SourceKinds
  <1>1. PICK pc \in Asks : /\ Src(pc, src.at, 0) /\ Sends(<<AskFor(pc)>>)
                           /\ IF pc = "T" THEN Item.k \in {"C", "D"} /\ opt.pflag ELSE Item.k = pc /\ (pc = "E" \/ ~opt.pflag)
    BY DEF SAsk
  <1>2. src'.pc = pc /\ src'.at = src.at /\ src.pc = "next" /\ down' = down /\ src.at <= Len(Plan)
    BY <1>1, SrcFields DEF SAsk
  <1>3. up = <<>> /\ ~Okd /\ ~Storing /\ snk.pc # "start"
    BY <1>2 DEF AllClean, CleanAnswers, CleanStore, Asks
  <1>4. Item' = Item /\ Level' = Level /\ Asked' = AskFor(pc) /\ ~Okd' /\ ~Storing'
    <2>1. Item' = Item /\ Level' = Level /\ ~Okd' /\ ~Storing'
      BY <1>0, <1>2, <1>3, SourceView DEF Item, Level, Okd
    <2> QED BY <1>2, <2>1 DEF Asked, AskFor
  <1>5. up' = IF cut THEN <<>> ELSE <<AskFor(pc)>>
    BY <1>1, <1>3 DEF Sends
  <1>6. Done'
    BY <1>0, <1>2, DoneIs, SourceView DEF AllClean
  <1>7. CleanAnswers'
    BY <1>0, <1>2, <1>3, <1>4, SourceView DEF CleanAnswers, Asks
  <1>8. CleanStore' /\ CleanEnd' /\ CleanRest'
    BY <1>2, <1>4 DEF CleanStore, CleanEnd, CleanRest, Asks
  <1>9. CleanAsk'
    <2>1. up' = <<>> \/ up' = <<Asked'>>
      BY <1>4, <1>5
    <2>2. ASSUME up' = <<Asked'>>, snk'.pc # "exit" PROVE snk'.pc = "rec" /\ Deep(Level)' /\ (src'.pc \in {"C", "D"} => Timed')
      <3>1. ~cut
        BY <1>5, <2>2
      <3>2. snk'.pc = "rec" /\ Deep(Level)'
        BY <1>0, <1>2, <1>4, <2>2, <3>1, SourceView DEF AllClean, CleanRest, Deep
      <3>3. pc \in {"C", "D"} => ~opt.pflag
        BY <1>1
      <3> QED BY <1>0, <1>2, <3>2, <3>3, SourceView DEF Timed
    <2> QED BY <1>4, <2>1, <2>2 DEF CleanAsk
  <1> QED BY <1>6, <1>7, <1>8, <1>9 DEF AllClean

\* Clean: the source is at the end of its list.
LEMMA DoneClean ==
  ASSUME RcpTypes, AllClean, SDone
  PROVE  AllClean'
  <1>0. SourceKinds
    BY DEF SourceKinds
  <1>1. src'.pc = "exit" /\ src'.at = src.at /\ src.pc = "next" /\ down' = down /\ up' = up /\ src.at > Len(Plan)
    BY SrcFields DEF SDone
  <1>2. src.at = Len(Plan) + 1
    BY <1>1, AtFacts, PlanFacts
  <1>3. up = <<>> /\ ~Okd /\ ~Storing /\ snk.pc # "start"
    BY <1>1 DEF AllClean, CleanAnswers, CleanStore
  <1>4. Level' = Level /\ ~Okd' /\ ~Storing'
    BY <1>0, <1>1, <1>3, SourceView DEF Level, Okd
  <1>6. Done'
    BY <1>0, <1>1, DoneIs, SourceView DEF AllClean
  <1>7. CleanAnswers'
    BY <1>0, <1>1, <1>2, <1>3, <1>4, SourceView DEF CleanAnswers
  <1>8. CleanStore' /\ CleanEnd' /\ CleanAsk'
    BY <1>1, <1>4 DEF CleanStore, CleanEnd, CleanAsk, Asks
  <1>9. CleanRest'
    BY <1>0, <1>1, <1>4, SourceView DEF CleanRest, AllClean, Deep
  <1> QED BY <1>6, <1>7, <1>8, <1>9 DEF AllClean

(* An answer heard: none that is ok is left.                                 *)
LEMMA OkHeard ==
  ASSUME RcpTypes, CleanAnswers, Hears("ok")
  PROVE  Okd /\ up = <<>> /\ ~Okd'
  <1>1. Okd /\ up = <<>>
    BY DEF Hears, Okd, CleanAnswers
  <1>2. Len(down) \in Nat \ {0} /\ Len(down') = Len(down) - 1 /\ down' = Tail(down) /\ down \in Seq(Answers) /\ down # <<>>
    BY Heard, Flows DEF Hears
  <1>3. ASSUME down' # <<>> PROVE Head(down') # "ok"
    <2>1. Len(down) > 1
      BY <1>2, <1>3, EmptySeq
    <2>2. down[2] = "err"
      BY <1>1, <2>1 DEF CleanAnswers
    <2>3. Tail(down) \in Seq(Answers) /\ Tail(down) # <<>> /\ 1 \in DOMAIN Tail(down)
      BY <1>2, <1>3, TailFacts
    <2>4. Head(down') = down'[1]
      BY <1>2, <2>3
    <2>5. down'[1] = down[1 + 1]
      BY <1>2, <2>3, TailFacts
    <2> QED BY <2>2, <2>4, <2>5
  <1> QED BY <1>1, <1>3 DEF Okd

\* Clean: the source goes on to the next item.
LEMMA MovedClean ==
  ASSUME RcpTypes, AllClean, SMovedOk
  PROVE  AllClean'
  <1>0. SourceKinds
    BY DEF SourceKinds, SMoved, SMovedOk
  <1>1. Okd /\ up = <<>> /\ ~Okd' /\ up' = <<>>
    BY OkHeard DEF AllClean, SMovedOk
  <1>2. src'.pc = "next" /\ ((src.pc = "start" /\ src'.at = 1) \/ (src.pc \in {"D", "E", "end"} /\ src'.at = src.at + 1))
    BY SrcFields DEF SMovedOk
  <1>3. ~Storing /\ snk.pc # "start"
    <2>1. snk.pc # "start"
      BY <1>1 DEF AllClean, CleanAnswers, Okd
    <2>2. src.pc = "end" => ~Storing
      BY <1>1 DEF AllClean, CleanEnd
    <2> QED BY <1>2, <2>1, <2>2 DEF AllClean, CleanStore
  <1>4. ~Storing' /\ snk' = snk /\ Plan' = Plan /\ Level' = Depth(Plan)[src'.at]
    BY <1>0, <1>3, SourceView
  <1>5. Done'
    <2>1. CASE src.pc = "start"
      BY <1>2, <2>1, DoneIs
    <2>2. CASE src.pc \in {"D", "E", "end"}
      <3>1. src.at \in DOMAIN Plan /\ src.at \in Nat /\ src.at <= Len(Plan) /\ src'.at = src.at + 1
        BY <1>2, <2>2, AtFacts, SourceIs DEF Asks
      <3>2. Plan[src.at].k = "C" => Has(disk, opt.pflag, Plan[src.at])
        <4>1. ASSUME Plan[src.at].k = "C" PROVE Has(disk, opt.pflag, Plan[src.at])
          <5>1. src.pc = "end"
            BY <2>2, <4>1 DEF RcpTypes, SourceAt, Item
          <5>2. Arrived(Item)
            BY <1>1, <5>1 DEF AllClean, CleanEnd
          <5> QED BY <5>2, DoneIs DEF Item
        <4> QED BY <4>1
      <3>3. ASSUME NEW i \in 1 .. src'.at - 1, Plan[i].k = "C" PROVE Has(disk, opt.pflag, Plan[i])
        <4>1. i = src.at \/ i \in 1 .. src.at - 1
          BY <3>1
        <4> QED BY <3>2, <3>3, <4>1, DoneIs DEF AllClean
      <3> QED BY <1>0, <3>3, DoneIs, SourceView
    <2> QED BY <1>2, <2>1, <2>2
  <1>6. CleanAnswers'
    BY <1>1, <1>2, <1>3, <1>4 DEF CleanAnswers
  <1>7. CleanStore' /\ CleanEnd' /\ CleanAsk'
    BY <1>2, <1>4 DEF CleanStore, CleanEnd, CleanAsk, Asks
  <1>8. CleanRest'
    <2>1. ASSUME ~cut', snk'.pc # "exit" PROVE snk'.pc = "rec" /\ Deep(Level)'
      <3>1. ~cut
        BY <1>0, <2>1, SourceView
      <3>2. CASE src.pc = "start"
        <4>1. snk.pc = "rec" /\ Deep(0)
          BY <1>1, <3>1, <3>2 DEF AllClean, CleanRest
        <4>2. Level' = 0
          BY <1>2, <1>4, <3>2, LevelFacts
        <4> QED BY <1>4, <4>1, <4>2 DEF Deep
      <3>3. CASE src.pc \in {"D", "E"}
        <4>1. snk.pc = "rec" /\ Deep(Depth(Plan)[src.at + 1])
          BY <1>1, <3>1, <3>3 DEF AllClean, CleanAsk, Asks
        <4> QED BY <1>2, <1>4, <3>3, <4>1 DEF Deep
      <3>4. CASE src.pc = "end"
        <4>1. snk.pc = "rec" /\ Deep(Level)
          BY <1>1, <3>1, <3>4 DEF AllClean, CleanEnd
        <4>2. Item.k = "C" /\ src.at \in DOMAIN Plan
          BY <3>4, AtFacts DEF RcpTypes, SourceAt
        <4>3. Depth(Plan)[src.at + 1] = Level
          BY <4>2, LevelFacts DEF Item, Level
        <4> QED BY <1>2, <1>4, <3>4, <4>1, <4>3 DEF Deep
      <3> QED BY <1>2, <3>2, <3>3, <3>4
    <2> QED BY <1>1, <1>2, <2>1 DEF CleanRest
  <1> QED BY <1>5, <1>6, <1>7, <1>8 DEF AllClean

\* Clean: the source sends the record that follows the times.
LEMMA TimedClean ==
  ASSUME RcpTypes, AllClean, STimed
  PROVE  AllClean'
  <1>0. SourceKinds
    BY DEF SourceKinds
  <1>1. Okd /\ up = <<>> /\ ~Okd' /\ src.pc = "T" /\ Item.k \in {"C", "D"}
    BY OkHeard DEF AllClean, STimed, RcpTypes, SourceAt
  <1>2. src'.pc = Item.k /\ src'.at = src.at
    BY SrcFields DEF STimed
  <1>3. ~Storing /\ snk.pc # "start"
    BY <1>1 DEF AllClean, CleanStore, CleanAnswers
  <1>4. ~Storing' /\ snk' = snk /\ Plan' = Plan /\ Level' = Level /\ Item' = Item /\ cut' = cut /\ (Timed' <=> Timed)
    BY <1>0, <1>2, <1>3, SourceView DEF Level, Item
  <1>5. Done'
    BY <1>0, <1>2, DoneIs, SourceView DEF AllClean
  <1>6. CleanAnswers'
    BY <1>1, <1>2, <1>3, <1>4 DEF CleanAnswers
  <1>7. CleanStore' /\ CleanEnd' /\ CleanRest'
    BY <1>1, <1>2, <1>4 DEF CleanStore, CleanEnd, CleanRest
  <1>8. CleanAsk'
    <2>1. up' = IF cut THEN <<>> ELSE <<Item>>
      BY <1>1 DEF STimed, Sends
    <2>2. Asked' = Item
      BY <1>1, <1>2, <1>4 DEF Asked
    <2>3. ASSUME up' = <<Asked'>> PROVE snk'.pc = "rec" /\ Deep(Level)' /\ Timed'
      <3>1. ~cut
        BY <2>1, <2>3
      <3>2. snk.pc = "rec" /\ Deep(Level) /\ Top.setimes
        BY <1>1, <3>1 DEF AllClean, CleanAsk, Asks
      <3> QED BY <1>4, <3>2 DEF Deep, Timed
    <2> QED BY <1>1, <2>1, <2>2, <2>3 DEF CleanAsk
  <1> QED BY <1>5, <1>6, <1>7, <1>8 DEF AllClean

\* Clean: the source sends the file.
LEMMA SentClean ==
  ASSUME RcpTypes, AllClean, SSent
  PROVE  AllClean'
  <1>0. SourceKinds
    BY DEF SourceKinds
  <1>1. Okd /\ up = <<>> /\ ~Okd' /\ src.pc = "C" /\ Item.k = "C" /\ src.at <= Len(Plan)
    BY OkHeard, AtFacts DEF AllClean, SSent, RcpTypes, SourceAt, Asks
  <1>2. src'.pc = "end" /\ src'.at = src.at
    BY SrcFields DEF SSent
  <1>3. snk.pc # "start"
    BY <1>1 DEF AllClean, CleanAnswers
  <1>4. /\ snk' = snk /\ Plan' = Plan /\ Level' = Level /\ Item' = Item /\ cut' = cut /\ disk' = disk /\ (Timed' <=> Timed)
        /\ (Storing' <=> Storing) /\ (Written' <=> Written)
    BY <1>0, <1>2, SourceView DEF Level, Item, Written
  <1>5. Done'
    BY <1>0, <1>2, DoneIs, SourceView DEF AllClean
  <1>6. CleanAnswers' /\ CleanAsk' /\ CleanRest'
    BY <1>1, <1>2, <1>3, <1>4 DEF CleanAnswers, CleanAsk, CleanRest, Asks
  <1>7. CleanStore'
    BY <1>2, <1>4 DEF AllClean, CleanStore, Deep
  <1>8. CleanEnd'
    <2>0. Rec("end", Item.path) \in Tokens /\ Rec("end", Item.path).k = "end"
      BY <1>1, PlanFacts, SentTokens, UnitKinds, AtFacts DEF Item
    <2>1. PICK r : r = File(TRUE, Rec("end", Item.path))
      OBVIOUS
    <2>2. /\ r \in Seq(Tokens) /\ Len(r) = Item.n + 1 /\ Item.n \in Nat /\ r[Item.n + 1] = Rec("end", Item.path) /\ DOMAIN r = 1 .. Item.n + 1
          /\ \A i \in 1 .. Item.n : r[i] = Unit(Item.path, i)
      BY <1>1, <2>0, <2>1, SentUnits
    <2>3. up' = IF cut THEN <<>> ELSE r
      BY <1>1, <2>1, <2>2, EmptySeq DEF SSent, Sends, File
    <2>4. CASE cut
      <3>1. up' = <<>> /\ Len(up') = 0 /\ DOMAIN up' = {}
        BY <2>3, <2>4
      <3>2. 0 <= (snk.size - Len(snk.got)) + 1
        BY SinkIs DEF RcpTypes, SinkAt
      <3> QED BY <1>1, <1>2, <1>4, <3>1, <3>2 DEF CleanEnd
    <2>5. CASE ~cut
      <3>1. up' = r
        BY <2>3, <2>5
      <3>2. \A i \in DOMAIN r : i \in 1 .. Item.n \/ i = Item.n + 1
        BY <2>2
      <3>3. \A i \in DOMAIN r : r[i].k \in {"unit", "end", "part"}
        BY <2>0, <2>2, <3>2, UnitKinds
      <3>4. Storing => snk.got = <<>> /\ snk.size = Item.n /\ Len(snk.got) = 0
        BY <1>1 DEF AllClean, CleanStore
      <3>5. snk.pc = "resp" => Len(r) <= 1
        <4>1. snk.pc = "resp" => Len(snk.got) = snk.size /\ Storing
          BY DEF RcpTypes, SinkAt, Storing
        <4> QED BY <2>2, <3>4, <4>1
      <3>6. ASSUME snk.pc = "data"
            PROVE  /\ Len(r) <= (snk.size - Len(snk.got)) + 1
                   /\ \A i \in DOMAIN r : r[i] = IF i <= snk.size - Len(snk.got) THEN Unit(Item.path, Len(snk.got) + i) ELSE Rec("end", Item.path)
        <4>1. Len(snk.got) = 0 /\ snk.size = Item.n
          BY <3>4, <3>6 DEF Storing
        <4>2. snk.size - Len(snk.got) = Item.n
          BY <2>2, <4>1
        <4>3. ASSUME NEW i \in DOMAIN r PROVE r[i] = IF i <= Item.n THEN Unit(Item.path, 0 + i) ELSE Rec("end", Item.path)
          <5>1. i \in Nat /\ 0 + i = i /\ (i <= Item.n => i \in 1 .. Item.n) /\ (~(i <= Item.n) => i = Item.n + 1)
            BY <2>2
          <5> QED BY <2>2, <5>1
        <4> QED BY <2>2, <4>1, <4>2, <4>3
      <3> QED BY <1>1, <1>2, <1>4, <3>1, <3>3, <3>5, <3>6 DEF CleanEnd
    <2> QED BY <2>4, <2>5
  <1> QED BY <1>5, <1>6, <1>7, <1>8 DEF AllClean

\* Clean: the source.
LEMMA SourceClean ==
  ASSUME RcpTypes, Clean, SourceKinds
  PROVE  Clean'
  BY CleanKinds, AskClean, DoneClean, MovedClean, TimedClean, SentClean DEF Clean, AllClean

(* Clean: the steps of the sink.                                            *)
LEMMA SinkView ==
  ASSUME RcpTypes, SinkKinds
  PROVE  /\ opt' = opt /\ src' = src /\ cut' = cut /\ Plan' = Plan /\ Item' = Item /\ Level' = Level /\ Asked' = Asked
         /\ snk.pc # "exit"
  <1>1. opt' = opt /\ src' = src /\ cut' = cut /\ snk.pc # "exit"
    BY SinkRest
  <1>2. Plan' = Plan /\ Item' = Item
    BY <1>1 DEF Plan, Item
  <1> QED BY <1>1, <1>2 DEF Level, Asked

LEMMA DoneKept ==
  ASSUME RcpTypes, SinkKinds, Done, \A i \in 1 .. src.at - 1 : Has(disk, opt.pflag, Plan[i]) /\ Plan[i].k = "C" => Has(disk', opt.pflag, Plan[i])
  PROVE  Done'
  BY DoneIs, SinkView

LEMMA PlanPaths ==
  ASSUME RcpTypes, NEW i \in 1 .. src.at - 1
  PROVE  i \in DOMAIN Plan /\ Plan[i].path \in Paths /\ Targ \in Paths /\ i \in Nat /\ i < src.at
  <1>1. i \in DOMAIN Plan /\ i \in Nat /\ i < src.at
    BY PlanFacts, AtFacts
  <1> QED BY <1>1, PlanFacts DEF Paths

\* What has arrived stays so when times are set, a directory is made or a file is opened.
LEMMA HasTime ==
  ASSUME NEW d \in Disks, NEW p \in Paths, NEW it, it.path \in Paths, Targ \in Paths, NEW timed, Has(d, timed, it)
  PROVE  Has(DTime(d, p), timed, it)
  <1>1. PICK q \in {it.path, Targ} : d[q].kind = "file" /\ d[q].data = Units(it, TRUE) /\ (timed => d[q].time = "source")
    BY DEF Has
  <1>2. PICK e : e = DTime(d, p)
    OBVIOUS
  <1>3. e[q].kind = d[q].kind /\ e[q].data = d[q].data /\ (e[q].time = d[q].time \/ e[q].time = "source")
    <2>1. q \in Paths
      BY <1>1
    <2>2. CASE q = p
      <3>1. e[p].kind = d[p].kind /\ e[p].data = d[p].data /\ e[p].time = "source"
        BY <1>2, DTimeFacts
      <3> QED BY <2>2, <3>1
    <2>3. CASE q # p
      <3>1. e[q] = d[q]
        BY <1>2, <2>1, <2>3, DTimeFacts
      <3> QED BY <3>1
    <2> QED BY <2>2, <2>3
  <1>4. Has(e, timed, it)
    BY <1>1, <1>3 DEF Has
  <1> QED BY <1>2, <1>4

LEMMA HasDir ==
  ASSUME NEW d \in Disks, NEW p \in Paths, d[p].kind # "file", NEW it, it.path \in Paths, Targ \in Paths, NEW timed, Has(d, timed, it)
  PROVE  Has(DDir(d, p), timed, it)
  <1>1. PICK q \in {it.path, Targ} : d[q].kind = "file" /\ d[q].data = Units(it, TRUE) /\ (timed => d[q].time = "source")
    BY DEF Has
  <1>2. PICK e : e = DDir(d, p)
    OBVIOUS
  <1>3. e[q] = d[q]
    BY <1>1, <1>2, DDirFacts
  <1>4. Has(e, timed, it)
    BY <1>1, <1>3 DEF Has
  <1> QED BY <1>2, <1>4

LEMMA DOpenKeeps ==
  ASSUME NEW d \in Disks, NEW p \in Paths, d[p].kind = "file"
  PROVE  DOpen(d, p)[p].data = d[p].data /\ DOpen(d, p)[p].time = d[p].time
  <1>1. PICK x : x = d[p]
    OBVIOUS
  <1>2. PICK y : y = [x EXCEPT !.kind = "file", !.time = IF x.kind = "file" THEN @ ELSE "now"]
    OBVIOUS
  <1>3. x \in Nodes
    BY <1>1, NodeForm
  <1>4. y \in Nodes /\ y.data = x.data /\ y.time = x.time
    BY <1>1, <1>2, <1>3 DEF Nodes
  <1>5. DOpen(d, p) = DPut(d, p, y)
    BY <1>1, <1>2 DEF DOpen, DPut
  <1>6. DOpen(d, p)[p] = y
    BY <1>4, <1>5, DiskPut
  <1> QED BY <1>1, <1>4, <1>6

LEMMA HasOpen ==
  ASSUME NEW d \in Disks, NEW p \in Paths, NEW it, it.path \in Paths, Targ \in Paths, NEW timed, Has(d, timed, it)
  PROVE  Has(DOpen(d, p), timed, it)
  <1>1. PICK q \in {it.path, Targ} : d[q].kind = "file" /\ d[q].data = Units(it, TRUE) /\ (timed => d[q].time = "source")
    BY DEF Has
  <1>2. PICK e : e = DOpen(d, p)
    OBVIOUS
  <1>3. e[q].kind = "file" /\ e[q].data = d[q].data /\ e[q].time = d[q].time
    <2>1. CASE q = p
      <3>1. e[p].kind = "file" /\ (d[p].kind = "file" => e[p].data = d[p].data /\ e[p].time = d[p].time)
        BY <1>2, DOpenFacts, DOpenKeeps
      <3> QED BY <1>1, <2>1, <3>1
    <2>2. CASE q # p
      <3>1. e[q] = d[q]
        BY <1>1, <1>2, <2>2, DOpenFacts
      <3> QED BY <1>1, <3>1
    <2> QED BY <2>1, <2>2
  <1>4. Has(e, timed, it)
    BY <1>1, <1>3 DEF Has
  <1> QED BY <1>2, <1>4

(* No file that was copied is touched, but for its time.                    *)
LEMMA DoneStays ==
  ASSUME RcpTypes, SinkKinds, Done,
         \/ disk' = disk
         \/ \E p \in Paths : disk' = DTime(disk, p) \/ (disk' = DDir(disk, p) /\ disk[p].kind # "file") \/ disk' = DOpen(disk, p)
  PROVE  Done'
  <1>1. disk \in Disks
    BY DEF RcpTypes, Types, Disks
  <1>2. ASSUME NEW i \in 1 .. src.at - 1, Has(disk, opt.pflag, Plan[i]) PROVE Has(disk', opt.pflag, Plan[i])
    <2>1. PICK it : it = Plan[i]
      OBVIOUS
    <2>2. it.path \in Paths /\ Targ \in Paths
      BY <2>1, PlanPaths
    <2>3. Has(disk, opt.pflag, it)
      BY <1>2, <2>1
    <2>4. CASE disk' = disk
      BY <1>2, <2>4
    <2>5. CASE disk' # disk
      <3>1. PICK p \in Paths : disk' = DTime(disk, p) \/ (disk' = DDir(disk, p) /\ disk[p].kind # "file") \/ disk' = DOpen(disk, p)
        BY <2>5
      <3>2. disk' = DTime(disk, p) => Has(disk', opt.pflag, it)
        BY <1>1, <2>2, <2>3, HasTime
      <3>3. disk' = DDir(disk, p) /\ disk[p].kind # "file" => Has(disk', opt.pflag, it)
        BY <1>1, <2>2, <2>3, HasDir
      <3>4. disk' = DOpen(disk, p) => Has(disk', opt.pflag, it)
        BY <1>1, <2>2, <2>3, HasOpen
      <3> QED BY <2>1, <3>1, <3>2, <3>3, <3>4
    <2> QED BY <2>4, <2>5
  <1> QED BY <1>2, DoneKept

(* What the sink says.                                                      *)
SecondErr == Okd /\ Len(down) > 1 => down[2] = "err"

\* What the source will hear after the sink answered.
LEMMA SaidLast ==
  ASSUME RcpTypes, NEW ans \in Seq(Answers), Says(ans)
  PROVE  /\ down' \in Seq(Answers) /\ (cut => down' = down) /\ (~cut /\ down = <<>> => down' = ans)
         /\ down # <<>> => /\ down' # <<>> /\ Head(down') = Head(down) /\ Len(down) \in Nat \ {0}
                           /\ Len(down) > 1 => down'[2] = down[2]
                           /\ Len(down) = 1 /\ Len(down') > 1 => down'[2] = ans[1] /\ 1 \in DOMAIN ans
  <1>1. down \in Seq(Answers) /\ Len(down) \in Nat
    BY Flows
  <1>2. PICK r : r = down'
    OBVIOUS
  <1>3. r = down \o (IF cut THEN <<>> ELSE ans)
    BY <1>2 DEF Says
  <1>4. CASE cut
    <2>1. r = down
      BY <1>1, <1>3, <1>4, ConcatEmptySeq
    <2> QED BY <1>1, <1>2, <1>4, <2>1, EmptySeq
  <1>5. CASE ~cut
    <2>1. r = down \o ans
      BY <1>3, <1>5
    <2>2. r \in Seq(Answers) /\ Len(r) = Len(down) + Len(ans) /\ Len(ans) \in Nat
      BY <1>1, <2>1
    <2>3. down = <<>> => r = ans
      BY <2>1, ConcatEmptySeq
    <2>4. ASSUME down # <<>>
          PROVE  /\ r # <<>> /\ Head(r) = Head(down) /\ Len(down) \in Nat \ {0}
                 /\ Len(down) > 1 => r[2] = down[2]
                 /\ Len(down) = 1 /\ Len(r) > 1 => r[2] = ans[1] /\ 1 \in DOMAIN ans
      <3>1. Len(down) \in Nat \ {0} /\ 1 \in 1 .. Len(down)
        BY <1>1, <2>4, EmptySeq
      <3>2. r[1] = down[1] /\ r # <<>>
        BY <1>1, <2>1, <2>2, <3>1
      <3>3. Head(r) = r[1] /\ Head(down) = down[1]
        BY <1>1, <2>2, <2>4, <3>2
      <3>4. Len(down) > 1 => r[2] = down[2]
        BY <1>1, <2>1
      <3>5. Len(down) = 1 /\ Len(r) > 1 => r[2] = ans[1] /\ 1 \in DOMAIN ans
        BY <1>1, <2>1, <2>2
      <3> QED BY <3>1, <3>2, <3>3, <3>4, <3>5
    <2> QED BY <1>2, <1>5, <2>2, <2>3, <2>4
  <1> QED BY <1>4, <1>5

LEMMA HeadFacts ==
  ASSUME NEW s \in Seq(Answers), s # <<>>
  PROVE  Head(s) = s[1] /\ 1 \in DOMAIN s
  BY TailFacts

LEMMA OkSaid ==
  ASSUME RcpTypes, ~Okd, SecondErr, NEW ans \in {<<"ok">>, <<"ok", "err">>}, Says(ans)
  PROVE  SecondErr' /\ (Okd' => ~cut /\ down' = ans)
  <1>1. ans \in Seq(Answers) /\ Len(ans) \in Nat /\ (Len(ans) > 1 => ans[2] = "err")
    <2>1. CASE ans = <<"ok">>
      BY <2>1, SaysOne
    <2>2. CASE ans = <<"ok", "err">>
      BY <2>2, SaysOne
    <2> QED BY <2>1, <2>2
  <1>2. CASE down # <<>>
    <2>1. ~Okd'
      BY <1>1, <1>2, SaidLast DEF Okd
    <2> QED BY <2>1 DEF SecondErr
  <1>3. CASE down = <<>>
    <2>1. cut => ~Okd'
      BY <1>1, <1>3, SaidLast DEF Okd
    <2>2. ~cut => down' = ans
      BY <1>1, <1>3, SaidLast
    <2>3. CASE cut
      BY <2>1, <2>3 DEF SecondErr
    <2>4. CASE ~cut
      <3>1. down' = ans
        BY <2>2, <2>4
      <3>2. Len(down') > 1 => down'[2] = "err"
        BY <1>1, <3>1
      <3> QED BY <2>4, <3>1, <3>2 DEF SecondErr
    <2> QED BY <2>3, <2>4
  <1> QED BY <1>2, <1>3

LEMMA ErrSaid ==
  ASSUME RcpTypes, SecondErr, NEW ans \in Seq(Answers), Says(ans), \A i \in DOMAIN ans : ans[i] = "err"
  PROVE  SecondErr' /\ (Okd' => Okd)
  <1>1. CASE down # <<>>
    <2>1. Okd' => Okd
      BY <1>1, SaidLast DEF Okd
    <2>2. ASSUME Okd', Len(down') > 1 PROVE down'[2] = "err"
      <3>1. Len(down) \in Nat \ {0}
        BY <1>1, SaidLast
      <3>2. CASE Len(down) > 1
        BY <1>1, <2>1, <2>2, <3>2, SaidLast DEF SecondErr
      <3>3. CASE Len(down) = 1
        <4>1. down'[2] = ans[1] /\ 1 \in DOMAIN ans
          BY <1>1, <2>2, <3>3, SaidLast
        <4>2. ans[1] = "err"
          BY <4>1, Zenon
        <4> QED BY <4>1, <4>2
      <3>4. Len(down) = 1 \/ Len(down) > 1
        BY <3>1, MoreThanOne
      <3> QED BY <3>2, <3>3, <3>4
    <2> QED BY <2>1, <2>2 DEF SecondErr
  <1>2. CASE down = <<>>
    <2>1. ~Okd'
      <3>1. CASE cut
        BY <1>2, <3>1, SaidLast DEF Okd
      <3>2. CASE ~cut
        <4>1. down' = ans
          BY <1>2, <3>2, SaidLast
        <4>2. ans # <<>> => Head(ans) = ans[1] /\ 1 \in DOMAIN ans
          <5>1. ASSUME ans # <<>> PROVE Head(ans) = ans[1] /\ 1 \in DOMAIN ans
            BY <5>1, HeadFacts
          <5> QED BY <5>1
        <4> QED BY <4>1, <4>2 DEF Okd
      <3> QED BY <3>1, <3>2
    <2> QED BY <2>1 DEF SecondErr
  <1> QED BY <1>1, <1>2

LEMMA Unsaid ==
  ASSUME SecondErr, down' = down
  PROVE  SecondErr' /\ (Okd' => Okd)
  BY DEF SecondErr, Okd

(* A sink that reads something reads it while no answer is ok.               *)
LEMMA ReadsClean ==
  ASSUME RcpTypes, AllClean, Reads
  PROVE  ~Okd /\ SecondErr /\ src.pc \in Asks \cup {"end"} /\ (src.pc \in Asks => up = <<Asked>> \/ up = <<Part>>)
  BY AtFacts DEF AllClean, CleanAnswers, CleanAsk, Reads, SecondErr

LEMMA AskedKind ==
  ASSUME RcpTypes, src.pc \in Asks
  PROVE  /\ Asked.k = src.pc /\ (src.pc # "T" => Asked = Item /\ Item.k = src.pc) /\ src.at \in DOMAIN Plan /\ Asked \in Tokens
         /\ Item.path \in Paths /\ Item.path # Targ /\ Targ \in Paths /\ Item.n \in Nat /\ Item = Plan[src.at] /\ Item \in Tokens
  <1>1. src.at \in DOMAIN Plan /\ Item = Plan[src.at] /\ Item \in Tokens
    BY AtFacts
  <1>2. Item.path \in Paths /\ Item.path # Targ /\ Targ \in Paths /\ Item.n \in Nat
    BY <1>1, PlanFacts DEF Paths
  <1>3. src.pc # "T" => Asked = Item /\ Item.k = src.pc
    BY DEF Asked, RcpTypes, SourceAt, Asks
  <1>4. src.pc = "T" => Asked = Rec("T", Item.path)
    BY DEF Asked
  <1> QED BY <1>1, <1>2, <1>3, <1>4, UnitKinds, SentTokens

\* The record that a sink in a clean run reads.
LEMMA RecordIs ==
  ASSUME RcpTypes, AllClean, snk.pc = "rec", Reads, Head(up).k \in Asks \cup {"err"}
  PROVE  /\ src.pc \in Asks /\ src.pc = Head(up).k /\ Head(up) = Asked /\ up' = <<>> /\ Deep(Level) /\ (src.pc \in {"C", "D"} => Timed)
         /\ ~Okd /\ SecondErr
  <1>1. Head(up) = up[1] /\ 1 \in DOMAIN up
    BY ReadsTypes
  <1>2. src.pc \in Asks
    <2>1. src.pc # "end"
      <3>1. ASSUME src.pc = "end" PROVE FALSE
        <4>1. up[1].k \in {"unit", "end", "part"}
          BY <1>1, <3>1 DEF AllClean, CleanEnd
        <4> QED BY <1>1, <4>1 DEF Asks
      <3> QED BY <3>1
    <2> QED BY <2>1, ReadsClean
  <1>3. up = <<Asked>>
    <2>1. ASSUME up = <<Part>> PROVE FALSE
      <3>1. Head(up).k = "part"
        BY <2>1, UnitKinds
      <3> QED BY <3>1 DEF Asks
    <2> QED BY <1>2, <2>1, ReadsClean
  <1>4. Head(up) = Asked /\ up' = <<>>
    BY <1>3 DEF Reads
  <1>5. Deep(Level) /\ (src.pc \in {"C", "D"} => Timed)
    BY <1>2, <1>3 DEF AllClean, CleanAsk
  <1> QED BY <1>2, <1>4, <1>5, AskedKind, ReadsClean

LEMMA RecClean ==
  ASSUME RcpTypes, AllClean, SinkKinds, src.pc \in Asks, up' = <<>>, snk'.pc = "rec", Done', SecondErr',
         ~cut /\ Okd' => /\ src.pc = "T" => Len(snk'.stack) = Level + 1 /\ Top'.setimes
                         /\ src.pc \in {"D", "E"} => Len(snk'.stack) = Depth(Plan)[src.at + 1] + 1
                         /\ src.pc = "C" => Len(down') > 1
  PROVE  AllClean'
  <1>1. /\ src' = src /\ cut' = cut /\ Plan' = Plan /\ Level' = Level /\ ~Storing' /\ Asked' = Asked
    BY SinkView DEF Storing
  <1>2. CleanAnswers'
    BY <1>1 DEF CleanAnswers, SecondErr, Asks
  <1>3. CleanStore' /\ CleanEnd' /\ CleanRest'
    BY <1>1 DEF CleanStore, CleanEnd, CleanRest, Asks
  <1>4. CleanAsk'
    <2>1. up' # <<Asked'>>
      OBVIOUS
    <2> QED BY <1>1, <2>1 DEF CleanAsk, Deep
  <1> QED BY <1>2, <1>3, <1>4 DEF AllClean

\* Clean: the sink notes the times.
LEMMA TimesClean ==
  ASSUME RcpTypes, AllClean, KTimes
  PROVE  AllClean'
  <1>0. SinkKinds
    BY DEF SinkKinds
  <1>1. snk.pc = "rec" /\ Reads /\ Head(up).k = "T" /\ Says(<<"ok">>) /\ disk' = disk
        /\ Snk("rec", [snk.stack EXCEPT ![Len(snk.stack)] = [Top EXCEPT !.setimes = TRUE]], 0)
    BY DEF KTimes
  <1>2. src.pc = "T" /\ up' = <<>> /\ Deep(Level) /\ ~Okd /\ SecondErr
    BY <1>1, RecordIs DEF Asks
  <1>3. SecondErr'
    BY <1>1, <1>2, OkSaid
  <1>4. PICK f : f = [Top EXCEPT !.setimes = TRUE]
    OBVIOUS
  <1>5. Top \in Frames /\ StackOk(snk.stack)
    BY <1>1, StackNow
  <1>6. f \in Frames /\ f.isdir = Top.isdir /\ f.setimes
    BY <1>4, <1>5 DEF Frames
  <1>7. snk'.pc = "rec" /\ snk'.stack = PutTop(snk.stack, f)
    BY <1>1, <1>4, SnkFields DEF PutTop
  <1>8. Len(snk'.stack) = Len(snk.stack) /\ snk'.stack[Len(snk.stack)] = f
    BY <1>5, <1>6, <1>7, StackTop DEF Top
  <1>9. Len(snk'.stack) = Level + 1 /\ Top'.setimes
    BY <1>2, <1>6, <1>8 DEF Deep, Top
  <1>10. Done'
    BY <1>0, <1>1, DoneStays DEF AllClean
  <1> QED BY <1>0, <1>2, <1>3, <1>7, <1>9, <1>10, RecClean DEF Asks

\* Clean: the sink refuses.
LEMMA RefusedClean ==
  ASSUME RcpTypes, AllClean, KRefused
  PROVE  AllClean'
  <1>0. SinkKinds
    BY DEF SinkKinds
  <1>1. snk.pc = "rec" /\ Reads /\ Head(up).k \in {"C", "D"} /\ Says(<<"err">>) /\ disk' = disk /\ Snk("rec", snk.stack, 1)
    BY DEF KRefused
  <1>2. src.pc \in Asks /\ up' = <<>> /\ ~Okd /\ SecondErr
    BY <1>1, RecordIs DEF Asks
  <1>3. SecondErr' /\ ~Okd'
    <2>1. \A i \in DOMAIN <<"err">> : <<"err">>[i] = "err"
      OBVIOUS
    <2> QED BY <1>1, <1>2, <2>1, SaysOne, ErrSaid
  <1>4. snk'.pc = "rec"
    BY <1>1, SnkFields
  <1>5. Done'
    BY <1>0, <1>1, DoneStays DEF AllClean
  <1> QED BY <1>0, <1>2, <1>3, <1>4, <1>5, RecClean

\* Clean: the sink enters a directory.
LEMMA EnteredClean ==
  ASSUME RcpTypes, AllClean, KEntered
  PROVE  AllClean'
  <1>0. SinkKinds
    BY DEF SinkKinds
  <1>1. PICK np : np = Np(Head(up))
    OBVIOUS
  <1>2. /\ snk.pc = "rec" /\ Reads /\ Head(up).k = "D" /\ Says(<<"ok">>) /\ disk[np].kind # "file" /\ disk' = DDir(disk, np)
        /\ Snk("rec", Append(snk.stack, Frame(np, TRUE)), 0)
    BY <1>1 DEF KEntered, DDir
  <1>3. src.pc = "D" /\ up' = <<>> /\ Deep(Level) /\ ~Okd /\ SecondErr
    BY <1>2, RecordIs DEF Asks
  <1>4. SecondErr'
    BY <1>2, <1>3, OkSaid
  <1>5. np \in Paths
    BY <1>1, <1>2, NpIn, ReadsTypes
  <1>6. PICK f : f = Frame(np, TRUE)
    OBVIOUS
  <1>7. f \in Frames /\ f.isdir
    BY <1>5, <1>6 DEF Frame, Frames
  <1>8. snk'.pc = "rec" /\ snk'.stack = Append(snk.stack, f)
    BY <1>2, <1>6, SnkFields
  <1>9. Len(snk'.stack) = Len(snk.stack) + 1
    BY <1>2, <1>7, <1>8, StackNow, StackPush
  <1>10. Depth(Plan)[src.at + 1] = Level + 1 /\ Level \in Nat
    <2>1. src.at \in DOMAIN Plan /\ Plan[src.at].k = "D"
      BY <1>3, AskedKind DEF Asks
    <2>2. src.at \in 1 .. Len(Plan) + 1
      BY AtFacts
    <2> QED BY <2>1, <2>2, LevelFacts DEF Level
  <1>11. Len(snk'.stack) = Depth(Plan)[src.at + 1] + 1
    BY <1>3, <1>9, <1>10 DEF Deep
  <1>12. Done'
    BY <1>0, <1>2, <1>5, DoneStays DEF AllClean
  <1> QED BY <1>0, <1>3, <1>4, <1>8, <1>11, <1>12, RecClean DEF Asks

\* Clean: the sink has no buffer for a file it accepted.
LEMMA NoBufferClean ==
  ASSUME RcpTypes, AllClean, KNoBuffer
  PROVE  AllClean'
  <1>0. SinkKinds
    BY DEF SinkKinds
  <1>1. PICK np : np = Np(Head(up))
    OBVIOUS
  <1>2. /\ snk.pc = "rec" /\ Reads /\ Head(up).k = "C" /\ Says(<<"ok", "err">>) /\ disk' = DOpen(disk, np) /\ Snk("rec", snk.stack, 1)
    BY <1>1 DEF KNoBuffer, Opened, DOpen
  <1>3. src.pc = "C" /\ up' = <<>> /\ ~Okd /\ SecondErr
    BY <1>2, RecordIs DEF Asks
  <1>4. SecondErr' /\ (Okd' => down' = <<"ok", "err">>)
    BY <1>2, <1>3, OkSaid
  <1>5. Okd' => Len(down') > 1
    BY <1>4
  <1>6. np \in Paths
    BY <1>1, <1>2, NpIn, ReadsTypes
  <1>7. snk'.pc = "rec"
    BY <1>2, SnkFields
  <1>8. Done'
    BY <1>0, <1>2, <1>6, DoneStays DEF AllClean
  <1> QED BY <1>0, <1>3, <1>4, <1>5, <1>7, <1>8, RecClean DEF Asks

\* Clean: the sink leaves a directory.
LEMMA BackClean ==
  ASSUME RcpTypes, AllClean, KBack
  PROVE  AllClean'
  <1>0. SinkKinds
    BY DEF SinkKinds
  <1>1. PICK e \in {0, 1}, answers \in {<<>>, <<"ok">>} :
       /\ IF answers = <<>> THEN up = <<>> /\ SourceGone /\ UNCHANGED up ELSE Reads /\ Head(up).k = "E"
       /\ Snk("rec", Popped, e)
       /\ Says(answers \o IF e = 1 THEN <<"err">> ELSE <<>>)
       /\ disk' = IF Outer.setimes /\ e = 0 THEN [disk EXCEPT ![Top.targ].time = "source"] ELSE disk
    BY DEF KBack
  <1>2. snk.pc = "rec" /\ Len(snk.stack) # 1
    BY DEF KBack
  <1>3. Len(Popped) = Len(snk.stack) - 1 /\ Len(snk.stack) > 1 /\ Len(snk.stack) \in Nat
    BY <1>2, StackPop, SinkIs
  <1>4. snk'.pc = "rec" /\ snk'.stack = Popped
    BY <1>1, SnkFields
  <1>5. Done'
    <2>1. Top.targ \in Paths
      BY <1>2, StackNow DEF Frames
    <2>2. disk' = disk \/ disk' = DTime(disk, Top.targ)
      BY <1>1 DEF DTime
    <2> QED BY <1>0, <2>1, <2>2, DoneStays DEF AllClean
  <1>6. PICK ans : ans = answers \o IF e = 1 THEN <<"err">> ELSE <<>>
    OBVIOUS
  <1>7. Says(ans)
    BY <1>1, <1>6
  <1>8. SecondErr
    BY DEF AllClean, CleanAnswers, SecondErr
  <1>9. CASE answers = <<"ok">>
    <2>1. Reads /\ Head(up).k = "E"
      BY <1>1, <1>9
    <2>2. src.pc = "E" /\ up' = <<>> /\ Deep(Level) /\ ~Okd
      BY <1>2, <2>1, RecordIs DEF Asks
    <2>3. ans \in {<<"ok">>, <<"ok", "err">>}
      <3>1. CASE e = 1
        BY <1>6, <1>9, <3>1, SaysTwo
      <3>2. CASE e # 1
        BY <1>6, <1>9, <3>2, SaysOne, ConcatEmptySeq
      <3> QED BY <3>1, <3>2
    <2>4. SecondErr'
      BY <1>7, <1>8, <2>2, <2>3, OkSaid
    <2>5. Level = Depth(Plan)[src.at + 1] + 1 /\ Depth(Plan)[src.at + 1] \in Nat
      <3>1. src.at \in DOMAIN Plan /\ Plan[src.at].k = "E"
        BY <2>2, AskedKind DEF Asks
      <3> QED BY <3>1, LevelFacts DEF Level
    <2>6. Len(snk'.stack) = Depth(Plan)[src.at + 1] + 1
      BY <1>3, <1>4, <2>2, <2>5 DEF Deep
    <2> QED BY <1>0, <1>4, <1>5, <2>2, <2>4, <2>6, RecClean DEF Asks
  <1>10. CASE answers = <<>>
    <2>1. up = <<>> /\ up' = <<>> /\ (cut \/ src.pc = "exit")
      BY <1>1, <1>10 DEF SourceGone
    <2>2. cut
      <3>1. ASSUME ~cut PROVE FALSE
        <4>1. src.pc = "exit" /\ src.at = Len(Plan) + 1 /\ Deep(Level)
          BY <1>2, <2>1, <3>1 DEF AllClean, CleanRest, CleanAnswers
        <4>2. Level = 0
          BY <4>1, DepthFacts DEF Level, Nesting
        <4> QED BY <1>2, <4>1, <4>2 DEF Deep
      <3> QED BY <3>1
    <2>3. down' = down
      <3>1. ans \in Seq(Answers)
        <4>1. CASE e = 1
          BY <1>6, <1>10, <4>1, SaysOne, ConcatEmptySeq
        <4>2. CASE e # 1
          BY <1>6, <1>10, <4>2, SaysOne, ConcatEmptySeq
        <4> QED BY <4>1, <4>2
      <3> QED BY <1>7, <2>2, <3>1, SaidNothing
    <2>4. /\ src' = src /\ cut' /\ Plan' = Plan /\ Level' = Level /\ ~Storing' /\ Asked' = Asked /\ Item' = Item
      BY <1>0, <1>4, <2>2, SinkView DEF Storing
    <2>5. CleanAnswers'
      BY <1>2, <1>4, <2>1, <2>3, <2>4 DEF AllClean, CleanAnswers, Okd
    <2>6. CleanStore' /\ CleanRest'
      BY <2>4 DEF CleanStore, CleanRest
    <2>7. CleanAsk'
      <3>1. up' # <<Asked'>>
        BY <2>1
      <3> QED BY <2>1, <2>4, <3>1 DEF CleanAsk
    <2>8. CleanEnd'
      <3>1. DOMAIN up' = {} /\ snk'.pc # "resp" /\ snk'.pc # "data"
        BY <1>4, <2>1
      <3>2. ASSUME src.pc = "end", Okd' PROVE Arrived(Item)'
        <4>1. Arrived(Item)
          BY <2>3, <3>2 DEF AllClean, CleanEnd, Okd
        <4>2. Has(disk, opt.pflag, Item) /\ src.at <= Len(Plan)
          BY <3>2, <4>1, DoneIs, AtFacts
        <4>3. Has(disk', opt.pflag, Item)
          <5>1. Top.targ \in Paths
            BY <1>2, StackNow DEF Frames
          <5>2. disk' = disk \/ disk' = DTime(disk, Top.targ)
            BY <1>1 DEF DTime
          <5>3. Item.path \in Paths /\ Targ \in Paths
            BY <4>2, AtFacts, PlanFacts DEF Paths
          <5>4. disk \in Disks
            BY DEF RcpTypes, Types, Disks
          <5> QED BY <4>2, <5>1, <5>2, <5>3, <5>4, HasTime
        <4> QED BY <1>0, <2>4, <4>3, DoneIs, SinkView
      <3> QED BY <2>4, <3>1, <3>2 DEF CleanEnd
    <2> QED BY <1>5, <2>5, <2>6, <2>7, <2>8 DEF AllClean
  <1> QED BY <1>9, <1>10

LEMMA ErrNot ==
  ASSUME RcpTypes, AllClean, KErr
  PROVE  FALSE
  <1>1. src.pc \in Asks /\ src.pc = "err"
    BY RecordIs DEF KErr
  <1> QED BY <1>1 DEF Asks

\* Clean: the sink says that it is ready.
LEMMA StartedClean ==
  ASSUME RcpTypes, AllClean, KStarted
  PROVE  AllClean'
  <1>0. SinkKinds
    BY DEF SinkKinds
  <1>1. snk.pc = "start" /\ up' = up /\ disk' = disk /\ Says(<<"ok">>) /\ snk'.pc = "rec" /\ snk'.stack = <<Frame(Targ, IsDir(Targ))>>
    BY SnkFields DEF KStarted
  <1>2. src.pc = "start" /\ down = <<>> /\ up' = <<>> /\ ~Okd /\ SecondErr
    BY <1>1 DEF AllClean, CleanAnswers, Okd, SecondErr
  <1>3. SecondErr' /\ (~cut => down' = <<"ok">>)
    BY <1>1, <1>2, OkSaid, SaidNow, SaysOne
  <1>4. src' = src /\ cut' = cut /\ ~Storing'
    BY <1>0, <1>1, SinkView DEF Storing
  <1>5. Done'
    BY <1>0, <1>1, DoneStays DEF AllClean
  <1>6. CleanAnswers'
    BY <1>1, <1>2, <1>3, <1>4 DEF CleanAnswers, SecondErr
  <1>7. CleanStore' /\ CleanAsk' /\ CleanEnd'
    BY <1>2, <1>4 DEF CleanStore, CleanAsk, CleanEnd, Asks
  <1>8. CleanRest'
    <2>1. Len(snk'.stack) = 1
      BY <1>1
    <2>2. ~cut => Okd'
      BY <1>3 DEF Okd
    <2> QED BY <1>1, <1>2, <1>4, <2>1, <2>2 DEF CleanRest, Deep
  <1> QED BY <1>5, <1>6, <1>7, <1>8 DEF AllClean

LEMMA EndKinds ==
  ASSUME RcpTypes, AllClean, src.pc = "end", NEW i \in DOMAIN up
  PROVE  up[i].k \in {"unit", "end", "part"}
  <1>1. CASE snk.pc # "data"
    BY <1>1 DEF AllClean, CleanEnd
  <1>2. CASE snk.pc = "data"
    <2>1. \/ up[i] = Unit(Item.path, Len(snk.got) + i) \/ up[i] = Rec("end", Item.path) \/ up[i].k = "part"
      BY <1>2 DEF AllClean, CleanEnd
    <2> QED BY <2>1, UnitKinds
  <1> QED BY <1>1, <1>2

LEMMA AskTail ==
  ASSUME RcpTypes, AllClean, Reads, src.pc \in Asks
  PROVE  up' = <<>>
  <1>1. up = <<Asked>> \/ up = <<Part>>
    BY ReadsClean
  <1> QED BY <1>1 DEF Reads

LEMMA OutClean ==
  ASSUME RcpTypes, AllClean, SinkKinds, snk'.pc = "exit", disk' = disk, up' = up \/ Reads, SecondErr', Okd' => Okd /\ cut,
         src.pc = "start" /\ ~cut => down' # <<>>
  PROVE  AllClean'
  <1>1. src' = src /\ cut' = cut /\ Plan' = Plan /\ ~Storing' /\ Asked' = Asked /\ Item' = Item /\ opt' = opt
    BY SinkView DEF Storing
  <1>2. Done'
    BY DoneStays DEF AllClean
  <1>3. Okd' => up' = up
    BY ReadsClean
  <1>4. CleanAnswers'
    <2>1. src.pc \in {"start", "next", "exit"} => up' = <<>>
      BY ReadsClean DEF AllClean, CleanAnswers, Asks
    <2>2. Okd' => up' = <<>>
      BY <1>3 DEF AllClean, CleanAnswers
    <2>3. src.pc \in {"next", "exit"} => ~Okd'
      BY DEF AllClean, CleanAnswers
    <2>4. src.pc = "exit" => src.at = Len(Plan) + 1
      BY DEF AllClean, CleanAnswers
    <2> QED BY <1>1, <2>1, <2>2, <2>3, <2>4 DEF CleanAnswers, SecondErr
  <1>5. CleanStore' /\ CleanRest'
    BY <1>1 DEF CleanStore, CleanRest
  <1>6. CleanAsk'
    <2>1. ASSUME src.pc \in Asks PROVE up' = <<>> \/ up' = <<Asked>> \/ up' = <<Part>>
      BY <2>1, AskTail DEF AllClean, CleanAsk
    <2> QED BY <1>1, <2>1 DEF CleanAsk
  <1>7. CleanEnd'
    <2>1. ASSUME src.pc = "end", NEW i \in DOMAIN up' PROVE up'[i].k \in {"unit", "end", "part"}
      <3>1. CASE up' = up
        <4>1. i \in DOMAIN up /\ up'[i] = up[i]
          BY <3>1
        <4> QED BY <2>1, <4>1, EndKinds
      <3>2. CASE Reads
        <4>1. i + 1 \in DOMAIN up /\ up'[i] = up[i + 1]
          BY <3>2, Shifted
        <4> QED BY <2>1, <4>1, EndKinds
      <3> QED BY <3>1, <3>2
    <2>2. ASSUME src.pc = "end", Okd' PROVE Arrived(Item)'
      <3>1. Arrived(Item)
        BY <2>2 DEF AllClean, CleanEnd
      <3> QED BY <1>1, <3>1, DoneIs
    <2> QED BY <1>1, <2>1, <2>2 DEF CleanEnd
  <1> QED BY <1>2, <1>4, <1>5, <1>6, <1>7 DEF AllClean

\* Clean: sink returns to main.
LEMMA ReturnedClean ==
  ASSUME RcpTypes, AllClean, KReturned
  PROVE  AllClean' /\ up = <<>> /\ SourceGone
  <1>0. SinkKinds
    BY DEF SinkKinds
  <1>1. snk.pc = "rec" /\ Len(snk.stack) = 1 /\ disk' = disk /\ snk'.pc = "exit"
    BY SnkFields DEF KReturned
  <1>2. ~(Reads /\ Head(up).k = "E")
    <2>1. ASSUME Reads, Head(up).k = "E" PROVE FALSE
      <3>1. src.pc = "E" /\ Deep(Level)
        BY <1>1, <2>1, RecordIs DEF Asks
      <3>2. src.at \in DOMAIN Plan /\ Plan[src.at].k = "E"
        BY <3>1, AskedKind DEF Asks
      <3>3. src.at + 1 \in 1 .. Len(Plan) + 1
        BY <3>2, LevelFacts
      <3>4. Level = Depth(Plan)[src.at + 1] + 1 /\ Depth(Plan)[src.at + 1] \in Nat
        BY <3>2, <3>3, LevelFacts DEF Level
      <3>5. PICK d \in Nat : d = Depth(Plan)[src.at + 1]
        BY <3>4
      <3>6. 1 = Level + 1 /\ Level = d + 1
        BY <1>1, <3>1, <3>4, <3>5 DEF Deep
      <3> QED BY <3>6
    <2> QED BY <2>1
  <1>3. up = <<>> /\ SourceGone /\ up' = up /\ down' = down
    BY <1>2 DEF KReturned
  <1>4. SecondErr
    BY DEF AllClean, CleanAnswers, SecondErr
  <1>5. SecondErr' /\ (Okd' => Okd)
    BY <1>3, <1>4, Unsaid
  <1>6. Okd => cut
    BY <1>3 DEF AllClean, CleanAnswers, SourceGone
  <1>7. src.pc = "start" => cut
    BY <1>3 DEF SourceGone
  <1> QED BY <1>0, <1>1, <1>3, <1>5, <1>6, <1>7, OutClean

\* Clean: the sink gives up.
LEMMA GoneClean ==
  ASSUME RcpTypes, AllClean, KGone
  PROVE  AllClean'
  <1>0. SinkKinds
    BY DEF SinkKinds
  <1>1. disk' = disk /\ snk'.pc = "exit"
    BY SnkFields DEF KGone
  <1>2. SecondErr
    BY DEF AllClean, CleanAnswers, SecondErr
  <1>3. /\ up' = up \/ Reads
        /\ down' = down \/ Says(<<"err">>)
        /\ Reads \/ SourceGone \/ (snk.pc = "start" /\ Says(<<"err">>))
    BY DEF KGone
  <1>4. SecondErr' /\ (Okd' => Okd)
    <2>1. CASE down' = down
      BY <1>2, <2>1, Unsaid
    <2>2. CASE Says(<<"err">>)
      <3>1. \A i \in DOMAIN <<"err">> : <<"err">>[i] = "err"
        OBVIOUS
      <3> QED BY <1>2, <2>2, <3>1, SaysOne, ErrSaid
    <2> QED BY <1>3, <2>1, <2>2
  <1>5. Okd => cut
    <2>1. Okd => up = <<>> /\ src.pc # "exit" /\ snk.pc # "start"
      BY DEF AllClean, CleanAnswers, Okd
    <2> QED BY <1>3, <2>1 DEF Reads, SourceGone
  <1>6. src.pc = "start" /\ ~cut => down' # <<>>
    <2>1. ASSUME src.pc = "start", ~cut PROVE down' # <<>>
      <3>1. up = <<>>
        BY <2>1 DEF AllClean, CleanAnswers
      <3>2. snk.pc = "start" /\ Says(<<"err">>)
        BY <1>3, <2>1, <3>1 DEF Reads, SourceGone
      <3>3. down = <<>>
        BY <3>2 DEF AllClean, CleanAnswers
      <3>4. down' = <<"err">>
        BY <2>1, <3>2, <3>3, SaysOne, SaidNow
      <3> QED BY <3>4
    <2> QED BY <2>1
  <1> QED BY <1>0, <1>1, <1>3, <1>4, <1>5, <1>6, OutClean

(* The file is stored at the target only when it is the only argument.      *)
LEMMA TargetOnce ==
  ASSUME RcpTypes, Base, snk.pc = "rec", src.pc = "C", Deep(Level)
  PROVE  LET np == Np(Item) IN np \in {Item.path, Targ} /\ (np = Targ => src.at = 1)
  <1>1. Item.path # Targ /\ src.at \in DOMAIN Plan /\ Item = Plan[src.at] /\ Item.k = "C"
    BY AskedKind DEF Asks
  <1>2. CASE Top.isdir
    BY <1>1, <1>2 DEF Np
  <1>3. CASE ~Top.isdir
    <2>1. StackOk(snk.stack) /\ Top = snk.stack[Len(snk.stack)] /\ Len(snk.stack) \in DOMAIN snk.stack /\ Len(snk.stack) \in Nat \ {0}
      <3>1. StackOk(snk.stack) /\ Top = snk.stack[Len(snk.stack)]
        BY StackNow
      <3> QED BY <3>1 DEF StackOk
    <2>2. Len(snk.stack) = 1
      <3>1. ~(Len(snk.stack) > 1)
        <4>1. \A i \in DOMAIN snk.stack : i > 1 => snk.stack[i].isdir
          BY <2>1 DEF StackOk
        <4> QED BY <1>3, <2>1, <4>1, Zenon
      <3> QED BY <2>1, <3>1, MoreThanOne
    <2>3. ~opt.dflag /\ Top.targ = Targ
      BY <1>3, <2>1, <2>2 DEF StackOk, Base
    <2>4. Depth(Plan)[src.at] = 0
      <3>1. Level = Depth(Plan)[src.at] /\ Depth(Plan)[src.at] \in Nat
        <4>1. src.at \in 1 .. Len(Plan) + 1
          BY AtFacts
        <4> QED BY <4>1, LevelFacts DEF Level
      <3>2. Len(snk.stack) = Level + 1
        BY DEF Deep
      <3>3. PICK d \in Nat : d = Depth(Plan)[src.at]
        BY <3>1
      <3>4. 1 = d + 1
        BY <2>2, <3>1, <3>2, <3>3
      <3>5. d = 0
        BY <3>4
      <3> QED BY <3>3, <3>5
    <2>5. Plan[src.at].arg
      BY <1>1, <2>4, LevelFacts
    <2>6. 1 \in DOMAIN Plan /\ Plan[1].arg
      <3>1. 1 \in DOMAIN Plan /\ 1 \in 1 .. Len(Plan) + 1
        BY <1>1, PlanFacts
      <3>2. Plan[1].k # "E"
        <4>1. ASSUME Plan[1].k = "E" PROVE FALSE
          <5>1. Depth(Plan)[1] = Depth(Plan)[1 + 1] + 1 /\ Depth(Plan)[1] = 0 /\ 1 + 1 \in 1 .. Len(Plan) + 1
            BY <3>1, <4>1, LevelFacts
          <5>2. Depth(Plan)[1 + 1] \in Nat
            BY <5>1, LevelFacts
          <5>3. PICK d \in Nat : d = Depth(Plan)[1 + 1]
            BY <5>2
          <5>4. 0 = d + 1
            BY <5>1, <5>3
          <5> QED BY <5>4
        <4> QED BY <4>1
      <3> QED BY <3>1, <3>2, LevelFacts
    <2>7. src.at = 1
      BY <1>1, <2>3, <2>5, <2>6 DEF RcpTypes, OneArgument
    <2> QED BY <1>3, <2>3, <2>7 DEF Np
  <1> QED BY <1>2, <1>3

\* Clean: the sink accepts a file.
LEMMA CreatedClean ==
  ASSUME RcpTypes, Base, AllClean, KCreated
  PROVE  AllClean'
  <1>0. SinkKinds
    BY DEF SinkKinds
  <1>1. PICK np : np = Np(Head(up))
    OBVIOUS
  <1>2. /\ snk.pc = "rec" /\ Reads /\ Head(up).k = "C" /\ Says(<<"ok">>) /\ disk' = DOpen(disk, np)
        /\ snk'.pc = "data" /\ snk'.stack = snk.stack /\ snk'.np = np /\ snk'.size = Head(up).n /\ snk'.got = <<>>
    BY <1>1 DEF KCreated, Opened, DOpen
  <1>3. src.pc = "C" /\ Head(up) = Asked /\ up' = <<>> /\ Deep(Level) /\ Timed /\ ~Okd /\ SecondErr
    BY <1>2, RecordIs DEF Asks
  <1>4. Head(up) = Item
    BY <1>3, AskedKind DEF Asks
  <1>5. SecondErr'
    BY <1>2, <1>3, OkSaid
  <1>6. np \in Paths
    BY <1>1, <1>2, NpIn, ReadsTypes
  <1>7. np \in {Item.path, Targ} /\ (np = Targ => src.at = 1)
    BY <1>1, <1>2, <1>3, <1>4, TargetOnce
  <1>8. /\ src' = src /\ cut' = cut /\ Plan' = Plan /\ Level' = Level /\ Item' = Item /\ Asked' = Asked /\ opt' = opt
        /\ src.at <= Len(Plan)
    BY <1>0, <1>3, SinkView, AtFacts DEF Asks
  <1>9. Done'
    BY <1>0, <1>2, <1>6, DoneStays DEF AllClean
  <1>10. CleanAnswers'
    BY <1>2, <1>3, <1>5, <1>8 DEF CleanAnswers, SecondErr
  <1>11. CleanStore'
    <2>1. Timed' /\ Deep(Level)'
      BY <1>2, <1>3, <1>8 DEF Timed, Top, Deep
    <2>2. DOMAIN snk'.got = {}
      BY <1>2
    <2> QED BY <1>2, <1>3, <1>4, <1>7, <1>8, <2>1, <2>2 DEF CleanStore
  <1>12. CleanAsk'
    <2>1. up' # <<Asked'>>
      BY <1>3
    <2> QED BY <1>2, <1>3, <1>8, <2>1 DEF CleanAsk, Storing
  <1>13. CleanEnd' /\ CleanRest'
    BY <1>3, <1>8 DEF CleanEnd, CleanRest
  <1> QED BY <1>9, <1>10, <1>11, <1>12, <1>13 DEF AllClean

(* Data is read of a file that the source has sent.                         *)
LEMMA DataRead ==
  ASSUME RcpTypes, AllClean, Storing, Reads, Head(up).k # "part"
  PROVE  src.pc = "end" /\ ~Okd /\ SecondErr
  <1>1. src.pc \in {"C", "end"}
    BY DEF AllClean, CleanStore
  <1>2. ASSUME src.pc = "C" PROVE FALSE
    <2>1. up = <<Asked>> \/ up = <<Part>>
      BY <1>2, ReadsClean DEF Asks
    <2>2. up # <<Part>>
      <3>1. ASSUME up = <<Part>> PROVE FALSE
        <4>1. Head(up) = Part
          BY <3>1
        <4> QED BY <4>1, UnitKinds
      <3> QED BY <3>1
    <2>3. snk.pc = "rec" \/ snk.pc = "exit"
      BY <1>2, <2>1, <2>2 DEF AllClean, CleanAsk, Asks
    <2> QED BY <2>3 DEF Storing
  <1> QED BY <1>1, <1>2, ReadsClean

\* Clean: the sink takes a unit of the file.
LEMMA UnitClean ==
  ASSUME RcpTypes, AllClean, KUnit
  PROVE  AllClean'
  <1>0. SinkKinds
    BY DEF SinkKinds
  <1>1. PICK t : t = IF Head(up).k = "unit" THEN Head(up) ELSE Garbage
    OBVIOUS
  <1>2. /\ snk.pc = "data" /\ Len(snk.got) < snk.size /\ Reads /\ Head(up).k # "part" /\ down' = down /\ disk' = disk
        /\ snk'.pc = "data" /\ snk'.stack = snk.stack /\ snk'.np = snk.np /\ snk'.size = snk.size
        /\ snk'.got = Append(snk.got, t)
    BY <1>1 DEF KUnit
  <1>3. src.pc = "end" /\ ~Okd /\ ~Okd' /\ Storing /\ Storing'
    <2>1. Storing /\ Storing'
      BY <1>2 DEF Storing
    <2> QED BY <1>2, <2>1, DataRead DEF Okd
  <1>4. /\ src' = src /\ cut' = cut /\ Plan' = Plan /\ Level' = Level /\ Item' = Item /\ opt' = opt
    BY <1>0, SinkView
  <1>5. PICK g \in Nat, z \in Nat : g = Len(snk.got) /\ z = snk.size
    BY SinkIs
  <1>6. g < z /\ snk.got \in Seq(Tokens)
    BY <1>2, <1>5, SinkIs
  <1>7. PICK n \in Nat \ {0} : n = Len(up)
    BY <1>2, Shifted
  <1>8. /\ DOMAIN up = 1 .. n /\ DOMAIN up' = 1 .. n - 1 /\ Len(up') = n - 1 /\ Head(up) = up[1]
        /\ \A i \in 1 .. n - 1 : up'[i] = up[i + 1]
    BY <1>2, <1>7, Shifted
  <1>9. /\ n <= (z - g) + 1
        /\ \A i \in 1 .. n : up[i] = (IF i <= z - g THEN Unit(Item.path, g + i) ELSE Rec("end", Item.path)) \/ up[i].k = "part"
    BY <1>2, <1>3, <1>5, <1>7, <1>8 DEF AllClean, CleanEnd
  <1>10. t = Unit(Item.path, g + 1)
    <2>1. 1 \in 1 .. n /\ 1 <= z - g
      BY <1>6
    <2>2. up[1] = Unit(Item.path, g + 1)
      BY <1>2, <1>8, <1>9, <2>1
    <2> QED BY <1>1, <1>8, <2>2, UnitKinds
  <1>11. t \in Tokens
    BY <1>1, <1>2, ReadsTypes, SentTokens
  <1>12. Len(snk'.got) = g + 1 /\ DOMAIN snk'.got = 1 .. g + 1 /\ snk'.got[g + 1] = t /\ \A i \in 1 .. g : snk'.got[i] = snk.got[i]
    BY <1>2, <1>5, <1>6, <1>11
  <1>13. Done'
    BY <1>0, <1>2, DoneStays DEF AllClean
  <1>14. CleanAnswers' /\ CleanAsk' /\ CleanRest'
    BY <1>2, <1>3, <1>4 DEF CleanAnswers, CleanAsk, CleanRest, Asks
  <1>15. CleanStore'
    <2>1. Timed' <=> Timed
      BY <1>2, <1>4 DEF Timed, Top
    <2>2. \A i \in DOMAIN snk'.got : snk'.got[i] = Unit(Item.path, i)
      <3>1. \A i \in DOMAIN snk.got : snk.got[i] = Unit(Item.path, i)
        BY <1>3 DEF AllClean, CleanStore
      <3>2. DOMAIN snk.got = 1 .. g
        BY <1>5, <1>6
      <3>3. \A i \in DOMAIN snk'.got : i \in 1 .. g \/ i = g + 1
        BY <1>12
      <3> QED BY <1>10, <1>12, <3>1, <3>2, <3>3
    <2> QED BY <1>2, <1>3, <1>4, <2>1, <2>2 DEF AllClean, CleanStore, Deep
  <1>16. CleanEnd'
    <2>1. n - 1 <= (z - (g + 1)) + 1
      BY <1>9
    <2>2. ASSUME NEW i \in 1 .. n - 1
          PROVE  up'[i] = (IF i <= z - (g + 1) THEN Unit(Item.path, (g + 1) + i) ELSE Rec("end", Item.path)) \/ up'[i].k = "part"
      <3>1. i + 1 \in 1 .. n /\ (g + 1) + i = g + (i + 1) /\ (i <= z - (g + 1) <=> i + 1 <= z - g)
        OBVIOUS
      <3> QED BY <1>8, <1>9, <3>1
    <2> QED BY <1>2, <1>3, <1>4, <1>5, <1>8, <1>12, <2>1, <2>2 DEF CleanEnd
  <1> QED BY <1>13, <1>14, <1>15, <1>16 DEF AllClean

LEMMA HasWrite ==
  ASSUME NEW d \in Disks, NEW p \in Paths, NEW new \in Seq(Tokens), NEW it, it.path \in Paths \ {p}, Targ \in Paths \ {p}, NEW timed,
         Has(d, timed, it)
  PROVE  Has(DWrite(d, p, new), timed, it)
  <1>1. PICK q \in {it.path, Targ} : d[q].kind = "file" /\ d[q].data = Units(it, TRUE) /\ (timed => d[q].time = "source")
    BY DEF Has
  <1>2. PICK e : e = DWrite(d, p, new)
    OBVIOUS
  <1>3. q \in Paths /\ q # p
    BY <1>1
  <1>4. e[q] = d[q]
    BY <1>2, <1>3, DWriteFacts
  <1>5. Has(e, timed, it)
    BY <1>1, <1>4 DEF Has
  <1> QED BY <1>2, <1>5

(* What the sink stores is the file, and no file that came before it.       *)
LEMMA StoreFacts ==
  ASSUME RcpTypes, AllClean, Storing
  PROVE  /\ src.pc \in {"C", "end"} /\ src.at \in DOMAIN Plan /\ Item = Plan[src.at] /\ Item.path \in Paths /\ Targ \in Paths /\ Item.path # Targ
         /\ snk.np \in {Item.path, Targ} /\ (snk.np = Targ => src.at = 1) /\ snk.size = Item.n /\ Deep(Level) /\ Timed /\ Item.n \in Nat
         /\ src.at <= Len(Plan)
  <1>1. /\ src.pc \in {"C", "end"} /\ src.at <= Len(Plan) /\ snk.np \in {Item.path, Targ} /\ (snk.np = Targ => src.at = 1)
        /\ snk.size = Item.n /\ Deep(Level) /\ Timed
    BY DEF AllClean, CleanStore
  <1>2. src.at \in DOMAIN Plan /\ Item = Plan[src.at]
    BY <1>1, AtFacts
  <1> QED BY <1>1, <1>2, PlanFacts DEF Paths

\* A file that is written is none of those that have arrived.
LEMMA WriteKeepsDone ==
  ASSUME RcpTypes, AllClean, SinkKinds, Storing, NEW new \in Seq(Tokens), disk' = DWrite(disk, snk.np, new)
  PROVE  Done'
  <1>1. disk \in Disks
    BY DEF RcpTypes, Types, Disks
  <1>2. ASSUME NEW i \in 1 .. src.at - 1, Has(disk, opt.pflag, Plan[i]), Plan[i].k = "C" PROVE Has(disk', opt.pflag, Plan[i])
    <2>1. PICK it : it = Plan[i]
      OBVIOUS
    <2>2. i \in DOMAIN Plan /\ it.path \in Paths /\ Targ \in Paths /\ i # src.at /\ src.at # 1
      BY <2>1, PlanPaths, StoreFacts
    <2>3. snk.np = Item.path /\ snk.np # Targ /\ snk.np \in Paths
      BY <2>2, StoreFacts
    <2>4. it.path # Item.path
      <3>1. src.at \in DOMAIN Plan /\ Item = Plan[src.at]
        BY StoreFacts
      <3>2. \A a, b \in DOMAIN Plan : a # b /\ Plan[a].path = Plan[b].path => Plan[a].k # Plan[b].k /\ "C" \notin {Plan[a].k, Plan[b].k}
        BY PlanFacts, Zenon DEF GoodPlan
      <3> QED BY <1>2, <2>1, <2>2, <3>1, <3>2
    <2>5. Has(disk, opt.pflag, it)
      BY <1>2, <2>1
    <2>6. Has(DWrite(disk, snk.np, new), opt.pflag, it)
      BY <1>1, <2>2, <2>3, <2>4, <2>5, HasWrite
    <2> QED BY <2>1, <2>6
  <1> QED BY <1>2, DoneKept DEF AllClean

\* What was taken is the file.
LEMMA WholeFile ==
  ASSUME RcpTypes, AllClean, snk.pc = "data", Len(snk.got) = snk.size, NEW old \in Seq(Tokens)
  PROVE  Kept1(Over(old, snk.got), snk.size) = Units(Item, TRUE)
  <1>1. Storing
    BY DEF Storing
  <1>2. snk.size = Item.n /\ Item.n \in Nat /\ src.at <= Len(Plan)
    BY <1>1, StoreFacts
  <1>3. PICK g : g = snk.got
    OBVIOUS
  <1>4. g \in Seq(Tokens) /\ Len(g) = Item.n /\ \A i \in 1 .. Item.n : g[i] = Unit(Item.path, i)
    <2>1. \A i \in DOMAIN snk.got : snk.got[i] = Unit(Item.path, i)
      BY <1>1 DEF AllClean, CleanStore
    <2>2. g \in Seq(Tokens) /\ Len(g) = Item.n
      BY <1>2, <1>3, SinkIs
    <2>3. DOMAIN g = 1 .. Item.n
      BY <2>2
    <2> QED BY <1>3, <2>1, <2>2, <2>3
  <1>5. PICK o : o = Over(old, g)
    OBVIOUS
  <1>6. o \in Seq(Tokens) /\ Len(o) >= Item.n /\ \A i \in 1 .. Item.n : o[i] = g[i]
    BY <1>4, <1>5, OverFacts
  <1>7. PICK k : k = Kept1(o, Item.n)
    OBVIOUS
  <1>8. k \in Seq(Tokens) /\ Len(k) = Item.n /\ \A i \in 1 .. Item.n : k[i] = o[i]
    BY <1>2, <1>6, <1>7, Kept1Facts
  <1>9. PICK u : u = Units(Item, TRUE)
    OBVIOUS
  <1>10. u \in Seq(Tokens) /\ Len(u) = Item.n /\ \A i \in 1 .. Item.n : u[i] = Unit(Item.path, i)
    BY <1>2, <1>9, UnitsFacts
  <1>11. \A i \in 1 .. Len(k) : k[i] = u[i]
    BY <1>4, <1>6, <1>8, <1>10
  <1>12. k = u
    BY <1>8, <1>10, <1>11, SeqEqual
  <1> QED BY <1>2, <1>3, <1>5, <1>7, <1>9, <1>12

\* Clean: the file is complete.
LEMMA WrittenClean ==
  ASSUME RcpTypes, AllClean, KWritten
  PROVE  AllClean'
  <1>0. SinkKinds
    BY DEF SinkKinds
  <1>1. PICK bad \in SUBSET ({"write", "truncate", "chmod"} \cap RcpFaults), n \in 0 .. 2 :
       /\ Says([i \in 1 .. n |-> "err"])
       /\ disk' = [disk EXCEPT ![snk.np] = [kind |-> "file", time |-> "now",
                     data |-> IF "truncate" \in bad THEN Body(bad)
                              ELSE SubSeq(Body(bad), 1, IF Len(Body(bad)) < snk.size THEN Len(Body(bad)) ELSE snk.size)]]
       /\ snk'.pc = "resp" /\ snk'.stack = snk.stack /\ snk'.np = snk.np /\ snk'.size = snk.size
       /\ snk'.got = snk.got /\ snk'.wrerr = IF "truncate" \in bad THEN "displayed" ELSE IF "write" \in bad THEN "yes" ELSE "no"
    BY DEF KWritten
  <1>2. snk.pc = "data" /\ Len(snk.got) = snk.size /\ up' = up /\ Storing /\ Storing'
    BY <1>1 DEF KWritten, Storing
  <1>3. /\ src.pc \in {"C", "end"} /\ snk.np \in Paths /\ snk.size \in Nat /\ snk.got \in Seq(Tokens) /\ disk \in Disks
    BY <1>2, StoreFacts, SinkIs DEF RcpTypes, Types, Disks
  <1>4. /\ src' = src /\ cut' = cut /\ Plan' = Plan /\ Level' = Level /\ Item' = Item /\ opt' = opt
    BY <1>0, SinkView
  <1>5. PICK old : old = disk[snk.np].data
    OBVIOUS
  <1>6. old \in Seq(Tokens)
    BY <1>3, <1>5, NodeForm DEF Nodes
  <1>7. Body(bad) \in Seq(Tokens) /\ ("write" \notin bad => Body(bad) = Over(old, snk.got))
    BY <1>3, <1>5, <1>6, OverFacts DEF Body
  <1>8. PICK new : new = IF "truncate" \in bad THEN Body(bad) ELSE Kept1(Body(bad), snk.size)
    OBVIOUS
  <1>9. new \in Seq(Tokens)
    BY <1>3, <1>7, <1>8, Kept1Facts
  <1>10. disk' = DWrite(disk, snk.np, new)
    BY <1>1, <1>8 DEF DWrite, Kept1
  <1>11. Done'
    BY <1>0, <1>2, <1>9, <1>10, WriteKeepsDone
  <1>12. SecondErr' /\ (Okd' => Okd)
    <2>1. PICK ans : ans = [i \in 1 .. n |-> "err"]
      OBVIOUS
    <2>2. ans \in Seq(Answers) /\ Says(ans) /\ \A i \in DOMAIN ans : ans[i] = "err"
      BY <1>1, <2>1 DEF Answers
    <2>3. SecondErr
      BY DEF AllClean, CleanAnswers, SecondErr
    <2> QED BY <2>2, <2>3, ErrSaid
  <1>13. CleanAnswers' /\ CleanRest'
    BY <1>1, <1>2, <1>3, <1>4, <1>12 DEF AllClean, CleanAnswers, SecondErr, CleanRest
  <1>14. CleanStore'
    <2>1. Timed' <=> Timed
      BY <1>1, <1>4 DEF Timed, Top
    <2>2. snk'.wrerr = "no" => Written'
      <3>1. ASSUME snk'.wrerr = "no" PROVE Written'
        <4>1. "truncate" \notin bad /\ "write" \notin bad
          BY <1>1, <3>1
        <4>2. new = Kept1(Over(old, snk.got), snk.size)
          BY <1>7, <1>8, <4>1
        <4>3. new = Units(Item, TRUE)
          BY <1>2, <1>6, <4>2, WholeFile
        <4>4. disk'[snk.np].kind = "file" /\ disk'[snk.np].data = new
          BY <1>3, <1>9, <1>10, DWriteFacts
        <4> QED BY <1>1, <1>4, <4>3, <4>4 DEF Written
      <3> QED BY <3>1
    <2> QED BY <1>1, <1>2, <1>4, <2>1, <2>2 DEF AllClean, CleanStore, Deep
  <1>15. CleanAsk'
    <2>1. src.pc = "C" => up # <<Asked>>
      BY <1>2, <1>3 DEF AllClean, CleanAsk, Asks
    <2>2. Asked' = Asked
      BY <1>0, SinkView
    <2> QED BY <1>2, <1>3, <1>4, <2>1, <2>2 DEF AllClean, CleanAsk, Asks
  <1>16. CleanEnd'
    <2>1. src.pc = "end" => ~Okd
      BY <1>2 DEF AllClean, CleanEnd
    <2>2. src.pc = "end" => Len(up) <= 1
      <3>1. ASSUME src.pc = "end" PROVE Len(up) <= 1
        <4>1. Len(up) <= (snk.size - Len(snk.got)) + 1
          BY <1>2, <3>1 DEF AllClean, CleanEnd
        <4>2. PICK z \in Nat : z = snk.size
          BY <1>3
        <4>3. (z - z) + 1 = 1
          OBVIOUS
        <4> QED BY <1>2, <4>1, <4>2, <4>3
      <3> QED BY <3>1
    <2>3. src.pc = "end" => \A i \in DOMAIN up : up[i].k \in {"unit", "end", "part"}
      BY EndKinds
    <2> QED BY <1>1, <1>2, <1>4, <1>12, <2>1, <2>2, <2>3 DEF CleanEnd
  <1> QED BY <1>11, <1>13, <1>14, <1>15, <1>16 DEF AllClean

LEMMA AnsweredHere ==
  ASSUME RcpTypes, AllClean, KAnswered
  PROVE  src.pc = "end" /\ Head(up).k = "end" /\ up' = <<>> /\ ~Okd /\ SecondErr /\ Storing
  <1>1. snk.pc = "resp" /\ Reads /\ Head(up).k \in {"end", "err"} /\ Storing
    BY DEF KAnswered, Storing
  <1>2. src.pc = "end" /\ ~Okd /\ SecondErr
    BY <1>1, DataRead
  <1>3. Head(up) = up[1] /\ 1 \in DOMAIN up
    BY <1>1, ReadsTypes
  <1>4. up[1].k \in {"unit", "end", "part"}
    BY <1>2, <1>3, EndKinds
  <1>5. up' = <<>>
    <2>1. Len(up) <= 1 /\ Len(up) \in Nat \ {0}
      BY <1>1, <1>2, Shifted DEF AllClean, CleanEnd
    <2>2. Len(up) = 1 /\ up \in Seq(Tokens) /\ up # <<>>
      BY <1>1, <2>1, OnlyOne, Flows DEF Reads
    <2> QED BY <1>1, <2>2, ShortTail DEF Reads
  <1> QED BY <1>1, <1>2, <1>3, <1>4, <1>5

\* Clean: the times are set and the answer is given.
LEMMA AnsweredClean ==
  ASSUME RcpTypes, AllClean, KAnswered
  PROVE  AllClean'
  <1>0. SinkKinds
    BY DEF SinkKinds
  <1>1. PICK bad \in BOOLEAN, stack \in {snk.stack, [snk.stack EXCEPT ![Len(snk.stack)] = [Top EXCEPT !.setimes = FALSE]]}, e \in 0 .. 2 :
           /\ bad => (Top.setimes /\ snk.wrerr = "no")
           /\ Snk("rec", stack, e)
           /\ Says(IF bad THEN <<"err">> ELSE Said(snk.wrerr))
           /\ disk' = IF (Top.setimes /\ snk.wrerr = "no") /\ ~bad THEN [disk EXCEPT ![snk.np].time = "source"] ELSE disk
    BY DEF KAnswered
  <1>2. src.pc = "end" /\ up' = <<>> /\ ~Okd /\ SecondErr /\ Storing /\ snk.pc = "resp"
    BY AnsweredHere DEF KAnswered
  <1>3. snk'.pc = "rec" /\ snk'.stack = stack
    BY <1>1, SnkFields
  <1>4. /\ src' = src /\ cut' = cut /\ Plan' = Plan /\ Level' = Level /\ Item' = Item /\ opt' = opt /\ ~Storing'
    BY <1>0, <1>3, SinkView DEF Storing
  <1>5. disk \in Disks /\ snk.np \in Paths
    BY SinkIs DEF RcpTypes, Types, Disks
  <1>6. Done'
    <2>1. disk' = disk \/ disk' = DTime(disk, snk.np)
      BY <1>1 DEF DTime
    <2> QED BY <1>0, <1>5, <2>1, DoneStays DEF AllClean
  <1>7. SecondErr' /\ (Okd' => ~cut /\ ~bad /\ snk.wrerr = "no")
    <2>1. CASE ~bad /\ snk.wrerr = "no"
      <3>1. Says(<<"ok">>)
        BY <1>1, <2>1 DEF Said
      <3> QED BY <1>2, <2>1, <3>1, OkSaid
    <2>2. CASE bad \/ snk.wrerr # "no"
      <3>1. PICK ans : ans = IF bad THEN <<"err">> ELSE Said(snk.wrerr)
        OBVIOUS
      <3>2. ans = <<"err">> \/ ans = <<>>
        BY <2>2, <3>1 DEF Said
      <3>3. ans \in Seq(Answers) /\ \A i \in DOMAIN ans : ans[i] = "err"
        <4>1. CASE ans = <<"err">>
          BY <4>1, SaysOne
        <4>2. CASE ans = <<>>
          BY <4>2, SaysOne
        <4> QED BY <3>2, <4>1, <4>2
      <3>4. Says(ans)
        BY <1>1, <3>1
      <3> QED BY <1>2, <3>3, <3>4, ErrSaid
    <2> QED BY <2>1, <2>2
  <1>8. CleanAnswers' /\ CleanStore' /\ CleanAsk' /\ CleanRest'
    BY <1>2, <1>3, <1>4, <1>7 DEF CleanAnswers, CleanStore, CleanAsk, CleanRest, SecondErr, Asks
  <1>9. Deep(Level)'
    <2>1. PICK f : f = [Top EXCEPT !.setimes = FALSE]
      OBVIOUS
    <2>2. StackOk(snk.stack) /\ Top \in Frames /\ Top = snk.stack[Len(snk.stack)]
      BY <1>2, StackNow
    <2>3. f \in Frames /\ f.isdir = Top.isdir
      BY <2>1, <2>2 DEF Frames
    <2>4. stack = snk.stack \/ stack = PutTop(snk.stack, f)
      BY <1>1, <2>1 DEF PutTop
    <2>5. Len(stack) = Len(snk.stack)
      BY <2>2, <2>3, <2>4, StackTop
    <2>6. Deep(Level)
      BY <1>2, StoreFacts
    <2> QED BY <1>3, <1>4, <2>5, <2>6 DEF Deep
  <1>10. ASSUME Okd' PROVE Arrived(Item)'
    <2>1. ~bad /\ snk.wrerr = "no"
      BY <1>7, <1>10
    <2>2. Written /\ Timed /\ snk.np \in {Item.path, Targ}
      BY <1>2, <2>1, StoreFacts DEF AllClean, CleanStore
    <2>3. disk' = IF Top.setimes THEN DTime(disk, snk.np) ELSE disk
      BY <1>1, <2>1 DEF DTime
    <2>4. disk'[snk.np].kind = disk[snk.np].kind /\ disk'[snk.np].data = disk[snk.np].data /\ (Top.setimes => disk'[snk.np].time = "source")
      <3>1. CASE Top.setimes
        BY <1>5, <2>3, <3>1, DTimeFacts
      <3>2. CASE ~Top.setimes
        BY <2>3, <3>2
      <3> QED BY <3>1, <3>2
    <2>5. Has(disk', opt.pflag, Item)
      BY <2>2, <2>4 DEF Has, Written, Timed
    <2> QED BY <1>4, <2>5, DoneIs
  <1>11. CleanEnd'
    <2>1. DOMAIN up' = {}
      BY <1>2
    <2> QED BY <1>2, <1>3, <1>4, <1>9, <1>10, <2>1 DEF CleanEnd
  <1> QED BY <1>6, <1>8, <1>9, <1>11 DEF AllClean

\* Clean: the sink.
LEMMA SinkKeepsClean ==
  ASSUME RcpTypes, Base, Clean, SinkKinds
  PROVE  Clean'
  <1>1. src' = src
    BY SinkView
  <1>2. ASSUME AllClean PROVE AllClean'
    BY <1>2, StartedClean, GoneClean, ReturnedClean, BackClean, ErrNot, TimesClean, RefusedClean, EnteredClean, CreatedClean, NoBufferClean,
       UnitClean, WrittenClean, AnsweredClean DEF SinkKinds
  <1> QED BY <1>1, <1>2 DEF Clean, AllClean

\* Clean: a cut.
LEMMA CutKeepsClean ==
  ASSUME RcpTypes, Clean, KCut
  PROVE  Clean'
  <1>1. opt' = opt /\ src' = src /\ snk' = snk /\ disk' = disk /\ cut'
    BY DEF KCut
  <1>2. Plan' = Plan /\ Item' = Item /\ Level' = Level /\ Asked' = Asked /\ (Storing' <=> Storing) /\ (Timed' <=> Timed) /\ (Written' <=> Written)
        /\ (Arrived(Item)' <=> Arrived(Item))
    BY <1>1 DEF Plan, Item, Level, Asked, Storing, Timed, Top, Written, Arrived
  <1>3. /\ up' \in Seq(Tokens) /\ down' \in Seq(Answers)
        /\ Len(up') <= Len(up) /\ Len(up) \in Nat /\ Len(up') \in Nat /\ DOMAIN up' = 1 .. Len(up') /\ DOMAIN up = 1 .. Len(up)
        /\ \A i \in DOMAIN up' : up'[i] = up[i] \/ (up'[i] = Part /\ i = Len(up'))
        /\ Len(down') <= Len(down) /\ Len(down) \in Nat /\ Len(down') \in Nat /\ \A i \in 1 .. Len(down') : down'[i] = down[i]
    BY CutLeaves
  <1>4. up = <<>> => up' = <<>>
    <2>1. up = <<>> => Len(up') = 0
      BY <1>3
    <2> QED BY <1>3, <2>1, EmptySeq
  <1>5. down = <<>> => down' = <<>>
    <2>1. down = <<>> => Len(down') = 0
      BY <1>3
    <2> QED BY <1>3, <2>1, EmptySeq
  <1>6. Okd' => Okd /\ (Len(down') > 1 => Len(down) > 1 /\ down'[2] = down[2])
    <2>1. ASSUME Okd' PROVE Okd /\ (Len(down') > 1 => Len(down) > 1 /\ down'[2] = down[2])
      <3>1. down' # <<>> /\ Head(down') = "ok"
        BY <2>1 DEF Okd
      <3>2. down # <<>> /\ down \in Seq(Answers)
        BY <1>5, <3>1, Flows
      <3>3. Head(down') = down'[1] /\ Head(down) = down[1] /\ 1 \in DOMAIN down'
        BY <1>3, <3>1, <3>2, HeadFacts
      <3>4. down'[1] = down[1]
        BY <1>3, <3>3
      <3>5. Len(down') > 1 => Len(down) > 1 /\ down'[2] = down[2]
        BY <1>3
      <3> QED BY <3>1, <3>2, <3>3, <3>4, <3>5 DEF Okd
    <2> QED BY <2>1
  <1>7. ASSUME src.errs = 0 PROVE AllClean'
    <2>0. AllClean
      BY <1>7 DEF Clean, AllClean
    <2>1. Done'
      BY <1>1, <1>2, <2>0, DoneIs DEF AllClean
    <2>2. CleanAnswers'
      BY <1>1, <1>2, <1>4, <1>5, <1>6, <2>0 DEF AllClean, CleanAnswers
    <2>3. CleanStore' /\ CleanRest'
      BY <1>1, <1>2, <2>0 DEF AllClean, CleanStore, CleanRest, Deep
    <2>4. CleanAsk'
      <3>1. ASSUME src.pc \in Asks
            PROVE  /\ up' = <<>> \/ up' = <<Asked>> \/ up' = <<Part>>
                   /\ up' = <<Asked>> => up = <<Asked>> \/ up' = <<Part>>
        <4>1. CASE up = <<>>
          BY <1>4, <4>1
        <4>2. CASE up # <<>>
          <5>1. Len(up) = 1
            BY <2>0, <3>1, <4>2 DEF AllClean, CleanAsk
          <5>2. Len(up') = 0 \/ Len(up') = 1
            BY <1>3, <5>1
          <5>3. CASE Len(up') = 0
            <6>1. up' = <<>>
              BY <1>3, <5>3, EmptySeq
            <6> QED BY <6>1
          <5>4. CASE Len(up') = 1
            <6>1. 1 \in DOMAIN up' /\ up' # <<>>
              BY <1>3, <5>4
            <6>2. up' = <<Head(up')>> /\ Head(up') = up'[1]
              BY <1>3, <5>4, <6>1, ShortTail, TailFacts
            <6>3. up = <<Head(up)>> /\ Head(up) = up[1]
              BY <4>2, <5>1, Flows, ShortTail, TailFacts
            <6>4. up'[1] = up[1] \/ up'[1] = Part
              BY <1>3, <6>1
            <6>5. up = <<Asked>> \/ up = <<Part>>
              BY <2>0, <3>1, <4>2 DEF AllClean, CleanAsk
            <6>6. up' = up \/ up' = <<Part>>
              BY <6>2, <6>3, <6>4
            <6> QED BY <6>5, <6>6
          <5> QED BY <5>2, <5>3, <5>4
        <4> QED BY <4>1, <4>2
      <3>2. ASSUME src.pc \in Asks PROVE Asked # Part
        <4>1. Asked.k = src.pc /\ Part.k = "part"
          BY <3>2, AskedKind, UnitKinds
        <4> QED BY <3>2, <4>1 DEF Asks
      <3>3. src.pc \in Asks => (up' = <<Asked>> => up = <<Asked>>)
        <4>1. ASSUME src.pc \in Asks, up' = <<Asked>> PROVE up' # <<Part>>
          BY <3>2, <4>1
        <4> QED BY <3>1, <4>1
      <3> QED BY <1>1, <1>2, <2>0, <3>1, <3>3 DEF AllClean, CleanAsk, Deep
    <2>5. CleanEnd'
      <3>1. Part.k = "part"
        BY UnitKinds
      <3>2. ASSUME src.pc = "end", NEW i \in DOMAIN up' PROVE i \in DOMAIN up /\ (up'[i] = up[i] \/ up'[i].k = "part")
        BY <1>3, <3>1, <3>2
      <3>3. snk.size - Len(snk.got) \in Int
        BY SinkIs
      <3>4. src.pc = "end" /\ snk.pc = "resp" => Len(up') <= 1
        BY <1>3, <2>0 DEF AllClean, CleanEnd
      <3>5. ASSUME src.pc = "end", NEW i \in DOMAIN up' PROVE up'[i].k \in {"unit", "end", "part"}
        <4>1. i \in DOMAIN up /\ (up'[i] = up[i] \/ up'[i].k = "part")
          BY <3>2, <3>5
        <4>2. up[i].k \in {"unit", "end", "part"}
          BY <2>0, <3>5, <4>1, EndKinds
        <4> QED BY <4>1, <4>2
      <3>6. ASSUME src.pc = "end", snk.pc = "data"
            PROVE  /\ Len(up') <= (snk.size - Len(snk.got)) + 1
                   /\ \A i \in DOMAIN up' :
                        \/ up'[i] = IF i <= snk.size - Len(snk.got) THEN Unit(Item.path, Len(snk.got) + i) ELSE Rec("end", Item.path)
                        \/ up'[i].k = "part"
        BY <1>3, <2>0, <3>2, <3>3, <3>6 DEF AllClean, CleanEnd
      <3> QED BY <1>1, <1>2, <1>6, <2>0, <3>4, <3>5, <3>6 DEF AllClean, CleanEnd
    <2> QED BY <2>1, <2>2, <2>3, <2>4, <2>5 DEF AllClean
  <1> QED BY <1>1, <1>7 DEF Clean, AllClean

(* The sink has not failed, and has not been told: SinkClean and Doomed.     *)
LEMMA BaseKept ==
  ASSUME RcpTypes, Base, Kinds
  PROVE  Base'
  <1>1. CASE SourceKinds \/ KCut
    <2>1. snk' = snk
      BY <1>1, SourceRest DEF KCut
    <2> QED BY <2>1 DEF Base
  <1>2. CASE SinkKinds
    <2>1. CASE snk'.stack = snk.stack
      BY <2>1 DEF Base
    <2>2. CASE KStarted
      <3>1. snk'.stack = <<Frame(Targ, IsDir(Targ))>>
        BY <2>2, SnkFields DEF KStarted
      <3> QED BY <3>1 DEF Base, Frame
    <2>3. CASE snk.pc \in {"rec", "resp"} /\ \E f \in Frames : f.isdir = Top.isdir /\ f.targ = Top.targ /\ snk'.stack = PutTop(snk.stack, f)
      <3>1. PICK f \in Frames : f.isdir = Top.isdir /\ f.targ = Top.targ /\ snk'.stack = PutTop(snk.stack, f)
        BY <2>3
      <3>2. StackOk(snk.stack) /\ Top = snk.stack[Len(snk.stack)]
        BY <2>3, StackNow
      <3>3. snk.stack # <<>> /\ 1 \in DOMAIN snk.stack
        BY <3>2 DEF StackOk
      <3>4. snk'.stack[1].targ = snk.stack[1].targ
        <4>1. CASE Len(snk.stack) = 1
          BY <3>1, <3>2, <4>1, StackTop
        <4>2. CASE Len(snk.stack) # 1
          BY <3>1, <3>2, <3>3, <4>2, StackTop
        <4> QED BY <4>1, <4>2
      <3> QED BY <3>3, <3>4 DEF Base
    <2>4. CASE KTimes
      <3>1. snk.pc = "rec" /\ snk'.stack = [snk.stack EXCEPT ![Len(snk.stack)] = [Top EXCEPT !.setimes = TRUE]]
        BY <2>4, SnkFields DEF KTimes
      <3>2. PICK f : f = [Top EXCEPT !.setimes = TRUE]
        OBVIOUS
      <3>3. f \in Frames /\ f.isdir = Top.isdir /\ f.targ = Top.targ
        BY <3>1, <3>2, StackNow DEF Frames
      <3> QED BY <2>3, <3>1, <3>2, <3>3 DEF PutTop
    <2>5. CASE KAnswered
      <3>1. snk.pc = "resp" /\ (snk'.stack = snk.stack \/ snk'.stack = [snk.stack EXCEPT ![Len(snk.stack)] = [Top EXCEPT !.setimes = FALSE]])
        BY <2>5, SnkFields DEF KAnswered
      <3>2. PICK f : f = [Top EXCEPT !.setimes = FALSE]
        OBVIOUS
      <3>3. f \in Frames /\ f.isdir = Top.isdir /\ f.targ = Top.targ
        BY <3>1, <3>2, StackNow DEF Frames
      <3> QED BY <2>1, <2>3, <3>1, <3>2, <3>3 DEF PutTop
    <2>6. CASE KEntered
      <3>1. PICK f : f = Frame(Np(Head(up)), TRUE)
        OBVIOUS
      <3>2. snk.pc = "rec" /\ Reads /\ snk'.stack = Append(snk.stack, f)
        BY <2>6, <3>1, SnkFields DEF KEntered
      <3>3. StackOk(snk.stack)
        BY <3>2, StackNow
      <3>4. snk.stack \in Seq(Frames) /\ snk.stack # <<>> /\ 1 \in 1 .. Len(snk.stack)
        BY <3>3 DEF StackOk
      <3>5. snk'.stack[1] = snk.stack[1]
        BY <3>2, <3>4
      <3> QED BY <3>4, <3>5 DEF Base
    <2>7. CASE KBack
      <3>1. snk.pc = "rec" /\ Len(snk.stack) # 1 /\ snk'.stack = Popped
        BY <2>7, SnkFields DEF KBack
      <3>2. snk.stack \in Seq(Frames) /\ snk.stack # <<>> /\ Len(snk.stack) \in Nat /\ Outer \in Frames /\ Len(snk.stack) > 1
        BY <3>1, StackPop, SinkIs
      <3>3. PICK b : b = Front(snk.stack)
        OBVIOUS
      <3>4. b \in Seq(Frames) /\ Len(b) = Len(snk.stack) - 1 /\ b # <<>> /\ b[1] = snk.stack[1] /\ Outer = b[Len(b)] /\ 1 \in DOMAIN b
        BY <3>2, <3>3, FrontFacts DEF Outer
      <3>5. PICK f : f = [Outer EXCEPT !.setimes = FALSE]
        OBVIOUS
      <3>6. f \in Frames /\ f.targ = Outer.targ
        BY <3>2, <3>5 DEF Frames
      <3>7. snk'.stack = [b EXCEPT ![Len(b)] = f]
        BY <3>1, <3>3, <3>4, <3>5 DEF Popped
      <3>8. snk'.stack[1].targ = b[1].targ
        <4>1. CASE Len(b) = 1
          BY <3>4, <3>6, <3>7, <4>1, Replaced
        <4>2. CASE Len(b) # 1
          BY <3>4, <3>6, <3>7, <4>2, Replaced
        <4> QED BY <4>1, <4>2
      <3> QED BY <3>2, <3>4, <3>8 DEF Base
    <2>8. KGone \/ KReturned \/ KErr \/ KRefused \/ KNoBuffer => snk'.stack = snk.stack
      BY SnkFields DEF KGone, KReturned, KErr, KRefused, KNoBuffer
    <2>9. KCreated \/ KUnit \/ KWritten => snk'.stack = snk.stack
      BY DEF KCreated, KUnit, KWritten
    <2> QED BY <1>2, <2>1, <2>2, <2>4, <2>5, <2>6, <2>7, <2>8, <2>9 DEF SinkKinds
  <1> QED BY <1>1, <1>2 DEF Kinds

LEMMA SourceOn ==
  ASSUME SourceKinds
  PROVE  src.pc # "exit" /\ (down' = down \/ \E answer \in Answers : Hears(answer))
  BY DEF SourceKinds, SAsk, SMissed, SDone, SMoved, STimed, SSent, SSpoilt, SNoBuffer, SEnded, Asks, Answers

\* The sink has not failed: the source, the sink and a cut.
LEMMA SourceSinkClean ==
  ASSUME RcpTypes, SinkClean, SourceKinds
  PROVE  SinkClean'
  <1>1. snk' = snk /\ cut' = cut /\ src.pc # "exit"
    BY SourceRest, SourceOn
  <1>2. ASSUME snk.errs = 0, NEW i \in DOMAIN down' PROVE down'[i] = "ok"
    <2>1. CASE down' = down
      <3>1. i \in DOMAIN down /\ down'[i] = down[i]
        BY <2>1
      <3> QED BY <1>2, <3>1 DEF SinkClean
    <2>2. CASE \E answer \in Answers : Hears(answer)
      <3>1. down \in Seq(Answers) /\ down # <<>> /\ down' = Tail(down)
        BY <2>2, Flows DEF Hears
      <3>2. i + 1 \in DOMAIN down /\ down'[i] = down[i + 1]
        BY <3>1, TailFacts
      <3> QED BY <1>2, <3>2 DEF SinkClean
    <2> QED BY <2>1, <2>2, SourceOn
  <1> QED BY <1>1, <1>2 DEF SinkClean

(* A step of the sink that counts no error.                                 *)
LEMMA SinkQuiet ==
  ASSUME RcpTypes, SinkKinds, snk'.errs = 0
  PROVE  /\ snk.errs = 0 /\ (down' = down \/ Says(<<"ok">>))
         /\ snk'.pc = "exit" => KReturned
         /\ snk.pc = "rec" => snk'.pc = "exit" \/ (up = <<>> /\ SourceGone) \/ (Reads /\ Head(up).k # "err")
         /\ snk.pc = "data" => /\ snk'.pc \in {"data", "resp"} /\ down' = down
                               /\ up' = up \/ Reads
         /\ snk.pc = "resp" => Reads /\ Head(up).k = "end"
  <1>1. snk.errs \in Nat
    BY SinkIs
  <1>2. ASSUME NEW pc, NEW stack, NEW e \in Nat, Snk(pc, stack, e) PROVE snk.errs = 0 /\ e = 0 /\ snk'.pc = pc
    <2>1. snk'.errs = snk.errs + e /\ snk'.pc = pc
      BY <1>2, SnkFields
    <2> QED BY <1>1, <2>1
  <1>3. ~KGone /\ ~KErr /\ ~KRefused /\ ~KNoBuffer
    <2>1. 1 \in Nat /\ 1 # 0
      OBVIOUS
    <2> QED BY <1>2, <2>1 DEF KGone, KErr, KRefused, KNoBuffer
  <1>4. CASE KStarted \/ KTimes \/ KEntered
    <2>1. 0 \in Nat
      OBVIOUS
    <2>2. snk.errs = 0 /\ snk'.pc = "rec"
      <3>1. PICK stack : Snk("rec", stack, 0)
        BY <1>4 DEF KStarted, KTimes, KEntered
      <3> QED BY <1>2, <2>1, <3>1
    <2>3. Says(<<"ok">>) /\ (snk.pc = "start" \/ (snk.pc = "rec" /\ Reads /\ Head(up).k # "err"))
      BY <1>4 DEF KStarted, KTimes, KEntered
    <2> QED BY <2>2, <2>3
  <1>5. CASE KReturned
    <2>1. 0 \in Nat
      OBVIOUS
    <2> QED BY <1>2, <1>5, <2>1 DEF KReturned
  <1>6. CASE KBack
    <2>1. PICK e \in {0, 1}, answers \in {<<>>, <<"ok">>} :
       /\ IF answers = <<>> THEN up = <<>> /\ SourceGone /\ UNCHANGED up ELSE Reads /\ Head(up).k = "E"
       /\ Snk("rec", Popped, e)
       /\ Says(answers \o IF e = 1 THEN <<"err">> ELSE <<>>)
      BY <1>6 DEF KBack
    <2>2. e = 0 /\ snk.errs = 0 /\ snk'.pc = "rec" /\ snk.pc = "rec"
      <3>1. e \in Nat
        OBVIOUS
      <3> QED BY <1>2, <1>6, <2>1, <3>1 DEF KBack
    <2>3. answers \o <<>> = answers
      BY SaysOne, ConcatEmptySeq
    <2>4. Says(answers)
      BY <2>1, <2>2, <2>3
    <2>5. answers = <<>> => down' = down
      BY <2>4, SaysOne, SaidNothing
    <2> QED BY <2>1, <2>2, <2>4, <2>5
  <1>7. CASE KCreated \/ KUnit
    BY <1>7 DEF KCreated, KUnit
  <1>8. CASE KWritten
    <2>1. PICK n \in 0 .. 2 : Says([i \in 1 .. n |-> "err"]) /\ snk'.pc = "resp" /\ snk'.errs = snk.errs + n
      BY <1>8 DEF KWritten
    <2>2. n = 0 /\ snk.errs = 0
      BY <1>1, <2>1
    <2>3. Says(<<>>)
      BY <2>1, <2>2, ErrAnswers
    <2>4. down' = down
      BY <2>3, SaysOne, SaidNothing
    <2> QED BY <1>8, <2>1, <2>2, <2>4 DEF KWritten
  <1>9. CASE KAnswered
    <2>1. PICK bad \in BOOLEAN, stack \in {snk.stack, [snk.stack EXCEPT ![Len(snk.stack)] = [Top EXCEPT !.setimes = FALSE]]}, e \in 0 .. 2 :
           /\ e = (IF Head(up).k = "err" THEN 1 ELSE 0) + (IF bad \/ snk.wrerr = "yes" THEN 1 ELSE 0)
           /\ Snk("rec", stack, e)
           /\ Says(IF bad THEN <<"err">> ELSE Said(snk.wrerr))
      BY <1>9 DEF KAnswered
    <2>2. snk.errs = 0 /\ e = 0 /\ snk'.pc = "rec"
      <3>1. e \in Nat
        OBVIOUS
      <3> QED BY <1>2, <2>1, <3>1
    <2>3. Head(up).k # "err" /\ ~bad /\ snk.wrerr # "yes"
      BY <2>1, <2>2
    <2>4. Says(IF snk.wrerr = "no" THEN <<"ok">> ELSE <<>>)
      BY <2>1, <2>3 DEF Said, RcpTypes, Types
    <2>5. down' = down \/ Says(<<"ok">>)
      BY <2>4, SaysOne, SaidNothing
    <2> QED BY <1>9, <2>2, <2>3, <2>5 DEF KAnswered
  <1> QED BY <1>3, <1>4, <1>5, <1>6, <1>7, <1>8, <1>9 DEF SinkKinds

LEMMA SinkSinkClean ==
  ASSUME RcpTypes, Clean, SinkClean, Doomed, SinkKinds
  PROVE  SinkClean'
  <1>1. src' = src /\ cut' = cut
    BY SinkView
  <1>2. ASSUME snk'.errs = 0 PROVE \A i \in DOMAIN down' : down'[i] = "ok"
    <2>1. \A i \in DOMAIN down : down[i] = "ok"
      BY <1>2, SinkQuiet DEF SinkClean
    <2>2. CASE down' = down
      BY <2>1, <2>2
    <2>3. CASE Says(<<"ok">>)
      <3>1. PICK d, a : d = down /\ a = <<"ok">>
        OBVIOUS
      <3>2. d \in Seq(Answers) /\ a \in Seq(Answers) /\ \A i \in DOMAIN a : a[i] = "ok"
        BY <3>1, SaysOne, Flows
      <3>3. CASE cut
        <4>1. down' = down
          BY <2>3, <3>3, SaysOne, SaidNothing
        <4> QED BY <2>1, <4>1
      <3>4. CASE ~cut
        <4>1. PICK r : r = down'
          OBVIOUS
        <4>2. r = d \o a
          BY <2>3, <3>1, <3>4, <4>1 DEF Says
        <4>3. DOMAIN r = 1 .. Len(d) + Len(a) /\ DOMAIN d = 1 .. Len(d) /\ DOMAIN a = 1 .. Len(a) /\ Len(d) \in Nat /\ Len(a) \in Nat
          BY <3>2, <4>2
        <4>4. ASSUME NEW i \in DOMAIN r PROVE r[i] = "ok"
          <5>1. CASE i <= Len(d)
            <6>1. i \in DOMAIN d /\ r[i] = d[i]
              BY <3>2, <4>2, <4>3, <5>1
            <6> QED BY <2>1, <3>1, <6>1
          <5>2. CASE ~(i <= Len(d))
            <6>1. i - Len(d) \in DOMAIN a /\ r[i] = a[i - Len(d)]
              BY <3>2, <4>2, <4>3, <5>2
            <6> QED BY <3>2, <6>1
          <5> QED BY <5>1, <5>2
        <4> QED BY <4>1, <4>4
      <3> QED BY <3>3, <3>4
    <2> QED BY <1>2, <2>2, <2>3, SinkQuiet
  <1>3. ASSUME snk'.errs = 0, snk'.pc = "exit", ~cut PROVE src.pc = "exit" /\ src.errs = 0
    <2>1. KReturned /\ snk.errs = 0 /\ src.errs \in Nat
      BY <1>3, SinkQuiet, SourceIs
    <2>2. src.errs = 0
      <3>1. ASSUME src.errs # 0 PROVE FALSE
        <4>1. src.errs > 0
          BY <2>1, <3>1
        <4>2. snk.pc = "rec" /\ (up = <<>> \/ Head(up).k = "E") /\ ~Storing
          BY <2>1 DEF KReturned, Storing
        <4> QED BY <1>3, <2>1, <4>1, <4>2 DEF Doomed
      <3> QED BY <3>1
    <2>3. AllClean
      BY <2>2 DEF Clean, AllClean
    <2>4. SourceGone
      BY <2>1, <2>3, ReturnedClean
    <2> QED BY <1>3, <2>2, <2>4 DEF SourceGone
  <1> QED BY <1>1, <1>2, <1>3 DEF SinkClean

LEMMA CutSinkClean ==
  ASSUME RcpTypes, SinkClean, KCut
  PROVE  SinkClean'
  <1>1. snk' = snk /\ cut'
    BY DEF KCut
  <1>2. ASSUME NEW i \in DOMAIN down' PROVE i \in DOMAIN down /\ down'[i] = down[i]
    <2>1. DOMAIN down' = 1 .. Len(down') /\ DOMAIN down = 1 .. Len(down) /\ Len(down') <= Len(down) /\ Len(down) \in Nat /\ Len(down') \in Nat
      BY CutLeaves, Flows
    <2> QED BY <2>1, CutLeaves
  <1> QED BY <1>1, <1>2 DEF SinkClean

Told ==
  \/ Storing /\ down = <<>> /\ \A i \in DOMAIN up : up[i].k # "end"
  \/ snk.pc = "rec" /\ up # <<>> /\ Head(up).k = "err"

(* What is sent comes after what was sent.                                  *)
LEMMA SentLast ==
  ASSUME RcpTypes, NEW sent \in Seq(Tokens), Sends(sent), ~cut
  PROVE  /\ up = <<>> => up' = sent
         /\ up # <<>> => up' # <<>> /\ Head(up') = Head(up)
         /\ \A i \in DOMAIN up' : \/ i \in DOMAIN up /\ up'[i] = up[i]
                                  \/ \E j \in DOMAIN sent : up'[i] = sent[j]
  <1>1. PICK u, v : u = up /\ v = up'
    OBVIOUS
  <1>2. u \in Seq(Tokens) /\ v = u \o sent
    BY <1>1, Flows DEF Sends
  <1>3. v \in Seq(Tokens) /\ Len(v) = Len(u) + Len(sent) /\ Len(u) \in Nat /\ Len(sent) \in Nat
    BY <1>2
  <1>4. u = <<>> => v = sent
    BY <1>2, ConcatEmptySeq
  <1>5. u # <<>> => v # <<>> /\ Head(v) = Head(u)
    <2>1. ASSUME u # <<>> PROVE v # <<>> /\ Head(v) = Head(u)
      <3>1. 1 \in 1 .. Len(u) /\ Head(u) = u[1]
        BY <1>2, <2>1, TailFacts
      <3>2. v[1] = u[1] /\ 1 \in DOMAIN v
        BY <1>2, <1>3, <3>1
      <3>3. v # <<>>
        BY <3>2
      <3> QED BY <1>3, <3>1, <3>2, <3>3, TailFacts
    <2> QED BY <2>1
  <1>6. ASSUME NEW i \in DOMAIN v PROVE (i \in DOMAIN u /\ v[i] = u[i]) \/ \E j \in DOMAIN sent : v[i] = sent[j]
    <2>1. i \in 1 .. Len(u) + Len(sent)
      BY <1>3
    <2>2. CASE i <= Len(u)
      BY <1>2, <1>3, <2>1, <2>2
    <2>3. CASE ~(i <= Len(u))
      <3>1. i - Len(u) \in DOMAIN sent /\ v[i] = sent[i - Len(u)]
        BY <1>2, <1>3, <2>1, <2>3
      <3> QED BY <3>1
    <2> QED BY <2>2, <2>3
  <1> QED BY <1>1, <1>4, <1>5, <1>6

\* An error record is the last that is on its way.
LEMMA ErrSent ==
  ASSUME RcpTypes
  PROVE  /\ <<ErrRec>> \in Seq(Tokens) /\ <<ErrRec>> # <<>> /\ Head(<<ErrRec>>).k = "err"
         /\ \A i \in DOMAIN <<ErrRec>> : <<ErrRec>>[i].k = "err"
  BY SentTokens, UnitKinds

(* Told stays while the source goes on.                                     *)
LEMMA ToldSource ==
  ASSUME RcpTypes, Told, SourceKinds, ~cut
  PROVE  Told'
  <1>1. snk' = snk /\ (Storing' <=> Storing)
    BY SourceRest DEF Storing
  <1>2. CASE snk.pc = "rec" /\ up # <<>> /\ Head(up).k = "err"
    <2>1. up' = up \/ \E sent \in Seq(Tokens) : Sends(sent)
      <3>1. CASE SAsk
        <4>1. PICK pc \in Asks : Sends(<<AskFor(pc)>>)
          BY <3>1 DEF SAsk
        <4>2. AskFor(pc) \in Tokens
          <5>1. src.at <= Len(Plan)
            BY <3>1 DEF SAsk
          <5> QED BY <5>1, AtFacts, SentTokens, PlanFacts DEF AskFor
        <4>3. <<AskFor(pc)>> \in Seq(Tokens)
          BY <4>2
        <4> QED BY <4>1, <4>3
      <3>2. CASE SMissed \/ SNoBuffer
        BY <3>2, ErrSent DEF SMissed, SNoBuffer
      <3>3. CASE STimed
        <4>1. Item \in Tokens
          BY <3>3, AtFacts DEF STimed, Asks
        <4>2. <<Item>> \in Seq(Tokens)
          BY <4>1
        <4> QED BY <3>3, <4>2 DEF STimed
      <3>4. CASE SSent \/ SSpoilt
        <4>1. src.at <= Len(Plan)
          BY <3>4, AtFacts DEF SSent, SSpoilt, Asks
        <4> QED BY <3>4, <4>1, SentFile
      <3>5. CASE SDone \/ SMoved \/ SEnded
        BY <3>5 DEF SDone, SMoved, SEnded
      <3> QED BY <3>1, <3>2, <3>3, <3>4, <3>5 DEF SourceKinds
    <2>2. up' # <<>> /\ Head(up') = Head(up)
      BY <1>2, <2>1, SentLast
    <2> QED BY <1>1, <1>2, <2>2 DEF Told
  <1>3. CASE Storing /\ down = <<>> /\ \A i \in DOMAIN up : up[i].k # "end"
    <2>1. SAsk \/ SMissed \/ SDone \/ (SEnded /\ up' = up /\ down' = down)
      BY <1>3 DEF SourceKinds, SMoved, STimed, SSent, SSpoilt, SNoBuffer, SEnded, Hears
    <2>2. down' = <<>>
      BY <1>3, <2>1 DEF SAsk, SMissed, SDone
    <2>3. \A i \in DOMAIN up' : up'[i].k # "end"
      <3>1. CASE up' = up
        BY <1>3, <3>1
      <3>2. CASE SAsk
        <4>1. PICK pc \in Asks : Sends(<<AskFor(pc)>>) /\ (IF pc = "T" THEN Item.k \in {"C", "D"} ELSE Item.k = pc)
          BY <3>2 DEF SAsk
        <4>2. AskFor(pc) \in Tokens /\ AskFor(pc).k = pc
          <5>1. src.at <= Len(Plan)
            BY <3>2 DEF SAsk
          <5> QED BY <4>1, <5>1, AtFacts, SentTokens, PlanFacts, UnitKinds DEF AskFor
        <4>3. PICK t : t = AskFor(pc)
          OBVIOUS
        <4>4. <<t>> \in Seq(Tokens) /\ (\A j \in DOMAIN <<t>> : <<t>>[j].k # "end") /\ Sends(<<t>>)
          BY <4>1, <4>2, <4>3 DEF Asks
        <4> QED BY <1>3, <4>4, SentLast
      <3>3. CASE SMissed
        <4>1. Sends(<<ErrRec>>)
          BY <3>3 DEF SMissed
        <4>2. \A i \in DOMAIN <<ErrRec>> : <<ErrRec>>[i].k # "end"
          BY ErrSent
        <4> QED BY <1>3, <4>1, <4>2, ErrSent, SentLast
      <3> QED BY <2>1, <3>1, <3>2, <3>3 DEF SDone
    <2> QED BY <1>1, <1>3, <2>2, <2>3 DEF Told
  <1> QED BY <1>2, <1>3 DEF Told

(* The first error of the source is one the sink is about to be told of.    *)
LEMMA ToldFirst ==
  ASSUME RcpTypes, AllClean, SinkClean, snk.errs = 0, ~cut, SMissed \/ SMoved \/ SSpoilt \/ SNoBuffer \/ SEnded, src'.errs # src.errs
  PROVE  Told'
  <1>0. SourceKinds
    BY DEF SourceKinds
  <1>1. snk' = snk /\ (Storing' <=> Storing) /\ src.pc # "exit"
    BY <1>0, SourceRest, SourceOn DEF Storing
  <1>2. (\A i \in DOMAIN down : down[i] = "ok") /\ snk.pc # "exit"
    BY <1>1 DEF SinkClean
  <1>3. ~Hears("err")
    <2>1. ASSUME Hears("err") PROVE FALSE
      <3>1. down \in Seq(Answers) /\ down # <<>> /\ Head(down) = "err"
        BY <2>1, Flows DEF Hears
      <3>2. 1 \in DOMAIN down /\ down[1] = "err"
        BY <3>1, HeadFacts
      <3> QED BY <1>2, <3>2
    <2> QED BY <2>1
  <1>4. ~SEnded
    BY <1>2, <1>3 DEF SEnded, SinkGone
  <1>5. ~SMoved
    <2>1. ASSUME SMoved PROVE FALSE
      <3>1. \E at : Src("next", at, 0)
        BY <1>3, <2>1 DEF SMoved
      <3>2. src'.errs = src.errs + 0
        BY <3>1, SrcFields
      <3> QED BY <3>2, SourceIs
    <2> QED BY <2>1
  <1>6. CASE SMissed
    <2>1. up = <<>> /\ src.pc = "next" /\ Sends(<<ErrRec>>)
      BY <1>6 DEF SMissed, AllClean, CleanAnswers
    <2>2. up' = <<ErrRec>>
      BY <2>1, ErrSent, SentLast
    <2>3. snk.pc = "rec"
      BY <1>2, <2>1 DEF AllClean, CleanRest
    <2> QED BY <1>1, <2>2, <2>3, ErrSent DEF Told
  <1>7. CASE SSpoilt \/ SNoBuffer
    <2>1. src.pc = "C" /\ Hears("ok")
      BY <1>7 DEF SSpoilt, SNoBuffer
    <2>2. Okd /\ up = <<>> /\ down \in Seq(Answers) /\ Len(down) \in Nat \ {0}
      BY <2>1, OkHeard, Heard, Flows DEF AllClean
    <2>3. Len(down) = 1
      <3>1. ASSUME Len(down) > 1 PROVE FALSE
        <4>1. down[2] = "err"
          BY <2>2, <3>1 DEF AllClean, CleanAnswers
        <4>2. 2 \in DOMAIN down
          BY <2>2, <3>1
        <4> QED BY <1>2, <4>1, <4>2
      <3> QED BY <2>2, <3>1, MoreThanOne
    <2>4. down' = <<>>
      BY <2>1, <2>3, Heard
    <2>5. Storing
      <3>1. ~(Len(down) > 1)
        BY <2>3
      <3> QED BY <2>1, <2>2, <3>1 DEF AllClean, CleanAsk, Asks
    <2>6. \A i \in DOMAIN up' : up'[i].k # "end"
      <3>1. CASE SSpoilt
        <4>1. src.at <= Len(Plan)
          BY <2>1, AtFacts DEF Asks
        <4>2. ~SSent
          <5>1. ASSUME SSent PROVE FALSE
            <6>1. src'.errs = src.errs + 0
              BY <5>1, SrcFields DEF SSent
            <6> QED BY <6>1, SourceIs
          <5> QED BY <5>1
        <4>3. PICK r \in Seq(Tokens) :
           /\ Sends(r) /\ Len(r) = Item.n + 1 /\ Item.n \in Nat /\ DOMAIN r = 1 .. Item.n + 1
           /\ r[Item.n + 1].k = IF SSent THEN "end" ELSE "err"
           /\ \A i \in 1 .. Item.n : r[i].k \in {"unit", "garbage"}
          BY <3>1, <4>1, SentFile
        <4>4. up' = r
          BY <2>2, <4>3, SentLast
        <4>5. \A i \in DOMAIN r : i = Item.n + 1 \/ i \in 1 .. Item.n
          BY <4>3
        <4> QED BY <4>2, <4>3, <4>4, <4>5
      <3>2. CASE SNoBuffer
        <4>1. up' = <<ErrRec>>
          BY <2>2, <3>2, ErrSent, SentLast DEF SNoBuffer
        <4>2. \A i \in DOMAIN <<ErrRec>> : <<ErrRec>>[i].k # "end"
          BY ErrSent
        <4> QED BY <4>1, <4>2
      <3> QED BY <1>7, <3>1, <3>2
    <2> QED BY <1>1, <2>4, <2>5, <2>6 DEF Told
  <1> QED BY <1>4, <1>5, <1>6, <1>7

\* An error of the source is on its way to the sink: the source, the sink, a cut.
LEMMA SourceDoomed ==
  ASSUME RcpTypes, Clean, SinkClean, Doomed, SourceKinds
  PROVE  Doomed'
  <1>1. snk' = snk /\ cut' = cut /\ src.errs \in Nat
    BY SourceRest, SourceIs
  <1>2. ASSUME src'.errs > 0, snk.errs = 0, ~cut PROVE Told'
    <2>1. CASE src.errs > 0
      BY <1>2, <2>1, ToldSource DEF Doomed, Told
    <2>2. CASE src.errs = 0
      <3>1. AllClean
        BY <2>2 DEF Clean, AllClean
      <3>2. src'.errs # src.errs
        BY <1>2, <2>2
      <3>3. ASSUME NEW pc, NEW at, Src(pc, at, 0) PROVE FALSE
        <4>1. src'.errs = src.errs + 0
          BY <3>3, SrcFields
        <4> QED BY <1>1, <3>2, <4>1
      <3>4. SMissed \/ SMoved \/ SSpoilt \/ SNoBuffer \/ SEnded
        BY <3>3 DEF SourceKinds, SAsk, SDone, STimed, SSent
      <3> QED BY <1>2, <3>1, <3>2, <3>4, ToldFirst
    <2> QED BY <1>1, <2>1, <2>2
  <1> QED BY <1>1, <1>2 DEF Doomed, Told

LEMMA SinkDoomed ==
  ASSUME RcpTypes, Doomed, SinkKinds
  PROVE  Doomed'
  <1>1. src' = src /\ cut' = cut
    BY SinkView
  <1>2. ASSUME src.errs > 0, snk'.errs = 0, ~cut PROVE Told'
    <2>1. snk.errs = 0 /\ Told
      BY <1>2, SinkQuiet DEF Doomed, Told
    <2>2. ~(snk.pc = "rec" /\ up # <<>> /\ Head(up).k = "err")
      <3>1. ASSUME snk.pc = "rec", up # <<>>, Head(up).k = "err" PROVE FALSE
        <4>1. snk'.pc = "exit"
          BY <1>2, <3>1, SinkQuiet
        <4>2. KReturned
          BY <1>2, <4>1, SinkQuiet
        <4> QED BY <3>1, <4>2 DEF KReturned
      <3> QED BY <3>1
    <2>3. Storing /\ down = <<>> /\ \A i \in DOMAIN up : up[i].k # "end"
      BY <2>1, <2>2 DEF Told
    <2>4. snk.pc = "data"
      <3>1. ASSUME snk.pc = "resp" PROVE FALSE
        <4>1. Reads /\ Head(up).k = "end"
          BY <1>2, <3>1, SinkQuiet
        <4>2. Head(up) = up[1] /\ 1 \in DOMAIN up
          BY <4>1, ReadsTypes
        <4> QED BY <2>3, <4>1, <4>2
      <3> QED BY <2>3, <3>1 DEF Storing
    <2>5. snk'.pc \in {"data", "resp"} /\ down' = down /\ (up' = up \/ Reads)
      BY <1>2, <2>4, SinkQuiet
    <2>6. \A i \in DOMAIN up' : up'[i].k # "end"
      <3>1. CASE up' = up
        BY <2>3, <3>1
      <3>2. CASE Reads
        <4>1. \A i \in DOMAIN up' : i + 1 \in DOMAIN up /\ up'[i] = up[i + 1]
          BY <3>2, Shifted
        <4> QED BY <2>3, <4>1
      <3> QED BY <2>5, <3>1, <3>2
    <2> QED BY <2>3, <2>5, <2>6 DEF Told, Storing
  <1> QED BY <1>1, <1>2 DEF Doomed, Told

LEMMA CutDoomed ==
  ASSUME KCut
  PROVE  Doomed'
  BY DEF KCut, Doomed

\* Every form of a step keeps the invariant.
LEMMA KindsKeep ==
  ASSUME RcpInv, Kinds
  PROVE  RcpInv'
  <1>1. RcpTypes /\ Base /\ Whole /\ InStep /\ Clean /\ SinkClean /\ Doomed
    BY DEF RcpInv
  <1>2. Base'
    BY <1>1, BaseKept
  <1>3. CASE SourceKinds
    <2>1. RcpTypes' /\ Whole' /\ InStep'
      BY <1>1, <1>3, SourceKeepsTypes, SourceWhole, SourceInStep
    <2>2. Clean' /\ SinkClean' /\ Doomed'
      BY <1>1, <1>3, SourceClean, SourceSinkClean, SourceDoomed
    <2> QED BY <1>2, <2>1, <2>2 DEF RcpInv
  <1>4. CASE SinkKinds
    <2>1. RcpTypes' /\ Whole' /\ InStep'
      BY <1>1, <1>4, SinkKeepsTypes, SinkWhole, SinkInStep
    <2>2. Clean' /\ SinkClean' /\ Doomed'
      BY <1>1, <1>4, SinkKeepsClean, SinkSinkClean, SinkDoomed
    <2> QED BY <1>2, <2>1, <2>2 DEF RcpInv
  <1>5. CASE KCut
    <2>1. RcpTypes' /\ Whole' /\ InStep'
      BY <1>1, <1>5, CutKeepsTypes, CutInStep
    <2>2. Clean' /\ SinkClean' /\ Doomed'
      BY <1>1, <1>5, CutKeepsClean, CutSinkClean, CutDoomed
    <2> QED BY <1>2, <2>1, <2>2 DEF RcpInv
  <1> QED BY <1>3, <1>4, <1>5 DEF Kinds

\* So does a step that changes nothing.
LEMMA StutterKeeps ==
  ASSUME RcpInv, UNCHANGED rcpvars
  PROVE  RcpInv'
  <1>1. opt' = opt /\ src' = src /\ snk' = snk /\ up' = up /\ down' = down /\ disk' = disk /\ cut' = cut /\ faults' = faults
    BY DEF rcpvars
  <1>2. Plan' = Plan /\ Item' = Item /\ Top' = Top /\ Level' = Level
    BY <1>1 DEF Plan, Item, Top, Level
  <1>3. RcpTypes' /\ Base' /\ Whole'
    <2>1. FilesFit /\ Types /\ SourceAt /\ SinkAt /\ OneArgument /\ Base /\ Whole
      BY DEF RcpInv, RcpTypes
    <2>2. Types'
      BY <1>1, <1>2, <2>1 DEF Types
    <2>3. SourceAt' /\ SinkAt'
      BY <1>1, <1>2, <2>1 DEF SourceAt, SinkAt, Waits
    <2>4. FilesFit' /\ OneArgument' /\ Base' /\ Whole'
      BY <1>1, <1>2, <2>1 DEF FilesFit, OneArgument, Base, Whole
    <2> QED BY <2>2, <2>3, <2>4 DEF RcpTypes
  <1>4. InStep'
    <2>1. (UpShape' <=> UpShape) /\ (DownShape' <=> DownShape) /\ (NoExtra' <=> NoExtra)
      BY <1>1 DEF UpShape, DownShape, NoExtra
    <2>2. (Coming' <=> Coming) /\ (Answered' <=> Answered) /\ (Accepted' <=> Accepted) /\ (Filling' <=> Filling)
      BY <1>1, <1>2 DEF Coming, Answered, Accepted, Filling, Listens, Early, After, AllErr
    <2>3. Link' <=> Link
      BY <1>1, <2>2 DEF Link, Listens, Early, AllErr, After
    <2> QED BY <1>1, <2>1, <2>3 DEF RcpInv, InStep
  <1>5. Clean'
    <2>1. Done' <=> Done
      BY <1>1, <1>2 DEF Done, Arrived
    <2>2. (CleanAnswers' <=> CleanAnswers) /\ (CleanRest' <=> CleanRest)
      BY <1>1, <1>2 DEF CleanAnswers, CleanRest, Okd, Deep
    <2>3. CleanStore' <=> CleanStore
      BY <1>1, <1>2 DEF CleanStore, Storing, Deep, Timed, Written
    <2>4. CleanAsk' <=> CleanAsk
      BY <1>1, <1>2 DEF CleanAsk, Asked, Okd, Deep, Timed, Storing
    <2>5. CleanEnd' <=> CleanEnd
      BY <1>1, <1>2 DEF CleanEnd, Okd, Storing, Deep, Arrived
    <2> QED BY <1>1, <2>1, <2>2, <2>3, <2>4, <2>5 DEF RcpInv, Clean
  <1>6. SinkClean' /\ Doomed'
    BY <1>1 DEF RcpInv, SinkClean, Doomed, Storing
  <1> QED BY <1>3, <1>4, <1>5, <1>6 DEF RcpInv

\* It holds at the start.
LEMMA StartTypes ==
  ASSUME RcpInit, FilesFit
  PROVE  RcpTypes
  <1>0. opt.plan \in Plans /\ Plan = opt.plan /\ Len(Plan) \in Nat /\ OldSize \in Nat /\ Targ \in Paths
    BY RcpAssumption DEF RcpInit, Plan, GoodPlan, Paths
  <1>1. disk \in Disks
    <2>1. PICK k \in [Paths -> {"none", "file", "dir"}] :
             disk = [p \in Paths |-> [kind |-> k[p], data |-> IF k[p] = "file" THEN [i \in 1 .. OldSize |-> Rec("unit", Targ)] ELSE <<>>, time |-> "old"]]
      BY DEF RcpInit
    <2>2. Rec("unit", Targ) \in Tokens
      <3>1. 0 \in Sizes
        BY RcpAssumption DEF Sizes
      <3> QED BY <1>0, <3>1 DEF Rec, Tokens
    <2>3. [i \in 1 .. OldSize |-> Rec("unit", Targ)] \in Seq(Tokens)
      BY <1>0, <2>2
    <2>4. PICK old \in Seq(Tokens) : old = [i \in 1 .. OldSize |-> Rec("unit", Targ)]
      BY <2>3
    <2>5. disk = [p \in Paths |-> [kind |-> k[p], data |-> IF k[p] = "file" THEN old ELSE <<>>, time |-> "old"]]
      BY <2>1, <2>4
    <2>6. \A p \in Paths : k[p] \in {"none", "file", "dir"} /\ (IF k[p] = "file" THEN old ELSE <<>>) \in Seq(Tokens)
      BY <2>4
    <2> QED BY <2>5, <2>6 DEF Disks
  <1>2. Types
    <2>1. src.pc = "start" /\ src \in [pc : {"start", "next", "end", "exit"} \cup Asks, at : 1 .. Len(Plan) + 1, errs : Nat]
      BY <1>0 DEF RcpInit, Asks
    <2>2. snk \in [pc : {"start", "rec", "data", "resp", "exit"}, stack : Seq(Frames), np : Paths, size : Nat,
                   got : Seq(Tokens), wrerr : {"yes", "no", "displayed"}, errs : Nat]
      BY <1>0 DEF RcpInit
    <2>3. opt \in [plan : Plans, local : {"source", "sink"}, pflag : BOOLEAN, iamrecursive : BOOLEAN, dflag : BOOLEAN]
      BY Zenon DEF RcpInit
    <2>4. up \in Seq(Tokens) /\ down \in Seq(Answers) /\ cut \in BOOLEAN /\ faults \subseteq RcpFaults
      <3>1. up = <<>> /\ down = <<>> /\ cut = FALSE /\ faults = {}
        BY DEF RcpInit
      <3>2. up \in Seq(Tokens)
        BY <3>1
      <3>3. down \in Seq(Answers)
        BY <3>1
      <3>4. cut \in BOOLEAN /\ faults \subseteq RcpFaults
        BY <3>1
      <3> QED BY <3>2, <3>3, <3>4
    <2> QED BY <1>1, <2>1, <2>2, <2>3, <2>4 DEF Types, Disks
  <1>3. SourceAt /\ SinkAt
    BY DEF RcpInit, SourceAt, SinkAt, Waits, Asks
  <1>4. OneArgument
    <2>1. SUFFICES ASSUME ~opt.dflag, NEW i \in DOMAIN Plan, NEW j \in DOMAIN Plan, Plan[i].arg, Plan[j].arg, i # j
                   PROVE  FALSE
      BY DEF OneArgument
    <2>2. PICK S : S = {n \in 1 .. Len(Plan) : Plan[n].arg}
      OBVIOUS
    <2>3. DOMAIN Plan = 1 .. Len(Plan)
      BY <1>0, RcpAssumption DEF GoodPlan
    <2>4. IsFiniteSet(1 .. Len(Plan))
      BY <1>0, FS_Interval
    <2>5. IsFiniteSet(S) /\ {i, j} \subseteq S
      BY <2>1, <2>2, <2>3, <2>4, FS_Subset
    <2>6. Cardinality({i, j}) = 2
      <3>1. IsFiniteSet({i}) /\ Cardinality({i}) = 1
        BY FS_Singleton
      <3>2. j \notin {i} /\ {i} \cup {j} = {i, j}
        BY <2>1
      <3>3. Cardinality({i} \cup {j}) = Cardinality({i}) + 1
        BY <3>1, <3>2, FS_AddElement
      <3> QED BY <3>1, <3>2, <3>3
    <2>7. Cardinality({i, j}) <= Cardinality(S) /\ Cardinality(S) \in Nat
      BY <2>5, FS_Subset, FS_CardinalityType
    <2>8. ~(Cardinality(S) > 1)
      BY <1>0, <2>1, <2>2 DEF RcpInit
    <2> QED BY <2>6, <2>7, <2>8
  <1> QED BY <1>2, <1>3, <1>4 DEF RcpTypes

LEMMA StartInv ==
  ASSUME RcpInit, FilesFit
  PROVE  RcpInv
  <1>1. src.pc = "start" /\ src.at = 1 /\ src.errs = 0 /\ snk.pc = "start" /\ snk.stack = <<>> /\ snk.errs = 0
    BY DEF RcpInit
  <1>2. up = <<>> /\ down = <<>> /\ ~cut
    BY DEF RcpInit
  <1>3. InStep
    BY <1>1, <1>2 DEF InStep, UpShape, DownShape, Link
  <1>4. Clean
    BY <1>1, <1>2 DEF Clean, Done, CleanAnswers, CleanStore, CleanAsk, CleanEnd, CleanRest, Okd, Storing, Asks
  <1>5. Base /\ Whole /\ SinkClean /\ Doomed
    BY <1>1, <1>2 DEF Base, Whole, SinkClean, Doomed
  <1> QED BY <1>3, <1>4, <1>5, StartTypes DEF RcpInv

\* The invariant implies each part of RcpSafe.
LEMMA TypesHold ==
  ASSUME RcpTypes, Statuses
  PROVE  RcpTypeOK
  <1>1. src.pc \in {"start", "next", "T", "C", "D", "E", "end", "exit"} /\ src.at \in 1 .. Len(Plan) + 1
    BY DEF RcpTypes, Types, Asks
  <1>2. snk.pc \in {"start", "rec", "data", "resp", "exit"} /\ snk.wrerr \in {"yes", "no", "displayed"} /\ Len(snk.got) <= snk.size
    BY DEF RcpTypes, Types, SinkAt
  <1>3. snk.stack \in Seq(Frames) /\ up \in Seq(Tokens) /\ down \in Seq(Answers) /\ faults \subseteq RcpFaults
    BY DEF RcpTypes, Types
  <1>4. \A f \in Range(snk.stack) : f.targ \in Paths /\ f.isdir \in BOOLEAN /\ f.setimes \in BOOLEAN
    <2>1. Range(snk.stack) \subseteq Frames
      BY <1>3 DEF Range
    <2> QED BY <2>1 DEF Frames
  <1>5. \A i \in 1 .. Len(snk.stack) : i > 1 => snk.stack[i].isdir
    BY <1>3 DEF RcpTypes, SinkAt
  <1>6. Range(down) \subseteq {"ok", "err"}
    BY <1>3 DEF Range, Answers
  <1>7. \A t \in Range(up) : t.k \in {"T", "C", "D", "E", "err", "end", "part", "unit", "garbage"} /\ t.path \in Paths
    <2>1. Range(up) \subseteq Tokens
      BY <1>3 DEF Range
    <2> QED BY <2>1 DEF Tokens
  <1> QED BY <1>1, <1>2, <1>3, <1>4, <1>5, <1>6, <1>7 DEF RcpTypeOK, Statuses

LEMMA StepsHold ==
  ASSUME RcpTypes, InStep
  PROVE  RcpInStep
  <1> SUFFICES ASSUME NoExtra
               PROVE  /\ (snk.pc = "rec" /\ up # <<>>) => Head(up).k \notin {"unit", "garbage", "end"}
                      /\ (snk.pc = "data" /\ Len(snk.got) < snk.size /\ up # <<>>) => Head(up).k \in {"unit", "garbage", "part"}
                      /\ (snk.pc = "resp" /\ up # <<>>) => Head(up).k \in {"end", "err", "part"}
                      /\ Len(down) <= IF src.pc \in {"C", "exit"} THEN 2 ELSE 1
                      /\ src.pc = "next" => (down = <<>> \/ snk.pc = "exit")
    BY DEF RcpInStep, NoExtra
  <1>1. UpShape /\ DownShape
    BY DEF InStep
  <1>2. up # <<>> => Head(up) = up[1] /\ 1 \in DOMAIN up
    BY DEF RcpTypes, Types
  <1>3. Len(snk.got) \in Nat /\ snk.size \in Nat /\ Len(down) \in Nat
    BY DEF RcpTypes, Types
  <1>4. (snk.pc = "rec" /\ up # <<>>) => Head(up).k \notin {"unit", "garbage", "end"}
    <2>1. up[1].k \in Asks \cup {"err", "part"} => up[1].k \notin {"unit", "garbage", "end"}
      BY DEF Asks
    <2> QED BY <1>1, <1>2, <2>1 DEF UpShape
  <1>5. (snk.pc = "data" /\ Len(snk.got) < snk.size /\ up # <<>>) => Head(up).k \in {"unit", "garbage", "part"}
    <2>1. SUFFICES ASSUME snk.pc = "data", Len(snk.got) < snk.size, up # <<>>
                   PROVE  up[1].k \in {"unit", "garbage", "part"}
      BY <1>2
    <2>2. PICK r \in Int : r = snk.size - Len(snk.got) /\ 1 <= r
      BY <1>3, <2>1
    <2>3. \A i \in DOMAIN up : i <= r => up[i].k \in {"unit", "garbage", "part"}
      BY <1>1, <2>1, <2>2 DEF UpShape
    <2> QED BY <1>2, <2>1, <2>2, <2>3
  <1>6. (snk.pc = "resp" /\ up # <<>>) => Head(up).k \in {"end", "err", "part"}
    BY <1>1, <1>2 DEF UpShape
  <1>7. Len(down) <= (IF src.pc \in {"C", "exit"} THEN 2 ELSE 1) /\ (src.pc = "next" => (down = <<>> \/ snk.pc = "exit"))
    <2>1. Len(down) <= 1 \/ (src.pc \in {"C", "exit"} /\ Len(down) = 2)
      BY <1>1 DEF DownShape
    <2>2. src.pc = "next" => (down = <<>> \/ snk.pc = "exit")
      BY <1>1 DEF DownShape
    <2>3. ASSUME src.pc \in {"C", "exit"} PROVE Len(down) <= 2
      <3>1. PICK n \in Nat : n = Len(down)
        BY <1>3
      <3>2. n <= 1 \/ n = 2
        BY <2>1, <3>1
      <3>3. n <= 2
        BY <3>2
      <3> QED BY <3>1, <3>3
    <2>4. ASSUME src.pc \notin {"C", "exit"} PROVE Len(down) <= 1
      BY <2>1, <2>4
    <2> QED BY <2>2, <2>3, <2>4
  <1> QED BY <1>4, <1>5, <1>6, <1>7

LEMMA CopiesHold ==
  ASSUME RcpTypes, Statuses, Clean, SinkClean
  PROVE  RcpCopied
  <1> SUFFICES ASSUME Local.pc = "exit", status[opt.local] = 0, Local.errs < StatusWrap, ~(opt.local = "sink" /\ cut)
               PROVE  \A i \in 1 .. Len(Plan) : Plan[i].k = "C" => Arrived(Plan[i])
    BY DEF RcpCopied
  <1>4. Local.errs = 0
    <2>1. Local.errs \in Nat /\ StatusWrap \in Nat \ {0}
      BY RcpAssumption DEF Local, RcpTypes, Types
    <2>2. Local.errs % StatusWrap = 0
      BY DEF Local, RcpTypes, Types, Statuses, LeftWith
    <2>3. \A e \in Nat, w \in Nat \ {0} : e < w => e % w = e
      OBVIOUS
    <2> QED BY <2>1, <2>2, <2>3
  <1>1. src.pc = "exit" /\ src.errs = 0
    <2>1. opt.local \in {"source", "sink"}
      BY DEF RcpTypes, Types
    <2>2. CASE opt.local = "source"
      BY <1>4, <2>2 DEF Local
    <2>3. CASE opt.local = "sink"
      BY <1>4, <2>3 DEF Local, SinkClean
    <2> QED BY <2>1, <2>2, <2>3
  <1>2. Done /\ src.at = Len(Plan) + 1
    BY <1>1 DEF Clean, CleanAnswers
  <1>3. Len(Plan) + 1 - 1 = Len(Plan)
    BY PlanFacts
  <1> QED BY <1>2, <1>3 DEF Done

(* The status that each end leaves with.                                    *)
\* Every step is one of the source, one of the sink, a cut or a lost connection.
LEMMA StepForms ==
  ASSUME RcpNext
  PROVE  \/ \E s, sent : SrcGo(s, sent)
         \/ \E sent : SrcExit(src, sent)
         \/ \E s, answers : SnkGo(s, answers)
         \/ \E answers : SnkExit(answers)
         \/ Cut \/ lostconn
  <1> DEFINE Form == \/ \E s, sent : SrcGo(s, sent)
                     \/ \E sent : SrcExit(src, sent)
                     \/ \E s, answers : SnkGo(s, answers)
                     \/ \E answers : SnkExit(answers)
                     \/ Cut \/ lostconn
  <1> HIDE DEF Form
  <1>a. \A s, sent : SrcGo(s, sent) => Form
    BY DEF Form
  <1>b. \A s, answers : SnkGo(s, answers) => Form
    BY DEF Form
  <1>1. SourceItem => Form
    BY <1>a, Zenon DEF SourceItem
  <1>2. SourceDone => Form
    BY Zenon DEF SourceDone, Form
  <1>3. SourceResponse => Form
    <2>1. SourceOk => Form
      <3>1. SendFile => Form
        BY <1>a, Zenon DEF SendFile
      <3> QED BY <1>a, <3>1, Zenon DEF SourceOk
    <2>2. SourceErr => Form
      BY <1>a, Zenon DEF SourceErr
    <2> QED BY <1>a, <2>1, <2>2, Zenon DEF SourceResponse
  <1>4. SinkStart => Form
    BY <1>b, Zenon DEF SinkStart
  <1>5. SinkRecord => Form
    <2>1. \A answers : Return(answers) => Form
      <3>1. \A answers : SnkExit(answers) => Form
        BY DEF Form
      <3> QED BY <1>b, <3>1, Zenon DEF Return
    <2>2. \A it : SinkDir(it) => Form
      BY <1>b, Zenon DEF SinkDir, Refused, Entered
    <2>3. \A it : SinkFile(it) => Form
      BY <1>b, Zenon DEF SinkFile, Refused
    <2> QED BY <1>b, <2>1, <2>2, <2>3, Zenon DEF SinkRecord
  <1>6. SinkData => Form
    BY <1>b, Zenon DEF SinkData
  <1>7. SinkWritten => Form
    BY <1>b, Zenon DEF SinkWritten, Stored
  <1>8. SinkVerdict => Form
    <2>1. \A s : Answer(s) => Form
      BY <1>b, Zenon DEF Answer
    <2> QED BY <1>b, <2>1, Zenon DEF SinkVerdict
  <1>9. Cut \/ lostconn => Form
    BY DEF Form
  <1>10. Form
    BY <1>1, <1>2, <1>3, <1>4, <1>5, <1>6, <1>7, <1>8, <1>9 DEF RcpNext, SourceStep, SinkStep
  <1> QED BY <1>10 DEF Form

\* No step changes what the user asked for.
LEMMA OptStays ==
  ASSUME RcpNext
  PROVE  opt' = opt
  BY StepForms DEF SrcGo, SrcStep, SrcExit, SnkGo, SnkStep, SnkExit, Cut, lostconn

\* What the status becomes when an end leaves.
LEMMA LeavesFacts ==
  ASSUME Statuses, NEW end \in {"source", "sink"}, NEW code \in Nat, Leaves(end, code)
  PROVE  /\ status' \in [{"source", "sink"} -> 0 .. StatusWrap - 1]
         /\ status'[end] = code % StatusWrap /\ (code = 1 => status'[end] = 1)
         /\ \A other \in {"source", "sink"} : other # end => status'[other] = status[other]
  <1>1. StatusWrap \in Nat \ {0, 1}
    BY RcpAssumption
  <1>2. code % StatusWrap \in 0 .. StatusWrap - 1
    BY <1>1
  <1>3. 1 % StatusWrap = 1
    BY <1>1
  <1> QED BY <1>2, <1>3 DEF Leaves, Statuses

\* An end that exits leaves with 1 or with the number of its errors.
LEMMA StatusesKept ==
  ASSUME RcpTypes, Statuses, RcpNext
  PROVE  Statuses'
  <1>0. src.errs \in Nat /\ snk.errs \in Nat /\ 1 \in Nat
    BY SourceIs, SinkIs
  <1>1. ASSUME NEW s, NEW sent, SrcGo(s, sent) PROVE Statuses'
    <2>1. CASE s.pc = "exit"
      BY <1>0, <1>1, <2>1, LeavesFacts DEF SrcGo, SrcStep, Statuses, LeftWith
    <2>2. CASE s.pc # "exit"
      BY <1>1, <2>2 DEF SrcGo, SrcStep, Statuses, LeftWith
    <2> QED BY <2>1, <2>2
  <1>2. ASSUME NEW sent, SrcExit(src, sent) PROVE Statuses'
    <2>1. src' = [src EXCEPT !.pc = "exit"] /\ Leaves("source", src.errs) /\ snk' = snk
      BY <1>2 DEF SrcExit, SrcStep
    <2>2. src'.errs = src.errs
      BY <2>1, SourceIs
    <2> QED BY <1>0, <2>1, <2>2, LeavesFacts DEF Statuses, LeftWith
  <1>3. ASSUME NEW s, NEW answers, SnkGo(s, answers) PROVE Statuses'
    <2>1. CASE s.pc = "exit"
      BY <1>0, <1>3, <2>1, LeavesFacts DEF SnkGo, SnkStep, Statuses, LeftWith
    <2>2. CASE s.pc # "exit"
      BY <1>3, <2>2 DEF SnkGo, SnkStep, Statuses, LeftWith
    <2> QED BY <2>1, <2>2
  <1>4. ASSUME NEW answers, SnkExit(answers) PROVE Statuses'
    <2>1. snk' = [snk EXCEPT !.pc = "exit"] /\ Leaves("sink", snk.errs) /\ src' = src
      BY <1>4 DEF SnkExit, SnkStep
    <2>2. snk'.errs = snk.errs
      BY <2>1, SinkIs, SnkEdits
    <2> QED BY <1>0, <2>1, <2>2, LeavesFacts DEF Statuses, LeftWith
  <1>5. CASE Cut
    BY <1>5 DEF Cut, Statuses, LeftWith
  <1>6. CASE lostconn
    <2>1. CASE Leaves("source", 1) /\ UNCHANGED snk
      BY <1>0, <2>1, LeavesFacts DEF Statuses, LeftWith
    <2>2. CASE Leaves("sink", 1) /\ UNCHANGED src
      BY <1>0, <2>2, LeavesFacts DEF Statuses, LeftWith
    <2> QED BY <1>6, <2>1, <2>2 DEF lostconn
  <1> QED BY <1>1, <1>2, <1>3, <1>4, <1>5, <1>6, StepForms

LEMMA InvGivesSafe ==
  ASSUME RcpInv, Statuses
  PROVE  RcpTypeOK /\ RcpInStep /\ RcpCopied
  BY TypesHold, StepsHold, CopiesHold DEF RcpInv

\* The inductive invariant, for files whose size fits the int of the sink: the
\* types, that only a cut leaves parts of records, that the two ends are at the
\* same place of the same item, that a source which counted no error has
\* everything behind it stored, that an error which one end counts is known, or
\* about to be known, to the other, and that an end exits with 1 or with the
\* number of its errors (main 295, source 489, sink 658, response 994, run_err
\* 1110).
RcpStrong == FilesFit => RcpInv /\ Statuses
THEOREM RcpInvariant == RcpSpec => []RcpStrong
  <1>1. RcpInit => RcpStrong
    <2> SUFFICES ASSUME RcpInit, FilesFit PROVE RcpInv /\ Statuses
      BY DEF RcpStrong
    <2>1. status = [source |-> 0, sink |-> 0] /\ src.pc # "exit" /\ snk.pc # "exit"
      BY DEF RcpInit
    <2>2. 0 \in 0 .. StatusWrap - 1
      BY RcpAssumption
    <2>3. Statuses
      BY <2>1, <2>2 DEF Statuses, LeftWith
    <2> QED BY <2>3, StartInv
  <1>2. RcpStrong /\ [RcpNext]_rcpvars => RcpStrong'
    <2> SUFFICES ASSUME RcpStrong, [RcpNext]_rcpvars, FilesFit' PROVE RcpInv' /\ Statuses'
      BY DEF RcpStrong
    <2>1. opt' = opt
      BY OptStays DEF rcpvars
    <2>2. RcpInv /\ Statuses
      BY <2>1 DEF RcpStrong, FilesFit, Plan
    <2>3. CASE RcpNext
      BY <2>2, <2>3, StepKinds, KindsKeep, StatusesKept DEF RcpInv
    <2>4. CASE UNCHANGED rcpvars
      <3>1. Statuses'
        BY <2>2, <2>4 DEF rcpvars, Statuses, LeftWith
      <3> QED BY <2>2, <2>4, <3>1, StutterKeeps
    <2> QED BY <2>3, <2>4
  <1> QED BY <1>1, <1>2, PTL DEF RcpSpec

\* rcp is right for every argument list, whatever fails, as long as every size
\* fits an int: source and sink stay in step, and when the rcp that the user runs
\* exits with status 0 after fewer errors than a status can tell (256), every
\* file of the list is at the target, whole and with its time.
THEOREM RcpStaysSafe == RcpSpec => []RcpSafe
  <1>1. RcpStrong => RcpSafe
    BY InvGivesSafe DEF RcpStrong, RcpSafe
  <1> QED BY <1>1, RcpInvariant, PTL
=============================================================================
