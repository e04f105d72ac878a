--------------------------------- MODULE Slc ---------------------------------
(***************************************************************************)
(* The special characters of TELNET's line mode: telnet's spc_data and       *)
(* telnetd's slctab.  Each end proposes, accepts or refuses a level and a    *)
(* value for each function (interrupt, erase, ...); the functions do not     *)
(* touch each other, so one of them is modelled, with every combination of   *)
(* what the two systems make of it.  Sub-negotiations are not lost, but they *)
(* cross; line mode stays on.                                                *)
(***************************************************************************)
EXTENDS Naturals, Sequences

CONSTANTS
  Values,              \* characters
  VDisables,           \* _POSIX_VDISABLE of both systems: 0 (GNU/Linux) or 255
  MaxSlc               \* bounds what users, programs and options do

ASSUME SlcAssumption == Values \cap (VDisables \cup {0}) = {}

SLC_NOSUPPORT == 0
SLC_CANTCHANGE == 1
SLC_VARIABLE == 2
SLC_DEFAULT == 3
Levels == {SLC_NOSUPPORT, SLC_CANTCHANGE, SLC_VARIABLE, SLC_DEFAULT}

VARIABLES
  func,                \* the function: what spcset, tcval and slc_init make of it
  spc,                 \* its entry in spc_data and what valp points to
  slctab,              \* its entry in slctab, termbuf, the pty and the deferred buffer
  toserver, toclient,  \* sub-negotiations on their way
  acts                 \* history: how much has happened, the character that the
                       \* user set last, and whether a buffer was dropped

slcvars == <<func, spc, slctab, toserver, toclient, acts>>

(* A triplet for the function, or for function 0.  VDISABLE is the value of   *)
(* a character that is off; 0 is also that of one that never had a value.     *)
Triplet(level, ack, val) == [f |-> 1, level |-> level, ack |-> ack, val |-> val]
Ask(level) == [f |-> 0, level |-> level, ack |-> FALSE, val |-> 0]
VDISABLE == func.vdisable
Chars == Values \cup {VDISABLE}

----------------------------------------------------------------------------
(* The client.                                                             *)
slc_level(c, val) == IF val = VDISABLE THEN SLC_NOSUPPORT ELSE func.mylevel

(* The level is that of the value before the default values are restored. *)
slc_export(c) ==
  LET e == [c EXCEPT !.flags = slc_level(c, c.val), !.place = func.tty,
                     !.val = IF func.valp THEN func.tty ELSE @]
  IN IF func.mylevel = SLC_NOSUPPORT THEN <<c, <<>>>> ELSE <<e, <<Triplet(e.flags, FALSE, e.val)>>>>

(* Mutant: a level above ours is accepted. *)
Supports_All(level) == TRUE

Supports(level) == level <= func.mylevel

(* slc and slc_update: the entry after a triplet, and the answer.           *)
slc(c, m) ==
  LET taken(ack) == [c EXCEPT !.flags = m.level, !.val = m.val, !.place = IF ack /\ func.valp THEN m.val ELSE @]
      d == IF Supports(m.level) /\ m.level # SLC_DEFAULT THEN taken(TRUE)
           ELSE IF Supports(m.level) THEN [c EXCEPT !.val = m.val]
           ELSE c
      e == IF m.level # SLC_DEFAULT THEN d
           ELSE [d EXCEPT !.flags = IF func.mylevel # SLC_DEFAULT THEN func.mylevel ELSE SLC_NOSUPPORT]
  IN CASE m.f = 0 \/ (m.val = c.val /\ m.level = c.flags) -> <<c, <<>>>>
       [] m.f # 0 /\ ~(m.val = c.val /\ m.level = c.flags) /\ m.ack /\ m.level = c.flags -> <<taken(m.level # SLC_DEFAULT), <<>>>>
       [] OTHER -> <<e, <<Triplet(e.flags, Supports(m.level) /\ m.level # SLC_DEFAULT, e.val)>>>>

(* After `set': what the user changed is told to the server.                *)
slc_check(c) ==
  LET e == [c EXCEPT !.val = c.place, !.flags = slc_level(c, c.place)]
  IN IF func.valp /\ c.val # c.place THEN <<e, <<Triplet(e.flags, FALSE, e.val)>>>> ELSE <<c, <<>>>>

ClientSays(r) == spc' = r[1] /\ toserver' = toserver \o r[2]

ClientReceives ==
  /\ toclient # <<>> /\ toclient' = Tail(toclient)
  /\ ClientSays(slc(spc, Head(toclient)))
  /\ UNCHANGED <<func, slctab, acts>>

Acts(last) == acts.n < MaxSlc /\ acts' = [acts EXCEPT !.n = @ + 1, !.last = last]

setcmd ==
  /\ func.valp
  /\ \E v \in Chars :
       /\ v # spc.place \/ v # spc.val
       /\ Acts(IF v = spc.val \/ slctab.pkt THEN 0 ELSE v)
       /\ ClientSays(slc_check([spc EXCEPT !.place = v]))
  /\ UNCHANGED <<func, slctab, toclient>>

slc_mode_export == Acts(0) /\ ClientSays(slc_export(spc)) /\ UNCHANGED <<func, slctab, toclient>>

slc_mode_import ==
  /\ Acts(0) /\ \E level \in {SLC_DEFAULT, SLC_VARIABLE} : ClientSays(<<spc, <<Ask(level)>>>>)
  /\ UNCHANGED <<func, slctab, toclient>>

----------------------------------------------------------------------------
(* The server.                                                             *)
init_termbuf(s) == [s EXCEPT !.termbuf = s.pty]
set_termbuf(s) == IF s.termbuf = s.pty THEN s ELSE [s EXCEPT !.pty = s.termbuf, !.pkt = TRUE]

Current(s, level, val) == [s EXCEPT !.level = level, !.val = val]
deflevel(s) == IF s.defval = VDISABLE THEN SLC_NOSUPPORT ELSE s.deflevel

default_slc(s) ==
  [Current(s, deflevel(s), s.defval) EXCEPT !.termbuf = IF func.sptr THEN s.defval ELSE @]

(* The triplet of the function; send_slc leaves out what is not supported.   *)
add_slc(s) == <<Triplet(s.level, FALSE, s.val)>>

send_slc(s) == IF s.deflevel = SLC_NOSUPPORT THEN <<>> ELSE add_slc(s)

(* Mutant: the place of the value is not changed. *)
change_slc_Kept(s, m) == <<Current(s, m.level, m.val), <<Triplet(m.level, TRUE, m.val)>>>>

change_slc(s, m) ==
  LET same == <<Current(s, m.level, m.val), <<Triplet(m.level, TRUE, m.val)>>>>
      dflt == Current(s, IF s.deflevel = SLC_DEFAULT THEN SLC_NOSUPPORT ELSE s.deflevel, s.defval)
      mine == Current(s, s.deflevel, IF s.deflevel = SLC_CANTCHANGE THEN s.defval ELSE s.val)
  IN CASE m.level = SLC_NOSUPPORT -> <<Current(s, SLC_NOSUPPORT, VDISABLE), same[2]>>
       [] m.level = SLC_DEFAULT -> <<dflt, add_slc(dflt)>>
       [] m.level \in {SLC_VARIABLE, SLC_CANTCHANGE} /\ func.sptr -> <<[same[1] EXCEPT !.termbuf = m.val], same[2]>>
       [] m.level \in {SLC_VARIABLE, SLC_CANTCHANGE} /\ ~func.sptr ->
            CASE s.deflevel = SLC_DEFAULT -> same
              [] m.level = SLC_CANTCHANGE /\ s.deflevel = SLC_CANTCHANGE ->
                   <<Current(s, SLC_NOSUPPORT, s.val), <<Triplet(SLC_NOSUPPORT, FALSE, m.val)>>>>
              [] OTHER -> <<mine, <<Triplet(mine.level, FALSE, IF s.deflevel = SLC_CANTCHANGE THEN s.defval ELSE m.val)>>>>

(* Mutant: an acknowledgement is taken for a request. *)
Ignored_Same(s, m) == m.level = s.level /\ m.val = s.val

Ignored(s, m) == (m.level = s.level /\ m.val = s.val) \/ m.ack

process_slc(s, m) ==
  CASE m.f = 0 /\ m.level = SLC_DEFAULT -> <<default_slc(s), send_slc(default_slc(s))>>
    [] m.f = 0 /\ m.level = SLC_VARIABLE -> <<s, send_slc(s)>>
    [] m.f = 1 /\ Ignored(s, m) -> <<s, <<>>>>
    [] m.f = 1 /\ ~Ignored(s, m) -> change_slc(s, m)

(* The program changed the pty: the level is kicked up to the default.     *)
check_slc(s) ==
  LET e == Current(s, IF s.termbuf = VDISABLE THEN SLC_NOSUPPORT ELSE s.deflevel, s.termbuf)
  IN IF func.sptr /\ s.termbuf # s.val THEN <<e, add_slc(e)>> ELSE <<s, <<>>>>

ServerSays(s, answer) == slctab' = s /\ toclient' = toclient \o answer

(* start_slc, do_opt_slc and end_slc; before the first localstat the first  *)
(* buffer is kept and all others are dropped.                               *)
do_opt_slc ==
  /\ toserver # <<>> /\ toserver' = Tail(toserver)
  /\ LET s == [init_termbuf(slctab) EXCEPT !.linemode = TRUE]
         r == process_slc(s, Head(toserver))
     IN CASE slctab.terminit -> ServerSays(set_termbuf(r[1]), r[2]) /\ acts' = acts
          [] ~slctab.terminit /\ slctab.deferred = <<>> ->
               ServerSays([s EXCEPT !.deferred = <<Head(toserver)>>], <<>>) /\ acts' = acts
          [] ~slctab.terminit /\ slctab.deferred # <<>> ->
               ServerSays(s, <<>>) /\ acts' = [acts EXCEPT !.dropped = TRUE]
  /\ UNCHANGED <<func, spc>>

(* Mutant: the deferred buffer is forgotten. *)
deferslc_Not(s) == <<[s EXCEPT !.deferred = <<>>], <<>>>>

deferslc(s) ==
  IF s.deferred = <<>> THEN <<s, <<>>>>
  ELSE LET r == process_slc(init_termbuf(s), s.deferred[1])
       IN <<[set_termbuf(r[1]) EXCEPT !.deferred = <<>>], r[2]>>

(* localstat: what check_slc says is held back while a buffer is deferred.  *)
slc_localstat ==
  /\ ~slctab.terminit \/ slctab.pkt
  /\ LET s == [init_termbuf(slctab) EXCEPT !.pkt = FALSE]
         r == IF s.linemode THEN check_slc(s) ELSE <<s, <<>>>>
         d == deferslc([r[1] EXCEPT !.terminit = TRUE])
     IN ServerSays(d[1], IF s.deferred # <<>> THEN d[2] ELSE r[2])
  /\ UNCHANGED <<func, spc, toserver, acts>>

(* A program (stty, an editor) changes the character of the pty.            *)
Program ==
  /\ Acts(0) /\ func.sptr
  /\ \E v \in Chars \ {slctab.pty} : slctab' = [slctab EXCEPT !.pty = v, !.pkt = TRUE]
  /\ UNCHANGED <<func, spc, toserver, toclient>>

(* XON and XOFF: WILL and WONT LFLOW change what the server can support.    *)
FlowOption ==
  /\ Acts(0) /\ func.flow
  /\ \E level \in {SLC_DEFAULT, SLC_CANTCHANGE} \ {slctab.deflevel} : slctab' = [slctab EXCEPT !.deflevel = level]
  /\ UNCHANGED <<func, spc, toserver, toclient>>

----------------------------------------------------------------------------
(* What the two systems know of the function: a place in the terminal's      *)
(* modes and so a variable character, or the default, or nothing; System V   *)
(* clients cannot change XON and XOFF.                                       *)
Functions ==
  {g \in [mylevel : Levels, valp : BOOLEAN, sptr : BOOLEAN, flow : BOOLEAN,
          vdisable : VDisables, tty : Values \cup VDisables] :
     /\ g.tty \in Values \cup {g.vdisable}
     /\ g.valp <=> g.mylevel \in {SLC_VARIABLE, SLC_CANTCHANGE}
     /\ g.mylevel = SLC_CANTCHANGE => g.flow
     /\ g.flow => g.valp
     /\ ~g.valp => g.tty = g.vdisable}

slc_init == [val |-> IF func.valp THEN func.tty ELSE 0, flags |-> SLC_NOSUPPORT, place |-> func.tty]

(* The character of a new pty; which one does not matter. *)
FirstChars == {CHOOSE v \in Values : TRUE, VDISABLE}

(* What the server's terminal has: a place for the character, only the      *)
(* knowledge of the function, or (never for XON and XOFF) not even that.    *)
spcset(pty) ==
  IF func.sptr THEN {[level |-> SLC_VARIABLE, val |-> pty]}
  ELSE [level : {SLC_DEFAULT} \cup (IF func.flow THEN {} ELSE {SLC_NOSUPPORT}), val : {0}]

(* get_slc_defaults; func 0 asks for the defaults unless `slc export' is set. *)
SlcInit ==
  /\ func \in Functions
  /\ \E pty \in FirstChars : \E defset \in spcset(pty) :
       /\ ~func.sptr => pty = VDISABLE
       /\ slctab = [level |-> SLC_NOSUPPORT, val |-> 0, deflevel |-> defset.level,
                    defval |-> defset.val, termbuf |-> pty, pty |-> pty,
                    linemode |-> FALSE, terminit |-> FALSE, deferred |-> <<>>, pkt |-> FALSE]
  /\ \/ spc = slc_export(slc_init)[1] /\ toserver = slc_export(slc_init)[2]
     \/ spc = slc_init /\ toserver = <<Ask(SLC_DEFAULT)>>
  /\ toclient = <<>> /\ acts = [n |-> 0, last |-> 0, dropped |-> FALSE]

SlcRuns == ClientReceives \/ do_opt_slc \/ slc_localstat
SlcNext == SlcRuns \/ setcmd \/ slc_mode_export \/ slc_mode_import \/ Program \/ FlowOption

(* What has arrived is read, by one end or the other. *)
SlcFairness == WF_slcvars(SlcRuns)
SlcSpec == SlcInit /\ [][SlcNext]_slcvars /\ SlcFairness

----------------------------------------------------------------------------
(* Types; the client never goes above the level that its system supports.   *)
SlcTypeOK ==
  /\ spc.val \in Chars \cup {0} /\ spc.place \in Chars \cup {0} /\ spc.flags \in 0 .. func.mylevel
  /\ slctab.level \in Levels /\ slctab.val \in Chars \cup {0} /\ slctab.pty \in Chars \cup {0}

Idle ==
  /\ toserver = <<>> /\ toclient = <<>> /\ ~acts.dropped
  /\ slctab.terminit /\ slctab.linemode /\ ~slctab.pkt

(* When nothing is on its way, both ends have come to the same level and     *)
(* character, although each changed its own while the other's proposals and  *)
(* answers were in flight (process_slc ignores acknowledgements, slc does not). *)
SlcAgree ==
  Idle => spc.flags = slctab.level /\ (spc.flags # SLC_NOSUPPORT => spc.val = slctab.val)

(* Then both terminals also use it: it was stored where valp and sptr point. *)
SlcInForce ==
  Idle /\ spc.flags = SLC_VARIABLE /\ func.valp /\ func.sptr =>
    spc.place = spc.val /\ slctab.pty = spc.val

(* telnet.1 on `set': what the user changed last is in force at both ends,     *)
(* whatever crossed it; except for a change of the pty that telnetd has not    *)
(* seen yet, for `off', which the next change of the pty undoes, and for XON   *)
(* and XOFF, where a late acknowledgement of an older value can be proposed.   *)
SlcLast ==
  Idle /\ acts.last \in Values /\ func.sptr /\ ~func.flow =>
    spc.place = acts.last /\ slctab.pty = acts.last

(* The exchange comes to an end: no two answers provoke each other for ever. *)
SlcSettles == <>[](toserver = <<>> /\ toclient = <<>>)

(* Both ends come to the same character, the one in force and the user's last.  *)
SlcSafe == SlcTypeOK /\ SlcAgree /\ SlcInForce /\ SlcLast
=============================================================================
