------------------------------ MODULE MCSyslog ------------------------------
(* Small instances of Syslog. *)
EXTENDS Syslog

S(facs, pri) == [facs |-> facs, pri |-> pri, word |-> "", neg |-> FALSE, excl |-> FALSE]
W(facs, word) == [S(facs, 0) EXCEPT !.word = word]
L(sel, kind, name) == [sel |-> sel, kind |-> kind, name |-> name]
M(fac, pri, text, host) == [fac |-> fac, pri |-> pri, text |-> text, host |-> host, long |-> text = "long"]

All == <<W(<<"*">>, "*")>>
AllButMail == <<S(<<"*">>, 1), W(<<"mail">>, "none")>>
OnlyErrors == <<[S(<<"mail", "user">>, 1) EXCEPT !.excl = TRUE], [S(<<"mail">>, 0) EXCEPT !.neg = TRUE], S(<<"**">>, 0)>>

MCConfs == {
  <<L(All, "PIPE", "log"), L(AllButMail, "FORW", "host")>>,
  <<L(OnlyErrors, "TTY", "tty"), L(Sel(0), "WALL", "users"), L(<<W(<<"user">>, "bad")>>, "FILE", "bad")>>}
HupConfs == {<<L(All, "FILE", "log")>>, <<L(All, "FILE", "log"), L(AllButMail, "FILE", "new")>>}

MCMsgs == {M("user", 1, "a", "here"), M("mail", 0, "a", "there"), M("kern", 1, "long", "here")}
OneMsg == {M("user", 1, "a", "here")}
=============================================================================
