------------------------------ MODULE MCInetd ------------------------------
(* Configuration files for Inetd.                                          *)
EXTENDS Inetd

L(s, w, m) == [name |-> s, wait |-> w, max |-> m]

\* A wait service and a limited nowait service; in their place come an internal
\* service and, in a second file, one of tcpmux; or the former becomes a nowait
\* service and the latter is dropped.
Reloads ==
  { << << L("finger", 0, 1), L("talk", 1, 0) >> >>,
    << << L("time", 0, 0) >>, << L("mux", 0, 0) >> >>,
    << << L("talk", 0, 0) >> >> }
=============================================================================
