------------------------------- MODULE MCFtp -------------------------------
(* Small instances of Ftp. *)
EXTENDS Ftp

f == <<"f", 0>>
g == <<"g", 0>>
f1 == <<"f", 1>>
g1 == <<"g", 1>>

U(op) == [op |-> op, f |-> f, g |-> g, n |-> 0, word |-> ""]

MCRemote == (f :> <<"x", "LF">>) @@ (g :> NoFile) @@ (f1 :> NoFile) @@ (g1 :> NoFile)
MCLocal  == (f :> <<"LF">>) @@ (g :> <<"y", "CR", "LF">>) @@ (f1 :> NoFile) @@ (g1 :> NoFile)

Ascii == [U("type") EXCEPT !.word = "A"]
Transfers == {U("get"), U("put"), U("append"), U("dir"), U("nlist")}
Others ==
  {U(op) : op \in {"cd", "cdup", "pwd", "mkdir", "rmdir", "delete", "rename", "rhelp", "rstatus", "system", "size",
                   "modtime", "chmod", "umask", "idle", "account", "open", "close", "quit", "newer", "reget",
                   "reset", "mget", "mput", "mdelete", "sendport"}}
  \cup {[U("rstatus") EXCEPT !.f = NoName], [U("user") EXCEPT !.word = "ftp"], [U("user") EXCEPT !.word = "nobody"],
        [U("quote") EXCEPT !.word = "?"], [U("type") EXCEPT !.word = "E"], [U("quote") EXCEPT !.word = "NOOP"]}

MCScripts ==
  {<<U("open")>> \o p \o <<x, y>> : p \in {<<>>, <<Ascii>>, <<U("passive")>>}, x \in Transfers, y \in Transfers}
  \cup {<<U("open"), x, y>> : x \in Others, y \in {U("get"), U("put")}}
  \cup {<<U("open"), U(x), U(y), U("pwd")>> : x \in {"sunique", "runique"}, y \in {"get", "put", "mput", "mget"}}
  \cup {<<U("open"), p, [U("restart") EXCEPT !.n = 1], U(y), U("pwd")>> : p \in {Ascii, U("pwd")}, y \in {"get", "put"}}
  \cup {<<U("open"), U("put"), U("close"), U("open"), x>> : x \in {U("dir"), U("get")}}
  \cup {<<U("open"), [U("user") EXCEPT !.word = "nobody"], x>> : x \in Transfers}
=============================================================================
