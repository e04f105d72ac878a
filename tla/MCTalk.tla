------------------------------- MODULE MCTalk -------------------------------
(* Small instances of Talk. *)
EXTENDS Talk

\* Three users of two machines: two with the same name may both call ann.
MCUsers == {"ann", "bob", "bob1"}
MCMachines == {"m1", "m2"}
MCHost == [ann |-> "m1", bob |-> "m2", bob1 |-> "m1"]
MCName == [u \in MCUsers |-> IF u = "bob1" THEN "bob" ELSE u]
MCCallees == [ann |-> {"bob"}, bob |-> {"ann"}, bob1 |-> {"ann"}]

\* The two bobs' processes have the same pids.
MCPid == [u \in MCUsers |-> [n \in 1..MaxCalls |-> n]]
=============================================================================
