--------------------------- MODULE CipherChannel ---------------------------
(***************************************************************************)
(* What the encryption option promises for one direction of a connection.    *)
(* The writer changes cipher only to plain text or to a type on whose key    *)
(* and initial vector both ends agree, and puts a mark in the stream where   *)
(* it does; the reader changes to that same cipher when it comes to the      *)
(* mark.  Nothing is promised once a user has forced the choice (forced).    *)
(***************************************************************************)
EXTENDS Sequences, Naturals

CONSTANT Ciphers       \* the types; "clear" is plain text

VARIABLES out, in, marks, agreed, forced

chvars == <<out, in, marks, agreed, forced>>

ChannelInit ==
  out = "clear" /\ in = "clear" /\ marks = <<>> /\ agreed = {} /\ forced \in BOOLEAN

Agree == agreed' \in SUBSET Ciphers /\ agreed \subseteq agreed' /\ UNCHANGED <<out, in, marks>>

SwitchTo(c) ==
  /\ c \in agreed \cup {"clear"}
  /\ out' = c /\ marks' = Append(marks, c) /\ UNCHANGED <<in, agreed>>

TakeMark == marks # <<>> /\ in' = Head(marks) /\ marks' = Tail(marks) /\ UNCHANGED <<out, agreed>>

(* A user's choice, or a step after one: anything may happen. *)
Forced == forced'

ChannelNext ==
  \/ Forced
  \/ ~forced /\ ~forced' /\ (Agree \/ TakeMark \/ \E c \in agreed \cup {"clear"} : SwitchTo(c))

ChannelSpec == ChannelInit /\ [][ChannelNext]_chvars

(* The reader has the cipher of the last mark it has read, so that it is in   *)
(* step with the writer as soon as it has read everything; nothing is said of *)
(* a channel once it is forced.                                               *)
Follows == ~forced => IF marks = <<>> THEN in = out ELSE marks[Len(marks)] = out

(* Only agreed types are in use, at either end or on their way. *)
OnlyAgreed ==
  ~forced => /\ out \in agreed \cup {"clear"} /\ in \in agreed \cup {"clear"}
             /\ \A i \in 1 .. Len(marks) : marks[i] \in agreed \cup {"clear"}
=============================================================================
