------------------------------ MODULE TftpSubs ------------------------------
(***************************************************************************)
(* libinetutils/tftpsubs.c: the two buffers behind a tftp transfer, with   *)
(* read-ahead in the sending program, write-behind in the receiving one,   *)
(* and the netascii conversion of both.  The wire between them hands over  *)
(* every block once and in order, which is what module Tftp establishes.   *)
(***************************************************************************)
EXTENDS Integers, Sequences, SequencesExt

CONSTANTS SEGSIZE,   \* bytes of a full block (512 in arpa/tftp.h)
          MaxFile    \* bound: bytes of the file transferred

ASSUME SubsAssumption == SEGSIZE \in Nat \ {0} /\ MaxFile \in Nat

Bytes == {"lf", "cr", "nul", "x"}
BF_ALLOC == -3
BF_FREE  == -2

VARIABLES
  file, convert,             \* the file sent, and whether the mode is netascii
  rbfs, rnext, rcur,         \* the sender's bfs, nextone and current
  newline, rprev, rest,      \* its conversion flags; the unread rest of file
  wire,                      \* blocks sent, oldest first
  got,                       \* number of blocks the receiver has taken
  wbfs, wnext, wcur,         \* the receiver's bfs, nextone and current
  wprev, out                 \* its conversion flag; the file it writes

rvars == <<rbfs, rnext, rcur, newline, rprev, rest>>
wvars == <<wbfs, wnext, wcur, wprev, out>>
vars == <<file, convert, rvars, wire, got, wvars>>

\* rw_init (x)
Buffers == [i \in {0, 1} |-> [counter |-> IF i = 0 THEN BF_ALLOC ELSE BF_FREE,
                              data |-> <<>>]]

Init ==
  /\ file \in UNION {[1..n -> Bytes] : n \in 0..MaxFile}
  /\ convert \in BOOLEAN
  /\ rbfs = Buffers /\ rnext = 1 /\ rcur = 0
  /\ newline = FALSE /\ rprev = "none" /\ rest = file
  /\ wire = <<>> /\ got = 0
  /\ wbfs = Buffers /\ wnext = 0 /\ wcur = 0 /\ wprev = "none" /\ out = <<>>

-----------------------------------------------------------------------------
(* The sender.                                                             *)

\* One turn of read_ahead's loop: complete an expansion, or read a byte.
FillByte(b) ==
  CASE b.newline ->
         [b EXCEPT !.newline = FALSE,
                   !.data = Append(@, IF b.prev = "lf" THEN "lf" ELSE "nul")]
    [] ~b.newline /\ b.rest = <<>> -> b
    [] OTHER ->
         LET c == Head(b.rest)
             special == c \in {"lf", "cr"}
         IN [data |-> Append(b.data, IF special THEN "cr" ELSE c),
             newline |-> special,
             prev |-> IF special THEN c ELSE b.prev,
             rest |-> Tail(b.rest)]

\* Mutant: the expansion of a newline is dropped at the end of a buffer.
FillAscii_Boundary(b) ==
  [FoldLeft(LAMBDA acc, i : FillByte(acc), b, [i \in 1..SEGSIZE |-> i])
     EXCEPT !.newline = FALSE]

FillAscii(b) == FoldLeft(LAMBDA acc, i : FillByte(acc), b, [i \in 1..SEGSIZE |-> i])

FillOctet(b) ==
  LET n == IF Len(b.rest) < SEGSIZE THEN Len(b.rest) ELSE SEGSIZE
  IN [b EXCEPT !.data = SubSeq(b.rest, 1, n),
               !.rest = SubSeq(b.rest, n + 1, Len(b.rest))]

Sender == [bfs |-> rbfs, next |-> rnext, newline |-> newline, prev |-> rprev,
           rest |-> rest]

\* Fill the next buffer r.next of sender r, whatever it holds.
FillNext(r) ==
  LET blank == [data |-> <<>>, newline |-> r.newline, prev |-> r.prev,
                rest |-> r.rest]
      b == IF convert THEN FillAscii(blank) ELSE FillOctet(blank)
  IN [bfs |-> [r.bfs EXCEPT ![r.next] = [counter |-> Len(b.data),
                                         data |-> b.data]],
      next |-> 1 - r.next, newline |-> b.newline, prev |-> b.prev,
      rest |-> b.rest]

\* Mutant: the buffer is filled even if it is still in use.
read_ahead_Busy(r) == FillNext(r)

\* read_ahead: nothing to do unless the next buffer is free
read_ahead(r) == IF r.bfs[r.next].counter # BF_FREE THEN r ELSE FillNext(r)

Becomes(r) ==
  /\ rbfs' = r.bfs /\ rnext' = r.next /\ newline' = r.newline
  /\ rprev' = r.prev /\ rest' = r.rest

\* do ... while (size == SEGSIZE)
MoreToSend == wire # <<>> => Len(Last(wire)) = SEGSIZE

\* readit: the buffer acknowledged is freed, and the other one is sent, filled
\* now if read_ahead has not done so; read_ahead follows the send.
NextBlock ==
  \E freed \in {[Sender EXCEPT !.bfs[rcur].counter = BF_FREE]} :
  \E ready \in {IF freed.bfs[1 - rcur].counter = BF_FREE
                  THEN read_ahead(freed) ELSE freed} :
    /\ rcur' = 1 - rcur
    /\ wire' = Append(wire, ready.bfs[1 - rcur].data)
    /\ \E after \in {read_ahead(ready)} : Becomes(after)
    /\ UNCHANGED <<file, convert, got, wvars>>

\* Mutant: sending stops at the end of the file, without a short block.
readit_AtEof == (wire # <<>> => rest # <<>> \/ newline) /\ NextBlock

readit == MoreToSend /\ NextBlock

\* The read_ahead that follows the send of a WRQ or of a retransmission
Resend ==
  /\ \E after \in {read_ahead(Sender)} : Becomes(after)
  /\ UNCHANGED <<file, convert, rcur, wire, got, wvars>>

-----------------------------------------------------------------------------
(* The receiver.                                                           *)

\* One turn of write_behind's loop: fseek (file, -1, 1) puts a newline on top
\* of the carriage return before it.
PutByte(w, c) ==
  [prev |-> c,
   out |-> CASE w.prev = "cr" /\ c = "lf" ->
                  Append(SubSeq(w.out, 1, Len(w.out) - 1), c)
             [] w.prev = "cr" /\ c = "nul" -> w.out
             [] OTHER -> Append(w.out, c)]

Receiver == [bfs |-> wbfs, next |-> wnext, prev |-> wprev, out |-> out]

\* Flush the buffer b = w.bfs[w.next], the previous byte being prev.
Flush(w, b, prev) ==
  LET flushed == IF convert
                   THEN FoldLeft(PutByte, [prev |-> prev, out |-> w.out], b.data)
                   ELSE [prev |-> prev, out |-> w.out \o b.data]
  IN IF b.counter < -1 THEN w
     ELSE [bfs |-> [w.bfs EXCEPT ![w.next].counter = BF_FREE],
           next |-> 1 - w.next, prev |-> flushed.prev, out |-> flushed.out]

\* Mutant: prevchar does not survive from one buffer to the next.
write_behind_Prev(w) == Flush(w, w.bfs[w.next], "none")

\* write_behind: flush the next buffer, if it holds anything
write_behind(w) == Flush(w, w.bfs[w.next], w.prev)

\* writeit: hand over the received data and take the other buffer
writeit(w, cur, data) ==
  LET full == [w EXCEPT !.bfs[cur] = [counter |-> Len(data), data |-> data]]
      ready == IF full.bfs[1 - cur].counter # BF_FREE
                 THEN write_behind(full) ELSE full
  IN [ready EXCEPT !.bfs[1 - cur].counter = BF_ALLOC]

WriterBecomes(w) ==
  wbfs' = w.bfs /\ wnext' = w.next /\ wprev' = w.prev /\ out' = w.out

\* A block arrives: writeit, and a write_behind after its acknowledgement (of
\* the last block: before it, in tftpd).
ReceiveBlock ==
  /\ got < Len(wire)
  /\ got' = got + 1 /\ wcur' = 1 - wcur
  /\ \E w \in {writeit(Receiver, wcur, wire[got + 1])} :
     \E after \in {write_behind(w)} : WriterBecomes(after)
  /\ UNCHANGED <<file, convert, rvars, wire>>

Next == readit \/ Resend \/ ReceiveBlock

Spec == Init /\ [][Next]_vars

FairSpec == Spec /\ WF_vars(readit) /\ WF_vars(ReceiveBlock)

-----------------------------------------------------------------------------
(* Properties.                                                             *)

\* What RFC 764's netascii makes of a file: CR LF for a newline and CR NUL for
\* a carriage return.
NetAscii(f) ==
  FlattenSeq([i \in 1..Len(f) |-> CASE f[i] = "lf" -> <<"cr", "lf">>
                                    [] f[i] = "cr" -> <<"cr", "nul">>
                                    [] OTHER -> <<f[i]>>])

Encoded == IF convert THEN NetAscii(file) ELSE file

\* The blocks sent spell the encoded file: no byte is lost, repeated or left
\* unexpanded where a buffer ends, and the short block comes after its end.
SentIsEncoding ==
  /\ IsPrefix(FlattenSeq(wire), Encoded)
  /\ wire # <<>> /\ Len(Last(wire)) < SEGSIZE => FlattenSeq(wire) = Encoded

\* The buffer that may have to be sent again keeps its bytes until the next
\* readit: read_ahead only ever touches the other one.
RetransmitStable == [][rcur' = rcur => rbfs'[rcur] = rbfs[rcur]]_vars

\* When the last, short block was taken the file written is the file sent.
RoundTrip == got > 0 /\ Len(wire[got]) < SEGSIZE => out = file

\* The transfer of every file comes to its short block, also of a file whose
\* encoding fills its last block exactly.
Completes == <>(got > 0 /\ got = Len(wire) /\ Len(Last(wire)) < SEGSIZE)

(* The packets are the encoding of the file, and the file arrives unchanged.    *)
SameBytes == SentIsEncoding /\ RoundTrip
=============================================================================
