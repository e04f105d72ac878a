-------------------------------- MODULE Ring --------------------------------
(***************************************************************************)
(* telnet's ring buffer (ring.c) as the client's output uses it: bytes are    *)
(* added, one of them may be marked as urgent, netflush encrypts what is new  *)
(* and sends some of it, and encryption is switched on and off in between.    *)
(* Pointers are offsets from bottom, so top is RingSize and NULL is none of   *)
(* them.  Bytes are numbered; each remembers the cipher that was in force     *)
(* when it was added and how often it has been encrypted since.               *)
(***************************************************************************)
EXTENDS Integers, Sequences

CONSTANTS
  RingSize,      \* size of the buffer (16384 in network.c)
  MaxBytes,      \* bytes that are added
  MaxMarks,      \* urgent marks
  MaxToggles     \* changes of encryption

ASSUME RingAssumption == RingSize \in Nat \ {0} /\ MaxBytes \in Nat /\ MaxMarks \in Nat /\ MaxToggles \in Nat

VARIABLES
  ring, buf, netlog,             \* the ring, its bytes, and the bytes that were sent
  cipher, flushing,              \* encryption is on; netflush is calling itself
  added, marked, toggles, brim   \* what has happened so far

ringvars == <<ring, buf, added, marked, cipher, toggles, flushing, brim, netlog>>

NULL == -1
Slots == 0 .. RingSize - 1
NoByte == [n |-> 0, want |-> FALSE, times |-> 0]

ring_subtract(a, b) == IF a - b >= 0 THEN a - b ELSE a - b + RingSize
(* Mutant: top itself is taken for a place in the buffer. *)
IncrementToTop(a, c) == IF a + c <= RingSize THEN a + c ELSE a + c - RingSize
ring_increment(a, c) == IF a + c < RingSize THEN a + c ELSE a + c - RingSize
(* The sign is as in the source: below bottom the result is below it too. *)
ring_decrement(a, c) == IF a - c >= 0 THEN a - c ELSE a - c - RingSize

(* The two times of the ring's clock matter only for which is the later. *)
ring_init == [supply |-> 0, consume |-> 0, mark |-> NULL, clearto |-> NULL, later |-> "consume"]
ring_empty(r) == r.consume = r.supply /\ r.later = "consume"
ring_full(r) == r.consume = r.supply /\ r.later = "supply"

ring_mark(r) == [r EXCEPT !.mark = ring_decrement(r.supply, 1)]
ring_at_mark(r) == r.mark = r.consume
ring_supplied(r, count) == [r EXCEPT !.supply = ring_increment(@, count), !.later = "supply"]

(* Mutant: the mark survives the byte that carries it. *)
ConsumedKeepsMark(r, count) ==
  LET q == [r EXCEPT !.clearto = IF r.consume < @ /\ @ <= r.consume + count THEN NULL ELSE @,
                     !.consume = ring_increment(@, count), !.later = "consume"]
  IN IF ring_empty(q) THEN [q EXCEPT !.consume = 0, !.supply = 0] ELSE q

(* Mutant: what is encrypted already is not forgotten when it is gone. *)
ConsumedKeepsClear(r, count) ==
  LET q == [r EXCEPT !.mark = IF @ # NULL /\ ring_subtract(@, r.consume) < count THEN NULL ELSE @,
                     !.consume = ring_increment(@, count), !.later = "consume"]
  IN IF ring_empty(q) THEN [q EXCEPT !.consume = 0, !.supply = 0] ELSE q

(* Called with what lies before top, so that the source's second condition on *)
(* clearto, for a count that goes beyond it, never holds.                     *)
ring_consumed(r, count) ==
  LET q == [r EXCEPT !.mark = IF @ # NULL /\ ring_subtract(@, r.consume) < count THEN NULL ELSE @,
                     !.clearto = IF r.consume < @ /\ @ <= r.consume + count THEN NULL ELSE @,
                     !.consume = ring_increment(@, count), !.later = "consume"]
  IN IF count = 0 THEN r
     ELSE IF ring_empty(q) THEN [q EXCEPT !.consume = 0, !.supply = 0] ELSE q

ring_empty_count(r) == IF ring_empty(r) THEN RingSize ELSE ring_subtract(r.consume, r.supply)

(* Mutant: the mark is not a limit. *)
FullPastMark(r) ==
  IF r.supply < r.consume \/ ring_full(r) THEN RingSize - r.consume ELSE ring_subtract(r.supply, r.consume)

ring_full_consecutive(r) ==
  IF r.mark = NULL \/ r.mark = r.consume
  THEN IF r.supply < r.consume \/ ring_full(r) THEN RingSize - r.consume ELSE ring_subtract(r.supply, r.consume)
  ELSE IF r.mark < r.consume THEN RingSize - r.consume ELSE r.mark - r.consume

(* The slots that ring_encrypt hands to the encryption routine. *)
ToEncrypt(r) ==
  LET c == IF r.clearto = NULL THEN r.consume ELSE r.clearto
  IN IF ring_empty(r) \/ r.clearto = r.supply THEN {}
     ELSE IF r.supply <= c THEN c .. RingSize - 1 \cup 0 .. r.supply - 1 ELSE c .. r.supply - 1

ring_clearto(r) == [r EXCEPT !.clearto = IF ring_empty(r) THEN NULL ELSE r.supply]

(* net_encrypt, with ring_encrypt and ring_clearto, on a ring and its bytes. *)
Encrypted(s) ==
  [r |-> IF ToEncrypt(s.r) = {} THEN s.r ELSE [s.r EXCEPT !.clearto = s.r.supply],
   b |-> [i \in Slots |-> IF i \in ToEncrypt(s.r) THEN [s.b[i] EXCEPT !.times = @ + 1] ELSE s.b[i]]]
net_encrypt(s) == IF cipher THEN Encrypted(s) ELSE [s EXCEPT !.r = ring_clearto(@)]

State == [r |-> ring, b |-> buf]
NETADD(s, n) ==
  [r |-> ring_supplied(s.r, 1), b |-> [s.b EXCEPT ![s.r.supply] = [n |-> n, want |-> cipher, times |-> 0]]]
NETROOM == ring_empty_count(ring)
Sent(c, oob) == [n |-> c.n, want |-> c.want, times |-> c.times, oob |-> oob]

RingInit ==
  /\ ring = ring_init /\ buf = [i \in Slots |-> NoByte] /\ added = 0 /\ marked = <<>> /\ cipher = FALSE
  /\ toggles = 0 /\ flushing = FALSE /\ brim = FALSE /\ netlog = <<>>

(* brim remembers that the ring was once filled to the last byte with nothing *)
(* of it encrypted, so that clearto and supply were the same.                 *)
Holds(s, n) ==
  ring' = s.r /\ buf' = s.b /\ added' = added + n /\ brim' = (brim \/ (ring_full(s.r) /\ s.r.clearto = s.r.supply))

(* telsend: one byte of the user, or a pair such as IAC IAC. *)
telsend ==
  /\ ~flushing /\ NETROOM > 2
  /\ \/ added + 1 <= MaxBytes /\ Holds(NETADD(State, added + 1), 1)
     \/ added + 2 <= MaxBytes /\ Holds(NETADD(NETADD(State, added + 1), added + 2), 2)
  /\ UNCHANGED <<marked, cipher, toggles, flushing, netlog>>

(* dosynch: the byte before DM is the urgent one.  The code does not look for  *)
(* room; the instances do, for without it the bytes overwrite others.         *)
dosynch ==
  /\ ~flushing /\ NETROOM >= 2 /\ added + 2 <= MaxBytes /\ Len(marked) < MaxMarks
  /\ LET s == NETADD(State, added + 1)
     IN Holds(NETADD([s EXCEPT !.r = ring_mark(@)], added + 2), 2)
  /\ marked' = Append(marked, [n |-> added + 1, wrapped |-> ring_increment(ring.supply, 1) = 0])
  /\ UNCHANGED <<cipher, toggles, flushing, netlog>>

(* encrypt_start_output and encrypt_send_end: the message in the old cipher,  *)
(* net_encrypt, and then the new one.                                         *)
Toggle ==
  /\ ~flushing /\ toggles < MaxToggles /\ added < MaxBytes /\ NETROOM > 1
  /\ Holds(net_encrypt(NETADD(State, added + 1)), 1) /\ cipher' = ~cipher /\ toggles' = toggles + 1
  /\ UNCHANGED <<marked, flushing, netlog>>

(* netflush: send takes what it likes of the bytes before the mark, or the    *)
(* marked byte alone; when it took them all, netflush calls itself.           *)
netflush(m) ==
  LET s == IF cipher THEN Encrypted(State) ELSE State
      n == ring_full_consecutive(s.r)
      oob == ring_at_mark(s.r)
      r == ring_consumed(s.r, m)
  IN /\ n > 0 /\ m \in 0 .. (IF oob THEN 1 ELSE n)
     /\ ring' = r /\ buf' = s.b
     /\ netlog' = netlog \o [i \in 1 .. m |-> Sent(s.b[s.r.consume + i - 1], oob)]
     /\ flushing' = (m = n /\ ring_full_consecutive(r) > 0)
     /\ UNCHANGED <<added, marked, cipher, toggles, brim>>

FlushSome == \E m \in 0 .. RingSize : netflush(m)
FlushOn == \E m \in 1 .. RingSize : netflush(m)

RingNext == telsend \/ dosynch \/ Toggle \/ FlushSome

(* The connection takes bytes again after a while. *)
RingFairness == WF_ringvars(FlushOn)
RingSpec == RingInit /\ [][RingNext]_ringvars /\ RingFairness

----------------------------------------------------------------------------
(* Each value is of its type; the mark may be the value below bottom that     *)
(* ring_decrement gives when supply has just gone back to bottom.             *)
RingTypeOK ==
  /\ ring.supply \in Slots /\ ring.consume \in Slots /\ ring.clearto \in Slots \cup {NULL}
  /\ ring.mark \in Slots \cup {NULL, ring_decrement(0, 1)} /\ added \in 0 .. MaxBytes

(* The bytes go out in the order they were added, none twice and none left    *)
(* out, each under the cipher that was in force when it was added; unless the *)
(* ring was filled to the brim, which ring_encrypt takes for nothing to do.   *)
RingFaithful ==
  ~brim =>
    \A i \in DOMAIN netlog :
      netlog[i].n = i /\ netlog[i].times = (IF netlog[i].want THEN 1 ELSE 0)

(* A byte is sent as urgent only if it was marked, and a marked byte is sent  *)
(* so, unless another was marked before it went out or the mark was set when  *)
(* supply had just gone back to bottom.                                       *)
RingUrgent ==
  /\ \A i \in DOMAIN netlog : netlog[i].oob => \E k \in DOMAIN marked : marked[k].n = i
  /\ \A k \in DOMAIN marked :
       marked[k].n <= Len(netlog) /\ k = Len(marked) /\ ~marked[k].wrapped => netlog[marked[k].n].oob

(* Every byte is sent in the end. *)
RingDrains == []<>(Len(netlog) = added)

(* Each byte leaves once, in order, under the cipher it was written for, and    *)
(* the urgent mark with its byte.                                               *)
RingSafe == RingTypeOK /\ RingFaithful /\ RingUrgent
=============================================================================
