---------------------------- MODULE TelnetProofs ----------------------------
(***************************************************************************)
(* Proofs about modules Ring, TelnetOption and CipherChannel.  First, the  *)
(* bytes leave a ring of any size in order, under their cipher, and the    *)
(* urgent one as such.  Then, two ends that accept an option agree on it   *)
(* whenever no command is in flight, for any number of requests.  Last,    *)
(* for every set of ciphers, the reader of an encrypted direction follows  *)
(* its writer.                                                             *)
(***************************************************************************)
EXTENDS TelnetOption, CipherChannel, Ring, SequenceTheorems, TLAPS

Wrapped == ring_decrement(0, 1)
Byte == [n : Nat, want : BOOLEAN, times : Nat]
MarkRec == [n : Nat \ {0}, wrapped : BOOLEAN]
RingRec ==
  [supply : Slots, consume : Slots, mark : Slots \cup {NULL, Wrapped}, clearto : Slots \cup {NULL},
   later : {"supply", "consume"}]

(* The place of a slot in the queue; n is the number of bytes in the ring. *)
Place(r, i) == ring_subtract(i, r.consume)

Shape(r, n) ==
  /\ r \in RingRec /\ n \in 0 .. RingSize /\ r.supply = ring_increment(r.consume, n)
  /\ n = 0 => r.later = "consume"
  /\ n = RingSize => r.later = "supply"

(* base bytes were sent before those in the ring. *)
Queue(r, b, n, base) == \A i \in Slots : Place(r, i) < n => b[i].n = base + Place(r, i) + 1

(* How many of the bytes in the ring clearto stands for, if it is up to date. *)
Done(r) ==
  IF r.clearto = NULL THEN 0 ELSE IF ring_full(r) /\ r.clearto = r.supply THEN RingSize ELSE Place(r, r.clearto)

Right(c) == c.times = IF c.want THEN 1 ELSE 0

(* With the cipher c on, the bytes from Done on wait to be encrypted. *)
Crypt(r, b, n, c) ==
  /\ c => Done(r) <= n
  /\ \A i \in Slots : Place(r, i) < n =>
       IF c /\ Place(r, i) >= Done(r) THEN b[i].want /\ b[i].times = 0 ELSE Right(b[i])

(* The mark is at the byte that was marked last, if that is still here. *)
MarkTrue(r, n, base, mk) ==
  /\ r.mark \in Slots => Place(r, r.mark) < n /\ mk # <<>> /\ mk[Len(mk)].n = base + Place(r, r.mark) + 1
  /\ r.mark = Wrapped => r.consume + n >= RingSize
  /\ mk # <<>> /\ ~mk[Len(mk)].wrapped /\ mk[Len(mk)].n > base => r.mark \in Slots

Fill == added - Len(netlog)
LogTrue(log, b) == \A i \in DOMAIN log : log[i].n = i /\ (~b => Right(log[i]))

RingType ==
  /\ buf \in [Slots -> Byte] /\ cipher \in BOOLEAN /\ brim \in BOOLEAN /\ added \in 0 .. MaxBytes
  /\ marked \in Seq(MarkRec)
  /\ netlog \in Seq([n : Nat, want : BOOLEAN, times : Nat, oob : BOOLEAN])

(* The inductive invariant. *)
RingInv ==
  /\ RingType /\ Shape(ring, Fill) /\ Queue(ring, buf, Fill, Len(netlog))
  /\ ~brim => Crypt(ring, buf, Fill, cipher)
  /\ MarkTrue(ring, Fill, Len(netlog), marked)
  /\ LogTrue(netlog, brim) /\ RingUrgent

(* Places in the queue are places in the buffer, one to one. *)
LEMMA OffType ==
  ASSUME NEW r \in RingRec, NEW i \in Slots
  PROVE  Place(r, i) \in Slots /\ (Place(r, i) = IF i >= r.consume THEN i - r.consume ELSE i - r.consume + RingSize)
  BY RingAssumption DEF Place, ring_subtract, RingRec, Slots

LEMMA OffOne ==
  ASSUME NEW r \in RingRec, NEW i \in Slots, NEW j \in Slots, Place(r, i) = Place(r, j)
  PROVE  i = j
  <1>1. r.consume \in Slots
    BY DEF RingRec
  <1> QED BY <1>1, RingAssumption DEF Place, ring_subtract, Slots

(* What the byte that is added next finds: supply is the place behind the queue. *)
LEMMA SupplyPlace ==
  ASSUME NEW r, NEW n, Shape(r, n), n < RingSize
  PROVE  Place(r, r.supply) = n /\ ~ring_full(r)
  <1>1. r \in RingRec /\ n \in 0 .. RingSize /\ r.consume \in Slots /\ r.supply \in Slots
    BY DEF Shape, RingRec
  <1>2. r.supply = (IF r.consume + n < RingSize THEN r.consume + n ELSE r.consume + n - RingSize)
    BY DEF Shape, ring_increment
  <1>3. Place(r, r.supply) = n
    BY <1>1, <1>2, RingAssumption DEF Place, ring_subtract, Slots
  <1>4. n # 0 => r.supply # r.consume
    BY <1>1, <1>2, RingAssumption DEF Slots
  <1> QED BY <1>3, <1>4 DEF Shape, ring_full

(* NETADD of a byte where there is room. *)
LEMMA AddShape ==
  ASSUME NEW r, NEW n, Shape(r, n), n < RingSize
  PROVE  /\ Shape(ring_supplied(r, 1), n + 1)
         /\ ring_supplied(r, 1).consume = r.consume /\ ring_supplied(r, 1).mark = r.mark
         /\ ring_supplied(r, 1).clearto = r.clearto
         /\ ring_supplied(r, 1).supply = ring_increment(r.supply, 1)
  <1> DEFINE q == ring_supplied(r, 1)
             s == ring_increment(r.supply, 1)
  <1>1. r \in RingRec /\ n \in 0 .. RingSize /\ r.consume \in Slots /\ r.supply \in Slots
    BY DEF Shape, RingRec
  <1>2. r.supply = (IF r.consume + n < RingSize THEN r.consume + n ELSE r.consume + n - RingSize)
    BY DEF Shape, ring_increment
  <1>3. s \in Slots /\ s = ring_increment(r.consume, n + 1)
    BY <1>1, <1>2, RingAssumption DEF ring_increment, Slots
  <1>4. q = [r EXCEPT !.supply = s, !.later = "supply"]
    BY DEF ring_supplied
  <1> HIDE DEF s, q
  <1>5. /\ q \in RingRec /\ q.consume = r.consume /\ q.mark = r.mark /\ q.clearto = r.clearto
        /\ q.supply = s /\ q.later = "supply"
    <2>1. s \in Slots
      BY <1>3
    <2> HIDE DEF Slots, Wrapped
    <2> QED BY <1>1, <1>4, <2>1 DEF RingRec
  <1>6. n + 1 \in 0 .. RingSize /\ n + 1 # 0
    BY <1>1, RingAssumption
  <1>7. Shape(q, n + 1)
    BY <1>3, <1>5, <1>6 DEF Shape
  <1> QED BY <1>5, <1>7 DEF q, s

LEMMA AddQueue ==
  ASSUME NEW r, NEW n, Shape(r, n), n < RingSize, NEW b \in [Slots -> Byte], NEW base \in Nat,
         Queue(r, b, n, base), NEW c \in Byte, c.n = base + n + 1,
         NEW b2, b2 = [b EXCEPT ![r.supply] = c]
  PROVE  b2 \in [Slots -> Byte] /\ Queue(ring_supplied(r, 1), b2, n + 1, base)
  <1> DEFINE q == ring_supplied(r, 1)
  <1>1. r \in RingRec /\ n \in 0 .. RingSize /\ r.supply \in Slots
    BY DEF Shape, RingRec
  <1>2. q \in RingRec /\ \A i \in Slots : Place(q, i) = Place(r, i)
    BY AddShape DEF Shape, Place
  <1>3. b2 \in [Slots -> Byte] /\ b2[r.supply] = c /\ \A i \in Slots : i # r.supply => b2[i] = b[i]
    BY <1>1
  <1> HIDE DEF q
  <1>4. ASSUME NEW i \in Slots, Place(q, i) < n + 1
        PROVE  b2[i].n = base + Place(q, i) + 1
    <2>1. Place(r, r.supply) = n
      BY SupplyPlace
    <2>2. Place(r, i) = n => i = r.supply
      BY <1>1, <2>1, OffOne
    <2>3. CASE i = r.supply
      BY <1>2, <1>3, <2>1, <2>3
    <2>4. CASE i # r.supply
      <3>1. Place(r, i) < n
        BY <1>1, <1>2, <1>4, <2>2, <2>4, OffType DEF Slots
      <3> QED BY <1>2, <1>3, <2>4, <3>1 DEF Queue
    <2> QED BY <2>3, <2>4
  <1> QED BY <1>3, <1>4 DEF Queue, q

LEMMA AddCrypt ==
  ASSUME NEW r, NEW n, Shape(r, n), n < RingSize, NEW b \in [Slots -> Byte],
         NEW e \in BOOLEAN, Crypt(r, b, n, e), NEW c \in Byte, c.want = e, c.times = 0,
         NEW b2, b2 = [b EXCEPT ![r.supply] = c],
         ~(ring_full(ring_supplied(r, 1)) /\ r.clearto = ring_supplied(r, 1).supply)
  PROVE  Crypt(ring_supplied(r, 1), b2, n + 1, e)
  <1> DEFINE q == ring_supplied(r, 1)
  <1>1. r \in RingRec /\ n \in 0 .. RingSize /\ r.supply \in Slots
    BY DEF Shape, RingRec
  <1>2. q.clearto = r.clearto /\ \A i : Place(q, i) = Place(r, i)
    BY AddShape DEF Place
  <1>3. Done(q) = Done(r)
    BY <1>2, SupplyPlace DEF Done
  <1>4. b2[r.supply] = c /\ \A i \in Slots : i # r.supply => b2[i] = b[i]
    BY <1>1
  <1> HIDE DEF q
  <1>5. e => Done(r) \in 0 .. n
    <2>1. r.clearto \in Slots \cup {NULL}
      BY <1>1 DEF RingRec
    <2>2. r.clearto \in Slots => r.clearto # NULL /\ Place(r, r.clearto) \in Slots
      BY <1>1, OffType DEF Slots, NULL
    <2>3. Done(r) \in Nat
      BY <2>1, <2>2, RingAssumption DEF Done, Slots
    <2> QED BY <1>1, <2>3 DEF Crypt
  <1>6. ASSUME NEW i \in Slots, Place(q, i) < n + 1
        PROVE  IF e /\ Place(q, i) >= Done(q) THEN b2[i].want /\ b2[i].times = 0 ELSE Right(b2[i])
    <2>1. Place(r, r.supply) = n
      BY SupplyPlace
    <2>2. Place(r, i) = n => i = r.supply
      BY <1>1, <2>1, OffOne
    <2>3. CASE i = r.supply
      <3>1. b2[i] = c /\ Place(q, i) = n
        BY <1>2, <1>4, <2>1, <2>3
      <3>2. CASE e
        <4>1. Place(q, i) >= Done(q)
          BY <1>1, <1>3, <1>5, <3>1, <3>2
        <4> QED BY <3>1, <3>2, <4>1
      <3>3. CASE ~e
        BY <3>1, <3>3 DEF Right
      <3> QED BY <3>2, <3>3
    <2>4. CASE i # r.supply
      <3>1. Place(r, i) < n
        BY <1>1, <1>2, <1>6, <2>2, <2>4, OffType DEF Slots
      <3> QED BY <1>2, <1>3, <1>4, <2>4, <3>1 DEF Crypt
    <2> QED BY <2>3, <2>4
  <1>7. e => Done(q) <= n + 1
    BY <1>1, <1>3, <1>5
  <1> QED BY <1>6, <1>7 DEF Crypt, q

LEMMA AddMark ==
  ASSUME NEW r, NEW n, Shape(r, n), n < RingSize, NEW base \in Nat, NEW mk, MarkTrue(r, n, base, mk)
  PROVE  MarkTrue(ring_supplied(r, 1), n + 1, base, mk)
  <1> DEFINE q == ring_supplied(r, 1)
  <1>1. r \in RingRec /\ n \in 0 .. RingSize /\ r.consume \in Slots
    BY DEF Shape, RingRec
  <1>2. q.mark = r.mark /\ q.consume = r.consume /\ Place(q, q.mark) = Place(r, r.mark)
    BY AddShape DEF Place
  <1> HIDE DEF q
  <1>3. r.mark \in Slots => Place(r, r.mark) \in Slots
    BY <1>1, OffType
  <1>4. r.mark \in Slots => Place(r, r.mark) < n + 1
    BY <1>1, <1>3 DEF MarkTrue, Slots
  <1>5. r.mark = Wrapped => r.consume + (n + 1) >= RingSize
    BY <1>1, RingAssumption DEF MarkTrue, Slots
  <1> QED BY <1>2, <1>4, <1>5 DEF MarkTrue, q

(* ring_encrypt finds the bytes that are not done yet. *)
LEMMA EncryptSlots ==
  ASSUME NEW r, NEW n, Shape(r, n), n > 0, Done(r) <= n, NEW i \in Slots
  PROVE  /\ i \in ToEncrypt(r) <=> (Place(r, i) < n /\ Place(r, i) >= Done(r))
         /\ ToEncrypt(r) = {} => r.clearto = r.supply
  <1>1. /\ r \in RingRec /\ n \in 1 .. RingSize /\ r.consume \in Slots /\ r.supply \in Slots
        /\ r.clearto \in Slots \cup {NULL}
    BY RingAssumption DEF Shape, RingRec
  <1>2. r.supply = (IF r.consume + n < RingSize THEN r.consume + n ELSE r.consume + n - RingSize)
    BY DEF Shape, ring_increment
  <1>3. ~ring_empty(r)
    <2>1. CASE n = RingSize
      BY <2>1, RingAssumption DEF Shape, ring_empty
    <2>2. CASE n # RingSize
      BY <1>1, <1>2, <2>2, RingAssumption DEF ring_empty, Slots
    <2> QED BY <2>1, <2>2
  <1>4. ring_full(r) <=> n = RingSize
    <2>1. CASE n = RingSize
      <3>1. r.supply = r.consume
        BY <1>1, <1>2, <2>1, RingAssumption DEF Slots
      <3> QED BY <2>1, <3>1 DEF Shape, ring_full
    <2>2. CASE n # RingSize
      BY <1>1, <1>2, <2>2, RingAssumption DEF ring_full, Slots
    <2> QED BY <2>1, <2>2
  <1>5. Place(r, i) = IF i >= r.consume THEN i - r.consume ELSE i - r.consume + RingSize
    BY <1>1, OffType
  <1>6. CASE r.clearto = r.supply
    <2>1. ToEncrypt(r) = {}
      BY <1>6 DEF ToEncrypt
    <2>2. Done(r) = n
      <3>1. CASE n = RingSize
        BY <1>1, <1>4, <1>6, <3>1 DEF Done, NULL, Slots
      <3>2. CASE n # RingSize
        <4>1. Place(r, r.supply) = n
          BY <1>1, <3>2, SupplyPlace, RingAssumption
        <4> QED BY <1>1, <1>4, <1>6, <3>2, <4>1 DEF Done, NULL, Slots
      <3> QED BY <3>1, <3>2
    <2>3. Place(r, i) \in Int
      BY <1>1, <1>5, RingAssumption DEF Slots
    <2> QED BY <1>1, <1>6, <2>1, <2>2, <2>3
  <1>7. CASE r.clearto # r.supply
    <2> DEFINE c == IF r.clearto = NULL THEN r.consume ELSE r.clearto
    <2>1. c \in Slots /\ Done(r) = IF c >= r.consume THEN c - r.consume ELSE c - r.consume + RingSize
      <3>1. CASE r.clearto = NULL
        BY <1>1, <3>1, RingAssumption DEF Done, Slots
      <3>2. CASE r.clearto # NULL
        <4>1. r.clearto \in Slots
          BY <1>1, <3>2
        <4>2. Done(r) = Place(r, r.clearto)
          BY <1>7, <3>2 DEF Done
        <4> QED BY <1>1, <3>2, <4>1, <4>2, OffType
      <3> QED BY <3>1, <3>2
    <2>2. ToEncrypt(r) = IF r.supply <= c THEN c .. RingSize - 1 \cup 0 .. r.supply - 1 ELSE c .. r.supply - 1
      BY <1>3, <1>7 DEF ToEncrypt
    <2>3. r.clearto # NULL => c # r.supply
      BY <1>7
    <2>4. c = r.supply => n = RingSize
      BY <1>1, <1>2, <1>7, RingAssumption DEF Slots
    <2> HIDE DEF c
    <2>5. i \in ToEncrypt(r) <=> (Place(r, i) < n /\ Place(r, i) >= Done(r))
      <3>1. CASE r.supply <= c
        <4>1. i \in ToEncrypt(r) <=> (i >= c \/ i < r.supply)
          BY <1>1, <2>1, <2>2, <3>1, RingAssumption DEF Slots
        <4>2. r.consume + n >= RingSize
          BY <1>1, <1>2, <2>1, <2>4, <3>1, RingAssumption DEF Slots
        <4>3. c >= r.consume
          BY <1>1, <1>2, <2>1, <2>4, <3>1, <4>2, RingAssumption DEF Slots
        <4> QED BY <1>1, <1>2, <1>5, <2>1, <3>1, <4>1, <4>2, <4>3, RingAssumption DEF Slots
      <3>2. CASE ~(r.supply <= c)
        <4>1. i \in ToEncrypt(r) <=> (i >= c /\ i < r.supply)
          BY <1>1, <2>1, <2>2, <3>2, RingAssumption DEF Slots
        <4> QED BY <1>1, <1>2, <1>5, <2>1, <3>2, <4>1, RingAssumption DEF Slots
      <3> QED BY <3>1, <3>2
    <2>6. c \in ToEncrypt(r)
      BY <1>1, <2>1, <2>2, RingAssumption DEF Slots
    <2> QED BY <2>5, <2>6
  <1> QED BY <1>6, <1>7

LEMMA EncryptClears ==
  ASSUME NEW t, NEW n, Shape(t.r, n), n > 0, Done(t.r) <= n
  PROVE  Encrypted(t).r.clearto = Encrypted(t).r.supply
  <1>1. Encrypted(t).r = (IF ToEncrypt(t.r) = {} THEN t.r ELSE [t.r EXCEPT !.clearto = t.r.supply])
    BY DEF Encrypted
  <1>2. t.r \in RingRec /\ 0 \in Slots
    BY RingAssumption DEF Shape, Slots
  <1>3. ToEncrypt(t.r) = {} => t.r.clearto = t.r.supply
    BY <1>2, EncryptSlots
  <1>4. [t.r EXCEPT !.clearto = t.r.supply].clearto = [t.r EXCEPT !.clearto = t.r.supply].supply
    BY <1>2 DEF RingRec
  <1> QED BY <1>1, <1>3, <1>4

(* After net_encrypt every byte in the ring is done. *)
LEMMA EncryptAll ==
  ASSUME NEW t, NEW n, Shape(t.r, n), n > 0, t.b \in [Slots -> Byte], NEW base \in Nat, NEW mk,
         Queue(t.r, t.b, n, base), MarkTrue(t.r, n, base, mk), NEW s, s = Encrypted(t)
  PROVE  /\ Shape(s.r, n) /\ s.b \in [Slots -> Byte] /\ Queue(s.r, s.b, n, base) /\ MarkTrue(s.r, n, base, mk)
         /\ s.r.consume = t.r.consume /\ s.r.supply = t.r.supply /\ s.r.mark = t.r.mark
         /\ Crypt(t.r, t.b, n, TRUE) => \A i \in Slots : Place(s.r, i) < n => Right(s.b[i])
  <1> DEFINE r == t.r
             b == t.b
  <1>1. s.r = (IF ToEncrypt(r) = {} THEN r ELSE [r EXCEPT !.clearto = r.supply])
    BY DEF Encrypted
  <1>2. s.b = [i \in Slots |-> IF i \in ToEncrypt(r) THEN [b[i] EXCEPT !.times = @ + 1] ELSE b[i]]
    BY DEF Encrypted
  <1>3. r \in RingRec /\ r.supply \in Slots /\ Shape(r, n) /\ b \in [Slots -> Byte]
        /\ Queue(r, b, n, base) /\ MarkTrue(r, n, base, mk)
    BY DEF Shape, RingRec
  <1> HIDE DEF r, b
  <1>4. /\ s.r \in RingRec /\ s.r.consume = r.consume /\ s.r.supply = r.supply /\ s.r.mark = r.mark
        /\ s.r.later = r.later /\ (s.r.clearto = r.supply \/ (ToEncrypt(r) = {} /\ s.r.clearto = r.clearto))
    BY <1>1, <1>3 DEF RingRec
  <1>5. \A i \in Slots : s.b[i] \in Byte /\ s.b[i].n = b[i].n /\ s.b[i].want = b[i].want
                         /\ s.b[i].times = IF i \in ToEncrypt(r) THEN b[i].times + 1 ELSE b[i].times
    <2> TAKE i \in Slots
    <2>1. b[i] \in Byte /\ b[i].times + 1 \in Nat
      BY <1>3 DEF Byte
    <2>2. s.b[i] = IF i \in ToEncrypt(r) THEN [b[i] EXCEPT !.times = b[i].times + 1] ELSE b[i]
      BY <1>2
    <2> QED BY <2>1, <2>2 DEF Byte
  <1>6. s.b \in [Slots -> Byte]
    BY <1>2, <1>5
  <1>7. Shape(s.r, n)
    BY <1>3, <1>4 DEF Shape
  <1>8. \A i : Place(s.r, i) = Place(r, i)
    BY <1>4 DEF Place
  <1>9. Queue(s.r, s.b, n, base)
    BY <1>3, <1>5, <1>8 DEF Queue
  <1>10. MarkTrue(s.r, n, base, mk)
    BY <1>3, <1>4, <1>8 DEF MarkTrue
  <1>11. ASSUME Crypt(r, b, n, TRUE)
         PROVE  \A i \in Slots : Place(s.r, i) < n => Right(s.b[i])
    <2>1. Done(r) <= n
      BY <1>11 DEF Crypt
    <2>3. ASSUME NEW i \in Slots, Place(r, i) < n
          PROVE  Right(s.b[i])
      <3>1. i \in ToEncrypt(r) <=> Place(r, i) >= Done(r)
        BY <1>3, <2>1, <2>3, EncryptSlots
      <3>2. IF Place(r, i) >= Done(r) THEN b[i].want /\ b[i].times = 0 ELSE Right(b[i])
        BY <1>11, <2>3 DEF Crypt
      <3>3. CASE Place(r, i) >= Done(r)
        <4>1. b[i].want /\ s.b[i].times = 1
          BY <1>5, <3>1, <3>2, <3>3
        <4>2. s.b[i].want
          BY <1>5, <4>1, Zenon
        <4> QED BY <4>1, <4>2 DEF Right
      <3>4. CASE ~(Place(r, i) >= Done(r))
        BY <1>5, <3>1, <3>2, <3>4 DEF Right
      <3> QED BY <3>3, <3>4
    <2> QED BY <1>8, <2>3
  <1> QED BY <1>4, <1>6, <1>7, <1>9, <1>10, <1>11 DEF r, b

(* What netflush may send at once is in the ring, before top and, unless the  *)
(* mark is at consume, before the mark.                                       *)
LEMMA Consecutive ==
  ASSUME NEW r, NEW n, Shape(r, n), NEW base, NEW mk, MarkTrue(r, n, base, mk),
         NEW f, f = ring_full_consecutive(r), f > 0
  PROVE  /\ f \in 1 .. n /\ r.consume + f <= RingSize
         /\ r.mark \in Slots /\ r.mark # r.consume => f <= Place(r, r.mark)
  <1>1. /\ r \in RingRec /\ n \in 0 .. RingSize /\ r.consume \in Slots /\ r.supply \in Slots
        /\ r.mark \in Slots \cup {NULL, Wrapped}
    BY RingAssumption DEF Shape, RingRec
  <1>2. r.supply = (IF r.consume + n < RingSize THEN r.consume + n ELSE r.consume + n - RingSize)
    BY DEF Shape, ring_increment
  <1>3. CASE r.mark = NULL \/ r.mark = r.consume
    <2>1. f = (IF r.supply < r.consume \/ ring_full(r) THEN RingSize - r.consume
               ELSE ring_subtract(r.supply, r.consume))
      BY <1>3 DEF ring_full_consecutive
    <2>2. r.mark \notin Slots \/ r.mark = r.consume
      BY <1>3 DEF NULL, Slots
    <2>3. CASE r.supply < r.consume \/ ring_full(r)
      <3>1. n # 0
        <4>1. CASE r.supply < r.consume
          BY <1>1, <1>2, <4>1, RingAssumption DEF Slots
        <4>2. CASE ring_full(r)
          BY <4>2 DEF ring_full, Shape
        <4> QED BY <2>3, <4>1, <4>2
      <3>2. r.supply <= r.consume
        BY <1>1, <2>3 DEF ring_full, Slots
      <3>3. r.consume + n >= RingSize
        BY <1>1, <1>2, <3>1, <3>2, RingAssumption DEF Slots
      <3> QED BY <1>1, <2>1, <2>2, <2>3, <3>3, RingAssumption DEF Slots
    <2>4. CASE ~(r.supply < r.consume \/ ring_full(r))
      <3>1. f = r.supply - r.consume
        BY <1>1, <2>1, <2>4 DEF ring_subtract, Slots
      <3> QED BY <1>1, <1>2, <2>2, <3>1, RingAssumption DEF Slots
    <2> QED BY <2>3, <2>4
  <1>4. CASE r.mark # NULL /\ r.mark # r.consume
    <2>1. f = (IF r.mark < r.consume THEN RingSize - r.consume ELSE r.mark - r.consume)
      BY <1>4 DEF ring_full_consecutive
    <2>2. CASE r.mark \in Slots
      <3>1. Place(r, r.mark) < n /\ (Place(r, r.mark) = IF r.mark >= r.consume THEN r.mark - r.consume ELSE r.mark - r.consume + RingSize)
        BY <1>1, <2>2, OffType DEF MarkTrue
      <3> QED BY <1>1, <1>4, <2>1, <2>2, <3>1, RingAssumption DEF Slots
    <2>3. CASE r.mark = Wrapped
      <3>1. r.consume + n >= RingSize
        BY <2>3 DEF MarkTrue
      <3>2. r.mark = -1 - RingSize
        BY <2>3, RingAssumption DEF Wrapped, ring_decrement
      <3> QED BY <1>1, <2>1, <3>1, <3>2, RingAssumption DEF Slots
    <2> QED BY <1>1, <1>4, <2>2, <2>3
  <1> QED BY <1>3, <1>4

(* The first m bytes leave: the others move up. *)
LEMMA ConsumeShape ==
  ASSUME NEW r, NEW n, Shape(r, n), NEW m \in 1 .. n, r.consume + m <= RingSize,
         NEW q, q = ring_consumed(r, m)
  PROVE  /\ Shape(q, n - m) /\ ~ring_full(q)
         /\ q.mark = (IF r.mark # NULL /\ ring_subtract(r.mark, r.consume) < m THEN NULL ELSE r.mark)
         /\ q.clearto = (IF r.consume < r.clearto /\ r.clearto <= r.consume + m THEN NULL ELSE r.clearto)
         /\ n # m => q.supply = r.supply
         /\ n = m => q.supply = 0 /\ q.consume = 0
         /\ \A i \in Slots : Place(q, i) < n - m => Place(r, i) = Place(q, i) + m
         /\ \A i \in Slots : Place(r, i) >= m /\ n # m => Place(q, i) = Place(r, i) - m
  <1>1. /\ r \in RingRec /\ n \in 0 .. RingSize /\ r.consume \in Slots /\ r.supply \in Slots
        /\ r.mark \in Slots \cup {NULL, Wrapped} /\ r.clearto \in Slots \cup {NULL} /\ m \in 1 .. RingSize /\ m # 0
    BY RingAssumption DEF Shape, RingRec
  <1>2. r.supply = (IF r.consume + n < RingSize THEN r.consume + n ELSE r.consume + n - RingSize)
    BY DEF Shape, ring_increment
  <1> DEFINE mark2 == IF r.mark # NULL /\ ring_subtract(r.mark, r.consume) < m THEN NULL ELSE r.mark
             clear2 == IF r.consume < r.clearto /\ r.clearto <= r.consume + m THEN NULL ELSE r.clearto
             cons2 == ring_increment(r.consume, m)
             r2 == [r EXCEPT !.mark = mark2, !.clearto = clear2, !.consume = cons2, !.later = "consume"]
  <1>3. cons2 \in Slots /\ cons2 = (IF r.consume + m < RingSize THEN r.consume + m ELSE 0)
    BY <1>1, RingAssumption DEF ring_increment, Slots
  <1>4. mark2 \in Slots \cup {NULL, Wrapped} /\ clear2 \in Slots \cup {NULL}
    BY <1>1
  <1>5. q = IF ring_empty(r2) THEN [r2 EXCEPT !.consume = 0, !.supply = 0] ELSE r2
    BY <1>1 DEF ring_consumed
  <1> HIDE DEF mark2, clear2, cons2
  <1>6. /\ r2 \in RingRec /\ r2.supply = r.supply /\ r2.consume = cons2 /\ r2.mark = mark2 /\ r2.clearto = clear2
        /\ r2.later = "consume"
    <2> HIDE DEF r2, Slots, Wrapped, NULL
    <2>1. r2 = [r EXCEPT !.mark = mark2, !.clearto = clear2, !.consume = cons2, !.later = "consume"]
      BY DEF r2
    <2> QED BY <1>1, <1>3, <1>4, <2>1 DEF RingRec
  <1> HIDE DEF r2
  <1>7. ring_empty(r2) <=> n = m
    BY <1>1, <1>2, <1>3, <1>6, RingAssumption DEF ring_empty, Slots
  <1>8. 0 \in Slots
    BY RingAssumption DEF Slots
  <1>9. /\ q \in RingRec /\ q.mark = mark2 /\ q.clearto = clear2 /\ q.later = "consume"
        /\ q.supply = (IF n = m THEN 0 ELSE r.supply) /\ q.consume = (IF n = m THEN 0 ELSE cons2)
    <2>1. CASE n = m
      <3> HIDE DEF Slots, Wrapped, NULL
      <3>1. q = [r2 EXCEPT !.consume = 0, !.supply = 0]
        BY <1>5, <1>7, <2>1
      <3> QED BY <1>6, <1>8, <2>1, <3>1 DEF RingRec
    <2>2. CASE n # m
      BY <1>5, <1>6, <1>7, <2>2
    <2> QED BY <2>1, <2>2
  <1>10. n - m \in 0 .. RingSize - 1
    BY <1>1, RingAssumption
  <1>11. q.supply = ring_increment(q.consume, n - m)
    BY <1>1, <1>2, <1>3, <1>9, RingAssumption DEF ring_increment, Slots
  <1>12. Shape(q, n - m)
    BY <1>9, <1>10, <1>11, RingAssumption DEF Shape
  <1>13. ~ring_full(q)
    BY <1>9 DEF ring_full
  <1>14. ASSUME NEW i \in Slots, Place(q, i) < n - m
         PROVE  Place(r, i) = Place(q, i) + m
    <2>1. n # m
      BY <1>1, <1>9, <1>14, OffType DEF Slots
    <2> QED BY <1>1, <1>2, <1>3, <1>9, <1>14, <2>1, RingAssumption DEF Place, ring_subtract, Slots
  <1>15. ASSUME NEW i \in Slots, Place(r, i) >= m, n # m
         PROVE  Place(q, i) = Place(r, i) - m
    BY <1>1, <1>2, <1>3, <1>9, <1>15, RingAssumption DEF Place, ring_subtract, Slots
  <1> QED BY <1>9, <1>12, <1>13, <1>14, <1>15 DEF mark2, clear2

LEMMA Room ==
  ASSUME NEW r, NEW n, Shape(r, n)
  PROVE  ring_empty_count(r) = RingSize - n
  <1>1. r \in RingRec /\ n \in 0 .. RingSize /\ r.consume \in Slots /\ r.supply \in Slots
    BY DEF Shape, RingRec
  <1>2. r.supply = (IF r.consume + n < RingSize THEN r.consume + n ELSE r.consume + n - RingSize)
    BY DEF Shape, ring_increment
  <1>3. ring_empty(r) <=> n = 0
    <2>1. CASE n = 0
      <3>1. r.supply = r.consume
        BY <1>1, <1>2, <2>1, RingAssumption DEF Slots
      <3> QED BY <2>1, <3>1 DEF Shape, ring_empty
    <2>2. CASE n = RingSize
      BY <2>2, RingAssumption DEF Shape, ring_empty
    <2>3. CASE n # 0 /\ n # RingSize
      BY <1>1, <1>2, <2>3, RingAssumption DEF ring_empty, Slots
    <2> QED BY <2>1, <2>2, <2>3
  <1>4. CASE n = 0
    BY <1>3, <1>4, RingAssumption DEF ring_empty_count
  <1>5. CASE n # 0
    <2>1. ring_empty_count(r) = ring_subtract(r.consume, r.supply)
      BY <1>3, <1>5 DEF ring_empty_count
    <2> QED BY <1>1, <1>2, <1>5, <2>1, RingAssumption DEF ring_subtract, Slots
  <1> QED BY <1>4, <1>5

LEMMA NetAdd ==
  ASSUME cipher \in BOOLEAN, NEW s, NEW n, Shape(s.r, n), n < RingSize, s.b \in [Slots -> Byte],
         NEW base \in Nat, Queue(s.r, s.b, n, base), NEW mk, MarkTrue(s.r, n, base, mk),
         NEW x, x = base + n + 1, NEW t, t = NETADD(s, x)
  PROVE  /\ Shape(t.r, n + 1) /\ t.b \in [Slots -> Byte] /\ Queue(t.r, t.b, n + 1, base) /\ MarkTrue(t.r, n + 1, base, mk)
         /\ t.r.clearto = s.r.clearto /\ t.r.consume = s.r.consume /\ t.r.supply = ring_increment(s.r.supply, 1)
         /\ Crypt(s.r, s.b, n, cipher) /\ ~(ring_full(t.r) /\ t.r.clearto = t.r.supply) => Crypt(t.r, t.b, n + 1, cipher)
  <1> DEFINE c == [n |-> x, want |-> cipher, times |-> 0]
  <1>1. t.r = ring_supplied(s.r, 1) /\ t.b = [s.b EXCEPT ![s.r.supply] = c]
    BY DEF NETADD
  <1>2. c \in Byte /\ c.n = base + n + 1 /\ c.times = 0
    BY RingAssumption DEF Byte, Shape
  <1>3. c.want = cipher
    BY Zenon
  <1> HIDE DEF c
  <1>4. /\ Shape(t.r, n + 1) /\ t.r.clearto = s.r.clearto /\ t.r.consume = s.r.consume
        /\ t.r.supply = ring_increment(s.r.supply, 1)
    BY <1>1, AddShape
  <1>5. t.b \in [Slots -> Byte] /\ Queue(t.r, t.b, n + 1, base)
    BY <1>1, <1>2, AddQueue
  <1>6. MarkTrue(t.r, n + 1, base, mk)
    BY <1>1, AddMark
  <1>7. Crypt(s.r, s.b, n, cipher) /\ ~(ring_full(t.r) /\ t.r.clearto = t.r.supply) => Crypt(t.r, t.b, n + 1, cipher)
    BY <1>1, <1>2, <1>3, <1>4, AddCrypt
  <1> QED BY <1>4, <1>5, <1>6, <1>7

(* k bytes are in the ring now. *)
LEMMA HoldsKept ==
  ASSUME RingInv, NEW s, NEW k \in {1, 2}, Holds(s, k), added + k <= MaxBytes, netlog' = netlog,
         Shape(s.r, Fill + k), s.b \in [Slots -> Byte], Queue(s.r, s.b, Fill + k, Len(netlog)),
         marked' \in Seq(MarkRec), cipher' \in BOOLEAN,
         ~brim /\ ~(ring_full(s.r) /\ s.r.clearto = s.r.supply) => Crypt(s.r, s.b, Fill + k, cipher'),
         MarkTrue(s.r, Fill + k, Len(netlog), marked'), RingUrgent'
  PROVE  RingInv'
  <1>1. ring' = s.r /\ buf' = s.b /\ added' = added + k
    BY DEF Holds
  <1>2. brim' = (brim \/ (ring_full(s.r) /\ s.r.clearto = s.r.supply))
    BY DEF Holds
  <1>3. brim' \in BOOLEAN /\ (~brim' => ~brim /\ ~(ring_full(s.r) /\ s.r.clearto = s.r.supply))
    BY <1>2, Zenon
  <1>4. Len(netlog) \in Nat /\ added \in 0 .. MaxBytes
    BY DEF RingInv, RingType
  <1>5. Fill' = Fill + k
    BY <1>1, <1>4, RingAssumption DEF Fill
  <1>6. added' \in 0 .. MaxBytes
    BY <1>1, <1>4, RingAssumption
  <1>7. RingType'
    BY <1>1, <1>3, <1>6 DEF RingInv, RingType
  <1>8. LogTrue(netlog, brim)'
    BY <1>3 DEF RingInv, LogTrue
  <1>9. Shape(ring, Fill)' /\ Queue(ring, buf, Fill, Len(netlog))' /\ MarkTrue(ring, Fill, Len(netlog), marked)'
    BY <1>1, <1>5
  <1>10. (~brim => Crypt(ring, buf, Fill, cipher))'
    BY <1>1, <1>3, <1>5
  <1> QED BY <1>7, <1>8, <1>9, <1>10 DEF RingInv

(* What the invariant says of the ring as a whole. *)
LEMMA StateFacts ==
  ASSUME RingInv
  PROVE  /\ State.r = ring /\ State.b = buf /\ Len(netlog) \in Nat /\ added = Len(netlog) + Fill
         /\ added \in 0 .. MaxBytes /\ Fill \in 0 .. RingSize /\ NETROOM = RingSize - Fill
         /\ cipher \in BOOLEAN
         /\ Shape(State.r, Fill) /\ State.b \in [Slots -> Byte] /\ Queue(State.r, State.b, Fill, Len(netlog))
         /\ MarkTrue(State.r, Fill, Len(netlog), marked) /\ (~brim => Crypt(State.r, State.b, Fill, cipher))
  <1>1. State.r = ring /\ State.b = buf
    BY DEF State
  <1>2. Len(netlog) \in Nat /\ added \in 0 .. MaxBytes /\ Fill \in 0 .. RingSize /\ cipher \in BOOLEAN
    BY DEF RingInv, RingType, Shape
  <1>3. added = Len(netlog) + Fill
    BY <1>2, RingAssumption DEF Fill
  <1>4. NETROOM = RingSize - Fill
    BY Room DEF NETROOM, RingInv
  <1> QED BY <1>1, <1>2, <1>3, <1>4 DEF RingInv, RingType

LEMMA NotFull ==
  ASSUME NEW r, NEW n, Shape(r, n), n < RingSize
  PROVE  ~ring_full(r)
  BY SupplyPlace

LEMMA TelsendStep ==
  ASSUME RingInv, telsend
  PROVE  RingInv'
  <1> DEFINE n == Fill
             base == Len(netlog)
             t == NETADD(State, added + 1)
             u == NETADD(t, added + 2)
  <1>1. /\ base \in Nat /\ added = base + n /\ added \in 0 .. MaxBytes /\ n \in 0 .. RingSize
        /\ n < RingSize - 2 /\ n + 1 < RingSize
    BY StateFacts, RingAssumption DEF telsend
  <1>2. /\ Shape(t.r, n + 1) /\ t.b \in [Slots -> Byte] /\ Queue(t.r, t.b, n + 1, base) /\ MarkTrue(t.r, n + 1, base, marked)
        /\ Crypt(State.r, State.b, n, cipher) /\ ~(ring_full(t.r) /\ t.r.clearto = t.r.supply) => Crypt(t.r, t.b, n + 1, cipher)
    <2>1. added + 1 = base + n + 1 /\ n < RingSize
      BY <1>1, RingAssumption
    <2> HIDE DEF n, base
    <2> QED BY <1>1, <2>1, StateFacts, NetAdd DEF n, base
  <1> HIDE DEF t
  <1>3. ~ring_full(t.r)
    BY <1>1, <1>2, NotFull
  <1>4. /\ Shape(u.r, n + 2) /\ u.b \in [Slots -> Byte] /\ Queue(u.r, u.b, n + 2, base) /\ MarkTrue(u.r, n + 2, base, marked)
        /\ Crypt(t.r, t.b, n + 1, cipher) /\ ~(ring_full(u.r) /\ u.r.clearto = u.r.supply) => Crypt(u.r, u.b, n + 2, cipher)
    <2>1. added + 2 = base + (n + 1) + 1 /\ n + 1 < RingSize /\ (n + 1) + 1 = n + 2 /\ base \in Nat /\ cipher \in BOOLEAN
      BY <1>1, StateFacts, RingAssumption
    <2> HIDE DEF n, base, u
    <2>2. u = NETADD(t, added + 2)
      BY DEF u
    <2>3. /\ Shape(u.r, (n + 1) + 1) /\ u.b \in [Slots -> Byte] /\ Queue(u.r, u.b, (n + 1) + 1, base) /\ MarkTrue(u.r, (n + 1) + 1, base, marked)
          /\ Crypt(t.r, t.b, n + 1, cipher) /\ ~(ring_full(u.r) /\ u.r.clearto = u.r.supply) => Crypt(u.r, u.b, (n + 1) + 1, cipher)
      BY <1>2, <2>1, <2>2, NetAdd
    <2> QED BY <2>1, <2>3
  <1> HIDE DEF u
  <1>5. UNCHANGED <<marked, cipher, netlog>> /\ marked' \in Seq(MarkRec) /\ cipher' \in BOOLEAN
    BY DEF telsend, RingInv, RingType
  <1>6. RingUrgent'
    BY <1>5 DEF RingInv, RingUrgent
  <1>7. ~brim => Crypt(t.r, t.b, n + 1, cipher)
    BY <1>2, <1>3, StateFacts
  <1>8. CASE added + 1 <= MaxBytes /\ Holds(t, 1)
    BY <1>2, <1>5, <1>6, <1>7, <1>8, HoldsKept
  <1>9. CASE added + 2 <= MaxBytes /\ Holds(u, 2)
    BY <1>4, <1>5, <1>6, <1>7, <1>9, HoldsKept
  <1> QED BY <1>8, <1>9 DEF telsend, t, u

LEMMA ToggleStep ==
  ASSUME RingInv, Toggle
  PROVE  RingInv'
  <1> DEFINE n == Fill
             base == Len(netlog)
             t == NETADD(State, added + 1)
             u == net_encrypt(t)
  <1>1. /\ base \in Nat /\ added = base + n /\ added \in 0 .. MaxBytes /\ n \in 0 .. RingSize
        /\ n + 1 < RingSize /\ cipher \in BOOLEAN
    BY StateFacts, RingAssumption DEF Toggle
  <1>2. /\ Shape(t.r, n + 1) /\ t.b \in [Slots -> Byte] /\ Queue(t.r, t.b, n + 1, base) /\ MarkTrue(t.r, n + 1, base, marked)
        /\ Crypt(State.r, State.b, n, cipher) /\ ~(ring_full(t.r) /\ t.r.clearto = t.r.supply) => Crypt(t.r, t.b, n + 1, cipher)
    <2>1. added + 1 = base + n + 1 /\ n < RingSize
      BY <1>1, RingAssumption
    <2> HIDE DEF n, base
    <2> QED BY <1>1, <2>1, StateFacts, NetAdd DEF n, base
  <1>3. t = [r |-> t.r, b |-> t.b]
    BY DEF NETADD
  <1> HIDE DEF t
  <1>4. ~ring_full(t.r) /\ n + 1 > 0
    BY <1>1, <1>2, NotFull
  <1>5. ~brim => Crypt(t.r, t.b, n + 1, cipher)
    BY <1>2, <1>4, StateFacts
  <1>6. /\ Shape(u.r, n + 1) /\ u.b \in [Slots -> Byte] /\ Queue(u.r, u.b, n + 1, base) /\ MarkTrue(u.r, n + 1, base, marked)
        /\ ~brim => Crypt(u.r, u.b, n + 1, ~cipher)
    <2>1. CASE cipher
      <3>1. u = Encrypted(t)
        BY <2>1 DEF net_encrypt
      <3> HIDE DEF u, n, base
      <3>2. /\ Shape(u.r, n + 1) /\ u.b \in [Slots -> Byte] /\ Queue(u.r, u.b, n + 1, base) /\ MarkTrue(u.r, n + 1, base, marked)
            /\ Crypt(t.r, t.b, n + 1, TRUE) => \A i \in Slots : Place(u.r, i) < n + 1 => Right(u.b[i])
        BY <1>1, <1>2, <1>4, <3>1, EncryptAll
      <3>3. ~brim => Crypt(t.r, t.b, n + 1, TRUE)
        BY <1>5, <2>1 DEF Crypt
      <3>4. ~brim => Crypt(u.r, u.b, n + 1, ~cipher)
        BY <2>1, <3>2, <3>3 DEF Crypt
      <3> QED BY <3>2, <3>4
    <2>2. CASE ~cipher
      <3>1. t.r \in RingRec /\ t.r.supply \in Slots
        BY <1>2 DEF Shape, RingRec
      <3>2. ~ring_empty(t.r) /\ Place(t.r, t.r.supply) = n + 1
        <4>1. Place(t.r, t.r.supply) = n + 1
          BY <1>1, <1>2, SupplyPlace
        <4>2. Place(t.r, t.r.supply) # 0
          BY <1>1, <4>1
        <4>3. t.r.supply # t.r.consume
          BY <3>1, <4>2 DEF Place, ring_subtract, Slots
        <4> QED BY <4>1, <4>3 DEF ring_empty
      <3>3. u = [t EXCEPT !.r = [t.r EXCEPT !.clearto = t.r.supply]]
        BY <2>2, <3>2 DEF net_encrypt, ring_clearto
      <3>4. u.r = [t.r EXCEPT !.clearto = t.r.supply] /\ u.b = t.b
        BY <1>3, <3>3
      <3> HIDE DEF u
      <3>5. /\ u.r \in RingRec /\ u.r.consume = t.r.consume /\ u.r.supply = t.r.supply /\ u.r.mark = t.r.mark
            /\ u.r.later = t.r.later /\ u.r.clearto = t.r.supply
        BY <3>1, <3>4 DEF RingRec
      <3>6. \A i : Place(u.r, i) = Place(t.r, i)
        BY <3>5 DEF Place
      <3>7. Shape(u.r, n + 1)
        BY <1>2, <3>5 DEF Shape
      <3>8. Queue(u.r, u.b, n + 1, base) /\ MarkTrue(u.r, n + 1, base, marked)
        BY <1>2, <3>4, <3>5, <3>6 DEF Queue, MarkTrue
      <3>9. Done(u.r) = n + 1
        <4>1. ~ring_full(u.r)
          BY <1>4, <3>5 DEF ring_full
        <4>2. u.r.clearto # NULL
          BY <3>1, <3>5 DEF Slots, NULL
        <4> QED BY <3>2, <3>5, <3>6, <4>1, <4>2 DEF Done
      <3>10. ASSUME ~brim PROVE Crypt(u.r, u.b, n + 1, ~cipher)
        <4>1. ASSUME NEW i \in Slots, Place(u.r, i) < n + 1
              PROVE  Right(u.b[i]) /\ ~(Place(u.r, i) >= Done(u.r))
          <5>1. Right(u.b[i])
            BY <1>5, <2>2, <3>4, <3>6, <3>10, <4>1 DEF Crypt
          <5>2. Place(u.r, i) \in Int /\ n + 1 \in Int
            BY <1>1, <3>5, OffType DEF Slots
          <5> QED BY <3>9, <4>1, <5>1, <5>2
        <4>2. Done(u.r) <= n + 1
          BY <1>1, <3>9
        <4> QED BY <4>1, <4>2 DEF Crypt
      <3> QED BY <1>2, <3>4, <3>7, <3>8, <3>10
    <2> QED BY <1>1, <2>1, <2>2
  <1> HIDE DEF u
  <1>7. /\ Holds(u, 1) /\ UNCHANGED <<marked, netlog>> /\ cipher' = ~cipher /\ added + 1 <= MaxBytes
        /\ marked' \in Seq(MarkRec) /\ cipher' \in BOOLEAN
    <2>1. added < MaxBytes
      BY DEF Toggle
    <2>2. added + 1 <= MaxBytes
      BY <1>1, <2>1, RingAssumption
    <2> QED BY <2>2 DEF Toggle, RingInv, RingType, t, u
  <1>8. RingUrgent'
    BY <1>7 DEF RingInv, RingUrgent
  <1>9. ~brim => Crypt(u.r, u.b, n + 1, cipher')
    BY <1>6, <1>7
  <1> QED BY <1>6, <1>7, <1>8, <1>9, HoldsKept

(* The mark is set at the byte that was added last, or nowhere. *)
LEMMA DosynchStep ==
  ASSUME RingInv, dosynch
  PROVE  RingInv'
  <1> DEFINE n == Fill
             base == Len(netlog)
             t == NETADD(State, added + 1)
             v == [t EXCEPT !.r = ring_mark(@)]
             u == NETADD(v, added + 2)
             one == [n |-> added + 1, wrapped |-> ring_increment(ring.supply, 1) = 0]
  <1>1. /\ base \in Nat /\ added = base + n /\ added \in 0 .. MaxBytes /\ n \in 0 .. RingSize
        /\ n + 2 <= RingSize /\ n < RingSize /\ n + 1 < RingSize /\ cipher \in BOOLEAN
    BY StateFacts, RingAssumption, SMTT(30) DEF dosynch
  <1>2. /\ Shape(t.r, n + 1) /\ t.b \in [Slots -> Byte] /\ Queue(t.r, t.b, n + 1, base)
        /\ t.r.consume = ring.consume /\ t.r.supply = ring_increment(ring.supply, 1)
        /\ Crypt(State.r, State.b, n, cipher) /\ ~(ring_full(t.r) /\ t.r.clearto = t.r.supply) => Crypt(t.r, t.b, n + 1, cipher)
    <2>1. added + 1 = base + n + 1
      BY <1>1, RingAssumption
    <2> HIDE DEF n, base, t
    <2>2. t = NETADD(State, added + 1) /\ State.r = ring
      BY StateFacts DEF t
    <2>3. /\ Shape(State.r, n) /\ State.b \in [Slots -> Byte] /\ Queue(State.r, State.b, n, base)
          /\ MarkTrue(State.r, n, base, marked)
      BY StateFacts DEF n, base
    <2> QED BY <1>1, <2>1, <2>2, <2>3, NetAdd
  <1>3. t = [r |-> t.r, b |-> t.b]
    BY DEF NETADD
  <1> HIDE DEF t
  <1>4. ~ring_full(t.r)
    BY <1>1, <1>2, NotFull
  <1>5. ~brim => Crypt(t.r, t.b, n + 1, cipher)
    BY <1>2, <1>4, StateFacts
  <1> DEFINE mark2 == ring_decrement(t.r.supply, 1)
  <1>6. v.r = [t.r EXCEPT !.mark = mark2] /\ v.b = t.b
    BY <1>3 DEF ring_mark
  <1>7. /\ t.r \in RingRec /\ t.r.supply \in Slots /\ t.r.consume \in Slots /\ ring \in RingRec /\ ring.supply \in Slots
        /\ Place(ring, ring.supply) = n
    BY <1>1, <1>2, SupplyPlace DEF Shape, RingRec, RingInv
  <1>8. /\ t.r.supply = 0 => mark2 = Wrapped /\ t.r.consume + (n + 1) >= RingSize
        /\ t.r.supply # 0 => mark2 = ring.supply /\ mark2 \in Slots
    <2>1. t.r.supply = 0 => t.r.consume + (n + 1) >= RingSize
      BY <1>1, <1>2, <1>7, RingAssumption DEF Shape, ring_increment, Slots
    <2>2. t.r.supply # 0 => mark2 = ring.supply
      BY <1>2, <1>7, RingAssumption DEF ring_increment, ring_decrement, Slots
    <2> QED BY <1>7, <2>1, <2>2 DEF Wrapped
  <1> HIDE DEF mark2, v
  <1>9. /\ v.r \in RingRec /\ v.r.consume = t.r.consume /\ v.r.supply = t.r.supply /\ v.r.mark = mark2
        /\ v.r.later = t.r.later /\ v.r.clearto = t.r.clearto
    <2>1. mark2 \in Slots \cup {NULL, Wrapped}
      BY <1>8
    <2> HIDE DEF Slots, NULL, Wrapped
    <2> QED BY <1>6, <1>7, <2>1 DEF RingRec
  <1>10. \A i : Place(v.r, i) = Place(t.r, i) /\ Place(v.r, i) = Place(ring, i)
    BY <1>2, <1>9 DEF Place
  <1>11. Shape(v.r, n + 1) /\ Queue(v.r, v.b, n + 1, base) /\ (~brim => Crypt(v.r, v.b, n + 1, cipher)) /\ v.b \in [Slots -> Byte]
    <2>1. Shape(v.r, n + 1)
      BY <1>2, <1>9 DEF Shape
    <2>2. Queue(v.r, v.b, n + 1, base)
      BY <1>2, <1>6, <1>10 DEF Queue
    <2>3. Done(v.r) = Done(t.r)
      BY <1>9, <1>10 DEF Done, ring_full
    <2>4. Crypt(t.r, t.b, n + 1, cipher) => Crypt(v.r, v.b, n + 1, cipher)
      BY <1>6, <1>10, <2>3 DEF Crypt
    <2> QED BY <1>2, <1>5, <1>6, <2>1, <2>2, <2>4
  <1>12. /\ marked' = Append(marked, one) /\ one \in MarkRec
         /\ one.n = added + 1 /\ (one.wrapped <=> t.r.supply = 0)
    <2>1. marked' = Append(marked, one)
      BY DEF dosynch
    <2>2. one.n = added + 1 /\ one.wrapped \in BOOLEAN /\ one \in MarkRec
      BY <1>1, RingAssumption DEF MarkRec
    <2>3. one.wrapped <=> t.r.supply = 0
      BY <1>2
    <2> QED BY <2>1, <2>2, <2>3
  <1> HIDE DEF one
  <1>13. /\ marked \in Seq(MarkRec) /\ marked' \in Seq(MarkRec)
         /\ marked' # <<>> /\ Len(marked') = Len(marked) + 1 /\ marked'[Len(marked')] = one
         /\ Len(marked) \in Nat /\ \A k \in 1 .. Len(marked) : marked'[k] = marked[k]
    <2>1. marked \in Seq(MarkRec) /\ one \in MarkRec
      BY <1>12 DEF RingInv, RingType
    <2>2. /\ Append(marked, one) \in Seq(MarkRec) /\ Append(marked, one) # <<>>
          /\ Len(Append(marked, one)) = Len(marked) + 1
          /\ \A k \in 1 .. Len(marked) : Append(marked, one)[k] = marked[k]
          /\ Append(marked, one)[Len(marked) + 1] = one
      BY <2>1, AppendProperties
    <2>3. Len(marked) \in Nat
      BY <2>1
    <2> QED BY <1>12, <2>1, <2>2, <2>3
  <1>14. MarkTrue(v.r, n + 1, base, marked')
    <2>1. CASE t.r.supply = 0
      <3>1. v.r.mark = Wrapped /\ v.r.mark \notin Slots
        BY <1>8, <1>9, <2>1, RingAssumption DEF Wrapped, ring_decrement, Slots
      <3>2. v.r.consume + (n + 1) >= RingSize
        BY <1>8, <1>9, <2>1
      <3> QED BY <1>12, <1>13, <2>1, <3>1, <3>2 DEF MarkTrue
    <2>2. CASE t.r.supply # 0
      <3>1. v.r.mark = ring.supply /\ v.r.mark \in Slots /\ Place(v.r, v.r.mark) = n
        BY <1>7, <1>8, <1>9, <1>10, <2>2
      <3>2. v.r.mark # Wrapped
        BY <3>1, RingAssumption DEF Wrapped, ring_decrement, Slots
      <3>3. n < n + 1 /\ added + 1 = base + n + 1
        BY <1>1
      <3> QED BY <1>12, <1>13, <3>1, <3>2, <3>3 DEF MarkTrue
    <2> QED BY <2>1, <2>2
  <1>15. /\ Shape(u.r, n + 2) /\ u.b \in [Slots -> Byte] /\ Queue(u.r, u.b, n + 2, base) /\ MarkTrue(u.r, n + 2, base, marked')
         /\ Crypt(v.r, v.b, n + 1, cipher) /\ ~(ring_full(u.r) /\ u.r.clearto = u.r.supply) => Crypt(u.r, u.b, n + 2, cipher)
    <2>1. added + 2 = base + (n + 1) + 1 /\ (n + 1) + 1 = n + 2
      BY <1>1, RingAssumption
    <2> HIDE DEF n, base, u
    <2>2. u = NETADD(v, added + 2)
      BY DEF u
    <2>3. /\ Shape(u.r, (n + 1) + 1) /\ u.b \in [Slots -> Byte] /\ Queue(u.r, u.b, (n + 1) + 1, base) /\ MarkTrue(u.r, (n + 1) + 1, base, marked')
          /\ Crypt(v.r, v.b, n + 1, cipher) /\ ~(ring_full(u.r) /\ u.r.clearto = u.r.supply) => Crypt(u.r, u.b, (n + 1) + 1, cipher)
      BY <1>1, <1>11, <1>14, <2>1, <2>2, NetAdd
    <2> QED BY <2>1, <2>3
  <1>16. Holds(u, 2) /\ UNCHANGED <<cipher, netlog>> /\ added + 2 <= MaxBytes
    BY DEF dosynch, t, v, u
  <1> HIDE DEF u
  <1>17. RingUrgent'
    <2>1. \A i \in DOMAIN netlog : netlog[i].oob => \E k \in DOMAIN marked' : marked'[k].n = i
      <3> SUFFICES ASSUME NEW i \in DOMAIN netlog, netlog[i].oob
                   PROVE  \E k \in DOMAIN marked' : marked'[k].n = i
        OBVIOUS
      <3>1. PICK k \in DOMAIN marked : marked[k].n = i
        BY DEF RingInv, RingUrgent
      <3>2. k \in DOMAIN marked' /\ marked'[k].n = i
        BY <1>13, <3>1
      <3> QED BY <3>2
    <2>2. \A k \in DOMAIN marked' : k = Len(marked') => ~(marked'[k].n <= Len(netlog))
      BY <1>1, <1>12, <1>13
    <2> QED BY <1>16, <2>1, <2>2 DEF RingUrgent
  <1>18. cipher' \in BOOLEAN
    BY <1>1, <1>16
  <1> QED BY <1>11, <1>13, <1>15, <1>16, <1>17, <1>18, HoldsKept

LEMMA FlushStep ==
  ASSUME RingInv, NEW m \in 0 .. RingSize, netflush(m)
  PROVE  RingInv'
  <1> DEFINE n == Fill
             base == Len(netlog)
             s == IF cipher THEN Encrypted(State) ELSE State
             f == ring_full_consecutive(s.r)
             oob == ring_at_mark(s.r)
             q == ring_consumed(s.r, m)
  <1>1. /\ f > 0 /\ m \in 0 .. (IF oob THEN 1 ELSE f) /\ ring' = q /\ buf' = s.b
        /\ netlog' = netlog \o [i \in 1 .. m |-> Sent(s.b[s.r.consume + i - 1], oob)]
        /\ UNCHANGED <<added, marked, cipher, brim>>
    BY DEF netflush
  <1>2. /\ base \in Nat /\ added = base + n /\ added \in 0 .. MaxBytes /\ n \in 0 .. RingSize /\ cipher \in BOOLEAN
        /\ Shape(State.r, n) /\ State.b \in [Slots -> Byte] /\ Queue(State.r, State.b, n, base)
        /\ MarkTrue(State.r, n, base, marked) /\ (~brim => Crypt(State.r, State.b, n, cipher))
    BY StateFacts
  <1>3. /\ Shape(s.r, n) /\ s.b \in [Slots -> Byte] /\ Queue(s.r, s.b, n, base) /\ MarkTrue(s.r, n, base, marked) /\ n > 0
        /\ ~brim => (\A i \in Slots : Place(s.r, i) < n => Right(s.b[i])) /\ (cipher => s.r.clearto = s.r.supply)
    <2>1. CASE ~cipher
      <3>1. s = State
        BY <2>1
      <3> HIDE DEF s
      <3>2. n > 0
        <4>1. f \in 1 .. n
          BY <1>1, <1>2, <3>1, Consecutive
        <4> QED BY <1>2, <4>1
      <3> QED BY <1>2, <2>1, <3>1, <3>2 DEF Crypt
    <2>2. CASE cipher
      <3>1. s = Encrypted(State)
        BY <2>2
      <3>2. n > 0
        <4> SUFFICES ASSUME n = 0 PROVE FALSE
          BY <1>2
        <4>1. ring_empty(State.r)
          <5>1. State.r.supply = State.r.consume
            BY <1>2, RingAssumption DEF Shape, ring_increment, RingRec, Slots
          <5> QED BY <1>2, <5>1 DEF Shape, ring_empty
        <4>2. s.r = State.r
          BY <3>1, <4>1 DEF Encrypted, ToEncrypt
        <4> HIDE DEF s
        <4>3. f \in 1 .. n
          BY <1>1, <1>2, <4>2, Consecutive
        <4> QED BY <4>3
      <3> HIDE DEF s, n, base
      <3>3. /\ Shape(s.r, n) /\ s.b \in [Slots -> Byte] /\ Queue(s.r, s.b, n, base) /\ MarkTrue(s.r, n, base, marked)
            /\ Crypt(State.r, State.b, n, TRUE) =>
                 s.r.clearto = s.r.supply /\ \A i \in Slots : Place(s.r, i) < n => Right(s.b[i])
        <4> DEFINE t == State
        <4>1. /\ s = Encrypted(t) /\ base \in Nat /\ Shape(t.r, n) /\ t.b \in [Slots -> Byte]
              /\ Queue(t.r, t.b, n, base) /\ MarkTrue(t.r, n, base, marked)
          BY <1>2, <3>1
        <4> HIDE DEF t
        <4>2. Shape(s.r, n) /\ s.b \in [Slots -> Byte] /\ Queue(s.r, s.b, n, base) /\ MarkTrue(s.r, n, base, marked)
          BY <3>2, <4>1, EncryptAll
        <4>3. Crypt(t.r, t.b, n, TRUE) => s.r.clearto = s.r.supply
          <5> SUFFICES ASSUME Crypt(t.r, t.b, n, TRUE) PROVE s.r.clearto = s.r.supply
            OBVIOUS
          <5>1. Done(t.r) <= n
            BY DEF Crypt
          <5>2. Encrypted(t).r.clearto = Encrypted(t).r.supply
            BY <3>2, <4>1, <5>1, EncryptClears
          <5> QED BY <4>1, <5>2
        <4>4. Crypt(t.r, t.b, n, TRUE) => \A i \in Slots : Place(s.r, i) < n => Right(s.b[i])
          BY <3>2, <4>1, EncryptAll
        <4> QED BY <4>2, <4>3, <4>4 DEF t
      <3>4. ~brim => Crypt(State.r, State.b, n, TRUE)
        BY <1>2, <2>2 DEF Crypt
      <3> QED BY <2>2, <3>2, <3>3, <3>4
    <2> QED BY <1>2, <2>1, <2>2
  <1> HIDE DEF s
  <1>4. /\ f \in 1 .. n /\ s.r.consume + f <= RingSize
        /\ s.r.mark \in Slots /\ s.r.mark # s.r.consume => f <= Place(s.r, s.r.mark)
    BY <1>1, <1>3, Consecutive
  <1>5. /\ s.r \in RingRec /\ s.r.consume \in Slots /\ s.r.supply \in Slots /\ m \in 0 .. n /\ m \in Nat
        /\ s.r.consume + m <= RingSize /\ oob \in BOOLEAN /\ (oob <=> s.r.mark = s.r.consume) /\ (oob => m <= 1)
        /\ (~oob => m <= f)
    <2>1. s.r \in RingRec /\ s.r.consume \in Slots /\ s.r.supply \in Slots
      BY <1>3 DEF Shape, RingRec
    <2>2. oob \in BOOLEAN /\ (oob <=> s.r.mark = s.r.consume)
      BY DEF ring_at_mark
    <2>3. m \in 0 .. f
      BY <1>1, <1>4
    <2> HIDE DEF oob, f
    <2> QED BY <1>1, <1>2, <1>4, <2>1, <2>2, <2>3, RingAssumption, SMTT(30) DEF Slots
  <1> HIDE DEF oob, f, q
  <1>6. /\ netlog' \in Seq([n : Nat, want : BOOLEAN, times : Nat, oob : BOOLEAN]) /\ Len(netlog') = base + m
        /\ \A i \in 1 .. base : netlog'[i] = netlog[i]
        /\ \A i \in 1 .. m : netlog'[base + i] = Sent(s.b[s.r.consume + i - 1], oob)
    <2> DEFINE S == [n : Nat, want : BOOLEAN, times : Nat, oob : BOOLEAN]
               c == s.r.consume
               new == [i \in 1 .. m |-> Sent(s.b[c + i - 1], oob)]
    <2>1. ASSUME NEW i \in 1 .. m PROVE Sent(s.b[c + i - 1], oob) \in S
      <3>1. c \in 0 .. RingSize - 1 /\ RingSize \in Nat /\ c + m <= RingSize
        BY <1>5, RingAssumption DEF Slots
      <3>2. c + i - 1 \in 0 .. RingSize - 1
        BY <1>5, <3>1
      <3>3. s.b[c + i - 1] \in Byte
        BY <1>3, <3>2 DEF Slots
      <3> QED BY <1>5, <3>3 DEF Sent, Byte
    <2>2. netlog \in Seq(S) /\ netlog' = netlog \o new
      BY <1>1 DEF RingInv, RingType
    <2> HIDE DEF S
    <2>3. new \in Seq(S) /\ Len(new) = m /\ \A i \in 1 .. m : new[i] = Sent(s.b[c + i - 1], oob)
      <3>1. new \in [1 .. m -> S]
        BY <2>1
      <3> QED BY <1>5, <3>1
    <2> HIDE DEF new, c
    <2>4. /\ netlog' \in Seq(S) /\ Len(netlog') = base + m
          /\ \A i \in 1 .. base + m : netlog'[i] = IF i <= base THEN netlog[i] ELSE new[i - base]
      BY <2>2, <2>3, ConcatProperties
    <2>5. ASSUME NEW i \in 1 .. base PROVE netlog'[i] = netlog[i]
      <3>1. i \in 1 .. base + m /\ i <= base
        BY <1>2, <1>5
      <3> QED BY <2>4, <3>1
    <2>6. ASSUME NEW i \in 1 .. m PROVE netlog'[base + i] = new[i]
      <3>1. base + i \in 1 .. base + m /\ ~(base + i <= base) /\ base + i - base = i
        BY <1>2, <1>5
      <3>2. netlog'[base + i] = IF base + i <= base THEN netlog[base + i] ELSE new[base + i - base]
        BY <2>4, <3>1
      <3> QED BY <3>1, <3>2
    <2> QED BY <2>3, <2>4, <2>5, <2>6 DEF S, c
  <1>7. Fill' = n - m
    BY <1>1, <1>2, <1>5, <1>6, RingAssumption DEF Fill
  <1> HIDE DEF n
  <1>8. ASSUME NEW i \in 1 .. m
        PROVE  s.r.consume + i - 1 \in Slots /\ Place(s.r, s.r.consume + i - 1) = i - 1 /\ i - 1 < n
    <2> DEFINE c == s.r.consume
    <2>1. c \in 0 .. RingSize - 1 /\ RingSize \in Nat /\ c + m <= RingSize /\ m \in Nat /\ m <= n /\ n \in Nat
      BY <1>2, <1>5, RingAssumption DEF Slots
    <2> HIDE DEF c
    <2>2. c + i - 1 \in 0 .. RingSize - 1 /\ i - 1 < n /\ (c + i - 1) - c = i - 1 /\ i - 1 >= 0
      BY <2>1
    <2> QED BY <2>2 DEF Place, ring_subtract, Slots, c
  <1>9. \A i \in 1 .. base + m : i \in 1 .. base \/ \E j \in 1 .. m : i = base + j
    <2> TAKE i \in 1 .. base + m
    <2>1. CASE i <= base
      BY <1>2, <2>1
    <2>2. CASE i > base
      <3>1. i - base \in 1 .. m /\ i = base + (i - base)
        BY <1>2, <1>5, <2>2
      <3> QED BY <3>1
    <2> QED BY <1>2, <1>5, <2>1, <2>2
  <1>10. LogTrue(netlog', brim')
    <2> SUFFICES ASSUME NEW i \in 1 .. base + m
                 PROVE  netlog'[i].n = i /\ (~brim => Right(netlog'[i]))
      <3>1. DOMAIN netlog' = 1 .. base + m
        BY <1>6
      <3> QED BY <1>1, <3>1 DEF LogTrue
    <2>1. CASE i \in 1 .. base
      <3>1. i \in DOMAIN netlog
        BY <2>1 DEF RingInv, RingType
      <3>2. netlog[i].n = i /\ (~brim => Right(netlog[i]))
        BY <3>1 DEF RingInv, LogTrue
      <3> QED BY <1>6, <2>1, <3>2
    <2>2. CASE \E j \in 1 .. m : i = base + j
      <3>1. PICK j \in 1 .. m : i = base + j
        BY <2>2
      <3> DEFINE c == s.b[s.r.consume + j - 1]
      <3>2. netlog'[i].n = c.n /\ netlog'[i].times = c.times
        <4>1. netlog'[i] = Sent(c, oob)
          BY <1>6, <3>1
        <4> HIDE DEF c
        <4> QED BY <4>1 DEF Sent
      <3>3. netlog'[i].want = c.want
        <4>1. netlog'[i] = Sent(c, oob)
          BY <1>6, <3>1
        <4>2. Sent(c, oob).want = c.want
          BY Zenon DEF Sent
        <4> HIDE DEF c
        <4> QED BY <4>1, <4>2, Zenon
      <3>4. c.n = base + (j - 1) + 1
        BY <1>3, <1>8 DEF Queue
      <3>5. ~brim => Right(c)
        BY <1>3, <1>8
      <3> HIDE DEF c
      <3>6. netlog'[i].n = i
        BY <1>2, <3>1, <3>2, <3>4
      <3>7. Right(c) => Right(netlog'[i])
        <4>1. c.want => netlog'[i].want
          BY <3>3, Zenon
        <4>2. ~c.want => ~netlog'[i].want
          BY <3>3, Zenon
        <4> QED BY <3>2, <4>1, <4>2 DEF Right
      <3> QED BY <3>5, <3>6, <3>7
    <2> QED BY <1>9, <2>1, <2>2
  <1>11. RingUrgent'
    <2>1. ASSUME NEW i \in 1 .. base + m, netlog'[i].oob
          PROVE  \E k \in DOMAIN marked : marked[k].n = i
      <3>1. CASE i \in 1 .. base
        BY <1>6, <2>1, <3>1, SMTT(30) DEF RingInv, RingUrgent
      <3>2. CASE \E j \in 1 .. m : i = base + j
        <4>1. PICK j \in 1 .. m : i = base + j
          BY <3>2
        <4>2. netlog'[i] = Sent(s.b[s.r.consume + j - 1], oob)
          BY <1>6, <4>1
        <4>3. oob
          <5> DEFINE c == s.b[s.r.consume + j - 1]
          <5>1. Sent(c, oob).oob = oob
            BY Zenon DEF Sent
          <5> QED BY <2>1, <4>2, <5>1, Zenon
        <4>4. j = 1 /\ s.r.mark = s.r.consume /\ i = base + 1
          BY <1>5, <4>1, <4>3
        <4>5. Place(s.r, s.r.mark) = 0
          BY <1>5, <4>4 DEF Place, ring_subtract, Slots
        <4>6. marked # <<>> /\ marked[Len(marked)].n = base + 0 + 1
          BY <1>3, <1>5, <4>4, <4>5 DEF MarkTrue
        <4>7. Len(marked) \in DOMAIN marked
          BY <4>6 DEF RingInv, RingType
        <4> QED BY <1>2, <4>4, <4>6, <4>7
      <3> QED BY <1>9, <3>1, <3>2
    <2>2. ASSUME NEW k \in DOMAIN marked, marked[k].n <= base + m, k = Len(marked), ~marked[k].wrapped
          PROVE  netlog'[marked[k].n].oob
      <3>1. marked[k].n \in Nat \ {0} /\ marked # <<>>
        <4>1. marked \in Seq(MarkRec)
          BY DEF RingInv, RingType
        <4>2. marked[k] \in MarkRec /\ marked # <<>>
          BY <4>1
        <4> QED BY <4>2 DEF MarkRec
      <3>2. CASE marked[k].n <= base
        <4>1. netlog[marked[k].n].oob
          BY <2>2, <3>2 DEF RingInv, RingUrgent
        <4>2. marked[k].n \in 1 .. base
          BY <1>2, <3>1, <3>2
        <4> QED BY <1>6, <4>1, <4>2
      <3>3. CASE marked[k].n > base
        <4>1. s.r.mark \in Slots
          BY <1>3, <2>2, <3>1, <3>3 DEF MarkTrue
        <4>2. marked[k].n = base + Place(s.r, s.r.mark) + 1 /\ Place(s.r, s.r.mark) \in Nat
          BY <1>3, <1>5, <2>2, <4>1, OffType, SMTT(30) DEF MarkTrue, Slots
        <4>3. Place(s.r, s.r.mark) < m
          BY <1>2, <1>5, <2>2, <4>2
        <4>4. s.r.mark = s.r.consume
          BY <1>2, <1>4, <1>5, <4>1, <4>2, <4>3
        <4>5. m = 1 /\ oob /\ marked[k].n = base + 1
          BY <1>2, <1>5, <4>2, <4>3, <4>4
        <4>6. netlog'[base + 1] = Sent(s.b[s.r.consume + 1 - 1], oob)
          <5>1. 1 \in 1 .. m
            BY <4>5
          <5> QED BY <1>6, <5>1
        <4>7. Sent(s.b[s.r.consume + 1 - 1], oob).oob = oob
          BY Zenon DEF Sent
        <4> QED BY <4>5, <4>6, <4>7, Zenon
      <3> QED BY <1>2, <3>1, <3>2, <3>3
    <2>3. netlog' \in Seq([n : Nat, want : BOOLEAN, times : Nat, oob : BOOLEAN]) /\ DOMAIN netlog' = 1 .. base + m
      BY <1>6
    <2> QED BY <1>1, <1>6, <2>1, <2>2, <2>3 DEF RingUrgent
  <1>12. CASE m = 0
    <2>1. q = s.r
      BY <1>12 DEF q, ring_consumed
    <2>2. n - m = n /\ base + m = base
      BY <1>2, <1>12
    <2>3. ~brim => Crypt(s.r, s.b, n, cipher)
      <3> SUFFICES ASSUME ~brim, cipher PROVE Crypt(s.r, s.b, n, cipher)
        BY <1>2, <1>3 DEF Crypt
      <3>1. s.r.clearto = s.r.supply /\ s.r.clearto # NULL
        BY <1>3, <1>5 DEF NULL, Slots
      <3>2. Done(s.r) = n
        <4>1. CASE n = RingSize
          <5>1. s.r.supply = s.r.consume
            BY <1>3, <1>5, <4>1, RingAssumption DEF Shape, ring_increment, Slots
          <5>2. ring_full(s.r)
            BY <1>3, <4>1, <5>1 DEF Shape, ring_full
          <5> QED BY <3>1, <4>1, <5>2 DEF Done
        <4>2. CASE n # RingSize
          <5>1. n < RingSize
            BY <1>2, <4>2, RingAssumption
          <5>2. Place(s.r, s.r.supply) = n /\ ~ring_full(s.r)
            BY <1>3, <5>1, SupplyPlace
          <5> QED BY <3>1, <5>2 DEF Done
        <4> QED BY <4>1, <4>2
      <3>3. \A i \in Slots : Place(s.r, i) \in Int
        BY <1>5, OffType DEF Slots
      <3> QED BY <1>2, <1>3, <3>2, <3>3 DEF Crypt
    <2>4. Shape(q, n - m) /\ Queue(q, s.b, n - m, base + m) /\ MarkTrue(q, n - m, base + m, marked)
      BY <1>3, <2>1, <2>2
    <2> QED BY <1>1, <1>2, <1>3, <1>6, <1>7, <1>10, <1>11, <2>1, <2>2, <2>3, <2>4 DEF RingInv, RingType
  <1>13. CASE m # 0
    <2>1. m \in 1 .. n
      BY <1>2, <1>5, <1>13
    <2>2. /\ Shape(q, n - m) /\ ~ring_full(q)
          /\ q.mark = (IF s.r.mark # NULL /\ ring_subtract(s.r.mark, s.r.consume) < m THEN NULL ELSE s.r.mark)
          /\ q.clearto = (IF s.r.consume < s.r.clearto /\ s.r.clearto <= s.r.consume + m THEN NULL ELSE s.r.clearto)
          /\ n # m => q.supply = s.r.supply
          /\ n = m => q.supply = 0 /\ q.consume = 0
          /\ \A i \in Slots : Place(q, i) < n - m => Place(s.r, i) = Place(q, i) + m
          /\ \A i \in Slots : Place(s.r, i) >= m /\ n # m => Place(q, i) = Place(s.r, i) - m
      BY <1>3, <1>5, <2>1, ConsumeShape DEF q
    <2>3. q \in RingRec /\ \A i \in Slots : Place(q, i) \in Nat /\ Place(s.r, i) \in Nat
      BY <1>5, <2>2, OffType DEF Shape, Slots
    <2>4. ASSUME NEW i \in Slots, Place(q, i) < n - m
          PROVE  Place(s.r, i) = Place(q, i) + m /\ Place(s.r, i) < n
      BY <1>2, <1>5, <2>2, <2>3, <2>4
    <2>5. Queue(q, s.b, n - m, base + m)
      <3> SUFFICES ASSUME NEW i \in Slots, Place(q, i) < n - m
                   PROVE  s.b[i].n = base + m + Place(q, i) + 1
        BY DEF Queue
      <3>1. s.b[i].n = base + Place(s.r, i) + 1 /\ Place(s.r, i) = Place(q, i) + m
        BY <1>3, <2>4 DEF Queue
      <3> QED BY <1>2, <1>5, <2>3, <3>1
    <2>6. MarkTrue(q, n - m, base + m, marked)
      <3>1. s.r.mark \in Slots \cup {NULL, Wrapped}
        BY <1>5 DEF RingRec
      <3>2. q.mark # Wrapped
        <4>1. CASE s.r.mark = Wrapped
          <5>1. s.r.mark = -1 - RingSize
            BY <4>1, RingAssumption DEF Wrapped, ring_decrement
          <5>2. ring_subtract(s.r.mark, s.r.consume) < m /\ s.r.mark # NULL
            BY <1>5, <5>1, RingAssumption DEF ring_subtract, Slots, NULL
          <5>3. q.mark = NULL
            BY <2>2, <5>2
          <5> QED BY <5>3, RingAssumption DEF NULL, Wrapped, ring_decrement
        <4>2. CASE s.r.mark # Wrapped
          BY <2>2, <4>2, RingAssumption DEF NULL, Wrapped, ring_decrement
        <4> QED BY <4>1, <4>2
      <3>3. ASSUME q.mark \in Slots
            PROVE  Place(q, q.mark) < n - m /\ marked # <<>> /\ marked[Len(marked)].n = base + m + Place(q, q.mark) + 1
        <4>1. q.mark = s.r.mark /\ s.r.mark \in Slots /\ ~(Place(s.r, s.r.mark) < m)
          BY <2>2, <3>3 DEF NULL, Slots, Place
        <4>2. Place(s.r, s.r.mark) < n /\ marked # <<>> /\ marked[Len(marked)].n = base + Place(s.r, s.r.mark) + 1
          BY <1>3, <4>1 DEF MarkTrue
        <4>3. Place(s.r, s.r.mark) \in Nat
          BY <2>3, <4>1
        <4>4. n # m /\ Place(s.r, s.r.mark) >= m
          BY <1>2, <1>5, <4>1, <4>2, <4>3
        <4>5. Place(q, q.mark) = Place(s.r, s.r.mark) - m
          BY <2>2, <4>1, <4>4
        <4> QED BY <1>2, <1>5, <4>2, <4>3, <4>5
      <3>4. ASSUME marked # <<>>, ~marked[Len(marked)].wrapped, marked[Len(marked)].n > base + m
            PROVE  q.mark \in Slots
        <4>1. marked[Len(marked)].n \in Nat
          <5>1. marked \in Seq(MarkRec)
            BY DEF RingInv, RingType
          <5>2. marked[Len(marked)] \in MarkRec
            BY <3>4, <5>1
          <5> QED BY <5>2 DEF MarkRec
        <4>2. s.r.mark \in Slots
          BY <1>2, <1>3, <1>5, <3>4, <4>1 DEF MarkTrue
        <4>3. marked[Len(marked)].n = base + Place(s.r, s.r.mark) + 1 /\ Place(s.r, s.r.mark) \in Nat
          BY <1>3, <2>3, <4>2 DEF MarkTrue
        <4>4. ~(Place(s.r, s.r.mark) < m)
          BY <1>2, <1>5, <3>4, <4>3
        <4> QED BY <2>2, <4>2, <4>4 DEF Place
      <3> QED BY <3>2, <3>3, <3>4 DEF MarkTrue
    <2>7. ASSUME ~brim PROVE Crypt(q, s.b, n - m, cipher)
      <3>1. \A i \in Slots : Place(q, i) < n - m => Right(s.b[i])
        BY <1>3, <2>4, <2>7
      <3>2. ASSUME cipher PROVE Done(q) = n - m
        <4>1. s.r.clearto = s.r.supply
          BY <1>3, <2>7, <3>2
        <4>2. s.r.supply = (IF s.r.consume + n < RingSize THEN s.r.consume + n ELSE s.r.consume + n - RingSize)
          BY <1>3 DEF Shape, ring_increment
        <4>3. CASE s.r.consume < s.r.clearto /\ s.r.clearto <= s.r.consume + m
          <5>1. q.clearto = NULL
            BY <2>2, <4>3
          <5>2. n = m
            BY <1>2, <1>5, <2>1, <4>1, <4>2, <4>3, RingAssumption, SMTT(30) DEF Slots
          <5> QED BY <1>2, <5>1, <5>2 DEF Done
        <4>4. CASE ~(s.r.consume < s.r.clearto /\ s.r.clearto <= s.r.consume + m)
          <5>1. q.clearto = s.r.supply /\ q.clearto # NULL
            BY <1>5, <2>2, <4>1, <4>4 DEF Slots, NULL
          <5>2. Done(q) = Place(q, s.r.supply)
            BY <2>2, <5>1 DEF Done
          <5>3. s.r.supply = q.supply
            BY <1>2, <1>5, <2>1, <2>2, <4>1, <4>2, <4>4, RingAssumption, SMTT(30) DEF Slots
          <5>4. n - m < RingSize
            BY <1>2, <2>1, RingAssumption
          <5>5. Place(q, q.supply) = n - m
            BY <2>2, <5>4, SupplyPlace
          <5> QED BY <5>2, <5>3, <5>5
        <4> QED BY <4>3, <4>4
      <3>3. n - m \in Int
        BY <1>2, <1>5
      <3> QED BY <1>2, <2>3, <3>1, <3>2, <3>3 DEF Crypt
    <2>8. RingType'
      BY <1>1, <1>3, <1>6 DEF RingInv, RingType
    <2> QED BY <1>1, <1>6, <1>7, <1>10, <1>11, <2>2, <2>5, <2>6, <2>7, <2>8 DEF RingInv
  <1> QED BY <1>12, <1>13

(* The ring of telnet's output keeps the order of the bytes, encrypts each     *)
(* exactly as often as it has to be, and sends the byte that was marked, and   *)
(* no other, as urgent; whatever the size of the ring and wherever its         *)
(* pointers wrap, short of the ring being filled to the brim.                  *)
THEOREM RingIsSafe == RingSpec => []RingSafe
  <1>1. RingInit => RingInv
    <2> SUFFICES ASSUME RingInit PROVE RingInv
      OBVIOUS
    <2>1. /\ ring = [supply |-> 0, consume |-> 0, mark |-> NULL, clearto |-> NULL, later |-> "consume"]
          /\ buf = [i \in Slots |-> NoByte] /\ added = 0 /\ marked = <<>> /\ netlog = <<>> /\ cipher = FALSE /\ brim = FALSE
      BY DEF RingInit, ring_init
    <2>2. Fill = 0 /\ Len(netlog) = 0
      <3>1. Len(netlog) = 0 /\ added = 0
        BY <2>1
      <3> QED BY <3>1 DEF Fill
    <2>3. RingType
      <3>1. NoByte \in Byte
        BY DEF NoByte, Byte
      <3>2. buf \in [Slots -> Byte]
        BY <2>1, <3>1
      <3>3. 0 \in 0 .. MaxBytes
        BY RingAssumption
      <3>4. cipher \in BOOLEAN /\ brim \in BOOLEAN
        BY <2>1, Zenon
      <3>5. added \in 0 .. MaxBytes /\ marked \in Seq(MarkRec) /\ netlog \in Seq([n : Nat, want : BOOLEAN, times : Nat, oob : BOOLEAN])
        BY <2>1, <3>3
      <3> QED BY <3>2, <3>4, <3>5 DEF RingType
    <2>4. 0 \in Slots
      BY RingAssumption DEF Slots
    <2>5. ring \in RingRec
      BY <2>1, <2>4 DEF RingRec
    <2>6. Shape(ring, 0)
      BY <2>1, <2>5, RingAssumption DEF Shape, ring_increment
    <2>7. \A i \in Slots : ~(Place(ring, i) < 0)
      BY <2>5, OffType DEF Slots
    <2>8. Queue(ring, buf, 0, 0) /\ Crypt(ring, buf, 0, cipher)
      BY <2>1, <2>7 DEF Queue, Crypt
    <2>9. MarkTrue(ring, 0, 0, marked)
      BY <2>1, RingAssumption DEF MarkTrue, Slots, NULL, Wrapped, ring_decrement
    <2>10. LogTrue(netlog, brim) /\ RingUrgent
      BY <2>1 DEF LogTrue, RingUrgent
    <2> QED BY <2>2, <2>3, <2>6, <2>8, <2>9, <2>10 DEF RingInv
  <1>2. RingInv /\ [RingNext]_ringvars => RingInv'
    <2> SUFFICES ASSUME RingInv, [RingNext]_ringvars PROVE RingInv'
      OBVIOUS
    <2>1. CASE FlushSome
      BY <2>1, FlushStep DEF FlushSome
    <2>2. CASE UNCHANGED ringvars
      <3>1. UNCHANGED <<ring, buf, added, marked, cipher, brim, netlog>>
        BY <2>2 DEF ringvars
      <3>2. Fill' = Fill
        BY <3>1 DEF Fill
      <3>3. RingType' /\ RingUrgent'
        BY <3>1 DEF RingInv, RingType, RingUrgent
      <3> QED BY <3>1, <3>2, <3>3 DEF RingInv
    <2> QED BY <2>1, <2>2, TelsendStep, DosynchStep, ToggleStep DEF RingNext
  <1>3. RingInv => RingSafe
    BY DEF RingInv, RingSafe, RingTypeOK, RingType, Shape, RingRec, RingFaithful, LogTrue, Right, Wrapped
  <1> QED BY <1>1, <1>2, <1>3, PTL DEF RingSpec

----------------------------------------------------------------------------
(* An option.                                                              *)
USE OptionAssumption

\* Appending a Boolean to a sequence of Booleans.
LEMMA AppendType ==
  ASSUME NEW c \in Seq(BOOLEAN), NEW b \in BOOLEAN
  PROVE  Append(c, b) \in Seq(BOOLEAN)
  OBVIOUS

\* Each of the operators on halves returns a half.
LEMMA HalfTypes ==
  ASSUME NEW h \in Half, NEW new \in BOOLEAN
  PROVE  /\ Requested(h, new) \in Half
         /\ Answered(h, new) \in Half
         /\ Accepted(h, new) \in Half
         /\ Noted(h, new) \in Half
         /\ Refused(h) \in Half
<1>a. h.resp + 1 \in Nat
  BY DEF Half
<1>1. Requested(h, new) \in Half
  BY <1>a, Zenon DEF Half, Requested
<1>2. Accepted(h, new) \in Half /\ Noted(h, new) \in Half
  BY DEF Half, Accepted, Noted
<1>3. Refused(h) \in Half
  BY <1>a, Zenon DEF Half, Refused
<1>4. Answered(h, new) \in Half
  <2> DEFINE r == IF h.resp = 0 THEN 0
                  ELSE IF h.resp > 1 /\ h.state = new THEN h.resp - 2 ELSE h.resp - 1
  <2>1. h.resp \in Nat
    BY DEF Half
  <2>2. r \in Nat
    BY <2>1
  <2>3. Answered(h, new) = [h EXCEPT !.resp = r]
    BY DEF Answered
  <2> HIDE DEF r
  <2>4. QED
    BY <2>2, <2>3 DEF Half
<1>5. QED
  BY <1>1, <1>2, <1>3, <1>4

\* What an end becomes and sends on a command is well typed.
LEMMA HandledType ==
  ASSUME NEW h \in Half, NEW new \in BOOLEAN, NEW accepts \in BOOLEAN
  PROVE  /\ Handled(h, new, accepts).half \in Half
         /\ Handled(h, new, accepts).reply \in Seq(BOOLEAN)
<1>1. Answered(h, TRUE) \in Half /\ Answered(h, FALSE) \in Half
  BY HalfTypes
<1>2. <<>> \in Seq(BOOLEAN) /\ <<TRUE>> \in Seq(BOOLEAN) /\ <<FALSE>> \in Seq(BOOLEAN)
  OBVIOUS
<1>3. Positive(h, accepts).half \in Half /\ Positive(h, accepts).reply \in Seq(BOOLEAN)
  BY <1>1, <1>2, HalfTypes, Zenon DEF Positive
<1>4. Negative(h).half \in Half /\ Negative(h).reply \in Seq(BOOLEAN)
  BY <1>1, <1>2, HalfTypes, Zenon DEF Negative
<1>5. QED
  BY <1>3, <1>4, Zenon DEF Handled

\* Every step preserves the types.
LEMMA TypeStep == TypeOK /\ [Next]_vars => TypeOK'
<1> SUFFICES ASSUME TypeOK, [Next]_vars PROVE TypeOK'
  OBVIOUS
<1>1. ASSUME NEW new \in BOOLEAN, send_will(new) PROVE TypeOK'
  <2>1. Requested(willSide, new) \in Half
    BY HalfTypes DEF TypeOK
  <2>2. Append(toDo, new) \in Seq(BOOLEAN)
    BY AppendType DEF TypeOK
  <2>3. requests + 1 \in Nat
    BY DEF TypeOK
  <2>4. QED
    BY <1>1, <2>1, <2>2, <2>3, Zenon DEF TypeOK, send_will
<1>2. ASSUME NEW new \in BOOLEAN, send_do(new) PROVE TypeOK'
  <2>1. Requested(doSide, new) \in Half
    BY HalfTypes DEF TypeOK
  <2>2. Append(toWill, new) \in Seq(BOOLEAN)
    BY AppendType DEF TypeOK
  <2>3. requests + 1 \in Nat
    BY DEF TypeOK
  <2>4. QED
    BY <1>2, <2>1, <2>2, <2>3, Zenon DEF TypeOK, send_do
<1>3. CASE dooption
  <2>1. Head(toWill) \in BOOLEAN /\ Tail(toWill) \in Seq(BOOLEAN)
    BY <1>3 DEF TypeOK, dooption
  <2>2. /\ Handled(willSide, Head(toWill), WillAccepts).half \in Half
        /\ Handled(willSide, Head(toWill), WillAccepts).reply \in Seq(BOOLEAN)
    BY <2>1, HandledType DEF TypeOK
  <2>3. QED
    BY <1>3, <2>1, <2>2 DEF TypeOK, dooption
<1>4. CASE willoption
  <2>1. Head(toDo) \in BOOLEAN /\ Tail(toDo) \in Seq(BOOLEAN)
    BY <1>4 DEF TypeOK, willoption
  <2>2. /\ Handled(doSide, Head(toDo), DoAccepts).half \in Half
        /\ Handled(doSide, Head(toDo), DoAccepts).reply \in Seq(BOOLEAN)
    BY <2>1, HandledType DEF TypeOK
  <2>3. QED
    BY <1>4, <2>1, <2>2 DEF TypeOK, willoption
<1>5. CASE UNCHANGED vars
  BY <1>5 DEF TypeOK, vars
<1>6. QED
  BY <1>1, <1>2, <1>3, <1>4, <1>5 DEF Next

\* The type invariant of the option's negotiation.
THEOREM OptionType == Spec => []TypeOK
<1>1. Init => TypeOK
  BY DEF Init, TypeOK, Off, Half
<1>2. QED
  BY <1>1, TypeStep, PTL DEF Spec
-----------------------------------------------------------------------------
\* Flip(b, n) is b negated n times.
LEMMA FlipFacts ==
  ASSUME NEW b \in BOOLEAN, NEW n \in Nat
  PROVE  /\ Flip(b, n) \in BOOLEAN
         /\ Flip(b, 0) = b
         /\ Flip(b, n + 1) = ~Flip(b, n)
         /\ Flip(~b, n) = ~Flip(b, n)
         /\ Flip(Flip(b, n), n) = b
<1>1. n % 2 \in {0, 1} /\ (n + 1) % 2 = (IF n % 2 = 0 THEN 1 ELSE 0) /\ 0 % 2 = 0
  OBVIOUS
<1>2. Flip(b, n) \in BOOLEAN /\ Flip(b, 0) = b
  BY <1>1 DEF Flip
<1>3. Flip(b, n + 1) = ~Flip(b, n)
  BY <1>1 DEF Flip
<1>4. Flip(~b, n) = ~Flip(b, n) /\ Flip(Flip(b, n), n) = b
  BY <1>1 DEF Flip
<1>5. QED
  BY <1>2, <1>3, <1>4

\* Taking one from each of two numbers keeps the parity of their sum.
LEMMA FlipPred ==
  ASSUME NEW b \in BOOLEAN, NEW l \in Nat, NEW r \in Nat, l # 0, r # 0
  PROVE  Flip(b, (l - 1) + (r - 1)) = Flip(b, l + r)
<1>1. ((l - 1) + (r - 1)) % 2 = (l + r) % 2
  OBVIOUS
<1>2. QED
  BY <1>1, Zenon DEF Flip

\* A command sent flips the sender's wish and joins the alternating sequence.
LEMMA InFlightSend ==
  ASSUME NEW c \in Seq(BOOLEAN), NEW want \in BOOLEAN, NEW ps \in BOOLEAN,
         InFlight(c, want, ps)
  PROVE  InFlight(Append(c, ~want), ~want, ps)
<1>0. (~want) \in BOOLEAN
  BY Zenon
<1> DEFINE d == Append(c, ~want)
<1>1. /\ Len(c) \in Nat /\ Len(d) = Len(c) + 1
      /\ \A i \in 1..Len(c) : d[i] = c[i]
      /\ d[Len(c) + 1] = ~want
  OBVIOUS
<1> HIDE DEF d
<1>2. ASSUME NEW i \in 1..Len(d) PROVE d[i] = Flip(~want, Len(d) - i)
  <2>1. CASE i = Len(c) + 1
    <3>1. Len(d) - i = 0 /\ d[i] = ~want
      BY <1>1, <2>1
    <3>2. Flip(~want, 0) = ~want
      BY FlipFacts, 0 \in Nat
    <3>3. QED
      BY <3>1, <3>2
  <2>2. CASE i \in 1..Len(c)
    <3>1. d[i] = c[i] /\ c[i] = Flip(want, Len(c) - i)
      BY <1>1, <2>2 DEF InFlight
    <3>2. Len(c) - i \in Nat /\ Len(d) - i = (Len(c) - i) + 1
      BY <1>1, <2>2
    <3>3. Flip(~want, (Len(c) - i) + 1) = Flip(want, Len(c) - i)
      BY <3>2, FlipFacts, <1>0
    <3>4. QED
      BY <3>1, <3>2, <3>3
  <2>3. QED
    BY <1>1, <2>1, <2>2
<1>3. ps = Flip(~want, Len(d))
  <2>1. ps = Flip(want, Len(c))
    BY DEF InFlight
  <2>2. Flip(~want, Len(c) + 1) = Flip(want, Len(c))
    BY <1>1, FlipFacts, <1>0
  <2>3. QED
    BY <1>1, <2>1, <2>2
<1>4. QED
  BY <1>2, <1>3 DEF InFlight, d

\* The first command in flight is the opposite of what the receiver knows, and
\* the rest keep alternating.
LEMMA InFlightReceive ==
  ASSUME NEW c \in Seq(BOOLEAN), NEW want \in BOOLEAN, NEW ps \in BOOLEAN,
         InFlight(c, want, ps), c # <<>>
  PROVE  /\ Head(c) \in BOOLEAN /\ Tail(c) \in Seq(BOOLEAN)
         /\ Len(c) - 1 \in Nat /\ Len(Tail(c)) = Len(c) - 1
         /\ Head(c) = Flip(want, Len(c) - 1)
         /\ Head(c) = ~ps
         /\ InFlight(Tail(c), want, Head(c))
<1>1. /\ Head(c) \in BOOLEAN /\ Tail(c) \in Seq(BOOLEAN) /\ Head(c) = c[1]
      /\ Len(c) \in Nat /\ Len(c) - 1 \in Nat /\ 1 \in 1..Len(c)
      /\ Len(Tail(c)) = Len(c) - 1
      /\ \A i \in 1..(Len(c) - 1) : Tail(c)[i] = c[i + 1] /\ i + 1 \in 1..Len(c)
  OBVIOUS
<1>2. Head(c) = Flip(want, Len(c) - 1)
  BY <1>1 DEF InFlight
<1>3. Head(c) = ~ps
  <2>1. ps = Flip(want, Len(c)) /\ Len(c) = (Len(c) - 1) + 1
    BY <1>1 DEF InFlight
  <2>2. Flip(want, (Len(c) - 1) + 1) = ~Flip(want, Len(c) - 1)
    BY <1>1, FlipFacts
  <2>3. Flip(want, Len(c) - 1) \in BOOLEAN
    BY <1>1, FlipFacts
  <2>4. QED
    BY <1>2, <2>1, <2>2, <2>3
<1>4. InFlight(Tail(c), want, Head(c))
  <2>1. ASSUME NEW i \in 1..Len(Tail(c)) PROVE Tail(c)[i] = Flip(want, Len(Tail(c)) - i)
    <3>1. i + 1 \in 1..Len(c) /\ Tail(c)[i] = c[i + 1]
      BY <1>1
    <3>2. c[i + 1] = Flip(want, Len(c) - (i + 1))
      BY <3>1 DEF InFlight
    <3>3. Len(c) - (i + 1) = Len(Tail(c)) - i
      BY <1>1
    <3>4. QED
      BY <3>1, <3>2, <3>3
  <2>2. QED
    BY <1>1, <1>2, <2>1 DEF InFlight
<1>5. QED
  BY <1>1, <1>2, <1>3, <1>4

\* The invariant treats the two ends alike.
LEMMA BalancedSymmetric ==
  ASSUME NEW x \in Half, NEW y \in Half,
         NEW cx \in Seq(BOOLEAN), NEW cy \in Seq(BOOLEAN), Balanced(x, y, cx, cy)
  PROVE  Balanced(y, x, cy, cx)
<1>1. /\ x.resp \in Nat /\ y.resp \in Nat /\ Len(cx) \in Nat /\ Len(cy) \in Nat
      /\ x.want \in BOOLEAN /\ y.want \in BOOLEAN
  BY DEF Half
<1>2. x.resp + y.resp = Len(cx) + Len(cy)
  BY DEF Balanced
<1>3. y.want = Flip(x.want, Len(cx) + y.resp)
  BY DEF Balanced
<1>a. Flip(x.want, Len(cx) + y.resp) = Flip(x.want, Len(cy) + x.resp)
  <2>1. (Len(cx) + y.resp) % 2 = (Len(cy) + x.resp) % 2
    <3> DEFINE a == x.resp  b == y.resp  c == Len(cx)  d == Len(cy)
    <3>1. a \in Nat /\ b \in Nat /\ c \in Nat /\ d \in Nat /\ a + b = c + d
      BY <1>1, <1>2
    <3> HIDE DEF a, b, c, d
    <3>2. (c + b) % 2 = (d + a) % 2
      BY <3>1
    <3>3. QED
      BY <3>2 DEF a, b, c, d
  <2>2. QED
    BY <2>1, Zenon DEF Flip
<1>4. x.want = Flip(y.want, Len(cy) + x.resp)
  <2>1. Len(cy) + x.resp \in Nat
    BY <1>1
  <2>2. Flip(Flip(x.want, Len(cy) + x.resp), Len(cy) + x.resp) = x.want
    BY <1>1, <2>1, FlipFacts
  <2>3. QED
    BY <1>3, <1>a, <2>2
<1>5. QED
  BY <1>1, <1>2, <1>4 DEF Balanced

\* A request keeps the balance.
LEMMA BalancedRequest ==
  ASSUME NEW x \in Half, NEW y \in Half, NEW new \in BOOLEAN,
         NEW cx \in Seq(BOOLEAN), NEW cy \in Seq(BOOLEAN), Balanced(x, y, cx, cy),
         MayRequest(x, new)
  PROVE  Balanced(Requested(x, new), y, Append(cx, new), cy)
<1> DEFINE z == Requested(x, new)
<1>1. /\ x.resp \in Nat /\ y.resp \in Nat /\ Len(cx) \in Nat /\ Len(cy) \in Nat
      /\ x.want \in BOOLEAN /\ y.want \in BOOLEAN
      /\ x.state \in BOOLEAN /\ y.state \in BOOLEAN
  BY DEF Half
<1>2. new = ~x.want
  BY <1>1 DEF MayRequest
<1>3. z.want = new /\ z.state = x.state /\ z.resp = x.resp + 1
  BY DEF Requested, Half
<1>4. Len(Append(cx, new)) = Len(cx) + 1
  OBVIOUS
<1>5. InFlight(Append(cx, new), new, y.state)
  BY <1>1, <1>2, InFlightSend DEF Balanced
<1>6. y.want = Flip(new, (Len(cx) + 1) + y.resp)
  <2>1. y.want = Flip(x.want, Len(cx) + y.resp)
    BY DEF Balanced
  <2>2. Len(cx) + y.resp \in Nat /\ (Len(cx) + 1) + y.resp = (Len(cx) + y.resp) + 1
    BY <1>1, SMTT(30)
  <2>3. Flip(new, (Len(cx) + y.resp) + 1) = ~Flip(new, Len(cx) + y.resp)
    BY <2>2, FlipFacts
  <2>4. Flip(new, Len(cx) + y.resp) = ~Flip(x.want, Len(cx) + y.resp)
    BY <1>1, <1>2, <2>2, FlipFacts
  <2>5. QED
    BY <1>1, <2>1, <2>2, <2>3, <2>4
<1>a. x.resp + y.resp = Len(cx) + Len(cy)
  BY DEF Balanced
<1>b. z.resp = x.resp + 1
  BY <1>3
<1>7. z.resp + y.resp = Len(Append(cx, new)) + Len(cy)
  BY <1>1, <1>4, <1>a, <1>b, SMTT(30)
<1> HIDE DEF z
<1>8. Balanced(z, y, Append(cx, new), cy)
  BY <1>3, <1>4, <1>5, <1>6, <1>7 DEF Balanced
<1>9. QED
  BY <1>8 DEF z

\* So does handling a command: an end that waits for no answer always gets a
\* change to agree to, an end that waits gets the answer it asked for.
LEMMA BalancedHandled ==
  ASSUME NEW x \in Half, NEW y \in Half,
         NEW cx \in Seq(BOOLEAN), NEW cy \in Seq(BOOLEAN), Balanced(x, y, cx, cy),
         cx # <<>>
  PROVE  Balanced(x, Handled(y, Head(cx), TRUE).half,
                  Tail(cx), cy \o Handled(y, Head(cx), TRUE).reply)
<1> DEFINE p == Head(cx)
<1>1. /\ x.resp \in Nat /\ y.resp \in Nat /\ Len(cx) \in Nat /\ Len(cy) \in Nat
      /\ x.want \in BOOLEAN /\ y.want \in BOOLEAN
      /\ x.state \in BOOLEAN /\ y.state \in BOOLEAN
  BY DEF Half
<1>2. /\ p \in BOOLEAN /\ Tail(cx) \in Seq(BOOLEAN)
      /\ Len(cx) - 1 \in Nat /\ Len(Tail(cx)) = Len(cx) - 1
      /\ p = Flip(x.want, Len(cx) - 1)
      /\ p = ~y.state
      /\ InFlight(Tail(cx), x.want, p)
  BY <1>1, InFlightReceive DEF Balanced
<1> HIDE DEF p
<1>3. /\ y.want = Flip(x.want, Len(cx) + y.resp)
      /\ x.resp + y.resp = Len(cx) + Len(cy)
      /\ InFlight(cy, y.want, x.state)
  BY DEF Balanced
<1>4. CASE y.resp = 0
  <2>1. p = ~y.want
    <3>1. Len(cx) + y.resp = (Len(cx) - 1) + 1
      BY <1>1, <1>4
    <3>2. Flip(x.want, (Len(cx) - 1) + 1) = ~Flip(x.want, Len(cx) - 1)
      BY <1>1, <1>2, FlipFacts
    <3>3. QED
      BY <1>1, <1>2, <1>3, <3>1, <3>2
  <2>2. /\ Answered(y, p) = y
        /\ AsksChange(Answered(y, p), p)
    BY <1>1, <1>4, <2>1 DEF Answered, AsksChange, Half
  <2>3. Handled(y, p, TRUE).half = Accepted(y, p) /\ Handled(y, p, TRUE).reply = <<p>>
    BY <1>1, <1>2, <2>2 DEF Handled, Positive, Negative
  <2>4. Accepted(y, p).want = p /\ Accepted(y, p).state = p /\ Accepted(y, p).resp = 0
    BY <1>4 DEF Accepted, Half
  <2>5. InFlight(Append(cy, p), p, x.state)
    BY <1>1, <1>3, <2>1, InFlightSend
  <2>6. cy \o <<p>> = Append(cy, p) /\ Len(Append(cy, p)) = Len(cy) + 1
    BY <1>2
  <2>7. x.resp + 0 = Len(Tail(cx)) + (Len(cy) + 1)
    BY <1>1, <1>2, <1>3, <1>4
  <2>8. p = Flip(x.want, Len(Tail(cx)) + 0)
    BY <1>2
  <2>9. Balanced(x, Accepted(y, p), Tail(cx), Append(cy, p))
    BY <1>2, <2>4, <2>5, <2>6, <2>7, <2>8, Zenon DEF Balanced
  <2>10. QED
    BY <2>3, <2>6, <2>9, Zenon DEF p
<1>5. CASE y.resp # 0
  <2>1. /\ Answered(y, p).resp = y.resp - 1 /\ y.resp - 1 \in Nat
        /\ Answered(y, p).want = y.want /\ Answered(y, p).state = y.state
        /\ Answered(y, p) \in Half
    BY <1>1, <1>2, <1>5, HalfTypes DEF Answered, Half
  <2>2. y.want = Flip(x.want, (Len(cx) - 1) + (y.resp - 1))
    <3>1. Len(cx) # 0
      BY <1>1, <1>2
    <3>2. QED
      BY <1>1, <1>3, <1>5, <3>1, FlipPred
  <2>3. ~AsksChange(Answered(y, p), p)
    BY <1>1, <1>2, <2>1, <2>2 DEF AsksChange
  <2>4. /\ Handled(y, p, TRUE).half = Noted(Answered(y, p), p)
        /\ Handled(y, p, TRUE).reply = <<>>
    BY <1>2, <2>3 DEF Handled, Positive, Negative
  <2>5. /\ Noted(Answered(y, p), p).want = y.want /\ Noted(Answered(y, p), p).state = p
        /\ Noted(Answered(y, p), p).resp = y.resp - 1
    BY <2>1 DEF Noted, Half
  <2>6. cy \o <<>> = cy
    OBVIOUS
  <2>7. x.resp + (y.resp - 1) = Len(Tail(cx)) + Len(cy)
    BY <1>1, <1>2, <1>3
  <2>8. Balanced(x, Noted(Answered(y, p), p), Tail(cx), cy)
    BY <1>2, <1>3, <2>2, <2>5, <2>7, Zenon DEF Balanced
  <2>9. QED
    BY <2>4, <2>6, <2>8, Zenon DEF p
<1>6. QED
  BY <1>4, <1>5

\* The inductive invariant of an option that both ends accept: the state
\* machines of telnet.c and state.c keep commands and counters in balance.
THEOREM OptionInvariant == Spec => []OptionInv
<1>1. Init => OptionInv
  <2> SUFFICES ASSUME Init PROVE Balanced(Off, Off, <<>>, <<>>)
    BY Zenon DEF Init, OptionInv
  <2>1. Off.state = FALSE /\ Off.want = FALSE /\ Off.resp = 0
    BY DEF Off
  <2>2. Flip(FALSE, 0) = FALSE
    BY FlipFacts
  <2>4. Len(<<>>) = 0 /\ 0 + 0 = 0 /\ 1..0 = {}
    OBVIOUS
  <2>3. InFlight(<<>>, FALSE, FALSE)
    BY <2>2, <2>4, Zenon DEF InFlight
  <2>5. QED
    BY <2>1, <2>2, <2>3, <2>4, Zenon DEF Balanced
<1>2. TypeOK /\ OptionInv /\ [Next]_vars => OptionInv'
  <2> SUFFICES ASSUME TypeOK, [Next]_vars, WillAccepts, DoAccepts,
                      Balanced(willSide, doSide, toDo, toWill)
               PROVE  Balanced(willSide, doSide, toDo, toWill)'
    BY Zenon DEF OptionInv
  <2>1. /\ willSide \in Half /\ doSide \in Half
        /\ toWill \in Seq(BOOLEAN) /\ toDo \in Seq(BOOLEAN)
    BY DEF TypeOK
  <2>2. Balanced(doSide, willSide, toWill, toDo)
    BY <2>1, BalancedSymmetric
  <2>t. TypeOK'
    BY TypeStep
  <2>u. /\ willSide' \in Half /\ doSide' \in Half
        /\ toWill' \in Seq(BOOLEAN) /\ toDo' \in Seq(BOOLEAN)
    BY <2>t DEF TypeOK
  <2>3. ASSUME NEW new \in BOOLEAN, send_will(new)
        PROVE  Balanced(willSide', doSide', toDo', toWill')
    <3>1. Balanced(Requested(willSide, new), doSide, Append(toDo, new), toWill)
      BY <2>1, <2>3, BalancedRequest, Zenon DEF send_will
    <3>2. QED
      BY <2>3, <3>1, Zenon DEF send_will
  <2>4. ASSUME NEW new \in BOOLEAN, send_do(new)
        PROVE  Balanced(willSide', doSide', toDo', toWill')
    <3>1. Balanced(Requested(doSide, new), willSide, Append(toWill, new), toDo)
      BY <2>1, <2>2, <2>4, BalancedRequest, Zenon DEF send_do
    <3>2. Balanced(doSide', willSide', toWill', toDo')
      BY <2>4, <3>1, Zenon DEF send_do
    <3>3. QED
      BY <2>u, <3>2, BalancedSymmetric, Zenon
  <2>5. CASE dooption
    <3>1. WillAccepts = TRUE
      BY Zenon
    <3>2. Balanced(doSide, Handled(willSide, Head(toWill), TRUE).half,
                   Tail(toWill), toDo \o Handled(willSide, Head(toWill), TRUE).reply)
      BY <2>1, <2>2, <2>5, BalancedHandled, Zenon DEF dooption
    <3>3. Balanced(doSide', willSide', toWill', toDo')
      BY <2>5, <3>1, <3>2, Zenon DEF dooption
    <3>4. QED
      BY <2>u, <3>3, BalancedSymmetric, Zenon
  <2>6. CASE willoption
    <3>1. DoAccepts = TRUE
      BY Zenon
    <3>2. Balanced(willSide, Handled(doSide, Head(toDo), TRUE).half,
                   Tail(toDo), toWill \o Handled(doSide, Head(toDo), TRUE).reply)
      BY <2>1, <2>6, BalancedHandled, Zenon DEF willoption
    <3>3. QED
      BY <2>6, <3>1, <3>2, Zenon DEF willoption
  <2>7. CASE UNCHANGED vars
    BY <2>7, Zenon DEF vars
  <2>8. QED
    BY <2>3, <2>4, <2>5, <2>6, <2>7, Zenon DEF Next
<1>3. QED
  BY <1>1, <1>2, OptionType, PTL DEF Spec

\* Two ends that accept an option agree on it when no command is in flight,
\* however many requests they made and however these crossed.
THEOREM OptionAgreement == Spec => []Agreement
<1>1. TypeOK /\ OptionInv => Agreement
  <2> SUFFICES ASSUME TypeOK, Balanced(willSide, doSide, <<>>, <<>>)
               PROVE  /\ doSide = willSide
                      /\ willSide.state = willSide.want /\ willSide.resp = 0
    BY Zenon DEF OptionInv, Agreement, Quiet
  <2>1. willSide \in Half /\ doSide \in Half
    BY DEF TypeOK
  <2>2. /\ willSide.resp \in Nat /\ doSide.resp \in Nat
        /\ willSide.want \in BOOLEAN /\ doSide.want \in BOOLEAN
    BY <2>1 DEF Half
  <2>3. Len(<<>>) = 0
    OBVIOUS
  <2>4. willSide.resp + doSide.resp = 0 + 0
    BY <2>3 DEF Balanced
  <2>5. willSide.resp = 0 /\ doSide.resp = 0
    BY <2>2, <2>4
  <2>6. Flip(willSide.want, 0) = willSide.want /\ Flip(doSide.want, 0) = doSide.want
    BY <2>2, FlipFacts
  <2>7. doSide.state = willSide.want /\ willSide.state = doSide.want
    BY <2>3, <2>6 DEF Balanced, InFlight
  <2>8. doSide.want = willSide.want
    <3>1. doSide.want = Flip(willSide.want, 0 + 0)
      BY <2>3, <2>5, Zenon DEF Balanced
    <3>2. 0 + 0 = 0
      OBVIOUS
    <3>3. QED
      BY <2>6, <3>1, <3>2
  <2>9. QED
    BY <2>1, <2>5, <2>7, <2>8 DEF Half
<1>2. QED
  BY <1>1, OptionType, OptionInvariant, PTL

----------------------------------------------------------------------------
(* The promise of an encrypted direction, for every set of ciphers.           *)

Choices == Ciphers \cup {"clear"}

(* The values of an unforced channel; OnlyAgreed and Follows need it for Append and Tail. *)
ChannelTypes == ~forced => out \in Choices /\ in \in Choices /\ marks \in Seq(Choices) /\ agreed \subseteq Ciphers

ChannelInv == ChannelTypes /\ Follows /\ OnlyAgreed

(* The last of a sequence, and the others, after its first element was taken.     *)
LEMMA TailLast ==
  ASSUME NEW S, NEW s \in Seq(S), s # <<>>
  PROVE  /\ Tail(s) \in Seq(S)
         /\ Head(s) \in S /\ Head(s) = s[1]
         /\ Tail(s) = <<>> => Head(s) = s[Len(s)]
         /\ Tail(s) # <<>> => Tail(s)[Len(Tail(s))] = s[Len(s)]
         /\ \A i \in 1 .. Len(Tail(s)) : i + 1 \in 1 .. Len(s) /\ Tail(s)[i] = s[i + 1]
  <1>1. Len(s) \in Nat \ {0} /\ Len(Tail(s)) = Len(s) - 1 /\ Tail(s) \in Seq(S) /\ Head(s) = s[1] /\ s[1] \in S
    OBVIOUS
  <1>2. \A i \in 1 .. Len(Tail(s)) : i + 1 \in 1 .. Len(s) /\ Tail(s)[i] = s[i + 1]
    BY <1>1
  <1>3. Tail(s) = <<>> => Head(s) = s[Len(s)]
    <2>1. SUFFICES ASSUME Tail(s) = <<>> PROVE Head(s) = s[Len(s)]
      OBVIOUS
    <2>2. Len(<<>>) = 0
      OBVIOUS
    <2>3. Len(Tail(s)) = 0
      BY <2>1, <2>2, Zenon
    <2>4. \A n \in Nat \ {0} : n - 1 = 0 => n = 1
      OBVIOUS
    <2>5. Len(s) = 1
      BY <1>1, <2>3, <2>4, Zenon
    <2> QED BY <1>1, <2>5, Zenon
  <1>4. Tail(s) # <<>> => Tail(s)[Len(Tail(s))] = s[Len(s)]
    <2>1. SUFFICES ASSUME Tail(s) # <<>> PROVE Tail(s)[Len(Tail(s))] = s[Len(s)]
      OBVIOUS
    <2>2. Len(Tail(s)) \in 1 .. Len(Tail(s))
      BY <1>1, <2>1
    <2> QED BY <1>1, <1>2, <2>2
  <1> QED BY <1>1, <1>2, <1>3, <1>4

(* One step keeps the channel's invariant. *)
LEMMA ChannelStep == ChannelInv /\ [ChannelNext]_chvars => ChannelInv'
  <1> SUFFICES ASSUME ChannelInv, [ChannelNext]_chvars, ~forced' PROVE ChannelInv'
    BY DEF ChannelInv, ChannelTypes, Follows, OnlyAgreed
  <1>1. CASE UNCHANGED chvars
    BY <1>1 DEF ChannelInv, ChannelTypes, Follows, OnlyAgreed, chvars, Choices
  <1>2. CASE ChannelNext
    <2> USE DEF Choices
    <2>1. /\ ~forced /\ out \in Choices /\ in \in Choices /\ marks \in Seq(Choices) /\ agreed \subseteq Ciphers
          /\ (IF marks = <<>> THEN in = out ELSE marks[Len(marks)] = out)
          /\ out \in agreed \cup {"clear"} /\ in \in agreed \cup {"clear"}
          /\ \A i \in 1 .. Len(marks) : marks[i] \in agreed \cup {"clear"}
      BY <1>2 DEF ChannelNext, Forced, ChannelInv, ChannelTypes, Follows, OnlyAgreed
    <2>2. CASE Agree
      BY <2>1, <2>2 DEF Agree, ChannelInv, ChannelTypes, Follows, OnlyAgreed
    <2>3. CASE TakeMark
      <3>1. /\ Tail(marks) \in Seq(Choices) /\ Head(marks) \in Choices /\ Head(marks) = marks[1] /\ 1 \in 1 .. Len(marks)
            /\ Tail(marks) = <<>> => Head(marks) = marks[Len(marks)]
            /\ Tail(marks) # <<>> => Tail(marks)[Len(Tail(marks))] = marks[Len(marks)]
            /\ \A i \in 1 .. Len(Tail(marks)) : i + 1 \in 1 .. Len(marks) /\ Tail(marks)[i] = marks[i + 1]
        BY <2>1, <2>3, TailLast DEF TakeMark
      <3> QED BY <2>1, <2>3, <3>1 DEF TakeMark, ChannelInv, ChannelTypes, Follows, OnlyAgreed
    <2>4. ASSUME NEW c \in agreed \cup {"clear"}, SwitchTo(c) PROVE ChannelInv'
      <3>1. /\ marks' \in Seq(Choices) /\ marks' # <<>> /\ marks'[Len(marks')] = c
            /\ \A i \in 1 .. Len(marks') : marks'[i] = c \/ (i \in 1 .. Len(marks) /\ marks'[i] = marks[i])
        BY <2>1, <2>4 DEF SwitchTo
      <3> QED BY <2>1, <2>4, <3>1 DEF SwitchTo, ChannelInv, ChannelTypes, Follows, OnlyAgreed
    <2> QED BY <1>2, <2>2, <2>3, <2>4 DEF ChannelNext, Forced
  <1> QED BY <1>1, <1>2

(* In a channel that is not forced, a reader that has read everything reads   *)
(* what is written, whatever switches were under way: libtelnet's START and   *)
(* END marks are enough to keep the two ends of a direction together.  A      *)
(* direction of the connection is forced (Excused of TelnetSecure) once the    *)
(* user has changed the type, or when the daemon's proof is not believed.     *)
THEOREM ReaderFollows == ChannelSpec => []Follows
  <1>1. ChannelInit => ChannelInv
    BY DEF ChannelInit, ChannelInv, ChannelTypes, Follows, OnlyAgreed, Choices
  <1>2. ChannelInv => Follows
    BY DEF ChannelInv
  <1> QED BY <1>1, <1>2, ChannelStep, PTL DEF ChannelSpec

(* In a channel that is not forced, no type is ever in use, or on its way,    *)
(* without agreement on its key and initial vector.                           *)
THEOREM NeverUnagreed == ChannelSpec => []OnlyAgreed
  <1>1. ChannelInit => ChannelInv
    BY DEF ChannelInit, ChannelInv, ChannelTypes, Follows, OnlyAgreed, Choices
  <1>2. ChannelInv => OnlyAgreed
    BY DEF ChannelInv
  <1> QED BY <1>1, <1>2, ChannelStep, PTL DEF ChannelSpec
=============================================================================
