------------------------ MODULE ServerSession_proofs -------------------------
(***************************************************************************)
(* The relay of a server session delivers a prefix of what it read, in     *)
(* order, never has two operations of a kind on one socket, and never      *)
(* strands a direction: for every capacity, read size, stream length and   *)
(* both transports.                                                        *)
(***************************************************************************)
EXTENDS ServerSession, TLAPS, SequenceTheorems

-----------------------------------------------------------------------------
\* The ring of SessionBuffer is a queue: what the copy loop of enqueue_write
\* stores behind the bytes held is what peek() and consume() later find in
\* front, across the end of the vector.

\* The vector index of an offset from the read position, without the modulus.
LEMMA IndexMod ==
    ASSUME NEW a \in 0 .. (2 * Capacity - 1)
    PROVE  /\ a < Capacity => a % Capacity = a
           /\ a >= Capacity => a % Capacity = a - Capacity
           /\ a % Capacity \in Index
  BY RingAssumption, SMT DEF Index

\* Two offsets less than a whole turn apart are different places.
LEMMA IndexInjective ==
    ASSUME NEW r \in Index, NEW i \in Index, NEW j \in Index,
           (r + i) % Capacity = (r + j) % Capacity
    PROVE  i = j
  <1>1. r + i \in 0 .. (2 * Capacity - 1) /\ r + j \in 0 .. (2 * Capacity - 1)
    BY RingAssumption, SMT DEF Index
  <1>2. CASE r + i < Capacity
    BY <1>1, <1>2, IndexMod, RingAssumption, SMT DEF Index
  <1>3. CASE r + i >= Capacity
    BY <1>1, <1>3, IndexMod, RingAssumption, SMT DEF Index
  <1>. QED  BY <1>1, <1>2, <1>3, RingAssumption, SMT DEF Index

\* Places behind the bytes held, up to the end of the vector.
LEMMA IndexBehind ==
    ASSUME NEW r \in Index, NEW u \in 0 .. Capacity, NEW n \in Nat,
           u + n <= Capacity, ((r + u) % Capacity) + n <= Capacity,
           NEW i \in 0 .. (n - 1)
    PROVE  (r + u + i) % Capacity = ((r + u) % Capacity) + i
  <1>1. /\ r \in Nat /\ u \in Nat /\ i \in Nat /\ Capacity \in Nat
        /\ r + u \in 0 .. (2 * Capacity - 1) /\ r + u + i \in 0 .. (2 * Capacity - 1)
    BY RingAssumption, SMT DEF Index
  <1>2. CASE r + u < Capacity
    <2>1. (r + u) % Capacity = r + u
      BY <1>1, <1>2, IndexMod
    <2>. QED  BY <1>1, <2>1, IndexMod, SMT
  <1>3. CASE r + u >= Capacity
    <2>1. (r + u) % Capacity = r + u - Capacity
      BY <1>1, <1>3, IndexMod
    <2>2. (r + u + i) % Capacity = r + u + i - Capacity
      <3>1. r + u + i >= Capacity
        BY <1>1, <1>3, SMT
      <3>. QED  BY <1>1, <3>1, IndexMod
    <2>. QED  BY <1>1, <2>1, <2>2, SMT
  <1>. QED  BY <1>1, <1>2, <1>3, SMT

\* They are none of the places of the bytes held.
LEMMA IndexApart ==
    ASSUME NEW r \in Index, NEW u \in 0 .. Capacity, NEW n \in Nat,
           u + n <= Capacity, ((r + u) % Capacity) + n <= Capacity,
           NEW i \in 0 .. (u - 1)
    PROVE  (r + i) % Capacity \in Index \ (((r + u) % Capacity) .. (((r + u) % Capacity) + n - 1))
  <1>1. /\ r \in Nat /\ u \in Nat /\ i \in Nat /\ Capacity \in Nat
        /\ r + u \in 0 .. (2 * Capacity - 1) /\ r + i \in 0 .. (2 * Capacity - 1)
    BY RingAssumption, SMT DEF Index
  <1>2. (r + i) % Capacity \in Index
    BY <1>1, IndexMod
  <1>3. SUFFICES ASSUME NEW k \in 0 .. (n - 1), (r + i) % Capacity = ((r + u) % Capacity) + k
                 PROVE  FALSE
    BY <1>1, <1>2, SMT DEF Index
  <1>4. (r + (u + k)) % Capacity = ((r + u) % Capacity) + k
    BY <1>1, IndexBehind, SMT
  <1>5. u + k \in Index /\ i \in Index
    BY <1>1, SMT DEF Index
  <1>6. i = u + k
    BY <1>3, <1>4, <1>5, IndexInjective
  <1>. QED  BY <1>1, <1>6, SMT

\* A ring that holds no more than its capacity, which every live session's does.
SoundRing == {r \in Ring : r.used <= Capacity}

LEMMA SoundFields ==
    ASSUME NEW r \in SoundRing
    PROVE  /\ r.read_pos \in Index /\ r.read_pos \in Nat
           /\ r.used \in 0 .. Capacity /\ r.used \in Nat
           /\ r.buf \in [Index -> Nat]
           /\ WritePos(r) \in Index /\ WritePos(r) \in Nat
  BY RingAssumption, SMT DEF SoundRing, Ring, Index, WritePos

\* The bytes of s behind the first u are first, first + 1, ...
Holds(s, u, first) ==
    \A i \in 0 .. (s.used - u - 1) : s.buf[(s.read_pos + u + i) % Capacity] = first + i

\* s holds what r holds, in front.
Extends(s, r) ==
    /\ s.read_pos = r.read_pos
    /\ \A i \in 0 .. (r.used - 1) :
          s.buf[(r.read_pos + i) % Capacity] = r.buf[(r.read_pos + i) % Capacity]

\* A chunk that fits leaves the bytes held alone and adds its own behind them.
LEMMA PutChunkAppends ==
    ASSUME NEW r \in SoundRing, NEW first \in Nat, NEW n \in Nat,
           r.used + n <= Capacity, WritePos(r) + n <= Capacity
    PROVE  /\ PutChunk(r, first, n) \in SoundRing
           /\ PutChunk(r, first, n).used = r.used + n
           /\ Extends(PutChunk(r, first, n), r)
           /\ Holds(PutChunk(r, first, n), r.used, first)
  <1>. DEFINE s == PutChunk(r, first, n)
              w == WritePos(r)
              b == [i \in Index |-> IF i \in w .. (w + n - 1) THEN first + (i - w) ELSE r.buf[i]]
  <1>1. s = [buf |-> b, read_pos |-> r.read_pos, used |-> r.used + n]
    BY DEF PutChunk
  <1>2. w \in Index /\ w \in Nat
    BY SoundFields
  <1>. HIDE DEF w
  <1>3. b \in [Index -> Nat]
    BY <1>2, SoundFields, RingAssumption, SMT DEF Index
  <1>4. s \in SoundRing /\ s.used = r.used + n
    BY <1>1, <1>3, SoundFields, RingAssumption, SMT DEF SoundRing, Ring
  <1>5. ASSUME NEW i \in 0 .. (n - 1)
        PROVE  s.buf[(r.read_pos + r.used + i) % Capacity] = first + i
    <2>1. (r.read_pos + r.used + i) % Capacity = w + i
      BY SoundFields, IndexBehind DEF WritePos, w
    <2>2. w + i \in Index
      BY <1>2, SoundFields, RingAssumption, SMT DEF Index, w
    <2>3. b[w + i] = first + i
      BY <1>2, <2>2, SMT
    <2>. QED  BY <1>1, <2>1, <2>3
  <1>6. ASSUME NEW i \in 0 .. (r.used - 1)
        PROVE  s.buf[(r.read_pos + i) % Capacity] = r.buf[(r.read_pos + i) % Capacity]
    <2>1. (r.read_pos + i) % Capacity \in Index \ (w .. (w + n - 1))
      BY SoundFields, IndexApart DEF WritePos, w
    <2>2. b[(r.read_pos + i) % Capacity] = r.buf[(r.read_pos + i) % Capacity]
      BY <2>1
    <2>. QED  BY <1>1, <2>2
  <1>7. Extends(s, r)
    BY <1>1, <1>6 DEF Extends
  <1>8. Holds(s, r.used, first)
    <2>1. s.read_pos = r.read_pos /\ s.used - r.used - 1 = n - 1
      BY <1>1, SoundFields, SMT
    <2>. QED  BY <1>5, <2>1, Zenon DEF Holds
  <1>. QED  BY <1>4, <1>7, <1>8

\* prepare() grants all that is asked for, or all up to the end of the vector.
LEMMA PrepareGrants ==
    ASSUME NEW r \in SoundRing, NEW len \in Nat, r.used + len <= Capacity
    PROVE  /\ Prepare(r, len) \in Nat
           /\ Prepare(r, len) <= len
           /\ WritePos(r) + Prepare(r, len) <= Capacity
           /\ Prepare(r, len) = len \/ WritePos(r) + Prepare(r, len) = Capacity
  <1>. DEFINE u == r.used
              w == WritePos(r)
  <1>1. u \in Nat /\ w \in Nat /\ w < Capacity /\ Capacity \in Nat /\ u + len <= Capacity
    BY SoundFields, RingAssumption, SMT DEF Index
  <1>2. Prepare(r, len) = IF Capacity - u = 0 THEN 0
                          ELSE Least(Least(len, Capacity - u), Capacity - w)
    BY DEF Prepare
  <1>. HIDE DEF u, w
  <1>3. Capacity - u = 0 => len = 0
    BY <1>1, SMT
  <1>4. Least(len, Capacity - u) = len
    BY <1>1, SMT DEF Least
  <1>5. Prepare(r, len) = IF len <= Capacity - w THEN len ELSE Capacity - w
    BY <1>1, <1>2, <1>3, <1>4, SMT DEF Least
  <1>6. /\ Prepare(r, len) \in Nat /\ Prepare(r, len) <= len
        /\ w + Prepare(r, len) <= Capacity
        /\ Prepare(r, len) = len \/ w + Prepare(r, len) = Capacity
    BY <1>1, <1>5, SMT
  <1>. QED  BY <1>6 DEF w

\* The write position after a chunk that ends at the end of the vector.
LEMMA WritePosWraps ==
    ASSUME NEW r \in SoundRing, NEW s \in SoundRing, NEW n \in Nat \ {0},
           s.read_pos = r.read_pos, s.used = r.used + n, WritePos(r) + n = Capacity
    PROVE  WritePos(s) = 0
  <1>. DEFINE a == r.read_pos + r.used
  <1>1. a \in 0 .. (2 * Capacity - 1) /\ a \in Nat /\ Capacity \in Nat
    BY SoundFields, RingAssumption, SMT DEF Index
  <1>2. WritePos(r) = a % Capacity /\ WritePos(s) = (a + n) % Capacity
    BY SoundFields, SMT DEF WritePos
  <1>3. s.read_pos + s.used = a + n /\ a + n \in 0 .. (2 * Capacity - 1)
    <2>1. r.read_pos \in Nat /\ r.used \in Nat /\ r.read_pos \in 0 .. (Capacity - 1)
      BY SoundFields, Zenon DEF Index
    <2>2. s.used \in 0 .. Capacity
      BY SoundFields, Zenon
    <2>3. r.used + n <= Capacity /\ r.read_pos < Capacity
      BY <1>1, <2>1, <2>2, SMT
    <2>. QED  BY <1>1, <2>1, <2>3, SMT
  <1>. HIDE DEF a
  <1>4. CASE a < Capacity
    BY <1>1, <1>2, <1>3, <1>4, IndexMod, SMT
  <1>5. CASE a >= Capacity
    BY <1>1, <1>2, <1>3, <1>5, IndexMod, SMT
  <1>. QED  BY <1>1, <1>4, <1>5, SMT

\* The copy loop of enqueue_write stores every byte it is given, in order,
\* whenever they fit: two turns are enough, and the silent "if (n == 0) break"
\* is not taken.
THEOREM PutBytesAppends ==
    ASSUME NEW r \in SoundRing, NEW first \in Nat, NEW len \in Nat,
           r.used + len <= Capacity
    PROVE  /\ PutBytes(r, first, len) \in SoundRing
           /\ PutBytes(r, first, len).used = r.used + len
           /\ Extends(PutBytes(r, first, len), r)
           /\ Holds(PutBytes(r, first, len), r.used, first)
  <1>. DEFINE n == Prepare(r, len)
              s == PutChunk(r, first, n)
              m == Prepare(s, len - n)
              t == PutChunk(s, first + n, m)
  <1>1. /\ n \in 0 .. len /\ n \in Nat /\ len - n \in Nat
        /\ WritePos(r) + n <= Capacity
        /\ n = len \/ WritePos(r) + n = Capacity
    BY PrepareGrants, SMT
  <1>. HIDE DEF n
  <1>2. /\ s \in SoundRing /\ s.used = r.used + n
        /\ Extends(s, r) /\ Holds(s, r.used, first)
    BY <1>1, SoundFields, PutChunkAppends, SMT
  <1>. HIDE DEF s
  <1>3. s.used + (len - n) = r.used + len /\ s.used + (len - n) <= Capacity
    BY <1>1, <1>2, SoundFields, SMT
  <1>4. /\ m \in Nat /\ WritePos(s) + m <= Capacity /\ m <= len - n
        /\ m = len - n \/ WritePos(s) + m = Capacity
    BY <1>1, <1>2, <1>3, PrepareGrants
  <1>5. m = len - n
    <2>1. CASE n = len
      BY <1>1, <1>4, <2>1, SMT
    <2>2. CASE n # len /\ n # 0
      <3>1. WritePos(s) = 0
        BY <1>1, <1>2, <2>2, WritePosWraps DEF Extends
      <3>2. s.used > 0 /\ len - n < Capacity
        BY <1>1, <1>2, <1>3, <2>2, SoundFields, SMT
      <3>. QED  BY <1>1, <1>4, <3>1, <3>2, RingAssumption, SMT
    <2>3. CASE n # len /\ n = 0
      <3>1. WritePos(r) = Capacity
        BY <1>1, <2>3, SoundFields, SMT
      <3>. QED  BY <3>1, SoundFields, RingAssumption, SMT DEF Index
    <2>. QED  BY <2>1, <2>2, <2>3
  <1>. HIDE DEF m
  <1>6. s.used + m <= Capacity /\ first + n \in Nat
    BY <1>1, <1>3, <1>5, SMT
  <1>7. /\ t \in SoundRing /\ t.used = s.used + m
        /\ Extends(t, s) /\ Holds(t, s.used, first + n)
    BY <1>2, <1>4, <1>6, PutChunkAppends
  <1>. HIDE DEF t
  <1>8. t.used = r.used + len
    BY <1>1, <1>2, <1>5, <1>7, SoundFields, SMT
  <1>9. Extends(t, r)
    <2>1. t.read_pos = r.read_pos /\ s.read_pos = r.read_pos
      BY <1>2, <1>7 DEF Extends
    <2>2. ASSUME NEW i \in 0 .. (r.used - 1)
          PROVE  t.buf[(r.read_pos + i) % Capacity] = r.buf[(r.read_pos + i) % Capacity]
      <3>1. i \in 0 .. (s.used - 1)
        BY <1>1, <1>2, SoundFields, SMT
      <3>. QED  BY <1>2, <1>7, <2>1, <3>1 DEF Extends
    <2>. QED  BY <2>1, <2>2 DEF Extends
  <1>10. Holds(t, r.used, first)
    <2>1. t.read_pos = r.read_pos /\ s.read_pos = r.read_pos
      BY <1>2, <1>7 DEF Extends
    <2>2. SUFFICES ASSUME NEW i \in 0 .. (len - 1)
                   PROVE  t.buf[(r.read_pos + r.used + i) % Capacity] = first + i
      BY <1>8, <2>1, SoundFields, SMT DEF Holds
    <2>3. CASE i < n
      <3>1. i \in 0 .. (s.used - r.used - 1) /\ r.used + i \in 0 .. (s.used - 1)
        BY <1>1, <1>2, <2>3, SoundFields, SMT
      <3>2. s.buf[(r.read_pos + r.used + i) % Capacity] = first + i
        BY <1>2, <2>1, <3>1 DEF Holds
      <3>3. t.buf[(r.read_pos + (r.used + i)) % Capacity] = s.buf[(r.read_pos + (r.used + i)) % Capacity]
        BY <1>7, <2>1, <3>1 DEF Extends
      <3>. QED  BY <3>2, <3>3, SoundFields, SMT
    <2>4. CASE i >= n
      <3>1. i - n \in 0 .. (t.used - s.used - 1)
        BY <1>1, <1>2, <1>5, <1>7, <2>4, SoundFields, SMT
      <3>2. t.buf[(t.read_pos + s.used + (i - n)) % Capacity] = (first + n) + (i - n)
        BY <1>7, <3>1 DEF Holds
      <3>3. t.read_pos + s.used + (i - n) = r.read_pos + r.used + i /\ (first + n) + (i - n) = first + i
        BY <1>1, <1>2, <2>1, <3>1, SoundFields, SMT
      <3>. QED  BY <3>2, <3>3
    <2>. QED  BY <1>1, <2>3, <2>4, SMT
  <1>11. PutBytes(r, first, len) = t
    BY DEF PutBytes, t, m, s, n
  <1>. QED  BY <1>7, <1>8, <1>9, <1>10, <1>11

\* consume(n) drops the first n bytes held and keeps the rest in order.
THEOREM ConsumeDrops ==
    ASSUME NEW r \in SoundRing, NEW n \in 0 .. r.used
    PROVE  /\ Consume(r, n) \in SoundRing
           /\ Consume(r, n).used = r.used - n
           /\ \A i \in 0 .. (r.used - n - 1) :
                 Consume(r, n).buf[(Consume(r, n).read_pos + i) % Capacity]
                   = r.buf[(r.read_pos + (n + i)) % Capacity]
  <1>. DEFINE s == Consume(r, n)
              a == r.read_pos + n
  <1>1. a \in 0 .. (2 * Capacity - 1) /\ n \in Nat /\ Capacity \in Nat /\ a \in Nat
    BY SoundFields, RingAssumption, SMT DEF Index
  <1>2. a % Capacity \in Index
    BY <1>1, IndexMod
  <1>3. (r.used - n) % SizeT = r.used - n /\ r.used - n \in 0 .. (SizeT - 1) /\ r.used - n <= Capacity
    BY SoundFields, RingAssumption, SMT
  <1>4. s = [buf |-> r.buf, read_pos |-> a % Capacity, used |-> r.used - n]
    BY <1>3 DEF Consume
  <1>5. s \in SoundRing /\ s.used = r.used - n
    BY <1>2, <1>3, <1>4, SoundFields, SMT DEF SoundRing, Ring
  <1>6. ASSUME NEW i \in 0 .. (r.used - n - 1)
        PROVE  s.buf[(s.read_pos + i) % Capacity] = r.buf[(r.read_pos + (n + i)) % Capacity]
    <2>1. r.read_pos + (n + i) = a + i /\ a + i \in 0 .. (2 * Capacity - 1) /\ i \in Nat
      <3>1. /\ r.read_pos \in Nat /\ r.read_pos < Capacity /\ r.used \in Nat /\ r.used <= Capacity
            /\ i \in Nat /\ n + i < r.used
        <4>1. /\ r.read_pos \in Nat /\ r.read_pos \in 0 .. (Capacity - 1)
              /\ r.used \in Nat /\ r.used \in 0 .. Capacity
          BY SoundFields, Zenon DEF Index
        <4>. QED  BY <1>1, <4>1, SMT
      <3>. QED  BY <1>1, <3>1, SMT
    <2>. HIDE DEF a
    <2>2. ((a % Capacity) + i) % Capacity = (a + i) % Capacity
      <3>1. CASE a < Capacity
        <4>1. a % Capacity = a
          BY <1>1, <3>1, IndexMod
        <4>. QED  BY <4>1
      <3>2. CASE a >= Capacity
        <4>1. a % Capacity = a - Capacity /\ (a + i) % Capacity = a + i - Capacity
          BY <1>1, <2>1, <3>2, IndexMod, SMT
        <4>2. a - Capacity + i \in 0 .. (Capacity - 1)
          BY <1>1, <2>1, <3>2, SMT
        <4>3. (a - Capacity + i) % Capacity = a - Capacity + i
          BY <1>1, <4>2, IndexMod, SMT
        <4>. QED  BY <1>1, <2>1, <4>1, <4>3, SMT
      <3>. QED  BY <1>1, <3>1, <3>2, SMT
    <2>. QED  BY <1>4, <2>1, <2>2
  <1>. QED  BY <1>5, <1>6

-----------------------------------------------------------------------------
\* One direction of the relay.

LEMMA PipeFields ==
    ASSUME NEW p \in Pipe
    PROVE  /\ p.ring \in Ring /\ p.sending \in BOOLEAN /\ p.pausing \in BOOLEAN
           /\ p.rd \in Op /\ p.rlen \in Nat /\ p.sd \in Op /\ p.pos \in Nat
           /\ p.len \in Nat /\ p.sent \in Nat /\ p.got \in Nat /\ p.out \in Seq(Nat)
  BY DEF Pipe

\* do_send on a live direction whose send has completed: the send side is in
\* order again, and a paused read is resumed exactly when the ring is empty.
LEMMA DoSend ==
    ASSUME NEW p \in Pipe, Open, RingHolds(p), p.sd = "none", p.sending = TRUE,
           Len(p.out) = Base(p), p.pausing => p.rd = "none"
    PROVE  /\ do_send(p) \in Pipe /\ RingHolds(do_send(p)) /\ SendSide(do_send(p))
           /\ do_send(p).ring = p.ring /\ do_send(p).rlen = p.rlen
           /\ do_send(p).got = p.got /\ do_send(p).out = p.out
           /\ IF p.ring.used = 0 /\ p.pausing
                THEN do_send(p).rd = "pending" /\ do_send(p).pausing = FALSE
                ELSE do_send(p).rd = p.rd /\ do_send(p).pausing = p.pausing
  <1>. DEFINE q == do_send(p)
  <1>0. p.ring \in SoundRing
    BY PipeFields DEF RingHolds, SoundRing
  <1>1. CASE Empty(p.ring) /\ p.pausing
    <2>1. q = [p EXCEPT !.sending = FALSE, !.pausing = FALSE, !.rd = "pending"]
      BY <1>1 DEF do_send, async_bidirectional_read, Start, Pipe
    <2>2. q \in Pipe
      BY <2>1, Zenon DEF Pipe, Op
    <2>3. /\ q.ring = p.ring /\ q.rlen = p.rlen /\ q.got = p.got /\ q.out = p.out
          /\ q.rd = "pending" /\ q.pausing = FALSE /\ q.sending = FALSE /\ q.sd = p.sd
      BY <2>1 DEF Pipe
    <2>4. Base(q) = Base(p)
      BY <1>1, <2>3 DEF Base
    <2>5. RingHolds(q)
      BY <2>3, <2>4 DEF RingHolds
    <2>6. SendSide(q)
      BY <1>1, <2>3, <2>4 DEF SendSide, Empty
    <2>. QED  BY <1>1, <2>2, <2>3, <2>5, <2>6 DEF Empty
  <1>2. CASE Empty(p.ring) /\ ~p.pausing
    <2>1. q = [p EXCEPT !.sending = FALSE]
      BY <1>2 DEF do_send
    <2>2. q \in Pipe
      BY <2>1, Zenon DEF Pipe, Op
    <2>3. /\ q.ring = p.ring /\ q.rlen = p.rlen /\ q.got = p.got /\ q.out = p.out
          /\ q.rd = p.rd /\ q.pausing = p.pausing /\ q.sending = FALSE /\ q.sd = p.sd
      BY <2>1 DEF Pipe
    <2>4. Base(q) = Base(p)
      BY <2>3 DEF Base
    <2>5. RingHolds(q)
      BY <2>3, <2>4 DEF RingHolds
    <2>6. SendSide(q)
      BY <1>2, <2>3, <2>4 DEF SendSide, Empty
    <2>. QED  BY <1>2, <2>2, <2>3, <2>5, <2>6 DEF Empty
  <1>3. CASE ~Empty(p.ring)
    <2>1. q = [p EXCEPT !.sd = "pending", !.pos = p.ring.read_pos, !.len = PeekLen(p.ring)]
      BY <1>3 DEF do_send, Start
    <2>2. /\ p.ring.read_pos \in Nat /\ PeekLen(p.ring) \in 1 .. p.ring.used
          /\ p.ring.read_pos + PeekLen(p.ring) <= Capacity
          /\ PeekLen(p.ring) \in Nat
      BY <1>0, <1>3, SoundFields, RingAssumption, SMT DEF PeekLen, Least, Index, Empty
    <2>3. q \in Pipe
      BY <2>1, <2>2, Zenon DEF Pipe, Op
    <2>4. /\ q.ring = p.ring /\ q.rlen = p.rlen /\ q.got = p.got /\ q.out = p.out
          /\ q.rd = p.rd /\ q.pausing = p.pausing /\ q.sending = p.sending
          /\ q.sd = "pending" /\ q.pos = p.ring.read_pos /\ q.len = PeekLen(p.ring)
      BY <2>1 DEF Pipe
    <2>5. Base(q) = Base(p)
      BY <2>4 DEF Base
    <2>6. RingHolds(q)
      BY <2>4, <2>5 DEF RingHolds
    <2>7. SendSide(q)
      BY <2>2, <2>4, <2>5 DEF SendSide
    <2>. QED  BY <1>3, <2>3, <2>4, <2>6, <2>7 DEF Empty
  <1>. QED  BY <1>1, <1>2, <1>3, PipeFields, Zenon

\* enqueue_write in the read handler of a live direction: there is room for all
\* the bytes of the read, so they are all in the ring and being sent.
LEMMA EnqueueWrite ==
    ASSUME NEW p0 \in Pipe, Open, Relaying(p0), p0.rd = "done",
           NEW p, p = [p0 EXCEPT !.rd = "none"]
    PROVE  /\ enqueue_write(p) \in Pipe
           /\ RingHolds(enqueue_write(p)) /\ SendSide(enqueue_write(p))
           /\ enqueue_write(p).rd = "none" /\ enqueue_write(p).pausing = FALSE
           /\ enqueue_write(p).out = p0.out /\ enqueue_write(p).got = p0.got
  <1>. DEFINE first == p.got - p.rlen + 1
              r == PutBytes(p.ring, first, p.rlen)
              q == [p EXCEPT !.ring = r, !.rlen = 0]
  <1>1. p \in Pipe /\ p0.ring \in SoundRing
    <2>1. p \in Pipe
      BY Zenon DEF Pipe, Op
    <2>2. p0.ring \in SoundRing
      BY PipeFields DEF Relaying, RingHolds, SoundRing
    <2>. QED  BY <2>1, <2>2
  <1>2. /\ p.ring = p0.ring /\ p.rlen = p0.rlen /\ p.got = p0.got /\ p.out = p0.out
        /\ p.sd = p0.sd /\ p.pos = p0.pos /\ p.len = p0.len /\ p.sent = p0.sent
        /\ p.sending = p0.sending /\ p.pausing = p0.pausing /\ p.rd = "none"
    BY DEF Pipe
  <1>3. /\ p.rlen \in Nat /\ p.got \in Nat /\ p.ring.used \in Nat /\ first \in Nat
        /\ p.ring.used + p.rlen <= Capacity /\ Base(p0) = p.got - p.rlen - p.ring.used
    <2>1. p.rlen \in Nat /\ p.got \in Nat /\ p.ring.used \in Nat
      BY <1>1, <1>2, PipeFields, SoundFields
    <2>2. p.rlen <= MaxRead /\ p.ring.used + MaxRead <= Capacity
      BY <1>2 DEF Relaying, ReadSide
    <2>3. Base(p0) = p.got - p.rlen - p.ring.used
      BY <1>2 DEF Base
    <2>4. Base(p0) \in Nat
      BY DEF Relaying, RingHolds
    <2>. QED  BY <2>1, <2>2, <2>3, <2>4, RingAssumption, SessionAssumption, SMT
  <1>. HIDE DEF first
  <1>4. /\ r \in SoundRing /\ r.used = p.ring.used + p.rlen
        /\ Extends(r, p.ring) /\ Holds(r, p.ring.used, first)
    BY <1>1, <1>2, <1>3, PutBytesAppends
  <1>. HIDE DEF r
  <1>5. /\ q \in Pipe
        /\ q.ring = r /\ q.rlen = 0 /\ q.got = p0.got /\ q.out = p0.out
        /\ q.sd = p0.sd /\ q.pos = p0.pos /\ q.len = p0.len /\ q.sent = p0.sent
        /\ q.sending = p0.sending /\ q.pausing = p0.pausing /\ q.rd = "none"
    BY <1>1, <1>2, <1>4, Zenon DEF Pipe, SoundRing
  <1>6. Base(q) = Base(p0)
    BY <1>2, <1>3, <1>4, <1>5, SMT DEF Base
  <1>7. RingHolds(q)
    <2>1. Base(q) \in Nat /\ q.ring.used <= Capacity
      BY <1>2, <1>3, <1>4, <1>5, <1>6, SMT DEF Relaying, RingHolds
    <2>2. ASSUME NEW i \in 0 .. (q.ring.used - 1)
          PROVE  q.ring.buf[(q.ring.read_pos + i) % Capacity] = Base(q) + i + 1
      <3>1. CASE i < p.ring.used
        <4>1. i \in 0 .. (p.ring.used - 1)
          BY <1>3, <3>1, SMT
        <4>2. p.ring.buf[(p.ring.read_pos + i) % Capacity] = Base(p0) + i + 1
          BY <1>2, <4>1 DEF Relaying, RingHolds
        <4>. QED  BY <1>4, <1>5, <1>6, <4>1, <4>2 DEF Extends
      <3>2. CASE i >= p.ring.used
        <4>. DEFINE j == i - p.ring.used
        <4>1. j \in 0 .. (r.used - p.ring.used - 1)
          BY <1>3, <1>4, <1>5, <3>2, SMT
        <4>2. r.buf[(r.read_pos + p.ring.used + j) % Capacity] = first + j
          BY <1>4, <4>1 DEF Holds
        <4>3. r.read_pos + p.ring.used + j = r.read_pos + i
          BY <1>3, <1>4, <4>1, SoundFields, SMT
        <4>4. first + j = Base(q) + i + 1
          BY <1>3, <1>6, <4>1, SMT DEF first
        <4>. QED  BY <1>5, <4>2, <4>3, <4>4
      <3>. QED  BY <1>3, <1>4, <1>5, <3>1, <3>2, SMT
    <2>. QED  BY <2>1, <2>2 DEF RingHolds
  <1>8. q.pausing = FALSE
    BY <1>5, PipeFields DEF Relaying, ReadSide
  <1>9. CASE q.sending
    <2>1. enqueue_write(p) = q
      BY <1>9 DEF enqueue_write, q, r, first
    <2>2. SendSide(q)
      <3>1. r.read_pos = p0.ring.read_pos /\ p0.ring.used <= r.used /\ p0.ring.used \in Nat /\ r.used \in Nat
        BY <1>2, <1>3, <1>4, SoundFields, SMT DEF Extends
      <3>2. SendSide(p0) /\ q.sd # "none"
        BY <1>5, <1>9 DEF Relaying, SendSide
      <3>. QED  BY <1>5, <1>6, <1>9, <3>1, <3>2, PipeFields, SMT DEF SendSide
    <2>. QED  BY <1>5, <1>7, <1>8, <2>1, <2>2, Zenon
  <1>10. CASE ~q.sending
    <2>. DEFINE t == [q EXCEPT !.sending = TRUE]
    <2>1. enqueue_write(p) = do_send(t)
      BY <1>10 DEF enqueue_write, q, r, first
    <2>2. /\ t \in Pipe /\ t.ring = q.ring /\ t.rlen = q.rlen /\ t.got = q.got /\ t.out = q.out
          /\ t.sd = q.sd /\ t.rd = q.rd /\ t.pausing = q.pausing /\ t.sending = TRUE
      BY <1>5, Zenon DEF Pipe
    <2>3. Base(t) = Base(q) /\ RingHolds(t)
      BY <1>7, <2>2 DEF Base, RingHolds
    <2>4. t.sd = "none" /\ Len(t.out) = Base(t)
      BY <1>5, <1>6, <1>10, <2>2, <2>3 DEF Relaying, SendSide
    <2>. HIDE DEF t
    <2>5. t.pausing = FALSE /\ t.rd = "none"
      BY <1>5, <1>8, <2>2
    <2>6. /\ do_send(t) \in Pipe /\ RingHolds(do_send(t)) /\ SendSide(do_send(t))
          /\ do_send(t).got = t.got /\ do_send(t).out = t.out
          /\ do_send(t).rd = t.rd /\ do_send(t).pausing = t.pausing
      BY <2>2, <2>3, <2>4, <2>5, DoSend, Zenon
    <2>. QED  BY <1>5, <2>1, <2>2, <2>5, <2>6
  <1>. QED  BY <1>9, <1>10, Zenon

\* The read handler of a live direction: it reads on, or pauses behind a send.
LEMMA LiveRead ==
    ASSUME NEW p0 \in Pipe, Open, Relaying(p0), InOrder(p0), p0.rd = "done",
           NEW p, p = [p0 EXCEPT !.rd = "none"]
    PROVE  /\ async_bidirectional_write(p) \in Pipe
           /\ Relaying(async_bidirectional_write(p)) /\ InOrder(async_bidirectional_write(p))
  <1>. DEFINE q == enqueue_write(p)
              t == async_bidirectional_write(p)
  <1>1. /\ q \in Pipe /\ RingHolds(q) /\ SendSide(q)
        /\ q.rd = "none" /\ q.pausing = FALSE /\ q.out = p0.out /\ q.got = p0.got
    BY EnqueueWrite, Zenon
  <1>. HIDE DEF q
  <1>2. q.ring.used \in Nat /\ q.ring.used <= Capacity
    BY <1>1, PipeFields, SoundFields DEF RingHolds, SoundRing
  <1>3. CASE HasSpace(q.ring, MaxRead)
    <2>1. t = [q EXCEPT !.rd = "pending"]
      BY <1>1, <1>3 DEF async_bidirectional_write, async_bidirectional_read, Start, q
    <2>2. /\ t \in Pipe /\ t.ring = q.ring /\ t.rlen = q.rlen /\ t.got = q.got /\ t.out = q.out
          /\ t.sd = q.sd /\ t.pos = q.pos /\ t.len = q.len /\ t.sent = q.sent
          /\ t.sending = q.sending /\ t.pausing = FALSE /\ t.rd = "pending"
      BY <1>1, <2>1 DEF Pipe, Op
    <2>3. Base(t) = Base(q)
      BY <1>1, <2>2 DEF Base
    <2>. HIDE DEF t
    <2>4. RingHolds(t) /\ SendSide(t) /\ InOrder(t)
      BY <1>1, <2>2, <2>3 DEF RingHolds, SendSide, InOrder
    <2>5. ReadSide(t)
      BY <1>3, <2>2 DEF ReadSide, HasSpace
    <2>. QED  BY <2>2, <2>4, <2>5 DEF Relaying, t
  <1>4. CASE ~HasSpace(q.ring, MaxRead)
    <2>1. t = [q EXCEPT !.pausing = TRUE]
      BY <1>4 DEF async_bidirectional_write, q
    <2>2. /\ t \in Pipe /\ t.ring = q.ring /\ t.rlen = q.rlen /\ t.got = q.got /\ t.out = q.out
          /\ t.sd = q.sd /\ t.pos = q.pos /\ t.len = q.len /\ t.sent = q.sent
          /\ t.sending = q.sending /\ t.pausing = TRUE /\ t.rd = "none"
      BY <1>1, <2>1, Zenon DEF Pipe, Op
    <2>3. Base(t) = Base(q)
      BY <1>1, <2>2 DEF Base
    <2>. HIDE DEF t
    <2>4. RingHolds(t) /\ SendSide(t) /\ InOrder(t)
      BY <1>1, <2>2, <2>3 DEF RingHolds, SendSide, InOrder
    <2>5. q.ring.used # 0
      BY <1>2, <1>4, SessionAssumption, RingAssumption, SMT DEF HasSpace
    <2>6. q.sending
      BY <1>1, <2>5 DEF SendSide
    <2>7. ReadSide(t)
      BY <2>2, <2>6 DEF ReadSide
    <2>. QED  BY <2>2, <2>4, <2>7 DEF Relaying, t
  <1>. QED  BY <1>3, <1>4

\* The send handler of a live direction: it sends on, or resumes a paused read.
LEMMA LiveSend ==
    ASSUME NEW p0 \in Pipe, Open, Relaying(p0), InOrder(p0), p0.sd = "done",
           NEW p, p = [p0 EXCEPT !.sd = "none", !.pos = 0, !.len = 0, !.sent = 0],
           NEW c, c = [p EXCEPT !.ring = Consume(@, p0.sent)]
    PROVE  do_send(c) \in Pipe /\ Relaying(do_send(c)) /\ InOrder(do_send(c))
  <1>. DEFINE r == Consume(p0.ring, p0.sent)
              t == do_send(c)
  <1>1. p0.ring \in SoundRing
    BY PipeFields DEF Relaying, RingHolds, SoundRing
  <1>2. /\ p0.sent \in Nat /\ p0.ring.used \in Nat /\ p0.sent \in 0 .. p0.ring.used
        /\ Len(p0.out) = Base(p0) + p0.sent
    BY <1>1, SoundFields, PipeFields, SMT DEF Relaying, SendSide
  <1>3. /\ r \in SoundRing /\ r.used = p0.ring.used - p0.sent
        /\ \A i \in 0 .. (p0.ring.used - p0.sent - 1) :
              r.buf[(r.read_pos + i) % Capacity]
                = p0.ring.buf[(p0.ring.read_pos + (p0.sent + i)) % Capacity]
    BY <1>1, <1>2, ConsumeDrops
  <1>4. p.ring = p0.ring /\ p \in Pipe
    BY Zenon DEF Pipe, Op
  <1>5. /\ c \in Pipe /\ c.ring = r /\ c.rlen = p0.rlen /\ c.got = p0.got /\ c.out = p0.out
        /\ c.sd = "none" /\ c.rd = p0.rd /\ c.pausing = p0.pausing /\ c.sending = p0.sending
    BY <1>3, <1>4, ZenonT(30) DEF Pipe, Op, SoundRing
  <1>. HIDE DEF r
  <1>6. Base(p0) \in Nat /\ Base(c) = Base(p0) + p0.sent
    <2>1. Base(p0) \in Nat
      BY DEF Relaying, RingHolds
    <2>. QED  BY <1>2, <1>3, <1>5, <2>1, PipeFields, SMT DEF Base
  <1>7. RingHolds(c)
    <2>1. Base(c) \in Nat /\ c.ring.used <= Capacity
      BY <1>2, <1>3, <1>5, <1>6, SMT DEF SoundRing
    <2>2. ASSUME NEW i \in 0 .. (c.ring.used - 1)
          PROVE  c.ring.buf[(c.ring.read_pos + i) % Capacity] = Base(c) + i + 1
      <3>1. i \in 0 .. (p0.ring.used - p0.sent - 1) /\ p0.sent + i \in 0 .. (p0.ring.used - 1)
        BY <1>2, <1>3, <1>5, SMT
      <3>2. p0.ring.buf[(p0.ring.read_pos + (p0.sent + i)) % Capacity] = Base(p0) + (p0.sent + i) + 1
        BY <3>1 DEF Relaying, RingHolds
      <3>3. Base(p0) + (p0.sent + i) + 1 = Base(c) + i + 1
        BY <1>2, <1>6, <3>1, SMT
      <3>. QED  BY <1>3, <1>5, <3>1, <3>2, <3>3
    <2>. QED  BY <2>1, <2>2 DEF RingHolds
  <1>8. c.sending = TRUE /\ Len(c.out) = Base(c) /\ (c.pausing => c.rd = "none")
    BY <1>2, <1>5, <1>6, PipeFields DEF Relaying, SendSide, ReadSide
  <1>9. /\ t \in Pipe /\ RingHolds(t) /\ SendSide(t)
        /\ t.ring = r /\ t.rlen = p0.rlen /\ t.got = p0.got /\ t.out = p0.out
        /\ IF r.used = 0 /\ p0.pausing
             THEN t.rd = "pending" /\ t.pausing = FALSE
             ELSE t.rd = p0.rd /\ t.pausing = p0.pausing
    <2>1. /\ do_send(c) \in Pipe /\ RingHolds(do_send(c)) /\ SendSide(do_send(c))
          /\ do_send(c).ring = c.ring /\ do_send(c).rlen = c.rlen
          /\ do_send(c).got = c.got /\ do_send(c).out = c.out
          /\ IF c.ring.used = 0 /\ c.pausing
               THEN do_send(c).rd = "pending" /\ do_send(c).pausing = FALSE
               ELSE do_send(c).rd = c.rd /\ do_send(c).pausing = c.pausing
      <3>1. /\ c \in Pipe /\ c.sd = "none" /\ c.sending = TRUE /\ Len(c.out) = Base(c)
            /\ (c.pausing => c.rd = "none") /\ RingHolds(c)
        BY <1>5, <1>7, <1>8
      <3>. QED  BY <3>1, DoSend, Zenon
    <2>. QED  BY <1>5, <2>1
  <1>. HIDE DEF t
  <1>10. InOrder(t)
    BY <1>9 DEF InOrder
  <1>11. ReadSide(t)
    <2>1. r.used \in Nat /\ r.used <= p0.ring.used
      BY <1>2, <1>3, SoundFields, SMT
    <2>2. CASE r.used = 0 /\ p0.pausing
      BY <1>9, <2>2, SessionAssumption, RingAssumption, SMT DEF ReadSide
    <2>3. CASE ~(r.used = 0 /\ p0.pausing)
      <3>1. t.rd = p0.rd /\ t.pausing = p0.pausing /\ t.rlen = p0.rlen /\ t.ring = r
        BY <1>9, <2>3
      <3>2. t.pausing => t.sending
        BY <1>9, <2>3, <3>1 DEF SendSide
      <3>3. p0.rd # "none" => r.used + MaxRead <= Capacity
        BY <1>2, <2>1, SessionAssumption, RingAssumption, SMT DEF Relaying, ReadSide
      <3>. QED  BY <3>1, <3>2, <3>3 DEF Relaying, ReadSide
    <2>. QED  BY <2>2, <2>3
  <1>. QED  BY <1>9, <1>10, <1>11 DEF Relaying, t

\* The bytes of the region being sent are the ones that follow those accepted.
LEMMA RegionFollows ==
    ASSUME NEW p \in Pipe, RingHolds(p), SendSide(p), InOrder(p), p.sd = "pending",
           NEW n \in 0 .. p.len
    PROVE  /\ p.out \o Region(p, n) \in Seq(Nat)
           /\ Len(p.out \o Region(p, n)) = Base(p) + n
           /\ \A i \in 1 .. Len(p.out \o Region(p, n)) : (p.out \o Region(p, n))[i] = i
           /\ Base(p) + n <= p.got
  <1>. DEFINE g == Region(p, n)
  <1>1. /\ p.ring \in SoundRing /\ p.len \in 1 .. p.ring.used /\ p.pos = p.ring.read_pos
        /\ p.pos + p.len <= Capacity /\ Len(p.out) = Base(p) /\ Base(p) \in Nat
    BY PipeFields DEF RingHolds, SendSide, SoundRing
  <1>2. p.pos \in Nat /\ p.len \in Nat /\ p.ring.used \in Nat /\ n \in Nat /\ Capacity \in Nat
    BY <1>1, PipeFields, SoundFields, RingAssumption, SMT
  <1>3. ASSUME NEW i \in 1 .. n
        PROVE  p.ring.buf[p.pos + i - 1] = Base(p) + i
    <2>1. i - 1 \in 0 .. (p.ring.used - 1) /\ p.pos + (i - 1) \in 0 .. (Capacity - 1)
      BY <1>1, <1>2, SMT
    <2>2. p.ring.buf[(p.ring.read_pos + (i - 1)) % Capacity] = Base(p) + (i - 1) + 1
      BY <2>1 DEF RingHolds
    <2>3. (p.pos + (i - 1)) % Capacity = p.pos + i - 1
      BY <1>2, <2>1, IndexMod, SMT
    <2>4. Base(p) + (i - 1) + 1 = Base(p) + i
      BY <1>1, <2>1, SMT
    <2>. QED  BY <1>1, <2>2, <2>3, <2>4
  <1>4. /\ g = [i \in 1 .. n |-> Base(p) + i]
        /\ g \in Seq(Nat) /\ Len(g) = n
    <2>1. g = [i \in 1 .. n |-> Base(p) + i]
      BY <1>3 DEF Region
    <2>. QED  BY <1>1, <1>2, <2>1, SMT
  <1>. HIDE DEF g
  <1>5. /\ p.out \in Seq(Nat) /\ p.out \o g \in Seq(Nat) /\ Len(p.out \o g) = Base(p) + n
        /\ \A i \in 1 .. Base(p) + n : (p.out \o g)[i] = IF i <= Base(p) THEN p.out[i] ELSE g[i - Base(p)]
    <2>1. p.out \in Seq(Nat)
      BY PipeFields
    <2>2. /\ p.out \o g \in Seq(Nat) /\ Len(p.out \o g) = Len(p.out) + Len(g)
          /\ \A i \in 1 .. Len(p.out) + Len(g) :
                (p.out \o g)[i] = IF i <= Len(p.out) THEN p.out[i] ELSE g[i - Len(p.out)]
      BY <1>4, <2>1, ConcatProperties
    <2>. QED  BY <1>1, <1>4, <2>1, <2>2, Zenon
  <1>6. ASSUME NEW i \in 1 .. (Base(p) + n) PROVE (p.out \o g)[i] = i
    <2>1. CASE i <= Base(p)
      BY <1>1, <1>2, <1>5, <2>1, SMT DEF InOrder
    <2>2. CASE i > Base(p)
      <3>1. i - Base(p) \in 1 .. n /\ Base(p) + (i - Base(p)) = i
        BY <1>1, <1>2, <2>2, SMT
      <3>. QED  BY <1>1, <1>4, <1>5, <2>2, <3>1, SMT
    <2>3. i <= Base(p) \/ i > Base(p)
      BY <1>1, <1>2, SMT
    <2>. QED  BY <2>1, <2>2, <2>3, Zenon
  <1>7. Base(p) + n <= p.got
    <2>1. /\ p.got \in Nat /\ p.rlen \in Nat
          /\ Base(p) = p.got - (IF p.rd = "done" THEN p.rlen ELSE 0) - p.ring.used
      BY PipeFields DEF Base
    <2>2. Base(p) + p.ring.used <= p.got
      BY <1>2, <2>1, SMT
    <2>3. n \in Nat /\ n <= p.ring.used /\ p.ring.used \in Nat /\ Base(p) \in Nat
      BY <1>1, <1>2, SMT
    <2>4. p.got \in Nat
      BY <2>1
    <2>. QED  BY <2>2, <2>3, <2>4, SMT
  <1>. QED  BY <1>5, <1>6, <1>7 DEF g

-----------------------------------------------------------------------------
\* What destroy() needs of a direction.
Stoppable(p) ==
    /\ p.rd # "overlap" /\ p.sd # "overlap"
    /\ p.sd = "done" => p.sent \in 1 .. Capacity

LEMMA DestroyPipe ==
    ASSUME NEW p \in Pipe, Stoppable(p), InOrder(p)
    PROVE  destroy_pipe(p) \in Pipe /\ Dead(destroy_pipe(p)) /\ InOrder(destroy_pipe(p))
  <1>. DEFINE q == destroy_pipe(p)
  <1>1. /\ p.ring.buf \in [Index -> Nat] /\ Reset(p.ring) \in Ring /\ Reset(p.ring).used = 0
    BY PipeFields, RingAssumption, SMT DEF Ring, Reset, Index
  <1>2. Abort(p.rd) \in Op /\ Abort(p.sd) \in Op
    BY PipeFields DEF Abort, Op
  <1>3. /\ q \in Pipe /\ q.ring = Reset(p.ring) /\ q.pausing = FALSE /\ q.rd = Abort(p.rd)
        /\ q.sd = Abort(p.sd) /\ q.sent = p.sent /\ q.got = p.got /\ q.out = p.out
    BY <1>1, <1>2, Zenon DEF destroy_pipe, Pipe
  <1>. HIDE DEF q
  <1>4. Dead(q)
    BY <1>1, <1>3, PipeFields DEF Dead, Stoppable, Abort, Op
  <1>. QED  BY <1>3, <1>4 DEF InOrder, q

LEMMA RelayingStoppable == ASSUME NEW p \in Pipe, Relaying(p) PROVE Stoppable(p)
  <1>1. p.ring.used <= Capacity /\ p.ring.used \in Nat /\ p.len \in Nat /\ p.sent \in Nat
    BY PipeFields, RingAssumption, SMT DEF Relaying, RingHolds, Ring
  <1>. QED  BY <1>1, RingAssumption, SMT DEF Relaying, ReadSide, SendSide, Stoppable

LEMMA UntouchedFields ==
    ASSUME NEW d \in Direction, NEW p \in Pipe, Untouched(d, p)
    PROVE  /\ p.rd = "none" /\ p.sd = "none" /\ p.pausing = FALSE /\ p.sending = FALSE
           /\ p.ring = EmptyRing /\ p.rlen = 0 /\ p.out = <<>> /\ Stoppable(p)
  <1>1. p = [IdlePipe EXCEPT !.got = p.got]
    BY DEF Untouched
  <1>2. /\ p.rd = "none" /\ p.sd = "none" /\ p.pausing = FALSE /\ p.sending = FALSE
        /\ p.ring = EmptyRing /\ p.rlen = 0 /\ p.out = <<>>
    BY <1>1 DEF IdlePipe
  <1>. QED  BY <1>2 DEF Stoppable

\* A step that ends a live session.
LEMMA DestroyStep ==
    ASSUME Inv, Open, NEW ps \in [Direction -> Pipe],
           \A d \in Direction : Stoppable(ps[d]) /\ InOrder(ps[d]),
           destroy(ps), step' = step
    PROVE  Inv'
  <1>1. state' = "DESTROY" /\ pipe' = [d \in Direction |-> destroy_pipe(ps[d])]
    BY DEF destroy
  <1>2. \A d \in Direction : /\ destroy_pipe(ps[d]) \in Pipe
                             /\ Dead(destroy_pipe(ps[d])) /\ InOrder(destroy_pipe(ps[d]))
    BY DestroyPipe
  <1>3. TypeOK'
    BY <1>1, <1>2 DEF TypeOK, Inv
  <1>4. ~Open'
    BY <1>1 DEF Open
  <1>5. \A d \in Direction : /\ pipe'[d] \in Pipe /\ Dead(pipe'[d]) /\ InOrder(pipe'[d])
    BY <1>1, <1>2
  <1>. QED  BY <1>3, <1>4, <1>5 DEF Inv

\* A step of one direction, which leaves the session as it is.
LEMMA PutStep ==
    ASSUME Inv, NEW d \in Direction, NEW q \in Pipe, Put(d, q), InOrder(q),
           Open => step = "relay" /\ Relaying(q),
           ~Open => Dead(q)
    PROVE  Inv'
  <1>1. pipe' = [pipe EXCEPT ![d] = q] /\ state' = state /\ step' = step
    BY DEF Put
  <1>2. pipe \in [Direction -> Pipe]
    BY DEF Inv, TypeOK
  <1>3. TypeOK' /\ Open' = Open
    BY <1>1, <1>2 DEF Inv, TypeOK, Open
  <1>4. \A e \in Direction : pipe'[e] = IF e = d THEN q ELSE pipe[e]
    BY <1>1, <1>2
  <1>5. CASE Open
    <2>1. \A e \in Direction : InOrder(pipe'[e]) /\ Relaying(pipe'[e])
      BY <1>4, <1>5 DEF Inv
    <2>. QED  BY <1>1, <1>3, <1>5, <2>1 DEF Inv
  <1>6. CASE ~Open
    <2>1. \A e \in Direction : InOrder(pipe'[e]) /\ Dead(pipe'[e])
      BY <1>4, <1>6 DEF Inv
    <2>. QED  BY <1>1, <1>3, <1>6, <2>1 DEF Inv
  <1>. QED  BY <1>5, <1>6

\* An operation can only be outstanding in the relay, or in a dead session.
LEMMA Outstanding ==
    ASSUME Inv, NEW d \in Direction, pipe[d].rd # "none" \/ pipe[d].sd # "none"
    PROVE  /\ pipe[d] \in Pipe /\ InOrder(pipe[d])
           /\ Open => step = "relay" /\ Relaying(pipe[d])
           /\ ~Open => Dead(pipe[d])
  <1>1. pipe[d] \in Pipe
    BY DEF Inv, TypeOK
  <1>2. Open /\ step # "relay" => FALSE
    BY <1>1, UntouchedFields, Zenon DEF Inv
  <1>. QED  BY <1>1, <1>2 DEF Inv

-----------------------------------------------------------------------------
\* The environment's steps.

LEMMA ArriveInv == ASSUME Inv, NEW d \in Direction, Arrive(d) PROVE Inv'
  <1>. DEFINE p == pipe[d]
  <1>1. PICK n \in LeastRead(d) .. MaxRead :
            Put(d, [p EXCEPT !.rd = "done", !.rlen = n, !.got = @ + n])
    BY DEF Arrive
  <1>. DEFINE q == [p EXCEPT !.rd = "done", !.rlen = n, !.got = @ + n]
  <1>2. n \in Nat /\ n <= MaxRead
    BY SessionAssumption, RingAssumption, SMT DEF LeastRead
  <1>3. p.rd = "pending" /\ p \in Pipe /\ InOrder(p) /\ Open /\ step = "relay" /\ Relaying(p)
    BY Outstanding, Zenon DEF Arrive, Dead
  <1>. HIDE DEF p
  <1>4. /\ q \in Pipe /\ q.ring = p.ring /\ q.sending = p.sending /\ q.pausing = p.pausing
        /\ q.rd = "done" /\ q.rlen = n /\ q.sd = p.sd /\ q.pos = p.pos /\ q.len = p.len
        /\ q.sent = p.sent /\ q.got = p.got + n /\ q.out = p.out
    <2>. DEFINE g == p.got + n
    <2>1. g \in Nat
      BY <1>2, <1>3, PipeFields, SMT
    <2>2. q = [p EXCEPT !.rd = "done", !.rlen = n, !.got = g]
      OBVIOUS
    <2>. HIDE DEF g
    <2>3. /\ q \in Pipe /\ q.ring = p.ring /\ q.sending = p.sending /\ q.pausing = p.pausing
          /\ q.rd = "done" /\ q.rlen = n /\ q.sd = p.sd /\ q.pos = p.pos /\ q.len = p.len
          /\ q.sent = p.sent /\ q.got = g /\ q.out = p.out
      BY <1>2, <1>3, <2>1, <2>2, Zenon DEF Pipe, Op
    <2>. QED  BY <2>3 DEF g
  <1>5. Base(q) = Base(p)
    <2>1. p.got \in Nat /\ p.ring.used \in Nat
      BY <1>3, PipeFields, RingAssumption, SMT DEF Ring
    <2>. QED  BY <1>2, <1>3, <1>4, <2>1, SMT DEF Base
  <1>6. InOrder(q)
    BY <1>2, <1>3, <1>4, PipeFields, SMT DEF InOrder
  <1>7. Relaying(q)
    BY <1>2, <1>3, <1>4, <1>5 DEF Relaying, RingHolds, ReadSide, SendSide
  <1>. QED  BY <1>1, <1>3, <1>4, <1>6, <1>7, PutStep DEF p

LEMMA ReadErrorInv == ASSUME Inv, NEW d \in Direction, ReadError(d) PROVE Inv'
  <1>. DEFINE p == pipe[d]
              q == [p EXCEPT !.rd = "failed"]
  <1>1. Put(d, q)
    BY DEF ReadError
  <1>2. p.rd = "pending" /\ p \in Pipe /\ InOrder(p) /\ Open /\ step = "relay" /\ Relaying(p)
    BY Outstanding, Zenon DEF ReadError, Dead
  <1>. HIDE DEF p
  <1>3. /\ q \in Pipe /\ q.ring = p.ring /\ q.sending = p.sending /\ q.pausing = p.pausing
        /\ q.rd = "failed" /\ q.rlen = p.rlen /\ q.sd = p.sd /\ q.pos = p.pos /\ q.len = p.len
        /\ q.sent = p.sent /\ q.got = p.got /\ q.out = p.out
    BY <1>2 DEF Pipe, Op
  <1>4. Base(q) = Base(p)
    BY <1>2, <1>3 DEF Base
  <1>5. InOrder(q) /\ Relaying(q)
    BY <1>2, <1>3, <1>4 DEF InOrder, Relaying, RingHolds, ReadSide, SendSide
  <1>. QED  BY <1>1, <1>2, <1>3, <1>5, PutStep DEF p

\* Both ways a send completes extend out by a part of the region.
LEMMA SentInv ==
    ASSUME Inv, NEW d \in Direction, pipe[d].sd = "pending", NEW n \in 0 .. pipe[d].len,
           NEW q, Put(d, q),
           \/ n > 0 /\ q = [pipe[d] EXCEPT !.sd = "done", !.sent = n, !.out = @ \o Region(pipe[d], n)]
           \/ q = [pipe[d] EXCEPT !.sd = "failed", !.out = @ \o Region(pipe[d], n)]
    PROVE  Inv'
  <1>. DEFINE p == pipe[d]
              o == p.out \o Region(p, n)
  <1>1. /\ p.sd = "pending" /\ p \in Pipe /\ InOrder(p) /\ Open /\ step = "relay" /\ Relaying(p)
    BY Outstanding, Zenon DEF Dead
  <1>2. /\ o \in Seq(Nat) /\ Len(o) = Base(p) + n /\ \A i \in 1 .. Len(o) : o[i] = i
        /\ Base(p) + n <= p.got
    BY <1>1, RegionFollows, Zenon DEF Relaying
  <1>3. n \in Nat /\ p.len \in Nat
    BY <1>1, PipeFields, SMT
  <1>4. \/ n > 0 /\ q = [p EXCEPT !.sd = "done", !.sent = n, !.out = o]
        \/ q = [p EXCEPT !.sd = "failed", !.out = o]
    OBVIOUS
  <1>5. n \in 0 .. p.len
    OBVIOUS
  <1>. HIDE DEF p, o
  <1>6. /\ q \in Pipe /\ q.ring = p.ring /\ q.sending = p.sending /\ q.pausing = p.pausing
        /\ q.rd = p.rd /\ q.rlen = p.rlen /\ q.pos = p.pos /\ q.len = p.len
        /\ q.got = p.got /\ q.out = o
        /\ q.sd = "failed" \/ (q.sd = "done" /\ q.sent = n /\ n > 0)
    <2>1. CASE n > 0 /\ q = [p EXCEPT !.sd = "done", !.sent = n, !.out = o]
      BY <1>1, <1>2, <1>3, <2>1, Zenon DEF Pipe, Op
    <2>2. CASE q = [p EXCEPT !.sd = "failed", !.out = o]
      BY <1>1, <1>2, <2>2, Zenon DEF Pipe, Op
    <2>. QED  BY <1>4, <2>1, <2>2
  <1>7. Base(q) = Base(p)
    BY <1>6 DEF Base
  <1>8. InOrder(q)
    BY <1>2, <1>6 DEF InOrder
  <1>9. RingHolds(q) /\ ReadSide(q)
    BY <1>1, <1>6, <1>7 DEF Relaying, RingHolds, ReadSide
  <1>10. SendSide(q)
    BY <1>1, <1>2, <1>3, <1>5, <1>6, <1>7, SMT DEF Relaying, SendSide
  <1>. QED  BY <1>1, <1>6, <1>8, <1>9, <1>10, PutStep DEF Relaying, p

LEMMA TakeInv == ASSUME Inv, NEW d \in Direction, Take(d) PROVE Inv'
  <1>1. pipe[d].sd = "pending" /\ pipe[d].len \in Nat /\ pipe[d].len > 0
    <2>1. pipe[d].sd = "pending"
      BY DEF Take
    <2>2. pipe[d] \in Pipe /\ Relaying(pipe[d])
      BY <2>1, Outstanding, Zenon DEF Dead
    <2>3. pipe[d].ring.used \in Nat
      BY <2>2, PipeFields, RingAssumption, SMT DEF Ring
    <2>. QED  BY <2>1, <2>2, <2>3, PipeFields, SMT DEF Relaying, SendSide
  <1>2. PICK n \in (IF WholeWrite(d) THEN pipe[d].len ELSE 1) .. pipe[d].len :
            Put(d, [pipe[d] EXCEPT !.sd = "done", !.sent = n, !.out = @ \o Region(pipe[d], n)])
    BY DEF Take
  <1>3. n \in 0 .. pipe[d].len /\ n > 0
    BY <1>1, SMT
  <1>. QED  BY <1>1, <1>2, <1>3, SentInv

LEMMA SendErrorInv == ASSUME Inv, NEW d \in Direction, SendError(d) PROVE Inv'
  <1>1. pipe[d].sd = "pending" /\ pipe[d].len \in Nat
    BY PipeFields DEF SendError, Inv, TypeOK
  <1>2. PICK n \in 0 .. (IF WholeWrite(d) THEN pipe[d].len - 1 ELSE 0) :
            Put(d, [pipe[d] EXCEPT !.sd = "failed", !.out = @ \o Region(pipe[d], n)])
    BY DEF SendError
  <1>3. n \in 0 .. pipe[d].len
    BY <1>1, SMT
  <1>. QED  BY <1>1, <1>2, <1>3, SentInv

-----------------------------------------------------------------------------
\* The completion handlers.

LEMMA ReadHandlerInv == ASSUME Inv, NEW d \in Direction, ReadHandler(d) PROVE Inv'
  <1>. DEFINE p0 == pipe[d]
              p == [p0 EXCEPT !.rd = "none"]
  <1>1. /\ p0.rd \in {"done", "failed"} /\ p0 \in Pipe /\ InOrder(p0)
        /\ (Open => step = "relay" /\ Relaying(p0)) /\ (~Open => Dead(p0))
    BY Outstanding DEF ReadHandler
  <1>2. /\ p \in Pipe /\ p.ring = p0.ring /\ p.pausing = p0.pausing /\ p.rd = "none" /\ p.sd = p0.sd
        /\ p.sent = p0.sent /\ p.got = p0.got /\ p.out = p0.out
    BY <1>1, Zenon DEF Pipe, Op
  <1>3. InOrder(p)
    BY <1>1, <1>2 DEF InOrder
  <1>4. CASE ~Open /\ Put(d, p)
    <2>1. Dead(p)
      BY <1>1, <1>2, <1>4 DEF Dead
    <2>. QED  BY <1>2, <1>3, <1>4, <2>1, PutStep
  <1>5. CASE Open /\ p0.rd = "done" /\ Put(d, async_bidirectional_write(p))
    <2>. HIDE DEF p0
    <2>1. /\ async_bidirectional_write(p) \in Pipe
          /\ Relaying(async_bidirectional_write(p)) /\ InOrder(async_bidirectional_write(p))
      BY <1>1, <1>5, LiveRead
    <2>. QED  BY <1>1, <1>5, <2>1, PutStep
  <1>6. CASE Open /\ p0.rd = "failed" /\ destroy([pipe EXCEPT ![d] = p]) /\ step' = step
    <2>1. Stoppable(p)
      BY <1>1, <1>2, <1>6, RelayingStoppable DEF Stoppable
    <2>2. pipe \in [Direction -> Pipe]
      BY DEF Inv, TypeOK
    <2>3. \A e \in Direction : Stoppable(pipe[e]) /\ InOrder(pipe[e])
      BY <1>1, <1>6, <2>2, RelayingStoppable DEF Inv
    <2>. DEFINE ps == [pipe EXCEPT ![d] = p]
    <2>4. ps \in [Direction -> Pipe] /\ \A e \in Direction : Stoppable(ps[e]) /\ InOrder(ps[e])
      BY <1>2, <1>3, <2>1, <2>2, <2>3
    <2>. HIDE DEF ps
    <2>5. destroy(ps)
      BY <1>6 DEF ps
    <2>. QED  BY <1>6, <2>4, <2>5, DestroyStep
  <1>. QED  BY <1>4, <1>5, <1>6 DEF ReadHandler

LEMMA DeadDoSend ==
    ASSUME NEW c \in Pipe, ~Open, Dead(c), InOrder(c), c.sd = "none", c.ring.used # 0
    PROVE  do_send(c) \in Pipe /\ Dead(do_send(c)) /\ InOrder(do_send(c))
  <1>. DEFINE x == c.ring.read_pos
              y == PeekLen(c.ring)
              q == [c EXCEPT !.sd = "failed", !.pos = x, !.len = y]
  <1>1. do_send(c) = q
    BY DEF do_send, Start, Empty
  <1>2. x \in Nat /\ y \in Nat
    BY PipeFields, RingAssumption, SMT DEF PeekLen, Least, Ring, Index
  <1>. HIDE DEF x, y
  <1>3. /\ q \in Pipe /\ q.sd = "failed" /\ q.rd = c.rd /\ q.pausing = c.pausing
        /\ q.got = c.got /\ q.out = c.out
    BY <1>2, Zenon DEF Pipe, Op
  <1>. HIDE DEF q
  <1>4. Dead(q) /\ InOrder(q)
    BY <1>3 DEF Dead, InOrder
  <1>. QED  BY <1>1, <1>3, <1>4

\* A send that completed before destroy(): the reset ring's used_ wraps to a
\* non-zero value and the send it leads to fails.
LEMMA DeadConsume ==
    ASSUME NEW p0 \in Pipe, Dead(p0), InOrder(p0), p0.sd = "done",
           NEW p, p = [p0 EXCEPT !.sd = "none", !.pos = 0, !.len = 0, !.sent = 0],
           NEW c, c = [p EXCEPT !.ring = Consume(@, p0.sent)]
    PROVE  /\ c \in Pipe /\ Dead(c) /\ InOrder(c) /\ c.sd = "none" /\ c.ring.used # 0
           /\ c.out = p0.out
  <1>. DEFINE r == Consume(p0.ring, p0.sent)
  <1>1. /\ p0.sent \in Nat /\ p0.sent >= 1 /\ p0.sent <= Capacity /\ p0.ring.used = 0
        /\ p0.ring.read_pos \in Nat /\ p0.ring.buf \in [Index -> Nat]
    BY PipeFields, RingAssumption, SMT DEF Dead, Ring, Index
  <1>2. (p0.ring.used - p0.sent) % SizeT = SizeT - p0.sent
    BY <1>1, RingAssumption, SMT
  <1>3. SizeT - p0.sent \in 0 .. (SizeT - 1) /\ SizeT - p0.sent # 0
    BY <1>1, RingAssumption, SMT
  <1>4. (p0.ring.read_pos + p0.sent) % Capacity \in Index
    BY <1>1, RingAssumption, SMT DEF Index
  <1>5. r \in Ring /\ r.used # 0
    BY <1>1, <1>2, <1>3, <1>4 DEF Consume, Ring
  <1>6. p.ring = p0.ring /\ p \in Pipe
    BY Zenon DEF Pipe, Op
  <1>7. /\ c \in Pipe /\ c.ring = r /\ c.got = p0.got /\ c.out = p0.out
        /\ c.sd = "none" /\ c.rd = p0.rd /\ c.pausing = p0.pausing
    BY <1>5, <1>6, ZenonT(30) DEF Pipe, Op
  <1>. HIDE DEF r
  <1>8. Dead(c) /\ InOrder(c)
    BY <1>7 DEF Dead, InOrder
  <1>. QED  BY <1>5, <1>7, <1>8

LEMMA SendHandlerInv == ASSUME Inv, NEW d \in Direction, SendHandler(d) PROVE Inv'
  <1>. DEFINE p0 == pipe[d]
              p == [p0 EXCEPT !.sd = "none", !.pos = 0, !.len = 0, !.sent = 0]
              c == [p EXCEPT !.ring = Consume(@, p0.sent)]
  <1>1. /\ p0.sd \in {"done", "failed"} /\ p0 \in Pipe /\ InOrder(p0)
        /\ (Open => step = "relay" /\ Relaying(p0)) /\ (~Open => Dead(p0))
    BY Outstanding DEF SendHandler
  <1>2. CASE p0.sd = "done" /\ Put(d, do_send(c))
    <2>. HIDE DEF p0
    <2>1. CASE Open
      <3>1. do_send(c) \in Pipe /\ Relaying(do_send(c)) /\ InOrder(do_send(c))
        BY <1>1, <1>2, <2>1, LiveSend
      <3>. QED  BY <1>1, <1>2, <2>1, <3>1, PutStep
    <2>2. CASE ~Open
      <3>1. do_send(c) \in Pipe /\ Dead(do_send(c)) /\ InOrder(do_send(c))
        BY <1>1, <1>2, <2>2, DeadConsume, DeadDoSend
      <3>. QED  BY <1>1, <1>2, <2>2, <3>1, PutStep
    <2>. QED  BY <2>1, <2>2
  <1>3. CASE p0.sd = "failed" /\ destroy([pipe EXCEPT ![d] = p]) /\ step' = step
    <2>1. /\ p \in Pipe /\ p.ring = p0.ring /\ p.pausing = p0.pausing /\ p.rd = p0.rd /\ p.sd = "none"
          /\ p.got = p0.got /\ p.out = p0.out
      BY <1>1, Zenon DEF Pipe, Op
    <2>2. InOrder(p)
      BY <1>1, <2>1 DEF InOrder
    <2>3. pipe \in [Direction -> Pipe]
      BY DEF Inv, TypeOK
    <2>4. CASE Open
      <3>1. Stoppable(p)
        BY <1>1, <2>1, <2>4, RelayingStoppable DEF Stoppable
      <3>2. \A e \in Direction : Stoppable(pipe[e]) /\ InOrder(pipe[e])
        BY <1>1, <2>3, <2>4, RelayingStoppable DEF Inv
      <3>. DEFINE ps == [pipe EXCEPT ![d] = p]
      <3>3. ps \in [Direction -> Pipe] /\ \A e \in Direction : Stoppable(ps[e]) /\ InOrder(ps[e])
        BY <2>1, <2>2, <2>3, <3>1, <3>2
      <3>. HIDE DEF ps
      <3>4. destroy(ps)
        BY <1>3 DEF ps
      <3>. QED  BY <1>3, <2>4, <3>3, <3>4, DestroyStep
    <2>5. CASE ~Open
      <3>1. Put(d, p)
        BY <1>3, <2>5 DEF destroy, Put
      <3>2. Dead(p)
        BY <1>1, <2>1, <2>5 DEF Dead
      <3>. QED  BY <2>1, <2>2, <2>5, <3>1, <3>2, PutStep
    <2>. QED  BY <2>4, <2>5
  <1>. QED  BY <1>2, <1>3 DEF SendHandler

-----------------------------------------------------------------------------
\* Set-up.

\* Before the relay: both directions are untouched, so their fields are known.
LEMMA SettingUp ==
    ASSUME Inv, Open, step # "relay"
    PROVE  /\ pipe \in [Direction -> Pipe]
           /\ \A d \in Direction : /\ Untouched(d, pipe[d]) /\ InOrder(pipe[d])
                                   /\ Stoppable(pipe[d])
  <1>1. pipe \in [Direction -> Pipe] /\ \A d \in Direction : pipe[d] \in Pipe
    BY DEF Inv, TypeOK
  <1>2. \A d \in Direction : Untouched(d, pipe[d]) /\ InOrder(pipe[d])
    BY DEF Inv
  <1>. QED  BY <1>1, <1>2, UntouchedFields, Zenon

LEMMA FailInv == ASSUME Inv, Open, step # "relay", Fail PROVE Inv'
  BY SettingUp, DestroyStep DEF Fail

\* A step of the set-up chain that leaves both directions as they are.
LEMMA ChainStep ==
    ASSUME Inv, Open, step # "relay", state' \in {"HANDSHAKE", "FORWARD"},
           step' \in SetUp \cup {"udp"}, pipe' = pipe
    PROVE  Inv'
  <1>1. TypeOK'
    BY DEF Inv, TypeOK
  <1>2. \A d \in Direction : Untouched(d, pipe[d]) /\ InOrder(pipe[d])
    BY SettingUp
  <1>3. Open' /\ step' # "relay"
    BY DEF Open, SetUp
  <1>. QED  BY <1>1, <1>2, <1>3 DEF Inv, Open

\* Starting both reads on a direction whose payload has been delivered.
LEMMA StartDirection ==
    ASSUME Open, NEW p \in Pipe, p.rd = "none", p.sd = "none", p.pausing = FALSE, p.sending = FALSE,
           p.ring = EmptyRing, p.rlen = 0, Len(p.out) = p.got, InOrder(p),
           NEW q, q = async_bidirectional_read(p)
    PROVE  q \in Pipe /\ Relaying(q) /\ InOrder(q)
  <1>1. q = [p EXCEPT !.rd = "pending"]
    BY DEF async_bidirectional_read, Start
  <1>2. /\ q \in Pipe /\ q.ring = EmptyRing /\ q.rd = "pending" /\ q.sd = "none"
        /\ q.pausing = FALSE /\ q.sending = FALSE /\ q.got = p.got /\ q.out = p.out
    BY <1>1 DEF Pipe, Op
  <1>3. EmptyRing.used = 0
    BY DEF EmptyRing
  <1>4. q.got \in Nat
    BY <1>2, PipeFields
  <1>5. Base(q) = q.got
    BY <1>2, <1>3, <1>4 DEF Base
  <1>6. RingHolds(q)
    BY <1>2, <1>3, <1>4, <1>5, RingAssumption, SMT DEF RingHolds
  <1>7. ReadSide(q) /\ SendSide(q)
    BY <1>2, <1>3, <1>4, <1>5, RingAssumption, SessionAssumption, SMT DEF ReadSide, SendSide
  <1>8. InOrder(q)
    BY <1>2 DEF InOrder
  <1>. QED  BY <1>2, <1>6, <1>7, <1>8 DEF Relaying

LEMMA StartRelayInv ==
    ASSUME Inv, Open, NEW ps \in [Direction -> Pipe], StartRelay(ps),
           \A d \in Direction :
              /\ ps[d].rd = "none" /\ ps[d].sd = "none" /\ ps[d].pausing = FALSE
              /\ ps[d].sending = FALSE /\ ps[d].ring = EmptyRing /\ ps[d].rlen = 0
              /\ Len(ps[d].out) = ps[d].got /\ InOrder(ps[d])
    PROVE  Inv'
  <1>1. /\ step' = "relay" /\ state' = state
        /\ pipe' = [d \in Direction |-> async_bidirectional_read(ps[d])]
    BY DEF StartRelay
  <1>2. \A d \in Direction : pipe'[d] \in Pipe /\ Relaying(pipe'[d]) /\ InOrder(pipe'[d])
    BY <1>1, StartDirection, Zenon
  <1>3. TypeOK'
    BY <1>1, <1>2 DEF Inv, TypeOK
  <1>4. Open'
    BY <1>1 DEF Open
  <1>. QED  BY <1>1, <1>2, <1>3, <1>4 DEF Inv

LEMMA HandshakeInv == ASSUME Inv, OnHandshake PROVE Inv'
  <1>1. Open /\ step # "relay" /\ state \in {"HANDSHAKE", "FORWARD"}
    BY DEF OnHandshake, Inv, TypeOK, Open
  <1>2. CASE Fail
    BY <1>1, <1>2, FailInv
  <1>3. CASE /\ step' = (IF Transport = "ws" THEN "accept" ELSE "request")
             /\ UNCHANGED <<state, pipe>>
    BY <1>1, <1>3, ChainStep DEF SetUp
  <1>. QED  BY <1>2, <1>3 DEF OnHandshake

LEMMA AcceptInv == ASSUME Inv, OnAccept PROVE Inv'
  <1>1. Open /\ step # "relay" /\ state \in {"HANDSHAKE", "FORWARD"}
    BY DEF OnAccept, Inv, TypeOK, Open
  <1>2. CASE Fail
    BY <1>1, <1>2, FailInv
  <1>3. CASE step' = "request" /\ UNCHANGED <<state, pipe>>
    BY <1>1, <1>3, ChainStep DEF SetUp
  <1>. QED  BY <1>2, <1>3 DEF OnAccept

LEMMA RequestInv == ASSUME Inv, handle_custom_protocol PROVE Inv'
  <1>1. Open /\ step # "relay" /\ state \in {"HANDSHAKE", "FORWARD"}
    BY DEF handle_custom_protocol, Inv, TypeOK, Open
  <1>2. CASE Fail
    BY <1>1, <1>2, FailInv
  <1>3. CASE state' = "FORWARD" /\ step' = "udp" /\ UNCHANGED pipe
    BY <1>1, <1>3, ChainStep
  <1>4. ASSUME NEW payload \in 0 .. MaxRead, do_resolve,
               pipe' = [pipe EXCEPT !["down"].got = payload]
        PROVE  Inv'
    <2>1. /\ pipe \in [Direction -> Pipe]
          /\ \A d \in Direction : Untouched(d, pipe[d]) /\ InOrder(pipe[d])
      BY <1>1, SettingUp
    <2>2. /\ state' \in {"HANDSHAKE", "FORWARD"} /\ step' \in {"connect", "resolve"}
      BY <1>1, <1>4 DEF do_resolve, do_connect
    <2>. DEFINE p == pipe["down"]
                q == [p EXCEPT !.got = payload]
    <2>3. p \in Pipe /\ p.out = <<>> /\ p = [IdlePipe EXCEPT !.got = p.got]
      BY <2>1, UntouchedFields, Zenon DEF Direction, Untouched
    <2>4. payload \in Nat
      BY SessionAssumption, RingAssumption, SMT
    <2>5. q \in Pipe /\ q.out = <<>> /\ q.got = payload
      BY <2>3, <2>4 DEF Pipe
    <2>6. q = [IdlePipe EXCEPT !.got = payload]
      BY <2>3, Zenon DEF IdlePipe
    <2>7. pipe' = [pipe EXCEPT !["down"] = q]
      BY <1>4
    <2>. HIDE DEF q, p
    <2>8. Untouched("down", q) /\ InOrder(q)
      BY <2>4, <2>5, <2>6 DEF Untouched, InOrder
    <2>9. pipe' \in [Direction -> Pipe]
      BY <2>1, <2>5, <2>7, Zenon
    <2>10. \A d \in Direction : Untouched(d, pipe'[d]) /\ InOrder(pipe'[d])
      BY <2>1, <2>7, <2>8 DEF Direction
    <2>11. TypeOK' /\ Open' /\ step' # "relay"
      BY <2>2, <2>9 DEF TypeOK, Open, SetUp
    <2>. QED  BY <2>10, <2>11 DEF Inv, Open, Untouched, InOrder
  <1>. QED  BY <1>2, <1>3, <1>4 DEF handle_custom_protocol

LEMMA ResolveInv == ASSUME Inv, OnResolve PROVE Inv'
  <1>1. Open /\ step # "relay" /\ state \in {"HANDSHAKE", "FORWARD"}
    BY DEF OnResolve, Inv, TypeOK, Open
  <1>2. CASE Fail
    BY <1>1, <1>2, FailInv
  <1>3. CASE do_connect /\ UNCHANGED pipe
    BY <1>1, <1>3, ChainStep DEF do_connect, SetUp
  <1>. QED  BY <1>2, <1>3 DEF OnResolve

LEMMA ConnectInv == ASSUME Inv, OnConnect PROVE Inv'
  <1>1. Open /\ step # "relay" /\ state \in {"HANDSHAKE", "FORWARD"}
    BY DEF OnConnect, Inv, TypeOK, Open
  <1>2. CASE Fail
    BY <1>1, <1>2, FailInv
  <1>3. CASE pipe["down"].got > 0 /\ step' = "payload" /\ UNCHANGED <<state, pipe>>
    BY <1>1, <1>3, ChainStep DEF SetUp
  <1>4. CASE pipe["down"].got = 0 /\ StartRelay(pipe)
    <2>1. /\ pipe \in [Direction -> Pipe]
          /\ \A d \in Direction : pipe[d] \in Pipe /\ Untouched(d, pipe[d]) /\ InOrder(pipe[d])
      BY <1>1, SettingUp
    <2>2. \A d \in Direction :
             /\ pipe[d].rd = "none" /\ pipe[d].sd = "none" /\ pipe[d].pausing = FALSE
             /\ pipe[d].sending = FALSE /\ pipe[d].ring = EmptyRing /\ pipe[d].rlen = 0
             /\ pipe[d].out = <<>>
      BY <2>1, UntouchedFields, Zenon
    <2>3. \A d \in Direction : pipe[d].got = 0
      BY <1>4, <2>1 DEF Untouched, Direction
    <2>4. \A d \in Direction : Len(pipe[d].out) = pipe[d].got
      BY <2>2, <2>3
    <2>. QED  BY <1>1, <1>4, <2>1, <2>2, <2>4, StartRelayInv, Zenon
  <1>. QED  BY <1>2, <1>3, <1>4 DEF OnConnect

\* The payload write: whole, or a part of it and the session ends.
LEMMA PayloadInv == ASSUME Inv, OnPayload PROVE Inv'
  <1>. DEFINE after(n) == [pipe EXCEPT !["down"].out = Bytes(1, n)]
              p == pipe["down"]
  <1>1. Open /\ step # "relay"
    BY DEF OnPayload
  <1>2. /\ pipe \in [Direction -> Pipe]
        /\ \A d \in Direction : /\ pipe[d] \in Pipe /\ Untouched(d, pipe[d])
                                /\ InOrder(pipe[d]) /\ Stoppable(pipe[d])
    BY <1>1, SettingUp
  <1>3. \A d \in Direction :
           /\ pipe[d].rd = "none" /\ pipe[d].sd = "none" /\ pipe[d].pausing = FALSE
           /\ pipe[d].sending = FALSE /\ pipe[d].ring = EmptyRing /\ pipe[d].rlen = 0
           /\ pipe[d].out = <<>>
    BY <1>2, UntouchedFields, Zenon
  <1>4. p \in Pipe /\ p.got \in Nat /\ pipe["up"].got = 0
    BY <1>2, PipeFields DEF Direction, Untouched
  <1>5. ASSUME NEW n \in 0 .. p.got
        PROVE  /\ after(n) \in [Direction -> Pipe]
               /\ after(n)["down"].got = p.got /\ Len(after(n)["down"].out) = n
               /\ after(n)["up"] = pipe["up"]
               /\ \A d \in Direction :
                     /\ after(n)[d].rd = "none" /\ after(n)[d].sd = "none"
                     /\ after(n)[d].pausing = FALSE /\ after(n)[d].sending = FALSE
                     /\ after(n)[d].ring = EmptyRing /\ after(n)[d].rlen = 0
                     /\ InOrder(after(n)[d]) /\ Stoppable(after(n)[d])
    <2>. DEFINE b == Bytes(1, n)
                q == [p EXCEPT !.out = b]
    <2>1. n \in Nat
      BY <1>4
    <2>2. b \in Seq(Nat) /\ Len(b) = n /\ \A i \in 1 .. n : b[i] = i
      BY <2>1 DEF Bytes
    <2>. HIDE DEF b
    <2>3. /\ q \in Pipe /\ q.out = b /\ q.got = p.got /\ q.rd = p.rd /\ q.sd = p.sd
          /\ q.pausing = p.pausing /\ q.sending = p.sending /\ q.ring = p.ring
          /\ q.rlen = p.rlen /\ q.sent = p.sent
      BY <1>4, <2>2, Zenon DEF Pipe
    <2>4. after(n) = [pipe EXCEPT !["down"] = q]
      BY DEF b
    <2>. HIDE DEF q, after
    <2>5. InOrder(q)
      BY <1>4, <2>1, <2>2, <2>3 DEF InOrder
    <2>6. Stoppable(q)
      BY <1>3, <2>3 DEF Stoppable, Direction
    <2>7. after(n) \in [Direction -> Pipe] /\ after(n)["down"] = q /\ after(n)["up"] = pipe["up"]
      BY <1>2, <2>3, <2>4 DEF Direction
    <2>8. \A d \in Direction :
             /\ after(n)[d].rd = "none" /\ after(n)[d].sd = "none"
             /\ after(n)[d].pausing = FALSE /\ after(n)[d].sending = FALSE
             /\ after(n)[d].ring = EmptyRing /\ after(n)[d].rlen = 0
      BY <1>3, <2>3, <2>7 DEF Direction
    <2>9. \A d \in Direction : InOrder(after(n)[d]) /\ Stoppable(after(n)[d])
      BY <1>2, <2>5, <2>6, <2>7 DEF Direction
    <2>. QED  BY <2>2, <2>3, <2>7, <2>8, <2>9
  <1>. HIDE DEF after
  <1>6. CASE StartRelay(after(p.got))
    <2>1. p.got \in 0 .. p.got
      BY <1>4
    <2>. DEFINE ps == after(p.got)
    <2>2. /\ ps \in [Direction -> Pipe]
          /\ \A d \in Direction :
                /\ ps[d].rd = "none" /\ ps[d].sd = "none" /\ ps[d].pausing = FALSE
                /\ ps[d].sending = FALSE /\ ps[d].ring = EmptyRing /\ ps[d].rlen = 0
                /\ InOrder(ps[d])
      BY <1>5, <2>1, Zenon
    <2>3. /\ ps["down"].got = p.got /\ Len(ps["down"].out) = p.got /\ ps["up"] = pipe["up"]
      BY <1>5, <2>1, Zenon
    <2>4. pipe["up"].out = <<>>
      BY <1>3 DEF Direction
    <2>. HIDE DEF ps
    <2>5. \A d \in Direction : Len(ps[d].out) = ps[d].got
      BY <1>4, <2>3, <2>4 DEF Direction
    <2>6. StartRelay(ps)
      BY <1>6 DEF ps
    <2>. QED  BY <1>1, <2>2, <2>5, <2>6, StartRelayInv, Zenon
  <1>7. ASSUME NEW n \in 0 .. (p.got - 1), destroy(after(n)), step' = step PROVE Inv'
    <2>1. n \in 0 .. p.got
      BY <1>4
    <2>2. /\ after(n) \in [Direction -> Pipe]
          /\ \A d \in Direction : Stoppable(after(n)[d]) /\ InOrder(after(n)[d])
      BY <1>5, <2>1, Zenon
    <2>. QED  BY <1>1, <1>7, <2>2, DestroyStep
  <1>. QED  BY <1>6, <1>7, Zenon DEF OnPayload, after

LEMMA InitInv == ASSUME Init PROVE Inv
  <1>1. EmptyRing \in Ring
    BY RingAssumption, SMT DEF EmptyRing, Ring, Index
  <1>2. IdlePipe \in Pipe
    BY <1>1 DEF IdlePipe, Pipe, Op
  <1>3. TypeOK
    BY <1>2 DEF Init, TypeOK, SetUp
  <1>4. IdlePipe = [IdlePipe EXCEPT !.got = IdlePipe.got] /\ IdlePipe.got = 0 /\ IdlePipe.out = <<>>
    BY Zenon DEF IdlePipe
  <1>5. \A d \in Direction : pipe[d] = IdlePipe
    BY DEF Init
  <1>6. \A d \in Direction : Untouched(d, pipe[d])
    BY <1>4, <1>5 DEF Untouched
  <1>7. \A d \in Direction : InOrder(pipe[d])
    BY <1>4, <1>5 DEF InOrder
  <1>. QED  BY <1>3, <1>6, <1>7 DEF Inv, Init, Open

LEMMA NextInv == ASSUME Inv, [Next]_vars PROVE Inv'
  <1>1. CASE UNCHANGED vars
    BY <1>1 DEF vars, Inv, TypeOK, Open, InOrder, Untouched, Relaying, RingHolds, ReadSide,
                SendSide, Base, Dead
  <1>2. CASE Ended
    BY <1>1, <1>2 DEF Ended
  <1>3. CASE SetUpNext
    BY <1>3, HandshakeInv, AcceptInv, RequestInv, ResolveInv, ConnectInv, PayloadInv DEF SetUpNext
  <1>4. ASSUME NEW d \in Direction,
               Arrive(d) \/ ReadError(d) \/ Take(d) \/ SendError(d) \/ ReadHandler(d) \/ SendHandler(d)
        PROVE  Inv'
    BY <1>4, ArriveInv, ReadErrorInv, TakeInv, SendErrorInv, ReadHandlerInv, SendHandlerInv
  <1>. QED  BY <1>1, <1>2, <1>3, <1>4 DEF Next

-----------------------------------------------------------------------------
\* The inductive invariant of the session holds in every behaviour.
THEOREM SpecInv == Spec => []Inv
  BY InitInv, NextInv, PTL DEF Spec

\* Type correctness.
THEOREM SpecTypeOK == Spec => []TypeOK
  <1>1. Inv => TypeOK
    BY DEF Inv
  <1>. QED  BY <1>1, SpecInv, PTL

\* Each peer gets a prefix of what the other sent, in order, whatever the sizes
\* of the ring, of the reads and of the partial sends, and in whatever order
\* completions, errors and destroy() come.
THEOREM SpecStreamIntegrity == Spec => []StreamIntegrity
  <1>1. Inv => StreamIntegrity
    BY DEF Inv, InOrder, StreamIntegrity
  <1>. QED  BY <1>1, SpecInv, PTL

\* No socket has two reads or two sends outstanding (Session.cpp:361).
THEOREM SpecOneOpPerSocket == Spec => []OneOpPerSocket
  <1>1. ASSUME Inv, NEW d \in Direction
        PROVE  pipe[d].rd # "overlap" /\ pipe[d].sd # "overlap"
    <2>1. CASE pipe[d].rd = "none" /\ pipe[d].sd = "none"
      BY <2>1
    <2>2. CASE pipe[d].rd # "none" \/ pipe[d].sd # "none"
      BY <1>1, <2>2, Outstanding, Zenon DEF Relaying, ReadSide, SendSide, Dead
    <2>. QED  BY <2>1, <2>2
  <1>2. Inv => OneOpPerSocket
    BY <1>1 DEF OneOpPerSocket
  <1>. QED  BY <1>2, SpecInv, PTL

\* A live relay direction has a read outstanding, or is paused and has a send
\* outstanding whose handler resumes the read.
THEOREM SpecNoLostWakeup == Spec => []NoLostWakeup
  <1>1. Inv => NoLostWakeup
    BY DEF Inv, NoLostWakeup, Relaying, ReadSide, SendSide
  <1>. QED  BY <1>1, SpecInv, PTL

\* With a ring as large as one read, as in the code, the end of a source's
\* stream finds all its bytes delivered.
THEOREM SpecEofAfterDrain == Spec => []EofAfterDrain
  <1>1. ASSUME Inv, Capacity = MaxRead, NEW d \in Direction, Open, step = "relay",
               pipe[d].rd = "failed"
        PROVE  Len(pipe[d].out) = pipe[d].got
    <2>. DEFINE p == pipe[d]
    <2>1. p \in Pipe /\ Relaying(p)
      BY <1>1, Outstanding
    <2>2. p.ring.used \in Nat /\ p.got \in Nat
      BY <2>1, PipeFields, RingAssumption, SMT DEF Ring
    <2>3. p.ring.used = 0
      BY <1>1, <2>1, <2>2, RingAssumption, SMT DEF Relaying, ReadSide
    <2>4. p.sd = "none"
      BY <2>1, <2>3, SMT DEF Relaying, SendSide
    <2>5. Len(p.out) = Base(p)
      BY <2>1, <2>4 DEF Relaying, SendSide
    <2>. QED  BY <1>1, <2>2, <2>3, <2>5 DEF Base
  <1>2. Inv => EofAfterDrain
    BY <1>1 DEF EofAfterDrain
  <1>. QED  BY <1>2, SpecInv, PTL

\* The operations that the handler of a completed send runs on a destroyed
\* session leave the delivered bytes alone.
LEMMA DoSendOut ==
    ASSUME NEW p \in Pipe PROVE do_send(p).out = p.out /\ do_send(p).got = p.got
  <1>1. CASE Empty(p.ring) /\ p.pausing
    BY <1>1 DEF do_send, async_bidirectional_read, Pipe
  <1>2. CASE Empty(p.ring) /\ ~p.pausing
    BY <1>2 DEF do_send, Pipe
  <1>3. CASE ~Empty(p.ring)
    BY <1>3 DEF do_send, Pipe
  <1>. QED  BY <1>1, <1>2, <1>3

LEMMA QuietWhenDead ==
    ASSUME Inv, ~Open, Next
    PROVE  \A e \in Direction : pipe'[e].out = pipe[e].out
  <1>1. ~SetUpNext
    BY DEF SetUpNext, OnHandshake, OnAccept, handle_custom_protocol, OnResolve, OnConnect, OnPayload
  <1>2. /\ pipe \in [Direction -> Pipe]
        /\ \A d \in Direction : pipe[d].rd # "pending" /\ pipe[d].sd # "pending"
    BY DEF Inv, TypeOK, Dead
  <1>3. ASSUME NEW d \in Direction, ReadHandler(d) PROVE \A e \in Direction : pipe'[e].out = pipe[e].out
    <2>. DEFINE p == [pipe[d] EXCEPT !.rd = "none"]
    <2>1. Put(d, p)
      BY <1>3 DEF ReadHandler
    <2>2. p.out = pipe[d].out
      BY <1>2 DEF Pipe
    <2>. QED  BY <1>2, <2>1, <2>2 DEF Put
  <1>4. ASSUME NEW d \in Direction, SendHandler(d) PROVE \A e \in Direction : pipe'[e].out = pipe[e].out
    <2>. DEFINE p0 == pipe[d]
                p == [p0 EXCEPT !.sd = "none", !.pos = 0, !.len = 0, !.sent = 0]
                c == [p EXCEPT !.ring = Consume(@, p0.sent)]
    <2>1. p0 \in Pipe /\ InOrder(p0) /\ Dead(p0)
      BY <1>4 DEF Inv, TypeOK
    <2>2. p.out = p0.out
      BY <2>1 DEF Pipe
    <2>. HIDE DEF p0
    <2>3. CASE p0.sd = "failed" /\ destroy([pipe EXCEPT ![d] = p])
      BY <1>2, <2>2, <2>3, Zenon DEF destroy, p0
    <2>4. CASE p0.sd = "done" /\ Put(d, do_send(c))
      <3>1. c \in Pipe /\ c.out = p0.out
        BY <2>1, <2>4, DeadConsume
      <3>. HIDE DEF c
      <3>2. do_send(c).out = p0.out
        BY <3>1, DoSendOut
      <3>. QED  BY <1>2, <2>4, <3>2 DEF Put, p0
    <2>. QED  BY <1>4, <2>3, <2>4 DEF SendHandler, p0
  <1>5. CASE Ended
    BY <1>5 DEF Ended, vars
  <1>. QED  BY <1>1, <1>2, <1>3, <1>4, <1>5 DEF Next, Arrive, ReadError, Take, SendError

\* No byte leaves a destroyed session, although a queued send completion still
\* runs do_send on the wrapped ring.
THEOREM SpecNothingAfterDestroy == Spec => NothingAfterDestroy
  <1>1. Inv /\ [Next]_vars => [~Open => \A d \in Direction : pipe'[d].out = pipe[d].out]_vars
    BY QuietWhenDead
  <1>. QED  BY <1>1, SpecInv, PTL DEF Spec, NothingAfterDestroy

-----------------------------------------------------------------------------
\* The refinement of BytePipe.

\* The bytes that came with the request are the first that a direction takes.
Early == Open /\ step \in {"handshake", "accept", "request"} =>
            \A d \in Direction : pipe[d].got = 0

LEMMA EarlyStep == ASSUME Inv, Early, [Next]_vars PROVE Early'
  <1>1. CASE UNCHANGED vars
    BY <1>1 DEF vars, Early, Open
  <1>2. CASE Ended
    BY <1>1, <1>2 DEF Ended
  <1>3. CASE SetUpNext
    <2>1. ASSUME NEW ps, destroy(ps), Open PROVE ~Open'
      BY <2>1 DEF destroy, Open
    <2>. QED  BY <1>3, <2>1, Zenon DEF SetUpNext, OnHandshake, OnAccept, handle_custom_protocol, OnResolve,
                OnConnect, OnPayload, Fail, do_resolve, do_connect, StartRelay, Early, Open
  <1>4. ASSUME NEW d \in Direction,
               Arrive(d) \/ ReadError(d) \/ Take(d) \/ SendError(d) \/ ReadHandler(d) \/ SendHandler(d)
        PROVE  Early'
    <2>1. step' = step /\ (Open' => Open)
      BY <1>4, Zenon DEF Arrive, ReadError, Take, SendError, ReadHandler, SendHandler, Put, destroy, Open
    <2>2. pipe[d].rd # "none" \/ pipe[d].sd # "none"
      BY <1>4 DEF Arrive, ReadError, Take, SendError, ReadHandler, SendHandler
    <2>3. Open => step = "relay"
      BY <2>2, Outstanding
    <2>. QED  BY <2>1, <2>3 DEF Early
  <1>. QED  BY <1>1, <1>2, <1>3, <1>4 DEF Next

LEMMA DeadStays == ASSUME ~Open, [Next]_vars PROVE ~Open'
  BY DEF Next, SetUpNext, OnHandshake, OnAccept, handle_custom_protocol, OnResolve, OnConnect, OnPayload,
         Arrive, ReadError, Take, SendError, ReadHandler, SendHandler, Put, destroy, Ended, vars, Open

\* What a step of the session does to the bytes of direction d.
Grows(d) ==
    pipe'[d].got = pipe[d].got /\ Len(pipe[d].out) <= Len(pipe'[d].out)

Receives(d) ==
    /\ \E n \in 0 .. Capacity :
          /\ ~Open \/ pipe[d].got + n - Len(pipe[d].out) <= Capacity
          /\ pipe[d].got + n <= MaxStream
          /\ pipe'[d].got = pipe[d].got + n
    /\ pipe'[d].out = pipe[d].out /\ Open' = Open

\* The bytes of every direction are the same, or more have been delivered.
LEMMA PutGrows ==
    ASSUME Inv, NEW e \in Direction, NEW q \in Pipe, Put(e, q),
           q.got = pipe[e].got, Len(pipe[e].out) <= Len(q.out), NEW d \in Direction
    PROVE  Grows(d)
  <1>1. pipe \in [Direction -> Pipe] /\ pipe[d].out \in Seq(Nat)
    BY PipeFields DEF Inv, TypeOK
  <1>2. pipe'[d] = IF d = e THEN q ELSE pipe[d]
    BY <1>1 DEF Put
  <1>3. Len(pipe[d].out) <= Len(pipe[d].out)
    BY <1>1
  <1>. QED  BY <1>2, <1>3 DEF Grows

LEMMA DestroyGrows ==
    ASSUME Inv, NEW STATE ps, ps \in [Direction -> Pipe], destroy(ps),
           \A d \in Direction : ps[d].got = pipe[d].got /\ Len(pipe[d].out) <= Len(ps[d].out),
           NEW d \in Direction
    PROVE  Grows(d)
  <1>1. destroy_pipe(ps[d]).got = ps[d].got /\ destroy_pipe(ps[d]).out = ps[d].out
    BY DEF destroy_pipe, Pipe
  <1>2. pipe' = ps \/ pipe' = [e \in Direction |-> destroy_pipe(ps[e])]
    BY Zenon DEF destroy
  <1>. QED  BY <1>1, <1>2 DEF Grows

LEMMA SamePipes == ASSUME Inv, pipe' = pipe, NEW d \in Direction PROVE Grows(d)
  <1>1. Len(pipe[d].out) \in Nat
    BY PipeFields DEF Inv, TypeOK
  <1>. QED  BY <1>1 DEF Grows

\* Set-up: the payload is taken with the request and written before the relay.
LEMMA SetUpBytes ==
    ASSUME Inv, Early, SetUpNext, NEW d \in Direction
    PROVE  Grows(d) \/ Receives(d)
  <1>1. Open /\ step # "relay"
    BY DEF SetUpNext, OnHandshake, OnAccept, handle_custom_protocol, OnResolve, OnConnect, OnPayload
  <1>2. /\ pipe \in [Direction -> Pipe]
        /\ \A e \in Direction : pipe[e] \in Pipe /\ Len(pipe[e].out) \in Nat /\ pipe[e].out = <<>>
    <2>1. \A e \in Direction : pipe[e] \in Pipe /\ Untouched(e, pipe[e])
      BY <1>1, SettingUp
    <2>2. \A e \in Direction : pipe[e].out = <<>>
      BY <2>1, UntouchedFields, Zenon
    <2>. QED  BY <2>1, <2>2, SettingUp, <1>1
  <1>3. CASE Fail
    BY <1>2, <1>3, DestroyGrows DEF Fail
  <1>4. CASE pipe' = pipe
    BY <1>4, SamePipes
  <1>5. ASSUME NEW STATE ps, ps \in [Direction -> Pipe], StartRelay(ps),
               \A e \in Direction : ps[e].got = pipe[e].got /\ Len(pipe[e].out) <= Len(ps[e].out)
        PROVE  Grows(d)
    <2>1. pipe'[d] = [ps[d] EXCEPT !.rd = Start(@)]
      BY <1>5 DEF StartRelay, async_bidirectional_read
    <2>. QED  BY <1>5, <2>1 DEF Grows, Pipe
  <1>6. CASE handle_custom_protocol
    <2>1. ASSUME NEW payload \in 0 .. MaxRead, payload <= MaxStream, do_resolve,
                 pipe' = [pipe EXCEPT !["down"].got = payload]
          PROVE  Grows(d) \/ Receives(d)
      <3>1. Open' = Open
        BY <1>1, <2>1 DEF do_resolve, do_connect, Open
      <3>2. CASE d = "up"
        BY <1>2, <2>1, <3>2 DEF Grows
      <3>3. CASE d = "down"
        <4>1. pipe[d].got = 0 /\ Len(pipe[d].out) = 0
          BY <1>1, <1>2, <1>6 DEF Early, handle_custom_protocol
        <4>2. pipe'[d].got = payload /\ pipe'[d].out = pipe[d].out
          BY <1>2, <2>1, <3>3 DEF Pipe
        <4>3. payload \in 0 .. Capacity
          BY SessionAssumption, RingAssumption
        <4>. QED  BY <2>1, <3>1, <4>1, <4>2, <4>3, SessionAssumption, RingAssumption DEF Receives
      <3>. QED  BY <3>2, <3>3 DEF Direction
    <2>. QED  BY <1>3, <1>4, <1>6, <2>1 DEF handle_custom_protocol
  <1>7. CASE OnPayload
    <2>. DEFINE after(n) == [pipe EXCEPT !["down"].out = Bytes(1, n)]
    <2>1. pipe["down"].got \in Nat
      BY <1>2, PipeFields DEF Direction
    <2>2. ASSUME NEW n \in Nat
          PROVE  /\ after(n) \in [Direction -> Pipe]
                 /\ \A e \in Direction : after(n)[e].got = pipe[e].got /\ Len(pipe[e].out) <= Len(after(n)[e].out)
      <3>. DEFINE b == Bytes(1, n)
      <3>1. b \in Seq(Nat) /\ Len(b) = n
        BY DEF Bytes
      <3>. HIDE DEF b
      <3>2. after(n) = [pipe EXCEPT !["down"].out = b]
        BY DEF b
      <3>3. after(n) \in [Direction -> Pipe]
        <4>. DEFINE q == [pipe["down"] EXCEPT !.out = b]
        <4>1. q \in Pipe
          BY <1>2, <3>1, Zenon DEF Pipe, Direction
        <4>2. after(n) = [pipe EXCEPT !["down"] = q]
          BY <3>2
        <4>. HIDE DEF q
        <4>. QED  BY <1>2, <4>1, <4>2, Zenon
      <3>4. ASSUME NEW e \in Direction
            PROVE  after(n)[e].got = pipe[e].got /\ Len(pipe[e].out) <= Len(after(n)[e].out)
        <4>1. CASE e = "down"
          <5>1. after(n)[e].got = pipe[e].got /\ after(n)[e].out = b
            BY <1>2, <3>2, <4>1 DEF Pipe
          <5>. QED  BY <1>2, <3>1, <5>1
        <4>2. CASE e # "down"
          BY <1>2, <3>2, <4>2
        <4>. QED  BY <4>1, <4>2
      <3>. QED  BY <3>3, <3>4
    <2>. HIDE DEF after
    <2>3. CASE StartRelay(after(pipe["down"].got))
      BY <1>5, <2>1, <2>2, <2>3, SMTT(20)
    <2>4. ASSUME NEW n \in 0 .. (pipe["down"].got - 1), destroy(after(n)) PROVE Grows(d)
      <3>1. n \in Nat
        BY <2>1
      <3>. QED  BY <2>2, <2>4, <3>1, DestroyGrows
    <2>. QED  BY <1>7, <2>3, <2>4, Zenon DEF OnPayload, after
  <1>8. CASE StartRelay(pipe)
    BY <1>2, <1>5, <1>8
  <1>. QED  BY <1>3, <1>4, <1>6, <1>7, <1>8 DEF SetUpNext, OnHandshake, OnAccept, OnResolve, OnConnect

\* A read completes in a direction whose ring has room for it, so what the
\* direction holds fits the ring.
LEMMA ArriveBytes ==
    ASSUME Inv, NEW e \in Direction, Arrive(e), NEW d \in Direction
    PROVE  Grows(d) \/ Receives(d)
  <1>. DEFINE p == pipe[e]
  <1>1. PICK n \in LeastRead(e) .. MaxRead :
            /\ p.got + n <= MaxStream
            /\ Put(e, [p EXCEPT !.rd = "done", !.rlen = n, !.got = @ + n])
    BY DEF Arrive
  <1>2. n \in Nat /\ n <= MaxRead /\ n \in 0 .. Capacity
    BY SessionAssumption, RingAssumption, SMT DEF LeastRead
  <1>3. p.rd = "pending" /\ p \in Pipe /\ InOrder(p) /\ Open /\ Relaying(p)
    BY Outstanding, Zenon DEF Arrive, Dead
  <1>4. pipe \in [Direction -> Pipe]
    BY DEF Inv, TypeOK
  <1>5. /\ Open' = Open /\ (d # e => pipe'[d] = pipe[d])
        /\ pipe'[e].got = p.got + n /\ pipe'[e].out = p.out
    BY <1>1, <1>3, <1>4 DEF Put, Open, Pipe
  <1>6. CASE d # e
    <2>1. Len(pipe[d].out) \in Nat
      BY <1>4, PipeFields
    <2>. QED  BY <1>5, <1>6, <2>1 DEF Grows
  <1>7. CASE d = e
    <2>1. /\ p.got \in Nat /\ p.ring.used \in Nat /\ Len(p.out) \in Nat /\ p.sent \in Nat
      BY <1>3, PipeFields, RingAssumption, SMTT(20) DEF Ring
    <2>2. Base(p) = p.got - p.ring.used /\ p.ring.used + MaxRead <= Capacity
      BY <1>3, <2>1 DEF Base, Relaying, ReadSide
    <2>3. Base(p) <= Len(p.out)
      <3>1. p.sd \in {"none", "pending", "done", "failed"}
        BY <1>3, PipeFields DEF Relaying, SendSide, Op
      <3>2. CASE p.sd \in {"none", "pending"}
        BY <1>3, <2>1, <3>2 DEF Relaying, SendSide
      <3>3. CASE p.sd = "done"
        <4>1. Len(p.out) = Base(p) + p.sent
          BY <1>3, <3>3 DEF Relaying, SendSide
        <4>. QED  BY <2>1, <2>2, <4>1
      <3>4. CASE p.sd = "failed"
        BY <1>3, <3>4 DEF Relaying, SendSide
      <3>. QED  BY <3>1, <3>2, <3>3, <3>4
    <2>4. p.got + n - Len(p.out) <= Capacity
      BY <1>2, <2>1, <2>2, <2>3, SessionAssumption, RingAssumption, SMTT(20)
    <2>. QED  BY <1>1, <1>2, <1>5, <1>7, <2>4 DEF Receives
  <1>. QED  BY <1>6, <1>7

\* A send that completes delivers the next bytes of the stream.
LEMMA SentBytes ==
    ASSUME Inv, NEW e \in Direction, Take(e) \/ SendError(e), NEW d \in Direction
    PROVE  Grows(d)
  <1>. DEFINE p == pipe[e]
  <1>1. /\ p.sd = "pending" /\ p \in Pipe /\ InOrder(p) /\ Relaying(p)
    BY Outstanding, Zenon DEF Dead, Take, SendError
  <1>2. p.len \in Nat /\ Base(p) \in Nat /\ Len(p.out) = Base(p)
    BY <1>1, PipeFields DEF Relaying, RingHolds, SendSide
  <1>3. ASSUME NEW n \in 0 .. p.len, NEW q, Put(e, q),
               \/ q = [p EXCEPT !.sd = "done", !.sent = n, !.out = @ \o Region(p, n)]
               \/ q = [p EXCEPT !.sd = "failed", !.out = @ \o Region(p, n)]
        PROVE  Grows(d)
    <2>. DEFINE o == p.out \o Region(p, n)
    <2>1. o \in Seq(Nat) /\ Len(o) = Base(p) + n
      BY <1>1, RegionFollows, Zenon DEF Relaying
    <2>2. n \in Nat
      BY <1>2
    <2>3. q = [p EXCEPT !.sd = "done", !.sent = n, !.out = o] \/ q = [p EXCEPT !.sd = "failed", !.out = o]
      BY <1>3
    <2>4. Len(p.out) <= Len(o)
      BY <1>2, <2>1, <2>2
    <2>. HIDE DEF o, p
    <2>5. q \in Pipe /\ q.got = p.got /\ q.out = o
      BY <1>1, <2>1, <2>2, <2>3, Zenon DEF Pipe, Op
    <2>. QED  BY <1>3, <2>4, <2>5, PutGrows DEF p
  <1>4. CASE Take(e)
    <2>1. PICK n \in (IF WholeWrite(e) THEN p.len ELSE 1) .. p.len :
              Put(e, [p EXCEPT !.sd = "done", !.sent = n, !.out = @ \o Region(p, n)])
      BY <1>4 DEF Take
    <2>2. n \in 0 .. p.len
      BY <1>2, SMT
    <2>. QED  BY <1>3, <2>1, <2>2
  <1>5. CASE SendError(e)
    <2>1. PICK n \in 0 .. (IF WholeWrite(e) THEN p.len - 1 ELSE 0) :
              Put(e, [p EXCEPT !.sd = "failed", !.out = @ \o Region(p, n)])
      BY <1>5 DEF SendError
    <2>2. n \in 0 .. p.len
      BY <1>2, SMT
    <2>. QED  BY <1>3, <2>1, <2>2
  <1>. QED  BY <1>4, <1>5

LEMMA ConsumeRing ==
    ASSUME NEW r \in Ring, NEW n \in Nat
    PROVE  Consume(r, n) \in Ring
  <1>1. /\ r.used \in Nat /\ r.read_pos \in Nat /\ r.buf \in [Index -> Nat]
    BY RingAssumption, SMT DEF Ring, Index
  <1>2. (r.used - n) % SizeT \in 0 .. (SizeT - 1) /\ (r.read_pos + n) % Capacity \in Index
    BY <1>1, RingAssumption, SMTT(20) DEF Index
  <1>. QED  BY <1>1, <1>2 DEF Consume, Ring

LEMMA HandlerBytes ==
    ASSUME Inv, NEW e \in Direction, ReadError(e) \/ ReadHandler(e) \/ SendHandler(e),
           NEW d \in Direction
    PROVE  Grows(d)
  <1>. DEFINE p0 == pipe[e]
  <1>1. /\ p0 \in Pipe /\ InOrder(p0) /\ pipe \in [Direction -> Pipe]
        /\ (Open => Relaying(p0)) /\ (~Open => Dead(p0))
    BY Outstanding, Zenon DEF ReadError, ReadHandler, SendHandler, Inv, TypeOK
  <1>2. \A f \in Direction : Len(pipe[f].out) \in Nat
    BY <1>1, PipeFields
  <1>3. ASSUME NEW q \in Pipe, Put(e, q), q.got = p0.got, q.out = p0.out PROVE Grows(d)
    BY <1>2, <1>3, PutGrows
  <1>4. ASSUME NEW STATE q, q \in Pipe, q.got = p0.got, q.out = p0.out, destroy([pipe EXCEPT ![e] = q])
        PROVE  Grows(d)
    <2>. DEFINE ps == [pipe EXCEPT ![e] = q]
    <2>1. ps \in [Direction -> Pipe] /\ \A f \in Direction : ps[f].got = pipe[f].got /\ ps[f].out = pipe[f].out
      BY <1>1, <1>4
    <2>. HIDE DEF ps
    <2>2. \A f \in Direction : ps[f].got = pipe[f].got /\ Len(pipe[f].out) <= Len(ps[f].out)
      BY <1>2, <2>1
    <2>3. destroy(ps)
      BY <1>4 DEF ps
    <2>. QED  BY <2>1, <2>2, <2>3, DestroyGrows
  <1>5. CASE ReadError(e)
    <2>. DEFINE q == [p0 EXCEPT !.rd = "failed"]
    <2>1. q \in Pipe /\ q.got = p0.got /\ q.out = p0.out
      BY <1>1, Zenon DEF Pipe, Op
    <2>. QED  BY <1>3, <1>5, <2>1, Zenon DEF ReadError
  <1>6. CASE ReadHandler(e)
    <2>. DEFINE q == [p0 EXCEPT !.rd = "none"]
                t == async_bidirectional_write(q)
    <2>1. q \in Pipe /\ q.got = p0.got /\ q.out = p0.out
      BY <1>1, Zenon DEF Pipe, Op
    <2>2. CASE Open /\ p0.rd = "done" /\ Put(e, t)
      <3>1. t \in Pipe
        BY <1>1, <2>2, LiveRead
      <3>2. /\ enqueue_write(q) \in Pipe
            /\ enqueue_write(q).out = p0.out /\ enqueue_write(q).got = p0.got
        BY <1>1, <2>2, EnqueueWrite, Zenon
      <3>. DEFINE w == enqueue_write(q)
      <3>3. t = [w EXCEPT !.rd = Start(@)] \/ t = [w EXCEPT !.pausing = TRUE]
        BY DEF async_bidirectional_write, async_bidirectional_read
      <3>. HIDE DEF w, q
      <3>4. t.got = p0.got /\ t.out = p0.out
        <4>. HIDE DEF t
        <4>. QED  BY <3>2, <3>3 DEF Pipe, w
      <3>. QED  BY <1>3, <2>2, <3>1, <3>4
    <2>3. CASE Put(e, q)
      BY <1>3, <2>1, <2>3, Zenon
    <2>4. CASE destroy([pipe EXCEPT ![e] = q])
      BY <1>4, <2>1, <2>4, Zenon
    <2>. QED  BY <1>6, <2>2, <2>3, <2>4, Zenon DEF ReadHandler
  <1>7. CASE SendHandler(e)
    <2>. DEFINE q == [p0 EXCEPT !.sd = "none", !.pos = 0, !.len = 0, !.sent = 0]
                c == [q EXCEPT !.ring = Consume(@, p0.sent)]
                t == do_send(c)
    <2>1. q \in Pipe /\ q.got = p0.got /\ q.out = p0.out
      BY <1>1, Zenon DEF Pipe, Op
    <2>2. CASE destroy([pipe EXCEPT ![e] = q])
      BY <1>4, <2>1, <2>2, Zenon
    <2>3. CASE p0.sd = "done" /\ Put(e, t)
      <3>1. t \in Pipe
        <4>. HIDE DEF p0
        <4>1. CASE Open
          BY <1>1, <2>3, <4>1, LiveSend
        <4>2. CASE ~Open
          BY <1>1, <2>3, <4>2, DeadConsume, DeadDoSend
        <4>. QED  BY <4>1, <4>2
      <3>. DEFINE r == Consume(q.ring, p0.sent)
      <3>2. r \in Ring /\ c = [q EXCEPT !.ring = r]
        BY <1>1, <2>1, ConsumeRing, PipeFields
      <3>. HIDE DEF r, q, c
      <3>3. c \in Pipe /\ c.got = q.got /\ c.out = q.out
        BY <2>1, <3>2, Zenon DEF Pipe
      <3>4. t.got = p0.got /\ t.out = p0.out
        BY <2>1, <3>3, DoSendOut
      <3>. HIDE DEF t
      <3>. QED  BY <1>3, <2>3, <3>1, <3>4
    <2>. QED  BY <1>7, <2>2, <2>3, Zenon DEF SendHandler
  <1>. QED  BY <1>5, <1>6, <1>7

\* The n bytes that follow a prefix of the stream make a longer prefix.
LEMMA LongerPrefix ==
    ASSUME NEW s \in Seq(Nat), \A i \in 1 .. Len(s) : s[i] = i, NEW n \in Nat
    PROVE  LET t == s \o [i \in 1 .. n |-> Len(s) + i]
           IN  /\ t \in Seq(Nat) /\ Len(t) = Len(s) + n
               /\ \A i \in 1 .. Len(t) : t[i] = i
  <1>. DEFINE u == [i \in 1 .. n |-> Len(s) + i]
              t == s \o u
  <1>0. Len(s) \in Nat
    OBVIOUS
  <1>1. \A i \in 1 .. n : Len(s) + i \in Nat
    BY <1>0
  <1>2. u \in Seq(Nat)
    BY <1>1, IsASeq
  <1>3. Len(u) = n
    BY <1>2, LenProperties
  <1>4. \A i \in 1 .. n : u[i] = Len(s) + i
    OBVIOUS
  <1>. HIDE DEF u
  <1>5. /\ t \in Seq(Nat) /\ Len(t) = Len(s) + n
        /\ \A i \in 1 .. Len(s) + n : t[i] = IF i <= Len(s) THEN s[i] ELSE u[i - Len(s)]
    BY <1>2, <1>3, ConcatProperties
  <1>. HIDE DEF t
  <1>6. ASSUME NEW i \in 1 .. Len(s) + n PROVE t[i] = i
    <2>1. CASE i <= Len(s)
      BY <1>0, <1>5, <2>1
    <2>2. CASE ~(i <= Len(s))
      <3>1. i - Len(s) \in 1 .. n
        BY <1>0, <2>2
      <3>2. u[i - Len(s)] = i
        BY <1>0, <1>4, <3>1
      <3>. QED  BY <1>5, <2>2, <3>2
    <2>. QED  BY <2>1, <2>2
  <1>. QED  BY <1>5, <1>6 DEF t, u

\* Of two prefixes of the stream, the longer extends the shorter.
LEMMA PrefixExtends ==
    ASSUME NEW s \in Seq(Nat), NEW t \in Seq(Nat), Len(s) <= Len(t),
           \A i \in 1 .. Len(s) : s[i] = i, \A i \in 1 .. Len(t) : t[i] = i
    PROVE  \E n \in 0 .. (Len(t) - Len(s)) :
              n = Len(t) - Len(s) /\ t = s \o [i \in 1 .. n |-> Len(s) + i]
  <1>. DEFINE n == Len(t) - Len(s)
              u == s \o [i \in 1 .. n |-> Len(s) + i]
  <1>1. n \in Nat /\ n \in 0 .. (Len(t) - Len(s)) /\ Len(s) \in Nat /\ Len(t) = Len(s) + n
    OBVIOUS
  <1>. HIDE DEF n
  <1>2. u \in Seq(Nat) /\ Len(u) = Len(s) + n /\ \A i \in 1 .. Len(u) : u[i] = i
    BY <1>1, LongerPrefix
  <1>. HIDE DEF u
  <1>3. t = u
    BY <1>1, <1>2, SeqEqual, SMTT(20)
  <1>. QED  BY <1>1, <1>3 DEF u, n

Longer(d, n) == pipe'[d].out = pipe[d].out \o [i \in 1 .. n |-> Len(pipe[d].out) + i]

Stays(d) == pipe'[d].got = pipe[d].got /\ pipe'[d].out = pipe[d].out /\ Open' = Open

Delivers(d) ==
    /\ Open /\ Open'
    /\ \E n \in 1 .. (pipe[d].got - Len(pipe[d].out)) : Longer(d, n)
    /\ pipe'[d].got = pipe[d].got

Closes(d) ==
    /\ Open /\ ~Open'
    /\ \E n \in 0 .. (pipe[d].got - Len(pipe[d].out)) : Longer(d, n)
    /\ pipe'[d].got = pipe[d].got

PipeStep(d) == Stays(d) \/ Receives(d) \/ Delivers(d) \/ Closes(d)

\* Bytes that are only delivered, in order, are those of a step of the pipe.
LEMMA GrowsPipeStep ==
    ASSUME Inv, Inv', Next, NEW d \in Direction, Grows(d)
    PROVE  PipeStep(d)
  <1>1. /\ pipe[d].got \in Nat /\ pipe[d].out \in Seq(Nat) /\ Len(pipe[d].out) \in Nat
        /\ Len(pipe[d].out) <= pipe[d].got /\ \A i \in 1 .. Len(pipe[d].out) : pipe[d].out[i] = i
    BY PipeFields DEF Inv, TypeOK, InOrder
  <1>2. /\ pipe'[d].out \in Seq(Nat) /\ Len(pipe'[d].out) \in Nat
        /\ Len(pipe'[d].out) <= pipe'[d].got /\ \A i \in 1 .. Len(pipe'[d].out) : pipe'[d].out[i] = i
    <2>1. pipe'[d] \in Pipe /\ InOrder(pipe'[d])
      BY DEF Inv, TypeOK, InOrder
    <2>. QED  BY <2>1, PipeFields DEF InOrder
  <1>3. /\ pipe'[d].got = pipe[d].got /\ Len(pipe[d].out) <= Len(pipe'[d].out)
    BY DEF Grows
  <1>. DEFINE s == pipe[d].out
              t == pipe'[d].out
  <1>4. PICK n \in 0 .. (Len(t) - Len(s)) : n = Len(t) - Len(s) /\ Longer(d, n)
    <2>1. \E n \in 0 .. (Len(t) - Len(s)) :
              n = Len(t) - Len(s) /\ t = s \o [i \in 1 .. n |-> Len(s) + i]
      <3>. HIDE DEF s, t
      <3>. QED  BY <1>1, <1>2, <1>3, PrefixExtends, Zenon DEF s, t
    <2>. QED  BY <2>1 DEF Longer
  <1>5. n \in Nat /\ n \in 0 .. (pipe[d].got - Len(pipe[d].out))
    BY <1>1, <1>2, <1>3
  <1>6. CASE ~Open
    <2>1. pipe'[d].out = pipe[d].out
      BY <1>6, QuietWhenDead
    <2>2. ~Open'
      BY <1>6, DeadStays
    <2>. QED  BY <1>3, <1>6, <2>1, <2>2 DEF PipeStep, Stays, Open
  <1>7. CASE Open /\ ~Open'
    BY <1>3, <1>4, <1>5, <1>7, Zenon DEF PipeStep, Closes
  <1>8. CASE Open /\ Open' /\ n # 0
    <2>1. n \in 1 .. (pipe[d].got - Len(pipe[d].out))
      BY <1>1, <1>5, <1>8
    <2>. QED  BY <1>3, <1>4, <1>8, <2>1, Zenon DEF PipeStep, Delivers
  <1>9. CASE Open /\ Open' /\ n = 0
    <2>1. Len(t) = Len(s)
      BY <1>1, <1>2, <1>4, <1>9
    <2>2. t = s
      <3>. HIDE DEF s, t
      <3>. QED  BY <1>1, <1>2, <2>1, SeqEqual, Zenon DEF s, t
    <2>. QED  BY <1>3, <1>9, <2>2 DEF PipeStep, Stays, Open
  <1>. QED  BY <1>6, <1>7, <1>8, <1>9

LEMMA NextPipeStep ==
    ASSUME Inv, Inv', Early, [Next]_vars, NEW d \in Direction
    PROVE  PipeStep(d)
  <1>1. CASE UNCHANGED vars \/ Ended
    BY <1>1 DEF Ended, vars, PipeStep, Stays, Open
  <1>2. CASE SetUpNext
    BY <1>2, SetUpBytes, GrowsPipeStep DEF PipeStep, Next
  <1>3. ASSUME NEW e \in Direction,
               Arrive(e) \/ ReadError(e) \/ Take(e) \/ SendError(e) \/ ReadHandler(e) \/ SendHandler(e)
        PROVE  PipeStep(d)
    <2>1. Next
      BY <1>3 DEF Next
    <2>. QED  BY <1>3, <2>1, ArriveBytes, SentBytes, HandlerBytes, GrowsPipeStep DEF PipeStep
  <1>. QED  BY <1>1, <1>2, <1>3 DEF Next

\* Each direction of the relay is an abstract pipe whose window is the ring: the
\* payload of the request first, then what was read, in order, each byte once, no
\* more than a ring of them held, and none after destroy(), whichever handlers
\* still run.  (That bytes leave at all unless the session ends is the fairness
\* part of RelayImplementsPipe.)
THEOREM SpecImplementsPipe == Spec => Down!Safe /\ Up!Safe
  <1>1. Init => Up!Init /\ Down!Init
    BY DEF Init, IdlePipe, Open, Up!Init, Down!Init, Direction
  <1>2. ASSUME PipeStep("up") PROVE [Up!Next]_(Up!vars)
    <2>1. CASE Stays("up")
      BY <2>1 DEF Stays, Up!vars, Open
    <2>2. CASE Receives("up")
      BY <2>2 DEF Receives, Up!Next, Up!Receive, Open
    <2>3. CASE Delivers("up")
      BY <2>3 DEF Delivers, Longer, Up!Next, Up!Deliver, Up!Upto, Open
    <2>4. CASE Closes("up")
      BY <2>4 DEF Closes, Longer, Up!Next, Up!Close, Up!Upto, Open
    <2>. QED  BY <1>2, <2>1, <2>2, <2>3, <2>4 DEF PipeStep
  <1>3. ASSUME PipeStep("down") PROVE [Down!Next]_(Down!vars)
    <2>1. CASE Stays("down")
      BY <2>1 DEF Stays, Down!vars, Open
    <2>2. CASE Receives("down")
      BY <2>2 DEF Receives, Down!Next, Down!Receive, Open
    <2>3. CASE Delivers("down")
      BY <2>3 DEF Delivers, Longer, Down!Next, Down!Deliver, Down!Upto, Open
    <2>4. CASE Closes("down")
      BY <2>4 DEF Closes, Longer, Down!Next, Down!Close, Down!Upto, Open
    <2>. QED  BY <1>3, <2>1, <2>2, <2>3, <2>4 DEF PipeStep
  <1>4. Inv /\ Inv' /\ Early /\ [Next]_vars => [Up!Next]_(Up!vars) /\ [Down!Next]_(Down!vars)
    BY <1>2, <1>3, NextPipeStep DEF Direction
  <1>5. Init => Early
    BY DEF Init, IdlePipe, Early
  <1>. QED  BY <1>1, <1>4, <1>5, EarlyStep, SpecInv, PTL DEF Spec, Up!Safe, Down!Safe

=============================================================================
