---------------------------- MODULE SessionBuffer ----------------------------
(***************************************************************************)
(* The ring buffer of a relay direction, class SessionBuffer of            *)
(* Server/Session.h.  A ring is a record of the three fields that change;  *)
(* every operator returns the ring (or the length) the method leaves.      *)
(*                                                                         *)
(* A byte is the position it has in the stream it was read from, so two    *)
(* bytes of one stream are never confused and "the right bytes in the      *)
(* right order" can be stated.  0 is the zero the vector is created with.  *)
(***************************************************************************)
EXTENDS Integers

CONSTANTS
    Capacity,   \* capacity_, 64 * 1024 in the code
    SizeT       \* 2^64: size_t arithmetic is modulo SizeT

ASSUME RingAssumption ==
    /\ Capacity \in Nat \ {0}
    /\ SizeT \in Nat
    /\ 2 * Capacity < SizeT

Least(a, b) == IF a <= b THEN a ELSE b

Index == 0 .. (Capacity - 1)

Ring == [buf : [Index -> Nat], read_pos : Index, used : 0 .. (SizeT - 1)]

EmptyRing == [buf |-> [i \in Index |-> 0], read_pos |-> 0, used |-> 0]

WritePos(r) == (r.read_pos + r.used) % Capacity

\* The length of the contiguous space prepare(len) grants.
Prepare(r, len) ==
    IF Capacity - r.used = 0
      THEN 0
      ELSE Least(Least(len, Capacity - r.used), Capacity - WritePos(r))

\* prepare, memcpy and commit of the n bytes first, first + 1, ...: one turn of
\* the copy loop of enqueue_write.
PutChunk(r, first, n) ==
    LET w == WritePos(r)
    IN  [buf |-> [i \in Index |-> IF i \in w .. (w + n - 1) THEN first + (i - w) ELSE r.buf[i]],
         read_pos |-> r.read_pos,
         used |-> r.used + n]

\* The copy loop.  It turns at most twice: the first chunk ends at the end of
\* the vector, at the read position, or with the data; after the second there
\* is no data or no space left, and then n == 0 leaves the loop and drops the
\* rest without a word.
PutBytes(r, first, len) ==
    LET n == Prepare(r, len)
        s == PutChunk(r, first, n)
        m == Prepare(s, len - n)
    IN  PutChunk(s, first + n, m)

\* The length of the contiguous region peek() hands to the socket; it starts
\* at read_pos.
PeekLen(r) == Least(r.used, Capacity - r.read_pos)

\* Mutant: the read position does not move.
Consume_stays(r, n) ==
    [buf |-> r.buf, read_pos |-> r.read_pos, used |-> (r.used - n) % SizeT]

\* used_ -= n wraps below zero.
Consume(r, n) ==
    [buf |-> r.buf, read_pos |-> (r.read_pos + n) % Capacity, used |-> (r.used - n) % SizeT]

Empty(r) == r.used = 0

\* Mutant: one byte too many is let in.
HasSpace_plus1(r, n) == r.used + n <= Capacity + 1

HasSpace(r, n) == r.used + n <= Capacity

Reset(r) == [buf |-> r.buf, read_pos |-> 0, used |-> 0]

=============================================================================
