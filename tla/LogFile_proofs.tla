--------------------------- MODULE LogFile_proofs ---------------------------
(***************************************************************************)
(* What the log keeps, for any number of threads and any day length, roll  *)
(* size, check interval and clock: the proofs of LogFile's properties.     *)
(***************************************************************************)
EXTENDS LogFile, FiniteSetTheorems, SequenceTheorems, TLAPS

\* The lines of the open file are among those logged, and nothing is left in
\* the hands of a LogFile that is gone.
Bounds ==
    /\ TypeOK
    /\ file.written <= Len(when) /\ Len(when) <= MaxLines
    /\ phase # "up" => file.buffer = <<>> /\ \A w \in Writer : writer[w] = 0

\* An error line that is flushed is out of the buffer, and one that is still to
\* be flushed is not lost: it went no further than the buffer or the disk.
Errors ==
    /\ \A i \in safe : i \notin lost /\ i \notin Lines(file.buffer)
    /\ \A w \in Writer : writer[w] \notin lost

\* The open file is the last that holds anything.
Latest ==
    /\ file.name <= LocalDay(now)
    /\ \A d \in Days : d > file.name => disk[d] = <<>>

Line == 1 .. MaxLines

\* The files read in the order of their names, C[d] the one of day d, hold
\* their lines in the order of the log.
Sorted(C) ==
    \A d, e \in Days : \A i \in 1 .. Len(C[d]), j \in 1 .. Len(C[e]) :
        d < e \/ (d = e /\ i < j) => C[d][i] < C[e][j]

Holds(C, k) == \E d \in Days : \E i \in 1 .. Len(C[d]) : C[d][i] = k

\* Of n lines logged each is in a file or gone, and none is both.
Kept(C, n, gone) ==
    /\ \A d \in Days : \A i \in 1 .. Len(C[d]) : C[d][i] <= n /\ C[d][i] \notin gone
    /\ \A k \in 1 .. n : k \in gone \/ Holds(C, k)

Contents == [d \in Days |-> Content(d)]

InOrder == Sorted(Contents)

Accounted == Kept(Contents, Len(when), lost \cup Purged)

\* What was deleted was of a file that was old.
PurgedOld == \A p \in purged : LocalDay(p.at) >= p.day + KeepDays

LinesOf(C, d) == {C[d][i] : i \in 1 .. Len(C[d])}

\* The lines of day d's file that were logged, w[k] being when, at or after Due(d).
Late(C, w, d) == {k \in LinesOf(C, d) : w[k] >= Due(d)}

\* No file holds a line of an earlier day, and the late ones of a file are few.
Dated(C, w) ==
    \A d \in Days : /\ \A k \in LinesOf(C, d) : d <= LocalDay(w[k])
                    /\ \E c \in Int : Late(C, w, d) \subseteq c + 1 .. c + CheckEveryN

InTime == Dated(Contents, when)

\* The open file is of the day it was opened on, and its late lines are among the
\* last count_.
Open ==
    phase = "up" =>
        /\ count < CheckEveryN
        /\ startOfPeriod = PeriodStart(lastRoll) /\ file.name = LocalDay(lastRoll)
        /\ Late(Contents, when, file.name) \subseteq Len(when) - count + 1 .. Len(when)

IInv ==
    Bounds /\ Errors /\ Latest /\ InOrder /\ Accounted /\ PurgedOld /\ InTime /\ Open

-----------------------------------------------------------------------------
\* Days.

LEMMA Product ==
    ASSUME NEW a \in Int, NEW b \in Int, NEW n \in Nat, a <= b
    PROVE  a * n <= b * n /\ a * n \in Int
<1> QED
      OBVIOUS

LEMMA Quotient ==
    ASSUME NEW a \in Nat, NEW n \in Nat \ {0}
    PROVE  /\ a \div n \in Nat /\ (a \div n) * n <= a /\ a < ((a \div n) + 1) * n
           /\ (a \div n) * n \in Nat
<1> QED
      OBVIOUS

LEMMA DivMonotone ==
    ASSUME NEW a \in Nat, NEW b \in Nat, NEW n \in Nat \ {0}, a <= b
    PROVE  a \div n <= b \div n /\ (a \div n) * n <= (b \div n) * n
<1> DEFINE p == a \div n  q == b \div n
<1>1. p \in Nat /\ p * n <= a /\ q \in Nat /\ b < (q + 1) * n /\ p * n \in Nat /\ (q + 1) * n \in Int
      BY Quotient
<1> HIDE DEF p, q
<1>2. p * n < (q + 1) * n
      BY <1>1
<1>3. p <= q
  <2> SUFFICES ASSUME q + 1 <= p PROVE FALSE
        BY <1>1
  <2>1. (q + 1) * n <= p * n
        BY <1>1, Product
  <2> QED
        BY <1>1, <1>2, <2>1
<1>4. p * n <= q * n
      BY <1>1, <1>3, Product
<1> QED
      BY <1>3, <1>4 DEF p, q

\* The local day does not go back, and the days are numbered from 0.
LEMMA LocalDayMonotone ==
    ASSUME NEW s \in Nat, NEW t \in Nat, s <= t
    PROVE  LocalDay(s) \in Nat /\ LocalDay(s) <= LocalDay(t)
<1>1. s + Shift \in Nat /\ t + Shift \in Nat /\ s + Shift <= t + Shift /\ DayLen \in Nat \ {0}
      BY LogAssumption
<1> QED
      BY <1>1, DivMonotone, Quotient DEF LocalDay

LEMMA PeriodMonotone ==
    ASSUME NEW s \in Nat, NEW t \in Nat, s <= t
    PROVE  PeriodStart(s) \in Nat /\ PeriodStart(s) <= PeriodStart(t)
<1> QED
      BY DivMonotone, Quotient, LogAssumption DEF PeriodStart

LEMMA DayOfNow ==
    ASSUME NEW t \in 1 .. MaxTime
    PROVE  LocalDay(t) \in Days /\ t \in Nat
<1>1. t \in Nat /\ MaxTime \in Nat /\ t <= MaxTime
      BY LogAssumption
<1>2. LocalDay(t) \in Nat /\ LocalDay(t) <= LocalDay(MaxTime) /\ LocalDay(MaxTime) \in Nat
      BY <1>1, LocalDayMonotone
<1> QED
      BY <1>1, <1>2 DEF Days

\* A file that is old is so by maxKeepDays_ local days.
LEMMA OldByDays ==
    ASSUME NEW d \in Days, now \in Nat, Old(d)
    PROVE  LocalDay(now) >= d + KeepDays
<1>1. /\ DayLen \in Nat \ {0} /\ Shift \in Nat /\ KeepDays \in Nat /\ MaxTime \in Nat
      BY LogAssumption
<1>2. d \in Nat
      BY <1>1, LocalDayMonotone DEF Days
<1> DEFINE a == now + Shift  q == a \div DayLen  n == d + KeepDays
<1>3. a \in Nat /\ q \in Nat /\ a < (q + 1) * DayLen /\ n \in Nat
      BY <1>1, <1>2, Quotient
<1>4. a > n * DayLen
  <2>1. a > d * DayLen + KeepDays * DayLen
        BY <1>1, <1>2 DEF Old, Midnight
  <2>2. n * DayLen = d * DayLen + KeepDays * DayLen
        BY <1>1, <1>2
  <2> QED
        BY <2>1, <2>2
<1> HIDE DEF a, q, n
<1>5. q >= n
  <2> SUFFICES ASSUME q + 1 <= n PROVE FALSE
        BY <1>3
  <2>1. (q + 1) * DayLen <= n * DayLen /\ (q + 1) * DayLen \in Int /\ n * DayLen \in Int
        BY <1>1, <1>3, Product
  <2> QED
        BY <1>3, <1>4, <2>1
<1> QED
      BY <1>5 DEF LocalDay, a, q, n

\* While no midnight of UTC has gone by since s, the day of s is not due.
LEMMA NotDue ==
    ASSUME NEW s \in Nat, NEW t \in Nat, PeriodStart(t) = PeriodStart(s)
    PROVE  t < Due(LocalDay(s)) /\ Due(LocalDay(s)) \in Int
<1> DEFINE p == s \div DayLen  q == t \div DayLen  d == LocalDay(s)
<1>1. DayLen \in Nat \ {0} /\ Shift \in Nat
      BY LogAssumption
<1>2. p \in Nat /\ q \in Nat /\ t < (q + 1) * DayLen
      BY <1>1, Quotient
<1>3. p * DayLen = q * DayLen
      BY DEF PeriodStart
<1>4. d \in Nat /\ p <= d
  <2>1. s + Shift \in Nat /\ s <= s + Shift
        BY <1>1
  <2> QED
        BY <1>1, <2>1, DivMonotone, Quotient DEF LocalDay
<1> HIDE DEF p, q, d
<1>5. (q + 1) * DayLen = (p + 1) * DayLen
      BY <1>1, <1>2, <1>3
<1>6. (p + 1) * DayLen <= (d + 1) * DayLen /\ (p + 1) * DayLen \in Int /\ (d + 1) * DayLen \in Int
      BY <1>1, <1>2, <1>4, Product
<1>7. t < (d + 1) * DayLen
      BY <1>2, <1>5, <1>6
<1> QED
      BY <1>6, <1>7 DEF Due, d

\* A line that comes before a file is due is of the file's day or the next.
LEMMA OfTheNextDay ==
    ASSUME NEW d \in Nat, NEW t \in Nat, t < Due(d)
    PROVE  LocalDay(t) \in Nat /\ LocalDay(t) <= d + 1
<1> DEFINE a == t + Shift  q == a \div DayLen
<1>1. DayLen \in Nat \ {0} /\ Shift \in Nat /\ Shift < DayLen
      BY LogAssumption
<1>2. a \in Nat /\ q \in Nat /\ q * DayLen <= a /\ q * DayLen \in Nat
      BY <1>1, Quotient
<1>3. a < (d + 2) * DayLen
  <2>1. (d + 2) * DayLen = (d + 1) * DayLen + DayLen /\ (d + 1) * DayLen \in Int
        BY <1>1
  <2> QED
        BY <1>1, <2>1 DEF Due
<1> HIDE DEF a, q
<1>4. q <= d + 1
  <2> SUFFICES ASSUME d + 2 <= q PROVE FALSE
        BY <1>2
  <2>1. (d + 2) * DayLen <= q * DayLen /\ (d + 2) * DayLen \in Int
        BY <1>1, <1>2, Product
  <2> QED
        BY <1>2, <1>3, <2>1
<1> QED
      BY <1>2, <1>4 DEF LocalDay, a, q

-----------------------------------------------------------------------------
\* Files.

Files == [Days -> Seq(Line)]
AppendFiles == [name : Days, buffer : Seq(Line), written : 0 .. MaxLines]

\* A line more in the file of a day.
Added(C, name, n) == [C EXCEPT ![name] = Append(@, n)]

\* A line logged goes to the end of the last file that holds anything.
LEMMA LineAdded ==
    ASSUME NEW C \in Files, NEW n \in Nat, n + 1 \in Line, NEW gone, \A k \in gone : k <= n,
           NEW name \in Days, \A d \in Days : d > name => C[d] = <<>>,
           Sorted(C), Kept(C, n, gone), gone \subseteq Int,
           NEW B, B = Added(C, name, n + 1)
    PROVE  B \in Files /\ Sorted(B) /\ Kept(B, n + 1, gone)
<1> DEFINE m == Len(C[name])
<1>0. Days \subseteq Nat
      BY LocalDayMonotone, LogAssumption DEF Days
<1>1. C[name] \in Seq(Line) /\ m \in Nat /\ \A d \in Days : C[d] \in Seq(Line) /\ Len(C[d]) \in Nat
      BY DEF Files
<1>2. /\ B \in Files /\ \A d \in Days : d # name => B[d] = C[d]
      /\ B[name] = Append(C[name], n + 1)
      BY <1>1 DEF Files, Added
<1>3. /\ Len(B[name]) = m + 1 /\ B[name][m + 1] = n + 1
      /\ \A i \in 1 .. m : B[name][i] = C[name][i]
      BY <1>1, <1>2
<1> HIDE DEF m
<1>4. ASSUME NEW d \in Days, NEW i \in 1 .. Len(B[d])
      PROVE  \/ i \in 1 .. Len(C[d]) /\ B[d][i] = C[d][i]
             \/ d = name /\ i = m + 1 /\ B[d][i] = n + 1
  <2>1. CASE d = name
    <3>1. Len(C[d]) = m
          BY <2>1 DEF m
    <3>2. i \in 1 .. m \/ i = m + 1
          BY <1>1, <1>3, <2>1
    <3> QED
          BY <1>3, <2>1, <3>1, <3>2, Zenon
  <2>2. CASE d # name
        BY <1>2, <2>2, Zenon
  <2> QED
        BY <2>1, <2>2, Zenon
<1>5. \A d \in Days : \A i \in 1 .. Len(C[d]) :
          i \in 1 .. Len(B[d]) /\ B[d][i] = C[d][i] /\ C[d][i] \in Int /\ C[d][i] <= n
  <2> SUFFICES ASSUME NEW d \in Days, NEW i \in 1 .. Len(C[d])
               PROVE  i \in 1 .. Len(B[d]) /\ B[d][i] = C[d][i] /\ C[d][i] \in Int /\ C[d][i] <= n
        OBVIOUS
  <2>1. C[d][i] \in Int /\ C[d][i] <= n
        BY <1>1, LogAssumption DEF Kept, Line
  <2>2. CASE d = name
        BY <1>1, <1>3, <2>1, <2>2 DEF m
  <2>3. CASE d # name
        BY <1>2, <2>1, <2>3
  <2> QED
        BY <2>2, <2>3
<1>6. Sorted(B)
  <2> SUFFICES ASSUME NEW d \in Days, NEW e \in Days, NEW i \in 1 .. Len(B[d]), NEW j \in 1 .. Len(B[e]),
                      d < e \/ (d = e /\ i < j)
               PROVE  B[d][i] < B[e][j]
        BY DEF Sorted
  <2>1. i \in 1 .. Len(C[d]) /\ B[d][i] = C[d][i]
    <3> SUFFICES ASSUME d = name, i = m + 1 PROVE FALSE
          BY <1>4
    <3>1. CASE d < e
          BY <1>2, <3>1, <1>0, SMTT(30)
    <3>2. CASE d = e /\ i < j
          BY <1>1, <1>3, <3>2
    <3> QED
          BY <3>1, <3>2
  <2>2. CASE j \in 1 .. Len(C[e]) /\ B[e][j] = C[e][j]
        BY <2>1, <2>2 DEF Sorted
  <2>3. CASE B[e][j] = n + 1
        BY <1>5, <2>1, <2>3
  <2> QED
        BY <1>4, <2>2, <2>3
<1>7. Kept(B, n + 1, gone)
  <2>1. ASSUME NEW d \in Days, NEW i \in 1 .. Len(B[d])
        PROVE  B[d][i] <= n + 1 /\ B[d][i] \notin gone
    <3>1. CASE i \in 1 .. Len(C[d]) /\ B[d][i] = C[d][i]
          BY <1>5, <3>1, SMTT(30) DEF Kept
    <3>2. CASE B[d][i] = n + 1
          BY <3>2
    <3> QED
          BY <1>4, <3>1, <3>2
  <2>2. ASSUME NEW k \in 1 .. n + 1, k \notin gone
        PROVE  Holds(B, k)
    <3>1. CASE k = n + 1
          BY <1>1, <1>3, <3>1 DEF Holds, m
    <3>2. CASE k # n + 1
      <4>1. Holds(C, k)
            BY <2>2, <3>2 DEF Kept
      <4> QED
            BY <1>5, <4>1 DEF Holds
    <3> QED
          BY <3>1, <3>2
  <2> QED
        BY <2>1, <2>2 DEF Kept
<1> QED
      BY <1>2, <1>6, <1>7

\* Files lose some of their last lines, or all of them: the rest is as it was,
\* and what they lose is gone.
LEMMA LinesGone ==
    ASSUME NEW C \in Files, NEW B \in Files, NEW n \in Nat, NEW gone, NEW more,
           Sorted(C), Kept(C, n, gone),
           \A d \in Days : Len(B[d]) <= Len(C[d]) /\ \A i \in 1 .. Len(B[d]) : B[d][i] = C[d][i],
           \A k : k \in more <=> \E d \in Days : \E i \in 1 .. Len(C[d]) :
                                     i > Len(B[d]) /\ C[d][i] = k
    PROVE  Sorted(B) /\ Kept(B, n, gone \cup more)
<1>0. Days \subseteq Nat
      BY LocalDayMonotone, LogAssumption DEF Days
<1>1. /\ \A d \in Days : Len(B[d]) \in Nat /\ Len(C[d]) \in Nat
      /\ \A d \in Days : \A i \in 1 .. Len(B[d]) : i \in 1 .. Len(C[d]) /\ B[d][i] = C[d][i]
  <2>1. \A d \in Days : B[d] \in Seq(Line) /\ C[d] \in Seq(Line)
        BY DEF Files
  <2> QED
        BY <2>1
<1>2. \A d \in Days : \A i \in 1 .. Len(C[d]) : C[d][i] \in Int
  <2>1. \A d \in Days : C[d] \in Seq(Line)
        BY DEF Files
  <2> QED
        BY <2>1, LogAssumption DEF Line
<1>3. Sorted(B)
      BY <1>1 DEF Sorted
<1>4. ASSUME NEW d \in Days, NEW i \in 1 .. Len(B[d])
      PROVE  B[d][i] <= n /\ B[d][i] \notin gone \cup more
  <2>1. i \in 1 .. Len(C[d]) /\ B[d][i] = C[d][i] /\ C[d][i] <= n /\ C[d][i] \notin gone
        BY <1>1 DEF Kept
  <2> SUFFICES ASSUME B[d][i] \in more PROVE FALSE
        BY <2>1
  <2>2. PICK e \in Days : \E j \in 1 .. Len(C[e]) : j > Len(B[e]) /\ C[e][j] = B[d][i]
        OBVIOUS
  <2>3. PICK j \in 1 .. Len(C[e]) : j > Len(B[e]) /\ C[e][j] = B[d][i]
        BY <2>2
  <2>4. C[e][j] = C[d][i] /\ C[d][i] \in Int
        BY <1>2, <2>1, <2>3
  <2>5. ~(d < e) /\ ~(e < d)
        BY <2>1, <2>4 DEF Sorted
  <2>6. d = e
        BY <1>0, <2>5
  <2>7. i < j
        BY <1>1, <2>3, <2>6
  <2> QED
        BY <2>1, <2>4, <2>6, <2>7 DEF Sorted
<1>5. ASSUME NEW k \in 1 .. n, k \notin gone \cup more
      PROVE  Holds(B, k)
  <2>1. Holds(C, k)
        BY <1>5 DEF Kept
  <2>2. PICK d \in Days : \E i \in 1 .. Len(C[d]) : C[d][i] = k
        BY <2>1 DEF Holds
  <2>3. PICK i \in 1 .. Len(C[d]) : C[d][i] = k
        BY <2>2
  <2>4. ~(i > Len(B[d]))
        BY <1>5, <2>3
  <2>5. i \in 1 .. Len(B[d])
        BY <1>1, <2>4
  <2> QED
        BY <1>1, <2>3, <2>5 DEF Holds
<1> QED
      BY <1>3, <1>4, <1>5 DEF Kept

\* A line that reached no file is gone.
LEMMA LineLost ==
    ASSUME NEW C \in Files, NEW n \in Nat, NEW gone, Kept(C, n, gone)
    PROVE  Kept(C, n + 1, gone \cup {n + 1})
<1>1. \A d \in Days : \A i \in 1 .. Len(C[d]) : C[d][i] \in Int
  <2>1. \A d \in Days : C[d] \in Seq(Line)
        BY DEF Files
  <2> QED
        BY <2>1, LogAssumption DEF Line
<1>2. ASSUME NEW d \in Days, NEW i \in 1 .. Len(C[d])
      PROVE  C[d][i] <= n + 1 /\ C[d][i] \notin gone \cup {n + 1}
      BY <1>1 DEF Kept
<1>3. ASSUME NEW k \in 1 .. n + 1, k \notin gone \cup {n + 1}
      PROVE  Holds(C, k)
      BY <1>3 DEF Kept
<1> QED
      BY <1>2, <1>3 DEF Kept

-----------------------------------------------------------------------------
\* The open file and the disk.

\* What the files hold, with D on disk and b in the buffer of the file of a day.
Shown(D, name, b) == [d \in Days |-> IF d = name THEN D[d] \o b ELSE D[d]]

LEMMA ShownFiles ==
    ASSUME NEW D \in Files, NEW name \in Days, NEW b \in Seq(Line)
    PROVE  /\ Shown(D, name, b) \in Files
           /\ [D EXCEPT ![name] = @ \o b] = Shown(D, name, b)
           /\ \A d \in Days : Shown(D, name, <<>>)[d] = D[d]
           /\ Shown(D, name, <<>>) = D
<1>1. \A d \in Days : D[d] \in Seq(Line) /\ D[d] \o b \in Seq(Line) /\ D[d] \o <<>> = D[d]
      BY ConcatProperties, ConcatEmptySeq DEF Files
<1>2. Shown(D, name, b) \in Files
      BY <1>1 DEF Shown, Files
<1>3. [D EXCEPT ![name] = @ \o b] = Shown(D, name, b)
      BY Zenon DEF Shown, Files
<1>4. \A d \in Days : Shown(D, name, <<>>)[d] = D[d]
      BY <1>1 DEF Shown
<1>5. Shown(D, name, <<>>) = D
      BY <1>4 DEF Shown, Files
<1> QED
      BY <1>2, <1>3, <1>4, <1>5

\* A line put into the buffer comes after all that the file holds.
LEMMA ShownAppend ==
    ASSUME NEW D \in Files, NEW name \in Days, NEW b \in Seq(Line), NEW n \in Line
    PROVE  Shown(D, name, Append(b, n)) = Added(Shown(D, name, b), name, n)
<1>1. D[name] \in Seq(Line)
      BY DEF Files
<1>2. D[name] \o Append(b, n) = Append(D[name] \o b, n)
  <2>1. <<n>> \in Seq(Line) /\ D[name] \o b \in Seq(Line)
        BY <1>1, ConcatProperties
  <2>2. Append(b, n) = b \o <<n>> /\ Append(D[name] \o b, n) = (D[name] \o b) \o <<n>>
        BY <2>1, AppendIsConcat, Zenon
  <2>3. (D[name] \o b) \o <<n>> = D[name] \o (b \o <<n>>)
    <3> DEFINE t == D[name]  u == <<n>>
    <3>1. t \in Seq(Line) /\ u \in Seq(Line)
          BY <1>1, <2>1
    <3> HIDE DEF t, u
    <3>2. (t \o b) \o u = t \o (b \o u)
          BY <3>1, ConcatAssociative
    <3> QED
          BY <3>2, Zenon DEF t, u
  <2> QED
        BY <2>2, <2>3, Zenon
<1>3. Shown(D, name, b)[name] = D[name] \o b
      BY DEF Shown
<1>4. \A d \in Days : Shown(D, name, Append(b, n))[d] =
                          Added(Shown(D, name, b), name, n)[d]
      BY <1>2, <1>3, Zenon DEF Shown, Added
<1> QED
      BY <1>4, Zenon DEF Shown, Added

LEMMA BoundsFacts ==
    ASSUME Bounds
    PROVE  /\ disk \in Files /\ file.name \in Days /\ file.buffer \in Seq(Line)
           /\ file.written \in 0 .. Len(when) /\ Len(when) \in Nat /\ Len(when) <= MaxLines
           /\ now \in Nat /\ now \in 1 .. MaxTime /\ MaxTime \in Nat /\ MaxLines \in Nat
           /\ LocalDay(now) \in Days /\ Days \subseteq Nat
           /\ Contents = Shown(disk, file.name, file.buffer) /\ Contents \in Files
           /\ lost \subseteq 1 .. Len(when) /\ safe \subseteq 1 .. Len(when)
           /\ \A k \in lost \cup Purged : k \in 1 .. Len(when)
           /\ file \in AppendFiles
           /\ \A i \in 1 .. Len(when) : when[i] \in 1 .. now
<1>1. /\ disk \in Files /\ file.name \in Days /\ file.buffer \in Seq(Line)
      /\ file.written \in 0 .. MaxLines /\ now \in 1 .. MaxTime
      /\ lost \subseteq 1 .. Len(when) /\ safe \subseteq 1 .. Len(when)
      /\ file \in AppendFiles
      /\ Len(when) <= MaxLines /\ file.written <= Len(when)
      BY DEF Bounds, TypeOK, Files, AppendFiles, Line
<1>2. when \in Seq(1 .. now) /\ MaxTime \in Nat /\ MaxLines \in Nat
      BY LogAssumption DEF Bounds, TypeOK
<1>3. Len(when) \in Nat /\ \A i \in 1 .. Len(when) : when[i] \in 1 .. now
      BY <1>2, LenProperties, ElementOfSeq, Zenon
<1>4. now \in Nat /\ LocalDay(now) \in Days /\ Days \subseteq Nat
      BY <1>1, <1>2, DayOfNow, LocalDayMonotone DEF Days
<1>5. Contents = Shown(disk, file.name, file.buffer)
      BY DEF Contents, Content, Shown
<1>6. Contents \in Files
      BY <1>1, <1>5, ShownFiles
<1>7. \A p \in purged : p.line \in 1 .. Len(when)
      BY DEF Bounds, TypeOK
<1>8. \A k \in lost \cup Purged : k \in 1 .. Len(when)
      BY <1>1, <1>7 DEF Purged
<1> QED
      BY <1>1, <1>2, <1>3, <1>4, <1>5, <1>6, <1>8

\* The buffer is written to the file, which stays open, is opened again or makes
\* room for the next: the files hold what they held.
LEMMA FlushKeeps ==
    ASSUME Bounds, disk' = Closed(file), file'.buffer = <<>>, file'.name \in Days
    PROVE  Contents' = Contents /\ disk' \in Files /\ disk' = Contents
<1>1. /\ disk \in Files /\ file.name \in Days /\ file.buffer \in Seq(Line)
      /\ Contents = Shown(disk, file.name, file.buffer) /\ Contents \in Files
      BY BoundsFacts
<1>2. disk' = Contents
      BY <1>1, Zenon DEF Closed, Shown, Files
<1>3. Contents' = Shown(disk', file'.name, file'.buffer)
      BY DEF Contents, Content, Shown
<1>4. <<>> \in Seq(Line)
      OBVIOUS
<1>5. Shown(Contents, file'.name, <<>>) = Contents
      BY <1>1, <1>4, ShownFiles
<1> QED
      BY <1>1, <1>2, <1>3, <1>5

-----------------------------------------------------------------------------
\* The steps.

LEMMA FileEmptied ==
    ASSUME NEW f \in AppendFiles
    PROVE  LET g == [f EXCEPT !.buffer = <<>>]
           IN  g \in AppendFiles /\ g.name = f.name /\ g.buffer = <<>> /\ g.written = f.written
<1>1. <<>> \in Seq(Line)
      OBVIOUS
<1> QED
      BY <1>1, Zenon DEF AppendFiles

LEMMA WriterDone ==
    ASSUME TypeOK, NEW w \in Writer, writer' = [writer EXCEPT ![w] = 0]
    PROVE  /\ writer' \in [Writer -> 0 .. Len(when)]
           /\ \A v \in Writer : writer'[v] = writer[v] \/ writer'[v] = 0
<1>1. when \in Seq(1 .. now) /\ writer \in [Writer -> 0 .. Len(when)]
      BY DEF TypeOK
<1>2. Len(when) \in Nat
      BY <1>1, LenProperties
<1> QED
      BY <1>1, <1>2

\* flush, Spill and Stop: the buffer goes to the disk, and an error line that
\* was in it is safe.
\* What holds of the dates of the lines holds when fewer of them are left.
LEMMA FewerLines ==
    ASSUME NEW C, NEW B, NEW w, NEW v, Dated(C, w),
           \A d \in Days : \A k \in LinesOf(B, d) : k \in LinesOf(C, d) /\ v[k] = w[k]
    PROVE  Dated(B, v) /\ \A d \in Days : Late(B, v, d) \subseteq Late(C, w, d)
<1>1. ASSUME NEW d \in Days
      PROVE  Late(B, v, d) \subseteq Late(C, w, d)
      BY <1>1 DEF Late
<1>2. ASSUME NEW d \in Days, NEW k \in LinesOf(B, d)
      PROVE  d <= LocalDay(v[k])
      BY <1>2 DEF Dated
<1>3. ASSUME NEW d \in Days
      PROVE  \E c \in Int : Late(B, v, d) \subseteq c + 1 .. c + CheckEveryN
  <2>1. PICK c \in Int : Late(C, w, d) \subseteq c + 1 .. c + CheckEveryN
        BY <1>3 DEF Dated
  <2> QED
        BY <1>1, <2>1
<1> QED
      BY <1>1, <1>2, <1>3 DEF Dated

\* The lines of the files are lines that were logged, and when.
LEMMA LinesLogged ==
    ASSUME Bounds, Accounted
    PROVE  \A d \in Days : \A k \in LinesOf(Contents, d) :
               k \in 1 .. Len(when) /\ when[k] \in 1 .. now
<1> SUFFICES ASSUME NEW d \in Days, NEW k \in LinesOf(Contents, d)
             PROVE  k \in 1 .. Len(when) /\ when[k] \in 1 .. now
      OBVIOUS
<1>1. Contents \in Files /\ Len(when) \in Nat /\ \A i \in 1 .. Len(when) : when[i] \in 1 .. now
      BY BoundsFacts
<1>2. PICK i \in 1 .. Len(Contents[d]) : Contents[d][i] = k
      BY DEF LinesOf
<1>3. k \in Line
  <2>1. Contents[d] \in Seq(Line)
        BY <1>1 DEF Files
  <2> QED
        BY <1>2, <2>1, ElementOfSeq
<1>4. k <= Len(when)
      BY <1>2 DEF Accounted, Kept
<1>5. k \in 1 .. Len(when)
      BY <1>1, <1>3, <1>4, LogAssumption DEF Line
<1> QED
      BY <1>1, <1>5

LEMMA BufferWritten ==
    ASSUME IInv, phase = "up", disk' = Closed(file), file' = [file EXCEPT !.buffer = <<>>],
           UNCHANGED <<now, count, startOfPeriod, lastRoll, lastFlush, when, lost, purged>>,
           \/ phase' = "up"
           \/ /\ phase' \in {"closed", "failed"} /\ writer' = writer
              /\ \A w \in Writer : writer[w] = 0,
           \/ writer' = writer /\ safe' = safe
           \/ \E w \in Writer : /\ writer[w] # 0 /\ writer' = [writer EXCEPT ![w] = 0]
                                /\ safe' = safe \cup {writer[w]}
    PROVE  IInv'
<1>1. Bounds
      BY DEF IInv
<1>2. /\ disk \in Files /\ file.name \in Days /\ file.written \in 0 .. Len(when)
      /\ Len(when) \in Nat /\ lost \subseteq 1 .. Len(when) /\ safe \subseteq 1 .. Len(when)
      /\ file \in AppendFiles
      /\ Contents = Shown(disk, file.name, file.buffer)
      BY <1>1, BoundsFacts
<1>3. /\ file' \in AppendFiles
      /\ file'.name = file.name /\ file'.buffer = <<>> /\ file'.written = file.written
      BY <1>2, FileEmptied, Zenon
<1>4. Contents' = Contents /\ disk' \in Files /\ disk' = Contents
      BY <1>1, <1>2, <1>3, FlushKeeps
<1>5. /\ writer' \in [Writer -> 0 .. Len(when)]
      /\ \A v \in Writer : writer'[v] = writer[v] \/ writer'[v] = 0
  <2>1. CASE writer' = writer
        BY <1>1, <2>1 DEF Bounds, TypeOK
  <2>2. CASE writer' # writer
        BY <1>1, <2>2, WriterDone DEF Bounds
  <2> QED
        BY <2>1, <2>2
<1>6. \A i \in safe' : i \in safe \/ \E w \in Writer : i = writer[w] /\ i # 0
      OBVIOUS
<1>7. safe' \subseteq 1 .. Len(when)
  <2>1. writer \in [Writer -> 0 .. Len(when)]
        BY <1>1 DEF Bounds, TypeOK
  <2>2. \A w \in Writer : writer[w] # 0 => writer[w] \in 1 .. Len(when)
        BY <1>2, <2>1
  <2> QED
        BY <1>2, <1>6, <2>2
<1>8. Bounds'
  <2>1. TypeOK'
        BY <1>1, <1>3, <1>4, <1>5, <1>7 DEF Bounds, TypeOK, Files, AppendFiles, Line
  <2>2. phase' # "up" => \A w \in Writer : writer'[w] = 0
        OBVIOUS
  <2> QED
        BY <1>1, <1>3, <2>1, <2>2 DEF Bounds
<1>9. Errors'
  <2>1. Lines(file'.buffer) = {}
        BY <1>3 DEF Lines
  <2>2. 0 \notin lost
        BY <1>2
  <2> QED
        BY <1>5, <1>6, <2>1, <2>2 DEF IInv, Errors
<1>10. Latest'
  <2>1. ASSUME NEW d \in Days, d > file.name
        PROVE  disk'[d] = <<>>
    <3>1. Contents[d] = disk[d]
          BY <1>1, <1>2, <2>1, BoundsFacts DEF Shown
    <3> QED
          BY <1>4, <2>1, <3>1 DEF IInv, Latest
  <2> QED
        BY <1>3, <2>1 DEF IInv, Latest
<1>11. InOrder' /\ Accounted'
      BY <1>4 DEF IInv, InOrder, Accounted, Purged
<1>12. PurgedOld'
      BY DEF IInv, PurgedOld
<1>13. InTime' /\ Open'
      BY <1>3, <1>4 DEF IInv, InTime, Open
<1> QED
      BY <1>8, <1>9, <1>10, <1>11, <1>12, <1>13 DEF IInv

LEMMA TickStep ==
    ASSUME IInv, Tick
    PROVE  IInv'
<1>1. /\ now' = now + 1 /\ now < MaxTime
      /\ UNCHANGED <<phase, disk, file, count, startOfPeriod, lastRoll, lastFlush, writer,
                     when, lost, purged, safe>>
      BY DEF Tick
<1>2. Bounds /\ now \in Nat /\ MaxTime \in Nat /\ now \in 1 .. MaxTime
      BY BoundsFacts DEF IInv
<1>3. 1 .. now \subseteq 1 .. now' /\ 0 .. now \subseteq 0 .. now' /\ now' \in 1 .. MaxTime /\ now' \in Nat
      BY <1>1, <1>2
<1>4. TypeOK'
  <2>1. when' \in Seq(1 .. now')
    <3>1. when \in Seq(1 .. now)
          BY <1>2 DEF Bounds, TypeOK
    <3> QED
          BY <1>1, <1>3, <3>1, SeqMonotonic, Zenon
  <2>2. purged' \subseteq [line : 1 .. Len(when'), day : Days, at : 1 .. now']
    <3>1. purged \subseteq [line : 1 .. Len(when), day : Days, at : 1 .. now]
          BY <1>2 DEF Bounds, TypeOK
    <3> QED
          BY <1>1, <1>3, <3>1
  <2>3. lastRoll' \in 0 .. now' /\ lastFlush' \in 0 .. now'
        BY <1>1, <1>2, <1>3 DEF Bounds, TypeOK
  <2> QED
        BY <1>1, <1>2, <1>3, <2>1, <2>2, <2>3 DEF Bounds, TypeOK
<1>5. Bounds'
      BY <1>1, <1>2, <1>4 DEF Bounds
<1>6. LocalDay(now) <= LocalDay(now') /\ LocalDay(now) \in Nat /\ LocalDay(now') \in Nat
      BY <1>1, <1>2, <1>3, LocalDayMonotone
<1>7. Latest'
  <2>1. file.name \in Nat
        BY <1>2, BoundsFacts
  <2> QED
        BY <1>1, <1>6, <2>1 DEF IInv, Latest
<1>8. Contents' = Contents /\ Purged' = Purged
      BY <1>1 DEF Contents, Content, Purged
<1>9. InOrder' /\ Accounted'
      BY <1>1, <1>8 DEF IInv, InOrder, Accounted
<1>10. Errors' /\ PurgedOld'
      BY <1>1 DEF IInv, Errors, PurgedOld
<1>11. InTime' /\ Open'
      BY <1>1, <1>8 DEF IInv, InTime, Open
<1> QED
      BY <1>5, <1>7, <1>9, <1>10, <1>11 DEF IInv

\* The buffer is the end of the open file.
LEMMA BufferLines ==
    ASSUME Bounds
    PROVE  /\ \A d \in Days : /\ Len(disk[d]) <= Len(Contents[d])
                              /\ \A i \in 1 .. Len(disk[d]) : disk[d][i] = Contents[d][i]
           /\ \A k : k \in Lines(file.buffer) <=>
                        \E d \in Days : \E i \in 1 .. Len(Contents[d]) :
                            i > Len(disk[d]) /\ Contents[d][i] = k
<1> DEFINE b == file.buffer  c == disk[file.name] \o b
<1>1. /\ disk \in Files /\ file.name \in Days /\ b \in Seq(Line)
      /\ Contents = Shown(disk, file.name, file.buffer)
      BY BoundsFacts
<1>2. \A d \in Days : disk[d] \in Seq(Line)
      BY <1>1 DEF Files
<1>3. \A d \in Days : Len(disk[d]) \in Nat
      BY <1>2, LenProperties
<1>4. Len(b) \in Nat /\ DOMAIN b = 1 .. Len(b)
      BY <1>1, LenProperties
<1>5. /\ Len(c) = Len(disk[file.name]) + Len(b)
      /\ \A i \in 1 .. Len(disk[file.name]) + Len(b) :
            c[i] = IF i <= Len(disk[file.name]) THEN disk[file.name][i]
                                                ELSE b[i - Len(disk[file.name])]
      BY <1>1, <1>2, ConcatProperties, Zenon
<1>6. Contents[file.name] = c /\ \A d \in Days : d # file.name => Contents[d] = disk[d]
      BY <1>1, Zenon DEF Shown
<1> HIDE DEF b, c
<1>7. ASSUME NEW d \in Days
      PROVE  /\ Len(disk[d]) <= Len(Contents[d])
             /\ \A i \in 1 .. Len(disk[d]) : disk[d][i] = Contents[d][i]
  <2>1. CASE d = file.name
        BY <1>3, <1>4, <1>5, <1>6, <2>1, SMTT(20)
  <2>2. CASE d # file.name
        BY <1>3, <1>6, <2>2
  <2> QED
        BY <2>1, <2>2
<1>8. ASSUME NEW k, k \in Lines(b)
      PROVE  \E d \in Days : \E i \in 1 .. Len(Contents[d]) : i > Len(disk[d]) /\ Contents[d][i] = k
  <2>1. PICK j \in 1 .. Len(b) : b[j] = k
        BY <1>4, <1>8 DEF Lines
  <2> DEFINE i == Len(disk[file.name]) + j
  <2>2. Len(disk[file.name]) \in Nat
        BY <1>1, <1>3
  <2>3. i \in 1 .. Len(c) /\ i > Len(disk[file.name]) /\ i - Len(disk[file.name]) = j
        BY <1>4, <1>5, <2>2
  <2>4. c[i] = k
    <3> DEFINE m == Len(disk[file.name])
    <3>1. c[i] = IF i <= m THEN disk[file.name][i] ELSE b[i - m]
          BY <1>5, <2>3, Zenon
    <3>2. m \in Nat /\ i \in Nat /\ i > m /\ i - m = j
          BY <2>2, <2>3
    <3> HIDE DEF m, i
    <3> QED
          BY <2>1, <3>1, <3>2
  <2> HIDE DEF i
  <2> QED
        BY <1>1, <1>6, <2>3, <2>4
<1>9. ASSUME NEW d \in Days, NEW i \in 1 .. Len(Contents[d]), i > Len(disk[d])
      PROVE  Contents[d][i] \in Lines(b)
  <2>1. d = file.name
        BY <1>3, <1>6, <1>9
  <2>2. Contents[d][i] = b[i - Len(disk[d])] /\ i - Len(disk[d]) \in 1 .. Len(b)
    <3> DEFINE m == Len(disk[file.name])
    <3>1. m \in Nat /\ i \in 1 .. Len(c) /\ i > m /\ Contents[d][i] = c[i]
          BY <1>1, <1>3, <1>6, <1>9, <2>1
    <3>2. i \in 1 .. m + Len(b)
          BY <1>5, <3>1
    <3>3. c[i] = IF i <= m THEN disk[file.name][i] ELSE b[i - m]
          BY <1>5, <3>2
    <3> HIDE DEF m
    <3>4. c[i] = b[i - m] /\ i - m \in 1 .. Len(b)
          BY <1>4, <3>1, <3>2, <3>3
    <3> QED
          BY <2>1, <3>1, <3>4 DEF m
  <2> QED
        BY <1>4, <2>2 DEF Lines
<1> QED
      BY <1>7, <1>8, <1>9 DEF b

LEMMA CrashStep ==
    ASSUME IInv, Crash
    PROVE  IInv'
<1>1. /\ phase = "up" /\ phase' = "down" /\ lost' = lost \cup Lines(file.buffer)
      /\ file' = [file EXCEPT !.buffer = <<>>] /\ writer' = [w \in Writer |-> 0]
      /\ UNCHANGED <<now, disk, count, startOfPeriod, lastRoll, lastFlush, when, purged, safe>>
      BY DEF Crash
<1>2. /\ Bounds /\ disk \in Files /\ file \in AppendFiles /\ Contents \in Files /\ file.name \in Days
      /\ Len(when) \in Nat /\ lost \subseteq 1 .. Len(when)
      BY BoundsFacts DEF IInv
<1>3. /\ file' \in AppendFiles
      /\ file'.name = file.name /\ file'.buffer = <<>> /\ file'.written = file.written
      BY <1>1, <1>2, FileEmptied, Zenon
<1>4. Contents' = disk
  <2>1. Contents' = Shown(disk', file'.name, file'.buffer)
        BY DEF Contents, Content, Shown
  <2>2. Shown(disk, file.name, <<>>) = disk
    <3>1. <<>> \in Seq(Line)
          OBVIOUS
    <3> QED
          BY <1>2, <3>1, ShownFiles, Zenon
  <2> QED
        BY <1>1, <1>3, <2>1, <2>2
<1>5. Sorted(disk) /\ Kept(disk, Len(when), (lost \cup Purged) \cup Lines(file.buffer))
  <2>1. Sorted(Contents) /\ Kept(Contents, Len(when), lost \cup Purged)
        BY DEF IInv, InOrder, Accounted
  <2> QED
        BY <1>2, <2>1, BufferLines, LinesGone, Zenon
<1>6. Lines(file.buffer) \subseteq 1 .. Len(when)
  <2> SUFFICES ASSUME NEW k \in Lines(file.buffer) PROVE k \in 1 .. Len(when)
        OBVIOUS
  <2>1. PICK d \in Days : \E i \in 1 .. Len(Contents[d]) : i > Len(disk[d]) /\ Contents[d][i] = k
        BY <1>2, BufferLines
  <2>2. PICK i \in 1 .. Len(Contents[d]) : Contents[d][i] = k
        BY <2>1
  <2>3. k <= Len(when)
        BY <2>2 DEF IInv, Accounted, Kept
  <2>4. k \in Line
    <3>1. Contents[d] \in Seq(Line)
          BY <1>2 DEF Files
    <3> QED
          BY <2>2, <3>1, ElementOfSeq
  <2> QED
        BY <1>2, <2>3, <2>4, LogAssumption DEF Line
<1>7. lost' \subseteq 1 .. Len(when)
      BY <1>1, <1>2, <1>6
<1>8. writer' \in [Writer -> 0 .. Len(when)] /\ \A w \in Writer : writer'[w] = 0
      BY <1>1, <1>2
<1>9. Bounds'
  <2>1. TypeOK'
        BY <1>1, <1>2, <1>3, <1>7, <1>8, Zenon DEF Bounds, TypeOK, Files, AppendFiles, Line
  <2> QED
        BY <1>1, <1>2, <1>3, <1>8, <2>1 DEF Bounds
<1>10. Errors'
  <2>1. Lines(file'.buffer) = {}
        BY <1>3 DEF Lines
  <2>2. 0 \notin lost'
        BY <1>2, <1>7
  <2> QED
        BY <1>1, <1>8, <2>1, <2>2 DEF IInv, Errors
<1>11. Latest' /\ PurgedOld' /\ Open'
      BY <1>1, <1>3 DEF IInv, Latest, PurgedOld, Open
<1>12. InOrder'
      BY <1>4, <1>5 DEF InOrder
<1>13. Accounted'
  <2>1. lost' \cup Purged' = (lost \cup Purged) \cup Lines(file.buffer)
        BY <1>1 DEF Purged
  <2> QED
        BY <1>1, <1>4, <1>5, <2>1, Zenon DEF Accounted
<1>14. InTime'
  <2>1. ASSUME NEW d \in Days, NEW k \in LinesOf(disk, d)
        PROVE  k \in LinesOf(Contents, d)
    <3>1. PICK i \in 1 .. Len(disk[d]) : disk[d][i] = k
          BY <2>1 DEF LinesOf
    <3>2. Len(disk[d]) \in Nat /\ Len(Contents[d]) \in Nat
          BY <1>2, LenProperties DEF Files
    <3>3. i \in 1 .. Len(Contents[d]) /\ Contents[d][i] = k
          BY <1>2, <3>1, <3>2, BufferLines
    <3> QED
          BY <3>3 DEF LinesOf
  <2>2. Dated(disk, when)
        BY <2>1, FewerLines DEF IInv, InTime
  <2> QED
        BY <1>1, <1>4, <2>2 DEF InTime
<1> QED
      BY <1>9, <1>10, <1>11, <1>12, <1>13, <1>14 DEF IInv

\* One more line is logged.
LEMMA LogGrows ==
    ASSUME Bounds, when' = Append(when, now), now' = now
    PROVE  /\ when' \in Seq(1 .. now') /\ Len(when') = Len(when) + 1
           /\ \A i \in 1 .. Len(when) : when'[i] = when[i]
           /\ when'[Len(when) + 1] = now
           /\ purged \subseteq [line : 1 .. Len(when'), day : Days, at : 1 .. now']
           /\ \A S \in SUBSET (1 .. Len(when)) : S \subseteq 1 .. Len(when')
           /\ writer \in [Writer -> 0 .. Len(when')]
<1>1. /\ when \in Seq(1 .. now) /\ now \in 1 .. now /\ Len(when) \in Nat
      /\ purged \subseteq [line : 1 .. Len(when), day : Days, at : 1 .. now]
      /\ writer \in [Writer -> 0 .. Len(when)]
  <2>1. Len(when) \in Nat /\ now \in 1 .. MaxTime /\ MaxTime \in Nat
        BY BoundsFacts
  <2> QED
        BY <2>1 DEF Bounds, TypeOK
<1>2. /\ when' \in Seq(1 .. now) /\ Len(when') = Len(when) + 1
      /\ \A i \in 1 .. Len(when) : when'[i] = when[i]
      /\ when'[Len(when) + 1] = now
      BY <1>1, AppendProperties
<1>3. 1 .. Len(when) \subseteq 1 .. Len(when') /\ 0 .. Len(when) \subseteq 0 .. Len(when')
      BY <1>1, <1>2
<1>4. writer \in [Writer -> 0 .. Len(when')]
      BY <1>1, <1>3
<1>5. purged \subseteq [line : 1 .. Len(when'), day : Days, at : 1 .. now]
      BY <1>1, <1>3
<1> QED
      BY <1>2, <1>3, <1>4, <1>5

LEMMA LastLineStep ==
    ASSUME IInv, LastLine
    PROVE  IInv'
<1>1. /\ phase \in {"failed", "closed"} /\ phase' \in {"closed", "down"}
      /\ UNCHANGED <<now, disk, file, count, startOfPeriod, lastRoll, lastFlush, writer,
                     purged, safe>>
      /\ \/ Len(when) < MaxLines /\ when' = Append(when, now) /\ lost' = lost \cup {Len(when) + 1}
         \/ UNCHANGED <<when, lost>>
      BY DEF LastLine
<1>2. /\ Bounds /\ Contents \in Files /\ Len(when) \in Nat /\ lost \subseteq 1 .. Len(when)
      /\ safe \subseteq 1 .. Len(when) /\ file.written \in 0 .. Len(when) /\ MaxLines \in Nat
      BY BoundsFacts DEF IInv
<1>3. Contents' = Contents /\ Purged' = Purged
      BY <1>1 DEF Contents, Content, Purged
<1>4. Latest' /\ InOrder' /\ PurgedOld' /\ Open'
      BY <1>1, <1>3 DEF IInv, Latest, InOrder, PurgedOld, Open
<1>5. CASE UNCHANGED <<when, lost>>
  <2>1. Bounds' /\ Errors'
        BY <1>1, <1>5 DEF IInv, Bounds, TypeOK, Errors
  <2>2. Accounted' /\ InTime'
        BY <1>3, <1>5 DEF IInv, Accounted, InTime
  <2> QED
        BY <1>4, <2>1, <2>2 DEF IInv
<1>6. CASE Len(when) < MaxLines /\ when' = Append(when, now) /\ lost' = lost \cup {Len(when) + 1}
  <2>1. /\ when' \in Seq(1 .. now') /\ Len(when') = Len(when) + 1
        /\ \A i \in 1 .. Len(when) : when'[i] = when[i]
        /\ purged \subseteq [line : 1 .. Len(when'), day : Days, at : 1 .. now']
        /\ \A S \in SUBSET (1 .. Len(when)) : S \subseteq 1 .. Len(when')
        /\ writer \in [Writer -> 0 .. Len(when')]
        BY <1>1, <1>2, <1>6, LogGrows
  <2>2. lost' \subseteq 1 .. Len(when') /\ safe' \subseteq 1 .. Len(when')
    <3>1. lost \subseteq 1 .. Len(when') /\ safe \subseteq 1 .. Len(when')
          BY <1>2, <2>1, Zenon
    <3>2. Len(when) + 1 \in 1 .. Len(when')
          BY <1>2, <2>1
    <3> QED
          BY <1>1, <1>6, <3>1, <3>2, Zenon
  <2>3. TypeOK'
        BY <1>1, <1>2, <2>1, <2>2, SMTT(20) DEF Bounds, TypeOK
  <2>4. Bounds'
        BY <1>1, <1>2, <1>6, <2>1, <2>3 DEF Bounds
  <2>5. Errors'
    <3>1. \A w \in Writer : writer[w] = 0
          BY <1>1, <1>2 DEF Bounds
    <3>2. 0 \notin lost'
          BY <1>2, <2>1, <2>2
    <3>3. Len(when) + 1 \notin safe
          BY <1>2
    <3> QED
          BY <1>1, <1>6, <3>1, <3>2, <3>3 DEF IInv, Errors
  <2>6. Accounted'
    <3>1. Kept(Contents, Len(when) + 1, (lost \cup Purged) \cup {Len(when) + 1})
          BY <1>2, LineLost DEF IInv, Accounted
    <3>2. lost' \cup Purged' = (lost \cup Purged) \cup {Len(when) + 1}
          BY <1>3, <1>6
    <3> QED
          BY <1>3, <2>1, <3>1, <3>2, Zenon DEF Accounted
  <2>7. InTime'
    <3>1. \A d \in Days : \A k \in LinesOf(Contents, d) : when'[k] = when[k]
          BY <1>2, <2>1, LinesLogged DEF IInv
    <3>2. Dated(Contents, when')
          BY <3>1, FewerLines DEF IInv, InTime
    <3> QED
          BY <1>3, <3>2 DEF InTime
  <2> QED
        BY <1>4, <2>4, <2>5, <2>6, <2>7 DEF IInv
<1> QED
      BY <1>1, <1>5, <1>6

\* The constructor deletes whole files, and those are old.
LEMMA StartStep ==
    ASSUME IInv, Start
    PROVE  IInv'
<1>1. /\ phase = "down" /\ phase' = "up"
      /\ disk' = [d \in Days |-> IF Old(d) THEN <<>> ELSE disk[d]]
      /\ file' = AppendFile(LocalDay(now))
      /\ count' = 0 /\ lastRoll' = now /\ lastFlush' = now /\ startOfPeriod' = PeriodStart(now)
      /\ UNCHANGED <<now, writer, when, lost, safe>>
      BY DEF Start
<1> DEFINE more == {k \in Line : \E d \in Days : Old(d) /\ k \in Lines(disk[d])}
<1>2. /\ Bounds /\ disk \in Files /\ file.name \in Days /\ LocalDay(now) \in Days
      /\ Len(when) \in Nat /\ Len(when) <= MaxLines /\ now \in 1 .. MaxTime /\ now \in Nat
      /\ Days \subseteq Nat /\ lost \subseteq 1 .. Len(when) /\ safe \subseteq 1 .. Len(when)
      /\ Contents = Shown(disk, file.name, file.buffer) /\ MaxLines \in Nat
      BY BoundsFacts DEF IInv
<1>3. <<>> \in Seq(Line) /\ Len(<<>>) = 0
      OBVIOUS
<1>4. /\ \A d \in Days : disk[d] \in Seq(Line)
      /\ \A d \in Days : Len(disk[d]) \in Nat /\ DOMAIN disk[d] = 1 .. Len(disk[d])
  <2>1. \A d \in Days : disk[d] \in Seq(Line)
        BY <1>2 DEF Files
  <2> QED
        BY <2>1, LenProperties
<1>5. /\ file'.name = LocalDay(now) /\ file'.buffer = <<>> /\ file'.written = 0
      /\ file' \in AppendFiles
      BY <1>1, <1>2, <1>3 DEF AppendFile, AppendFiles
<1>6. /\ \A d \in Days : disk'[d] = IF Old(d) THEN <<>> ELSE disk[d]
      /\ disk' \in Files
  <2>1. \A d \in Days : (IF Old(d) THEN <<>> ELSE disk[d]) \in Seq(Line)
        BY <1>3, <1>4
  <2> QED
        BY <1>1, <2>1 DEF Files
<1>7. Contents = disk /\ Contents' = disk'
  <2>1. file.buffer = <<>>
        BY <1>1, <1>2 DEF Bounds
  <2>2. Contents' = Shown(disk', file'.name, file'.buffer)
        BY DEF Contents, Content, Shown
  <2>3. Shown(disk, file.name, <<>>) = disk
        BY <1>2, <1>3, ShownFiles, Zenon
  <2>4. Shown(disk', file'.name, <<>>) = disk'
        BY <1>2, <1>3, <1>5, <1>6, ShownFiles, Zenon
  <2> QED
        BY <1>2, <1>5, <2>1, <2>2, <2>3, <2>4
<1>8. \A p : p \in purged' <=>
          p \in purged \/ \E d \in Days : Old(d) /\ \E k \in Lines(disk[d]) :
                                              p = [line |-> k, day |-> d, at |-> now]
  <2> DEFINE of(d) == {[line |-> k, day |-> d, at |-> now] : k \in Lines(disk[d])}
  <2>1. purged' = purged \cup UNION {of(d) : d \in {e \in Days : Old(e)}}
        BY DEF Start
  <2>2. \A d \in Days : \A p : p \in of(d) <=>
            \E k \in Lines(disk[d]) : p = [line |-> k, day |-> d, at |-> now]
        BY Zenon
  <2> HIDE DEF of
  <2>3. \A p : p \in purged' <=> p \in purged \/ \E d \in Days : Old(d) /\ p \in of(d)
        BY <2>1
  <2> QED
        BY <2>2, <2>3, ZenonT(40)
<1>9. \A d \in Days : \A k \in Lines(disk[d]) : k \in Line /\ k \in 1 .. Len(when)
  <2> SUFFICES ASSUME NEW d \in Days, NEW k \in Lines(disk[d])
               PROVE  k \in Line /\ k \in 1 .. Len(when)
        OBVIOUS
  <2>1. PICK i \in 1 .. Len(disk[d]) : disk[d][i] = k
        BY <1>4 DEF Lines
  <2>2. k \in Line
        BY <1>4, <2>1, ElementOfSeq
  <2>3. k <= Len(when)
        BY <1>7, <2>1 DEF IInv, Accounted, Kept
  <2> QED
        BY <1>2, <2>2, <2>3 DEF Line
<1>10. lost' \cup Purged' = (lost \cup Purged) \cup more
  <2>1. \A k : k \in Purged' <=> \E p \in purged' : p.line = k
        BY DEF Purged
  <2>2. \A k : k \in Purged <=> \E p \in purged : p.line = k
        BY DEF Purged
  <2>3. ASSUME NEW k, k \in Purged'
        PROVE  k \in Purged \/ k \in more
    <3>1. PICK p \in purged' : p.line = k
          BY <2>1, <2>3
    <3>2. CASE p \in purged
          BY <2>2, <3>1, <3>2
    <3>3. CASE p \notin purged
      <4>1. PICK d \in Days : Old(d) /\ \E j \in Lines(disk[d]) : p = [line |-> j, day |-> d, at |-> now]
            BY <1>8, <3>1, <3>3
      <4>2. PICK j \in Lines(disk[d]) : p = [line |-> j, day |-> d, at |-> now]
            BY <4>1
      <4>3. k = j
            BY <3>1, <4>2
      <4> QED
            BY <1>9, <4>1, <4>3
    <3> QED
          BY <3>2, <3>3
  <2>4. ASSUME NEW k, k \in Purged
        PROVE  k \in Purged'
        BY <1>8, <2>1, <2>2, <2>4
  <2>5. ASSUME NEW k \in more
        PROVE  k \in Purged'
    <3>1. PICK d \in Days : Old(d) /\ k \in Lines(disk[d])
          OBVIOUS
    <3> DEFINE p == [line |-> k, day |-> d, at |-> now]
    <3>2. p \in purged'
          BY <1>8, <3>1
    <3>3. p.line = k
          OBVIOUS
    <3> HIDE DEF p
    <3> QED
          BY <2>1, <3>2, <3>3
  <2> HIDE DEF more
  <2> QED
        BY <1>1, <2>3, <2>4, <2>5
<1>11. Sorted(disk') /\ Kept(disk', Len(when), (lost \cup Purged) \cup more)
  <2>1. Sorted(disk) /\ Kept(disk, Len(when), lost \cup Purged)
        BY <1>7 DEF IInv, InOrder, Accounted
  <2>2. \A d \in Days : Len(disk'[d]) <= Len(disk[d]) /\
                        \A i \in 1 .. Len(disk'[d]) : disk'[d][i] = disk[d][i]
        BY <1>3, <1>4, <1>6
  <2>3. \A k : k \in more <=> \E d \in Days : \E i \in 1 .. Len(disk[d]) :
                                  i > Len(disk'[d]) /\ disk[d][i] = k
    <3>1. ASSUME NEW k \in more
          PROVE  \E d \in Days : \E i \in 1 .. Len(disk[d]) : i > Len(disk'[d]) /\ disk[d][i] = k
      <4>1. PICK d \in Days : Old(d) /\ k \in Lines(disk[d])
            OBVIOUS
      <4>2. PICK i \in 1 .. Len(disk[d]) : disk[d][i] = k
            BY <1>4, <4>1 DEF Lines
      <4>3. i > Len(disk'[d])
            BY <1>3, <1>4, <1>6, <4>1
      <4> QED
            BY <4>2, <4>3
    <3>2. ASSUME NEW k, NEW d \in Days, NEW i \in 1 .. Len(disk[d]), i > Len(disk'[d]), disk[d][i] = k
          PROVE  k \in more
      <4>1. Old(d)
            BY <1>4, <1>6, <3>2
      <4>2. k \in Lines(disk[d])
            BY <1>4, <3>2 DEF Lines
      <4> QED
            BY <1>9, <4>1, <4>2
    <3> HIDE DEF more
    <3> QED
          BY <3>1, <3>2
  <2> HIDE DEF more
  <2> QED
        BY <1>2, <1>6, <2>1, <2>2, <2>3, LinesGone, Zenon
<1> HIDE DEF more
<1>12. Bounds'
  <2>1. purged' \subseteq [line : 1 .. Len(when), day : Days, at : 1 .. now]
    <3>1. purged \subseteq [line : 1 .. Len(when), day : Days, at : 1 .. now]
          BY <1>2 DEF Bounds, TypeOK
    <3>2. ASSUME NEW d \in Days, NEW k \in Lines(disk[d])
          PROVE  [line |-> k, day |-> d, at |-> now] \in [line : 1 .. Len(when), day : Days, at : 1 .. now]
          BY <1>2, <1>9
    <3> QED
          BY <1>8, <3>1, <3>2
  <2>2. count' \in Nat /\ lastRoll' \in 0 .. now /\ lastFlush' \in 0 .. now /\ startOfPeriod' \in Nat
        BY <1>1, <1>2, PeriodMonotone
  <2>3. TypeOK'
        BY <1>1, <1>2, <1>5, <1>6, <2>1, <2>2 DEF Bounds, TypeOK, Files, AppendFiles, Line
  <2> QED
        BY <1>1, <1>2, <1>5, <2>3 DEF Bounds
<1>13. Errors'
  <2>1. Lines(file'.buffer) = {}
        BY <1>5 DEF Lines
  <2> QED
        BY <1>1, <2>1 DEF IInv, Errors
<1>14. Latest'
  <2> DEFINE today == LocalDay(now)  name == file.name
  <2>1. /\ \A d \in Days : d \in Nat
        /\ today \in Nat /\ name \in Nat /\ name <= today
        /\ \A d \in Days : d > name => disk[d] = <<>>
        BY <1>2, Zenon DEF IInv, Latest
  <2>2. file'.name = today /\ LocalDay(now') = today
        BY <1>1, <1>5
  <2> HIDE DEF today, name
  <2>3. ASSUME NEW d \in Days, d > today
        PROVE  disk'[d] = <<>>
    <3>1. d > name
          BY <2>1, <2>3
    <3> QED
          BY <1>6, <2>1, <3>1, Zenon
  <2>4. today <= today
        BY <2>1
  <2> QED
        BY <2>2, <2>3, <2>4, Zenon DEF Latest
<1>15. InOrder' /\ Accounted'
      BY <1>1, <1>7, <1>10, <1>11, Zenon DEF InOrder, Accounted
<1>16. PurgedOld'
  <2>1. ASSUME NEW p \in purged' PROVE LocalDay(p.at) >= p.day + KeepDays
    <3>1. CASE p \in purged
          BY <3>1 DEF IInv, PurgedOld
    <3>2. CASE p \notin purged
      <4>1. PICK d \in Days : Old(d) /\ \E j \in Lines(disk[d]) : p = [line |-> j, day |-> d, at |-> now]
            BY <1>8, <3>2
      <4>2. p.day = d /\ p.at = now
            BY <4>1
      <4>3. LocalDay(now) >= d + KeepDays
            BY <1>2, <4>1, OldByDays
      <4> QED
            BY <4>2, <4>3
    <3> QED
          BY <3>1, <3>2
  <2> QED
        BY <2>1 DEF PurgedOld
<1>17. InTime' /\ Late(Contents', when', LocalDay(now)) = {}
  <2>1. ASSUME NEW d \in Days, NEW k \in LinesOf(disk', d)
        PROVE  k \in LinesOf(disk, d)
    <3>1. PICK i \in 1 .. Len(disk'[d]) : disk'[d][i] = k
          BY <2>1 DEF LinesOf
    <3>2. disk'[d] = disk[d]
          BY <1>3, <1>6, <3>1
    <3> QED
          BY <2>1, <3>2 DEF LinesOf
  <2>2. Dated(disk', when)
        BY <1>7, <2>1, FewerLines DEF IInv, InTime
  <2>3. ASSUME NEW k \in LinesOf(disk', LocalDay(now))
        PROVE  ~(when[k] >= Due(LocalDay(now)))
    <3>1. when[k] \in 1 .. now
          BY <1>2, <1>7, <2>1, <2>3, LinesLogged DEF IInv
    <3>2. now < Due(LocalDay(now)) /\ Due(LocalDay(now)) \in Int
          BY <1>2, NotDue
    <3> QED
          BY <1>2, <3>1, <3>2
  <2>4. Late(disk', when, LocalDay(now)) = {}
        BY <2>3 DEF Late
  <2> QED
        BY <1>1, <1>7, <2>2, <2>4 DEF InTime
<1>18. Open'
  <2>1. 0 < CheckEveryN
        BY LogAssumption
  <2>2. Late(Contents, when, file.name)' = {}
        BY <1>5, <1>17
  <2> QED
        BY <1>1, <1>5, <2>1, <2>2 DEF Open
<1> QED
      BY <1>12, <1>13, <1>14, <1>15, <1>16, <1>17, <1>18 DEF IInv

\* append_unlocked leaves the file, writes its buffer out, or opens another.
Stays(f) ==
    /\ file' = f /\ UNCHANGED <<disk, startOfPeriod, lastRoll, lastFlush>>
    /\ \/ count' = count + 1 /\ count + 1 < CheckEveryN
       \/ count' \in {0, count} /\ (~(now > lastRoll) \/ PeriodStart(now) = startOfPeriod)

Flushes(f) ==
    /\ disk' = Closed(f) /\ file' = [f EXCEPT !.buffer = <<>>]
    /\ lastFlush' = now /\ count' = 0 /\ PeriodStart(now) = startOfPeriod
    /\ UNCHANGED <<startOfPeriod, lastRoll>>

Rolls(f) ==
    /\ disk' = Closed(f) /\ file' = AppendFile(LocalDay(now))
    /\ lastRoll' = now /\ lastFlush' = now /\ startOfPeriod' = PeriodStart(now)
    /\ count' \in {0, count}

LEMMA AppendOutcomes ==
    ASSUME NEW STATE f, count \in Nat, append_unlocked(f)
    PROVE  Stays(f) \/ Flushes(f) \/ Rolls(f)
<1> DEFINE grown == f.written > RollSize
           check == count + 1 >= CheckEveryN
<1>1. CASE grown
  <2>1. rollFile(f) /\ UNCHANGED count
        BY <1>1, Zenon DEF append_unlocked
  <2> QED
        BY <2>1 DEF rollFile, Stays, Rolls
<1>2. CASE ~grown /\ ~check
  <2>1. /\ count' = count + 1 /\ file' = f
        /\ UNCHANGED <<disk, startOfPeriod, lastRoll, lastFlush>>
        BY <1>2, Zenon DEF append_unlocked
  <2>2. count + 1 < CheckEveryN
        BY <1>2, LogAssumption
  <2> QED
        BY <2>1, <2>2 DEF Stays
<1>3. CASE ~grown /\ check /\ PeriodStart(now) # startOfPeriod
  <2>1. count' = 0 /\ rollFile(f)
        BY <1>3, Zenon DEF append_unlocked
  <2> QED
        BY <2>1 DEF rollFile, Stays, Rolls
<1>4. CASE ~grown /\ check /\ PeriodStart(now) = startOfPeriod
  <2>1. /\ count' = 0
        /\ IF now - lastFlush > FlushInterval
             THEN /\ lastFlush' = now
                  /\ disk' = Closed(f) /\ file' = [f EXCEPT !.buffer = <<>>]
             ELSE file' = f /\ UNCHANGED <<disk, lastFlush>>
        /\ UNCHANGED <<startOfPeriod, lastRoll>>
        BY <1>4, Zenon DEF append_unlocked
  <2> QED
        BY <1>4, <2>1 DEF Stays, Flushes
<1> QED
      BY <1>1, <1>2, <1>3, <1>4

\* The open file with one more line in its buffer.
LEMMA FileGrown ==
    ASSUME NEW f \in AppendFiles, NEW n \in Line, f.written + 1 <= MaxLines
    PROVE  LET g == [f EXCEPT !.buffer = Append(@, n), !.written = @ + 1]
           IN  /\ g \in AppendFiles /\ g.name = f.name
               /\ g.buffer = Append(f.buffer, n) /\ g.written = f.written + 1
<1> DEFINE b == Append(f.buffer, n)  m == f.written + 1
<1>1. f.buffer \in Seq(Line) /\ f.written \in 0 .. MaxLines
      BY DEF AppendFiles
<1>2. b \in Seq(Line)
      BY <1>1, AppendProperties
<1>3. m \in 0 .. MaxLines
      BY <1>1, LogAssumption
<1> HIDE DEF b, m
<1>4. LET g == [f EXCEPT !.buffer = b, !.written = m]
      IN  g \in AppendFiles /\ g.name = f.name /\ g.buffer = b /\ g.written = m
      BY <1>2, <1>3, Zenon DEF AppendFiles
<1> QED
      BY <1>4 DEF b, m

\* What append leaves of the files, whichever way it goes.
LEMMA AppendFilesStep ==
    ASSUME Bounds, Latest, Len(when) < MaxLines,
           append_unlocked([file EXCEPT !.buffer = Append(@, Len(when) + 1), !.written = @ + 1])
    PROVE  /\ disk' \in Files /\ file' \in AppendFiles /\ count' \in Nat /\ startOfPeriod' \in Nat
           /\ lastRoll' \in 0 .. now /\ lastFlush' \in 0 .. now
           /\ file'.written <= Len(when) + 1
           /\ Contents' = Added(Contents, file.name, Len(when) + 1)
           /\ Lines(file'.buffer) \subseteq Lines(file.buffer) \cup {Len(when) + 1}
           /\ file'.name <= LocalDay(now)
           /\ \A d \in Days : d > file'.name => disk'[d] = <<>>
           /\ \/ /\ file'.name = file.name /\ UNCHANGED <<startOfPeriod, lastRoll>>
                 /\ \/ count' = count + 1 /\ count + 1 < CheckEveryN
                    \/ /\ count' \in {0, count}
                       /\ ~(now > lastRoll) \/ PeriodStart(now) = startOfPeriod
              \/ /\ file'.name = LocalDay(now) /\ lastRoll' = now /\ startOfPeriod' = PeriodStart(now)
                 /\ count' \in {0, count}
<1> DEFINE n == Len(when) + 1
           f == [file EXCEPT !.buffer = Append(@, Len(when) + 1), !.written = @ + 1]
<1>1. /\ disk \in Files /\ file \in AppendFiles /\ file.name \in Days /\ file.buffer \in Seq(Line)
      /\ file.written \in 0 .. Len(when) /\ Len(when) \in Nat /\ MaxLines \in Nat
      /\ now \in Nat /\ LocalDay(now) \in Days /\ Days \subseteq Nat
      /\ Contents = Shown(disk, file.name, file.buffer) /\ Contents \in Files
      BY BoundsFacts
<1>2. /\ count \in Nat /\ startOfPeriod \in Nat /\ lastRoll \in 0 .. now /\ lastFlush \in 0 .. now
      BY DEF Bounds, TypeOK
<1>3. n \in Line /\ n \in Nat
      BY <1>1 DEF Line
<1>4. /\ f \in AppendFiles /\ f.name = file.name
      /\ f.buffer = Append(file.buffer, n) /\ f.written = file.written + 1
  <2>1. file.written + 1 <= MaxLines
        BY <1>1
  <2> HIDE DEF n
  <2>2. f = [file EXCEPT !.buffer = Append(@, n), !.written = @ + 1]
        BY DEF n
  <2> HIDE DEF f
  <2> QED
        BY <1>1, <1>3, <2>1, <2>2, FileGrown, Zenon
<1>5. Stays(f) \/ Flushes(f) \/ Rolls(f)
      BY <1>2, AppendOutcomes
<1> HIDE DEF f
<1>6. f.buffer \in Seq(Line) /\ Shown(disk, f.name, f.buffer) \in Files
  <2>1. f.buffer \in Seq(Line)
        BY <1>1, <1>3, <1>4, AppendProperties
  <2> QED
        BY <1>1, <1>4, <2>1, ShownFiles, Zenon
<1>7. Shown(disk, f.name, f.buffer) = Added(Contents, file.name, n)
      BY <1>1, <1>3, <1>4, ShownAppend
<1>8. Contents' = Shown(disk', file'.name, file'.buffer)
      BY DEF Contents, Content, Shown
<1>9. \A d \in Days : d > file.name => Shown(disk, f.name, f.buffer)[d] = <<>>
      BY <1>1, <1>4 DEF Latest, Shown
<1>10. PeriodStart(now) \in Nat /\ now \in 0 .. now /\ <<>> \in Seq(Line) /\ Lines(<<>>) = {}
      BY <1>1, PeriodMonotone DEF Lines
<1> HIDE DEF n
<1>11. CASE Stays(f)
  <2>1. /\ file' = f /\ UNCHANGED <<disk, startOfPeriod, lastRoll, lastFlush>>
        BY <1>11 DEF Stays
  <2>2. count' \in Nat
        BY <1>2, <1>11 DEF Stays
  <2>3. Contents' = Shown(disk, f.name, f.buffer)
        BY <1>8, <2>1
  <2>4. Lines(f.buffer) \subseteq Lines(file.buffer) \cup {n}
        BY <1>1, <1>3, <1>4, SMTT(20) DEF Lines
  <2>5. f.written <= Len(when) + 1
        BY <1>1, <1>4
  <2>6. f.name <= LocalDay(now) /\ \A d \in Days : d > f.name => disk[d] = <<>>
        BY <1>4 DEF Latest
  <2>7. \/ count' = count + 1 /\ count + 1 < CheckEveryN
        \/ /\ count' \in {0, count}
           /\ ~(now > lastRoll) \/ PeriodStart(now) = startOfPeriod
        BY <1>11, Zenon DEF Stays
  <2> QED
        BY <1>1, <1>2, <1>4, <1>7, <2>1, <2>2, <2>3, <2>4, <2>5, <2>6, <2>7, Zenon DEF n
<1>12. CASE Flushes(f)
  <2>1. /\ disk' = Closed(f) /\ file' = [f EXCEPT !.buffer = <<>>]
        /\ lastFlush' = now /\ count' = 0 /\ PeriodStart(now) = startOfPeriod
        /\ UNCHANGED <<startOfPeriod, lastRoll>>
        BY <1>12 DEF Flushes
  <2>2. file' \in AppendFiles /\ file'.name = f.name /\ file'.buffer = <<>> /\ file'.written = f.written
        BY <1>4, <2>1, FileEmptied, Zenon
  <2>3. disk' = Shown(disk, f.name, f.buffer)
        BY <1>1, <2>1, Zenon DEF Closed, Shown, Files
  <2>4. Contents' = Shown(disk, f.name, f.buffer)
        BY <1>1, <1>4, <1>6, <1>8, <1>10, <2>2, <2>3, ShownFiles
  <2>5. file'.name <= LocalDay(now) /\ \A d \in Days : d > file'.name => disk'[d] = <<>>
        BY <1>4, <1>9, <2>2, <2>3 DEF Latest
  <2>6. f.written <= Len(when) + 1 /\ 0 \in Nat
        BY <1>1, <1>4
  <2>7. disk' \in Files
        BY <1>6, <2>3
  <2>8. Lines(file'.buffer) = {}
        BY <1>10, <2>2
  <2> QED
        BY <1>2, <1>4, <1>7, <1>10, <2>1, <2>2, <2>4, <2>5, <2>6, <2>7, <2>8 DEF n
<1>13. CASE Rolls(f)
  <2>1. /\ disk' = Closed(f) /\ file' = AppendFile(LocalDay(now))
        /\ lastRoll' = now /\ lastFlush' = now /\ startOfPeriod' = PeriodStart(now)
        /\ count' \in {0, count}
        BY <1>13 DEF Rolls
  <2>2. file' \in AppendFiles /\ file'.name = LocalDay(now) /\ file'.buffer = <<>> /\ file'.written = 0
        BY <1>1, <1>10, <2>1 DEF AppendFile, AppendFiles
  <2>3. disk' = Shown(disk, f.name, f.buffer)
        BY <1>1, <2>1, Zenon DEF Closed, Shown, Files
  <2>4. Contents' = Shown(disk, f.name, f.buffer)
        BY <1>1, <1>6, <1>8, <1>10, <2>2, <2>3, ShownFiles
  <2>5. file'.name <= LocalDay(now) /\ \A d \in Days : d > file'.name => disk'[d] = <<>>
        BY <1>1, <1>9, <2>2, <2>3 DEF Latest
  <2>6. count' \in Nat /\ 0 <= Len(when) + 1
        BY <1>1, <1>2, <2>1
  <2>7. disk' \in Files
        BY <1>6, <2>3
  <2>8. Lines(file'.buffer) = {}
        BY <1>10, <2>2
  <2> QED
        BY <1>2, <1>7, <1>10, <2>1, <2>2, <2>4, <2>5, <2>6, <2>7, <2>8 DEF n
<1> QED
      BY <1>5, <1>11, <1>12, <1>13

LEMMA AppendStep ==
    ASSUME IInv, NEW w \in Writer, NEW level, append(w, level)
    PROVE  IInv'
<1> DEFINE n == Len(when) + 1
<1>1. /\ phase = "up" /\ Len(when) < MaxLines /\ when' = Append(when, now)
      /\ writer' = writer \/ writer' = [writer EXCEPT ![w] = n]
      /\ append_unlocked([file EXCEPT !.buffer = Append(@, Len(when) + 1), !.written = @ + 1])
      /\ UNCHANGED <<now, phase, lost, purged, safe>>
      BY DEF append
<1>2. /\ Bounds /\ Latest /\ Len(when) \in Nat /\ Contents \in Files /\ file.name \in Days
      /\ lost \subseteq 1 .. Len(when) /\ safe \subseteq 1 .. Len(when) /\ disk \in Files
      /\ now \in Nat /\ file.written \in 0 .. Len(when) /\ MaxLines \in Nat
      /\ \A k \in lost \cup Purged : k \in 1 .. Len(when)
      /\ Contents = Shown(disk, file.name, file.buffer) /\ Days \subseteq Nat
      /\ \A i \in 1 .. Len(when) : when[i] \in 1 .. now
      BY BoundsFacts DEF IInv
<1>3. /\ disk' \in Files /\ file' \in AppendFiles /\ count' \in Nat /\ startOfPeriod' \in Nat
      /\ lastRoll' \in 0 .. now /\ lastFlush' \in 0 .. now
      /\ file'.written <= Len(when) + 1
      /\ Contents' = Added(Contents, file.name, Len(when) + 1)
      /\ Lines(file'.buffer) \subseteq Lines(file.buffer) \cup {Len(when) + 1}
      /\ file'.name <= LocalDay(now)
      /\ \A d \in Days : d > file'.name => disk'[d] = <<>>
      BY <1>1, <1>2, AppendFilesStep
<1>4. /\ when' \in Seq(1 .. now') /\ Len(when') = Len(when) + 1
      /\ \A i \in 1 .. Len(when) : when'[i] = when[i]
      /\ when'[Len(when) + 1] = now
      /\ purged \subseteq [line : 1 .. Len(when'), day : Days, at : 1 .. now']
      /\ \A S \in SUBSET (1 .. Len(when)) : S \subseteq 1 .. Len(when')
      /\ writer \in [Writer -> 0 .. Len(when')]
      BY <1>1, <1>2, LogGrows
<1>5. /\ writer' \in [Writer -> 0 .. Len(when')]
      /\ \A v \in Writer : writer'[v] = writer[v] \/ writer'[v] = n
  <2>1. n \in 0 .. Len(when')
        BY <1>2, <1>4
  <2> HIDE DEF n
  <2> QED
        BY <1>1, <1>4, <2>1, Zenon
<1>6. lost' \subseteq 1 .. Len(when') /\ safe' \subseteq 1 .. Len(when')
      BY <1>1, <1>2, <1>4
<1>7. Bounds'
  <2>1. TypeOK'
        BY <1>1, <1>2, <1>3, <1>4, <1>5, <1>6, Zenon DEF Bounds, TypeOK, Files, AppendFiles, Line
  <2>2. Len(when') <= MaxLines
        BY <1>1, <1>2, <1>4
  <2> QED
        BY <1>1, <1>3, <1>4, <2>1, <2>2 DEF Bounds
<1>8. n \notin lost /\ n \notin safe
      BY <1>2
<1>9. Errors'
      BY <1>1, <1>3, <1>5, <1>8 DEF IInv, Errors
<1>10. Latest'
      BY <1>1, <1>3 DEF Latest
<1>11. InOrder' /\ Accounted'
  <2>1. Sorted(Contents) /\ Kept(Contents, Len(when), lost \cup Purged)
        BY DEF IInv, InOrder, Accounted
  <2>2. Len(when) + 1 \in Line
        BY <1>1, <1>2 DEF Line
  <2>3. \A d \in Days : d > file.name => Contents[d] = <<>>
        BY <1>2 DEF Latest, Shown
  <2>4. (\A k \in lost \cup Purged : k <= Len(when)) /\ lost \cup Purged \subseteq Int
    <3>1. \A k \in 1 .. Len(when) : k <= Len(when) /\ k \in Int
          BY <1>2
    <3> QED
          BY <1>2, <3>1, Zenon
  <2>5. Sorted(Contents') /\ Kept(Contents', Len(when) + 1, lost \cup Purged)
        BY <1>2, <1>3, <2>1, <2>2, <2>3, <2>4, LineAdded, Zenon
  <2>6. lost' \cup Purged' = lost \cup Purged
        BY <1>1 DEF Purged
  <2> QED
        BY <1>4, <2>5, <2>6, Zenon DEF InOrder, Accounted
<1>12. PurgedOld'
      BY <1>1 DEF IInv, PurgedOld
<1>13. /\ \A k \in LinesOf(Contents', file.name) : k \in LinesOf(Contents, file.name) \/ k = n
       /\ \A d \in Days : d # file.name => LinesOf(Contents', d) = LinesOf(Contents, d)
  <2>1. /\ Contents'[file.name] = Append(Contents[file.name], n)
        /\ \A d \in Days : d # file.name => Contents'[d] = Contents[d]
        BY <1>2, <1>3 DEF Added, Files
  <2>2. Contents[file.name] \in Seq(Line)
        BY <1>2 DEF Files
  <2>3. ASSUME NEW k \in LinesOf(Contents', file.name)
        PROVE  k \in LinesOf(Contents, file.name) \/ k = n
    <3> DEFINE c == Contents[file.name]  m == Len(c)
    <3> HIDE DEF n
    <3>1. PICK i \in 1 .. Len(Contents'[file.name]) : Contents'[file.name][i] = k
          BY <2>3 DEF LinesOf
    <3>2. /\ m \in Nat /\ Len(Append(c, n)) = m + 1 /\ Append(c, n)[m + 1] = n
          /\ \A j \in 1 .. m : Append(c, n)[j] = c[j]
          BY <2>2
    <3> HIDE DEF c
    <3>3. i \in 1 .. m \/ i = m + 1
          BY <2>1, <3>1, <3>2 DEF c
    <3>4. CASE i = m + 1
          BY <2>1, <3>1, <3>2, <3>4 DEF c
    <3>5. CASE i \in 1 .. m
      <4>1. c[i] = k
            BY <2>1, <3>1, <3>2, <3>5 DEF c
      <4> QED
            BY <3>5, <4>1 DEF LinesOf, c
    <3> QED
          BY <3>3, <3>4, <3>5
  <2> QED
        BY <2>1, <2>3 DEF LinesOf
<1>14. \A d \in Days : \A k \in LinesOf(Contents, d) :
           k \in 1 .. Len(when) /\ when'[k] = when[k] /\ when[k] \in 1 .. now
      BY <1>2, <1>4, LinesLogged DEF IInv
<1>15. /\ count \in Nat /\ CheckEveryN \in Nat \ {0} /\ count < CheckEveryN
       /\ startOfPeriod = PeriodStart(lastRoll) /\ file.name = LocalDay(lastRoll)
       /\ Late(Contents, when, file.name) \subseteq Len(when) - count + 1 .. Len(when)
       /\ lastRoll \in Nat /\ lastRoll <= now
      BY <1>1, <1>2, LogAssumption DEF IInv, Open, Bounds, TypeOK
<1>16. Late(Contents', when', file.name) \subseteq Len(when) - count + 1 .. Len(when) + 1
  <2> SUFFICES ASSUME NEW k \in Late(Contents', when', file.name)
               PROVE  k \in Len(when) - count + 1 .. Len(when) + 1
        OBVIOUS
  <2>1. k \in LinesOf(Contents', file.name) /\ when'[k] >= Due(file.name)
        BY DEF Late
  <2>2. CASE k = n
        BY <1>2, <1>15, <2>2
  <2>3. CASE k \in LinesOf(Contents, file.name)
    <3>1. k \in Late(Contents, when, file.name)
          BY <1>2, <1>14, <2>1, <2>3 DEF Late
    <3> QED
          BY <1>2, <1>15, <3>1
  <2> QED
        BY <1>13, <2>1, <2>2, <2>3
<1>17. InTime'
  <2>1. ASSUME NEW d \in Days, NEW k \in LinesOf(Contents', d)
        PROVE  d <= LocalDay(when'[k])
    <3>1. CASE k \in LinesOf(Contents, d)
          BY <1>14, <3>1 DEF IInv, InTime, Dated
    <3>2. CASE k \notin LinesOf(Contents, d)
      <4>1. d = file.name /\ k = n
            BY <1>13, <2>1, <3>2
      <4> QED
            BY <1>2, <1>4, <4>1 DEF Latest
    <3> QED
          BY <3>1, <3>2
  <2>2. ASSUME NEW d \in Days
        PROVE  \E c \in Int : Late(Contents', when', d) \subseteq c + 1 .. c + CheckEveryN
    <3>1. CASE d = file.name
      <4> DEFINE c == Len(when) + 1 - CheckEveryN
      <4>1. c \in Int /\ Len(when) - count + 1 .. Len(when) + 1 \subseteq c + 1 .. c + CheckEveryN
            BY <1>2, <1>15
      <4> HIDE DEF c
      <4> QED
            BY <1>16, <3>1, <4>1
    <3>2. CASE d # file.name
      <4>1. PICK c \in Int : Late(Contents, when, d) \subseteq c + 1 .. c + CheckEveryN
            BY <2>2 DEF IInv, InTime, Dated
      <4>2. Late(Contents', when', d) = Late(Contents, when, d)
            BY <1>13, <1>14, <2>2, <3>2 DEF Late
      <4> QED
            BY <4>1, <4>2
    <3> QED
          BY <3>1, <3>2
  <2> QED
        BY <2>1, <2>2 DEF InTime, Dated
<1>18. ASSUME NEW s \in Nat, PeriodStart(now) = PeriodStart(s), LocalDay(s) \in Days
       PROVE  Late(Contents', when', LocalDay(s)) = {}
  <2>1. now < Due(LocalDay(s)) /\ Due(LocalDay(s)) \in Int
        BY <1>2, <1>18, NotDue
  <2>2. ASSUME NEW k \in LinesOf(Contents', LocalDay(s))
        PROVE  when'[k] \in 0 .. now
    <3>1. k \in LinesOf(Contents, LocalDay(s)) \/ k = n
          BY <1>13, <1>18, <2>2
    <3>2. CASE k \in LinesOf(Contents, LocalDay(s))
      <4>1. when'[k] \in 1 .. now
            BY <1>14, <1>18, <3>2, Zenon
      <4> QED
            BY <4>1
    <3>3. CASE k = n
      <4>1. when'[k] = now
            BY <1>4, <3>3
      <4> QED
            BY <1>2, <4>1
    <3> QED
          BY <3>1, <3>2, <3>3
  <2>3. \A k \in LinesOf(Contents', LocalDay(s)) : ~(when'[k] >= Due(LocalDay(s)))
        BY <1>2, <2>1, <2>2
  <2> QED
        BY <2>3 DEF Late
<1>19. Open'
  <2>1. \/ /\ file'.name = file.name /\ UNCHANGED <<startOfPeriod, lastRoll>>
           /\ \/ count' = count + 1 /\ count + 1 < CheckEveryN
              \/ /\ count' \in {0, count}
                 /\ ~(now > lastRoll) \/ PeriodStart(now) = startOfPeriod
        \/ /\ file'.name = LocalDay(now) /\ lastRoll' = now /\ startOfPeriod' = PeriodStart(now)
           /\ count' \in {0, count}
        BY <1>1, <1>2, AppendFilesStep
  <2>2. count' < CheckEveryN
        BY <1>15, <2>1
  <2>3. CASE file'.name = LocalDay(now) /\ lastRoll' = now /\ startOfPeriod' = PeriodStart(now)
    <3>1. LocalDay(now) \in Days
          BY <1>2, BoundsFacts
    <3>2. Late(Contents', when', file'.name) = {}
          BY <1>2, <1>18, <2>3, <3>1
    <3> QED
          BY <2>2, <2>3, <3>2 DEF Open
  <2>4. CASE /\ file'.name = file.name /\ UNCHANGED <<startOfPeriod, lastRoll>>
             /\ count' = count + 1
    <3>1. Len(when') - count' + 1 = Len(when) - count + 1
          BY <1>2, <1>4, <1>15, <2>4
    <3>2. Late(Contents', when', file'.name) \subseteq Len(when') - count' + 1 .. Len(when')
          BY <1>4, <1>16, <2>4, <3>1
    <3> QED
          BY <1>15, <2>2, <2>4, <3>2 DEF Open
  <2>5. CASE /\ file'.name = file.name /\ UNCHANGED <<startOfPeriod, lastRoll>>
             /\ ~(now > lastRoll) \/ PeriodStart(now) = startOfPeriod
    <3>1. PeriodStart(now) = PeriodStart(lastRoll)
      <4>1. CASE ~(now > lastRoll)
        <5>1. now = lastRoll
              BY <1>2, <1>15, <4>1
        <5> QED
              BY <5>1
      <4> QED
            BY <1>15, <2>5, <4>1
    <3>2. Late(Contents', when', file'.name) = {}
          BY <1>2, <1>15, <1>18, <2>5, <3>1
    <3> QED
          BY <1>15, <2>2, <2>5, <3>2 DEF Open
  <2> QED
        BY <2>1, <2>3, <2>4, <2>5
<1> QED
      BY <1>7, <1>9, <1>10, <1>11, <1>12, <1>17, <1>19 DEF IInv

-----------------------------------------------------------------------------
\* The theorems.

LEMMA InitIInv ==
    ASSUME Init
    PROVE  IInv
<1>1. /\ now = 1 /\ phase = "down" /\ disk = [d \in Days |-> <<>>] /\ file = AppendFile(0)
      /\ count = 0 /\ startOfPeriod = 0 /\ lastRoll = 0 /\ lastFlush = 0
      /\ writer = [w \in Writer |-> 0]
      /\ when = <<>> /\ lost = {} /\ purged = {} /\ safe = {}
      BY DEF Init
<1>2. MaxTime \in Nat \ {0} /\ MaxLines \in Nat
      BY LogAssumption
<1>3. LocalDay(1) \in Nat /\ LocalDay(MaxTime) \in Nat /\ 0 \in Days
      BY <1>2, LocalDayMonotone DEF Days
<1>4. <<>> \in Seq(Line) /\ Len(<<>>) = 0 /\ Lines(<<>>) = {}
      BY DEF Lines
<1>5. /\ file \in AppendFiles /\ file.name = 0 /\ file.buffer = <<>> /\ file.written = 0
      BY <1>1, <1>2, <1>3, <1>4 DEF AppendFile, AppendFiles
<1>6. disk \in Files /\ \A d \in Days : disk[d] = <<>>
      BY <1>1, <1>4 DEF Files
<1>7. Len(when) = 0 /\ when \in Seq(1 .. now) /\ \A w \in Writer : writer[w] = 0
      BY <1>1
<1>8. TypeOK
      BY <1>1, <1>2, <1>5, <1>6, <1>7 DEF TypeOK, Files, AppendFiles, Line
<1>9. Bounds
      BY <1>1, <1>2, <1>5, <1>7, <1>8 DEF Bounds
<1>10. Errors /\ PurgedOld /\ Open
      BY <1>1 DEF Errors, PurgedOld, Open
<1>11. Latest
      BY <1>1, <1>3, <1>5, <1>6 DEF Latest
<1>12. \A d \in Days : Len(Contents[d]) = 0 /\ \A i \in 1 .. Len(Contents[d]) : FALSE
  <2>1. Contents = Shown(disk, file.name, <<>>)
        BY <1>5, <1>9, BoundsFacts
  <2>2. disk \in Files /\ file.name \in Days /\ <<>> \in Seq(Line)
        BY <1>3, <1>4, <1>5, <1>6
  <2>3. Shown(disk, file.name, <<>>) = disk
        BY <2>2, ShownFiles, Zenon
  <2>4. Contents = disk
        BY <2>1, <2>3, Zenon
  <2>5. \A d \in Days : Contents[d] = <<>>
        BY <1>6, <2>4, Zenon
  <2> QED
        BY <1>4, <2>5
<1>13. InOrder /\ Accounted
      BY <1>7, <1>12 DEF InOrder, Accounted, Sorted, Kept
<1>14. InTime
  <2>1. \A d \in Days : LinesOf(Contents, d) = {}
        BY <1>12 DEF LinesOf
  <2>2. \A d \in Days : Late(Contents, when, d) = {}
        BY <2>1 DEF Late
  <2> QED
        BY <2>1, <2>2 DEF InTime, Dated
<1> QED
      BY <1>9, <1>10, <1>11, <1>13, <1>14 DEF IInv

LEMMA NextIInv ==
    ASSUME IInv, [Next]_vars
    PROVE  IInv'
<1>1. ASSUME NEW w \in Writer, flush(w)
      PROVE  IInv'
      BY <1>1, BufferWritten, Zenon DEF flush
<1>2. ASSUME NEW w \in Writer, NEW level \in {"L_NOTICE", "L_ERROR_EXIT"}, append(w, level)
      PROVE  IInv'
      BY <1>2, AppendStep
<1>3. CASE Start
      BY <1>3, StartStep
<1>4. CASE Spill
      BY <1>4, BufferWritten DEF Spill
<1>5. CASE Stop
      BY <1>5, BufferWritten DEF Stop
<1>6. CASE LastLine
      BY <1>6, LastLineStep
<1>7. CASE Crash
      BY <1>7, CrashStep
<1>8. CASE Tick
      BY <1>8, TickStep
<1>9. CASE UNCHANGED vars
  <2> USE <1>9 DEF vars
  <2>1. Bounds' /\ Errors' /\ Latest'
        BY DEF IInv, Bounds, TypeOK, Errors, Latest
  <2>2. Contents' = Contents /\ Purged' = Purged
        BY DEF Contents, Content, Purged
  <2>3. InOrder' /\ Accounted' /\ InTime'
        BY <2>2 DEF IInv, InOrder, Accounted, InTime
  <2>4. PurgedOld' /\ Open'
        BY <2>2 DEF IInv, PurgedOld, Open
  <2> QED
        BY <2>1, <2>3, <2>4 DEF IInv
<1> QED
      BY <1>1, <1>2, <1>3, <1>4, <1>5, <1>6, <1>7, <1>8, <1>9 DEF Next

\* The inductive invariant of the log.
THEOREM SpecIInv == Spec => []IInv
<1>1. Init => IInv
      BY InitIInv
<1>2. IInv /\ [Next]_vars => IInv'
      BY NextIInv
<1> QED
      BY <1>1, <1>2, PTL DEF Spec

\* No line disappears, appears twice or overtakes another, whatever the rolls,
\* the threads, stdio's buffer and restarts do.
THEOREM SpecLinesKept == Spec => []LinesKept
<1>1. IInv => LinesKept
  <2> SUFFICES ASSUME IInv PROVE LinesKept
        OBVIOUS
  <2> DEFINE gone == lost \cup Purged
  <2>1. /\ Contents \in Files /\ Len(when) \in Nat /\ Sorted(Contents)
        /\ Kept(Contents, Len(when), gone)
        BY BoundsFacts DEF IInv, InOrder, Accounted
  <2> HIDE DEF gone
  <2>2. \A d \in Days : /\ Contents[d] = Content(d) /\ Content(d) \in Seq(Line)
                        /\ DOMAIN Content(d) = 1 .. Len(Content(d))
        BY <2>1 DEF Contents, Files
  <2>3. \A d, e \in Days : \A i \in DOMAIN Content(d), j \in DOMAIN Content(e) :
            d < e \/ (d = e /\ i < j) => Content(d)[i] < Content(e)[j]
        BY <2>1, <2>2 DEF Sorted
  <2>4. ASSUME NEW d \in Days, NEW i \in DOMAIN Content(d)
        PROVE  Content(d)[i] \in (1 .. Len(when)) \ gone
    <3>1. i \in 1 .. Len(Contents[d]) /\ Contents[d][i] = Content(d)[i] /\ Content(d)[i] \in Line
          BY <2>2
    <3>2. Content(d)[i] <= Len(when) /\ Content(d)[i] \notin gone
          BY <2>1, <3>1 DEF Kept
    <3> QED
          BY <2>1, <3>1, <3>2 DEF Line
  <2>5. ASSUME NEW k \in (1 .. Len(when)) \ gone
        PROVE  \E d \in Days : \E i \in DOMAIN Content(d) : Content(d)[i] = k
    <3>1. Holds(Contents, k)
          BY <2>1 DEF Kept
    <3> QED
          BY <2>2, <3>1 DEF Holds
  <2>6. UNION {Lines(Content(d)) : d \in Days} = (1 .. Len(when)) \ gone
    <3> DEFINE all == UNION {Lines(Content(d)) : d \in Days}
               there == (1 .. Len(when)) \ gone
    <3>1. \A d \in Days : Lines(Content(d)) \subseteq there
          BY <2>4, Zenon DEF Lines
    <3>2. \A k \in there : \E d \in Days : k \in Lines(Content(d))
          BY <2>5, Zenon DEF Lines
    <3> HIDE DEF there
    <3>3. all \subseteq there /\ there \subseteq all
          BY <3>1, <3>2, Zenon
    <3> QED
          BY <3>3, Zenon DEF there
  <2> QED
        BY <2>3, <2>6 DEF LinesKept, gone
<1> QED
      BY <1>1, SpecIInv, PTL

\* An error line whose logger has returned is never lost.
THEOREM SpecErrorsSurvive == Spec => []ErrorsSurvive
<1>1. IInv => ErrorsSurvive
      BY Zenon DEF IInv, Errors, ErrorsSurvive
<1> QED
      BY <1>1, SpecIInv, PTL

LEMMA FewLines ==
    ASSUME NEW S, NEW a \in Int, NEW b \in Int, a <= b + 1, S \subseteq a .. b
    PROVE  IsFiniteSet(S) /\ Cardinality(S) \in Nat /\ Cardinality(S) <= b - a + 1
<1> DEFINE T == a .. b
<1>1. IsFiniteSet(T) /\ Cardinality(T) = b - a + 1
      BY FS_Interval
<1> HIDE DEF T
<1>2. IsFiniteSet(S) /\ Cardinality(S) <= Cardinality(T)
      BY <1>1, FS_Subset DEF T
<1> QED
      BY <1>1, <1>2, FS_CardinalityType

\* No line is in the file of a later local day than its own, and few are added to
\* a file after the midnight of UTC that follows its day: fewer than checkEveryN_
\* to the open one, and at most checkEveryN_ to any.
THEOREM SpecDayChangeNoticed == Spec => []DayChangeNoticed
<1>1. IInv => DayChangeNoticed
  <2> SUFFICES ASSUME IInv PROVE DayChangeNoticed
        OBVIOUS
  <2>1. /\ Contents \in Files /\ file.name \in Days /\ Len(when) \in Nat /\ count \in Nat
        /\ CheckEveryN \in Nat \ {0}
        BY BoundsFacts, LogAssumption DEF IInv, Bounds, TypeOK
  <2>2. ASSUME NEW d \in Days
        PROVE  Lines(Content(d)) = LinesOf(Contents, d) /\ Overdue(d) = Late(Contents, when, d)
    <3>1. Contents[d] = Content(d) /\ Content(d) \in Seq(Line)
          BY <2>1, <2>2 DEF Contents, Files
    <3>2. DOMAIN Content(d) = 1 .. Len(Contents[d])
          BY <3>1, LenProperties
    <3>3. Lines(Content(d)) = LinesOf(Contents, d)
          BY <3>1, <3>2 DEF Lines, LinesOf
    <3> QED
          BY <3>3 DEF Overdue, Late
  <2>3. ASSUME NEW d \in Days
        PROVE  /\ \A i \in Lines(Content(d)) : d <= LocalDay(when[i])
               /\ Cardinality(Overdue(d)) <= CheckEveryN
    <3>1. PICK c \in Int : Late(Contents, when, d) \subseteq c + 1 .. c + CheckEveryN
          BY <2>3 DEF IInv, InTime, Dated
    <3>2. Cardinality(Overdue(d)) <= CheckEveryN
      <4> DEFINE a == c + 1
                 b == c + CheckEveryN
      <4>1. a \in Int /\ b \in Int /\ a <= b + 1 /\ b - a + 1 = CheckEveryN
            BY <2>1
      <4>2. Late(Contents, when, d) \subseteq a .. b
            BY <3>1
      <4> HIDE DEF a, b
      <4>3. Cardinality(Late(Contents, when, d)) <= b - a + 1
            BY <4>1, <4>2, FewLines, Zenon
      <4> QED
            BY <2>2, <2>3, <4>1, <4>3
    <3> QED
          BY <2>2, <2>3, <3>2 DEF IInv, InTime, Dated
  <2>4. ASSUME phase = "up"
        PROVE  Cardinality(Overdue(file.name)) < CheckEveryN
    <3> DEFINE a == Len(when) - count + 1
               b == Len(when)
    <3>1. Late(Contents, when, file.name) \subseteq a .. b /\ count < CheckEveryN
          BY <2>4 DEF IInv, Open
    <3>2. a \in Int /\ b \in Int /\ a <= b + 1 /\ b - a + 1 = count
          BY <2>1
    <3> HIDE DEF a, b
    <3>3. /\ Cardinality(Late(Contents, when, file.name)) \in Nat
          /\ Cardinality(Late(Contents, when, file.name)) <= b - a + 1
          BY <3>1, <3>2, FewLines, Zenon
    <3> QED
          BY <2>1, <2>2, <3>1, <3>2, <3>3
  <2> QED
        BY <2>3, <2>4 DEF DayChangeNoticed
<1> QED
      BY <1>1, SpecIInv, PTL

\* A line in the file of its own day is kept for maxKeepDays_, and one that a file
\* of the day before took in time for a day less at most.
THEOREM SpecPurgeSpares == Spec => []PurgeSpares
<1>1. IInv => PurgeSpares
  <2> SUFFICES ASSUME IInv, NEW p \in purged
               PROVE  LET age == LocalDay(p.at) - LocalDay(when[p.line])
                      IN  /\ LocalDay(when[p.line]) = p.day => age >= KeepDays
                          /\ when[p.line] < Due(p.day) => age >= KeepDays - 1
        BY DEF PurgeSpares
  <2> DEFINE t == when[p.line]  at == LocalDay(p.at)  d == p.day
  <2>1. /\ p.line \in 1 .. Len(when) /\ p.day \in Days /\ p.at \in 1 .. now
        BY DEF IInv, Bounds, TypeOK
  <2>2. now \in Nat /\ Days \subseteq Nat /\ \A i \in 1 .. Len(when) : when[i] \in 1 .. now
        BY BoundsFacts DEF IInv
  <2>3. d \in Nat /\ t \in Nat /\ p.at \in Nat /\ KeepDays \in Nat
    <3>1. t \in 1 .. now /\ d \in Nat
          BY <2>1, <2>2, Zenon
    <3> HIDE DEF t, d
    <3> QED
          BY <2>1, <2>2, <3>1, LogAssumption
  <2>4. at \in Nat /\ LocalDay(t) \in Nat
        BY <2>3, LocalDayMonotone
  <2>5. at >= d + KeepDays
        BY DEF IInv, PurgedOld
  <2> HIDE DEF t, at, d
  <2>6. t < Due(d) => LocalDay(t) <= d + 1
        BY <2>3, OfTheNextDay
  <2>7. /\ LocalDay(t) = d => at - LocalDay(t) >= KeepDays
        /\ t < Due(d) => at - LocalDay(t) >= KeepDays - 1
        BY <2>3, <2>4, <2>5, <2>6
  <2> QED
        BY <2>7 DEF t, at, d
<1> QED
      BY <1>1, SpecIInv, PTL

=============================================================================
