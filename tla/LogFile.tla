------------------------------- MODULE LogFile -------------------------------
(***************************************************************************)
(* The log: LogFile and AppendFile (Shared/LogFile.cpp) with the threads   *)
(* whose logger objects write to them (Shared/Log.cpp), stops, crashes and *)
(* restarts of the process (Server/main.cpp).                              *)
(*                                                                         *)
(* A line is its number and has length 1.  Time is counted in ticks, with  *)
(* DayLen of them to a day; a file's name is the local day it was opened   *)
(* on, and Shift is how far local time is ahead of UTC.                    *)
(***************************************************************************)
EXTENDS Integers, Sequences, FiniteSets

CONSTANTS
    Writer,         \* the threads that log
    DayLen, Shift,
    RollSize,       \* rollSize_
    CheckEveryN,    \* checkEveryN_
    FlushInterval,  \* flushInterval_
    KeepDays,       \* maxKeepDays_
    MaxTime,        \* bound: the clock
    MaxLines        \* bound: the lines logged

ASSUME LogAssumption ==
    /\ DayLen \in Nat \ {0} /\ Shift \in 0 .. DayLen - 1
    /\ RollSize \in Nat /\ CheckEveryN \in Nat \ {0}
    /\ FlushInterval \in Nat /\ KeepDays \in Nat \ {0}
    /\ MaxTime \in Nat \ {0} /\ MaxLines \in Nat

VARIABLES
    now,            \* time(NULL)
    phase,          \* "up"; "failed", "closed": main goes on without its LogFile, in
                    \* the catch block and behind it; "down"
    disk,           \* the lines in each day's file
    file,           \* file_: the file's name, what stdio still buffers, writtenBytes_
    count, startOfPeriod, lastRoll, lastFlush,
    writer,         \* the error line each thread has appended and not yet flushed, or 0
    when,           \* history: when each line was logged
    lost,           \* history: the lines lost with stdio's buffer
    purged,         \* history: the lines deleted with their file: number, file and time
    safe            \* history: the error lines that a LogFile has flushed

vars == <<now, phase, disk, file, count, startOfPeriod, lastRoll, lastFlush,
          writer, when, lost, purged, safe>>

LocalDay(t) == (t + Shift) \div DayLen

Days == 0 .. LocalDay(MaxTime)

\* Local midnight of day d.
Midnight(d) == d * DayLen - Shift

\* now / kRollPerSeconds_ * kRollPerSeconds_: a day of UTC.
PeriodStart(t) == (t \div DayLen) * DayLen

Lines(s) == {s[i] : i \in DOMAIN s}

AppendFile(d) == [name |-> d, buffer |-> <<>>, written |-> 0]

\* Mutant: the FILE is dropped and not closed.
Closed_dropped(f) == disk

\* ~AppendFile and AppendFile::flush: what is buffered goes to the file's end.
Closed(f) == [disk EXCEPT ![f.name] = @ \o f.buffer]

Init ==
    /\ now = 1 /\ phase = "down"
    /\ disk = [d \in Days |-> <<>>]
    /\ file = AppendFile(0)
    /\ count = 0 /\ startOfPeriod = 0 /\ lastRoll = 0 /\ lastFlush = 0
    /\ writer = [w \in Writer |-> 0]
    /\ when = <<>> /\ lost = {} /\ purged = {} /\ safe = {}

-----------------------------------------------------------------------------
\* rollFile, with f the AppendFile that is open: the name is of the local day,
\* so a roll for size opens the same file again.
rollFile(f) ==
    IF now > lastRoll
      THEN /\ lastRoll' = now /\ lastFlush' = now /\ startOfPeriod' = PeriodStart(now)
           /\ disk' = Closed(f)
           /\ file' = AppendFile(LocalDay(now))
      ELSE file' = f /\ UNCHANGED <<disk, lastRoll, lastFlush, startOfPeriod>>

\* Mutant: a file is old a day too early.
Old_early(d) == now - Midnight(d) > (KeepDays - 1) * DayLen

\* cleanupOldLogs: difftime(now, logDate), in days, is more than maxKeepDays_.
Old(d) == now - Midnight(d) > KeepDays * DayLen

\* The constructor: cleanupOldLogs and the first rollFile.
Start ==
    /\ phase = "down"
    /\ phase' = "up"
    /\ purged' = purged \cup UNION {{[line |-> i, day |-> d, at |-> now] : i \in Lines(disk[d])} :
                                    d \in {e \in Days : Old(e)}}
    /\ disk' = [d \in Days |-> IF Old(d) THEN <<>> ELSE disk[d]]
    /\ file' = AppendFile(LocalDay(now))
    /\ count' = 0 /\ lastRoll' = now /\ lastFlush' = now /\ startOfPeriod' = PeriodStart(now)
    /\ UNCHANGED <<now, writer, when, lost, safe>>

\* Mutant: the day is looked at only when the file has grown to its size.
append_unlocked_size(f) ==
    IF f.written > RollSize THEN rollFile(f) /\ UNCHANGED count
    ELSE file' = f /\ UNCHANGED <<disk, count, startOfPeriod, lastRoll, lastFlush>>

\* append_unlocked, with f the open file and the line in its buffer.
append_unlocked(f) ==
    LET grown == f.written > RollSize
        check == count + 1 >= CheckEveryN
        today == PeriodStart(now)
    IN  CASE grown -> rollFile(f) /\ UNCHANGED count
          [] ~grown /\ ~check ->
                /\ count' = count + 1 /\ file' = f
                /\ UNCHANGED <<disk, startOfPeriod, lastRoll, lastFlush>>
          [] ~grown /\ check /\ today # startOfPeriod -> count' = 0 /\ rollFile(f)
          [] ~grown /\ check /\ today = startOfPeriod ->
                /\ count' = 0
                /\ IF now - lastFlush > FlushInterval
                     THEN /\ lastFlush' = now
                          /\ disk' = Closed(f) /\ file' = [f EXCEPT !.buffer = <<>>]
                     ELSE file' = f /\ UNCHANGED <<disk, lastFlush>>
                /\ UNCHANGED <<startOfPeriod, lastRoll>>

\* ~logger: output_ appends the line under the mutex; an error line is flushed
\* by a second call, under the mutex again.
append(w, level) ==
    /\ phase = "up" /\ writer[w] = 0 /\ Len(when) < MaxLines
    /\ when' = Append(when, now)
    /\ writer' = IF level = "L_ERROR_EXIT" THEN [writer EXCEPT ![w] = Len(when) + 1] ELSE writer
    /\ append_unlocked([file EXCEPT !.buffer = Append(@, Len(when) + 1), !.written = @ + 1])
    /\ UNCHANGED <<now, phase, lost, purged, safe>>

\* Mutant: the flush is left to the next check.
flush_later(w) ==
    /\ phase = "up" /\ writer[w] # 0
    /\ writer' = [writer EXCEPT ![w] = 0] /\ safe' = safe \cup {writer[w]}
    /\ UNCHANGED <<now, phase, disk, file, count, startOfPeriod, lastRoll, lastFlush,
                   when, lost, purged>>

flush(w) ==
    /\ phase = "up" /\ writer[w] # 0
    /\ disk' = Closed(file) /\ file' = [file EXCEPT !.buffer = <<>>]
    /\ writer' = [writer EXCEPT ![w] = 0] /\ safe' = safe \cup {writer[w]}
    /\ UNCHANGED <<now, phase, count, startOfPeriod, lastRoll, lastFlush, when, lost, purged>>

\* stdio writes its buffer out when it is full.
Spill ==
    /\ phase = "up" /\ file.buffer # <<>>
    /\ disk' = Closed(file) /\ file' = [file EXCEPT !.buffer = <<>>]
    /\ UNCHANGED <<now, phase, count, startOfPeriod, lastRoll, lastFlush, writer, when,
                   lost, purged, safe>>

\* main leaves its try block, with all threads joined, at its end or for an
\* exception: the LogFile is destroyed.
Stop ==
    /\ phase = "up" /\ \A w \in Writer : writer[w] = 0
    /\ phase' \in {"closed", "failed"}
    /\ disk' = Closed(file) /\ file' = [file EXCEPT !.buffer = <<>>]
    /\ UNCHANGED <<now, count, startOfPeriod, lastRoll, lastFlush, writer, when, lost,
                   purged, safe>>

\* The error line of the catch block, and then "server stopped, exiting": output_
\* and flush_ still refer to the LogFile that is gone.  The line is lost, and the
\* process goes on or ends there.
LastLine ==
    /\ \/ phase = "failed" /\ phase' \in {"closed", "down"}
       \/ phase = "closed" /\ phase' = "down"
    /\ IF Len(when) < MaxLines THEN when' = Append(when, now) /\ lost' = lost \cup {Len(when) + 1}
                               ELSE UNCHANGED <<when, lost>>
    /\ UNCHANGED <<now, disk, file, count, startOfPeriod, lastRoll, lastFlush, writer,
                   purged, safe>>

\* The process dies, and stdio's buffer with it.
Crash ==
    /\ phase = "up"
    /\ phase' = "down"
    /\ lost' = lost \cup Lines(file.buffer) /\ file' = [file EXCEPT !.buffer = <<>>]
    /\ writer' = [w \in Writer |-> 0]
    /\ UNCHANGED <<now, disk, count, startOfPeriod, lastRoll, lastFlush, when, purged, safe>>

Tick ==
    /\ now < MaxTime
    /\ now' = now + 1
    /\ UNCHANGED <<phase, disk, file, count, startOfPeriod, lastRoll, lastFlush, writer,
                   when, lost, purged, safe>>

Next ==
    \/ \E w \in Writer : flush(w) \/ \E level \in {"L_NOTICE", "L_ERROR_EXIT"} : append(w, level)
    \/ Start \/ Spill \/ Stop \/ LastLine \/ Crash \/ Tick

Spec == Init /\ [][Next]_vars

-----------------------------------------------------------------------------
TypeOK ==
    /\ now \in 1 .. MaxTime /\ phase \in {"up", "failed", "closed", "down"}
    /\ disk \in [Days -> Seq(1 .. MaxLines)]
    /\ file \in [name : Days, buffer : Seq(1 .. MaxLines), written : 0 .. MaxLines]
    /\ count \in Nat /\ startOfPeriod \in Nat /\ lastRoll \in 0 .. now /\ lastFlush \in 0 .. now
    /\ writer \in [Writer -> 0 .. Len(when)]
    /\ when \in Seq(1 .. now)
    /\ lost \subseteq 1 .. Len(when) /\ safe \subseteq 1 .. Len(when)
    /\ purged \subseteq [line : 1 .. Len(when), day : Days, at : 1 .. now]

\* What a day's file will hold when the open file is closed.
Content(d) == IF d = file.name THEN disk[d] \o file.buffer ELSE disk[d]

Purged == {p.line : p \in purged}

\* No line disappears, appears twice or overtakes another, although rolls close
\* one file and open the next or the same, threads interleave, stdio writes when
\* it likes and the process restarts: the files, read in the order of their
\* names, hold the lines in the order they were logged, all but the ones that
\* went down with a buffer or were deleted with an old file.
LinesKept ==
    /\ \A d, e \in Days : \A i \in DOMAIN Content(d), j \in DOMAIN Content(e) :
          d < e \/ (d = e /\ i < j) => Content(d)[i] < Content(e)[j]
    /\ UNION {Lines(Content(d)) : d \in Days} = (1 .. Len(when)) \ (lost \cup Purged)

\* An error line that is logged while the LogFile exists is on disk for good when
\* ERROR_LOG returns (logger's destructor flushes it): no crash takes it, although
\* another thread may have rolled the file between the append and the flush.
\* (The error line of main's catch block has no LogFile any more.)
ErrorsSurvive == safe \cap lost = {}

\* When the code can first notice that local day d is over: append_unlocked looks
\* for a midnight of UTC, and this is the first one not before d's own end.
Due(d) == (d + 1) * DayLen

\* The lines that were written to the file of day d later than that.
Overdue(d) == {i \in Lines(Content(d)) : when[i] >= Due(d)}

\* "按天轮转" (PROJECT_STATUS.md:55), a file for each day, as far as it goes: no
\* line is in the file of a later local day than its own, and whatever rolls for
\* size and restarts do to count_, fewer than checkEveryN_ lines are added to an
\* open file after the midnight of UTC that follows its local day, and with the
\* one that finds out at most checkEveryN_.  Between local midnight and that one
\* (none, when local time is UTC) there is no limit: rolling compares days of
\* UTC, and names files by local days.
DayChangeNoticed ==
    /\ \A d \in Days : /\ \A i \in Lines(Content(d)) : d <= LocalDay(when[i])
                       /\ Cardinality(Overdue(d)) <= CheckEveryN
    /\ phase = "up" => Cardinality(Overdue(file.name)) < CheckEveryN

\* "保留 30 天" (PROJECT_STATUS.md:55), kept 30 days: cleanupOldLogs deletes by the
\* date in the file's name, so a line in the file of its own local day is not
\* deleted before maxKeepDays_ later; one in the file of an earlier day, which was
\* still open, at most a day too soon, unless it is one of the overdue ones.
PurgeSpares ==
    \A p \in purged :
        LET age == LocalDay(p.at) - LocalDay(when[p.line])
        IN  /\ LocalDay(when[p.line]) = p.day => age >= KeepDays
            /\ when[p.line] < Due(p.day) => age >= KeepDays - 1

=============================================================================
