------------------------------ MODULE BytePipe -------------------------------
(***************************************************************************)
(* What one direction of a relay promises: the bytes taken from the source *)
(* reach the destination in order, each once and none invented, at most    *)
(* Window of them are held at any time, nothing reaches the destination    *)
(* once the pipe is closed, and a byte taken is delivered unless the pipe  *)
(* closes first.  Bytes are the positions they have in the stream.         *)
(***************************************************************************)
EXTENDS Integers, Sequences

CONSTANTS Window, MaxStream

VARIABLES got, out, closed

vars == <<got, out, closed>>

Init == got = 0 /\ out = <<>> /\ closed = FALSE

\* A closed pipe may still take bytes, which are lost.
Receive ==
    /\ \E n \in 0 .. Window :
          /\ closed \/ got + n - Len(out) <= Window
          /\ got + n <= MaxStream
          /\ got' = got + n
    /\ UNCHANGED <<out, closed>>

Upto(n) == out \o [i \in 1 .. n |-> Len(out) + i]

Deliver ==
    /\ ~closed
    /\ \E n \in 1 .. (got - Len(out)) : out' = Upto(n)
    /\ UNCHANGED <<got, closed>>

\* Closing may lose what is held, or a tail of it.
Close ==
    /\ ~closed /\ closed' = TRUE
    /\ \E n \in 0 .. (got - Len(out)) : out' = Upto(n)
    /\ UNCHANGED got

Next == Receive \/ Deliver \/ Close

Safe == Init /\ [][Next]_vars

\* A pipe that holds bytes delivers some of them, or closes.
Spec == Safe /\ WF_vars(got > Len(out) /\ (Deliver \/ Close))
=============================================================================
