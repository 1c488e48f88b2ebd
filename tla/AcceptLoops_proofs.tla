------------------------- MODULE AcceptLoops_proofs -------------------------
(***************************************************************************)
(* Why the accept loops neither die nor double, for any number of          *)
(* contexts, peers, failed accepts and clicks: the handlers that the GUI   *)
(* thread posts take turns, so the acceptor is never opened while it is    *)
(* open, and of the accepts that are not aborted there is one at most.     *)
(***************************************************************************)
EXTENDS AcceptLoops, FiniteSetTheorems, SequenceTheorems, TLAPS

Session ==
    [context : 0 .. NContexts - 1, connected : BOOLEAN, started : Nat, served : BOOLEAN]

Posted == [name : {"start_accept", "stop_accept", "signal"}]
Completion == [name : {"accept"}, session : Nat, ec : {"ok", "failed", "aborted"}]
Queued == Posted \cup Completion

TypeOK ==
    /\ loop \in {"tls", "ws", "client"}
    /\ main \in {"up", "gone", "terminated"}
    /\ gui \in {"DISCONNECTED", "CONNECTED", "closed"}
    /\ open \in BOOLEAN /\ overtaken \in BOOLEAN
    /\ next_io_context \in Nat
    /\ session \in Seq(Session)
    /\ current = IF main = "gone" THEN 0 ELSE Len(session)
    /\ pending \subseteq 1 .. Len(session)
    /\ queue \in Seq(Queued)
    /\ \A i \in 1 .. Len(queue) :
          queue[i].name = "accept" => queue[i].session \in 1 .. Len(session)

\* A completed accept whose handler goes on with the loop if the acceptor is open.
Live(h) == h.name = "accept" /\ h.ec # "aborted"

\* How the handler h moves the acceptor, 1 for open, from a to b.
Moves(h, a, b) ==
    /\ h.name = "start_accept" => a = 0 /\ b = 1
    /\ h.name = "stop_accept" => a = 1 /\ b = 0
    /\ h.name \in {"accept", "signal"} => a = b

Door(o) == IF o THEN 1 ELSE 0

\* The handlers in q take the acceptor from o to what the window shows.
TakeTurns(q, o, g) ==
    \E f \in [0 .. Len(q) -> {0, 1}] :
        /\ f[0] = Door(o)
        /\ \A i \in 1 .. Len(q) : Moves(q[i], f[i - 1], f[i])
        /\ g # "closed" => f[Len(q)] = Door(g = "CONNECTED")

\* The client's buttons are enabled one at a time.
Buttons == loop = "client" /\ main = "up" => TakeTurns(queue, open, gui)

\* The server's acceptor stays open, and nothing cancels an accept.
Listening ==
    loop # "client" =>
        /\ main = "up" => open
        /\ main # "terminated" /\ ~overtaken
        /\ \A i \in 1 .. Len(queue) : queue[i].name = "signal" \/ Live(queue[i])

\* One accept at most is in progress or completed, and it is the current one.
Sole ==
    /\ pending \subseteq {current}
    /\ pending # {} => open
    /\ \A i \in 1 .. Len(queue) : Live(queue[i]) =>
          /\ pending = {} /\ queue[i].session = current
          /\ \A j \in 1 .. Len(queue) : Live(queue[j]) => i = j
    /\ open => pending # {} \/ \E i \in 1 .. Len(queue) : Live(queue[i])

\* No session is started twice or without a connection, and the current one not yet.
StartedOnce ==
    /\ \A s \in 1 .. Len(session) : session[s].started > 0 =>
          session[s].started = 1 /\ session[s].connected
    /\ \A s \in pending : session[s].started = 0
    /\ \A i \in 1 .. Len(queue) : Live(queue[i]) =>
          /\ session[queue[i].session].started = 0
          /\ queue[i].ec = "ok" => session[queue[i].session].connected

IInv == TypeOK /\ Buttons /\ Listening /\ (~overtaken => Sole /\ StartedOnce)

-----------------------------------------------------------------------------
\* The window's buttons.

\* Running the first handler moves the acceptor as the handler does.
LEMMA TurnTaken ==
    ASSUME NEW q \in Seq(Queued), q # <<>>, NEW o \in BOOLEAN, NEW p \in BOOLEAN, NEW g,
           TakeTurns(q, o, g),
           Head(q).name = "start_accept" => p,
           Head(q).name = "stop_accept" => ~p,
           Head(q).name \in {"accept", "signal"} => p = o
    PROVE  /\ TakeTurns(Tail(q), p, g)
           /\ Head(q).name = "start_accept" => ~o
<1>1. PICK f \in [0 .. Len(q) -> {0, 1}] :
          /\ f[0] = Door(o)
          /\ \A i \in 1 .. Len(q) : Moves(q[i], f[i - 1], f[i])
          /\ g # "closed" => f[Len(q)] = Door(g = "CONNECTED")
      BY DEF TakeTurns
<1>2. /\ Len(q) \in Nat \ {0} /\ Head(q) = q[1] /\ Tail(q) \in Seq(Queued)
      /\ Len(Tail(q)) = Len(q) - 1
      /\ \A i \in 1 .. Len(q) - 1 : Tail(q)[i] = q[i + 1]
      OBVIOUS
<1>3. Moves(Head(q), Door(o), f[1]) /\ f[1] \in {0, 1}
      BY <1>1, <1>2
<1>4. f[1] = Door(p) /\ (Head(q).name = "start_accept" => ~o)
  <2>1. Head(q).name \in {"start_accept", "stop_accept", "accept", "signal"}
        BY <1>2 DEF Queued, Posted, Completion
  <2> QED
        BY <1>3, <2>1 DEF Moves, Door
<1> DEFINE e == [i \in 0 .. Len(q) - 1 |-> f[i + 1]]
<1>5. e \in [0 .. Len(Tail(q)) -> {0, 1}]
      BY <1>1, <1>2
<1>6. e[0] = Door(p)
      BY <1>2, <1>4
<1>7. \A i \in 1 .. Len(Tail(q)) : Moves(Tail(q)[i], e[i - 1], e[i])
      BY <1>1, <1>2
<1>8. g # "closed" => e[Len(Tail(q))] = Door(g = "CONNECTED")
      BY <1>1, <1>2
<1> HIDE DEF e
<1> QED
      BY <1>3, <1>4, <1>5, <1>6, <1>7, <1>8, Zenon DEF TakeTurns

\* A handler that is posted moves the acceptor from what the window showed.
LEMMA TurnPosted ==
    ASSUME NEW q \in Seq(Queued), NEW h \in Queued, NEW o \in BOOLEAN, NEW g, NEW k,
           TakeTurns(q, o, g),
           \/ k = g /\ h.name \in {"accept", "signal"}
           \/ g # "closed" /\ k # "closed" /\ Moves(h, Door(g = "CONNECTED"), Door(k = "CONNECTED"))
    PROVE  TakeTurns(Append(q, h), o, k)
<1>1. PICK f \in [0 .. Len(q) -> {0, 1}] :
          /\ f[0] = Door(o)
          /\ \A i \in 1 .. Len(q) : Moves(q[i], f[i - 1], f[i])
          /\ g # "closed" => f[Len(q)] = Door(g = "CONNECTED")
      BY DEF TakeTurns
<1> DEFINE n == Len(q) + 1
           last == IF k = g THEN f[Len(q)] ELSE Door(k = "CONNECTED")
           e == [i \in 0 .. n |-> IF i = n THEN last ELSE f[i]]
<1>2. /\ Append(q, h) \in Seq(Queued) /\ Len(Append(q, h)) = n /\ n \in Nat
      /\ \A i \in 1 .. Len(q) : Append(q, h)[i] = q[i]
      /\ Append(q, h)[n] = h /\ Len(q) \in Nat
      OBVIOUS
<1>3. last \in {0, 1} /\ Moves(h, f[Len(q)], last)
      BY <1>1, <1>2 DEF Moves, Door
<1>4. k # "closed" => last = Door(k = "CONNECTED")
      BY <1>1
<1> HIDE DEF last
<1>5. e \in [0 .. n -> {0, 1}] /\ e[0] = Door(o) /\ e[n] = last
      BY <1>1, <1>2, <1>3
<1>6. ASSUME NEW i \in 1 .. n
      PROVE  Moves(Append(q, h)[i], e[i - 1], e[i])
  <2>1. CASE i = n
        BY <1>2, <1>3, <2>1
  <2>2. CASE i # n
        BY <1>1, <1>2, <2>2
  <2> QED
        BY <2>1, <2>2
<1> HIDE DEF e, n
<1> QED
      BY <1>2, <1>4, <1>5, <1>6, Zenon DEF TakeTurns

\* The accepts that a close aborts move nothing.
LEMMA TurnsAborted ==
    ASSUME NEW q \in Seq(Queued), NEW r \in Seq(Queued), NEW o \in BOOLEAN, NEW g,
           TakeTurns(q, o, g), \A i \in 1 .. Len(r) : r[i].name = "accept"
    PROVE  TakeTurns(q \o r, o, g)
<1>1. PICK f \in [0 .. Len(q) -> {0, 1}] :
          /\ f[0] = Door(o)
          /\ \A i \in 1 .. Len(q) : Moves(q[i], f[i - 1], f[i])
          /\ g # "closed" => f[Len(q)] = Door(g = "CONNECTED")
      BY Zenon DEF TakeTurns
<1> DEFINE n == Len(q)  m == Len(r)
           e == [i \in 0 .. n + m |-> IF i <= n THEN f[i] ELSE f[n]]
<1>2. /\ q \o r \in Seq(Queued) /\ Len(q \o r) = n + m /\ n \in Nat /\ m \in Nat
      /\ \A i \in 1 .. n + m : (q \o r)[i] = IF i <= n THEN q[i] ELSE r[i - n]
      BY ConcatProperties, LenProperties
<1>3. f \in [0 .. n -> {0, 1}] /\ f[0] = Door(o) /\ (g # "closed" => f[n] = Door(g = "CONNECTED"))
      BY <1>1
<1> HIDE DEF n, m
<1>5. /\ e \in [0 .. n + m -> {0, 1}]
      /\ \A i \in 0 .. n : e[i] = f[i]
      /\ \A i \in n .. n + m : e[i] = f[n]
  <2>1. \A i \in 0 .. n + m : (IF i <= n THEN f[i] ELSE f[n]) \in {0, 1}
        BY <1>2, <1>3
  <2>2. e \in [0 .. n + m -> {0, 1}]
        BY <2>1
  <2>3. \A i \in 0 .. n + m : e[i] = IF i <= n THEN f[i] ELSE f[n]
        OBVIOUS
  <2> HIDE DEF e
  <2> QED
        BY <1>2, <2>2, <2>3
<1> HIDE DEF e
<1>4. ASSUME NEW i \in 1 .. n + m
      PROVE  Moves((q \o r)[i], e[i - 1], e[i])
  <2>1. CASE i <= n
    <3>1. i \in 1 .. Len(q)
          BY <1>2, <2>1 DEF n
    <3>2. i - 1 \in 0 .. n /\ i \in 0 .. n
          BY <1>2, <2>1
    <3>3. (q \o r)[i] = q[i]
          BY <1>2, <2>1
    <3>4. e[i - 1] = f[i - 1] /\ e[i] = f[i]
          BY <1>5, <3>2, Zenon
    <3>5. Moves(q[i], f[i - 1], f[i])
          BY <1>1, <3>1, Zenon
    <3> QED
          BY <3>3, <3>4, <3>5, Zenon
  <2>2. CASE i > n
    <3>1. (q \o r)[i].name = "accept"
          BY <1>2, <2>2 DEF m
    <3>2. i - 1 \in n .. n + m /\ i \in n .. n + m
          BY <1>2, <2>2
    <3>3. e[i - 1] = e[i]
          BY <1>5, <3>2
    <3> QED
          BY <3>1, <3>3 DEF Moves
  <2> QED
        BY <1>2, <2>1, <2>2
<1>6. e[0] = f[0] /\ e[n + m] = f[n]
      BY <1>2, <1>5
<1> QED
      BY <1>2, <1>3, <1>4, <1>5, <1>6, Zenon DEF TakeTurns

-----------------------------------------------------------------------------
\* The sessions and the accepts.

\* The pool hands out one of its contexts.
LEMMA ContextOfPool ==
    ASSUME NEW n \in Nat
    PROVE  Context(n) \in 0 .. NContexts - 1
<1>1. NContexts \in Nat \ {0}
      BY LoopsAssumption
<1>2. Contexts = 0 .. 0 \/ Contexts = 0 .. NContexts - 1
      BY DEF Contexts
<1>3. Cardinality(Contexts) \in 1 .. NContexts
  <2>1. Cardinality(0 .. 0) = 1 /\ Cardinality(0 .. NContexts - 1) = NContexts
    <3>1. 0 \in Int /\ NContexts - 1 \in Int /\ ~(0 > NContexts - 1)
          BY <1>1
    <3>2. /\ Cardinality(0 .. 0) = IF 0 > 0 THEN 0 ELSE 0 - 0 + 1
          /\ Cardinality(0 .. NContexts - 1) =
                IF 0 > NContexts - 1 THEN 0 ELSE NContexts - 1 - 0 + 1
          BY <3>1, FS_Interval, Zenon
    <3> QED
          BY <1>1, <3>1, <3>2
  <2>2. Cardinality(Contexts) = 1 \/ Cardinality(Contexts) = NContexts
        BY <1>2, <2>1, Zenon
  <2> QED
        BY <1>1, <2>2
<1> HIDE DEF Contexts
<1>4. n % Cardinality(Contexts) \in 0 .. Cardinality(Contexts) - 1
      BY <1>3
<1> QED
      BY <1>1, <1>3, <1>4 DEF Context

\* Calling the loop makes a session that is not started, and accepts into it.
LEMMA LoopCalled ==
    ASSUME NEW STATE ss, ss \in Seq(Session), NEW STATE accepts, accepts \in SUBSET (1 .. Len(ss)),
           TypeOK, do_accept(ss, accepts)
    PROVE  /\ session' \in Seq(Session) /\ Len(session') = Len(ss) + 1
           /\ \A s \in 1 .. Len(ss) : session'[s] = ss[s]
           /\ session'[Len(ss) + 1].started = 0
           /\ next_io_context' \in Nat /\ current' = Len(ss) + 1
           /\ pending' = accepts \cup {Len(ss) + 1}
<1> DEFINE m == Made(Context(next_io_context))
<1>1. m \in Session /\ m.started = 0
      BY ContextOfPool, Zenon DEF Made, Session, TypeOK
<1>2. session' = Append(ss, m) /\ current' = Len(ss) + 1 /\ pending' = accepts \cup {Len(ss) + 1}
      BY DEF do_accept
<1>3. next_io_context' \in Nat
      BY DEF do_accept, TypeOK
<1> HIDE DEF m
<1> QED
      BY <1>1, <1>2, <1>3

\* Starting the session that the loop holds changes that one only.
LEMMA SessionStarted ==
    ASSUME NEW ss \in Seq(Session), NEW c \in 1 .. Len(ss)
    PROVE  LET t == [ss EXCEPT ![c].started = @ + 1]
           IN  /\ t \in Seq(Session) /\ Len(t) = Len(ss)
               /\ \A s \in 1 .. Len(ss) : s # c => t[s] = ss[s]
               /\ t[c].started = ss[c].started + 1 /\ t[c].connected = ss[c].connected
<1> DEFINE a == ss[c].started + 1
           r == [ss[c] EXCEPT !.started = a]
<1>1. ss[c] \in Session
      OBVIOUS
<1>4. a \in Nat
      BY <1>1 DEF Session
<1> HIDE DEF a
<1>2. r \in Session /\ r.started = a /\ r.connected = ss[c].connected
      BY <1>1, <1>4 DEF Session
<1>3. [ss EXCEPT ![c].started = @ + 1] = [ss EXCEPT ![c] = r]
      BY Zenon DEF a
<1> HIDE DEF r
<1> QED
      BY <1>2, <1>3 DEF a

\* So does a completion.
LEMMA SessionConnected ==
    ASSUME NEW ss \in Seq(Session), NEW c \in 1 .. Len(ss)
    PROVE  LET t == [ss EXCEPT ![c].connected = TRUE]
           IN  /\ t \in Seq(Session) /\ Len(t) = Len(ss)
               /\ \A s \in 1 .. Len(ss) : t[s].started = ss[s].started
               /\ \A s \in 1 .. Len(ss) : ss[s].connected => t[s].connected
               /\ t[c].connected
<1> DEFINE r == [ss[c] EXCEPT !.connected = TRUE]
           t == [ss EXCEPT ![c] = r]
<1>1. ss[c] \in Session
      OBVIOUS
<1>2. /\ r \in Session /\ r.started = ss[c].started
      /\ r.connected = TRUE
      BY <1>1, Zenon DEF Session
<1>3. [ss EXCEPT ![c].connected = TRUE] = t
      BY Zenon
<1> HIDE DEF r
<1>4. /\ t \in Seq(Session) /\ Len(t) = Len(ss) /\ t[c] = r
      /\ \A s \in 1 .. Len(ss) : s # c => t[s] = ss[s]
      BY <1>2
<1> HIDE DEF t
<1>5. ASSUME NEW s \in 1 .. Len(ss)
      PROVE  t[s].started = ss[s].started /\ (ss[s].connected => t[s].connected)
  <2>1. CASE s = c
        BY <1>2, <1>4, <2>1
  <2>2. CASE s # c
        BY <1>4, <2>2, Zenon
  <2> QED
        BY <2>1, <2>2
<1> QED
      BY <1>2, <1>3, <1>4, <1>5, Zenon

\* So does the session's first handler.
LEMMA SessionServed ==
    ASSUME NEW ss \in Seq(Session), NEW c \in 1 .. Len(ss)
    PROVE  LET t == [ss EXCEPT ![c].served = TRUE]
           IN  /\ t \in Seq(Session) /\ Len(t) = Len(ss)
               /\ \A s \in 1 .. Len(ss) : t[s].started = ss[s].started
               /\ \A s \in 1 .. Len(ss) : ss[s].connected => t[s].connected
<1> DEFINE r == [ss[c] EXCEPT !.served = TRUE]
           t == [ss EXCEPT ![c] = r]
<1>1. ss[c] \in Session
      OBVIOUS
<1>2. /\ r \in Session /\ r.started = ss[c].started
      /\ r.connected = ss[c].connected
      BY <1>1, Zenon DEF Session
<1>3. [ss EXCEPT ![c].served = TRUE] = t
      BY Zenon
<1> HIDE DEF r
<1>4. /\ t \in Seq(Session) /\ Len(t) = Len(ss) /\ t[c] = r
      /\ \A s \in 1 .. Len(ss) : s # c => t[s] = ss[s]
      BY <1>2
<1> HIDE DEF t
<1>5. ASSUME NEW s \in 1 .. Len(ss)
      PROVE  t[s].started = ss[s].started /\ (ss[s].connected => t[s].connected)
  <2>1. CASE s = c
        BY <1>2, <1>4, <2>1
  <2>2. CASE s # c
        BY <1>4, <2>2, Zenon
  <2> QED
        BY <2>1, <2>2
<1> QED
      BY <1>2, <1>3, <1>4, <1>5, Zenon

\* What cancel makes of the accepts in progress.
LEMMA AbortedIsQueued ==
    ASSUME TypeOK, NEW begun \in [1 .. Cardinality(pending) -> pending]
    PROVE  LET r == [i \in DOMAIN begun |-> Accepted(begun[i], "aborted")]
           IN  /\ r \in Seq(Queued)
               /\ \A i \in 1 .. Len(r) : /\ r[i].name = "accept" /\ ~Live(r[i])
                                         /\ r[i].session \in 1 .. Len(session)
<1> DEFINE n == Cardinality(pending)
           r == [i \in 1 .. n |-> Accepted(begun[i], "aborted")]
<1>1. pending \subseteq 1 .. Len(session) /\ Len(session) \in Nat
      BY LenProperties DEF TypeOK
<1>2. n \in Nat
  <2>1. IsFiniteSet(1 .. Len(session))
        BY <1>1, FS_Interval
  <2>2. IsFiniteSet(pending)
        BY <1>1, <2>1, FS_Subset, Zenon
  <2> QED
        BY <2>2, FS_CardinalityType
<1>3. begun \in [1 .. n -> pending] /\ DOMAIN begun = 1 .. n
      OBVIOUS
<1> HIDE DEF n
<1>4. ASSUME NEW i \in 1 .. n
      PROVE  begun[i] \in Nat /\ begun[i] \in 1 .. Len(session)
  <2>1. begun[i] \in pending
        BY <1>3, Zenon
  <2>2. begun[i] \in 1 .. Len(session)
        BY <1>1, <2>1, Zenon
  <2> QED
        BY <1>1, <2>2
<1>5. \A i \in 1 .. n : Accepted(begun[i], "aborted") \in Queued
      BY <1>4 DEF Accepted, Queued, Completion
<1>6. r \in Seq(Queued) /\ Len(r) = n
      BY <1>2, <1>5, IsASeq, LenProperties
<1>7. \A i \in 1 .. n : /\ r[i].name = "accept" /\ ~Live(r[i])
                        /\ r[i].session \in 1 .. Len(session)
      BY <1>4 DEF Accepted, Live
<1> HIDE DEF r
<1> QED
      BY <1>3, <1>6, <1>7, Zenon DEF r

-----------------------------------------------------------------------------
\* The steps.

\* A step that touches neither the loop nor its acceptor.
LEMMA LoopUntouched ==
    ASSUME IInv, UNCHANGED <<loop, main, gui, next_io_context, open, current, session,
                             pending, queue, overtaken>>
    PROVE  IInv'
<1>1. TypeOK'
      BY DEF IInv, TypeOK
<1>2. Buttons' /\ Listening'
      BY DEF IInv, Buttons, Listening, Live, TakeTurns
<1>3. ~overtaken' => Sole' /\ StartedOnce'
      BY DEF IInv, Sole, StartedOnce, Live
<1> QED
      BY <1>1, <1>2, <1>3 DEF IInv

LEMMA Appended ==
    ASSUME NEW q \in Seq(Queued), NEW h \in Queued
    PROVE  /\ Append(q, h) \in Seq(Queued) /\ Len(Append(q, h)) = Len(q) + 1
           /\ Len(q) \in Nat
           /\ \A i \in 1 .. Len(q) : Append(q, h)[i] = q[i]
           /\ Append(q, h)[Len(q) + 1] = h
           /\ \A i \in 1 .. Len(Append(q, h)) : i \in 1 .. Len(q) \/ i = Len(q) + 1
<1> QED
      OBVIOUS

\* A handler is posted that is none of the loop's.
LEMMA PostedStep ==
    ASSUME IInv, NEW h \in Posted, queue' = Append(queue, h),
           loop # "client" => h.name = "signal" /\ gui' = gui,
           loop = "client" => TakeTurns(queue', open, gui'),
           gui' \in {"DISCONNECTED", "CONNECTED", "closed"},
           UNCHANGED <<loop, main, next_io_context, open, current, session, pending, overtaken>>
    PROVE  IInv'
<1>1. h \in Queued /\ h.name # "accept" /\ ~Live(h)
      BY DEF Queued, Posted, Live
<1>2. queue \in Seq(Queued)
      BY DEF IInv, TypeOK
<1>3. /\ queue' \in Seq(Queued) /\ Len(queue') = Len(queue) + 1 /\ Len(queue) \in Nat
      /\ \A i \in 1 .. Len(queue) : queue'[i] = queue[i] /\ i \in 1 .. Len(queue')
      /\ queue'[Len(queue) + 1] = h
      /\ \A i \in 1 .. Len(queue') : i \in 1 .. Len(queue) \/ i = Len(queue) + 1
      BY <1>1, <1>2, Appended
<1>4. TypeOK'
      BY <1>1, <1>3 DEF IInv, TypeOK
<1>5. Buttons'
      BY DEF IInv, Buttons
<1>6. Listening'
      BY <1>1, <1>3 DEF IInv, Listening, Live
<1>7. \A i \in 1 .. Len(queue') : Live(queue'[i]) => i \in 1 .. Len(queue) /\ queue'[i] = queue[i]
      BY <1>1, <1>3
<1>8. ~overtaken' => Sole'
  <2> SUFFICES ASSUME ~overtaken' PROVE Sole'
        OBVIOUS
  <2>1. Sole
        BY DEF IInv
  <2>2. pending' \subseteq {current'} /\ (pending' # {} => open')
        BY <2>1 DEF Sole
  <2>3. ASSUME NEW i \in 1 .. Len(queue'), Live(queue'[i])
        PROVE  /\ pending' = {} /\ queue'[i].session = current'
               /\ \A j \in 1 .. Len(queue') : Live(queue'[j]) => i = j
        BY <1>7, <2>1, <2>3 DEF Sole
  <2>4. open' => pending' # {} \/ \E i \in 1 .. Len(queue') : Live(queue'[i])
        BY <1>3, <2>1 DEF Sole
  <2> QED
        BY <2>2, <2>3, <2>4 DEF Sole, Live
<1>9. ~overtaken' => StartedOnce'
      BY <1>7 DEF IInv, StartedOnce, Live
<1> QED
      BY <1>4, <1>5, <1>6, <1>8, <1>9 DEF IInv

LEMMA SignalStep ==
    ASSUME IInv, Signal
    PROVE  IInv'
<1>1. Handler("signal") \in Posted /\ Handler("signal").name = "signal"
      BY DEF Handler, Posted
<1> QED
      BY <1>1, PostedStep DEF Signal, Post, IInv, TypeOK

LEMMA ButtonStep ==
    ASSUME IInv, onConnect \/ onDisconnect
    PROVE  IInv'
<1>1. queue \in Seq(Queued) /\ open \in BOOLEAN /\ TakeTurns(queue, open, gui)
      BY DEF IInv, TypeOK, Buttons, onConnect, onDisconnect, Window
<1>2. CASE onConnect
  <2> DEFINE h == Handler("start_accept")
  <2>1. h \in Posted /\ h \in Queued /\ h.name = "start_accept"
        BY DEF Handler, Posted, Queued
  <2>2. /\ gui = "DISCONNECTED" /\ gui' = "CONNECTED" /\ queue' = Append(queue, h) /\ loop = "client"
        /\ UNCHANGED <<loop, main, next_io_context, open, current, session, pending, overtaken>>
        BY <1>2 DEF onConnect, Post, Window
  <2> HIDE DEF h
  <2>3. Moves(h, Door(gui = "CONNECTED"), Door(gui' = "CONNECTED"))
        BY <2>1, <2>2 DEF Moves, Door
  <2>4. TakeTurns(queue', open, gui')
    <3>1. gui # "closed" /\ gui' # "closed"
          BY <2>2
    <3> QED
          BY <1>1, <2>1, <2>2, <2>3, <3>1, TurnPosted
  <2> QED
        BY <2>1, <2>2, <2>4, PostedStep
<1>3. CASE onDisconnect
  <2> DEFINE h == Handler("stop_accept")
  <2>1. h \in Posted /\ h \in Queued /\ h.name = "stop_accept"
        BY DEF Handler, Posted, Queued
  <2>2. /\ gui = "CONNECTED" /\ gui' = "DISCONNECTED" /\ queue' = Append(queue, h) /\ loop = "client"
        /\ UNCHANGED <<loop, main, next_io_context, open, current, session, pending, overtaken>>
        BY <1>3 DEF onDisconnect, Post, Window
  <2> HIDE DEF h
  <2>3. Moves(h, Door(gui = "CONNECTED"), Door(gui' = "CONNECTED"))
        BY <2>1, <2>2 DEF Moves, Door
  <2>4. TakeTurns(queue', open, gui')
    <3>1. gui # "closed" /\ gui' # "closed"
          BY <2>2
    <3> QED
          BY <1>1, <2>1, <2>2, <2>3, <3>1, TurnPosted
  <2> QED
        BY <2>1, <2>2, <2>4, PostedStep
<1> QED
      BY <1>2, <1>3

LEMMA QuitStep ==
    ASSUME IInv, onQuit
    PROVE  IInv'
<1>1. TypeOK'
      BY DEF IInv, TypeOK, onQuit
<1>2. Buttons'
      BY DEF IInv, Buttons, TakeTurns, onQuit
<1>3. Listening'
      BY DEF IInv, Listening, Live, onQuit
<1>4. ~overtaken' => Sole' /\ StartedOnce'
      BY DEF IInv, Sole, StartedOnce, Live, onQuit
<1> QED
      BY <1>1, <1>2, <1>3, <1>4 DEF IInv

\* An accept leaves pending and its handler is queued.
LEMMA CompletionStep ==
    ASSUME IInv, NEW s \in pending, AcceptCompletes(s) \/ AcceptFails(s)
    PROVE  IInv'
<1> DEFINE ec == IF AcceptCompletes(s) THEN "ok" ELSE "failed"
<1>0. /\ ec \in {"ok", "failed"}
      /\ (AcceptCompletes(s) /\ ec = "ok") \/ (AcceptFails(s) /\ ec = "failed")
      OBVIOUS
<1> USE <1>0
<1> HIDE DEF ec
<1> DEFINE h == Accepted(s, ec)
<1>1. /\ queue' = Append(queue, h) /\ pending' = pending \ {s}
      /\ UNCHANGED <<loop, main, gui, next_io_context, open, current, overtaken>>
      BY DEF AcceptCompletes, AcceptFails, Post
<1>2. /\ session \in Seq(Session) /\ Len(session) \in Nat /\ s \in 1 .. Len(session)
      /\ queue \in Seq(Queued)
      BY LenProperties DEF IInv, TypeOK
<1>3. /\ session' \in Seq(Session) /\ Len(session') = Len(session)
      /\ \A t \in 1 .. Len(session) : session'[t].started = session[t].started
      /\ \A t \in 1 .. Len(session) :
            session[t].connected => session'[t].connected
      /\ ec = "ok" => session'[s].connected
  <2>1. CASE AcceptFails(s) /\ ec = "failed"
        BY <1>2, <2>1 DEF AcceptFails
  <2>2. CASE AcceptCompletes(s) /\ ec = "ok"
    <3>1. session' = [session EXCEPT ![s].connected = TRUE]
          BY <2>2 DEF AcceptCompletes
    <3> QED
          BY <1>2, <3>1, SessionConnected, Zenon
  <2> QED
        BY <2>1, <2>2
<1>4. h \in Queued /\ h.name = "accept" /\ h.session = s /\ h.ec = ec /\ Live(h)
      BY <1>2 DEF Accepted, Queued, Completion, Live
<1> HIDE DEF h
<1>5. /\ queue' \in Seq(Queued) /\ Len(queue') = Len(queue) + 1 /\ Len(queue) \in Nat
      /\ \A i \in 1 .. Len(queue) : queue'[i] = queue[i] /\ i \in 1 .. Len(queue')
      /\ queue'[Len(queue) + 1] = h /\ Len(queue) + 1 \in 1 .. Len(queue')
      /\ \A i \in 1 .. Len(queue') : i \in 1 .. Len(queue) \/ i = Len(queue) + 1
      BY <1>1, <1>2, <1>4, Appended
<1>6. TypeOK'
      BY <1>1, <1>2, <1>3, <1>4, <1>5 DEF IInv, TypeOK
<1>7. Buttons'
      BY <1>1, <1>2, <1>4, TurnPosted DEF IInv, Buttons, TypeOK
<1>8. Listening'
      BY <1>1, <1>4, <1>5 DEF IInv, Listening, Live
<1>9. ~overtaken' => Sole' /\ StartedOnce'
  <2> SUFFICES ASSUME ~overtaken' PROVE Sole' /\ StartedOnce'
        OBVIOUS
  <2>1. Sole /\ StartedOnce
        BY <1>1 DEF IInv
  <2>2. s = current /\ pending' = {} /\ \A i \in 1 .. Len(queue) : ~Live(queue[i])
        BY <1>1, <2>1 DEF Sole
  <2>3. \A i \in 1 .. Len(queue') : Live(queue'[i]) => i = Len(queue) + 1 /\ queue'[i] = h
        BY <1>5, <2>2
  <2>4. Sole'
    <3>1. pending' \subseteq {current'} /\ (pending' # {} => open')
          BY <2>2
    <3>2. ASSUME NEW i \in 1 .. Len(queue'), Live(queue'[i])
          PROVE  /\ pending' = {} /\ queue'[i].session = current'
                 /\ \A j \in 1 .. Len(queue') : Live(queue'[j]) => i = j
          BY <1>1, <1>4, <2>2, <2>3, <3>2
    <3>3. \E i \in 1 .. Len(queue') : Live(queue'[i])
          BY <1>4, <1>5
    <3> QED
          BY <3>1, <3>2, <3>3 DEF Sole, Live
  <2>5. StartedOnce'
    <3>1. ASSUME NEW t \in 1 .. Len(session'), session'[t].started > 0
          PROVE  session'[t].started = 1 /\ session'[t].connected
          BY <1>3, <2>1, <3>1 DEF StartedOnce
    <3>2. ASSUME NEW i \in 1 .. Len(queue'), Live(queue'[i])
          PROVE  /\ session'[queue'[i].session].started = 0
                 /\ queue'[i].ec = "ok" => session'[queue'[i].session].connected
      <4>1. queue'[i] = h /\ session[s].started = 0
            BY <2>1, <2>3, <3>2 DEF StartedOnce
      <4> QED
            BY <1>2, <1>3, <1>4, <4>1
    <3> QED
          BY <2>2, <3>1, <3>2 DEF StartedOnce, Live
  <2> QED
        BY <2>4, <2>5
<1> QED
      BY <1>6, <1>7, <1>8, <1>9 DEF IInv

\* The session's first handler runs.
LEMMA RunSessionStep ==
    ASSUME IInv, NEW s \in 1 .. Len(session), RunSession(s)
    PROVE  IInv'
<1>1. /\ session' = [session EXCEPT ![s].served = TRUE]
      /\ UNCHANGED <<loop, main, gui, next_io_context, open, current, pending, queue, overtaken>>
      BY DEF RunSession
<1>2. session \in Seq(Session)
      BY DEF IInv, TypeOK
<1>3. /\ session' \in Seq(Session) /\ Len(session') = Len(session)
      /\ \A t \in 1 .. Len(session) : session'[t].started = session[t].started
      /\ \A t \in 1 .. Len(session) :
            session[t].connected => session'[t].connected
      BY <1>1, <1>2, SessionServed, Zenon
<1>4. TypeOK'
      BY <1>1, <1>3 DEF IInv, TypeOK
<1>5. Buttons' /\ Listening'
      BY <1>1 DEF IInv, Buttons, Listening, TakeTurns, Live
<1>6. ~overtaken' => Sole'
      BY <1>1 DEF IInv, Sole, Live
<1>7. ~overtaken' => StartedOnce'
      BY <1>1, <1>3 DEF IInv, StartedOnce, Live, TypeOK
<1> QED
      BY <1>4, <1>5, <1>6, <1>7 DEF IInv

LEMMA JoinStep ==
    ASSUME IInv, Join
    PROVE  IInv'
<1>1. /\ main' = "gone" /\ open' = FALSE /\ current' = 0 /\ pending' = {} /\ queue' = <<>>
      /\ UNCHANGED <<loop, gui, next_io_context, session, overtaken>>
      BY DEF Join
<1>2. Len(queue') = 0 /\ queue' \in Seq(Queued) /\ \A i \in 1 .. Len(queue') : FALSE
      BY <1>1
<1>3. TypeOK'
  <2>1. pending' \subseteq 1 .. Len(session') /\ open' \in BOOLEAN
        BY <1>1, Zenon
  <2>2. \A i \in 1 .. Len(queue') : queue'[i].name = "accept" => queue'[i].session \in 1 .. Len(session')
        BY <1>2
  <2> QED
        BY <1>1, <1>2, <2>1, <2>2 DEF IInv, TypeOK
<1>4. Buttons' /\ Listening'
      BY <1>1, <1>2 DEF IInv, Buttons, Listening
<1>5. ~overtaken' => Sole' /\ StartedOnce'
      BY <1>1, <1>2 DEF IInv, Sole, StartedOnce
<1> QED
      BY <1>3, <1>4, <1>5 DEF IInv

LEMMA Tailed ==
    ASSUME NEW q \in Seq(Queued), q # <<>>
    PROVE  /\ Tail(q) \in Seq(Queued) /\ Len(Tail(q)) = Len(q) - 1 /\ Len(q) \in Nat \ {0}
           /\ Head(q) = q[1] /\ Head(q) \in Queued /\ 1 \in 1 .. Len(q)
           /\ \A i \in 1 .. Len(Tail(q)) : Tail(q)[i] = q[i + 1] /\ i + 1 \in 1 .. Len(q)
           /\ \A i \in 1 .. Len(q) : i = 1 \/ (i - 1 \in 1 .. Len(Tail(q)) /\ Tail(q)[i - 1] = q[i])
<1> QED
      OBVIOUS

\* A handler runs that leaves the loop as it is: a signal's, that of an aborted
\* accept, or that of an accept which finds the acceptor closed.
LEMMA EndLoopStep ==
    ASSUME IInv, queue # <<>>, main = "up", queue' = Tail(queue),
           Head(queue).name \in {"accept", "signal"}, Live(Head(queue)) => ~open,
           UNCHANGED <<loop, main, gui, next_io_context, open, current, session, pending, overtaken>>
    PROVE  IInv'
<1>1. queue \in Seq(Queued) /\ open \in BOOLEAN
      BY DEF IInv, TypeOK
<1>2. /\ queue' \in Seq(Queued) /\ Head(queue) = queue[1]
      /\ \A i \in 1 .. Len(queue') : queue'[i] = queue[i + 1] /\ i + 1 \in 1 .. Len(queue)
      /\ \A i \in 1 .. Len(queue) : i = 1 \/ (i - 1 \in 1 .. Len(queue') /\ queue'[i - 1] = queue[i])
      BY <1>1, Tailed
<1>3. TypeOK'
      BY <1>2 DEF IInv, TypeOK
<1>4. Buttons'
      BY <1>1, TurnTaken DEF IInv, Buttons
<1>5. Listening'
      BY <1>2 DEF IInv, Listening, Live
<1>6. ~overtaken' => Sole'
  <2> SUFFICES ASSUME ~overtaken' PROVE Sole'
        OBVIOUS
  <2>1. Sole
        BY DEF IInv
  <2>2. pending' \subseteq {current'} /\ (pending' # {} => open')
        BY <2>1 DEF Sole
  <2>3. ASSUME NEW i \in 1 .. Len(queue'), Live(queue'[i])
        PROVE  /\ pending' = {} /\ queue'[i].session = current'
               /\ \A j \in 1 .. Len(queue') : Live(queue'[j]) => i = j
    <3>1. pending = {} /\ queue[i + 1].session = current
          BY <1>2, <2>1, <2>3 DEF Sole
    <3>2. ASSUME NEW j \in 1 .. Len(queue'), Live(queue'[j])
          PROVE  i = j
      <4>1. i + 1 = j + 1
            BY <1>2, <2>1, <2>3, <3>2 DEF Sole
      <4> QED
            BY <4>1
    <3> QED
          BY <1>2, <3>1, <3>2
  <2>4. open' => pending' # {} \/ \E i \in 1 .. Len(queue') : Live(queue'[i])
        BY <1>2, <2>1 DEF Sole
  <2> QED
        BY <2>2, <2>3, <2>4 DEF Sole, Live
<1>7. ~overtaken' => StartedOnce'
      BY <1>2 DEF IInv, StartedOnce, Live
<1> QED
      BY <1>3, <1>4, <1>5, <1>6, <1>7 DEF IInv

\* A handler runs that calls the loop again, having started the current session
\* or not: it was the only one.
LEMMA AgainStep ==
    ASSUME IInv, queue # <<>>, main = "up", queue' = Tail(queue), open, Live(Head(queue)),
           NEW starts \in BOOLEAN, Again(Head(queue), starts),
           UNCHANGED <<loop, main, gui, open, overtaken>>
    PROVE  IInv'
<1> DEFINE h == Head(queue)
           st == [session EXCEPT ![current].started = @ + 1]
           ss == IF h.ec = "ok" /\ starts THEN st ELSE session
<1>1. /\ queue \in Seq(Queued) /\ session \in Seq(Session) /\ Len(session) \in Nat
      /\ pending \subseteq 1 .. Len(session) /\ TypeOK
      BY LenProperties DEF IInv, TypeOK
<1>2. /\ queue' \in Seq(Queued) /\ h = queue[1] /\ 1 \in 1 .. Len(queue)
      /\ \A i \in 1 .. Len(queue') : queue'[i] = queue[i + 1] /\ i + 1 \in 1 .. Len(queue)
      /\ Len(queue') \in Nat
      BY <1>1, Tailed
<1>3. h.name = "accept" /\ current \in 1 .. Len(session) /\ current = Len(session)
      BY <1>1, <1>2 DEF TypeOK, Live
<1>4. /\ st \in Seq(Session) /\ Len(st) = Len(session)
      /\ \A s \in 1 .. Len(session) : s # current => st[s] = session[s]
      /\ st[current].started = session[current].started + 1
      /\ st[current].connected = session[current].connected
      BY <1>1, <1>3, SessionStarted
<1> HIDE DEF st
<1>5. /\ ss \in Seq(Session) /\ Len(ss) = Len(session) /\ pending \in SUBSET (1 .. Len(ss))
      /\ \A s \in 1 .. Len(session) : s # current => ss[s] = session[s]
      BY <1>1, <1>4
<1>6. do_accept(ss, pending)
      BY DEF Again, ss, st
<1> HIDE DEF ss, h
<1>7. /\ session' \in Seq(Session) /\ Len(session') = Len(session) + 1
      /\ \A s \in 1 .. Len(session) : session'[s] = ss[s]
      /\ session'[Len(session) + 1].started = 0
      /\ next_io_context' \in Nat /\ current' = Len(session) + 1
      /\ pending' = pending \cup {Len(session) + 1}
      BY <1>1, <1>5, <1>6, LoopCalled, Zenon
<1>8. TypeOK'
  <2>1. ASSUME NEW x \in pending'
        PROVE  x \in 1 .. Len(session')
    <3>1. x \in 1 .. Len(session) \/ x = Len(session) + 1
          BY <1>1, <1>7, Zenon
    <3> QED
          BY <1>1, <1>7, <3>1
  <2>2. \A i \in 1 .. Len(queue') :
            queue'[i].name = "accept" => queue'[i].session \in 1 .. Len(session')
        BY <1>1, <1>2, <1>7 DEF TypeOK
  <2> QED
        BY <1>1, <1>2, <1>7, <2>1, <2>2, Zenon DEF IInv, TypeOK
<1>9. Buttons'
      BY <1>1, <1>3, TurnTaken, Zenon DEF IInv, Buttons, h, TypeOK
<1>10. Listening'
      BY <1>2 DEF IInv, Listening, Live
<1>11. ~overtaken' => Sole' /\ StartedOnce'
  <2> SUFFICES ASSUME ~overtaken' PROVE Sole' /\ StartedOnce'
        OBVIOUS
  <2>1. Sole /\ StartedOnce /\ Live(h) /\ h.session = current
    <3>1. Sole /\ StartedOnce /\ Live(queue[1])
          BY <1>2 DEF IInv, h
    <3> QED
          BY <1>2, <3>1 DEF Sole
  <2>2. pending = {} /\ \A i \in 1 .. Len(queue) : Live(queue[i]) => i = 1
        BY <1>2, <2>1 DEF Sole
  <2>3. \A i \in 1 .. Len(queue') : ~Live(queue'[i])
        BY <1>2, <2>2
  <2>4. pending' = {current'}
        BY <1>7, <2>2
  <2>5. Sole'
        BY <2>3, <2>4 DEF Sole, Live
  <2>6. session[current].started = 0 /\ (h.ec = "ok" => session[current].connected)
        BY <1>2, <2>1 DEF StartedOnce
  <2>7. ss[current].started > 0 => ss[current].started = 1 /\ ss[current].connected
    <3>1. CASE h.ec = "ok" /\ starts
          BY <1>4, <2>6, <3>1 DEF ss
    <3>2. CASE ~(h.ec = "ok" /\ starts)
          BY <2>6, <3>2 DEF ss
    <3> QED
          BY <3>1, <3>2
  <2>8. ASSUME NEW s \in 1 .. Len(session'), session'[s].started > 0
        PROVE  session'[s].started = 1 /\ session'[s].connected
    <3>1. s \in 1 .. Len(session) /\ session'[s] = ss[s]
          BY <1>1, <1>7, <2>8
    <3>2. CASE s = current
          BY <2>7, <2>8, <3>1, <3>2
    <3>3. CASE s # current
          BY <1>5, <2>1, <2>8, <3>1, <3>3 DEF StartedOnce
    <3> QED
          BY <3>2, <3>3
  <2>9. StartedOnce'
        BY <1>7, <2>3, <2>4, <2>8 DEF StartedOnce, Live
  <2> QED
        BY <2>5, <2>9
<1> QED
      BY <1>8, <1>9, <1>10, <1>11 DEF IInv

\* start_accept, where bind succeeds: the acceptor was closed, and nothing is
\* left of the loop before unless the accept overtakes it.
LEMMA StartAcceptStep ==
    ASSUME IInv, queue # <<>>, main = "up", queue' = Tail(queue),
           Head(queue).name = "start_accept", open' = TRUE, do_accept(session, pending),
           overtaken' = (overtaken \/ \E i \in 1 .. Len(queue) :
                           queue[i].name = "accept" /\ queue[i].ec # "aborted"),
           UNCHANGED <<loop, main, gui>>
    PROVE  IInv'
<1>1. /\ queue \in Seq(Queued) /\ session \in Seq(Session) /\ Len(session) \in Nat
      /\ pending \in SUBSET (1 .. Len(session)) /\ TypeOK /\ open \in BOOLEAN
      BY LenProperties DEF IInv, TypeOK
<1>2. /\ queue' \in Seq(Queued) /\ Head(queue) = queue[1] /\ 1 \in 1 .. Len(queue)
      /\ \A i \in 1 .. Len(queue') : queue'[i] = queue[i + 1] /\ i + 1 \in 1 .. Len(queue)
      BY <1>1, Tailed
<1>3. loop = "client"
      BY <1>2 DEF IInv, Listening, Live
<1>4. TakeTurns(queue', open', gui) /\ ~open
      BY <1>1, <1>3, TurnTaken, Zenon DEF IInv, Buttons
<1>5. /\ session' \in Seq(Session) /\ Len(session') = Len(session) + 1
      /\ \A s \in 1 .. Len(session) : session'[s] = session[s]
      /\ session'[Len(session) + 1].started = 0
      /\ next_io_context' \in Nat /\ current' = Len(session) + 1
      /\ pending' = pending \cup {Len(session) + 1}
      BY <1>1, LoopCalled, Zenon
<1>6. TypeOK'
  <2>1. ASSUME NEW x \in pending'
        PROVE  x \in 1 .. Len(session')
    <3>1. x \in 1 .. Len(session) \/ x = Len(session) + 1
          BY <1>1, <1>5, Zenon
    <3> QED
          BY <1>1, <1>5, <3>1
  <2>2. \A i \in 1 .. Len(queue') :
            queue'[i].name = "accept" => queue'[i].session \in 1 .. Len(session')
        BY <1>1, <1>2, <1>5 DEF TypeOK
  <2>3. overtaken' \in BOOLEAN /\ open' \in BOOLEAN
        BY <1>1, Zenon
  <2> QED
        BY <1>1, <1>2, <1>5, <2>1, <2>2, <2>3, Zenon DEF TypeOK
<1>7. Buttons' /\ Listening'
      BY <1>3, <1>4, Zenon DEF Buttons, Listening
<1>8. ~overtaken' => Sole' /\ StartedOnce'
  <2> SUFFICES ASSUME ~overtaken' PROVE Sole' /\ StartedOnce'
        OBVIOUS
  <2>1. ~overtaken /\ \A i \in 1 .. Len(queue) : ~Live(queue[i])
        BY Zenon DEF Live
  <2>2. Sole /\ StartedOnce
        BY <2>1 DEF IInv
  <2>3. \A i \in 1 .. Len(queue') : ~Live(queue'[i])
        BY <1>2, <2>1
  <2>4. pending' = {current'}
        BY <1>4, <1>5, <2>2 DEF Sole
  <2>5. Sole'
        BY <2>3, <2>4 DEF Sole, Live
  <2>6. ASSUME NEW s \in 1 .. Len(session'), session'[s].started > 0
        PROVE  session'[s].started = 1 /\ session'[s].connected
    <3>1. s \in 1 .. Len(session) /\ session'[s] = session[s]
          BY <1>1, <1>5, <2>6
    <3> QED
          BY <2>2, <2>6, <3>1 DEF StartedOnce
  <2>7. StartedOnce'
        BY <1>5, <2>3, <2>4, <2>6 DEF StartedOnce, Live
  <2> QED
        BY <2>5, <2>7
<1> QED
      BY <1>6, <1>7, <1>8 DEF IInv

\* start_accept, where bind throws: the program is terminated.
LEMMA BindThrowsStep ==
    ASSUME IInv, queue # <<>>, main = "up", queue' = Tail(queue),
           Head(queue).name = "start_accept", main' = "terminated",
           UNCHANGED <<loop, gui, next_io_context, open, current, session, pending, overtaken>>
    PROVE  IInv'
<1>1. queue \in Seq(Queued) /\ open \in BOOLEAN
      BY DEF IInv, TypeOK
<1>2. /\ queue' \in Seq(Queued) /\ Head(queue) = queue[1] /\ 1 \in 1 .. Len(queue)
      /\ Len(queue') \in Nat
      /\ \A i \in 1 .. Len(queue') : queue'[i] = queue[i + 1] /\ i + 1 \in 1 .. Len(queue)
      BY <1>1, Tailed
<1>3. loop = "client"
      BY <1>2 DEF IInv, Listening, Live
<1>4. ~open
  <2>1. TakeTurns(Tail(queue), TRUE, gui) /\ ~open
        BY <1>1, <1>3, TurnTaken, Zenon DEF IInv, Buttons
  <2> QED
        BY <2>1
<1>5. TypeOK'
      BY <1>2 DEF IInv, TypeOK
<1>6. Buttons' /\ Listening'
      BY <1>3 DEF Buttons, Listening
<1>7. ~overtaken' => Sole'
  <2> SUFFICES ASSUME ~overtaken' PROVE Sole'
        OBVIOUS
  <2>1. Sole
        BY DEF IInv
  <2>2. ASSUME NEW i \in 1 .. Len(queue'), Live(queue'[i])
        PROVE  /\ pending' = {} /\ queue'[i].session = current'
               /\ \A j \in 1 .. Len(queue') : Live(queue'[j]) => i = j
    <3>1. pending = {} /\ queue[i + 1].session = current
          BY <1>2, <2>1, <2>2 DEF Sole
    <3>2. ASSUME NEW j \in 1 .. Len(queue'), Live(queue'[j])
          PROVE  i = j
      <4>1. i + 1 = j + 1
            BY <1>2, <2>1, <2>2, <3>2 DEF Sole
      <4> QED
            BY <4>1
    <3> QED
          BY <1>2, <3>1, <3>2
  <2> QED
        BY <1>4, <2>1, <2>2 DEF Sole, Live
<1>8. ~overtaken' => StartedOnce'
      BY <1>2 DEF IInv, StartedOnce, Live
<1> QED
      BY <1>5, <1>6, <1>7, <1>8 DEF IInv

\* stop_accept: the accept in progress is aborted, and one that has completed
\* already will find the acceptor closed.
LEMMA StopAcceptStep ==
    ASSUME IInv, queue # <<>>, main = "up", Head(queue).name = "stop_accept", on_stop_accept,
           UNCHANGED <<loop, gui>>
    PROVE  IInv'
<1> DEFINE q == Tail(queue)
<1>1. /\ queue \in Seq(Queued) /\ open \in BOOLEAN /\ TypeOK /\ <<>> \in Seq(Queued)
      BY DEF IInv, TypeOK
<1>2. /\ q \in Seq(Queued) /\ Head(queue) = queue[1] /\ 1 \in 1 .. Len(queue) /\ Len(q) \in Nat
      /\ \A i \in 1 .. Len(q) : q[i] = queue[i + 1] /\ i + 1 \in 1 .. Len(queue)
      BY <1>1, Tailed
<1>3. loop = "client"
      BY <1>2 DEF IInv, Listening, Live
<1>4. /\ open' = FALSE /\ (pending' = {} \/ (~open /\ pending' = pending))
      /\ UNCHANGED <<main, session, next_io_context, current, overtaken>>
      BY DEF on_stop_accept
<1>5. PICK r \in Seq(Queued) :
          /\ queue' = q \o r
          /\ \A i \in 1 .. Len(r) : /\ r[i].name = "accept" /\ ~Live(r[i])
                                    /\ r[i].session \in 1 .. Len(session)
  <2>1. CASE open
    <3>1. PICK begun \in [1 .. Cardinality(pending) -> pending] :
              queue' = q \o [i \in DOMAIN begun |-> Accepted(begun[i], "aborted")]
          BY <2>1, Zenon DEF on_stop_accept
    <3> QED
          BY <1>1, <3>1, AbortedIsQueued, Zenon
  <2>2. CASE ~open
    <3>1. queue' = q
          BY <2>2 DEF on_stop_accept
    <3> HIDE DEF q
    <3>2. queue' = q \o <<>> /\ \A i \in 1 .. Len(<<>>) : FALSE
          BY <1>2, <3>1, ConcatEmptySeq
    <3> QED
          BY <1>1, <3>2, Zenon
  <2> QED
        BY <2>1, <2>2, Zenon
<1>6. queue' = q \o r
      BY <1>5
<1>7. TakeTurns(q, open', gui)
      BY <1>1, <1>3, <1>4, TurnTaken, Zenon DEF IInv, Buttons
<1> HIDE DEF q
<1>8. /\ queue' \in Seq(Queued) /\ Len(queue') = Len(q) + Len(r) /\ Len(r) \in Nat
      /\ \A i \in 1 .. Len(queue') : queue'[i] = IF i <= Len(q) THEN q[i] ELSE r[i - Len(q)]
      BY <1>2, <1>5, <1>6, ConcatProperties, LenProperties
<1>9. \A i \in 1 .. Len(queue') :
          \/ i \in 1 .. Len(q) /\ queue'[i] = queue[i + 1] /\ i + 1 \in 1 .. Len(queue)
          \/ /\ queue'[i].name = "accept" /\ ~Live(queue'[i])
             /\ queue'[i].session \in 1 .. Len(session)
  <2> SUFFICES ASSUME NEW i \in 1 .. Len(queue')
               PROVE  \/ i \in 1 .. Len(q) /\ queue'[i] = queue[i + 1] /\ i + 1 \in 1 .. Len(queue)
                      \/ /\ queue'[i].name = "accept" /\ ~Live(queue'[i])
                         /\ queue'[i].session \in 1 .. Len(session)
        OBVIOUS
  <2>1. CASE i <= Len(q)
        BY <1>2, <1>8, <2>1
  <2>2. CASE i > Len(q)
    <3>1. i - Len(q) \in 1 .. Len(r) /\ queue'[i] = r[i - Len(q)]
          BY <1>2, <1>8, <2>2
    <3> QED
          BY <1>5, <3>1
  <2> QED
        BY <1>2, <2>1, <2>2
<1>10. TypeOK'
      BY <1>1, <1>4, <1>8, <1>9, Zenon DEF TypeOK
<1>11. Buttons' /\ Listening'
      BY <1>2, <1>3, <1>4, <1>5, <1>6, <1>7, TurnsAborted, Zenon DEF Buttons, Listening
<1>12. ~overtaken' => Sole'
  <2> SUFFICES ASSUME ~overtaken' PROVE Sole'
        OBVIOUS
  <2>1. Sole /\ pending' = {}
        BY <1>4 DEF IInv, Sole
  <2>2. ASSUME NEW i \in 1 .. Len(queue'), Live(queue'[i])
        PROVE  /\ queue'[i].session = current'
               /\ \A j \in 1 .. Len(queue') : Live(queue'[j]) => i = j
    <3>1. queue'[i] = queue[i + 1] /\ i + 1 \in 1 .. Len(queue)
          BY <1>9, <2>2
    <3>2. queue[i + 1].session = current
          BY <2>1, <2>2, <3>1 DEF Sole
    <3>3. ASSUME NEW j \in 1 .. Len(queue'), Live(queue'[j])
          PROVE  i = j
      <4>1. queue'[j] = queue[j + 1] /\ j + 1 \in 1 .. Len(queue)
            BY <1>9, <3>3
      <4>2. i + 1 = j + 1
            BY <2>1, <2>2, <3>1, <3>3, <4>1 DEF Sole
      <4> QED
            BY <4>2
    <3> QED
          BY <1>4, <3>1, <3>2, <3>3
  <2> QED
        BY <1>4, <2>1, <2>2 DEF Sole, Live
<1>13. ~overtaken' => StartedOnce'
  <2> SUFFICES ASSUME ~overtaken' PROVE StartedOnce'
        OBVIOUS
  <2>1. StartedOnce /\ pending' \subseteq pending
        BY <1>4 DEF IInv
  <2>2. \A i \in 1 .. Len(queue') : Live(queue'[i]) =>
            queue'[i] = queue[i + 1] /\ i + 1 \in 1 .. Len(queue)
        BY <1>9
  <2> QED
        BY <1>4, <2>1, <2>2 DEF StartedOnce, Live
<1> QED
      BY <1>10, <1>11, <1>12, <1>13 DEF IInv

LEMMA RunHandlerStep ==
    ASSUME IInv, RunHandler
    PROVE  IInv'
<1>1. main = "up" /\ queue # <<>> /\ UNCHANGED <<loop, gui>> /\ queue \in Seq(Queued)
      BY DEF RunHandler, IInv, TypeOK
<1>2. Head(queue) = queue[1] /\ 1 \in 1 .. Len(queue) /\ Head(queue) \in Queued
      BY <1>1, Tailed
<1>3. CASE Head(queue).name = "accept" /\ on_accept(Head(queue))
  <2>1. queue' = Tail(queue) /\ UNCHANGED <<main, open, overtaken>>
        BY <1>3 DEF on_accept
  <2>2. CASE EndLoop /\ (~open \/ Head(queue).ec = "aborted")
    <3>1. UNCHANGED <<session, next_io_context, current, pending>>
          BY <2>2 DEF EndLoop
    <3>2. Live(Head(queue)) => ~open
          BY <2>2 DEF Live
    <3> QED
          BY <1>1, <1>3, <2>1, <3>1, <3>2, EndLoopStep
  <2>3. CASE open /\ Live(Head(queue)) /\ \E starts \in BOOLEAN : Again(Head(queue), starts)
        BY <1>1, <2>1, <2>3, AgainStep
  <2>4. CASE loop # "client"
    <3>1. open /\ Live(Head(queue))
          BY <1>1, <1>2, <1>3, <2>4 DEF IInv, Listening, Live
    <3>2. \E starts \in BOOLEAN : Again(Head(queue), starts)
          BY <1>3, <2>4, <3>1 DEF on_accept, on_do_accept, on_do_websocket_accept, Live
    <3> QED
          BY <2>3, <3>1, <3>2
  <2>5. CASE loop = "client"
    <3>1. on_do_accept_tls(Head(queue))
          BY <1>3, <2>5 DEF on_accept
    <3> QED
          BY <1>3, <2>2, <2>3, <3>1, Zenon DEF on_do_accept_tls, Live
  <2> QED
        BY <2>4, <2>5
<1>4. CASE Head(queue).name = "start_accept" /\ on_start_accept
  <2>1. CASE main' = "terminated" /\ EndLoop /\ UNCHANGED <<open, overtaken>>
    <3>1. queue' = Tail(queue) /\ UNCHANGED <<session, next_io_context, current, pending>>
          BY <1>4, <2>1 DEF on_start_accept, EndLoop
    <3> QED
          BY <1>1, <1>4, <2>1, <3>1, BindThrowsStep
  <2>2. CASE ~(main' = "terminated" /\ EndLoop /\ UNCHANGED <<open, overtaken>>)
    <3>1. /\ queue' = Tail(queue) /\ open' = TRUE /\ do_accept(session, pending)
          /\ overtaken' = (overtaken \/ \E i \in 1 .. Len(queue) :
                             queue[i].name = "accept" /\ queue[i].ec # "aborted")
          /\ UNCHANGED main
          BY <1>4, <2>2, Zenon DEF on_start_accept
    <3> QED
          BY <1>1, <1>4, <3>1, StartAcceptStep, Zenon
  <2> QED
        BY <2>1, <2>2
<1>5. CASE Head(queue).name = "stop_accept" /\ on_stop_accept
      BY <1>1, <1>5, StopAcceptStep
<1>6. CASE Head(queue).name = "signal" /\ on_signal
  <2>1. /\ queue' = Tail(queue)
        /\ UNCHANGED <<main, open, overtaken, session, next_io_context, current, pending>>
        BY <1>6 DEF on_signal, EndLoop
  <2>2. ~Live(Head(queue))
        BY <1>6 DEF Live
  <2> QED
        BY <1>1, <1>6, <2>1, <2>2, EndLoopStep
<1> QED
      BY <1>3, <1>4, <1>5, <1>6 DEF RunHandler

-----------------------------------------------------------------------------
\* The theorems.

LEMMA InitIInv ==
    ASSUME Init
    PROVE  IInv
<1>1. /\ main = "up" /\ gui = "DISCONNECTED" /\ queue = <<>> /\ overtaken = FALSE
      /\ loop \in {"tls", "ws", "client"}
      BY LoopsAssumption DEF Init
<1>2. Len(queue) = 0 /\ queue \in Seq(Queued) /\ \A i \in 1 .. Len(queue) : FALSE
      BY <1>1
<1>3. CASE loop = "client"
  <2>1. open = FALSE /\ current = 0 /\ session = <<>> /\ pending = {} /\ next_io_context = 0
        BY <1>3 DEF Init
  <2>2. session \in Seq(Session) /\ Len(session) = 0
        BY <2>1
  <2>3. TypeOK
        BY <1>1, <1>2, <2>1, <2>2, Zenon DEF TypeOK
  <2>4. Buttons
    <3> DEFINE f == [i \in 0 .. 0 |-> 0]
    <3>1. f \in [0 .. Len(queue) -> {0, 1}] /\ f[0] = 0 /\ Len(queue) = 0
          BY <1>2
    <3> HIDE DEF f
    <3> QED
          BY <1>1, <1>2, <2>1, <3>1 DEF Buttons, TakeTurns, Door
  <2>5. Listening /\ Sole /\ StartedOnce
        BY <1>2, <1>3, <2>1, <2>2 DEF Listening, Sole, StartedOnce
  <2> QED
        BY <2>3, <2>4, <2>5 DEF IInv
<1>4. CASE loop # "client"
  <2> DEFINE m == Made(Context(1))
  <2>1. open = TRUE /\ current = 1 /\ pending = {1} /\ session = <<m>> /\ next_io_context \in {2, 3}
        BY <1>4 DEF Init
  <2>2. m \in Session /\ m.started = 0
        BY ContextOfPool DEF Made, Session
  <2> HIDE DEF m
  <2>3. session \in Seq(Session) /\ Len(session) = 1 /\ session[1].started = 0
        BY <2>1, <2>2
  <2>4. TypeOK
    <3>1. pending \subseteq 1 .. Len(session) /\ current = Len(session) /\ next_io_context \in Nat
          BY <2>1, <2>3
    <3>2. open \in BOOLEAN /\ overtaken \in BOOLEAN
          BY <1>1, <2>1, Zenon
    <3> QED
          BY <1>1, <1>2, <2>3, <3>1, <3>2 DEF TypeOK
  <2>5. Buttons /\ Listening
        BY <1>1, <1>2, <1>4, <2>1, Zenon DEF Buttons, Listening
  <2>6. Sole
        BY <1>2, <2>1 DEF Sole
  <2>7. StartedOnce
        BY <1>2, <2>1, <2>3 DEF StartedOnce
  <2> QED
        BY <2>4, <2>5, <2>6, <2>7 DEF IInv
<1> QED
      BY <1>3, <1>4

LEMMA NextIInv ==
    ASSUME IInv, [Next]_vars
    PROVE  IInv'
<1>1. CASE Peer
      BY <1>1, LoopUntouched DEF Peer
<1>2. CASE Signal
      BY <1>2, SignalStep
<1>3. CASE RunHandler
      BY <1>3, RunHandlerStep
<1>4. CASE Join
      BY <1>4, JoinStep
<1>5. ASSUME NEW s \in pending, AcceptCompletes(s) \/ AcceptFails(s)
      PROVE  IInv'
      BY <1>5, CompletionStep
<1>6. ASSUME NEW s \in 1 .. Len(session), RunSession(s)
      PROVE  IInv'
      BY <1>6, RunSessionStep
<1>7. ASSUME NEW c \in Contexts, SpawnThread(c) \/ RunReturns(c)
      PROVE  IInv'
      BY <1>7, LoopUntouched DEF SpawnThread, RunReturns
<1>8. CASE onConnect \/ onDisconnect
      BY <1>8, ButtonStep
<1>9. CASE onQuit
      BY <1>9, QuitStep
<1>10. CASE UNCHANGED vars
      BY <1>10, LoopUntouched DEF vars
<1> QED
      BY <1>1, <1>2, <1>3, <1>4, <1>5, <1>6, <1>7, <1>8, <1>9, <1>10 DEF Next

\* The inductive invariant of the accept loops.
THEOREM SpecIInv == Spec => []IInv
<1>1. Init => IInv
      BY InitIInv
<1>2. IInv /\ [Next]_vars => IInv'
      BY NextIInv
<1> QED
      BY <1>1, <1>2, PTL DEF Spec

\* Whatever peers, errors and clicks do, a loop whose acceptor is open has one
\* accept outstanding, for the session it holds, and starts each session once
\* at most and with a connection (do_accept, do_websocket_accept, do_accept_tls),
\* but for a connect that overtakes a handler.
THEOREM SpecOneAccept == Spec => []OneAccept
<1>1. IInv => OneAccept
  <2> SUFFICES ASSUME IInv, ~overtaken
               PROVE  /\ open => Outstanding = {current}
                      /\ \A s \in 1 .. Len(session) :
                           session[s].started <= (IF session[s].connected THEN 1 ELSE 0)
        BY DEF OneAccept
  <2>1. Sole /\ StartedOnce
        BY DEF IInv
  <2>2. ASSUME open PROVE Outstanding = {current}
    <3>1. Outstanding = pending \cup
              {queue[i].session : i \in {j \in 1 .. Len(queue) : Live(queue[j])}}
          BY DEF Outstanding, Live
    <3>2. CASE pending # {}
      <4>1. \A i \in 1 .. Len(queue) : ~Live(queue[i])
            BY <2>1, <3>2 DEF Sole
      <4>2. pending = {current}
            BY <2>1, <3>2 DEF Sole
      <4> QED
            BY <3>1, <4>1, <4>2
    <3>3. CASE pending = {}
      <4>1. PICK i \in 1 .. Len(queue) : Live(queue[i])
            BY <2>1, <2>2, <3>3 DEF Sole
      <4>2. {j \in 1 .. Len(queue) : Live(queue[j])} = {i} /\ queue[i].session = current
            BY <2>1, <4>1 DEF Sole
      <4> QED
            BY <3>1, <3>3, <4>2
    <3> QED
          BY <3>2, <3>3
  <2>3. ASSUME NEW s \in 1 .. Len(session)
        PROVE  session[s].started <= (IF session[s].connected THEN 1 ELSE 0)
    <3>1. session[s] \in Session
          BY DEF IInv, TypeOK
    <3>2. session[s].started \in Nat
          BY <3>1 DEF Session
    <3>3. session[s].started > 0 => session[s].started = 1 /\ session[s].connected
          BY <2>1 DEF StartedOnce
    <3> QED
          BY <3>2, <3>3
  <2> QED
        BY <2>2, <2>3
<1> QED
      BY <1>1, SpecIInv, PTL

\* The server's loops need no such exception: they listen as long as the program
\* is up, always with the one accept.
ServerListens ==
    loop # "client" => ~overtaken /\ (main = "up" => open /\ Outstanding = {current})

\* From the moment Service is constructed until main returns, each acceptor of
\* the server is open and has one accept, into the session its handler will start.
THEOREM SpecServerListens == Spec => []ServerListens
<1>1. IInv /\ OneAccept => ServerListens
      BY DEF IInv, Listening, OneAccept, ServerListens
<1> QED
      BY <1>1, SpecIInv, SpecOneAccept, PTL

=============================================================================
