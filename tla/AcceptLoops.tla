----------------------------- MODULE AcceptLoops -----------------------------
(***************************************************************************)
(* From start to exit of the two programs: the server (Server/Service.cpp  *)
(* on Shared/IoContextPool.cpp), with its TLS or its WebSocket accept      *)
(* loop, and the client (Client/Server.cpp under Client/main.cpp and the   *)
(* window's buttons).  In all three loops one asynchronous accept is       *)
(* outstanding and its handler starts the session and calls the loop       *)
(* again; they differ in what ends them.                                   *)
(*                                                                         *)
(* Sessions are numbered in the order they are made, and an accept is the  *)
(* number of the session whose socket it fills.  queue holds the handlers  *)
(* that context 0 has still to run: completed accepts, the functions that  *)
(* the GUI thread posts, and the signal.                                   *)
(***************************************************************************)
EXTENDS Integers, Sequences, FiniteSets

CONSTANTS
    Loop,          \* the loops looked at: "tls", "ws", "client"
    NContexts,     \* the server's io_contexts
    MaxPeers,      \* bound: connections that peers make
    MaxErrors,     \* bound: accepts that fail
    MaxConnects    \* bound: clicks on the connect button

ASSUME LoopsAssumption ==
    /\ Loop \subseteq {"tls", "ws", "client"} /\ NContexts \in Nat \ {0}
    /\ MaxPeers \in Nat /\ MaxErrors \in Nat /\ MaxConnects \in Nat

VARIABLES
    loop,          \* which program this is
    main,          \* "up", "gone" or, after an exception in a handler, "terminated"
    thread,        \* the thread of each context: "none", "run", "exit"
    stopped,       \* the contexts that stop() was called on
    gui,           \* the client's window: "DISCONNECTED", "CONNECTED", "closed"
    signal,        \* "none" or "raised"
    next_io_context,
    open,          \* acceptor_.is_open()
    current,       \* new_connection_, websocket_connection_ or tls_session_; 0 for null
    session,       \* the sessions made, in order
    pending,       \* the accepts in progress
    queue,
    backlog, peers, errors, connects,
    overtaken      \* history: the acceptor was opened again before the
                   \* handler of an accept that had completed on the old one ran

vars == <<loop, main, thread, stopped, gui, signal, next_io_context, open, current,
          session, pending, queue, backlog, peers, errors, connects, overtaken>>

Contexts == IF loop = "client" THEN {0} ELSE 0 .. NContexts - 1

\* get_io_context, the n-th call of it.
Context(n) == n % Cardinality(Contexts)

Made(c) == [context |-> c, connected |-> FALSE, started |-> 0, served |-> FALSE]

Post(h) == queue' = Append(queue, h)

Handler(name) == [name |-> name]
Accepted(s, ec) == [name |-> "accept", session |-> s, ec |-> ec]

\* The server's constructor has added the signals, opened the acceptor and
\* called its loop, and may have given a context to the DTLS listener; the
\* client's has opened nothing.
Init ==
    /\ loop \in Loop
    /\ main = "up" /\ gui = "DISCONNECTED" /\ signal = "none"
    /\ thread = [c \in 0 .. NContexts - 1 |-> "none"] /\ stopped = {}
    /\ queue = <<>> /\ backlog = 0 /\ peers = 0 /\ errors = 0 /\ connects = 0
    /\ overtaken = FALSE
    /\ IF loop = "client"
         THEN /\ open = FALSE /\ current = 0 /\ session = <<>> /\ pending = {}
              /\ next_io_context = 0
         ELSE /\ open = TRUE /\ current = 1 /\ pending = {1}
              /\ session = <<Made(Context(1))>>
              /\ next_io_context \in {2, 3}

-----------------------------------------------------------------------------
\* The peers and the operating system.

Peer ==
    /\ open /\ peers < MaxPeers /\ main = "up"
    /\ peers' = peers + 1 /\ backlog' = backlog + 1
    /\ UNCHANGED <<loop, main, thread, stopped, gui, signal, next_io_context, open,
                   current, session, pending, queue, errors, connects, overtaken>>

AcceptCompletes(s) ==
    /\ s \in pending /\ backlog > 0 /\ main = "up"
    /\ backlog' = backlog - 1
    /\ pending' = pending \ {s}
    /\ session' = [session EXCEPT ![s].connected = TRUE]
    /\ Post(Accepted(s, "ok"))
    /\ UNCHANGED <<loop, main, thread, stopped, gui, signal, next_io_context, open,
                   current, peers, errors, connects, overtaken>>

AcceptFails(s) ==
    /\ s \in pending /\ errors < MaxErrors /\ main = "up"
    /\ errors' = errors + 1
    /\ pending' = pending \ {s}
    /\ Post(Accepted(s, "failed"))
    /\ UNCHANGED <<loop, main, thread, stopped, gui, signal, next_io_context, open,
                   current, session, backlog, peers, connects, overtaken>>

\* SIGINT, SIGTERM or SIGQUIT; a second one finds no handler waiting.
Signal ==
    /\ loop # "client" /\ signal = "none" /\ main = "up"
    /\ signal' = "raised" /\ Post(Handler("signal"))
    /\ UNCHANGED <<loop, main, thread, stopped, gui, next_io_context, open, current,
                   session, pending, backlog, peers, errors, connects, overtaken>>

-----------------------------------------------------------------------------
\* The handlers, each run by the thread of context 0.

\* do_accept, do_websocket_accept, do_accept_tls and do_accept_ws.
do_accept(sessions, accepts) ==
    LET s == Len(sessions) + 1
    IN  /\ session' = Append(sessions, Made(Context(next_io_context)))
        /\ next_io_context' = next_io_context + 1
        /\ current' = s
        /\ pending' = accepts \cup {s}

EndLoop == UNCHANGED <<session, next_io_context, current, pending>>

\* The handler of an accept that is not the loop's last starts whatever session
\* the loop holds now, not the one whose socket was accepted into.
Again(h, starts) ==
    do_accept(IF h.ec = "ok" /\ starts THEN [session EXCEPT ![current].started = @ + 1]
                                       ELSE session, pending)

\* Mutant: a failed accept ends the loop like a cancelled one.
on_do_accept_once(h) ==
    IF ~open \/ h.ec # "ok" THEN EndLoop ELSE Again(h, TRUE)

\* The server's TLS loop; remote_endpoint fails when the peer has gone already.
on_do_accept(h) ==
    IF ~open \/ h.ec = "aborted" THEN EndLoop ELSE \E starts \in BOOLEAN : Again(h, starts)

\* The server's WebSocket loop looks neither at the acceptor nor for a cancel.
on_do_websocket_accept(h) == \E starts \in BOOLEAN : Again(h, starts)

\* The client's loops, TLS and WebSocket alike, start the session in any case.
on_do_accept_tls(h) ==
    IF ~open \/ h.ec = "aborted" THEN EndLoop ELSE Again(h, TRUE)

on_accept(h) ==
    /\ queue' = Tail(queue)
    /\ \/ loop = "tls" /\ on_do_accept(h)
       \/ loop = "ws" /\ on_do_websocket_accept(h)
       \/ loop = "client" /\ on_do_accept_tls(h)
    /\ UNCHANGED <<main, stopped, open, backlog, overtaken>>

\* bind throws where another program has the port; nothing catches it.
on_start_accept ==
    /\ queue' = Tail(queue)
    /\ \/ /\ open' = TRUE
          /\ do_accept(session, pending)
          /\ overtaken' = (overtaken \/ \E i \in 1 .. Len(queue) :
                             queue[i].name = "accept" /\ queue[i].ec # "aborted")
          /\ UNCHANGED main
       \/ main' = "terminated" /\ EndLoop /\ UNCHANGED <<open, overtaken>>
    /\ UNCHANGED <<stopped, backlog>>

\* cancel and close: every accept in progress completes as aborted, in the order
\* they were begun, and the connections nobody accepted are reset.
on_stop_accept ==
    /\ open' = FALSE
    /\ IF open
         THEN /\ \E begun \in [1 .. Cardinality(pending) -> pending] :
                    /\ \A i, j \in DOMAIN begun : i < j => begun[i] < begun[j]
                    /\ queue' = Tail(queue) \o
                                  [i \in DOMAIN begun |-> Accepted(begun[i], "aborted")]
              /\ pending' = {} /\ backlog' = 0
         ELSE queue' = Tail(queue) /\ UNCHANGED <<pending, backlog>>
    /\ UNCHANGED <<main, stopped, session, next_io_context, current, overtaken>>


\* Mutant: only the contexts whose thread runs are stopped.
on_signal_running ==
    /\ queue' = Tail(queue)
    /\ stopped' = {c \in Contexts : thread[c] = "run"}
    /\ EndLoop
    /\ UNCHANGED <<main, open, backlog, overtaken>>

on_signal ==
    /\ queue' = Tail(queue)
    /\ stopped' = Contexts
    /\ EndLoop
    /\ UNCHANGED <<main, open, backlog, overtaken>>

\* One turn of io_context::run on context 0.
RunHandler ==
    /\ thread[0] = "run" /\ 0 \notin stopped /\ main = "up" /\ queue # <<>>
    /\ \/ Head(queue).name = "accept" /\ on_accept(Head(queue))
       \/ Head(queue).name = "start_accept" /\ on_start_accept
       \/ Head(queue).name = "stop_accept" /\ on_stop_accept
       \/ Head(queue).name = "signal" /\ on_signal
    /\ UNCHANGED <<loop, thread, gui, signal, peers, errors, connects>>

\* start() is called by context 0's thread; what it begins is completed by the
\* thread of the session's own context.
RunSession(s) ==
    /\ main = "up" /\ session[s].started > 0 /\ ~session[s].served
    /\ thread[session[s].context] = "run" /\ session[s].context \notin stopped
    /\ session' = [session EXCEPT ![s].served = TRUE]
    /\ UNCHANGED <<loop, main, thread, stopped, gui, signal, next_io_context, open,
                   current, pending, queue, backlog, peers, errors, connects, overtaken>>

-----------------------------------------------------------------------------

\* Mutant: the thread that calls run is counted as the first one.
SpawnThread_less(c) ==
    /\ main = "up" /\ c \in Contexts /\ c + 1 \in Contexts \cup {1}
    /\ thread[c] = "none" /\ \A d \in Contexts : d < c => thread[d] # "none"
    /\ thread' = [thread EXCEPT ![c] = "run"]
    /\ UNCHANGED <<loop, main, stopped, gui, signal, next_io_context, open, current,
                   session, pending, queue, backlog, peers, errors, connects, overtaken>>

\* The main thread.  IoContextPool::run starts the threads in order and joins
\* them; the client's main starts its one thread and then runs the window.
SpawnThread(c) ==
    /\ main = "up" /\ c \in Contexts
    /\ thread[c] = "none" /\ \A d \in Contexts : d < c => thread[d] # "none"
    /\ thread' = [thread EXCEPT ![c] = "run"]
    /\ UNCHANGED <<loop, main, stopped, gui, signal, next_io_context, open, current,
                   session, pending, queue, backlog, peers, errors, connects, overtaken>>

\* run() returns on a stopped context, also when stop() came first.
RunReturns(c) ==
    /\ main = "up" /\ thread[c] = "run" /\ c \in stopped
    /\ thread' = [thread EXCEPT ![c] = "exit"]
    /\ UNCHANGED <<loop, main, stopped, gui, signal, next_io_context, open, current,
                   session, pending, queue, backlog, peers, errors, connects, overtaken>>

\* All joined: the Service, or the Server, is destroyed with its handlers.
Join ==
    /\ main = "up" /\ \A c \in Contexts : thread[c] = "exit"
    /\ loop = "client" => gui = "closed"
    /\ main' = "gone" /\ open' = FALSE /\ current' = 0
    /\ pending' = {} /\ queue' = <<>> /\ backlog' = 0
    /\ UNCHANGED <<loop, thread, stopped, gui, signal, next_io_context, session,
                   peers, errors, connects, overtaken>>

\* The buttons, of which one is enabled at a time.
Window == loop = "client" /\ main = "up" /\ thread[0] # "none"

onConnect ==
    /\ Window /\ gui = "DISCONNECTED" /\ connects < MaxConnects
    /\ gui' = "CONNECTED" /\ connects' = connects + 1
    /\ Post(Handler("start_accept"))
    /\ UNCHANGED <<loop, main, thread, stopped, signal, next_io_context, open, current,
                   session, pending, backlog, peers, errors, overtaken>>

onDisconnect ==
    /\ Window /\ gui = "CONNECTED"
    /\ gui' = "DISCONNECTED"
    /\ Post(Handler("stop_accept"))
    /\ UNCHANGED <<loop, main, thread, stopped, signal, next_io_context, open, current,
                   session, pending, backlog, peers, errors, connects, overtaken>>

\* onQuit, after which main calls Server::stop.
onQuit ==
    /\ Window /\ gui # "closed"
    /\ gui' = "closed" /\ stopped' = Contexts
    /\ UNCHANGED <<loop, main, thread, signal, next_io_context, open, current,
                   session, pending, queue, backlog, peers, errors, connects, overtaken>>

-----------------------------------------------------------------------------

Next ==
    \/ Peer \/ Signal \/ RunHandler \/ Join
    \/ \E s \in pending : AcceptCompletes(s) \/ AcceptFails(s)
    \/ \E s \in 1 .. Len(session) : RunSession(s)
    \/ \E c \in Contexts : SpawnThread(c) \/ RunReturns(c)
    \/ onConnect \/ onDisconnect \/ onQuit

\* Threads run; peers, users and signals do as they like.  An accept with a
\* connection to take completes.
Fairness ==
    /\ WF_vars(RunHandler) /\ WF_vars(Join)
    /\ WF_vars(\E c \in Contexts : SpawnThread(c))
    /\ WF_vars(\E c \in Contexts : RunReturns(c))
    /\ WF_vars(\E s \in pending : AcceptCompletes(s))
    /\ WF_vars(\E s \in 1 .. Len(session) : RunSession(s))

Spec == Init /\ [][Next]_vars /\ Fairness

-----------------------------------------------------------------------------
\* Properties.

\* The accepts in progress and those whose handler has still to run.
Outstanding ==
    pending \cup {queue[i].session : i \in
                    {j \in 1 .. Len(queue) : /\ queue[j].name = "accept"
                                             /\ queue[j].ec # "aborted"}}

\* While the acceptor is open the loop is neither dead nor doubled: there is
\* one outstanding accept, and it fills the socket of the session that its
\* handler is going to start.  So no session is started twice, and none without
\* a connection.  Any number of failed accepts, and disconnecting and connecting
\* again, keep this, but for a connect that overtakes the handler of an accept
\* completed before the disconnect.
OneAccept ==
    ~overtaken =>
        /\ open => Outstanding = {current}
        /\ \A s \in 1 .. Len(session) :
             session[s].started <= (IF session[s].connected THEN 1 ELSE 0)

Ending == stopped # {} \/ main # "up"

\* A connection that waits at the listening socket does not wait for ever, and
\* a session that is started, on whichever context its turn gave it and with
\* that context's thread running yet or not, has its handlers run; unless the
\* acceptor is closed or the program ends.
PeersAreServed ==
    /\ backlog > 0 ~> backlog = 0 \/ Ending
    /\ (\E s \in 1 .. Len(session) : session[s].started > 0 /\ ~session[s].served)
         ~> Ending \/ \A s \in 1 .. Len(session) : session[s].started > 0 => session[s].served

Asked == signal = "raised" \/ gui = "closed"

\* A signal ends the server and Quit ends the client, at whatever point they
\* come: also before the threads run, while some of them are still being
\* started, and with handlers queued in front of the signal's.
ShutdownCompletes == Asked ~> main # "up"
=============================================================================
