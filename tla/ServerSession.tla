---------------------------- MODULE ServerSession ----------------------------
(***************************************************************************)
(* One server session of Server/Session.cpp with its two transports,       *)
(* TlsSession and WebsocketSession: the handshake, the request, resolving  *)
(* and connecting, and the two-way TCP relay through the ring buffers.     *)
(*                                                                         *)
(* A session lives on one io_context that one thread runs, so its handlers *)
(* never overlap.  But an operation completes when the kernel says so, and *)
(* its handler runs later: a completion that is already queued when        *)
(* another handler calls destroy() still reports success.  The environment *)
(* therefore completes operations (rd and sd become "done" or "failed") in *)
(* steps of its own, and the handlers are separate steps.                  *)
(*                                                                         *)
(* During set-up exactly one operation is outstanding and nothing else can *)
(* run, so there a completion and its handler are one step.                *)
(***************************************************************************)
EXTENDS SessionBuffer, Sequences

CONSTANTS
    MaxRead,    \* MAX_BUFF_SIZE, the size of in_buf and out_buf
    Transport,  \* "tls" or "ws": the class of the session
    MaxStream   \* bound: bytes a peer sends in one direction

ASSUME SessionAssumption ==
    /\ MaxRead \in 1 .. Capacity
    /\ Transport \in {"tls", "ws"}
    /\ MaxStream \in Nat

VARIABLES
    state,      \* state_
    step,       \* the operation the set-up chain waits for, then "relay" or "udp"
    pipe        \* the relay state of each direction

vars == <<state, step, pipe>>

Direction == {"down", "up"}   \* DIR_DOWN: client to target, DIR_UP: back

SetUp == {"handshake", "accept", "request", "resolve", "connect", "payload"}

\* An asynchronous operation: not started, started, completed with success or
\* with an error and its handler not yet run.  "overlap": started a second
\* time on the same socket, which the code must never do.
Op == {"none", "pending", "done", "failed", "overlap"}

Pipe ==
    [ring : Ring, sending : BOOLEAN, pausing : BOOLEAN,
     rd : Op, rlen : Nat,               \* the read, and the bytes it returned
     sd : Op, pos : Nat, len : Nat,     \* the send and the region peek() gave it
     sent : Nat,                        \* its bytes_sent
     got : Nat,                         \* bytes taken from the source so far
     out : Seq(Nat)]                    \* bytes the destination has accepted

IdlePipe ==
    [ring |-> EmptyRing, sending |-> FALSE, pausing |-> FALSE,
     rd |-> "none", rlen |-> 0, sd |-> "none", pos |-> 0, len |-> 0,
     sent |-> 0, got |-> 0, out |-> <<>>]

Open == state # "DESTROY"

\* The n bytes first, first + 1, ... of a stream.
Bytes(first, n) == [i \in 1 .. n |-> first + i - 1]

-----------------------------------------------------------------------------
\* The relay code, as functions of one direction's state.

\* Starting an operation: on a closed socket it completes with an error.
Start(op) == IF op # "none" THEN "overlap" ELSE IF Open THEN "pending" ELSE "failed"

async_bidirectional_read(p) == [p EXCEPT !.rd = Start(@)]

\* Mutant: a paused read is not resumed.
do_send_forgets(p) ==
    IF Empty(p.ring)
      THEN [p EXCEPT !.sending = FALSE]
      ELSE [p EXCEPT !.sd = Start(@), !.pos = p.ring.read_pos, !.len = PeekLen(p.ring)]

\* do_send_down and do_send_up.  peek() is taken here; the bytes themselves
\* are read from the ring when the socket takes them.
do_send(p) ==
    IF Empty(p.ring)
      THEN IF p.pausing
             THEN async_bidirectional_read([p EXCEPT !.sending = FALSE, !.pausing = FALSE])
             ELSE [p EXCEPT !.sending = FALSE]
      ELSE [p EXCEPT !.sd = Start(@), !.pos = p.ring.read_pos, !.len = PeekLen(p.ring)]

\* in_buf (or out_buf) holds the last rlen bytes taken from the source.
enqueue_write(p) ==
    LET q == [p EXCEPT !.ring = PutBytes(@, p.got - p.rlen + 1, p.rlen), !.rlen = 0]
    IN  IF q.sending THEN q ELSE do_send([q EXCEPT !.sending = TRUE])

\* Mutant: reading goes on whatever the ring holds.
async_bidirectional_write_unpaused(p) == async_bidirectional_read(enqueue_write(p))

\* Mutant: reading goes on and is to be resumed as well.
async_bidirectional_write_both(p) ==
    LET q == enqueue_write(p)
    IN  [async_bidirectional_read(q) EXCEPT !.pausing = ~HasSpace(q.ring, MaxRead)]

async_bidirectional_write(p) ==
    LET q == enqueue_write(p)
    IN  IF HasSpace(q.ring, MaxRead)
          THEN async_bidirectional_read(q)
          ELSE [q EXCEPT !.pausing = TRUE]

\* Closing the sockets aborts what is pending, not what has completed.
Abort(op) == IF op = "pending" THEN "failed" ELSE op

\* Mutant: the sockets are not closed.
destroy_pipe_open(p) == [p EXCEPT !.ring = Reset(@), !.sending = FALSE, !.pausing = FALSE]

destroy_pipe(p) ==
    [p EXCEPT !.ring = Reset(@), !.sending = FALSE, !.pausing = FALSE,
              !.rd = Abort(@), !.sd = Abort(@)]

\* TlsSession::destroy and WebsocketSession::destroy with the base class's, for
\* the directions as the calling handler leaves them.
destroy(ps) ==
    IF Open
      THEN state' = "DESTROY" /\ pipe' = [d \in Direction |-> destroy_pipe(ps[d])]
      ELSE state' = state /\ pipe' = ps

-----------------------------------------------------------------------------
Init ==
    /\ state = "HANDSHAKE"
    /\ step = "handshake"
    /\ pipe = [d \in Direction |-> IdlePipe]

\* The chain of set-up operations: any of them may fail, and the session ends.
Fail == destroy(pipe) /\ UNCHANGED step

\* start(): the TLS handshake; a WebSocket session then accepts the upgrade.
OnHandshake ==
    /\ Open /\ step = "handshake"
    /\ \/ step' = (IF Transport = "ws" THEN "accept" ELSE "request") /\ UNCHANGED <<state, pipe>>
       \/ Fail

OnAccept ==
    /\ Open /\ step = "accept"
    /\ \/ step' = "request" /\ UNCHANGED <<state, pipe>>
       \/ Fail

\* do_connect sets FORWARD before the connection is there.  do_resolve calls
\* it at once when the DNS cache answers.
do_connect == state' = "FORWARD" /\ step' = "connect"

do_resolve ==
    \/ do_connect
    \/ step' = "resolve" /\ UNCHANGED state

\* handle_custom_protocol.  The one read returns a request that parses or not,
\* with an allowed password or not, for a TCP target or for UDP_ASSOCIATE
\* (which module TrojanUdp takes over), and the payload bytes that follow it.
handle_custom_protocol ==
    /\ Open /\ step = "request"
    /\ \/ \E payload \in 0 .. MaxRead :
            /\ payload <= MaxStream
            /\ do_resolve
            /\ pipe' = [pipe EXCEPT !["down"].got = payload]
       \/ state' = "FORWARD" /\ step' = "udp" /\ UNCHANGED pipe
       \/ Fail

OnResolve ==
    /\ Open /\ step = "resolve"
    /\ \/ do_connect /\ UNCHANGED pipe
       \/ Fail

\* async_bidirectional_read(DIR_BOTH) on the directions ps.
StartRelay(ps) ==
    /\ step' = "relay"
    /\ pipe' = [d \in Direction |-> async_bidirectional_read(ps[d])]
    /\ UNCHANGED state

OnConnect ==
    /\ Open /\ step = "connect"
    /\ \/ pipe["down"].got = 0 /\ StartRelay(pipe)
       \/ pipe["down"].got > 0 /\ step' = "payload" /\ UNCHANGED <<state, pipe>>
       \/ Fail

\* The bytes that came with the request are written whole, before any read.  A
\* write that fails may have sent some of them.
OnPayload ==
    /\ Open /\ step = "payload"
    /\ LET after(n) == [pipe EXCEPT !["down"].out = Bytes(1, n)]
       IN  \/ StartRelay(after(pipe["down"].got))
           \/ \E n \in 0 .. (pipe["down"].got - 1) : destroy(after(n)) /\ UNCHANGED step

-----------------------------------------------------------------------------
\* The environment: peers and kernel complete the outstanding operations.

\* A successful read returns at least one byte, except that a WebSocket read
\* may return an empty frame.
LeastRead(d) == IF Transport = "ws" /\ d = "down" THEN 0 ELSE 1

\* A WebSocket write takes the whole buffer, a socket or TLS write a part of it.
WholeWrite(d) == Transport = "ws" /\ d = "up"

Put(d, p) == pipe' = [pipe EXCEPT ![d] = p] /\ UNCHANGED <<state, step>>

Arrive(d) ==
    /\ pipe[d].rd = "pending"
    /\ \E n \in LeastRead(d) .. MaxRead :
          /\ pipe[d].got + n <= MaxStream
          /\ Put(d, [pipe[d] EXCEPT !.rd = "done", !.rlen = n, !.got = @ + n])

ReadError(d) == pipe[d].rd = "pending" /\ Put(d, [pipe[d] EXCEPT !.rd = "failed"])

\* The first n bytes of the region given to the send, as the ring holds them now.
Region(p, n) == [i \in 1 .. n |-> p.ring.buf[p.pos + i - 1]]

Take(d) ==
    /\ pipe[d].sd = "pending"
    /\ \E n \in (IF WholeWrite(d) THEN pipe[d].len ELSE 1) .. pipe[d].len :
          Put(d, [pipe[d] EXCEPT !.sd = "done", !.sent = n, !.out = @ \o Region(pipe[d], n)])

\* A whole write that fails may have sent a part of the buffer.
SendError(d) ==
    /\ pipe[d].sd = "pending"
    /\ \E n \in 0 .. (IF WholeWrite(d) THEN pipe[d].len - 1 ELSE 0) :
          Put(d, [pipe[d] EXCEPT !.sd = "failed", !.out = @ \o Region(pipe[d], n)])

-----------------------------------------------------------------------------
\* The relay's completion handlers.

\* The handler of async_bidirectional_read: it leaves when destroyed.
ReadHandler(d) ==
    /\ pipe[d].rd \in {"done", "failed"}
    /\ LET p == [pipe[d] EXCEPT !.rd = "none"]
       IN  \/ ~Open /\ Put(d, p)
           \/ Open /\ pipe[d].rd = "done" /\ Put(d, async_bidirectional_write(p))
           \/ /\ Open /\ pipe[d].rd = "failed"
              /\ destroy([pipe EXCEPT ![d] = p]) /\ UNCHANGED step

\* The handler of do_send: it does not look at state_.
SendHandler(d) ==
    /\ pipe[d].sd \in {"done", "failed"}
    /\ LET p == [pipe[d] EXCEPT !.sd = "none", !.pos = 0, !.len = 0, !.sent = 0]
       IN  \/ /\ pipe[d].sd = "done"
              /\ Put(d, do_send([p EXCEPT !.ring = Consume(@, pipe[d].sent)]))
           \/ /\ pipe[d].sd = "failed"
              /\ destroy([pipe EXCEPT ![d] = p]) /\ UNCHANGED step

\* No handler is left to hold a shared_ptr: the session object is gone.
Freed == ~Open /\ \A d \in Direction : pipe[d].rd = "none" /\ pipe[d].sd = "none"

\* A freed session, and one that TrojanUdp has taken over, take no more steps.
Ended == (Freed \/ step = "udp") /\ UNCHANGED vars

SetUpNext ==
    \/ OnHandshake \/ OnAccept \/ handle_custom_protocol
    \/ OnResolve \/ OnConnect \/ OnPayload

Next ==
    \/ SetUpNext
    \/ \E d \in Direction :
          \/ Arrive(d) \/ ReadError(d) \/ Take(d) \/ SendError(d)
          \/ ReadHandler(d) \/ SendHandler(d)
    \/ Ended

Spec == Init /\ [][Next]_vars

\* The thread that runs the io_context runs every queued handler.
Handlers == \A d \in Direction : WF_vars(ReadHandler(d)) /\ WF_vars(SendHandler(d))

\* A destination takes bytes in the end, or its connection fails; and set-up
\* does not hold the initial payload back for ever.
Peers == /\ \A d \in Direction : WF_vars(Take(d) \/ SendError(d))
         /\ WF_vars(OnResolve \/ OnConnect \/ OnPayload)

FairSpec == Spec /\ Handlers /\ Peers

-----------------------------------------------------------------------------
TypeOK ==
    /\ state \in {"HANDSHAKE", "FORWARD", "DESTROY"}
    /\ step \in SetUp \cup {"relay", "udp"}
    /\ pipe \in [Direction -> Pipe]

\* "We must divide reads by direction to not permit second read call on the
\* same socket" (Session.cpp:361): no socket ever has two reads, or two sends,
\* outstanding, whichever of the two places that start a read gets there first.
OneOpPerSocket ==
    \A d \in Direction : pipe[d].rd # "overlap" /\ pipe[d].sd # "overlap"

\* What a destination has accepted is a prefix of the source's stream: the copy
\* loop never drops bytes for want of space, the region being sent is never
\* overwritten, and a partial send resumes at the right place.
StreamIntegrity ==
    \A d \in Direction :
        /\ Len(pipe[d].out) <= pipe[d].got
        /\ \A i \in 1 .. Len(pipe[d].out) : pipe[d].out[i] = i

\* A live relay direction is never stranded: either its read is outstanding, or
\* reading is paused and a send is outstanding whose handler will resume it.
NoLostWakeup ==
    Open /\ step = "relay" =>
        \A d \in Direction :
            /\ pipe[d].pausing <=> pipe[d].rd = "none"
            /\ pipe[d].pausing => pipe[d].sending
            /\ pipe[d].sending <=> pipe[d].sd # "none"

\* The end of a source's stream discards none of its own bytes.  A read error
\* or EOF makes the handler reset both rings; because the ring is as large as
\* one read, a read is only started when all earlier bytes have been accepted.
EofAfterDrain ==
    Capacity = MaxRead =>
        \A d \in Direction :
            Open /\ step = "relay" /\ pipe[d].rd = "failed" => Len(pipe[d].out) = pipe[d].got

\* No byte leaves a destroyed session, even though the handler of a send that
\* completed before destroy() still consumes from the reset ring, wraps used_
\* below zero and sends again.
NothingAfterDestroy ==
    [][~Open => \A d \in Direction : pipe'[d].out = pipe[d].out]_vars

\* A destroyed session runs out of handlers, so the object is released: late
\* completions start at most one more operation, which fails.
DestroyedIsFreed == ~Open ~> Freed

Down == INSTANCE BytePipe WITH Window <- Capacity, got <- pipe["down"].got,
                               out <- pipe["down"].out, closed <- ~Open

Up == INSTANCE BytePipe WITH Window <- Capacity, got <- pipe["up"].got,
                             out <- pipe["up"].out, closed <- ~Open

\* Both directions implement the abstract pipe, the payload that came with the
\* request included, and liveness too: what was taken from a source is delivered
\* unless the session ends.
RelayImplementsPipe == Down!Spec /\ Up!Spec

-----------------------------------------------------------------------------
\* The inductive invariant behind StreamIntegrity, OneOpPerSocket and
\* NoLostWakeup.

\* The bytes that have gone through the ring and been consumed.
Base(p) == p.got - (IF p.rd = "done" THEN p.rlen ELSE 0) - p.ring.used

InOrder(p) ==
    /\ Len(p.out) <= p.got
    /\ \A i \in 1 .. Len(p.out) : p.out[i] = i

\* Before the relay starts the direction is untouched, but for the payload.
Untouched(d, p) ==
    /\ p = [IdlePipe EXCEPT !.got = p.got]
    /\ d = "up" => p.got = 0

\* The ring holds the bytes that follow the consumed ones, in order, with room
\* for one read whenever a read is outstanding.
RingHolds(p) ==
    /\ Base(p) \in Nat
    /\ p.ring.used <= Capacity
    /\ \A i \in 0 .. (p.ring.used - 1) :
          p.ring.buf[(p.ring.read_pos + i) % Capacity] = Base(p) + i + 1

\* The read side: reading or paused.
ReadSide(p) ==
    /\ p.rd # "overlap"
    /\ p.pausing <=> p.rd = "none"
    /\ p.pausing => p.sending
    /\ p.rd # "none" => p.ring.used + MaxRead <= Capacity
    /\ p.rd = "done" => p.rlen <= MaxRead

\* The send side: a send of the front of the ring is outstanding exactly when
\* the ring is not empty.
SendSide(p) ==
    /\ p.sd # "overlap"
    /\ p.sending <=> p.sd # "none"
    /\ p.sd = "none" => p.ring.used = 0
    /\ p.sd # "none" => /\ p.pos = p.ring.read_pos
                        /\ p.len \in 1 .. p.ring.used
                        /\ p.pos + p.len <= Capacity
    /\ p.sd \in {"none", "pending"} => Len(p.out) = Base(p)
    /\ p.sd = "done" => p.sent \in 1 .. p.len /\ Len(p.out) = Base(p) + p.sent
    /\ p.sd = "failed" => Base(p) <= Len(p.out)

Relaying(p) == RingHolds(p) /\ ReadSide(p) /\ SendSide(p)

\* After destroy nothing is pending, and a send that had completed will make
\* the reset ring's used_ wrap to a value that is not zero.
Dead(p) ==
    /\ p.rd \in {"none", "done", "failed"}
    /\ p.sd \in {"none", "done", "failed"}
    /\ p.pausing = FALSE
    /\ p.sd = "done" => p.sent \in 1 .. Capacity /\ p.ring.used = 0

\* Every direction is in order, and untouched, relaying or dead with the session.
Inv ==
    /\ TypeOK
    /\ \A d \in Direction :
          /\ InOrder(pipe[d])
          /\ Open /\ step # "relay" => Untouched(d, pipe[d])
          /\ Open /\ step = "relay" => Relaying(pipe[d])
          /\ ~Open => Dead(pipe[d])

=============================================================================
