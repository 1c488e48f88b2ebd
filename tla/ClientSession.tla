---------------------------- MODULE ClientSession ----------------------------
(***************************************************************************)
(* One session of the client (Client/Session.cpp) with its two transports, *)
(* TlsClientSession and WsClientSession: the SOCKS5 or HTTP CONNECT        *)
(* handshake with the application, the connection to the server and the    *)
(* request, and the two-way relay; or a UDP association, whose control     *)
(* connection the session watches.                                         *)
(*                                                                         *)
(* As on the server, handlers run on one thread, set-up has one operation  *)
(* outstanding at a time, and in the relay the environment completes       *)
(* operations in steps of its own.                                         *)
(***************************************************************************)
EXTENDS Integers, Sequences

CONSTANTS
    MaxRead,    \* MAX_BUFF_SIZE, the size of in_buf and out_buf
    Transport,  \* "tls" or "ws"
    MaxStream   \* bound: bytes sent in one direction

ASSUME ClientAssumption ==
    MaxRead \in Nat \ {0} /\ Transport \in {"tls", "ws"} /\ MaxStream \in Nat

VARIABLES
    destroyed,      \* destroyed_
    step,           \* the operation the session waits for, then "relay"; "terminated"
                    \* when an exception of one of its handlers has ended the client
    response_sent,  \* response_sent_
    replies,        \* the replies to its connect request the application got
    registered,     \* the session's UDP relay is in relays_
    session_count,  \* what this session adds to ProxyStats::session_count_
    pipe            \* the two directions of the relay

vars == <<destroyed, step, response_sent, replies, registered, session_count, pipe>>

Direction == {"up", "down"}   \* 1: application to server, 2: back

SetUp == {"greeting", "auth_reply", "request", "http_line", "http_reply", "resolve",
          "connect", "ssl", "ws", "v_req", "socks_reply", "udp_reply", "control"}

Op == {"none", "pending", "done", "failed", "overlap"}

\* in_buf (or out_buf) holds the last len of the got bytes taken from the source.
Pipe == [rd : Op, wr : Op, len : Nat, got : Nat, out : Seq(Nat)]

Open == ~destroyed

Bytes(first, n) == [i \in 1 .. n |-> first + i - 1]

-----------------------------------------------------------------------------
\* Starting an operation: on a closed socket it completes with an error.
Start(op) == IF op # "none" THEN "overlap" ELSE IF Open THEN "pending" ELSE "failed"

\* Mutant: both sockets are read whatever the direction.
read_packet_both(ps, dirs) ==
    [d \in Direction |-> [ps[d] EXCEPT !.rd = Start(@)]]

read_packet(ps, dirs) ==
    [d \in Direction |-> IF d \in dirs THEN [ps[d] EXCEPT !.rd = Start(@)] ELSE ps[d]]

\* Mutant: the next read does not wait for the write.
write_packet_eager(ps, d) == [ps EXCEPT ![d].wr = Start(@), ![d].rd = Start(@)]

write_packet(ps, d) == [ps EXCEPT ![d].wr = Start(@)]

\* Mutant: the sockets are not closed.
Abort_not(op) == op

Abort(op) == IF op = "pending" THEN "failed" ELSE op

\* Mutant: destroyed_ is not looked at.
destroy_again(ps) ==
    /\ destroyed' = TRUE
    /\ session_count' = session_count - 1
    /\ registered' = FALSE
    /\ pipe' = [d \in Direction |-> [ps[d] EXCEPT !.rd = Abort(@), !.wr = Abort(@)]]

\* destroy(), for the directions as the calling handler leaves them.
destroy(ps) ==
    IF destroyed
      THEN pipe' = ps /\ UNCHANGED <<destroyed, session_count, registered>>
      ELSE /\ destroyed' = TRUE
           /\ session_count' = session_count - 1
           /\ registered' = FALSE
           /\ pipe' = [d \in Direction |-> [ps[d] EXCEPT !.rd = Abort(@), !.wr = Abort(@)]]

Init ==
    /\ destroyed = FALSE /\ step = "greeting"
    /\ response_sent = FALSE /\ replies = 0
    /\ registered = FALSE
    /\ session_count = 1                  \* the accept handler's sessionCreated()
    /\ pipe = [d \in Direction |->
                  [rd |-> "none", wr |-> "none", len |-> 0, got |-> 0, out |-> <<>>]]

-----------------------------------------------------------------------------
\* Set-up.  Every operation may fail, and the session ends.

Fail == destroy(pipe) /\ UNCHANGED <<step, response_sent, replies>>

Then(next) ==
    /\ step' = next
    /\ UNCHANGED <<destroyed, response_sent, replies, registered, session_count, pipe>>

\* A handler throws: nothing catches it where io_context::run is called.
Throw == Then("terminated")

\* start(): the first byte tells SOCKS5 from HTTP; a SOCKS5 client must offer
\* "no authentication".
OnGreeting ==
    /\ Open /\ step = "greeting"
    /\ Then("auth_reply") \/ Then("http_line") \/ Fail

OnAuthReply == Open /\ step = "auth_reply" /\ (Then("request") \/ Fail)

\* A UDP association is refused when UDP is off or there is no channel.  The
\* refusal is written synchronously, and a write that fails throws, as does the
\* relay's constructor when it gets no port.
OnRequest ==
    /\ Open /\ step = "request"
    /\ \/ Then("resolve")
       \/ /\ step' = "udp_reply" /\ registered' = TRUE
          /\ UNCHANGED <<destroyed, response_sent, replies, session_count, pipe>>
       \/ destroy(pipe) /\ replies' = replies + 1 /\ UNCHANGED <<step, response_sent>>
       \/ Throw
       \/ Fail

OnUdpReply ==
    /\ Open /\ step = "udp_reply"
    /\ \/ /\ step' = "control" /\ replies' = replies + 1
          /\ UNCHANGED <<destroyed, response_sent, registered, session_count, pipe>>
       \/ Fail

\* do_read_control: what arrives is ignored, the end of the connection is not.
OnControl == Open /\ step = "control" /\ (Then("control") \/ Fail)

\* stoi throws where the request names no port (see Requests).
OnHttpLine ==
    /\ Open /\ step = "http_line"
    /\ \/ /\ step' = "http_reply" /\ response_sent' = TRUE
          /\ UNCHANGED <<destroyed, replies, registered, session_count, pipe>>
       \/ Throw
       \/ Fail

\* The application is told that the connection is there before it is.
OnHttpReply ==
    /\ Open /\ step = "http_reply"
    /\ \/ /\ step' = "resolve" /\ replies' = replies + 1
          /\ UNCHANGED <<destroyed, response_sent, registered, session_count, pipe>>
       \/ Fail

OnResolve == Open /\ step = "resolve" /\ (Then("connect") \/ Fail)

OnConnect == Open /\ step = "connect" /\ (Then("ssl") \/ Fail)

after_ssl_handshake == IF Transport = "ws" THEN "ws" ELSE "v_req"

OnSsl == Open /\ step = "ssl" /\ (Then(after_ssl_handshake) \/ Fail)

OnWs == Open /\ step = "ws" /\ (Then("v_req") \/ Fail)

StartRelay ==
    /\ step' = "relay"
    /\ pipe' = read_packet(pipe, Direction)
    /\ UNCHANGED <<destroyed, response_sent, registered, session_count>>

\* Mutant: response_sent_ is not looked at.
OnVReq_replies == Open /\ step = "v_req" /\ (Then("socks_reply") \/ Fail)

\* The SOCKS5 reply names the server's endpoint: remote_endpoint() throws when the
\* connection is gone by now, and to_v4() when it is one of IPv6.
OnVReq ==
    /\ Open /\ step = "v_req"
    /\ \/ response_sent /\ StartRelay /\ UNCHANGED replies
       \/ ~response_sent /\ (Then("socks_reply") \/ Throw)
       \/ Fail

OnSocksReply ==
    /\ Open /\ step = "socks_reply"
    /\ \/ StartRelay /\ replies' = replies + 1
       \/ Fail

-----------------------------------------------------------------------------
\* The relay: the environment completes operations.

Put(ps) ==
    /\ pipe' = ps
    /\ UNCHANGED <<destroyed, step, response_sent, replies, registered, session_count>>

\* A successful read returns at least one byte, except that a WebSocket read
\* may return an empty frame.
LeastRead(d) == IF Transport = "ws" /\ d = "down" THEN 0 ELSE 1

Arrive(d) ==
    /\ pipe[d].rd = "pending"
    /\ \E n \in LeastRead(d) .. MaxRead :
          /\ pipe[d].got + n <= MaxStream
          /\ Put([pipe EXCEPT ![d].rd = "done", ![d].len = n, ![d].got = @ + n])

\* A TLS stream may hold bytes it has already decrypted, and a read started
\* after the socket is closed still returns them.
BufferedRead ==
    /\ destroyed /\ pipe["down"].rd = "failed"
    /\ \E n \in 1 .. MaxRead :
          /\ pipe["down"].got + n <= MaxStream
          /\ Put([pipe EXCEPT !["down"].rd = "done", !["down"].len = n, !["down"].got = @ + n])

ReadError(d) == pipe[d].rd = "pending" /\ Put([pipe EXCEPT ![d].rd = "failed"])

\* The bytes of the buffer, as it is now, go out whole.
Written(d, n) == pipe[d].out \o Bytes(pipe[d].got - pipe[d].len + 1, n)

Take(d) ==
    /\ pipe[d].wr = "pending"
    /\ Put([pipe EXCEPT ![d].wr = "done", ![d].out = Written(d, pipe[d].len)])

\* A write that fails may have sent a part of the buffer.
WriteError(d) ==
    /\ pipe[d].wr = "pending"
    /\ \E n \in 0 .. (pipe[d].len - 1) :
          Put([pipe EXCEPT ![d].wr = "failed", ![d].out = Written(d, n)])

\* The handlers, which do not look at destroyed_.
ReadHandler(d) ==
    /\ pipe[d].rd \in {"done", "failed"}
    /\ LET ps == [pipe EXCEPT ![d].rd = "none"]
       IN  \/ pipe[d].rd = "done" /\ Put(write_packet(ps, d))
           \/ /\ pipe[d].rd = "failed"
              /\ destroy(ps) /\ UNCHANGED <<step, response_sent, replies>>

WriteHandler(d) ==
    /\ pipe[d].wr \in {"done", "failed"}
    /\ LET ps == [pipe EXCEPT ![d].wr = "none"]
       IN  \/ pipe[d].wr = "done" /\ Put(read_packet(ps, {d}))
           \/ /\ pipe[d].wr = "failed"
              /\ destroy(ps) /\ UNCHANGED <<step, response_sent, replies>>

\* No handler is left to hold the session.
Freed == destroyed /\ \A d \in Direction : pipe[d].rd = "none" /\ pipe[d].wr = "none"

Ended == (Freed \/ step = "terminated") /\ UNCHANGED vars

SetUpNext ==
    \/ OnGreeting \/ OnAuthReply \/ OnRequest \/ OnUdpReply \/ OnControl
    \/ OnHttpLine \/ OnHttpReply \/ OnResolve \/ OnConnect \/ OnSsl \/ OnWs
    \/ OnVReq \/ OnSocksReply

Next ==
    \/ SetUpNext
    \/ \E d \in Direction :
          \/ Arrive(d) \/ ReadError(d) \/ Take(d) \/ WriteError(d)
          \/ ReadHandler(d) \/ WriteHandler(d)
    \/ BufferedRead \/ Ended

Spec == Init /\ [][Next]_vars

\* The io_context runs every handler; a destination takes bytes or fails.
FairSpec ==
    /\ Spec
    /\ \A d \in Direction : /\ WF_vars(ReadHandler(d)) /\ WF_vars(WriteHandler(d))
                            /\ WF_vars(Take(d) \/ WriteError(d))

-----------------------------------------------------------------------------
TypeOK ==
    /\ destroyed \in BOOLEAN /\ response_sent \in BOOLEAN /\ registered \in BOOLEAN
    /\ step \in SetUp \cup {"relay", "terminated"}
    /\ replies \in Nat /\ session_count \in Nat
    /\ pipe \in [Direction -> Pipe]

\* "We must divide reads by direction to not permit second read call on the
\* same socket" (Client/Session.cpp:288), and the same for writes.
OneOpPerSocket == \A d \in Direction : pipe[d].rd # "overlap" /\ pipe[d].wr # "overlap"

\* The number of sessions the window shows counts each live session once,
\* though both directions may end the same session (Session.cpp:359-362).
CountedOnce == session_count = IF destroyed THEN 0 ELSE 1

\* An application gets one answer to its request: an HTTP client, told early
\* that it is connected, gets no SOCKS5 reply into its stream, and a SOCKS5
\* client gets its reply before the first byte of the target.
OneReply == replies <= 1 /\ (step = "relay" => replies = 1)

\* A destroyed session runs out of handlers and is released.
DestroyedIsFreed == destroyed ~> Freed

Up == INSTANCE BytePipe WITH Window <- MaxRead, got <- pipe["up"].got,
                             out <- pipe["up"].out, closed <- destroyed

Down == INSTANCE BytePipe WITH Window <- MaxRead, got <- pipe["down"].got,
                               out <- pipe["down"].out, closed <- destroyed

\* Both directions implement the abstract pipe: the buffer of a write is never
\* read into before the write has completed, what was read is written unless the
\* session ends, and no byte leaves a destroyed session, though its handlers do
\* not look at destroyed_ and go on.
RelayImplementsPipe == Up!Spec /\ Down!Spec

=============================================================================
