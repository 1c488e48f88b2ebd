------------------------ MODULE ClientSession_proofs -------------------------
(***************************************************************************)
(* A client session starts at most one read and one write on a socket,     *)
(* counts itself out once, answers the application once, and relays each   *)
(* direction as an abstract pipe: for every buffer size, stream length and *)
(* both transports.                                                        *)
(***************************************************************************)
EXTENDS ClientSession, SequenceTheorems, TLAPS

-----------------------------------------------------------------------------
\* The inductive invariant.

\* A direction before the relay starts.
Idle(p) == p.rd = "none" /\ p.wr = "none" /\ p.got = 0 /\ p.out = <<>>

\* What has been written is a prefix of what has been read.
InOrder(p) == Len(p.out) <= p.got /\ \A i \in 1 .. Len(p.out) : p.out[i] = i

\* A direction reads or writes, never both.
OneOp(p) == p.rd # "overlap" /\ p.wr # "overlap" /\ (p.rd = "none" \/ p.wr = "none")

\* A direction of a live relay always has an operation outstanding; everything
\* that was read before the buffer's last fill is written, and the buffer holds
\* the rest from the end of a read to the end of its write.
Carries(p) ==
    /\ p.rd # "none" \/ p.wr # "none"
    /\ p.rd \in {"pending", "failed"} \/ p.wr = "done" => Len(p.out) = p.got
    /\ p.rd = "done" \/ p.wr = "pending" => Len(p.out) + p.len = p.got /\ p.len <= MaxRead

\* Whether the application has its reply depends on the step of the set-up, and
\* on whether it was told early.
ReplyAt ==
    /\ step \in {"greeting", "auth_reply", "request", "udp_reply", "http_line"} =>
          ~response_sent /\ replies = 0
    /\ step = "http_reply" => response_sent /\ replies = 0
    /\ step \in {"resolve", "connect", "ssl", "ws", "v_req"} =>
          replies = IF response_sent THEN 1 ELSE 0
    /\ step = "socks_reply" => replies = 0

IInv ==
    /\ TypeOK /\ CountedOnce /\ OneReply
    /\ Open => ReplyAt
    /\ \A d \in Direction :
          /\ InOrder(pipe[d]) /\ OneOp(pipe[d])
          /\ step # "relay" => Idle(pipe[d])
          /\ Open /\ step = "relay" => Carries(pipe[d])
          /\ destroyed => pipe[d].rd # "pending" /\ pipe[d].wr # "pending"

-----------------------------------------------------------------------------
LEMMA PipeFields ==
    ASSUME NEW p \in Pipe
    PROVE  p.rd \in Op /\ p.wr \in Op /\ p.len \in Nat /\ p.got \in Nat /\ p.out \in Seq(Nat)
  BY DEF Pipe

LEMMA InitIInv == ASSUME Init PROVE IInv
  <1>1. pipe \in [Direction -> Pipe]
    BY DEF Init, Pipe, Op
  <1>2. TypeOK
    BY <1>1, Zenon DEF Init, TypeOK, SetUp
  <1>3. CountedOnce /\ OneReply /\ ReplyAt
    BY DEF Init, CountedOnce, OneReply, ReplyAt
  <1>4. \A d \in Direction : Idle(pipe[d]) /\ InOrder(pipe[d]) /\ OneOp(pipe[d])
    BY DEF Init, Idle, InOrder, OneOp
  <1>. QED  BY <1>2, <1>3, <1>4 DEF IInv, Init

-----------------------------------------------------------------------------
\* What the handlers have in common.

\* A step of one direction of the relay.
LEMMA PutStep ==
    ASSUME IInv, step = "relay", NEW d \in Direction, NEW p \in Pipe, InOrder(p), OneOp(p),
           Open => Carries(p), destroyed => p.rd # "pending" /\ p.wr # "pending",
           Put([pipe EXCEPT ![d] = p])
    PROVE  IInv'
  <1>1. /\ pipe' = [pipe EXCEPT ![d] = p]
        /\ UNCHANGED <<destroyed, step, response_sent, replies, registered, session_count>>
    BY DEF Put
  <1>2. TypeOK'
    BY <1>1 DEF IInv, TypeOK
  <1>3. \A e \in Direction : pipe'[e] = IF e = d THEN p ELSE pipe[e]
    BY <1>1 DEF IInv, TypeOK
  <1>4. CountedOnce' /\ OneReply' /\ (Open => ReplyAt)'
    BY <1>1 DEF IInv, CountedOnce, OneReply, ReplyAt, Open
  <1>5. \A e \in Direction :
          /\ InOrder(pipe'[e]) /\ OneOp(pipe'[e])
          /\ Open => Carries(pipe'[e])
          /\ destroyed => pipe'[e].rd # "pending" /\ pipe'[e].wr # "pending"
    BY <1>3 DEF IInv
  <1>. QED  BY <1>1, <1>2, <1>4, <1>5 DEF IInv, InOrder, OneOp, Carries, Open

\* destroy() closes the sockets of both directions and keeps what was written.
LEMMA AbortPipe ==
    ASSUME NEW p \in Pipe, InOrder(p), OneOp(p)
    PROVE  LET q == [p EXCEPT !.rd = Abort(@), !.wr = Abort(@)]
           IN  /\ q \in Pipe /\ InOrder(q) /\ OneOp(q)
               /\ q.rd # "pending" /\ q.wr # "pending"
               /\ q.got = p.got /\ q.out = p.out
               /\ Idle(p) => Idle(q)
  <1>. DEFINE q == [p EXCEPT !.rd = Abort(@), !.wr = Abort(@)]
  <1>1. q \in Pipe /\ q.rd = Abort(p.rd) /\ q.wr = Abort(p.wr) /\ q.got = p.got /\ q.out = p.out
    BY Zenon DEF Pipe, Op, Abort
  <1>. HIDE DEF q
  <1>2. Idle(p) => Idle(q)
    BY <1>1 DEF Idle, Abort
  <1>3. InOrder(q) /\ OneOp(q) /\ q.rd # "pending" /\ q.wr # "pending"
    BY <1>1 DEF InOrder, OneOp, Abort
  <1>. QED  BY <1>1, <1>2, <1>3 DEF q

LEMMA DestroyStep ==
    ASSUME IInv, NEW STATE ps, ps \in [Direction -> Pipe],
           \A d \in Direction : InOrder(ps[d]) /\ OneOp(ps[d]),
           \A d \in Direction : step # "relay" => Idle(ps[d]),
           destroyed => \A d \in Direction : ps[d].rd # "pending" /\ ps[d].wr # "pending",
           destroy(ps), step' = step, response_sent' = response_sent,
           replies' \in Nat, OneReply'
    PROVE  IInv'
  <1>1. CASE destroyed
    <2>1. pipe' = ps /\ UNCHANGED <<destroyed, session_count, registered>>
      BY <1>1 DEF destroy
    <2>2. TypeOK' /\ CountedOnce'
      BY <2>1 DEF IInv, TypeOK, CountedOnce
    <2>. QED  BY <1>1, <2>1, <2>2 DEF IInv, Open, InOrder, OneOp, Idle
  <1>2. CASE ~destroyed
    <2>0. pipe' = [d \in Direction |-> [ps[d] EXCEPT !.rd = Abort(@), !.wr = Abort(@)]]
      BY <1>2, Zenon DEF destroy
    <2>1. destroyed' = TRUE /\ session_count' = session_count - 1 /\ registered' = FALSE
      BY <1>2, Zenon DEF destroy
    <2>2. \A d \in Direction : /\ pipe'[d] \in Pipe /\ InOrder(pipe'[d]) /\ OneOp(pipe'[d])
                               /\ pipe'[d].rd # "pending" /\ pipe'[d].wr # "pending"
                               /\ Idle(ps[d]) => Idle(pipe'[d])
      BY <2>0, AbortPipe
    <2>3. pipe' \in [Direction -> Pipe]
      BY <2>0, <2>2
    <2>4. session_count = 1
      BY <1>2, Zenon DEF IInv, CountedOnce
    <2>5. session_count' = 0
      BY <2>1, <2>4
    <2>6. TypeOK'
      <3>1. session_count' \in Nat
        BY <2>5
      <3>. QED  BY <2>1, <2>3, <3>1, Zenon DEF IInv, TypeOK
    <2>7. CountedOnce'
      BY <2>1, <2>5, Zenon DEF CountedOnce
    <2>. QED  BY <2>1, <2>2, <2>6, <2>7 DEF IInv, Open, InOrder, OneOp, Idle
  <1>. QED  BY <1>1, <1>2

LEMMA FailIInv == ASSUME IInv, Open, step # "relay", Fail PROVE IInv'
  <1>1. /\ destroy(pipe) /\ step' = step /\ response_sent' = response_sent /\ replies' = replies
        /\ ~destroyed
    BY DEF Fail, Open
  <1>2. replies' \in Nat /\ OneReply'
    BY <1>1 DEF IInv, TypeOK, OneReply
  <1>. QED  BY <1>1, <1>2, DestroyStep DEF IInv, TypeOK

\* A step of the set-up that goes on to the next operation, or throws.
LEMMA SetUpStep ==
    ASSUME IInv, Open, step # "relay", step' \in SetUp \cup {"terminated"},
           response_sent' \in BOOLEAN, replies' \in {0, 1}, registered' \in BOOLEAN, ReplyAt',
           UNCHANGED <<destroyed, session_count, pipe>>
    PROVE  IInv'
  <1>1. TypeOK'
    BY DEF IInv, TypeOK
  <1>2. step' # "relay"
    BY DEF SetUp
  <1>. QED  BY <1>1, <1>2 DEF IInv, CountedOnce, OneReply, Open, InOrder, OneOp, Idle

-----------------------------------------------------------------------------
\* Set-up.

LEMMA ThenIInv ==
    ASSUME IInv, Open, step # "relay", NEW next \in SetUp \cup {"terminated"}, Then(next), ReplyAt'
    PROVE  IInv'
  <1>1. /\ step' = next
        /\ UNCHANGED <<destroyed, response_sent, replies, registered, session_count, pipe>>
    BY DEF Then
  <1>2. replies \in {0, 1} /\ response_sent \in BOOLEAN /\ registered \in BOOLEAN
    BY DEF IInv, TypeOK, OneReply
  <1>. QED  BY <1>1, <1>2, SetUpStep

LEMMA ThrowIInv == ASSUME IInv, Open, step # "relay", Throw PROVE IInv'
  <1>1. Then("terminated")
    BY DEF Throw
  <1>2. ReplyAt'
    BY <1>1 DEF Then, ReplyAt
  <1>. QED  BY <1>1, <1>2, ThenIInv

\* The steps that only wait for the next operation.
LEMMA ChainIInv ==
    ASSUME IInv, OnGreeting \/ OnAuthReply \/ OnControl \/ OnResolve \/ OnConnect \/ OnSsl \/ OnWs
    PROVE  IInv'
  <1>1. Open /\ step # "relay" /\ ReplyAt
    BY DEF IInv, OnGreeting, OnAuthReply, OnControl, OnResolve, OnConnect, OnSsl, OnWs
  <1>2. CASE Fail
    BY <1>1, <1>2, FailIInv
  <1>3. ASSUME NEW next \in SetUp, Then(next),
               \/ step = "greeting" /\ next \in {"auth_reply", "http_line"}
               \/ step = "auth_reply" /\ next = "request"
               \/ step = "control" /\ next = "control"
               \/ step \in {"resolve", "connect", "ssl", "ws"} /\ next \in {"connect", "ssl", "ws", "v_req"}
        PROVE  IInv'
    <2>1. ReplyAt'
      BY <1>1, <1>3 DEF ReplyAt, Then
    <2>. QED  BY <1>1, <1>3, <2>1, ThenIInv
  <1>. QED  BY <1>2, <1>3 DEF OnGreeting, OnAuthReply, OnControl, OnResolve, OnConnect, OnSsl, OnWs,
                              after_ssl_handshake, SetUp

\* A SOCKS5 request: connect, associate, or refuse an association.
LEMMA RequestIInv == ASSUME IInv, OnRequest PROVE IInv'
  <1>1. Open /\ step = "request" /\ ReplyAt /\ ~destroyed
    BY DEF IInv, OnRequest, Open
  <1>2. CASE Then("resolve")
    <2>1. ReplyAt'
      BY <1>1, <1>2 DEF ReplyAt, Then
    <2>. QED  BY <1>1, <1>2, <2>1, ThenIInv DEF SetUp
  <1>3. CASE /\ step' = "udp_reply" /\ registered' = TRUE
             /\ UNCHANGED <<destroyed, response_sent, replies, session_count, pipe>>
    <2>1. ReplyAt'
      BY <1>1, <1>3 DEF ReplyAt
    <2>. QED  BY <1>1, <1>3, <2>1, SetUpStep DEF SetUp, IInv, TypeOK, OneReply
  <1>4. CASE destroy(pipe) /\ replies' = replies + 1 /\ UNCHANGED <<step, response_sent>>
    <2>1. replies = 0
      BY <1>1 DEF ReplyAt
    <2>2. replies' = 1
      BY <1>4, <2>1
    <2>3. OneReply' /\ replies' \in Nat
      BY <2>2, <1>4, <1>1 DEF OneReply
    <2>. QED  BY <1>1, <1>4, <2>3, DestroyStep DEF IInv, TypeOK
  <1>5. step # "relay"
    BY <1>1
  <1>. QED  BY <1>1, <1>2, <1>3, <1>4, <1>5, FailIInv, ThrowIInv, Zenon DEF OnRequest

LEMMA ReplyIInv == ASSUME IInv, OnUdpReply \/ OnHttpLine \/ OnHttpReply PROVE IInv'
  <1>1. /\ Open /\ step \in {"udp_reply", "http_line", "http_reply"} /\ ReplyAt /\ replies = 0
        /\ response_sent \in BOOLEAN /\ registered \in BOOLEAN
    BY DEF IInv, TypeOK, OnUdpReply, OnHttpLine, OnHttpReply, ReplyAt
  <1>2. CASE Fail
    BY <1>1, <1>2, FailIInv
  <1>3. CASE /\ step = "udp_reply" /\ step' = "control" /\ replies' = replies + 1
             /\ UNCHANGED <<destroyed, response_sent, registered, session_count, pipe>>
    <2>1. ReplyAt'
      BY <1>3 DEF ReplyAt
    <2>. QED  BY <1>1, <1>3, <2>1, SetUpStep DEF SetUp
  <1>4. CASE /\ step = "http_line" /\ step' = "http_reply" /\ response_sent' = TRUE
             /\ UNCHANGED <<destroyed, replies, registered, session_count, pipe>>
    <2>1. ReplyAt'
      BY <1>1, <1>4 DEF ReplyAt
    <2>. QED  BY <1>1, <1>4, <2>1, SetUpStep DEF SetUp
  <1>5. CASE /\ step = "http_reply" /\ step' = "resolve" /\ replies' = replies + 1
             /\ UNCHANGED <<destroyed, response_sent, registered, session_count, pipe>>
    <2>1. ReplyAt'
      BY <1>1, <1>5 DEF ReplyAt
    <2>. QED  BY <1>1, <1>5, <2>1, SetUpStep DEF SetUp
  <1>6. CASE Throw
    BY <1>1, <1>6, ThrowIInv
  <1>. QED  BY <1>2, <1>3, <1>4, <1>5, <1>6, Zenon DEF OnUdpReply, OnHttpLine, OnHttpReply

\* The relay starts with one read in each direction.
LEMMA StartRelayIInv ==
    ASSUME IInv, Open, step # "relay", StartRelay, replies' = 1
    PROVE  IInv'
  <1>1. /\ step' = "relay" /\ pipe' = read_packet(pipe, Direction)
        /\ UNCHANGED <<destroyed, response_sent, registered, session_count>>
    BY DEF StartRelay
  <1>2. ASSUME NEW d \in Direction
        PROVE  /\ pipe'[d] \in Pipe /\ pipe'[d].rd = "pending" /\ pipe'[d].wr = "none"
               /\ pipe'[d].got = 0 /\ pipe'[d].out = <<>>
    BY <1>1 DEF read_packet, Start, IInv, TypeOK, Idle, Pipe, Op, Open
  <1>3. pipe' \in [Direction -> Pipe]
    BY <1>1, <1>2 DEF read_packet
  <1>4. TypeOK' /\ CountedOnce' /\ OneReply'
    BY <1>1, <1>3 DEF IInv, TypeOK, CountedOnce, OneReply
  <1>5. \A d \in Direction : InOrder(pipe'[d]) /\ OneOp(pipe'[d]) /\ Carries(pipe'[d])
    BY <1>2 DEF InOrder, OneOp, Carries
  <1>. QED  BY <1>1, <1>4, <1>5 DEF IInv, InOrder, OneOp, Carries, Open, ReplyAt

LEMMA VReqIInv == ASSUME IInv, OnVReq \/ OnSocksReply PROVE IInv'
  <1>1. Open /\ step \in {"v_req", "socks_reply"} /\ ReplyAt
    BY DEF IInv, OnVReq, OnSocksReply
  <1>2. CASE Fail
    BY <1>1, <1>2, FailIInv
  <1>3. CASE step = "v_req" /\ response_sent /\ StartRelay /\ UNCHANGED replies
    BY <1>1, <1>3, StartRelayIInv DEF ReplyAt
  <1>4. CASE step = "v_req" /\ ~response_sent /\ Then("socks_reply")
    <2>1. ReplyAt'
      BY <1>1, <1>4 DEF ReplyAt, Then
    <2>. QED  BY <1>1, <1>4, <2>1, ThenIInv DEF SetUp
  <1>5. CASE step = "socks_reply" /\ StartRelay /\ replies' = replies + 1
    BY <1>1, <1>5, StartRelayIInv DEF ReplyAt
  <1>6. CASE Throw
    BY <1>1, <1>6, ThrowIInv
  <1>. QED  BY <1>2, <1>3, <1>4, <1>5, <1>6 DEF OnVReq, OnSocksReply

-----------------------------------------------------------------------------
\* The relay.

\* A direction with an operation outstanding belongs to a relay, and one that is
\* pending to a live one.
LEMMA Outstanding ==
    ASSUME IInv, NEW d \in Direction, pipe[d].rd # "none" \/ pipe[d].wr # "none"
    PROVE  /\ step = "relay" /\ pipe[d] \in Pipe /\ InOrder(pipe[d]) /\ OneOp(pipe[d])
           /\ pipe \in [Direction -> Pipe]
           /\ Open => Carries(pipe[d])
           /\ pipe[d].rd = "pending" \/ pipe[d].wr = "pending" => Open
  BY DEF IInv, TypeOK, Idle, Open

\* A read completes: the buffer holds the n bytes it returned.
LEMMA ReadPipe ==
    ASSUME NEW p0 \in Pipe, NEW n \in Nat
    PROVE  LET p == [p0 EXCEPT !.rd = "done", !.len = n, !.got = @ + n]
           IN  /\ p \in Pipe /\ p.rd = "done" /\ p.wr = p0.wr /\ p.len = n
               /\ p.got = p0.got + n /\ p.out = p0.out
  <1>1. p0.got + n \in Nat
    BY PipeFields
  <1>. QED  BY <1>1, Zenon DEF Pipe, Op

LEMMA ReadIInv ==
    ASSUME IInv, NEW d \in Direction, NEW n \in Nat, n <= MaxRead,
           \/ pipe[d].rd = "pending"
           \/ destroyed /\ pipe[d].rd = "failed",
           Put([pipe EXCEPT ![d].rd = "done", ![d].len = n, ![d].got = @ + n])
    PROVE  IInv'
  <1>. DEFINE p == [pipe[d] EXCEPT !.rd = "done", !.len = n, !.got = @ + n]
  <1>1. /\ step = "relay" /\ pipe[d] \in Pipe /\ InOrder(pipe[d]) /\ OneOp(pipe[d])
        /\ pipe \in [Direction -> Pipe] /\ (Open => Carries(pipe[d]))
    BY Outstanding
  <1>2. Put([pipe EXCEPT ![d] = p])
    BY <1>1, Zenon
  <1>3. /\ p \in Pipe /\ p.rd = "done" /\ p.wr = pipe[d].wr /\ p.len = n
        /\ p.got = pipe[d].got + n /\ p.out = pipe[d].out
    BY <1>1, ReadPipe, Zenon
  <1>. HIDE DEF p
  <1>4. InOrder(p) /\ OneOp(p)
    BY <1>1, <1>3, PipeFields DEF InOrder, OneOp
  <1>5. Open => Carries(p)
    BY <1>1, <1>3, PipeFields DEF Carries, OneOp, Open
  <1>6. destroyed => p.rd # "pending" /\ p.wr # "pending"
    BY <1>3 DEF IInv
  <1>. QED  BY <1>1, <1>2, <1>3, <1>4, <1>5, <1>6, PutStep, Zenon

\* The n bytes that follow a prefix of the stream make a longer prefix.
LEMMA LongerPrefix ==
    ASSUME NEW s \in Seq(Nat), \A i \in 1 .. Len(s) : s[i] = i, NEW n \in Nat
    PROVE  LET t == s \o [i \in 1 .. n |-> Len(s) + i]
           IN  /\ t \in Seq(Nat) /\ Len(t) = Len(s) + n
               /\ \A i \in 1 .. Len(t) : t[i] = i
  <1>. DEFINE u == [i \in 1 .. n |-> Len(s) + i]
              t == s \o u
  <1>0. Len(s) \in Nat
    OBVIOUS
  <1>1. \A i \in 1 .. n : Len(s) + i \in Nat
    BY <1>0
  <1>2. u \in Seq(Nat)
    BY <1>1, IsASeq
  <1>3. Len(u) = n
    BY <1>2, LenProperties
  <1>4. \A i \in 1 .. n : u[i] = Len(s) + i
    OBVIOUS
  <1>. HIDE DEF u
  <1>5. /\ t \in Seq(Nat) /\ Len(t) = Len(s) + n
        /\ \A i \in 1 .. Len(s) + n : t[i] = IF i <= Len(s) THEN s[i] ELSE u[i - Len(s)]
    BY <1>2, <1>3, ConcatProperties, SMTT(20)
  <1>. HIDE DEF t
  <1>6. ASSUME NEW i \in 1 .. Len(s) + n PROVE t[i] = i
    <2>1. CASE i <= Len(s)
      BY <1>0, <1>5, <2>1
    <2>2. CASE ~(i <= Len(s))
      <3>1. i - Len(s) \in 1 .. n
        BY <1>0, <2>2
      <3>2. u[i - Len(s)] = i
        BY <1>0, <1>4, <3>1
      <3>. QED  BY <1>5, <2>2, <3>2
    <2>. QED  BY <2>1, <2>2
  <1>. QED  BY <1>5, <1>6 DEF t, u

\* A write hands n bytes of the buffer to the destination.
LEMMA WriteIInv ==
    ASSUME IInv, NEW d \in Direction, pipe[d].wr = "pending", NEW n \in 0 .. pipe[d].len,
           NEW st \in {"done", "failed"}, st = "done" => n = pipe[d].len,
           Put([pipe EXCEPT ![d].wr = st, ![d].out = Written(d, n)])
    PROVE  IInv' /\ pipe'[d].out = pipe[d].out \o [i \in 1 .. n |-> Len(pipe[d].out) + i]
  <1>. DEFINE p == [pipe[d] EXCEPT !.wr = st, !.out = Written(d, n)]
              out == pipe[d].out \o [i \in 1 .. n |-> Len(pipe[d].out) + i]
  <1>1. /\ step = "relay" /\ pipe[d] \in Pipe /\ InOrder(pipe[d]) /\ OneOp(pipe[d])
        /\ pipe \in [Direction -> Pipe] /\ Open /\ Carries(pipe[d])
    BY Outstanding
  <1>2. Put([pipe EXCEPT ![d] = p])
    BY <1>1, Zenon
  <1>3. /\ pipe[d].got \in Nat /\ pipe[d].len \in Nat /\ pipe[d].out \in Seq(Nat) /\ n \in Nat
        /\ Len(pipe[d].out) \in Nat
        /\ Len(pipe[d].out) + pipe[d].len = pipe[d].got
    BY <1>1, PipeFields DEF Carries
  <1>4. Bytes(pipe[d].got - pipe[d].len + 1, n) = [i \in 1 .. n |-> Len(pipe[d].out) + i]
    BY <1>3, SMTT(30) DEF Bytes
  <1>5. Written(d, n) = out
    BY <1>4, Zenon DEF Written
  <1>6. out \in Seq(Nat) /\ Len(out) = Len(pipe[d].out) + n /\ \A i \in 1 .. Len(out) : out[i] = i
    BY <1>1, <1>3, LongerPrefix, Zenon DEF InOrder
  <1>. HIDE DEF out
  <1>8. /\ p \in Pipe /\ p.rd = pipe[d].rd /\ p.wr = st /\ p.len = pipe[d].len
        /\ p.got = pipe[d].got /\ p.out = out
    BY <1>1, <1>5, <1>6, Zenon DEF Pipe, Op
  <1>. HIDE DEF p
  <1>9. Len(out) <= pipe[d].got
    BY <1>3, <1>6
  <1>10. InOrder(p)
    BY <1>6, <1>8, <1>9, Zenon DEF InOrder
  <1>11. OneOp(p) /\ p.rd = "none"
    BY <1>1, <1>8 DEF OneOp
  <1>12. Carries(p)
    BY <1>3, <1>6, <1>8, <1>11 DEF Carries
  <1>13. IInv'
    BY <1>1, <1>2, <1>8, <1>10, <1>11, <1>12, PutStep, Zenon DEF Open
  <1>. QED  BY <1>1, <1>2, <1>8, <1>13, Zenon DEF Put, out

LEMMA ArriveIInv == ASSUME IInv, NEW d \in Direction, Arrive(d) PROVE IInv'
  <1>1. PICK n \in LeastRead(d) .. MaxRead :
            Put([pipe EXCEPT ![d].rd = "done", ![d].len = n, ![d].got = @ + n])
    BY Zenon DEF Arrive
  <1>2. n \in Nat /\ n <= MaxRead
    BY ClientAssumption DEF LeastRead
  <1>. QED  BY <1>1, <1>2, ReadIInv, Zenon DEF Arrive

LEMMA BufferedReadIInv == ASSUME IInv, BufferedRead PROVE IInv'
  <1>1. PICK n \in 1 .. MaxRead :
            Put([pipe EXCEPT !["down"].rd = "done", !["down"].len = n, !["down"].got = @ + n])
    BY Zenon DEF BufferedRead
  <1>2. n \in Nat /\ n <= MaxRead /\ "down" \in Direction
    BY ClientAssumption DEF Direction
  <1>. QED  BY <1>1, <1>2, ReadIInv, Zenon DEF BufferedRead

\* A write completes whole, or fails after a part of the buffer.
LEMMA TakeOut ==
    ASSUME IInv, NEW d \in Direction, Take(d) \/ WriteError(d)
    PROVE  /\ IInv' /\ Open
           /\ \E n \in 0 .. (pipe[d].got - Len(pipe[d].out)) :
                 pipe'[d].out = pipe[d].out \o [i \in 1 .. n |-> Len(pipe[d].out) + i]
  <1>1. pipe[d].wr = "pending"
    BY DEF Take, WriteError
  <1>2. pipe[d] \in Pipe /\ Open /\ Carries(pipe[d])
    BY <1>1, Outstanding
  <1>3. /\ pipe[d].len \in Nat /\ pipe[d].got \in Nat /\ Len(pipe[d].out) \in Nat
        /\ pipe[d].len = pipe[d].got - Len(pipe[d].out)
    BY <1>1, <1>2, PipeFields DEF Carries
  <1>4. ASSUME NEW n \in 0 .. pipe[d].len, NEW st \in {"done", "failed"}, st = "done" => n = pipe[d].len,
               Put([pipe EXCEPT ![d].wr = st, ![d].out = Written(d, n)])
        PROVE  /\ IInv'
               /\ \E m \in 0 .. (pipe[d].got - Len(pipe[d].out)) :
                     pipe'[d].out = pipe[d].out \o [i \in 1 .. m |-> Len(pipe[d].out) + i]
    <2>1. IInv' /\ pipe'[d].out = pipe[d].out \o [i \in 1 .. n |-> Len(pipe[d].out) + i]
      BY <1>1, <1>4, WriteIInv, Zenon
    <2>2. n \in 0 .. (pipe[d].got - Len(pipe[d].out))
      BY <1>3
    <2>. QED  BY <2>1, <2>2, Zenon
  <1>5. CASE Take(d)
    <2>1. pipe[d].len \in 0 .. pipe[d].len
      BY <1>3
    <2>. QED  BY <1>2, <1>4, <1>5, <2>1, Zenon DEF Take
  <1>6. CASE WriteError(d)
    <2>1. PICK n \in 0 .. (pipe[d].len - 1) :
              Put([pipe EXCEPT ![d].wr = "failed", ![d].out = Written(d, n)])
      BY <1>6 DEF WriteError
    <2>2. n \in 0 .. pipe[d].len
      BY <1>3
    <2>. QED  BY <1>2, <1>4, <2>1, <2>2, Zenon
  <1>. QED  BY <1>5, <1>6, Zenon

LEMMA ReadErrorIInv == ASSUME IInv, NEW d \in Direction, ReadError(d) PROVE IInv'
  <1>. DEFINE p == [pipe[d] EXCEPT !.rd = "failed"]
  <1>1. /\ pipe[d].rd = "pending" /\ step = "relay" /\ pipe[d] \in Pipe /\ pipe \in [Direction -> Pipe]
        /\ InOrder(pipe[d]) /\ OneOp(pipe[d]) /\ Open /\ Carries(pipe[d])
    BY Outstanding DEF ReadError
  <1>2. Put([pipe EXCEPT ![d] = p])
    BY <1>1, Zenon DEF ReadError
  <1>3. /\ p \in Pipe /\ p.rd = "failed" /\ p.wr = pipe[d].wr
        /\ p.got = pipe[d].got /\ p.out = pipe[d].out
    BY <1>1, Zenon DEF Pipe, Op
  <1>. HIDE DEF p
  <1>4. InOrder(p) /\ OneOp(p) /\ Carries(p)
    BY <1>1, <1>3 DEF InOrder, OneOp, Carries
  <1>. QED  BY <1>1, <1>2, <1>3, <1>4, PutStep, Zenon DEF Open

\* A handler that found an error destroys the session.
LEMMA FailedIInv ==
    ASSUME IInv, NEW d \in Direction, NEW p \in Pipe, p.got = pipe[d].got, p.out = pipe[d].out,
           p.rd = "none", p.wr = "none", step = "relay",
           destroy([pipe EXCEPT ![d] = p]), UNCHANGED <<step, response_sent, replies>>
    PROVE  IInv'
  <1>. DEFINE ps == [pipe EXCEPT ![d] = p]
  <1>1. ps \in [Direction -> Pipe] /\ \A e \in Direction : ps[e] = IF e = d THEN p ELSE pipe[e]
    BY DEF IInv, TypeOK
  <1>. HIDE DEF ps
  <1>2. InOrder(p) /\ OneOp(p)
    BY DEF IInv, InOrder, OneOp
  <1>3. \A e \in Direction : /\ InOrder(ps[e]) /\ OneOp(ps[e])
                             /\ destroyed => ps[e].rd # "pending" /\ ps[e].wr # "pending"
    BY <1>1, <1>2 DEF IInv
  <1>4. OneReply' /\ replies' \in Nat
    BY DEF IInv, TypeOK, OneReply
  <1>5. destroy(ps) /\ step' = step /\ response_sent' = response_sent
    BY DEF ps
  <1>6. destroyed => \A e \in Direction : ps[e].rd # "pending" /\ ps[e].wr # "pending"
    BY <1>3
  <1>. QED  BY <1>1, <1>3, <1>4, <1>5, <1>6, DestroyStep

\* The handler of a read starts the write of what was read; on a destroyed
\* session that write fails.
LEMMA ReadHandlerIInv == ASSUME IInv, NEW d \in Direction, ReadHandler(d) PROVE IInv'
  <1>. DEFINE ps == [pipe EXCEPT ![d].rd = "none"]
              r == [pipe[d] EXCEPT !.rd = "none"]
              w == [r EXCEPT !.wr = Start(@)]
  <1>1. /\ pipe[d].rd \in {"done", "failed"} /\ step = "relay" /\ pipe[d] \in Pipe
        /\ pipe \in [Direction -> Pipe]
        /\ InOrder(pipe[d]) /\ OneOp(pipe[d]) /\ (Open => Carries(pipe[d])) /\ pipe[d].wr = "none"
    BY Outstanding DEF ReadHandler, OneOp
  <1>2. /\ r \in Pipe /\ r.rd = "none" /\ r.wr = "none" /\ r.len = pipe[d].len
        /\ r.got = pipe[d].got /\ r.out = pipe[d].out
    BY <1>1, Zenon DEF Pipe, Op
  <1>3. ps = [pipe EXCEPT ![d] = r] /\ ps[d] = r
    BY <1>1, Zenon
  <1>4. CASE pipe[d].rd = "failed" /\ destroy(ps) /\ UNCHANGED <<step, response_sent, replies>>
    <2>. HIDE DEF r
    <2>. QED  BY <1>1, <1>2, <1>3, <1>4, FailedIInv, Zenon
  <1>5. CASE pipe[d].rd = "done" /\ Put(write_packet(ps, d))
    <2>1. /\ w \in Pipe /\ w.rd = "none" /\ w.wr = (IF Open THEN "pending" ELSE "failed")
          /\ w.len = pipe[d].len /\ w.got = pipe[d].got /\ w.out = pipe[d].out
      <3>. HIDE DEF r
      <3>. QED  BY <1>2 DEF Pipe, Op, Start
    <2>2. write_packet(ps, d) = [pipe EXCEPT ![d] = w]
      <3>1. write_packet(ps, d) = [ps EXCEPT ![d] = w]
        BY <1>3, Zenon DEF write_packet
      <3>. HIDE DEF r, w
      <3>. QED  BY <1>1, <1>3, <3>1, Zenon
    <2>. HIDE DEF w, r
    <2>3. InOrder(w) /\ OneOp(w)
      BY <1>1, <2>1 DEF InOrder, OneOp
    <2>4. Open => Carries(w)
      BY <1>1, <1>5, <2>1 DEF Carries
    <2>5. destroyed => w.rd # "pending" /\ w.wr # "pending"
      BY <2>1 DEF Open
    <2>. QED  BY <1>1, <1>5, <2>1, <2>2, <2>3, <2>4, <2>5, PutStep, Zenon
  <1>. QED  BY <1>4, <1>5 DEF ReadHandler

\* The handler of a write starts the next read.
LEMMA WriteHandlerIInv == ASSUME IInv, NEW d \in Direction, WriteHandler(d) PROVE IInv'
  <1>. DEFINE ps == [pipe EXCEPT ![d].wr = "none"]
              w == [pipe[d] EXCEPT !.wr = "none"]
              r == [w EXCEPT !.rd = Start(@)]
  <1>1. /\ pipe[d].wr \in {"done", "failed"} /\ step = "relay" /\ pipe[d] \in Pipe
        /\ pipe \in [Direction -> Pipe]
        /\ InOrder(pipe[d]) /\ OneOp(pipe[d]) /\ (Open => Carries(pipe[d])) /\ pipe[d].rd = "none"
    BY Outstanding DEF WriteHandler, OneOp
  <1>2. /\ w \in Pipe /\ w.rd = "none" /\ w.wr = "none"
        /\ w.got = pipe[d].got /\ w.out = pipe[d].out
    BY <1>1, Zenon DEF Pipe, Op
  <1>3. ps = [pipe EXCEPT ![d] = w] /\ ps[d] = w
    BY <1>1, Zenon
  <1>4. CASE pipe[d].wr = "failed" /\ destroy(ps) /\ UNCHANGED <<step, response_sent, replies>>
    <2>. HIDE DEF w
    <2>. QED  BY <1>1, <1>2, <1>3, <1>4, FailedIInv, Zenon
  <1>5. CASE pipe[d].wr = "done" /\ Put(read_packet(ps, {d}))
    <2>1. /\ r \in Pipe /\ r.wr = "none" /\ r.rd = (IF Open THEN "pending" ELSE "failed")
          /\ r.got = pipe[d].got /\ r.out = pipe[d].out
      <3>. HIDE DEF w
      <3>. QED  BY <1>2 DEF Pipe, Op, Start
    <2>2. read_packet(ps, {d}) = [pipe EXCEPT ![d] = r]
      <3>. DEFINE after(e) == IF e \in {d} THEN [ps[e] EXCEPT !.rd = Start(@)] ELSE ps[e]
      <3>1. read_packet(ps, {d}) = [e \in Direction |-> after(e)]
        BY DEF read_packet
      <3>2. after(d) = r
        BY <1>3, Zenon
      <3>3. \A e \in Direction \ {d} : after(e) = ps[e]
        OBVIOUS
      <3>. HIDE DEF r, w, after
      <3>. QED  BY <1>1, <1>3, <3>1, <3>2, <3>3, Zenon
    <2>. HIDE DEF w, r
    <2>3. InOrder(r) /\ OneOp(r)
      BY <1>1, <2>1 DEF InOrder, OneOp
    <2>4. Open => Carries(r)
      BY <1>1, <1>5, <2>1 DEF Carries
    <2>5. destroyed => r.rd # "pending" /\ r.wr # "pending"
      BY <2>1 DEF Open
    <2>. QED  BY <1>1, <1>5, <2>1, <2>2, <2>3, <2>4, <2>5, PutStep, Zenon
  <1>. QED  BY <1>4, <1>5 DEF WriteHandler

LEMMA NextIInv == ASSUME IInv, [Next]_vars PROVE IInv'
  <1>1. CASE UNCHANGED vars
    BY <1>1 DEF vars, IInv, TypeOK, CountedOnce, OneReply, ReplyAt, Open, InOrder, OneOp, Idle, Carries
  <1>2. CASE Ended
    BY <1>1, <1>2 DEF Ended
  <1>3. CASE SetUpNext
    BY <1>3, ChainIInv, RequestIInv, ReplyIInv, VReqIInv DEF SetUpNext
  <1>4. ASSUME NEW d \in Direction,
               \/ Arrive(d) \/ ReadError(d) \/ Take(d) \/ WriteError(d)
               \/ ReadHandler(d) \/ WriteHandler(d)
        PROVE  IInv'
    BY <1>4, ArriveIInv, ReadErrorIInv, TakeOut, ReadHandlerIInv, WriteHandlerIInv
  <1>. QED  BY <1>1, <1>2, <1>3, <1>4, BufferedReadIInv DEF Next

-----------------------------------------------------------------------------
\* The inductive invariant holds in every behaviour.
THEOREM SpecIInv == Spec => []IInv
  BY InitIInv, NextIInv, PTL DEF Spec

\* No socket has two reads or two writes outstanding (Client/Session.cpp:288).
THEOREM SpecOneOpPerSocket == Spec => []OneOpPerSocket
  <1>1. IInv => OneOpPerSocket
    BY DEF IInv, OneOp, OneOpPerSocket
  <1>. QED  BY <1>1, SpecIInv, PTL

\* A session is counted once while it lives and not at all when it is destroyed,
\* although both directions call destroy().
THEOREM SpecCountedOnce == Spec => []CountedOnce
  <1>1. IInv => CountedOnce
    BY DEF IInv
  <1>. QED  BY <1>1, SpecIInv, PTL

\* The application gets one reply to its request at most, and has it when the
\* relay starts.
THEOREM SpecOneReply == Spec => []OneReply
  <1>1. IInv => OneReply
    BY DEF IInv
  <1>. QED  BY <1>1, SpecIInv, PTL

-----------------------------------------------------------------------------
\* The refinement of BytePipe: what a step of the session does to the bytes of
\* direction d.

Stays(d) ==
    /\ pipe'[d].got = pipe[d].got /\ pipe'[d].out = pipe[d].out /\ destroyed' = destroyed

Receives(d) ==
    /\ \E n \in 0 .. MaxRead :
          /\ destroyed \/ pipe[d].got + n - Len(pipe[d].out) <= MaxRead
          /\ pipe[d].got + n <= MaxStream
          /\ pipe'[d].got = pipe[d].got + n
    /\ pipe'[d].out = pipe[d].out /\ destroyed' = destroyed

Longer(d, n) == pipe'[d].out = pipe[d].out \o [i \in 1 .. n |-> Len(pipe[d].out) + i]

Delivers(d) ==
    /\ ~destroyed
    /\ \E n \in 1 .. (pipe[d].got - Len(pipe[d].out)) : Longer(d, n)
    /\ pipe'[d].got = pipe[d].got /\ destroyed' = destroyed

Closes(d) ==
    /\ ~destroyed /\ destroyed' = TRUE
    /\ \E n \in 0 .. (pipe[d].got - Len(pipe[d].out)) : Longer(d, n)
    /\ pipe'[d].got = pipe[d].got

PipeStep(d) == Stays(d) \/ Receives(d) \/ Delivers(d) \/ Closes(d)

\* Writing nothing leaves the destination's bytes as they are.
LEMMA NothingWritten ==
    ASSUME NEW s \in Seq(Nat)
    PROVE  s \o [i \in 1 .. 0 |-> Len(s) + i] = s
  <1>1. [i \in 1 .. 0 |-> Len(s) + i] = <<>>
    OBVIOUS
  <1>. QED  BY <1>1, ConcatEmptySeq

LEMMA DestroyPipeStep ==
    ASSUME IInv, NEW STATE ps, ps \in [Direction -> Pipe],
           \A d \in Direction : ps[d].got = pipe[d].got /\ ps[d].out = pipe[d].out,
           destroy(ps), NEW d \in Direction
    PROVE  PipeStep(d)
  <1>1. CASE destroyed
    BY <1>1 DEF destroy, PipeStep, Stays
  <1>2. CASE ~destroyed
    <2>1. pipe' = [e \in Direction |-> [ps[e] EXCEPT !.rd = Abort(@), !.wr = Abort(@)]]
      BY <1>2, Zenon DEF destroy
    <2>2. destroyed' = TRUE
      BY <1>2, Zenon DEF destroy
    <2>3. pipe'[d].got = ps[d].got /\ pipe'[d].out = ps[d].out
      BY <2>1 DEF Pipe
    <2>4. /\ pipe[d].out \in Seq(Nat) /\ pipe[d].got \in Nat /\ Len(pipe[d].out) \in Nat
          /\ Len(pipe[d].out) <= pipe[d].got
      BY PipeFields DEF IInv, TypeOK, InOrder
    <2>5. Longer(d, 0)
      BY <2>3, <2>4, NothingWritten DEF Longer
    <2>6. 0 \in 0 .. (pipe[d].got - Len(pipe[d].out))
      BY <2>4
    <2>. QED  BY <1>2, <2>2, <2>3, <2>5, <2>6 DEF PipeStep, Closes
  <1>. QED  BY <1>1, <1>2

\* A step of direction e that leaves the bytes of e alone leaves those of d.
LEMMA PutPipeStep ==
    ASSUME IInv, NEW ps, ps \in [Direction -> Pipe], Put(ps),
           \A e \in Direction : ps[e].got = pipe[e].got /\ ps[e].out = pipe[e].out,
           NEW d \in Direction
    PROVE  PipeStep(d)
  BY DEF Put, PipeStep, Stays

LEMMA SetUpPipeStep == ASSUME IInv, SetUpNext, NEW d \in Direction PROVE PipeStep(d)
  <1>1. pipe \in [Direction -> Pipe]
    BY DEF IInv, TypeOK
  <1>2. CASE destroy(pipe)
    BY <1>1, <1>2, DestroyPipeStep
  <1>3. CASE UNCHANGED <<destroyed, pipe>>
    BY <1>3 DEF PipeStep, Stays
  <1>4. CASE StartRelay
    <2>1. pipe'[d] = [pipe[d] EXCEPT !.rd = Start(@)] /\ destroyed' = destroyed
      BY <1>4, Zenon DEF StartRelay, read_packet
    <2>. QED  BY <1>1, <2>1 DEF PipeStep, Stays, Pipe
  <1>. QED  BY <1>2, <1>3, <1>4 DEF SetUpNext, OnGreeting, OnAuthReply, OnRequest, OnUdpReply, OnControl,
              OnHttpLine, OnHttpReply, OnResolve, OnConnect, OnSsl, OnWs, OnVReq, OnSocksReply, Then, Throw, Fail

\* A read that completes fits the window: all earlier bytes have been written.
LEMMA ReadPipeStep ==
    ASSUME IInv, NEW e \in Direction, NEW n \in Nat, n <= MaxRead, pipe[e].got + n <= MaxStream,
           \/ pipe[e].rd = "pending"
           \/ destroyed /\ pipe[e].rd = "failed",
           Put([pipe EXCEPT ![e].rd = "done", ![e].len = n, ![e].got = @ + n]),
           NEW d \in Direction
    PROVE  PipeStep(d)
  <1>. DEFINE p == [pipe[e] EXCEPT !.rd = "done", !.len = n, !.got = @ + n]
  <1>1. /\ pipe[e] \in Pipe /\ pipe \in [Direction -> Pipe] /\ (Open => Carries(pipe[e]))
    BY Outstanding
  <1>2. p.got = pipe[e].got + n /\ p.out = pipe[e].out
    BY <1>1, ReadPipe, Zenon
  <1>3. Put([pipe EXCEPT ![e] = p])
    BY <1>1, Zenon
  <1>. HIDE DEF p
  <1>4. pipe' = [pipe EXCEPT ![e] = p] /\ destroyed' = destroyed
    BY <1>3, Zenon DEF Put
  <1>5. CASE d # e
    BY <1>1, <1>4, <1>5 DEF PipeStep, Stays
  <1>6. CASE d = e
    <2>1. pipe[d].got \in Nat /\ Len(pipe[d].out) \in Nat
      BY <1>1, <1>6, PipeFields
    <2>2. destroyed \/ Len(pipe[d].out) = pipe[d].got
      BY <1>1, <1>6 DEF Open, Carries
    <2>3. n \in 0 .. MaxRead
      BY ClientAssumption
    <2>4. destroyed \/ pipe[d].got + n - Len(pipe[d].out) <= MaxRead
      BY <2>1, <2>2, <2>3, ClientAssumption
    <2>5. pipe'[d].got = pipe[d].got + n /\ pipe'[d].out = pipe[d].out
      BY <1>1, <1>2, <1>4, <1>6
    <2>. QED  BY <1>4, <1>6, <2>3, <2>4, <2>5 DEF PipeStep, Receives
  <1>. QED  BY <1>5, <1>6

LEMMA WritePipeStep ==
    ASSUME IInv, NEW e \in Direction, Take(e) \/ WriteError(e), NEW d \in Direction
    PROVE  PipeStep(d)
  <1>1. pipe \in [Direction -> Pipe]
    BY DEF IInv, TypeOK
  <1>2. ASSUME NEW n, NEW st, Put([pipe EXCEPT ![e].wr = st, ![e].out = Written(e, n)])
        PROVE  /\ pipe'[e].got = pipe[e].got /\ destroyed' = destroyed
               /\ d # e => pipe'[d] = pipe[d]
    BY <1>1, <1>2 DEF Put, Pipe
  <1>3. /\ pipe'[e].got = pipe[e].got /\ destroyed' = destroyed
        /\ d # e => pipe'[d] = pipe[d]
    BY <1>2, Zenon DEF Take, WriteError
  <1>4. CASE d # e
    BY <1>3, <1>4 DEF PipeStep, Stays
  <1>5. CASE d = e
    <2>1. Open /\ \E n \in 0 .. (pipe[d].got - Len(pipe[d].out)) : Longer(d, n)
      BY <1>5, TakeOut, Zenon DEF Longer
    <2>2. PICK n \in 0 .. (pipe[d].got - Len(pipe[d].out)) : Longer(d, n)
      BY <2>1
    <2>3. pipe[d].got \in Nat /\ pipe[d].out \in Seq(Nat) /\ Len(pipe[d].out) \in Nat
      BY <1>1, PipeFields
    <2>4. CASE n = 0
      BY <1>3, <1>5, <2>2, <2>3, <2>4, NothingWritten DEF Longer, PipeStep, Stays
    <2>5. CASE n # 0
      <3>1. n \in 1 .. (pipe[d].got - Len(pipe[d].out))
        BY <2>3, <2>5
      <3>. QED  BY <1>3, <1>5, <2>1, <2>2, <3>1 DEF PipeStep, Delivers, Open
    <2>. QED  BY <2>4, <2>5
  <1>. QED  BY <1>4, <1>5

LEMMA HandlerPipeStep ==
    ASSUME IInv, NEW e \in Direction, ReadError(e) \/ ReadHandler(e) \/ WriteHandler(e),
           NEW d \in Direction
    PROVE  PipeStep(d)
  <1>1. pipe \in [Direction -> Pipe]
    BY DEF IInv, TypeOK
  <1>2. ASSUME NEW st \in Op
        PROVE  LET r == [pipe EXCEPT ![e].rd = st]
                   w == [pipe EXCEPT ![e].wr = st]
               IN  /\ r \in [Direction -> Pipe] /\ w \in [Direction -> Pipe]
                   /\ \A f \in Direction : /\ r[f].got = pipe[f].got /\ r[f].out = pipe[f].out
                                           /\ w[f].got = pipe[f].got /\ w[f].out = pipe[f].out
    BY <1>1, Zenon DEF Pipe
  <1>3. "none" \in Op /\ "failed" \in Op
    BY DEF Op
  <1>4. CASE ReadError(e)
    BY <1>2, <1>3, <1>4, PutPipeStep, Zenon DEF ReadError
  <1>5. CASE ReadHandler(e)
    <2>. DEFINE ps == [pipe EXCEPT ![e].rd = "none"]
    <2>1. ps \in [Direction -> Pipe] /\ \A f \in Direction : ps[f].got = pipe[f].got /\ ps[f].out = pipe[f].out
      BY <1>2, <1>3, Zenon
    <2>2. destroy(ps) \/ Put(write_packet(ps, e))
      BY <1>5, Zenon DEF ReadHandler
    <2>. HIDE DEF ps
    <2>3. CASE destroy(ps)
      BY <2>1, <2>3, DestroyPipeStep
    <2>4. CASE Put(write_packet(ps, e))
      <3>1. pipe' = [ps EXCEPT ![e].wr = Start(@)] /\ destroyed' = destroyed
        BY <2>4 DEF Put, write_packet
      <3>2. pipe'[d].got = ps[d].got /\ pipe'[d].out = ps[d].out
        BY <2>1, <3>1 DEF Pipe
      <3>. QED  BY <2>1, <3>1, <3>2 DEF PipeStep, Stays
    <2>. QED  BY <2>2, <2>3, <2>4
  <1>6. CASE WriteHandler(e)
    <2>. DEFINE ps == [pipe EXCEPT ![e].wr = "none"]
    <2>1. ps \in [Direction -> Pipe] /\ \A f \in Direction : ps[f].got = pipe[f].got /\ ps[f].out = pipe[f].out
      BY <1>2, <1>3, Zenon
    <2>2. destroy(ps) \/ Put(read_packet(ps, {e}))
      BY <1>6, Zenon DEF WriteHandler
    <2>. HIDE DEF ps
    <2>3. CASE destroy(ps)
      BY <2>1, <2>3, DestroyPipeStep
    <2>4. CASE Put(read_packet(ps, {e}))
      <3>1. pipe'[d] = (IF d \in {e} THEN [ps[d] EXCEPT !.rd = Start(@)] ELSE ps[d]) /\ destroyed' = destroyed
        BY <2>4, Zenon DEF Put, read_packet
      <3>2. pipe'[d].got = ps[d].got /\ pipe'[d].out = ps[d].out
        BY <2>1, <3>1 DEF Pipe
      <3>. QED  BY <2>1, <3>1, <3>2 DEF PipeStep, Stays
    <2>. QED  BY <2>2, <2>3, <2>4
  <1>. QED  BY <1>4, <1>5, <1>6

LEMMA NextPipeStep == ASSUME IInv, [Next]_vars, NEW d \in Direction PROVE PipeStep(d)
  <1>1. CASE UNCHANGED vars \/ Ended
    BY <1>1 DEF Ended, vars, PipeStep, Stays
  <1>2. ASSUME NEW e \in Direction, Arrive(e) PROVE PipeStep(d)
    <2>1. PICK n \in LeastRead(e) .. MaxRead :
            /\ pipe[e].got + n <= MaxStream
            /\ Put([pipe EXCEPT ![e].rd = "done", ![e].len = n, ![e].got = @ + n])
      BY <1>2, Zenon DEF Arrive
    <2>2. n \in Nat /\ n <= MaxRead
      BY ClientAssumption DEF LeastRead
    <2>. QED  BY <1>2, <2>1, <2>2, ReadPipeStep, Zenon DEF Arrive
  <1>3. CASE BufferedRead
    <2>1. PICK n \in 1 .. MaxRead :
            /\ pipe["down"].got + n <= MaxStream
            /\ Put([pipe EXCEPT !["down"].rd = "done", !["down"].len = n, !["down"].got = @ + n])
      BY <1>3, Zenon DEF BufferedRead
    <2>2. n \in Nat /\ n <= MaxRead /\ "down" \in Direction
      BY ClientAssumption DEF Direction
    <2>. QED  BY <1>3, <2>1, <2>2, ReadPipeStep, Zenon DEF BufferedRead
  <1>. QED  BY <1>1, <1>2, <1>3, SetUpPipeStep, WritePipeStep, HandlerPipeStep DEF Next

\* Each direction of the relay is an abstract pipe with a window of one buffer:
\* bytes leave in order, each once, none before the previous buffer is written and
\* none after destroy(), whichever handlers still run.  (That they leave at all
\* unless the session ends is the fairness part of RelayImplementsPipe.)
THEOREM SpecImplementsPipe == Spec => Up!Safe /\ Down!Safe
  <1>1. Init => Up!Init /\ Down!Init
    BY DEF Init, Up!Init, Down!Init, Direction
  <1>2. ASSUME PipeStep("up") PROVE [Up!Next]_(Up!vars)
    BY <1>2 DEF PipeStep, Stays, Receives, Delivers, Closes, Longer,
                Up!Next, Up!Receive, Up!Deliver, Up!Close, Up!Upto, Up!vars
  <1>3. ASSUME PipeStep("down") PROVE [Down!Next]_(Down!vars)
    BY <1>3 DEF PipeStep, Stays, Receives, Delivers, Closes, Longer,
                Down!Next, Down!Receive, Down!Deliver, Down!Close, Down!Upto, Down!vars
  <1>4. IInv /\ [Next]_vars => [Up!Next]_(Up!vars) /\ [Down!Next]_(Down!vars)
    BY <1>2, <1>3, NextPipeStep DEF Direction
  <1>. QED  BY <1>1, <1>4, SpecIInv, PTL DEF Spec, Up!Safe, Down!Safe

=============================================================================
