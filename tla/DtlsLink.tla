------------------------------ MODULE DtlsLink -------------------------------
(***************************************************************************)
(* The shared DTLS channel: DtlsChannel on the client, DtlsListener and    *)
(* DtlsServerSession on the server, and the UDP network between them.      *)
(*                                                                         *)
(* Each end drives an OpenSSL engine through two memory BIOs: received     *)
(* datagrams are put in the read BIO, what the engine writes stays in the  *)
(* write BIO until the code drains it to the socket.  The engine is        *)
(* external; its handshake is four flights (hello, server hello, finished, *)
(* server finished), and a frame or the password is one record under the   *)
(* key of the handshake it belongs to.  A record under another key is      *)
(* dropped by the engine.                                                  *)
(***************************************************************************)
EXTENDS Integers, Sequences, FiniteSets, Functions

CONSTANTS
    Frame,      \* the frames the relays send
    Oversize,   \* those whose packet one DTLS record cannot hold
    BigReply,   \* those whose reply one DTLS record cannot hold
    MaxTimeout, \* the timeouts of one flight after which the engine gives up
    MaxNet,     \* bound: datagrams in flight in each direction
    MaxSession  \* bound: server sessions created for the client's endpoint

ASSUME LinkAssumption ==
    /\ Oversize \subseteq Frame /\ BigReply \subseteq Frame
    /\ MaxTimeout \in Nat /\ MaxNet \in Nat \ {0} /\ MaxSession \in Nat \ {0}

VARIABLES
    chan,       \* the client's channel
    posted,     \* a do_handshake is posted to the io_context
    pending,    \* pending_frames_ of the relays
    c2s, s2c,   \* the datagrams in flight
    sess,       \* the server's session for the client, if sessions_ has one
    created,    \* server sessions created so far
    good,       \* the client's password is one the server allows
    lossy,      \* the network may lose and reorder datagrams
    forwarded,  \* the frames the server has handed to their targets
    replied     \* the frames whose reply the client has received

vars == <<chan, posted, pending, c2s, s2c, sess, created, good, lossy, forwarded, replied>>

Msg == [t : {"hello", "shello", "finished", "sfinished", "auth", "frame", "reply", "close"},
        key : 0 .. MaxSession, f : Frame \cup {"-"}]

\* The network without its i-th datagram.
Without(net, i) == SubSeq(net, 1, i - 1) \o SubSeq(net, i + 1, Len(net))

Flight(t, key) == [t |-> t, key |-> key, f |-> "-"]
Data(t, key, f) == [t |-> t, key |-> key, f |-> f]

\* eng: where the client's engine is; rbio, wbio: what the BIOs hold.
Channel == [running : BOOLEAN, receiving : BOOLEAN, done : BOOLEAN, key : 0 .. MaxSession,
            eng : {"idle", "hello", "finished", "done", "failed"},
            timeouts : 0 .. MaxTimeout, rbio : SUBSET Msg, wbio : Seq(Msg)]

NoSession == [state |-> "NONE", eng |-> "idle", key |-> 0, wbio |-> <<>>]

Session == [state : {"NONE", "HANDSHAKE", "AUTH", "PROXY"},
            eng : {"idle", "shello", "done"}, key : 0 .. MaxSession, wbio : Seq(Msg)]

Init ==
    /\ chan = [running |-> FALSE, receiving |-> FALSE, done |-> FALSE, key |-> 0,
               eng |-> "idle", timeouts |-> 0, rbio |-> {}, wbio |-> <<>>]
    /\ posted = FALSE /\ pending = {}
    /\ c2s = <<>> /\ s2c = <<>>
    /\ sess = NoSession /\ created = 0
    /\ good \in BOOLEAN /\ lossy \in BOOLEAN
    /\ forwarded = {} /\ replied = {}

-----------------------------------------------------------------------------
\* The client: DtlsChannel, and the relays that use it.

\* drain_write_bio: everything in the write BIO goes to the socket.
drain_write_bio(c) == chan' = [c EXCEPT !.wbio = <<>>] /\ c2s' = c2s \o c.wbio

\* SSL_write of what a record can hold; of what it cannot, SSL_write fails and
\* leaves the engine as it is.
SslWrite(c, m) == [c EXCEPT !.wbio = Append(@, m)]

start ==
    /\ ~chan.running /\ chan.eng = "idle"
    /\ chan' = [chan EXCEPT !.running = TRUE, !.receiving = TRUE]
    /\ posted' = TRUE
    /\ UNCHANGED <<pending, c2s, s2c, sess, created, good, lossy, forwarded, replied>>

\* SSL_do_handshake with what the read BIO holds.
Handshake(c) ==
    LET shellos == {m \in c.rbio : m.t = "shello"}
        key     == (CHOOSE m \in shellos : TRUE).key
        in      == [c EXCEPT !.rbio = {}]
    IN  IF c.eng = "idle"
          THEN [SslWrite(in, Flight("hello", 0)) EXCEPT !.eng = "hello"]
        ELSE IF c.eng = "hello" /\ shellos # {}
          THEN [SslWrite(in, Flight("finished", key)) EXCEPT !.eng = "finished",
                                                          !.key = key, !.timeouts = 0]
        ELSE IF c.eng = "finished" /\ Flight("sfinished", c.key) \in c.rbio
          THEN [in EXCEPT !.eng = "done"]
        ELSE in

\* The orders that the frames of S can be sent in, and their records.
Orders(S) == Bijection(1 .. Cardinality(S), S)
Records(key, fs) == [i \in DOMAIN fs |-> Data("frame", key, fs[i])]

\* Mutant: the relays are flushed before the password is sent.
Completed_flushfirst(c, order) ==
    SslWrite([c EXCEPT !.done = TRUE, !.wbio = @ \o Records(c.key, order)], Flight("auth", c.key))

\* When the handshake completes: the password, which a record holds, then
\* flush_pending of every relay of relays_, an unordered_map, so in any order of
\* the frames.
Completed(c, order) ==
    LET auth == SslWrite(c, Flight("auth", c.key))
    IN  [auth EXCEPT !.done = TRUE, !.wbio = @ \o Records(c.key, order)]

\* Mutant: an engine that still wants to read is taken for a connected one.
do_handshake_early(c) ==
    IF ~c.running \/ c.done \/ c.eng = "failed"
      THEN chan' = c /\ UNCHANGED <<c2s, pending>>
      ELSE LET h == Handshake(c)
           IN  IF h.eng \in {"finished", "done"}
                 THEN /\ \E order \in Orders(pending \ Oversize) :
                            drain_write_bio(Completed(h, order))
                      /\ pending' = {}
                 ELSE drain_write_bio(h) /\ UNCHANGED pending

\* A queued frame that SSL_write refuses is popped like the others.
do_handshake(c) ==
    IF ~c.running \/ c.done \/ c.eng = "failed"
      THEN chan' = c /\ UNCHANGED <<c2s, pending>>
      ELSE LET h == Handshake(c)
           IN  IF h.eng = "done"
                 THEN /\ \E order \in Orders(pending \ Oversize) :
                            drain_write_bio(Completed(h, order))
                      /\ pending' = {}
                 ELSE drain_write_bio(h) /\ UNCHANGED pending

RunPosted ==
    /\ posted
    /\ Len(c2s) < MaxNet
    /\ do_handshake(chan)
    /\ posted' = FALSE
    /\ UNCHANGED <<s2c, sess, created, good, lossy, forwarded, replied>>

\* The flight DTLSv1_handle_timeout writes again.
LastFlight(c) ==
    IF c.eng = "hello" THEN <<Flight("hello", 0)>>
    ELSE IF c.eng = "finished" THEN <<Flight("finished", c.key)>>
    ELSE <<>>

\* The timer do_handshake set while the engine wants to read.  After too many
\* timeouts the engine has failed, and do_handshake calls on_handshake_(false).
handle_timeout ==
    /\ chan.running /\ chan.eng \in {"hello", "finished"}
    /\ Len(c2s) < MaxNet
    /\ IF chan.timeouts = MaxTimeout
         THEN chan' = [chan EXCEPT !.eng = "failed"] /\ UNCHANGED <<c2s, pending>>
         ELSE do_handshake([chan EXCEPT !.wbio = @ \o LastFlight(chan), !.timeouts = @ + 1])
    /\ UNCHANGED <<posted, s2c, sess, created, good, lossy, forwarded, replied>>

\* A relay's frame: the application may send the same one again.  One that
\* SSL_write refuses is gone.
Send(f) ==
    /\ f \notin replied
    /\ Len(c2s) < MaxNet
    /\ IF chan.done /\ chan.running
         THEN /\ IF f \in Oversize
                   THEN UNCHANGED <<chan, c2s>>
                   ELSE drain_write_bio(SslWrite(chan, Data("frame", chan.key, f)))
              /\ UNCHANGED pending
         ELSE /\ ~chan.done
              /\ pending' = pending \cup {f}
              /\ UNCHANGED <<chan, c2s>>
    /\ UNCHANGED <<posted, s2c, sess, created, good, lossy, forwarded, replied>>

\* DtlsChannel::stop(): SSL_shutdown puts its alert in the write BIO.
stop ==
    /\ chan.running
    /\ chan' = [chan EXCEPT !.running = FALSE,
                            !.wbio = IF chan.done THEN Append(@, Flight("close", chan.key)) ELSE @]
    /\ UNCHANGED <<posted, pending, c2s, s2c, sess, created, good, lossy, forwarded, replied>>

\* The datagrams the network may hand over next.
Deliverable(net) == IF lossy THEN DOMAIN net ELSE DOMAIN net \cap {1}

\* on_receive, then do_handshake posted or the record read.
on_receive(i) ==
    /\ i \in Deliverable(s2c)
    /\ s2c' = Without(s2c, i)
    /\ IF ~chan.running \/ ~chan.receiving
         THEN UNCHANGED <<chan, posted, replied>>
       ELSE IF ~chan.done
         THEN /\ chan' = [chan EXCEPT !.rbio = @ \cup {s2c[i]}]
              /\ posted' = TRUE
              /\ UNCHANGED replied
       ELSE /\ replied' = replied \cup
                  {f \in Frame : s2c[i] = Data("reply", chan.key, f)}
            /\ UNCHANGED <<chan, posted>>
    /\ UNCHANGED <<pending, c2s, sess, created, good, lossy, forwarded>>

\* on_receive with an error: the next receive is not started.
on_receive_error ==
    /\ chan.running /\ chan.receiving
    /\ chan' = [chan EXCEPT !.receiving = FALSE]
    /\ UNCHANGED <<posted, pending, c2s, s2c, sess, created, good, lossy, forwarded, replied>>

-----------------------------------------------------------------------------
\* The server: DtlsListener and DtlsServerSession.

\* drain_wbio, which process_handshake and send_to_client call.
drain_wbio(s) == sess' = [s EXCEPT !.wbio = <<>>] /\ s2c' = s2c \o s.wbio

\* destroy(): remove_session erases it from sessions_.
destroy == sess' = NoSession

\* SSL_accept of one datagram; a repeated hello is answered again only when the
\* engine's own timer has run out.
Accept(s, m) ==
    IF s.eng = "idle" /\ m.t = "hello"
      THEN {[s EXCEPT !.eng = "shello", !.wbio = Append(@, Flight("shello", s.key))]}
    ELSE IF s.eng = "shello" /\ m.t = "hello"
      THEN {s, [s EXCEPT !.wbio = Append(@, Flight("shello", s.key))]}
    ELSE IF s.eng = "shello" /\ m = Flight("finished", s.key)
      THEN {[s EXCEPT !.eng = "done", !.wbio = Append(@, Flight("sfinished", s.key))]}
    ELSE {s}

\* A datagram of another handshake, or of none, which the engine drops or fails on.
Foreign(s, m) == m.t # "hello" /\ m # Flight("finished", s.key)

\* When SSL_accept succeeds, SSL_read finds nothing yet: a client sends no record
\* before it has the answer to its finished.  When it fails on a datagram, the
\* session is destroyed; the client that sent it is past its own handshake, and
\* drops the alert.
process_handshake(s, m) ==
    /\ \/ \E a \in Accept(s, m) :
             drain_wbio(IF a.eng = "done" THEN [a EXCEPT !.state = "AUTH"] ELSE a)
       \/ Foreign(s, m) /\ destroy /\ UNCHANGED s2c
    /\ UNCHANGED forwarded

\* Mutant: the password is not looked up.
Authenticate_any(s, m) ==
    /\ IF m.t = "auth" THEN sess' = [s EXCEPT !.state = "PROXY"] ELSE destroy
    /\ UNCHANGED forwarded

\* Mutant: the password is right and the proxy not started.
Authenticate_stays(s, m) ==
    /\ IF m.t = "auth" /\ good THEN sess' = s ELSE destroy
    /\ UNCHANGED forwarded

\* A frame holds the byte '\n' (the magic is 0x0D0A), so in AUTH it is read as
\* a password line, and no such line is an allowed password.
Authenticate(s, m) ==
    /\ IF m.t = "auth" /\ good THEN sess' = [s EXCEPT !.state = "PROXY"] ELSE destroy
    /\ UNCHANGED forwarded

\* SSL_read of one datagram: the engine answers a repeated finished by writing
\* its own again, drops what is stale, and hands over data.
try_read_app_data(s, m) ==
    /\ IF m = Flight("finished", s.key)
         THEN /\ sess' = [s EXCEPT !.wbio = <<Flight("sfinished", s.key)>>]
              /\ UNCHANGED forwarded
       ELSE IF m.key # s.key \/ m.t = "hello"
         THEN sess' = s /\ UNCHANGED forwarded
       ELSE IF m.t = "close"
         THEN destroy /\ UNCHANGED forwarded
       ELSE IF s.state = "AUTH"
         THEN Authenticate(s, m)
       ELSE /\ sess' = s
            /\ forwarded' = forwarded \cup ({m.f} \cap Frame)
    /\ UNCHANGED s2c

\* DtlsListener: the session of the sender, or a new one, gets the datagram.
do_receive(i) ==
    /\ i \in Deliverable(c2s)
    /\ Len(s2c) < MaxNet
    /\ c2s' = Without(c2s, i)
    /\ LET new == sess.state = "NONE"
           s   == IF new THEN [NoSession EXCEPT !.state = "HANDSHAKE", !.key = created + 1]
                         ELSE sess
       IN  /\ new => created < MaxSession
           /\ created' = IF new THEN created + 1 ELSE created
           /\ IF s.state = "HANDSHAKE" THEN process_handshake(s, c2s[i])
                                       ELSE try_read_app_data(s, c2s[i])
    /\ UNCHANGED <<chan, posted, pending, good, lossy, replied>>

\* A target answers: do_read_target's handler and send_to_client, which drains
\* nothing when SSL_write refuses the reply.
do_read_target(f) ==
    /\ sess.state = "PROXY" /\ f \in forwarded
    /\ Len(s2c) < MaxNet
    /\ IF f \in BigReply
         THEN UNCHANGED <<sess, s2c>>
         ELSE drain_wbio([sess EXCEPT !.wbio = Append(@, Data("reply", sess.key, f))])
    /\ UNCHANGED <<chan, posted, pending, c2s, created, good, lossy, forwarded, replied>>

-----------------------------------------------------------------------------
LoseToServer(i) ==
    /\ lossy /\ c2s' = Without(c2s, i)
    /\ UNCHANGED <<chan, posted, pending, s2c, sess, created, good, lossy, forwarded, replied>>

LoseToClient(i) ==
    /\ lossy /\ s2c' = Without(s2c, i)
    /\ UNCHANGED <<chan, posted, pending, c2s, sess, created, good, lossy, forwarded, replied>>

Next ==
    \/ start \/ RunPosted \/ handle_timeout \/ stop \/ on_receive_error
    \/ \E f \in Frame : Send(f) \/ do_read_target(f)
    \/ \E i \in DOMAIN s2c : on_receive(i) \/ LoseToClient(i)
    \/ \E i \in DOMAIN c2s : do_receive(i) \/ LoseToServer(i)

Spec == Init /\ [][Next]_vars

\* Datagrams of kind t that are delivered.
ToServer(t) == \E i \in DOMAIN c2s : c2s[i].t = t /\ do_receive(i)
ToClient(t) == \E i \in DOMAIN s2c : s2c[i].t = t /\ on_receive(i)

\* The frames that both ends can send: the packet and its reply each fit in a
\* record.
Sendable == Frame \ (Oversize \cup BigReply)

\* Posted work and timers run; the application sends such a frame again until it
\* is answered; a target answers; and a datagram that is sent again and again is
\* delivered in the end, whatever its kind.
FairSpec ==
    /\ Spec
    /\ WF_vars(start) /\ WF_vars(RunPosted) /\ WF_vars(handle_timeout)
    /\ \A f \in Sendable : SF_vars(Send(f)) /\ SF_vars(do_read_target(f))
    /\ \A t \in {"hello", "finished", "auth", "frame"} : SF_vars(ToServer(t))
    /\ \A t \in {"shello", "sfinished", "reply"} : SF_vars(ToClient(t))

-----------------------------------------------------------------------------
TypeOK ==
    /\ chan \in Channel /\ sess \in Session /\ created \in 0 .. MaxSession
    /\ c2s \in Seq(Msg) /\ s2c \in Seq(Msg)
    /\ posted \in BOOLEAN /\ good \in BOOLEAN /\ lossy \in BOOLEAN
    /\ pending \subseteq Frame /\ forwarded \subseteq Frame /\ replied \subseteq Frame

\* "密码错误 | 使用错误密码连接 DTLS | 拒绝连接" (UDP_PROXY_DESIGN.md:410): with a
\* wrong password nothing is forwarded, whatever the network does.
WrongPasswordRefused == ~good => forwarded = {} /\ sess.state # "PROXY"

\* A channel that says it is ready (is_ready) has finished its handshake with
\* a session the server really completed: the key is one the server made, and
\* while that session lives its engine is done.
ReadyMeansConnected ==
    chan.done => /\ chan.key \in 1 .. created
                 /\ sess.key = chan.key => sess.eng = "done"

\* A frame the relays queued before the handshake (pending_frames_) leaves the
\* queue only for the network, behind the password; one that SSL_write refuses
\* is lost alone, and takes none of the frames queued around it along.
FlushedBehindPassword ==
    [][\A f \in pending \ Oversize : f \notin pending' =>
          \E i, j \in DOMAIN c2s' : /\ i < j /\ c2s'[i].t = "auth"
                                    /\ c2s'[j] = Data("frame", chan'.key, f)]_vars

\* A frame the application sends, again and again, is answered, unless the
\* channel is stopped, its handshake is given up or its receive loop has ended.
Answered(f) ==
    good /\ (f \in pending \/ chan.done)
        ~> f \in replied \/ ~chan.running \/ ~chan.receiving \/ chan.eng = "failed"

\* On a network that delivers everything in order, the frames the relays queue
\* before the handshake and those they send after it are answered, if a record
\* holds the packet and the reply, whatever frames and replies SSL_write refuses
\* in between.  (One it refuses is never answered, and nobody is told.)
FramesAnswered == \A f \in Sendable : ~lossy => Answered(f)

\* "UDP 不可靠 | 数据包丢失无重传 | 依赖上层协议 (DNS 有重传...)"
\* (UDP_PROXY_DESIGN.md:395): a lost packet costs a retransmission by the
\* application, so on any network one that keeps sending is answered in the end.
RetryGetsThrough == \A f \in Sendable : Answered(f)

=============================================================================
