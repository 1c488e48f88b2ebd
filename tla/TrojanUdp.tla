------------------------------ MODULE TrojanUdp ------------------------------
(***************************************************************************)
(* The UDP_ASSOCIATE part of a server session (Server/Session.cpp): the    *)
(* client's datagrams come framed in its TLS or WebSocket stream, are cut  *)
(* out of upstream_udp_buff and sent to their targets; the targets'        *)
(* datagrams are framed and written back.                                  *)
(*                                                                         *)
(* Two chains of operations run side by side, one per direction, after a   *)
(* first packet has gone out: in down, a read, then perhaps a resolve,     *)
(* then a send; in up, a receive, then a write.  The environment completes *)
(* an operation in one step and the handler runs in a later one.           *)
(*                                                                         *)
(* The stream is the sequence of packets the client sends, given by the    *)
(* positions where they end.  A packet is named by its number, and a       *)
(* datagram with it.                                                       *)
(***************************************************************************)
EXTENDS Integers, Sequences

CONSTANTS
    Packets,    \* the number of packets in the client's stream
    End,        \* where packet k ends; packet k + 1 starts there
    Malformed,  \* the packets that UDPPacket::parse rejects
    MaxBuff,    \* MAX_BUFF_SIZE
    MaxReplies  \* bound: datagrams the targets send

ASSUME UdpAssumption ==
    /\ Packets \in Nat /\ Malformed \subseteq 1 .. Packets
    /\ End \in [0 .. Packets -> Nat] /\ End[0] = 0
    /\ \A i, j \in 0 .. Packets : i < j => End[i] < End[j]
    /\ MaxBuff \in Nat \ {0} /\ MaxReplies \in Nat

VARIABLES
    open,       \* state_ # DESTROY
    phase,      \* "proxy": the first packet; "relay": both directions
    buf,        \* upstream_udp_buff: its place in the stream, size and udp_buff_offset_
    down, up,   \* the operation each chain waits for
    usock,      \* downstream_udp_socket is open
    sent,       \* the datagrams sent to targets
    back,       \* the datagrams written to the client
    cause       \* why the session was destroyed

vars == <<open, phase, buf, down, up, usock, sent, back, cause>>

Packet == 1 .. Packets

PacketLen == [k \in Packet |-> End[k] - End[k - 1]]

\* n: bytes read, or the number of the packet or datagram being handled.
Op == [op : {"none", "read", "resolve", "send", "recv", "write"},
       st : {"pending", "done", "failed"}, n : Nat]

NoOp == [op |-> "none", st |-> "done", n |-> 0]

\* Starting an operation on a socket: it fails when destroy() has closed it.
Start(op, n) == [op |-> op, st |-> IF open THEN "pending" ELSE "failed", n |-> n]

\* What a send reads after its buffer is gone.
Garbage == 0

-----------------------------------------------------------------------------
\* upstream_udp_buff

Front(b) == b.base + b.off

Unparsed(b) == b.size - b.off

\* UDPPacket::parse at the offset: a whole, well-formed packet is there.
Parses(b, k) ==
    /\ k \in Packet \ Malformed
    /\ End[k - 1] = Front(b)
    /\ PacketLen[k] <= Unparsed(b)

\* Mutant: the limit is on the whole buffer, parsed packets included.
TooLong_whole(b) == b.size > MaxBuff

\* "UDP packet too long": what is left to parse is over the limit.
TooLong(b) == Unparsed(b) > MaxBuff

Received(b, n) == [b EXCEPT !.size = @ + n]

\* Mutant: the erase leaves the offset where it was.
Advance_stale(b, len) ==
    LET off == b.off + len
    IN  IF off > MaxBuff \div 2 /\ off < b.size
          THEN [base |-> b.base + off, size |-> b.size - off, off |-> off]
          ELSE [b EXCEPT !.off = off]

\* Mutant: the offset is not moved past the packet.
Advance_not(b, len) == b

\* udp_buff_offset_ += packet_len, and the erase that follows.
Advance(b, len) ==
    LET off == b.off + len
    IN  IF off > MaxBuff \div 2 /\ off < b.size
          THEN [base |-> b.base + off, size |-> b.size - off, off |-> 0]
          ELSE [b EXCEPT !.off = off]

-----------------------------------------------------------------------------
Init ==
    /\ open = TRUE /\ phase = "proxy" /\ usock = FALSE
    /\ buf = [base |-> 0, size |-> 0, off |-> 0]
    /\ \E n \in 0 .. MaxBuff :         \* trojanReq.payload
          n <= End[Packets] /\ down = [op |-> "read", st |-> "done", n |-> n]
    /\ up = NoOp
    /\ sent = <<>> /\ back = <<>>
    /\ cause = "none"

\* Mutant: destroy() leaves the sockets open.
Abort_not(o) == o

\* destroy() closes the sockets, but does not cancel udp_resolver.
Abort(o) == IF o.st = "pending" /\ o.op # "resolve" THEN [o EXCEPT !.st = "failed"] ELSE o

\* destroy() called by a handler that leaves the chains as d and u.
destroy(why, d, u) ==
    IF open
      THEN open' = FALSE /\ usock' = FALSE /\ cause' = why /\ down' = Abort(d) /\ up' = Abort(u)
      ELSE UNCHANGED <<open, usock, cause>> /\ down' = d /\ up' = u

\* async_send_to of a packet whose payload is a local variable: the kernel
\* takes it at once, or the send waits and the buffer is gone when it is taken.
SendDown(k) ==
    \/ open /\ down' = [op |-> "send", st |-> "done", n |-> k] /\ sent' = sent \o <<k>>
    \/ down' = Start("send", k) /\ UNCHANGED sent

\* In the proxy phase the socket is opened for the first target, and that may fail.
OpenAndSend(k) ==
    \/ usock' = (usock \/ phase = "proxy") /\ SendDown(k) /\ UNCHANGED <<open, up, cause>>
    \/ phase = "proxy" /\ destroy("error", NoOp, up) /\ UNCHANGED sent

\* The DNS cache answers, or the resolver is asked.
Forward(k) ==
    \/ OpenAndSend(k)
    \/ /\ down' = [op |-> "resolve", st |-> "pending", n |-> k]
       /\ UNCHANGED <<open, up, usock, sent, cause>>

\* The handler of a read from the client, in both phases: udp_upstream_read
\* with handle_trojan_udp_proxy, and udp_async_bidirectional_read(DIR_DOWN).
ReadHandler ==
    /\ down.op = "read" /\ down.st # "pending"
    /\ \/ down.st = "failed" /\ destroy("error", NoOp, up) /\ UNCHANGED <<buf, sent>>
       \/ LET b == Received(buf, down.n)
          IN  /\ down.st = "done"
              /\ \/ \E k \in Packet : /\ Parses(b, k)
                                      /\ buf' = Advance(b, PacketLen[k])
                                      /\ Forward(k)
                 \/ /\ ~\E k \in Packet : Parses(b, k)
                    /\ buf' = b
                    /\ UNCHANGED sent
                    /\ IF TooLong(b)
                         THEN destroy("toolong", NoOp, up)
                         ELSE down' = Start("read", 0) /\ UNCHANGED <<open, up, usock, cause>>
    /\ UNCHANGED <<phase, back>>

ResolveHandler ==
    /\ down.op = "resolve" /\ down.st # "pending"
    /\ \/ down.st = "failed" /\ destroy("error", NoOp, up) /\ UNCHANGED sent
       \/ down.st = "done" /\ OpenAndSend(down.n)
    /\ UNCHANGED <<phase, buf, back>>

\* After the first send both directions start; later only the read of this one.
SendHandler ==
    /\ down.op = "send" /\ down.st # "pending"
    /\ \/ down.st = "failed" /\ destroy("error", NoOp, up) /\ UNCHANGED phase
       \/ /\ down.st = "done"
          /\ phase' = "relay"
          /\ down' = Start("read", 0)
          /\ up' = IF phase = "proxy" THEN Start("recv", 0) ELSE up
          /\ UNCHANGED <<open, usock, cause>>
    /\ UNCHANGED <<buf, sent, back>>

\* The datagram is framed into a local string and written to the client.  The
\* address in the frame, a copy of udp_sender_endpoint from before the receive,
\* is left out.
RecvHandler ==
    /\ up.op = "recv" /\ up.st # "pending"
    /\ \/ up.st = "failed" /\ destroy("error", down, NoOp) /\ UNCHANGED back
       \/ /\ up.st = "done"
          /\ \/ /\ open
                /\ up' = [up EXCEPT !.op = "write"]
                /\ back' = back \o <<up.n>>
             \/ up' = Start("write", up.n) /\ UNCHANGED back
          /\ UNCHANGED <<open, usock, cause, down>>
    /\ UNCHANGED <<phase, buf, sent>>

WriteHandler ==
    /\ up.op = "write" /\ up.st # "pending"
    /\ \/ up.st = "failed" /\ destroy("error", down, NoOp)
       \/ up.st = "done" /\ up' = Start("recv", up.n) /\ UNCHANGED <<open, usock, cause, down>>
    /\ UNCHANGED <<phase, buf, sent, back>>

-----------------------------------------------------------------------------
\* The environment completes the operations.

Completed(o, n) == [o EXCEPT !.st = "done", !.n = n]

ReadDone ==
    /\ down.op = "read" /\ down.st = "pending"
    /\ \E n \in 1 .. MaxBuff :
          /\ buf.base + buf.size + n <= End[Packets]
          /\ down' = Completed(down, n)
    /\ UNCHANGED <<open, phase, buf, up, usock, sent, back, cause>>

\* A TLS stream may hold bytes it has already decrypted, and a read started
\* after the socket is closed still returns them.
BufferedRead ==
    /\ ~open /\ down.op = "read" /\ down.st = "failed"
    /\ \E n \in 1 .. MaxBuff :
          /\ buf.base + buf.size + n <= End[Packets]
          /\ down' = Completed(down, n)
    /\ UNCHANGED <<open, phase, buf, up, usock, sent, back, cause>>

ResolveDone ==
    /\ down.op = "resolve" /\ down.st = "pending"
    /\ down' = Completed(down, down.n) \/ down' = [down EXCEPT !.st = "failed"]
    /\ UNCHANGED <<open, phase, buf, up, usock, sent, back, cause>>

SendDone ==
    /\ down.op = "send" /\ down.st = "pending"
    /\ down' = Completed(down, down.n)
    /\ \E what \in {down.n, Garbage} : sent' = sent \o <<what>>
    /\ UNCHANGED <<open, phase, buf, up, usock, back, cause>>

\* The n-th datagram from a target.
RecvDone ==
    /\ up.op = "recv" /\ up.st = "pending" /\ up.n < MaxReplies
    /\ up' = Completed(up, up.n + 1)
    /\ UNCHANGED <<open, phase, buf, down, usock, sent, back, cause>>

WriteDone ==
    /\ up.op = "write" /\ up.st = "pending"
    /\ up' = Completed(up, up.n)
    /\ \E what \in {up.n, Garbage} : back' = back \o <<what>>
    /\ UNCHANGED <<open, phase, buf, down, usock, sent, cause>>

DownFails ==
    /\ down.op \in {"read", "send"} /\ down.st = "pending"
    /\ down' = [down EXCEPT !.st = "failed"]
    /\ UNCHANGED <<open, phase, buf, up, usock, sent, back, cause>>

UpFails ==
    /\ up.op # "none" /\ up.st = "pending"
    /\ up' = [up EXCEPT !.st = "failed"]
    /\ UNCHANGED <<open, phase, buf, down, usock, sent, back, cause>>

Freed == ~open /\ down.op = "none" /\ up.op = "none"

Ended == Freed /\ UNCHANGED vars

Handlers == ReadHandler \/ ResolveHandler \/ SendHandler \/ RecvHandler \/ WriteHandler

Environment ==
    \/ ReadDone \/ BufferedRead \/ ResolveDone \/ SendDone \/ RecvDone \/ WriteDone
    \/ DownFails \/ UpFails

Next == Handlers \/ Environment \/ Ended

Spec == Init /\ [][Next]_vars

\* The io_context runs every handler; resolvers and sends complete.
FairSpec ==
    /\ Spec
    /\ WF_vars(ReadHandler \/ ResolveHandler \/ SendHandler)
    /\ WF_vars(RecvHandler \/ WriteHandler)
    /\ WF_vars(ResolveDone \/ SendDone)

-----------------------------------------------------------------------------
TypeOK ==
    /\ open \in BOOLEAN /\ usock \in BOOLEAN /\ phase \in {"proxy", "relay"}
    /\ buf \in [base : Nat, size : Nat, off : Nat] /\ buf.off <= buf.size
    /\ down \in Op /\ up \in Op
    /\ sent \in Seq(Nat) /\ back \in Seq(Nat)
    /\ cause \in {"none", "error", "toolong"}

\* The client's packets go out in order, each once and none left out, however
\* the stream is cut into reads; only a send the kernel did not take at once
\* loses its payload, because the buffer it was given is gone by then.
PacketsInOrder == \A i \in DOMAIN sent : sent[i] \in {i, Garbage}

\* Framing is never lost: the offset is always where a packet starts, though
\* the buffer is erased now and then and packets are longer than a read.
InSync == \E k \in 0 .. Packets : Front(buf) = End[k]

\* A session closed because "UDP packet too long" (Session.cpp:101, 224) was
\* not cut for a backlog of good packets: the packet at the offset is longer
\* than the limit, or malformed.
OnlyLongPacketsClose ==
    cause = "toolong" =>
        \E k \in Packet : End[k - 1] = Front(buf) /\ (k \in Malformed \/ PacketLen[k] > MaxBuff)

\* Nothing is sent in either direction after destroy(), although no handler of
\* the UDP path looks at state_ and the resolver is not cancelled.
NothingAfterDestroy == [][~open => sent' = sent /\ back' = back]_vars

\* A destroyed session runs out of operations, so the object is released.
DestroyedIsFreed == ~open ~> Freed

\* "Overplus fully supports the Trojan protocol" (README.md:63): a packet that
\* has arrived whole is forwarded, unless the session ends.
WholePacketIsForwarded ==
    \A k \in Packet \ Malformed :
        buf.base + buf.size >= End[k] ~> Len(sent) >= k \/ ~open

=============================================================================
