-------------------------- MODULE TrojanUdp_proofs ---------------------------
(***************************************************************************)
(* The UDP path of a server session keeps the framing of the client's      *)
(* stream and sends its packets in order: for every stream, every buffer   *)
(* limit and every way the stream is cut into reads.                       *)
(***************************************************************************)
EXTENDS TrojanUdp, SequenceTheorems, TLAPS

\* The offset is where packet k ends, and k packets have been handed to the
\* chain: all but the last have been sent, and the last is being resolved, is
\* being sent, or has been sent.
Upto(k) ==
    /\ Front(buf) = End[k]
    /\ down.op \in {"resolve", "send"} => down.n = k /\ k > 0
    /\ open => /\ down.op = "read" => Len(sent) = k
               /\ down.op = "resolve" => Len(sent) = k - 1
               /\ down.op = "send" => Len(sent) = IF down.st = "done" THEN k ELSE k - 1

\* The buffer and a completed read hold bytes of the stream.
Arrived == buf.base + buf.size + (IF down.op = "read" /\ down.st = "done" THEN down.n ELSE 0)

\* destroy() leaves nothing pending but the resolver.
Stopped ==
    ~open => /\ down.st = "pending" => down.op = "resolve"
             /\ up.st # "pending"

\* The inductive invariant.  A session closed for a long packet reads no more,
\* so the offset stays at that packet.
IInv ==
    /\ TypeOK
    /\ PacketsInOrder
    /\ \E k \in 0 .. Packets : Upto(k)
    /\ Arrived <= End[Packets]
    /\ Stopped /\ up.op # "resolve"
    /\ cause = "toolong" => ~open /\ down.op = "none"
    /\ OnlyLongPacketsClose

-----------------------------------------------------------------------------
\* The operations, the stream and the buffer.

LEMMA NoOpFields == NoOp \in Op /\ NoOp.op = "none" /\ NoOp.st = "done" /\ NoOp.n = 0
  BY DEF NoOp, Op

LEMMA StartFields ==
    ASSUME NEW op \in {"none", "read", "resolve", "send", "recv", "write"}, NEW n \in Nat
    PROVE  /\ Start(op, n) \in Op /\ Start(op, n).op = op /\ Start(op, n).n = n
           /\ Start(op, n).st = IF open THEN "pending" ELSE "failed"
  BY DEF Start, Op

LEMMA AbortFields ==
    ASSUME NEW o \in Op
    PROVE  /\ Abort(o) \in Op /\ Abort(o).op = o.op /\ Abort(o).n = o.n
           /\ Abort(o).st = "done" <=> o.st = "done"
           /\ Abort(o).st = "pending" => o.op = "resolve"
  BY DEF Abort, Op

LEMMA CompletedFields ==
    ASSUME NEW o \in Op, NEW n \in Nat
    PROVE  /\ Completed(o, n) \in Op /\ Completed(o, n).op = o.op
           /\ Completed(o, n).st = "done" /\ Completed(o, n).n = n
  BY Zenon DEF Completed, Op

LEMMA FailedFields ==
    ASSUME NEW o \in Op
    PROVE  LET q == [o EXCEPT !.st = "failed"]
           IN  q \in Op /\ q.op = o.op /\ q.st = "failed" /\ q.n = o.n
  BY DEF Op

\* No two packets end at the same place.
LEMMA EndOrder ==
    ASSUME NEW i \in 0 .. Packets, NEW j \in 0 .. Packets, End[i] = End[j]
    PROVE  i = j
  <1>1. i \in Nat /\ j \in Nat /\ End[i] \in Nat
    BY UdpAssumption
  <1>2. i < j => End[i] < End[j]
    BY UdpAssumption
  <1>3. j < i => End[j] < End[i]
    BY UdpAssumption
  <1>. QED  BY <1>1, <1>2, <1>3

LEMMA PacketLens ==
    ASSUME NEW k \in Packet
    PROVE  /\ k \in Nat /\ k > 0 /\ k - 1 \in 0 .. Packets /\ k \in 0 .. Packets
           /\ End[k] \in Nat /\ End[k - 1] \in Nat
           /\ PacketLen[k] \in Nat /\ PacketLen[k] > 0 /\ End[k - 1] + PacketLen[k] = End[k]
  <1>1. k \in Nat /\ k > 0 /\ k - 1 \in 0 .. Packets /\ k \in 0 .. Packets /\ k - 1 < k
    BY UdpAssumption DEF Packet
  <1>2. End[k] \in Nat /\ End[k - 1] \in Nat /\ End[k - 1] < End[k]
    BY <1>1, UdpAssumption
  <1>3. PacketLen[k] = End[k] - End[k - 1]
    BY DEF PacketLen
  <1>. QED  BY <1>1, <1>2, <1>3

Buffer == [base : Nat, size : Nat, off : Nat]

\* Parsing a packet moves the front of the buffer to its end, erased or not.
LEMMA AdvanceFront ==
    ASSUME NEW b \in Buffer, b.off <= b.size, NEW len \in Nat, len <= Unparsed(b)
    PROVE  /\ Advance(b, len) \in Buffer /\ Advance(b, len).off <= Advance(b, len).size
           /\ Front(Advance(b, len)) = Front(b) + len
           /\ Advance(b, len).base + Advance(b, len).size = b.base + b.size
  <1>1. b.base \in Nat /\ b.size \in Nat /\ b.off \in Nat
    BY DEF Buffer
  <1>. DEFINE off == b.off + len
  <1>2. off \in Nat /\ off <= b.size
    BY <1>1 DEF Unparsed
  <1>3. CASE off > MaxBuff \div 2 /\ off < b.size
    <2>1. Advance(b, len) = [base |-> b.base + off, size |-> b.size - off, off |-> 0]
      BY <1>3 DEF Advance
    <2>. QED  BY <1>1, <1>2, <2>1 DEF Buffer, Front
  <1>4. CASE ~(off > MaxBuff \div 2 /\ off < b.size)
    <2>. DEFINE a == [b EXCEPT !.off = off]
    <2>1. Advance(b, len) = a
      BY <1>4 DEF Advance
    <2>. HIDE DEF off
    <2>2. a \in Buffer /\ a.base = b.base /\ a.size = b.size /\ a.off = off
      BY <1>2 DEF Buffer
    <2>. HIDE DEF a
    <2>3. off = b.off + len
      BY DEF off
    <2>. QED  BY <1>1, <1>2, <2>1, <2>2, <2>3 DEF Front
  <1>. QED  BY <1>3, <1>4

LEMMA ReceivedFields ==
    ASSUME NEW b \in Buffer, b.off <= b.size, NEW n \in Nat
    PROVE  LET r == Received(b, n)
           IN  /\ r \in Buffer /\ r.base = b.base /\ r.off = b.off /\ r.size = b.size + n
               /\ r.off <= r.size /\ Front(r) = Front(b)
  BY DEF Received, Buffer, Front

\* Sending packet k after the k - 1 before it.
LEMMA SendNext ==
    ASSUME NEW s \in Seq(Nat), \A i \in DOMAIN s : s[i] \in {i, Garbage},
           NEW k \in Nat, k > 0, Len(s) = k - 1, NEW w \in {k, Garbage}
    PROVE  LET t == s \o <<w>>
           IN  /\ t \in Seq(Nat) /\ Len(t) = k
               /\ \A i \in DOMAIN t : t[i] \in {i, Garbage}
  <1>. DEFINE t == s \o <<w>>
  <1>1. w \in Nat /\ <<w>> \in Seq(Nat) /\ Len(<<w>>) = 1 /\ <<w>>[1] = w
    BY DEF Garbage
  <1>2. /\ t \in Seq(Nat) /\ Len(t) = k /\ DOMAIN t = 1 .. k
        /\ \A i \in 1 .. k : t[i] = IF i <= Len(s) THEN s[i] ELSE <<w>>[i - Len(s)]
    BY <1>1, ConcatProperties
  <1>3. ASSUME NEW i \in 1 .. k PROVE t[i] \in {i, Garbage}
    <2>1. CASE i <= Len(s)
      BY <1>2, <2>1
    <2>2. CASE ~(i <= Len(s))
      <3>1. i = k /\ i - Len(s) = 1
        BY <2>2
      <3>. QED  BY <1>1, <1>2, <2>2, <3>1
    <2>. QED  BY <2>1, <2>2
  <1>. QED  BY <1>2, <1>3

-----------------------------------------------------------------------------
\* The steps.

\* The packet at the front of the buffer is over the limit or malformed.
LongAt(b) == \E k \in Packet : End[k - 1] = Front(b) /\ (k \in Malformed \/ PacketLen[k] > MaxBuff)

LEMMA TypeFields ==
    ASSUME TypeOK
    PROVE  /\ buf \in Buffer /\ buf.base \in Nat /\ buf.size \in Nat /\ buf.off \in Nat
           /\ buf.off <= buf.size /\ down.n \in Nat /\ up.n \in Nat
           /\ down \in Op /\ up \in Op /\ sent \in Seq(Nat) /\ back \in Seq(Nat)
           /\ End[Packets] \in Nat
  BY UdpAssumption DEF TypeOK, Buffer, Op

\* A step that does not end the session.
LEMMA ChainStep ==
    ASSUME IInv, open' = open, cause' = cause, cause # "toolong",
           usock' \in BOOLEAN, phase' \in {"proxy", "relay"},
           buf' \in Buffer, buf'.off <= buf'.size, down' \in Op, up' \in Op,
           sent' \in Seq(Nat), back' \in Seq(Nat),
           PacketsInOrder', NEW k \in 0 .. Packets, Upto(k)', Arrived' <= End[Packets],
           Stopped', up'.op # "resolve"
    PROVE  IInv'
  <1>1. TypeOK'
    BY DEF IInv, TypeOK, Buffer
  <1>2. (\E j \in 0 .. Packets : Upto(j))'
    OBVIOUS
  <1>. QED  BY <1>1, <1>2 DEF IInv, OnlyLongPacketsClose

\* A step of the up chain: the down chain is as it was.
LEMMA UpStep ==
    ASSUME IInv, UNCHANGED <<open, cause, usock, phase, buf, down, sent>>,
           up' \in Op, back' \in Seq(Nat), up'.op # "resolve",
           ~open => up'.st # "pending"
    PROVE  IInv'
  <1>1. TypeOK' /\ Stopped'
    BY DEF IInv, TypeOK, Stopped
  <1>2. PacketsInOrder' /\ Arrived' <= End[Packets] /\ OnlyLongPacketsClose'
    BY DEF IInv, PacketsInOrder, Arrived, OnlyLongPacketsClose, Front
  <1>3. (\E k \in 0 .. Packets : Upto(k))'
    BY DEF IInv, Upto, Front
  <1>. QED  BY <1>1, <1>2, <1>3 DEF IInv

\* destroy() by a handler that leaves each chain alone or ends it, and may have
\* moved the front of the buffer.
LEMMA DestroyIInv ==
    ASSUME IInv, NEW why \in {"error", "toolong"}, NEW STATE d, NEW STATE u, destroy(why, d, u),
           d \in {NoOp, down}, u \in {NoOp, up}, sent' = sent, back' = back, phase' = phase,
           buf' \in Buffer, buf'.off <= buf'.size, NEW k \in 0 .. Packets, Front(buf)' = End[k],
           \/ buf' = buf
           \/ d = NoOp /\ cause # "toolong" /\ buf'.base + buf'.size <= End[Packets],
           why = "toolong" => d = NoOp /\ LongAt(buf')
    PROVE  IInv'
  <1>1. /\ d \in Op /\ u \in Op /\ TypeOK
        /\ Abort(d) \in Op /\ Abort(d).op = d.op /\ Abort(d).n = d.n
        /\ (Abort(d).st = "done" <=> d.st = "done") /\ (Abort(d).st = "pending" => d.op = "resolve")
        /\ Abort(u) \in Op /\ Abort(u).op = u.op /\ (Abort(u).st = "pending" => u.op = "resolve")
    BY NoOpFields, AbortFields DEF IInv, TypeOK
  <1>2. /\ down' \in Op /\ up' \in Op /\ down'.op = d.op /\ down'.n = d.n
        /\ (down'.st = "done" <=> d.st = "done")
    BY <1>1, Zenon DEF destroy
  <1>3. open' = FALSE /\ usock' \in BOOLEAN /\ cause' \in {"none", "error", "toolong"}
    BY <1>1, Zenon DEF destroy, TypeOK
  <1>4. TypeOK'
    BY <1>1, <1>2, <1>3, Zenon DEF TypeOK, Buffer
  <1>5. PacketsInOrder'
    BY DEF IInv, PacketsInOrder
  <1>6. (\E j \in 0 .. Packets : Upto(j))'
    <2>1. CASE d = NoOp
      <3>1. Upto(k)'
        BY <1>2, <1>3, <2>1, NoOpFields DEF Upto
      <3>. QED  BY <3>1
    <2>2. CASE d = down /\ buf' = buf
      <3>1. PICK j \in 0 .. Packets : Upto(j)
        BY DEF IInv
      <3>2. Upto(j)'
        BY <1>2, <1>3, <2>2, <3>1 DEF Upto, Front
      <3>. QED  BY <3>2
    <2>. QED  BY <2>1, <2>2
  <1>7. Arrived' <= End[Packets]
    <2>1. /\ buf.base \in Nat /\ buf.size \in Nat /\ down.n \in Nat /\ End[Packets] \in Nat
          /\ buf'.base \in Nat /\ buf'.size \in Nat
      BY <1>1, TypeFields DEF Buffer
    <2>2. CASE d = NoOp
      <3>1. Arrived' = buf'.base + buf'.size
        BY <1>2, <2>1, <2>2, NoOpFields DEF Arrived
      <3>2. buf' = buf => buf.base + buf.size <= End[Packets]
        BY <2>1 DEF IInv, Arrived
      <3>. QED  BY <3>1, <3>2, <2>2
    <2>3. CASE d = down /\ buf' = buf
      <3>1. Arrived' = Arrived
        BY <1>2, <2>3 DEF Arrived
      <3>. QED  BY <3>1 DEF IInv
    <2>. QED  BY <2>2, <2>3
  <1>8. Stopped'
    <2>1. CASE open
      <3>1. down' = Abort(d) /\ up' = Abort(u)
        BY <2>1 DEF destroy
      <3>2. u.op # "resolve"
        BY NoOpFields DEF IInv
      <3>. QED  BY <1>1, <1>3, <3>1, <3>2 DEF Stopped
    <2>2. CASE ~open
      <3>1. down' = d /\ up' = u
        BY <2>2 DEF destroy
      <3>. QED  BY <1>3, <2>2, <3>1, NoOpFields DEF Stopped, IInv
    <2>. QED  BY <2>1, <2>2
  <1>9. cause' = "toolong" => down'.op = "none" /\ LongAt(buf')
    <2>1. CASE cause' = cause
      <3>1. cause = "toolong" => buf' = buf /\ down.op = "none"
        BY DEF IInv
      <3>2. cause = "toolong" => LongAt(buf)
        BY DEF IInv, OnlyLongPacketsClose, LongAt
      <3>. QED  BY <1>2, <2>1, <3>1, <3>2, NoOpFields
    <2>2. CASE cause' = why
      BY <1>2, <2>2, NoOpFields
    <2>. QED  BY <2>1, <2>2, Zenon DEF destroy
  <1>10. OnlyLongPacketsClose'
    BY <1>9 DEF OnlyLongPacketsClose, LongAt, Front
  <1>11. up'.op # "resolve"
    BY <1>1, NoOpFields DEF destroy, IInv
  <1>. QED  BY <1>3, <1>4, <1>5, <1>6, <1>7, <1>8, <1>9, <1>10, <1>11 DEF IInv

LEMMA SendDownIInv ==
    ASSUME IInv, cause # "toolong", NEW k \in Packet, SendDown(k), open => Len(sent) = k - 1,
           UNCHANGED <<open, up, cause, phase, back>>, usock' \in BOOLEAN,
           buf' \in Buffer, buf'.off <= buf'.size, Front(buf)' = End[k],
           buf'.base + buf'.size <= End[Packets]
    PROVE  IInv'
  <1>1. /\ k \in Nat /\ k > 0 /\ k \in 0 .. Packets
        /\ sent \in Seq(Nat) /\ \A i \in DOMAIN sent : sent[i] \in {i, Garbage}
    BY PacketLens, TypeFields DEF IInv, PacketsInOrder
  <1>2. CASE open /\ down' = [op |-> "send", st |-> "done", n |-> k] /\ sent' = sent \o <<k>>
    <2>1. sent' \in Seq(Nat) /\ Len(sent') = k /\ \A i \in DOMAIN sent' : sent'[i] \in {i, Garbage}
      BY <1>1, <1>2, SendNext
    <2>2. down' \in Op /\ down'.op = "send" /\ down'.st = "done" /\ down'.n = k
      BY <1>1, <1>2 DEF Op
    <2>3. Upto(k)'
      BY <1>1, <2>1, <2>2 DEF Upto
    <2>4. Arrived' <= End[Packets] /\ Stopped'
      BY <1>2, <2>2, TypeFields DEF Arrived, Stopped, Buffer
    <2>. QED  BY <1>1, <2>1, <2>2, <2>3, <2>4, ChainStep DEF IInv, TypeOK, PacketsInOrder
  <1>3. CASE down' = Start("send", k) /\ sent' = sent
    <2>1. /\ down' \in Op /\ down'.op = "send" /\ down'.n = k
          /\ down'.st = IF open THEN "pending" ELSE "failed"
      BY <1>1, <1>3, StartFields
    <2>2. Upto(k)'
      BY <1>1, <1>3, <2>1 DEF Upto
    <2>3. Arrived' <= End[Packets] /\ Stopped'
      BY <1>1, <2>1, TypeFields, SMTT(20) DEF Arrived, Stopped, Buffer, IInv
    <2>. QED  BY <1>1, <1>3, <2>1, <2>2, <2>3, ChainStep DEF IInv, TypeOK, PacketsInOrder
  <1>. QED  BY <1>2, <1>3 DEF SendDown

LEMMA OpenAndSendIInv ==
    ASSUME IInv, cause # "toolong", NEW k \in Packet, OpenAndSend(k), open => Len(sent) = k - 1,
           UNCHANGED <<phase, back>>,
           buf' \in Buffer, buf'.off <= buf'.size, Front(buf)' = End[k],
           buf'.base + buf'.size <= End[Packets]
    PROVE  IInv'
  <1>1. CASE /\ usock' = (usock \/ phase = "proxy") /\ SendDown(k) /\ UNCHANGED <<open, up, cause>>
    BY <1>1, SendDownIInv
  <1>2. CASE destroy("error", NoOp, up) /\ sent' = sent
    <2>1. k \in 0 .. Packets
      BY PacketLens
    <2>. QED  BY <1>2, <2>1, DestroyIInv
  <1>. QED  BY <1>1, <1>2 DEF OpenAndSend

\* A packet is only too long when it is: what is left to parse starts with it.
LEMMA TooLongAt ==
    ASSUME NEW b \in Buffer, b.off <= b.size, NEW k \in 0 .. Packets, Front(b) = End[k],
           b.base + b.size <= End[Packets], TooLong(b), ~\E j \in Packet : Parses(b, j)
    PROVE  LongAt(b)
  <1>1. /\ b.base \in Nat /\ b.size \in Nat /\ b.off \in Nat /\ Packets \in Nat
        /\ End[Packets] \in Nat /\ MaxBuff \in Nat
    BY UdpAssumption DEF Buffer
  <1>2. k # Packets
    BY <1>1 DEF Front, TooLong, Unparsed
  <1>3. k + 1 \in Packet /\ (k + 1) - 1 = k
    BY <1>1, <1>2 DEF Packet
  <1>4. k + 1 \in Malformed \/ ~(PacketLen[k + 1] <= Unparsed(b))
    BY <1>3 DEF Parses
  <1>5. PacketLen[k + 1] \in Nat
    BY <1>3, PacketLens
  <1>6. k + 1 \in Malformed \/ PacketLen[k + 1] > MaxBuff
    BY <1>1, <1>4, <1>5 DEF TooLong, Unparsed
  <1>. QED  BY <1>3, <1>6 DEF LongAt

LEMMA ReadHandlerIInv == ASSUME IInv, ReadHandler PROVE IInv'
  <1>. DEFINE b == Received(buf, down.n)
  <1>1. down.op = "read" /\ down.st # "pending" /\ phase' = phase /\ back' = back
    BY DEF ReadHandler
  <1>2. TypeOK /\ cause # "toolong" /\ phase \in {"proxy", "relay"} /\ usock \in BOOLEAN
    BY <1>1 DEF IInv, TypeOK
  <1>3. PICK k \in 0 .. Packets : Upto(k)
    BY DEF IInv
  <1>4. /\ b \in Buffer /\ b.base = buf.base /\ b.off = buf.off /\ b.size = buf.size + down.n
        /\ b.off <= b.size /\ Front(b) = End[k]
    BY <1>2, <1>3, TypeFields, ReceivedFields, Zenon DEF Upto
  <1>5. CASE down.st = "failed" /\ destroy("error", NoOp, up) /\ UNCHANGED <<buf, sent>>
    <2>1. buf \in Buffer /\ buf.off <= buf.size
      BY <1>2, TypeFields
    <2>2. Front(buf)' = End[k]
      BY <1>3, <1>5 DEF Upto, Front
    <2>. QED  BY <1>1, <1>5, <2>1, <2>2, DestroyIInv
  <1>6. ASSUME down.st = "done" PROVE b.base + b.size <= End[Packets]
    BY <1>1, <1>2, <1>4, <1>6, TypeFields DEF IInv, Arrived
  <1>. HIDE DEF b
  <1>7. ASSUME down.st = "done", NEW j \in Packet, Parses(b, j), buf' = Advance(b, PacketLen[j]),
               Forward(j)
        PROVE  IInv'
    <2>1. /\ j \in Nat /\ j > 0 /\ j - 1 \in 0 .. Packets /\ PacketLen[j] \in Nat
          /\ End[j - 1] + PacketLen[j] = End[j] /\ j \in 0 .. Packets
      BY PacketLens
    <2>2. End[j - 1] = Front(b) /\ PacketLen[j] <= Unparsed(b)
      BY <1>7 DEF Parses
    <2>3. j - 1 = k
      BY <1>4, <2>1, <2>2, EndOrder
    <2>4. open => Len(sent) = j - 1
      BY <1>1, <1>3, <2>3 DEF Upto
    <2>5. /\ buf' \in Buffer /\ buf'.off <= buf'.size /\ Front(buf') = End[j]
          /\ buf'.base + buf'.size <= End[Packets]
      BY <1>4, <1>6, <1>7, <2>1, <2>2, AdvanceFront
    <2>6. Front(buf)' = End[j]
      BY <2>5 DEF Front
    <2>7. CASE OpenAndSend(j)
      BY <1>1, <1>2, <2>4, <2>5, <2>6, <2>7, OpenAndSendIInv
    <2>8. CASE /\ down' = [op |-> "resolve", st |-> "pending", n |-> j]
               /\ UNCHANGED <<open, up, usock, sent, cause>>
      <3>1. down' \in Op /\ down'.op = "resolve" /\ down'.n = j
        BY <2>1, <2>8 DEF Op
      <3>2. Upto(j)'
        BY <2>1, <2>4, <2>6, <2>8, <3>1 DEF Upto
      <3>3. Arrived' <= End[Packets] /\ Stopped'
        BY <1>2, <2>5, <2>8, <3>1, TypeFields DEF Arrived, Stopped, Buffer, IInv
      <3>. QED  BY <1>1, <1>2, <2>1, <2>5, <2>8, <3>1, <3>2, <3>3, TypeFields, ChainStep
                DEF IInv, PacketsInOrder
    <2>. QED  BY <1>7, <2>7, <2>8 DEF Forward
  <1>8. CASE /\ down.st = "done" /\ ~(\E j \in Packet : Parses(b, j)) /\ buf' = b /\ sent' = sent
             /\ IF TooLong(b) THEN destroy("toolong", NoOp, up)
                ELSE down' = Start("read", 0) /\ UNCHANGED <<open, up, usock, cause>>
    <2>1. buf' \in Buffer /\ buf'.off <= buf'.size /\ Front(buf)' = End[k] /\ buf'.base + buf'.size <= End[Packets]
      BY <1>4, <1>6, <1>8 DEF Front
    <2>2. CASE TooLong(b)
      <3>1. LongAt(buf')
        BY <1>4, <1>6, <1>8, <2>2, TooLongAt
      <3>2. destroy("toolong", NoOp, up)
        BY <1>8, <2>2
      <3>. QED  BY <1>1, <1>2, <1>8, <2>1, <3>1, <3>2, DestroyIInv
    <2>3. CASE ~TooLong(b)
      <3>1. down' = Start("read", 0) /\ UNCHANGED <<open, up, usock, cause>>
        BY <1>8, <2>3
      <3>2. /\ down' \in Op /\ down'.op = "read"
            /\ down'.st = IF open THEN "pending" ELSE "failed"
        BY <3>1, StartFields
      <3>3. Upto(k)'
        BY <1>1, <1>3, <1>8, <2>1, <3>1, <3>2 DEF Upto
      <3>4. Arrived' <= End[Packets] /\ Stopped'
        BY <1>2, <2>1, <3>1, <3>2, TypeFields DEF Arrived, Stopped, Buffer, IInv
      <3>. QED  BY <1>1, <1>2, <1>8, <2>1, <3>1, <3>2, <3>3, <3>4, TypeFields, ChainStep, Zenon
                DEF IInv, PacketsInOrder
    <2>. QED  BY <2>2, <2>3
  <1>. QED  BY <1>5, <1>7, <1>8 DEF ReadHandler, b

LEMMA ResolveHandlerIInv == ASSUME IInv, ResolveHandler PROVE IInv'
  <1>1. down.op = "resolve" /\ UNCHANGED <<phase, buf, back>>
    BY DEF ResolveHandler
  <1>2. TypeOK /\ cause # "toolong" /\ buf \in Buffer /\ buf.off <= buf.size
    BY <1>1, TypeFields DEF IInv
  <1>3. PICK k \in 0 .. Packets : Upto(k)
    BY DEF IInv
  <1>4. Front(buf)' = End[k]
    BY <1>1, <1>3 DEF Upto, Front
  <1>5. CASE destroy("error", NoOp, up) /\ sent' = sent
    BY <1>1, <1>2, <1>4, <1>5, DestroyIInv
  <1>6. CASE OpenAndSend(down.n)
    <2>1. buf'.base + buf'.size <= End[Packets]
      BY <1>1, <1>2, TypeFields DEF IInv, Arrived
    <2>2. down.n = k /\ k > 0 /\ (open => Len(sent) = k - 1)
      BY <1>1, <1>3 DEF Upto
    <2>3. k \in Packet
      BY <2>2, UdpAssumption DEF Packet
    <2>. QED  BY <1>1, <1>2, <1>4, <1>6, <2>1, <2>2, <2>3, OpenAndSendIInv
  <1>. QED  BY <1>5, <1>6 DEF ResolveHandler

LEMMA SendHandlerIInv == ASSUME IInv, SendHandler PROVE IInv'
  <1>1. down.op = "send" /\ down.st # "pending" /\ UNCHANGED <<buf, sent, back>>
    BY DEF SendHandler
  <1>2. /\ TypeOK /\ cause # "toolong" /\ buf \in Buffer /\ buf.off <= buf.size
        /\ usock \in BOOLEAN /\ phase \in {"proxy", "relay"}
    BY <1>1, TypeFields DEF IInv, TypeOK
  <1>3. PICK k \in 0 .. Packets : Upto(k)
    BY DEF IInv
  <1>4. Front(buf)' = End[k]
    BY <1>1, <1>3 DEF Upto, Front
  <1>5. CASE destroy("error", NoOp, up) /\ phase' = phase
    BY <1>1, <1>2, <1>4, <1>5, DestroyIInv
  <1>6. CASE /\ down.st = "done" /\ phase' = "relay" /\ down' = Start("read", 0)
             /\ up' = (IF phase = "proxy" THEN Start("recv", 0) ELSE up)
             /\ UNCHANGED <<open, usock, cause>>
    <2>1. /\ down' \in Op /\ down'.op = "read" /\ down'.st = IF open THEN "pending" ELSE "failed"
      BY <1>6, StartFields
    <2>2. up' \in Op /\ up'.op # "resolve" /\ (~open => up'.st # "pending")
      BY <1>2, <1>6, StartFields, TypeFields DEF IInv, Stopped
    <2>3. Upto(k)'
      BY <1>1, <1>3, <1>4, <1>6, <2>1 DEF Upto
    <2>4. Arrived' <= End[Packets] /\ Stopped'
      BY <1>1, <1>2, <1>6, <2>1, <2>2, TypeFields DEF Arrived, Stopped, IInv
    <2>. QED  BY <1>1, <1>2, <1>6, <2>1, <2>2, <2>3, <2>4, TypeFields, ChainStep DEF IInv, PacketsInOrder
  <1>. QED  BY <1>5, <1>6 DEF SendHandler

LEMMA BackOne == ASSUME NEW s \in Seq(Nat), NEW n \in Nat PROVE s \o <<n>> \in Seq(Nat)
  OBVIOUS

\* The up chain's handlers.
LEMMA UpHandlerIInv == ASSUME IInv, RecvHandler \/ WriteHandler PROVE IInv'
  <1>1. TypeOK /\ buf \in Buffer /\ buf.off <= buf.size /\ up \in Op /\ up.n \in Nat /\ back \in Seq(Nat)
    BY TypeFields DEF IInv
  <1>2. phase' = phase /\ buf' = buf /\ sent' = sent /\ up.op # "none" /\ up.st # "pending"
    BY DEF RecvHandler, WriteHandler
  <1>3. CASE destroy("error", down, NoOp) /\ back' = back
    <2>1. PICK k \in 0 .. Packets : Upto(k)
      BY DEF IInv
    <2>2. Front(buf)' = End[k]
      BY <1>2, <2>1 DEF Upto, Front
    <2>. QED  BY <1>1, <1>2, <1>3, <2>2, DestroyIInv
  <1>4. ASSUME NEW op \in {"recv", "write"}, up' = Start(op, up.n), back' = back,
               UNCHANGED <<open, usock, cause, down>>
        PROVE  IInv'
    <2>1. up' \in Op /\ up'.op = op /\ up'.st = IF open THEN "pending" ELSE "failed"
      BY <1>1, <1>4, StartFields
    <2>. QED  BY <1>1, <1>2, <1>4, <2>1, UpStep
  <1>5. CASE /\ open /\ up.st = "done" /\ up' = [up EXCEPT !.op = "write"] /\ back' = back \o <<up.n>>
             /\ UNCHANGED <<open, usock, cause, down>>
    <2>1. up' \in Op /\ up'.op = "write" /\ up'.st = "done"
      BY <1>1, <1>5 DEF Op
    <2>2. back' \in Seq(Nat)
      BY <1>1, <1>5, BackOne
    <2>. QED  BY <1>2, <1>5, <2>1, <2>2, UpStep
  <1>. QED  BY <1>3, <1>4, <1>5 DEF RecvHandler, WriteHandler

\* The environment's steps on the down chain.
LEMMA ReadDoneIInv == ASSUME IInv, ReadDone \/ BufferedRead PROVE IInv'
  <1>1. /\ down.op = "read" /\ down.st # "done"
        /\ UNCHANGED <<open, phase, buf, up, usock, sent, back, cause>>
    BY DEF ReadDone, BufferedRead
  <1>2. PICK n \in 1 .. MaxBuff : buf.base + buf.size + n <= End[Packets] /\ down' = Completed(down, n)
    BY DEF ReadDone, BufferedRead
  <1>3. /\ TypeOK /\ cause # "toolong" /\ n \in Nat
    BY <1>1, UdpAssumption DEF IInv
  <1>4. down' \in Op /\ down'.op = "read" /\ down'.st = "done" /\ down'.n = n
    BY <1>1, <1>2, <1>3, CompletedFields, TypeFields, Zenon
  <1>5. PICK k \in 0 .. Packets : Upto(k)
    BY DEF IInv
  <1>6. Upto(k)'
    BY <1>1, <1>4, <1>5 DEF Upto, Front
  <1>7. Arrived' <= End[Packets] /\ Stopped'
    BY <1>1, <1>2, <1>4 DEF Arrived, Stopped, IInv
  <1>. QED  BY <1>1, <1>3, <1>4, <1>6, <1>7, TypeFields, ChainStep DEF IInv, PacketsInOrder, TypeOK

LEMMA ResolveDoneIInv == ASSUME IInv, ResolveDone \/ DownFails PROVE IInv'
  <1>1. /\ down.op \in {"resolve", "read", "send"} /\ down.st = "pending"
        /\ UNCHANGED <<open, phase, buf, up, usock, sent, back, cause>>
    BY DEF ResolveDone, DownFails
  <1>2. TypeOK /\ cause # "toolong" /\ down \in Op /\ down.n \in Nat
    BY <1>1, TypeFields DEF IInv
  <1>3. /\ down' \in Op /\ down'.op = down.op /\ down'.n = down.n
        /\ down'.st = "failed" \/ (down.op = "resolve" /\ down'.st = "done")
    <2>1. CASE down' = [down EXCEPT !.st = "failed"]
      BY <1>2, <2>1, FailedFields
    <2>2. CASE down.op = "resolve" /\ down' = Completed(down, down.n)
      BY <1>2, <2>2, CompletedFields
    <2>. QED  BY <2>1, <2>2 DEF ResolveDone, DownFails
  <1>4. PICK k \in 0 .. Packets : Upto(k)
    BY DEF IInv
  <1>5. Upto(k)'
    BY <1>1, <1>3, <1>4 DEF Upto, Front
  <1>6. Arrived' <= End[Packets] /\ Stopped'
    BY <1>1, <1>2, <1>3, TypeFields DEF Arrived, Stopped, IInv
  <1>. QED  BY <1>1, <1>2, <1>3, <1>5, <1>6, TypeFields, ChainStep DEF IInv, PacketsInOrder, TypeOK

LEMMA SendDoneIInv == ASSUME IInv, SendDone PROVE IInv'
  <1>1. /\ down.op = "send" /\ down.st = "pending" /\ open
        /\ UNCHANGED <<open, phase, buf, up, usock, back, cause>> /\ down' = Completed(down, down.n)
    BY DEF SendDone, IInv, Stopped
  <1>2. TypeOK /\ cause # "toolong" /\ down \in Op /\ down.n \in Nat /\ sent \in Seq(Nat)
    BY <1>1, TypeFields DEF IInv
  <1>3. PICK k \in 0 .. Packets : Upto(k)
    BY DEF IInv
  <1>4. down.n = k /\ k \in Nat /\ k > 0 /\ Len(sent) = k - 1
    BY <1>1, <1>2, <1>3 DEF Upto
  <1>5. down' \in Op /\ down'.op = "send" /\ down'.st = "done" /\ down'.n = k
    BY <1>1, <1>2, <1>4, CompletedFields
  <1>6. PICK w \in {k, Garbage} : sent' = sent \o <<w>>
    BY <1>4 DEF SendDone
  <1>7. sent' \in Seq(Nat) /\ Len(sent') = k /\ PacketsInOrder'
    BY <1>2, <1>4, <1>6, SendNext, Zenon DEF IInv, PacketsInOrder
  <1>8. Upto(k)'
    BY <1>1, <1>3, <1>4, <1>5, <1>7 DEF Upto, Front
  <1>9. Arrived' <= End[Packets] /\ Stopped'
    BY <1>1, <1>2, <1>5, TypeFields DEF Arrived, Stopped, IInv
  <1>. QED  BY <1>1, <1>2, <1>5, <1>7, <1>8, <1>9, TypeFields, ChainStep DEF IInv, TypeOK

\* The environment's steps on the up chain.
LEMMA UpDoneIInv == ASSUME IInv, RecvDone \/ WriteDone \/ UpFails PROVE IInv'
  <1>1. /\ up.st = "pending" /\ UNCHANGED <<open, phase, buf, down, usock, sent, cause>>
    BY DEF RecvDone, WriteDone, UpFails
  <1>2. TypeOK /\ up \in Op /\ up.n \in Nat /\ up.n + 1 \in Nat /\ back \in Seq(Nat) /\ up.op # "resolve"
    BY TypeFields DEF IInv
  <1>3. up' \in Op /\ up'.op = up.op /\ up'.st # "pending"
    <2>1. CASE up' = [up EXCEPT !.st = "failed"]
      BY <1>2, <2>1, FailedFields
    <2>2. ASSUME NEW n \in Nat, up' = Completed(up, n) PROVE up' \in Op /\ up'.op = up.op /\ up'.st # "pending"
      BY <1>2, <2>2, CompletedFields, Zenon
    <2>. QED  BY <1>2, <2>1, <2>2 DEF RecvDone, WriteDone, UpFails
  <1>4. back' \in Seq(Nat)
    BY <1>2, BackOne, Zenon DEF RecvDone, WriteDone, UpFails, Garbage
  <1>. QED  BY <1>1, <1>2, <1>3, <1>4, UpStep

LEMMA InitIInv == ASSUME Init PROVE IInv
  <1>1. PICK n \in 0 .. MaxBuff : n <= End[Packets] /\ down = [op |-> "read", st |-> "done", n |-> n]
    BY DEF Init
  <1>2. n \in Nat /\ Packets \in Nat /\ 0 \in 0 .. Packets /\ End[0] = 0
    BY UdpAssumption
  <1>3. down \in Op /\ down.op = "read" /\ down.st = "done" /\ down.n = n
    BY <1>1, <1>2 DEF Op
  <1>4. buf \in Buffer /\ buf.base = 0 /\ buf.size = 0 /\ buf.off = 0 /\ Front(buf) = 0
    BY DEF Init, Buffer, Front
  <1>5. TypeOK
    <2>1. sent \in Seq(Nat) /\ back \in Seq(Nat) /\ up \in Op
      BY NoOpFields DEF Init
    <2>2. open \in BOOLEAN /\ usock \in BOOLEAN /\ phase \in {"proxy", "relay"} /\ cause = "none"
      BY Zenon DEF Init
    <2>3. buf.off <= buf.size
      BY <1>4
    <2>. QED  BY <1>3, <1>4, <2>1, <2>2, <2>3 DEF TypeOK, Buffer
  <1>6. Upto(0)
    BY <1>2, <1>3, <1>4 DEF Init, Upto
  <1>7. Arrived <= End[Packets]
    BY <1>1, <1>2, <1>3, <1>4 DEF Arrived
  <1>. QED  BY <1>2, <1>5, <1>6, <1>7, NoOpFields DEF Init, IInv, PacketsInOrder, Stopped, OnlyLongPacketsClose

LEMMA NextIInv == ASSUME IInv, [Next]_vars PROVE IInv'
  <1>1. CASE UNCHANGED vars \/ Ended
    <2>1. UNCHANGED vars
      BY <1>1 DEF Ended
    <2>2. up \in Op /\ back \in Seq(Nat) /\ up.op # "resolve" /\ (~open => up.st # "pending")
      BY TypeFields DEF IInv, Stopped
    <2>. QED  BY <2>1, <2>2, UpStep DEF vars
  <1>2. CASE Handlers
    BY <1>2, ReadHandlerIInv, ResolveHandlerIInv, SendHandlerIInv, UpHandlerIInv DEF Handlers
  <1>3. CASE Environment
    BY <1>3, ReadDoneIInv, ResolveDoneIInv, SendDoneIInv, UpDoneIInv DEF Environment
  <1>. QED  BY <1>1, <1>2, <1>3 DEF Next

-----------------------------------------------------------------------------
\* The inductive invariant holds in every behaviour.
THEOREM SpecIInv == Spec => []IInv
  BY InitIInv, NextIInv, PTL DEF Spec

\* The client's packets reach the targets in order, each once and none left
\* out, for every stream and every way it is cut into reads; the payload of a
\* send that waits is lost.
THEOREM SpecPacketsInOrder == Spec => []PacketsInOrder
  <1>1. IInv => PacketsInOrder
    BY DEF IInv
  <1>. QED  BY <1>1, SpecIInv, PTL

\* The offset into upstream_udp_buff is always where a packet starts, whatever
\* udp_buff_offset_ has been erased.
THEOREM SpecInSync == Spec => []InSync
  <1>1. IInv => InSync
    BY DEF IInv, Upto, InSync
  <1>. QED  BY <1>1, SpecIInv, PTL

\* "UDP packet too long" closes a session only for a packet that is over the
\* limit or malformed, never for a backlog of good ones.
THEOREM SpecOnlyLongPacketsClose == Spec => []OnlyLongPacketsClose
  <1>1. IInv => OnlyLongPacketsClose
    BY DEF IInv
  <1>. QED  BY <1>1, SpecIInv, PTL

\* No datagram leaves a destroyed session, although its handlers do not look at
\* state_ and a resolve that is answered late still sends.
THEOREM SpecNothingAfterDestroy == Spec => NothingAfterDestroy
  <1>1. ASSUME IInv, Next, ~open PROVE sent' = sent /\ back' = back
    BY <1>1, Zenon DEF IInv, Stopped, Next, Handlers, Environment, Ended, vars,
       ReadHandler, ResolveHandler, SendHandler, RecvHandler, WriteHandler, Forward, OpenAndSend, SendDown,
       ReadDone, BufferedRead, ResolveDone, SendDone, RecvDone, WriteDone, DownFails, UpFails
  <1>2. IInv /\ [Next]_vars => [~open => sent' = sent /\ back' = back]_vars
    BY <1>1
  <1>. QED  BY <1>2, SpecIInv, PTL DEF Spec, NothingAfterDestroy

=============================================================================
