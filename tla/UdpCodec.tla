------------------------------ MODULE UdpCodec -------------------------------
(***************************************************************************)
(* The encodings one datagram goes through: SOCKS5 UDP request, parsed by  *)
(* the relay (UdpRequest), UdpFrame written and parsed again on the        *)
(* server, the target; and the reply the same way back.                    *)
(*                                                                         *)
(* A byte string is its layout: how long each field is and where it        *)
(* starts.  What a parser takes for the payload or the address is a window *)
(* <<first, length>> counted from where that field really starts, so the   *)
(* right answer is always <<0, length>>.                                   *)
(***************************************************************************)
EXTENDS Integers, Sequences

CONSTANTS
    Kind,        \* the address kinds of the requests: "v4", "domain", "v6", "other"
    PayloadLen,  \* the payload lengths
    DomainLen    \* the lengths of domain names

ASSUME CodecAssumption ==
    /\ Kind \subseteq {"v4", "domain", "v6", "other"}
    /\ PayloadLen \subseteq Nat /\ DomainLen \subseteq 1 .. 255

VARIABLES
    stage,    \* where the datagram is
    msg       \* what is there

codec_vars == <<stage, msg>>

\* The widths of total_len, and of the length byte of a domain.
Word == 65536
Byte == 256

HEADER_SIZE == 4

\* The session id in front of a frame, and the longest plaintext of one DTLS
\* record: SSL_write refuses a longer one, and the frame is dropped.
SessionIdSize == 2
MaxRecord == 16384

Fits(f) == SessionIdSize + f.size <= MaxRecord

AddrLen(kind, dlen) == CASE kind = "v4" -> 4 [] kind = "v6" -> 16 [] OTHER -> dlen

\* The length byte that a domain has in front of it.
LenByte(kind) == IF kind = "domain" THEN 1 ELSE 0

-----------------------------------------------------------------------------
\* What a parser makes of a string; "fails" is its return value false, and
\* "throws" the std::string that would be longer than max_size().
Parsed(kind, addr, data) == [ok |-> "yes", kind |-> kind, addr |-> addr, data |-> data]
Rejected == [ok |-> "fails"]
Throws == [ok |-> "throws"]

\* A SOCKS5 UDP request: RSV, RSV, FRAG, ATYP, address, port, payload.
Request(kind, alen, plen) ==
    [kind |-> kind, alen |-> alen, plen |-> plen, size |-> 4 + LenByte(kind) + alen + 2 + plen]

\* Mutant: the payload is taken from the port on.
UdpRequest_parse_port(q) ==
    IF q.kind = "other" THEN Rejected
    ELSE Parsed(q.kind, <<0, q.alen>>, <<0, q.size - 4 - LenByte(q.kind) - q.alen>>)

UdpRequest_parse(q) ==
    LET remain == q.size - 4
        fixed  == LenByte(q.kind) + q.alen + 2
    IN  IF q.kind = "other" \/ remain < fixed THEN Rejected
        ELSE Parsed(q.kind, <<0, q.alen>>, <<0, remain - fixed>>)

\* Mutant: total_len without the address type.
UdpFrame_generate_short(kind, alen, plen) ==
    LET total == HEADER_SIZE + 1 + LenByte(kind) + alen + 2 + plen
    IN  [kind |-> kind, alen |-> alen, plen |-> plen, size |-> total, total |-> (total - 1) % Word]

\* UdpFrame::generate, for an endpoint or for a domain.
UdpFrame_generate(kind, alen, plen) ==
    LET total == HEADER_SIZE + 1 + LenByte(kind) + alen + 2 + plen
    IN  [kind |-> kind, alen |-> alen, plen |-> plen, size |-> total, total |-> total % Word]

\* UdpFrame::parse: p and remaining as the code counts them.
UdpFrame_parse(f) ==
    LET dlen      == f.alen % Byte
        start     == HEADER_SIZE + 1 + LenByte(f.kind)             \* p, at the address
        remaining == f.total - start
        addr_len  == CASE f.kind = "v4"     -> 4 + 2
                       [] f.kind = "domain" -> 1 + dlen + 2
                       [] f.kind = "v6"     -> 16 + 2
        needed    == IF f.kind = "domain" THEN dlen + 2 ELSE addr_len
    IN  IF f.total < HEADER_SIZE \/ f.size < f.total \/ remaining < needed THEN Rejected
        ELSE IF remaining - addr_len < 0 THEN Throws
        ELSE Parsed(f.kind, <<0, needed - 2>>,
                    <<start + addr_len - (f.size - f.plen), remaining - addr_len>>)

\* Mutant: the address is left out for every kind but a domain.
UdpRequest_serialize_noaddr(p) ==
    [kind |-> p.kind, addr |-> IF p.kind # "domain" THEN <<0, 0>> ELSE p.addr, data |-> p.data]

\* UdpRequest::serialize, of a parsed frame: its addr_type is the frame's, 0x06
\* for IPv6, and only 0x01, 0x03 and 0x04 have their address written.
UdpRequest_serialize(p) ==
    [kind |-> p.kind, addr |-> IF p.kind = "v6" THEN <<0, 0>> ELSE p.addr, data |-> p.data]

-----------------------------------------------------------------------------
DatagramInit ==
    /\ stage = "app"
    /\ \E kind \in Kind, dlen \in DomainLen, plen \in PayloadLen :
          msg = Request(kind, AddrLen(kind, dlen), plen)

Goto(s, m) == stage' = s /\ msg' = m

\* A datagram nobody will see again.
Dropped(m) == Goto("dropped", m)

\* do_receive_local: parse, generate and send.
RelaySends ==
    /\ stage = "app"
    /\ LET p == UdpRequest_parse(msg)
           frame == UdpFrame_generate(p.kind, p.addr[2], p.data[2])
       IN  IF p.ok # "yes" THEN Dropped(msg)
           ELSE IF ~Fits(frame) THEN Dropped(frame)
           ELSE Goto("frame", [asked |-> msg, frame |-> frame])

\* try_read_app_data: parse, resolve a domain, and send on a socket that is open
\* for IPv4: the send to an IPv6 endpoint fails, and its handler only logs that.
ServerSends ==
    /\ stage = "frame"
    /\ LET p == UdpFrame_parse(msg.frame)
       IN  CASE p.ok = "fails"  -> Dropped(msg.frame)
             [] p.ok = "throws" -> Goto("crashed", [asked |-> msg.asked])
             [] p.ok = "yes" /\ p.kind = "v6" -> Dropped(msg.frame)
             [] OTHER -> Goto("target", [asked |-> msg.asked, addr |-> p.addr, data |-> p.data])

\* do_read_target and send_to_client: the target, an IPv4 endpoint, answers.
TargetReplies ==
    /\ stage = "target"
    /\ \E plen \in PayloadLen :
          LET frame == UdpFrame_generate("v4", 4, plen)
          IN  IF Fits(frame) THEN Goto("reply", frame) ELSE Dropped(frame)

\* UdpRelay::on_dtls_data: parse and serialize.
RelayReplies ==
    /\ stage = "reply"
    /\ LET p == UdpFrame_parse(msg)
       IN  IF p.ok = "yes"
             THEN Goto("answered", [sent |-> msg, got |-> UdpRequest_serialize(p)])
             ELSE Dropped(msg)

Over == stage \in {"dropped", "crashed", "answered"} /\ UNCHANGED codec_vars

DatagramNext == RelaySends \/ ServerSends \/ TargetReplies \/ RelayReplies \/ Over

DatagramSpec == DatagramInit /\ [][DatagramNext]_codec_vars

-----------------------------------------------------------------------------
\* The target gets exactly the payload the application sent, at the address it
\* named, for every length up to the largest record.
PayloadReachesTarget ==
    stage = "target" => /\ msg.data = <<0, msg.asked.plen>>
                        /\ msg.addr = <<0, msg.asked.alen>>

\* The application gets exactly the payload the target sent, and its address.
ReplyReachesApp ==
    stage = "answered" => /\ msg.got.data = <<0, msg.sent.plen>>
                          /\ msg.got.addr = <<0, msg.sent.alen>>

\* What the path carries: a frame for an IPv4 target or a domain, in one record.
Carried(f) == f.kind \in {"v4", "domain"} /\ Fits(f)

\* A datagram is lost on the way exactly when it cannot be carried: its address
\* type is unknown, or is IPv6 (for which UDP_PROXY_DESIGN.md:76-86 has an
\* encoding, and DtlsServerSession no socket), or one DTLS record does not hold
\* it.  All others get through: total_len does not wrap, and each parser takes
\* what was written for it.
OnlyUncarriedDropped ==
    /\ stage # "crashed"
    /\ stage = "dropped" => ~Carried(msg)
    /\ stage = "target" =>
          Carried(UdpFrame_generate(msg.asked.kind, msg.asked.alen, msg.asked.plen))
    /\ stage = "answered" => Carried(msg.sent)

\* "域名: [0x03][1 byte len][N bytes domain][2 bytes port] = 4+N bytes"
\* (UDP_PROXY_DESIGN.md:85), with "Payload | 变长 | 实际 UDP 数据" (line 79)
\* behind it: a target named by domain gets the payload the application sent.
DomainPayloadIntact == stage # "crashed" /\ PayloadReachesTarget

=============================================================================
