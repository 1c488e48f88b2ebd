------------------------------ MODULE Requests -------------------------------
(***************************************************************************)
(* How a TCP connection is asked for: the application's SOCKS5 exchange or *)
(* HTTP CONNECT with the client, the V request the client sends for it,    *)
(* the Trojan request of another client, and what the server makes of its  *)
(* first read.  All but the HTTP head are parsed out of ONE read, which    *)
(* may return any prefix of what was sent, and the SOCKS5 parsers read the *)
(* session's buffer without regard to how much of it the read has filled.  *)
(*                                                                         *)
(* Messages are short byte strings, because what the parsers get wrong or  *)
(* right is where in the buffer they look.  stage and msg are those of     *)
(* UdpCodec, the stages are others.                                        *)
(***************************************************************************)
EXTENDS UdpCodec, SequencesExt

CONSTANTS
    HostLen,       \* the lengths of the host names asked for
    Greeting,      \* the sets of authentication methods, as sequences
    AfterLen       \* how much the application sends behind its request

CR == 13
LF == 10
CRLF == <<CR, LF>>

U16(n) == <<n \div Byte, n % Byte>>
U32(n) == <<0, 0>> \o U16(n)

\* The session's buffer: filled with zeros, then overwritten by each read.
At(b, i) == IF i <= Len(b) THEN b[i] ELSE 0
Overwrite(b, old) == b \o SubSeq(old, Len(b) + 1, Len(old))

D16(b, i) == At(b, i) * Byte + At(b, i + 1)
D32(b, i) == D16(b, i) * Word + D16(b, i + 2)

\* The offset of the first x at or behind i, or one behind the end.
Find(b, x, i) ==
    LET n == SelectInSeq(SubSeq(b, i, Len(b)), LAMBDA y : y = x)
    IN  IF n = 0 THEN Len(b) + 1 ELSE i + n - 1

-----------------------------------------------------------------------------
\* Addresses as text.  The digits of a byte are one symbol, the byte itself:
\* four of them with dots between, or eight groups of two with colons.
Dot == 46
Colon == 58

Dotted(b) == <<b[1], Dot, b[2], Dot, b[3], Dot, b[4]>>

Groups(b) == [i \in 1 .. 23 |-> IF i % 3 = 0 THEN Colon ELSE b[2 * (i \div 3) + (i % 3)]]

\* What the application names, by kind and by the bytes of a request.
AddressBytes(kind, len) ==
    CASE kind = "v4" -> <<127, 0, 20, 5>>
      [] kind = "v6" -> [i \in 1 .. 16 |-> (IF len = 1 THEN 48 ELSE 96) + (i % 10)]
      [] OTHER       -> [i \in 1 .. len |-> 97]

HostText(kind, bytes) ==
    CASE kind = "v4" -> Dotted(bytes) [] kind = "v6" -> Groups(bytes) [] OTHER -> bytes

\* The type byte of SOCKS5 and Trojan, and the address behind it.
Address(kind, bytes) ==
    CASE kind = "v4" -> <<1>> \o bytes
      [] kind = "v6" -> <<4>> \o bytes
      [] kind = "domain" -> <<3, Len(bytes)>> \o bytes

-----------------------------------------------------------------------------
\* What a request parser returns: its host, port and password, and the bytes
\* it takes for application data.
Taken(host, port, password, left) ==
    [ok |-> "yes", host |-> host, port |-> port, password |-> password, left |-> left]

\* "v protocol", and its length.
v_identifier == <<118, 32, 112, 114, 111, 116, 111, 99, 111, 108>>
identifier_len == 10

VRequest_stream(user_name, password, address, port) ==
    LET len == 5 + identifier_len + Len(password) + 4 + Len(user_name) + 4 + Len(address) + 4 + 2
    IN  v_identifier \o <<1>> \o U32(len) \o U32(Len(user_name)) \o user_name
          \o U32(Len(password)) \o password \o U32(Len(address)) \o address \o U16(port)

is_v_protocol(buf) == \A i \in 1 .. identifier_len : At(buf, i) = v_identifier[i]

\* Mutant: the packed data is counted from the port.
VRequest_unstream_port(b) ==
    LET len      == D32(b, identifier_len + 2)
        user     == identifier_len + 6
        password == user + 4 + D32(b, user)
        address  == password + 4 + D32(b, password)
        port     == address + 4 + D32(b, address)
        Str(i)   == SubSeq(b, i + 4, i + 3 + D32(b, i))
    IN  IF Len(b) < identifier_len + 5 \/ len > Len(b) THEN Rejected
        ELSE Taken(Str(address), D16(b, port), Str(password), SubSeq(b, port, port - 1 + Len(b) - len))

VRequest_unstream(b) ==
    LET len      == D32(b, identifier_len + 2)
        user     == identifier_len + 6
        password == user + 4 + D32(b, user)
        address  == password + 4 + D32(b, password)
        port     == address + 4 + D32(b, address)
        Str(i)   == SubSeq(b, i + 4, i + 3 + D32(b, i))
    IN  IF Len(b) < identifier_len + 5 \/ len > Len(b) THEN Rejected
        ELSE Taken(Str(address), D16(b, port), Str(password),
                   SubSeq(b, port + 2, port + 1 + Len(b) - len))

\* Mutant: the length byte is a signed char, and IPv6 is not known.
SOCKS5Address_parse_signed(d) ==
    LET Addr(kind, first, n) ==
            [ok |-> "yes", host |-> HostText(kind, SubSeq(d, first, first + n - 1)),
             port |-> D16(d, first + n), len |-> first + n + 1]
    IN  CASE At(d, 1) = 1 /\ Len(d) > 4 + 2 -> Addr("v4", 2, 4)
          [] At(d, 1) = 3 /\ At(d, 2) \in 1 .. 127 /\ Len(d) > 1 + At(d, 2) + 2 -> Addr("domain", 3, At(d, 2))
          [] OTHER -> Rejected

\* SOCKS5Address::parse, of the bytes from the type on.
SOCKS5Address_parse(d) ==
    LET Addr(kind, first, n) ==
            [ok |-> "yes", host |-> HostText(kind, SubSeq(d, first, first + n - 1)),
             port |-> D16(d, first + n), len |-> first + n + 1]
    IN  CASE At(d, 1) = 1 /\ Len(d) > 4 + 2 -> Addr("v4", 2, 4)
          [] At(d, 1) = 3 /\ At(d, 2) # 0 /\ Len(d) > 1 + At(d, 2) + 2 -> Addr("domain", 3, At(d, 2))
          [] At(d, 1) = 4 /\ Len(d) > 16 + 2 -> Addr("v6", 2, 16)
          [] OTHER -> Rejected

TrojanReq_generate(password, kind, bytes, port, cmd) ==
    password \o CRLF \o <<cmd>> \o Address(kind, bytes) \o U16(port) \o CRLF

\* find("\r\n"); no byte before it is a CR.
TrojanReq_parse(b) ==
    LET first   == Find(b, CR, 1)
        payload == SubSeq(b, first + 2, Len(b))
        a       == SOCKS5Address_parse(Tail(payload))
    IN  IF At(b, first) # CR \/ At(b, first + 1) # LF \/ At(payload, 1) \notin {1, 3} THEN Rejected
        ELSE IF a.ok # "yes" THEN Rejected
        ELSE IF Len(payload) < a.len + 3 \/ SubSeq(payload, a.len + 2, a.len + 3) # CRLF THEN Rejected
        ELSE Taken(a.host, a.port, SubSeq(b, 1, first - 1), SubSeq(payload, a.len + 4, Len(payload)))

\* AuthReq::unstream: the methods, read from the buffer however many bytes
\* have come.
AuthReq_methods(buf) == {At(buf, 2 + i) : i \in 1 .. At(buf, 2)}

\* Request::unsteam.
Request_unsteam(buf, length) ==
    LET kind  == CASE At(buf, 4) = 1 -> "v4" [] At(buf, 4) = 3 -> "domain" [] OTHER -> "none"
        n     == IF kind = "v4" THEN 4 ELSE At(buf, 5)
        first == IF kind = "v4" THEN 5 ELSE 6
    IN  IF At(buf, 1) # 5 \/ At(buf, 3) # 0 \/ kind = "none" \/ length # first + n + 1
          THEN Rejected
          ELSE Taken(HostText(kind, SubSeq(buf, first, first + n - 1)),
                     D16(buf, first + n), <<>>, <<>>)

\* std::stoi: the leading digits, or an exception where there are none.
IsDigit(c) == c \in 48 .. 57
Stoi(b) ==
    LET n == SelectInSeq(b, LAMBDA c : ~IsDigit(c))
    IN  FoldLeft(LAMBDA v, c : 10 * v + c - 48, 0, IF n = 0 THEN b ELSE SubSeq(b, 1, n - 1))

\* "CONNECT ", and a space.
Connect == <<67, 79, 78, 78, 69, 67, 84, 32>>
Space == 32

\* HttpRequest::unstream: host and port between "CONNECT " and the next space.
HttpRequest_unstream(b) ==
    LET line    == SubSeq(b, 1, Find(b, CR, 1) - 1)
        address == SubSeq(line, 9, Find(line, Space, 9) - 1)
        colon   == Find(address, Colon, 1)
        host    == SubSeq(address, 1, colon - 1)
        digits  == SubSeq(address, colon + 1, Len(address))
    IN  IF SubSeq(line, 1, 8) # Connect THEN Rejected
        ELSE IF colon > Len(address)
               THEN IF host = <<>> THEN Rejected ELSE Taken(host, 443, <<>>, <<>>)
        ELSE IF digits = <<>> \/ ~IsDigit(digits[1]) THEN Throws
        ELSE IF host = <<>> THEN Rejected ELSE Taken(host, Stoi(digits) % Word, <<>>, <<>>)

-----------------------------------------------------------------------------
\* The parties.  A password stands for its hash; the server allows the first.
Password == {<<97, 98>>, <<99, 98>>}
allowed_passwords == {<<97, 98>>}
user_name == <<117>>
Port == 8080
PortText == <<56, 48, 56, 48>>
After(n) == [i \in 1 .. n |-> 120]

\* asked is what the application wants; bytes what was sent and not read yet;
\* buf the client's in_buf; whole says that no read so far cut a message.
Asking(how, kind, len, after, password, methods) ==
    [how |-> how, kind |-> kind, host |-> HostText(kind, AddressBytes(kind, len)),
     bytes |-> AddressBytes(kind, len), port |-> Port, after |-> After(after),
     password |-> password, methods |-> methods]

State(asked, bytes, buf, whole) == [asked |-> asked, bytes |-> bytes, buf |-> buf, whole |-> whole]

Refused == Goto("refused", msg)

\* The head of an HTTP request: the line, with an IPv6 literal in brackets, and
\* the fields behind it.
HttpLine(a) ==
    Connect \o (IF a.kind = "v6" THEN <<91>> \o a.host \o <<93>> ELSE a.host)
      \o <<Colon>> \o PortText \o <<Space, 72>> \o CRLF

HttpFields == <<104>> \o CRLF \o CRLF

RequestInit ==
    \E kind \in {"v4", "domain", "v6"}, len \in HostLen, after \in AfterLen,
       password \in Password, methods \in Greeting :
       LET A(how) == Asking(how, kind, len, after, password, methods)
       IN  \/ /\ stage = "greeting"
              /\ msg = State(A("socks5"), <<5, Len(methods)>> \o methods, <<>>, TRUE)
           \/ /\ stage = "head"
              /\ msg = State(A("http"), HttpLine(A("http")) \o HttpFields, <<>>, TRUE)
           \/ /\ stage = "server"
              /\ msg = State(A("trojan"),
                             TrojanReq_generate(password, kind, AddressBytes(kind, len), Port, 1)
                               \o After(after), <<>>, TRUE)

Prefix(n) == SubSeq(msg.bytes, 1, n)
Rest(n) == SubSeq(msg.bytes, n + 1, Len(msg.bytes))

\* Session::start and write_sock5_hanshake_reply.  The application sends its
\* request once it has the answer, if the answer is a method it offered.
ReadGreeting ==
    /\ stage = "greeting"
    /\ \E n \in 1 .. Len(msg.bytes) :
         IF At(Prefix(n), 1) # 5 \/ 0 \notin AuthReq_methods(Prefix(n)) \/ At(Prefix(n), 2) = 255
           THEN Goto("refused", State(msg.asked, <<>>, <<>>, n = Len(msg.bytes)))
           ELSE LET a == msg.asked
                    request == <<5, 1, 0>> \o Address(a.kind, a.bytes) \o U16(a.port)
                IN  Goto("request",
                         State(a, Rest(n) \o (IF Contains(a.methods, 0) THEN request ELSE <<>>),
                               Prefix(n), n = Len(msg.bytes)))

\* do_sent_v_req, once the server is reached; then the relay takes what is
\* left of the application's bytes.
do_sent_v_req(a, host, port, rest, whole) ==
    Goto("server", State(a, VRequest_stream(user_name, a.password, host, port) \o rest \o a.after,
                         <<>>, whole))

ReadRequest ==
    /\ stage = "request"
    /\ \E n \in 1 .. Len(msg.bytes) :
         LET q == Request_unsteam(Overwrite(Prefix(n), msg.buf), n)
             whole == msg.whole /\ n = Len(msg.bytes)
         IN  IF q.ok # "yes" THEN Goto("refused", State(msg.asked, <<>>, <<>>, whole))
             ELSE do_sent_v_req(msg.asked, q.host, q.port, Rest(n), whole)

\* http_connect_handshake reads until there is a line; what it has read behind
\* the line is discarded, what it has not read is relayed.
ReadHead ==
    /\ stage = "head"
    /\ \E n \in (Find(msg.bytes, CR, 1) + 1) .. Len(msg.bytes) :
         LET q == HttpRequest_unstream(Prefix(n))
         IN  CASE q.ok = "fails"  -> Refused
               [] q.ok = "throws" -> Goto("terminated", msg)
               [] q.ok = "yes"    -> do_sent_v_req(msg.asked, q.host, q.port, Rest(n),
                                                   n = Len(msg.bytes))

\* handle_custom_protocol, do_resolve and do_connect: one read, one parser,
\* the password, and the data that came with the request.
handle_custom_protocol ==
    /\ stage = "server"
    /\ \E n \in 1 .. Len(msg.bytes) :
         LET b == Prefix(n)
             q == IF is_v_protocol(b) THEN VRequest_unstream(b) ELSE TrojanReq_parse(b)
         IN  IF q.ok = "yes" /\ q.password \in allowed_passwords
               THEN Goto("connected", [asked |-> msg.asked, got |-> q, rest |-> Rest(n),
                                       whole |-> msg.whole])
               ELSE Goto("refused", State(msg.asked, <<>>, <<>>, msg.whole /\ n = Len(msg.bytes)))

RequestOver == stage \in {"refused", "terminated", "connected"} /\ UNCHANGED codec_vars

RequestNext == ReadGreeting \/ ReadRequest \/ ReadHead \/ handle_custom_protocol \/ RequestOver

-----------------------------------------------------------------------------
\* An HTTP CONNECT for a bracketed IPv6 literal, which HttpRequest::unstream
\* splits at the literal's own first colon.
Ipv6Literal(a) == a.how = "http" /\ a.kind = "v6"

\* However the reads cut the exchange, and whatever an earlier read has left in
\* the buffer: if the server connects, it is to the host and port that the
\* application named, for the password it sent, and the target is sent the
\* application's bytes, all of them, in order and nothing else, but for the end of
\* an HTTP head that had not come when the client looked for its first line: that
\* end of the fields is sent before them.  Whatever the target, but not the host
\* and the port of an IPv6 literal in an HTTP CONNECT.
NeverMisread ==
    stage = "connected" =>
        /\ Ipv6Literal(msg.asked) \/ (/\ msg.got.host = msg.asked.host
                                      /\ msg.got.port = msg.asked.port)
        /\ msg.got.password = msg.asked.password
        /\ \E unread \in Suffixes(HttpFields) :
              /\ unread # <<>> => msg.asked.how = "http" /\ ~msg.whole
              /\ msg.got.left \o msg.rest = unread \o msg.asked.after

\* A request is refused for a reason: a read cut it, the password is not
\* allowed, or it is SOCKS5 without "no authentication" or for an IPv6 address.
\* The client itself refuses no HTTP CONNECT, cut or not; and the exception that
\* stoi throws, which nobody catches, ends it only on an IPv6 literal.
OnlyCutRefused ==
    /\ stage = "refused" =>
         \/ ~msg.whole \/ msg.asked.password \notin allowed_passwords
         \/ msg.asked.how = "socks5" /\ (msg.asked.kind = "v6" \/ ~Contains(msg.asked.methods, 0))
    /\ stage = "terminated" => Ipv6Literal(msg.asked)
=============================================================================
