----------------------------- MODULE MCUdpCodec ------------------------------
\* Payload lengths at both ends of the range and around its limits: an IPv4 frame
\* adds 11 bytes and a session id 2, a record holds 16384; and 65507 is the
\* largest UDP payload, of which a request's own header takes 10.
EXTENDS UdpCodec

Lengths == (0 .. 20) \cup {254, 255, 256, 1400} \cup (16360 .. 16380) \cup (65480 .. 65497)
=============================================================================
