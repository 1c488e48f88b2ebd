------------------------------ MODULE MCCodecs -------------------------------
\* Datagrams and connection requests in one state space: each behaviour begins
\* with one of them.
EXTENDS Requests, MCUdpCodec

\* No authentication alone, behind another method, and not offered.
Greetings == {<<0>>, <<2, 0>>, <<2>>}

CodecsInit == DatagramInit \/ RequestInit
CodecsNext == DatagramNext \/ RequestNext
CodecsSpec == CodecsInit /\ [][CodecsNext]_codec_vars
=============================================================================
