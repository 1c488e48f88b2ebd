---------------------------- MODULE MCTrojanUdp ------------------------------
\* Packets of 2, 1, 3, 1, 6 and 2 bytes: one is longer than MAX_BUFF_SIZE and
\* the last is malformed.
EXTENDS TrojanUdp

MCEnd == [k \in 0 .. 6 |-> <<0, 2, 3, 6, 7, 13, 15>>[k + 1]]
MCMalformed == {6}

\* A short well-formed stream.
ShortEnd == [k \in 0 .. 2 |-> <<0, 2, 3>>[k + 1]]
=============================================================================
