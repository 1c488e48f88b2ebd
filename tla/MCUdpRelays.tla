---------------------------- MODULE MCUdpRelays ------------------------------
\* Associations and targets are interchangeable, so runs that check only
\* invariants use this symmetry.
EXTENDS UdpRelays, TLC

Symmetry == Permutations(Relay) \cup Permutations(Target)
=============================================================================
