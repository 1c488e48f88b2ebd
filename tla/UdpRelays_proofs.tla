-------------------------- MODULE UdpRelays_proofs ---------------------------
(***************************************************************************)
(* The registry of UDP associations is sound, replies go only to those who *)
(* asked and frames wait only for a handshake: for every set of targets,   *)
(* every number of channels, and every number of associations that does    *)
(* not use up the session ids.  With more the ids repeat, and an           *)
(* association may get the id, and the replies, of one that is still open. *)
(***************************************************************************)
EXTENDS UdpRelays, FiniteSetTheorems, TLAPS

IsOpen(r) == relay[r].state = "open"

\* The associations that have been made, or refused.
Started == {r \in Relay : relay[r].state # "none"}

\* An association that has session id sid has asked target t.
Asked(sid, t) == \A r \in Relay : IsOpen(r) /\ relay[r].sid = sid => t \in wanted[r]

\* Ids 1 .. n have been given out, and every id in a frame or in a
\* target_to_session table is 0 or one of them.
Ids(n) ==
    /\ n <= Cardinality(Started)
    /\ next_session_id = (n + 1) % SidSpace
    /\ \A r \in Relay : IsOpen(r) => relay[r].sid \in 1 .. n
    /\ \A m \in up \cup down : m.sid <= n
    /\ \A c \in Channel, t \in Target : target_to_session[c][t] <= n

\* A frame, or a reply made from a table, carries the id of an association that
\* asked its target, if that association is still open.
Provenance ==
    /\ \A r \in Relay : IsOpen(r) => relay[r].pending \subseteq wanted[r]
    /\ \A m \in up \cup down : Asked(m.sid, m.target)
    /\ \A c \in Channel, t \in Target : Asked(target_to_session[c][t], t)

\* relays_ maps an id to the association that has it.
Registered ==
    /\ \A sid \in DOMAIN relays : /\ IsOpen(relays[sid]) /\ relay[relays[sid]].sid = sid
    /\ \A r \in Relay : IsOpen(r) => relay[r].sid \in DOMAIN relays /\ relays[relay[r].sid] = r

\* The inductive invariant.
IInv ==
    /\ TypeOK
    /\ \A r \in Relay : relay[r].channel <= made /\ (relay[r].state = "none" => relay[r].pending = {})
    /\ Registered
    /\ NothingStuckPending
    /\ \E n \in Nat : Ids(n)
    /\ Provenance
    /\ RepliesWereAsked

-----------------------------------------------------------------------------
\* Fields and sets.

LEMMA TypeFields ==
    ASSUME TypeOK
    PROVE  /\ relay \in [Relay -> Association]
           /\ \A r \in Relay : /\ relay[r] \in Association /\ relay[r].state \in {"none", "open", "closed"}
                               /\ relay[r].sid \in Sid /\ relay[r].sid \in Nat
                               /\ relay[r].channel \in 0 .. MaxChannel /\ relay[r].channel \in Nat
                               /\ relay[r].pending \subseteq Target
           /\ \A sid \in DOMAIN relays : sid \in Sid /\ relays[sid] \in Relay
           /\ \A m \in up \cup down : /\ m \in [channel : Channel, sid : Sid, target : Target]
                                      /\ m.channel \in Channel /\ m.sid \in Sid /\ m.sid \in Nat /\ m.target \in Target
           /\ \A c \in Channel, t \in Target : /\ target_to_session[c][t] \in Sid
                                               /\ target_to_session[c][t] \in Nat
           /\ made \in Nat /\ dtls \in Nat /\ dtls <= made /\ made <= MaxChannel /\ MaxChannel \in Nat
           /\ SidSpace \in Nat /\ SidSpace > 0
  <1>1. \A r \in Relay : relay[r] \in Association
    BY DEF TypeOK
  <1>2. \A sid \in DOMAIN relays : sid \in Sid /\ relays[sid] \in Relay
    BY DEF TypeOK, Range
  <1>3. Sid \subseteq Nat
    BY RelaysAssumption DEF Sid
  <1>4. \A a \in Association : /\ a.state \in {"none", "open", "closed"} /\ a.sid \in Sid
                               /\ a.channel \in 0 .. MaxChannel /\ a.channel \in Nat /\ a.pending \subseteq Target
    BY RelaysAssumption DEF Association
  <1>. QED  BY <1>1, <1>2, <1>3, <1>4, RelaysAssumption DEF TypeOK

LEMMA FrameType ==
    ASSUME NEW c \in Channel, NEW sid \in Sid, NEW t \in Target
    PROVE  /\ Packet(c, sid, t) \in [channel : Channel, sid : Sid, target : Target]
           /\ Packet(c, sid, t).sid = sid /\ Packet(c, sid, t).target = t
  BY DEF Packet

\* Two open associations never have the same id.
LEMMA OneOwner ==
    ASSUME Registered, NEW r \in Relay, NEW q \in Relay, IsOpen(r), IsOpen(q), relay[r].sid = relay[q].sid
    PROVE  r = q
  BY DEF Registered

\* What an association asked for is asked for under its id.
LEMMA AskedByOwner ==
    ASSUME Registered, NEW r \in Relay, IsOpen(r), NEW t, t \in wanted[r]
    PROVE  Asked(relay[r].sid, t)
  BY OneOwner DEF Asked

\* While some association has not been made, fewer than SidSpace ids are used.
LEMMA RoomForOne ==
    ASSUME IsFiniteSet(Relay), Cardinality(Relay) < SidSpace, NEW r \in Relay \ Started
    PROVE  /\ IsFiniteSet(Started) /\ Cardinality(Started) \in Nat
           /\ Cardinality(Started \cup {r}) = Cardinality(Started) + 1
           /\ Cardinality(Started) + 1 < SidSpace
  <1>1. Started \subseteq Relay /\ Started \cup {r} \subseteq Relay
    BY DEF Started
  <1>2. IsFiniteSet(Started) /\ Cardinality(Started) \in Nat
    BY <1>1, FS_Subset, FS_CardinalityType
  <1>3. Cardinality(Started \cup {r}) = Cardinality(Started) + 1
    BY <1>2, FS_AddElement, Zenon
  <1>4. Cardinality(Started \cup {r}) <= Cardinality(Relay) /\ Cardinality(Relay) \in Nat
    BY <1>1, FS_Subset, FS_CardinalityType
  <1>. QED  BY <1>2, <1>3, <1>4, RelaysAssumption

LEMMA StartedFinite ==
    ASSUME IsFiniteSet(Relay), Cardinality(Relay) < SidSpace
    PROVE  Cardinality(Started) \in Nat /\ Cardinality(Started) < SidSpace
  <1>1. Started \subseteq Relay
    BY DEF Started
  <1>2. /\ IsFiniteSet(Started) /\ Cardinality(Started) \in Nat /\ Cardinality(Relay) \in Nat
        /\ Cardinality(Started) <= Cardinality(Relay)
    BY <1>1, FS_Subset, FS_CardinalityType
  <1>. QED  BY <1>2, RelaysAssumption

-----------------------------------------------------------------------------
\* The steps.

LEMMA InitIInv == ASSUME Init PROVE IInv
  <1>1. Fresh \in Association /\ Fresh.state = "none" /\ Fresh.channel = 0 /\ Fresh.pending = {}
    BY RelaysAssumption DEF Fresh, Association, Sid
  <1>2. \A r \in Relay : relay[r] = Fresh
    BY DEF Init
  <1>3. DOMAIN relays = {} /\ Range(relays) = {}
    BY DEF Init, Range
  <1>4. 0 \in Sid /\ next_session_id \in Sid
    BY RelaysAssumption DEF Init, Sid
  <1>5. TypeOK
    <2>1. /\ gui \in {"CONNECTED", "DISCONNECTED"} /\ stops \in Nat
          /\ made \in 0 .. MaxChannel /\ dtls \in 0 .. made /\ ready \subseteq 1 .. made
          /\ up \cup down \subseteq [channel : Channel, sid : Sid, target : Target]
      BY RelaysAssumption DEF Init
    <2>2. /\ relay \in [Relay -> Association]
          /\ target_to_session \in [Channel -> [Target -> Sid]] /\ asked \in [Channel -> SUBSET Target]
          /\ wanted \in [Relay -> SUBSET Target] /\ answered \in [Relay -> SUBSET Target]
      BY <1>1, <1>4 DEF Init
    <2>. QED  BY <1>3, <1>4, <2>1, <2>2 DEF TypeOK
  <1>6. Started = {} /\ Cardinality(Started) = 0
    BY <1>1, <1>2, FS_EmptySet DEF Started
  <1>7. \A r \in Relay : ~IsOpen(r)
    BY <1>1, <1>2 DEF IsOpen
  <1>8. Ids(0)
    BY <1>6, <1>7, RelaysAssumption DEF Ids, Init
  <1>9. Registered /\ NothingStuckPending /\ Provenance /\ RepliesWereAsked
    BY <1>3, <1>7 DEF Registered, NothingStuckPending, Provenance, RepliesWereAsked, Asked, Init, IsOpen
  <1>10. \A r \in Relay : relay[r].channel <= made /\ relay[r].pending = {}
    BY <1>1, <1>2 DEF Init
  <1>. QED  BY <1>5, <1>8, <1>9, <1>10 DEF IInv

\* The buttons and stop_dtls only change the channel.
LEMMA ChannelIInv == ASSUME IInv, onConnect \/ onDisconnect \/ stop_dtls PROVE IInv'
  <1>1. UNCHANGED <<ready, next_session_id, relays, relay, network>>
    BY DEF onConnect, onDisconnect, stop_dtls
  <1>2. /\ gui' \in {"CONNECTED", "DISCONNECTED"} /\ stops' \in Nat /\ made' \in 0 .. MaxChannel
        /\ dtls' \in 0 .. made' /\ ready' \subseteq 1 .. made' /\ made <= made'
    BY <1>1, RelaysAssumption DEF IInv, TypeOK, onConnect, onDisconnect, stop_dtls
  <1>3. TypeOK'
    BY <1>1, <1>2 DEF IInv, TypeOK, network
  <1>4. \A r \in Relay : relay'[r].channel <= made' /\ (relay'[r].state = "none" => relay'[r].pending = {})
    BY <1>1, <1>2, TypeFields DEF IInv
  <1>5. Registered' /\ Provenance' /\ RepliesWereAsked'
    BY <1>1 DEF IInv, Registered, Provenance, RepliesWereAsked, Asked, IsOpen, network
  <1>6. (\E n \in Nat : Ids(n))'
    BY <1>1, Zenon DEF IInv, Ids, Started, IsOpen, network
  <1>7. NothingStuckPending'
    <2>1. dtls' = dtls \/ dtls' = 0 \/ dtls' = made + 1
      BY DEF onConnect, onDisconnect, stop_dtls
    <2>2. 0 \notin ready /\ made + 1 \notin ready
      BY TypeFields DEF IInv, TypeOK
    <2>3. CASE dtls' = dtls
      BY <1>1, <2>3 DEF IInv, NothingStuckPending, Usable
    <2>4. CASE dtls' # dtls
      BY <1>1, <2>1, <2>2, <2>4 DEF NothingStuckPending
    <2>. QED  BY <2>3, <2>4
  <1>. QED  BY <1>3, <1>4, <1>5, <1>6, <1>7 DEF IInv

\* The steps of the network and the server: frames come from the tables and
\* the tables from frames.
LEMMA NetworkStep ==
    ASSUME IInv, UNCHANGED <<gui, stops, made, dtls, ready, next_session_id, relays, relay, wanted>>,
           \A m \in (up \cup down)' : \/ m \in up \cup down
                                      \/ \E c \in Channel, t \in Target : m = Packet(c, target_to_session[c][t], t),
           target_to_session' \in [Channel -> [Target -> Sid]],
           \A c \in Channel, t \in Target :
              \/ target_to_session'[c][t] = target_to_session[c][t]
              \/ \E m \in up : target_to_session'[c][t] = m.sid /\ t = m.target,
           asked' \in [Channel -> SUBSET Target],
           answered' \in [Relay -> SUBSET Target], RepliesWereAsked'
    PROVE  IInv'
  <1>1. TypeOK
    BY DEF IInv
  <1>2. PICK n \in Nat : Ids(n)
    BY DEF IInv
  <1>3. ASSUME NEW m \in (up \cup down)'
        PROVE  /\ m \in [channel : Channel, sid : Sid, target : Target] /\ m.sid <= n
               /\ Asked(m.sid, m.target)
    <2>1. CASE m \in up \cup down
      BY <1>1, <1>2, <2>1, TypeFields DEF Ids, IInv, Provenance
    <2>2. ASSUME NEW c \in Channel, NEW t \in Target, m = Packet(c, target_to_session[c][t], t)
          PROVE  /\ m \in [channel : Channel, sid : Sid, target : Target] /\ m.sid <= n
                 /\ Asked(m.sid, m.target)
      <3>1. /\ m \in [channel : Channel, sid : Sid, target : Target]
            /\ m.sid = target_to_session[c][t] /\ m.target = t
        BY <1>1, <2>2, TypeFields, FrameType
      <3>. QED  BY <1>2, <3>1 DEF Ids, IInv, Provenance
    <2>. QED  BY <2>1, <2>2
  <1>4. ASSUME NEW c \in Channel, NEW t \in Target
        PROVE  target_to_session'[c][t] <= n /\ Asked(target_to_session'[c][t], t)
    BY <1>2 DEF Ids, IInv, Provenance
  <1>5. \A sid, t : Asked(sid, t)' <=> Asked(sid, t)
    BY DEF Asked, IsOpen
  <1>6. TypeOK'
    BY <1>1, <1>3 DEF TypeOK
  <1>7. Ids(n)'
    BY <1>2, <1>3, <1>4 DEF Ids, Started, IsOpen
  <1>8. Provenance'
    <2>1. \A r \in Relay : IsOpen(r)' => relay'[r].pending \subseteq wanted'[r]
      BY DEF IInv, Provenance, IsOpen
    <2>. QED  BY <1>3, <1>4, <1>5, <2>1 DEF Provenance, Asked, IsOpen
  <1>9. /\ \A r \in Relay : relay'[r].channel <= made' /\ (relay'[r].state = "none" => relay'[r].pending = {})
        /\ Registered' /\ NothingStuckPending'
    BY DEF IInv, Registered, NothingStuckPending, Usable, IsOpen
  <1>. QED  BY <1>6, <1>7, <1>8, <1>9 DEF IInv

LEMMA SendToTargetIInv == ASSUME IInv, NEW m \in up, do_send_to_target(m) PROVE IInv'
  <1>1. m.channel \in Channel /\ m.target \in Target /\ m.sid \in Sid /\ TypeOK
    BY TypeFields DEF IInv
  <1>2. asked' \in [Channel -> SUBSET Target]
    BY <1>1 DEF do_send_to_target, TypeOK
  <1>3. target_to_session' \in [Channel -> [Target -> Sid]]
    BY <1>1 DEF do_send_to_target, TypeOK
  <1>4. ASSUME NEW c \in Channel, NEW t \in Target
        PROVE  \/ target_to_session'[c][t] = target_to_session[c][t]
               \/ target_to_session'[c][t] = m.sid /\ t = m.target
    BY <1>1 DEF do_send_to_target, TypeOK
  <1>5. RepliesWereAsked'
    BY DEF IInv, RepliesWereAsked, do_send_to_target
  <1>. QED  BY <1>1, <1>2, <1>3, <1>4, <1>5, NetworkStep DEF do_send_to_target, TypeOK

LEMMA ReadTargetIInv ==
    ASSUME IInv, NEW c \in Channel, NEW t \in Target, do_read_target(c, t) PROVE IInv'
  <1>1. RepliesWereAsked'
    BY DEF IInv, RepliesWereAsked, do_read_target
  <1>. QED  BY <1>1, NetworkStep DEF do_read_target, IInv, TypeOK

LEMMA LoseIInv == ASSUME IInv, NEW m, Lose(m) PROVE IInv'
  <1>1. RepliesWereAsked'
    BY DEF IInv, RepliesWereAsked, Lose
  <1>. QED  BY <1>1, NetworkStep DEF Lose, IInv, TypeOK

\* A reply is given to the association that has its id, which has asked.
LEMMA OnDtlsDataIInv == ASSUME IInv, NEW m \in down, on_dtls_data(m) PROVE IInv'
  <1>1. TypeOK /\ m.target \in Target /\ Asked(m.sid, m.target) /\ RepliesWereAsked
    BY TypeFields DEF IInv, Provenance
  <1>2. CASE m.sid \in DOMAIN relays /\ relay[relays[m.sid]].state = "open"
    <2>. DEFINE r == relays[m.sid]
    <2>1. answered' = [answered EXCEPT ![r] = @ \cup {m.target}] /\ wanted' = wanted
      BY <1>2 DEF on_dtls_data
    <2>2. r \in Relay /\ IsOpen(r) /\ relay[r].sid = m.sid
      BY <1>1, <1>2, TypeFields DEF IInv, Registered
    <2>3. m.target \in wanted[r]
      BY <1>1, <2>2 DEF Asked
    <2>. HIDE DEF r
    <2>4. answered' \in [Relay -> SUBSET Target] /\ RepliesWereAsked'
      BY <1>1, <2>1, <2>2, <2>3 DEF RepliesWereAsked, TypeOK
    <2>. QED  BY <2>4, NetworkStep DEF on_dtls_data, IInv, TypeOK
  <1>3. CASE ~(m.sid \in DOMAIN relays /\ relay[relays[m.sid]].state = "open")
    <2>1. answered' = answered /\ wanted' = wanted
      BY <1>3 DEF on_dtls_data
    <2>2. answered' \in [Relay -> SUBSET Target] /\ RepliesWereAsked'
      BY <1>1, <2>1 DEF RepliesWereAsked, TypeOK
    <2>. QED  BY <2>2, NetworkStep DEF on_dtls_data, IInv, TypeOK
  <1>. QED  BY <1>2, <1>3

\* Asked after a step, of an id and a target from before it.
AskedThen(sid, t) == \A r \in Relay : IsOpen(r)' /\ relay'[r].sid = sid => t \in wanted'[r]

\* A datagram from an application is framed with the id of its association and
\* sent, queued or dropped.
LEMMA ReceiveLocalIInv ==
    ASSUME IInv, NEW r \in Relay, NEW t \in Target, do_receive_local(r, t) PROVE IInv'
  <1>1. /\ TypeOK /\ Registered /\ IsOpen(r) /\ relay[r].sid \in Sid
        /\ UNCHANGED <<gui, stops, made, dtls, ready, next_session_id, relays, down,
                       target_to_session, asked, answered>>
        /\ wanted' = [wanted EXCEPT ![r] = @ \cup {t}]
    BY TypeFields DEF IInv, do_receive_local, IsOpen
  <1>2. wanted' \in [Relay -> SUBSET Target] /\ t \in wanted'[r] /\ \A q \in Relay : wanted[q] \subseteq wanted'[q]
    BY <1>1 DEF TypeOK
  <1>. DEFINE p == Packet(dtls, relay[r].sid, t)
              queued == [relay EXCEPT ![r].pending = @ \cup {t}]
  <1>3. \/ relay' = queued /\ up' = up /\ ~(Usable(r) /\ dtls \in ready)
        \/ relay' = relay /\ up' = up
        \/ relay' = relay /\ up' = up \cup {p} /\ dtls \in ready
    BY DEF do_receive_local
  <1>4. dtls \in ready => dtls \in Channel
    BY <1>1, TypeFields DEF TypeOK, Channel
  <1>5. /\ queued \in [Relay -> Association]
        /\ \A q \in Relay : /\ queued[q].state = relay[q].state /\ queued[q].sid = relay[q].sid
                            /\ queued[q].channel = relay[q].channel
                            /\ queued[q].pending = IF q = r THEN relay[q].pending \cup {t} ELSE relay[q].pending
    BY <1>1, TypeFields, Zenon DEF Association
  <1>. HIDE DEF queued
  <1>6. /\ relay' \in [Relay -> Association]
        /\ \A q \in Relay : /\ relay'[q].state = relay[q].state /\ relay'[q].sid = relay[q].sid
                            /\ relay'[q].channel = relay[q].channel
                            /\ relay'[q].pending \subseteq relay[q].pending \cup (IF q = r THEN {t} ELSE {})
    BY <1>1, <1>3, <1>5, TypeFields, Zenon
  <1>7. \A q \in Relay : IsOpen(q)' <=> IsOpen(q)
    BY <1>6 DEF IsOpen
  <1>8. Registered'
    BY <1>1, <1>6, <1>7, TypeFields DEF Registered
  <1>9. \A m \in (up \cup down)' : m \in up \cup down \/ (m = p /\ dtls \in Channel)
    BY <1>1, <1>3, <1>4
  <1>10. dtls \in Channel => /\ p \in [channel : Channel, sid : Sid, target : Target]
                             /\ p.sid = relay[r].sid /\ p.target = t
    BY <1>1, FrameType
  <1>. HIDE DEF p
  <1>11. TypeOK'
    BY <1>1, <1>2, <1>6, <1>9, <1>10 DEF TypeOK
  <1>12. \A q \in Relay : relay'[q].channel <= made' /\ (relay'[q].state = "none" => relay'[q].pending = {})
    BY <1>1, <1>6 DEF IInv, IsOpen
  <1>13. NothingStuckPending'
    <2>1. CASE relay' = relay
      BY <1>1, <2>1 DEF IInv, NothingStuckPending, Usable
    <2>2. CASE relay' = queued /\ ~(Usable(r) /\ dtls \in ready)
      BY <1>1, <1>5, <2>2, Zenon DEF IInv, NothingStuckPending, Usable
    <2>. QED  BY <1>3, <2>1, <2>2
  <1>14. PICK n \in Nat : Ids(n)
    BY DEF IInv
  <1>15. Ids(n)'
    <2>1. Started' = Started
      BY <1>6 DEF Started
    <2>2. \A m \in (up \cup down)' : m.sid <= n
      BY <1>1, <1>9, <1>10, <1>14, TypeFields DEF Ids
    <2>. QED  BY <1>1, <1>6, <1>7, <1>14, <2>1, <2>2 DEF Ids
  <1>16. Provenance'
    <2>1. \A q \in Relay : IsOpen(q)' => relay'[q].pending \subseteq wanted'[q]
      BY <1>2, <1>6, <1>7 DEF IInv, Provenance
    <2>2. ASSUME NEW sid, NEW u, Asked(sid, u) PROVE AskedThen(sid, u)
      BY <1>2, <1>6, <1>7, <2>2 DEF Asked, AskedThen
    <2>3. AskedThen(relay[r].sid, t)
      <3>1. \A q \in Relay : IsOpen(q) /\ relay[q].sid = relay[r].sid => q = r
        BY <1>1, OneOwner
      <3>. QED  BY <1>2, <1>6, <1>7, <3>1 DEF AskedThen
    <2>4. \A m \in (up \cup down)' : AskedThen(m.sid, m.target)
      BY <1>9, <1>10, <2>2, <2>3 DEF IInv, Provenance
    <2>5. \A c \in Channel, u \in Target : AskedThen(target_to_session'[c][u], u)
      BY <1>1, <2>2 DEF IInv, Provenance
    <2>. QED  BY <2>1, <2>4, <2>5 DEF Provenance, Asked, AskedThen
  <1>17. RepliesWereAsked'
    BY <1>1, <1>2 DEF IInv, RepliesWereAsked
  <1>. QED  BY <1>8, <1>11, <1>12, <1>13, <1>15, <1>16, <1>17 DEF IInv

\* flush_pending of the registered relays: the usable ones send what they hold,
\* the others keep it, lose it, or send it on the channel that is there.
LEMMA OnHandshakeIInv == ASSUME IInv, OnHandshake PROVE IInv'
  <1>1. /\ TypeOK /\ Registered /\ dtls \in Channel /\ ready' = ready \cup {dtls}
        /\ UNCHANGED <<gui, stops, made, dtls, next_session_id, relays, down,
                       target_to_session, asked, wanted, answered>>
    BY DEF IInv, OnHandshake
  <1>2. PICK lost \in SUBSET {r \in Range(relays) : ~Usable(r)},
             aliased \in SUBSET {r \in Range(relays) : ~Usable(r)} :
            LET sending == {r \in Range(relays) : Usable(r)} \cup aliased
            IN  /\ up' = up \cup UNION {Frames(r) : r \in sending}
                /\ relay' = [r \in Relay |-> IF r \in sending \cup lost
                                               THEN [relay[r] EXCEPT !.pending = {}]
                                               ELSE relay[r]]
    BY Zenon DEF OnHandshake
  <1>. DEFINE sending == {r \in Range(relays) : Usable(r)} \cup aliased
  <1>3. \A r \in sending : r \in Relay /\ IsOpen(r)
    BY <1>1, TypeFields DEF Range, Registered
  <1>4. /\ \A r \in Relay : relay'[r] = IF r \in sending \cup lost THEN [relay[r] EXCEPT !.pending = {}] ELSE relay[r]
        /\ relay' \in [Relay -> Association]
        /\ \A r \in Relay : /\ relay'[r].state = relay[r].state /\ relay'[r].sid = relay[r].sid
                            /\ relay'[r].channel = relay[r].channel
                            /\ relay'[r].pending \subseteq relay[r].pending
                            /\ r \in sending => relay'[r].pending = {}
    <2>1. relay' = [r \in Relay |-> IF r \in sending \cup lost THEN [relay[r] EXCEPT !.pending = {}] ELSE relay[r]]
      BY <1>2
    <2>2. \A a \in Association : LET b == [a EXCEPT !.pending = {}]
                                 IN  /\ b \in Association /\ b.state = a.state /\ b.sid = a.sid
                                     /\ b.channel = a.channel /\ b.pending = {}
      BY DEF Association
    <2>. HIDE DEF sending
    <2>. QED  BY <1>1, <2>1, <2>2, TypeFields
  <1>5. ASSUME NEW m \in up'
        PROVE  \/ m \in up
               \/ \E r \in Relay, t \in Target : /\ IsOpen(r) /\ t \in relay[r].pending
                                                 /\ m = Packet(dtls, relay[r].sid, t)
    <2>1. m \in up \/ \E r \in sending : m \in Frames(r)
      BY <1>2
    <2>. QED  BY <1>1, <1>3, <2>1, TypeFields DEF Frames
  <1>6. \A r \in Relay : IsOpen(r) /\ Usable(r) => relay'[r].pending = {}
    <2>1. \A r \in Relay : IsOpen(r) => r \in Range(relays)
      BY <1>1 DEF Registered, Range
    <2>. QED  BY <1>4, <2>1
  <1>. HIDE DEF sending
  <1>7. \A r \in Relay : IsOpen(r)' <=> IsOpen(r)
    BY <1>4 DEF IsOpen
  <1>8. Registered'
    BY <1>1, <1>4, <1>7, TypeFields DEF Registered
  <1>9. PICK n \in Nat : Ids(n)
    BY DEF IInv
  <1>10. ASSUME NEW sid, NEW u, Asked(sid, u) PROVE AskedThen(sid, u)
    BY <1>1, <1>4, <1>7, <1>10 DEF Asked, AskedThen
  <1>11. ASSUME NEW m \in (up \cup down)'
         PROVE  /\ m \in [channel : Channel, sid : Sid, target : Target] /\ m.sid <= n
                /\ Asked(m.sid, m.target)
    <2>1. CASE m \in up \cup down
      BY <1>1, <1>9, <2>1, TypeFields DEF Ids, IInv, Provenance
    <2>2. ASSUME NEW r \in Relay, NEW t \in Target, IsOpen(r), t \in relay[r].pending,
                 m = Packet(dtls, relay[r].sid, t)
          PROVE  /\ m \in [channel : Channel, sid : Sid, target : Target] /\ m.sid <= n
                 /\ Asked(m.sid, m.target)
      <3>1. /\ m \in [channel : Channel, sid : Sid, target : Target]
            /\ m.sid = relay[r].sid /\ m.target = t /\ relay[r].sid \in Nat
        BY <1>1, <2>2, TypeFields, FrameType
      <3>2. t \in wanted[r]
        BY <2>2 DEF IInv, Provenance
      <3>3. relay[r].sid <= n
        BY <1>9, <2>2, <3>1 DEF Ids
      <3>. QED  BY <1>1, <2>2, <3>1, <3>2, <3>3, AskedByOwner
    <2>. QED  BY <1>1, <1>5, <2>1, <2>2
  <1>12. TypeOK'
    <2>1. ready' \subseteq 1 .. made'
      BY <1>1, TypeFields DEF TypeOK, Channel
    <2>. QED  BY <1>1, <1>4, <1>11, <2>1 DEF TypeOK
  <1>13. \A q \in Relay : relay'[q].channel <= made' /\ (relay'[q].state = "none" => relay'[q].pending = {})
    BY <1>1, <1>4 DEF IInv
  <1>14. NothingStuckPending'
    BY <1>1, <1>4, <1>6 DEF NothingStuckPending, Usable, IsOpen
  <1>15. Ids(n)'
    <2>1. Started' = Started
      BY <1>4 DEF Started
    <2>. QED  BY <1>1, <1>4, <1>7, <1>9, <1>11, <2>1 DEF Ids
  <1>16. Provenance'
    <2>1. \A q \in Relay : IsOpen(q)' => relay'[q].pending \subseteq wanted'[q]
      BY <1>1, <1>4, <1>7 DEF IInv, Provenance
    <2>2. \A m \in (up \cup down)' : AskedThen(m.sid, m.target)
      BY <1>10, <1>11
    <2>3. \A c \in Channel, u \in Target : AskedThen(target_to_session'[c][u], u)
      BY <1>1, <1>10 DEF IInv, Provenance
    <2>. QED  BY <2>1, <2>2, <2>3 DEF Provenance, Asked, AskedThen
  <1>17. RepliesWereAsked'
    BY <1>1 DEF IInv, RepliesWereAsked
  <1>. QED  BY <1>8, <1>12, <1>13, <1>14, <1>15, <1>16, <1>17 DEF IInv

\* A new association gets an id that no frame, table or association has.
LEMMA AssociateIInv ==
    ASSUME IsFiniteSet(Relay), Cardinality(Relay) < SidSpace,
           IInv, NEW r \in Relay, Associate(r), dtls # 0
    PROVE  IInv'
  <1>. DEFINE id == next_session_id
  <1>1. /\ TypeOK /\ Registered /\ relay[r].state = "none" /\ relay[r].pending = {}
        /\ UNCHANGED <<gui, stops, made, dtls, ready, up, down, target_to_session, asked, wanted, answered>>
    BY DEF IInv, Associate, network
  <1>2. /\ relay' = [relay EXCEPT ![r].state = "open", ![r].channel = dtls, ![r].sid = id]
        /\ next_session_id' = (id + 1) % SidSpace
        /\ relays' = [s \in DOMAIN relays \cup {id} |-> IF s = id THEN r ELSE relays[s]]
    BY DEF Associate, allocate_session_id, register_relay
  <1>3. PICK n \in Nat : Ids(n)
    BY DEF IInv
  <1>4. r \in Relay \ Started
    BY <1>1 DEF Started
  <1>5. /\ Cardinality(Started) \in Nat /\ Cardinality(Started \cup {r}) = Cardinality(Started) + 1
        /\ Cardinality(Started) + 1 < SidSpace
    BY <1>4, RoomForOne
  <1>6. id = n + 1 /\ id \in Sid /\ id \in Nat /\ id < SidSpace
    BY <1>3, <1>5, RelaysAssumption DEF Ids, Sid
  <1>7. /\ DOMAIN relays' = DOMAIN relays \cup {id} /\ relays'[id] = r
        /\ \A s \in DOMAIN relays \ {id} : relays'[s] = relays[s]
    BY <1>2
  <1>8. /\ relay' \in [Relay -> Association]
        /\ relay'[r].state = "open" /\ relay'[r].channel = dtls /\ relay'[r].sid = id /\ relay'[r].pending = {}
        /\ \A q \in Relay \ {r} : relay'[q] = relay[q]
    <2>. DEFINE a == [relay[r] EXCEPT !.state = "open", !.channel = dtls, !.sid = id]
    <2>1. dtls \in 0 .. MaxChannel /\ relay[r] \in Association
      BY <1>1, TypeFields
    <2>2. a \in Association /\ a.state = "open" /\ a.channel = dtls /\ a.sid = id /\ a.pending = {}
      BY <1>1, <1>6, <2>1, Zenon DEF Association
    <2>3. relay' = [relay EXCEPT ![r] = a]
      BY <1>1, <1>2, Zenon DEF TypeOK
    <2>. HIDE DEF a
    <2>. QED  BY <1>1, <2>2, <2>3 DEF TypeOK
  <1>. HIDE DEF id
  <1>9. /\ ~IsOpen(r) /\ IsOpen(r)' /\ \A q \in Relay \ {r} : IsOpen(q)' <=> IsOpen(q)
    BY <1>1, <1>8 DEF IsOpen
  <1>10. \A s \in DOMAIN relays : s # id /\ relays[s] \in Relay \ {r}
    <2>1. \A s \in DOMAIN relays : relays[s] \in Relay /\ IsOpen(relays[s]) /\ relay[relays[s]].sid = s
      BY <1>1, TypeFields DEF Registered
    <2>2. \A s \in DOMAIN relays : s \in 1 .. n
      BY <1>3, <2>1 DEF Ids
    <2>. QED  BY <1>6, <1>9, <2>1, <2>2
  <1>11. Registered'
    <2>1. ASSUME NEW s \in DOMAIN relays' PROVE relay'[relays'[s]].state = "open" /\ relay'[relays'[s]].sid = s
      <3>1. CASE s = id
        BY <1>7, <1>8, <1>9, <3>1 DEF IsOpen
      <3>2. CASE s # id
        <4>1. s \in DOMAIN relays /\ relays'[s] = relays[s] /\ relays[s] \in Relay \ {r}
          BY <1>7, <1>10, <3>2
        <4>2. IsOpen(relays[s]) /\ relay[relays[s]].sid = s
          BY <1>1, <4>1 DEF Registered
        <4>. QED  BY <1>8, <4>1, <4>2 DEF IsOpen
      <3>. QED  BY <3>1, <3>2
    <2>2. ASSUME NEW q \in Relay, IsOpen(q)' PROVE relay'[q].sid \in DOMAIN relays' /\ relays'[relay'[q].sid] = q
      <3>1. CASE q = r
        BY <1>7, <1>8, <3>1
      <3>2. CASE q # r
        <4>1. relay'[q] = relay[q] /\ relay[q].sid \in DOMAIN relays /\ relays[relay[q].sid] = q
          BY <1>1, <1>8, <1>9, <2>2, <3>2 DEF Registered
        <4>. QED  BY <1>7, <1>10, <4>1
      <3>. QED  BY <3>1, <3>2
    <2>. QED  BY <2>1, <2>2 DEF Registered, IsOpen
  <1>12. TypeOK'
    <2>1. DOMAIN relays' \subseteq Sid
      BY <1>1, <1>6, <1>7 DEF TypeOK
    <2>2. ASSUME NEW x \in Range(relays') PROVE x \in Relay
      BY <1>7, <1>10 DEF Range
    <2>3. next_session_id' \in Sid
      BY <1>2, <1>6, RelaysAssumption DEF Sid, id
    <2>. QED  BY <1>1, <1>8, <2>1, <2>2, <2>3 DEF TypeOK, Range
  <1>13. \A q \in Relay : relay'[q].channel <= made' /\ (relay'[q].state = "none" => relay'[q].pending = {})
    BY <1>1, <1>8, TypeFields DEF IInv
  <1>14. NothingStuckPending'
    BY <1>1, <1>8 DEF IInv, NothingStuckPending, Usable
  <1>15. Ids(n + 1)'
    <2>1. Started' = Started \cup {r}
      BY <1>8 DEF Started
    <2>2. n + 1 <= Cardinality(Started')
      BY <1>3, <1>5, <2>1 DEF Ids
    <2>3. next_session_id' = ((n + 1) + 1) % SidSpace
      BY <1>2, <1>6 DEF id
    <2>4. \A q \in Relay : IsOpen(q)' => relay'[q].sid \in 1 .. (n + 1)
      BY <1>3, <1>6, <1>8, <1>9 DEF Ids
    <2>5. /\ \A m \in up' \cup down' : m.sid <= n + 1
          /\ \A c \in Channel, t \in Target : target_to_session'[c][t] <= n + 1
      BY <1>1, <1>3, TypeFields DEF Ids
    <2>. QED  BY <2>2, <2>3, <2>4, <2>5 DEF Ids
  <1>16. Provenance'
    <2>1. ASSUME NEW sid \in Nat, sid <= n, NEW u, Asked(sid, u) PROVE AskedThen(sid, u)
      <3>1. relay'[r].sid # sid
        BY <1>6, <1>8, <2>1
      <3>. QED  BY <1>1, <1>8, <1>9, <2>1, <3>1 DEF Asked, AskedThen
    <2>2. \A q \in Relay : IsOpen(q)' => relay'[q].pending \subseteq wanted'[q]
      BY <1>1, <1>8, <1>9 DEF IInv, Provenance
    <2>3. \A m \in (up \cup down)' : AskedThen(m.sid, m.target)
      BY <1>1, <1>3, <2>1, TypeFields DEF IInv, Provenance, Ids
    <2>4. \A c \in Channel, u \in Target : AskedThen(target_to_session'[c][u], u)
      BY <1>1, <1>3, <2>1, TypeFields DEF IInv, Provenance, Ids
    <2>. QED  BY <2>2, <2>3, <2>4 DEF Provenance, Asked, AskedThen
  <1>17. RepliesWereAsked'
    BY <1>1 DEF IInv, RepliesWereAsked
  <1>18. (\E k \in Nat : Ids(k))'
    BY <1>15
  <1>. QED  BY <1>11, <1>12, <1>13, <1>14, <1>16, <1>17, <1>18 DEF IInv

\* An association ends, or is refused: it is not open, and not registered.
LEMMA EndedIInv ==
    ASSUME IInv, NEW r \in Relay, NEW a \in Association, a.state = "closed", a.channel = 0 \/ a.channel = relay[r].channel,
           relay' = [relay EXCEPT ![r] = a],
           IF IsOpen(r) THEN unregister_relay(relay[r].sid) ELSE relays' = relays,
           relay[r].state = "none" \/ IsOpen(r), IsFiniteSet(Relay),
           UNCHANGED <<gui, stops, made, dtls, ready, next_session_id, network>>
    PROVE  IInv'
  <1>1. /\ TypeOK /\ Registered
        /\ UNCHANGED <<gui, stops, made, dtls, ready, next_session_id, up, down, target_to_session, asked,
                       wanted, answered>>
    BY DEF IInv, network
  <1>2. relay' \in [Relay -> Association] /\ relay'[r] = a /\ \A q \in Relay \ {r} : relay'[q] = relay[q]
    BY <1>1 DEF TypeOK
  <1>3. ~IsOpen(r)' /\ \A q \in Relay \ {r} : IsOpen(q)' <=> IsOpen(q)
    BY <1>2 DEF IsOpen
  <1>4. /\ \A s \in DOMAIN relays' : s \in DOMAIN relays /\ relays'[s] = relays[s] /\ relays[s] \in Relay \ {r}
        /\ \A q \in Relay \ {r} : IsOpen(q) => relay[q].sid \in DOMAIN relays' /\ relays'[relay[q].sid] = q
    <2>1. CASE IsOpen(r)
      <3>1. relays' = [s \in DOMAIN relays \ {relay[r].sid} |-> relays[s]]
        BY <2>1 DEF unregister_relay, Restrict
      <3>2. \A s \in DOMAIN relays : relays[s] \in Relay /\ (relays[s] = r => s = relay[r].sid)
        BY <1>1, TypeFields DEF Registered
      <3>3. \A q \in Relay \ {r} : IsOpen(q) => relay[q].sid # relay[r].sid
        BY <1>1, <2>1, OneOwner
      <3>. QED  BY <1>1, <3>1, <3>2, <3>3 DEF Registered
    <2>2. CASE ~IsOpen(r)
      BY <1>1, <2>2, TypeFields DEF Registered
    <2>. QED  BY <2>1, <2>2
  <1>5. Registered'
    <2>1. ASSUME NEW s \in DOMAIN relays'
          PROVE  relay'[relays'[s]].state = "open" /\ relay'[relays'[s]].sid = s
      <3>1. s \in DOMAIN relays /\ relays'[s] = relays[s] /\ relays[s] \in Relay \ {r}
        BY <1>4
      <3>2. relay[relays[s]].state = "open" /\ relay[relays[s]].sid = s
        BY <1>1, <3>1, Zenon DEF Registered, IsOpen
      <3>3. relay'[relays'[s]] = relay[relays[s]]
        BY <1>2, <3>1, Zenon
      <3>. QED  BY <3>2, <3>3, Zenon
    <2>2. ASSUME NEW q \in Relay, IsOpen(q)'
          PROVE  relay'[q].sid \in DOMAIN relays' /\ relays'[relay'[q].sid] = q
      <3>1. q \in Relay \ {r} /\ IsOpen(q)
        BY <1>3, <2>2, Zenon
      <3>2. relay'[q] = relay[q]
        BY <1>2, <3>1, Zenon
      <3>. QED  BY <1>4, <3>1, <3>2, Zenon
    <2>. QED  BY <2>1, <2>2 DEF Registered, IsOpen
  <1>6. TypeOK'
    <2>1. DOMAIN relays' \subseteq Sid /\ Range(relays') \subseteq Relay
      BY <1>1, <1>4 DEF TypeOK, Range
    <2>. QED  BY <1>1, <1>2, <2>1 DEF TypeOK, Range
  <1>7. \A q \in Relay : relay'[q].channel <= made' /\ (relay'[q].state = "none" => relay'[q].pending = {})
    BY <1>1, <1>2, TypeFields DEF IInv
  <1>8. NothingStuckPending'
    BY <1>1, <1>2 DEF IInv, NothingStuckPending, Usable
  <1>9. PICK n \in Nat : Ids(n)
    BY DEF IInv
  <1>10. Cardinality(Started) <= Cardinality(Started') /\ Cardinality(Started) \in Nat /\ Cardinality(Started') \in Nat
    <2>1. Started \subseteq Started' /\ Started' \subseteq Relay
      BY <1>2 DEF Started
    <2>2. IsFiniteSet(Started')
      BY <2>1, FS_Subset
    <2>. QED  BY <2>1, <2>2, FS_Subset, FS_CardinalityType
  <1>11. Ids(n)'
    <2>1. n <= Cardinality(Started')
      BY <1>9, <1>10 DEF Ids
    <2>. QED  BY <1>1, <1>2, <1>3, <1>9, <2>1 DEF Ids
  <1>12. Provenance'
    <2>1. ASSUME NEW sid, NEW u, Asked(sid, u) PROVE AskedThen(sid, u)
      BY <1>1, <1>2, <1>3, <2>1 DEF Asked, AskedThen
    <2>2. \A q \in Relay : IsOpen(q)' => relay'[q].pending \subseteq wanted'[q]
      BY <1>1, <1>2, <1>3 DEF IInv, Provenance
    <2>3. \A m \in (up \cup down)' : AskedThen(m.sid, m.target)
      BY <1>1, <2>1 DEF IInv, Provenance
    <2>4. \A c \in Channel, u \in Target : AskedThen(target_to_session'[c][u], u)
      BY <1>1, <2>1 DEF IInv, Provenance
    <2>. QED  BY <2>2, <2>3, <2>4 DEF Provenance, Asked, AskedThen
  <1>13. RepliesWereAsked'
    BY <1>1 DEF IInv, RepliesWereAsked
  <1>14. (\E k \in Nat : Ids(k))'
    BY <1>11
  <1>. QED  BY <1>5, <1>6, <1>7, <1>8, <1>12, <1>13, <1>14 DEF IInv

LEMMA RefusedIInv ==
    ASSUME IsFiniteSet(Relay), IInv, NEW r \in Relay, Associate(r), dtls = 0 PROVE IInv'
  <1>. DEFINE a == [relay[r] EXCEPT !.state = "closed"]
  <1>1. relay[r].state = "none" /\ ~IsOpen(r) /\ relay[r] \in Association /\ relay \in [Relay -> Association]
    BY TypeFields DEF Associate, IInv, IsOpen
  <1>2. a \in Association /\ a.state = "closed" /\ a.channel = relay[r].channel
    BY <1>1 DEF Association
  <1>3. relay' = [relay EXCEPT ![r] = a]
    BY <1>1, Zenon DEF Associate
  <1>. HIDE DEF a
  <1>. QED  BY <1>1, <1>2, <1>3, EndedIInv, Zenon DEF Associate

LEMMA CloseIInv == ASSUME IsFiniteSet(Relay), IInv, NEW r \in Relay, Close(r) PROVE IInv'
  <1>. DEFINE a == [Fresh EXCEPT !.state = "closed"]
  <1>1. IsOpen(r) /\ relay' = [relay EXCEPT ![r] = a]
    BY DEF Close, IsOpen
  <1>2. a \in Association /\ a.state = "closed" /\ a.channel = 0
    BY RelaysAssumption DEF Fresh, Association, Sid
  <1>3. relay[r].sid # 0
    BY <1>1 DEF IInv, Ids
  <1>. HIDE DEF a
  <1>. QED  BY <1>1, <1>2, <1>3, EndedIInv, Zenon DEF Close

LEMMA NextIInv ==
    ASSUME IsFiniteSet(Relay), Cardinality(Relay) < SidSpace, IInv, [Next]_vars
    PROVE  IInv'
  <1>1. CASE UNCHANGED vars
    BY <1>1, NetworkStep DEF vars, IInv, TypeOK, RepliesWereAsked
  <1>2. CASE onConnect \/ onDisconnect \/ stop_dtls \/ OnHandshake
    BY <1>2, ChannelIInv, OnHandshakeIInv
  <1>3. ASSUME NEW r \in Relay, Associate(r) \/ Close(r) PROVE IInv'
    BY <1>3, AssociateIInv, RefusedIInv, CloseIInv
  <1>4. CASE \/ \E r \in Relay, t \in Target : do_receive_local(r, t)
             \/ \E m \in up : do_send_to_target(m)
             \/ \E c \in Channel, t \in Target : do_read_target(c, t)
             \/ \E m \in down : on_dtls_data(m)
             \/ \E m \in up \cup down : Lose(m)
    BY <1>4, ReceiveLocalIInv, SendToTargetIInv, ReadTargetIInv, OnDtlsDataIInv, LoseIInv
  <1>. QED  BY <1>1, <1>2, <1>3, <1>4 DEF Next

-----------------------------------------------------------------------------
\* The inductive invariant holds while the session ids do not repeat.
THEOREM SpecIInv ==
    ASSUME IsFiniteSet(Relay), Cardinality(Relay) < SidSpace
    PROVE  Spec => []IInv
  <1>1. IInv /\ [Next]_vars => IInv'
    BY NextIInv
  <1>. QED  BY <1>1, InitIInv, PTL DEF Spec

\* While the session ids do not repeat, every pointer in relays_ is to a relay
\* that exists, and every open association is found by its id.
THEOREM SpecRegistrySound ==
    ASSUME IsFiniteSet(Relay), Cardinality(Relay) < SidSpace
    PROVE  Spec => []RegistrySound
  <1>1. IInv => RegistrySound
    BY DEF IInv, Registered, IsOpen, RegistrySound
  <1>. QED  BY <1>1, SpecIInv, PTL

\* While the session ids do not repeat, a reply reaches only an association that
\* asked its target, although the server's table is shared by all associations
\* of a channel and never cleaned.
THEOREM SpecRepliesWereAsked ==
    ASSUME IsFiniteSet(Relay), Cardinality(Relay) < SidSpace
    PROVE  Spec => []RepliesWereAsked
  <1>1. IInv => RepliesWereAsked
    BY DEF IInv
  <1>. QED  BY <1>1, SpecIInv, PTL

\* While the session ids do not repeat, no frame waits in pending_frames_ of a
\* relay whose channel is there and ready.
THEOREM SpecNothingStuckPending ==
    ASSUME IsFiniteSet(Relay), Cardinality(Relay) < SidSpace
    PROVE  Spec => []NothingStuckPending
  <1>1. IInv => NothingStuckPending
    BY DEF IInv
  <1>. QED  BY <1>1, SpecIInv, PTL

=============================================================================
