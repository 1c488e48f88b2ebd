------------------------------ MODULE UdpRelays ------------------------------
(***************************************************************************)
(* The UDP associations of the client and their share of the one DTLS      *)
(* channel: Server (Client/Server.cpp) with its relays_ map and its        *)
(* session ids, UdpRelay, the UDP ASSOCIATE part of the client's Session,  *)
(* the connect and disconnect buttons, and target_to_session_ of the       *)
(* server's DtlsServerSession, by which a reply finds its association.     *)
(*                                                                         *)
(* A frame is its session id and its target.  Channels are numbered in the *)
(* order start_dtls makes them; a relay keeps a pointer to the channel it  *)
(* was started with.                                                       *)
(***************************************************************************)
EXTENDS Integers, FiniteSets, Functions

CONSTANTS
    Relay,      \* the UDP associations, each made and closed at most once
    Target,     \* the endpoints of the targets
    SidSpace,   \* the number of session ids, 2^16 in the code
    MaxChannel, \* bound: channels made by start_dtls
    MaxStops,   \* bound: posted stop_dtls calls before a connect with UDP disabled
    MaxNet      \* bound: frames in flight in each direction

ASSUME RelaysAssumption == 
    SidSpace \in Nat \ {0} /\ MaxChannel \in Nat /\ MaxStops \in Nat /\ MaxNet \in Nat

VARIABLES
    gui,              \* the buttons: "CONNECTED" or "DISCONNECTED"
    stops,            \* stop_dtls calls posted and not yet run
    made, dtls,       \* channels made; the one dtls_ points to, or 0
    ready,            \* channels whose handshake is done
    next_session_id,
    relays,           \* relays_: a function from session ids to relays
    relay,            \* the associations
    up, down,         \* frames in flight on the channels
    target_to_session,\* of the server session behind each channel
    asked,            \* the targets the server has sent to, for each channel
    wanted, answered  \* the targets each relay has asked and been answered by

vars == <<gui, stops, made, dtls, ready, next_session_id, relays, relay, up, down,
          target_to_session, asked, wanted, answered>>

Sid == 0 .. SidSpace - 1

Channel == 1 .. MaxChannel

\* pending: pending_frames_.  The application endpoints (sender_ep_ and
\* target_to_sender_) are not modelled.
Association ==
    [state : {"none", "open", "closed"}, sid : Sid, channel : 0 .. MaxChannel,
     pending : SUBSET Target]

Fresh == [state |-> "none", sid |-> 0, channel |-> 0, pending |-> {}]

Packet(c, sid, t) == [channel |-> c, sid |-> sid, target |-> t]

Init ==
    /\ gui = "DISCONNECTED" /\ stops = 0
    /\ made = 0 /\ dtls = 0 /\ ready = {}
    /\ next_session_id = 1 % SidSpace
    /\ relays = <<>>
    /\ relay = [r \in Relay |-> Fresh]
    /\ up = {} /\ down = {}
    /\ target_to_session = [c \in Channel |-> [t \in Target |-> 0]]
    /\ asked = [c \in Channel |-> {}]
    /\ wanted = [r \in Relay |-> {}] /\ answered = [r \in Relay |-> {}]

network == <<up, down, target_to_session, asked, wanted, answered>>

-----------------------------------------------------------------------------
\* The GUI thread: start_dtls runs there and replaces dtls_; stop_dtls is
\* posted to the io_context.

\* With UDP disabled start_dtls returns at once.
onConnect ==
    /\ gui = "DISCONNECTED"
    /\ gui' = "CONNECTED"
    /\ \/ made < MaxChannel /\ made' = made + 1 /\ dtls' = made + 1
       \/ stops < MaxStops /\ UNCHANGED <<made, dtls>>
    /\ UNCHANGED <<stops, ready, next_session_id, relays, relay, network>>

onDisconnect ==
    /\ gui = "CONNECTED"
    /\ gui' = "DISCONNECTED"
    /\ stops' = stops + 1
    /\ UNCHANGED <<made, dtls, ready, next_session_id, relays, relay, network>>

stop_dtls ==
    /\ stops > 0
    /\ stops' = stops - 1
    /\ dtls' = 0
    /\ UNCHANGED <<gui, made, ready, next_session_id, relays, relay, network>>

-----------------------------------------------------------------------------
\* The io thread of the client.

\* A relay may send on its channel: the channel it points to still exists.
\* When it does not, what is read through the pointer is undefined: the relay
\* queues, drops the frame, or finds a newer channel at the same address.
Usable(r) == relay[r].channel = dtls

\* What flush_pending sends on the channel that is there.
Frames(r) == {Packet(dtls, relay[r].sid, t) : t \in relay[r].pending}

\* Mutant: the relays are not flushed.
OnHandshake_noflush ==
    /\ dtls \in Channel \ ready
    /\ ready' = ready \cup {dtls}
    /\ UNCHANGED <<gui, stops, made, dtls, next_session_id, relays, relay, network>>

\* The handshake callback of start_dtls: flush_pending of every registered relay.
OnHandshake ==
    /\ dtls \in Channel \ ready
    /\ ready' = ready \cup {dtls}
    /\ \E lost, aliased \in SUBSET {r \in Range(relays) : ~Usable(r)} :
          LET sending == {r \in Range(relays) : Usable(r)} \cup aliased
          IN  /\ up' = up \cup UNION {Frames(r) : r \in sending}
              /\ relay' = [r \in Relay |-> IF r \in sending \cup lost
                                             THEN [relay[r] EXCEPT !.pending = {}]
                                             ELSE relay[r]]
    /\ UNCHANGED <<gui, stops, made, dtls, next_session_id, relays, down,
                   target_to_session, asked, wanted, answered>>

register_relay(sid, r) == relays' = [s \in DOMAIN relays \cup {sid} |->
                                        IF s = sid THEN r ELSE relays[s]]

\* Mutant: the pointer is left in relays_.
unregister_relay_not(sid) == UNCHANGED relays

unregister_relay(sid) == relays' = Restrict(relays, DOMAIN relays \ {sid})

\* Mutant: the counter is read and not incremented.
allocate_session_id_same == next_session_id

\* allocate_session_id: next_session_id_++, a uint16_t.
allocate_session_id == (next_session_id + 1) % SidSpace

\* do_handle_socks5_udp_associate, which refuses when there is no channel.
\* UdpRelay::start returns true on every path, so its error path is never taken.
Associate(r) ==
    /\ relay[r].state = "none"
    /\ \/ /\ dtls = 0
          /\ relay' = [relay EXCEPT ![r].state = "closed"]
          /\ UNCHANGED <<next_session_id, relays>>
       \/ /\ dtls # 0
          /\ relay' = [relay EXCEPT ![r].state = "open", ![r].channel = dtls,
                                    ![r].sid = next_session_id]
          /\ next_session_id' = allocate_session_id
          /\ register_relay(next_session_id, r)
    /\ UNCHANGED <<gui, stops, made, dtls, ready, network>>

\* destroy() of the session, when its control connection ends.
Close(r) ==
    /\ relay[r].state = "open"
    /\ relay' = [relay EXCEPT ![r] = [Fresh EXCEPT !.state = "closed"]]
    /\ IF relay[r].sid # 0 THEN unregister_relay(relay[r].sid) ELSE UNCHANGED relays
    /\ UNCHANGED <<gui, stops, made, dtls, ready, next_session_id, network>>

\* do_receive_local's handler: an application sends a datagram for target t.
do_receive_local(r, t) ==
    /\ relay[r].state = "open"
    /\ Cardinality(up) < MaxNet
    /\ LET queue == relay' = [relay EXCEPT ![r].pending = @ \cup {t}] /\ UNCHANGED up
           send(frames) == up' = up \cup frames /\ UNCHANGED relay
       IN  IF Usable(r)
             THEN IF dtls \in ready THEN send({Packet(dtls, relay[r].sid, t)}) ELSE queue
             ELSE \/ queue \/ send({})
                  \/ dtls \in ready /\ send({Packet(dtls, relay[r].sid, t)})
    /\ wanted' = [wanted EXCEPT ![r] = @ \cup {t}]
    /\ UNCHANGED <<gui, stops, made, dtls, ready, next_session_id, relays, down,
                   target_to_session, asked, answered>>

\* Server::on_dtls_data and UdpRelay::on_dtls_data.
on_dtls_data(m) ==
    /\ m \in down /\ m.channel = dtls
    /\ down' = down \ {m}
    /\ answered' = IF m.sid \in DOMAIN relays /\ relay[relays[m.sid]].state = "open"
                     THEN [answered EXCEPT ![relays[m.sid]] = @ \cup {m.target}]
                     ELSE answered
    /\ UNCHANGED <<gui, stops, made, dtls, ready, next_session_id, relays, relay, up,
                   target_to_session, asked, wanted>>

-----------------------------------------------------------------------------
\* The server's session behind channel m.channel, in state PROXY.

\* try_read_app_data and do_send_to_target.
do_send_to_target(m) ==
    /\ m \in up
    /\ up' = up \ {m}
    /\ target_to_session' = IF m.sid = 0 THEN target_to_session
                              ELSE [target_to_session EXCEPT ![m.channel][m.target] = m.sid]
    /\ asked' = [asked EXCEPT ![m.channel] = @ \cup {m.target}]
    /\ UNCHANGED <<gui, stops, made, dtls, ready, next_session_id, relays, relay, down,
                   wanted, answered>>

\* do_read_target's handler: a target that was asked answers.
do_read_target(c, t) ==
    /\ t \in asked[c] /\ Cardinality(down) < MaxNet
    /\ down' = down \cup {Packet(c, target_to_session[c][t], t)}
    /\ UNCHANGED <<gui, stops, made, dtls, ready, next_session_id, relays, relay, up,
                   target_to_session, asked, wanted, answered>>

Lose(m) ==
    /\ up' = up \ {m} /\ down' = down \ {m}
    /\ UNCHANGED <<gui, stops, made, dtls, ready, next_session_id, relays, relay,
                   target_to_session, asked, wanted, answered>>

Next ==
    \/ onConnect \/ onDisconnect \/ stop_dtls \/ OnHandshake
    \/ \E r \in Relay : Associate(r) \/ Close(r)
    \/ \E r \in Relay, t \in Target : do_receive_local(r, t)
    \/ \E m \in up : do_send_to_target(m)
    \/ \E c \in Channel, t \in Target : do_read_target(c, t)
    \/ \E m \in down : on_dtls_data(m)
    \/ \E m \in up \cup down : Lose(m)

Spec == Init /\ [][Next]_vars

-----------------------------------------------------------------------------
TypeOK ==
    /\ gui \in {"CONNECTED", "DISCONNECTED"} /\ stops \in Nat
    /\ made \in 0 .. MaxChannel /\ dtls \in 0 .. made /\ ready \subseteq 1 .. made
    /\ next_session_id \in Sid
    /\ DOMAIN relays \subseteq Sid /\ Range(relays) \subseteq Relay
    /\ relay \in [Relay -> Association]
    /\ up \cup down \subseteq [channel : Channel, sid : Sid, target : Target]
    /\ target_to_session \in [Channel -> [Target -> Sid]]
    /\ asked \in [Channel -> SUBSET Target]
    /\ wanted \in [Relay -> SUBSET Target] /\ answered \in [Relay -> SUBSET Target]

\* relays_ holds raw pointers: each points to a relay that still exists, and
\* every association that is open can be found by its session id.
RegistrySound ==
    /\ \A sid \in DOMAIN relays : relay[relays[sid]].state = "open"
    /\ \A r \in Relay : relay[r].state = "open" =>
          relay[r].sid \in DOMAIN relays /\ relays[relay[r].sid] = r

\* A reply reaches an association only if that association asked that target,
\* although target_to_session_ is shared, overwritten and never cleaned, and
\* replies outlive associations and channels.
RepliesWereAsked == \A r \in Relay : answered[r] \subseteq wanted[r]

\* Frames wait in pending_frames_ only for a handshake: a relay whose channel
\* is there and ready has none.
NothingStuckPending ==
    \A r \in Relay : relay[r].state = "open" /\ Usable(r) /\ dtls \in ready => relay[r].pending = {}

=============================================================================
