------------------------------ MODULE DnsCache -------------------------------
(***************************************************************************)
(* DnsCacheManager (Shared/DnsCache.cpp), the sessions of all io_context   *)
(* threads that look names up through it, and the timer of Service.cpp     *)
(* that purges it.  The mutex makes get, put and the purge atomic, but a   *)
(* session that misses lets go of it, waits for the resolver, and puts the *)
(* answer when its handler runs: others get, put and purge in between.     *)
(*                                                                         *)
(* A key is a "host:port" string, so one host has a key for each port, and *)
(* each transport has a cache of its own.  What a key resolves to changes  *)
(* in the world outside (dns), and lastTrue remembers until when it was    *)
(* what.                                                                   *)
(***************************************************************************)
EXTENDS Integers

CONSTANTS
    Key, Addr,
    TcpSession, UdpSession,   \* sessions that use the one cache or the other
    None,                     \* no entry, no answer
    Ttl,                      \* default_ttl_
    Interval,                 \* dns_cleanup_interval
    MaxDelay,                 \* bound: time a ready handler waits for its thread
    MaxTime                   \* bound: the clock

Entry == [endpoint : Addr, expire_time : Nat]

ASSUME DnsAssumption ==
    /\ Ttl \in Nat /\ Interval \in Nat \ {0} /\ MaxDelay \in Nat /\ MaxTime \in Nat
    /\ None \notin Addr \cup Entry /\ TcpSession \cap UdpSession = {}

VARIABLES
    now,                    \* time(nullptr)
    udp_cache, tcp_cache,   \* udp_cache_ and tcp_cache_
    timer,                  \* when dns_cleanup_timer_ expires
    dns,                    \* what each key resolves to now
    lastTrue,               \* the last time each address was right for each key
    lastPut,                \* the last time each key was put in each cache
    look                    \* each session's lookup

vars == <<now, udp_cache, tcp_cache, timer, dns, lastTrue, lastPut, look>>

Session == TcpSession \cup UdpSession

Lookup == [pc : {"idle", "resolving", "answered"}, key : Key \cup {None},
           answer : Addr \cup {None}, at : Nat]

Idle == [pc |-> "idle", key |-> None, answer |-> None, at |-> 0]

\* Mutant: an entry is used however old it is.
Live_present(cache, k) == cache[k] # None

\* time(nullptr) < expire_time
Live(cache, k) == cache[k] # None /\ now < cache[k].expire_time

Stored(cache, k, a) == [cache EXCEPT ![k] = [endpoint |-> a, expire_time |-> now + Ttl]]

\* Mutant: the purge counts time from the next second.
Purged_early(cache) ==
    [k \in Key |-> IF cache[k] # None /\ now + 1 >= cache[k].expire_time THEN None ELSE cache[k]]

Purged(cache) ==
    [k \in Key |-> IF cache[k] # None /\ now >= cache[k].expire_time THEN None ELSE cache[k]]

Init ==
    /\ now = 0 /\ timer = Interval
    /\ udp_cache = [k \in Key |-> None]
    /\ tcp_cache = [k \in Key |-> None]
    /\ dns \in [Key -> Addr]
    /\ lastTrue = [k \in Key |-> [a \in Addr |-> 0]]
    /\ lastPut = [k \in Key |-> [c \in {"tcp", "udp"} |-> -1]]
    /\ look = [s \in Session |-> Idle]

-----------------------------------------------------------------------------
\* A session looks a key up: do_resolve (TCP), handle_trojan_udp_proxy,
\* udp_async_bidirectional_read and DtlsServerSession::do_resolve_and_send.

\* A hit: the session connects or sends to the cached endpoint at once.
Hit(s, cache, k) ==
    /\ look[s].pc = "idle" /\ Live(cache, k)
    /\ UNCHANGED vars

Miss(s, cache, k) ==
    /\ look[s].pc = "idle" /\ ~Live(cache, k)
    /\ look' = [look EXCEPT ![s] = [Idle EXCEPT !.pc = "resolving", !.key = k]]
    /\ UNCHANGED <<now, udp_cache, tcp_cache, timer, dns, lastTrue, lastPut>>

get_tcp(s, k) == s \in TcpSession /\ (Hit(s, tcp_cache, k) \/ Miss(s, tcp_cache, k))

get_udp(s, k) == s \in UdpSession /\ (Hit(s, udp_cache, k) \/ Miss(s, udp_cache, k))

\* The resolver has its answer; the handler is queued.
Answer(s) ==
    /\ look[s].pc = "resolving"
    /\ look' = [look EXCEPT ![s] = [pc |-> "answered", key |-> @.key, answer |-> dns[@.key],
                                    at |-> now]]
    /\ UNCHANGED <<now, udp_cache, tcp_cache, timer, dns, lastTrue, lastPut>>

\* It fails: the session is destroyed, or the datagram dropped.
NoAnswer(s) ==
    /\ look[s].pc = "resolving"
    /\ look' = [look EXCEPT ![s] = Idle]
    /\ UNCHANGED <<now, udp_cache, tcp_cache, timer, dns, lastTrue, lastPut>>

Answered(s) ==
    /\ look[s].pc = "answered"
    /\ look' = [look EXCEPT ![s] = Idle]
    /\ UNCHANGED <<now, timer, dns, lastTrue>>

put_tcp(s) ==
    /\ s \in TcpSession /\ Answered(s)
    /\ tcp_cache' = Stored(tcp_cache, look[s].key, look[s].answer)
    /\ lastPut' = [lastPut EXCEPT ![look[s].key]["tcp"] = now]
    /\ UNCHANGED udp_cache

put_udp(s) ==
    /\ s \in UdpSession /\ Answered(s)
    /\ udp_cache' = Stored(udp_cache, look[s].key, look[s].answer)
    /\ lastPut' = [lastPut EXCEPT ![look[s].key]["udp"] = now]
    /\ UNCHANGED tcp_cache

\* Mutant: one of the caches is forgotten.
cleanup_expired_udp ==
    /\ now >= timer
    /\ udp_cache' = Purged(udp_cache)
    /\ timer' = now + Interval
    /\ UNCHANGED <<now, tcp_cache, dns, lastTrue, lastPut, look>>

\* The timer's handler: purge both caches and start the timer again.
cleanup_expired ==
    /\ now >= timer
    /\ udp_cache' = Purged(udp_cache)
    /\ tcp_cache' = Purged(tcp_cache)
    /\ timer' = now + Interval
    /\ UNCHANGED <<now, dns, lastTrue, lastPut, look>>

-----------------------------------------------------------------------------
\* The world: time passes, but no queued handler waits longer than MaxDelay.

Tick ==
    /\ now < MaxTime
    /\ now < timer + MaxDelay
    /\ \A s \in Session : look[s].pc = "answered" => now < look[s].at + MaxDelay
    /\ now' = now + 1
    /\ lastTrue' = [k \in Key |-> [lastTrue[k] EXCEPT ![dns[k]] = now + 1]]
    /\ UNCHANGED <<udp_cache, tcp_cache, timer, dns, lastPut, look>>

Renumber(k) ==
    /\ \E a \in Addr \ {dns[k]} :
          /\ dns' = [dns EXCEPT ![k] = a]
          /\ lastTrue' = [lastTrue EXCEPT ![k][a] = now]
    /\ UNCHANGED <<now, udp_cache, tcp_cache, timer, lastPut, look>>

Next ==
    \/ \E s \in Session :
          \/ \E k \in Key : get_tcp(s, k) \/ get_udp(s, k)
          \/ Answer(s) \/ NoAnswer(s) \/ put_tcp(s) \/ put_udp(s)
    \/ \E k \in Key : Renumber(k)
    \/ cleanup_expired \/ Tick

Spec == Init /\ [][Next]_vars

-----------------------------------------------------------------------------
TypeOK ==
    /\ now \in Nat /\ timer \in Nat
    /\ udp_cache \in [Key -> Entry \cup {None}]
    /\ tcp_cache \in [Key -> Entry \cup {None}]
    /\ dns \in [Key -> Addr]
    /\ lastTrue \in [Key -> [Addr -> Nat]]
    /\ lastPut \in [Key -> [{"tcp", "udp"} -> Nat \cup {-1}]]
    /\ look \in [Session -> Lookup]
    /\ \A s \in Session :
          /\ look[s].pc # "idle" => look[s].key \in Key
          /\ look[s].pc = "answered" => look[s].answer \in Addr

\* How stale an endpoint can be.  One that a lookup would get from a cache was
\* the right one less than Ttl + MaxDelay ago, and one that a resolver's handler
\* is about to use at most MaxDelay ago: although lookups race, an older answer
\* may replace a newer one, and an entry's life starts at the put and not at
\* the answer.
Fresh ==
    /\ \A k \in Key, cache \in {udp_cache, tcp_cache} :
          Live(cache, k) => now - lastTrue[k][cache[k].endpoint] < Ttl + MaxDelay
    /\ \A s \in Session :
          look[s].pc = "answered" => now - lastTrue[look[s].key][look[s].answer] <= MaxDelay

\* The caches save what they can: no session resolves a "host:port" that any
\* session of the same transport has put in the last Ttl seconds.  This is less
\* than "Repeated connections to the same domain skip DNS resolution entirely"
\* (README.md:27): the key do_resolve and do_resolve_and_send make holds the
\* port, so the same domain on another port is resolved again, and so is the
\* same key over the other transport.
RepeatsSkipResolution ==
    [][\A s \in Session :
          look[s].pc = "idle" /\ look'[s].pc = "resolving" =>
              LET c == IF s \in TcpSession THEN "tcp" ELSE "udp"
                  p == lastPut[look'[s].key][c]
              IN  p = -1 \/ now >= p + Ttl]_vars

\* An expired entry does not stay for ever: the purge takes it within one
\* interval, even when nobody asks for it again.
ExpiredIsPurged ==
    \A k \in Key :
        /\ udp_cache[k] # None => now < udp_cache[k].expire_time + Interval + MaxDelay
        /\ tcp_cache[k] # None => now < tcp_cache[k].expire_time + Interval + MaxDelay

=============================================================================
