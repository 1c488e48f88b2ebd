--------------------------- MODULE DnsCache_proofs ---------------------------
(***************************************************************************)
(* How stale a cached endpoint can be, how long an expired one stays, and  *)
(* when a lookup may go to the resolver: for every number of names,        *)
(* addresses and sessions, every TTL, purge interval and handler delay.    *)
(***************************************************************************)
EXTENDS DnsCache, TLAPS

-----------------------------------------------------------------------------
\* The inductive invariant.

\* The handlers that are due are not later than MaxDelay, and the last purge was
\* one interval before the timer's next expiry.
Clocks ==
    /\ now <= timer + MaxDelay
    /\ timer <= now + Interval
    /\ \A s \in Session : look[s].pc = "answered" => look[s].at <= now /\ now <= look[s].at + MaxDelay

\* lastTrue is the history it says it is.
History ==
    \A k \in Key : /\ lastTrue[k][dns[k]] = now
                   /\ \A a \in Addr : lastTrue[k][a] <= now

\* An entry was right not longer before its put than the answer waited.
Recent(cache) ==
    \A k \in Key : cache[k] # None =>
        cache[k].expire_time <= lastTrue[k][cache[k].endpoint] + Ttl + MaxDelay

\* What survived the last purge, or was put since, had not expired then.
Survives(cache) ==
    \A k \in Key : cache[k] # None /\ Ttl > 0 => timer < cache[k].expire_time + Interval

\* A name put less than Ttl ago has the entry of its last put.
Kept(cache, c) ==
    \A k \in Key : \/ lastPut[k][c] = -1
                   \/ now >= lastPut[k][c] + Ttl
                   \/ cache[k] # None /\ cache[k].expire_time = lastPut[k][c] + Ttl

\* An answer was right when it came.
Answers ==
    \A s \in Session : look[s].pc = "answered" => look[s].at <= lastTrue[look[s].key][look[s].answer]

IInv ==
    /\ TypeOK /\ Clocks /\ History /\ Answers
    /\ Recent(udp_cache) /\ Survives(udp_cache) /\ Kept(udp_cache, "udp")
    /\ Recent(tcp_cache) /\ Survives(tcp_cache) /\ Kept(tcp_cache, "tcp")

-----------------------------------------------------------------------------
LEMMA InitIInv == ASSUME Init PROVE IInv
  BY DnsAssumption DEF Init, IInv, TypeOK, Clocks, History, Answers, Recent, Survives, Kept,
                       Lookup, Idle, Session

\* A step that leaves the clock and the histories alone: a lookup that starts or
\* is given up.
LEMMA LookupStep ==
    ASSUME IInv, NEW s \in Session, NEW l \in Lookup,
           l.pc # "answered", l.pc # "idle" => l.key \in Key,
           look' = [look EXCEPT ![s] = l],
           UNCHANGED <<now, udp_cache, tcp_cache, timer, dns, lastTrue, lastPut>>
    PROVE  IInv'
  BY DEF IInv, TypeOK, Clocks, History, Answers, Recent, Survives, Kept

LEMMA MissIInv ==
    ASSUME IInv, NEW s \in Session, NEW k \in Key, NEW STATE cache, Miss(s, cache, k)
    PROVE  IInv'
  <1>. DEFINE l == [Idle EXCEPT !.pc = "resolving", !.key = k]
  <1>1. l \in Lookup /\ l.pc = "resolving" /\ l.key = k
    BY Zenon DEF Idle, Lookup
  <1>. HIDE DEF l
  <1>2. look' = [look EXCEPT ![s] = l]
    BY DEF Miss, l
  <1>. QED  BY <1>1, <1>2, LookupStep, Zenon DEF Miss

LEMMA NoAnswerIInv == ASSUME IInv, NEW s \in Session, NoAnswer(s) PROVE IInv'
  <1>1. Idle \in Lookup /\ Idle.pc = "idle"
    BY DEF Idle, Lookup
  <1>. QED  BY <1>1, LookupStep, Zenon DEF NoAnswer

\* The answer is what the name resolves to at this moment.
LEMMA AnswerIInv == ASSUME IInv, NEW s \in Session, Answer(s) PROVE IInv'
  <1>. DEFINE k == look[s].key
  <1>1. k \in Key /\ dns[k] \in Addr /\ now \in Nat /\ look[s] \in Lookup
    BY DEF IInv, TypeOK, Answer
  <1>2. /\ look' = [look EXCEPT ![s] = [pc |-> "answered", key |-> k, answer |-> dns[k], at |-> now]]
        /\ UNCHANGED <<now, udp_cache, tcp_cache, timer, dns, lastTrue, lastPut>>
    BY <1>1 DEF Answer, IInv, TypeOK, Lookup
  <1>3. TypeOK'
    BY <1>1, <1>2 DEF IInv, TypeOK, Lookup
  <1>4. Clocks'
    BY <1>1, <1>2, DnsAssumption DEF IInv, TypeOK, Clocks
  <1>5. Answers'
    BY <1>1, <1>2 DEF IInv, TypeOK, History, Answers
  <1>. QED  BY <1>2, <1>3, <1>4, <1>5 DEF IInv, History, Recent, Survives, Kept

\* The entry that a put stores was right at most MaxDelay ago.
LEMMA PutEntry ==
    ASSUME IInv, NEW s \in Session, look[s].pc = "answered", NEW STATE cache, cache \in [Key -> Entry \cup {None}],
           Recent(cache), Survives(cache)
    PROVE  LET stored == Stored(cache, look[s].key, look[s].answer)
           IN  /\ stored \in [Key -> Entry \cup {None}]
               /\ Recent(stored) /\ Survives(stored)
               /\ stored[look[s].key] # None
               /\ stored[look[s].key].expire_time = now + Ttl
               /\ \A k \in Key \ {look[s].key} : stored[k] = cache[k]
  <1>. DEFINE k0 == look[s].key
              a0 == look[s].answer
              e  == [endpoint |-> a0, expire_time |-> now + Ttl]
              stored == Stored(cache, k0, a0)
  <1>1. k0 \in Key /\ a0 \in Addr /\ now \in Nat /\ timer \in Nat /\ lastTrue[k0][a0] \in Nat
        /\ look[s].at \in Nat
    BY DEF IInv, TypeOK, Lookup
  <1>2. now <= lastTrue[k0][a0] + MaxDelay /\ timer <= now + Interval
    BY <1>1, DnsAssumption DEF IInv, Clocks, Answers
  <1>3. e \in Entry /\ e.endpoint = a0 /\ e.expire_time = now + Ttl
    BY <1>1, DnsAssumption DEF Entry
  <1>4. e # None
    BY <1>3, DnsAssumption
  <1>. QED  BY <1>1, <1>2, <1>3, <1>4, DnsAssumption DEF Stored, Recent, Survives

LEMMA PutTcpIInv == ASSUME IInv, NEW s \in Session, put_tcp(s) PROVE IInv'
  <1>. DEFINE k0 == look[s].key
              stored == Stored(tcp_cache, k0, look[s].answer)
  <1>1. look[s].pc = "answered" /\ k0 \in Key /\ now \in Nat
    BY DEF IInv, TypeOK, put_tcp, Answered
  <1>2. /\ tcp_cache \in [Key -> Entry \cup {None}]
        /\ Recent(tcp_cache) /\ Survives(tcp_cache) /\ Kept(tcp_cache, "tcp")
    BY DEF IInv, TypeOK
  <1>3. /\ stored \in [Key -> Entry \cup {None}]
        /\ Recent(stored) /\ Survives(stored)
        /\ stored[k0] # None /\ stored[k0].expire_time = now + Ttl
        /\ \A k \in Key \ {k0} : stored[k] = tcp_cache[k]
    BY <1>1, <1>2, PutEntry
  <1>. HIDE DEF stored
  <1>4. /\ tcp_cache' = stored /\ look' = [look EXCEPT ![s] = Idle]
        /\ lastPut' = [lastPut EXCEPT ![k0]["tcp"] = now]
        /\ UNCHANGED <<now, timer, dns, lastTrue, udp_cache>>
    BY DEF put_tcp, Answered, stored
  <1>5. Idle \in Lookup /\ Idle.pc = "idle"
    BY DEF Idle, Lookup
  <1>6. TypeOK'
    BY <1>1, <1>3, <1>4, <1>5 DEF IInv, TypeOK
  <1>7. Clocks' /\ History' /\ Answers'
    BY <1>4, <1>5 DEF IInv, TypeOK, Clocks, History, Answers
  <1>8. Kept(tcp_cache, "tcp")'
    BY <1>1, <1>2, <1>3, <1>4 DEF Kept, IInv, TypeOK
  <1>9. Kept(udp_cache, "udp")'
    BY <1>1, <1>4 DEF Kept, IInv, TypeOK
  <1>. QED  BY <1>3, <1>4, <1>6, <1>7, <1>8, <1>9 DEF IInv, Recent, Survives

LEMMA PutUdpIInv == ASSUME IInv, NEW s \in Session, put_udp(s) PROVE IInv'
  <1>. DEFINE k0 == look[s].key
              stored == Stored(udp_cache, k0, look[s].answer)
  <1>1. look[s].pc = "answered" /\ k0 \in Key /\ now \in Nat
    BY DEF IInv, TypeOK, put_udp, Answered
  <1>2. /\ udp_cache \in [Key -> Entry \cup {None}]
        /\ Recent(udp_cache) /\ Survives(udp_cache) /\ Kept(udp_cache, "udp")
    BY DEF IInv, TypeOK
  <1>3. /\ stored \in [Key -> Entry \cup {None}]
        /\ Recent(stored) /\ Survives(stored)
        /\ stored[k0] # None /\ stored[k0].expire_time = now + Ttl
        /\ \A k \in Key \ {k0} : stored[k] = udp_cache[k]
    BY <1>1, <1>2, PutEntry
  <1>. HIDE DEF stored
  <1>4. /\ udp_cache' = stored /\ look' = [look EXCEPT ![s] = Idle]
        /\ lastPut' = [lastPut EXCEPT ![k0]["udp"] = now]
        /\ UNCHANGED <<now, timer, dns, lastTrue, tcp_cache>>
    BY DEF put_udp, Answered, stored
  <1>5. Idle \in Lookup /\ Idle.pc = "idle"
    BY DEF Idle, Lookup
  <1>6. TypeOK'
    BY <1>1, <1>3, <1>4, <1>5 DEF IInv, TypeOK
  <1>7. Clocks' /\ History' /\ Answers'
    BY <1>4, <1>5 DEF IInv, TypeOK, Clocks, History, Answers
  <1>8. Kept(udp_cache, "udp")'
    BY <1>1, <1>2, <1>3, <1>4 DEF Kept, IInv, TypeOK
  <1>9. Kept(tcp_cache, "tcp")'
    BY <1>1, <1>4 DEF Kept, IInv, TypeOK
  <1>. QED  BY <1>3, <1>4, <1>6, <1>7, <1>8, <1>9 DEF IInv, Recent, Survives

\* A purge takes only entries that no lookup would get any more.
LEMMA PurgeEntries ==
    ASSUME now \in Nat, NEW STATE cache, cache \in [Key -> Entry \cup {None}]
    PROVE  /\ Purged(cache) \in [Key -> Entry \cup {None}]
           /\ \A k \in Key :
                /\ Purged(cache)[k] \in {cache[k], None}
                /\ Purged(cache)[k] # None => now < cache[k].expire_time
                /\ Live(cache, k) => Purged(cache)[k] = cache[k]
  BY DEF Purged, Live, Entry

LEMMA CleanupIInv == ASSUME IInv, cleanup_expired PROVE IInv'
  <1>1. /\ udp_cache' = Purged(udp_cache) /\ tcp_cache' = Purged(tcp_cache)
        /\ timer' = now + Interval
        /\ UNCHANGED <<now, dns, lastTrue, lastPut, look>>
    BY DEF cleanup_expired
  <1>2. now \in Nat /\ TypeOK
    BY DEF IInv, TypeOK
  <1>3. TypeOK'
    BY <1>1, <1>2, DnsAssumption, PurgeEntries DEF TypeOK
  <1>4. Clocks' /\ History' /\ Answers'
    BY <1>1, <1>2, DnsAssumption DEF IInv, TypeOK, Clocks, History, Answers
  <1>5. Recent(udp_cache)' /\ Recent(tcp_cache)'
    BY <1>1, <1>2, PurgeEntries DEF IInv, TypeOK, Recent
  <1>6. Survives(udp_cache)' /\ Survives(tcp_cache)'
    BY <1>1, <1>2, DnsAssumption, PurgeEntries DEF IInv, TypeOK, Survives, Entry
  <1>7. Kept(udp_cache, "udp")' /\ Kept(tcp_cache, "tcp")'
    <2>1. ASSUME NEW cache \in {udp_cache, tcp_cache}, NEW c \in {"udp", "tcp"}, Kept(cache, c)
          PROVE  \A k \in Key :
                    \/ lastPut[k][c] = -1
                    \/ now >= lastPut[k][c] + Ttl
                    \/ Purged(cache)[k] # None /\ Purged(cache)[k].expire_time = lastPut[k][c] + Ttl
      <3>0. \A k \in Key : lastPut[k][c] \in Int
        BY <1>2 DEF TypeOK
      <3>. SUFFICES ASSUME NEW k \in Key, lastPut[k][c] # -1, ~(now >= lastPut[k][c] + Ttl)
                    PROVE  Purged(cache)[k] # None /\ Purged(cache)[k].expire_time = lastPut[k][c] + Ttl
        OBVIOUS
      <3>1. cache[k] # None /\ cache[k].expire_time = lastPut[k][c] + Ttl
        BY <1>2, <2>1, DnsAssumption DEF Kept, TypeOK
      <3>2. Live(cache, k)
        BY <1>2, <3>0, <3>1, DnsAssumption DEF Live
      <3>. QED  BY <1>2, <3>1, <3>2, PurgeEntries, Zenon DEF TypeOK
    <2>. QED  BY <1>1, <2>1 DEF IInv, Kept
  <1>. QED  BY <1>3, <1>4, <1>5, <1>6, <1>7 DEF IInv

\* Time passes, and what names resolve to stays right.
LEMMA TickIInv == ASSUME IInv, Tick PROVE IInv'
  <1>1. /\ now' = now + 1
        /\ lastTrue' = [k \in Key |-> [lastTrue[k] EXCEPT ![dns[k]] = now + 1]]
        /\ now < timer + MaxDelay
        /\ \A s \in Session : look[s].pc = "answered" => now < look[s].at + MaxDelay
        /\ UNCHANGED <<udp_cache, tcp_cache, timer, dns, lastPut, look>>
    BY DEF Tick
  <1>2. TypeOK
    BY DEF IInv
  <1>3. TypeOK'
    BY <1>1, <1>2 DEF TypeOK
  <1>4. \A k \in Key : /\ lastTrue'[k][dns[k]] = now + 1
                       /\ \A a \in Addr : lastTrue[k][a] <= lastTrue'[k][a] /\ lastTrue'[k][a] <= now + 1
    BY <1>1, <1>2 DEF TypeOK, IInv, History
  <1>5. Clocks'
    BY <1>1, <1>2, DnsAssumption DEF IInv, TypeOK, Clocks, Lookup
  <1>6. History'
    BY <1>1, <1>4 DEF History
  <1>7. Answers'
    BY <1>1, <1>2, <1>3, <1>4 DEF IInv, TypeOK, Answers, Lookup
  <1>8. Recent(udp_cache)' /\ Recent(tcp_cache)'
    BY <1>1, <1>2, <1>3, <1>4, DnsAssumption DEF IInv, TypeOK, Recent, Entry
  <1>9. Survives(udp_cache)' /\ Survives(tcp_cache)'
    BY <1>1 DEF IInv, Survives
  <1>10. Kept(udp_cache, "udp")' /\ Kept(tcp_cache, "tcp")'
    BY <1>1, <1>2, DnsAssumption DEF IInv, TypeOK, Kept
  <1>. QED  BY <1>3, <1>5, <1>6, <1>7, <1>8, <1>9, <1>10 DEF IInv

LEMMA RenumberIInv == ASSUME IInv, NEW k0 \in Key, Renumber(k0) PROVE IInv'
  <1>1. PICK a0 \in Addr : /\ dns' = [dns EXCEPT ![k0] = a0]
                           /\ lastTrue' = [lastTrue EXCEPT ![k0][a0] = now]
    BY Zenon DEF Renumber
  <1>2. UNCHANGED <<now, udp_cache, tcp_cache, timer, lastPut, look>>
    BY DEF Renumber
  <1>3. TypeOK
    BY DEF IInv
  <1>4. TypeOK'
    BY <1>1, <1>2, <1>3 DEF TypeOK
  <1>5. \A k \in Key, a \in Addr : lastTrue[k][a] <= lastTrue'[k][a] /\ lastTrue'[k][a] <= now
    BY <1>1, <1>3 DEF TypeOK, IInv, History
  <1>6. History'
    BY <1>1, <1>2, <1>3, <1>5 DEF IInv, TypeOK, History
  <1>7. Answers'
    BY <1>2, <1>3, <1>4, <1>5 DEF IInv, TypeOK, Answers, Lookup
  <1>8. Recent(udp_cache)' /\ Recent(tcp_cache)'
    BY <1>2, <1>3, <1>4, <1>5, DnsAssumption DEF IInv, TypeOK, Recent, Entry
  <1>9. Clocks' /\ Survives(udp_cache)' /\ Survives(tcp_cache)'
    BY <1>2 DEF IInv, Clocks, Survives
  <1>10. Kept(udp_cache, "udp")' /\ Kept(tcp_cache, "tcp")'
    BY <1>2 DEF IInv, Kept
  <1>. QED  BY <1>4, <1>6, <1>7, <1>8, <1>9, <1>10 DEF IInv

LEMMA NextIInv == ASSUME IInv, [Next]_vars PROVE IInv'
  <1>1. CASE UNCHANGED vars
    BY <1>1 DEF vars, IInv, TypeOK, Clocks, History, Answers, Recent, Survives, Kept
  <1>2. ASSUME NEW s \in Session, NEW k \in Key, get_tcp(s, k) \/ get_udp(s, k) PROVE IInv'
    BY <1>1, <1>2, MissIInv DEF get_tcp, get_udp, Hit
  <1>3. ASSUME NEW s \in Session, Answer(s) \/ NoAnswer(s) \/ put_tcp(s) \/ put_udp(s) PROVE IInv'
    BY <1>3, AnswerIInv, NoAnswerIInv, PutTcpIInv, PutUdpIInv
  <1>. QED  BY <1>1, <1>2, <1>3, RenumberIInv, CleanupIInv, TickIInv DEF Next

\* Type correctness, clocks and histories: the inductive invariant.
THEOREM SpecIInv == Spec => []IInv
  BY InitIInv, NextIInv, PTL DEF Spec

\* No lookup gets an endpoint that was right Ttl + MaxDelay ago or longer, and
\* no resolver's handler uses one that was right more than MaxDelay ago.
THEOREM SpecFresh == Spec => []Fresh
  <1>1. ASSUME IInv, NEW k \in Key, NEW cache \in {udp_cache, tcp_cache}, Live(cache, k)
        PROVE  now - lastTrue[k][cache[k].endpoint] < Ttl + MaxDelay
    <2>1. cache \in [Key -> Entry \cup {None}] /\ Recent(cache)
      BY <1>1 DEF IInv, TypeOK
    <2>2. cache[k] \in Entry /\ now < cache[k].expire_time
      BY <1>1, <2>1 DEF Live
    <2>3. now \in Nat /\ lastTrue[k][cache[k].endpoint] \in Nat /\ cache[k].expire_time \in Nat
      BY <1>1, <2>2 DEF IInv, TypeOK, Entry
    <2>4. cache[k].expire_time <= lastTrue[k][cache[k].endpoint] + Ttl + MaxDelay
      BY <1>1, <2>1 DEF Recent, Live
    <2>. QED  BY <2>2, <2>3, <2>4, DnsAssumption
  <1>2. ASSUME IInv, NEW s \in Session, look[s].pc = "answered"
        PROVE  now - lastTrue[look[s].key][look[s].answer] <= MaxDelay
    BY <1>2, DnsAssumption DEF IInv, TypeOK, Clocks, Answers, Lookup
  <1>3. IInv => Fresh
    BY <1>1, <1>2 DEF Fresh
  <1>. QED  BY <1>3, SpecIInv, PTL

\* An expired entry is gone one purge interval, and the delay of the timer's
\* handler, after it expired.  With a TTL of zero an entry put in the second of a
\* purge stays one second longer, so that setting is left out.
THEOREM SpecExpiredIsPurged == ASSUME Ttl > 0 PROVE Spec => []ExpiredIsPurged
  <1>1. ASSUME IInv, NEW k \in Key, NEW cache \in {udp_cache, tcp_cache}, cache[k] # None
        PROVE  now < cache[k].expire_time + Interval + MaxDelay
    <2>1. cache \in [Key -> Entry \cup {None}] /\ Survives(cache)
      BY <1>1 DEF IInv, TypeOK
    <2>2. cache[k].expire_time \in Nat /\ now \in Nat /\ timer \in Nat
      BY <1>1, <2>1 DEF IInv, TypeOK, Entry
    <2>. QED  BY <1>1, <2>1, <2>2, DnsAssumption DEF IInv, Clocks, Survives
  <1>2. IInv => ExpiredIsPurged
    BY <1>1 DEF ExpiredIsPurged
  <1>. QED  BY <1>2, SpecIInv, PTL

\* Only a lookup that finds no live entry goes to the resolver, so none repeats a
\* resolution whose answer any session put in the same cache in the last Ttl
\* seconds, whatever is put, purged and renumbered in between.
THEOREM SpecRepeatsSkipResolution == Spec => RepeatsSkipResolution
  <1>. DEFINE Skips ==
         \A s \in Session :
            look[s].pc = "idle" /\ look'[s].pc = "resolving" =>
              LET c == IF s \in TcpSession THEN "tcp" ELSE "udp"
                  p == lastPut[look'[s].key][c]
              IN  p = -1 \/ now >= p + Ttl
  <1>1. ASSUME IInv, Next PROVE Skips
    <2>. SUFFICES ASSUME NEW s \in Session, look[s].pc = "idle", look'[s].pc = "resolving"
                  PROVE  LET c == IF s \in TcpSession THEN "tcp" ELSE "udp"
                             p == lastPut[look'[s].key][c]
                         IN  p = -1 \/ now >= p + Ttl
      OBVIOUS
    <2>1. look \in [Session -> Lookup]
      BY <1>1 DEF IInv, TypeOK
    <2>2. look'[s] # look[s]
      OBVIOUS
    <2>3. ASSUME NEW r \in Session, Answer(r) \/ NoAnswer(r) \/ put_tcp(r) \/ put_udp(r) PROVE FALSE
      BY <2>1, <2>2, <2>3 DEF Answer, NoAnswer, put_tcp, put_udp, Answered, Idle
    <2>4. ~Tick /\ ~cleanup_expired /\ \A k \in Key : ~Renumber(k)
      BY <2>2 DEF Tick, cleanup_expired, Renumber
    <2>5. PICK r \in Session, k \in Key : get_tcp(r, k) \/ get_udp(r, k)
      BY <1>1, <2>3, <2>4 DEF Next
    <2>6. \/ r \in TcpSession /\ Miss(r, tcp_cache, k)
          \/ r \in UdpSession /\ Miss(r, udp_cache, k)
      BY <2>2, <2>5 DEF get_tcp, get_udp, Hit, vars
    <2>7. r = s /\ look'[s].key = k
      BY <2>1, <2>2, <2>6, Zenon DEF Miss, Idle
    <2>8. CASE s \in TcpSession /\ ~Live(tcp_cache, k)
      <3>1. lastPut[k]["tcp"] = -1 \/ now >= lastPut[k]["tcp"] + Ttl
        BY <1>1, <2>8, DnsAssumption DEF IInv, TypeOK, Kept, Live
      <3>. QED  BY <2>7, <2>8, <3>1
    <2>9. CASE s \in UdpSession /\ ~Live(udp_cache, k)
      <3>1. lastPut[k]["udp"] = -1 \/ now >= lastPut[k]["udp"] + Ttl
        BY <1>1, <2>9, DnsAssumption DEF IInv, TypeOK, Kept, Live
      <3>. QED  BY <2>7, <2>9, <3>1, DnsAssumption
    <2>. QED  BY <2>6, <2>7, <2>8, <2>9 DEF Miss
  <1>2. IInv /\ [Next]_vars => [Skips]_vars
    BY <1>1
  <1>. QED  BY <1>2, SpecIInv, PTL DEF Spec, RepeatsSkipResolution

=============================================================================
