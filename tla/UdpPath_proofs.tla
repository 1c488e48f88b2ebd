--------------------------- MODULE UdpPath_proofs ----------------------------
(***************************************************************************)
(* The path of the UDP datagrams between client and server: the DTLS       *)
(* channel (DtlsLink) that carries them, and the encodings (UdpCodec) they *)
(* go through on it.                                                       *)
(*                                                                         *)
(* The channel: a client that says it is connected is connected, and a     *)
(* wrong password gets nothing forwarded, for every set of frames, every   *)
(* number of timeouts and sessions and every loss and reordering.  The     *)
(* encodings: payload and address are the ones sent, for every length.     *)
(***************************************************************************)
EXTENDS DtlsLink, UdpCodec, TLAPS, SequenceTheorems, FiniteSetTheorems

-----------------------------------------------------------------------------
\* The keys whose handshake the server has completed: the session is gone, or
\* its engine is done.
Finished == {k \in 1 .. created : sess.key = k => sess.eng = "done"}

\* What the server has written and the client's engine has not read.
Underway == Range(s2c) \cup Range(sess.wbio) \cup chan.rbio

\* The server answers "finished" only when it is; so a client that has read
\* that answer under its key is connected.
Truthful ==
    /\ \A m \in Underway : m.t = "sfinished" => m.key \in Finished
    /\ chan.eng = "done" => chan.key \in Finished
    /\ chan.done => chan.eng = "done"

\* sessions_ holds a session or none, with a key of its own, and one that has
\* left the handshake has completed it.
Sessions ==
    /\ sess.state = "NONE" => sess = NoSession
    /\ sess.state # "NONE" => sess.key \in 1 .. created
    /\ sess.state \in {"AUTH", "PROXY"} => sess.eng = "done"

LinkInv == TypeOK /\ Truthful /\ Sessions /\ WrongPasswordRefused /\ IsFiniteSet(pending)

-----------------------------------------------------------------------------
\* What a sequence of datagrams holds.

LEMMA ConcatAt ==
    ASSUME NEW S, NEW s \in Seq(S), NEW t \in Seq(S)
    PROVE  /\ s \o t \in Seq(S) /\ Len(s) \in Nat /\ Len(t) \in Nat
           /\ DOMAIN s = 1 .. Len(s) /\ DOMAIN t = 1 .. Len(t)
           /\ Len(s \o t) = Len(s) + Len(t) /\ DOMAIN (s \o t) = 1 .. Len(s) + Len(t)
           /\ \A i \in 1 .. Len(s) : (s \o t)[i] = s[i]
           /\ \A i \in 1 .. Len(t) : (s \o t)[Len(s) + i] = t[i]
  OBVIOUS

LEMMA RangeConcat ==
    ASSUME NEW S, NEW s \in Seq(S), NEW t \in Seq(S)
    PROVE  s \o t \in Seq(S) /\ Range(s \o t) = Range(s) \cup Range(t)
<1> DEFINE u == s \o t  n == Len(s)  m == Len(t)
<1>1. /\ u \in Seq(S) /\ n \in Nat /\ m \in Nat
      /\ DOMAIN s = 1 .. n /\ DOMAIN t = 1 .. m /\ DOMAIN u = 1 .. n + m
      /\ \A i \in 1 .. n : u[i] = s[i]
      /\ \A i \in 1 .. m : u[n + i] = t[i]
      BY ConcatAt
<1> HIDE DEF u, n, m
<1>2. ASSUME NEW x \in Range(u) PROVE x \in Range(s) \cup Range(t)
  <2>1. PICK i \in 1 .. n + m : x = u[i]
        BY <1>1 DEF Range
  <2>2. CASE i <= n
        BY <1>1, <2>1, <2>2, SMTT(30) DEF Range
  <2>3. CASE ~(i <= n)
    <3>1. i - n \in 1 .. m /\ i = n + (i - n)
          BY <1>1, <2>3
    <3>2. x = t[i - n]
          BY <1>1, <2>1, <3>1, Zenon
    <3> QED
          BY <1>1, <3>1, <3>2, Zenon DEF Range
  <2> QED
        BY <2>2, <2>3
<1>3. ASSUME NEW x \in Range(s) PROVE x \in Range(u)
      BY <1>1 DEF Range
<1>4. ASSUME NEW x \in Range(t) PROVE x \in Range(u)
  <2>1. PICK i \in 1 .. m : x = t[i]
        BY <1>1 DEF Range
  <2>2. n + i \in 1 .. n + m /\ u[n + i] = x
        BY <1>1, <2>1
  <2> QED
        BY <1>1, <2>2 DEF Range
<1> QED
      BY <1>1, <1>2, <1>3, <1>4, Zenon DEF u

LEMMA RangeOne ==
    ASSUME NEW S, NEW x \in S
    PROVE  <<x>> \in Seq(S) /\ Range(<<x>>) = {x}
  BY DEF Range

LEMMA RangeNone ==
    ASSUME NEW S
    PROVE  <<>> \in Seq(S) /\ Range(<<>>) = {}
  BY DEF Range

LEMMA RangeAppend ==
    ASSUME NEW S, NEW s \in Seq(S), NEW x \in S
    PROVE  Append(s, x) \in Seq(S) /\ Range(Append(s, x)) = Range(s) \cup {x}
<1>1. Append(s, x) = s \o <<x>>
      BY AppendIsConcat
<1>2. <<x>> \in Seq(S) /\ Range(<<x>>) = {x}
      BY RangeOne, Zenon
<1>3. s \o <<x>> \in Seq(S) /\ Range(s \o <<x>>) = Range(s) \cup Range(<<x>>)
      BY <1>2, RangeConcat, ZenonT(40)
<1> QED
      BY <1>1, <1>2, <1>3, Zenon

\* Datagrams taken out of the network, delivered or lost.
LEMMA RangeWithout ==
    ASSUME NEW S, NEW s \in Seq(S), NEW i \in DOMAIN s
    PROVE  /\ Without(s, i) \in Seq(S) /\ Range(Without(s, i)) \subseteq Range(s)
           /\ s[i] \in S /\ s[i] \in Range(s)
<1> DEFINE a == SubSeq(s, 1, i - 1)  b == SubSeq(s, i + 1, Len(s))
<1>1. Len(s) \in Nat /\ i \in 1 .. Len(s) /\ DOMAIN s = 1 .. Len(s)
      OBVIOUS
<1>2. a \in Seq(S) /\ Range(a) \subseteq Range(s)
      BY <1>1 DEF Range
<1>3. b \in Seq(S) /\ Range(b) \subseteq Range(s)
      BY <1>1 DEF Range
<1>4. s[i] \in S /\ s[i] \in Range(s)
      BY <1>1 DEF Range
<1>5. Without(s, i) = a \o b
      BY DEF Without
<1> HIDE DEF a, b
<1> QED
      BY <1>2, <1>3, <1>4, <1>5, RangeConcat

-----------------------------------------------------------------------------
\* The client's channel.

LEMMA ChannelFields ==
    ASSUME NEW c \in Channel
    PROVE  /\ c.running \in BOOLEAN /\ c.receiving \in BOOLEAN /\ c.done \in BOOLEAN
           /\ c.key \in 0 .. MaxSession /\ c.eng \in {"idle", "hello", "finished", "done", "failed"}
           /\ c.timeouts \in 0 .. MaxTimeout /\ c.rbio \in SUBSET Msg /\ c.wbio \in Seq(Msg)
  BY Zenon DEF Channel

\* A flight and a record are messages.
LEMMA Messages ==
    ASSUME NEW key \in 0 .. MaxSession, NEW t, t \in {"hello", "shello", "finished", "sfinished",
                                                     "auth", "frame", "reply", "close"}
    PROVE  /\ Flight(t, key) \in Msg /\ Flight(t, key).t = t /\ Flight(t, key).key = key
           /\ \A f \in Frame : /\ Data(t, key, f) \in Msg /\ Data(t, key, f).t = t
                               /\ Data(t, key, f).key = key
  BY DEF Flight, Data, Msg

\* SSL_write leaves the rest of the channel.
LEMMA SslWrites ==
    ASSUME NEW c \in Channel, NEW m \in Msg
    PROVE  /\ SslWrite(c, m) \in Channel /\ SslWrite(c, m).wbio = Append(c.wbio, m)
           /\ SslWrite(c, m).rbio = c.rbio /\ SslWrite(c, m).running = c.running
           /\ SslWrite(c, m).done = c.done /\ SslWrite(c, m).key = c.key
           /\ SslWrite(c, m).eng = c.eng
<1> DEFINE w == Append(c.wbio, m)  d == SslWrite(c, m)
<1>1. w \in Seq(Msg)
      BY ChannelFields, AppendProperties
<1>2. d = [c EXCEPT !.wbio = w]
      BY DEF SslWrite
<1> HIDE DEF w, d
<1>3. /\ d \in Channel /\ d.wbio = w /\ d.rbio = c.rbio
      /\ d.running = c.running /\ d.done = c.done /\ d.key = c.key /\ d.eng = c.eng
      BY <1>1, <1>2, Zenon DEF Channel
<1> QED
      BY <1>3, Zenon DEF w, d

\* The engine is done only when it was, or when the server's last flight under
\* the key of the handshake has been read.
LEMMA HandshakeDone ==
    ASSUME NEW c \in Channel, NEW h, h = Handshake(c)
    PROVE  /\ h \in Channel /\ h.rbio = {} /\ h.done = c.done
           /\ h.eng = "done" => /\ h.key = c.key
                                /\ c.eng = "done" \/ Flight("sfinished", c.key) \in c.rbio
<1> DEFINE shellos == {m \in c.rbio : m.t = "shello"}
           key == (CHOOSE m \in shellos : TRUE).key
           in == [c EXCEPT !.rbio = {}]
           one == SslWrite(in, Flight("hello", 0))
           two == SslWrite(in, Flight("finished", key))
<1>1. /\ in \in Channel /\ in.rbio = {} /\ in.done = c.done /\ in.key = c.key /\ in.eng = c.eng
      BY Zenon DEF Channel
<1>2. h = IF c.eng = "idle" THEN [one EXCEPT !.eng = "hello"]
          ELSE IF c.eng = "hello" /\ shellos # {}
            THEN [two EXCEPT !.eng = "finished", !.key = key, !.timeouts = 0]
          ELSE IF c.eng = "finished" /\ Flight("sfinished", c.key) \in c.rbio
            THEN [in EXCEPT !.eng = "done"]
          ELSE in
      BY DEF Handshake
<1> HIDE DEF in
<1>3. CASE c.eng = "idle"
  <2>1. Flight("hello", 0) \in Msg
        BY Messages, LinkAssumption
  <2>2. one \in Channel /\ one.rbio = {} /\ one.done = c.done
        BY <1>1, <2>1, SslWrites, Zenon
  <2> HIDE DEF one
  <2>3. h = [one EXCEPT !.eng = "hello"]
        BY <1>2, <1>3, Zenon
  <2> QED
        BY <2>2, <2>3, Zenon DEF Channel
<1>4. CASE c.eng = "hello" /\ shellos # {}
  <2>1. key \in 0 .. MaxSession
        BY <1>4, ChannelFields DEF Msg
  <2> HIDE DEF key
  <2>2. Flight("finished", key) \in Msg
        BY <2>1, Messages
  <2>3. two \in Channel /\ two.rbio = {} /\ two.done = c.done
        BY <1>1, <2>2, SslWrites, Zenon
  <2> HIDE DEF two
  <2>4. h = [two EXCEPT !.eng = "finished", !.key = key, !.timeouts = 0]
        BY <1>2, <1>4
  <2>5. 0 \in 0 .. MaxTimeout
        BY LinkAssumption
  <2>6. h \in Channel
        BY <2>1, <2>3, <2>4, <2>5, Zenon DEF Channel
  <2>7. h.rbio = two.rbio /\ h.done = two.done /\ h.eng = "finished"
        BY <2>3, <2>4, Zenon DEF Channel
  <2> QED
        BY <2>3, <2>6, <2>7, Zenon
<1>5. CASE c.eng = "finished" /\ Flight("sfinished", c.key) \in c.rbio
  <2>1. h = [in EXCEPT !.eng = "done"]
        BY <1>2, <1>5
  <2> QED
        BY <1>1, <1>5, <2>1, Zenon DEF Channel
<1>6. CASE /\ c.eng # "idle" /\ ~(c.eng = "hello" /\ shellos # {})
           /\ ~(c.eng = "finished" /\ Flight("sfinished", c.key) \in c.rbio)
  <2>1. h = in
        BY <1>2, <1>6, Zenon
  <2> QED
        BY <1>1, <2>1, Zenon
<1> QED
      BY <1>3, <1>4, <1>5, <1>6, Zenon

LEMMA Drained ==
    ASSUME NEW c \in Channel, c2s \in Seq(Msg), drain_write_bio(c)
    PROVE  /\ chan' \in Channel /\ c2s' = c2s \o c.wbio /\ c2s' \in Seq(Msg)
           /\ chan'.rbio = c.rbio /\ chan'.done = c.done
           /\ chan'.key = c.key /\ chan'.eng = c.eng
<1>1. chan' = [c EXCEPT !.wbio = <<>>] /\ c2s' = c2s \o c.wbio
      BY DEF drain_write_bio
<1>2. <<>> \in Seq(Msg) /\ c.wbio \in Seq(Msg)
      BY ChannelFields
<1>3. /\ chan' \in Channel /\ chan'.rbio = c.rbio /\ chan'.done = c.done
      /\ chan'.key = c.key /\ chan'.eng = c.eng
      BY <1>1, <1>2, Zenon DEF Channel
<1>4. c2s' \in Seq(Msg)
      BY <1>1, <1>2, RangeConcat
<1> QED
      BY <1>1, <1>3, <1>4, Zenon

\* Whatever order the relays are flushed in, each queued frame is in it.
LEMMA OrderHoldsAll ==
    ASSUME NEW S \in SUBSET Frame, IsFiniteSet(S), NEW order \in Orders(S)
    PROVE  /\ order \in Seq(Frame)
           /\ \A f \in S : \E i \in DOMAIN order : order[i] = f
<1>1. Cardinality(S) \in Nat
      BY FS_CardinalityType, Zenon
<1>2. /\ order \in [1 .. Cardinality(S) -> S]
      /\ \A f \in S : \E i \in 1 .. Cardinality(S) : order[i] = f
      BY Zenon DEF Orders, Bijection, Surjection, Injection
<1> QED
      BY <1>1, <1>2

LEMMA RecordsOf ==
    ASSUME NEW key \in 0 .. MaxSession, NEW fs \in Seq(Frame)
    PROVE  /\ Records(key, fs) \in Seq(Msg) /\ DOMAIN Records(key, fs) = DOMAIN fs
           /\ \A i \in DOMAIN fs : Records(key, fs)[i] = Data("frame", key, fs[i])
<1>1. \A i \in DOMAIN fs : fs[i] \in Frame /\ Data("frame", key, fs[i]) \in Msg
      BY Messages
<1>2. Len(fs) \in Nat /\ DOMAIN fs = 1 .. Len(fs)
      OBVIOUS
<1>3. Records(key, fs) = [i \in DOMAIN fs |-> Data("frame", key, fs[i])]
      BY DEF Records
<1> QED
      BY <1>1, <1>2, <1>3, IsASeq

\* When the handshake has completed, the write BIO holds the password and then
\* the queued frames.
LEMMA Completes ==
    ASSUME NEW h \in Channel, NEW fs \in Seq(Frame), NEW d, d = Completed(h, fs)
    PROVE  /\ d \in Channel /\ d.rbio = h.rbio /\ d.key = h.key /\ d.eng = h.eng
           /\ d.wbio = Append(h.wbio, Flight("auth", h.key)) \o Records(h.key, fs)
<1> DEFINE auth == SslWrite(h, Flight("auth", h.key))
           w == auth.wbio \o Records(h.key, fs)
<1>1. h.key \in 0 .. MaxSession /\ h.wbio \in Seq(Msg)
      BY ChannelFields
<1>2. Flight("auth", h.key) \in Msg
      BY <1>1, Messages
<1>3. /\ auth \in Channel /\ auth.rbio = h.rbio /\ auth.key = h.key /\ auth.eng = h.eng
      /\ auth.wbio = Append(h.wbio, Flight("auth", h.key))
      BY <1>2, SslWrites, Zenon
<1>4. d = [auth EXCEPT !.done = TRUE, !.wbio = w]
      BY DEF Completed
<1> HIDE DEF auth
<1>5. w \in Seq(Msg)
  <2>1. auth.wbio \in Seq(Msg)
        BY <1>3, ChannelFields
  <2>2. Records(h.key, fs) \in Seq(Msg)
        BY <1>1, RecordsOf, Zenon
  <2> QED
        BY <2>1, <2>2, RangeConcat, Zenon
<1>6. w = Append(h.wbio, Flight("auth", h.key)) \o Records(h.key, fs)
      BY <1>3, Zenon
<1> HIDE DEF w
<1>7. d \in Channel /\ d.rbio = auth.rbio /\ d.key = auth.key /\ d.eng = auth.eng /\ d.wbio = w
      BY <1>3, <1>4, <1>5, Zenon DEF Channel
<1> QED
      BY <1>3, <1>6, <1>7, Zenon

\* Datagram x is on the network behind datagram m.
Behind(net, m, x) == \E i, j \in DOMAIN net : i < j /\ net[i] = m /\ net[j] = x

\* What is sent later is behind, and stays so behind what is sent before both.
LEMMA SentLater ==
    ASSUME NEW S, NEW s \in Seq(S), NEW t \in Seq(S), NEW m \in Range(s), NEW x \in Range(t)
    PROVE  Behind(s \o t, m, x)
<1>1. PICK i \in 1 .. Len(s) : s[i] = m
      BY DEF Range
<1>2. PICK j \in 1 .. Len(t) : t[j] = x
      BY DEF Range
<1> DEFINE u == s \o t
<1>3. /\ Len(s) \in Nat /\ Len(t) \in Nat /\ DOMAIN u = 1 .. Len(s) + Len(t)
      /\ u[i] = s[i] /\ u[Len(s) + j] = t[j]
      BY ConcatAt
<1> HIDE DEF u
<1>4. i \in DOMAIN u /\ Len(s) + j \in DOMAIN u /\ i < Len(s) + j
      BY <1>3
<1>5. Behind(u, m, x)
      BY <1>1, <1>2, <1>3, <1>4, Zenon DEF Behind
<1> QED
      BY <1>5, Zenon DEF u

LEMMA SentBefore ==
    ASSUME NEW S, NEW s \in Seq(S), NEW t \in Seq(S), NEW m, NEW x, Behind(t, m, x)
    PROVE  Behind(s \o t, m, x)
<1>1. PICK i \in DOMAIN t, j \in DOMAIN t : i < j /\ t[i] = m /\ t[j] = x
      BY Zenon DEF Behind
<1> DEFINE u == s \o t
<1>2. /\ Len(s) \in Nat /\ Len(t) \in Nat /\ DOMAIN u = 1 .. Len(s) + Len(t)
      /\ DOMAIN t = 1 .. Len(t)
      /\ u[Len(s) + i] = t[i] /\ u[Len(s) + j] = t[j]
      BY ConcatAt
<1> HIDE DEF u
<1>3. Len(s) + i \in DOMAIN u /\ Len(s) + j \in DOMAIN u /\ Len(s) + i < Len(s) + j
      BY <1>1, <1>2
<1>4. Behind(u, m, x)
      BY <1>1, <1>2, <1>3, Zenon DEF Behind
<1> QED
      BY <1>4, Zenon DEF u

\* A queued frame that a record holds is gone from the queue only when it is behind
\* the password on the network.
Flushed ==
    \A f \in pending \ Oversize : f \notin pending' =>
        \E i, j \in DOMAIN c2s' : /\ i < j /\ c2s'[i].t = "auth"
                                  /\ c2s'[j] = Data("frame", chan'.key, f)

\* do_handshake, from wherever it is called.
LEMMA DoHandshake ==
    ASSUME TypeOK, IsFiniteSet(pending), NEW c \in Channel, do_handshake(c),
           c.done => c.eng = "done"
    PROVE  /\ chan' \in Channel /\ c2s' \in Seq(Msg) /\ pending' \subseteq pending
           /\ chan'.rbio \subseteq c.rbio
           /\ chan'.done => chan'.eng = "done"
           /\ chan'.eng = "done" => /\ chan'.key = c.key
                                    /\ c.eng = "done" \/ Flight("sfinished", c.key) \in c.rbio
           /\ Flushed
<1>0. c2s \in Seq(Msg) /\ pending \subseteq Frame
      BY DEF TypeOK
<1>1. CASE ~c.running \/ c.done \/ c.eng = "failed"
  <2>1. chan' = c /\ c2s' = c2s /\ pending' = pending
        BY <1>1 DEF do_handshake
  <2> QED
        BY <1>0, <2>1, Zenon DEF Flushed
<1>2. CASE ~(~c.running \/ c.done \/ c.eng = "failed")
  <2> DEFINE h == Handshake(c)
  <2>1. /\ h \in Channel /\ h.rbio = {} /\ h.done = c.done
        /\ h.eng = "done" => /\ h.key = c.key
                             /\ c.eng = "done" \/ Flight("sfinished", c.key) \in c.rbio
        BY HandshakeDone, Zenon
  <2>2. IF h.eng = "done"
          THEN (\E order \in Orders(pending \ Oversize) : drain_write_bio(Completed(h, order)))
               /\ pending' = {}
          ELSE drain_write_bio(h) /\ pending' = pending
        BY <1>2, Zenon DEF do_handshake
  <2> HIDE DEF h
  <2>3. CASE h.eng # "done"
    <3>1. drain_write_bio(h) /\ pending' = pending
          BY <2>2, <2>3, Zenon
    <3>2. /\ chan' \in Channel /\ c2s' \in Seq(Msg) /\ chan'.rbio = h.rbio
          /\ chan'.done = h.done /\ chan'.eng = h.eng
          BY <1>0, <2>1, <3>1, Drained, Zenon
    <3>3. ~c.done
          BY <1>2, Zenon
    <3>4. Flushed
          BY <3>1, Zenon DEF Flushed
    <3> QED
          BY <2>1, <2>3, <3>1, <3>2, <3>3, <3>4, Zenon
  <2>4. CASE h.eng = "done"
    <3>0. pending \ Oversize \in SUBSET Frame /\ IsFiniteSet(pending \ Oversize)
          BY <1>0, FS_Subset, Zenon
    <3>1. PICK order \in Orders(pending \ Oversize) : drain_write_bio(Completed(h, order))
          BY <2>2, <2>4, Zenon
    <3>2. /\ order \in Seq(Frame)
          /\ \A f \in pending \ Oversize : \E i \in DOMAIN order : order[i] = f
      <4> DEFINE S == pending \ Oversize
      <4>1. S \in SUBSET Frame /\ IsFiniteSet(S) /\ order \in Orders(S)
            BY <3>0, <3>1, Zenon
      <4> HIDE DEF S
      <4>2. order \in Seq(Frame) /\ \A f \in S : \E i \in DOMAIN order : order[i] = f
            BY <4>1, OrderHoldsAll, Zenon
      <4> QED
            BY <4>2, Zenon DEF S
    <3> DEFINE d == Completed(h, order)
               auth == Flight("auth", h.key)
               r == Records(h.key, order)
    <3>3. /\ d \in Channel /\ d.rbio = h.rbio /\ d.key = h.key /\ d.eng = h.eng
          /\ d.wbio = Append(h.wbio, auth) \o r
          BY <2>1, <3>2, Completes, Zenon
    <3>4. drain_write_bio(d) /\ pending' = {}
          BY <2>2, <2>4, <3>1, Zenon
    <3> HIDE DEF d
    <3>5. /\ chan' \in Channel /\ c2s' = c2s \o d.wbio /\ c2s' \in Seq(Msg)
          /\ chan'.rbio = d.rbio /\ chan'.key = d.key /\ chan'.eng = d.eng
          BY <1>0, <3>3, <3>4, Drained, Zenon
    <3>6. h.key \in 0 .. MaxSession /\ h.wbio \in Seq(Msg)
          BY <2>1, ChannelFields
    <3>7. auth \in Msg /\ auth.t = "auth"
          BY <3>6, Messages
    <3>8. /\ r \in Seq(Msg) /\ DOMAIN r = DOMAIN order
          /\ \A i \in DOMAIN order : r[i] = Data("frame", h.key, order[i])
          BY <3>2, <3>6, RecordsOf, Zenon
    <3> HIDE DEF auth, r
    <3>9. ASSUME NEW f \in pending \ Oversize
          PROVE  \E i, j \in DOMAIN c2s' : /\ i < j /\ c2s'[i].t = "auth"
                                           /\ c2s'[j] = Data("frame", chan'.key, f)
      <4>1. PICK x \in DOMAIN order : order[x] = f
            BY <3>2, Zenon
      <4>2. x \in DOMAIN r /\ r[x] = Data("frame", chan'.key, f)
            BY <3>3, <3>5, <3>8, <4>1, Zenon
      <4>3. c2s' = c2s \o (Append(h.wbio, auth) \o r)
            BY <3>3, <3>5, Zenon
      <4> DEFINE a == Append(h.wbio, auth)  b == a \o r
      <4>4. a \in Seq(Msg) /\ auth \in Range(a)
        <5> DEFINE w == h.wbio
        <5>1. w \in Seq(Msg) /\ auth \in Msg
              BY <3>6, <3>7, Zenon
        <5> HIDE DEF w
        <5>2. Append(w, auth) \in Seq(Msg) /\ Range(Append(w, auth)) = Range(w) \cup {auth}
              BY <5>1, RangeAppend
        <5> QED
              BY <5>2, Zenon DEF w
      <4>5. r[x] \in Range(r)
            BY <4>2, Zenon DEF Range
      <4> HIDE DEF a
      <4>6. Behind(b, auth, r[x])
            BY <3>8, <4>4, <4>5, SentLater, Zenon
      <4>7. b \in Seq(Msg)
            BY <3>8, <4>4, RangeConcat, Zenon
      <4> HIDE DEF b
      <4>8. Behind(c2s \o b, auth, r[x])
            BY <1>0, <4>6, <4>7, SentBefore, Zenon
      <4>9. Behind(c2s', auth, r[x])
            BY <4>3, <4>8, Zenon DEF a, b
      <4> QED
            BY <3>7, <4>2, <4>9, Zenon DEF Behind
    <3>10. Flushed
          BY <3>9, Zenon DEF Flushed
    <3> QED
          BY <2>1, <2>4, <3>3, <3>4, <3>5, <3>10, Zenon
  <2> QED
        BY <2>3, <2>4, Zenon
<1> QED
      BY <1>1, <1>2, Zenon

-----------------------------------------------------------------------------
\* The server's session.

LEMMA SessionFields ==
    ASSUME NEW s \in Session
    PROVE  /\ s.state \in {"NONE", "HANDSHAKE", "AUTH", "PROXY"} /\ s.key \in 0 .. MaxSession
           /\ s.eng \in {"idle", "shello", "done"} /\ s.wbio \in Seq(Msg)
  BY Zenon DEF Session

LEMMA NoSessionFields ==
    /\ NoSession \in Session /\ NoSession.state = "NONE" /\ NoSession.key = 0
    /\ NoSession.eng = "idle" /\ NoSession.wbio = <<>> /\ Range(NoSession.wbio) = {}
<1>1. /\ NoSession.state = "NONE" /\ NoSession.key = 0
      /\ NoSession.eng = "idle" /\ NoSession.wbio = <<>>
      BY DEF NoSession
<1>2. NoSession \in Session
      BY LinkAssumption DEF NoSession, Session
<1> QED
      BY <1>1, <1>2, RangeNone, Zenon

\* What the server may have written: nothing new that says "finished", unless the
\* handshake of the session is done.
Honest(s, new, old, e) ==
    \A x \in new : x.t = "sfinished" => x \in old \/ (x.key = s.key /\ e = "done")

\* What one datagram, or one reply, makes of the session s and of what it sends.
Serves(s) ==
    /\ sess' \in Session /\ s2c' \in Seq(Msg) /\ forwarded' \subseteq Frame
    /\ sess' = NoSession \/ (sess'.state # "NONE" /\ sess'.key = s.key)
    /\ sess'.key = s.key /\ s.eng = "done" => sess'.eng = "done"
    /\ sess'.state \in {"AUTH", "PROXY"} => sess'.eng = "done"
    /\ Honest(s, Range(s2c') \cup Range(sess'.wbio), Range(s2c) \cup Range(s.wbio),
              IF sess' = NoSession THEN s.eng ELSE sess'.eng)
    /\ ~good => forwarded' = {} /\ sess'.state # "PROXY"

\* SSL_accept of a datagram in the handshake.
LEMMA Accepts ==
    ASSUME NEW s \in Session, NEW m \in Msg, NEW a \in Accept(s, m)
    PROVE  /\ a \in Session /\ a.key = s.key /\ a.state = s.state
           /\ s.eng = "done" => a.eng = "done"
           /\ Honest(s, Range(a.wbio), Range(s.wbio), a.eng)
<1>0. /\ s.wbio \in Seq(Msg) /\ s.key \in 0 .. MaxSession
      /\ s.state \in {"NONE", "HANDSHAKE", "AUTH", "PROXY"} /\ s.eng \in {"idle", "shello", "done"}
      BY SessionFields
<1> DEFINE hello == Flight("shello", s.key)
           fin == Flight("sfinished", s.key)
           w1 == Append(s.wbio, hello)
           w2 == Append(s.wbio, fin)
<1>1. hello \in Msg /\ hello.t = "shello" /\ fin \in Msg /\ fin.t = "sfinished" /\ fin.key = s.key
      BY <1>0, Messages
<1>2. \/ a = s
      \/ a = [s EXCEPT !.eng = "shello", !.wbio = w1] /\ s.eng = "idle"
      \/ a = [s EXCEPT !.wbio = w1] /\ s.eng = "shello"
      \/ a = [s EXCEPT !.eng = "done", !.wbio = w2]
      BY DEF Accept
<1> HIDE DEF hello, fin
<1>3. w1 \in Seq(Msg) /\ Range(w1) = Range(s.wbio) \cup {hello}
      BY <1>0, <1>1, RangeAppend
<1>4. w2 \in Seq(Msg) /\ Range(w2) = Range(s.wbio) \cup {fin}
      BY <1>0, <1>1, RangeAppend
<1> HIDE DEF w1, w2
<1>5. CASE a = s
      BY <1>5, Zenon DEF Honest
<1>6. CASE a = [s EXCEPT !.eng = "shello", !.wbio = w1] /\ s.eng = "idle"
  <2>1. a \in Session /\ a.key = s.key /\ a.state = s.state /\ a.wbio = w1
        BY <1>3, <1>6, Zenon DEF Session
  <2> QED
        BY <1>1, <1>3, <1>6, <2>1, Zenon DEF Honest
<1>7. CASE a = [s EXCEPT !.wbio = w1] /\ s.eng = "shello"
  <2>1. a \in Session /\ a.key = s.key /\ a.state = s.state /\ a.wbio = w1
        BY <1>3, <1>7, Zenon DEF Session
  <2> QED
        BY <1>1, <1>3, <1>7, <2>1, Zenon DEF Honest
<1>8. CASE a = [s EXCEPT !.eng = "done", !.wbio = w2]
  <2>1. a \in Session /\ a.key = s.key /\ a.state = s.state /\ a.wbio = w2 /\ a.eng = "done"
        BY <1>4, <1>8, Zenon DEF Session
  <2> QED
        BY <1>1, <1>4, <2>1, Zenon DEF Honest
<1> QED
      BY <1>2, <1>5, <1>6, <1>7, <1>8, Zenon

LEMMA DrainedToClient ==
    ASSUME NEW s \in Session, s2c \in Seq(Msg), drain_wbio(s)
    PROVE  /\ sess' \in Session /\ sess'.state = s.state /\ sess'.key = s.key /\ sess'.eng = s.eng
           /\ s2c' \in Seq(Msg)
           /\ Range(s2c') \cup Range(sess'.wbio) = Range(s2c) \cup Range(s.wbio)
<1>1. sess' = [s EXCEPT !.wbio = <<>>] /\ s2c' = s2c \o s.wbio
      BY DEF drain_wbio
<1>2. <<>> \in Seq(Msg) /\ Range(<<>>) = {}
      BY RangeNone
<1>3. /\ sess' \in Session /\ sess'.state = s.state /\ sess'.key = s.key /\ sess'.eng = s.eng
      /\ sess'.wbio = <<>>
      BY <1>1, <1>2, Zenon DEF Session
<1>4. s.wbio \in Seq(Msg)
      BY SessionFields
<1>5. s2c' \in Seq(Msg) /\ Range(s2c') = Range(s2c) \cup Range(s.wbio)
      BY <1>1, <1>4, RangeConcat, ZenonT(40)
<1> QED
      BY <1>2, <1>3, <1>5, Zenon

\* SSL_accept that has not failed.
LEMMA HandshakeGoesOn ==
    ASSUME LinkInv, NEW s \in Session, s.state = "HANDSHAKE", NEW m \in Msg,
           \E a \in Accept(s, m) :
              drain_wbio(IF a.eng = "done" THEN [a EXCEPT !.state = "AUTH"] ELSE a),
           forwarded' = forwarded
    PROVE  Serves(s)
<1>1. PICK a \in Accept(s, m) :
          drain_wbio(IF a.eng = "done" THEN [a EXCEPT !.state = "AUTH"] ELSE a)
      OBVIOUS
<1>2. /\ a \in Session /\ a.key = s.key /\ a.state = "HANDSHAKE"
      /\ s.eng = "done" => a.eng = "done"
      /\ Honest(s, Range(a.wbio), Range(s.wbio), a.eng)
      BY Accepts, Zenon
<1> DEFINE d == IF a.eng = "done" THEN [a EXCEPT !.state = "AUTH"] ELSE a
<1>3. /\ d \in Session /\ d.key = s.key /\ d.eng = a.eng /\ d.wbio = a.wbio
      /\ (d.state = "AUTH" /\ a.eng = "done") \/ d.state = "HANDSHAKE"
  <2>1. CASE a.eng = "done"
    <3>1. d = [a EXCEPT !.state = "AUTH"]
          BY <2>1
    <3> HIDE DEF d
    <3> QED
          BY <1>2, <2>1, <3>1, Zenon DEF Session
  <2>2. CASE a.eng # "done"
    <3>1. d = a
          BY <2>2
    <3> HIDE DEF d
    <3> QED
          BY <1>2, <3>1, Zenon
  <2> QED
        BY <2>1, <2>2, Zenon
<1>4. drain_wbio(d)
      BY <1>1, Zenon
<1> HIDE DEF d
<1>5. s2c \in Seq(Msg) /\ forwarded \subseteq Frame /\ (~good => forwarded = {})
      BY Zenon DEF LinkInv, TypeOK, WrongPasswordRefused
<1>6. /\ sess' \in Session /\ sess'.state = d.state /\ sess'.key = d.key /\ sess'.eng = d.eng
      /\ s2c' \in Seq(Msg)
      /\ Range(s2c') \cup Range(sess'.wbio) = Range(s2c) \cup Range(d.wbio)
      BY <1>3, <1>4, <1>5, DrainedToClient, Zenon
<1>7. sess' # NoSession
      BY <1>3, <1>6, NoSessionFields, Zenon
<1>8. Honest(s, Range(s2c') \cup Range(sess'.wbio), Range(s2c) \cup Range(s.wbio), sess'.eng)
      BY <1>2, <1>3, <1>6, Zenon DEF Honest
<1> QED
      BY <1>2, <1>3, <1>5, <1>6, <1>7, <1>8, Zenon DEF Serves

\* destroy(): the session is gone, and what it wrote last with it.
LEMMA Destroyed ==
    ASSUME LinkInv, NEW s \in Session, s.key # 0, destroy, s2c' = s2c, forwarded' = forwarded
    PROVE  Serves(s)
<1>1. sess' = NoSession
      BY Zenon DEF destroy
<1>2. s2c \in Seq(Msg) /\ forwarded \subseteq Frame /\ (~good => forwarded = {})
      BY Zenon DEF LinkInv, TypeOK, WrongPasswordRefused
<1>3. Range(sess'.wbio) = {} /\ sess' \in Session /\ sess'.state = "NONE" /\ sess'.key = 0
      BY <1>1, NoSessionFields, Zenon
<1>4. Honest(s, Range(s2c') \cup Range(sess'.wbio), Range(s2c) \cup Range(s.wbio), s.eng)
      BY <1>3, Zenon DEF Honest
<1> QED
      BY <1>1, <1>2, <1>3, <1>4, Zenon DEF Serves

LEMMA ProcessHandshake ==
    ASSUME LinkInv, NEW s \in Session, s.state = "HANDSHAKE", s.key # 0, NEW m \in Msg,
           process_handshake(s, m)
    PROVE  Serves(s)
<1>1. /\ forwarded' = forwarded
      /\ \/ \E a \in Accept(s, m) :
               drain_wbio(IF a.eng = "done" THEN [a EXCEPT !.state = "AUTH"] ELSE a)
         \/ destroy /\ s2c' = s2c
      BY Zenon DEF process_handshake
<1> QED
      BY <1>1, HandshakeGoesOn, Destroyed, Zenon

\* A session that goes on: its state is the same or the password was right, and
\* nothing is forwarded but by a session that is past the password.
LEMMA GoesOn ==
    ASSUME LinkInv, NEW s \in Session, s.eng = "done", s.state \in {"AUTH", "PROXY"},
           s.state = "PROXY" => good,
           NEW st \in {"AUTH", "PROXY"}, st = "PROXY" => good,
           NEW w \in Seq(Msg), \A x \in Range(w) : x \in Range(s.wbio) \/ x.key = s.key,
           sess' \in Session, sess'.state = st, sess'.key = s.key, sess'.eng = "done",
           sess'.wbio = w, s2c' = s2c,
           forwarded' \subseteq Frame, ~good => forwarded' = {}
    PROVE  Serves(s)
<1>1. s2c \in Seq(Msg)
      BY Zenon DEF LinkInv, TypeOK
<1>2. sess' # NoSession
      BY NoSessionFields, Zenon
<1>3. Honest(s, Range(s2c') \cup Range(sess'.wbio), Range(s2c) \cup Range(s.wbio), sess'.eng)
      BY Zenon DEF Honest
<1> QED
      BY <1>1, <1>2, <1>3, Zenon DEF Serves

\* SSL_read of a datagram behind the handshake.
LEMMA TryRead ==
    ASSUME LinkInv, NEW s \in Session, s.key # 0, s.eng = "done", s.state \in {"AUTH", "PROXY"},
           s.state = "PROXY" => good, NEW m \in Msg, try_read_app_data(s, m)
    PROVE  Serves(s)
<1>0. /\ s2c' = s2c /\ s.wbio \in Seq(Msg) /\ s.key \in 0 .. MaxSession
      /\ forwarded \subseteq Frame /\ (~good => forwarded = {})
      BY SessionFields, Zenon DEF LinkInv, TypeOK, WrongPasswordRefused, try_read_app_data
<1> DEFINE again == m = Flight("finished", s.key)
           stale == m.key # s.key \/ m.t = "hello"
<1>1. CASE again
  <2> DEFINE fin == Flight("sfinished", s.key)  w == <<fin>>
  <2>1. fin \in Msg /\ fin.key = s.key
        BY <1>0, Messages
  <2>2. sess' = [s EXCEPT !.wbio = w] /\ forwarded' = forwarded
        BY <1>1, Zenon DEF try_read_app_data
  <2> HIDE DEF fin
  <2>3. w \in Seq(Msg) /\ Range(w) = {fin}
        BY <2>1, RangeOne, Zenon
  <2> HIDE DEF w
  <2>4. sess' \in Session /\ sess'.state = s.state /\ sess'.key = s.key /\ sess'.eng = s.eng
        /\ sess'.wbio = w
        BY <2>2, <2>3, Zenon DEF Session
  <2> QED
        BY <1>0, <2>1, <2>2, <2>3, <2>4, GoesOn, Zenon
<1>2. CASE ~again /\ stale
  <2>1. sess' = s /\ forwarded' = forwarded
        BY <1>2, Zenon DEF try_read_app_data
  <2> QED
        BY <1>0, <2>1, GoesOn, Zenon
<1>3. CASE ~again /\ ~stale /\ m.t = "close"
  <2>1. destroy /\ forwarded' = forwarded
        BY <1>3, Zenon DEF try_read_app_data
  <2> QED
        BY <1>0, <2>1, Destroyed, Zenon
<1>4. CASE ~again /\ ~stale /\ m.t # "close" /\ s.state = "AUTH"
  <2>1. Authenticate(s, m)
        BY <1>4, Zenon DEF try_read_app_data
  <2>2. CASE m.t = "auth" /\ good
    <3>1. sess' = [s EXCEPT !.state = "PROXY"] /\ forwarded' = forwarded
          BY <2>1, <2>2, Zenon DEF Authenticate
    <3>2. sess' \in Session /\ sess'.state = "PROXY" /\ sess'.key = s.key /\ sess'.eng = s.eng
          /\ sess'.wbio = s.wbio
          BY <3>1, Zenon DEF Session
    <3> QED
          BY <1>0, <2>2, <3>1, <3>2, GoesOn, Zenon
  <2>3. CASE ~(m.t = "auth" /\ good)
    <3>1. destroy /\ forwarded' = forwarded
          BY <2>1, <2>3, Zenon DEF Authenticate
    <3> QED
          BY <1>0, <3>1, Destroyed, Zenon
  <2> QED
        BY <2>2, <2>3, Zenon
<1>5. CASE ~again /\ ~stale /\ m.t # "close" /\ s.state # "AUTH"
  <2>1. sess' = s /\ forwarded' = forwarded \cup ({m.f} \cap Frame)
        BY <1>5, Zenon DEF try_read_app_data
  <2>2. good /\ forwarded' \subseteq Frame
        BY <1>0, <1>5, <2>1, Zenon
  <2> QED
        BY <1>0, <2>1, <2>2, GoesOn, Zenon
<1> QED
      BY <1>1, <1>2, <1>3, <1>4, <1>5, Zenon

-----------------------------------------------------------------------------
\* The invariant.

LEMMA InitLinkInv == Init => LinkInv
<1> SUFFICES ASSUME Init PROVE LinkInv
      OBVIOUS
<1>1. TypeOK
  <2>1. sess \in Session
        BY NoSessionFields, Zenon DEF Init
  <2>2. chan \in Channel
        BY LinkAssumption DEF Init, Channel
  <2>3. created \in 0 .. MaxSession
        BY LinkAssumption DEF Init
  <2>4. c2s \in Seq(Msg) /\ s2c \in Seq(Msg)
        BY DEF Init
  <2> QED
        BY <2>1, <2>2, <2>3, <2>4, Zenon DEF Init, TypeOK
<1>2. Underway = {} /\ chan.eng = "idle" /\ chan.done = FALSE
  <2>1. Range(s2c) = {} /\ Range(sess.wbio) = {}
        BY NoSessionFields, RangeNone, Zenon DEF Init
  <2>2. chan.rbio = {} /\ chan.eng = "idle" /\ chan.done = FALSE
        BY DEF Init
  <2> QED
        BY <2>1, <2>2, Zenon DEF Underway
<1>3. Truthful
      BY <1>2 DEF Truthful
<1>4. Sessions /\ WrongPasswordRefused
      BY NoSessionFields DEF Init, Sessions, WrongPasswordRefused
<1>5. IsFiniteSet(pending)
      BY FS_EmptySet, Zenon DEF Init
<1> QED
      BY <1>1, <1>3, <1>4, <1>5, Zenon DEF LinkInv

\* A step of the client: the server's side is as it was, nothing new is underway
\* to the client, and the engine is done only if it was or has read the answer.
LEMMA ClientStep ==
    ASSUME LinkInv, UNCHANGED <<sess, created, good, lossy, forwarded>>,
           chan' \in Channel, c2s' \in Seq(Msg), s2c' \in Seq(Msg), Range(s2c') \subseteq Range(s2c),
           chan'.rbio \subseteq chan.rbio \cup Range(s2c),
           chan'.done => chan'.eng = "done",
           chan'.eng = "done" => /\ chan'.key = chan.key
                                 /\ chan.eng = "done" \/ Flight("sfinished", chan.key) \in chan.rbio,
           posted' \in BOOLEAN, pending' \subseteq Frame, IsFiniteSet(pending'),
           replied' \subseteq Frame
    PROVE  LinkInv'
<1>1. TypeOK'
      BY Zenon DEF LinkInv, TypeOK
<1>2. Finished' = Finished
      BY Zenon DEF Finished
<1>3. Underway' \subseteq Underway
      BY Zenon DEF Underway
<1>4. chan'.eng = "done" => chan'.key \in Finished
  <2>1. chan.key \in 0 .. MaxSession
        BY ChannelFields, Zenon DEF LinkInv, TypeOK
  <2>2. Flight("sfinished", chan.key).t = "sfinished" /\ Flight("sfinished", chan.key).key = chan.key
        BY <2>1, Messages
  <2>3. Flight("sfinished", chan.key) \in chan.rbio => chan.key \in Finished
        BY <2>2, Zenon DEF LinkInv, Truthful, Underway
  <2> QED
        BY <2>3, Zenon DEF LinkInv, Truthful
<1>5. Truthful'
      BY <1>2, <1>3, <1>4, Zenon DEF LinkInv, Truthful
<1>6. Sessions' /\ WrongPasswordRefused'
      BY Zenon DEF LinkInv, Sessions, WrongPasswordRefused
<1> QED
      BY <1>1, <1>5, <1>6, Zenon DEF LinkInv

\* A step of the server on the session s, which is the one it had or a new one.
LEMMA ServerStep ==
    ASSUME LinkInv, NEW s \in Session, Serves(s),
           created' \in 0 .. MaxSession, s.key \in 1 .. created',
           \/ s = sess /\ created' = created
           \/ s.key = created + 1 /\ created' = created + 1 /\ Range(s.wbio) = {},
           UNCHANGED <<chan, posted, pending, good, lossy, replied>>, c2s' \in Seq(Msg)
    PROVE  LinkInv'
<1>0. created \in Nat /\ created' \in Nat /\ s.key # 0
      BY LinkAssumption DEF LinkInv, TypeOK
<1>1. TypeOK'
      BY Zenon DEF LinkInv, TypeOK, Serves
<1>2. sess' # NoSession => sess'.key = s.key
      BY Zenon DEF Serves
<1>3. sess' = NoSession => sess'.key = 0
      BY NoSessionFields, Zenon
<1>4. Finished \subseteq Finished'
  <2> SUFFICES ASSUME NEW k \in Finished PROVE k \in Finished'
        OBVIOUS
  <2>1. k \in 1 .. created /\ (sess.key = k => sess.eng = "done")
        BY Zenon DEF Finished
  <2>2. k \in 1 .. created' /\ k # 0
        BY <1>0, <2>1
  <2>3. ASSUME sess'.key = k PROVE sess'.eng = "done"
    <3>1. s.key = k
          BY <1>2, <1>3, <2>2, <2>3, Zenon
    <3>2. k # created + 1
          BY <1>0, <2>1
    <3>3. s = sess
          BY <3>1, <3>2, Zenon
    <3> QED
          BY <2>1, <2>3, <3>1, <3>3, Zenon DEF Serves
  <2> QED
        BY <2>2, <2>3, Zenon DEF Finished
<1>5. ASSUME NEW x \in Underway', x.t = "sfinished" PROVE x.key \in Finished'
  <2>1. CASE x \in Underway
        BY <1>4, <1>5, <2>1, Zenon DEF LinkInv, Truthful
  <2>2. CASE x \notin Underway
    <3>1. x \in Range(s2c') \cup Range(sess'.wbio)
          BY <2>2, Zenon DEF Underway
    <3>2. x \notin Range(s2c) \cup Range(s.wbio)
          BY <2>2, Zenon DEF Underway
    <3>3. x.key = s.key /\ (IF sess' = NoSession THEN s.eng ELSE sess'.eng) = "done"
          BY <1>5, <3>1, <3>2, Zenon DEF Serves, Honest
    <3>4. sess'.key = s.key => sess'.eng = "done"
          BY <1>0, <1>3, <3>3, Zenon
    <3> QED
          BY <3>3, <3>4, Zenon DEF Finished
  <2> QED
        BY <2>1, <2>2, Zenon
<1>6. Truthful'
      BY <1>4, <1>5, Zenon DEF LinkInv, Truthful
<1>7. Sessions'
      BY <1>2, NoSessionFields, Zenon DEF Serves, Sessions
<1>8. WrongPasswordRefused'
      BY Zenon DEF Serves, WrongPasswordRefused
<1> QED
      BY <1>1, <1>6, <1>7, <1>8, Zenon DEF LinkInv

\* What the invariant says of the channel and the network in the state a step
\* starts from.
LEMMA LinkFacts ==
    ASSUME LinkInv
    PROVE  /\ chan \in Channel /\ sess \in Session /\ created \in 0 .. MaxSession
           /\ c2s \in Seq(Msg) /\ s2c \in Seq(Msg) /\ posted \in BOOLEAN
           /\ pending \subseteq Frame /\ IsFiniteSet(pending)
           /\ forwarded \subseteq Frame /\ replied \subseteq Frame
           /\ chan.done => chan.eng = "done"
  BY Zenon DEF LinkInv, TypeOK, Truthful

\* start, stop and on_receive_error, which change a flag of the channel.
LEMMA FlagSteps ==
    ASSUME LinkInv, start \/ stop \/ on_receive_error
    PROVE  LinkInv'
<1>1. /\ chan \in Channel /\ c2s' = c2s /\ s2c' = s2c /\ pending' = pending /\ replied' = replied
      /\ UNCHANGED <<sess, created, good, lossy, forwarded>> /\ posted' \in BOOLEAN
      BY LinkFacts, Zenon DEF start, stop, on_receive_error
<1>2. /\ chan' \in Channel /\ chan'.rbio = chan.rbio /\ chan'.done = chan.done
      /\ chan'.key = chan.key /\ chan'.eng = chan.eng
  <2>1. CASE start
        BY <1>1, <2>1, Zenon DEF start, Channel
  <2>2. CASE on_receive_error
        BY <1>1, <2>2, Zenon DEF on_receive_error, Channel
  <2>3. CASE stop
    <3> DEFINE w == IF chan.done THEN Append(chan.wbio, Flight("close", chan.key)) ELSE chan.wbio
    <3>1. chan.wbio \in Seq(Msg) /\ Flight("close", chan.key) \in Msg
          BY <1>1, ChannelFields, Messages
    <3>2. w \in Seq(Msg)
          BY <3>1, RangeAppend
    <3>3. chan' = [chan EXCEPT !.running = FALSE, !.wbio = w]
          BY <2>3 DEF stop
    <3> HIDE DEF w
    <3> QED
          BY <1>1, <3>2, <3>3, Zenon DEF Channel
  <2> QED
        BY <2>1, <2>2, <2>3, Zenon
<1> QED
      BY <1>1, <1>2, LinkFacts, ClientStep, Zenon

\* do_handshake as a posted handler.
LEMMA RunPostedStep ==
    ASSUME LinkInv, RunPosted
    PROVE  LinkInv' /\ Flushed
<1>1. /\ do_handshake(chan) /\ posted' = FALSE /\ s2c' = s2c /\ replied' = replied
      /\ UNCHANGED <<sess, created, good, lossy, forwarded>>
      BY Zenon DEF RunPosted
<1>2. TypeOK /\ IsFiniteSet(pending)
      BY Zenon DEF LinkInv
<1>3. /\ chan' \in Channel /\ c2s' \in Seq(Msg) /\ pending' \subseteq pending
      /\ chan'.rbio \subseteq chan.rbio /\ (chan'.done => chan'.eng = "done")
      /\ chan'.eng = "done" => /\ chan'.key = chan.key
                               /\ chan.eng = "done" \/ Flight("sfinished", chan.key) \in chan.rbio
      /\ Flushed
      BY <1>1, <1>2, LinkFacts, DoHandshake, Zenon
<1>4. IsFiniteSet(pending')
      BY <1>2, <1>3, FS_Subset, Zenon
<1> QED
      BY <1>1, <1>3, <1>4, LinkFacts, ClientStep, Zenon

\* The timer, which writes the last flight again or gives up.
LEMMA TimeoutStep ==
    ASSUME LinkInv, handle_timeout
    PROVE  LinkInv' /\ Flushed
<1>0. /\ chan \in Channel /\ s2c' = s2c /\ replied' = replied /\ posted' = posted
      /\ UNCHANGED <<sess, created, good, lossy, forwarded>>
      /\ chan.eng \in {"hello", "finished"}
      BY LinkFacts, Zenon DEF handle_timeout
<1>1. ~chan.done
      BY <1>0, LinkFacts
<1>2. CASE chan.timeouts = MaxTimeout
  <2>1. chan' = [chan EXCEPT !.eng = "failed"] /\ c2s' = c2s /\ pending' = pending
        BY <1>2 DEF handle_timeout
  <2>2. chan' \in Channel /\ chan'.rbio = chan.rbio /\ chan'.done = chan.done /\ chan'.eng = "failed"
        BY <1>0, <2>1, Zenon DEF Channel
  <2>3. Flushed
        BY <2>1, Zenon DEF Flushed
  <2> QED
        BY <1>0, <1>1, <2>1, <2>2, <2>3, LinkFacts, ClientStep
<1>3. CASE chan.timeouts # MaxTimeout
  <2> DEFINE w == chan.wbio \o LastFlight(chan)
             n == chan.timeouts + 1
             c == [chan EXCEPT !.wbio = w, !.timeouts = n]
  <2>1. do_handshake(c)
        BY <1>3 DEF handle_timeout
  <2>2. chan.key \in 0 .. MaxSession /\ chan.wbio \in Seq(Msg) /\ chan.timeouts \in 0 .. MaxTimeout
        BY <1>0, ChannelFields
  <2>3. Flight("hello", 0) \in Msg /\ Flight("finished", chan.key) \in Msg
        BY <2>2, Messages, LinkAssumption
  <2>4. LastFlight(chan) \in Seq(Msg)
        BY <2>3, RangeOne, RangeNone DEF LastFlight
  <2>5. w \in Seq(Msg)
        BY <2>2, <2>4, RangeConcat, Zenon
  <2>6. n \in 0 .. MaxTimeout
        BY <1>3, <2>2, LinkAssumption
  <2> HIDE DEF w, n
  <2>7. /\ c \in Channel /\ c.rbio = chan.rbio /\ c.done = chan.done /\ c.key = chan.key
        /\ c.eng = chan.eng
        BY <1>0, <2>5, <2>6, Zenon DEF Channel
  <2> HIDE DEF c
  <2>8. TypeOK /\ IsFiniteSet(pending)
        BY Zenon DEF LinkInv
  <2>9. /\ chan' \in Channel /\ c2s' \in Seq(Msg) /\ pending' \subseteq pending
        /\ chan'.rbio \subseteq c.rbio /\ (chan'.done => chan'.eng = "done")
        /\ chan'.eng = "done" => /\ chan'.key = c.key
                                 /\ c.eng = "done" \/ Flight("sfinished", c.key) \in c.rbio
        /\ Flushed
        BY <1>1, <2>1, <2>7, <2>8, DoHandshake, Zenon
  <2>10. IsFiniteSet(pending')
        BY <2>8, <2>9, FS_Subset, Zenon
  <2> QED
        BY <1>0, <2>7, <2>9, <2>10, LinkFacts, ClientStep, Zenon
<1> QED
      BY <1>2, <1>3, Zenon

\* A relay's frame, sent or queued.
LEMMA SendStep ==
    ASSUME LinkInv, NEW f \in Frame, Send(f)
    PROVE  LinkInv' /\ Flushed
<1>0. /\ chan \in Channel /\ s2c' = s2c /\ replied' = replied /\ posted' = posted
      /\ UNCHANGED <<sess, created, good, lossy, forwarded>>
      /\ c2s \in Seq(Msg) /\ pending \subseteq Frame /\ IsFiniteSet(pending)
      BY LinkFacts, Zenon DEF Send
<1>1. CASE chan.done /\ chan.running /\ f \in Oversize
  <2>1. chan' = chan /\ c2s' = c2s /\ pending' = pending
        BY <1>1, Zenon DEF Send
  <2>2. Flushed
        BY <2>1, Zenon DEF Flushed
  <2> QED
        BY <1>0, <2>1, <2>2, LinkFacts, ClientStep, Zenon
<1>2. CASE chan.done /\ chan.running /\ f \notin Oversize
  <2> DEFINE m == Data("frame", chan.key, f)  d == SslWrite(chan, m)
  <2>1. m \in Msg
        BY <1>0, ChannelFields, Messages
  <2>2. drain_write_bio(d) /\ pending' = pending
        BY <1>2, Zenon DEF Send
  <2> HIDE DEF m
  <2>3. d \in Channel /\ d.rbio = chan.rbio /\ d.done = chan.done /\ d.key = chan.key /\ d.eng = chan.eng
        BY <1>0, <2>1, SslWrites, Zenon
  <2> HIDE DEF d
  <2>4. /\ chan' \in Channel /\ c2s' \in Seq(Msg) /\ chan'.rbio = d.rbio /\ chan'.done = d.done
        /\ chan'.key = d.key /\ chan'.eng = d.eng
        BY <1>0, <2>2, <2>3, Drained, Zenon
  <2>5. Flushed
        BY <2>2, Zenon DEF Flushed
  <2> QED
        BY <1>0, <2>2, <2>3, <2>4, <2>5, LinkFacts, ClientStep, Zenon
<1>3. CASE ~(chan.done /\ chan.running)
  <2>1. pending' = pending \cup {f} /\ chan' = chan /\ c2s' = c2s
        BY <1>3, Zenon DEF Send
  <2>2. IsFiniteSet(pending')
        BY <1>0, <2>1, FS_AddElement, Zenon
  <2>3. Flushed
        BY <2>1, Zenon DEF Flushed
  <2> QED
        BY <1>0, <2>1, <2>2, <2>3, LinkFacts, ClientStep, Zenon
<1> QED
      BY <1>1, <1>2, <1>3, Zenon

\* A datagram for the client.
LEMMA ReceiveStep ==
    ASSUME LinkInv, NEW i \in DOMAIN s2c, on_receive(i)
    PROVE  LinkInv'
<1>0. /\ chan \in Channel /\ s2c \in Seq(Msg) /\ s2c' = Without(s2c, i)
      /\ pending' = pending /\ c2s' = c2s
      /\ UNCHANGED <<sess, created, good, lossy, forwarded>>
      BY LinkFacts, Zenon DEF on_receive
<1>1. /\ s2c' \in Seq(Msg) /\ Range(s2c') \subseteq Range(s2c)
      /\ s2c[i] \in Msg /\ s2c[i] \in Range(s2c)
      BY <1>0, RangeWithout, Zenon
<1>2. CASE ~chan.running \/ ~chan.receiving
  <2>1. chan' = chan /\ posted' = posted /\ replied' = replied
        BY <1>2, Zenon DEF on_receive
  <2> QED
        BY <1>0, <1>1, <2>1, LinkFacts, ClientStep, Zenon
<1>3. CASE ~(~chan.running \/ ~chan.receiving) /\ ~chan.done
  <2> DEFINE r == chan.rbio \cup {s2c[i]}
  <2>1. chan' = [chan EXCEPT !.rbio = r] /\ posted' = TRUE /\ replied' = replied
        BY <1>3, Zenon DEF on_receive
  <2>2. r \in SUBSET Msg
        BY <1>0, <1>1, ChannelFields
  <2>3. r \subseteq chan.rbio \cup Range(s2c)
        BY <1>1, Zenon
  <2> HIDE DEF r
  <2>4. /\ chan' \in Channel /\ chan'.rbio = r /\ chan'.done = chan.done
        /\ chan'.key = chan.key /\ chan'.eng = chan.eng
        BY <1>0, <2>1, <2>2, Zenon DEF Channel
  <2> QED
        BY <1>0, <1>1, <2>1, <2>3, <2>4, LinkFacts, ClientStep, Zenon
<1>4. CASE ~(~chan.running \/ ~chan.receiving) /\ chan.done
  <2>1. /\ chan' = chan /\ posted' = posted
        /\ replied' = replied \cup {f \in Frame : s2c[i] = Data("reply", chan.key, f)}
        BY <1>4, Zenon DEF on_receive
  <2>2. replied' \subseteq Frame
        BY <2>1, LinkFacts, Zenon
  <2> QED
        BY <1>0, <1>1, <2>1, <2>2, LinkFacts, ClientStep, Zenon
<1> QED
      BY <1>2, <1>3, <1>4, Zenon

\* A datagram that is lost.
LEMMA LossSteps ==
    ASSUME LinkInv
    PROVE  /\ \A i \in DOMAIN s2c : LoseToClient(i) => LinkInv'
           /\ \A i \in DOMAIN c2s : LoseToServer(i) => LinkInv'
<1>1. ASSUME NEW i \in DOMAIN s2c, LoseToClient(i) PROVE LinkInv'
  <2>1. /\ s2c' = Without(s2c, i) /\ chan' = chan /\ posted' = posted /\ pending' = pending
        /\ c2s' = c2s /\ replied' = replied /\ UNCHANGED <<sess, created, good, lossy, forwarded>>
        BY <1>1, Zenon DEF LoseToClient
  <2>2. s2c' \in Seq(Msg) /\ Range(s2c') \subseteq Range(s2c)
        BY <2>1, LinkFacts, RangeWithout, Zenon
  <2> QED
        BY <2>1, <2>2, LinkFacts, ClientStep, Zenon
<1>2. ASSUME NEW i \in DOMAIN c2s, LoseToServer(i) PROVE LinkInv'
  <2>1. /\ c2s' = Without(c2s, i) /\ chan' = chan /\ posted' = posted /\ pending' = pending
        /\ s2c' = s2c /\ replied' = replied /\ UNCHANGED <<sess, created, good, lossy, forwarded>>
        BY <1>2, Zenon DEF LoseToServer
  <2>2. c2s' \in Seq(Msg)
        BY <2>1, LinkFacts, RangeWithout, Zenon
  <2> QED
        BY <2>1, <2>2, LinkFacts, ClientStep, Zenon
<1> QED
      BY <1>1, <1>2, Zenon

\* A datagram for the server: for the session it has, or a new one.
LEMMA DoReceiveStep ==
    ASSUME LinkInv, NEW i \in DOMAIN c2s, do_receive(i)
    PROVE  LinkInv'
<1> DEFINE new == sess.state = "NONE"
           fresh == [NoSession EXCEPT !.state = "HANDSHAKE", !.key = created + 1]
           s == IF new THEN fresh ELSE sess
           m == c2s[i]
<1>0. /\ c2s' = Without(c2s, i)
      /\ new => created < MaxSession
      /\ created' = IF new THEN created + 1 ELSE created
      /\ IF s.state = "HANDSHAKE" THEN process_handshake(s, m) ELSE try_read_app_data(s, m)
      /\ UNCHANGED <<chan, posted, pending, good, lossy, replied>>
      BY Zenon DEF do_receive
<1>1. c2s' \in Seq(Msg) /\ m \in Msg
      BY <1>0, LinkFacts, RangeWithout, Zenon
<1>2. created \in Nat /\ MaxSession \in Nat /\ created \in 0 .. MaxSession /\ sess \in Session
      BY LinkFacts, LinkAssumption
<1> HIDE DEF m
<1>3. CASE new
  <2>1. created + 1 \in 0 .. MaxSession /\ created' = created + 1 /\ created + 1 \in 1 .. created'
        BY <1>0, <1>2, <1>3
  <2>2. s = fresh
        BY <1>3
  <2>3. /\ fresh \in Session /\ fresh.state = "HANDSHAKE" /\ fresh.key = created + 1
        /\ fresh.wbio = <<>>
        BY <2>1, NoSessionFields, Zenon DEF Session
  <2> HIDE DEF fresh, s
  <2>4. process_handshake(fresh, m)
        BY <1>0, <2>2, <2>3, Zenon
  <2>5. Serves(fresh)
    <3>1. created + 1 # 0
          BY <1>2
    <3> QED
          BY <1>1, <2>3, <2>4, <3>1, ProcessHandshake, Zenon
  <2>6. Range(fresh.wbio) = {}
        BY <2>3, RangeNone, Zenon
  <2> QED
        BY <1>0, <1>1, <2>1, <2>3, <2>5, <2>6, ServerStep, Zenon
<1>4. CASE ~new
  <2>1. s = sess /\ created' = created
        BY <1>0, <1>4
  <2>2. /\ sess.key \in 1 .. created /\ sess.state # "NONE"
        /\ sess.state \in {"AUTH", "PROXY"} => sess.eng = "done"
        /\ sess.state = "PROXY" => good
        BY <1>4, Zenon DEF LinkInv, Sessions, WrongPasswordRefused
  <2> HIDE DEF s, fresh
  <2>3. sess.key # 0 /\ sess.state \in {"HANDSHAKE", "AUTH", "PROXY"}
        BY <1>2, <2>2, SessionFields
  <2>4. Serves(sess)
    <3>1. CASE sess.state = "HANDSHAKE"
          BY <1>0, <1>1, <1>2, <2>1, <2>3, <3>1, ProcessHandshake, Zenon
    <3>2. CASE sess.state # "HANDSHAKE"
      <4>1. try_read_app_data(sess, m) /\ sess.state \in {"AUTH", "PROXY"} /\ sess.eng = "done"
            BY <1>0, <2>1, <2>2, <2>3, <3>2, Zenon
      <4> QED
            BY <1>1, <1>2, <2>2, <2>3, <4>1, TryRead, Zenon
    <3> QED
          BY <3>1, <3>2, Zenon
  <2> QED
        BY <1>0, <1>1, <1>2, <2>1, <2>2, <2>4, ServerStep, Zenon
<1> QED
      BY <1>3, <1>4, Zenon

\* A target's reply that a record holds.
LEMMA ReplySent ==
    ASSUME LinkInv, NEW f \in Frame, f \notin BigReply, do_read_target(f)
    PROVE  LinkInv'
<1> DEFINE m == Data("reply", sess.key, f)
           w == Append(sess.wbio, m)
           d == [sess EXCEPT !.wbio = w]
<1>0. /\ drain_wbio(d) /\ sess.state = "PROXY" /\ created' = created
      /\ UNCHANGED <<chan, posted, pending, good, lossy, replied>>
      /\ c2s' = c2s /\ forwarded' = forwarded
      BY DEF do_read_target
<1>1. /\ sess \in Session /\ s2c \in Seq(Msg) /\ forwarded \subseteq Frame /\ c2s \in Seq(Msg)
      /\ sess.wbio \in Seq(Msg) /\ sess.key \in 0 .. MaxSession /\ created \in 0 .. MaxSession
      BY LinkFacts, SessionFields
<1>2. m \in Msg /\ m.t = "reply"
  <2> DEFINE key == sess.key
  <2>1. key \in 0 .. MaxSession
        BY <1>1, Zenon
  <2> HIDE DEF key
  <2>2. Data("reply", key, f) \in Msg /\ Data("reply", key, f).t = "reply"
        BY <2>1, Messages
  <2> QED
        BY <2>2, Zenon DEF key
<1> HIDE DEF m
<1>3. w \in Seq(Msg) /\ Range(w) = Range(sess.wbio) \cup {m}
      BY <1>1, <1>2, RangeAppend
<1> HIDE DEF w
<1>4. d \in Session /\ d.state = sess.state /\ d.key = sess.key /\ d.eng = sess.eng /\ d.wbio = w
      BY <1>1, <1>3, Zenon DEF Session
<1> HIDE DEF d
<1>5. /\ sess' \in Session /\ sess'.state = d.state /\ sess'.key = d.key /\ sess'.eng = d.eng
      /\ s2c' \in Seq(Msg)
      /\ Range(s2c') \cup Range(sess'.wbio) = Range(s2c) \cup Range(d.wbio)
      BY <1>0, <1>1, <1>4, DrainedToClient, Zenon
<1>6. Honest(sess, Range(s2c') \cup Range(sess'.wbio), Range(s2c) \cup Range(sess.wbio), sess'.eng)
      BY <1>2, <1>3, <1>4, <1>5 DEF Honest
<1>7. sess.key \in 1 .. created /\ sess.eng = "done" /\ (~good => FALSE)
      BY <1>0 DEF LinkInv, Sessions, WrongPasswordRefused
<1>8. sess' # NoSession
      BY <1>0, <1>4, <1>5, NoSessionFields
<1>9. Serves(sess)
      BY <1>0, <1>1, <1>4, <1>5, <1>6, <1>7, <1>8 DEF Serves
<1>10. created' \in 0 .. MaxSession /\ sess.key \in 1 .. created' /\ c2s' \in Seq(Msg)
      BY <1>0, <1>1, <1>7, Zenon
<1> QED
      BY <1>0, <1>1, <1>9, <1>10, ServerStep, Zenon

\* A target's reply, sent or refused.
LEMMA ReadTargetStep ==
    ASSUME LinkInv, NEW f \in Frame, do_read_target(f)
    PROVE  LinkInv'
<1>1. CASE f \in BigReply
  <2>1. /\ UNCHANGED <<sess, created, good, lossy, forwarded>> /\ chan' = chan /\ c2s' = c2s
        /\ s2c' = s2c /\ posted' = posted /\ pending' = pending /\ replied' = replied
        BY <1>1, Zenon DEF do_read_target
  <2> QED
        BY <2>1, LinkFacts, ClientStep, Zenon
<1> QED
      BY <1>1, ReplySent, Zenon

LEMMA NextLinkInv ==
    ASSUME LinkInv, [Next]_vars
    PROVE  LinkInv'
<1>1. CASE start \/ stop \/ on_receive_error
      BY <1>1, FlagSteps, Zenon
<1>2. CASE RunPosted
      BY <1>2, RunPostedStep, Zenon
<1>3. CASE handle_timeout
      BY <1>3, TimeoutStep, Zenon
<1>4. CASE \E f \in Frame : Send(f)
      BY <1>4, SendStep, Zenon
<1>5. CASE \E f \in Frame : do_read_target(f)
      BY <1>5, ReadTargetStep, Zenon
<1>6. CASE \E i \in DOMAIN s2c : on_receive(i)
      BY <1>6, ReceiveStep, Zenon
<1>7. CASE \E i \in DOMAIN c2s : do_receive(i)
      BY <1>7, DoReceiveStep, Zenon
<1>8. CASE \/ \E i \in DOMAIN s2c : LoseToClient(i)
           \/ \E i \in DOMAIN c2s : LoseToServer(i)
      BY <1>8, LossSteps, Zenon
<1>9. CASE UNCHANGED vars
  <2>1. /\ UNCHANGED <<sess, created, good, lossy, forwarded>> /\ chan' = chan /\ c2s' = c2s
        /\ s2c' = s2c /\ posted' = posted /\ pending' = pending /\ replied' = replied
        BY <1>9, Zenon DEF vars
  <2> QED
        BY <2>1, LinkFacts, ClientStep, Zenon
<1> QED
      BY <1>1, <1>2, <1>3, <1>4, <1>5, <1>6, <1>7, <1>8, <1>9, Zenon DEF Next

\* Whatever the network loses and reorders: the types, that the server says
\* "finished" only when its handshake is, and that a wrong password gets nothing.
THEOREM SpecLinkInv == Spec => []LinkInv
<1>1. Init => LinkInv
      BY InitLinkInv
<1>2. LinkInv /\ [Next]_vars => LinkInv'
      BY NextLinkInv
<1> QED
      BY <1>1, <1>2, PTL DEF Spec

\* With a wrong password DtlsServerSession never starts the proxy and forwards
\* nothing (the auth check of try_read_app_data), for any number of sessions.
THEOREM SpecWrongPasswordRefused == Spec => []WrongPasswordRefused
<1>1. LinkInv => WrongPasswordRefused
      BY Zenon DEF LinkInv
<1> QED
      BY <1>1, SpecLinkInv, PTL

\* A channel that is_ready() has a key the server made, and as long as the server
\* has that session, its engine has completed the handshake too.
THEOREM SpecReadyMeansConnected == Spec => []ReadyMeansConnected
<1>1. LinkInv => ReadyMeansConnected
  <2> SUFFICES ASSUME LinkInv, chan.done
               PROVE  chan.key \in 1 .. created /\ (sess.key = chan.key => sess.eng = "done")
        BY Zenon DEF ReadyMeansConnected
  <2>1. chan.key \in Finished
        BY Zenon DEF LinkInv, Truthful
  <2> QED
        BY <2>1, Zenon DEF Finished
<1> QED
      BY <1>1, SpecLinkInv, PTL

\* The frames queued before the handshake leave pending_frames_ only in
\* flush_pending, and each one that a record holds goes behind the password,
\* whatever the order of relays_ and whichever others SSL_write refuses.
THEOREM SpecFlushedBehindPassword == Spec => FlushedBehindPassword
<1>1. ASSUME LinkInv, [Next]_vars PROVE [Flushed]_vars
  <2>1. CASE RunPosted
        BY <1>1, <2>1, RunPostedStep, Zenon
  <2>2. CASE handle_timeout
        BY <1>1, <2>2, TimeoutStep, Zenon
  <2>3. CASE \E f \in Frame : Send(f)
        BY <1>1, <2>3, SendStep, Zenon
  <2>4. CASE pending' = pending
        BY <2>4, Zenon DEF Flushed
  <2>5. RunPosted \/ handle_timeout \/ (\E f \in Frame : Send(f)) \/ pending' = pending
        BY <1>1, Zenon DEF Next, start, stop, on_receive_error, do_read_target, on_receive,
                           LoseToClient, do_receive, LoseToServer, vars
  <2> QED
        BY <2>1, <2>2, <2>3, <2>4, <2>5, Zenon
<1>2. LinkInv /\ [Next]_vars => [Flushed]_vars
      BY <1>1, Zenon
<1>3. Spec => [][Flushed]_vars
      BY <1>2, SpecLinkInv, PTL DEF Spec
<1> QED
      BY <1>3, Zenon DEF FlushedBehindPassword, Flushed

-----------------------------------------------------------------------------
\* The encodings.

\* The address length that goes with a kind.
RightLength(kind, alen) ==
    /\ alen \in 1 .. 255
    /\ kind = "v4" => alen = 4
    /\ kind = "v6" => alen = 16

\* A request as an application sends it.
Asked(q) ==
    /\ q.kind \in Kind /\ q.plen \in Nat /\ RightLength(q.kind, q.alen)
    /\ q.size = 4 + LenByte(q.kind) + q.alen + 2 + q.plen

\* The frame UdpFrame::generate makes of a request, when one record holds it.
Framed(f, kind, alen, plen) ==
    f = UdpFrame_generate(kind, alen, plen) /\ Fits(f)

\* What is where, stage by stage.  A domain's payload is read one byte late,
\* because UdpFrame::parse counts the length byte twice.
CodecInv ==
    /\ stage = "app" => Asked(msg)
    /\ stage = "frame" => /\ Asked(msg.asked) /\ msg.asked.kind # "other"
                          /\ Framed(msg.frame, msg.asked.kind, msg.asked.alen, msg.asked.plen)
    /\ stage = "target" => /\ msg.asked.kind \in Kind /\ msg.asked.plen \in Nat
                           /\ msg.addr = <<0, msg.asked.alen>>
                           /\ Carried(UdpFrame_generate(msg.asked.kind, msg.asked.alen,
                                                        msg.asked.plen))
                           /\ IF msg.asked.kind = "domain"
                                THEN msg.asked.plen > 0 /\ msg.data = <<1, msg.asked.plen - 1>>
                                ELSE msg.data = <<0, msg.asked.plen>>
    /\ stage = "reply" => \E plen \in PayloadLen : Framed(msg, "v4", 4, plen)
    /\ ReplyReachesApp
    /\ stage = "answered" => Carried(msg.sent)
    /\ stage = "dropped" => ~Carried(msg)
    /\ stage = "crashed" => /\ msg.asked.kind = "domain" /\ msg.asked.kind \in Kind
                            /\ msg.asked.plen = 0

\* UdpRequest::parse takes the payload and the address that were sent.
LEMMA RequestParsed ==
    ASSUME NEW q, Asked(q)
    PROVE  IF q.kind = "other" THEN UdpRequest_parse(q) = Rejected
           ELSE UdpRequest_parse(q) = Parsed(q.kind, <<0, q.alen>>, <<0, q.plen>>)
<1>1. q.plen \in Nat /\ q.alen \in Nat /\ LenByte(q.kind) \in {0, 1}
      BY DEF Asked, RightLength, LenByte
<1>2. /\ q.size - 4 = LenByte(q.kind) + q.alen + 2 + q.plen
      /\ (q.size - 4) - (LenByte(q.kind) + q.alen + 2) = q.plen
      /\ ~(q.size - 4 < LenByte(q.kind) + q.alen + 2)
      BY <1>1 DEF Asked
<1> QED
      BY <1>2, Zenon DEF UdpRequest_parse

\* UdpFrame::parse of a frame that generate made and one record holds: total_len
\* has not wrapped, and all but a domain's payload are found where they are.
LEMMA FrameParsed ==
    ASSUME NEW kind \in {"v4", "v6", "domain"}, NEW alen, RightLength(kind, alen),
           NEW plen \in Nat, NEW f, Framed(f, kind, alen, plen)
    PROVE  /\ kind # "domain" => UdpFrame_parse(f) = Parsed(kind, <<0, alen>>, <<0, plen>>)
           /\ kind = "domain" /\ plen = 0 => UdpFrame_parse(f) = Throws
           /\ kind = "domain" /\ plen > 0 =>
                UdpFrame_parse(f) = Parsed(kind, <<0, alen>>, <<1, plen - 1>>)
<1>1. /\ f.kind = kind /\ f.alen = alen /\ f.plen = plen
      /\ f.size = HEADER_SIZE + 1 + LenByte(kind) + alen + 2 + plen
      /\ f.total = f.size % Word
      BY DEF Framed, UdpFrame_generate
<1>2. alen \in 1 .. 255 /\ f.size \in Nat /\ f.size <= 16382
      BY <1>1 DEF RightLength, Framed, Fits, SessionIdSize, MaxRecord, HEADER_SIZE, LenByte
<1>3. f.total = f.size /\ alen % Byte = alen
      BY <1>1, <1>2 DEF Word, Byte
<1>4. CASE kind = "v4"
  <2>1. alen = 4 /\ f.total = 11 + plen /\ f.size = 11 + plen
        BY <1>1, <1>3, <1>4 DEF RightLength, HEADER_SIZE, LenByte
  <2> QED
        BY <1>1, <1>4, <2>1 DEF UdpFrame_parse, HEADER_SIZE, LenByte
<1>5. CASE kind = "v6"
  <2>1. alen = 16 /\ f.total = 23 + plen /\ f.size = 23 + plen
        BY <1>1, <1>3, <1>5 DEF RightLength, HEADER_SIZE, LenByte
  <2> QED
        BY <1>1, <1>5, <2>1 DEF UdpFrame_parse, HEADER_SIZE, LenByte
<1>6. CASE kind = "domain"
  <2>1. f.total = 8 + alen + plen /\ f.size = 8 + alen + plen
        BY <1>1, <1>2, <1>3, <1>6 DEF HEADER_SIZE, LenByte
  <2> QED
        BY <1>1, <1>2, <1>3, <1>6, <2>1 DEF UdpFrame_parse, HEADER_SIZE, LenByte
<1> QED
      BY <1>4, <1>5, <1>6, Zenon

LEMMA InitCodecInv == DatagramInit => CodecInv
<1> SUFFICES ASSUME DatagramInit PROVE CodecInv
      OBVIOUS
<1>1. PICK kind \in Kind, dlen \in DomainLen, plen \in PayloadLen :
          msg = Request(kind, AddrLen(kind, dlen), plen)
      BY Zenon DEF DatagramInit
<1> DEFINE alen == AddrLen(kind, dlen)
<1>2. dlen \in 1 .. 255 /\ plen \in Nat
      BY CodecAssumption
<1>3. RightLength(kind, alen)
      BY <1>2 DEF RightLength, AddrLen
<1> HIDE DEF alen
<1>4. /\ msg.kind = kind /\ msg.alen = alen /\ msg.plen = plen
      /\ msg.size = 4 + LenByte(kind) + alen + 2 + plen
      BY <1>1 DEF Request, alen
<1>5. Asked(msg)
      BY <1>2, <1>3, <1>4, Zenon DEF Asked
<1>6. stage = "app"
      BY Zenon DEF DatagramInit
<1> QED
      BY <1>5, <1>6 DEF CodecInv, ReplyReachesApp

LEMMA NextCodecInv ==
    ASSUME CodecInv, [DatagramNext]_codec_vars
    PROVE  CodecInv'
<1>1. CASE RelaySends
  <2>1. stage = "app" /\ Asked(msg)
        BY <1>1, Zenon DEF RelaySends, CodecInv
  <2> DEFINE p == UdpRequest_parse(msg)
             frame == UdpFrame_generate(p.kind, p.addr[2], p.data[2])
  <2>2. IF p.ok # "yes" THEN Dropped(msg)
        ELSE IF ~Fits(frame) THEN Dropped(frame)
        ELSE Goto("frame", [asked |-> msg, frame |-> frame])
        BY <1>1, Zenon DEF RelaySends
  <2>3. CASE msg.kind = "other"
    <3>1. p.ok = "fails"
      <4>1. p = Rejected
            BY <2>1, <2>3, RequestParsed, Zenon
      <4> HIDE DEF p
      <4> QED
            BY <4>1 DEF Rejected
    <3>2. stage' = "dropped" /\ msg' = msg
          BY <2>2, <3>1 DEF Dropped, Goto
    <3> QED
          BY <2>3, <3>2 DEF CodecInv, ReplyReachesApp, Carried
  <2>4. CASE msg.kind # "other"
    <3>1. p = Parsed(msg.kind, <<0, msg.alen>>, <<0, msg.plen>>)
          BY <2>1, <2>4, RequestParsed, Zenon
    <3>2. p.ok = "yes" /\ p.kind = msg.kind /\ p.addr[2] = msg.alen /\ p.data[2] = msg.plen
          BY <3>1 DEF Parsed
    <3>3. frame = UdpFrame_generate(msg.kind, msg.alen, msg.plen)
          BY <3>2, Zenon
    <3> HIDE DEF p, frame
    <3>4. CASE ~Fits(frame)
      <4>1. stage' = "dropped" /\ msg' = frame
            BY <2>2, <3>2, <3>4 DEF Dropped, Goto
      <4> QED
            BY <3>4, <4>1 DEF CodecInv, ReplyReachesApp, Carried
    <3>5. CASE Fits(frame)
      <4>1. stage' = "frame" /\ msg' = [asked |-> msg, frame |-> frame]
            BY <2>2, <3>2, <3>5 DEF Goto
      <4>2. msg'.asked = msg /\ msg'.frame = frame
            BY <4>1
      <4>3. Framed(msg'.frame, msg'.asked.kind, msg'.asked.alen, msg'.asked.plen)
            BY <3>3, <3>5, <4>2, Zenon DEF Framed
      <4>4. Asked(msg'.asked) /\ msg'.asked.kind # "other"
            BY <2>1, <2>4, <4>2, Zenon
      <4> QED
            BY <4>1, <4>3, <4>4 DEF CodecInv, ReplyReachesApp
    <3> QED
          BY <3>4, <3>5, Zenon
  <2> QED
        BY <2>3, <2>4, Zenon
<1>2. CASE ServerSends
  <2> DEFINE q == msg.asked
             p == UdpFrame_parse(msg.frame)
  <2>1. /\ stage = "frame" /\ Asked(q) /\ q.kind # "other"
        /\ Framed(msg.frame, q.kind, q.alen, q.plen)
        BY <1>2, Zenon DEF ServerSends, CodecInv
  <2>2. /\ q.kind \in Kind /\ q.kind \in {"v4", "v6", "domain"} /\ q.plen \in Nat
        /\ RightLength(q.kind, q.alen)
    <3>1. q.kind \in Kind /\ q.plen \in Nat /\ RightLength(q.kind, q.alen)
          BY <2>1, Zenon DEF Asked
    <3>2. q.kind \in {"v4", "domain", "v6", "other"}
          BY <3>1, CodecAssumption, Zenon
    <3> QED
          BY <2>1, <3>1, <3>2, Zenon
  <2>3. /\ q.kind # "domain" => p = Parsed(q.kind, <<0, q.alen>>, <<0, q.plen>>)
        /\ q.kind = "domain" /\ q.plen = 0 => p = Throws
        /\ q.kind = "domain" /\ q.plen > 0 => p = Parsed(q.kind, <<0, q.alen>>, <<1, q.plen - 1>>)
    <3> DEFINE kind == q.kind  alen == q.alen  plen == q.plen  f == msg.frame
    <3>1. /\ kind \in {"v4", "v6", "domain"} /\ RightLength(kind, alen) /\ plen \in Nat
          /\ Framed(f, kind, alen, plen)
          BY <2>1, <2>2, Zenon
    <3> HIDE DEF kind, alen, plen, f
    <3>2. /\ kind # "domain" => UdpFrame_parse(f) = Parsed(kind, <<0, alen>>, <<0, plen>>)
          /\ kind = "domain" /\ plen = 0 => UdpFrame_parse(f) = Throws
          /\ kind = "domain" /\ plen > 0 =>
               UdpFrame_parse(f) = Parsed(kind, <<0, alen>>, <<1, plen - 1>>)
          BY <3>1, FrameParsed
    <3> QED
          BY <3>2, Zenon DEF kind, alen, plen, f
  <2>4. (CASE p.ok = "fails"  -> Dropped(msg.frame)
           [] p.ok = "throws" -> Goto("crashed", [asked |-> q])
           [] p.ok = "yes" /\ p.kind = "v6" -> Dropped(msg.frame)
           [] OTHER -> Goto("target", [asked |-> q, addr |-> p.addr, data |-> p.data]))
        BY <1>2 DEF ServerSends
  <2> HIDE DEF p, q
  <2>5. CASE q.kind = "domain" /\ q.plen = 0
    <3>1. p.ok = "throws"
          BY <2>3, <2>5 DEF Throws
    <3>2. stage' = "crashed" /\ msg' = [asked |-> q]
          BY <2>4, <3>1 DEF Goto
    <3> QED
          BY <2>2, <2>5, <3>2 DEF CodecInv, ReplyReachesApp
  <2>6. CASE q.kind = "v6"
    <3>1. p.ok = "yes" /\ p.kind = "v6"
          BY <2>3, <2>6 DEF Parsed
    <3>2. stage' = "dropped" /\ msg' = msg.frame
          BY <2>4, <3>1 DEF Goto, Dropped
    <3>3. msg.frame.kind = "v6"
          BY <2>1, <2>6 DEF Framed, UdpFrame_generate
    <3> QED
          BY <3>2, <3>3 DEF CodecInv, ReplyReachesApp, Carried
  <2>7. CASE q.kind # "v6" /\ ~(q.kind = "domain" /\ q.plen = 0)
    <3>1. /\ p.ok = "yes" /\ p.kind # "v6" /\ p.addr = <<0, q.alen>>
          /\ IF q.kind = "domain" THEN q.plen > 0 /\ p.data = <<1, q.plen - 1>>
                                  ELSE p.data = <<0, q.plen>>
          BY <2>2, <2>3, <2>7 DEF Parsed
    <3>2. stage' = "target" /\ msg' = [asked |-> q, addr |-> p.addr, data |-> p.data]
          BY <2>4, <3>1 DEF Goto
    <3>3. msg'.asked = q /\ msg'.addr = p.addr /\ msg'.data = p.data
          BY <3>2
    <3>4. Carried(UdpFrame_generate(q.kind, q.alen, q.plen))
      <4>1. msg.frame = UdpFrame_generate(q.kind, q.alen, q.plen) /\ Fits(msg.frame)
            BY <2>1, Zenon DEF Framed
      <4>2. msg.frame.kind \in {"v4", "domain"}
            BY <2>2, <2>7, <4>1 DEF UdpFrame_generate
      <4> QED
            BY <4>1, <4>2, Zenon DEF Carried
    <3> QED
          BY <2>2, <3>1, <3>2, <3>3, <3>4 DEF CodecInv, ReplyReachesApp
  <2> QED
        BY <2>5, <2>6, <2>7, Zenon
<1>3. CASE TargetReplies
  <2>1. PICK plen \in PayloadLen :
            LET frame == UdpFrame_generate("v4", 4, plen)
            IN  IF Fits(frame) THEN Goto("reply", frame) ELSE Dropped(frame)
        BY <1>3, Zenon DEF TargetReplies
  <2> DEFINE frame == UdpFrame_generate("v4", 4, plen)
  <2>2. IF Fits(frame) THEN stage' = "reply" /\ msg' = frame ELSE stage' = "dropped" /\ msg' = frame
        BY <2>1, Zenon DEF Goto, Dropped
  <2>3. Fits(frame) => Framed(frame, "v4", 4, plen)
        BY Zenon DEF Framed
  <2> HIDE DEF frame
  <2> QED
        BY <2>2, <2>3 DEF CodecInv, ReplyReachesApp, Carried
<1>4. CASE RelayReplies
  <2> DEFINE p == UdpFrame_parse(msg)
  <2>1. PICK plen \in PayloadLen : Framed(msg, "v4", 4, plen)
        BY <1>4, Zenon DEF RelayReplies, CodecInv
  <2>2. RightLength("v4", 4) /\ plen \in Nat
        BY CodecAssumption DEF RightLength
  <2>3. p = Parsed("v4", <<0, 4>>, <<0, plen>>)
        BY <2>1, <2>2, FrameParsed
  <2>4. msg.alen = 4 /\ msg.plen = plen
        BY <2>1 DEF Framed, UdpFrame_generate
  <2>5. p.ok = "yes" /\ p.kind = "v4" /\ p.addr = <<0, 4>> /\ p.data = <<0, plen>>
        BY <2>3 DEF Parsed
  <2>6. stage' = "answered" /\ msg' = [sent |-> msg, got |-> UdpRequest_serialize(p)]
        BY <1>4, <2>5 DEF RelayReplies, Goto
  <2> HIDE DEF p
  <2>7. UdpRequest_serialize(p).data = p.data /\ UdpRequest_serialize(p).addr = p.addr
        BY <2>5 DEF UdpRequest_serialize
  <2>8. msg'.sent = msg /\ msg'.got = UdpRequest_serialize(p)
        BY <2>6
  <2>9. ReplyReachesApp'
        BY <2>4, <2>5, <2>7, <2>8 DEF ReplyReachesApp
  <2>10. Carried(msg'.sent)
    <3>1. msg.kind = "v4" /\ Fits(msg)
          BY <2>1 DEF Framed, UdpFrame_generate
    <3> QED
          BY <2>8, <3>1, Zenon DEF Carried
  <2> QED
        BY <2>6, <2>9, <2>10 DEF CodecInv
<1>5. CASE Over \/ UNCHANGED codec_vars
  <2>1. stage' = stage /\ msg' = msg
        BY <1>5, Zenon DEF Over, codec_vars
  <2> QED
        BY <2>1, Zenon DEF CodecInv, ReplyReachesApp
<1> QED
      BY <1>1, <1>2, <1>3, <1>4, <1>5, Zenon DEF DatagramNext

\* For every payload length: what is where, stage by stage.
THEOREM SpecCodecInv == DatagramSpec => []CodecInv
<1>1. CodecInv /\ [DatagramNext]_codec_vars => CodecInv'
      BY NextCodecInv
<1> QED
      BY <1>1, InitCodecInv, PTL DEF DatagramSpec

\* A target named by an address gets exactly the payload that the application's
\* request held, through UdpRequest::parse, UdpFrame::generate and UdpFrame::parse.
THEOREM SpecPayloadReachesTarget ==
    ASSUME "domain" \notin Kind
    PROVE  DatagramSpec => []PayloadReachesTarget
<1>1. CodecInv => PayloadReachesTarget
      BY DEF CodecInv, PayloadReachesTarget
<1> QED
      BY <1>1, SpecCodecInv, PTL

\* The application gets exactly the target's payload and address, through
\* UdpFrame::generate, UdpFrame::parse and UdpRequest::serialize.
THEOREM SpecReplyReachesApp == DatagramSpec => []ReplyReachesApp
<1>1. CodecInv => ReplyReachesApp
      BY Zenon DEF CodecInv
<1> QED
      BY <1>1, SpecCodecInv, PTL

\* No parser refuses what was written for it: a datagram is dropped exactly when
\* its address type is unknown or IPv6, or one DTLS record cannot hold it.
THEOREM SpecOnlyUncarriedDropped ==
    ASSUME "domain" \notin Kind
    PROVE  DatagramSpec => []OnlyUncarriedDropped
<1>1. CodecInv => OnlyUncarriedDropped
      BY DEF CodecInv, OnlyUncarriedDropped
<1> QED
      BY <1>1, SpecCodecInv, PTL

\* UdpFrame::parse of a domain, for every length: the target gets the payload
\* without its first byte, and an empty payload, and nothing else, ends in the
\* std::string that is too long.
DomainReadLate ==
    /\ stage = "target" /\ msg.asked.kind = "domain" =>
          msg.asked.plen > 0 /\ msg.data = <<1, msg.asked.plen - 1>>
    /\ stage = "crashed" => msg.asked.kind = "domain" /\ msg.asked.plen = 0

\* Without a condition on the kinds: how far off the payload of a domain is.
THEOREM SpecDomainReadLate == DatagramSpec => []DomainReadLate
<1>1. CodecInv => DomainReadLate
      BY Zenon DEF CodecInv, DomainReadLate
<1> QED
      BY <1>1, SpecCodecInv, PTL

=============================================================================
