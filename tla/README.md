# Overplus in TLA+

Overplus is a proxy. The *client* accepts SOCKS5 and HTTP CONNECT from local
applications and opens one TLS or WebSocket connection to the *server* for each;
the server connects to the target and relays. The server also speaks Trojan,
with UDP inside the stream. SOCKS5 UDP goes over one DTLS channel that all
associations of the client share.

## Parts of the system and the modules that model them

| part | source | module |
|---|---|---|
| ring buffer of the relay | `Server/Session.h` | `SessionBuffer` |
| server session: set-up, TCP relay | `Server/Session.cpp`, `TlsSession`, `WebsocketSession` | `ServerSession` (extends `SessionBuffer`), abstract `BytePipe` |
| Trojan UDP in a server session | `Server/Session.cpp`, `UDPPacket.cpp` | `TrojanUdp` |
| DNS cache and its purge | `Shared/DnsCache.cpp`, `Server/Service.cpp` | `DnsCache` |
| DTLS channel, listener, server session | `DtlsChannel`, `DtlsListener`, `DtlsServerSession` | `DtlsLink` |
| UDP associations of the client | `Client/Server.cpp`, `UdpRelay.cpp` | `UdpRelays` |
| UDP datagram encodings | `UdpFrame.cpp`, `UdpRequest.cpp` | `UdpCodec` |
| client session | `Client/Session.cpp` | `ClientSession`, abstract `BytePipe` |
| connection requests: SOCKS5, HTTP, V, Trojan | `Protocol/`, `Client/Session.cpp`, `Server/Session.cpp` | `Requests` (extends `UdpCodec`) |
| start, accept loops, io_context pool, exit | `Server/Service.cpp`, `IoContextPool.cpp`, `Client/Server.cpp`, `Client/main.cpp` | `AcceptLoops` |
| log and its files | `Shared/LogFile.cpp`, `Log.cpp`, `Server/main.cpp` | `LogFile` |

`PROJECT.json` maps every definition to its source lines and lists the hazards
and the parts not modelled.

## How the code becomes state and actions

A session runs on one thread, so a handler is one atomic action. An operation
completes in an environment step and its handler runs in a later one: a success
already queued when another handler calls `destroy()` is still delivered, while
closing a socket turns what is pending into a failure. During TCP set-up one
operation is outstanding and nothing else can run, so there completion and
handler are one step.

- **ServerSession**: `state`, `step` (the set-up operation awaited) and one `pipe`
  record per direction: ring, `sending_`, `pausing_`, the outstanding read and
  send, and two history fields (`got`, `out`). Bytes are named by their place in
  the stream. `size_t` wraps modulo `SizeT`.
- **TrojanUdp**: the stream is given by the positions where its packets end
  (`End`; a constant, because a sum of lengths would be a recursive definition,
  which the prover cannot reason about); `buf` is `upstream_udp_buff` with its
  offset. A send whose local buffer is gone sends the packet or garbage.
- **DnsCache**: a key is a `host:port` as the sessions make it, and there is one
  cache for each transport, TCP and UDP; addresses change over time. `MaxDelay` is
  how long a ready handler may wait for its thread.
- **DtlsLink**: the OpenSSL engine is external: four flights, and records under
  the key of a handshake. BIOs are explicit, because the code sends only what it
  drains. `lossy` is chosen at the start: in-order delivery, or loss and
  reordering. `relays_` is an unordered map, so the queued frames are flushed in
  any order. `SSL_write` fails on a frame (`Oversize`) or a reply (`BigReply`) that
  one record does not hold: nothing is sent, an error is logged, and neither the
  relay nor the application is told. The password always fits. `SSL_accept` drops a
  datagram of another handshake, or fails on it and the session is destroyed.
- **UdpRelays**: a frame is a session id and a target. A relay that outlives its
  channel holds a dangling pointer; the model lets it queue, drop, or reach a
  newer channel at the same address. `UdpRelay::start` returns true on every
  path, so the error path after it is not modelled.
- **UdpCodec**: a byte string is its layout; a parser's result is a window
  counted from where the field really starts.
- **ClientSession**: like `ServerSession`, without a ring: a buffer is read into
  again only by the handler of the write that sent it. Three handlers may throw:
  `std::stoi` on an HTTP port, the synchronous writes and the relay's constructor
  on a SOCKS5 request, and `remote_endpoint()` and `to_v4()` for the SOCKS5 reply.
  Nothing catches it around `io_context::run`, so the client ends there
  (`terminated`). Socket options are taken to succeed.
- **Requests**: short byte strings, because what matters is where in the buffer a
  parser looks; the text of an octet or of an IPv6 group is one symbol. Each read
  returns any prefix of what was sent. A behaviour goes from the application's SOCKS5
  exchange or HTTP head through the client's V request to the server's parser, or
  starts there with a Trojan request. The client's `in_buf` keeps what earlier reads
  left in it.
- **AcceptLoops**: `loop` says which program it is. `queue` is what context 0 has
  still to run: completed accepts, posted functions and the signal. A session is
  its context, whether its socket was accepted into, and how often it was
  started. Socket options are taken to succeed; `bind` may throw in the client,
  which ends it.
- **LogFile**: a line is its number, a file the lines of one local day. `disk` is
  what is safe, `file.buffer` what stdio holds. Rolling compares days of UTC while
  names are local days, `Shift` apart, as in the code. When `main` leaves its `try`
  block, by the end or by an exception, the `LogFile` is destroyed before the line
  of the catch block and the last line are written.

## Runs

| run | checks | bounds |
|---|---|---|
| `relay` | stream integrity, no overlapping operation, no lost wake-up, EOF after drain, nothing sent after destroy, release, refinement of `BytePipe` | ring of 2, reads up to 2, 4 bytes each way |
| `dns` | staleness of endpoints, purge, no resolution of what the same transport put in the cache within its lifetime | 1 key, 2 addresses, 3 sessions, 5 seconds |
| `trojan_udp` | framing, order, which packets close a session, destroy | 6 packets, buffer 4 |
| `dtls` | wrong password, readiness, queued frames flushed behind the password, frames answered on an in-order network | 3 frames, of which one is too long for a record and one has a reply that is; 2 datagrams each way, 2 sessions |
| `relays` | registry, replies reach only who asked, nothing stuck pending | 2 associations, 2 targets, 2 channels |
| `codec` | payload and address of datagrams both ways; requests are never misread and refused only for a reason | datagram lengths at 0-20, 254-256, 1400, and at the record and datagram limits; hosts of 1, 3 and 255 bytes, IPv4, IPv6, every cut into reads, 0 or 3 bytes behind the request |
| `client` | one reply, one count, one operation per socket, release, refinement of `BytePipe` | reads up to 2, 4 bytes each way |
| `loops` | one accept outstanding into the session to be started, connections served, shutdown completes | 3 contexts, 2 connections, 1 failed accept, 3 clicks on connect |
| `log` | no line lost or doubled, error lines survive a crash, the day change is noticed after midnight of UTC, the purge spares young files | 2 writers, 4 lines, days of 2 ticks, 6 ticks, files kept 2 days |

The bounds let each interesting case happen: the ring fills, wraps and is sent in
parts; packets straddle reads and the buffer is erased; entries expire while a
lookup is under way; a handshake flight is lost and sent again; a signal comes
while threads are being started, and connect, disconnect and connect are queued
behind one another; the log rolls for size and for the day, and is purged by a
restart. The ring is as
large as one read, as it is in the code.

The `relay` and `client` runs use the WebSocket transport, which may read an empty
frame and has one more set-up step. On the server its writes to the client are
whole while those to the target are partial; with TLS both would be partial. The
client writes whole buffers both ways on either transport. The proofs about both
sessions cover both transports; TLS has no run of its own.

Three runs show the code differing from what the documents say; `PROJECT.json`
quotes the lines:

- `trojan_udp_whole`: a second packet in one read waits for the next read.
- `dtls_retry`: the password datagram is sent once. If it is lost, or a frame
  overtakes it, the server reads the frame as a password line (its magic holds a
  newline) and drops the session; retries never get through.
- `codec_domain`: for a domain target the payload loses its first byte; with an
  empty payload, the counterexample TLC reports, the parser throws.

Limits of what the passing runs say:

- `relays` has fewer associations than session ids. Once the 16-bit id wraps, id
  0 is never unregistered and ids repeat, and `RegistrySound` fails: TLC shows it
  with as many associations as ids.
- `OneAccept` leaves out one order of events, which the model has and the history
  variable `overtaken` marks: stop_accept and start_accept run before the handler
  of an accept that had completed. That handler then starts the new session, which
  has no connection, and calls the loop a second time. The server's loops cannot
  be overtaken (`SpecServerListens`).
- `NeverMisread` leaves out the host and port of a CONNECT with an IPv6 literal,
  which is split at its first colon (a wrong host and port, or an exception that
  ends the client). For an HTTP head that the client had read in part it says what
  the target gets: exactly the unread end of the fields, before the application's
  bytes. A SOCKS5
  greeting that is cut may be answered with a method that was not offered, but
  the exchange is refused later. A SOCKS5 BIND is handled as a CONNECT and is not
  among the requests.
- `LinesKept` counts the lines written after the `LogFile` is destroyed as lost, the
  error line of `main`'s catch block among them: `ErrorsSurvive` is about the lines
  logged before.
- `append_unlocked` compares days of UTC and names files by local days. Between
  local midnight and the next midnight of UTC any number of lines goes on into the
  old day's file; `DayChangeNoticed` limits only the lines after that, to
  `checkEveryN_`. Such a line is purged with its file: up to a day too soon if it was
  written before that midnight (`PurgeSpares`), and of the few behind it nothing is
  said. One of those may come much later, when the log was silent for days.
- `README.md:27` says "Repeated connections to the same domain skip DNS resolution
  entirely". The caches are keyed by host and port and are separate for TCP and UDP,
  so the same domain on another port, or over the other transport, is resolved
  again. `RepeatsSkipResolution` is about one key of one cache.
- `PacketsInOrder` says which packet's turn a send is, not what it carries: a send
  whose buffer is gone may carry anything.
- `RepliesWereAsked` tells associations that asked a target from those that did not.
  Of two that asked the same one, the last to ask gets the replies of both.
- A late `stop_dtls` may take down the channel of a quick reconnect. `UdpRelays` has
  that step; its properties hold in spite of it and do not exclude it.
- Reply packets of `TrojanUdp` carry the default endpoint and not their sender's
  (`Server/Session.cpp:245`); the model leaves that address out.
- `TypeOK` states what a module's variables hold. It is not among the runs'
  properties; where a module has proofs it is a part of the inductive invariant.
- `EofAfterDrain` is about a direction's own bytes. The end of one direction
  still discards what the other holds.
- A datagram for an IPv6 target is lost: `docs/UDP_PROXY_DESIGN.md` has an encoding
  for it, and the server's target socket is IPv4. So is one that a DTLS record does
  not hold. `OnlyUncarriedDropped` says that these, and unknown address types, are
  all that is lost in the `codec` run.
- `ClientSession` lets a destroyed session read bytes that TLS already holds any
  number of times up to the stream bound, more often than the library would.
- `FramesAnswered` excludes a channel that was stopped, gave up its handshake or
  ended its receive loop on an error, and is about the frames `SSL_write` takes and
  whose replies it takes (`Sendable`). The others are never answered.
- `Server::start_dtls` assigns `dtls_` on the GUI thread while the io thread may
  read it. `UdpRelays` has every order of the calls, not a torn read.

### Fairness

Queued handlers run (a thread sits in `io_context::run`); a destination takes
bytes or its connection fails; the lookups and connects of a server session
answer or fail. In `DtlsLink` posted work
and timers run, the application repeats an unanswered `Sendable` frame, targets
answer, and
a datagram kind that can be delivered again and again is (strong fairness).
In `AcceptLoops` threads are started, run their handlers and return
when stopped, and an accept that has a connection to take completes; nothing is
assumed of peers, users and signals. Nothing is assumed of sources: a peer may
stay silent for ever.

`dtls` and `relays` do not check for deadlock: a stopped channel, or a client
whose associations are all closed, may have nothing left to do. `loops` does not
either: its programs end.

## Proofs

Every theorem holds for all values of the constants that satisfy the module's
ASSUME and the theorem's own hypotheses. The bounds (`MaxStream`, `MaxTime`,
`MaxLines` and the like) are such constants, so no bound limits what is proved.
Each `M_proofs` shows an inductive invariant (`IInv`; `Inv` for the server
session) of `M` and derives `M`'s properties from it. `UdpPath_proofs` does this for
the two modules on the way of a SOCKS5 datagram: `DtlsLink` (`LinkInv`) and
`UdpCodec` (`CodecInv`). Before the proof, TLC checked each invariant on the
instance of the module's run; `CodecInv` with domain targets as well.

| module | theorems | hypotheses beyond the module's ASSUME |
|---|---|---|
| `ServerSession_proofs` | `PutBytesAppends`, `ConsumeDrops` (of `SessionBuffer`), `SpecInv`, `SpecTypeOK`, `SpecStreamIntegrity`, `SpecOneOpPerSocket`, `SpecNoLostWakeup`, `SpecEofAfterDrain`, `SpecNothingAfterDestroy`, `SpecImplementsPipe` | a ring as large as one read, for `SpecEofAfterDrain` |
| `ClientSession_proofs` | `SpecIInv`, `SpecOneOpPerSocket`, `SpecCountedOnce`, `SpecOneReply`, `SpecImplementsPipe` | |
| `TrojanUdp_proofs` | `SpecIInv`, `SpecPacketsInOrder`, `SpecInSync`, `SpecOnlyLongPacketsClose`, `SpecNothingAfterDestroy` | |
| `DnsCache_proofs` | `SpecIInv`, `SpecFresh`, `SpecExpiredIsPurged`, `SpecRepeatsSkipResolution` | `Ttl > 0`, for `SpecExpiredIsPurged` |
| `UdpRelays_proofs` | `SpecIInv`, `SpecRegistrySound`, `SpecRepliesWereAsked`, `SpecNothingStuckPending` | fewer associations than session ids |
| `AcceptLoops_proofs` | `SpecIInv`, `SpecOneAccept`, `SpecServerListens` | |
| `LogFile_proofs` | `SpecIInv`, `SpecLinesKept`, `SpecErrorsSurvive`, `SpecDayChangeNoticed`, `SpecPurgeSpares` | |
| `UdpPath_proofs` | `SpecLinkInv`, `SpecWrongPasswordRefused`, `SpecReadyMeansConnected`, `SpecFlushedBehindPassword`, `SpecCodecInv`, `SpecPayloadReachesTarget`, `SpecReplyReachesApp`, `SpecOnlyUncarriedDropped`, `SpecDomainReadLate` | no domain targets, for `SpecPayloadReachesTarget` and `SpecOnlyUncarriedDropped` |

The arguments:

- **SessionBuffer**: copying appends and consuming drops a prefix, for every
  positive capacity with `2 * Capacity < SizeT`.
- **ServerSession**: `StreamIntegrity` is not inductive: it says nothing of what
  the ring holds. `Inv` adds that the ring holds exactly the bytes after the
  consumed ones (`RingHolds`), that an outstanding read has room (`ReadSide`), that
  the region being sent is the front of the ring (`SendSide`), and that a destroyed
  session has nothing pending (`Dead`). For the refinement, every step of the
  session is a `Receive`, `Deliver`, `Close` or stutter of each direction's
  `BytePipe`; `Inv` supplies that what a read adds fits the window and that what is
  sent are the next bytes.
- **ClientSession**: a direction that is alive has a read or a write outstanding,
  never both, and a write carries exactly the bytes of the last read (`Carries`).
  The reply count is tied to `step` and `response_sent` (`ReplyAt`), which is what
  makes `OneReply` inductive over three set-up protocols.
- **TrojanUdp**: there is a packet number `k` such that all packets up to `k` were
  handed on and the offset is at `End[k]`, for whatever operation the down chain
  waits for (`Upto`). A session closed for a long packet reads no more, so the
  offset stays at the packet that closed it.
- **DnsCache**: an entry was right at most `MaxDelay` before it was put (`Recent`,
  from `Answers` for the lookups under way), no entry in a cache had expired
  at the last purge (`Survives`), and what was put in the last
  `Ttl` seconds is still there (`Kept`). With `Ttl = 0` an entry put in the second
  of a purge stays a second longer than `ExpiredIsPurged` says.
- **UdpRelays**: the ids handed out are 1 to some `n`, with `n` at most the number
  of associations made (`Ids`), so as long as there are fewer associations than ids
  none is given out twice and none is 0. `relays_` and the open associations are
  then inverse to each other (`Registered`), and an open association whose id is in
  a frame, a reply or the server's table asked that target (`Provenance`).
- **AcceptLoops**: the window enables one button at a time, so the posted
  `start_accept` and `stop_accept` take turns (`TakeTurns`), and the acceptor is
  never opened while it is open. Unless `overtaken`, at most one accept, pending or
  in the queue, was not aborted, and it is the current session's (`Sole`,
  `StartedOnce`).
- **LogFile**: nothing is in a file later than the open one (`Latest`), so a line
  appended to it is behind all others (`InOrder`), and every line is in a file or
  counted as gone, never both (`Accounted`). The lines of a file later than
  the midnight of UTC behind its local day are within `checkEveryN_` numbers of each
  other (`InTime`), because in the open file they are among the last `count_` lines
  (`Open`). This needs that time does not go back, that the open file is of the local
  day of the last roll, and that a roll for size, which leaves `count_` alone, opens
  the file of the current local day, which has no such lines yet.
- **DtlsLink**: `ReadyMeansConnected` says nothing of what is under way. `Truthful`
  adds that a "finished" of the server, wherever it is (its write BIO, the network,
  the client's read BIO), is for a handshake the server has completed; with keys
  never given out twice (`Sessions`), loss, reordering and a session replaced by a
  new one cannot make it false. `FlushedBehindPassword` needs that the queue is
  finite, so that an order of its frames, without the ones `SSL_write` refuses, holds
  each of the others.
- **UdpCodec**: `CodecInv` says stage by stage where each field is. A frame that one
  DTLS record holds has at most 16382 bytes, so the 16-bit `total_len` never wraps
  and the parser finds what the generator wrote. For a domain it finds the payload
  one byte late: `SpecDomainReadLate` says for every length what the finding of
  `codec_domain` shows for one.

Only model-checked:

- Liveness under fairness, which this prover does not handle: `DestroyedIsFreed`,
  `PeersAreServed`, `ShutdownCompletes`, `FramesAnswered`, and the part of
  `RelayImplementsPipe` that says bytes are delivered. The step part of the
  refinement is `SpecImplementsPipe`, in both sessions.
- `NeverMisread` and `OnlyCutRefused` of `Requests`, whose parsers search and fold
  byte strings: what a fold computes for every input needs induction over data,
  which is out of the prover's reach.

## Not modelled

- Application endpoints behind one association (`target_to_sender_`):
  `docs/UDP_PROXY_FLOW.md:157` concedes that replies race there.
- Several DTLS clients on one listener, and `DtlsListener::stop`: sessions there
  share only the map, and `stop` is called by the destructor alone, with the
  threads joined.
- The byte counters and smoothed rates of `ProxyStats`: atomics exchanged once a
  second for a display.
- Object lifetime inside one handler, and torn reads between the GUI and the io
  thread: actions are whole handlers.
- Configuration files, hashing, character sets, widgets, ping, system proxy
  settings and command lines are I/O.
- The idle timeout of 30 s that `docs/UDP_PROXY_DESIGN.md:411` describes has no
  timer in the code, so nothing is stated about it.
