# A specification of webrtc_dart in TLA+

webrtc_dart is a WebRTC stack in pure Dart, ported from werift: ICE, DTLS, SRTP,
SCTP, data channels, RTP reception and the peer connection that puts them
together, with programs that run it against werift in Node and in browsers
(`interop/`).  This directory holds TLA+ modules for its protocol cores, the TLC
configurations that model-check them, and theorems with proofs that TLAPS
checks.  Paths below are relative to the repository, those of the library to
`lib/src/`; a file name that is clear is not repeated with its directory.

Contents

1. How Dart code becomes actions
2. Inventory of the system
3. Modules, and how their state corresponds to the code
4. Runs: what each checks and what it shows
5. Bounds and fairness
6. What the code does not keep
7. Theorems and their proofs
8. What is only model-checked, and what is not modelled
9. Plan

To repeat a run: `tlc -config X.cfg M`, with the pairs of section 4; to check the
proofs: `tlapm M.tla` for `SctpProofs`, `DataChannelsProofs`, `TransportProofs`,
`IceConnectionProofs`, `RtpRecoveryProofs`, `SrtpSessionProofs`, `RingServerProofs` and
`FileSignalsProofs`.

## 1. How Dart code becomes actions

Dart runs one event at a time.  A handler keeps the program to itself until it
reaches an `await` of something that is not complete; then other packets, timers
and calls are handled, and the rest of the handler runs later with whatever they
have left.  This is where the hard behaviours of the code are, and every module
is cut the same way:

- **The part of a handler up to its first suspending await is one action**, with
  all the calls it makes.
- **An await of a send suspends** (`await _sendChunk(c)`): it goes through
  `onSendPacket`, the DTLS cipher and the socket, and a relayed pair may wait for
  a TURN ChannelBind.  A suspended handler is a counter (`SctpLifecycle.pending`)
  or a task (`SctpTransfer.tasks`, `DataChannels.tasks`).  The action that
  completes the send also runs the rest of the handler, up to its next await.
- **A send that is not awaited** (`unawaited(_transmit())`, a timer's
  retransmission) leaves the handler whole; what it starts is a task of its own.
- **An await that waits for no send is not a suspension point.**
  `sendData` is `async`, but it awaits nothing: what it starts is a task, and its
  callers (DCEP, user messages) run in one step.
- **A send may throw** (`IceConnection.send` without a nominated pair).  The rest
  of the handler does not run.  `MaxFailures` says how often (`MaxFaults`, together with
  aborts and duplicates, in `SctpLifecycle`; `failures` of the scenario in
  `DataChannels`).

The network below SCTP is DTLS over UDP.  Its record layer calls no replay window
(`AntiReplayWindow` is not used by `record_layer.dart`), so packets are lost,
reordered and duplicated when they reach `handlePacket`.

State changes of ICE, DTLS and the transport travel on broadcast streams.  These
deliver in microtasks, so no packet and no timer comes between a change and its
listeners: both are one step (`Transport.SetIce`).  Application code that another
microtask runs does come between them.  Where that matters, because the application
calls what the listener works on, change and listener are two steps: the opening of a
channel and the proxy's listener that sends what is queued (`Transport.ChannelOpens` and
`Transport.Flush`).

The programs of `interop/` are cut the same way, since Node and the page are single
threaded too: one step runs to the next await, and what is awaited resolves in a
step of its own, or its timer fires first.  Two processes that share files
(`FileSignals`) interleave, and a file that is being written can be read
half written.

Handlers really do overlap: several frames of one TCP read, the packets that
`transport.dart` buffers and replays with an await in the loop
(`_sctpPacketBuffer`), and the DTLS transport's receive buffer all hand over a
packet while an earlier handler is still suspended.

## 2. Inventory of the system

| Component | State it keeps | Operations | Talks to |
|---|---|---|---|
| SCTP association, handshake and shutdown (`sctp/association.dart`) | `_state`, verification tags, T1 and T2 with their counters, `_stateController` | `connect`, `close`, `abort`, handlers of INIT, INIT-ACK, COOKIE-ECHO, COOKIE-ACK, SHUTDOWN, SHUTDOWN-ACK, SHUTDOWN-COMPLETE, ABORT; `_t1Expired`, `_t2Expired`, `_dispose` | transport (`onSendPacket`, `handlePacket`) |
| SCTP association, data transfer (`association.dart`, `inbound_stream.dart`) | outbound and sent queues, flight size, congestion window, fast recovery, T3, cumulative TSN (twice), misordered TSNs, SACK timer, one `InboundStream` per stream, buffered amounts | `sendData`, `_transmit`, `_handleData`, `_handleSack`, `_handleForwardTsn`, `_t3Expired`, `_sendSack` | data channels (`onReceiveData`, `onBufferedAmountChange`) |
| SCTP stream reconfiguration (`association.dart`) | `reconfigQueue`, `_reconfigRequest`, request and response numbers, its timer | `transmitReconfigRequest`, request and response handlers, the timer | data channels (`onReconfigStreams`) |
| Data channels and manager (`datachannel/`) | channel states, `_channels`, `_nextStreamId`; `ProxyRTCDataChannel`: the real channel, `_pendingMessages`, `_isClosed` | `createDataChannel`, DCEP OPEN and ACK, `send*`, `close` of one or of all, delivery of user data | association, application |
| Integrated transport (`transport/transport.dart`) | `_state`, `_dtlsStarted`, association, pending channels, `_sctpPacketBuffer` | ICE and DTLS state handlers, `_startSctp`, replay of buffered packets, `close` | ICE, DTLS, SCTP, peer connection |
| DTLS transport (`dtls_transport.dart`, `secure_transport_manager.dart`) | state, role, socket, SRTP session, receive buffer | `start`, role resolution, `stop` | ICE transport, DTLS |
| ICE connection (`ice/ice_connection.dart`) | role, tie breaker, candidates, `_checkList`, `_nominated`, generation, pending STUN transactions, early checks, consent timer | gather, `connect`, `addRemoteCandidate`, checks, triggered checks, role conflict, nomination, consent, `restart`, `close` | STUN, TURN, sockets, transport |
| STUN transactions (`stun/transaction.dart`) | retry count, completer | `run`, `handleResponse`, `cancel` | ICE, TURN |
| TURN client (`turn/turn_client.dart`) | state, allocation, nonce, permissions, channels, refresh timer | allocate, refresh, permissions, ChannelBind, send, `close` | ICE |
| DTLS handshake (`dtls/client*.dart`, `dtls/server*.dart`, flights) | flight, message sequence, epochs, keys, `_processingLock`, `_futureEpochBuffer` | handshake messages, flights and retransmission, ChangeCipherSpec, application data | DTLS transport |
| DTLS record layer (`dtls/record`) | epochs, sequence numbers, `AntiReplayWindow` | wrap, encrypt, process records | DTLS handshake |
| SRTP (`srtp/`) | session keys of each direction, roll-over counters, SRTCP indexes, `ReplayProtection` windows | key derivation, protect and unprotect of RTP and RTCP under AES-GCM and AES-CM | DTLS transport, RTP |
| RTP reception (`rtp/`) | `NackHandler`: `_expectedSeqNum`, `_lostPackets`, its timer; `RetransmissionBuffer`; jitter buffer; statistics | receive, NACK timer, answer to a NACK, RTX, reports | media, SRTP |
| Media (`media/`) | transceivers and directions, senders, receivers, tracks, router tables | add, stop, replace, route by SSRC, RID or payload type | peer connection, RTP |
| Peer connection (`rtc_peer_connection.dart`) | signalling state, descriptions, transceivers, ICE-restart and negotiation-needed flags | offer, answer, set descriptions, add candidate, tracks, `close` | all of the above |
| Ring camera server and its page (`interop/werift_ring_server.ts`) | `main()`'s progress, one peer connection and one socket per browser, the page's frame count and `window.testResult` | connection, message and close of a socket, camera packets; the page's `runTest()` with its timers | camera, browsers |
| Signalling through files (`interop/dart_offerer.dart`, `js_answerer.mjs`, `ts_answerer.ts`) | four files in a directory, both processes' progress, each poll's `lastSize` | write offer, answer and candidates; poll for them; connect; report | peer connections of both libraries |
| SRTP comparison scripts (`interop/srtp_cipher_vectors.mjs`, `srtp_gcm_compare.mjs`, `srtp_gcm_werift_style.mjs`) | none | repeat the derivations of `srtp/` and try to open a captured packet | unit tests |
| RTCP, SDP, STUN and SCTP codecs, `stats/`, `codec/`, `container/`, `audio/`, `nonstandard/`, `crypto/`, `common/` | none, or a view of another component | formatting, depacketising, file output, cryptography | |

What makes them hard, and what makes them correct:

- **Handshake and shutdown.**  Packets that are late, repeated or reordered while
  tags are being learned; awaits between a change of state and the timer that
  guards it; sends that throw; disposal with handlers still suspended.  Correct:
  a tag is read only when known; an established end is never alone; every wait is
  timed and ends; what is disposed of stays closed.
- **Data transfer.**  Everything a network does to chunks and SACKs; T3 against a
  late SACK; several suspended runs of `_transmit`; partial reliability, where two
  ends must agree on what to skip.  Correct: each stream gets its messages whole,
  once and in order; data is kept until the peer has it; the sender never waits
  without a timer; `bufferedAmount` and the window are exact.
- **Channels and reconfiguration.**  DCEP, user data and stream resets travel
  separately and overtake each other, from both ends; `close()` of a channel
  against the peer's; the manager's loop with an await in it.  Correct: a channel
  is open only if the peer opened it, closed only if the peer is told, closing
  only for a while, and no message is lost on a reliable one.
- **Transport.**  The order of ICE, DTLS and SCTP events, replayed packets against
  new ones, consent checks that outlive a restart, the nested closes.  Correct: each
  packet reaches SCTP once; what a channel was given before SCTP is sent once and, but for one gap (section 6),
  in order; a silent peer is noticed; closed is the end.
- **ICE.**  Loops over lists that trickled candidates change, checks that end after
  a restart or a close, two ends that nominate.  Correct: both ends agree on roles
  and on the pair; a result of an old generation changes nothing; consent ends.
- **SRTP.**  Windows and counters over sequence numbers that wrap, four sets of keys
  that two ends derive separately.  Correct: each fresh packet is accepted once, both
  ends count rollovers alike, what one seals the other opens.
- **RTP reception.**  Wrapping sequence numbers, a timer against arrivals, pruning and
  sends in progress.  Correct: what is missing and only that is asked for, until it
  arrives or is given up.
- **DTLS, STUN, TURN.**  Retries against late answers, records of a future epoch.
  Correct: no key is used before both ends have it, lifetimes are refreshed.
- **Camera server and page.**  Listeners registered after awaits, a browser that is
  closed at any moment, a chain of awaits each with its own timer.  Correct: success
  means video; no answer is missed; a page that has gone is let go.
- **Signalling through files.**  Files of an earlier run, files read half written,
  polls whose ticks overlap.  Correct: both ends describe the same call, every
  candidate is added, the test ends.
- **Peer connection.**  Awaits inside the calls that set descriptions, with other
  calls in between.  Correct: legal signalling transitions only; no transition
  after close.

The repository's tests exercise packets, chunks and streams one at a time and
connections over a loopback that neither loses nor reorders.  `PROJECT.json`
lists the hazards at their lines.

## 3. Modules, and how their state corresponds to the code

```
SctpLifecycle  <- SctpProofs                        handshake, shutdown, abort;
SctpTransfer   <- SctpProofs                        data, and the network under it

SctpSerial <- SctpReassembly <- SctpMessages <- SctpReceiver <- SctpArrival <-+
                                      ^                                        +- SctpTransfer
                                      +-- SctpSender <-------------------------+
SctpArrival, SctpTransfer                           each implements MessageDelivery

DataChannels <- DataChannelsProofs                  DCEP, channels, resets (over what
                                                    MessageDelivery promises)
IceConnection <- IceConnectionProofs                two ICE agents: pairs, checks, roles,
                                                    restarts
Transport <- TransportProofs                        ICE, DTLS and SCTP events, consent,
                                                    channels made before SCTP is ready

SrtpKeys <- SrtpScripts <-+
ReplayWindow <------------+- SrtpSession            keys, window, counters, scripts
                               ^- SrtpSessionProofs
RtpRecovery <- RtpRecoveryProofs                    NACK and retransmission

RingServer  <- RingServerProofs                     camera server and its page
FileSignals <- FileSignalsProofs                    signalling through files

MCSctpArrival, MCSctpTransfer, MCDataChannels,
MCIceConnection                                     layouts, scenarios, networks for TLC
```

`A <- B` means that B extends A.

**SctpLifecycle** has both ends of an association.  `state`, `known`, `t1`,
`t1Failures`, `t2`, `t2Failures` and `disposed` are the fields `_state`,
`_remoteVerificationTag` (set or not), `_t1Timer` with the chunk it repeats,
`_t1Failures`, `_t2Timer`, `_t2Failures` and the closed state stream.
`pending[p][k]` counts the handlers of p suspended in a send of chunk k; `net`
counts the packets in flight by receiver and kind; `raised` collects the
exceptions that escape.  One action per chunk handler (`HandleInit` ...), one for
each continuation (`InitSent`, `CookieEchoSent` ...), and `Connect`, `Close`,
`Abort`, `T1Expired`, `T2Expired`, `SendFails`, `Lose`, `Duplicate`.  `Controlling`
are the ends whose transport calls `connect()`.  The content of tags and cookies is
left out: a packet of this association carries the right ones.

**SctpSerial** is the arithmetic of TSNs and stream sequence numbers with the width
as a parameter.  **SctpReassembly** is `InboundStream`: `AddChunk`, `PopMessages`
(one pass as a fold whose state is the loop's variables; `startPos` stays set after
a yield, as in the code) and `PruneChunks`.  **SctpMessages** turns a sequence of
user messages into chunks, as `sendData` does.

**SctpReceiver** has the fields of the receiving half: `last` and `cum` are
`_lastReceivedTsn` and `_remoteCumulativeTsn`, two copies of one number that the
code keeps separately; `mis` is `_sackMisOrdered`; `delivered` records the calls of
`onReceiveData`.  **SctpArrival** runs it under every order of arrival.

**SctpSender** has the fields of the sending half in one record, and the
synchronous parts of the code as functions on it: `Enqueue` (`sendData`),
`Transmit` and `Resume` (`_transmit`, cut at its three awaits), `HandleSack` in the
code's order (cumulative part, gap blocks, strikes, `_updateAdvancedPeerAckPoint`,
congestion window, T3), `ExpireT3`.  A suspended `_transmit` is a task that
remembers the window computed for its burst and, in the retransmission loop, the
position and length of the list it iterates over.  Time is `expired`, the messages
whose expiry has passed.  The RTO is left out: T3 fires when it likes, within
`MaxTimeouts` while something is in flight.

**SctpTransfer** composes the two halves over the network, one direction: `SctpSender` on
one side, the receiver of `SctpArrival` on the other.  `datagrams` are the packets in
flight, `tasks` the suspended runs of `_transmit`.  `TransmitResumes` is what follows an
awaited send; `sendFailures` counts the sends that throw, and `losses`, `copies` and
`timeouts` what else goes wrong.  A SACK is (`cum`, offsets, `end`), `end` being the last
block's end because `_handleSack` stops there.

**MessageDelivery** is the abstract specification: messages are accepted in order
and delivered in legal sequences.  `SctpArrival` implements it with `accepted` all
of them (`Abstract!Spec`, the property `DeliversAsPromised`), and `SctpTransfer` with
`accepted <- sender.accepted` (`Service!Spec`, the property `TransferDelivers`), both with
`delivered` as it is.

**DataChannels** has two managers.  `channel` and `registered` are the state of
each channel and the keys of `_channels`; `queue`, `request`, `nextSeq` and `timer`
are the association's reconfiguration fields; `wire` has DCEP and user messages,
delivered as `MessageDelivery` promises for reliable messages; `chunks` has
RECONFIG chunks, which are not data and are lost, repeated and reordered.  The
three kinds of task are the rest of a handler after its response (`response`), after a
last send (`done`), and the manager's `close()` between two channels (`closeAll`), which
throws when the map has changed meanwhile, as Dart's iterator does.  A send of a RECONFIG
chunk that throws leaves no task: the request it was for stays in `request`, without a
timer (`Transmit`, `TimerExpired`), or the peer's request is not carried out
(`HandleRequest`); `unsent` remembers at which end a request's send has thrown.
`_handleReconfigRequest` also calls `transmitReconfigRequest()`, which finds nothing to
send: a stream waits in the queue only behind a request that is pending (`QueueWaits`).
What may happen in a behaviour (how many channels, messages, losses, throws, closes) is
chosen once, in `scenario`, from the set that the configuration gives.

**IceConnection** has both agents, from the first offer on, with host candidates over
UDP.  `agent[p]` has the fields of the connection: `_state`, `_iceControlling`,
`_generation`, the hosts that have a socket (`bound`), `_remoteCandidates`, `_checkList`,
`_nominated`, `_earlyChecks` and `_earlyChecksDone`; `called` says that the peer
connection has called `connect()`.  `runs` are the calls of `connect()`, each at one of
its awaits: the gathering, the 5 ms between two checks, the 15 seconds for a success.
`tasks` are those of `_checkNewPairs`, and `checks` are `_pendingStunTransactions`, each
with the run that waits for it and its retries; `net` has the STUN messages.  `step` and
`candidates` are what `rtc_peer_connection.dart` does with it: offers, answers, and
candidates that arrive before or after the description they belong to.  `mishaps` is a
history of three ways in which an agent is led astray (section 6), which the properties
then excuse.  The following is assumed or left out:

- `restart()` closes the sockets.  What is on its way to them is dropped, and the
  agent's own checks that wait for an answer end as timeouts that nobody notices.
- An offer comes when the candidates and the gathering of the exchange before are over,
  and no `_checkNewPairs` is at work; `connect()` may still be.
- The tie-breakers differ.  An initial conflict of roles comes of two offers at once,
  one of which is dropped.
- Requests are processed whatever their credentials, since `_handleStunRequest` verifies
  none: so one of an older generation counts as well.
- A check whose answer is under way times out at most `lates` times, and a `connect()`
  gives up only when its own checks have ended: 15 seconds against 1.5.

**Transport** is one end.  `ice`, `nominated`, `failures` and `timer` are `_state`,
`_nominated`, `_consentFailureCount` and `_consentTimer` of the ICE connection.  A
timer that the field no longer refers to still fires: these are `orphans`.  A consent
check in progress is counted in `checks`, or in `staleChecks` once `restart()` has
taken its pair away.  `dtls`, `started` and `handshaking` are the DTLS transport's
state, `_dtlsStarted` and the await of the handshake; `state` is what
`IntegratedTransport` reports; `buffer` is `_sctpPacketBuffer` and `replaying` the
await of `handlePacket` in the loop over it.  `real`, `closed` and `queue` are the
fields of `ProxyRTCDataChannel`; `flushing` says that its channel has opened and its
listener has not run yet.  `handed`, `sent`, `calls`, `early` and `lost` are histories.
Whether this end is the controlling one when the association's `connect()` is due
(`Connect`) is left to chance.  How ICE
finds a pair (`IceConnection`) and whether a handshake succeeds is left to chance, and
a check of the peer may nominate one before this end calls `connect()` (`called`); the
packet that completes the association's handshake is any but the first.

**SrtpKeys** has the derivations of `srtp/` over ideal cryptography: an output is the
tuple of its inputs, a byte string is what it was made from, a buffer the set of its
fields with their offsets.  A wrong label, offset, salt or length therefore gives a
different value, as it does in the code.  **SrtpScripts** has the same derivations as
the three scripts of `interop/` write them, and each of their attempts to open a
packet; the attempt without `final()` decrypts the tag along with the text.  **ReplayWindow** is `ReplayProtection`: `_window`, a 64-bit int, as the set
of its bits.  A packet has the number that its sender counts to, of which the code
sees the residue only.  **SrtpSession** composes the three: media from the server to
the client under one of the profiles, with its roll-over counters (`outbound`,
`inbound`), and RTCP both ways.

**RtpRecovery** has a sender with `RetransmissionBuffer` (`buffer`) and the receiver's
`NackHandler`: `expected`, `lost` and `timer` are `_expectedSeqNum`, `_lostPackets` and
`_nackTimer`.  `sending` has the NACKs whose sending is awaited: the retries are counted
after the await, for whatever is lost by then.

**RingServer** has `main()` as the await it is at, and for every browser the listener
(`handler`), the server's peer connection (`pc`), both directions of the socket and the
page's `runTest()`, again as the await it is at.  **FileSignals** has the two processes
as the awaits they are at, the files (`offer`, `answer`, and of each candidate file
the whole lines and whether a half line follows), and the ticks of the two polls, each
with what it has read and the line it has come to.  The directory begins with any of the
files of an earlier run, the candidate files among them, until the offerer deletes them;
`sizeRun` remembers of which run the file was whose length is in `lastSize`.

## 4. Runs: what each checks and what it shows

| Run | Module, configuration | Properties | States |
|---|---|---|---|
| `sctp_lifecycle` | SctpLifecycle, SctpLifecycle.cfg | `EstablishedIsMutual`, `WaitIsTimed`, `HandshakeResolves`, `ShutdownResolves` | 102,906 |
| `sctp_arrival` | MCSctpArrival, SctpArrival.cfg | `AcknowledgementIsExact`, `BufferIsAccounted`, `NothingHeldBack`, `DeliversAsPromised` | 2,303 |
| `sctp_transfer` | MCSctpTransfer, SctpTransfer.cfg | `KeptUntilReceived`, `UnackedIsTimed`, `QuiescentAgreement`, `EventuallyDelivered` | 65,735 |
| `sctp_transfer_partial` | MCSctpTransfer, SctpTransferPartial.cfg | `BufferedIsExact`, `TransferDelivers` | 771,504 |
| `data_channels` | MCDataChannels, DataChannels.cfg | `OpenIsMutual`, `OrderedWithoutGaps`, `CloseIsAgreed`, `CloseResolves` | 501,355 |
| `data_channels_overtaken` | MCDataChannels, DataChannelsOvertaken.cfg | `ReliableIsDelivered`: violated | |
| `ice_connection` | MCIceConnection, IceConnection.cfg | `RolesAgree`, `NominatedReachesPeer`, `PathIsFound` | 936,691 |
| `transport` | Transport, Transport.cfg | `SentOnce`, `HandedOnce`, `SilenceIsNoticed` | 2,111,973 |
| `srtp_session` | SrtpSession, SrtpSession.cfg | `AcceptsExactlyFresh`, `RolloverAgrees`, `SrtcpOpens`, `ScriptsAgree` | 398,898 |
| `rtp_recovery` | RtpRecovery, RtpRecovery.cfg | `LossIsTimed`, `AskedBeforeGivenUp`, `OnlyMissingIsLost`, `LossResolves` | 329,968 |
| `ring_server` | RingServer, RingServer.cfg | `SuccessIsEarned`, `NothingIsMissed`, `VerdictIsReached`, `GoneIsReleased` | 12,757 |
| `file_signals` | FileSignals, FileSignals.cfg | `ProcessedIsAdded`, `AnswerFits`, `EveryLineIsAdded`, `ExchangeResolves` | 187,075 |

Every module states its type invariant as `TypeOK` (`WindowTypeOK`, `ReceiverTypeOK`,
`TransferTypeOK`).  All are proved but those of `DataChannels` and the data transfer, which
hold in the runs and are left out of the configurations, to be added to one after a change.
`NoNullTag`, `WindowIsExact` and `QueueWaits` are left out too, because they are proved.

- `sctp_lifecycle`: one end connects; both may close; each packet may be lost; and one
  of three things happens besides, at any point: a packet is duplicated, a send throws,
  or an end aborts.  `EstablishedIsMutual` is the agreement of the handshake: whoever
  is established has a peer that knows its tag and initial TSN, and a cookie was
  verified.  `WaitIsTimed` says that the order of "cancel the timer, await the send,
  start the timer" leaves no wait without one, as long as no send throws.  With fair
  timers and sends and no assumption about the network, every handshake ends, and the
  end that starts a shutdown leaves it.
- `sctp_arrival`: every order of arrival of ten chunks of six messages, whole
  and fragmented, ordered and unordered, from initial TSN 0, where `_tsnMinusOne`
  wraps.  The SACK acknowledges exactly what the receiver holds or has delivered;
  the window gives back every byte; no message that could be delivered waits.
- `sctp_transfer`: a reliable channel with a fragmented message; a packet lost, a
  packet twice, a T3 that fires early.  Nothing leaves the sent queue before it has
  arrived, T3 runs while anything is unacknowledged, at rest the two ends agree,
  and under fairness everything is delivered.
- `sctp_transfer_partial`: messages limited by count and by time, ordered and
  unordered, on three channels beside a reliable one; two runs of `_transmit` suspended
  at once, a send that throws, and enough chunks in flight for three strikes, fast
  retransmit and fast recovery.  Abandonment and FORWARD-TSN keep the promises of
  `MessageDelivery`, and the buffered amount is exact.
- `data_channels`: two scenarios.  One channel is opened by the client, used both ways
  and closed by either end (or by both), or by the manager, with two handlers suspended
  at once; or two channels are closed by either end with one RECONFIG chunk lost and
  one timer that fires early, which makes the duplicates.  In both one send of a RECONFIG
  chunk may throw.  `CloseResolves` survives a response that throws, since the request is
  repeated; it leaves out the end whose own request throws (section 6).
- `ice_connection`: two agents on four networks, which begin in the same role or in
  different ones; candidates, descriptions and first checks come in any order.
  `RolesAgree` is about the switches of role, each of which leaves checks of the old role
  under way.  `NominatedReachesPeer` relates an agent's pair to the sockets that the
  other has open, wherever a restart falls.  `PathIsFound` is why early, triggered and
  trickled checks exist: whoever begins, both ends nominate a pair.
- `transport`: the path fails and comes back, ICE restarts while a consent check is
  under way, DTLS connects, fails or is closed by the peer, packets arrive before and
  during the replay, one channel is used from before SCTP is ready, and the channel and
  the transport are closed at any point.  `SentOnce` is about the queue of the proxy: what
  is sent while it opens overtakes the queue, what is closed while it opens loses it, and
  nothing else is lost, repeated or overtaken.  `SilenceIsNoticed` holds although `OneChain`
  does not (section 6): several chains of checks still end in a failure.
- `srtp_session`: a stream over a wrap of its sequence number, reordered, repeated, lost
  and sent again on a NACK, and SRTCP both ways, two packets each, so that its index does
  not wrap here (the theorem `AlwaysOpens` covers that).  `AcceptsExactlyFresh` relates
  the 16-bit arithmetic of the window to packet numbers without a width;
  `RolloverAgrees` does so for the counters; `SrtcpOpens` composes the derivations of
  the two ends; `ScriptsAgree` says that the vector the script prints is the packet the
  library makes, and which attempts at a captured packet succeed, so that their output
  tells what was wrong, and that the attempt without `final()` gives more than the text.
- `rtp_recovery`: a stream that crosses the wrap, every loss and reordering of packets,
  NACKs and retransmissions, two NACKs being sent at a time, one send that throws, and
  a list of lost packets that overflows.
- `ring_server`: two browsers, each closed at any moment.  `NothingIsMissed` is about
  the listeners that the server registers after two awaits: they are there in time for
  the answer, and a close can come before them only while the offer is being made.
- `file_signals`: either answerer, in a clean directory or among any of the files of an
  earlier run, old candidates of any number included, with two ticks of each poll in
  progress.  `ProcessedIsAdded` is why the
  half-read line is not lost: `lastSize` covers whole lines that were added, whichever
  tick ends last.

The violated property is a line of the repository:

- `data_channels_overtaken`, `ReliableIsDelivered`: `dcep.dart:27` says "Reliable
  unordered".  The end that answers an OPEN may send at once; an unordered message
  that is delivered before the ACK reaches a channel in `connecting` and is dropped
  without a word (`rtc_data_channel.dart:295`).

Every property of a passing run has a mutant in `PROJECT.json`: a plausible bug in
one definition, written beside it, with which TLC finds the property violated.

## 5. Bounds and fairness

Bounds are constants whose comment starts with "bound:".  They cap what the
environment does (losses, duplicates, early timers, failed sends, calls) and how
many handlers are suspended at once; they are guards of the actions concerned and
of no others.  A bound that is reached only makes the environment stop doing that:
the handlers, timers and sends that remain are those of the code.  `MaxTasks` and
`MaxPending` delay a step that would suspend another handler until one has gone on.

- `SctpLifecycle`: `MaxFaults = 1`, so each of the faults meets every state of a run
  without others; the invariants are proved for every number of them, and the liveness
  properties pass with two as well.  `MaxInit = MaxAssoc = 1`: one retransmission and then
  giving up; the program's 8 and 10 repeat the first step.  `MaxCopies = 1` and a
  duplicate give two copies of any packet.
- `TsnModulo = 16` or `32` with initial TSN 0: the widths are parameters of the
  arithmetic, every comparison is between numbers less than half a modulus apart
  as in the program, and `_tsnMinusOne` wraps at the start.
- `UserDataMaxLength = 2` or `3`: the program's 1024 in units.  A burst is four of
  them, and `InitialCwnd` of two to four is small enough for the window to close,
  where the program's 64 KiB would need hundreds of chunks.
- Layouts (the MC modules) have two to seven messages.  They differ in what they
  make happen: fragments, other channels in between, small chunks next to full ones,
  limited messages before reliable ones.  The same property can pass on one layout
  and fail on another (section 6); the run's description says which one it has.
- `DataChannels`: `StreamsPerRequest = 1`, so that the second close queues behind the
  first request, as the 33rd does in the program; one send that throws in a behaviour,
  which meets every request, repetition and response of it.
- `IceConnection`: `Retries = 3` as in the program.  The networks are one address each
  with a restart; two addresses for the end that answers; two for the end that offers, of
  which the first one is unreachable; and one address each with a lost message and a late
  answer.  With one pair every order of a restart against checks, runs and candidates
  occurs; two pairs are what trickling, pacing and the choice of a pair need, and one
  unreachable pair is what makes the second one matter.  `NominatedReachesPeer` has also
  been checked with a restart and a loss (1.9 million states), and with a restart and a
  late answer (2.1 million).
- `Transport`: `ConsentMaxFailures = 2` for the program's 6, so that one failure is
  survived and the second is not; one outage and one restart are enough for a check of
  an old pair to end beside the new chain; two packets, one before the association and
  one during the replay or after; two messages on one channel.
- `SrtpSession`: `Half = 4` (8 sequence numbers) with a window of 3, so that eight
  packets from number 5 wrap, jump beyond the window and come late by more than it;
  `IndexModulo = 4` for 2^31, which two reports do not reach.  The proofs (section 7) cover every size of the window, of the
  space and of the index.
- `RtpRecovery`: 16 sequence numbers, a stream of five that starts at 14; a buffer of
  three slots, where the oldest packets have been overwritten when they are asked for;
  a list of two lost packets, which overflows; three retries.
- `RingServer`: `EnoughFrames = 1` for the program's 10 and two packets.  `FileSignals`:
  two candidates of the offerer and one of the answerer, in an earlier run at most as many,
  so that an old file may be shorter than the new one, as long, or longer; two ticks in
  progress at each end, which is where one can overtake the other.

Fairness is that of the event loop and of the operating system: a send completes
or throws, a running timer fires, an arrived packet is handled.  It is weak
fairness of those actions, except where it is said otherwise.

- `SctpLifecycle`: nothing is assumed of the network; losing every packet is fair, and
  the timers' counters end the wait.
- `SctpTransfer` and `DataChannels`: a packet that is not lost arrives, and losses are
  finite, which is what retransmission without a limit needs.  `SctpTransfer` writes the
  enabling conditions out (`CanReceive` and the like) because TLC is slow on ENABLED;
  they are the guards of the actions.
- `IceConnection`: descriptions and candidates reach the other end, messages that are not
  lost arrive, the event loops run and the timers fire.  One condition covers them all:
  after the last offer none of this can be possible for ever without being done.
- `Transport`: the consent timer fires, and a check is answered or times out.  Here and
  in `IceConnection` the enabling conditions are written out too (`CanAdvance`,
  `CanAnswer`, `CanFail`); TLC finds `CanAdvance` equal to ENABLED in every state of the
  run.
- `RtpRecovery`: the periodic timer fires and what is awaited ends; the network may lose
  everything.
- `RingServer`: promises of the server resolve, sockets deliver, each await of the page
  ends by its event or its timer.  Nothing is assumed of the camera, of ICE, or of
  whoever closes the browser.
- `FileSignals`: both processes run and their timers fire.  One timing assumption is in
  the guards: the 100 ms that the offerer and the JavaScript answerer wait before they
  read a file outlast the writing of it.

CHECK_DEADLOCK is FALSE where the system may rest: all messages delivered, all ends
closed, all verdicts given.  In `sctp_arrival` it never rests, because a duplicate may
always come.

## 6. What the code does not keep

Properties that the modules state and the code refutes, beside the one that has a run
(section 4).  In the modules they stand after those that pass; the table gives the
smallest change of a configuration that shows them.  `PROJECT.json` names each one with
its hazard.

| Property | Configuration and change | What happens |
|---|---|---|
| `DisposedStaysClosed` | SctpLifecycle.cfg as it is | A COOKIE-ECHO that arrives again after the shutdown is verified by `_handleCookieEcho`, which does not look at `_state`: the disposed association becomes established, and `_setState` throws on the closed stream. |
| `T1StartedOnce` | SctpLifecycle.cfg, `MaxPending = 2` | Two INIT-ACKs handled around one await both reach `_t1Start`; the second throws. |
| `HandshakeResolves` without `failures > 0` | SctpLifecycle.cfg, `MaxAssoc = 0` | `_handleInitAck` cancels T1 and the send throws: `cookieWait` without a timer. |
| `AcceptedShutdownResolves` | SctpLifecycle.cfg, `MaxInit = 0` | The end that accepts a shutdown has no timer; the loss of SHUTDOWN-ACK leaves it in `shutdownAckSent`. |
| `CumulativeIsMaximal` | SctpArrival.cfg, `InitialTsn = 28` | `_sackMisOrdered` is sorted as integers; after the wrap, TSNs in sequence are behind a larger one that is not. |
| `NothingHeldBack` | SctpArrival.cfg, `Messages <- Alternating` | `inbound_stream.dart:54` says "Pop complete messages from the reassembly buffer".  After a yield `startPos` stays set, so the next chunk in the buffer must be the next TSN (line 89); when another channel's chunk has that TSN, a complete message, the next in order, waits. |
| `NothingHeldBack` | SctpArrival.cfg, `Messages <- Pairs` | A pass over unordered chunks that meets a gap between two TSNs resets `startPos` and goes on behind the chunk (`inbound_stream.dart:89`), although that chunk begins a message itself: the second of two fragmented messages, complete, waits for the first. |
| `DeliversAsPromised` | SctpArrival.cfg, `Messages <- Mixed`, without `NothingHeldBack` | `inbound_stream.dart:54`: after a message is yielded the chunk with the next TSN joins without a look at its stream sequence number, so an ordered message behind an unordered one overtakes the ordered one before it.  No data channel makes this layout: DCEP messages, which are ordered, come first. |
| `KeptUntilReceived` | SctpTransfer.cfg, `Messages <- Fragmented`, `MaxDuplicates = 0`, `MaxTimeouts = 0` | `association.dart:1015` says "Prune obsolete chunks from all inbound streams".  `_handleForwardTsn` first advances `_lastReceivedTsn` through what has arrived above the new cumulative TSN and then prunes every stream up to it: chunks of reliable messages, acknowledged and never sent again, are thrown away. |
| `CumulativeInSync` | SctpTransfer.cfg, `Messages <- Skipping`, `MaxTimeouts = 0` | `_handleForwardTsn` moves `_lastReceivedTsn` and not `_remoteCumulativeTsn`, from which SACKs are made. |
| `QuiescentAgreement` | SctpTransfer.cfg, `Messages <- Skipping`, `MaxLosses = 2`, `MaxTimeouts = 0`, `MaxDuplicates = 0` | A FORWARD-TSN is sent once; when it is lost and the sent queue is empty, nothing repeats it. |
| `AbandonedAsAWhole` | SctpTransfer.cfg, `Messages <- Fragmented`, `InitialCwnd = 2` | `_maybeAbandon` marks the fragments in the sent queue; those still in the outbound queue are sent. |
| `FlightIsBounded` | SctpTransfer.cfg, `MaxLosses = 0`; SctpTransferPartial.cfg as it is | T3 marks chunks that are acknowledged by gap blocks, and resends them; two runs of `_transmit` count a chunk twice.  The flight size grows by bytes that no SACK takes off. |
| `UnackedIsTimed` | SctpTransfer.cfg, `Messages <- Uneven`, `UserDataMaxLength = 3`, `InitialCwnd = 12`, `MaxTimeouts = 0`, `MaxDuplicates = 0` | `association.dart:599` says "Stop sending, wait for SACKs to free up cwnd".  The flight size has bytes that are never taken off; the window stays closed with an empty sent queue, so no SACK comes and T3 is off. |
| `UnackedIsTimed` | SctpTransfer.cfg, `MaxFailures = 1`, `MaxLosses = 0` | T3 is started after the awaited send; when that throws, a chunk is in flight without a timer. |
| `NeverBroken` | SctpTransfer.cfg, `MaxTasks = 2`, `MaxLosses = 0` | A SACK handled while the retransmission loop awaits a send changes `_sentQueue`: the loop throws, and the run of `_transmit` with it. |
| `CloseIsMutual` | DataChannels.cfg as it is | `close()` before the ACK: the RECONFIG request overtakes the OPEN, which then makes the channel at the other end, open and without a peer. |
| `CloseResolves` without `closeAlls > 0` | DataChannels.cfg as it is | The manager's `close()` forgets its channels at once; the responses find none, and they stay in `closing`. |
| `TrickledFindsPath` | IceConnection.cfg as it is | A candidate that comes while `connect()` paces its checks lengthens `_checkList`; the loop over it (`ice_connection.dart:1001`) throws, and nobody is left to nominate what its checks find.  The end stays in checking; its peer, whose first check it answered from the early queue, has completed. |
| `EarlyRestartFindsPath` | IceConnection.cfg as it is | `restart()` does not end a `connect()`: 15 seconds after the old one began it sets the new generation to failed, or it nominates a pair whose sockets are closed. |
| `OvertakenFindsPath` | IceConnection.cfg as it is | Candidates that arrive before the offer of a restart are paired with the old generation, and cleared by `restart()`. |
| `FailedIsUnreachable` | IceConnection.cfg as it is | `ice_connection.dart:42` says "No working pairs found".  A check of the peer nominates the pair; the checks of `connect()` fail or have nothing left to check, and after 15 seconds the state is failed, with the nominated pair in use. |
| `RolesDiffer` | IceConnection.cfg as it is | With two pairs, errors 487 and the peer's requests switch the role to and fro (line 1674) until the retries are used up; both ends are controlling at the end. |
| `NominatedIsReachable` | IceConnection.cfg as it is | `_handleTriggeredCheck` takes the first pair with the remote address, whichever local socket the check came to. |
| `NominatedStays` | IceConnection.cfg as it is | `connect()` nominates its own first success (line 1057) over a pair that a triggered check has nominated. |
| `CloseAlwaysResolves` | DataChannels.cfg as it is | The send of a request throws (`association.dart:1190`) after `_reconfigRequest` was set and before its timer is started (line 1193); or the repetition does (line 1203).  Nothing repeats the request, the channel stays in `closing`, and every later `close()` of that association queues up behind it. |
| `SentInOrder` | Transport.cfg as it is | `_flushPendingMessages` is run by a listener of the channel's state (`rtc_data_channel.dart:706`).  A `send()` in a microtask between the change to open and the listener goes out at once (line 751), before the messages queued earlier; a `close()` there makes the queued sends throw, with nobody to see it. |
| `OneChain` | Transport.cfg as it is | A consent check that ends after `restart()` schedules the next one; so does the new pair.  `_consentTimer` is overwritten, not cancelled. |
| `ConnectedIsUp` | Transport.cfg as it is | DTLS ends its handshake, or SCTP its own, after ICE has failed: the transport reports connected. |
| `RecoveredIsConnected` | Transport.cfg, `MaxRestarts = 0` | ICE comes back from disconnected, but the listener only starts DTLS, which has been started: the transport stays disconnected. |
| `ClosedIsFinal` | Transport.cfg as it is | `close()` while the handshake is awaited: the catch of `_startDtlsHandshake` reports failed after closed. |
| `CloseEndsIce` | Transport.cfg as it is | After the peer's alert the transport is closed, and `close()` returns before it stops anything. |
| `EstablishedInitializes` | Transport.cfg, `Channels = {c1, c2}` | A proxy that was closed before SCTP throws when it is initialised, and the loop over the pending channels ends there. |
| `NewLinesAreAdded` | FileSignals.cfg as it is | An answerer that is started among old files reads the old candidates; `lastSize` is the length of that file.  The offerer's new file is taken for new lines only when it exceeds it (`js_answerer.mjs:139`), and the lines of a shorter one are never added. |
| `RolloverAgrees` without `~straddled` | SrtpSession.cfg as it is | A packet of before the wrap, decrypted or sent again after it, moves `_updateRolloverCounter` back and then forward once more: the ends never agree again. |
| `OnlyMissingIsLost` without `anchored <= 1` | RtpRecovery.cfg as it is | `nack_handler.dart:62` takes an `_expectedSeqNum` of 0 for "not set": after the number 0 the handler starts afresh with any packet, and later walks from there. |

Seen while modelling, without a property: `_pruneLost` removes the newest packets where
its comment (`nack_handler.dart:177`) says that it keeps them, because
`_compareSeqNum` sorts them first; `GenericNack.serialize` gets its list newest first
and so never packs two numbers into one entry (`nack.dart:66`); a restart during the
replay of buffered packets makes an answer throw, and the rest of the buffer and
`connect()` are skipped (`Transport.ReplayFails`); the interoperability README says to
start the answerer first (`interop/README.md:115`), which among old files takes up the
offer of the earlier run (`early` in `FileSignals`).

## 7. Theorems and their proofs

Eight modules hold theorems.  Each rests on the named assumptions that its
specification makes about the constants, which TLC evaluates in the runs, and on
nothing else but the hypotheses of `SctpProofs` and of `SrtpSessionProofs`, which stand
in the theorems and are explained below; each covers every value of the bounds.

**SctpProofs**, the largest, is first about `SctpArrival`, for any messages, streams and fragments, any size
of the two number spaces, and any order, loss and repetition of the chunks.

- `NumbersMatchBuffers`: `ArrivalSpec => []ReceiverInv`.  The receiver keeps what has arrived
  in three places: the numbers of `_markReceived`, the reassembly buffers, and the messages it
  has handed over.  `ReceiverInv` says that these describe one set of chunks (`Receives`: all
  up to some place, and those at some places above it), and that each chunk is in one buffer or
  one delivered message, once (`Buffers`).  Most of the proof is about `popMessages`: one step
  of its loop keeps or hands over every chunk it processes, once (`Parted`), and what it
  yields is the chunks of one message with TSNs in sequence, thus a whole message.  What each
  step keeps, the whole pass keeps: among the lengths for which it does not there would be a
  least one.
- `AcknowledgesWhatIsHeld`, and `AcknowledgementsAreExact`:
  `ArrivalSpec => []AcknowledgementIsExact`, from that invariant.
- `BytesAreAccounted`: `ArrivalSpec => []BufferIsAccounted`.  `WindowInv` says that the window
  is what the buffers leave of it.  The sums are `MapThenSumSet`, which takes the elements of
  a set in an order that nobody knows; the lemmas before it show that the order is of no
  account (`SumsAgree`) and how sums add up (`SumOfBoth`).
- `ReceiverImplementsDelivery`: `ArrivalSpec => DeliversAsPromised`, the refinement of
  `MessageDelivery`.  `ReceiverOrder` says that the ordered messages of a stream have been
  handed over in turn, up to the one that its sequence number names.

Their hypotheses: `TsnsSuffice`, less than half of the TSN space is used, because the network
of `SctpArrival` may bring any chunk at any time, also one of half the space ago; the program
has 2^31 TSNs for this.  For maximality alone also `InitialTsn + Total <= TsnModulo`: after a
wrap the numeric sort of `_sackMisOrdered` does not find what is in sequence (section 6).
For the refinement `SsnsSuffice`, half of the sequence numbers suffice for the ordered messages of
each stream, and `OrderedFirst`, the unordered messages of a stream come after the ordered
ones: otherwise it is false (`Mixed` in section 6).  Channels of either kind satisfy it; an
unordered one has an ordered OPEN or ACK in front.

Then about `SctpTransfer`, for any messages, streams and windows, any number of suspended
runs, losses, copies, early timers and sends that throw.  The hypotheses are the same, and
`AllReliable`, no message is limited in retransmissions or time, except for the first theorem.

- `BufferedAmountIsExact`: `TransferSpec => []BufferedIsExact`, for any messages, also those
  that are abandoned and skipped.  `SenderInv` says where a sender is.  All chunks of the
  accepted messages lie on a line, `Base` of them are gone, then comes the sent queue and then
  the outbound queue, without a gap and in order (`InPlace`); the buffered amount of a stream
  is the bytes of its chunks from there to the end (`BytesBetween`).  A suspended run of
  `_transmit` holds no chunk, so `SendingInv` needs to say little of the tasks; of the packets
  in flight it says what they may name (`Flies`).  Each function of `SctpSender` has its lemma
  (`AckCumulativeKeeps`, `StrikeMissingKeeps`, `UpdatePeerAckPointKeeps` ...); the marks that
  they set in a loop leave every entry in its place (`Versions`).
- `TransferArrives`: `TransferSpec => ArrivalSpec`.  A FORWARD-TSN is never sent for reliable
  messages, and every packet with data carries a chunk of an accepted one, so the receiving
  end makes the steps of `SctpArrival` and no other: what is proved of it holds here.
- `ReliableIsKept` and `EndsAgree`: `TransferSpec => []KeptUntilReceived` and
  `TransferSpec => []QuiescentAgreement`.  `SenderInv` has two parameters: the TSNs that may be
  marked as acknowledged, and the place up to which chunks may be gone.  In the first theorem
  these are all of them; `TransferInv` takes what has arrived (`ArrivedTsns`) and the place
  that `_lastReceivedTsn` has reached, and ties the sender to the receiver by them.  Both only
  grow, so a SACK that is old, repeated or overtaken still says what is true (`SackFits`), and
  the one that the receiver makes now fits by `AcknowledgesWhatIsHeld`'s lemma (`SackIs`).
- `TransferImplementsDelivery`: `TransferSpec => TransferDelivers`, the refinement of
  `MessageDelivery` with its `accepted` the sender's counter.  The order comes from
  `TransferArrives`, and that only accepted messages are delivered from `TransferInv`.

`AllReliable` cannot be left out of the middle two: with skipped messages the code does not
keep them (`KeptUntilReceived`, `QuiescentAgreement` in section 6).  That a transfer with
skipped messages delivers as promised is checked by `sctp_transfer_partial`.

Then about `SctpLifecycle`, for any two ends, any set of them that connect, any number of
retransmissions, copies and suspended handlers.

- `TypeCorrect`: `Spec => []TypeOK`.  The lemmas before it say what each effect that
  the handlers share (`Send`, `SetStateAndStartT1`, `Dispose` ...) keeps; one step per
  action then puts them together.
- `EstablishedAgreement`: `Spec => []EstablishedIsMutual`.  The property is not
  inductive: what an end knows when it becomes established arrived earlier, with a
  packet.  `AgreementInv` says what every packet of the handshake witnesses, in
  flight, in a suspended handler, or held by T1: an INIT-ACK that its sender knows
  the receiver's tag, a COOKIE-ECHO that both know each other's, a COOKIE-ACK that
  its sender has verified a cookie; and a verified cookie that both ends know each
  other.  The proof has one lemma per handler: what the step adds, to the network, to
  the suspended handlers or to the fields, comes with its witness (`Witnessed`).
  `AgreementFromWitnesses` turns that into the invariant, once for all handlers.
- `TagAlwaysKnown`: `Spec => []NoNullTag`, from the same invariant: the handlers that
  read the remote tag are suspended by, or started by, packets that witness it.
- `WaitsAreTimed`: `Spec => []WaitIsTimed`.  It is inductive with the types.  Each
  handler's lemma says that it leaves the other end alone (`LocalTo`) and its own
  waits timed.

**DataChannelsProofs**, for any number of channels, messages, losses, early timers, sends
that throw and suspended handlers, and any of the channels unordered.  `QueueWaits` is
inductive with the types (`QueueAlwaysWaits`: `Spec => []QueueWaits`).  The properties of the
run are not; `ChannelsInv` is, and has four parts besides the types.

- `Opening`: the end that creates a channel is the first to have it, an OPEN on the way
  finds no channel yet, and an ACK on the way comes from an end that has opened its own.
  From it `AlwaysMutual`: `Spec => []OpenIsMutual`.
- `Stream`, of an ordered channel: what is on the way is the messages sent last, in order,
  after at most one message of the handshake (`InOrder`); until the channel closes, what
  was delivered and what is on the way add up to what was sent (`Contiguous`).  While the
  creator waits for the ACK, the ACK is the head of the channel: that is why a message
  that overtakes nothing is never dropped for coming too early.  From it
  `AlwaysWithoutGaps`: `Spec => []OrderedWithoutGaps`.
- `Passed`: the manager's `close()`, suspended between two channels, leaves only channels
  behind it that are closing or closed.
- `Closing`: what each step of a reset says of the channel at the other end.  A close that
  is queued, requested, in a RECONFIG chunk on its way (or in a copy of it) or in a
  suspended handler of the peer was made (`Claim`); a response whose number is that of the
  outstanding request says that the peer has closed the channel or is in the handler that
  will (`Agreed`), which the peer makes true before it responds.  A copy of an old request
  or response has an old number, so it says nothing of the current one.  From it
  `AlwaysAgreed`: `Spec => []CloseIsAgreed`.

**TransportProofs**, for any set of channels, any number of packets, messages, restarts and
outages.  `TransportInv` is the types with two properties of what travels through a step.

- `AlwaysHandedOnce`: `Spec => []HandedOnce`, inductive with the types of the packet buffer:
  the packets handed over and those buffered are as many as have arrived, and are all of
  them, so none is among them twice.
- `AlwaysSentOnce`: `Spec => []SentOnce`.  `Kept` is the property, taken apart into what is
  sent, what is queued and the one before the other; `Placed` is what makes it inductive:
  the queue of an open channel is empty once its listener has run, so a message that is then
  sent directly overtakes nothing.  `Stage` has that the association is established once, so
  that no open channel is initialised again.
- `TransportTypes`: `Spec => []TypeOK`.

**IceConnectionProofs**, for any addresses of the two agents and any blocked pairs of them,
any limit of retries, and any number of negotiations, losses and late answers.

- `NominationsReachPeer`: `Spec => []NominatedReachesPeer`.  The property speaks of states of
  rest; what makes it true there must be said of every state between, and `IceInv` says it in
  three parts.  `Parts` is what everything is made of: an agent's pairs, checks and runs of
  `connect()` lead to candidates that it has, a run or a check of an older generation names
  what may since have gone, and a message is between the two agents.  `Progress` ties the
  generations of the two to the number of offers: from the offer of a restart until it is
  taken, the other end is one generation behind (`Behind`), and nobody gathers then.  `Reach`
  is the core: whatever an agent has learned of the other since its last restart, from a
  candidate, a request or a queued request, is an address of a socket that the other has open
  now (`Learned`, `Open`), and so is the sender of every request to a socket that it has open;
  while the offer of a restart is on its way, the offerer has learned nothing (`Trusted`).  A
  candidate that overtakes the offer breaks this, which is the mishap "overtaken"; an old
  `connect()` that nominates its own success breaks the last step, from the nominated pair to
  what was learned, which is "stale".
- The handlers are lemmas about one agent (`Advances`: in one generation it forgets nothing and
  learns only from the message it handles; `Steady`: it opens no socket), and `LocalStep` turns
  them into the invariant, once for all actions in which an agent stays in its generation.
  `RestartParts` and `RestartReach` are the same for those in which it restarts.
- `ProcessEarly` goes through a queue of any length.  What each request keeps, the whole queue
  keeps: among the lengths for which it does not there would be a least one (`LeastNumber`,
  `StagesReply`), and in the same way the recursive function exists (`StagesExist`).
- `IceTypes`: `Spec => []TypeOK`, from `Parts`.

**RtpRecoveryProofs**, for every even sequence number space, every size of the two buffers,
every retry limit, and every stream of less than half of the space.  `RecoveryInv` is the
types with `Timed`, `Limited`, `Counted` and `Anchored`.

- `AlwaysTimed`: `Spec => []LossIsTimed`, across pruning, giving up and `close()`, each of
  which may come while NACKs are being sent.
- `AlwaysAsked`: `Spec => []AskedBeforeGivenUp`.  A retry is counted after the await, for
  whatever is lost by then, asked for or not.  `Counted` bounds the difference: retries
  that did not ask for a packet were NACKs being sent when its loss was noticed, and those
  of them that are still being sent will count for it too.
- `AlwaysMissing`: `Spec => []OnlyMissingIsLost`.  `Anchored` ties `_expectedSeqNum` to the
  latest packet and the list to numbers before it; the arithmetic modulo the space
  (`GtIsAfter`, `AddIsNumber`, `SeqNumInjective`) makes the walk over a gap a walk over
  numbers.  `Limited` is about the pruning: it takes exactly as many off as are too many.
- `RecoveryTypes`: `Spec => []TypeOK`.

**SrtpSessionProofs**, first about its part `ReplayWindow`, for every window and every
sequence number space that is at least twice as large.

- `WindowIsExactAlways`: `WindowSpec => [](WindowTypeOK /\ WindowIsExact)`.  The step
  from residues to numbers is `DeltaIsDifference`: for a packet that is in time, the
  16-bit difference is the difference of the numbers.  After it, `KeptAhead` and
  `KeptBehind` say what a shift and a set bit do to the set of remembered packets.
- `AcceptsExactlyFreshAlways`: from that invariant, without a further induction.

Then about `SrtpSession`, for any set of profiles, any sequence number space and index, and
any number of packets, resends and reports.

- `AlwaysCountedAlike`: `Spec => []RolloverAgrees`.  The invariant `CountingInv` says that the
  packets sent are numbered without a gap, and that each end's counter is the one of the
  newest packet it has met (`CounterAt`).  `CounterFollows` is the step: a counter that
  stands at a packet and meets one less than half the space away, not of an earlier
  rollover, stands at the later of the two.  The hypothesis is `Half > 1`: in a space of
  two numbers a wrap is a step back by one, which `_updateRolloverCounter` does not count;
  the program has `Half = 32768`.
- `AlwaysOpens`: `Spec => []SrtcpOpens`.  `ReportsInv` says which packet the i-th report of
  an end is; then the keys, the nonce and the additional data of the two ends are the same
  terms.  The hypothesis is that under AES-CM fewer than `IndexModulo` reports are sent:
  `_srtcpIndex` is not wrapped there, and beyond 2^31 the bit that the E flag is put in is
  part of the index (`srtp_cipher_ctr.dart:236`).  Under GCM the index wraps, and the theorem
  has no bound.
- `SessionWindow`: `Spec => WindowSpec`.  Each step of the session is a step of
  `ReplayWindow` or leaves the window alone, so the abstraction of a sender that
  `ReplayWindow` makes, any packet in time, is right for this one, and
  `AcceptsExactlyFreshAlways` carries over: `AlwaysAcceptsFresh`.
- `AlwaysVectorsAgree`: `Spec => []VectorsAgree`, the half of `ScriptsAgree` about
  `srtp_cipher_vectors.mjs`: the salt that it pads once gives the keys for which the library
  pads it twice, and so the same packet.
- `SessionTypes`: `Spec => []TypeOK`.

**RingServerProofs**, for any set of browsers and any number of packets.

- `SuccessAlwaysEarned` and `NothingIsEverMissed`.  Both follow from `Courses`: the types,
  and for every browser what its listener, its socket, its peer connection and its page
  say of each other (`Handled`, `Carried`, `Answered`, `Forwarding`, `Gone`).  An
  answer is on the socket or applied only after the page has had the offer, which was
  sent when the listeners were registered; frames come from packets that were forwarded
  by a connected peer connection, which needs the answer.  Each action changes one
  browser's course (`OneClient`), so each has one lemma.

**FileSignalsProofs**, for any number of candidates and of overlapping ticks.

- `ProcessedAlwaysAdded`: `lastSize` covers only lines that were added.  The invariant
  `Polled` says it of every tick in progress too (`TickIsSound`): the lines before its
  next one are added, and it has read whole lines up to its size.
- `AnswerAlwaysFits`: no end takes up a description of another run, unless the answerer
  was started among old files.  `FreshOrEarly` is what makes it inductive: once the
  offerer has cleaned up, nothing of an earlier run is in the directory, or an answerer
  that has taken it up was early.

The runs check twenty-five of these properties on small instances as well; the types,
`NoNullTag`, `WindowIsExact` and `QueueWaits`, and the inductive invariants, were checked
there before they were proved.

## 8. What is only model-checked, and what is not modelled

Only model-checked:

- All liveness (`HandshakeResolves`, `ShutdownResolves`, `EventuallyDelivered`, `PathIsFound`,
  `CloseResolves`, `SilenceIsNoticed`, `LossResolves`, `VerdictIsReached`,
  `GoneIsReleased`, `EveryLineIsAdded`, `ExchangeResolves`), because the prover has no
  support for fairness and ENABLED.
- `UnackedIsTimed`.  It is true only where the flight size never holds back what could be
  sent with nothing in flight, and where no send throws (section 6 has an instance of either);
  an invariant would have to relate the flight size to the marks of the sent queue, which the
  code does not keep in step (`FlightIsBounded`).
- `TransferDelivers` with messages that may be skipped: a FORWARD-TSN prunes the buffers by
  TSN, and the sequence numbers of the streams advance apart from `popMessages`.
- `NothingHeldBack`, which holds of messages like those of its run, ordered ones of one
  stream and then unordered ones with TSNs that follow each other, and not in general
  (section 6).
- `RolesAgree` of ICE.  It holds of undisturbed negotiations of agents with one address each,
  and an invariant for it has to count the errors 487 that are under way in each direction
  against the retries that are left.
- The half of `ScriptsAgree` about the two scripts that try a captured packet: an attempt
  fails because outputs of ideal cryptography differ from strings, and from each other,
  which TLA+ leaves open for values of different kinds.
- The types of `SctpTransfer`: that `misses` stays below three and the flight size above zero
  is not part of `SenderInv`, and no property needs it.
- The types of `DataChannels`: that the queue of closes has no id twice is not part of
  `ChannelsInv`, and no property needs it.

Left out of the modules, and why:

- The bytes of packets, cookies and messages; CRC and padding.  A chunk is what its
  handler reads of it.  Cryptography is ideal.
- The RTO and its smoothing: a timer may fire at any time, which includes every
  value.  The list of duplicates in a SACK, which no sender reads.
- HEARTBEAT and ERROR chunks, which change no state; Add Outgoing Streams, which
  nothing in the library calls.
- The peer's advertised window: the sender does not read it.
- Shutdown while data is outstanding, and reconfiguration on a disposed association:
  lifecycle, transfer and channels are separate modules.
- The event of a low buffered amount; `MediaTransport`, which repeats the ICE and DTLS
  part of `IntegratedTransport` for media alone; the forwarding of decrypted RTP.
- ICE over TCP, relayed, reflexive and mDNS candidates, which differ in how they are
  gathered and sent; end-of-candidates, which changes no state that a check reads;
  credentials, which nothing verifies; several connections under one peer connection.
- One replay window and one roll-over counter serve all SSRCs of a session
  (`srtp_cipher.dart:90`); `SrtpSession` has one SSRC.
- The helpers of the browser tests (`interop/automated/browser_utils.mjs`): option tables,
  printing, and the launch and close of a browser, in sequence and by one caller.
- The messages that are echoed once `FileSignals` has connected.

The components without a module are listed in `PROJECT.json` with their reason:
planned, or formatting, cryptography and files, which have no protocol state.

## 9. Plan

Done: `SctpLifecycle`, `DataChannels`, `Transport`, `RtpRecovery`, `ReplayWindow`,
`SrtpSession`, `RingServer`, `FileSignals` and `IceConnection`, with their proofs;
`SctpSerial` to `SctpTransfer` against `MessageDelivery`, with the proof for reliable
messages.

To come, in this order:

1. `IceConnection` under `Transport`: the two composed, so that `Transport.Nominate` and
   `ChecksFail` are what two agents do, with consent at both ends.
2. `PeerConnection`: signalling with its awaits, negotiation-needed, close; then
   transceivers and the RTP router.
3. `DtlsHandshake`: flights, retransmission, epochs and the buffer of future-epoch
   records, with keys as who knows what.  Properties: both ends finish with the same
   transcript; no application data before both have keys.
4. `JitterBuffer`, over sequence numbers with the width as a parameter.
5. STUN transactions and TURN lifetimes, and with them ICE over relayed candidates.

Theorems worth proving next: `TransferDelivers` with messages that may be skipped;
`RolesAgree` of ICE; the types of `DataChannels`.
