----------------------------- MODULE Transport ------------------------------
(***************************************************************************)
(* One end of a connection, from ICE to the application's data channels:   *)
(* IntegratedTransport (transport/transport.dart), the part of             *)
(* RtcDtlsTransport that starts and stops, consent freshness               *)
(* (ice/ice_connection.dart), and the channels created before SCTP is      *)
(* ready (ProxyRTCDataChannel).                                            *)
(*                                                                         *)
(* State changes travel on broadcast streams, which deliver in microtasks: *)
(* no packet and no timer comes between a change and its listeners.  A     *)
(* change of ICE, DTLS or SCTP and its listeners are one step here.  The   *)
(* opening of a channel and its listener, which sends what is queued, are  *)
(* two, because a call of send() from another microtask may come between   *)
(* them (any step of the model may; only those of the channel matter).     *)
(* How ICE finds a pair and how the DTLS and SCTP handshakes go is left to *)
(* chance here; SctpLifecycle has the last.                                *)
(***************************************************************************)
EXTENDS Integers, Sequences, FiniteSetsExt, SequencesExt

CONSTANTS
  Channels,            \* data channels that the application creates
  ConsentMaxFailures,  \* _consentMaxFailures: 6
  MaxSends,            \* bound: calls of send on a channel
  MaxPackets,          \* bound: SCTP packets from the peer
  MaxRestarts,         \* bound: ICE restarts
  MaxOutages           \* bound: times the path fails

ASSUME TransportAssumption ==
  /\ ConsentMaxFailures \in Nat \ {0}
  /\ {MaxSends, MaxPackets, MaxRestarts, MaxOutages} \subseteq Nat

VARIABLES
  \* IceConnectionImpl
  ice,          \* _state
  called,       \* connect() has been called, since the last restart
  probing,      \* it is running its connectivity checks
  nominated,    \* _nominated is set
  failures,     \* _consentFailureCount
  timer,        \* _consentTimer is running
  orphans,      \* running timers that _consentTimer has been overwritten over
  checks,       \* consent checks under way, on the nominated pair
  staleChecks,  \* consent checks under way, on a pair of before a restart
  restarts, path, outages,
  \* RtcDtlsTransport and IntegratedTransport
  dtls,         \* _state of RtcDtlsTransport
  started,      \* _dtlsStarted
  handshaking,  \* start() waits for the handshake or its timeout
  state,        \* _state of IntegratedTransport
  closing,      \* close(): "no", awaiting the manager's close ("channels"), or "done"
  assoc,        \* sctpAssociation, with its state
  buffer,       \* _sctpPacketBuffer, what is still to be handed over
  replaying,    \* _startSctp awaits handlePacket for one of them
  arrived,      \* packets from the peer
  handed,       \* history: packets given to handlePacket
  \* channels
  made,         \* how createDataChannel made each: "none", "proxy" or "direct"
  pending,      \* _pendingDataChannels
  real,         \* the RTCDataChannel and its state, "none" without one
  closed,       \* _isClosed of the proxy
  queue,        \* _pendingMessages
  sent,         \* history: messages sent on the real channel
  calls,        \* history: messages given to send
  flushing,     \* the channel has opened and the proxy's listener has still to run
  early,        \* history: messages that are sent meanwhile, with others in the queue
  lost          \* history: messages whose send fails because the channel is closing

consentVars == <<failures, timer, orphans, checks, staleChecks>>
iceVars == <<called, probing, nominated, restarts, path, outages>>
dtlsVars == <<dtls, started, handshaking>>
sctpVars == <<assoc, buffer, replaying, arrived, handed>>
messageVars == <<queue, sent, calls, flushing, early, lost>>
channelVars == <<made, pending, real, closed, messageVars>>
vars == <<ice, iceVars, consentVars, dtlsVars, state, closing, sctpVars, channelVars>>

IceStates == {"new", "checking", "connected", "completed", "disconnected", "failed", "closed"}

TypeOK ==
  /\ ice \in IceStates /\ {called, probing, nominated, timer, path} \subseteq BOOLEAN
  /\ failures \in 0..ConsentMaxFailures /\ {orphans, checks, staleChecks} \subseteq Nat
  /\ restarts \in 0..MaxRestarts /\ outages \in 0..MaxOutages
  /\ dtls \in {"new", "connecting", "connected", "failed", "closed"}
  /\ {started, handshaking, replaying} \subseteq BOOLEAN
  /\ state \in {"new", "connecting", "connected", "disconnected", "failed", "closed"}
  /\ closing \in {"no", "channels", "done"}
  /\ assoc \in {"none", "closed", "connecting", "established", "shutdown"}
  /\ arrived \in 0..MaxPackets /\ {buffer, handed} \subseteq Seq(1..MaxPackets)
  /\ made \in [Channels -> {"none", "proxy", "direct"}] /\ pending \in Seq(Channels)
  /\ real \in [Channels -> {"none", "connecting", "open", "closing"}]
  /\ closed \in [Channels -> BOOLEAN] /\ calls \in [Channels -> 0..MaxSends]
  /\ {queue, sent} \subseteq [Channels -> Seq(1..MaxSends)]
  /\ flushing \in [Channels -> BOOLEAN]
  /\ {early, lost} \subseteq [Channels -> SUBSET (1..MaxSends)]

Init ==
  /\ ice = "new" /\ called = FALSE /\ probing = FALSE /\ nominated = FALSE
  /\ failures = 0 /\ timer = FALSE /\ orphans = 0 /\ checks = 0 /\ staleChecks = 0
  /\ restarts = 0 /\ path = TRUE /\ outages = 0
  /\ dtls = "new" /\ started = FALSE /\ handshaking = FALSE
  /\ state = "new" /\ closing = "no"
  /\ assoc = "none" /\ buffer = << >> /\ replaying = FALSE /\ arrived = 0 /\ handed = << >>
  /\ made = [c \in Channels |-> "none"] /\ pending = << >>
  /\ real = [c \in Channels |-> "none"] /\ closed = [c \in Channels |-> FALSE]
  /\ queue = [c \in Channels |-> << >>] /\ sent = [c \in Channels |-> << >>]
  /\ calls = [c \in Channels |-> 0] /\ flushing = [c \in Channels |-> FALSE]
  /\ early = [c \in Channels |-> {}] /\ lost = [c \in Channels |-> {}]

-----------------------------------------------------------------------------
(* ICE: states and consent *)

\* close() cancels the subscriptions first.
Listening == closing = "no"

\* _handleIceStateChange: what the transport's state becomes.
Reported(s) ==
  CASE s = "checking" -> IF state = "connected" THEN state ELSE "connecting"
    [] s \in {"connected", "completed"} -> state
    [] OTHER -> s

\* _startDtlsHandshake: once in the life of the transport.
StartsDtls(s) == Listening /\ ~started /\ s \in {"connected", "completed"}

\* _setState of the connection, and its listeners.
SetIce(s) ==
  /\ ice' = s
  /\ state' = IF Listening /\ s # ice THEN Reported(s) ELSE state
  /\ started' = (started \/ StartsDtls(s))
  /\ handshaking' = (handshaking \/ StartsDtls(s))
  /\ dtls' = IF StartsDtls(s) THEN "connecting" ELSE dtls
  /\ UNCHANGED <<closing, sctpVars, channelVars>>

\* _scheduleNextConsentCheck: a timer that still runs is forgotten, not cancelled.
Schedule ==
  /\ timer' = TRUE
  /\ orphans' = IF timer THEN orphans + 1 ELSE orphans

\* connect(), after gathering, which the transport is not told of.  A check of the peer
\* may have nominated a pair before: it is checking again, and its consent checks go on.
StartChecks ==
  /\ ~called /\ ice # "closed" /\ Listening
  /\ called' = TRUE /\ probing' = TRUE
  /\ SetIce("checking")
  /\ UNCHANGED <<nominated, restarts, path, outages, consentVars>>

\* A pair is nominated, by the checks of connect() or, when there is none yet, by a
\* check of the peer; completed starts the consent checks if it is new.
Nominate ==
  /\ path /\ ice # "closed"
  /\ probing \/ ~nominated
  /\ nominated' = TRUE
  /\ \/ probing /\ probing' = FALSE
     \/ ~nominated /\ UNCHANGED probing
  /\ SetIce("completed")
  /\ IF ice = "completed" THEN UNCHANGED consentVars
     ELSE /\ timer' = TRUE /\ failures' = 0
          /\ UNCHANGED <<orphans, checks, staleChecks>>
  /\ UNCHANGED <<called, restarts, path, outages>>

\* The checks of connect() end without a pair, whatever the peer has nominated.
ChecksFail ==
  /\ probing /\ probing' = FALSE
  /\ SetIce("failed")
  /\ UNCHANGED <<called, nominated, restarts, path, outages, consentVars>>

\* A consent timer fires: _performConsentCheck up to the wait for the answer.
ConsentDue ==
  /\ \/ timer /\ timer' = FALSE /\ UNCHANGED orphans
     \/ orphans > 0 /\ orphans' = orphans - 1 /\ UNCHANGED timer
  /\ checks' = IF nominated /\ ice # "closed" THEN checks + 1 ELSE checks
  /\ UNCHANGED <<ice, iceVars, failures, staleChecks, dtlsVars, state, closing, sctpVars,
                 channelVars>>

ConsentAnswered ==
  /\ checks > 0 /\ path /\ ice # "closed"
  /\ checks' = checks - 1 /\ failures' = 0
  /\ SetIce(IF ice = "disconnected" THEN "connected" ELSE ice)
  /\ Schedule
  /\ UNCHANGED <<iceVars, staleChecks>>

\* Mutant of ConsentFails: the first failure ends the chain of checks.
ConsentFails_NotScheduled ==
  /\ checks > 0 /\ (~path \/ ice = "closed") /\ checks' = checks - 1 /\ UNCHANGED staleChecks
  /\ failures' = failures + 1 /\ UNCHANGED <<timer, orphans>>
  /\ SetIce(IF ice \in {"completed", "connected"} THEN "disconnected" ELSE ice)
  /\ UNCHANGED iceVars
\* No answer in two seconds, or the send throws: the sockets of an old pair, and of a
\* closed connection, are closed.
ConsentFails ==
  /\ \/ checks > 0 /\ (~path \/ ice = "closed") /\ checks' = checks - 1 /\ UNCHANGED staleChecks
     \/ staleChecks > 0 /\ staleChecks' = staleChecks - 1 /\ UNCHANGED checks
  /\ IF failures + 1 >= ConsentMaxFailures
     THEN /\ failures' = ConsentMaxFailures
          /\ timer' = FALSE /\ UNCHANGED orphans
          /\ SetIce("failed")
     ELSE /\ failures' = failures + 1
          /\ Schedule
          /\ SetIce(IF ice \in {"completed", "connected"} THEN "disconnected" ELSE ice)
  /\ UNCHANGED iceVars

\* restart(): an answer that is still awaited will be handled all the same.  (So will
\* the checks of connect() that are under way; they belong to ICE and end here.)
Restart ==
  /\ restarts < MaxRestarts /\ Listening /\ ice # "closed"
  /\ restarts' = restarts + 1
  /\ timer' = FALSE /\ failures' = 0 /\ nominated' = FALSE
  /\ called' = FALSE /\ probing' = FALSE
  /\ staleChecks' = staleChecks + checks /\ checks' = 0
  /\ SetIce("new")
  /\ UNCHANGED <<orphans, path, outages>>

PathChanges ==
  /\ path' = ~path
  /\ outages' = IF path THEN outages + 1 ELSE outages
  /\ outages' <= MaxOutages
  /\ UNCHANGED <<ice, called, probing, nominated, restarts, consentVars, dtlsVars, state, closing,
                 sctpVars, channelVars>>

iceAll == <<ice, iceVars, consentVars>>

-----------------------------------------------------------------------------
(* SCTP over DTLS *)

\* The first pending channel whose proxy is closed: its initializeWithChannel sets
\* the real channel and then throws, adding to a closed stream; the loop ends there.
Broken == {i \in DOMAIN pending : closed[pending[i]]}
Reached == IF Broken = {} THEN Len(pending) ELSE Min(Broken)

\* _initializePendingDataChannels.
InitializePending ==
  /\ real' = [c \in Channels |-> IF \E i \in 1..Reached : pending[i] = c THEN "connecting"
                                 ELSE real[c]]
  /\ pending' = IF Broken = {} THEN << >> ELSE pending
  /\ UNCHANGED <<made, closed, messageVars>>

\* handlePacket: the packet that completes the handshake establishes the association,
\* and the transport's listener does the rest.
HandlePacket(p) ==
  /\ handed' = Append(handed, p)
  /\ \/ UNCHANGED <<assoc, state, channelVars>>
     \/ /\ assoc \in {"closed", "connecting"} /\ handed # << >>
        /\ assoc' = "established" /\ state' = "connected"
        /\ InitializePending

\* connect() of the association, if this end is the controlling one then; it throws unless
\* the association is closed.
Connect(a) == assoc' \in IF a = "closed" THEN {"closed", "connecting"} ELSE {a}

\* _startSctp up to its first await: the association, and the first buffered packet.
\* Mutant: the buffer is emptied when the first packet has been handed over.
StartSctp_DropsRest ==
  IF buffer = << >>
  THEN Connect("closed") /\ UNCHANGED <<buffer, replaying, handed>>
  ELSE /\ assoc' = "closed" /\ replaying' = TRUE
       /\ handed' = Append(handed, Head(buffer)) /\ buffer' = << >>
StartSctp ==
  IF buffer = << >>
  THEN Connect("closed") /\ UNCHANGED <<buffer, replaying, handed>>
  ELSE /\ assoc' = "closed" /\ replaying' = TRUE
       /\ handed' = Append(handed, Head(buffer)) /\ buffer' = Tail(buffer)

\* The handshake completes: SRTP is started, connected is reported, and SCTP starts.
DtlsConnects ==
  /\ handshaking /\ dtls = "connecting" /\ path /\ nominated
  /\ handshaking' = FALSE /\ dtls' = "connected" /\ state' = "connected"
  /\ StartSctp
  /\ UNCHANGED <<iceAll, started, closing, arrived, channelVars>>

\* The handshake fails or times out, after stop() as well: the catch of
\* _startDtlsHandshake does not look at the state.
DtlsFails ==
  /\ handshaking /\ handshaking' = FALSE
  /\ dtls' = "failed" /\ state' = "failed"
  /\ UNCHANGED <<iceAll, started, closing, sctpVars, channelVars>>

\* An alert of the peer closes the socket.
DtlsPeerCloses ==
  /\ dtls = "connected" /\ path
  /\ dtls' = "closed" /\ state' = IF Listening THEN "closed" ELSE state
  /\ UNCHANGED <<iceAll, started, handshaking, closing, sctpVars, channelVars>>

\* _handleSctpData.  The socket may be connected before start() knows of it.
HandleSctpData ==
  /\ path /\ arrived < MaxPackets
  /\ dtls = "connected" \/ (handshaking /\ dtls = "connecting")
  /\ arrived' = arrived + 1
  /\ IF assoc = "none"
     THEN /\ buffer' = Append(buffer, arrived')
          /\ UNCHANGED <<assoc, handed, state, channelVars>>
     ELSE HandlePacket(arrived') /\ UNCHANGED buffer
  /\ UNCHANGED <<iceAll, dtlsVars, closing, replaying>>

\* handlePacket of a buffered packet is done: the next one, or connect().
ReplayNext ==
  /\ replaying
  /\ IF buffer = << >>
     THEN /\ replaying' = FALSE /\ Connect(assoc)
          /\ UNCHANGED <<buffer, handed, state, channelVars>>
     ELSE /\ buffer' = Tail(buffer) /\ HandlePacket(Head(buffer)) /\ UNCHANGED replaying
  /\ UNCHANGED <<iceAll, dtlsVars, closing, arrived>>

\* It throws, because an answer cannot be sent: the rest, and connect(), are skipped.
ReplayFails ==
  /\ replaying /\ ~nominated /\ replaying' = FALSE
  /\ UNCHANGED <<iceAll, dtlsVars, state, closing, assoc, buffer, arrived, handed, channelVars>>

-----------------------------------------------------------------------------
(* The application's channels *)

CreateDataChannel(c) ==
  /\ made[c] = "none" /\ closing = "no"
  /\ IF assoc = "established"
     THEN /\ made' = [made EXCEPT ![c] = "direct"]
          /\ real' = [real EXCEPT ![c] = "connecting"]
          /\ UNCHANGED pending
     ELSE /\ made' = [made EXCEPT ![c] = "proxy"]
          /\ pending' = Append(pending, c)
          /\ UNCHANGED real
  /\ UNCHANGED <<iceAll, dtlsVars, state, closing, sctpVars, closed, messageVars>>

\* The message goes out on the real channel, or into the queue.
SendNow(c) ==
  /\ sent' = [sent EXCEPT ![c] = Append(@, calls'[c])]
  /\ early' = [early EXCEPT ![c] = IF flushing[c] /\ queue[c] # << >>
                                          THEN @ \cup {calls'[c]} ELSE @]
  /\ UNCHANGED queue
SendLater(c) ==
  /\ queue' = [queue EXCEPT ![c] = Append(@, calls'[c])]
  /\ UNCHANGED <<sent, early>>

\* send of a proxy.
\* Mutant: what matters is whether there is a real channel, not whether it is open.
Send_WhenInitialized(c) ==
  /\ made[c] = "proxy" /\ calls[c] < MaxSends
  /\ calls' = [calls EXCEPT ![c] = @ + 1]
  /\ IF real[c] # "none" THEN SendNow(c) ELSE SendLater(c)
  /\ UNCHANGED <<iceAll, dtlsVars, state, closing, sctpVars, made, pending, real, closed,
                 flushing, lost>>
Send(c) ==
  /\ made[c] = "proxy" /\ calls[c] < MaxSends
  /\ calls' = [calls EXCEPT ![c] = @ + 1]
  /\ IF real[c] = "open" THEN SendNow(c) ELSE SendLater(c)
  /\ UNCHANGED <<iceAll, dtlsVars, state, closing, sctpVars, made, pending, real, closed,
                 flushing, lost>>

\* The peer's ACK opens the channel; the proxy's listener will run later.
ChannelOpens(c) ==
  /\ real[c] = "connecting" /\ assoc = "established" /\ path
  /\ real' = [real EXCEPT ![c] = "open"]
  /\ flushing' = [flushing EXCEPT ![c] = made[c] = "proxy"]
  /\ UNCHANGED <<iceAll, dtlsVars, state, closing, sctpVars, made, pending, closed, queue, sent,
                 calls, early, lost>>

\* The listener: what is queued is sent, in vain if the channel has been closed meanwhile;
\* nobody awaits those sends, and the queue is cleared in any case.
Flush(c) ==
  /\ flushing[c] /\ flushing' = [flushing EXCEPT ![c] = FALSE]
  /\ queue' = [queue EXCEPT ![c] = << >>]
  /\ IF real[c] = "open"
     THEN sent' = [sent EXCEPT ![c] = @ \o queue[c]] /\ UNCHANGED lost
     ELSE lost' = [lost EXCEPT ![c] = @ \cup ToSet(queue[c])] /\ UNCHANGED sent
  /\ UNCHANGED <<iceAll, dtlsVars, state, closing, sctpVars, made, pending, real, closed, calls,
                 early>>

CloseChannel(c) ==
  /\ made[c] # "none" /\ ~closed[c]
  /\ closed' = [closed EXCEPT ![c] = TRUE]
  /\ real' = [real EXCEPT ![c] = IF @ = "none" THEN @ ELSE "closing"]
  /\ UNCHANGED <<iceAll, dtlsVars, state, closing, sctpVars, made, pending, messageVars>>

-----------------------------------------------------------------------------
(* close() *)

\* stop() of the DTLS transport: nothing when it is closed already, else ICE as well.
Stop ==
  IF dtls = "closed" THEN UNCHANGED <<ice, timer, dtls>>
  ELSE dtls' = "closed" /\ ice' = "closed" /\ timer' = FALSE

StopRest == UNCHANGED <<iceVars, failures, orphans, checks, staleChecks, started,
                        handshaking, buffer, replaying, arrived, handed>>

\* The closes of the manager and of the association wait for a send only when the
\* association is established; otherwise close() runs through.
Close ==
  /\ closing = "no" /\ state' = "closed"
  /\ IF assoc = "established" THEN closing' = "channels" /\ UNCHANGED <<ice, timer, dtls>>
     ELSE closing' = "done" /\ Stop
  /\ StopRest /\ UNCHANGED <<assoc, channelVars>>

\* The manager closes one channel after the other.
CloseNext(c) ==
  /\ closing = "channels" /\ real[c] \in {"connecting", "open"}
  /\ real' = [real EXCEPT ![c] = "closing"]
  /\ UNCHANGED <<iceAll, dtlsVars, state, closing, sctpVars, made, pending, closed,
                 messageVars>>

CloseEnds ==
  /\ closing = "channels" /\ \A c \in Channels : real[c] \in {"none", "closing"}
  /\ closing' = "done" /\ assoc' = "shutdown"
  /\ Stop
  /\ StopRest /\ UNCHANGED <<state, channelVars>>

-----------------------------------------------------------------------------
Next ==
  \/ StartChecks \/ Nominate \/ ChecksFail \/ ConsentDue \/ ConsentAnswered \/ ConsentFails
  \/ Restart \/ PathChanges
  \/ DtlsConnects \/ DtlsFails \/ DtlsPeerCloses
  \/ HandleSctpData \/ ReplayNext \/ ReplayFails
  \/ \E c \in Channels : CreateDataChannel(c) \/ Send(c) \/ ChannelOpens(c) \/ Flush(c)
                         \/ CloseChannel(c) \/ CloseNext(c)
  \/ Close \/ CloseEnds

Spec == Init /\ [][Next]_vars

\* Timers fire, and an awaited answer comes or times out: WF_vars of the three actions,
\* with the enabling conditions written out.
CanAnswer == checks > 0 /\ path /\ ice # "closed"
CanFail == staleChecks > 0 \/ (checks > 0 /\ (~path \/ ice = "closed"))
FairSpec ==
  /\ Spec
  /\ []<>~(timer \/ orphans > 0) \/ []<><<ConsentDue>>_vars
  /\ []<>~CanAnswer \/ []<><<ConsentAnswered>>_vars
  /\ []<>~CanFail \/ []<><<ConsentFails>>_vars

-----------------------------------------------------------------------------
(* Properties *)

\* What the application gives to send() of a channel that is not yet open is sent once and
\* in order, or still queued, however the creation of the real channel, its opening, the run
\* of its listener and its close fall among the calls.  What is sent between the opening
\* and the listener overtakes the queue, and nothing else does; a close between them loses
\* the queue, and nothing else does (rtc_data_channel.dart:706, :738, :750).
Line(c) == sent[c] \o queue[c]
Precedes(c, m, n) == m < n \/ (n < m /\ m \in early[c])
SentOnce ==
  \A c \in Channels :
     /\ ToSet(Line(c)) = 1..calls[c] \ lost[c]
     /\ \A i, j \in DOMAIN Line(c) : i < j => Precedes(c, Line(c)[i], Line(c)[j])
     /\ lost[c] # {} => real[c] = "closing"

\* Every packet that DTLS delivers is handed to the association once, though some come
\* before there is one and others while those are being replayed (transport.dart:698).
HandedOnce ==
  /\ Len(handed) + Len(buffer) = arrived
  /\ ToSet(handed) \cup ToSet(buffer) = 1..arrived

\* A peer that stays silent is noticed, whatever restarts and late answers do to the
\* chain of checks: ICE does not stay up, and a transport that is not being closed does
\* not stay connected (ice_connection.dart:2120).
Up == ice \in {"connected", "completed", "disconnected"}
SilenceIsNoticed ==
  /\ (~path /\ Up) ~> (path \/ ~Up)
  /\ (~path /\ Up /\ state = "connected") ~> (path \/ state # "connected" \/ ~Listening)

(* What follows the code does not keep: the README has the instances. *)

\* Nothing that is given to send() of a proxy is lost or overtaken
\* (rtc_data_channel.dart:738).
SentInOrder ==
  \A c \in Channels : sent[c] \o queue[c] = [i \in 1..calls[c] |-> i]

\* One chain of consent checks runs at a time (ice_connection.dart:2075).
OneChain == orphans + checks + (IF timer THEN 1 ELSE 0) <= 1

\* connected is reported of a path that ICE takes for one.
ConnectedIsUp == state = "connected" => Up

\* Once the path is back, or found again by a restart, the transport is connected.
RecoveredIsConnected ==
  dtls = "connected" /\ ice \in {"connected", "completed"} /\ Listening => state = "connected"

\* Nothing is reported after closed.
ClosedIsFinal == [][state = "closed" => state' = "closed"]_vars

\* close() ends ICE.
CloseEndsIce == closing = "done" => ice \in {"closed", "failed"}

\* Channels made before the association is established are initialised with it.
EstablishedInitializes ==
  assoc = "established" => \A c \in Channels : made[c] = "proxy" => real[c] # "none"
=============================================================================
