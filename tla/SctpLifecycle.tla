--------------------------- MODULE SctpLifecycle ---------------------------
(***************************************************************************)
(* Life of an SCTP association between the two ends of a WebRTC transport: *)
(* the four-way handshake, graceful shutdown and abort, with timers T1 and *)
(* T2 (lib/src/sctp/association.dart).                                     *)
(*                                                                         *)
(* Handlers are Dart async functions.  Everything up to the first await is *)
(* one step; `await _sendChunk(c)` suspends the handler, and the step that *)
(* completes the send also runs the rest of the handler, because nothing   *)
(* else is scheduled between the socket write and that continuation.       *)
(* pending[p][k] counts the handlers of p suspended in the send of a chunk *)
(* k.  While one is suspended other packets are handled: the frames of one *)
(* TCP read, replayed buffers, and a relayed pair whose send waits for a   *)
(* ChannelBind all make this happen.                                       *)
(***************************************************************************)
EXTENDS Naturals, FiniteSets

CONSTANTS
  Peers,            \* the two ends
  Controlling,      \* the ends whose ICE agent is controlling: they call connect()
  MaxInit,          \* SctpConstants.maxInitRetransmits
  MaxAssoc,         \* SctpConstants.maxAssocRetransmits
  MaxPending,       \* bound: handlers of one kind suspended in a send
  MaxCopies,        \* bound: copies of one packet put on the wire and not yet gone
  MaxFaults         \* bound: sends that throw (no nominated ICE pair), calls of abort()
                    \* and packets that the network duplicates, together

ASSUME PeersAssumption == \E a, b \in Peers : a # b /\ Peers = {a, b}
ASSUME ControllingAssumption == Controlling \subseteq Peers
ASSUME BoundsAssumption ==
  /\ MaxInit \in Nat /\ MaxAssoc \in Nat /\ MaxFaults \in Nat
  /\ MaxPending \in Nat \ {0} /\ MaxCopies \in Nat \ {0}

VARIABLES
  state,        \* _state
  known,        \* _remoteVerificationTag (with it _remoteCumulativeTsn) is set
  t1, t1Failures,   \* chunk that T1 retransmits, or "off"; _t1Failures
  t2, t2Failures,   \* T2 is running; _t2Failures
  disposed,     \* _dispose() has run: the state stream is closed
  pending,      \* handlers suspended in a send, by chunk kind
  net,          \* packets in flight, by receiver and chunk kind
  started,      \* connect() has been called
  verified,     \* history: a state cookie of this end came back to it
  raised,       \* exceptions that escaped a handler
  failures,     \* sends that have thrown so far
  aborts,       \* calls of abort() so far
  duplicates    \* packets duplicated so far

budget == <<failures, aborts, duplicates>>
vars == <<state, known, t1, t1Failures, t2, t2Failures, disposed, pending,
          net, started, verified, raised, budget>>

States == {"closed", "cookieWait", "cookieEchoed", "established",
           "shutdownPending", "shutdownSent", "shutdownReceived",
           "shutdownAckSent"}
Kinds == {"INIT", "INIT_ACK", "COOKIE_ECHO", "COOKIE_ACK", "SHUTDOWN",
          "SHUTDOWN_ACK", "SHUTDOWN_COMPLETE", "ABORT"}
\* The chunks whose send is followed by more of the handler.  An ABORT sent
\* before the remote tag is known carries tag 0.
Awaited == (Kinds \ {"INIT_ACK"}) \cup {"ABORT_UNTAGGED"}
Errors == {"t1 running", "t2 running", "stream closed", "null tag"}

Other(p) == CHOOSE q \in Peers : q # p

TypeOK ==
  /\ state \in [Peers -> States]
  /\ known \in [Peers -> BOOLEAN]
  /\ t1 \in [Peers -> {"off", "INIT", "COOKIE_ECHO"}]
  /\ t1Failures \in [Peers -> 0..MaxInit]
  /\ t2 \in [Peers -> BOOLEAN]
  /\ t2Failures \in [Peers -> 0..MaxAssoc]
  /\ disposed \in [Peers -> BOOLEAN]
  /\ pending \in [Peers -> [Awaited -> 0..MaxPending]]
  /\ net \in [Peers -> [Kinds -> Nat]]
  /\ started \in [Peers -> BOOLEAN]
  /\ verified \in [Peers -> BOOLEAN]
  /\ raised \in [Peers -> SUBSET Errors]
  /\ failures \in 0..MaxFaults
  /\ aborts \in 0..MaxFaults
  /\ duplicates \in 0..MaxFaults

Init ==
  /\ state = [p \in Peers |-> "closed"]
  /\ known = [p \in Peers |-> FALSE]
  /\ t1 = [p \in Peers |-> "off"]
  /\ t1Failures = [p \in Peers |-> 0]
  /\ t2 = [p \in Peers |-> FALSE]
  /\ t2Failures = [p \in Peers |-> 0]
  /\ disposed = [p \in Peers |-> FALSE]
  /\ pending = [p \in Peers |-> [k \in Awaited |-> 0]]
  /\ net = [p \in Peers |-> [k \in Kinds |-> 0]]
  /\ started = [p \in Peers |-> FALSE]
  /\ verified = [p \in Peers |-> FALSE]
  /\ raised = [p \in Peers |-> {}]
  /\ failures = 0
  /\ aborts = 0
  /\ duplicates = 0

-----------------------------------------------------------------------------
(* Effects shared by the handlers. *)

\* One packet more for q; the network drops what exceeds its capacity.
WithPacket(n, q, k) ==
  [n EXCEPT ![q][k] = IF @ < MaxCopies THEN @ + 1 ELSE @]

Send(q, k) == net' = WithPacket(net, q, k)

\* _sendChunk reads _remoteVerificationTag! before it suspends.
BeginSend(p, k) ==
  IF known[p] \/ k \in {"INIT", "ABORT_UNTAGGED"}
  THEN /\ pending[p][k] < MaxPending
       /\ pending' = [pending EXCEPT ![p][k] = @ + 1]
       /\ UNCHANGED raised
  ELSE /\ raised' = [raised EXCEPT ![p] = @ \cup {"null tag"}]
       /\ UNCHANGED pending

Raise(p, e) == raised' = [raised EXCEPT ![p] = @ \cup {e}]

\* _setState: the field is written, then add() throws if the stream is closed.
StateThrows(p, s) == disposed[p] /\ state[p] # s

SetState(p, s) ==
  /\ state' = [state EXCEPT ![p] = s]
  /\ IF StateThrows(p, s) THEN Raise(p, "stream closed") ELSE UNCHANGED raised

\* _setState(s); _tNStart(...): a throw in the first skips the second.
SetStateAndStartT1(p, s, k) ==
  /\ state' = [state EXCEPT ![p] = s]
  /\ CASE StateThrows(p, s) ->
            /\ Raise(p, "stream closed")
            /\ UNCHANGED <<t1, t1Failures>>
       [] ~StateThrows(p, s) /\ t1[p] # "off" ->
            /\ Raise(p, "t1 running")
            /\ UNCHANGED <<t1, t1Failures>>
       [] OTHER ->
            /\ t1' = [t1 EXCEPT ![p] = k]
            /\ t1Failures' = [t1Failures EXCEPT ![p] = 0]
            /\ UNCHANGED raised

SetStateAndStartT2(p, s) ==
  /\ state' = [state EXCEPT ![p] = s]
  /\ CASE StateThrows(p, s) ->
            /\ Raise(p, "stream closed")
            /\ UNCHANGED <<t2, t2Failures>>
       [] ~StateThrows(p, s) /\ t2[p] ->
            /\ Raise(p, "t2 running")
            /\ UNCHANGED <<t2, t2Failures>>
       [] OTHER ->
            /\ t2' = [t2 EXCEPT ![p] = TRUE]
            /\ t2Failures' = [t2Failures EXCEPT ![p] = 0]
            /\ UNCHANGED raised

CancelT1(p) == t1' = [t1 EXCEPT ![p] = "off"]
CancelT2(p) == t2' = [t2 EXCEPT ![p] = FALSE]

Dispose(p) ==
  /\ CancelT1(p)
  /\ CancelT2(p)
  /\ SetState(p, "closed")
  /\ disposed' = [disposed EXCEPT ![p] = TRUE]

-----------------------------------------------------------------------------
(* Calls of the transport. *)

\* connect(): the transport calls it once, on the ICE-controlling side.
Connect(p) ==
  /\ p \in Controlling /\ ~started[p]
  /\ started' = [started EXCEPT ![p] = TRUE]
  /\ IF state[p] = "closed"
     THEN BeginSend(p, "INIT")
     ELSE UNCHANGED <<pending, raised>>   \* StateError, caught by _startSctp
  /\ UNCHANGED <<state, known, t1, t1Failures, t2, t2Failures, disposed, net,
                 verified, budget>>

\* close(): only an established association does anything.
Close(p) ==
  /\ state[p] = "established"
  /\ SetState(p, "shutdownPending")
  /\ IF StateThrows(p, "shutdownPending")
     THEN UNCHANGED pending
     ELSE /\ pending[p]["SHUTDOWN"] < MaxPending
          /\ pending' = [pending EXCEPT ![p]["SHUTDOWN"] = @ + 1]
  /\ UNCHANGED <<known, t1, t1Failures, t2, t2Failures, disposed, net, started,
                 verified, budget>>

\* abort()
Abort(p) ==
  /\ failures + aborts + duplicates < MaxFaults
  /\ aborts' = aborts + 1
  /\ BeginSend(p, IF known[p] THEN "ABORT" ELSE "ABORT_UNTAGGED")
  /\ UNCHANGED <<state, known, t1, t1Failures, t2, t2Failures, disposed, net,
                 started, verified, failures, duplicates>>

-----------------------------------------------------------------------------
(* A suspended send completes: the packet is on the wire and the rest of the *)
(* handler runs.                                                            *)

Finish(p, k) ==
  /\ pending[p][k] > 0
  /\ pending' = [pending EXCEPT ![p][k] = @ - 1]
  /\ UNCHANGED <<known, started, verified, budget>>

InitSent(p) ==
  /\ Finish(p, "INIT")
  /\ Send(Other(p), "INIT")
  /\ SetStateAndStartT1(p, "cookieWait", "INIT")
  /\ UNCHANGED <<t2, t2Failures, disposed>>

\* Mutant: established as soon as the cookie is echoed.
CookieEchoSentTooEager(p) ==
  /\ Finish(p, "COOKIE_ECHO")
  /\ Send(Other(p), "COOKIE_ECHO")
  /\ SetState(p, "established")
  /\ UNCHANGED <<t1, t1Failures, t2, t2Failures, disposed>>

\* Mutant: T1 is not started for the COOKIE-ECHO.
CookieEchoSentUntimed(p) ==
  /\ Finish(p, "COOKIE_ECHO")
  /\ Send(Other(p), "COOKIE_ECHO")
  /\ SetState(p, "cookieEchoed")
  /\ UNCHANGED <<t1, t1Failures, t2, t2Failures, disposed>>

CookieEchoSent(p) ==
  /\ Finish(p, "COOKIE_ECHO")
  /\ Send(Other(p), "COOKIE_ECHO")
  /\ SetStateAndStartT1(p, "cookieEchoed", "COOKIE_ECHO")
  /\ UNCHANGED <<t2, t2Failures, disposed>>

CookieAckSent(p) ==
  /\ Finish(p, "COOKIE_ACK")
  /\ Send(Other(p), "COOKIE_ACK")
  /\ SetState(p, "established")
  /\ UNCHANGED <<t1, t1Failures, t2, t2Failures, disposed>>

\* Mutant: T2 is not started for the SHUTDOWN.
ShutdownSentUntimed(p) ==
  /\ Finish(p, "SHUTDOWN")
  /\ Send(Other(p), "SHUTDOWN")
  /\ SetState(p, "shutdownSent")
  /\ UNCHANGED <<t1, t1Failures, t2, t2Failures, disposed>>

ShutdownSent(p) ==
  /\ Finish(p, "SHUTDOWN")
  /\ Send(Other(p), "SHUTDOWN")
  /\ SetStateAndStartT2(p, "shutdownSent")
  /\ UNCHANGED <<t1, t1Failures, disposed>>

ShutdownAckSent(p) ==
  /\ Finish(p, "SHUTDOWN_ACK")
  /\ Send(Other(p), "SHUTDOWN_ACK")
  /\ SetState(p, "shutdownAckSent")
  /\ UNCHANGED <<t1, t1Failures, t2, t2Failures, disposed>>

ShutdownCompleteSent(p) ==
  /\ Finish(p, "SHUTDOWN_COMPLETE")
  /\ Send(Other(p), "SHUTDOWN_COMPLETE")
  /\ Dispose(p)
  /\ UNCHANGED <<t1Failures, t2Failures>>

\* The peer's tag check discards the ABORT that carries tag 0.
AbortSent(p) ==
  \/ /\ Finish(p, "ABORT")
     /\ Send(Other(p), "ABORT")
     /\ Dispose(p)
     /\ UNCHANGED <<t1Failures, t2Failures>>
  \/ /\ Finish(p, "ABORT_UNTAGGED")
     /\ Dispose(p)
     /\ UNCHANGED <<net, t1Failures, t2Failures>>

\* onSendPacket throws (no nominated pair): the rest of the handler is lost.
SendFails(p, k) ==
  /\ failures + aborts + duplicates < MaxFaults
  /\ failures' = failures + 1
  /\ pending[p][k] > 0
  /\ pending' = [pending EXCEPT ![p][k] = @ - 1]
  /\ UNCHANGED <<state, known, t1, t1Failures, t2, t2Failures, disposed, net,
                 started, verified, raised, aborts, duplicates>>

SendCompletes(p) ==
  \/ InitSent(p) \/ CookieEchoSent(p) \/ CookieAckSent(p) \/ ShutdownSent(p)
  \/ ShutdownAckSent(p) \/ ShutdownCompleteSent(p) \/ AbortSent(p)

-----------------------------------------------------------------------------
(* handlePacket: one action per chunk type; the packet leaves the network. *)

Receive(p, k) == net[p][k] > 0
Taken(p, k) == [net EXCEPT ![p][k] = @ - 1]
Take(p, k) == net' = Taken(p, k)

\* Mutant: the remote tag of an INIT is not kept.
HandleInitForgetsTag(p) ==
  /\ Receive(p, "INIT")
  /\ IF state[p] = "closed"
     THEN net' = WithPacket(Taken(p, "INIT"), Other(p), "INIT_ACK")
     ELSE Take(p, "INIT")
  /\ UNCHANGED <<state, known, t1, t1Failures, t2, t2Failures, disposed,
                 pending, started, verified, raised, budget>>

\* _handleInit: answered in state closed only, a disposed association included.
HandleInit(p) ==
  /\ Receive(p, "INIT")
  /\ IF state[p] = "closed"
     THEN /\ known' = [known EXCEPT ![p] = TRUE]
          /\ net' = WithPacket(Taken(p, "INIT"), Other(p), "INIT_ACK")
     ELSE Take(p, "INIT") /\ UNCHANGED known
  /\ UNCHANGED <<state, t1, t1Failures, t2, t2Failures, disposed, pending,
                 started, verified, raised, budget>>

HandleInitAck(p) ==
  /\ Receive(p, "INIT_ACK")
  /\ Take(p, "INIT_ACK")
  /\ IF state[p] = "cookieWait"
     THEN /\ CancelT1(p)
          /\ known' = [known EXCEPT ![p] = TRUE]
          /\ pending[p]["COOKIE_ECHO"] < MaxPending
          /\ pending' = [pending EXCEPT ![p]["COOKIE_ECHO"] = @ + 1]
     ELSE UNCHANGED <<t1, known, pending>>
  /\ UNCHANGED <<state, t1Failures, t2, t2Failures, disposed, started, verified,
                 raised, budget>>

\* _handleCookieEcho with a cookie in its lifetime: no check of _state.
HandleCookieEcho(p) ==
  /\ Receive(p, "COOKIE_ECHO")
  /\ Take(p, "COOKIE_ECHO")
  /\ BeginSend(p, "COOKIE_ACK")
  /\ verified' = [verified EXCEPT ![p] = TRUE]
  /\ UNCHANGED <<state, known, t1, t1Failures, t2, t2Failures, disposed,
                 started, budget>>

\* A cookie older than _cookieLifetime is answered by an ERROR chunk, which
\* the other end ignores (_handleChunk, default case).
HandleStaleCookieEcho(p) ==
  /\ Receive(p, "COOKIE_ECHO")
  /\ Take(p, "COOKIE_ECHO")
  /\ UNCHANGED <<state, known, t1, t1Failures, t2, t2Failures, disposed,
                 pending, started, verified, raised, budget>>

HandleCookieAck(p) ==
  /\ Receive(p, "COOKIE_ACK")
  /\ Take(p, "COOKIE_ACK")
  /\ IF state[p] = "cookieEchoed"
     THEN CancelT1(p) /\ SetState(p, "established")
     ELSE UNCHANGED <<t1, state, raised>>
  /\ UNCHANGED <<known, t1Failures, t2, t2Failures, disposed, pending, started,
                 verified, budget>>

HandleShutdown(p) ==
  /\ Receive(p, "SHUTDOWN")
  /\ Take(p, "SHUTDOWN")
  /\ IF state[p] = "established"
     THEN /\ SetState(p, "shutdownReceived")
          /\ IF StateThrows(p, "shutdownReceived")
             THEN UNCHANGED pending
             ELSE /\ pending[p]["SHUTDOWN_ACK"] < MaxPending
                  /\ pending' = [pending EXCEPT ![p]["SHUTDOWN_ACK"] = @ + 1]
     ELSE UNCHANGED <<state, pending, raised>>
  /\ UNCHANGED <<known, t1, t1Failures, t2, t2Failures, disposed, started,
                 verified, budget>>

HandleShutdownAck(p) ==
  /\ Receive(p, "SHUTDOWN_ACK")
  /\ Take(p, "SHUTDOWN_ACK")
  /\ IF state[p] = "shutdownSent"
     THEN /\ CancelT2(p)
          /\ pending[p]["SHUTDOWN_COMPLETE"] < MaxPending
          /\ pending' = [pending EXCEPT ![p]["SHUTDOWN_COMPLETE"] = @ + 1]
     ELSE UNCHANGED <<t2, pending>>
  /\ UNCHANGED <<state, known, t1, t1Failures, t2Failures, disposed, started,
                 verified, raised, budget>>

\* _handleShutdownComplete and _handleAbort: in any state.
HandleDisposing(p, k) ==
  /\ k \in {"SHUTDOWN_COMPLETE", "ABORT"}
  /\ Receive(p, k)
  /\ Take(p, k)
  /\ Dispose(p)
  /\ UNCHANGED <<known, t1Failures, t2Failures, pending, started, verified,
                 budget>>

HandleChunk(p) ==
  \/ HandleInit(p) \/ HandleInitAck(p) \/ HandleCookieEcho(p)
  \/ HandleStaleCookieEcho(p) \/ HandleCookieAck(p) \/ HandleShutdown(p)
  \/ HandleShutdownAck(p)
  \/ \E k \in {"SHUTDOWN_COMPLETE", "ABORT"} : HandleDisposing(p, k)

-----------------------------------------------------------------------------
(* Timers; their retransmissions are not awaited. *)

\* Mutant: T1 is not started again after a retransmission.
T1ExpiredOnce(p) ==
  /\ t1[p] # "off"
  /\ t1Failures[p] < MaxInit
  /\ t1Failures' = [t1Failures EXCEPT ![p] = @ + 1]
  /\ Send(Other(p), t1[p])
  /\ CancelT1(p)
  /\ UNCHANGED <<state, t2, disposed, raised, known, t2Failures, pending,
                 started, verified, budget>>

\* Mutant: one retransmission too many.
T1ExpiredOffByOne(p) ==
  /\ t1[p] # "off"
  /\ t1Failures' = [t1Failures EXCEPT ![p] = @ + 1]
  /\ Send(Other(p), t1[p])
  /\ t1Failures[p] <= MaxInit
  /\ UNCHANGED <<state, t1, t2, disposed, raised, known, t2Failures, pending,
                 started, verified, budget>>

\* After the last retransmission: _setState(closed); _dispose().  On a closed
\* stream the first throws and the second does not run.
T1Expired(p) ==
  /\ t1[p] # "off"
  /\ IF t1Failures[p] = MaxInit
     THEN /\ IF StateThrows(p, "closed")
             THEN CancelT1(p) /\ SetState(p, "closed") /\ UNCHANGED <<t2, disposed>>
             ELSE Dispose(p)
          /\ UNCHANGED <<t1Failures, net>>
     ELSE /\ t1Failures' = [t1Failures EXCEPT ![p] = @ + 1]
          /\ Send(Other(p), t1[p])
          /\ UNCHANGED <<state, t1, t2, disposed, raised>>
  /\ UNCHANGED <<known, t2Failures, pending, started, verified, budget>>

T2Expired(p) ==
  /\ t2[p]
  /\ IF t2Failures[p] = MaxAssoc
     THEN /\ IF StateThrows(p, "closed")
             THEN CancelT2(p) /\ SetState(p, "closed") /\ UNCHANGED <<t1, disposed>>
             ELSE Dispose(p)
          /\ UNCHANGED <<t2Failures, net>>
     ELSE /\ t2Failures' = [t2Failures EXCEPT ![p] = @ + 1]
          /\ Send(Other(p), "SHUTDOWN")
          /\ UNCHANGED <<state, t1, t2, disposed, raised>>
  /\ UNCHANGED <<known, t1Failures, pending, started, verified, budget>>

-----------------------------------------------------------------------------
(* The network.  DTLS runs over UDP and its record layer keeps no replay     *)
(* window, so packets are lost, reordered and duplicated.                    *)

Lose(p, k) ==
  /\ net[p][k] > 0
  /\ Take(p, k)
  /\ UNCHANGED <<state, known, t1, t1Failures, t2, t2Failures, disposed,
                 pending, started, verified, raised, budget>>

Duplicate(p, k) ==
  /\ net[p][k] > 0
  /\ failures + aborts + duplicates < MaxFaults
  /\ duplicates' = duplicates + 1
  /\ net' = [net EXCEPT ![p][k] = @ + 1]
  /\ UNCHANGED <<state, known, t1, t1Failures, t2, t2Failures, disposed,
                 pending, started, verified, raised, failures, aborts>>

Next ==
  \E p \in Peers :
    \/ Connect(p) \/ Close(p) \/ Abort(p)
    \/ SendCompletes(p)
    \/ \E k \in Awaited : SendFails(p, k)
    \/ HandleChunk(p)
    \/ T1Expired(p) \/ T2Expired(p)
    \/ \E k \in Kinds : Lose(p, k) \/ Duplicate(p, k)

Spec == Init /\ [][Next]_vars

\* Sends complete and timers fire; nothing is assumed of the network.
Fairness ==
  \A p \in Peers :
    /\ WF_vars(InitSent(p)) /\ WF_vars(CookieEchoSent(p))
    /\ WF_vars(CookieAckSent(p)) /\ WF_vars(ShutdownSent(p))
    /\ WF_vars(ShutdownAckSent(p)) /\ WF_vars(ShutdownCompleteSent(p))
    /\ WF_vars(AbortSent(p))
    /\ WF_vars(T1Expired(p))
    /\ WF_vars(T2Expired(p))

FairSpec == Spec /\ Fairness

(* Properties. *)

Synchronised == States \ {"closed", "cookieWait", "cookieEchoed"}

\* _remoteVerificationTag! never fails: whatever order packets arrive in, a
\* handler that answers with the remote tag has learned it before.
NoNullTag == \A p \in Peers : "null tag" \notin raised[p]

\* An end that is established, or shutting down, is never alone: each end has
\* learned the tag and initial TSN of the other, and one of them has seen its
\* own state cookie come back.
EstablishedIsMutual ==
  \A p \in Peers :
    state[p] \in Synchronised =>
      /\ known[p] /\ known[Other(p)]
      /\ verified[p] \/ verified[Other(p)]

\* A live association that waits for an answer has a timer, or a send in
\* progress that will start it.
Timed(p) ==
  \/ disposed[p]
  \/ /\ state[p] \in {"cookieWait", "cookieEchoed"} =>
          t1[p] # "off" \/ pending[p]["COOKIE_ECHO"] > 0
     /\ state[p] = "shutdownPending" => t2[p] \/ pending[p]["SHUTDOWN"] > 0
     /\ state[p] = "shutdownSent" =>
          t2[p] \/ pending[p]["SHUTDOWN_COMPLETE"] > 0

\* No end waits for ever for want of a timer, as long as no send throws.
WaitIsTimed == failures = 0 => \A p \in Peers : Timed(p)

\* A handshake in progress ends, established or given up, whatever is lost, as long as
\* no send throws.
HandshakeResolves ==
  \A p \in Peers :
    state[p] \in {"cookieWait", "cookieEchoed"} ~>
      state[p] \in {"established", "closed"} \/ disposed[p] \/ failures > 0

\* The end that started a shutdown leaves it, whatever is lost; a late
\* COOKIE-ECHO may have brought it back to established.
ShutdownResolves ==
  \A p \in Peers :
    state[p] \in {"shutdownPending", "shutdownSent"} ~>
      state[p] \in {"established", "closed"} \/ disposed[p] \/ failures > 0

\* An association whose resources are disposed of stays closed.  The code
\* does not: a handler suspended in a send, or a late COOKIE-ECHO, moves it on.
DisposedStaysClosed ==
  \A p \in Peers : disposed[p] => state[p] = "closed"

\* T1 is started once at a time (the StateError of _t1Start is never thrown).
\* Two INIT-ACKs handled before the first COOKIE-ECHO is out break it.
T1StartedOnce == \A p \in Peers : "t1 running" \notin raised[p]

\* The end that accepted a shutdown closes.  It has no timer: the loss of the
\* SHUTDOWN-ACK or of the SHUTDOWN-COMPLETE leaves it waiting for ever.
AcceptedShutdownResolves ==
  \A p \in Peers : state[p] = "shutdownAckSent" ~> state[p] # "shutdownAckSent"
=============================================================================
