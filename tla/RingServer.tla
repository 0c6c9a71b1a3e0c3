----------------------------- MODULE RingServer -----------------------------
(***************************************************************************)
(* The camera server that the library's media tests are compared with      *)
(* (interop/werift_ring_server.ts): it opens a live call to a camera,      *)
(* offers the video to every browser that connects to its WebSocket, and   *)
(* serves the page whose script answers, counts the video frames and       *)
(* leaves its verdict in window.testResult.                                *)
(*                                                                         *)
(* Server and pages run to the next await in one step; a promise that is   *)
(* awaited resolves in a step of its own, and a timer may fire at any      *)
(* moment before it does.  ICE, the camera and the driver that closes the  *)
(* browser are external.                                                   *)
(***************************************************************************)
EXTENDS Integers, Sequences

CONSTANTS
  Clients,        \* the browsers
  EnoughFrames,   \* videoFrameCount > 10 is a success: 10
  MaxPackets      \* bound: RTP packets that the camera sends

ASSUME RingAssumption == EnoughFrames \in Nat /\ MaxPackets \in Nat

VARIABLES
  server,     \* main(): the await it is at, "serving" after the last, or "exited"
  packets,    \* rtpPacketCount
  handler,    \* of each client's connection: the listener of "connection"
  pc,         \* the server's peer connection for the client
  toPage,     \* messages on the WebSocket to the page
  toServer,   \* messages and the close on the WebSocket to the server
  page,       \* runTest(): the await it is at, or "done"
  forwarded,  \* RTP packets on the way to the page, and frames not yet shown
  frames,     \* videoFrameCount
  result,     \* window.testResult
  missed      \* history: clients of which a message met no listener

serverVars == <<server, packets>>
clientVars == <<handler, pc, toPage, toServer, page, forwarded, frames, result, missed>>
vars == <<serverVars, clientVars>>

TypeOK ==
  /\ server \in {"starting", "getCameras", "startLiveCall", "serving", "exited"}
  /\ packets \in 0..MaxPackets
  /\ handler \in [Clients -> {"none", "offering", "listening"}]
  /\ pc \in [Clients -> {"none", "new", "offered", "applying", "stable", "connected", "closed"}]
  /\ \A c \in Clients : Len(toPage[c]) <= 1 /\ Len(toServer[c]) <= 2
  /\ page \in [Clients -> {"none", "connecting", "offer", "remote", "answer", "gathering",
                           "video", "stability", "done", "closed"}]
  /\ forwarded \in [Clients -> 0..MaxPackets] /\ frames \in [Clients -> 0..MaxPackets]
  /\ result \in [Clients -> {"none", "success", "failure"}]
  /\ missed \subseteq Clients

Init ==
  /\ server = "starting" /\ packets = 0
  /\ handler = [c \in Clients |-> "none"] /\ pc = [c \in Clients |-> "none"]
  /\ toPage = [c \in Clients |-> << >>] /\ toServer = [c \in Clients |-> << >>]
  /\ page = [c \in Clients |-> "none"]
  /\ forwarded = [c \in Clients |-> 0] /\ frames = [c \in Clients |-> 0]
  /\ result = [c \in Clients |-> "none"] /\ missed = {}

-----------------------------------------------------------------------------
(* main() *)

\* process.exit(1): without a token, without a camera, or by main().catch.
Exit == server \in {"starting", "getCameras", "startLiveCall"} /\ server' = "exited"

ReadToken == server = "starting" /\ server' = "getCameras"
FoundCamera == server = "getCameras" /\ server' = "startLiveCall"
LiveCallStarted == server = "startLiveCall" /\ server' = "serving"

Start ==
  /\ ReadToken \/ FoundCamera \/ LiveCallStarted \/ Exit
  /\ UNCHANGED <<packets, clientVars>>

\* onVideoRtp, subscribed before the live call is started: the packet is counted
\* and written to the track, which every connected peer connection sends.
OnVideoRtp ==
  /\ server \in {"startLiveCall", "serving"}
  /\ packets < MaxPackets /\ packets' = packets + 1
  /\ forwarded' = [c \in Clients |-> IF pc[c] = "connected" THEN forwarded[c] + 1 ELSE forwarded[c]]
  /\ UNCHANGED <<server, handler, pc, toPage, toServer, page, frames, result, missed>>

-----------------------------------------------------------------------------
(* The server's side of a client *)

\* The page is served and runTest() opens the WebSocket.
ServePage(c) ==
  /\ server = "serving" /\ page[c] = "none"
  /\ page' = [page EXCEPT ![c] = "connecting"]
  /\ UNCHANGED <<serverVars, handler, pc, toPage, toServer, forwarded, frames, result, missed>>

\* "connection": a peer connection with the track, and the first await.
OnConnection(c) ==
  /\ server = "serving" /\ page[c] = "connecting" /\ handler[c] = "none"
  /\ handler' = [handler EXCEPT ![c] = "offering"]
  /\ pc' = [pc EXCEPT ![c] = "new"]
  /\ UNCHANGED <<serverVars, toPage, toServer, page, forwarded, frames, result, missed>>

\* The offer is made and set: it is sent, and the listeners of "message" and
\* "close" are registered before the next event.
\* Mutant: the listeners are registered after one more await, which never ends.
SendOffer_ListensLate(c) ==
  /\ server = "serving" /\ handler[c] = "offering" /\ pc[c] = "new"
  /\ pc' = [pc EXCEPT ![c] = "offered"]
  /\ toPage' = [toPage EXCEPT ![c] = IF page[c] = "closed" THEN @ ELSE Append(@, "offer")]
  /\ UNCHANGED <<serverVars, handler, toServer, page, forwarded, frames, result, missed>>
SendOffer(c) ==
  /\ server = "serving" /\ handler[c] = "offering"
  /\ handler' = [handler EXCEPT ![c] = "listening"]
  /\ pc' = [pc EXCEPT ![c] = "offered"]
  /\ toPage' = [toPage EXCEPT ![c] = IF page[c] = "closed" THEN @ ELSE Append(@, "offer")]
  /\ UNCHANGED <<serverVars, toServer, page, forwarded, frames, result, missed>>

\* The offer cannot be made: nothing catches the error, and the process ends.
Crash(c) ==
  /\ server = "serving" /\ handler[c] = "offering" /\ server' = "exited"
  /\ pc' = [d \in Clients |-> IF pc[d] = "none" THEN "none" ELSE "closed"]
  /\ toServer' = [d \in Clients |-> << >>]
  /\ UNCHANGED <<packets, handler, toPage, page, forwarded, frames, result, missed>>

\* A message or the close of the socket arrives.
\* Mutant: a connection that is applying an answer does not close.
OnSocket_CloseIgnored(c) ==
  /\ server = "serving" /\ toServer[c] # << >>
  /\ toServer' = [toServer EXCEPT ![c] = Tail(@)]
  /\ IF handler[c] # "listening" THEN missed' = missed \cup {c} /\ UNCHANGED pc
     ELSE /\ UNCHANGED missed
          /\ pc' = [pc EXCEPT ![c] = IF Head(toServer[c]) = "answer" \/ @ = "applying"
                                       THEN "applying" ELSE "closed"]
  /\ UNCHANGED <<serverVars, handler, toPage, page, forwarded, frames, result>>
OnSocket(c) ==
  /\ server = "serving" /\ toServer[c] # << >>
  /\ toServer' = [toServer EXCEPT ![c] = Tail(@)]
  /\ IF handler[c] # "listening" THEN missed' = missed \cup {c} /\ UNCHANGED pc
     ELSE /\ UNCHANGED missed
          /\ pc' = [pc EXCEPT ![c] = IF Head(toServer[c]) = "answer" THEN "applying" ELSE "closed"]
  /\ UNCHANGED <<serverVars, handler, toPage, page, forwarded, frames, result>>

\* setRemoteDescription(answer) ends, unless close() came first: then it throws,
\* and the error is logged.
AnswerApplied(c) ==
  /\ server = "serving" /\ pc[c] = "applying"
  /\ pc' = [pc EXCEPT ![c] = "stable"]
  /\ UNCHANGED <<serverVars, handler, toPage, toServer, page, forwarded, frames, result, missed>>

\* ICE and DTLS between the two peer connections succeed.
Connect(c) ==
  /\ pc[c] = "stable" /\ page[c] \in {"video", "stability", "done"}
  /\ pc' = [pc EXCEPT ![c] = "connected"]
  /\ UNCHANGED <<serverVars, handler, toPage, toServer, page, forwarded, frames, result, missed>>

-----------------------------------------------------------------------------
(* runTest() in the page *)

At(c, from, to) == page[c] = from /\ page' = [page EXCEPT ![c] = to]

\* The catch clause: a timer fired, or a call threw.
\* Mutant: the offer is waited for without a timer.
Failed_WaitsForOffer(c) ==
  /\ page[c] \in {"connecting", "remote", "answer", "gathering"}
  /\ page' = [page EXCEPT ![c] = "done"]
  /\ result' = [result EXCEPT ![c] = "failure"]
  /\ UNCHANGED <<serverVars, handler, pc, toPage, toServer, forwarded, frames, missed>>
Failed(c) ==
  /\ page[c] \in {"connecting", "offer", "remote", "answer", "gathering"}
  /\ page' = [page EXCEPT ![c] = "done"]
  /\ result' = [result EXCEPT ![c] = "failure"]
  /\ UNCHANGED <<serverVars, handler, pc, toPage, toServer, forwarded, frames, missed>>

\* The socket is open, and the script waits for the offer before it can arrive.
Opened(c) ==
  /\ handler[c] # "none" /\ At(c, "connecting", "offer")
  /\ UNCHANGED <<serverVars, handler, pc, toPage, toServer, forwarded, frames, result, missed>>

\* The offer arrives, after the open; a page that has given up has no use for it.
OnMessage(c) ==
  /\ toPage[c] # << >> /\ page[c] # "connecting"
  /\ toPage' = [toPage EXCEPT ![c] = Tail(@)]
  /\ page' = [page EXCEPT ![c] = IF @ = "offer" THEN "remote" ELSE @]
  /\ UNCHANGED <<serverVars, handler, pc, toServer, forwarded, frames, result, missed>>

\* setRemoteDescription, then createAnswer and setLocalDescription.
Describe(c) ==
  /\ At(c, "remote", "answer") \/ At(c, "answer", "gathering")
  /\ UNCHANGED <<serverVars, handler, pc, toPage, toServer, forwarded, frames, result, missed>>

\* Gathering is complete, or five seconds have passed: the answer is sent.
SendAnswer(c) ==
  /\ At(c, "gathering", "video")
  /\ toServer' = [toServer EXCEPT ![c] = Append(@, "answer")]
  /\ UNCHANGED <<serverVars, handler, pc, toPage, forwarded, frames, result, missed>>

\* requestVideoFrameCallback: some of the packets make a frame that is shown.
Shown(n) == {n, n + 1}
Frame(c) ==
  /\ forwarded[c] > 0 /\ page[c] \in {"video", "stability", "done"}
  /\ forwarded' = [forwarded EXCEPT ![c] = @ - 1]
  /\ \E n \in Shown(frames[c]) : frames' = [frames EXCEPT ![c] = n]
  /\ UNCHANGED <<serverVars, handler, pc, toPage, toServer, page, result, missed>>

Verdict(c) == IF frames[c] > EnoughFrames THEN "success" ELSE "failure"

\* Mutant: video that was received at all is a success.
VideoAwaited_AnyFrame(c) ==
  /\ \/ frames[c] > 0 /\ At(c, "video", "done") /\ result' = [result EXCEPT ![c] = "success"]
     \/ frames[c] = 0 /\ At(c, "video", "done") /\ result' = [result EXCEPT ![c] = Verdict(c)]
  /\ UNCHANGED <<serverVars, handler, pc, toPage, toServer, forwarded, frames, missed>>
\* A frame was counted and the page waits for stability, or thirty seconds have
\* passed without one and it reports.
VideoAwaited(c) ==
  /\ \/ frames[c] > 0 /\ At(c, "video", "stability") /\ UNCHANGED result
     \/ frames[c] = 0 /\ At(c, "video", "done") /\ result' = [result EXCEPT ![c] = Verdict(c)]
  /\ UNCHANGED <<serverVars, handler, pc, toPage, toServer, forwarded, frames, missed>>

Report(c) ==
  /\ At(c, "stability", "done") /\ result' = [result EXCEPT ![c] = Verdict(c)]
  /\ UNCHANGED <<serverVars, handler, pc, toPage, toServer, forwarded, frames, missed>>

\* The driver has read the result, or waited sixty seconds, and closes the
\* browser; the page itself never closes the socket.
ClosePage(c) ==
  /\ page[c] \notin {"none", "closed"}
  /\ page' = [page EXCEPT ![c] = "closed"]
  /\ toPage' = [toPage EXCEPT ![c] = << >>]
  /\ toServer' = [toServer EXCEPT ![c] = IF handler[c] = "none" THEN @ ELSE Append(@, "close")]
  /\ forwarded' = [forwarded EXCEPT ![c] = 0]
  /\ UNCHANGED <<serverVars, handler, pc, frames, result, missed>>

ServerStep(c) == SendOffer(c) \/ OnSocket(c) \/ AnswerApplied(c)
PageStep(c) == Opened(c) \/ OnMessage(c) \/ Describe(c) \/ SendAnswer(c) \/ VideoAwaited(c) \/ Report(c)

Next ==
  \/ Start \/ OnVideoRtp
  \/ \E c \in Clients :
       \/ ServePage(c) \/ OnConnection(c) \/ Crash(c) \/ Connect(c) \/ Frame(c) \/ ClosePage(c)
       \/ Failed(c) \/ ServerStep(c) \/ PageStep(c)

Spec == Init /\ [][Next]_vars

\* Promises of the server resolve, sockets deliver, and the page's awaits end,
\* by their event or by their timer.
Fairness ==
  \A c \in Clients : /\ WF_vars(ServerStep(c)) /\ WF_vars(PageStep(c))
                     /\ WF_vars(OnConnection(c)) /\ WF_vars(Failed(c))
FairSpec == Spec /\ Fairness

-----------------------------------------------------------------------------
\* A page says success only when the server has applied its answer and the
\* camera's packets reached it in more than EnoughFrames frames.
SuccessIsEarned ==
  \A c \in Clients : result[c] = "success" =>
    /\ pc[c] \in {"connected", "closed"}
    /\ frames[c] > EnoughFrames /\ packets > EnoughFrames

\* The answer finds the listener however fast the page is; only the close of a
\* socket can come while the offer is still being made, and then nobody closes
\* the server's connection for a page that has gone.
NothingIsMissed ==
  \A c \in missed :
    page[c] = "closed" /\ (pc[c] \in {"new", "offered"} \/ server = "exited")

\* Every page that is served reaches a verdict, or is closed: no await of its
\* script is without a timer or a peer that must answer.
VerdictIsReached ==
  \A c \in Clients : page[c] = "connecting" ~> (result[c] # "none" \/ page[c] = "closed")

\* When a page has gone and its close is heard, the server's connection for it
\* closes, even while it applies the answer, and stays closed.
GoneIsReleased ==
  \A c \in Clients :
    page[c] = "closed" /\ handler[c] # "none" ~> [](c \in missed \/ pc[c] = "closed")
=============================================================================
