---------------------------- MODULE DataChannels ----------------------------
(***************************************************************************)
(* Data channels of two peers over one SCTP association: the channel       *)
(* manager and DCEP (lib/src/datachannel) and the stream reconfiguration   *)
(* that closes channels (lib/src/sctp/association.dart).                   *)
(*                                                                         *)
(* The association is established.  Of its data path the module keeps the  *)
(* promise of MessageDelivery for reliable messages: the ordered messages  *)
(* of a stream arrive in order, the unordered ones whenever they like.     *)
(* RECONFIG chunks are not data: they are lost and reordered, and a timer  *)
(* that fires early makes a second copy of any request and its response.   *)
(*                                                                         *)
(* A handler runs up to its next await of a send as one step and leaves a  *)
(* task; awaits that wait for no send are not suspension points.  A send   *)
(* of a RECONFIG chunk may throw: nothing goes out and the rest of the     *)
(* handler, which is all that the task would do, does not run.  sendData   *)
(* awaits no send, so one of DATA that throws is no business of a channel: *)
(* its message arrives later or never.                                     *)
(***************************************************************************)
EXTENDS Integers, SequencesExt

CONSTANTS
  Unordered,            \* the stream ids of channels of an unordered type
  StreamsPerRequest,    \* maxStreamsPerRequest: 32 in the program
  MaxChannels,          \* bound: how many channels each peer creates at most
  Scenarios             \* bounds: what may happen in a behaviour, see Scenario

Peers == {"client", "server"}       \* the DTLS roles

Other(p) == CHOOSE q \in Peers : q # p

\* _nextStreamId of a new manager, and the ids that p's channels get.
FirstId(p) == IF p = "server" THEN 1 ELSE 0
OwnIds(p) == {FirstId(p) + 2 * k : k \in 0 .. MaxChannels[p] - 1}
Ids == UNION {OwnIds(p) : p \in Peers}

\* The bounds of a behaviour: channels created by each peer, messages that each
\* sends on a channel, suspended handlers of a peer, RECONFIG chunks lost, sends
\* of them that throw, expiries of the timer before the answer is lost, channels
\* closed one by one at both peers together, and calls of the manager's close().
Scenario ==
  [channels : [Peers -> Nat], messages : [Peers -> [Ids -> Nat]], tasks : Nat, losses : Nat,
   failures : Nat, early : Nat, closes : Nat, closeAlls : Nat]

ASSUME BoundsAssumption ==
  /\ StreamsPerRequest \in Nat \ {0}
  /\ MaxChannels \in [Peers -> Nat]
  /\ Scenarios \subseteq Scenario

VARIABLES
  nextId,       \* _nextStreamId
  channel,      \* the state of the channel with an id; "none" when never made
  registered,   \* the keys of _channels
  queue,        \* reconfigQueue
  request,      \* _reconfigRequest: at most one
  nextSeq,      \* _reconfigRequestSeq, counted from 0
  timer,        \* _reconfigTimer is running
  tasks,        \* handlers suspended in a send
  wire,         \* messages on the way to a peer, by stream, in sending order
  chunks,       \* RECONFIG chunks on the way to a peer
  sent,         \* history: messages a channel has sent
  got,          \* history: messages given to onMessage
  dropped,      \* history: messages that arrived and were not
  asked,        \* history: the channels on which close() was called, and their state then
  unsent,       \* history: the peers at which the send of a request has thrown
  failures, losses, earlies, closeAlls,
  scenario      \* the bounds of this behaviour

throwVars == <<failures, unsent>>
reconfigVars == <<queue, request, nextSeq, timer, tasks, chunks, throwVars>>
dataVars == <<wire, sent, got, dropped>>
budget == <<losses, earlies, closeAlls>>
vars == <<nextId, channel, registered, reconfigVars, dataVars, asked, budget, scenario>>

States == {"none", "connecting", "open", "closing", "closed"}
Requests == [type : {"request"}, seq : Nat, streams : SUBSET Ids]

TypeOK ==
  /\ scenario \in Scenarios
  /\ nextId \in [Peers -> Nat]
  /\ channel \in [Peers -> [Ids -> States]]
  /\ registered \in [Peers -> SUBSET Ids]
  /\ \A p \in Peers :
       /\ ToSet(queue[p]) \subseteq Ids /\ IsInjective(queue[p])
       /\ Cardinality(request[p]) <= 1 /\ request[p] \subseteq Requests
       /\ \A r \in request[p] : r.streams \cap ToSet(queue[p]) = {}
       /\ \A id \in registered[p] : channel[p][id] \notin {"none", "closed"}
       /\ Len(tasks[p]) <= scenario.tasks
  /\ timer \in [Peers -> BOOLEAN]
  /\ asked \in [Peers -> SUBSET (Ids \X States)] /\ unsent \subseteq Peers

Init ==
  /\ nextId = [p \in Peers |-> FirstId(p)]
  /\ channel = [p \in Peers |-> [id \in Ids |-> "none"]]
  /\ registered = [p \in Peers |-> {}]
  /\ queue = [p \in Peers |-> << >>] /\ request = [p \in Peers |-> {}]
  /\ nextSeq = [p \in Peers |-> 0] /\ timer = [p \in Peers |-> FALSE]
  /\ tasks = [p \in Peers |-> << >>]
  /\ wire = [p \in Peers |-> [id \in Ids |-> << >>]]
  /\ chunks = [p \in Peers |-> {}]
  /\ sent = [p \in Peers |-> [id \in Ids |-> 0]]
  /\ got = [p \in Peers |-> [id \in Ids |-> << >>]]
  /\ dropped = [p \in Peers |-> [id \in Ids |-> {}]]
  /\ asked = [p \in Peers |-> {}]
  /\ unsent = {}
  /\ failures = 0 /\ losses = 0 /\ earlies = 0 /\ closeAlls = 0
  /\ scenario \in Scenarios

-----------------------------------------------------------------------------
(* Opening and messages *)

Message(kind, n, unordered) == [kind |-> kind, n |-> n, unordered |-> unordered]
Append2(f, p, id, x) == [f EXCEPT ![p][id] = Append(@, x)]

\* createDataChannel, with the OPEN that open() sends.
CreateDataChannel(p) ==
  LET id == nextId[p]
  IN  /\ id \in OwnIds(p) /\ id < FirstId(p) + 2 * scenario.channels[p]
      /\ nextId' = [nextId EXCEPT ![p] = @ + 2]
      /\ channel' = [channel EXCEPT ![p][id] = "connecting"]
      /\ registered' = [registered EXCEPT ![p] = @ \cup {id}]
      /\ wire' = Append2(wire, Other(p), id, Message("OPEN", 0, FALSE))
      /\ UNCHANGED <<reconfigVars, sent, got, dropped, asked, budget>>

\* Mutant: the flag is not negated.
Send_Inverted(p, id) ==
  /\ channel[p][id] = "open" /\ sent[p][id] < scenario.messages[p][id]
  /\ sent' = [sent EXCEPT ![p][id] = @ + 1]
  /\ wire' = Append2(wire, Other(p), id,
                     Message("DATA", sent[p][id] + 1, id \notin Unordered))
  /\ UNCHANGED <<nextId, channel, registered, reconfigVars, got, dropped, asked, budget>>
\* sendString and sendBinary: they throw unless the channel is open.
Send(p, id) ==
  /\ channel[p][id] = "open" /\ sent[p][id] < scenario.messages[p][id]
  /\ sent' = [sent EXCEPT ![p][id] = @ + 1]
  /\ wire' = Append2(wire, Other(p), id, Message("DATA", sent[p][id] + 1, id \in Unordered))
  /\ UNCHANGED <<nextId, channel, registered, reconfigVars, got, dropped, asked, budget>>

\* The SCTP promise: an ordered message waits for the ordered ones before it.
Deliverable(p, id) ==
  {i \in DOMAIN wire[p][id] :
     wire[p][id][i].unordered \/ \A j \in 1 .. i - 1 : wire[p][id][j].unordered}

\* Mutant: the channel stays in connecting after the ACK has been sent.
HandleOpen_NotOpened(p, id, i) ==
  /\ wire[p][id][i].kind = "OPEN"
  /\ registered' = [registered EXCEPT ![p] = @ \cup {id}]
  /\ channel' = [channel EXCEPT ![p][id] = "connecting"]
  /\ wire' = Append2([wire EXCEPT ![p][id] = RemoveAt(@, i)], Other(p), id,
                     Message("ACK", 0, FALSE))
  /\ UNCHANGED <<got, dropped>>
\* An OPEN makes the channel when the stream is unknown; either way it is
\* answered by an ACK and the channel is open.
HandleOpen(p, id, i) ==
  /\ wire[p][id][i].kind = "OPEN"
  /\ registered' = [registered EXCEPT ![p] = @ \cup {id}]
  /\ channel' = [channel EXCEPT ![p][id] = "open"]
  /\ wire' = Append2([wire EXCEPT ![p][id] = RemoveAt(@, i)], Other(p), id,
                     Message("ACK", 0, FALSE))
  /\ UNCHANGED <<got, dropped>>

HandleAck(p, id, i) ==
  /\ wire[p][id][i].kind = "ACK"
  /\ channel' = IF id \in registered[p] /\ channel[p][id] = "connecting"
                THEN [channel EXCEPT ![p][id] = "open"] ELSE channel
  /\ wire' = [wire EXCEPT ![p][id] = RemoveAt(@, i)]
  /\ UNCHANGED <<registered, got, dropped>>

\* User data for a channel that is not open is dropped.
HandleUserData(p, id, i) ==
  LET n == wire[p][id][i].n
  IN  /\ wire[p][id][i].kind = "DATA"
      /\ IF id \in registered[p] /\ channel[p][id] = "open"
         THEN got' = Append2(got, p, id, n) /\ UNCHANGED dropped
         ELSE dropped' = [dropped EXCEPT ![p][id] = @ \cup {n}] /\ UNCHANGED got
      /\ wire' = [wire EXCEPT ![p][id] = RemoveAt(@, i)]
      /\ UNCHANGED <<registered, channel>>

HandleIncomingData(p, id) ==
  /\ \E i \in Deliverable(p, id) :
       HandleOpen(p, id, i) \/ HandleAck(p, id, i) \/ HandleUserData(p, id, i)
  /\ UNCHANGED <<nextId, reconfigVars, sent, asked, budget>>

-----------------------------------------------------------------------------
(* Closing, by stream reconfiguration *)

\* What a suspended handler does when its send completes: start the timer
\* (started), then what at says.  known is _channels as the manager's close()
\* found it.
Task(at, streams, started) == [at |-> at, streams |-> streams, started |-> started, known |-> {}]
Response(seq) == [type |-> "response", seq |-> seq, streams |-> {}]

\* transmitReconfigRequest sends a request when streams are queued and none is
\* in flight.
MayTransmit(q, pending) == q # << >> /\ pending = {}

Throw == failures < scenario.failures /\ failures' = failures + 1

\* The request is pending before it is sent, and its timer starts after: when the
\* send throws, it stays pending with no timer, and its caller ends there.
Transmit(p, q, others, rest, left) ==
  LET n == Min({StreamsPerRequest, Len(q)})
      made == [type |-> "request", seq |-> nextSeq[p], streams |-> ToSet(SubSeq(q, 1, n))]
  IN  /\ queue' = [queue EXCEPT ![p] = SubSeq(q, n + 1, Len(q))]
      /\ request' = [request EXCEPT ![p] = {made}]
      /\ nextSeq' = [nextSeq EXCEPT ![p] = @ + 1]
      /\ \/ /\ Len(others) < scenario.tasks
            /\ tasks' = [tasks EXCEPT ![p] = Append(others, [rest EXCEPT !.started = TRUE])]
            /\ chunks' = [left EXCEPT ![Other(p)] = @ \cup {made}]
            /\ UNCHANGED throwVars
         \/ /\ Throw /\ unsent' = unsent \cup {p}
            /\ tasks' = [tasks EXCEPT ![p] = others]
            /\ chunks' = left

\* onReconfigStreams: the manager closes the channels and forgets them.
ResetStreams(p, streams) ==
  /\ channel' = [channel EXCEPT ![p] =
                   [id \in Ids |-> IF id \in streams \cap registered[p] THEN "closed" ELSE @[id]]]
  /\ registered' = [registered EXCEPT ![p] = @ \ streams]

\* close() of one channel; resumes are the tasks its caller has when nothing
\* was sent, and rest is the caller's task when a request was.
CloseChannel(p, id, others, resumes, rest) ==
  LET q == IF id \in ToSet(queue[p]) THEN queue[p] ELSE Append(queue[p], id)
  IN  /\ channel' = [channel EXCEPT ![p][id] = "closing"]
      /\ asked' = [asked EXCEPT ![p] = @ \cup {<<id, channel[p][id]>>}]
      /\ IF Len(q) = 1 /\ MayTransmit(q, request[p])
         THEN Transmit(p, q, others, rest, chunks)
         ELSE /\ queue' = [queue EXCEPT ![p] = q]
              /\ tasks' = [tasks EXCEPT ![p] = others \o resumes]
              /\ UNCHANGED <<request, nextSeq, chunks, throwVars>>

Close(p, id) ==
  /\ channel[p][id] \in {"connecting", "open"}
  /\ Cardinality(asked[p]) + Cardinality(asked[Other(p)]) < scenario.closes
  /\ CloseChannel(p, id, tasks[p], << >>, Task("done", {}, FALSE))
  /\ UNCHANGED <<nextId, registered, timer, dataVars, budget>>

\* The manager's close() starts: a loop over _channels with an await in it.
CloseAll(p) ==
  /\ closeAlls < scenario.closeAlls /\ closeAlls' = closeAlls + 1
  /\ Len(tasks[p]) < scenario.tasks
  /\ tasks' = [tasks EXCEPT ![p] = Append(@, [at |-> "closeAll", streams |-> registered[p],
                                             started |-> FALSE, known |-> registered[p]])]
  /\ UNCHANGED <<nextId, channel, registered, queue, request, nextSeq, timer, chunks, throwVars,
                 dataVars, asked, losses, earlies>>

-----------------------------------------------------------------------------
(* Handlers that go on after a send *)

\* The response has been sent, and the channels are closed.  The call of
\* transmitReconfigRequest() before it finds nothing to send: see QueueWaits.
AfterResponse(p, task, others) ==
  /\ task.at = "response"
  /\ tasks' = [tasks EXCEPT ![p] = others]
  /\ ResetStreams(p, task.streams)
  /\ UNCHANGED <<queue, request, nextSeq, chunks, asked, throwVars>>

AfterLast(p, task, others) ==
  /\ task.at = "done"
  /\ tasks' = [tasks EXCEPT ![p] = others]
  /\ UNCHANGED <<channel, registered, queue, request, nextSeq, chunks, asked, throwVars>>

\* The loop over _channels: it throws when the map has changed, closes the next
\* channel (a closed or closing one is only passed), or clears the map.
NextChannel(p, task, others) ==
  /\ task.at = "closeAll"
  /\ \/ /\ registered[p] # task.known
        /\ tasks' = [tasks EXCEPT ![p] = others]
        /\ UNCHANGED <<channel, registered, queue, request, nextSeq, chunks, asked, throwVars>>
     \/ /\ registered[p] = task.known /\ task.streams = {}
        /\ tasks' = [tasks EXCEPT ![p] = others]
        /\ registered' = [registered EXCEPT ![p] = {}]
        /\ UNCHANGED <<channel, queue, request, nextSeq, chunks, asked, throwVars>>
     \/ /\ registered[p] = task.known
        /\ \E id \in task.streams :
             LET rest == [task EXCEPT !.streams = @ \ {id}, !.started = FALSE]
             IN  IF channel[p][id] \in {"connecting", "open"}
                 THEN CloseChannel(p, id, others, <<rest>>, rest)
                 ELSE /\ tasks' = [tasks EXCEPT ![p] = Append(others, rest)]
                      /\ UNCHANGED <<channel, queue, request, nextSeq, chunks, asked, throwVars>>
        /\ UNCHANGED registered

SendCompletes(p) ==
  /\ \E k \in DOMAIN tasks[p] :
       LET task == tasks[p][k]
           others == RemoveAt(tasks[p], k)
       IN  /\ timer' = [timer EXCEPT ![p] = @ \/ task.started]
           /\ \/ AfterResponse(p, task, others) \/ AfterLast(p, task, others)
              \/ NextChannel(p, task, others)
  /\ UNCHANGED <<nextId, dataVars, budget>>

\* The request, or the response to it, is on the way.
Underway(p) ==
  \E r \in request[p] : r \in chunks[Other(p)] \/ Response(r.seq) \in chunks[p]

\* The timer fires: a pending request is sent again, and the timer started after
\* it unless the send throws.
TimerExpired(p) ==
  /\ timer[p] /\ timer' = [timer EXCEPT ![p] = FALSE]
  /\ IF Underway(p) THEN earlies < scenario.early /\ earlies' = earlies + 1 ELSE UNCHANGED earlies
  /\ \/ request[p] = {} /\ UNCHANGED <<tasks, chunks, throwVars>>
     \/ /\ request[p] # {} /\ Len(tasks[p]) < scenario.tasks
        /\ tasks' = [tasks EXCEPT ![p] = Append(@, Task("done", {}, TRUE))]
        /\ chunks' = [chunks EXCEPT ![Other(p)] = @ \cup request[p]]
        /\ UNCHANGED throwVars
     \/ /\ request[p] # {} /\ Throw /\ unsent' = unsent \cup {p}
        /\ UNCHANGED <<tasks, chunks>>
  /\ UNCHANGED <<nextId, channel, registered, queue, request, nextSeq, dataVars, asked, losses,
                 closeAlls>>

-----------------------------------------------------------------------------
(* RECONFIG chunks arrive *)

Taken(p, chunk) == [chunks EXCEPT ![p] = @ \ {chunk}]

\* A request is answered before it is carried out; when the answer cannot be sent,
\* it is not carried out either.
HandleRequest(p) ==
  /\ \E chunk \in chunks[p] :
       /\ chunk.type = "request"
       /\ \/ /\ Len(tasks[p]) < scenario.tasks
             /\ chunks' = [Taken(p, chunk) EXCEPT ![Other(p)] = @ \cup {Response(chunk.seq)}]
             /\ tasks' = [tasks EXCEPT ![p] = Append(@, Task("response", chunk.streams, FALSE))]
             /\ UNCHANGED throwVars
          \/ Throw /\ chunks' = Taken(p, chunk) /\ UNCHANGED <<tasks, unsent>>
  /\ UNCHANGED <<nextId, channel, registered, queue, request, nextSeq, timer, dataVars, asked,
                 budget>>

\* Mutant: the streams left in the queue are forgotten.
HandleResponse_NoNext(p) ==
  /\ \E chunk \in chunks[p] :
       /\ chunk.type = "response" /\ chunks' = Taken(p, chunk)
       /\ IF \E r \in request[p] : r.seq = chunk.seq
          THEN /\ \E r \in request[p] : ResetStreams(p, r.streams)
               /\ timer' = [timer EXCEPT ![p] = FALSE]
               /\ request' = [request EXCEPT ![p] = {}]
          ELSE UNCHANGED <<channel, registered, timer, request>>
  /\ UNCHANGED <<nextId, queue, nextSeq, tasks, throwVars, dataVars, asked, budget>>
\* Mutant: any response answers the pending request.
HandleResponse_AnySeq(p) ==
  /\ \E chunk \in chunks[p] :
       /\ chunk.type = "response"
       /\ IF request[p] # {}
          THEN /\ \E r \in request[p] : ResetStreams(p, r.streams)
               /\ timer' = [timer EXCEPT ![p] = FALSE]
               /\ IF MayTransmit(queue[p], {})
                  THEN Transmit(p, queue[p], tasks[p], Task("done", {}, TRUE), Taken(p, chunk))
                  ELSE /\ request' = [request EXCEPT ![p] = {}]
                       /\ chunks' = Taken(p, chunk)
                       /\ UNCHANGED <<queue, nextSeq, tasks, throwVars>>
          ELSE /\ chunks' = Taken(p, chunk)
               /\ UNCHANGED <<channel, registered, timer, queue, request, nextSeq, tasks, throwVars>>
  /\ UNCHANGED <<nextId, dataVars, asked, budget>>
\* The response to the pending request closes its channels and stops the timer;
\* the streams still queued are requested next.
HandleResponse(p) ==
  /\ \E chunk \in chunks[p] :
       /\ chunk.type = "response"
       /\ IF \E r \in request[p] : r.seq = chunk.seq
          THEN /\ \E r \in request[p] : ResetStreams(p, r.streams)
               /\ timer' = [timer EXCEPT ![p] = FALSE]
               /\ IF MayTransmit(queue[p], {})
                  THEN Transmit(p, queue[p], tasks[p], Task("done", {}, TRUE), Taken(p, chunk))
                  ELSE /\ request' = [request EXCEPT ![p] = {}]
                       /\ chunks' = Taken(p, chunk)
                       /\ UNCHANGED <<queue, nextSeq, tasks, throwVars>>
          ELSE /\ chunks' = Taken(p, chunk)
               /\ UNCHANGED <<channel, registered, timer, queue, request, nextSeq, tasks, throwVars>>
  /\ UNCHANGED <<nextId, dataVars, asked, budget>>

Lose(p) ==
  /\ losses < scenario.losses /\ losses' = losses + 1
  /\ \E chunk \in chunks[p] : chunks' = Taken(p, chunk)
  /\ UNCHANGED <<nextId, channel, registered, queue, request, nextSeq, timer, tasks, throwVars,
                 dataVars, asked, earlies, closeAlls>>

Next ==
  /\ UNCHANGED scenario
  /\ \E p \in Peers :
       \/ CreateDataChannel(p)
       \/ \E id \in Ids : Send(p, id) \/ HandleIncomingData(p, id) \/ Close(p, id)
       \/ CloseAll(p) \/ SendCompletes(p) \/ TimerExpired(p)
       \/ HandleRequest(p) \/ HandleResponse(p) \/ Lose(p)

Spec == Init /\ [][Next]_vars

\* Sends complete, the timer fires, and requests and responses are received.
Fairness ==
  \A p \in Peers :
    /\ WF_vars(SendCompletes(p) /\ UNCHANGED scenario)
    /\ WF_vars(TimerExpired(p) /\ UNCHANGED scenario)
    /\ WF_vars(HandleRequest(p) /\ UNCHANGED scenario)
    /\ WF_vars(HandleResponse(p) /\ UNCHANGED scenario)

FairSpec == Spec /\ Fairness

-----------------------------------------------------------------------------
\* A peer whose own channel is open has been answered: the other end has made
\* its channel and opened it, however the OPEN, the ACK and the messages of
\* other channels were interleaved.
OpenIsMutual ==
  \A p \in Peers, id \in Ids :
    id \in OwnIds(p) /\ channel[p][id] = "open" =>
      channel[Other(p)][id] \in {"open", "closing", "closed"}

\* The messages of an ordered channel reach the application in order and
\* without a gap: none is dropped between two that are delivered, whatever
\* state the DCEP handshake or a close() is in.
OrderedWithoutGaps ==
  \A p \in Peers, id \in Ids \ Unordered : \A i \in DOMAIN got[p][id] : got[p][id][i] = i

\* Whoever closed it, a channel is closed at one end only when the other end
\* has closed it, is closing it or is in the handler that will: no answer, late
\* or repeated, closes a channel of which the peer has not been told.  A close()
\* before the ACK is left out: its request can overtake the OPEN.
CloseIsAgreed ==
  \A p \in Peers, id \in Ids :
    channel[p][id] = "closed" /\ <<id, "connecting">> \notin asked[p] =>
      \/ channel[Other(p)][id] \in {"closing", "closed"}
      \/ \E k \in DOMAIN tasks[Other(p)] :
           LET task == tasks[Other(p)][k]
           IN  task.at = "response" /\ id \in task.streams

\* Streams wait in the queue only behind a request: with none pending there is
\* nothing to send but what a close() is just adding.  transmitReconfigRequest()
\* is called for the queue when the request is answered, and by close() for the
\* first stream only.
QueueWaits == \A p \in Peers : request[p] = {} => queue[p] = << >>

\* "The actual close will happen when we receive the reconfig response": every
\* channel in closing gets to closed, whatever is lost and whether the peer's
\* answer throws or not.  Two cases are left out, and the channel may stay in
\* closing in both: the manager's own close(), which forgets the channels that it
\* is still closing, and a send of this end's own request that throws.
CloseResolves ==
  \A p \in Peers, id \in Ids :
    channel[p][id] = "closing" ~> (channel[p][id] = "closed" \/ closeAlls > 0 \/ p \in unsent)

\* The same with no send left out.  A request whose send throws is pending for
\* good, with no timer, and every later close() queues up behind it.
CloseAlwaysResolves ==
  \A p \in Peers, id \in Ids :
    channel[p][id] = "closing" ~> (channel[p][id] = "closed" \/ closeAlls > 0)

\* "Reliable unordered": as long as nobody closes a channel of a reliable type,
\* no message that arrives on it is dropped.
ReliableIsDelivered ==
  \A p \in Peers, id \in Ids :
    dropped[p][id] # {} => \E a \in asked[p] \cup asked[Other(p)] : a[1] = id

\* When everything has arrived, a channel is closed at both ends or at neither.
Settled ==
  \A p \in Peers :
    /\ tasks[p] = << >> /\ chunks[p] = {} /\ request[p] = {} /\ queue[p] = << >>
    /\ \A id \in Ids : wire[p][id] = << >>
CloseIsMutual ==
  Settled => \A p \in Peers, id \in Ids :
    channel[p][id] = "closed" => channel[Other(p)][id] # "open"
=============================================================================
