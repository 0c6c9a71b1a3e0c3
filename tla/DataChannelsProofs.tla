------------------------- MODULE DataChannelsProofs -------------------------
(***************************************************************************)
(* DataChannels for any number of channels and messages, any streams of an *)
(* unordered type, any losses and any overlap of handlers: a channel that  *)
(* is open was opened at the other end, an ordered channel delivers        *)
(* without a gap, and a channel is closed at one end only when the other   *)
(* end agrees.  Four invariants carry this: how a channel opens, what is   *)
(* on the way on an ordered one, what the manager's close() has passed,    *)
(* and what a request, its copies and its response say of the channels.    *)
(***************************************************************************)
EXTENDS DataChannels, TLAPS

-----------------------------------------------------------------------------
(* The invariants *)

Done   == {"closing", "closed"}
Opened == {"open", "closing", "closed"}
Kinds  == {"OPEN", "ACK", "DATA"}

Messages  == [kind : Kinds, n : Nat, unordered : BOOLEAN]
Responses == [type : {"response"}, seq : Nat, streams : {{}}]
TaskRecords ==
  [at : {"done", "response", "closeAll"}, streams : SUBSET Ids, started : BOOLEAN,
   known : SUBSET Ids]

ChannelTypes ==
  /\ nextId \in [Peers -> Nat] /\ channel \in [Peers -> [Ids -> States]]
  /\ registered \in [Peers -> SUBSET Ids] /\ asked \in [Peers -> SUBSET (Ids \X States)]

DataTypes ==
  /\ wire \in [Peers -> [Ids -> Seq(Messages)]]
  /\ sent \in [Peers -> [Ids -> Nat]] /\ got \in [Peers -> [Ids -> Seq(Nat)]]

ReconfigTypes ==
  /\ queue \in [Peers -> Seq(Ids)] /\ request \in [Peers -> SUBSET Requests]
  /\ nextSeq \in [Peers -> Nat] /\ timer \in [Peers -> BOOLEAN]
  /\ tasks \in [Peers -> Seq(TaskRecords)] /\ chunks \in [Peers -> SUBSET (Requests \cup Responses)]

\* How the channel with an id opens, at one of its ends.  The end that creates it is the
\* first to have it, and an ACK on the way means that the other end has opened it.
Created(p, id) ==
  id \in OwnIds(p) =>
    /\ id >= nextId[p] => channel[p][id] = "none"
    /\ channel[p][id] = "none" => channel[Other(p)][id] = "none"
    /\ channel[Other(p)][id] # "connecting"
    /\ channel[p][id] = "open" => channel[Other(p)][id] \in Opened

Unused(p, id) ==
  channel[p][id] = "none" => sent[p][id] = 0 /\ wire[Other(p)][id] = << >>

Handshake(p, id) ==
  \A i \in DOMAIN wire[p][id] :
    /\ wire[p][id][i].kind = "ACK" => id \in OwnIds(p) /\ channel[Other(p)][id] \in Opened
    /\ wire[p][id][i].kind = "OPEN" => id \in OwnIds(Other(p)) /\ channel[p][id] = "none"
    /\ id \in OwnIds(Other(p)) /\ channel[p][id] = "none" =>
         wire[p][id][i].kind = "OPEN" /\ Len(wire[p][id]) = 1

Registered(p, id) ==
  /\ id \in registered[p] => channel[p][id] \in {"connecting", "open", "closing"}
  /\ channel[p][id] \in {"connecting", "open"} => id \in registered[p]

Opening(p, id) == Created(p, id) /\ Unused(p, id) /\ Handshake(p, id) /\ Registered(p, id)

\* What is on the way on an ordered channel: the messages sent last, in order, after at
\* most one message of the handshake.  Until the channel closes they follow what was given
\* to the application.
Control(messages) == IF messages # << >> /\ messages[1].kind # "DATA" THEN 1 ELSE 0

InOrder(p, id) ==
  \A i \in DOMAIN wire[p][id] :
    /\ ~wire[p][id][i].unordered
    /\ wire[p][id][i].kind = "DATA" =>
         wire[p][id][i].n = sent[Other(p)][id] - (Len(wire[p][id]) - i)
    /\ i > 1 => wire[p][id][i].kind = "DATA"

Contiguous(p, id) ==
  /\ channel[p][id] \in {"none", "connecting", "open"} =>
       sent[Other(p)][id] = Len(got[p][id]) + Len(wire[p][id]) - Control(wire[p][id])
  /\ channel[p][id] = "connecting" /\ channel[Other(p)][id] # "none" =>
       wire[p][id] # << >> /\ wire[p][id][1].kind = "ACK"
  /\ \A i \in DOMAIN got[p][id] : got[p][id][i] = i

Stream(p, id) == InOrder(p, id) /\ Contiguous(p, id)

\* The manager's close() has passed only channels that are closing or closed.
Passed(p) ==
  \A task \in ToSet(tasks[p]) :
    task.at = "closeAll" => \A id \in task.known \ task.streams : channel[p][id] \in Done

\* The ids of an answer that a peer's suspended handlers will carry out.
Answers(task) == task.at = "response"
Held(q) == {id \in Ids : \E task \in ToSet(tasks[q]) : Answers(task) /\ id \in task.streams}

\* What p's request of a reset says: p has closed the channel, and the other end has it,
\* unless p closed it before the ACK.
Claim(p, id) ==
  /\ channel[p][id] \in Done
  /\ <<id, "connecting">> \in asked[p] \/ channel[Other(p)][id] # "none"

\* What p may conclude from the answer.
Agreed(p, id) ==
  \/ <<id, "connecting">> \in asked[p]
  \/ channel[Other(p)][id] \in Done
  \/ id \in Held(Other(p))

QueueInv(p)   == \A id \in ToSet(queue[p]) : Claim(p, id)
RequestInv(p) ==
  /\ \A r, s \in request[p] : r = s
  /\ \A r \in request[p] : r.seq < nextSeq[p] /\ \A id \in r.streams : Claim(p, id)
ChunkInv(p) ==
  \A chunk \in chunks[Other(p)] : chunk.type = "request" =>
    /\ chunk.seq < nextSeq[p] /\ \A id \in chunk.streams : Claim(p, id)
    /\ \A r \in request[p] : r.seq = chunk.seq => r = chunk
AnswerInv(p)  == \A id \in Held(Other(p)) : Claim(p, id)
ResponseInv(p) ==
  \A chunk \in chunks[p] : chunk.type = "response" =>
    /\ chunk.seq < nextSeq[p]
    /\ \A r \in request[p] : r.seq = chunk.seq => \A id \in r.streams : Agreed(p, id)
AgreedInv(p)  == \A id \in Ids : channel[p][id] = "closed" => Agreed(p, id)

Requested(p) == QueueInv(p) /\ RequestInv(p) /\ ChunkInv(p) /\ ResponseInv(p)
Closing(p) == Requested(p) /\ AnswerInv(p) /\ AgreedInv(p)

Types == ChannelTypes /\ DataTypes /\ ReconfigTypes
ChannelsInv ==
  /\ Types
  /\ \A p \in Peers, id \in Ids : Opening(p, id)
  /\ \A p \in Peers, id \in Ids \ Unordered : Stream(p, id)
  /\ \A p \in Peers : Passed(p) /\ Closing(p)

-----------------------------------------------------------------------------
(* Peers, ids and sequences *)

LEMMA OtherFacts ==
  ASSUME NEW p \in Peers
  PROVE  /\ Other(p) \in Peers /\ Other(p) # p /\ Other(Other(p)) = p
         /\ \A q \in Peers : q = p \/ q = Other(p)
<1>1. /\ Other("client") = "server" /\ Other("server") = "client"
  BY DEF Other, Peers
<1> QED
  BY <1>1 DEF Peers

LEMMA IdFacts ==
  ASSUME NEW p \in Peers
  PROVE  /\ OwnIds(p) \in SUBSET Ids /\ OwnIds(p) \in SUBSET Nat
         /\ \A id \in Ids : id \in OwnIds(Other(p)) <=> id \notin OwnIds(p)
<1>1. \A q \in Peers : MaxChannels[q] \in Nat /\ FirstId(q) \in {0, 1}
  BY BoundsAssumption DEF FirstId
<1>2. OwnIds(p) \in SUBSET Nat
  BY <1>1 DEF OwnIds
<1>3. Ids = OwnIds(p) \cup OwnIds(Other(p))
  BY OtherFacts DEF Ids
<1>4. ASSUME NEW id, id \in OwnIds(p), id \in OwnIds(Other(p))
      PROVE  FALSE
  <2>1. PICK j \in 0 .. MaxChannels[p] - 1 : id = FirstId(p) + 2 * j
    BY <1>4 DEF OwnIds
  <2>2. PICK k \in 0 .. MaxChannels[Other(p)] - 1 : id = FirstId(Other(p)) + 2 * k
    BY <1>4 DEF OwnIds
  <2>3. j \in Int /\ k \in Int
    BY <1>1, OtherFacts
  <2>4. FirstId(p) + FirstId(Other(p)) = 1 /\ FirstId(p) \in {0, 1} /\ FirstId(Other(p)) \in {0, 1}
    BY OtherFacts DEF FirstId, Peers
  <2> QED
    BY <2>1, <2>2, <2>3, <2>4
<1> QED
  BY <1>2, <1>3, <1>4

LEMMA ToSetAppend ==
  ASSUME NEW S, NEW s \in Seq(S), NEW x \in S
  PROVE  ToSet(Append(s, x)) = ToSet(s) \cup {x}
<1>1. /\ Append(s, x) \in Seq(S) /\ Len(Append(s, x)) = Len(s) + 1 /\ Len(s) \in Nat
      /\ \A i \in 1..Len(s) : Append(s, x)[i] = s[i]
      /\ Append(s, x)[Len(s) + 1] = x
  OBVIOUS
<1>2. /\ DOMAIN Append(s, x) = 1..(Len(s) + 1) /\ DOMAIN s = 1..Len(s)
      /\ 1..(Len(s) + 1) = 1..Len(s) \cup {Len(s) + 1}
  BY <1>1
<1> HIDE <1>1
<1>3. /\ \A i \in 1..Len(s) : Append(s, x)[i] = s[i]
      /\ Append(s, x)[Len(s) + 1] = x
  BY <1>1
<1> QED
  BY Zenon, <1>2, <1>3 DEF ToSet

\* What is left of a sequence, and where it was before.
LEMMA RemoveAtFacts ==
  ASSUME NEW S, NEW s \in Seq(S), NEW i \in DOMAIN s
  PROVE  /\ RemoveAt(s, i) \in Seq(S) /\ Len(RemoveAt(s, i)) = Len(s) - 1
         /\ DOMAIN RemoveAt(s, i) = 1..(Len(s) - 1)
         /\ \A k \in 1..(Len(s) - 1) : RemoveAt(s, i)[k] = s[IF k < i THEN k ELSE k + 1]
<1>0. i \in 1..Len(s) /\ Len(s) \in Nat
  OBVIOUS
<1> DEFINE head == SubSeq(s, 1, i - 1)
           tail == SubSeq(s, i + 1, Len(s))
<1>1. /\ head \in Seq(S) /\ Len(head) = i - 1
      /\ \A k \in 1..(i - 1) : head[k] = s[k]
  OBVIOUS
<1>2. /\ tail \in Seq(S) /\ Len(tail) = Len(s) - i
      /\ \A k \in 1..(Len(s) - i) : tail[k] = s[i + k]
  OBVIOUS
<1>3. RemoveAt(s, i) = head \o tail
  BY DEF RemoveAt
<1> HIDE DEF head, tail
<1>4. /\ head \o tail \in Seq(S) /\ Len(head \o tail) = Len(s) - 1
      /\ \A k \in 1..(Len(s) - 1) :
           (head \o tail)[k] = IF k <= i - 1 THEN head[k] ELSE tail[k - (i - 1)]
  BY <1>1, <1>2
<1>5. ASSUME NEW k \in 1..(Len(s) - 1)
      PROVE  (head \o tail)[k] = s[IF k < i THEN k ELSE k + 1]
  <2>1. CASE k < i
    BY <2>1, <1>0, <1>1, <1>4
  <2>2. CASE ~(k < i)
    <3> DEFINE j == k - (i - 1)
    <3>1. j \in 1..(Len(s) - i) /\ i + j = k + 1 /\ ~(k <= i - 1)
      BY <2>2, <1>0
    <3>2. (head \o tail)[k] = tail[j]
      BY <3>1, <1>4
    <3> HIDE DEF j
    <3>3. tail[j] = s[k + 1]
      BY <3>1, <1>2
    <3> QED
      BY <2>2, <3>2, <3>3
  <2> QED
    BY <2>1, <2>2
<1> QED
  BY <1>3, <1>4, <1>5

LEMMA ToSetRemoveAt ==
  ASSUME NEW S, NEW s \in Seq(S), NEW i \in DOMAIN s
  PROVE  ToSet(s) = ToSet(RemoveAt(s, i)) \cup {s[i]} /\ s[i] \in S
<1> DEFINE rest == RemoveAt(s, i)
           old(k) == IF k < i THEN k ELSE k + 1
<1>a. Len(s) \in Nat /\ DOMAIN s = 1..Len(s) /\ i \in 1..Len(s) /\ s[i] \in S
  OBVIOUS
<1>b. /\ DOMAIN rest = 1..(Len(s) - 1)
      /\ \A k \in 1..(Len(s) - 1) : rest[k] = s[old(k)]
  BY RemoveAtFacts
<1> HIDE DEF rest
<1>1. /\ Len(s) \in Nat /\ DOMAIN s = 1..Len(s) /\ i \in 1..Len(s) /\ s[i] \in S
      /\ DOMAIN rest = 1..(Len(s) - 1)
      /\ \A k \in 1..(Len(s) - 1) : rest[k] = s[old(k)]
  BY <1>a, <1>b
<1>2. ASSUME NEW k \in 1..(Len(s) - 1)
      PROVE  old(k) \in 1..Len(s) /\ rest[k] = s[old(k)]
  BY <1>1
<1>3. ASSUME NEW j \in 1..Len(s), j # i
      PROVE  \E k \in 1..(Len(s) - 1) : rest[k] = s[j]
  <2> DEFINE k == IF j < i THEN j ELSE j - 1
  <2>1. k \in 1..(Len(s) - 1) /\ old(k) = j
    BY <1>1, <1>3
  <2> HIDE DEF k
  <2> QED
    BY <2>1, <1>2
<1> HIDE DEF old
<1>4. ToSet(rest) \cup {s[i]} \in SUBSET ToSet(s)
  BY Zenon, <1>1, <1>2 DEF ToSet
<1>5. ToSet(s) \in SUBSET (ToSet(rest) \cup {s[i]})
  <2> SUFFICES ASSUME NEW j \in 1..Len(s)
               PROVE  s[j] \in ToSet(rest) \cup {s[i]}
    BY Zenon, <1>1 DEF ToSet
  <2>1. CASE j = i
    BY <2>1
  <2>2. CASE j # i
    BY Zenon, <2>2, <1>1, <1>3 DEF ToSet
  <2> QED
    BY <2>1, <2>2
<1> QED
  BY <1>1, <1>4, <1>5 DEF rest

-----------------------------------------------------------------------------
(* What a step does to requests and answers *)

\* Channels do not reopen, calls of close() are remembered, and an answer is carried out
\* before its handler is gone.
Forward ==
  \A q \in Peers, id \in Ids :
    /\ channel[q][id] \in Done => channel'[q][id] \in Done
    /\ channel[q][id] # "none" => channel'[q][id] # "none"
    /\ \A a \in asked[q] : a \in asked'[q]
    /\ id \in Held(q) =>
         \/ id \in Held(q)' \/ channel'[q][id] \in Done
         \/ <<id, "connecting">> \in asked[Other(q)]

\* The pending request and the copies of it that are on the way.
RequestKept(q) ==
  /\ nextSeq'[q] = nextSeq[q] /\ request'[q] \in {request[q], {}}
  /\ \A chunk \in chunks'[Other(q)] : chunk.type = "request" =>
       chunk \in chunks[Other(q)] \/ chunk \in request[q]

\* A new request for channels that q has closed.
RequestMade(q) ==
  \E made \in Requests :
    /\ nextSeq'[q] = nextSeq[q] + 1 /\ request'[q] = {made} /\ made.seq = nextSeq[q]
    /\ \A id \in made.streams : Claim(q, id)'
    /\ \A chunk \in chunks'[Other(q)] : chunk.type = "request" =>
         chunk \in chunks[Other(q)] \/ chunk = made
    /\ \A chunk \in chunks'[q] : chunk.type = "response" => chunk \in chunks[q]

\* What is new in the queue, among the responses and in what the other end carries out,
\* and which channels are closed now.
QueueKept(q) == \A id \in ToSet(queue'[q]) : id \in ToSet(queue[q]) \/ Claim(q, id)'
ResponsesKept(q) ==
  \A chunk \in chunks'[q] : chunk.type = "response" =>
    \/ chunk \in chunks[q]
    \/ /\ chunk.seq < nextSeq[q]
       /\ \A r \in request[q] : r.seq = chunk.seq => \A id \in r.streams : Agreed(q, id)'
AnswersKept(q) == \A id \in Held(Other(q))' : id \in Held(Other(q)) \/ Claim(q, id)
ClosedKept(q) ==
  \A id \in Ids : channel'[q][id] = "closed" => channel[q][id] = "closed" \/ Agreed(q, id)

RequestsKept ==
  \A q \in Peers :
    /\ RequestKept(q) \/ RequestMade(q)
    /\ QueueKept(q) /\ ResponsesKept(q) /\ AnswersKept(q) /\ ClosedKept(q)

LEMMA ForwardKeeps ==
  ASSUME Forward, NEW q \in Peers, NEW id \in Ids
  PROVE  /\ Claim(q, id) => Claim(q, id)'
         /\ Agreed(q, id) => Agreed(q, id)'
<1> /\ Other(q) \in Peers /\ Other(Other(q)) = q
  BY OtherFacts
<1> DEFINE early == <<id, "connecting">>
<1>1. early \in asked[q] => early \in asked'[q]
  BY DEF Forward
<1> HIDE DEF early
<1>2. /\ channel[q][id] \in Done => channel'[q][id] \in Done
      /\ channel[Other(q)][id] \in Done => channel'[Other(q)][id] \in Done
      /\ channel[Other(q)][id] # "none" => channel'[Other(q)][id] # "none"
  BY DEF Forward
<1>3. id \in Held(Other(q)) =>
        id \in Held(Other(q))' \/ channel'[Other(q)][id] \in Done \/ early \in asked[q]
  BY DEF Forward, early
<1> QED
  BY <1>1, <1>2, <1>3 DEF Claim, Agreed, early, Done

\* A step forward that deals with requests and answers in this way keeps what they mean.
LEMMA ClosingKept ==
  ASSUME Types, Types', \A q \in Peers : Closing(q), Forward, RequestsKept
  PROVE  \A q \in Peers : Closing(q)'
<1> TAKE q \in Peers
<1> USE DEF Closing, Requested
<1>1. Other(q) \in Peers /\ Other(Other(q)) = q
  BY OtherFacts
<1>2. \A id \in Ids : /\ Claim(q, id) => Claim(q, id)'
                      /\ Agreed(q, id) => Agreed(q, id)'
  BY ForwardKeeps
<1>3. /\ QueueInv(q) /\ RequestInv(q) /\ ChunkInv(q) /\ ResponseInv(q)
      /\ AnswerInv(q) /\ AgreedInv(q)
  OBVIOUS
<1>4. /\ QueueKept(q) /\ ResponsesKept(q) /\ AnswersKept(q) /\ ClosedKept(q)
      /\ RequestKept(q) \/ RequestMade(q)
  BY DEF RequestsKept
<1>5. /\ \A id \in ToSet(queue[q]) : id \in Ids
      /\ \A r \in request[q] : r.seq \in Nat /\ r.type = "request" /\ \A id \in r.streams : id \in Ids
      /\ \A chunk \in chunks[Other(q)] :
           chunk.type = "request" => chunk.seq \in Nat /\ \A id \in chunk.streams : id \in Ids
      /\ \A chunk \in chunks[q] : chunk.seq \in Nat
      /\ nextSeq[q] \in Nat
  <2>1. queue[q] \in Seq(Ids) /\ request[q] \in SUBSET Requests /\ nextSeq[q] \in Nat
    BY DEF Types, ReconfigTypes
  <2>2. chunks[q] \in SUBSET (Requests \cup Responses)
        /\ chunks[Other(q)] \in SUBSET (Requests \cup Responses)
    BY <1>1 DEF Types, ReconfigTypes
  <2> QED
    BY <2>1, <2>2 DEF Requests, Responses, ToSet
<1>6. QueueInv(q)'
  BY <1>2, <1>3, <1>4, <1>5 DEF QueueInv, QueueKept
<1>7. AnswerInv(q)' /\ AgreedInv(q)'
  BY <1>2, <1>3, <1>4 DEF AnswerInv, AnswersKept, AgreedInv, ClosedKept, Held
<1>8. CASE RequestKept(q)
  <2>1. /\ \A r \in request'[q] : r \in request[q]
        /\ nextSeq'[q] = nextSeq[q]
    BY <1>8 DEF RequestKept
  <2>2. RequestInv(q)'
    BY <2>1, <1>2, <1>3, <1>5 DEF RequestInv
  <2>3. ChunkInv(q)'
    BY <2>1, <1>2, <1>3, <1>5, <1>8 DEF ChunkInv, RequestInv, RequestKept
  <2>4. ResponseInv(q)'
    BY <2>1, <1>2, <1>3, <1>4, <1>5 DEF ResponseInv, ResponsesKept
  <2> QED
    BY <1>6, <1>7, <2>2, <2>3, <2>4
<1>9. CASE RequestMade(q)
  <2>1. PICK made \in Requests :
          /\ nextSeq'[q] = nextSeq[q] + 1 /\ request'[q] = {made} /\ made.seq = nextSeq[q]
          /\ \A id \in made.streams : Claim(q, id)'
          /\ \A chunk \in chunks'[Other(q)] : chunk.type = "request" =>
               chunk \in chunks[Other(q)] \/ chunk = made
          /\ \A chunk \in chunks'[q] : chunk.type = "response" => chunk \in chunks[q]
    BY <1>9 DEF RequestMade
  <2>2. RequestInv(q)'
    BY <2>1, <1>5 DEF RequestInv
  <2>3. ChunkInv(q)'
    BY <2>1, <1>2, <1>3, <1>5 DEF ChunkInv
  <2>4. ResponseInv(q)'
    BY <2>1, <1>3, <1>5 DEF ResponseInv
  <2> QED
    BY <1>6, <1>7, <2>2, <2>3, <2>4
<1> QED
  BY <1>4, <1>8, <1>9

-----------------------------------------------------------------------------
(* A step of the reconfiguration *)

\* What such a step does to the channels, and which handlers end in it and start.
Closes ==
  \A q \in Peers, id \in Ids :
    \/ channel'[q][id] = channel[q][id]
    \/ channel[q][id] \in {"connecting", "open", "closing"} /\ channel'[q][id] \in Done

Resumed(p, gone, new) ==
  /\ tasks'[Other(p)] = tasks[Other(p)]
  /\ \A task \in ToSet(tasks[p]) : task \in ToSet(tasks'[p]) \/ task \in gone
  /\ \A task \in ToSet(tasks'[p]) : task \in ToSet(tasks[p]) \/ task \in new

Remembers == \A q \in Peers : \A a \in asked[q] : a \in asked'[q]
AllRegistered == \A q \in Peers, id \in Ids : Registered(q, id)

\* The handlers that start are right to be there, and those that end have done their work.
Started(p, new) ==
  \A task \in new :
    /\ task.at = "closeAll" => \A id \in task.known \ task.streams : channel'[p][id] \in Done
    /\ Answers(task) => \A id \in task.streams : Claim(Other(p), id)
Ended(p, gone) ==
  \A task \in gone : Answers(task) => \A id \in task.streams :
    \/ id \in Held(p)' \/ channel'[p][id] \in Done
    \/ <<id, "connecting">> \in asked[Other(p)]

RequestsDealt ==
  \A q \in Peers :
    /\ RequestKept(q) \/ RequestMade(q)
    /\ QueueKept(q) /\ ResponsesKept(q) /\ ClosedKept(q)

\* A channel that closes stays opened as far as the other end can see.
LEMMA OpeningCloses ==
  ASSUME ChannelTypes, Closes, UNCHANGED <<nextId, wire, sent>>,
         NEW id \in Ids, \A q \in Peers : Opening(q, id), \A q \in Peers : Registered(q, id)'
  PROVE  \A q \in Peers : Opening(q, id)'
<1> TAKE q \in Peers
<1>1. Other(q) \in Peers /\ Other(Other(q)) = q
  BY OtherFacts
<1>2. /\ \/ channel'[q][id] = channel[q][id]
         \/ channel[q][id] \in {"connecting", "open", "closing"} /\ channel'[q][id] \in Done
      /\ \/ channel'[Other(q)][id] = channel[Other(q)][id]
         \/ /\ channel[Other(q)][id] \in {"connecting", "open", "closing"}
            /\ channel'[Other(q)][id] \in Done
  BY <1>1 DEF Closes
<1>3. Created(q, id) /\ Unused(q, id) /\ Handshake(q, id)
  BY DEF Opening
<1>4. Created(q, id)'
  BY <1>1, <1>2, <1>3 DEF Created, Opened, Done
<1>5. Unused(q, id)'
  BY <1>1, <1>2, <1>3 DEF Unused, Done
<1>6. Handshake(q, id)'
  BY <1>1, <1>2, <1>3 DEF Handshake, Opened, Done
<1> QED
  BY <1>4, <1>5, <1>6 DEF Opening

LEMMA StreamCloses ==
  ASSUME ChannelTypes, Closes, UNCHANGED <<wire, sent, got>>,
         NEW id \in Ids, \A q \in Peers : Stream(q, id)
  PROVE  \A q \in Peers : Stream(q, id)'
<1> TAKE q \in Peers
<1>1. Other(q) \in Peers /\ Other(Other(q)) = q
  BY OtherFacts
<1>2. /\ \/ channel'[q][id] = channel[q][id]
         \/ channel[q][id] \in {"connecting", "open", "closing"} /\ channel'[q][id] \in Done
      /\ \/ channel'[Other(q)][id] = channel[Other(q)][id]
         \/ /\ channel[Other(q)][id] \in {"connecting", "open", "closing"}
            /\ channel'[Other(q)][id] \in Done
  BY <1>1 DEF Closes
<1>3. InOrder(q, id) /\ Contiguous(q, id)
  BY DEF Stream
<1>4. InOrder(q, id)'
  BY <1>3 DEF InOrder
<1>5. Contiguous(q, id)'
  BY <1>2, <1>3 DEF Contiguous, Done
<1> QED
  BY <1>4, <1>5 DEF Stream

\* One step of p that makes progress on a close, and what it must do to keep the invariant.
LEMMA ControlStep ==
  ASSUME ChannelsInv, Types', NEW p \in Peers, NEW gone, NEW new,
         UNCHANGED <<nextId, wire, sent, got>>, Closes, Remembers, AllRegistered',
         Resumed(p, gone, new), Started(p, new), Ended(p, gone), RequestsDealt
  PROVE  ChannelsInv'
<1> USE DEF ChannelsInv
<1>1. /\ Other(p) \in Peers /\ Other(Other(p)) = p /\ Other(p) # p
      /\ \A q \in Peers : q = p \/ q = Other(p)
  BY OtherFacts
<1>2. \A id \in Ids : \A q \in Peers : Opening(q, id)'
  <2>1. \A q \in Peers, id \in Ids : Registered(q, id)'
    BY DEF AllRegistered
  <2> QED
    BY <2>1, OpeningCloses DEF Types
<1>3. \A id \in Ids \ Unordered : \A q \in Peers : Stream(q, id)'
  BY StreamCloses DEF Types
<1>4. \A q \in Peers, id \in Ids :
        /\ channel[q][id] \in Done => channel'[q][id] \in Done
        /\ channel[q][id] # "none" => channel'[q][id] # "none"
  BY DEF Closes, Done
<1>5. \A q \in Peers : \A task \in ToSet(tasks[q]) \cup ToSet(tasks'[q]) :
        task.streams \in SUBSET Ids /\ task.known \in SUBSET Ids
  <2> TAKE q \in Peers
  <2>1. tasks[q] \in Seq(TaskRecords) /\ tasks'[q] \in Seq(TaskRecords)
    BY DEF Types, ReconfigTypes
  <2>2. \A task \in TaskRecords : task.streams \in SUBSET Ids /\ task.known \in SUBSET Ids
    BY DEF TaskRecords
  <2>3. \A task \in ToSet(tasks[q]) \cup ToSet(tasks'[q]) : task \in TaskRecords
    BY <2>1 DEF ToSet
  <2> QED
    BY <2>2, <2>3
<1>6. ASSUME NEW q \in Peers
      PROVE  Passed(q)'
  <2>1. CASE q = Other(p)
    BY <2>1, <1>1, <1>4, <1>5 DEF Passed, Resumed
  <2>2. CASE q = p
    BY <2>2, <1>4, <1>5 DEF Passed, Resumed, Started
  <2> QED
    BY <1>1, <2>1, <2>2
<1>7. ASSUME NEW q \in Peers, NEW id \in Ids, id \in Held(q)
      PROVE  \/ id \in Held(q)' \/ channel'[q][id] \in Done
             \/ <<id, "connecting">> \in asked[Other(q)]
  <2>1. CASE q = Other(p)
    BY <2>1, <1>1, <1>7 DEF Held, Resumed
  <2>2. CASE q = p
    <3>1. PICK task \in ToSet(tasks[p]) : Answers(task) /\ id \in task.streams
      BY <2>2, <1>7 DEF Held
    <3>2. CASE task \in ToSet(tasks'[p])
      BY <3>1, <3>2, <2>2 DEF Held, Answers
    <3>3. CASE task \in gone
      BY Zenon, <3>1, <3>3, <2>2 DEF Ended
    <3> QED
      BY <3>2, <3>3 DEF Resumed
  <2> QED
    BY <1>1, <2>1, <2>2
<1>8. Forward
  BY <1>4, <1>7 DEF Forward, Remembers
<1>9. ASSUME NEW q \in Peers, NEW id \in Held(Other(q))'
      PROVE  id \in Held(Other(q)) \/ Claim(q, id)
  <2>1. CASE q = p
    BY <2>1, <1>1 DEF Held, Resumed
  <2>2. CASE q = Other(p)
    <3>1. PICK task \in ToSet(tasks'[p]) : Answers(task) /\ id \in task.streams
      BY <2>2, <1>1, <1>9 DEF Held, Answers
    <3>2. CASE task \in ToSet(tasks[p])
      BY <3>1, <3>2, <2>2, <1>1, <1>9 DEF Held
    <3>3. CASE task \in new
      BY <3>1, <3>3, <2>2 DEF Started
    <3> QED
      BY <3>2, <3>3 DEF Resumed
  <2> QED
    BY <1>1, <2>1, <2>2
<1>10. RequestsKept
  BY <1>9 DEF RequestsKept, RequestsDealt, AnswersKept
<1>11. \A q \in Peers : Closing(q)'
  BY <1>8, <1>10, ClosingKept
<1> QED
  BY <1>2, <1>3, <1>6, <1>11

\* The two parts of a sequence.
LEMMA CutFacts ==
  ASSUME NEW S, NEW q \in Seq(S), NEW n \in 1..Len(q)
  PROVE  /\ SubSeq(q, 1, n) \in Seq(S) /\ SubSeq(q, n + 1, Len(q)) \in Seq(S)
         /\ ToSet(SubSeq(q, 1, n)) \in SUBSET ToSet(q)
         /\ ToSet(SubSeq(q, n + 1, Len(q))) \in SUBSET ToSet(q)
<1> DEFINE s == SubSeq(q, 1, n)
           t == SubSeq(q, n + 1, Len(q))
<1>1. /\ s \in Seq(S) /\ Len(s) = n
      /\ \A i \in 1..n : s[i] = q[i]
  OBVIOUS
<1>2. /\ t \in Seq(S) /\ Len(t) = Len(q) - n
      /\ \A i \in 1..(Len(q) - n) : t[i] = q[n + i]
  OBVIOUS
<1>3. Len(q) \in Nat /\ DOMAIN q = 1..Len(q) /\ n \in Nat /\ n <= Len(q)
  OBVIOUS
<1> HIDE DEF s, t
<1>4. ToSet(s) \in SUBSET ToSet(q)
  <2>1. DOMAIN s = 1..n /\ \A i \in 1..n : s[i] = q[i] /\ i \in DOMAIN q
    BY <1>1, <1>3
  <2> QED
    BY Zenon, <2>1 DEF ToSet
<1>5. ToSet(t) \in SUBSET ToSet(q)
  <2>1. DOMAIN t = 1..(Len(q) - n) /\ \A i \in 1..(Len(q) - n) : t[i] = q[n + i] /\ n + i \in DOMAIN q
    BY <1>2, <1>3
  <2> QED
    BY Zenon, <2>1 DEF ToSet
<1> QED
  BY <1>1, <1>2, <1>4, <1>5 DEF s, t

\* The first streams of a queue, and what is left of it.
LEMMA SplitFacts ==
  ASSUME NEW q \in Seq(Ids), q # << >>, NEW n, n = Min({StreamsPerRequest, Len(q)})
  PROVE  /\ SubSeq(q, 1, n) \in Seq(Ids) /\ SubSeq(q, n + 1, Len(q)) \in Seq(Ids)
         /\ ToSet(SubSeq(q, 1, n)) \in SUBSET ToSet(q)
         /\ ToSet(SubSeq(q, n + 1, Len(q))) \in SUBSET ToSet(q)
<1>1. Len(q) \in Nat \ {0} /\ StreamsPerRequest \in Nat \ {0}
  BY BoundsAssumption
<1>2. n \in {StreamsPerRequest, Len(q)} /\ n <= Len(q)
  <2> DEFINE S == {StreamsPerRequest, Len(q)}
  <2>1. \E x \in S : \A y \in S : x <= y
    BY <1>1
  <2>2. n = CHOOSE x \in S : \A y \in S : x <= y
    BY DEF Min
  <2> HIDE DEF S
  <2>3. n \in S /\ \A y \in S : n <= y
    BY <2>1, <2>2
  <2> QED
    BY <2>3 DEF S
<1>3. n \in Nat /\ n \in 1..Len(q)
  BY <1>1, <1>2
<1> QED
  BY <1>3, CutFacts

\* A request of p for streams that it has closed.
LEMMA TransmitFacts ==
  ASSUME ReconfigTypes, NEW p \in Peers, NEW q \in Seq(Ids), q # << >>,
         NEW others \in Seq(TaskRecords), NEW rest \in TaskRecords,
         NEW left \in [Peers -> SUBSET (Requests \cup Responses)],
         \A x \in Peers : \A chunk \in left[x] : chunk \in chunks[x],
         Transmit(p, q, others, rest, left), \A id \in ToSet(q) : Claim(p, id)'
  PROVE  /\ queue' \in [Peers -> Seq(Ids)] /\ request' \in [Peers -> SUBSET Requests]
         /\ nextSeq' \in [Peers -> Nat] /\ tasks' \in [Peers -> Seq(TaskRecords)]
         /\ chunks' \in [Peers -> SUBSET (Requests \cup Responses)]
         /\ \A id \in ToSet(queue'[p]) : id \in ToSet(q)
         /\ queue'[Other(p)] = queue[Other(p)]
         /\ RequestMade(p) /\ RequestKept(Other(p))
         /\ \A x \in Peers : ResponsesKept(x)
         /\ tasks'[p] \in {others, Append(others, [rest EXCEPT !.started = TRUE])}
         /\ tasks'[Other(p)] = tasks[Other(p)]
<1> USE DEF ReconfigTypes
<1>1. /\ Other(p) \in Peers /\ Other(Other(p)) = p /\ Other(p) # p
      /\ \A x \in Peers : x = p \/ x = Other(p)
  BY OtherFacts
<1> DEFINE n == Min({StreamsPerRequest, Len(q)})
           made == [type |-> "request", seq |-> nextSeq[p], streams |-> ToSet(SubSeq(q, 1, n))]
<1>2. /\ SubSeq(q, 1, n) \in Seq(Ids) /\ SubSeq(q, n + 1, Len(q)) \in Seq(Ids)
      /\ ToSet(SubSeq(q, 1, n)) \in SUBSET ToSet(q)
      /\ ToSet(SubSeq(q, n + 1, Len(q))) \in SUBSET ToSet(q)
  BY SplitFacts
<1>3. /\ queue' = [queue EXCEPT ![p] = SubSeq(q, n + 1, Len(q))]
      /\ request' = [request EXCEPT ![p] = {made}]
      /\ nextSeq' = [nextSeq EXCEPT ![p] = nextSeq[p] + 1]
      /\ \/ tasks' = [tasks EXCEPT ![p] = Append(others, [rest EXCEPT !.started = TRUE])]
         \/ tasks' = [tasks EXCEPT ![p] = others]
      /\ \/ chunks' = [left EXCEPT ![Other(p)] = left[Other(p)] \cup {made}]
         \/ chunks' = left
  BY <1>1 DEF Transmit
<1> HIDE DEF n
<1>4. made \in Requests /\ made.seq = nextSeq[p] /\ made.type = "request"
      /\ \A id \in made.streams : id \in ToSet(q)
  <2>1. ToSet(q) \in SUBSET Ids
    BY DEF ToSet
  <2>2. nextSeq[p] \in Nat
    OBVIOUS
  <2> QED
    BY <1>2, <2>1, <2>2 DEF Requests
<1> HIDE DEF made
<1>5. [rest EXCEPT !.started = TRUE] \in TaskRecords
  BY DEF TaskRecords
<1>6. /\ queue' \in [Peers -> Seq(Ids)] /\ queue'[Other(p)] = queue[Other(p)]
      /\ \A id \in ToSet(queue'[p]) : id \in ToSet(q)
  BY <1>1, <1>2, <1>3
<1>7. tasks' \in [Peers -> Seq(TaskRecords)] /\ tasks'[Other(p)] = tasks[Other(p)]
      /\ tasks'[p] \in {others, Append(others, [rest EXCEPT !.started = TRUE])}
  <2> DEFINE late == [rest EXCEPT !.started = TRUE]
             more == Append(others, late)
  <2>1. late \in TaskRecords
    BY <1>5
  <2> HIDE DEF late
  <2>2. more \in Seq(TaskRecords)
    BY <2>1
  <2>3. tasks' = [tasks EXCEPT ![p] = more] \/ tasks' = [tasks EXCEPT ![p] = others]
    BY <1>3 DEF late
  <2> HIDE DEF more
  <2>4. /\ tasks' \in [Peers -> Seq(TaskRecords)] /\ tasks'[Other(p)] = tasks[Other(p)]
        /\ tasks'[p] \in {others, more}
    <3>1. CASE tasks' = [tasks EXCEPT ![p] = more]
      BY <1>1, <2>2, <3>1
    <3>2. CASE tasks' = [tasks EXCEPT ![p] = others]
      BY <1>1, <3>2
    <3> QED
      BY <2>3, <3>1, <3>2
  <2> QED
    BY <2>4 DEF more, late
<1>8. /\ request' \in [Peers -> SUBSET Requests] /\ nextSeq' \in [Peers -> Nat]
      /\ request'[p] = {made} /\ nextSeq'[p] = nextSeq[p] + 1
      /\ request'[Other(p)] = request[Other(p)] /\ nextSeq'[Other(p)] = nextSeq[Other(p)]
  BY <1>1, <1>3, <1>4
<1>9. /\ chunks' \in [Peers -> SUBSET (Requests \cup Responses)]
      /\ chunks'[p] = left[p]
      /\ \A chunk \in chunks'[Other(p)] : chunk \in left[Other(p)] \/ chunk = made
  <2>1. CASE chunks' = [left EXCEPT ![Other(p)] = left[Other(p)] \cup {made}]
    BY <1>1, <1>4, <2>1
  <2>2. CASE chunks' = left
    BY <2>2
  <2> QED
    BY <1>3, <2>1, <2>2
<1>10. RequestMade(p)
  BY <1>1, <1>4, <1>8, <1>9 DEF RequestMade
<1>11. RequestKept(Other(p))
  BY <1>1, <1>8, <1>9 DEF RequestKept
<1>12. \A x \in Peers : ResponsesKept(x)
  BY <1>1, <1>4, <1>9 DEF ResponsesKept
<1> QED
  BY <1>6, <1>7, <1>8, <1>9, <1>10, <1>11, <1>12

\* A reset of streams closes the registered channels among them.
LEMMA ResetFacts ==
  ASSUME ChannelTypes, AllRegistered,
         NEW p \in Peers, NEW streams, ResetStreams(p, streams)
  PROVE  /\ channel' \in [Peers -> [Ids -> States]] /\ registered' \in [Peers -> SUBSET Ids]
         /\ Closes /\ AllRegistered'
         /\ \A q \in Peers, id \in Ids : channel'[q][id] = "closed" =>
              channel[q][id] = "closed" \/ (q = p /\ id \in streams)
         /\ \A id \in Ids : id \in streams /\ channel[p][id] # "none" => channel'[p][id] \in Done
<1> USE DEF ChannelTypes
<1>1. /\ channel' = [channel EXCEPT ![p] =
            [id \in Ids |-> IF id \in streams \cap registered[p] THEN "closed" ELSE channel[p][id]]]
      /\ registered' = [registered EXCEPT ![p] = registered[p] \ streams]
  BY DEF ResetStreams
<1>2. channel' \in [Peers -> [Ids -> States]] /\ registered' \in [Peers -> SUBSET Ids]
  BY <1>1 DEF States
<1>3. \A q \in Peers, id \in Ids :
        /\ q = p => channel'[q][id] = IF id \in streams /\ id \in registered[p] THEN "closed"
                                      ELSE channel[q][id]
        /\ q = p => (id \in registered'[q] <=> id \in registered[q] /\ id \notin streams)
        /\ q # p => channel'[q][id] = channel[q][id] /\ registered'[q] = registered[q]
  BY <1>1
<1>4. \A q \in Peers, id \in Ids :
        /\ id \in registered[q] => channel[q][id] \in {"connecting", "open", "closing"}
        /\ channel[q][id] \in {"connecting", "open"} => id \in registered[q]
        /\ channel[q][id] \in States
  BY DEF AllRegistered, Registered
<1>5. Closes
  BY <1>3, <1>4 DEF Closes, Done
<1>6. AllRegistered'
  BY <1>3, <1>4 DEF AllRegistered, Registered
<1>7. \A id \in Ids : id \in streams /\ channel[p][id] # "none" => channel'[p][id] \in Done
  BY <1>3, <1>4 DEF Done, States
<1> QED
  BY <1>2, <1>3, <1>5, <1>6, <1>7

\* close() of a channel queues it or requests its reset.
LEMMA CloseChannelFacts ==
  ASSUME ChannelsInv, NEW p \in Peers, NEW id \in Ids, channel[p][id] \in {"connecting", "open"},
         NEW others \in Seq(TaskRecords), NEW resumes \in Seq(TaskRecords),
         NEW rest \in TaskRecords, others \o resumes \in Seq(TaskRecords),
         CloseChannel(p, id, others, resumes, rest),
         timer' \in [Peers -> BOOLEAN], UNCHANGED <<nextId, registered, wire, sent, got>>
  PROVE  /\ Types' /\ Closes /\ Remembers /\ AllRegistered' /\ RequestsDealt
         /\ channel'[p][id] = "closing" /\ tasks'[Other(p)] = tasks[Other(p)]
         /\ tasks'[p] \in
              {others, others \o resumes, Append(others, [rest EXCEPT !.started = TRUE])}
<1> USE DEF ChannelsInv, Types
<1> USE DEF ChannelTypes
<1>1. /\ Other(p) \in Peers /\ Other(Other(p)) = p /\ Other(p) # p
      /\ \A x \in Peers : x = p \/ x = Other(p)
  BY OtherFacts
<1> DEFINE q == IF id \in ToSet(queue[p]) THEN queue[p] ELSE Append(queue[p], id)
           old == <<id, channel[p][id]>>
<1>2. /\ channel' = [channel EXCEPT ![p][id] = "closing"]
      /\ asked' = [asked EXCEPT ![p] = asked[p] \cup {old}]
  BY DEF CloseChannel
<1>3. \/ Transmit(p, q, others, rest, chunks) /\ q # << >>
      \/ /\ queue' = [queue EXCEPT ![p] = q]
         /\ tasks' = [tasks EXCEPT ![p] = others \o resumes]
         /\ UNCHANGED <<request, nextSeq, chunks>>
  BY DEF CloseChannel, MayTransmit
<1>4. q \in Seq(Ids) /\ \A d \in ToSet(q) : d = id \/ d \in ToSet(queue[p])
  <2>1. queue[p] \in Seq(Ids)
    BY DEF ReconfigTypes
  <2>2. CASE id \in ToSet(queue[p])
    BY <2>1, <2>2
  <2>3. CASE id \notin ToSet(queue[p])
    <3>1. q = Append(queue[p], id)
      BY <2>3
    <3>2. Append(queue[p], id) \in Seq(Ids)
          /\ ToSet(Append(queue[p], id)) = ToSet(queue[p]) \cup {id}
      BY <2>1, ToSetAppend
    <3> QED
      BY <3>1, <3>2
  <2> QED
    BY <2>2, <2>3
<1> HIDE DEF q
<1>5. /\ channel' \in [Peers -> [Ids -> States]] /\ channel'[p][id] = "closing"
      /\ \A x \in Peers, d \in Ids : channel'[x][d] = channel[x][d] \/ (x = p /\ d = id)
  BY <1>2 DEF States
<1>6. /\ asked' \in [Peers -> SUBSET (Ids \X States)] /\ old \in asked'[p]
      /\ \A x \in Peers : \A a \in asked[x] : a \in asked'[x]
  <2>1. old \in Ids \X States
    OBVIOUS
  <2> HIDE DEF old
  <2> QED
    BY <2>1, <1>2
<1>7. Closes
  BY <1>5 DEF Closes, Done
<1>8. Claim(p, id)'
  <2>1. CASE channel[p][id] = "connecting"
    BY <2>1, <1>5, <1>6 DEF Claim, Done
  <2>2. CASE channel[p][id] = "open"
    <3>1. channel[Other(p)][id] # "none"
      <4>1. Created(p, id) /\ Created(Other(p), id)
        BY <1>1 DEF Opening
      <4>2. id \in OwnIds(Other(p)) <=> id \notin OwnIds(p)
        BY IdFacts
      <4> QED
        BY <4>1, <4>2, <2>2, <1>1 DEF Created, Opened
    <3>2. channel'[Other(p)][id] = channel[Other(p)][id]
      BY <1>1, <1>5
    <3> QED
      BY <3>1, <3>2, <1>5 DEF Claim, Done
  <2> QED
    BY <2>1, <2>2
<1> HIDE DEF old
<1>9. \A d \in ToSet(q) : Claim(p, d)'
  <2> TAKE d \in ToSet(q)
  <2>1. CASE d = id
    BY <2>1, <1>8
  <2>2. CASE d \in ToSet(queue[p])
    <3>1. d \in Ids /\ Claim(p, d)
      BY <2>2 DEF Closing, Requested, QueueInv, ReconfigTypes, ToSet
    <3>2. /\ channel[p][d] \in Done => channel'[p][d] \in Done
          /\ channel'[Other(p)][d] = channel[Other(p)][d]
      BY <3>1, <1>1, <1>5, <1>7 DEF Closes, Done
    <3>3. <<d, "connecting">> \in asked[p] => <<d, "connecting">> \in asked'[p]
      BY <1>6
    <3> QED
      BY <3>1, <3>2, <3>3 DEF Claim
  <2> QED
    BY <1>4, <2>1, <2>2
<1>10. \A x \in Peers : ClosedKept(x)
  BY <1>5 DEF ClosedKept
<1>11. AllRegistered' /\ Remembers
  <2>1. ASSUME NEW x \in Peers, NEW d \in Ids
        PROVE  Registered(x, d)'
    <3>1. Registered(x, d)
      BY DEF Opening
    <3> QED
      BY <3>1, <1>5 DEF Registered
  <2> QED
    BY <2>1, <1>6 DEF AllRegistered, Remembers
<1>12. CASE Transmit(p, q, others, rest, chunks) /\ q # << >>
  <2>1. ReconfigTypes /\ chunks \in [Peers -> SUBSET (Requests \cup Responses)]
    BY DEF ReconfigTypes
  <2>2. /\ queue' \in [Peers -> Seq(Ids)] /\ request' \in [Peers -> SUBSET Requests]
        /\ nextSeq' \in [Peers -> Nat] /\ tasks' \in [Peers -> Seq(TaskRecords)]
        /\ chunks' \in [Peers -> SUBSET (Requests \cup Responses)]
        /\ \A d \in ToSet(queue'[p]) : d \in ToSet(q)
        /\ queue'[Other(p)] = queue[Other(p)]
        /\ RequestMade(p) /\ RequestKept(Other(p))
        /\ \A x \in Peers : ResponsesKept(x)
        /\ tasks'[p] \in {others, Append(others, [rest EXCEPT !.started = TRUE])}
        /\ tasks'[Other(p)] = tasks[Other(p)]
    BY <1>4, <1>9, <1>12, <2>1, TransmitFacts
  <2>3. \A x \in Peers : QueueKept(x)
    BY <2>2, <1>1, <1>9 DEF QueueKept
  <2>4. RequestsDealt
    BY <2>2, <2>3, <1>1, <1>10 DEF RequestsDealt
  <2>5. Types'
    BY <2>2, <1>5, <1>6 DEF DataTypes, ReconfigTypes
  <2> QED
    BY <2>2, <2>4, <2>5, <1>5, <1>7, <1>11
<1>13. CASE /\ queue' = [queue EXCEPT ![p] = q]
            /\ tasks' = [tasks EXCEPT ![p] = others \o resumes]
            /\ UNCHANGED <<request, nextSeq, chunks>>
  <2>1. /\ queue' \in [Peers -> Seq(Ids)] /\ request' \in [Peers -> SUBSET Requests]
        /\ nextSeq' \in [Peers -> Nat] /\ tasks' \in [Peers -> Seq(TaskRecords)]
        /\ chunks' \in [Peers -> SUBSET (Requests \cup Responses)]
    BY <1>4, <1>13 DEF ReconfigTypes
  <2>2. \A x \in Peers : QueueKept(x)
    <3>1. queue'[p] = q /\ queue'[Other(p)] = queue[Other(p)]
      BY <1>1, <1>13 DEF ReconfigTypes
    <3> QED
      BY <3>1, <1>1, <1>9 DEF QueueKept
  <2>3. \A x \in Peers : RequestKept(x) /\ ResponsesKept(x)
    BY <1>13 DEF RequestKept, ResponsesKept
  <2>4. tasks'[p] = others \o resumes /\ tasks'[Other(p)] = tasks[Other(p)]
    BY <1>1, <1>13 DEF ReconfigTypes
  <2>5. RequestsDealt
    BY <2>2, <2>3, <1>10 DEF RequestsDealt
  <2>6. Types'
    BY <2>1, <1>5, <1>6 DEF DataTypes, ReconfigTypes
  <2> QED
    BY <2>4, <2>5, <2>6, <1>5, <1>7, <1>11
<1> QED
  BY <1>3, <1>12, <1>13

LEMMA ConcatFacts ==
  ASSUME NEW S, NEW s \in Seq(S), NEW x \in S
  PROVE  s \o << >> = s /\ s \o <<x>> = Append(s, x) /\ Append(s, x) \in Seq(S)
OBVIOUS

\* The handlers of p after a step that ends those in gone and starts t, or none.
LEMMA ResumedFacts ==
  ASSUME NEW p \in Peers, tasks'[Other(p)] = tasks[Other(p)],
         NEW others \in Seq(TaskRecords), NEW gone, NEW new,
         \A task \in ToSet(tasks[p]) : task \in ToSet(others) \/ task \in gone,
         \A task \in ToSet(others) : task \in ToSet(tasks[p]),
         NEW t \in TaskRecords,
         tasks'[p] = others \/ (tasks'[p] = Append(others, t) /\ t \in new)
  PROVE  Resumed(p, gone, new)
<1>1. ToSet(Append(others, t)) = ToSet(others) \cup {t}
  BY ToSetAppend
<1> QED
  BY <1>1 DEF Resumed

\* A step that leaves the channels alone, and one that leaves the requests alone.
LEMMA ChannelsLeft ==
  ASSUME ChannelsInv, UNCHANGED <<channel, registered, asked>>
  PROVE  /\ Closes /\ Remembers /\ AllRegistered' /\ \A q \in Peers : ClosedKept(q)
<1>1. ASSUME NEW q \in Peers, NEW id \in Ids
      PROVE  Registered(q, id)'
  <2>1. Registered(q, id)
    BY DEF ChannelsInv, Opening
  <2> QED
    BY <2>1 DEF Registered
<1> QED
  BY <1>1 DEF Closes, Remembers, AllRegistered, ClosedKept

LEMMA RequestsLeft ==
  ASSUME UNCHANGED <<queue, request, nextSeq, chunks>>, \A q \in Peers : ClosedKept(q)
  PROVE  RequestsDealt
BY DEF RequestsDealt, RequestKept, QueueKept, ResponsesKept

LEMMA TaskTyped ==
  ASSUME NEW at \in {"done", "response"}, NEW streams \in SUBSET Ids,
         NEW started \in BOOLEAN
  PROVE  /\ Task(at, streams, started) \in TaskRecords
         /\ Task(at, streams, started).at = at /\ Task(at, streams, started).streams = streams
BY DEF Task, TaskRecords

LEMMA StepClose ==
  ASSUME ChannelsInv, NEW p \in Peers, NEW id \in Ids, Close(p, id)
  PROVE  ChannelsInv'
<1> DEFINE done == Task("done", {}, FALSE)
           late == [done EXCEPT !.started = TRUE]
<1>1. done \in TaskRecords /\ late \in TaskRecords /\ late.at = "done" /\ done.at = "done"
  BY DEF TaskRecords, Task
<1> DEFINE others == tasks[p]
           none == << >>
<1>2. others \in Seq(TaskRecords) /\ none \in Seq(TaskRecords) /\ others \o none = others
  <2>1. tasks[p] \in Seq(TaskRecords)
    BY DEF ChannelsInv, Types, ReconfigTypes
  <2> QED
    BY <1>1, <2>1, ConcatFacts
<1>3. /\ channel[p][id] \in {"connecting", "open"}
      /\ CloseChannel(p, id, others, none, done)
      /\ UNCHANGED <<nextId, registered, timer, wire, sent, got>>
  BY DEF Close, dataVars
<1>0. tasks[p] = others
  OBVIOUS
<1> HIDE DEF done, others, none
<1>4. /\ Types' /\ Closes /\ Remembers /\ AllRegistered' /\ RequestsDealt
      /\ tasks'[p] \in {others, Append(others, late)}
      /\ tasks'[Other(p)] = tasks[Other(p)]
  <2>1. others \o none \in Seq(TaskRecords)
    BY <1>2
  <2>2. timer' \in [Peers -> BOOLEAN]
    BY <1>3 DEF ChannelsInv, Types, ReconfigTypes
  <2>3. /\ Types' /\ Closes /\ Remembers /\ AllRegistered' /\ RequestsDealt
        /\ tasks'[p] \in {others, others \o none, Append(others, late)}
        /\ tasks'[Other(p)] = tasks[Other(p)]
    BY <1>1, <1>2, <1>3, <2>1, <2>2, CloseChannelFacts
  <2> QED
    BY <1>2, <2>3
<1> HIDE DEF late
<1>5. Resumed(p, {}, {late})
  BY <1>0, <1>1, <1>2, <1>4, ResumedFacts
<1>6. Started(p, {late}) /\ Ended(p, {})
  BY <1>1 DEF Started, Ended, Answers
<1> QED
  BY <1>3, <1>4, <1>5, <1>6, ControlStep

LEMMA StepCloseAll ==
  ASSUME ChannelsInv, NEW p \in Peers, CloseAll(p)
  PROVE  ChannelsInv'
<1> DEFINE all == [at |-> "closeAll", streams |-> registered[p], started |-> FALSE,
                   known |-> registered[p]]
<1>1. all \in TaskRecords /\ all.at = "closeAll" /\ all.known \ all.streams = {}
  BY DEF ChannelsInv, Types, ChannelTypes, TaskRecords
<1>2. /\ tasks' = [tasks EXCEPT ![p] = Append(tasks[p], all)]
      /\ UNCHANGED <<nextId, channel, registered, asked>> /\ UNCHANGED <<wire, sent, got>>
      /\ UNCHANGED <<queue, request, nextSeq, chunks>> /\ UNCHANGED timer
  BY DEF CloseAll, dataVars
<1> HIDE DEF all
<1>3. tasks[p] \in Seq(TaskRecords) /\ tasks \in [Peers -> Seq(TaskRecords)]
  BY DEF ChannelsInv, Types, ReconfigTypes
<1>4. /\ tasks' \in [Peers -> Seq(TaskRecords)] /\ tasks'[p] = Append(tasks[p], all)
      /\ tasks'[Other(p)] = tasks[Other(p)]
  BY <1>1, <1>2, <1>3, OtherFacts
<1>5. Types'
  BY <1>2, <1>4 DEF ChannelsInv, Types, ChannelTypes, DataTypes, ReconfigTypes
<1>6. Resumed(p, {}, {all})
  BY <1>1, <1>3, <1>4, ResumedFacts
<1>7. Closes /\ Remembers /\ AllRegistered' /\ RequestsDealt
  BY <1>2, ChannelsLeft, RequestsLeft
<1>8. Started(p, {all}) /\ Ended(p, {})
  BY <1>1 DEF Started, Ended, Answers
<1> QED
  BY <1>2, <1>5, <1>6, <1>7, <1>8, ControlStep

\* One of p's suspended handlers goes on: task is it, and others are the ones left.
Leaves(p, task, others) ==
  /\ others \in Seq(TaskRecords) /\ task \in TaskRecords /\ task \in ToSet(tasks[p])
  /\ \A t \in ToSet(tasks[p]) : t \in ToSet(others) \/ t \in {task}
  /\ \A t \in ToSet(others) : t \in ToSet(tasks[p])
Beside == timer' \in [Peers -> BOOLEAN] /\ UNCHANGED <<nextId, wire, sent, got>>

\* What the other end has asked for in what p carries out.
LEMMA AnswerFacts ==
  ASSUME ChannelsInv, NEW p \in Peers, NEW task \in ToSet(tasks[p]), Answers(task),
         task \in TaskRecords
  PROVE  \A id \in task.streams : id \in Ids /\ id \in Held(p) /\ Claim(Other(p), id)
<1>1. Other(p) \in Peers /\ Other(Other(p)) = p
  BY OtherFacts
<1>2. AnswerInv(Other(p))
  BY <1>1 DEF ChannelsInv, Closing
<1>3. \A id \in task.streams : id \in Ids /\ id \in Held(p)
  BY DEF TaskRecords, Held
<1> QED
  BY <1>1, <1>2, <1>3 DEF AnswerInv

\* Channels that are reset because the other end has asked for it.
LEMMA ResetForAnswer ==
  ASSUME ChannelsInv, NEW p \in Peers, NEW task \in ToSet(tasks[p]), Answers(task),
         task \in TaskRecords, ResetStreams(p, task.streams)
  PROVE  /\ channel' \in [Peers -> [Ids -> States]] /\ registered' \in [Peers -> SUBSET Ids]
         /\ Closes /\ AllRegistered' /\ Ended(p, {task})
         /\ \A q \in Peers : ClosedKept(q)
<1> DEFINE streams == task.streams
<1>1. /\ Other(p) \in Peers /\ Other(Other(p)) = p
      /\ \A x \in Peers : x = p \/ x = Other(p)
  BY OtherFacts
<1>2. \A id \in streams : id \in Ids /\ Claim(Other(p), id)
  BY AnswerFacts
<1>3. ChannelTypes /\ AllRegistered
  BY DEF ChannelsInv, Types, Opening, AllRegistered
<1>4. ResetStreams(p, streams)
  OBVIOUS
<1> HIDE DEF streams
<1>5. /\ channel' \in [Peers -> [Ids -> States]] /\ registered' \in [Peers -> SUBSET Ids]
      /\ Closes /\ AllRegistered'
      /\ \A q \in Peers, id \in Ids : channel'[q][id] = "closed" =>
           channel[q][id] = "closed" \/ (q = p /\ id \in streams)
      /\ \A id \in Ids : id \in streams /\ channel[p][id] # "none" => channel'[p][id] \in Done
  BY <1>3, <1>4, ResetFacts
<1>6. \A id \in streams :
        \/ <<id, "connecting">> \in asked[Other(p)]
        \/ channel'[p][id] \in Done
  BY <1>1, <1>2, <1>5 DEF Claim
<1>7. \A id \in streams : Agreed(p, id)
  BY <1>1, <1>2 DEF Claim, Agreed
<1>8. \A q \in Peers : ClosedKept(q)
  BY <1>5, <1>7 DEF ClosedKept
<1>9. Ended(p, {task})
  BY <1>6 DEF Ended, streams
<1> QED
  BY <1>5, <1>8, <1>9

LEMMA StepAfterLast ==
  ASSUME ChannelsInv, NEW p \in Peers, NEW task, NEW others, Leaves(p, task, others), Beside,
         tasks' = [tasks EXCEPT ![p] = others], ~Answers(task),
         UNCHANGED <<channel, registered, queue, request, nextSeq, chunks, asked>>
  PROVE  ChannelsInv'
<1>1. tasks'[p] = others /\ tasks'[Other(p)] = tasks[Other(p)]
      /\ tasks' \in [Peers -> Seq(TaskRecords)]
  BY OtherFacts DEF ChannelsInv, Types, ReconfigTypes, Leaves
<1>2. Types'
  BY <1>1 DEF ChannelsInv, Types, ChannelTypes, DataTypes, ReconfigTypes, Beside
<1>3. Resumed(p, {task}, {})
  BY <1>1, ResumedFacts DEF Leaves
<1>4. Started(p, {}) /\ Ended(p, {task})
  BY DEF Started, Ended
<1>5. Closes /\ Remembers /\ AllRegistered' /\ RequestsDealt
  BY ChannelsLeft, RequestsLeft
<1> QED
  BY <1>2, <1>3, <1>4, <1>5, ControlStep DEF Beside

\* A handler ends by closing the channels of an answer.
LEMMA StepReset ==
  ASSUME ChannelsInv, NEW p \in Peers, NEW task, NEW others, Leaves(p, task, others), Beside,
         Answers(task), tasks' = [tasks EXCEPT ![p] = others], ResetStreams(p, task.streams),
         UNCHANGED <<queue, request, nextSeq, chunks, asked>>
  PROVE  ChannelsInv'
<1>1. tasks'[p] = others /\ tasks'[Other(p)] = tasks[Other(p)]
      /\ tasks' \in [Peers -> Seq(TaskRecords)]
  BY OtherFacts DEF ChannelsInv, Types, ReconfigTypes, Leaves
<1>2. /\ channel' \in [Peers -> [Ids -> States]] /\ registered' \in [Peers -> SUBSET Ids]
      /\ Closes /\ AllRegistered' /\ Ended(p, {task})
      /\ \A q \in Peers : ClosedKept(q)
  BY ResetForAnswer DEF Leaves
<1>3. Types'
  BY <1>1, <1>2 DEF ChannelsInv, Types, ChannelTypes, DataTypes, ReconfigTypes, Beside
<1>4. Resumed(p, {task}, {})
  BY <1>1, ResumedFacts DEF Leaves
<1>5. Started(p, {}) /\ Remembers
  BY DEF Started, Remembers
<1>6. RequestsDealt
  BY <1>2, RequestsLeft
<1> QED
  BY <1>2, <1>3, <1>4, <1>5, <1>6, ControlStep DEF Beside

\* The manager's close() goes on with its next channel, gives up or clears the map.
LEMMA StepNextChannel ==
  ASSUME ChannelsInv, NEW p \in Peers, NEW task, NEW others, Leaves(p, task, others), Beside,
         NextChannel(p, task, others)
  PROVE  ChannelsInv'
<1>1. task.at = "closeAll" /\ ~Answers(task)
  BY DEF NextChannel, Answers
<1>2. /\ others \in Seq(TaskRecords) /\ task.streams \in SUBSET Ids /\ task.known \in SUBSET Ids
      /\ task \in TaskRecords
  BY DEF Leaves, TaskRecords
<1>3. \A x \in task.known \ task.streams : channel[p][x] \in Done
  BY <1>1 DEF ChannelsInv, Passed, Leaves
<1>4. \A x \in Ids :
        /\ x \in registered[p] => channel[p][x] \in {"connecting", "open", "closing"}
        /\ channel[p][x] \in {"connecting", "open"} => x \in registered[p]
  BY DEF ChannelsInv, Opening, Registered
<1>5. CASE /\ registered[p] # task.known
           /\ tasks' = [tasks EXCEPT ![p] = others]
           /\ UNCHANGED <<channel, registered, queue, request, nextSeq, chunks, asked, throwVars>>
  BY <1>1, <1>5, StepAfterLast
<1>6. CASE /\ registered[p] = task.known /\ task.streams = {}
           /\ tasks' = [tasks EXCEPT ![p] = others]
           /\ registered' = [registered EXCEPT ![p] = {}]
           /\ UNCHANGED <<channel, queue, request, nextSeq, chunks, asked, throwVars>>
  <2>1. tasks'[p] = others /\ tasks'[Other(p)] = tasks[Other(p)]
        /\ tasks' \in [Peers -> Seq(TaskRecords)] /\ registered' \in [Peers -> SUBSET Ids]
        /\ registered'[p] = {} /\ \A q \in Peers : q # p => registered'[q] = registered[q]
    BY <1>2, <1>6, OtherFacts DEF ChannelsInv, Types, ChannelTypes, ReconfigTypes
  <2>2. Types'
    BY <1>6, <2>1 DEF ChannelsInv, Types, ChannelTypes, DataTypes, ReconfigTypes, Beside
  <2>3. ASSUME NEW q \in Peers, NEW x \in Ids
        PROVE  Registered(q, x)'
    <3>1. Registered(q, x)
      BY DEF ChannelsInv, Opening
    <3>2. CASE q = p
      BY <3>2, <1>3, <1>4, <1>6, <2>1 DEF Registered, Done
    <3>3. CASE q # p
      BY <3>1, <3>3, <1>6, <2>1 DEF Registered
    <3> QED
      BY <3>2, <3>3
  <2>4. Closes /\ Remembers /\ AllRegistered' /\ \A q \in Peers : ClosedKept(q)
    BY <1>6, <2>3 DEF Closes, Remembers, AllRegistered, ClosedKept
  <2>5. RequestsDealt
    BY <1>6, <2>4, RequestsLeft
  <2>6. Resumed(p, {task}, {})
    BY <1>2, <2>1, ResumedFacts DEF Leaves
  <2>7. Started(p, {}) /\ Ended(p, {task})
    BY <1>1 DEF Started, Ended
  <2> QED
    BY <2>2, <2>4, <2>5, <2>6, <2>7, ControlStep DEF Beside
<1>7. ASSUME registered[p] = task.known, UNCHANGED registered, NEW id \in task.streams,
             LET rest == [task EXCEPT !.streams = @ \ {id}, !.started = FALSE]
             IN  IF channel[p][id] \in {"connecting", "open"}
                 THEN CloseChannel(p, id, others, <<rest>>, rest)
                 ELSE /\ tasks' = [tasks EXCEPT ![p] = Append(others, rest)]
                      /\ UNCHANGED <<channel, queue, request, nextSeq, chunks, asked, throwVars>>
      PROVE  ChannelsInv'
  <2> DEFINE rest == [task EXCEPT !.streams = @ \ {id}, !.started = FALSE]
             late == [rest EXCEPT !.started = TRUE]
             one == <<rest>>
  <2>1. /\ rest \in TaskRecords /\ late \in TaskRecords /\ ~Answers(rest) /\ ~Answers(late)
        /\ rest.known = task.known /\ rest.streams = task.streams \ {id}
        /\ late.known = task.known /\ late.streams = task.streams \ {id}
    BY <1>1, <1>2 DEF TaskRecords, Answers
  <2>2. one \in Seq(TaskRecords) /\ others \o one = Append(others, rest)
        /\ others \o one \in Seq(TaskRecords)
    <3> HIDE DEF rest
    <3> QED
      BY <1>2, <2>1, ConcatFacts
  <2>3. id \in Ids /\ Ended(p, {task})
    BY <1>1, <1>2 DEF Ended
  <2>4. IF channel[p][id] \in {"connecting", "open"}
        THEN CloseChannel(p, id, others, one, rest)
        ELSE /\ tasks' = [tasks EXCEPT ![p] = Append(others, rest)]
             /\ UNCHANGED <<channel, queue, request, nextSeq, chunks, asked>>
    BY <1>7
  <2> HIDE DEF one, rest
  <2>5. CASE channel[p][id] \in {"connecting", "open"}
    <3>1. CloseChannel(p, id, others, one, rest)
      BY <2>4, <2>5
    <3>2. /\ Types' /\ Closes /\ Remembers /\ AllRegistered' /\ RequestsDealt
          /\ channel'[p][id] = "closing" /\ tasks'[Other(p)] = tasks[Other(p)]
          /\ tasks'[p] \in {others, Append(others, rest), Append(others, late)}
      BY <1>2, <1>7, <2>1, <2>2, <2>3, <2>5, <3>1, CloseChannelFacts DEF Beside
    <3> HIDE DEF late
    <3>3. Resumed(p, {task}, {rest, late})
      <4>1. CASE tasks'[p] \in {others, Append(others, rest)}
        BY <4>1, <1>2, <2>1, <3>2, ResumedFacts DEF Leaves
      <4>2. CASE tasks'[p] = Append(others, late)
        BY <4>2, <1>2, <2>1, <3>2, ResumedFacts DEF Leaves
      <4> QED
        BY <3>2, <4>1, <4>2
    <3>4. \A x \in task.known \ (task.streams \ {id}) : channel'[p][x] \in Done
      BY <1>2, <1>3, <3>2 DEF Closes, Done
    <3>5. Started(p, {rest, late})
      BY <2>1, <3>4 DEF Started
    <3> QED
      BY <1>7, <2>3, <3>2, <3>3, <3>5, ControlStep DEF Beside
  <2>6. CASE channel[p][id] \notin {"connecting", "open"}
    <3>1. /\ tasks' = [tasks EXCEPT ![p] = Append(others, rest)]
          /\ UNCHANGED <<channel, queue, request, nextSeq, chunks, asked>>
      BY <2>4, <2>6
    <3>2. Closes /\ Remembers /\ AllRegistered' /\ RequestsDealt
      BY <1>7, <3>1, ChannelsLeft, RequestsLeft
    <3>3. tasks'[p] = Append(others, rest) /\ tasks'[Other(p)] = tasks[Other(p)]
          /\ tasks' \in [Peers -> Seq(TaskRecords)]
      BY <1>2, <2>1, <3>1, OtherFacts DEF ChannelsInv, Types, ReconfigTypes
    <3>4. Types'
      BY <1>7, <3>1, <3>3 DEF ChannelsInv, Types, ChannelTypes, DataTypes, ReconfigTypes, Beside
    <3>5. Resumed(p, {task}, {rest})
      BY <1>2, <2>1, <3>3, ResumedFacts DEF Leaves
    <3>6. \A x \in task.known \ (task.streams \ {id}) : channel'[p][x] \in Done
      BY <1>2, <1>3, <1>4, <1>7, <2>6, <3>1 DEF Done
    <3>7. Started(p, {rest})
      BY <2>1, <3>6 DEF Started
    <3> QED
      BY <1>7, <2>3, <3>2, <3>4, <3>5, <3>7, ControlStep DEF Beside
  <2> QED
    BY <2>5, <2>6
<1> QED
  BY <1>5, <1>6, <1>7 DEF NextChannel

LEMMA StepSendCompletes ==
  ASSUME ChannelsInv, NEW p \in Peers, SendCompletes(p)
  PROVE  ChannelsInv'
<1>1. PICK k \in DOMAIN tasks[p] :
        LET task == tasks[p][k]
            others == RemoveAt(tasks[p], k)
        IN  /\ timer' = [timer EXCEPT ![p] = @ \/ task.started]
            /\ \/ AfterResponse(p, task, others) \/ AfterLast(p, task, others)
               \/ NextChannel(p, task, others)
  BY DEF SendCompletes
<1> DEFINE task == tasks[p][k]
           others == RemoveAt(tasks[p], k)
<1>2. tasks[p] \in Seq(TaskRecords)
  BY DEF ChannelsInv, Types, ReconfigTypes
<1>3. /\ others \in Seq(TaskRecords) /\ ToSet(tasks[p]) = ToSet(others) \cup {task}
      /\ task \in TaskRecords
  BY <1>2, RemoveAtFacts, ToSetRemoveAt
<1>4. /\ timer' = [timer EXCEPT ![p] = timer[p] \/ task.started]
      /\ \/ AfterResponse(p, task, others) \/ AfterLast(p, task, others)
         \/ NextChannel(p, task, others)
      /\ UNCHANGED <<nextId, wire, sent, got>>
  BY <1>1 DEF SendCompletes, dataVars
<1> HIDE DEF task, others
<1>5. Leaves(p, task, others)
  BY <1>3 DEF Leaves
<1>6. Beside
  <2>1. task.started \in BOOLEAN /\ timer \in [Peers -> BOOLEAN]
    BY <1>3 DEF TaskRecords, ChannelsInv, Types, ReconfigTypes
  <2>2. (timer[p] \/ task.started) \in BOOLEAN
    BY Zenon, <2>1
  <2> QED
    BY <1>4, <2>1, <2>2 DEF Beside
<1>7. CASE AfterResponse(p, task, others)
  <2>1. /\ UNCHANGED <<queue, request, nextSeq, chunks, asked>> /\ Answers(task)
        /\ tasks' = [tasks EXCEPT ![p] = others] /\ ResetStreams(p, task.streams)
    BY <1>7 DEF AfterResponse, Answers
  <2> QED
    BY <1>5, <1>6, <2>1, StepReset
<1>8. CASE AfterLast(p, task, others)
  BY <1>5, <1>6, <1>8, StepAfterLast DEF AfterLast, Answers
<1>9. CASE NextChannel(p, task, others)
  BY <1>5, <1>6, <1>9, StepNextChannel
<1> QED
  BY <1>4, <1>7, <1>8, <1>9

\* The timer fires, and a copy of the pending request goes out.
LEMMA StepTimerExpired ==
  ASSUME ChannelsInv, NEW p \in Peers, TimerExpired(p)
  PROVE  ChannelsInv'
<1> DEFINE late == Task("done", {}, TRUE)
<1>1. late \in TaskRecords /\ ~Answers(late) /\ late.at # "closeAll"
  BY DEF TaskRecords, Task, Answers
<1>2. /\ timer' = [timer EXCEPT ![p] = FALSE]
      /\ \/ UNCHANGED <<tasks, chunks>>
         \/ /\ tasks' = [tasks EXCEPT ![p] = Append(tasks[p], late)]
            /\ chunks' = [chunks EXCEPT ![Other(p)] = chunks[Other(p)] \cup request[p]]
      /\ UNCHANGED <<nextId, channel, registered, asked, queue, request, nextSeq>>
      /\ UNCHANGED <<wire, sent, got>>
  BY OtherFacts DEF TimerExpired, dataVars
<1> HIDE DEF late
<1>3. /\ tasks[p] \in Seq(TaskRecords) /\ tasks \in [Peers -> Seq(TaskRecords)]
      /\ chunks \in [Peers -> SUBSET (Requests \cup Responses)]
      /\ request \in [Peers -> SUBSET Requests] /\ timer \in [Peers -> BOOLEAN]
  BY DEF ChannelsInv, Types, ReconfigTypes
<1>4. /\ Other(p) \in Peers /\ Other(Other(p)) = p /\ Other(p) # p
      /\ \A x \in Peers : x = p \/ x = Other(p)
  BY OtherFacts
<1>5. /\ tasks' \in [Peers -> Seq(TaskRecords)] /\ tasks'[Other(p)] = tasks[Other(p)]
      /\ tasks'[p] = tasks[p] \/ tasks'[p] = Append(tasks[p], late)
      /\ timer' \in [Peers -> BOOLEAN]
  <2>1. timer' \in [Peers -> BOOLEAN]
    BY <1>2, <1>3
  <2>2. CASE tasks' = tasks
    BY <2>1, <2>2, <1>3
  <2>3. CASE tasks' = [tasks EXCEPT ![p] = Append(tasks[p], late)]
    <3> DEFINE more == Append(tasks[p], late)
    <3>1. more \in Seq(TaskRecords)
      BY <1>1, <1>3, ConcatFacts
    <3>2. tasks' = [tasks EXCEPT ![p] = more]
      BY <2>3
    <3> HIDE DEF more
    <3>3. tasks' \in [Peers -> Seq(TaskRecords)] /\ tasks'[Other(p)] = tasks[Other(p)]
          /\ tasks'[p] = more
      BY <3>1, <3>2, <1>3, <1>4
    <3> QED
      BY <2>1, <3>3 DEF more
  <2> QED
    BY <2>2, <2>3, <1>2
<1>6. /\ chunks' \in [Peers -> SUBSET (Requests \cup Responses)] /\ chunks'[p] = chunks[p]
      /\ \A chunk \in chunks'[Other(p)] : chunk \in chunks[Other(p)] \/ chunk \in request[p]
  BY <1>2, <1>3, <1>4
<1>7. Types'
  BY <1>2, <1>5, <1>6 DEF ChannelsInv, Types, ChannelTypes, DataTypes, ReconfigTypes
<1>8. Closes /\ Remembers /\ AllRegistered' /\ \A x \in Peers : ClosedKept(x)
  BY <1>2, ChannelsLeft
<1>9. \A x \in Peers : RequestKept(x) /\ QueueKept(x)
  BY <1>2, <1>4, <1>6 DEF RequestKept, QueueKept
<1>10. \A x \in Peers : ResponsesKept(x)
  <2>1. \A r \in request[p] : r.type = "request"
    BY <1>3 DEF Requests
  <2> QED
    BY <2>1, <1>4, <1>6 DEF ResponsesKept
<1>11. RequestsDealt
  BY <1>8, <1>9, <1>10 DEF RequestsDealt
<1>12. Resumed(p, {}, {late})
  BY <1>1, <1>3, <1>5, ResumedFacts
<1>13. Started(p, {late}) /\ Ended(p, {})
  BY <1>1 DEF Started, Ended
<1> QED
  BY <1>2, <1>7, <1>8, <1>11, <1>12, <1>13, ControlStep

LEMMA TakenFacts ==
  ASSUME Types, NEW p \in Peers, NEW chunk
  PROVE  /\ Taken(p, chunk) \in [Peers -> SUBSET (Requests \cup Responses)]
         /\ \A x \in Peers : \A c \in Taken(p, chunk)[x] : c \in chunks[x]
BY DEF Types, ReconfigTypes, Taken

\* A chunk that is lost, or whose answer cannot be sent.
LEMMA StepTaken ==
  ASSUME ChannelsInv, NEW p \in Peers, NEW chunk \in chunks[p], chunks' = Taken(p, chunk),
         UNCHANGED <<nextId, channel, registered, queue, request, nextSeq, timer, wire, sent, got, asked>>,
         UNCHANGED tasks
  PROVE  ChannelsInv'
<1>1. /\ chunks' \in [Peers -> SUBSET (Requests \cup Responses)]
      /\ \A x \in Peers : \A c \in chunks'[x] : c \in chunks[x]
  BY TakenFacts DEF ChannelsInv
<1>2. Types'
  BY <1>1 DEF ChannelsInv, Types, ChannelTypes, DataTypes, ReconfigTypes
<1>3. Closes /\ Remembers /\ AllRegistered' /\ \A x \in Peers : ClosedKept(x)
  BY ChannelsLeft
<1>4. RequestsDealt
  <2>1. \A x \in Peers : RequestKept(x) /\ QueueKept(x) /\ ResponsesKept(x)
    BY <1>1, OtherFacts DEF RequestKept, QueueKept, ResponsesKept
  <2> QED
    BY <2>1, <1>3 DEF RequestsDealt
<1>5. Resumed(p, {}, {}) /\ Started(p, {}) /\ Ended(p, {})
  BY DEF Resumed, Started, Ended
<1> QED
  BY <1>2, <1>3, <1>4, <1>5, ControlStep

\* A request arrives: its response goes out, and a handler will reset its streams.
LEMMA StepHandleRequest ==
  ASSUME ChannelsInv, NEW p \in Peers, HandleRequest(p)
  PROVE  ChannelsInv'
<1>1. PICK chunk \in chunks[p] :
        /\ chunk.type = "request"
        /\ \/ /\ chunks' = [Taken(p, chunk) EXCEPT ![Other(p)] = @ \cup {Response(chunk.seq)}]
              /\ tasks' = [tasks EXCEPT ![p] = Append(@, Task("response", chunk.streams, FALSE))]
           \/ chunks' = Taken(p, chunk) /\ UNCHANGED tasks
  BY DEF HandleRequest
<1>0. CASE chunks' = Taken(p, chunk) /\ UNCHANGED tasks
  <2>1. UNCHANGED <<nextId, channel, registered, queue, request, nextSeq, timer, wire, sent, got, asked>>
    BY DEF HandleRequest, dataVars
  <2> QED
    BY <1>0, <2>1, StepTaken
<1>01. SUFFICES
      ASSUME chunks' = [Taken(p, chunk) EXCEPT ![Other(p)] = @ \cup {Response(chunk.seq)}],
             tasks' = [tasks EXCEPT ![p] = Append(@, Task("response", chunk.streams, FALSE))]
      PROVE  ChannelsInv'
  BY <1>0, <1>1
<1> DEFINE answer == Task("response", chunk.streams, FALSE)
           response == Response(chunk.seq)
<1>2. /\ tasks[p] \in Seq(TaskRecords) /\ tasks \in [Peers -> Seq(TaskRecords)]
      /\ chunks \in [Peers -> SUBSET (Requests \cup Responses)]
      /\ chunk \in Requests
  BY <1>1 DEF ChannelsInv, Types, ReconfigTypes, Responses
<1>3. /\ Other(p) \in Peers /\ Other(Other(p)) = p /\ Other(p) # p
      /\ \A x \in Peers : x = p \/ x = Other(p)
  BY OtherFacts
<1>4. /\ answer \in TaskRecords /\ Answers(answer) /\ answer.at = "response"
      /\ answer.streams = chunk.streams
  BY <1>2 DEF TaskRecords, Task, Answers, Requests
<1>5. response \in Responses /\ response.type = "response" /\ response.seq = chunk.seq
  BY <1>2 DEF Response, Responses, Requests
<1>6. UNCHANGED <<nextId, channel, registered, queue, request, nextSeq, timer, wire, sent, got, asked>>
  BY DEF HandleRequest, dataVars
<1>7. /\ tasks' \in [Peers -> Seq(TaskRecords)] /\ tasks'[Other(p)] = tasks[Other(p)]
      /\ tasks'[p] = Append(tasks[p], answer)
  <2>1. tasks' = [tasks EXCEPT ![p] = Append(tasks[p], answer)]
    BY <1>01
  <2> HIDE DEF answer
  <2> QED
    BY <2>1, <1>2, <1>3, <1>4
<1>8. /\ chunks' \in [Peers -> SUBSET (Requests \cup Responses)]
      /\ \A c \in chunks'[p] : c \in chunks[p]
      /\ \A c \in chunks'[Other(p)] : c \in chunks[Other(p)] \/ c = response
  <2>1. chunks' = [[chunks EXCEPT ![p] = chunks[p] \ {chunk}] EXCEPT
                     ![Other(p)] = chunks[Other(p)] \cup {response}]
    BY <1>01, <1>2, <1>3 DEF Taken
  <2> HIDE DEF response
  <2> QED
    BY <2>1, <1>2, <1>3, <1>5
<1> HIDE DEF answer, response
<1>9. Types'
  BY <1>6, <1>7, <1>8 DEF ChannelsInv, Types, ChannelTypes, DataTypes, ReconfigTypes
<1>10. Closes /\ Remembers /\ AllRegistered' /\ \A x \in Peers : ClosedKept(x)
  BY <1>6, ChannelsLeft
<1>11. /\ chunk.seq < nextSeq[Other(p)] /\ \A id \in chunk.streams : Claim(Other(p), id)
       /\ \A r \in request[Other(p)] : r.seq = chunk.seq => r = chunk
  BY <1>1, <1>3 DEF ChannelsInv, Closing, Requested, ChunkInv
<1>12. \A x \in Peers : RequestKept(x) /\ QueueKept(x)
  BY <1>3, <1>5, <1>6, <1>8 DEF RequestKept, QueueKept
<1>13. \A id \in chunk.streams : id \in Held(p)'
  <2>1. answer \in ToSet(tasks'[p])
    BY <1>2, <1>4, <1>7, ToSetAppend
  <2>2. \A id \in chunk.streams : id \in Ids
    BY <1>2 DEF Requests
  <2> QED
    BY <2>1, <2>2, <1>4 DEF Held, Answers
<1>14. \A id \in chunk.streams : Agreed(Other(p), id)'
  BY <1>3, <1>13 DEF Agreed
<1>15. \A x \in Peers : ResponsesKept(x)
  <2>1. ResponsesKept(p)
    BY <1>8 DEF ResponsesKept
  <2>2. ResponsesKept(Other(p))
    BY <1>3, <1>5, <1>8, <1>11, <1>14 DEF ResponsesKept
  <2> QED
    BY <2>1, <2>2, <1>3
<1>16. RequestsDealt
  BY <1>10, <1>12, <1>15 DEF RequestsDealt
<1>17. Resumed(p, {}, {answer})
  BY <1>2, <1>4, <1>7, ResumedFacts
<1>18. Started(p, {answer}) /\ Ended(p, {})
  BY <1>4, <1>11 DEF Started, Ended
<1> QED
  BY <1>6, <1>9, <1>10, <1>16, <1>17, <1>18, ControlStep

LEMMA ClaimKept ==
  ASSUME Closes, Remembers, NEW q \in Peers, NEW id \in Ids, Claim(q, id)
  PROVE  Claim(q, id)'
<1>1. Other(q) \in Peers
  BY OtherFacts
<1>2. /\ channel[q][id] \in Done => channel'[q][id] \in Done
      /\ channel[Other(q)][id] # "none" => channel'[Other(q)][id] # "none"
  BY <1>1 DEF Closes, Done
<1>3. <<id, "connecting">> \in asked[q] => <<id, "connecting">> \in asked'[q]
  BY DEF Remembers
<1> QED
  BY <1>2, <1>3 DEF Claim

LEMMA StepLose ==
  ASSUME ChannelsInv, NEW p \in Peers, Lose(p)
  PROVE  ChannelsInv'
<1>1. PICK chunk \in chunks[p] : chunks' = Taken(p, chunk)
  BY DEF Lose
<1>2. UNCHANGED <<nextId, channel, registered, queue, request, nextSeq, timer, wire, sent, got, asked>>
      /\ UNCHANGED tasks
  BY DEF Lose, dataVars
<1> QED
  BY <1>1, <1>2, StepTaken

\* A response arrives.  The one to the pending request closes its channels, and the
\* streams that are still queued are requested; any other is dropped.
LEMMA StepHandleResponse ==
  ASSUME ChannelsInv, NEW p \in Peers, HandleResponse(p)
  PROVE  ChannelsInv'
<1>1. PICK chunk \in chunks[p] :
        /\ chunk.type = "response"
        /\ IF \E r \in request[p] : r.seq = chunk.seq
           THEN /\ \E r \in request[p] : ResetStreams(p, r.streams)
                /\ timer' = [timer EXCEPT ![p] = FALSE]
                /\ IF MayTransmit(queue[p], {})
                   THEN Transmit(p, queue[p], tasks[p], Task("done", {}, TRUE), Taken(p, chunk))
                   ELSE /\ request' = [request EXCEPT ![p] = {}]
                        /\ chunks' = Taken(p, chunk)
                        /\ UNCHANGED <<queue, nextSeq, tasks, throwVars>>
           ELSE /\ chunks' = Taken(p, chunk)
                /\ UNCHANGED <<channel, registered, timer, queue, request, nextSeq, tasks, throwVars>>
  BY DEF HandleResponse
<1>2. UNCHANGED <<nextId, wire, sent, got, asked>>
  BY DEF HandleResponse, dataVars
<1>3. /\ Other(p) \in Peers /\ Other(Other(p)) = p /\ Other(p) # p
      /\ \A x \in Peers : x = p \/ x = Other(p)
  BY OtherFacts
<1> DEFINE left == Taken(p, chunk)
<1>4. /\ left \in [Peers -> SUBSET (Requests \cup Responses)]
      /\ \A x \in Peers : \A c \in left[x] : c \in chunks[x]
  BY TakenFacts DEF ChannelsInv
<1> HIDE DEF left
<1>5. Remembers
  BY <1>2 DEF Remembers
<1>6. CASE /\ chunks' = left
           /\ UNCHANGED <<channel, registered, timer, queue, request, nextSeq, tasks, throwVars>>
  <2>1. Types'
    BY <1>2, <1>4, <1>6 DEF ChannelsInv, Types, ChannelTypes, DataTypes, ReconfigTypes
  <2>2. Closes /\ AllRegistered' /\ \A x \in Peers : ClosedKept(x)
    BY <1>2, <1>6, ChannelsLeft
  <2>3. RequestsDealt
    <3>1. \A x \in Peers : RequestKept(x) /\ QueueKept(x) /\ ResponsesKept(x)
      BY <1>3, <1>4, <1>6 DEF RequestKept, QueueKept, ResponsesKept
    <3> QED
      BY <3>1, <2>2 DEF RequestsDealt
  <2>4. Resumed(p, {}, {}) /\ Started(p, {}) /\ Ended(p, {})
    BY <1>6 DEF Resumed, Started, Ended
  <2> QED
    BY <1>2, <1>5, <2>1, <2>2, <2>3, <2>4, ControlStep
<1>7. ASSUME \E r \in request[p] : r.seq = chunk.seq,
             NEW r \in request[p], ResetStreams(p, r.streams),
             timer' = [timer EXCEPT ![p] = FALSE],
             IF MayTransmit(queue[p], {})
             THEN Transmit(p, queue[p], tasks[p], Task("done", {}, TRUE), left)
             ELSE /\ request' = [request EXCEPT ![p] = {}]
                  /\ chunks' = left
                  /\ UNCHANGED <<queue, nextSeq, tasks, throwVars>>
      PROVE  ChannelsInv'
  <2> DEFINE streams == r.streams
             q == queue[p]
             others == tasks[p]
             done == Task("done", {}, TRUE)
             late == [done EXCEPT !.started = TRUE]
  <2>1. r.seq = chunk.seq
    BY <1>7 DEF ChannelsInv, Closing, Requested, RequestInv
  <2>2. \A id \in streams : Agreed(p, id)
    BY <1>1, <2>1 DEF ChannelsInv, Closing, Requested, ResponseInv
  <2>3. ChannelTypes /\ AllRegistered /\ ResetStreams(p, streams)
    BY <1>7 DEF ChannelsInv, Types, Opening, AllRegistered
  <2>4. timer' \in [Peers -> BOOLEAN]
    BY <1>7 DEF ChannelsInv, Types, ReconfigTypes
  <2>5. /\ ReconfigTypes /\ q \in Seq(Ids) /\ others \in Seq(TaskRecords)
        /\ request \in [Peers -> SUBSET Requests]
    BY DEF ChannelsInv, Types, ReconfigTypes
  <2>6. /\ done \in TaskRecords /\ late \in TaskRecords
        /\ late.at = "done"
    BY DEF TaskRecords, Task
  <2>7. \A id \in ToSet(q) : id \in Ids /\ Claim(p, id)
    BY <2>5 DEF ChannelsInv, Closing, Requested, QueueInv, ToSet
  <2>8. \/ Transmit(p, q, others, done, left) /\ q # << >>
        \/ /\ request' = [request EXCEPT ![p] = {}]
           /\ chunks' = left
           /\ UNCHANGED <<queue, nextSeq, tasks>>
    BY <1>7 DEF MayTransmit
  <2>9. tasks[p] = others /\ queue[p] = q
    OBVIOUS
  <2> HIDE DEF streams, q, others, done
  <2>10. /\ channel' \in [Peers -> [Ids -> States]] /\ registered' \in [Peers -> SUBSET Ids]
         /\ Closes /\ AllRegistered'
         /\ \A x \in Peers, id \in Ids : channel'[x][id] = "closed" =>
              channel[x][id] = "closed" \/ (x = p /\ id \in streams)
    BY <2>3, ResetFacts
  <2>11. \A x \in Peers : ClosedKept(x)
    BY <2>2, <2>10 DEF ClosedKept
  <2>12. \A id \in ToSet(q) : Claim(p, id)'
    BY <1>5, <2>7, <2>10, ClaimKept
  <2>13. CASE Transmit(p, q, others, done, left) /\ q # << >>
    <3>1. /\ queue' \in [Peers -> Seq(Ids)] /\ request' \in [Peers -> SUBSET Requests]
          /\ nextSeq' \in [Peers -> Nat] /\ tasks' \in [Peers -> Seq(TaskRecords)]
          /\ chunks' \in [Peers -> SUBSET (Requests \cup Responses)]
          /\ \A id \in ToSet(queue'[p]) : id \in ToSet(q)
          /\ queue'[Other(p)] = queue[Other(p)]
          /\ RequestMade(p) /\ RequestKept(Other(p))
          /\ \A x \in Peers : ResponsesKept(x)
          /\ tasks'[p] \in {others, Append(others, late)}
          /\ tasks'[Other(p)] = tasks[Other(p)]
      BY <1>4, <2>5, <2>6, <2>12, <2>13, TransmitFacts
    <3> HIDE DEF late
    <3>2. Types'
      BY <1>2, <2>4, <2>10, <3>1 DEF ChannelsInv, Types, ChannelTypes, DataTypes, ReconfigTypes
    <3>3. \A x \in Peers : QueueKept(x)
      BY <1>3, <2>12, <3>1 DEF QueueKept
    <3>4. RequestsDealt
      BY <1>3, <2>11, <3>1, <3>3 DEF RequestsDealt
    <3>5. Resumed(p, {}, {late})
      BY <2>5, <2>6, <2>9, <3>1, ResumedFacts
    <3>6. Started(p, {late}) /\ Ended(p, {})
      BY <2>6 DEF Started, Ended, Answers
    <3> QED
      BY <1>2, <1>5, <2>10, <3>2, <3>4, <3>5, <3>6, ControlStep
  <2>14. CASE /\ request' = [request EXCEPT ![p] = {}]
              /\ chunks' = left
              /\ UNCHANGED <<queue, nextSeq, tasks>>
    <3>1. Types'
      BY <1>2, <1>4, <2>4, <2>10, <2>14
         DEF ChannelsInv, Types, ChannelTypes, DataTypes, ReconfigTypes
    <3>2. request'[p] = {} /\ request'[Other(p)] = request[Other(p)]
      BY <1>3, <2>5, <2>14
    <3>3. \A x \in Peers : RequestKept(x) /\ QueueKept(x) /\ ResponsesKept(x)
      BY <1>3, <1>4, <2>14, <3>2 DEF RequestKept, QueueKept, ResponsesKept
    <3>4. RequestsDealt
      BY <2>11, <3>3 DEF RequestsDealt
    <3>5. Resumed(p, {}, {}) /\ Started(p, {}) /\ Ended(p, {})
      BY <2>14 DEF Resumed, Started, Ended
    <3> QED
      BY <1>2, <1>5, <2>10, <3>1, <3>4, <3>5, ControlStep
  <2> QED
    BY <2>8, <2>13, <2>14
<1> QED
  BY <1>1, <1>6, <1>7 DEF left

-----------------------------------------------------------------------------
(* Steps that open a channel and carry messages *)

\* What such a step changes of a channel at both ends.
SameOpening(id) ==
  \A q \in Peers :
    /\ channel'[q][id] = channel[q][id] /\ sent'[q][id] = sent[q][id]
    /\ wire'[q][id] = wire[q][id] /\ (id \in registered'[q] <=> id \in registered[q])
SameStream(id) ==
  \A q \in Peers :
    /\ channel'[q][id] = channel[q][id] /\ sent'[q][id] = sent[q][id]
    /\ wire'[q][id] = wire[q][id] /\ got'[q][id] = got[q][id]

LEMMA OpeningKept ==
  ASSUME ChannelTypes, ChannelTypes', \A q \in Peers : nextId[q] <= nextId'[q], NEW id \in Ids,
         SameOpening(id), \A q \in Peers : Opening(q, id)
  PROVE  \A q \in Peers : Opening(q, id)'
<1> TAKE q \in Peers
<1>1. Other(q) \in Peers
  BY OtherFacts
<1>2. /\ Created(q, id) /\ Unused(q, id) /\ Handshake(q, id) /\ Registered(q, id)
      /\ channel'[q][id] = channel[q][id] /\ channel'[Other(q)][id] = channel[Other(q)][id]
      /\ sent'[q][id] = sent[q][id] /\ wire'[Other(q)][id] = wire[Other(q)][id]
      /\ wire'[q][id] = wire[q][id] /\ (id \in registered'[q] <=> id \in registered[q])
  BY <1>1 DEF Opening, SameOpening
<1>3. Created(q, id)'
  <2>1. id \in OwnIds(q) => id \in Nat
    BY IdFacts
  <2>2. nextId[q] \in Nat /\ nextId'[q] \in Nat /\ nextId[q] <= nextId'[q]
    BY DEF ChannelTypes
  <2> QED
    BY <1>2, <2>1, <2>2 DEF Created
<1>4. Unused(q, id)' /\ Registered(q, id)'
  BY <1>2 DEF Unused, Registered
<1>5. Handshake(q, id)'
  BY <1>2 DEF Handshake
<1> QED
  BY <1>3, <1>4, <1>5 DEF Opening

LEMMA StreamKept ==
  ASSUME NEW id \in Ids, SameStream(id), \A q \in Peers : Stream(q, id)
  PROVE  \A q \in Peers : Stream(q, id)'
<1> TAKE q \in Peers
<1>1. Other(q) \in Peers
  BY OtherFacts
<1>2. /\ InOrder(q, id) /\ Contiguous(q, id)
      /\ channel'[q][id] = channel[q][id] /\ channel'[Other(q)][id] = channel[Other(q)][id]
      /\ sent'[Other(q)][id] = sent[Other(q)][id] /\ got'[q][id] = got[q][id]
      /\ wire'[q][id] = wire[q][id]
  BY <1>1 DEF Stream, SameStream
<1>3. InOrder(q, id)'
  BY <1>2 DEF InOrder
<1>4. Contiguous(q, id)'
  BY <1>2 DEF Contiguous, Control
<1> QED
  BY <1>3, <1>4 DEF Stream

\* A step that changes one channel, and neither requests nor handlers.
LEMMA DataStep ==
  ASSUME ChannelsInv, Types', NEW d \in Ids,
         UNCHANGED <<queue, request, nextSeq, tasks, chunks, asked>>,
         \A q \in Peers : nextId[q] <= nextId'[q],
         \A q \in Peers, id \in Ids :
           /\ channel[q][id] \in Done => channel'[q][id] \in Done
           /\ channel[q][id] # "none" => channel'[q][id] # "none"
           /\ channel'[q][id] = "closed" => channel[q][id] = "closed",
         \A id \in Ids \ {d} : SameOpening(id) /\ SameStream(id),
         \A q \in Peers : Opening(q, d)',
         d \notin Unordered => \A q \in Peers : Stream(q, d)'
  PROVE  ChannelsInv'
<1>1. \A q \in Peers : Held(q)' = Held(q)
  BY DEF Held
<1>2. Forward
  BY <1>1 DEF Forward
<1>3. RequestsKept
  BY <1>1, OtherFacts DEF RequestsKept, RequestKept, QueueKept, ResponsesKept, AnswersKept, ClosedKept
<1>4. \A q \in Peers : Closing(q)'
  BY <1>2, <1>3, ClosingKept DEF ChannelsInv
<1>5. \A q \in Peers : Passed(q)'
  <2> TAKE q \in Peers
  <2>1. \A task \in ToSet(tasks[q]) : task.known \in SUBSET Ids
    <3>1. tasks[q] \in Seq(TaskRecords)
      BY DEF ChannelsInv, Types, ReconfigTypes
    <3>2. \A task \in ToSet(tasks[q]) : task \in TaskRecords
      BY <3>1 DEF ToSet
    <3> QED
      BY <3>2 DEF TaskRecords
  <2> QED
    BY <2>1 DEF ChannelsInv, Passed
<1>6. \A id \in Ids : \A q \in Peers : Opening(q, id)'
  <2> TAKE id \in Ids
  <2>1. CASE id = d
    BY <2>1
  <2>2. CASE id # d
    BY <2>2, OpeningKept DEF ChannelsInv, Types
  <2> QED
    BY <2>1, <2>2
<1>7. \A id \in Ids \ Unordered : \A q \in Peers : Stream(q, id)'
  <2> TAKE id \in Ids \ Unordered
  <2>1. CASE id = d
    BY <2>1
  <2>2. CASE id # d
    BY <2>2, StreamKept DEF ChannelsInv
  <2> QED
    BY <2>1, <2>2
<1> QED
  BY <1>4, <1>5, <1>6, <1>7 DEF ChannelsInv

\* A channel that one end has not made is unused, also by the end that makes it.
LEMMA FreshFacts ==
  ASSUME ChannelsInv, NEW p \in Peers, NEW id \in OwnIds(p), channel[p][id] = "none"
  PROVE  /\ id \in Ids /\ id \notin OwnIds(Other(p)) /\ channel[Other(p)][id] = "none"
         /\ sent[p][id] = 0 /\ sent[Other(p)][id] = 0
         /\ wire[p][id] = << >> /\ wire[Other(p)][id] = << >>
<1>1. Other(p) \in Peers /\ Other(Other(p)) = p
  BY OtherFacts
<1>2. id \in Ids /\ id \notin OwnIds(Other(p))
  BY IdFacts
<1>3. Created(p, id) /\ Unused(p, id) /\ Unused(Other(p), id)
  BY <1>1, <1>2 DEF ChannelsInv, Opening
<1> QED
  BY <1>1, <1>2, <1>3 DEF Created, Unused

LEMMA StepCreate ==
  ASSUME ChannelsInv, NEW p \in Peers, CreateDataChannel(p)
  PROVE  ChannelsInv'
<1> DEFINE o == Other(p)
           open == Message("OPEN", 0, FALSE)
<1>8. PICK id \in OwnIds(p) : id = nextId[p]
  BY DEF CreateDataChannel
<1>1. o \in Peers /\ Other(o) = p /\ o # p /\ \A q \in Peers : q = p \/ q = o
  BY OtherFacts
<1>2. /\ id \in OwnIds(p)
      /\ nextId' = [nextId EXCEPT ![p] = nextId[p] + 2]
      /\ channel' = [channel EXCEPT ![p][id] = "connecting"]
      /\ registered' = [registered EXCEPT ![p] = registered[p] \cup {id}]
      /\ wire' = [wire EXCEPT ![o][id] = Append(wire[o][id], open)]
      /\ UNCHANGED <<queue, request, nextSeq, tasks, chunks, asked>>
      /\ UNCHANGED <<timer, sent, got>>
  BY <1>1, <1>8 DEF CreateDataChannel, Append2, reconfigVars
<1>3. ChannelTypes /\ DataTypes /\ ReconfigTypes
  BY DEF ChannelsInv, Types
<1>4. id \in Ids /\ id \in Nat
  BY <1>2, IdFacts
<1>5. channel[p][id] = "none"
  BY <1>2, <1>4, <1>8 DEF ChannelsInv, Opening, Created
<1>6. /\ id \notin OwnIds(o) /\ channel[o][id] = "none"
      /\ sent[p][id] = 0 /\ sent[o][id] = 0 /\ wire[p][id] = << >> /\ wire[o][id] = << >>
  BY <1>2, <1>5, FreshFacts
<1>7. /\ open \in Messages /\ open.kind = "OPEN" /\ open.unordered = FALSE
  BY DEF Message, Messages, Kinds
<1> HIDE DEF o, open
<1>9. /\ channel' \in [Peers -> [Ids -> States]] /\ channel'[p][id] = "connecting"
      /\ channel'[o][id] = "none"
      /\ \A q \in Peers, x \in Ids : x # id => channel'[q][x] = channel[q][x]
  BY <1>1, <1>2, <1>3, <1>4, <1>6 DEF ChannelTypes, States
<1>10. /\ wire' \in [Peers -> [Ids -> Seq(Messages)]] /\ wire'[p][id] = << >>
       /\ wire'[o][id] = Append(<< >>, open)
       /\ \A q \in Peers, x \in Ids : x # id => wire'[q][x] = wire[q][x]
  BY <1>1, <1>2, <1>3, <1>4, <1>6, <1>7 DEF DataTypes
<1>11. Len(wire'[o][id]) = 1 /\ wire'[o][id][1] = open /\ DOMAIN wire'[o][id] = 1..1
  BY <1>7, <1>10
<1>12. /\ registered' \in [Peers -> SUBSET Ids] /\ id \in registered'[p]
       /\ id \in registered'[o] <=> id \in registered[o]
       /\ \A q \in Peers, x \in Ids : x # id => (x \in registered'[q] <=> x \in registered[q])
  BY <1>1, <1>2, <1>3, <1>4 DEF ChannelTypes
<1>13. /\ nextId' \in [Peers -> Nat] /\ nextId'[p] = id + 2
       /\ \A q \in Peers : nextId[q] <= nextId'[q]
  BY <1>2, <1>3, <1>4, <1>8 DEF ChannelTypes
<1>14. Types'
  BY <1>2, <1>3, <1>9, <1>10, <1>12, <1>13 DEF Types, ChannelTypes, DataTypes, ReconfigTypes
<1>15. Opening(p, id)'
  <2>1. Created(p, id)'
    BY <1>1, <1>4, <1>9, <1>13 DEF Created, o
  <2>2. Unused(p, id)' /\ Handshake(p, id)' /\ Registered(p, id)'
    BY <1>9, <1>10, <1>12 DEF Unused, Handshake, Registered
  <2> QED
    BY <2>1, <2>2 DEF Opening
<1>16. Opening(o, id)'
  <2>1. Created(o, id)'
    BY <1>6 DEF Created
  <2>2. Unused(o, id)'
    BY <1>1, <1>2, <1>6, <1>10 DEF Unused
  <2>3. Handshake(o, id)'
    BY <1>1, <1>2, <1>7, <1>9, <1>11 DEF Handshake
  <2>4. Registered(o, id)'
    <3>1. Registered(o, id)
      BY <1>1, <1>4 DEF ChannelsInv, Opening
    <3> QED
      BY <3>1, <1>6, <1>9, <1>12 DEF Registered
  <2> QED
    BY <2>1, <2>2, <2>3, <2>4 DEF Opening
<1>17. ASSUME id \notin Unordered
       PROVE  Stream(p, id)' /\ Stream(o, id)'
  <2>1. Contiguous(p, id) /\ Contiguous(o, id)
    BY <1>1, <1>4, <1>17 DEF ChannelsInv, Stream
  <2>2. /\ Len(got[p][id]) = 0 /\ Len(got[o][id]) = 0
        /\ \A i \in DOMAIN got[p][id] : got[p][id][i] = i
        /\ \A i \in DOMAIN got[o][id] : got[o][id][i] = i
    <3>1. Len(got[p][id]) \in Nat /\ Len(got[o][id]) \in Nat /\ Len(<< >>) = 0
      BY <1>1, <1>3, <1>4 DEF DataTypes
    <3> QED
      BY <2>1, <3>1, <1>1, <1>5, <1>6 DEF Contiguous, Control, o
  <2>3. Stream(p, id)'
    <3>1. InOrder(p, id)'
      BY <1>10 DEF InOrder
    <3>2. /\ channel'[p][id] = "connecting" /\ channel'[o][id] = "none" /\ sent'[o][id] = 0
          /\ Len(wire'[p][id]) = 0 /\ Control(wire'[p][id]) = 0
          /\ got'[p][id] = got[p][id] /\ Len(got[p][id]) = 0
      BY <2>2, <1>2, <1>6, <1>9, <1>10 DEF Control
    <3>3. Contiguous(p, id)'
      BY <2>2, <3>2 DEF Contiguous, o
    <3> QED
      BY <3>1, <3>3 DEF Stream
  <2>4. Stream(o, id)'
    <3>1. InOrder(o, id)'
      BY <1>7, <1>11 DEF InOrder
    <3>2. Control(wire'[o][id]) = 1
      BY <1>7, <1>11 DEF Control
    <3>3. /\ channel'[o][id] = "none" /\ sent'[p][id] = 0 /\ Len(wire'[o][id]) = 1
          /\ got'[o][id] = got[o][id] /\ Len(got[o][id]) = 0
      BY <2>2, <1>2, <1>6, <1>9, <1>11
    <3>4. Contiguous(o, id)'
      BY <2>2, <3>2, <3>3, <1>1 DEF Contiguous
    <3> QED
      BY <3>1, <3>4 DEF Stream
  <2> QED
    BY <2>3, <2>4
<1>18. \A x \in Ids \ {id} : SameOpening(x) /\ SameStream(x)
  BY <1>2, <1>9, <1>10, <1>12 DEF SameOpening, SameStream
<1>19. \A q \in Peers, x \in Ids :
         /\ channel[q][x] \in Done => channel'[q][x] \in Done
         /\ channel[q][x] # "none" => channel'[q][x] # "none"
         /\ channel'[q][x] = "closed" => channel[q][x] = "closed"
  BY <1>1, <1>5, <1>6, <1>9 DEF Done
<1> QED
  BY <1>1, <1>2, <1>4, <1>13, <1>14, <1>15, <1>16, <1>17, <1>18, <1>19, DataStep

\* What is on the way to a channel that another message joins.
LEMMA AppendedFacts ==
  ASSUME NEW w \in Seq(Messages), NEW m \in Messages
  PROVE  /\ Append(w, m) \in Seq(Messages) /\ Len(Append(w, m)) = Len(w) + 1 /\ Len(w) \in Nat
         /\ DOMAIN Append(w, m) = 1..(Len(w) + 1) /\ DOMAIN w = 1..Len(w)
         /\ \A i \in 1..Len(w) : Append(w, m)[i] = w[i]
         /\ Append(w, m)[Len(w) + 1] = m
         /\ m.kind = "DATA" => Control(Append(w, m)) = Control(w)
<1>1. /\ Append(w, m) \in Seq(Messages) /\ Len(Append(w, m)) = Len(w) + 1 /\ Len(w) \in Nat
      /\ DOMAIN Append(w, m) = 1..(Len(w) + 1) /\ DOMAIN w = 1..Len(w)
      /\ \A i \in 1..Len(w) : Append(w, m)[i] = w[i]
      /\ Append(w, m)[Len(w) + 1] = m
  OBVIOUS
<1>2. Append(w, m) # << >> /\ (w = << >> <=> Len(w) = 0)
  BY <1>1
<1>3. m.kind = "DATA" => Control(Append(w, m)) = Control(w)
  BY <1>1, <1>2 DEF Control
<1> QED
  BY <1>1, <1>3

LEMMA StepSend ==
  ASSUME ChannelsInv, NEW p \in Peers, NEW id \in Ids, Send(p, id)
  PROVE  ChannelsInv'
<1> DEFINE o == Other(p)
           n == sent[p][id] + 1
           m == Message("DATA", n, id \in Unordered)
           w == wire[o][id]
           more == Append(w, m)
<1>1. o \in Peers /\ Other(o) = p /\ o # p /\ \A q \in Peers : q = p \/ q = o
  BY OtherFacts
<1>2. /\ channel[p][id] = "open"
      /\ sent' = [sent EXCEPT ![p][id] = n] /\ wire' = [wire EXCEPT ![o][id] = more]
      /\ UNCHANGED <<queue, request, nextSeq, tasks, chunks, asked>>
      /\ UNCHANGED <<nextId, channel, registered, timer, got>>
  BY <1>1 DEF Send, Append2, reconfigVars
<1>3. ChannelTypes /\ DataTypes /\ ReconfigTypes
  BY DEF ChannelsInv, Types
<1>4. w \in Seq(Messages) /\ sent[p][id] \in Nat /\ n \in Nat
  BY <1>1, <1>3 DEF DataTypes
<1>5. /\ m \in Messages /\ m.kind = "DATA" /\ m.n = n /\ m.unordered = (id \in Unordered)
  BY <1>4 DEF Message, Messages, Kinds
<1>6. wire[o][id] = w /\ sent[p][id] = n - 1
  BY <1>4
<1> HIDE DEF o, n, m, w
<1>7. /\ more \in Seq(Messages) /\ Len(more) = Len(w) + 1 /\ Len(w) \in Nat
      /\ DOMAIN more = 1..(Len(w) + 1) /\ DOMAIN w = 1..Len(w)
      /\ \A i \in 1..Len(w) : more[i] = w[i]
      /\ more[Len(w) + 1] = m /\ Control(more) = Control(w)
  BY <1>4, <1>5, AppendedFacts
<1> HIDE DEF more
<1>8. /\ wire' \in [Peers -> [Ids -> Seq(Messages)]] /\ wire'[o][id] = more
      /\ wire'[p][id] = wire[p][id]
      /\ \A q \in Peers, x \in Ids : x # id => wire'[q][x] = wire[q][x]
  BY <1>1, <1>2, <1>3, <1>7 DEF DataTypes
<1>9. /\ sent' \in [Peers -> [Ids -> Nat]] /\ sent'[p][id] = n /\ sent'[o][id] = sent[o][id]
      /\ \A q \in Peers, x \in Ids : x # id => sent'[q][x] = sent[q][x]
  BY <1>1, <1>2, <1>3, <1>4 DEF DataTypes
<1>10. Types'
  BY <1>2, <1>3, <1>8, <1>9 DEF Types, ChannelTypes, DataTypes, ReconfigTypes
<1>11. Opening(p, id) /\ Opening(o, id)
  BY <1>1 DEF ChannelsInv
<1>12. Opening(p, id)'
  BY <1>2, <1>8, <1>11 DEF Opening, Created, Unused, Handshake, Registered
<1>13. Opening(o, id)'
  <2>1. Created(o, id)' /\ Registered(o, id)'
    BY <1>2, <1>11 DEF Opening, Created, Registered
  <2>2. Unused(o, id)'
    BY <1>1, <1>2, <1>8, <1>9, <1>11 DEF Opening, Unused
  <2>3. id \in OwnIds(p) => channel[o][id] # "none"
    BY <1>1, <1>2, <1>11 DEF Opening, Created, Opened, o
  <2>4. Handshake(o, id)'
    BY <2>3, <1>1, <1>2, <1>5, <1>6, <1>7, <1>8, <1>11 DEF Opening, Handshake
  <2> QED
    BY <2>1, <2>2, <2>4 DEF Opening
<1>14. ASSUME id \notin Unordered
       PROVE  Stream(p, id)' /\ Stream(o, id)'
  <2>1. /\ InOrder(p, id) /\ InOrder(o, id) /\ Contiguous(p, id) /\ Contiguous(o, id)
    BY <1>1, <1>14 DEF ChannelsInv, Stream
  <2>2. Stream(p, id)'
    <3>1. sent'[Other(p)][id] = sent[Other(p)][id]
      BY <1>9 DEF o
    <3>2. InOrder(p, id)'
      BY <2>1, <3>1, <1>8 DEF InOrder
    <3>3. Contiguous(p, id)'
      BY <2>1, <3>1, <1>2, <1>8 DEF Contiguous, Control
    <3> QED
      BY <3>2, <3>3 DEF Stream
  <2>3. InOrder(o, id)'
    <3>1. \A i \in DOMAIN w :
            /\ ~w[i].unordered
            /\ w[i].kind = "DATA" => w[i].n = n - 1 - (Len(w) - i)
            /\ i > 1 => w[i].kind = "DATA"
      BY <2>1, <1>1, <1>6 DEF InOrder
    <3>2. \A i \in 1..(Len(w) + 1) :
            /\ ~more[i].unordered
            /\ more[i].kind = "DATA" => more[i].n = n - (Len(w) + 1 - i)
            /\ i > 1 => more[i].kind = "DATA"
      <4> TAKE i \in 1..(Len(w) + 1)
      <4>1. CASE i \in 1..Len(w)
        <5>1. i \in DOMAIN w /\ more[i] = w[i]
          BY <4>1, <1>7
        <5>2. n - 1 - (Len(w) - i) = n - (Len(w) + 1 - i)
          BY <1>4, <1>7
        <5> QED
          BY <3>1, <5>1, <5>2
      <4>2. CASE i = Len(w) + 1
        <5>1. more[i] = m /\ n - (Len(w) + 1 - i) = n
          BY <4>2, <1>4, <1>7
        <5>2. ~m.unordered
          BY <1>5, <1>14
        <5> QED
          BY <5>1, <5>2, <1>5
      <4> QED
        BY <4>1, <4>2, <1>7
    <3> QED
      BY <3>2, <1>1, <1>7, <1>8, <1>9 DEF InOrder
  <2>4. Contiguous(o, id)'
    <3>1. Len(got[o][id]) \in Nat /\ Control(w) \in Nat
      BY <1>1, <1>3 DEF DataTypes, Control
    <3>2. w # << >> => more # << >> /\ more[1] = w[1]
      BY <1>4, <1>7
    <3>3. /\ channel'[o][id] = channel[o][id] /\ channel'[p][id] = channel[p][id]
          /\ sent'[p][id] = sent[p][id] + 1 /\ sent[p][id] \in Nat
          /\ got'[o][id] = got[o][id] /\ wire'[o][id] = more
          /\ Len(more) = Len(w) + 1 /\ Len(w) \in Nat /\ Control(more) = Control(w)
      BY <1>2, <1>4, <1>6, <1>7, <1>8, <1>9
    <3>4. /\ channel[o][id] \in {"none", "connecting", "open"} =>
               sent[p][id] = Len(got[o][id]) + Len(w) - Control(w)
          /\ channel[o][id] = "connecting" /\ channel[p][id] # "none" =>
               w # << >> /\ w[1].kind = "ACK"
          /\ \A i \in DOMAIN got[o][id] : got[o][id][i] = i
      BY <2>1, <1>1, <1>6 DEF Contiguous
    <3>5. sent[p][id] = Len(got[o][id]) + Len(w) - Control(w) =>
            sent[p][id] + 1 = Len(got[o][id]) + (Len(w) + 1) - Control(w)
      <4>1. \A a, b, c, d \in Int : a = b + c - d => a + 1 = b + (c + 1) - d
        OBVIOUS
      <4> QED
        BY <3>1, <3>3, <4>1
    <3> QED
      BY <3>2, <3>3, <3>4, <3>5, <1>1 DEF Contiguous
  <2> QED
    BY <2>2, <2>3, <2>4 DEF Stream
<1>15. \A x \in Ids \ {id} : SameOpening(x) /\ SameStream(x)
  BY <1>2, <1>8, <1>9 DEF SameOpening, SameStream
<1>16. \A q \in Peers : nextId[q] <= nextId'[q]
  BY <1>2, <1>3 DEF ChannelTypes
<1> QED
  BY <1>1, <1>2, <1>10, <1>12, <1>13, <1>14, <1>15, <1>16, DataStep

\* An ordered message is delivered when it is the first one, and the rest stays in order.
LEMMA HeadFacts ==
  ASSUME DataTypes, NEW p \in Peers, NEW id \in Ids, InOrder(p, id), NEW i \in Deliverable(p, id)
  PROVE  i = 1
<1>1. wire[p][id] \in Seq(Messages) /\ i \in DOMAIN wire[p][id]
  BY DEF DataTypes, Deliverable
<1>2. \A k \in DOMAIN wire[p][id] : wire[p][id][k].unordered = FALSE
  BY DEF InOrder
<1>3. \A j \in 1 .. i - 1 : wire[p][id][j].unordered
  BY <1>1, <1>2 DEF Deliverable
<1>4. i \in Nat /\ i >= 1 /\ (i # 1 => 1 \in 1 .. i - 1 /\ 1 \in DOMAIN wire[p][id])
  BY <1>1
<1> QED
  BY <1>2, <1>3, <1>4

LEMMA RestFacts ==
  ASSUME DataTypes, NEW p \in Peers, NEW id \in Ids, InOrder(p, id), 1 \in DOMAIN wire[p][id],
         wire'[p][id] = RemoveAt(wire[p][id], 1), sent'[Other(p)][id] = sent[Other(p)][id]
  PROVE  /\ InOrder(p, id)' /\ Control(wire'[p][id]) = 0
         /\ Len(wire'[p][id]) = Len(wire[p][id]) - 1 /\ Len(wire[p][id]) \in Nat
<1> DEFINE w == wire[p][id]
           rest == RemoveAt(w, 1)
           all == sent[Other(p)][id]
<1>1. w \in Seq(Messages) /\ all \in Nat
  BY OtherFacts DEF DataTypes
<1>2. /\ rest \in Seq(Messages) /\ Len(rest) = Len(w) - 1
      /\ DOMAIN rest = 1..(Len(w) - 1)
      /\ \A k \in 1..(Len(w) - 1) : rest[k] = w[IF k < 1 THEN k ELSE k + 1]
  BY <1>1, RemoveAtFacts
<1>3. Len(w) \in Nat /\ DOMAIN w = 1..Len(w)
  BY <1>1
<1>4. \A i \in DOMAIN w :
        /\ ~w[i].unordered
        /\ w[i].kind = "DATA" => w[i].n = all - (Len(w) - i)
        /\ i > 1 => w[i].kind = "DATA"
  BY DEF InOrder
<1>5. wire'[p][id] = rest /\ sent'[Other(p)][id] = all /\ Len(wire[p][id]) = Len(w)
  OBVIOUS
<1> HIDE DEF w, rest, all
<1>6. \A k \in DOMAIN rest :
        /\ ~rest[k].unordered /\ rest[k].kind = "DATA"
        /\ rest[k].n = all - (Len(rest) - k)
  <2> TAKE k \in DOMAIN rest
  <2>1. k + 1 \in DOMAIN w /\ k + 1 > 1 /\ rest[k] = w[k + 1]
    BY <1>2, <1>3
  <2>2. all - (Len(w) - (k + 1)) = all - (Len(rest) - k)
    BY <1>1, <1>2, <1>3
  <2> QED
    BY <1>4, <2>1, <2>2
<1>7. InOrder(p, id)'
  BY <1>5, <1>6 DEF InOrder
<1>8. Control(rest) = 0
  <2>1. rest # << >> => 1 \in DOMAIN rest
    BY <1>2
  <2> QED
    BY <2>1, <1>6 DEF Control
<1> QED
  BY <1>2, <1>3, <1>5, <1>7, <1>8

\* An OPEN arrives: it is alone on the way, and nothing is on the way back.
LEMMA StepHandleOpen ==
  ASSUME ChannelsInv, NEW p \in Peers, NEW id \in Ids, NEW i \in Deliverable(p, id),
         HandleOpen(p, id, i), UNCHANGED <<nextId, reconfigVars, sent, asked>>
  PROVE  ChannelsInv'
<1> DEFINE o == Other(p)
           ack == Message("ACK", 0, FALSE)
<1>1. o \in Peers /\ Other(o) = p /\ o # p /\ \A q \in Peers : q = p \/ q = o
  BY OtherFacts
<1>2. ChannelTypes /\ DataTypes /\ ReconfigTypes
  BY DEF ChannelsInv, Types
<1>3. wire[p][id] \in Seq(Messages) /\ i \in DOMAIN wire[p][id] /\ wire[p][id][i].kind = "OPEN"
  BY <1>2 DEF DataTypes, Deliverable, HandleOpen
<1>4. Opening(p, id) /\ Opening(o, id)
  BY <1>1 DEF ChannelsInv
<1>5. id \in OwnIds(o) /\ id \notin OwnIds(p) /\ channel[p][id] = "none" /\ Len(wire[p][id]) = 1
  <2>1. id \in OwnIds(Other(p)) /\ channel[p][id] = "none" /\ Len(wire[p][id]) = 1
    BY <1>3, <1>4 DEF Opening, Handshake
  <2> QED
    BY <2>1, IdFacts
<1>6. channel[o][id] \notin {"none", "open"} /\ wire[o][id] = << >> /\ sent[p][id] = 0
  <2>1. wire[p][id] # << >>
    BY <1>3
  <2>2. channel[o][id] # "none"
    BY <2>1, <1>1, <1>4 DEF Opening, Unused
  <2>3. channel[o][id] # "open"
    BY <1>1, <1>4, <1>5 DEF Opening, Created, Opened
  <2>4. wire[Other(p)][id] = << >> /\ sent[p][id] = 0
    BY <1>4, <1>5 DEF Opening, Unused
  <2> QED
    BY <2>2, <2>3, <2>4
<1>7. ack \in Messages /\ ack.kind = "ACK" /\ ack.unordered = FALSE
  BY DEF Message, Messages, Kinds
<1>8. /\ registered' = [registered EXCEPT ![p] = registered[p] \cup {id}]
      /\ channel' = [channel EXCEPT ![p][id] = "open"]
      /\ wire' = [[wire EXCEPT ![p][id] = RemoveAt(wire[p][id], i)]
                    EXCEPT ![o][id] = Append(wire[o][id], ack)]
      /\ UNCHANGED <<got, nextId, sent, asked>> /\ UNCHANGED reconfigVars
  BY <1>1, <1>2 DEF HandleOpen, Append2, DataTypes
<1>9. UNCHANGED <<queue, request, nextSeq, timer, tasks, chunks>>
  BY DEF reconfigVars
<1>10. RemoveAt(wire[p][id], i) = << >>
  <2> DEFINE rest == RemoveAt(wire[p][id], i)
  <2>1. rest \in Seq(Messages) /\ Len(rest) = Len(wire[p][id]) - 1
    BY <1>3, RemoveAtFacts
  <2> HIDE DEF rest
  <2>2. rest = << >>
    BY <2>1, <1>5
  <2> QED
    BY <2>2 DEF rest
<1> HIDE DEF o, ack
<1>11. /\ wire' \in [Peers -> [Ids -> Seq(Messages)]] /\ wire'[p][id] = << >>
       /\ wire'[o][id] = Append(<< >>, ack)
       /\ \A q \in Peers, x \in Ids : x # id => wire'[q][x] = wire[q][x]
  <2> DEFINE none == << >>
             one == Append(none, ack)
             taken == [wire EXCEPT ![p][id] = none]
  <2>1. none \in Seq(Messages) /\ one \in Seq(Messages)
    BY <1>7
  <2>2. wire' = [taken EXCEPT ![o][id] = one]
    BY <1>6, <1>8, <1>10
  <2> HIDE DEF none, one
  <2>3. /\ taken \in [Peers -> [Ids -> Seq(Messages)]] /\ taken[p][id] = none
        /\ \A q \in Peers, x \in Ids : x # id => taken[q][x] = wire[q][x]
    BY <1>2, <2>1 DEF DataTypes
  <2> HIDE DEF taken
  <2>4. /\ wire' \in [Peers -> [Ids -> Seq(Messages)]] /\ wire'[p][id] = none
        /\ wire'[o][id] = one
        /\ \A q \in Peers, x \in Ids : x # id => wire'[q][x] = wire[q][x]
    BY <1>1, <2>1, <2>2, <2>3
  <2> QED
    BY <2>4 DEF none, one
<1>12. Len(wire'[o][id]) = 1 /\ wire'[o][id][1] = ack /\ DOMAIN wire'[o][id] = 1..1
  BY <1>7, <1>11
<1>13. /\ channel' \in [Peers -> [Ids -> States]] /\ channel'[p][id] = "open"
       /\ channel'[o][id] = channel[o][id]
       /\ \A q \in Peers, x \in Ids : x # id => channel'[q][x] = channel[q][x]
  BY <1>1, <1>2, <1>8 DEF ChannelTypes, States
<1>14. /\ registered' \in [Peers -> SUBSET Ids] /\ id \in registered'[p]
       /\ id \in registered'[o] <=> id \in registered[o]
       /\ \A q \in Peers, x \in Ids : x # id => (x \in registered'[q] <=> x \in registered[q])
  BY <1>1, <1>2, <1>8 DEF ChannelTypes
<1>15. Types'
  BY <1>2, <1>8, <1>9, <1>11, <1>13, <1>14 DEF Types, ChannelTypes, DataTypes, ReconfigTypes
<1>16. Opening(p, id)'
  BY <1>5, <1>11, <1>13, <1>14 DEF Opening, Created, Unused, Handshake, Registered
<1>17. Opening(o, id)'
  <2>1. Created(o, id)' /\ Registered(o, id)' /\ Unused(o, id)'
    BY <1>1, <1>4, <1>6, <1>8, <1>13, <1>14 DEF Opening, Created, Registered, Unused, Opened
  <2>2. Handshake(o, id)'
    BY <1>1, <1>5, <1>7, <1>12, <1>13 DEF Handshake, Opened
  <2> QED
    BY <2>1, <2>2 DEF Opening
<1>18. ASSUME id \notin Unordered
       PROVE  Stream(p, id)' /\ Stream(o, id)'
  <2>1. InOrder(p, id) /\ Contiguous(p, id) /\ Contiguous(o, id)
    BY <1>1, <1>18 DEF ChannelsInv, Stream
  <2>2. /\ sent'[o][id] = sent[o][id] /\ sent'[p][id] = 0
        /\ got'[p][id] = got[p][id] /\ got'[o][id] = got[o][id]
        /\ Len(got[p][id]) \in Nat /\ Len(got[o][id]) \in Nat
    BY <1>1, <1>2, <1>6, <1>8 DEF DataTypes
  <2>3. Control(wire[p][id]) = 1
    <3>1. i = 1
      BY <1>3, <1>5
    <3>2. wire[p][id] # << >>
      BY <1>3
    <3> QED
      BY <3>1, <3>2, <1>3 DEF Control
  <2>4. Stream(p, id)'
    <3>1. InOrder(p, id)'
      BY <1>11 DEF InOrder
    <3>2. sent[o][id] = Len(got[p][id]) /\ \A k \in DOMAIN got[p][id] : got[p][id][k] = k
      BY <2>1, <2>2, <2>3, <1>5 DEF Contiguous, o
    <3>3. Len(wire'[p][id]) = 0 /\ Control(wire'[p][id]) = 0
      BY <1>11 DEF Control
    <3>4. Contiguous(p, id)'
      BY <2>2, <3>2, <3>3, <1>13 DEF Contiguous, o
    <3> QED
      BY <3>1, <3>4 DEF Stream
  <2>5. Stream(o, id)'
    <3>1. InOrder(o, id)'
      BY <1>7, <1>12 DEF InOrder
    <3>2. Control(wire'[o][id]) = 1
      BY <1>7, <1>12, <1>11 DEF Control
    <3>3. /\ channel[o][id] = "connecting" => Len(got[o][id]) = 0
          /\ \A k \in DOMAIN got[o][id] : got[o][id][k] = k
      <4>1. Len(wire[o][id]) = 0 /\ Control(wire[o][id]) = 0
        BY <1>6 DEF Control
      <4> QED
        BY <2>1, <2>2, <4>1, <1>1, <1>6 DEF Contiguous
    <3>4. Contiguous(o, id)'
      BY <2>2, <3>2, <3>3, <1>1, <1>6, <1>7, <1>11, <1>12, <1>13 DEF Contiguous
    <3> QED
      BY <3>1, <3>4 DEF Stream
  <2> QED
    BY <2>4, <2>5
<1>19. \A x \in Ids \ {id} : SameOpening(x) /\ SameStream(x)
  BY <1>8, <1>11, <1>13, <1>14 DEF SameOpening, SameStream
<1>20. \A q \in Peers, x \in Ids :
         /\ channel[q][x] \in Done => channel'[q][x] \in Done
         /\ channel[q][x] # "none" => channel'[q][x] # "none"
         /\ channel'[q][x] = "closed" => channel[q][x] = "closed"
  BY <1>1, <1>5, <1>13 DEF Done
<1>21. \A q \in Peers : nextId[q] <= nextId'[q]
  BY <1>2, <1>8 DEF ChannelTypes
<1> QED
  BY <1>1, <1>8, <1>9, <1>15, <1>16, <1>17, <1>18, <1>19, <1>20, <1>21, DataStep

\* A message is taken from the way to p, and only p's end of the channel may change.
LEMMA TakeFacts ==
  ASSUME DataTypes, NEW p \in Peers, NEW id \in Ids, NEW i \in DOMAIN wire[p][id],
         wire' = [wire EXCEPT ![p][id] = RemoveAt(wire[p][id], i)]
  PROVE  /\ wire' \in [Peers -> [Ids -> Seq(Messages)]]
         /\ wire'[p][id] = RemoveAt(wire[p][id], i)
         /\ wire'[Other(p)][id] = wire[Other(p)][id]
         /\ \A q \in Peers, x \in Ids : x # id => wire'[q][x] = wire[q][x]
         /\ Len(wire'[p][id]) = Len(wire[p][id]) - 1
         /\ \A k \in DOMAIN wire'[p][id] :
              \E j \in DOMAIN wire[p][id] : wire'[p][id][k] = wire[p][id][j]
<1> DEFINE w == wire[p][id]
           rest == RemoveAt(w, i)
<1>1. w \in Seq(Messages) /\ i \in DOMAIN w
  BY DEF DataTypes
<1>2. /\ rest \in Seq(Messages) /\ Len(rest) = Len(w) - 1 /\ DOMAIN rest = 1..(Len(w) - 1)
      /\ \A k \in 1..(Len(w) - 1) : rest[k] = w[IF k < i THEN k ELSE k + 1]
  BY <1>1, RemoveAtFacts
<1>3. wire' = [wire EXCEPT ![p][id] = rest] /\ wire[p][id] = w
  OBVIOUS
<1>4. Len(w) \in Nat /\ DOMAIN w = 1..Len(w)
  BY <1>1
<1> HIDE DEF w, rest
<1>5. \A k \in DOMAIN rest : \E j \in DOMAIN w : rest[k] = w[j]
  <2> TAKE k \in DOMAIN rest
  <2>1. (IF k < i THEN k ELSE k + 1) \in DOMAIN w
    BY <1>2, <1>4
  <2> QED
    BY <1>2, <2>1
<1>6. /\ wire' \in [Peers -> [Ids -> Seq(Messages)]] /\ wire'[p][id] = rest
      /\ wire'[Other(p)][id] = wire[Other(p)][id]
      /\ \A q \in Peers, x \in Ids : x # id => wire'[q][x] = wire[q][x]
  BY <1>2, <1>3, OtherFacts DEF DataTypes
<1> QED
  BY <1>2, <1>3, <1>5, <1>6 DEF rest

\* An ACK arrives: it is for the end that created the channel, and the other has opened it.
LEMMA StepHandleAck ==
  ASSUME ChannelsInv, NEW p \in Peers, NEW id \in Ids, NEW i \in Deliverable(p, id),
         HandleAck(p, id, i), UNCHANGED <<nextId, reconfigVars, sent, asked>>
  PROVE  ChannelsInv'
<1> DEFINE o == Other(p)
<1>1. o \in Peers /\ Other(o) = p /\ o # p /\ \A q \in Peers : q = p \/ q = o
  BY OtherFacts
<1>2. ChannelTypes /\ DataTypes /\ ReconfigTypes
  BY DEF ChannelsInv, Types
<1>3. i \in DOMAIN wire[p][id] /\ wire[p][id][i].kind = "ACK"
  BY DEF Deliverable, HandleAck
<1>4. Opening(p, id) /\ Opening(o, id)
  BY <1>1 DEF ChannelsInv
<1>5. id \in OwnIds(p) /\ id \notin OwnIds(o) /\ channel[o][id] \in Opened
  <2>1. id \in OwnIds(p) /\ channel[Other(p)][id] \in Opened
    BY <1>3, <1>4 DEF Opening, Handshake
  <2> QED
    BY <2>1, IdFacts
<1>6. /\ \/ channel' = channel /\ channel[p][id] # "connecting"
         \/ channel' = [channel EXCEPT ![p][id] = "open"] /\ channel[p][id] = "connecting"
      /\ wire' = [wire EXCEPT ![p][id] = RemoveAt(wire[p][id], i)]
      /\ UNCHANGED <<registered, got, nextId, sent, asked>> /\ UNCHANGED reconfigVars
  BY <1>4 DEF HandleAck, Opening, Registered
<1>7. UNCHANGED <<queue, request, nextSeq, timer, tasks, chunks>>
  BY <1>6 DEF reconfigVars
<1>8. /\ wire' \in [Peers -> [Ids -> Seq(Messages)]]
      /\ wire'[p][id] = RemoveAt(wire[p][id], i) /\ wire'[o][id] = wire[o][id]
      /\ \A q \in Peers, x \in Ids : x # id => wire'[q][x] = wire[q][x]
      /\ Len(wire'[p][id]) = Len(wire[p][id]) - 1
      /\ \A k \in DOMAIN wire'[p][id] :
           \E j \in DOMAIN wire[p][id] : wire'[p][id][k] = wire[p][id][j]
  BY <1>2, <1>3, <1>6, TakeFacts
<1> HIDE DEF o
<1>9. /\ channel' \in [Peers -> [Ids -> States]]
      /\ channel'[p][id] = IF channel[p][id] = "connecting" THEN "open" ELSE channel[p][id]
      /\ channel'[o][id] = channel[o][id]
      /\ \A q \in Peers, x \in Ids : x # id => channel'[q][x] = channel[q][x]
  <2>1. CASE channel' = channel /\ channel[p][id] # "connecting"
    BY <2>1, <1>2 DEF ChannelTypes
  <2>2. CASE channel' = [channel EXCEPT ![p][id] = "open"] /\ channel[p][id] = "connecting"
    BY <2>2, <1>1, <1>2 DEF ChannelTypes, States
  <2> QED
    BY <2>1, <2>2, <1>6
<1>10. Types'
  BY <1>2, <1>6, <1>7, <1>8, <1>9 DEF Types, ChannelTypes, DataTypes, ReconfigTypes
<1>11. Opening(p, id)'
  <2>1. Created(p, id)' /\ Unused(p, id)' /\ Registered(p, id)'
    BY <1>1, <1>4, <1>5, <1>6, <1>8, <1>9 DEF Opening, Created, Unused, Registered, o
  <2>2. \A k \in DOMAIN wire'[p][id] : wire'[p][id][k].kind # "OPEN"
    BY <1>4, <1>5, <1>8 DEF Opening, Handshake, o
  <2>3. Handshake(p, id)'
    BY <2>2, <1>5, <1>9 DEF Handshake, o
  <2> QED
    BY <2>1, <2>3 DEF Opening
<1>12. Opening(o, id)'
  <2>1. Created(o, id)' /\ Unused(o, id)' /\ Registered(o, id)'
    BY <1>1, <1>4, <1>5, <1>6, <1>9 DEF Opening, Created, Unused, Registered, Opened
  <2>2. Handshake(o, id)'
    BY <1>1, <1>4, <1>5, <1>8, <1>9 DEF Opening, Handshake, Opened
  <2> QED
    BY <2>1, <2>2 DEF Opening
<1>13. ASSUME id \notin Unordered
       PROVE  Stream(p, id)' /\ Stream(o, id)'
  <2>1. InOrder(p, id) /\ Contiguous(p, id) /\ InOrder(o, id) /\ Contiguous(o, id)
    BY <1>1, <1>13 DEF ChannelsInv, Stream
  <2>2. i = 1
    BY <1>2, <2>1, HeadFacts
  <2>3. /\ InOrder(p, id)' /\ Control(wire'[p][id]) = 0 /\ Len(wire[p][id]) \in Nat
    BY <1>1, <1>2, <1>3, <1>6, <1>8, <2>1, <2>2, RestFacts
  <2>4. /\ got'[p][id] = got[p][id] /\ got'[o][id] = got[o][id]
        /\ sent'[p][id] = sent[p][id] /\ sent'[o][id] = sent[o][id]
        /\ Len(got[p][id]) \in Nat
    BY <1>2, <1>6 DEF DataTypes
  <2>5. Control(wire[p][id]) = 1
    <3>1. wire[p][id] # << >>
      BY <1>3
    <3> QED
      BY <3>1, <1>3, <2>2 DEF Control
  <2>6. Contiguous(p, id)'
    <3>1. /\ channel[p][id] \in {"none", "connecting", "open"} =>
               sent[o][id] = Len(got[p][id]) + Len(wire[p][id]) - 1
          /\ \A k \in DOMAIN got[p][id] : got[p][id][k] = k
      BY <2>1, <2>5 DEF Contiguous, o
    <3>2. Len(got[p][id]) + Len(wire[p][id]) - 1 = Len(got[p][id]) + (Len(wire[p][id]) - 1) - 0
      BY <2>3, <2>4
    <3>3. /\ channel'[p][id] \in {"none", "connecting", "open"} =>
               channel[p][id] \in {"none", "connecting", "open"}
          /\ channel'[p][id] # "connecting"
      BY <1>9
    <3> QED
      BY <3>1, <3>2, <3>3, <1>8, <2>3, <2>4 DEF Contiguous, o
  <2>7. InOrder(o, id)'
    BY <1>1, <1>8, <2>1, <2>4 DEF InOrder
  <2>8. Contiguous(o, id)'
    BY <1>1, <1>5, <1>8, <1>9, <2>1, <2>4 DEF Contiguous, Opened
  <2> QED
    BY <2>3, <2>6, <2>7, <2>8 DEF Stream
<1>14. \A x \in Ids \ {id} : SameOpening(x) /\ SameStream(x)
  BY <1>6, <1>8, <1>9 DEF SameOpening, SameStream
<1>15. \A q \in Peers, x \in Ids :
         /\ channel[q][x] \in Done => channel'[q][x] \in Done
         /\ channel[q][x] # "none" => channel'[q][x] # "none"
         /\ channel'[q][x] = "closed" => channel[q][x] = "closed"
  BY <1>1, <1>9 DEF Done
<1>16. \A q \in Peers : nextId[q] <= nextId'[q]
  BY <1>2, <1>6 DEF ChannelTypes
<1> QED
  BY <1>1, <1>6, <1>7, <1>10, <1>11, <1>12, <1>13, <1>14, <1>15, <1>16, DataStep

\* A message of the user arrives: on a channel that is open it is the next one.
LEMMA StepHandleUserData ==
  ASSUME ChannelsInv, NEW p \in Peers, NEW id \in Ids, NEW i \in Deliverable(p, id),
         HandleUserData(p, id, i), UNCHANGED <<nextId, reconfigVars, sent, asked>>
  PROVE  ChannelsInv'
<1> DEFINE o == Other(p)
           n == wire[p][id][i].n
<1>1. o \in Peers /\ Other(o) = p /\ o # p /\ \A q \in Peers : q = p \/ q = o
  BY OtherFacts
<1>2. ChannelTypes /\ DataTypes /\ ReconfigTypes
  BY DEF ChannelsInv, Types
<1>3. i \in DOMAIN wire[p][id] /\ wire[p][id][i].kind = "DATA"
  BY DEF Deliverable, HandleUserData
<1>4. Opening(p, id) /\ Opening(o, id)
  BY <1>1 DEF ChannelsInv
<1>5. n \in Nat
  <2>1. wire[p][id] \in Seq(Messages)
    BY <1>2 DEF DataTypes
  <2>2. wire[p][id][i] \in Messages
    BY <1>3, <2>1
  <2> QED
    BY <2>2 DEF Messages
<1>6. /\ \/ channel[p][id] = "open" /\ got' = [got EXCEPT ![p][id] = Append(got[p][id], n)]
         \/ channel[p][id] # "open" /\ got' = got
      /\ wire' = [wire EXCEPT ![p][id] = RemoveAt(wire[p][id], i)]
      /\ UNCHANGED <<registered, channel, nextId, sent, asked>> /\ UNCHANGED reconfigVars
  BY <1>4 DEF HandleUserData, Append2, Opening, Registered
<1>7. UNCHANGED <<queue, request, nextSeq, timer, tasks, chunks>>
  BY <1>6 DEF reconfigVars
<1>8. /\ wire' \in [Peers -> [Ids -> Seq(Messages)]]
      /\ wire'[p][id] = RemoveAt(wire[p][id], i) /\ wire'[o][id] = wire[o][id]
      /\ \A q \in Peers, x \in Ids : x # id => wire'[q][x] = wire[q][x]
      /\ Len(wire'[p][id]) = Len(wire[p][id]) - 1
      /\ \A k \in DOMAIN wire'[p][id] :
           \E j \in DOMAIN wire[p][id] : wire'[p][id][k] = wire[p][id][j]
  BY <1>2, <1>3, <1>6, TakeFacts
<1>9. wire[p][id] # << >>
  BY <1>3
<1> HIDE DEF o, n
<1>10. channel[p][id] # "none" /\ channel[o][id] # "none"
  <2>1. channel[o][id] # "none"
    BY <1>1, <1>4, <1>9 DEF Opening, Unused
  <2>2. channel[p][id] # "none"
    <3>1. CASE id \in OwnIds(p)
      BY <2>1, <3>1, <1>4 DEF Opening, Created, o
    <3>2. CASE id \in OwnIds(o)
      BY <3>2, <1>3, <1>4 DEF Opening, Handshake, o
    <3> QED
      BY <3>1, <3>2, IdFacts DEF o
  <2> QED
    BY <2>1, <2>2
<1>11. /\ got' \in [Peers -> [Ids -> Seq(Nat)]] /\ got'[o][id] = got[o][id]
       /\ got'[p][id] = IF channel[p][id] = "open" THEN Append(got[p][id], n) ELSE got[p][id]
       /\ \A q \in Peers, x \in Ids : x # id => got'[q][x] = got[q][x]
  <2>1. CASE channel[p][id] # "open" /\ got' = got
    BY <2>1, <1>2 DEF DataTypes
  <2>2. CASE channel[p][id] = "open" /\ got' = [got EXCEPT ![p][id] = Append(got[p][id], n)]
    <3> DEFINE more == Append(got[p][id], n)
    <3>1. more \in Seq(Nat) /\ got' = [got EXCEPT ![p][id] = more]
      BY <2>2, <1>2, <1>5 DEF DataTypes
    <3> HIDE DEF more
    <3>2. /\ got' \in [Peers -> [Ids -> Seq(Nat)]] /\ got'[o][id] = got[o][id]
          /\ got'[p][id] = more
          /\ \A q \in Peers, x \in Ids : x # id => got'[q][x] = got[q][x]
      BY <3>1, <1>1, <1>2 DEF DataTypes
    <3> QED
      BY <3>2, <2>2 DEF more
  <2> QED
    BY <2>1, <2>2, <1>6
<1>12. Types'
  BY <1>2, <1>6, <1>7, <1>8, <1>11 DEF Types, ChannelTypes, DataTypes, ReconfigTypes
<1>13. Opening(p, id)'
  <2>1. Created(p, id)' /\ Unused(p, id)' /\ Registered(p, id)'
    BY <1>4, <1>6, <1>8 DEF Opening, Created, Unused, Registered, o
  <2>2. Handshake(p, id)'
    BY <1>4, <1>6, <1>8, <1>10 DEF Opening, Handshake
  <2> QED
    BY <2>1, <2>2 DEF Opening
<1>14. Opening(o, id)'
  <2>1. Created(o, id)' /\ Unused(o, id)' /\ Registered(o, id)'
    BY <1>4, <1>6, <1>10 DEF Opening, Created, Unused, Registered
  <2>2. Handshake(o, id)'
    BY <1>4, <1>6, <1>8 DEF Opening, Handshake
  <2> QED
    BY <2>1, <2>2 DEF Opening
<1>15. ASSUME id \notin Unordered
       PROVE  Stream(p, id)' /\ Stream(o, id)'
  <2>1. InOrder(p, id) /\ Contiguous(p, id) /\ InOrder(o, id) /\ Contiguous(o, id)
    BY <1>1, <1>15 DEF ChannelsInv, Stream
  <2>2. i = 1
    BY <1>2, <2>1, HeadFacts
  <2>3. /\ InOrder(p, id)' /\ Control(wire'[p][id]) = 0 /\ Len(wire[p][id]) \in Nat
    BY <1>1, <1>2, <1>3, <1>6, <1>8, <2>1, <2>2, RestFacts
  <2>4. /\ sent'[p][id] = sent[p][id] /\ sent'[o][id] = sent[o][id] /\ sent[o][id] \in Nat
        /\ got[p][id] \in Seq(Nat) /\ Len(got[p][id]) \in Nat
    BY <1>1, <1>2, <1>6 DEF DataTypes
  <2>5. Control(wire[p][id]) = 0
    BY <1>3, <2>2 DEF Control
  <2>6. n = sent[o][id] - (Len(wire[p][id]) - 1)
    BY <1>3, <2>1, <2>2 DEF InOrder, n, o
  <2>7. /\ channel[p][id] = "open" => sent[o][id] = Len(got[p][id]) + Len(wire[p][id])
        /\ channel[p][id] # "connecting"
        /\ \A k \in DOMAIN got[p][id] : got[p][id][k] = k
    <3>1. channel[p][id] = "open" => sent[o][id] = Len(got[p][id]) + Len(wire[p][id]) - 0
      BY <2>1, <2>5 DEF Contiguous, o
    <3>2. Len(got[p][id]) + Len(wire[p][id]) - 0 = Len(got[p][id]) + Len(wire[p][id])
      BY <2>3, <2>4
    <3> QED
      BY <3>1, <3>2, <1>3, <1>10, <2>1, <2>2 DEF Contiguous, o
  <2>8. Contiguous(p, id)'
    <3>1. CASE channel[p][id] = "open"
      <4> DEFINE g == got[p][id]
                 more == Append(g, n)
      <4> HIDE DEF g
      <4>0. \A a, b, c \in Int : c = a + b => c - (b - 1) = a + 1 /\ c = (a + 1) + (b - 1) - 0
        OBVIOUS
      <4>7. sent[o][id] = Len(g) + Len(wire[p][id]) /\ Len(g) \in Nat
        BY <2>4, <2>7, <3>1 DEF g
      <4>1. n = Len(g) + 1 /\ sent[o][id] = (Len(g) + 1) + (Len(wire[p][id]) - 1) - 0
        <5> DEFINE a == Len(g)
                   b == Len(wire[p][id])
                   c == sent[o][id]
        <5>1. a \in Int /\ b \in Int /\ c \in Int /\ c = a + b /\ n = c - (b - 1)
          BY <2>3, <2>4, <2>6, <4>7
        <5> HIDE DEF a, b, c
        <5>2. c - (b - 1) = a + 1 /\ c = (a + 1) + (b - 1) - 0
          BY <5>1, <4>0
        <5> QED
          BY <5>1, <5>2 DEF a, b, c
      <4>2. g \in Seq(Nat) /\ \A k \in DOMAIN g : g[k] = k
        BY <2>4, <2>7 DEF g
      <4>3. got'[p][id] = more /\ Len(got[p][id]) = Len(g)
        BY <1>11, <3>1 DEF g
      <4>4. /\ Len(more) = Len(g) + 1 /\ DOMAIN more = 1..(Len(g) + 1)
            /\ \A k \in 1..Len(g) : more[k] = g[k]
            /\ more[Len(g) + 1] = n /\ DOMAIN g = 1..Len(g) /\ Len(g) \in Nat
        BY <1>5, <4>2
      <4> HIDE DEF more
      <4>5. \A k \in DOMAIN more : more[k] = k
        BY <4>1, <4>2, <4>4
      <4>6. /\ channel'[p][id] = "open" /\ sent'[o][id] = sent[o][id]
            /\ Len(got'[p][id]) = Len(g) + 1 /\ Len(wire'[p][id]) = Len(wire[p][id]) - 1
        BY <1>6, <1>8, <2>4, <3>1, <4>3, <4>4
      <4> QED
        BY <2>3, <4>1, <4>3, <4>5, <4>6 DEF Contiguous, o
    <3>2. CASE channel[p][id] # "open"
      BY <3>2, <1>6, <1>10, <1>11, <2>7 DEF Contiguous
    <3> QED
      BY <3>1, <3>2
  <2>9. InOrder(o, id)'
    BY <1>1, <1>8, <2>1, <2>4 DEF InOrder
  <2>10. Contiguous(o, id)'
    BY <1>1, <1>6, <1>8, <1>11, <2>1, <2>4 DEF Contiguous
  <2> QED
    BY <2>3, <2>8, <2>9, <2>10 DEF Stream
<1>16. \A x \in Ids \ {id} : SameOpening(x) /\ SameStream(x)
  BY <1>6, <1>8, <1>11 DEF SameOpening, SameStream
<1>17. \A q \in Peers, x \in Ids :
         /\ channel[q][x] \in Done => channel'[q][x] \in Done
         /\ channel[q][x] # "none" => channel'[q][x] # "none"
         /\ channel'[q][x] = "closed" => channel[q][x] = "closed"
  BY <1>6
<1>18. \A q \in Peers : nextId[q] <= nextId'[q]
  BY <1>2, <1>6 DEF ChannelTypes
<1> QED
  BY <1>1, <1>6, <1>7, <1>12, <1>13, <1>14, <1>15, <1>16, <1>17, <1>18, DataStep

-----------------------------------------------------------------------------
(* The theorems *)

LEMMA ChannelsInit ==
  ASSUME Init
  PROVE  ChannelsInv
<1>1. \A p \in Peers : FirstId(p) \in Nat
  BY DEF FirstId
<1>2. /\ \A p \in Peers : nextId[p] = FirstId(p) /\ registered[p] = {} /\ queue[p] = << >>
            /\ request[p] = {} /\ nextSeq[p] = 0 /\ tasks[p] = << >> /\ chunks[p] = {}
            /\ asked[p] = {}
      /\ \A p \in Peers, id \in Ids : channel[p][id] = "none" /\ wire[p][id] = << >>
            /\ sent[p][id] = 0 /\ got[p][id] = << >>
  BY DEF Init
<1>3. Types
  <2>1. ChannelTypes
    BY <1>1 DEF Init, ChannelTypes, States
  <2>2. DataTypes
    BY DEF Init, DataTypes
  <2>3. ReconfigTypes
    BY DEF Init, ReconfigTypes
  <2> QED
    BY <2>1, <2>2, <2>3 DEF Types
<1>4. \A p \in Peers : ToSet(queue[p]) = {} /\ ToSet(tasks[p]) = {} /\ Held(p) = {}
  <2> TAKE p \in Peers
  <2>1. DOMAIN << >> = {}
    OBVIOUS
  <2>2. ToSet(queue[p]) = {} /\ ToSet(tasks[p]) = {}
    BY <1>2, <2>1 DEF ToSet
  <2> QED
    BY <2>2 DEF Held
<1>5. ASSUME NEW p \in Peers, NEW id \in Ids
      PROVE  Opening(p, id) /\ Stream(p, id)
  <2>1. Other(p) \in Peers
    BY OtherFacts
  <2>2. DOMAIN wire[p][id] = {} /\ DOMAIN got[p][id] = {} /\ Len(got[p][id]) = 0
        /\ Len(wire[p][id]) = 0 /\ Control(wire[p][id]) = 0
    BY <1>2 DEF Control
  <2>3. Opening(p, id)
    BY <1>2, <2>1, <2>2 DEF Opening, Created, Unused, Handshake, Registered
  <2>4. Stream(p, id)
    BY <1>2, <2>1, <2>2 DEF Stream, InOrder, Contiguous
  <2> QED
    BY <2>3, <2>4
<1>6. ASSUME NEW p \in Peers
      PROVE  Passed(p) /\ Closing(p)
  <2>1. Other(p) \in Peers
    BY OtherFacts
  <2>2. Passed(p) /\ Requested(p) /\ AnswerInv(p) /\ AgreedInv(p)
    BY <1>2, <1>4, <2>1 DEF Passed, Requested, QueueInv, RequestInv, ChunkInv, ResponseInv,
                            AnswerInv, AgreedInv
  <2> QED
    BY <2>2 DEF Closing
<1> QED
  BY <1>3, <1>5, <1>6 DEF ChannelsInv

LEMMA ChannelsNext ==
  ASSUME ChannelsInv, [Next]_vars
  PROVE  ChannelsInv'
<1>1. CASE UNCHANGED vars
  <2>1. /\ UNCHANGED <<nextId, channel, registered, asked>> /\ UNCHANGED <<wire, sent, got>>
        /\ UNCHANGED <<queue, request, nextSeq, timer, tasks, chunks>>
    BY <1>1 DEF vars, reconfigVars, dataVars
  <2> QED
    BY <2>1 DEF ChannelsInv, Types, ChannelTypes, DataTypes, ReconfigTypes, Opening, Created,
                Unused, Handshake, Registered, Stream, InOrder, Contiguous, Passed, Closing,
                Requested, QueueInv, RequestInv, ChunkInv, ResponseInv, AnswerInv, AgreedInv,
                Claim, Agreed, Held
<1>2. ASSUME Next
      PROVE  ChannelsInv'
  <2>1. PICK p \in Peers :
          \/ CreateDataChannel(p)
          \/ \E id \in Ids : Send(p, id) \/ HandleIncomingData(p, id) \/ Close(p, id)
          \/ CloseAll(p) \/ SendCompletes(p) \/ TimerExpired(p)
          \/ HandleRequest(p) \/ HandleResponse(p) \/ Lose(p)
    BY <1>2 DEF Next
  <2>2. CASE CreateDataChannel(p)
    BY <2>2, StepCreate
  <2>3. ASSUME NEW id \in Ids, Send(p, id)
        PROVE  ChannelsInv'
    BY <2>3, StepSend
  <2>4. ASSUME NEW id \in Ids, HandleIncomingData(p, id)
        PROVE  ChannelsInv'
    <3>1. PICK i \in Deliverable(p, id) :
            HandleOpen(p, id, i) \/ HandleAck(p, id, i) \/ HandleUserData(p, id, i)
      BY <2>4 DEF HandleIncomingData
    <3>2. UNCHANGED <<nextId, reconfigVars, sent, asked>>
      BY <2>4 DEF HandleIncomingData
    <3> QED
      BY <3>1, <3>2, StepHandleOpen, StepHandleAck, StepHandleUserData
  <2>5. ASSUME NEW id \in Ids, Close(p, id)
        PROVE  ChannelsInv'
    BY <2>5, StepClose
  <2>6. CASE CloseAll(p)
    BY <2>6, StepCloseAll
  <2>7. CASE SendCompletes(p)
    BY <2>7, StepSendCompletes
  <2>8. CASE TimerExpired(p)
    BY <2>8, StepTimerExpired
  <2>9. CASE HandleRequest(p)
    BY <2>9, StepHandleRequest
  <2>10. CASE HandleResponse(p)
    BY <2>10, StepHandleResponse
  <2>11. CASE Lose(p)
    BY <2>11, StepLose
  <2> QED
    BY <2>1, <2>2, <2>3, <2>4, <2>5, <2>6, <2>7, <2>8, <2>9, <2>10, <2>11
<1> QED
  BY <1>1, <1>2

LEMMA ChannelsAlways == Spec => []ChannelsInv
BY ChannelsInit, ChannelsNext, PTL DEF Spec

\* Whenever the end that created a channel has it open, the other end has made its channel
\* and opened it: _handleAck opens a channel only for the ACK that _handleOpen sent.
THEOREM AlwaysMutual == Spec => []OpenIsMutual
<1>1. ASSUME ChannelsInv
      PROVE  OpenIsMutual
  BY <1>1 DEF ChannelsInv, Opening, Created, Opened, OpenIsMutual
<1> QED
  BY <1>1, ChannelsAlways, PTL

\* The n-th message that an ordered channel gives to onMessage is the n-th that the other
\* end sent: no step of the DCEP handshake, and no close(), drops one between two of them.
THEOREM AlwaysWithoutGaps == Spec => []OrderedWithoutGaps
<1>1. ASSUME ChannelsInv
      PROVE  OrderedWithoutGaps
  BY <1>1 DEF ChannelsInv, Stream, Contiguous, OrderedWithoutGaps
<1> QED
  BY <1>1, ChannelsAlways, PTL

\* A channel that was open before close() is closed at one end only when the other has
\* closed it, is closing it or is in the handler of the request that will: no late,
\* repeated or lost RECONFIG chunk makes the ends disagree.
THEOREM AlwaysAgreed == Spec => []CloseIsAgreed
<1>1. ASSUME ChannelsInv
      PROVE  CloseIsAgreed
  <2> SUFFICES ASSUME NEW p \in Peers, NEW id \in Ids,
                      channel[p][id] = "closed", <<id, "connecting">> \notin asked[p]
               PROVE  \/ channel[Other(p)][id] \in {"closing", "closed"}
                      \/ \E k \in DOMAIN tasks[Other(p)] :
                           /\ tasks[Other(p)][k].at = "response"
                           /\ id \in tasks[Other(p)][k].streams
    BY DEF CloseIsAgreed
  <2>1. Agreed(p, id)
    BY <1>1 DEF ChannelsInv, Closing, AgreedInv
  <2>2. CASE id \in Held(Other(p))
    BY <2>2 DEF Held, ToSet, Answers
  <2> QED
    BY <2>1, <2>2 DEF Agreed, Done
<1> QED
  BY <1>1, ChannelsAlways, PTL

\* While no request is pending, no stream is queued: each close() either sends a request
\* or finds one pending, and each answer sends the next request for what is still queued,
\* before anything else runs and whether the send succeeds or throws.
THEOREM QueueAlwaysWaits == Spec => []QueueWaits
<1>1. Init => QueueWaits
  BY DEF Init, QueueWaits
<1>2. ASSUME QueueWaits, ChannelsInv, [Next]_vars
      PROVE  QueueWaits'
  <2>1. queue \in [Peers -> Seq(Ids)] /\ request \in [Peers -> SUBSET Requests]
    BY <1>2 DEF ChannelsInv, Types, ReconfigTypes
  <2>2. ASSUME NEW p \in Peers, NEW q, NEW others, NEW rest, NEW left,
               Transmit(p, q, others, rest, left)
        PROVE  QueueWaits'
    BY <1>2, <2>1, <2>2 DEF Transmit, QueueWaits
  <2>3. CASE UNCHANGED <<queue, request>>
    BY <1>2, <2>3 DEF QueueWaits
  <2>4. ASSUME NEW p \in Peers, NEW id \in Ids, NEW others, NEW resumes, NEW rest,
               CloseChannel(p, id, others, resumes, rest)
        PROVE  QueueWaits'
    <3> DEFINE q == IF id \in ToSet(queue[p]) THEN queue[p] ELSE Append(queue[p], id)
    <3>1. CASE Transmit(p, q, others, rest, chunks)
      BY <2>2, <3>1
    <3>2. CASE /\ queue' = [queue EXCEPT ![p] = q] /\ UNCHANGED request
               /\ ~(Len(q) = 1 /\ MayTransmit(q, request[p]))
      <4>1. ASSUME request[p] = {}
            PROVE  FALSE
        <5>1. queue[p] = << >>
          BY <1>2, <4>1 DEF QueueWaits
        <5>2. q = <<id>>
          BY <5>1 DEF ToSet
        <5> HIDE DEF q
        <5>3. Len(q) = 1 /\ q # << >>
          BY <5>2
        <5> QED
          BY <3>2, <4>1, <5>3 DEF MayTransmit
      <4> QED
        BY <1>2, <2>1, <3>2, <4>1 DEF QueueWaits
    <3> QED
      BY <2>4, <3>1, <3>2 DEF CloseChannel
  <2>5. ASSUME NEW p \in Peers, HandleResponse(p)
        PROVE  QueueWaits'
    <3>1. PICK chunk \in chunks[p] :
            \/ Transmit(p, queue[p], tasks[p], Task("done", {}, TRUE), Taken(p, chunk))
            \/ /\ queue[p] = << >> /\ request' = [request EXCEPT ![p] = {}] /\ queue' = queue
            \/ UNCHANGED <<queue, request>>
      BY <2>5 DEF HandleResponse, MayTransmit
    <3>2. CASE /\ queue[p] = << >> /\ request' = [request EXCEPT ![p] = {}] /\ queue' = queue
      BY <1>2, <2>1, <3>2 DEF QueueWaits
    <3> QED
      BY <2>2, <2>3, <3>1, <3>2
  <2>6. ASSUME NEW p \in Peers, SendCompletes(p)
        PROVE  QueueWaits'
    <3>1. PICK k \in DOMAIN tasks[p] :
            LET task == tasks[p][k]
                others == RemoveAt(tasks[p], k)
            IN  \/ AfterResponse(p, task, others) \/ AfterLast(p, task, others)
                \/ NextChannel(p, task, others)
      BY <2>6 DEF SendCompletes
    <3> DEFINE task == tasks[p][k]
               others == RemoveAt(tasks[p], k)
    <3>2. \/ UNCHANGED <<queue, request>>
          \/ \E id \in task.streams : \E resumes, rest : CloseChannel(p, id, others, resumes, rest)
      <4>1. CASE AfterResponse(p, task, others) \/ AfterLast(p, task, others)
        BY <4>1 DEF AfterResponse, AfterLast
      <4>2. CASE NextChannel(p, task, others)
        BY <4>2 DEF NextChannel
      <4> QED
        BY <3>1, <4>1, <4>2
    <3>3. task.streams \subseteq Ids
      <4>1. tasks[p] \in Seq(TaskRecords)
        BY <1>2 DEF ChannelsInv, Types, ReconfigTypes
      <4>2. task \in TaskRecords
        BY <4>1
      <4> QED
        BY <4>2 DEF TaskRecords
    <3> QED
      BY <2>3, <2>4, <3>2, <3>3
  <2>7. CASE UNCHANGED vars
    BY <2>3, <2>7 DEF vars, reconfigVars
  <2>8. CASE Next
    <3>1. PICK p \in Peers :
            \/ CreateDataChannel(p)
            \/ \E id \in Ids : Send(p, id) \/ HandleIncomingData(p, id) \/ Close(p, id)
            \/ CloseAll(p) \/ SendCompletes(p) \/ TimerExpired(p)
            \/ HandleRequest(p) \/ HandleResponse(p) \/ Lose(p)
      BY <2>8 DEF Next
    <3>2. CASE CreateDataChannel(p)
      BY <2>3, <3>2 DEF CreateDataChannel, reconfigVars
    <3>3. ASSUME NEW id \in Ids, Send(p, id)
          PROVE  QueueWaits'
      BY <2>3, <3>3 DEF Send, reconfigVars
    <3>4. ASSUME NEW id \in Ids, HandleIncomingData(p, id)
          PROVE  QueueWaits'
      BY <2>3, <3>4 DEF HandleIncomingData, reconfigVars
    <3>5. ASSUME NEW id \in Ids, Close(p, id)
          PROVE  QueueWaits'
      BY <2>4, <3>5 DEF Close
    <3>6. CASE CloseAll(p) \/ TimerExpired(p) \/ HandleRequest(p) \/ Lose(p)
      BY <2>3, <3>6 DEF CloseAll, TimerExpired, HandleRequest, Lose
    <3> QED
      BY <2>5, <2>6, <3>1, <3>2, <3>3, <3>4, <3>5, <3>6
  <2> QED
    BY <1>2, <2>7, <2>8
<1> QED
  BY <1>1, <1>2, ChannelsAlways, PTL DEF Spec
=============================================================================
