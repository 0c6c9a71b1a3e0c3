----------------------------- MODULE RtpRecovery -----------------------------
(***************************************************************************)
(* Recovery of lost RTP packets: the receiver's NackHandler notices gaps   *)
(* in the sequence numbers and asks for what is missing until it arrives   *)
(* or the retries are used up; the sender's RtpSession answers a NACK from *)
(* its circular retransmission buffer.  Sending awaits the encryption, so  *)
(* a NACK may still be on its way out when the timer fires again.          *)
(*                                                                         *)
(* A packet is its number in the stream; its sequence number is the number *)
(* modulo SeqModulo.  The receiver knows the RTX SSRC of the stream, so a  *)
(* retransmission is unwrapped to the packet it carries.                   *)
(***************************************************************************)
EXTENDS Integers, Sequences, FiniteSets, SequencesExt, Functions

CONSTANTS
  SeqModulo,     \* 2^16 in the code
  Half,          \* 0x8000
  BufferSize,    \* RetransmissionBuffer.defaultBufferSize, 128
  MaxRetries,    \* maxRetries, 10
  MaxLost,       \* maxLostPackets, 150
  FirstNumber,   \* the first packet of the stream
  MaxPackets,    \* bound: packets that are sent
  MaxSends,      \* bound: NACKs whose sending is awaited at a time
  MaxFailures    \* bound: sends of a NACK that throw

ASSUME RecoveryAssumption ==
  /\ Half \in Nat \ {0} /\ SeqModulo = 2 * Half
  /\ \A n \in {BufferSize, MaxRetries, MaxLost, MaxSends} : n \in Nat \ {0}
  /\ \A n \in {FirstNumber, MaxPackets, MaxFailures} : n \in Nat
  /\ MaxPackets < Half

VARIABLES
  sent,       \* packets sent
  buffer,     \* _buffer: the number in each slot, -1 for null
  network,    \* packets on the way to the receiver
  resent,     \* retransmissions on the way to the receiver
  nacks,      \* NACKs on the way to the sender, and what is left of those it handles
  expected,   \* _expectedSeqNum
  lost,       \* _lostPackets: sequence number -> retry count
  timer,      \* _nackTimer is set
  sending,    \* what the NACKs ask for whose sending is awaited
  closed,     \* _closed
  failures,   \* sends that have thrown
  received,   \* history: numbers of the packets received
  asked,      \* history: NACKs sent for each packet that is lost
  gaveUp,     \* history: how often a packet was asked for before it was given up
  anchored    \* history: how often _expectedSeqNum was initialised

sender == <<sent, buffer>>
handler == <<expected, lost, timer, sending, closed>>
history == <<received, asked, gaveUp, anchored>>
vars == <<sender, network, resent, nacks, handler, failures, history>>

Numbers == FirstNumber..(FirstNumber + MaxPackets - 1)
Seqs == 0..(SeqModulo - 1)
SeqNum(number) == number % SeqModulo
NoPacket == -1
Empty == [s \in {} |-> 0]

TypeOK ==
  /\ sent \in 0..MaxPackets /\ buffer \in [0..(BufferSize - 1) -> Numbers \cup {NoPacket}]
  /\ network \subseteq Numbers /\ resent \subseteq Numbers
  /\ \A i \in DOMAIN nacks : nacks[i] # << >> /\ ToSet(nacks[i]) \subseteq Seqs
  /\ expected \in Seqs /\ timer \in BOOLEAN /\ closed \in BOOLEAN
  /\ DOMAIN lost \subseteq Seqs
  /\ \A s \in DOMAIN lost : lost[s] \in 1..MaxRetries
  /\ Len(sending) <= MaxSends /\ failures \in 0..MaxFailures
  /\ DOMAIN asked = DOMAIN lost

Init ==
  /\ sent = 0 /\ buffer = [i \in 0..(BufferSize - 1) |-> NoPacket]
  /\ network = {} /\ resent = {} /\ nacks = << >>
  /\ expected = 0 /\ lost = Empty /\ timer = FALSE /\ sending = << >> /\ closed = FALSE
  /\ failures = 0 /\ received = {} /\ asked = Empty /\ gaveUp = {}
  /\ anchored = 0

-----------------------------------------------------------------------------
(* The sender *)

\* sendRtp: the packet is stored before it is encrypted and sent.
SendRtp ==
  LET number == FirstNumber + sent
  IN /\ sent < MaxPackets /\ sent' = sent + 1
     /\ buffer' = [buffer EXCEPT ![SeqNum(number) % BufferSize] = number]
     /\ network' = network \cup {number}
     /\ UNCHANGED <<resent, nacks, handler, failures, history>>

\* retrieve: the packet in the slot, when it is the one that is asked for.
Retrieve(s) == {number \in {buffer[s % BufferSize]} \ {NoPacket} : SeqNum(number) = s}

\* _handleNack: one packet of the list is retransmitted, and awaited; several
\* lists may be in progress.
Retransmit(i) ==
  /\ resent' = resent \cup Retrieve(Head(nacks[i]))
  /\ nacks' = IF Len(nacks[i]) = 1 THEN RemoveAt(nacks, i) ELSE [nacks EXCEPT ![i] = Tail(@)]
  /\ UNCHANGED <<sender, network, handler, failures, history>>

Lose ==
  /\ \/ \E number \in network : network' = network \ {number} /\ UNCHANGED <<resent, nacks>>
     \/ \E number \in resent : resent' = resent \ {number} /\ UNCHANGED <<network, nacks>>
     \/ \E i \in DOMAIN nacks : nacks' = RemoveAt(nacks, i) /\ UNCHANGED <<network, resent>>
  /\ UNCHANGED <<sender, handler, failures, history>>

-----------------------------------------------------------------------------
(* The receiver: addPacket *)

\* uint16Add, uint16Gt and uint16Lt.
Add(s, n) == (s + n) % SeqModulo
Gt(s, t) == (s < t /\ t - s > Half) \/ (s > t /\ s - t < Half)

\* The numbers that addPacket walks over, from the next expected to the one
\* before s.
\* Mutant: the walk starts at the packet received last.
Missing_FromLast(s) == {Add(expected, d) : d \in {n \in 0..(Half - 1) : Gt(s, Add(expected, n))}}
Missing(s) == {Add(expected, d) : d \in {n \in 1..(Half - 1) : Gt(s, Add(expected, n))}}

\* _pruneLost sorts by _compareSeqNum, which puts the newest first, and removes
\* from the front.
Behind(s, x) == (s - x) % SeqModulo
Pruned(all, s) ==
  {x \in all : Cardinality({y \in all : Behind(s, y) < Behind(s, x)}) < Cardinality(all) - MaxLost}

Keep(f, S) == [s \in S |-> f[s]]

\* A sequence number that was lost is recovered; the timer stops with the last.
\* Mutant: the timer is stopped whenever a packet is recovered.
Recover_Stops(s) ==
  /\ lost' = Keep(lost, DOMAIN lost \ {s}) /\ asked' = Keep(asked, DOMAIN lost \ {s})
  /\ timer' = FALSE
  /\ UNCHANGED <<expected, anchored>>
Recover(s) ==
  /\ lost' = Keep(lost, DOMAIN lost \ {s}) /\ asked' = Keep(asked, DOMAIN lost \ {s})
  /\ timer' = (timer /\ DOMAIN lost # {s})
  /\ UNCHANGED <<expected, anchored>>

NewGap(s) ==
  LET all == DOMAIN lost \cup Missing(s)
      kept == all \ Pruned(all, s)
  IN /\ lost' = [x \in kept |-> IF x \in Missing(s) THEN 1 ELSE lost[x]]
     /\ asked' = [x \in kept |-> IF x \in Missing(s) THEN 0 ELSE asked[x]]
     /\ expected' = s /\ timer' = TRUE
     /\ UNCHANGED anchored

Unmoved == UNCHANGED <<expected, lost, timer, asked, anchored>>

\* The value 0 of _expectedSeqNum stands for "no packet yet", also when it is the
\* sequence number of the last packet.
AddPacket(s) ==
  IF expected = 0 THEN /\ expected' = s /\ anchored' = anchored + 1
                       /\ UNCHANGED <<lost, timer, asked>>
  ELSE IF s \in DOMAIN lost THEN Recover(s)
  ELSE IF s = Add(expected, 1) THEN expected' = s /\ UNCHANGED <<lost, timer, asked, anchored>>
  ELSE IF Gt(s, Add(expected, 1)) THEN NewGap(s)
  ELSE Unmoved

\* receiveRtp, for a packet or for a retransmission of it.
ReceiveRtp ==
  /\ \E number \in network \cup resent :
       /\ \/ number \in network /\ network' = network \ {number} /\ UNCHANGED resent
          \/ number \in resent /\ resent' = resent \ {number} /\ UNCHANGED network
       /\ received' = received \cup {number}
       /\ IF closed THEN Unmoved ELSE AddPacket(SeqNum(number))
  /\ UNCHANGED <<sender, nacks, sending, closed, failures, gaveUp>>

-----------------------------------------------------------------------------
(* The receiver: the timer *)

\* toRtcpPacket sorts the list, newest first, and so never packs two numbers
\* into one entry: the list that is read back is the sorted one.
Encoded(S) ==
  CHOOSE list \in [1..Cardinality(S) -> S] :
    \A i, j \in DOMAIN list : i < j => Behind(expected, list[i]) < Behind(expected, list[j])

\* _sendNack: the list is made, and the sending of it is awaited.
SendNack ==
  /\ timer /\ Len(sending) < MaxSends
  /\ IF lost = Empty THEN timer' = FALSE /\ UNCHANGED sending
     ELSE /\ sending' = Append(sending, Encoded(DOMAIN lost)) /\ UNCHANGED timer
  /\ UNCHANGED <<sender, network, resent, nacks, expected, lost, closed, failures, received,
                 asked, gaveUp, anchored>>

\* _updateRetryCount, for every packet that is lost by now; those whose count
\* exceeds the maximum are given up.
\* Mutant: the first attempt is counted as two.
Spent_Early(s) == lost[s] + 2 > MaxRetries
Spent(s) == lost[s] + 1 > MaxRetries
UpdateRetryCount(times) ==
  LET kept == {s \in DOMAIN lost : ~Spent(s)}
  IN /\ lost' = [s \in kept |-> lost[s] + 1]
     /\ asked' = Keep(times, kept)
     /\ gaveUp' = gaveUp \cup {times[s] : s \in DOMAIN lost \ kept}
     /\ timer' = (timer /\ kept # {})

\* The sending ends.
\* Mutant: the retries are counted only when the list was not changed meanwhile.
NackSent_SameList(i) ==
  /\ sending' = RemoveAt(sending, i) /\ nacks' = Append(nacks, sending[i])
  /\ UNCHANGED <<lost, asked, gaveUp, timer>>
  /\ UNCHANGED <<sender, network, resent, expected, closed, failures, received, anchored>>
NackSent(i) ==
  /\ sending' = RemoveAt(sending, i) /\ nacks' = Append(nacks, sending[i])
  /\ UpdateRetryCount([s \in DOMAIN asked |->
       IF s \in ToSet(sending[i]) THEN asked[s] + 1 ELSE asked[s]])
  /\ UNCHANGED <<sender, network, resent, expected, closed, failures, received, anchored>>

\* The sending throws: nothing is counted, the next interval tries again.
SendThrows(i) ==
  /\ failures < MaxFailures /\ failures' = failures + 1
  /\ sending' = RemoveAt(sending, i)
  /\ UNCHANGED <<sender, network, resent, nacks, expected, lost, timer, closed, history>>

Close ==
  /\ ~closed /\ closed' = TRUE
  /\ timer' = FALSE /\ lost' = Empty /\ asked' = Empty
  /\ UNCHANGED <<sender, network, resent, nacks, expected, sending, failures, received, gaveUp, anchored>>

AwaitEnds == \E i \in DOMAIN sending : NackSent(i)

Next ==
  \/ SendRtp \/ Lose \/ ReceiveRtp \/ SendNack \/ AwaitEnds \/ Close
  \/ \E i \in DOMAIN nacks : Retransmit(i)
  \/ \E i \in DOMAIN sending : SendThrows(i)

Spec == Init /\ [][Next]_vars

\* The periodic timer fires, and what is awaited ends; nothing is assumed of the
\* network.
FairSpec == Spec /\ WF_vars(SendNack) /\ WF_vars(AwaitEnds)

-----------------------------------------------------------------------------
\* While anything is lost the timer runs, and it never runs for nothing, in
\* every order of gaps, recoveries, pruning, sends in progress and closing.
LossIsTimed == timer <=> lost # Empty

\* A packet is given up only after it was asked for, apart from the NACKs that
\* were being sent when the loss was noticed: these count as attempts too.
AskedBeforeGivenUp == \A n \in gaveUp : n >= MaxRetries - MaxSends

\* Only what has not arrived is asked for, as long as _expectedSeqNum was
\* initialised once (after the sequence number 0 it is initialised again), and
\* never more than the list may hold, whatever is pruned.
OnlyMissingIsLost ==
  /\ anchored <= 1 => \A number \in received : SeqNum(number) \notin DOMAIN lost
  /\ Cardinality(DOMAIN lost) <= MaxLost

\* Every loss ends: the packet arrives, is given up or pruned, or the handler is
\* closed.
LossResolves ==
  \A number \in Numbers : SeqNum(number) \in DOMAIN lost ~> SeqNum(number) \notin DOMAIN lost
=============================================================================
