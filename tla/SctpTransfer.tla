---------------------------- MODULE SctpTransfer ----------------------------
(***************************************************************************)
(* One direction of data transfer over an established SCTP association:    *)
(* the sending half of one end, the receiving half of the other, and the   *)
(* datagram network between them, which loses, reorders and duplicates     *)
(* packets (DTLS records are neither ordered nor, in this code, checked    *)
(* for replay).                                                            *)
(***************************************************************************)
EXTENDS SctpSender, SctpArrival

CONSTANTS
  MaxTasks,         \* bound: runs of _transmit suspended at the same time
  MaxLosses,        \* bound: packets lost
  MaxDuplicates,    \* bound: packets delivered twice
  MaxTimeouts,      \* bound: expirations of T3 while packets are in flight
  MaxFailures       \* bound: sends that throw

ASSUME TransferBounds ==
  /\ MaxTasks \in Nat \ {0} /\ MaxLosses \in Nat /\ MaxDuplicates \in Nat
  /\ MaxTimeouts \in Nat /\ MaxFailures \in Nat

VARIABLES
  sender,       \* the sending association's fields
  tasks,        \* its suspended runs of _transmit
  broken,       \* history: an iteration over _sentQueue has thrown
  expired,      \* messages whose expiry has passed
  datagrams,    \* packets in flight
  losses, copies, timeouts, sendFailures    \* what has gone wrong so far

mishaps == <<losses, copies, timeouts, sendFailures>>
senderVars == <<sender, tasks, broken, expired>>
transferVars == <<receiverVars, senderVars, datagrams, mishaps>>

EntryType ==
  [tsn : DOMAIN ChunkAt, acked : BOOLEAN, misses : 0 .. 2, retransmit : BOOLEAN,
   abandoned : BOOLEAN, sentCount : Nat]

SenderTypeOK ==
  /\ sender.accepted \in 0 .. Len(Messages)
  /\ ToSet(sender.outbound) \subseteq DOMAIN ChunkAt
  /\ ToSet(sender.sent) \subseteq EntryType
  /\ sender.buffered \in [Streams -> Nat]
  /\ {sender.flight, sender.cwnd, sender.ssthresh, sender.partialBytes} \subseteq Nat
  /\ {sender.recoveryExit, sender.lastSacked} \subseteq Tsns \cup {NoTsn}
  /\ Cardinality(sender.forward) <= 1
  /\ {sender.recoveryTransmit, sender.t3, broken} \subseteq BOOLEAN
  /\ Len(tasks) <= MaxTasks

TransferTypeOK == ReceiverTypeOK /\ SenderTypeOK

TransferInit ==
  /\ ReceiverInit
  /\ sender = InitialSender /\ tasks = << >> /\ broken = FALSE /\ expired = {}
  /\ datagrams = {} /\ losses = 0 /\ copies = 0 /\ timeouts = 0 /\ sendFailures = 0

-----------------------------------------------------------------------------
(* The sending end *)

SendsForward(rest) == \E t \in ToSet(rest) : t.at = "forward"

\* A run of _transmit has come to its next await or to its end; others are the
\* runs that stay suspended and left the packets already in flight.  The send
\* may also throw (IceConnection has no nominated pair): the run ends there,
\* except that the FORWARD-TSN's send is inside a try.
Continue(run, others, left) ==
  /\ sender' = run.sender
  /\ \/ /\ tasks' = others \o run.rest
        /\ datagrams' = left \cup run.packets
        /\ UNCHANGED sendFailures
     \/ /\ run.packets # {} /\ sendFailures < MaxFailures
        /\ tasks' = others \o IF SendsForward(run.rest) THEN run.rest ELSE << >>
        /\ datagrams' = left
        /\ sendFailures' = sendFailures + 1

SendData ==
  /\ sender.accepted < Len(Messages)
  /\ LET queued == Enqueue(sender)
     IN  IF queued.t3
         THEN /\ sender' = queued
              /\ UNCHANGED <<tasks, datagrams, sendFailures>>
         ELSE /\ Len(tasks) < MaxTasks
              /\ Continue(Transmit(queued), tasks, datagrams)
  /\ UNCHANGED <<receiverVars, broken, expired, losses, copies, timeouts>>

\* A send completes and its run of _transmit goes on.
TransmitResumes ==
  /\ \E i \in DOMAIN tasks :
       /\ Continue(Resume(sender, tasks[i]), RemoveAt(tasks, i), datagrams)
       /\ broken' = (broken \/ IterationBroken(sender, tasks[i]))
  /\ UNCHANGED <<receiverVars, expired, losses, copies, timeouts>>

\* T3 fires.  While packets are in flight it has fired too early.
T3Expired ==
  /\ sender.t3 /\ Len(tasks) < MaxTasks
  /\ \/ datagrams = {} /\ ~sackTimer /\ UNCHANGED timeouts
     \/ ~(datagrams = {} /\ ~sackTimer) /\ timeouts < MaxTimeouts /\ timeouts' = timeouts + 1
  /\ Continue(Transmit(ExpireT3(sender, expired)), tasks, datagrams)
  /\ UNCHANGED <<receiverVars, broken, expired, losses, copies>>

\* The expiry of a message that has one passes.
Expire ==
  /\ \E k \in 1 .. sender.accepted : /\ Messages[k].expires /\ k \notin expired
                                     /\ expired' = expired \cup {k}
  /\ UNCHANGED <<receiverVars, sender, tasks, broken, datagrams, mishaps>>

-----------------------------------------------------------------------------
(* The network and the receiving end *)

\* A packet leaves the network, or stays in it as a second copy.
Arrives(packet) ==
  \/ datagrams' = datagrams \ {packet} /\ UNCHANGED copies
  \/ UNCHANGED datagrams /\ copies < MaxDuplicates /\ copies' = copies + 1

ReceiveData(packet) ==
  /\ packet.type = "DATA"
  /\ Arrives(packet)
  /\ HandleData(ChunkAt[packet.tsn])
  /\ UNCHANGED <<senderVars, losses, timeouts, sendFailures>>

ReceiveForwardTsn(packet) ==
  /\ packet.type = "FORWARD_TSN"
  /\ Arrives(packet)
  /\ HandleForwardTsn(packet)
  /\ UNCHANGED <<senderVars, losses, timeouts, sendFailures>>

SackPacket == [type |-> "SACK", cum |-> Sack.cum, gaps |-> Sack.gaps, end |-> Sack.end]

SendSack ==
  /\ SackTimer
  /\ datagrams' = IF sackNeeded THEN datagrams \cup {SackPacket} ELSE datagrams
  /\ UNCHANGED <<senderVars, mishaps>>

\* When the cumulative part empties the sent queue, the code replaces the list
\* that a suspended retransmission loop is iterating over.
Detach(run) == IF run.at = "retransmit" THEN [run EXCEPT !.length = 0] ELSE run

ReceiveSack(packet) ==
  LET emptied == Covered(sender, packet) = Len(sender.sent)
      others == [i \in DOMAIN tasks |-> IF emptied THEN Detach(tasks[i]) ELSE tasks[i]]
  IN  /\ packet.type = "SACK"
      /\ \E left \in {datagrams \ {packet}, datagrams} :
           /\ IF packet \notin left THEN UNCHANGED copies
              ELSE copies < MaxDuplicates /\ copies' = copies + 1
           /\ IF IsOldSack(sender, packet)
              THEN datagrams' = left /\ UNCHANGED <<sender, tasks, sendFailures>>
              ELSE /\ Len(tasks) < MaxTasks
                   /\ Continue(Transmit(HandleSack(sender, packet, expired)), others, left)
      /\ UNCHANGED <<receiverVars, broken, expired, losses, timeouts>>

LoseDatagram(packet) ==
  /\ losses < MaxLosses /\ losses' = losses + 1
  /\ datagrams' = datagrams \ {packet}
  /\ UNCHANGED <<receiverVars, senderVars, copies, timeouts, sendFailures>>

ReceiveDatagram(packet) == ReceiveData(packet) \/ ReceiveForwardTsn(packet) \/ ReceiveSack(packet)

TransferNext ==
  \/ SendData \/ TransmitResumes \/ T3Expired \/ Expire \/ SendSack
  \/ \E packet \in datagrams : ReceiveDatagram(packet) \/ LoseDatagram(packet)

TransferSpec == TransferInit /\ [][TransferNext]_transferVars

\* Sends complete, timers fire, the network eventually brings every packet that
\* it does not lose, and the application calls sendData for every message.
\* Each disjunction is weak fairness of an action, with the condition under
\* which it is enabled written out (TLC is slow to find it by ENABLED).
CanReceive == \E packet \in datagrams : packet.type = "SACK" => Len(tasks) < MaxTasks
ReceiveAny == \E packet \in datagrams : ReceiveDatagram(packet)
CanExpireT3 == sender.t3 /\ Len(tasks) < MaxTasks /\ datagrams = {} /\ ~sackTimer
CanSendData == sender.accepted < Len(Messages) /\ (sender.t3 \/ Len(tasks) < MaxTasks)

TransferFairness ==
  /\ []<>(tasks = << >>) \/ []<><<TransmitResumes>>_transferVars
  /\ WF_transferVars(SendSack)
  /\ []<>~CanReceive \/ []<><<ReceiveAny>>_transferVars
  /\ []<>~CanExpireT3 \/ []<><<T3Expired>>_transferVars
  /\ []<>~CanSendData \/ []<><<SendData>>_transferVars

FairTransferSpec == TransferSpec /\ TransferFairness

-----------------------------------------------------------------------------
\* The transfer keeps the promise of MessageDelivery.
Service == INSTANCE MessageDelivery WITH accepted <- sender.accepted
TransferDelivers == Service!Spec

ArrivedTsns == {c.tsn : c \in Held \cup DeliveredChunks}

Accepted == {c.tsn : c \in UNION {ToSet(Chunks[k]) : k \in 1 .. sender.accepted}}
Queued == ToSet(sender.outbound) \cup {e.tsn : e \in ToSet(sender.sent)}
Acked == {e.tsn : e \in {e \in ToSet(sender.sent) : e.acked}}

\* The sender forgets a chunk of a reliable message, or counts it as acked,
\* only when the receiver has it: no SACK, however old, reordered or repeated,
\* makes _handleSack drop data that nobody has, and the receiver throws nothing
\* away that its SACKs have covered.
KeptUntilReceived ==
  \A t \in (Accepted \ Queued) \cup Acked :
    t \in ArrivedTsns \/ Service!Skippable(ChunkAt[t].msg)

\* While chunks wait for transmission or for a SACK and no run of _transmit is
\* suspended, T3 is running: the sender never waits for what nothing will bring.
UnackedIsTimed == tasks = << >> /\ Queued # {} => sender.t3

\* bufferedAmount is exactly what the application has given to sendData and the
\* peer has neither acknowledged cumulatively nor been told to skip.
BufferedIsExact ==
  \A s \in Streams :
    sender.buffered[s] =
      MapThenSumSet(LAMBDA t : IF ChunkAt[t].stream = s THEN ChunkAt[t].size ELSE 0, Queued)

\* "Bytes in flight (sent but not ACKed)": the counter that gates every send
\* never exceeds the bytes in the sent queue.
FlightIsBounded == sender.flight <= SumSizes(sender.sent, DOMAIN sender.sent)

\* "When a chunk is abandoned, all chunks in the same message are also marked
\* as abandoned": none of them is still waiting to be sent for the first time.
Abandoned ==
  {e.tsn : e \in {e \in ToSet(sender.sent) : e.abandoned}} \cup {f.tsn : f \in sender.forward}
AbandonedAsAWhole ==
  \A t \in Abandoned, u \in ToSet(sender.outbound) : ChunkAt[t].msg # ChunkAt[u].msg

\* "First, retransmit marked chunks from sentQueue": the loop is never cut off
\* by another handler that changed the queue during an await.
NeverBroken == ~broken

\* "Keep in sync for SACK": what a SACK acknowledges cumulatively is what the
\* receiver has in sequence.
CumulativeInSync == cum = last

\* When nothing is in flight, suspended or timed, the receiver has everything
\* below the sender's next TSN in sequence, or has been told to skip it.
Quiescent == datagrams = {} /\ tasks = << >> /\ ~sackTimer /\ ~sender.t3
QuiescentAgreement ==
  Quiescent => \A t \in Accepted \ Queued : Uint32Gte(last, t)

\* Every message that may not be skipped is delivered in the end, if the
\* network loses finitely many packets: retransmission by T3, fast retransmit
\* and the SACKs always get the two ends together again.
EventuallyDelivered ==
  \A k \in Numbers : ~Service!Skippable(k) =>
    <>(\E s \in Streams : k \in ToSet(delivered[s]))
=============================================================================
