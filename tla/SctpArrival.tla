---------------------------- MODULE SctpArrival ----------------------------
(***************************************************************************)
(* The receiving half of an association under every arrival order: the     *)
(* network may bring the DATA chunks of the messages in any order and any  *)
(* number of times, and may never bring some of them.                      *)
(***************************************************************************)
EXTENDS SctpReceiver

Arrive(chunk) == HandleData(chunk)

ArrivalNext == SackTimer \/ \E chunk \in AllChunks : Arrive(chunk)

ArrivalSpec == ReceiverInit /\ [][ArrivalNext]_receiverVars

-----------------------------------------------------------------------------
Held == UNION {ToSet(streams[s].reassembly) : s \in Streams}
DeliveredChunks ==
  UNION {ToSet(Chunks[k]) : k \in UNION {ToSet(delivered[s]) \ {0} : s \in Streams}}

\* The chunks that the next SACK acknowledges, as the sender reads it.
Acknowledged ==
  {c \in AllChunks : \/ Uint32Gte(Sack.cum, c.tsn)
                     \/ (c.tsn - Sack.cum) % TsnModulo \in Sack.gaps}

\* A SACK acknowledges exactly the chunks whose bytes the receiver still has
\* or has handed to the application: _markReceived, the gap blocks of
\* _sendSack and the reassembly buffers never disagree, so the sender neither
\* drops a chunk nobody has nor repeats one that arrived.
AcknowledgedIsHeld == Acknowledged = Held \cup DeliveredChunks

\* _markReceived has "Advance cumulative TSN through contiguous sequence":
\* the TSN after the last one in sequence is still missing.
CumulativeIsMaximal == TsnPlusOne(last) \notin mis

\* What a SACK says is right and is all that could be said.
AcknowledgementIsExact == AcknowledgedIsHeld /\ CumulativeIsMaximal

\* A chunk is either in a reassembly buffer or part of a delivered message,
\* never both (popMessages leaves no bytes of a message behind), and every byte
\* that waits in a buffer is missing from the advertised window, whatever the
\* order of arrival.
BufferIsAccounted ==
  /\ Held \cap DeliveredChunks = {}
  /\ rwnd = AdvertisedRwnd - MapThenSumSet(LAMBDA c : c.size, Held)

\* A message that popMessages could hand over now: complete in its buffer and,
\* when ordered, the next of its stream.
Ready(k) ==
  /\ ToSet(Chunks[k]) \subseteq Held
  /\ ~Messages[k].unordered => StreamSeq(k) = streams[Messages[k].stream].ssn

\* popMessages "Yields ... tuples for each complete message": after every
\* chunk, no message that could be handed over stays in the buffer.
NothingHeldBack == \A k \in Numbers : ~Ready(k)

\* The receiver keeps the promise of MessageDelivery, every message having
\* been accepted by the sender.
Abstract == INSTANCE MessageDelivery WITH accepted <- Len(Messages)
DeliversAsPromised == Abstract!Spec
=============================================================================
