----------------------------- MODULE SctpSender -----------------------------
(***************************************************************************)
(* The sending half of an established SCTP association: sendData,          *)
(* _transmit, SACK handling with fast retransmit and congestion control,   *)
(* the retransmission timer T3 and partial reliability                     *)
(* (lib/src/sctp/association.dart).                                        *)
(*                                                                         *)
(* The association's fields are one record, and the synchronous parts of   *)
(* the code are functions on it.  _transmit awaits every send, so it is a  *)
(* task: Transmit, and then Resume at each continuation, run to the next   *)
(* await and give the new record, the packet sent (a set of at most one)   *)
(* and the task that is left (a sequence of at most one).                  *)
(***************************************************************************)
EXTENDS SctpMessages

CONSTANTS
  UserDataMaxLength,    \* SctpConstants.userDataMaxLength: 1024 in the program
  InitialCwnd           \* SctpConstants.initialCwnd: 65536 in the program

ASSUME WindowAssumption ==
  /\ UserDataMaxLength \in Nat \ {0} /\ InitialCwnd \in Nat \ {0}
ASSUME FragmentAssumption ==
  \A chunk \in AllChunks : chunk.size <= UserDataMaxLength

NoTsn == -1         \* null, for the TSN fields that may be null
ChunkAt == [t \in {c.tsn : c \in AllChunks} |-> CHOOSE c \in AllChunks : c.tsn = t]
Size(entry) == ChunkAt[entry.tsn].size
Least(a, b) == IF a <= b THEN a ELSE b
Greatest(a, b) == IF a >= b THEN a ELSE b

\* A _SentChunk that has just been sent for the first time.
FirstSend(tsn) ==
  [tsn |-> tsn, acked |-> FALSE, misses |-> 0, retransmit |-> FALSE,
   abandoned |-> FALSE, sentCount |-> 1]

\* sentCount++.  The code compares the count with maxRetransmits only, so it
\* is kept up to the first value above the limit plus one.
SendAgain(entry) ==
  [entry EXCEPT !.misses = 0, !.retransmit = FALSE,
     !.sentCount = Least(@ + 1, 2 + Messages[ChunkAt[entry.tsn].msg].maxRetransmits)]

InitialSender ==
  [accepted |-> 0,              \* messages given to sendData
   outbound |-> << >>,          \* _outboundQueue, by TSN
   sent |-> << >>,              \* _sentQueue
   buffered |-> [s \in Streams |-> 0],  \* _streamBufferedAmount
   flight |-> 0, cwnd |-> InitialCwnd, ssthresh |-> InitialCwnd,
   partialBytes |-> 0,          \* _partialBytesAcked
   recoveryExit |-> NoTsn,      \* _fastRecoveryExit
   recoveryTransmit |-> FALSE,  \* _fastRecoveryTransmit
   lastSacked |-> NoTsn,        \* _lastSackedTsn
   forward |-> {},              \* _forwardTsnChunk: at most one
   t3 |-> FALSE]                \* _t3Timer is running

\* The bytes of the entries at some positions.
SumSizes(entries, positions) == MapThenSumSet(LAMBDA i : Size(entries[i]), positions)

\* Mutant of the next definition: an abandoned chunk is not given back.
Unbuffer_AckedOnly(s, entries) ==
  [s EXCEPT !.buffered = [stream \in Streams |-> @[stream] - SumSizes(entries,
     {i \in DOMAIN entries : ChunkAt[entries[i].tsn].stream = stream /\ ~entries[i].abandoned})]]
\* _decrementBufferedAmount for a sequence of entries.
Unbuffer(s, entries) ==
  [s EXCEPT !.buffered = [stream \in Streams |-> @[stream] - SumSizes(entries,
     {i \in DOMAIN entries : ChunkAt[entries[i].tsn].stream = stream})]]

\* _flightSizeDecrease, clamped at zero.
Land(s, bytes) == [s EXCEPT !.flight = Greatest(0, @ - bytes)]

-----------------------------------------------------------------------------
(* _transmit *)

Finished(s) == [sender |-> s, packets |-> {}, rest |-> << >>]
Suspended(s, packet, task) == [sender |-> s, packets |-> {packet}, rest |-> <<task>>]

DataPacket(tsn) == [type |-> "DATA", tsn |-> tsn]
ForwardPacket(forward) == [type |-> "FORWARD_TSN", tsn |-> forward.tsn, skipped |-> forward.skipped]

\* The window of one burst, computed once for the whole task.
BurstWindow(s) ==
  LET burst == IF s.recoveryExit # NoTsn THEN 2 ELSE 4
  IN  Least(s.flight + burst * UserDataMaxLength, s.cwnd)

\* The loop that moves new chunks to the sent queue.
SendNew(s, window) ==
  IF s.outbound = << >> \/ s.flight >= window
  THEN Finished(s)
  ELSE LET entry == FirstSend(Head(s.outbound))
       IN  Suspended([s EXCEPT !.outbound = Tail(@), !.sent = Append(@, entry),
                               !.flight = @ + Size(entry)],
                     DataPacket(entry.tsn),
                     [at |-> "new", window |-> window, index |-> 0, length |-> 0])

\* The loop over the sent queue, from position i on.
Retransmit(s, i, window) ==
  LET marked == {j \in i .. Len(s.sent) : s.sent[j].retransmit}
      next == Min(marked)
  IN  IF marked = {} THEN SendNew(s, window)
      ELSE IF ~s.recoveryTransmit /\ s.flight >= window THEN Finished(s)
      ELSE Suspended([s EXCEPT !.recoveryTransmit = FALSE,
                               !.flight = @ + Size(s.sent[next]),
                               !.sent[next] = SendAgain(@)],
                     DataPacket(s.sent[next].tsn),
                     [at |-> "retransmit", window |-> window, index |-> next,
                      length |-> Len(s.sent)])

Transmit(s) ==
  IF s.forward = {} THEN Retransmit(s, 1, BurstWindow(s))
  ELSE Suspended(s, ForwardPacket(CHOOSE f \in s.forward : TRUE),
                 [at |-> "forward", window |-> 0, index |-> 0, length |-> 0])

\* The queue that the retransmission loop iterates over has changed its length
\* (or was replaced, which is recorded as length 0): Dart's iterator throws.
IterationBroken(s, task) ==
  task.at = "retransmit" /\ (task.length = 0 \/ Len(s.sent) # task.length)

Resume(s, task) ==
  LET forwarded == [s EXCEPT !.forward = {}, !.t3 = @ \/ s.sent # << >>]
      retransmitted == [s EXCEPT !.t3 = @ \/ task.index = 1]
  IN  CASE task.at = "forward" -> Retransmit(forwarded, 1, BurstWindow(forwarded))
        [] task.at = "new" -> SendNew([s EXCEPT !.t3 = TRUE], task.window)
        [] OTHER -> IF IterationBroken(s, task) THEN Finished(retransmitted)
                    ELSE Retransmit(retransmitted, task.index + 1, task.window)

-----------------------------------------------------------------------------
(* Partial reliability.  expired holds the messages whose expiry has passed. *)

MayAbandon(entry, expired) ==
  LET msg == ChunkAt[entry.tsn].msg
  IN  \/ Messages[msg].maxRetransmits # -1 /\ entry.sentCount > Messages[msg].maxRetransmits
      \/ msg \in expired

\* _maybeAbandon marks the fragments of the message that are in sentQueue, back
\* to its first and forward to its last one.
AbandonAround(sent, i) ==
  LET firsts == {j \in 1 .. i : ChunkAt[sent[j].tsn].begin}
      lasts == {j \in i .. Len(sent) : ChunkAt[sent[j].tsn].end}
      from == IF firsts = {} THEN 1 ELSE Max(firsts)
      to == IF lasts = {} THEN Len(sent) ELSE Min(lasts)
      marked[j \in 0 .. Len(sent)] ==
        IF j = 0 THEN sent
        ELSE IF j \notin from .. to THEN marked[j - 1]
        ELSE [marked[j - 1] EXCEPT ![j].abandoned = TRUE, ![j].retransmit = FALSE]
  IN  marked[Len(sent)]

\* Mutant: a chunk that is not abandoned is not marked either.
AbandonOrRetransmit_NoMark(sent, i, expired) ==
  IF ~sent[i].abandoned /\ MayAbandon(sent[i], expired) THEN AbandonAround(sent, i) ELSE sent
\* if (!_maybeAbandon(chunk)) chunk.retransmit = true
AbandonOrRetransmit(sent, i, expired) ==
  IF sent[i].abandoned THEN sent
  ELSE IF MayAbandon(sent[i], expired) THEN AbandonAround(sent, i)
  ELSE [sent EXCEPT ![i].retransmit = TRUE]

\* _updateAdvancedPeerAckPoint drops the abandoned front of the sent queue and
\* prepares a FORWARD-TSN; _advancedPeerAckTsn is then the last TSN dropped.
UpdatePeerAckPoint(s) ==
  LET n == PrefixLength(s.sent, LAMBDA e : e.abandoned)
      dropped == SubSeq(s.sent, 1, n)
      ordered(stream) == {i \in 1 .. n : LET c == ChunkAt[dropped[i].tsn]
                                         IN  c.stream = stream /\ ~c.unordered}
      named == {stream \in Streams : ordered(stream) # {}}
      forward == [tsn |-> dropped[n].tsn,
                  skipped |-> [stream \in named |-> ChunkAt[dropped[Max(ordered(stream))].tsn].ssn]]
  IN  IF n = 0 THEN s
      ELSE [Unbuffer(s, dropped) EXCEPT !.sent = SubSeq(@, n + 1, Len(@)),
                                        !.forward = {forward}]

-----------------------------------------------------------------------------
(* SACK handling *)

\* The entries that the cumulative TSN covers leave the sent queue.
Covered(s, sack) == PrefixLength(s.sent, LAMBDA e : Uint32Gte(sack.cum, e.tsn))
NewlyCovered(s, sack) ==
  {i \in 1 .. Covered(s, sack) : ~s.sent[i].acked}

AckCumulative(s, sack) ==
  LET n == Covered(s, sack)
      landed == Land(s, SumSizes(s.sent, NewlyCovered(s, sack)))
  IN  [Unbuffer(landed, SubSeq(s.sent, 1, n)) EXCEPT
         !.lastSacked = sack.cum, !.sent = SubSeq(@, n + 1, Len(@))]

Seen(sack) == {(sack.cum + o) % TsnModulo : o \in sack.gaps}

\* The entries that the gap blocks acknowledge for the first time.
NewlySeen(s, sack) ==
  LET n == PrefixLength(s.sent, LAMBDA e : ~Uint32Gt(e.tsn, (sack.cum + sack.end) % TsnModulo))
  IN  {i \in 1 .. n : s.sent[i].tsn \in Seen(sack) /\ ~s.sent[i].acked}

AckGaps(s, sack) ==
  LET newly == NewlySeen(s, sack)
      marked[i \in 0 .. Len(s.sent)] ==
        IF i = 0 THEN s.sent
        ELSE IF i \notin newly THEN marked[i - 1]
        ELSE [marked[i - 1] EXCEPT ![i].acked = TRUE]
  IN  [Land(s, SumSizes(s.sent, newly)) EXCEPT !.sent = marked[Len(s.sent)]]

\* One more SACK has passed over entry i; the third one makes it a loss.
Strike(acc, i, expired) ==
  LET s == acc.sender
      struck == [s.sent EXCEPT ![i].misses = @ + 1]
      missed == [s.sent EXCEPT ![i].misses = 0]
      decided == AbandonOrRetransmit(missed, i, expired)
  IN  IF struck[i].misses < 3 THEN [acc EXCEPT !.sender.sent = struck]
      ELSE [sender |-> Land([s EXCEPT !.sent = [decided EXCEPT ![i].acked = FALSE]],
                            Size(s.sent[i])),
            loss |-> TRUE]

\* Strike the entries before the highest one newly acknowledged.
StrikeMissing(s, sack, newly, expired) ==
  LET n == IF newly = {} THEN 0 ELSE Max(newly)
      after[i \in 0 .. n] ==
        IF i = 0 THEN [sender |-> s, loss |-> FALSE]
        ELSE IF s.sent[i].tsn \in Seen(sack) THEN after[i - 1]
        ELSE Strike(after[i - 1], i, expired)
  IN  after[n]

\* Slow start, congestion avoidance, and entering and leaving fast recovery.
AdjustWindow(s, sack, done, doneBytes, fullyUtilized, loss) ==
  LET slowStart == [s EXCEPT !.cwnd = @ + Least(doneBytes, UserDataMaxLength)]
      bytes == s.partialBytes + doneBytes
      avoidance == IF bytes >= s.cwnd
                   THEN [s EXCEPT !.partialBytes = bytes - s.cwnd, !.cwnd = @ + UserDataMaxLength]
                   ELSE [s EXCEPT !.partialBytes = bytes]
      grown == IF ~(done > 0 /\ fullyUtilized) THEN s
               ELSE IF s.cwnd <= s.ssthresh THEN slowStart ELSE avoidance
      half == Greatest(grown.cwnd \div 2, 4 * UserDataMaxLength)
      recovering == [grown EXCEPT !.ssthresh = half, !.cwnd = half, !.partialBytes = 0,
                                  !.recoveryTransmit = TRUE,
                                  !.recoveryExit = IF s.sent = << >> THEN @ ELSE Last(s.sent).tsn]
  IN  IF s.recoveryExit = NoTsn THEN IF loss THEN recovering ELSE grown
      ELSE IF Uint32Gte(sack.cum, s.recoveryExit) THEN [s EXCEPT !.recoveryExit = NoTsn]
      ELSE s

\* T3 is cancelled when the sent queue is empty and restarted on progress.
\* Mutant: it is not started again after the cancellation of a restart.
ManageT3_CancelOnly(s, done) == [s EXCEPT !.t3 = s.sent # << >> /\ @ /\ done = 0]
ManageT3(s, done) == [s EXCEPT !.t3 = s.sent # << >> /\ (@ \/ done > 0)]

IsOldSack(s, sack) == s.lastSacked # NoTsn /\ Uint32Gt(s.lastSacked, sack.cum)

\* _handleSack up to its await of _transmit.
HandleSack(s, sack, expired) ==
  LET done == Covered(s, sack)
      covered == AckCumulative(s, sack)
      newly == NewlySeen(covered, sack)
      gapped == AckGaps(covered, sack)
      struck == StrikeMissing(gapped, sack, newly, expired)
      doneBytes == SumSizes(s.sent, NewlyCovered(s, sack)) + SumSizes(covered.sent, newly)
      adjusted == AdjustWindow(UpdatePeerAckPoint(struck.sender), sack, done, doneBytes,
                               s.flight >= s.cwnd, struck.loss)
  IN  ManageT3(adjusted, done)

-----------------------------------------------------------------------------
(* sendData and timer T3 *)

\* sendData up to the point where it starts _transmit.
Enqueue(s) ==
  LET k == s.accepted + 1
  IN  [s EXCEPT !.accepted = k,
                !.outbound = @ \o [i \in DOMAIN Chunks[k] |-> Chunks[k][i].tsn],
                !.buffered[Messages[k].stream] = @ + Bytes(Chunks[k])]

\* _t3Expired up to the point where it starts _transmit.
ExpireT3(s, expired) ==
  LET marked[i \in 0 .. Len(s.sent)] ==
        IF i = 0 THEN s.sent ELSE AbandonOrRetransmit(marked[i - 1], i, expired)
  IN  [UpdatePeerAckPoint([s EXCEPT !.sent = marked[Len(s.sent)], !.t3 = FALSE]) EXCEPT
         !.recoveryExit = NoTsn, !.flight = 0, !.partialBytes = 0,
         !.ssthresh = Greatest(s.cwnd \div 2, 4 * UserDataMaxLength),
         !.cwnd = UserDataMaxLength]
=============================================================================
