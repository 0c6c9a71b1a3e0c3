---------------------------- MODULE SctpReceiver ----------------------------
(***************************************************************************)
(* The receiving half of an established SCTP association: DATA and         *)
(* FORWARD-TSN handling, the SACK timer and the delivery of messages to    *)
(* onReceiveData (lib/src/sctp/association.dart).                          *)
(*                                                                         *)
(* The TSN of the last chunk received in sequence is kept twice, in        *)
(* _lastReceivedTsn and in _remoteCumulativeTsn; the first one drives the  *)
(* duplicate check and the gap offsets, the second one is what a SACK      *)
(* acknowledges.                                                           *)
(***************************************************************************)
EXTENDS SctpMessages

CONSTANT AdvertisedRwnd     \* SctpConstants.defaultAdvertisedRwnd

ASSUME RwndAssumption == AdvertisedRwnd \in Nat

VARIABLES
  last,         \* _lastReceivedTsn
  cum,          \* _remoteCumulativeTsn
  mis,          \* _sackMisOrdered
  sackNeeded,   \* _sackNeeded
  sackTimer,    \* _sackTimer is running
  streams,      \* _inboundStreams
  rwnd,         \* advertisedRwnd
  delivered     \* history: the messages given to onReceiveData, by stream

receiverVars == <<last, cum, mis, sackNeeded, sackTimer, streams, rwnd, delivered>>

ReceiverTypeOK ==
  /\ last \in Tsns /\ cum \in Tsns /\ mis \subseteq Tsns
  /\ sackNeeded \in BOOLEAN /\ sackTimer \in BOOLEAN
  /\ \A s \in Streams : /\ ToSet(streams[s].reassembly) \subseteq AllChunks
                        /\ streams[s].ssn \in Ssns
  /\ rwnd \in Int
  /\ \A s \in Streams : ToSet(delivered[s]) \subseteq Numbers \cup {0}

\* _handleInit and _handleInitAck set both TSNs from the peer's initial TSN.
ReceiverInit ==
  /\ last = TsnMinusOne(InitialTsn) /\ cum = last /\ mis = {}
  /\ sackNeeded = FALSE /\ sackTimer = FALSE
  /\ streams = [s \in Streams |-> EmptyStream]
  /\ rwnd = AdvertisedRwnd
  /\ delivered = [s \in Streams |-> << >>]

\* Where the loop over the misordered TSNs, sorted as numbers, leaves the
\* last TSN received in sequence: it stops at the first one out of place.
Advance(from, tsns) ==
  LET rank(t) == Cardinality({u \in tsns : u <= t})
      inPlace == {t \in tsns : \A u \in tsns : u <= t => u = (from + rank(u)) % TsnModulo}
  IN  (from + Cardinality(inPlace)) % TsnModulo

Above(tsns, tsn) == {t \in tsns : Uint32Gt(t, tsn)}
Deliver(seq, popped) == seq \o [i \in DOMAIN popped |-> MessageOf(popped[i])]

\* What delivery gives back to the advertised window.
Returned(popped) == MapThenSumSet(LAMBDA j : Bytes(popped[j]), DOMAIN popped)

\* _handleData with _markReceived: a duplicate only asks for a SACK.
HandleData(chunk) ==
  LET arrived == mis \cup {chunk.tsn}
      next == Advance(last, arrived)
      pop == PopMessages(AddChunk(streams[chunk.stream], chunk))
  IN  /\ sackNeeded' = TRUE /\ sackTimer' = TRUE
      /\ IF Uint32Gte(last, chunk.tsn) \/ chunk.tsn \in mis
         THEN UNCHANGED <<last, cum, mis, streams, rwnd, delivered>>
         ELSE /\ last' = next
              /\ cum' = IF next = last THEN cum ELSE next
              /\ mis' = Above(arrived, next)
              /\ streams' = [streams EXCEPT ![chunk.stream] = pop.stream]
              /\ rwnd' = rwnd - chunk.size + Returned(pop.popped)
              /\ delivered' = [delivered EXCEPT ![chunk.stream] = Deliver(@, pop.popped)]

(***************************************************************************)
(* _handleForwardTsn.  A FORWARD-TSN is a record [tsn, skipped], skipped a *)
(* function from the ordered streams it names to the last stream sequence  *)
(* number abandoned there.  _remoteCumulativeTsn is left alone, and the    *)
(* early return asks for a SACK without starting the timer.                *)
(***************************************************************************)
HandleForwardTsn(forward) ==
  LET next == Advance(forward.tsn, Above(mis, forward.tsn))
      pop == [s \in Streams |->
                IF s \in DOMAIN forward.skipped
                THEN PopMessages([streams[s] EXCEPT !.ssn = SsnPlusOne(forward.skipped[s])])
                ELSE [stream |-> streams[s], popped |-> << >>]]
      kept == [s \in Streams |-> PruneChunks(pop[s].stream, next)]
  IN  /\ sackNeeded' = TRUE
      /\ IF Uint32Gte(last, forward.tsn)
         THEN UNCHANGED <<last, cum, mis, sackTimer, streams, rwnd, delivered>>
         ELSE /\ last' = next
              /\ mis' = Above(mis, next)
              /\ sackTimer' = TRUE
              /\ streams' = kept
              /\ rwnd' = rwnd + MapThenSumSet(LAMBDA s : Bytes(streams[s].reassembly)
                                                          - Bytes(kept[s].reassembly), Streams)
              /\ delivered' = [s \in Streams |-> Deliver(delivered[s], pop[s].popped)]
              /\ UNCHANGED cum

(***************************************************************************)
(* The SACK that _sendSack makes: the cumulative TSN, the offsets covered  *)
(* by its gap blocks, and the offset of the last block's end.  The blocks  *)
(* are built in the numeric order of the TSNs, relative to last.           *)
(***************************************************************************)
\* Mutants: offsets count from the TSN after last; the SACK names the next TSN
\* expected instead of the last one received.
Offset_FromNext(tsn) == (tsn - last - 1) % TsnModulo
Offset(tsn) == (tsn - last) % TsnModulo
Sack_NextExpected ==
  [cum |-> TsnPlusOne(cum), gaps |-> {Offset(t) : t \in mis},
   end |-> IF mis = {} THEN 0 ELSE Offset(Max(mis))]
Sack ==
  [cum |-> cum, gaps |-> {Offset(t) : t \in mis},
   end |-> IF mis = {} THEN 0 ELSE Offset(Max(mis))]

\* The SACK timer fires.  The list of duplicates that a SACK also reports is
\* not read by any sender, so it is left out.
SackTimer ==
  /\ sackTimer /\ sackTimer' = FALSE
  /\ sackNeeded' = FALSE
  /\ UNCHANGED <<last, cum, mis, streams, rwnd, delivered>>
=============================================================================
