---------------------------- MODULE SctpMessages ----------------------------
(***************************************************************************)
(* What one end of an association sends: a sequence of user messages and   *)
(* the DATA chunks that sendData (lib/src/sctp/association.dart) makes of  *)
(* them.  A message is a record                                            *)
(*   [stream, unordered, maxRetransmits, expires, sizes]                   *)
(* where sizes are the lengths of its fragments (<<0>> for empty data),    *)
(* maxRetransmits is -1 when there is no limit, and expires says that the  *)
(* message has an expiry time.                                             *)
(***************************************************************************)
EXTENDS SctpReassembly

CONSTANTS
  Messages,     \* the messages, in the order of the calls of sendData
  InitialTsn    \* _localInitialTsn, random in the program

ASSUME MessagesAssumption ==
  /\ Messages \in Seq({Messages[k] : k \in DOMAIN Messages})
  /\ \A k \in DOMAIN Messages :
       /\ Messages[k].unordered \in BOOLEAN
       /\ Messages[k].expires \in BOOLEAN
       /\ Messages[k].maxRetransmits \in Nat \cup {-1}
       /\ Messages[k].sizes \in Seq(Nat) \ {<< >>}
ASSUME InitialTsnAssumption == InitialTsn \in Tsns

Numbers == DOMAIN Messages
Streams == {Messages[k].stream : k \in Numbers}

\* The fragments of the first k messages.
Fragments[k \in 0 .. Len(Messages)] ==
  IF k = 0 THEN 0 ELSE Fragments[k - 1] + Len(Messages[k].sizes)

\* _getNextTsn() once for every fragment of the messages before message k.
FragmentsBefore(k) == Fragments[k - 1]

\* _outboundStreamSeq: one number for every ordered message of the stream
\* before message k; unordered messages carry 0.
StreamSeq(k) ==
  IF Messages[k].unordered THEN 0
  ELSE Cardinality({j \in 1 .. k - 1 : /\ Messages[j].stream = Messages[k].stream
                                       /\ ~Messages[j].unordered}) % SsnModulo

\* The fragments of every message, as sendData queues them.
Chunks ==
  [k \in Numbers |->
    [i \in DOMAIN Messages[k].sizes |->
      [tsn |-> (InitialTsn + FragmentsBefore(k) + i - 1) % TsnModulo,
       stream |-> Messages[k].stream, ssn |-> StreamSeq(k),
       unordered |-> Messages[k].unordered,
       begin |-> i = 1, end |-> i = Len(Messages[k].sizes),
       size |-> Messages[k].sizes[i], msg |-> k]]]

AllChunks == UNION {ToSet(Chunks[k]) : k \in Numbers}

Bytes(chunks) == MapThenSumSet(LAMBDA i : chunks[i].size, DOMAIN chunks)

\* The message that a sequence of chunks is, or 0 for a garbled one.
MessageOf(chunks) ==
  LET whole == {k \in Numbers : Chunks[k] = chunks}
  IN  IF whole = {} THEN 0 ELSE Min(whole)
=============================================================================
