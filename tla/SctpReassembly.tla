--------------------------- MODULE SctpReassembly ---------------------------
(***************************************************************************)
(* InboundStream (lib/src/sctp/inbound_stream.dart): the per-stream buffer *)
(* that puts the fragments of a message back together.  A stream is a      *)
(* record [reassembly, ssn]; a DATA chunk is a record                      *)
(* [tsn, stream, ssn, unordered, begin, end, size, msg], where msg stands  *)
(* for the message that the chunk's bytes belong to.                       *)
(***************************************************************************)
EXTENDS SctpSerial, Sequences, SequencesExt

EmptyStream == [reassembly |-> << >>, ssn |-> 0]

\* Length of the longest prefix of s all of whose elements satisfy Test.
PrefixLength(s, Test(_)) ==
  LET failing == {i \in DOMAIN s : ~Test(s[i])}
  IN  IF failing = {} THEN Len(s) ELSE Min(failing) - 1

\* addChunk: keep the buffer in TSN order; a TSN already there is ignored.
AddChunk(stream, chunk) ==
  LET buffer == stream.reassembly
      known == PrefixLength(buffer, LAMBDA c : ~Uint32Gte(c.tsn, chunk.tsn))
  IN  IF known < Len(buffer) /\ buffer[known + 1].tsn = chunk.tsn
      THEN stream
      ELSE [stream EXCEPT !.reassembly = InsertAt(buffer, known + 1, chunk)]

(***************************************************************************)
(* popMessages is one pass over the buffer.  kept is the buffer up to the  *)
(* position reached, start the index in kept of the open message's first   *)
(* fragment (0 when none is open; it stays set after a message has been    *)
(* yielded, as startPos does), expected the TSN that must come next, and   *)
(* stopped says that the loop has left by a break.                         *)
(***************************************************************************)
Scan(stream) ==
  [kept |-> << >>, ssn |-> stream.ssn, start |-> 0, expected |-> 0,
   ordered |-> FALSE, stopped |-> FALSE, popped |-> << >>]

\* A first fragment that may be delivered now, or the expected next chunk.
\* Mutants: an ordered message does not wait for its turn; after a message the
\* pass looks for nothing more.
Fits_NoOrder(scan, chunk) ==
  IF scan.start = 0 THEN chunk.begin ELSE chunk.tsn = scan.expected
Fits_Once(scan, chunk) ==
  /\ scan.popped = << >>
  /\ IF scan.start = 0
     THEN chunk.begin /\ (~chunk.unordered => ~Uint16Gt(chunk.ssn, scan.ssn))
     ELSE chunk.tsn = scan.expected
Fits(scan, chunk) ==
  IF scan.start = 0
  THEN chunk.begin /\ (~chunk.unordered => ~Uint16Gt(chunk.ssn, scan.ssn))
  ELSE chunk.tsn = scan.expected

\* reassembly.removeRange(startPos, pos + 1).
\* Mutant: the first fragment stays.
Unpopped_OffByOne(held, start) == SubSeq(held, 1, start)
Unpopped(held, start) == SubSeq(held, 1, start - 1)

ScanChunk(scan, chunk) ==
  LET looking == scan.start = 0
      ordered == IF looking THEN ~chunk.unordered ELSE scan.ordered
      fits == Fits(scan, chunk)
      held == Append(scan.kept, chunk)
      start == IF looking THEN Len(held) ELSE scan.start
  IN  CASE scan.stopped -> [scan EXCEPT !.kept = held]
        [] ~scan.stopped /\ ~fits ->
             [scan EXCEPT !.kept = held, !.start = 0, !.stopped = ordered]
        [] ~scan.stopped /\ fits /\ ~chunk.end ->
             [scan EXCEPT !.kept = held, !.start = start, !.ordered = ordered,
                          !.expected = TsnPlusOne(chunk.tsn)]
        [] OTHER ->
             [scan EXCEPT
                !.kept = Unpopped(held, start), !.start = start,
                !.ordered = ordered, !.expected = TsnPlusOne(chunk.tsn),
                !.ssn = IF ordered /\ chunk.ssn = @ THEN SsnPlusOne(@) ELSE @,
                !.popped = Append(@, SubSeq(held, start, Len(held)))]

\* The stream after popMessages, and the messages it yields, each the
\* sequence of its chunks.
PopMessages(stream) ==
  LET buffer == stream.reassembly
      after[i \in 0 .. Len(buffer)] ==
        IF i = 0 THEN Scan(stream) ELSE ScanChunk(after[i - 1], buffer[i])
      scan == after[Len(buffer)]
  IN  [stream |-> [reassembly |-> scan.kept, ssn |-> scan.ssn],
       popped |-> scan.popped]

\* pruneChunks: drop the chunks at the front up to and including tsn.
PruneChunks(stream, tsn) ==
  LET pruned == PrefixLength(stream.reassembly, LAMBDA c : Uint32Gte(tsn, c.tsn))
  IN  [stream EXCEPT !.reassembly = SubSeq(@, pruned + 1, Len(@))]
=============================================================================
