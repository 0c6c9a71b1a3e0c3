-------------------------- MODULE MessageDelivery --------------------------
(***************************************************************************)
(* What an SCTP association promises to the data channels above it, told   *)
(* without chunks, timers or packets: of the messages accepted so far,     *)
(* each stream gets each one at most once and never a garbled one, and the *)
(* ordered messages of a stream arrive in the order of acceptance.  Only a *)
(* message of limited reliability may be skipped.                          *)
(***************************************************************************)
EXTENDS Naturals, Sequences, SequencesExt

CONSTANT Messages   \* records with fields stream, unordered, maxRetransmits, expires

VARIABLES
  accepted,   \* how many messages sendData has accepted
  delivered   \* by stream, the numbers of the messages handed to the receiver

Streams == {Messages[k].stream : k \in DOMAIN Messages}

Skippable(k) == Messages[k].maxRetransmits # -1 \/ Messages[k].expires

\* A legal sequence of deliveries on stream s when n messages are accepted.
Legal(s, seq, n) ==
  LET mine == {k \in 1 .. n : Messages[k].stream = s}
      inOrder == {k \in mine : ~Messages[k].unordered}
      got == ToSet(seq)
  IN  /\ got \subseteq mine
      /\ \A i, j \in DOMAIN seq : i < j =>
           /\ seq[i] # seq[j]
           /\ {seq[i], seq[j]} \subseteq inOrder => seq[i] < seq[j]
      /\ \A k \in got \cap inOrder, j \in inOrder \ got : j < k => Skippable(j)

Init == accepted \in 0 .. Len(Messages) /\ delivered = [s \in Streams |-> << >>]

Accept ==
  /\ accepted < Len(Messages)
  /\ accepted' = accepted + 1
  /\ UNCHANGED delivered

Deliver ==
  /\ \A s \in Streams : /\ IsPrefix(delivered[s], delivered'[s])
                        /\ Legal(s, delivered'[s], accepted)
  /\ UNCHANGED accepted

Next == Accept \/ Deliver

Spec == Init /\ [][Next]_<<accepted, delivered>>
=============================================================================
