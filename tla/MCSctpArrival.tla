--------------------------- MODULE MCSctpArrival ---------------------------
(* Message layouts for model checking SctpArrival. *)
EXTENDS SctpArrival

Ordered(s, sizes) ==
  [stream |-> s, unordered |-> FALSE, maxRetransmits |-> -1, expires |-> FALSE,
   sizes |-> sizes]
Unordered(s, sizes) == [Ordered(s, sizes) EXCEPT !.unordered = TRUE]

\* An ordered channel, and then an unordered one: whole and fragmented
\* messages, those of a channel with TSNs that follow each other.
InTurn == << Ordered(0, <<1>>), Ordered(0, <<2, 2, 1>>), Ordered(0, <<2, 1>>),
             Ordered(0, <<1>>), Unordered(1, <<1>>), Unordered(1, <<2, 1>>) >>
\* Two channels whose messages alternate.
Alternating == << Ordered(0, <<1>>), Ordered(1, <<1>>), Ordered(0, <<1>>),
                  Ordered(1, <<1>>), Ordered(0, <<1>>), Ordered(0, <<1>>),
                  Ordered(1, <<1>>) >>
\* Two fragmented messages of an unordered channel.
Pairs == << Unordered(0, <<1, 1>>), Unordered(0, <<1, 1>>) >>
\* A channel whose ordered messages come first, as those of DCEP do.
Leading == << Ordered(0, <<1>>), Ordered(0, <<1>>), Unordered(0, <<1, 1>>),
              Unordered(0, <<1>>), Ordered(1, <<2>>), Unordered(1, <<2>>) >>
\* An unordered message between two ordered ones of the same stream.
Mixed == << Ordered(0, <<1>>), Unordered(0, <<1, 1>>), Ordered(0, <<1>>) >>
=============================================================================
