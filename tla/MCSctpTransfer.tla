--------------------------- MODULE MCSctpTransfer ---------------------------
(***************************************************************************)
(* Message layouts for model checking SctpTransfer.  Sizes are counted in  *)
(* units of which UserDataMaxLength is a small number.                     *)
(***************************************************************************)
EXTENDS SctpTransfer

Ordered(s, sizes) ==
  [stream |-> s, unordered |-> FALSE, maxRetransmits |-> -1, expires |-> FALSE,
   sizes |-> sizes]
Unordered(s, sizes) == [Ordered(s, sizes) EXCEPT !.unordered = TRUE]
Limited(message, n) == [message EXCEPT !.maxRetransmits = n]
Expiring(message) == [message EXCEPT !.expires = TRUE]

\* One reliable channel: whole and fragmented messages.
Reliable == << Ordered(0, <<2>>), Ordered(0, <<2, 1>>), Ordered(0, <<2>>) >>
\* Long enough for three strikes and fast recovery.
Burst == << Ordered(0, <<2>>), Ordered(0, <<2, 2>>), Ordered(0, <<2>>), Ordered(0, <<2>>) >>
\* Small chunks next to full ones.
Uneven == << Ordered(0, <<3>>), Ordered(0, <<1>>), Ordered(0, <<1>>), Ordered(0, <<3>>),
             Ordered(0, <<1>>) >>
\* Limited and expiring messages on two channels, none of them fragmented.
Partial == << Limited(Ordered(0, <<2>>), 1), Expiring(Ordered(1, <<1>>)),
              Limited(Unordered(2, <<2>>), 0), Ordered(1, <<2>>) >>
\* A fragmented limited message in front of a reliable one.
Fragmented == << Limited(Ordered(0, <<2, 1>>), 0), Ordered(0, <<2>>) >>
\* A limited message in front of a reliable one of the same channel.
Skipping == << Limited(Ordered(0, <<2>>), 0), Ordered(0, <<2>>) >>
=============================================================================
