--------------------------- MODULE MCDataChannels ---------------------------
(***************************************************************************)
(* Scenarios for model checking DataChannels.                              *)
(***************************************************************************)
EXTENDS DataChannels

\* The client creates the channels.
ByClient(n) == [p \in Peers |-> IF p = "client" THEN n ELSE 0]
TwoOfClient == ByClient(2)

\* How many messages are sent: none, or on channel 0 one by the client and two
\* by the server.
Silent == [p \in Peers |-> [id \in Ids |-> 0]]
Talk == [p \in Peers |-> [id \in Ids |-> IF id # 0 THEN 0 ELSE IF p = "server" THEN 2 ELSE 1]]

\* One channel that is used by both peers and closed by either of them or with
\* its manager, handlers that overlap, and a send that throws.
Talking ==
  [channels |-> ByClient(1), messages |-> Talk, tasks |-> 2, losses |-> 0, failures |-> 1,
   early |-> 0, closes |-> 2, closeAlls |-> 1]
\* Two channels that are closed with a request lost, a timer that fires early and
\* a send that throws.
Closing ==
  [channels |-> ByClient(2), messages |-> Silent, tasks |-> 1, losses |-> 1, failures |-> 1,
   early |-> 1, closes |-> 2, closeAlls |-> 0]
TalkingAndClosing == {Talking, Closing}

\* One channel of an unordered type that nobody closes.
Unclosed == {[Talking EXCEPT !.tasks = 1, !.closes = 0, !.closeAlls = 0]}
=============================================================================
