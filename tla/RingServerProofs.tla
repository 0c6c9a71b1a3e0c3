-------------------------- MODULE RingServerProofs --------------------------
(***************************************************************************)
(* RingServer for any set of browsers and any bounds: a verdict of success *)
(* is earned, and no answer is missed.  The invariant Courses says of each *)
(* client how far its page, the handler and the peer connection of the     *)
(* server and the socket between them can be apart.                        *)
(***************************************************************************)
EXTENDS RingServer, TLAPS

Before == {"none", "connecting", "offer", "remote", "answer", "gathering"}
After == {"video", "stability", "done", "closed"}

\* The variables have their types; a socket carries the offer to the page, and to
\* the server the answer and then the close.
Types ==
  /\ server \in {"starting", "getCameras", "startLiveCall", "serving", "exited"}
  /\ packets \in Nat
  /\ handler \in [Clients -> {"none", "offering", "listening"}]
  /\ pc \in [Clients -> {"none", "new", "offered", "applying", "stable", "connected", "closed"}]
  /\ toPage \in [Clients -> {<< >>, <<"offer">>}]
  /\ toServer \in [Clients -> {<< >>, <<"answer">>, <<"close">>, <<"answer", "close">>}]
  /\ page \in [Clients -> Before \cup After]
  /\ forwarded \in [Clients -> Nat] /\ frames \in [Clients -> Nat]
  /\ result \in [Clients -> {"none", "success", "failure"}]
  /\ missed \subseteq Clients

\* The handler of "connection" and its peer connection.
Handled(c) ==
  /\ handler[c] = "none" <=> pc[c] = "none"
  /\ handler[c] = "offering" => pc[c] = "new" \/ server = "exited"
  /\ handler[c] = "listening" => pc[c] # "new"
  /\ handler[c] # "listening" => toPage[c] = << >>
  /\ page[c] \in {"remote", "answer", "gathering", "video", "stability"} => handler[c] = "listening"
  /\ page[c] = "none" => handler[c] = "none"

\* What is on the way to the server.
Carried(c) ==
  /\ page[c] \in Before => toServer[c] = << >>
  /\ toServer[c] \in {<<"answer">>, <<"answer", "close">>} =>
       handler[c] = "listening" /\ (pc[c] = "offered" \/ server = "exited")
  /\ toServer[c] \in {<<"close">>, <<"answer", "close">>} => page[c] = "closed" /\ handler[c] # "none"

\* The peer connection has an answer only after the page has sent one, and is
\* closed only with the page or with the process.
Answered(c) ==
  /\ pc[c] \in {"applying", "stable", "connected"} => page[c] \in After
  /\ pc[c] = "closed" => page[c] = "closed" \/ server = "exited"

\* The packets of the camera become frames only while the two are connected.
Forwarding(c) ==
  /\ forwarded[c] > 0 \/ frames[c] > 0 => pc[c] \in {"connected", "closed"}
  /\ frames[c] + forwarded[c] <= packets
  /\ result[c] = "success" => frames[c] > EnoughFrames

\* A client of which a message was missed has gone, and nothing else is coming.
Gone(c) ==
  c \in missed =>
    /\ page[c] = "closed" /\ toServer[c] = << >>
    /\ pc[c] \in {"new", "offered"} \/ server = "exited"

Course(c) == Handled(c) /\ Carried(c) /\ Answered(c) /\ Forwarding(c) /\ Gone(c)
Courses == Types /\ \A c \in Clients : Course(c)

-----------------------------------------------------------------------------
(* The start, and the steps of the camera *)

LEMMA InitiallyOnCourse == Init => Courses
  BY RingAssumption
  DEF Init, Courses, Types, Course, Handled, Carried, Answered, Forwarding, Gone, Before, After

\* main() has no client before it serves, or leaves every client as it is.
LEMMA StartKeeps ==
  ASSUME Courses, Start
  PROVE  Courses'
<1>1. server' = "exited" \/ server # "exited"
  BY DEF Start, ReadToken, FoundCamera, LiveCallStarted, Exit
<1>2. Types'
  BY DEF Courses, Types, Start, ReadToken, FoundCamera, LiveCallStarted, Exit, clientVars
<1>3. ASSUME NEW d \in Clients
      PROVE  Course(d)'
  BY <1>1 DEF Courses, Start, clientVars, Course, Handled, Carried, Answered, Forwarding, Gone
<1> QED
  BY <1>2, <1>3 DEF Courses

\* A packet is on its way to connected pages only.
LEMMA OnVideoRtpKeeps ==
  ASSUME Courses, OnVideoRtp
  PROVE  Courses'
<1>1. Types'
  BY DEF Courses, Types, OnVideoRtp
<1>2. ASSUME NEW d \in Clients
      PROVE  Course(d)'
  <2>1. Course(d) /\ Types
    BY DEF Courses
  <2>2. forwarded'[d] = IF pc[d] = "connected" THEN forwarded[d] + 1 ELSE forwarded[d]
    BY DEF OnVideoRtp
  <2>3. Handled(d)' /\ Carried(d)' /\ Answered(d)' /\ Gone(d)'
    BY <2>1 DEF OnVideoRtp, Course, Handled, Carried, Answered, Gone
  <2>4. Forwarding(d)'
    BY <2>1, <2>2, RingAssumption DEF OnVideoRtp, Types, Course, Forwarding
  <2> QED
    BY <2>3, <2>4 DEF Course
<1> QED
  BY <1>1, <1>2 DEF Courses

\* The process ends, and with it every connection and what was on its way to it.
LEMMA CrashKeeps ==
  ASSUME Courses, NEW c \in Clients, Crash(c)
  PROVE  Courses'
<1>1. Types'
  BY DEF Courses, Types, Crash
<1>2. ASSUME NEW d \in Clients
      PROVE  Course(d)'
  <2>1. Course(d) /\ Types
    BY DEF Courses
  <2>2. /\ pc'[d] = IF pc[d] = "none" THEN "none" ELSE "closed"
        /\ toServer'[d] = << >> /\ server' = "exited"
    BY DEF Crash
  <2>3. /\ UNCHANGED <<packets, handler, toPage, page, forwarded, frames, result, missed>>
    BY DEF Crash
  <2>4. Handled(d)' /\ Carried(d)' /\ Answered(d)'
    BY <2>1, <2>2, <2>3 DEF Types, Course, Handled, Carried, Answered
  <2>5. Forwarding(d)' /\ Gone(d)'
    BY <2>1, <2>2, <2>3 DEF Types, Course, Handled, Forwarding, Gone
  <2> QED
    BY <2>4, <2>5 DEF Course
<1> QED
  BY <1>1, <1>2 DEF Courses

-----------------------------------------------------------------------------
(* A step of one client and its connection *)

\* Nothing of client d moves.
Still(d) ==
  /\ handler'[d] = handler[d] /\ pc'[d] = pc[d] /\ toPage'[d] = toPage[d]
  /\ toServer'[d] = toServer[d] /\ page'[d] = page[d] /\ forwarded'[d] = forwarded[d]
  /\ frames'[d] = frames[d] /\ result'[d] = result[d] /\ (d \in missed' <=> d \in missed)

\* A step moves one client only, and does it right.
LEMMA OneClient ==
  ASSUME Courses, NEW c \in Clients, UNCHANGED serverVars, Types', Course(c)',
         \A d \in Clients \ {c} : Still(d)
  PROVE  Courses'
<1>1. ASSUME NEW d \in Clients \ {c}
      PROVE  Course(d)'
  BY <1>1 DEF Courses, serverVars, Still, Course, Handled, Carried, Answered, Forwarding, Gone
<1> QED
  BY <1>1 DEF Courses

\* What arrives on a socket, and what is left.
LEMMA Arriving ==
  /\ Head(<<"answer">>) = "answer" /\ Tail(<<"answer">>) = << >>
  /\ Head(<<"close">>) = "close" /\ Tail(<<"close">>) = << >>
  /\ Head(<<"answer", "close">>) = "answer" /\ Tail(<<"answer", "close">>) = <<"close">>
  /\ Tail(<<"offer">>) = << >>
  /\ Append(<< >>, "offer") = <<"offer">> /\ Append(<< >>, "answer") = <<"answer">>
  /\ Append(<< >>, "close") = <<"close">> /\ Append(<<"answer">>, "close") = <<"answer", "close">>
<1>1. /\ Head(<<"answer">>) = "answer" /\ Head(<<"close">>) = "close"
      /\ Head(<<"answer", "close">>) = "answer"
  OBVIOUS
<1>2. /\ Tail(<<"answer">>) = << >> /\ Tail(<<"close">>) = << >> /\ Tail(<<"offer">>) = << >>
  OBVIOUS
<1>3. Tail(<<"answer", "close">>) = <<"close">>
  OBVIOUS
<1>4. /\ Append(<< >>, "offer") = <<"offer">> /\ Append(<< >>, "answer") = <<"answer">>
      /\ Append(<< >>, "close") = <<"close">>
  OBVIOUS
<1>5. Append(<<"answer">>, "close") = <<"answer", "close">>
  <2> DEFINE longer == Append(<<"answer">>, "close")
  <2>1. longer \in Seq({"answer", "close"}) /\ Len(longer) = 2
    OBVIOUS
  <2>2. longer[1] = "answer" /\ longer[2] = "close"
    OBVIOUS
  <2>3. ASSUME NEW s \in Seq({"answer", "close"}), Len(s) = 2
        PROVE  s = <<s[1], s[2]>>
    BY <2>3
  <2> HIDE DEF longer
  <2>4. longer = <<longer[1], longer[2]>>
    BY <2>1, <2>3
  <2> QED
    BY <2>2, <2>4 DEF longer
<1> QED
  BY <1>1, <1>2, <1>3, <1>4, <1>5

LEMMA Distinct ==
  /\ << >> # <<"answer">> /\ << >> # <<"close">> /\ << >> # <<"answer", "close">>
  /\ <<"answer">> # <<"close">> /\ <<"answer">> # <<"answer", "close">>
  /\ <<"close">> # <<"answer", "close">> /\ << >> # <<"offer">>
  OBVIOUS

\* A page that is served has no connection yet.
LEMMA ServePageKeeps ==
  ASSUME Courses, NEW c \in Clients, ServePage(c)
  PROVE  Courses'
<1>1. Types /\ Course(c)
  BY DEF Courses
<1>2. Types'
  BY <1>1, Arriving DEF Types, ServePage, serverVars, Course, Handled, Carried, Before, After
<1>3. Course(c)'
  <2>1. Handled(c)'
    BY <1>1, Distinct, Arriving DEF Types, ServePage, serverVars, Course, Handled, Carried, Answered, Before, After
  <2>2. Carried(c)'
    BY <1>1, Distinct, Arriving DEF Types, ServePage, serverVars, Course, Handled, Carried, Answered, Before, After
  <2>3. Answered(c)'
    BY <1>1, Distinct, Arriving DEF Types, ServePage, serverVars, Course, Handled, Carried, Answered, Before, After
  <2>4. Forwarding(c)'
    BY <1>1, Distinct, Arriving, RingAssumption DEF Types, ServePage, serverVars, Course, Handled, Carried, Answered, Forwarding, Before, After
  <2>5. Gone(c)'
    BY <1>1, Distinct, Arriving DEF Types, ServePage, serverVars, Course, Handled, Carried, Gone, Before, After
  <2> QED
    BY <2>1, <2>2, <2>3, <2>4, <2>5 DEF Course
<1>4. \A d \in Clients \ {c} : Still(d)
  BY <1>1 DEF Types, Still, ServePage, serverVars
<1> QED
  BY <1>2, <1>3, <1>4, OneClient DEF ServePage, serverVars

\* A connection begins with nothing on its socket.
LEMMA OnConnectionKeeps ==
  ASSUME Courses, NEW c \in Clients, OnConnection(c)
  PROVE  Courses'
<1>1. Types /\ Course(c)
  BY DEF Courses
<1>2. Types'
  BY <1>1, Arriving DEF Types, OnConnection, serverVars, Course, Handled, Carried, Before, After
<1>3. Course(c)'
  <2>1. Handled(c)'
    BY <1>1, Distinct, Arriving DEF Types, OnConnection, serverVars, Course, Handled, Carried, Answered, Before, After
  <2>2. Carried(c)'
    BY <1>1, Distinct, Arriving DEF Types, OnConnection, serverVars, Course, Handled, Carried, Answered, Before, After
  <2>3. Answered(c)'
    BY <1>1, Distinct, Arriving DEF Types, OnConnection, serverVars, Course, Handled, Carried, Answered, Before, After
  <2>4. Forwarding(c)'
    BY <1>1, Distinct, Arriving, RingAssumption DEF Types, OnConnection, serverVars, Course, Handled, Carried, Answered, Forwarding, Before, After
  <2>5. Gone(c)'
    BY <1>1, Distinct, Arriving DEF Types, OnConnection, serverVars, Course, Handled, Carried, Gone, Before, After
  <2> QED
    BY <2>1, <2>2, <2>3, <2>4, <2>5 DEF Course
<1>4. \A d \in Clients \ {c} : Still(d)
  BY <1>1 DEF Types, Still, OnConnection, serverVars
<1> QED
  BY <1>2, <1>3, <1>4, OneClient DEF OnConnection, serverVars

\* The offer goes out, and the handler listens.
LEMMA SendOfferKeeps ==
  ASSUME Courses, NEW c \in Clients, SendOffer(c)
  PROVE  Courses'
<1>1. Types /\ Course(c)
  BY DEF Courses
<1>2. Types'
  BY <1>1, Arriving DEF Types, SendOffer, serverVars, Course, Handled, Carried, Before, After
<1>3. Course(c)'
  <2>1. Handled(c)'
    BY <1>1, Distinct, Arriving DEF Types, SendOffer, serverVars, Course, Handled, Carried, Answered, Before, After
  <2>2. Carried(c)'
    BY <1>1, Distinct, Arriving DEF Types, SendOffer, serverVars, Course, Handled, Carried, Answered, Before, After
  <2>3. Answered(c)'
    BY <1>1, Distinct, Arriving DEF Types, SendOffer, serverVars, Course, Handled, Carried, Answered, Before, After
  <2>4. Forwarding(c)'
    BY <1>1, Distinct, Arriving, RingAssumption DEF Types, SendOffer, serverVars, Course, Handled, Carried, Answered, Forwarding, Before, After
  <2>5. Gone(c)'
    BY <1>1, Distinct, Arriving DEF Types, SendOffer, serverVars, Course, Handled, Carried, Gone, Before, After
  <2> QED
    BY <2>1, <2>2, <2>3, <2>4, <2>5 DEF Course
<1>4. \A d \in Clients \ {c} : Still(d)
  BY <1>1 DEF Types, Still, SendOffer, serverVars
<1> QED
  BY <1>2, <1>3, <1>4, OneClient DEF SendOffer, serverVars

\* An answer finds the listener; only a close may not.
LEMMA OnSocketKeeps ==
  ASSUME Courses, NEW c \in Clients, OnSocket(c)
  PROVE  Courses'
<1>1. Types /\ Course(c)
  BY DEF Courses
<1>2. Types'
  BY <1>1, Arriving DEF Types, OnSocket, serverVars, Course, Handled, Carried, Before, After
<1>3. Course(c)'
  <2>1. Handled(c)'
    BY <1>1, Distinct, Arriving DEF Types, OnSocket, serverVars, Course, Handled, Carried, Answered, Before, After
  <2>2. Carried(c)'
    BY <1>1, Distinct, Arriving DEF Types, OnSocket, serverVars, Course, Handled, Carried, Answered, Before, After
  <2>3. Answered(c)'
    BY <1>1, Distinct, Arriving DEF Types, OnSocket, serverVars, Course, Handled, Carried, Answered, Before, After
  <2>4. Forwarding(c)'
    BY <1>1, Distinct, Arriving, RingAssumption DEF Types, OnSocket, serverVars, Course, Handled, Carried, Answered, Forwarding, Before, After
  <2>5. Gone(c)'
    BY <1>1, Distinct, Arriving DEF Types, OnSocket, serverVars, Course, Handled, Carried, Gone, Before, After
  <2> QED
    BY <2>1, <2>2, <2>3, <2>4, <2>5 DEF Course
<1>4. \A d \in Clients \ {c} : Still(d)
  BY <1>1 DEF Types, Still, OnSocket, serverVars
<1> QED
  BY <1>2, <1>3, <1>4, OneClient DEF OnSocket, serverVars

\* The answer is applied.
LEMMA AnswerAppliedKeeps ==
  ASSUME Courses, NEW c \in Clients, AnswerApplied(c)
  PROVE  Courses'
<1>1. Types /\ Course(c)
  BY DEF Courses
<1>2. Types'
  BY <1>1, Arriving DEF Types, AnswerApplied, serverVars, Course, Handled, Carried, Before, After
<1>3. Course(c)'
  <2>1. Handled(c)'
    BY <1>1, Distinct, Arriving DEF Types, AnswerApplied, serverVars, Course, Handled, Carried, Answered, Before, After
  <2>2. Carried(c)'
    BY <1>1, Distinct, Arriving DEF Types, AnswerApplied, serverVars, Course, Handled, Carried, Answered, Before, After
  <2>3. Answered(c)'
    BY <1>1, Distinct, Arriving DEF Types, AnswerApplied, serverVars, Course, Handled, Carried, Answered, Before, After
  <2>4. Forwarding(c)'
    BY <1>1, Distinct, Arriving, RingAssumption DEF Types, AnswerApplied, serverVars, Course, Handled, Carried, Answered, Forwarding, Before, After
  <2>5. Gone(c)'
    BY <1>1, Distinct, Arriving DEF Types, AnswerApplied, serverVars, Course, Handled, Carried, Gone, Before, After
  <2> QED
    BY <2>1, <2>2, <2>3, <2>4, <2>5 DEF Course
<1>4. \A d \in Clients \ {c} : Still(d)
  BY <1>1 DEF Types, Still, AnswerApplied, serverVars
<1> QED
  BY <1>2, <1>3, <1>4, OneClient DEF AnswerApplied, serverVars

\* Nothing was forwarded before.
LEMMA ConnectKeeps ==
  ASSUME Courses, NEW c \in Clients, Connect(c)
  PROVE  Courses'
<1>1. Types /\ Course(c)
  BY DEF Courses
<1>2. Types'
  BY <1>1, Arriving DEF Types, Connect, serverVars, Course, Handled, Carried, Before, After
<1>3. Course(c)'
  <2>1. Handled(c)'
    BY <1>1, Distinct, Arriving DEF Types, Connect, serverVars, Course, Handled, Carried, Answered, Before, After
  <2>2. Carried(c)'
    BY <1>1, Distinct, Arriving DEF Types, Connect, serverVars, Course, Handled, Carried, Answered, Before, After
  <2>3. Answered(c)'
    BY <1>1, Distinct, Arriving DEF Types, Connect, serverVars, Course, Handled, Carried, Answered, Before, After
  <2>4. Forwarding(c)'
    BY <1>1, Distinct, Arriving, RingAssumption DEF Types, Connect, serverVars, Course, Handled, Carried, Answered, Forwarding, Before, After
  <2>5. Gone(c)'
    BY <1>1, Distinct, Arriving DEF Types, Connect, serverVars, Course, Handled, Carried, Gone, Before, After
  <2> QED
    BY <2>1, <2>2, <2>3, <2>4, <2>5 DEF Course
<1>4. \A d \in Clients \ {c} : Still(d)
  BY <1>1 DEF Types, Still, Connect, serverVars
<1> QED
  BY <1>2, <1>3, <1>4, OneClient DEF Connect, serverVars

\* A page that fails before it has answered never answers.
LEMMA FailedKeeps ==
  ASSUME Courses, NEW c \in Clients, Failed(c)
  PROVE  Courses'
<1>1. Types /\ Course(c)
  BY DEF Courses
<1>2. Types'
  BY <1>1, Arriving DEF Types, Failed, Verdict, serverVars, Course, Handled, Carried, Before, After
<1>3. Course(c)'
  <2>1. Handled(c)'
    BY <1>1, Distinct, Arriving DEF Types, Failed, Verdict, serverVars, Course, Handled, Carried, Answered, Before, After
  <2>2. Carried(c)'
    BY <1>1, Distinct, Arriving DEF Types, Failed, Verdict, serverVars, Course, Handled, Carried, Answered, Before, After
  <2>3. Answered(c)'
    BY <1>1, Distinct, Arriving DEF Types, Failed, Verdict, serverVars, Course, Handled, Carried, Answered, Before, After
  <2>4. Forwarding(c)'
    BY <1>1, Distinct, Arriving, RingAssumption DEF Types, Failed, Verdict, serverVars, Course, Handled, Carried, Answered, Forwarding, Before, After
  <2>5. Gone(c)'
    BY <1>1, Distinct, Arriving DEF Types, Failed, Verdict, serverVars, Course, Handled, Carried, Gone, Before, After
  <2> QED
    BY <2>1, <2>2, <2>3, <2>4, <2>5 DEF Course
<1>4. \A d \in Clients \ {c} : Still(d)
  BY <1>1 DEF Types, Still, Failed, Verdict, serverVars
<1> QED
  BY <1>2, <1>3, <1>4, OneClient DEF Failed, serverVars

LEMMA OpenedKeeps ==
  ASSUME Courses, NEW c \in Clients, Opened(c)
  PROVE  Courses'
<1>1. Types /\ Course(c)
  BY DEF Courses
<1>2. Types'
  BY <1>1, Arriving DEF Types, Opened, At, serverVars, Course, Handled, Carried, Before, After
<1>3. Course(c)'
  <2>1. Handled(c)'
    BY <1>1, Distinct, Arriving DEF Types, Opened, At, serverVars, Course, Handled, Carried, Answered, Before, After
  <2>2. Carried(c)'
    BY <1>1, Distinct, Arriving DEF Types, Opened, At, serverVars, Course, Handled, Carried, Answered, Before, After
  <2>3. Answered(c)'
    BY <1>1, Distinct, Arriving DEF Types, Opened, At, serverVars, Course, Handled, Carried, Answered, Before, After
  <2>4. Forwarding(c)'
    BY <1>1, Distinct, Arriving, RingAssumption DEF Types, Opened, At, serverVars, Course, Handled, Carried, Answered, Forwarding, Before, After
  <2>5. Gone(c)'
    BY <1>1, Distinct, Arriving DEF Types, Opened, At, serverVars, Course, Handled, Carried, Gone, Before, After
  <2> QED
    BY <2>1, <2>2, <2>3, <2>4, <2>5 DEF Course
<1>4. \A d \in Clients \ {c} : Still(d)
  BY <1>1 DEF Types, Still, Opened, At, serverVars
<1> QED
  BY <1>2, <1>3, <1>4, OneClient DEF Opened, serverVars

\* The offer comes from a handler that listens.
LEMMA OnMessageKeeps ==
  ASSUME Courses, NEW c \in Clients, OnMessage(c)
  PROVE  Courses'
<1>1. Types /\ Course(c)
  BY DEF Courses
<1>2. Types'
  BY <1>1, Arriving DEF Types, OnMessage, serverVars, Course, Handled, Carried, Before, After
<1>3. Course(c)'
  <2>1. Handled(c)'
    BY <1>1, Distinct, Arriving DEF Types, OnMessage, serverVars, Course, Handled, Carried, Answered, Before, After
  <2>2. Carried(c)'
    BY <1>1, Distinct, Arriving DEF Types, OnMessage, serverVars, Course, Handled, Carried, Answered, Before, After
  <2>3. Answered(c)'
    BY <1>1, Distinct, Arriving DEF Types, OnMessage, serverVars, Course, Handled, Carried, Answered, Before, After
  <2>4. Forwarding(c)'
    BY <1>1, Distinct, Arriving, RingAssumption DEF Types, OnMessage, serverVars, Course, Handled, Carried, Answered, Forwarding, Before, After
  <2>5. Gone(c)'
    BY <1>1, Distinct, Arriving DEF Types, OnMessage, serverVars, Course, Handled, Carried, Gone, Before, After
  <2> QED
    BY <2>1, <2>2, <2>3, <2>4, <2>5 DEF Course
<1>4. \A d \in Clients \ {c} : Still(d)
  BY <1>1 DEF Types, Still, OnMessage, serverVars
<1> QED
  BY <1>2, <1>3, <1>4, OneClient DEF OnMessage, serverVars

LEMMA DescribeKeeps ==
  ASSUME Courses, NEW c \in Clients, Describe(c)
  PROVE  Courses'
<1>1. Types /\ Course(c)
  BY DEF Courses
<1>2. Types'
  BY <1>1, Arriving DEF Types, Describe, At, serverVars, Course, Handled, Carried, Before, After
<1>3. Course(c)'
  <2>1. Handled(c)'
    BY <1>1, Distinct, Arriving DEF Types, Describe, At, serverVars, Course, Handled, Carried, Answered, Before, After
  <2>2. Carried(c)'
    BY <1>1, Distinct, Arriving DEF Types, Describe, At, serverVars, Course, Handled, Carried, Answered, Before, After
  <2>3. Answered(c)'
    BY <1>1, Distinct, Arriving DEF Types, Describe, At, serverVars, Course, Handled, Carried, Answered, Before, After
  <2>4. Forwarding(c)'
    BY <1>1, Distinct, Arriving, RingAssumption DEF Types, Describe, At, serverVars, Course, Handled, Carried, Answered, Forwarding, Before, After
  <2>5. Gone(c)'
    BY <1>1, Distinct, Arriving DEF Types, Describe, At, serverVars, Course, Handled, Carried, Gone, Before, After
  <2> QED
    BY <2>1, <2>2, <2>3, <2>4, <2>5 DEF Course
<1>4. \A d \in Clients \ {c} : Still(d)
  BY <1>1 DEF Types, Still, Describe, At, serverVars
<1> QED
  BY <1>2, <1>3, <1>4, OneClient DEF Describe, serverVars

\* The page answers once.
LEMMA SendAnswerKeeps ==
  ASSUME Courses, NEW c \in Clients, SendAnswer(c)
  PROVE  Courses'
<1>1. Types /\ Course(c)
  BY DEF Courses
<1>2. Types'
  BY <1>1, Arriving DEF Types, SendAnswer, At, serverVars, Course, Handled, Carried, Before, After
<1>3. Course(c)'
  <2>1. Handled(c)'
    BY <1>1, Distinct, Arriving DEF Types, SendAnswer, At, serverVars, Course, Handled, Carried, Answered, Before, After
  <2>2. Carried(c)'
    BY <1>1, Distinct, Arriving DEF Types, SendAnswer, At, serverVars, Course, Handled, Carried, Answered, Before, After
  <2>3. Answered(c)'
    BY <1>1, Distinct, Arriving DEF Types, SendAnswer, At, serverVars, Course, Handled, Carried, Answered, Before, After
  <2>4. Forwarding(c)'
    BY <1>1, Distinct, Arriving, RingAssumption DEF Types, SendAnswer, At, serverVars, Course, Handled, Carried, Answered, Forwarding, Before, After
  <2>5. Gone(c)'
    BY <1>1, Distinct, Arriving DEF Types, SendAnswer, At, serverVars, Course, Handled, Carried, Gone, Before, After
  <2> QED
    BY <2>1, <2>2, <2>3, <2>4, <2>5 DEF Course
<1>4. \A d \in Clients \ {c} : Still(d)
  BY <1>1 DEF Types, Still, SendAnswer, At, serverVars
<1> QED
  BY <1>2, <1>3, <1>4, OneClient DEF SendAnswer, serverVars

\* A packet on the way becomes a frame, or part of one.
LEMMA FrameKeeps ==
  ASSUME Courses, NEW c \in Clients, Frame(c)
  PROVE  Courses'
<1>1. Types /\ Course(c)
  BY DEF Courses
<1>2. Types'
  BY <1>1, Arriving DEF Types, Frame, Shown, serverVars, Course, Handled, Carried, Before, After
<1>3. Course(c)'
  <2>1. Handled(c)'
    BY <1>1, Distinct, Arriving DEF Types, Frame, Shown, serverVars, Course, Handled, Carried, Answered, Before, After
  <2>2. Carried(c)'
    BY <1>1, Distinct, Arriving DEF Types, Frame, Shown, serverVars, Course, Handled, Carried, Answered, Before, After
  <2>3. Answered(c)'
    BY <1>1, Distinct, Arriving DEF Types, Frame, Shown, serverVars, Course, Handled, Carried, Answered, Before, After
  <2>4. Forwarding(c)'
    BY <1>1, Distinct, Arriving, RingAssumption DEF Types, Frame, Shown, serverVars, Course, Handled, Carried, Answered, Forwarding, Before, After
  <2>5. Gone(c)'
    BY <1>1, Distinct, Arriving DEF Types, Frame, Shown, serverVars, Course, Handled, Carried, Gone, Before, After
  <2> QED
    BY <2>1, <2>2, <2>3, <2>4, <2>5 DEF Course
<1>4. \A d \in Clients \ {c} : Still(d)
  BY <1>1 DEF Types, Still, Frame, Shown, serverVars
<1> QED
  BY <1>2, <1>3, <1>4, OneClient DEF Frame, serverVars

LEMMA VideoAwaitedKeeps ==
  ASSUME Courses, NEW c \in Clients, VideoAwaited(c)
  PROVE  Courses'
<1>1. Types /\ Course(c)
  BY DEF Courses
<1>2. Types'
  BY <1>1, Arriving DEF Types, VideoAwaited, At, Verdict, serverVars, Course, Handled, Carried, Before, After
<1>3. Course(c)'
  <2>1. Handled(c)'
    BY <1>1, Distinct, Arriving DEF Types, VideoAwaited, At, Verdict, serverVars, Course, Handled, Carried, Answered, Before, After
  <2>2. Carried(c)'
    BY <1>1, Distinct, Arriving DEF Types, VideoAwaited, At, Verdict, serverVars, Course, Handled, Carried, Answered, Before, After
  <2>3. Answered(c)'
    BY <1>1, Distinct, Arriving DEF Types, VideoAwaited, At, Verdict, serverVars, Course, Handled, Carried, Answered, Before, After
  <2>4. Forwarding(c)'
    BY <1>1, Distinct, Arriving, RingAssumption DEF Types, VideoAwaited, At, Verdict, serverVars, Course, Handled, Carried, Answered, Forwarding, Before, After
  <2>5. Gone(c)'
    BY <1>1, Distinct, Arriving DEF Types, VideoAwaited, At, Verdict, serverVars, Course, Handled, Carried, Gone, Before, After
  <2> QED
    BY <2>1, <2>2, <2>3, <2>4, <2>5 DEF Course
<1>4. \A d \in Clients \ {c} : Still(d)
  BY <1>1 DEF Types, Still, VideoAwaited, At, Verdict, serverVars
<1> QED
  BY <1>2, <1>3, <1>4, OneClient DEF VideoAwaited, serverVars

LEMMA ReportKeeps ==
  ASSUME Courses, NEW c \in Clients, Report(c)
  PROVE  Courses'
<1>1. Types /\ Course(c)
  BY DEF Courses
<1>2. Types'
  BY <1>1, Arriving DEF Types, Report, At, Verdict, serverVars, Course, Handled, Carried, Before, After
<1>3. Course(c)'
  <2>1. Handled(c)'
    BY <1>1, Distinct, Arriving DEF Types, Report, At, Verdict, serverVars, Course, Handled, Carried, Answered, Before, After
  <2>2. Carried(c)'
    BY <1>1, Distinct, Arriving DEF Types, Report, At, Verdict, serverVars, Course, Handled, Carried, Answered, Before, After
  <2>3. Answered(c)'
    BY <1>1, Distinct, Arriving DEF Types, Report, At, Verdict, serverVars, Course, Handled, Carried, Answered, Before, After
  <2>4. Forwarding(c)'
    BY <1>1, Distinct, Arriving, RingAssumption DEF Types, Report, At, Verdict, serverVars, Course, Handled, Carried, Answered, Forwarding, Before, After
  <2>5. Gone(c)'
    BY <1>1, Distinct, Arriving DEF Types, Report, At, Verdict, serverVars, Course, Handled, Carried, Gone, Before, After
  <2> QED
    BY <2>1, <2>2, <2>3, <2>4, <2>5 DEF Course
<1>4. \A d \in Clients \ {c} : Still(d)
  BY <1>1 DEF Types, Still, Report, At, Verdict, serverVars
<1> QED
  BY <1>2, <1>3, <1>4, OneClient DEF Report, serverVars

\* The page closes, and its close is the last message.
LEMMA ClosePageKeeps ==
  ASSUME Courses, NEW c \in Clients, ClosePage(c)
  PROVE  Courses'
<1>1. Types /\ Course(c)
  BY DEF Courses
<1>2. Types'
  BY <1>1, Arriving DEF Types, ClosePage, serverVars, Course, Handled, Carried, Before, After
<1>3. Course(c)'
  <2>1. Handled(c)'
    BY <1>1, Distinct, Arriving DEF Types, ClosePage, serverVars, Course, Handled, Carried, Answered, Before, After
  <2>2. Carried(c)'
    BY <1>1, Distinct, Arriving DEF Types, ClosePage, serverVars, Course, Handled, Carried, Answered, Before, After
  <2>3. Answered(c)'
    BY <1>1, Distinct, Arriving DEF Types, ClosePage, serverVars, Course, Handled, Carried, Answered, Before, After
  <2>4. Forwarding(c)'
    BY <1>1, Distinct, Arriving, RingAssumption DEF Types, ClosePage, serverVars, Course, Handled, Carried, Answered, Forwarding, Before, After
  <2>5. Gone(c)'
    BY <1>1, Distinct, Arriving DEF Types, ClosePage, serverVars, Course, Handled, Carried, Gone, Before, After
  <2> QED
    BY <2>1, <2>2, <2>3, <2>4, <2>5 DEF Course
<1>4. \A d \in Clients \ {c} : Still(d)
  BY <1>1 DEF Types, Still, ClosePage, serverVars
<1> QED
  BY <1>2, <1>3, <1>4, OneClient DEF ClosePage, serverVars

-----------------------------------------------------------------------------
(* The theorems *)

LEMMA StutterKeeps ==
  ASSUME Courses, UNCHANGED vars
  PROVE  Courses'
  BY DEF vars, serverVars, clientVars, Courses, Types, Course, Handled, Carried, Answered, Forwarding, Gone

LEMMA CoursesKept ==
  ASSUME Courses, [Next]_vars
  PROVE  Courses'
<1>1. CASE UNCHANGED vars
  BY <1>1, StutterKeeps
<1>2. CASE Next
  BY <1>2, StartKeeps, OnVideoRtpKeeps, CrashKeeps, ServePageKeeps, OnConnectionKeeps,
     SendOfferKeeps, OnSocketKeeps, AnswerAppliedKeeps, ConnectKeeps, FailedKeeps, OpenedKeeps,
     OnMessageKeeps, DescribeKeeps, SendAnswerKeeps, FrameKeeps, VideoAwaitedKeeps, ReportKeeps,
     ClosePageKeeps
  DEF Next, ServerStep, PageStep
<1> QED
  BY <1>1, <1>2

\* Page, handler, peer connection and socket of a client never leave the course
\* that the code means them to take.
LEMMA AlwaysOnCourse == Spec => []Courses
<1>1. Init => Courses
  BY InitiallyOnCourse
<1>2. Courses /\ [Next]_vars => Courses'
  BY CoursesKept
<1> QED
  BY <1>1, <1>2, PTL DEF Spec

\* A page says success only after the server has applied its answer and the
\* camera's packets reached it in more than EnoughFrames frames.
THEOREM SuccessAlwaysEarned == Spec => []SuccessIsEarned
<1>1. Courses => SuccessIsEarned
  <2> SUFFICES ASSUME Courses, NEW c \in Clients, result[c] = "success"
               PROVE  pc[c] \in {"connected", "closed"} /\ frames[c] > EnoughFrames /\ packets > EnoughFrames
    BY DEF SuccessIsEarned
  <2>1. Types /\ Forwarding(c)
    BY DEF Courses, Course
  <2>2. frames[c] \in Nat /\ forwarded[c] \in Nat /\ packets \in Nat
    BY <2>1 DEF Types
  <2>3. frames[c] > EnoughFrames /\ frames[c] + forwarded[c] <= packets
    BY <2>1 DEF Forwarding
  <2>4. frames[c] > 0 /\ packets > EnoughFrames
    BY <2>2, <2>3, RingAssumption
  <2> QED
    BY <2>1, <2>3, <2>4 DEF Forwarding
<1> QED
  BY <1>1, AlwaysOnCourse, PTL

\* No answer is missed however fast the page is: a client of which a message
\* met no listener has gone while its offer was being made.
THEOREM NothingIsEverMissed == Spec => []NothingIsMissed
<1>1. Courses => NothingIsMissed
  BY DEF Courses, Types, Course, Gone, NothingIsMissed
<1> QED
  BY <1>1, AlwaysOnCourse, PTL
=============================================================================
