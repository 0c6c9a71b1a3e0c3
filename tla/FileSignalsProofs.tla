-------------------------- MODULE FileSignalsProofs --------------------------
(***************************************************************************)
(* FileSignals for any number of candidates and of overlapping ticks: the  *)
(* lengths that the pollers note as processed are those of lines that they *)
(* have added, and a directory that was clean when the answerer started    *)
(* never makes the two ends describe different calls.                      *)
(***************************************************************************)
EXTENDS FileSignals, TLAPS

-----------------------------------------------------------------------------
(* Sequences of ticks *)

\* What is left of a sequence is part of what there was.
LEMMA RemoveAtFacts ==
  ASSUME NEW S, NEW s \in Seq(S), NEW i \in DOMAIN s
  PROVE  /\ RemoveAt(s, i) \in Seq(S) /\ Len(RemoveAt(s, i)) = Len(s) - 1
         /\ \A k \in DOMAIN RemoveAt(s, i) : \E j \in DOMAIN s : RemoveAt(s, i)[k] = s[j]
<1>0. i \in 1..Len(s) /\ Len(s) \in Nat
  OBVIOUS
<1> DEFINE head == SubSeq(s, 1, i - 1)
           tail == SubSeq(s, i + 1, Len(s))
<1>1. /\ head \in Seq(S) /\ Len(head) = i - 1
      /\ \A k \in 1..(i - 1) : head[k] = s[k]
  OBVIOUS
<1>2. /\ tail \in Seq(S) /\ Len(tail) = Len(s) - i
      /\ \A k \in 1..(Len(s) - i) : tail[k] = s[i + k]
  OBVIOUS
<1>3. RemoveAt(s, i) = head \o tail
  BY DEF RemoveAt
<1> HIDE DEF head, tail
<1>4. /\ head \o tail \in Seq(S) /\ Len(head \o tail) = Len(s) - 1
      /\ \A k \in 1..(Len(s) - 1) :
           (head \o tail)[k] = IF k <= i - 1 THEN head[k] ELSE tail[k - (i - 1)]
  BY <1>1, <1>2
<1>5. ASSUME NEW k \in 1..(Len(s) - 1)
      PROVE  \E j \in DOMAIN s : (head \o tail)[k] = s[j]
  <2>1. CASE k <= i - 1
    BY <2>1, <1>1, <1>4
  <2>2. CASE k > i - 1
    <3>1. k - (i - 1) \in 1..(Len(s) - i) /\ i + (k - (i - 1)) \in DOMAIN s
      BY <2>2
    <3>2. (head \o tail)[k] = s[i + (k - (i - 1))]
      BY <3>1, <2>2, <1>2, <1>4
    <3> QED
      BY <3>1, <3>2
  <2>3. k <= i - 1 \/ k > i - 1
    BY <1>0
  <2> QED
    BY <2>1, <2>2, <2>3
<1>6. DOMAIN (head \o tail) = 1..(Len(s) - 1)
  BY <1>4, <1>0
<1> QED
  BY <1>3, <1>4, <1>5, <1>6

-----------------------------------------------------------------------------
(* The invariants *)

Lines == {"old", "new"} \X Nat
TickRecords == [run : {"old", "new"}, size : Nat, lines : Nat, next : Nat]

\* The variables have their types.
Types ==
  /\ script \in {"js", "ts"} /\ offer \in Contents /\ answer \in Contents
  /\ lines \in [Ends -> Nat] /\ half \in [Ends -> BOOLEAN]
  /\ dart \in {"start", "cleaned", "create", "local", "offer", "waiting", "settling", "remote",
               "talking", "reported", "failed"}
  /\ js \in {"off", "watching", "settling", "remote", "create", "local", "answer", "ready", "exited"}
  /\ remote \in [Ends -> Runs] /\ polling \in [Ends -> BOOLEAN]
  /\ lastSize \in [Ends -> Nat] /\ ticks \in [Ends -> Seq(TickRecords)]
  /\ added \in [Ends -> SUBSET Lines] /\ sizeRun \in [Ends -> {"old", "new"}]
  /\ connected \in BOOLEAN /\ early \in BOOLEAN

\* A description is read and answered only when there is one.
Described ==
  /\ js \in {"remote", "create", "local", "answer", "ready"} => remote["js"] # "none"
  /\ dart = "settling" => answer # "absent"

\* Half a line is written only where a line may follow.
Bounded(end) ==
  /\ lines[end] <= MaxLines(end)
  /\ half[end] => lines[end] < MaxLines(end)

\* The length that a tick has read is that of its lines, or half a line more, and
\* every line before its next one is among those given to the peer connection.
TickIsSound(end, tick, given) ==
  /\ tick.size <= 2 * tick.lines + 1 /\ tick.lines <= MaxLines(Peer(end))
  /\ tick.next >= 1 /\ tick.next <= tick.lines + 1
  /\ \A n \in 1..MaxLines(Peer(end)) : n < tick.next => <<tick.run, n>> \in given

Polled(end) ==
  /\ Len(ticks[end]) <= MaxTicks
  /\ \A i \in DOMAIN ticks[end] : TickIsSound(end, ticks[end][i], added[end])
  /\ added[end] \subseteq {"old", "new"} \X (1..MaxLines(Peer(end)))
  /\ lastSize[end] <= 2 * MaxLines(Peer(end)) + 1
  /\ \A n \in 1..MaxLines(Peer(end)) :
        2 * n <= lastSize[end] => <<sizeRun[end], n>> \in added[end]

\* Before the offerer has cleaned up, an answerer that was not started early finds
\* no offer; afterwards there is nothing of an earlier run.
FreshOrEarly ==
  /\ early => js # "off"
  /\ dart = "start" => offer \in {"absent", "old"} /\ remote["dart"] = "none"
  /\ ~early =>
       /\ remote["dart"] # "old" /\ remote["js"] # "old"
       /\ dart = "start" => js = "off" \/ (js = "watching" /\ offer = "absent")
       /\ dart # "start" => offer # "old" /\ answer # "old"

Course == Types /\ Described /\ FreshOrEarly /\ \A end \in Ends : Bounded(end) /\ Polled(end)

LEMMA TwoEnds ==
  /\ \A end \in Ends : Peer(end) \in Ends /\ MaxLines(end) \in Nat
  /\ "dart" \in Ends /\ "js" \in Ends /\ MaxTicks \in Nat \ {0}
  BY SignalsAssumption DEF Ends, Peer, MaxLines

LEMMA InitiallyOnCourse == Init => Course
<1> SUFFICES ASSUME Init
             PROVE  Course
  OBVIOUS
<1>1. Types
  <2>1. ticks \in [Ends -> Seq(TickRecords)]
    BY DEF Init
  <2>2. added \in [Ends -> SUBSET Lines] /\ sizeRun \in [Ends -> {"old", "new"}]
    BY DEF Init
  <2>3. /\ remote \in [Ends -> Runs] /\ polling \in [Ends -> BOOLEAN] /\ lastSize \in [Ends -> Nat]
        /\ half \in [Ends -> BOOLEAN]
    BY DEF Init, Runs
  <2>4. lines \in [Ends -> Nat]
    BY SignalsAssumption DEF Init
  <2> QED
    BY <2>1, <2>2, <2>3, <2>4 DEF Init, Types, Contents
<1>2. Described /\ FreshOrEarly
  BY TwoEnds DEF Init, Described, FreshOrEarly
<1>3. ASSUME NEW end \in Ends
      PROVE  Bounded(end) /\ Polled(end)
  <2>1. /\ half[end] = FALSE /\ ticks[end] = << >> /\ added[end] = {} /\ lastSize[end] = 0
        /\ lines[end] <= MaxLines(end)
    BY DEF Init
  <2>2. MaxLines(end) \in Nat /\ MaxLines(Peer(end)) \in Nat
    BY TwoEnds
  <2> QED
    BY <2>1, <2>2, TwoEnds DEF Bounded, Polled
<1> QED
  BY <1>1, <1>2, <1>3 DEF Course

-----------------------------------------------------------------------------
(* Steps that touch neither poller *)

\* What a poller has read does not depend on the rest.
LEMMA PolledKept ==
  ASSUME NEW end \in Ends, Polled(end), UNCHANGED <<lastSize, sizeRun, ticks, added>>
  PROVE  Polled(end)'
  BY DEF Polled, TickIsSound

LEMMA BoundedKept ==
  ASSUME NEW end \in Ends, Bounded(end), UNCHANGED <<lines, half>>
  PROVE  Bounded(end)'
  BY DEF Bounded

\* The files of an earlier run are gone.
LEMMA CleanKeeps ==
  ASSUME Course, Clean
  PROVE  Course'
<1>1. /\ Types /\ Described /\ FreshOrEarly
      /\ \A end \in Ends : Bounded(end) /\ Polled(end)
  BY DEF Course
<1>2. Types'
  BY <1>1, TwoEnds DEF Clean, Dart, Types, Described, Contents, Runs, files, polls
<1>3. Described' /\ FreshOrEarly'
  BY <1>1, TwoEnds DEF Clean, Dart, Types, Described, FreshOrEarly, Contents, Runs, files
<1>4. ASSUME NEW end \in Ends
      PROVE  Bounded(end)' /\ Polled(end)'
  <2>1. Bounded(end)'
    BY TwoEnds DEF Clean, Bounded
  <2>2. Polled(end)'
    BY <1>1, PolledKept DEF Clean, polls
  <2> QED
    BY <2>1, <2>2
<1> QED
  BY <1>2, <1>3, <1>4 DEF Course

LEMMA CreateOfferKeeps ==
  ASSUME Course, CreateOffer
  PROVE  Course'
<1>1. /\ Types /\ Described /\ FreshOrEarly
      /\ \A end \in Ends : Bounded(end) /\ Polled(end)
  BY DEF Course
<1>2. Types'
  BY <1>1, TwoEnds DEF CreateOffer, Dart, Types, Described, Contents, Runs, files, polls
<1>3. Described' /\ FreshOrEarly'
  BY <1>1, TwoEnds DEF CreateOffer, Dart, Types, Described, FreshOrEarly, Contents, Runs, files
<1>4. ASSUME NEW end \in Ends
      PROVE  Bounded(end)' /\ Polled(end)'
  <2>1. Bounded(end)'
    BY <1>1, BoundedKept DEF CreateOffer, files
  <2>2. Polled(end)'
    BY <1>1, PolledKept DEF CreateOffer, polls
  <2> QED
    BY <2>1, <2>2
<1> QED
  BY <1>2, <1>3, <1>4 DEF Course

LEMMA WriteOfferKeeps ==
  ASSUME Course, WriteOffer
  PROVE  Course'
<1>1. /\ Types /\ Described /\ FreshOrEarly
      /\ \A end \in Ends : Bounded(end) /\ Polled(end)
  BY DEF Course
<1>2. Types'
  BY <1>1, TwoEnds DEF WriteOffer, Dart, Types, Described, Contents, Runs, files, polls
<1>3. Described' /\ FreshOrEarly'
  BY <1>1, TwoEnds DEF WriteOffer, Dart, Types, Described, FreshOrEarly, Contents, Runs, files
<1>4. ASSUME NEW end \in Ends
      PROVE  Bounded(end)' /\ Polled(end)'
  <2>1. Bounded(end)'
    BY <1>1, BoundedKept DEF WriteOffer, files
  <2>2. Polled(end)'
    BY <1>1, PolledKept DEF WriteOffer, polls
  <2> QED
    BY <2>1, <2>2
<1> QED
  BY <1>2, <1>3, <1>4 DEF Course

\* The answer that is read is there.
LEMMA WaitForAnswerKeeps ==
  ASSUME Course, WaitForAnswer
  PROVE  Course'
<1>1. /\ Types /\ Described /\ FreshOrEarly
      /\ \A end \in Ends : Bounded(end) /\ Polled(end)
  BY DEF Course
<1>2. Types'
  BY <1>1, TwoEnds DEF WaitForAnswer, Dart, Types, Described, Contents, Runs, files, polls
<1>3. Described' /\ FreshOrEarly'
  BY <1>1, TwoEnds DEF WaitForAnswer, Dart, Types, Described, FreshOrEarly, Contents, Runs, files
<1>4. ASSUME NEW end \in Ends
      PROVE  Bounded(end)' /\ Polled(end)'
  <2>1. Bounded(end)'
    BY <1>1, BoundedKept DEF WaitForAnswer, files
  <2>2. Polled(end)'
    BY <1>1, PolledKept DEF WaitForAnswer, polls
  <2> QED
    BY <2>1, <2>2
<1> QED
  BY <1>2, <1>3, <1>4 DEF Course

LEMMA AnswerSetKeeps ==
  ASSUME Course, AnswerSet
  PROVE  Course'
<1>1. /\ Types /\ Described /\ FreshOrEarly
      /\ \A end \in Ends : Bounded(end) /\ Polled(end)
  BY DEF Course
<1>2. Types'
  BY <1>1, TwoEnds DEF AnswerSet, Dart, Types, Described, Contents, Runs, files, polls
<1>3. Described' /\ FreshOrEarly'
  BY <1>1, TwoEnds DEF AnswerSet, Dart, Types, Described, FreshOrEarly, Contents, Runs, files
<1>4. ASSUME NEW end \in Ends
      PROVE  Bounded(end)' /\ Polled(end)'
  <2>1. Bounded(end)'
    BY <1>1, BoundedKept DEF AnswerSet, files
  <2>2. Polled(end)'
    BY <1>1, PolledKept DEF AnswerSet, polls
  <2> QED
    BY <2>1, <2>2
<1> QED
  BY <1>2, <1>3, <1>4 DEF Course

LEMMA FailKeeps ==
  ASSUME Course, Fail
  PROVE  Course'
<1>1. /\ Types /\ Described /\ FreshOrEarly
      /\ \A end \in Ends : Bounded(end) /\ Polled(end)
  BY DEF Course
<1>2. Types'
  BY <1>1, TwoEnds DEF Fail, Dart, Types, Described, Contents, Runs, files, polls
<1>3. Described' /\ FreshOrEarly'
  BY <1>1, TwoEnds DEF Fail, Dart, Types, Described, FreshOrEarly, Contents, Runs, files
<1>4. ASSUME NEW end \in Ends
      PROVE  Bounded(end)' /\ Polled(end)'
  <2>1. Bounded(end)'
    BY <1>1, BoundedKept DEF Fail, files
  <2>2. Polled(end)'
    BY <1>1, PolledKept DEF Fail, polls
  <2> QED
    BY <2>1, <2>2
<1> QED
  BY <1>2, <1>3, <1>4 DEF Course

LEMMA ReportKeeps ==
  ASSUME Course, Report
  PROVE  Course'
<1>1. /\ Types /\ Described /\ FreshOrEarly
      /\ \A end \in Ends : Bounded(end) /\ Polled(end)
  BY DEF Course
<1>2. Types'
  BY <1>1, TwoEnds DEF Report, Dart, Types, Described, Contents, Runs, files, polls
<1>3. Described' /\ FreshOrEarly'
  BY <1>1, TwoEnds DEF Report, Dart, Types, Described, FreshOrEarly, Contents, Runs, files
<1>4. ASSUME NEW end \in Ends
      PROVE  Bounded(end)' /\ Polled(end)'
  <2>1. Bounded(end)'
    BY <1>1, BoundedKept DEF Report, files
  <2>2. Polled(end)'
    BY <1>1, PolledKept DEF Report, polls
  <2> QED
    BY <2>1, <2>2
<1> QED
  BY <1>2, <1>3, <1>4 DEF Course

\* An answerer that is not early finds no offer before the cleaning.
LEMMA StartAnswererKeeps ==
  ASSUME Course, StartAnswerer
  PROVE  Course'
<1>1. /\ Types /\ Described /\ FreshOrEarly
      /\ \A end \in Ends : Bounded(end) /\ Polled(end)
  BY DEF Course
<1>2. Types'
  BY <1>1, TwoEnds DEF StartAnswerer, Js, Types, Described, Contents, Runs, files, polls
<1>3. Described' /\ FreshOrEarly'
  BY <1>1, TwoEnds DEF StartAnswerer, Js, Types, Described, FreshOrEarly, Contents, Runs, files
<1>4. ASSUME NEW end \in Ends
      PROVE  Bounded(end)' /\ Polled(end)'
  <2>1. Bounded(end)'
    BY <1>1, BoundedKept DEF StartAnswerer, files
  <2>2. Polled(end)'
    BY <1>1, PolledKept DEF StartAnswerer, polls
  <2> QED
    BY <2>1, <2>2
<1> QED
  BY <1>2, <1>3, <1>4 DEF Course

LEMMA CheckOfferKeeps ==
  ASSUME Course, CheckOffer
  PROVE  Course'
<1>1. /\ Types /\ Described /\ FreshOrEarly
      /\ \A end \in Ends : Bounded(end) /\ Polled(end)
  BY DEF Course
<1>2. Types'
  BY <1>1, TwoEnds DEF CheckOffer, Js, ReadOffer, Types, Described, Contents, Runs, files, polls
<1>3. Described' /\ FreshOrEarly'
  BY <1>1, TwoEnds DEF CheckOffer, Js, ReadOffer, Types, Described, FreshOrEarly, Contents, Runs, files
<1>4. ASSUME NEW end \in Ends
      PROVE  Bounded(end)' /\ Polled(end)'
  <2>1. Bounded(end)'
    BY <1>1, BoundedKept DEF CheckOffer, files
  <2>2. Polled(end)'
    BY <1>1, PolledKept DEF CheckOffer, polls
  <2> QED
    BY <2>1, <2>2
<1> QED
  BY <1>2, <1>3, <1>4 DEF Course

LEMMA TsCheckOfferKeeps ==
  ASSUME Course, TsCheckOffer
  PROVE  Course'
<1>1. /\ Types /\ Described /\ FreshOrEarly
      /\ \A end \in Ends : Bounded(end) /\ Polled(end)
  BY DEF Course
<1>2. Types'
  BY <1>1, TwoEnds DEF TsCheckOffer, ReadOffer, Types, Described, Contents, Runs, files, polls
<1>3. Described' /\ FreshOrEarly'
  BY <1>1, TwoEnds DEF TsCheckOffer, ReadOffer, Types, Described, FreshOrEarly, Contents, Runs, files
<1>4. ASSUME NEW end \in Ends
      PROVE  Bounded(end)' /\ Polled(end)'
  <2>1. Bounded(end)'
    BY <1>1, BoundedKept DEF TsCheckOffer, files
  <2>2. Polled(end)'
    BY <1>1, PolledKept DEF TsCheckOffer, polls
  <2> QED
    BY <2>1, <2>2
<1> QED
  BY <1>2, <1>3, <1>4 DEF Course

LEMMA DescribeKeeps ==
  ASSUME Course, Describe
  PROVE  Course'
<1>1. /\ Types /\ Described /\ FreshOrEarly
      /\ \A end \in Ends : Bounded(end) /\ Polled(end)
  BY DEF Course
<1>2. Types'
  BY <1>1, TwoEnds DEF Describe, Js, Types, Described, Contents, Runs, files, polls
<1>3. Described' /\ FreshOrEarly'
  BY <1>1, TwoEnds DEF Describe, Js, Types, Described, FreshOrEarly, Contents, Runs, files
<1>4. ASSUME NEW end \in Ends
      PROVE  Bounded(end)' /\ Polled(end)'
  <2>1. Bounded(end)'
    BY <1>1, BoundedKept DEF Describe, files
  <2>2. Polled(end)'
    BY <1>1, PolledKept DEF Describe, polls
  <2> QED
    BY <2>1, <2>2
<1> QED
  BY <1>2, <1>3, <1>4 DEF Course

\* What is answered is the offer that was read.
LEMMA WriteAnswerKeeps ==
  ASSUME Course, WriteAnswer
  PROVE  Course'
<1>1. /\ Types /\ Described /\ FreshOrEarly
      /\ \A end \in Ends : Bounded(end) /\ Polled(end)
  BY DEF Course
<1>2. Types'
  BY <1>1, TwoEnds DEF WriteAnswer, Js, Types, Described, Contents, Runs, files, polls
<1>3. Described' /\ FreshOrEarly'
  BY <1>1, TwoEnds DEF WriteAnswer, Js, Types, Described, FreshOrEarly, Contents, Runs, files
<1>4. ASSUME NEW end \in Ends
      PROVE  Bounded(end)' /\ Polled(end)'
  <2>1. Bounded(end)'
    BY <1>1, BoundedKept DEF WriteAnswer, files
  <2>2. Polled(end)'
    BY <1>1, PolledKept DEF WriteAnswer, polls
  <2> QED
    BY <2>1, <2>2
<1> QED
  BY <1>2, <1>3, <1>4 DEF Course

LEMMA TsWriteAnswerKeeps ==
  ASSUME Course, TsWriteAnswer
  PROVE  Course'
<1>1. /\ Types /\ Described /\ FreshOrEarly
      /\ \A end \in Ends : Bounded(end) /\ Polled(end)
  BY DEF Course
<1>2. Types'
  BY <1>1, TwoEnds DEF TsWriteAnswer, Js, Types, Described, Contents, Runs, files, polls
<1>3. Described' /\ FreshOrEarly'
  BY <1>1, TwoEnds DEF TsWriteAnswer, Js, Types, Described, FreshOrEarly, Contents, Runs, files
<1>4. ASSUME NEW end \in Ends
      PROVE  Bounded(end)' /\ Polled(end)'
  <2>1. Bounded(end)'
    BY <1>1, BoundedKept DEF TsWriteAnswer, files
  <2>2. Polled(end)'
    BY <1>1, PolledKept DEF TsWriteAnswer, polls
  <2> QED
    BY <2>1, <2>2
<1> QED
  BY <1>2, <1>3, <1>4 DEF Course

LEMMA ExitKeeps ==
  ASSUME Course, Exit
  PROVE  Course'
<1>1. /\ Types /\ Described /\ FreshOrEarly
      /\ \A end \in Ends : Bounded(end) /\ Polled(end)
  BY DEF Course
<1>2. Types'
  BY <1>1, TwoEnds DEF Exit, Js, Types, Described, Contents, Runs, files, polls
<1>3. Described' /\ FreshOrEarly'
  BY <1>1, TwoEnds DEF Exit, Js, Types, Described, FreshOrEarly, Contents, Runs, files
<1>4. ASSUME NEW end \in Ends
      PROVE  Bounded(end)' /\ Polled(end)'
  <2>1. Bounded(end)'
    BY <1>1, BoundedKept DEF Exit, files
  <2>2. Polled(end)'
    BY <1>1, PolledKept DEF Exit, polls
  <2> QED
    BY <2>1, <2>2
<1> QED
  BY <1>2, <1>3, <1>4 DEF Course

LEMMA ConnectKeeps ==
  ASSUME Course, Connect
  PROVE  Course'
<1>1. /\ Types /\ Described /\ FreshOrEarly
      /\ \A end \in Ends : Bounded(end) /\ Polled(end)
  BY DEF Course
<1>2. Types'
  BY <1>1, TwoEnds DEF Connect, Types, Described, Contents, Runs, files, polls
<1>3. Described' /\ FreshOrEarly'
  BY <1>1, TwoEnds DEF Connect, Types, Described, FreshOrEarly, Contents, Runs, files
<1>4. ASSUME NEW end \in Ends
      PROVE  Bounded(end)' /\ Polled(end)'
  <2>1. Bounded(end)'
    BY <1>1, BoundedKept DEF Connect, files
  <2>2. Polled(end)'
    BY <1>1, PolledKept DEF Connect, polls
  <2> QED
    BY <2>1, <2>2
<1> QED
  BY <1>2, <1>3, <1>4 DEF Course

\* A line of a candidate file is begun, and ended.
LEMMA BeginLineKeeps ==
  ASSUME Course, NEW end \in Ends, BeginLine(end)
  PROVE  Course'
<1>1. /\ Types /\ Described /\ FreshOrEarly
      /\ \A e \in Ends : Bounded(e) /\ Polled(e)
  BY DEF Course
<1>2. Types' /\ Described' /\ FreshOrEarly'
  BY <1>1 DEF BeginLine, Types, Described, FreshOrEarly, polls
<1>3. ASSUME NEW e \in Ends
      PROVE  Bounded(e)' /\ Polled(e)'
  <2>1. Bounded(e)'
    BY <1>1 DEF BeginLine, Types, Bounded
  <2>2. Polled(e)'
    BY <1>1, PolledKept DEF BeginLine, polls
  <2> QED
    BY <2>1, <2>2
<1> QED
  BY <1>2, <1>3 DEF Course

LEMMA EndLineKeeps ==
  ASSUME Course, NEW end \in Ends, EndLine(end)
  PROVE  Course'
<1>1. /\ Types /\ Described /\ FreshOrEarly
      /\ \A e \in Ends : Bounded(e) /\ Polled(e)
  BY DEF Course
<1>2. Types' /\ Described' /\ FreshOrEarly'
  BY <1>1 DEF EndLine, Types, Described, FreshOrEarly, polls
<1>3. ASSUME NEW e \in Ends
      PROVE  Bounded(e)' /\ Polled(e)'
  <2>1. Bounded(e)'
    BY <1>1, TwoEnds DEF EndLine, Types, Bounded
  <2>2. Polled(e)'
    BY <1>1, PolledKept DEF EndLine, polls
  <2> QED
    BY <2>1, <2>2
<1> QED
  BY <1>2, <1>3 DEF Course

-----------------------------------------------------------------------------
(* Steps of a poller *)

\* The files, the two programs and the other end's poller stay as they are.
Aside(end) ==
  /\ UNCHANGED <<script, files, dart, js, remote, connected, early>>
  /\ polling' \in [Ends -> BOOLEAN]
  /\ \A e \in Ends \ {end} :
       /\ lastSize'[e] = lastSize[e] /\ sizeRun'[e] = sizeRun[e]
       /\ ticks'[e] = ticks[e] /\ added'[e] = added[e]

LEMMA OnePoller ==
  ASSUME Course, NEW end \in Ends, Aside(end), Polled(end)',
         lastSize' \in [Ends -> Nat], ticks' \in [Ends -> Seq(TickRecords)],
         added' \in [Ends -> SUBSET Lines], sizeRun' \in [Ends -> {"old", "new"}]
  PROVE  Course'
<1>1. /\ Types /\ Described /\ FreshOrEarly
      /\ \A e \in Ends : Bounded(e) /\ Polled(e)
  BY DEF Course
<1>2. Types' /\ Described' /\ FreshOrEarly'
  BY <1>1 DEF Aside, files, Types, Described, FreshOrEarly
<1>3. ASSUME NEW e \in Ends
      PROVE  Bounded(e)'
  BY <1>1 DEF Aside, files, Bounded
<1>4. ASSUME NEW e \in Ends \ {end}
      PROVE  Polled(e)'
  BY <1>1 DEF Aside, Polled, TickIsSound
<1> QED
  BY <1>2, <1>3, <1>4 DEF Course

\* A tick reads whole lines, and perhaps half of another.
LEMMA TickKeeps ==
  ASSUME Course, NEW end \in Ends, Tick(end)
  PROVE  Course'
<1>1. Types /\ Bounded(Peer(end)) /\ Polled(end) /\ Peer(end) \in Ends
  BY TwoEnds DEF Course
<1> DEFINE tick == [run |-> FileRun, size |-> Size(Peer(end)), lines |-> lines[Peer(end)],
                    next |-> 1]
<1>2. tick \in TickRecords /\ TickIsSound(end, tick, added[end])
  <2>1. /\ lines[Peer(end)] \in Nat /\ lines[Peer(end)] <= MaxLines(Peer(end))
        /\ MaxLines(Peer(end)) \in Nat
    BY <1>1, TwoEnds DEF Types, Bounded
  <2>2. /\ Size(Peer(end)) \in Nat /\ Size(Peer(end)) <= 2 * lines[Peer(end)] + 1
    BY <2>1 DEF Size
  <2>3. /\ tick.size = Size(Peer(end)) /\ tick.lines = lines[Peer(end)] /\ tick.next = 1
    OBVIOUS
  <2>4. tick \in TickRecords
    BY <2>1, <2>2 DEF TickRecords, FileRun
  <2> HIDE DEF tick
  <2>5. TickIsSound(end, tick, added[end])
    BY <2>1, <2>2, <2>3 DEF TickIsSound
  <2> QED
    BY <2>4, <2>5
<1>3. CASE Size(Peer(end)) > lastSize[end]
  <2>1. /\ ticks' = [ticks EXCEPT ![end] = Append(@, tick)]
        /\ UNCHANGED <<polling, lastSize, sizeRun, added>> /\ Len(ticks[end]) < MaxTicks
    BY <1>3 DEF Tick
  <2> HIDE DEF tick
  <2>2. ticks[end] \in Seq(TickRecords) /\ Len(ticks[end]) \in Nat
    BY <1>1 DEF Types
  <2>3. ticks'[end] = Append(ticks[end], tick) /\ ticks' \in [Ends -> Seq(TickRecords)]
    BY <2>1, <2>2, <1>1, <1>2 DEF Types
  <2>4. /\ Len(ticks'[end]) = Len(ticks[end]) + 1
        /\ \A i \in DOMAIN ticks'[end] : ticks'[end][i] = tick \/ (i \in DOMAIN ticks[end] /\ ticks'[end][i] = ticks[end][i])
    BY <2>2, <2>3, <1>2
  <2>5. \A i \in DOMAIN ticks'[end] : TickIsSound(end, ticks'[end][i], added[end])
    BY <2>4, <1>1, <1>2 DEF Polled
  <2>6. \A i \in DOMAIN ticks'[end] : TickIsSound(end, ticks'[end][i], added'[end])
    BY <2>5, <2>1 DEF TickIsSound
  <2>7. Polled(end)'
    BY <2>1, <2>2, <2>4, <2>6, <1>1, TwoEnds DEF Polled
  <2>8. Aside(end)
    BY <2>1, <1>1 DEF Tick, Aside, Types
  <2> QED
    BY <2>1, <2>3, <2>7, <2>8, <1>1, OnePoller DEF Types
<1>4. CASE ~(Size(Peer(end)) > lastSize[end])
  <2>1. UNCHANGED <<lastSize, sizeRun, ticks, added>> /\ polling' = [polling EXCEPT ![end] = ~connected]
    BY <1>4 DEF Tick
  <2>2. Aside(end)
    BY <2>1, <1>1 DEF Tick, Aside, Types
  <2>3. Polled(end)'
    BY <2>1, <1>1, PolledKept
  <2> QED
    BY <2>1, <2>2, <2>3, <1>1, OnePoller DEF Types
<1> QED
  BY <1>3, <1>4

\* A tick that has moved on to its next line.
LEMMA Moved ==
  ASSUME NEW tick \in TickRecords
  PROVE  /\ [tick EXCEPT !.next = @ + 1] \in TickRecords
         /\ [tick EXCEPT !.next = @ + 1].run = tick.run
         /\ [tick EXCEPT !.next = @ + 1].size = tick.size
         /\ [tick EXCEPT !.next = @ + 1].lines = tick.lines
         /\ [tick EXCEPT !.next = @ + 1].next = tick.next + 1
  BY DEF TickRecords

\* A record one line further on keeps its bounds.
LEMMA MovedBounds ==
  ASSUME NEW end, NEW tick \in TickRecords, NEW moved, NEW given,
         TickIsSound(end, tick, given), tick.next <= tick.lines,
         moved.size = tick.size, moved.lines = tick.lines, moved.next = tick.next + 1
  PROVE  /\ moved.size <= 2 * moved.lines + 1 /\ moved.lines <= MaxLines(Peer(end))
         /\ moved.next >= 1 /\ moved.next <= moved.lines + 1
<1>1. tick.size \in Nat /\ tick.lines \in Nat /\ tick.next \in Nat
  BY DEF TickRecords
<1>2. /\ tick.size <= 2 * tick.lines + 1 /\ tick.lines <= MaxLines(Peer(end))
      /\ tick.next >= 1
  BY DEF TickIsSound
<1> QED
  BY <1>1, <1>2

\* A tick adds the next of its lines.
LEMMA AddLineKeeps ==
  ASSUME Course, NEW end \in Ends, NEW i \in DOMAIN ticks[end], AddLine(end, i)
  PROVE  Course'
<1> DEFINE seq == ticks[end]
           tick == ticks[end][i]
           moved == [tick EXCEPT !.next = @ + 1]
<1>1. Types /\ Polled(end) /\ Peer(end) \in Ends
  BY TwoEnds DEF Course
<1>2. seq \in Seq(TickRecords) /\ i \in 1..Len(seq) /\ tick \in TickRecords
  BY <1>1 DEF Types
<1>3. TickIsSound(end, tick, added[end]) /\ tick.next <= tick.lines
  BY <1>1 DEF Polled, AddLine
<1>4. /\ moved \in TickRecords /\ moved.run = tick.run /\ moved.size = tick.size /\ moved.lines = tick.lines
      /\ moved.next = tick.next + 1
  BY <1>2, Moved
<1>5. /\ ticks' = [ticks EXCEPT ![end] = [seq EXCEPT ![i] = moved]]
      /\ added' = [added EXCEPT ![end] = @ \cup {<<tick.run, tick.next>>}]
      /\ UNCHANGED <<polling, lastSize, sizeRun>>
  BY DEF AddLine
<1>6. /\ tick.next \in Nat /\ tick.next \in 1..MaxLines(Peer(end))
      /\ tick.run \in {"old", "new"}
  BY <1>2, <1>3, TwoEnds DEF TickIsSound, TickRecords
<1> HIDE DEF moved
<1>7. /\ [seq EXCEPT ![i] = moved] \in Seq(TickRecords)
      /\ Len([seq EXCEPT ![i] = moved]) = Len(seq)
      /\ \A k \in 1..Len(seq) : [seq EXCEPT ![i] = moved][k] = IF k = i THEN moved ELSE seq[k]
  BY <1>2, <1>4
<1>8. ticks'[end] = [seq EXCEPT ![i] = moved] /\ added'[end] = added[end] \cup {<<tick.run, tick.next>>}
  BY <1>1, <1>5 DEF Types
<1>9. ticks' \in [Ends -> Seq(TickRecords)] /\ added' \in [Ends -> SUBSET Lines]
  <2>1. <<tick.run, tick.next>> \in Lines
    BY <1>6 DEF Lines
  <2> QED
    BY <1>1, <1>5, <1>7, <2>1 DEF Types
<1>10. ASSUME NEW k \in 1..Len(seq)
       PROVE  TickIsSound(end, ticks'[end][k], added'[end])
  <2>1. CASE k = i
    <3>1. ticks'[end][k] = moved
      BY <2>1, <1>7, <1>8
    <3>2. \A n \in 1..MaxLines(Peer(end)) : n < tick.next + 1 => <<tick.run, n>> \in added'[end]
      BY <1>3, <1>6, <1>8, TwoEnds DEF TickIsSound
    <3>3. /\ moved.size <= 2 * moved.lines + 1 /\ moved.lines <= MaxLines(Peer(end))
          /\ moved.next >= 1 /\ moved.next <= moved.lines + 1
      BY <1>2, <1>3, <1>4, MovedBounds
    <3> QED
      BY <3>1, <3>2, <3>3, <1>4 DEF TickIsSound
  <2>2. CASE k # i
    <3>1. ticks'[end][k] = seq[k] /\ TickIsSound(end, seq[k], added[end])
      BY <2>2, <1>1, <1>2, <1>7, <1>8 DEF Polled
    <3> QED
      BY <3>1, <1>8 DEF TickIsSound
  <2> QED
    BY <2>1, <2>2
<1>11. Polled(end)'
  <2>1. DOMAIN ticks'[end] = 1..Len(seq) /\ Len(ticks'[end]) = Len(seq)
    BY <1>2, <1>7, <1>8
  <2>2. Len(ticks'[end]) <= MaxTicks
    BY <2>1, <1>1 DEF Polled
  <2>3. \A k \in DOMAIN ticks'[end] : TickIsSound(end, ticks'[end][k], added'[end])
    BY <2>1, <1>10
  <2>4. added'[end] \subseteq {"old", "new"} \X (1..MaxLines(Peer(end)))
    BY <1>1, <1>6, <1>8 DEF Polled
  <2>5. lastSize' = lastSize /\ sizeRun' = sizeRun /\ added[end] \subseteq added'[end]
    BY <1>5, <1>8
  <2>6. /\ lastSize'[end] <= 2 * MaxLines(Peer(end)) + 1
        /\ \A n \in 1..MaxLines(Peer(end)) :
             2 * n <= lastSize'[end] => <<sizeRun'[end], n>> \in added'[end]
    BY <2>5, <1>1 DEF Polled
  <2> QED
    BY <2>2, <2>3, <2>4, <2>6 DEF Polled
<1>12. Aside(end)
  BY <1>1, <1>5 DEF AddLine, Aside, Types
<1> QED
  BY <1>1, <1>5, <1>9, <1>11, <1>12, OnePoller DEF Types

\* A tick ends after its last line: every line within its length is added.
LEMMA EndTickKeeps ==
  ASSUME Course, NEW end \in Ends, NEW i \in DOMAIN ticks[end], EndTick(end, i)
  PROVE  Course'
<1> DEFINE seq == ticks[end]
           tick == ticks[end][i]
<1>1. Types /\ Polled(end) /\ Peer(end) \in Ends /\ MaxLines(Peer(end)) \in Nat
  BY TwoEnds DEF Course
<1>2. seq \in Seq(TickRecords) /\ tick \in TickRecords /\ Len(seq) \in Nat
  BY <1>1 DEF Types
<1>3. TickIsSound(end, tick, added[end]) /\ tick.next > tick.lines
  BY <1>1 DEF Polled, EndTick
<1>4. /\ ticks' = [ticks EXCEPT ![end] = RemoveAt(seq, i)]
      /\ lastSize' = [lastSize EXCEPT ![end] = tick.size]
      /\ sizeRun' = [sizeRun EXCEPT ![end] = tick.run]
      /\ UNCHANGED added
  BY DEF EndTick, Processed
<1>5. /\ RemoveAt(seq, i) \in Seq(TickRecords) /\ Len(RemoveAt(seq, i)) = Len(seq) - 1
      /\ \A k \in DOMAIN RemoveAt(seq, i) : \E j \in DOMAIN seq : RemoveAt(seq, i)[k] = seq[j]
  BY <1>2, RemoveAtFacts
<1>6. /\ ticks'[end] = RemoveAt(seq, i) /\ lastSize'[end] = tick.size /\ tick.size \in Nat
      /\ sizeRun'[end] = tick.run /\ tick.run \in {"old", "new"}
  BY <1>1, <1>2, <1>4 DEF Types, TickRecords
<1>7. /\ ticks' \in [Ends -> Seq(TickRecords)] /\ lastSize' \in [Ends -> Nat]
      /\ sizeRun' \in [Ends -> {"old", "new"}]
  BY <1>1, <1>4, <1>5, <1>6 DEF Types
<1>8. \A n \in 1..MaxLines(Peer(end)) : 2 * n <= tick.size => <<tick.run, n>> \in added[end]
  <2>1. ASSUME NEW n \in 1..MaxLines(Peer(end)), 2 * n <= tick.size
        PROVE  <<tick.run, n>> \in added[end]
    <3>1. tick.size \in Nat /\ tick.lines \in Nat /\ tick.next \in Nat
      BY <1>2 DEF TickRecords
    <3>2. n < tick.next
      BY <2>1, <3>1, <1>1, <1>3 DEF TickIsSound
    <3> QED
      BY <3>2, <1>3 DEF TickIsSound
  <2> QED
    BY <2>1
<1>9. \A k \in DOMAIN ticks'[end] : TickIsSound(end, ticks'[end][k], added[end])
  BY <1>1, <1>5, <1>6 DEF Polled
<1>10. \A k \in DOMAIN ticks'[end] : TickIsSound(end, ticks'[end][k], added'[end])
  BY <1>9, <1>4 DEF TickIsSound
<1>11. lastSize'[end] <= 2 * MaxLines(Peer(end)) + 1
  BY <1>1, <1>2, <1>3, <1>6 DEF TickIsSound, TickRecords
<1>12. Len(ticks'[end]) <= MaxTicks
  BY <1>1, <1>2, <1>5, <1>6, TwoEnds DEF Polled
<1>13. Polled(end)'
  BY <1>1, <1>4, <1>6, <1>8, <1>10, <1>11, <1>12 DEF Polled
<1>14. Aside(end)
  BY <1>1, <1>4 DEF EndTick, Aside, Types, StillPolling
<1> QED
  BY <1>1, <1>4, <1>7, <1>13, <1>14, OnePoller DEF Types

-----------------------------------------------------------------------------
(* The theorems *)

LEMMA StutterKeeps ==
  ASSUME Course, UNCHANGED vars
  PROVE  Course'
<1>1. Types' /\ Described' /\ FreshOrEarly'
  BY DEF Course, Types, Described, FreshOrEarly, vars, files, polls
<1>2. ASSUME NEW end \in Ends
      PROVE  Bounded(end)' /\ Polled(end)'
  BY PolledKept, BoundedKept DEF Course, vars, files, polls
<1> QED
  BY <1>1, <1>2 DEF Course

LEMMA CourseKept ==
  ASSUME Course, [Next]_vars
  PROVE  Course'
<1>1. CASE UNCHANGED vars
  BY <1>1, StutterKeeps
<1>2. CASE Next
  BY <1>2, CleanKeeps, CreateOfferKeeps, WriteOfferKeeps, WaitForAnswerKeeps, AnswerSetKeeps,
     FailKeeps, ReportKeeps, StartAnswererKeeps, CheckOfferKeeps, TsCheckOfferKeeps,
     DescribeKeeps, WriteAnswerKeeps, TsWriteAnswerKeeps, ExitKeeps, ConnectKeeps,
     BeginLineKeeps, EndLineKeeps, TickKeeps, AddLineKeeps, EndTickKeeps
  DEF Next, OffererStep, AnswererStep, InTick
<1> QED
  BY <1>1, <1>2

\* Files, programs and pollers never leave the course that the code means them to
\* take.
LEMMA AlwaysOnCourse == Spec => []Course
<1>1. Init => Course
  BY InitiallyOnCourse
<1>2. Course /\ [Next]_vars => Course'
  BY CourseKept
<1> QED
  BY <1>1, <1>2, PTL DEF Spec

\* Every length noted as processed is one of lines that were added, for any number
\* of candidates and of ticks that overlap.
THEOREM ProcessedAlwaysAdded == Spec => []ProcessedIsAdded
<1>1. Course => ProcessedIsAdded
  BY DEF Course, Polled, ProcessedIsAdded
<1> QED
  BY <1>1, AlwaysOnCourse, PTL

\* Neither end takes up a description of an earlier run, unless the answerer was
\* started among the files of one.
THEOREM AnswerAlwaysFits == Spec => []AnswerFits
<1>1. Course => AnswerFits
  BY DEF Course, FreshOrEarly, AnswerFits, Ends
<1> QED
  BY <1>1, AlwaysOnCourse, PTL
=============================================================================
