----------------------------- MODULE FileSignals -----------------------------
(***************************************************************************)
(* The interoperability test that exchanges descriptions and candidates    *)
(* through files: the library's offerer (interop/dart_offerer.dart) and an *)
(* answerer of the werift library, written in JavaScript or in TypeScript  *)
(* (interop/js_answerer.mjs, interop/ts_answerer.ts).                      *)
(*                                                                         *)
(* The two are processes that share a directory: a file exists, empty, for *)
(* a while before its text is there, and a line of a candidate file may be *)
(* read half written.  Each runs to its next await in one step.            *)
(*                                                                         *)
(* Timing assumption: the wait of 100 ms that the JavaScript answerer and  *)
(* the offerer insert before they read a file outlasts the writing of it.  *)
(***************************************************************************)
EXTENDS Integers, Sequences, SequencesExt

CONSTANTS
  DartCandidates,  \* bound: lines of candidates_dart.jsonl, which the offerer gathers
  JsCandidates,    \* bound: lines of candidates_js.jsonl, which the answerer gathers
  MaxTicks         \* bound: ticks of a poll that are in progress at a time

ASSUME SignalsAssumption ==
  DartCandidates \in Nat /\ JsCandidates \in Nat /\ MaxTicks \in Nat \ {0}

Ends == {"dart", "js"}
Peer(end) == IF end = "dart" THEN "js" ELSE "dart"
MaxLines(end) == IF end = "dart" THEN DartCandidates ELSE JsCandidates

VARIABLES
  script,      \* the answerer that runs: "js" or "ts"
  offer,       \* offer.json: "absent", "empty", or the run that wrote it, "old" or "new"
  answer,      \* answer.json: likewise, the run whose offer it answers
  lines,       \* of each candidate file: the whole lines
  half,        \* and whether part of another line follows them
  dart,        \* main() of the offerer: the await it is at, "reported" or "failed"
  js,          \* the answerer: the await it is at, "ready" or "exited"
  remote,      \* of each end: the run of the description it was given
  polling,     \* of each end: the interval timer of pollForCandidates runs
  lastSize,    \* of each end: the length of the peer's file that it has processed
  sizeRun,     \* history: and the run whose file that was, "old" or "new"
  ticks,       \* of each end: ticks in progress, the whole lines and length each has read
  added,       \* of each end: lines given to addIceCandidate, with the run they are of
  connected,   \* ICE has connected the two
  early        \* history: the answerer was started among the files of an earlier run

files == <<offer, answer, lines, half>>
polls == <<polling, lastSize, sizeRun, ticks, added>>
vars == <<script, files, dart, js, remote, polls, connected, early>>

Size(end) == 2 * lines[end] + (IF half[end] THEN 1 ELSE 0)
Sizes(end) == 0..(2 * MaxLines(end) + 1)
Runs == {"none", "old", "new"}
Contents == {"absent", "empty", "old", "new"}

\* The run that has left, or writes, the candidate files that are there.
FileRun == IF dart = "start" THEN "old" ELSE "new"

TypeOK ==
  /\ script \in {"js", "ts"} /\ offer \in Contents /\ answer \in Contents
  /\ half \in [Ends -> BOOLEAN] /\ \A end \in Ends : lines[end] \in 0..MaxLines(end)
  /\ dart \in {"start", "cleaned", "create", "local", "offer", "waiting", "settling", "remote",
               "talking", "reported", "failed"}
  /\ js \in {"off", "watching", "settling", "remote", "create", "local", "answer", "ready", "exited"}
  /\ remote \in [Ends -> Runs] /\ polling \in [Ends -> BOOLEAN]
  /\ \A end \in Ends :
       /\ lastSize[end] \in Sizes(Peer(end)) /\ sizeRun[end] \in {"old", "new"}
       /\ Len(ticks[end]) <= MaxTicks
       /\ \A i \in DOMAIN ticks[end] : ticks[end][i].size \in Sizes(Peer(end))
       /\ added[end] \subseteq {"old", "new"} \X (1..MaxLines(Peer(end)))
  /\ connected \in BOOLEAN /\ early \in BOOLEAN

\* The directory may hold what an earlier run left, wherever that ended.
Init ==
  /\ script \in {"js", "ts"}
  /\ offer \in {"absent", "old"} /\ answer \in {"absent", "old"}
  /\ lines \in {l \in [Ends -> 0..(DartCandidates + JsCandidates)] :
                \A end \in Ends : l[end] <= MaxLines(end)}
  /\ half = [end \in Ends |-> FALSE]
  /\ dart = "start" /\ js = "off" /\ remote = [end \in Ends |-> "none"]
  /\ polling = [end \in Ends |-> FALSE] /\ lastSize = [end \in Ends |-> 0]
  /\ sizeRun = [end \in Ends |-> "new"]
  /\ ticks = [end \in Ends |-> << >>] /\ added = [end \in Ends |-> {}]
  /\ connected = FALSE /\ early = FALSE

-----------------------------------------------------------------------------
(* The candidate files *)

\* onIceCandidate, once the local description is being set; the TypeScript
\* answerer only logs its candidates.
Gathers(end) ==
  IF end = "dart" THEN dart \in {"offer", "waiting", "settling", "remote", "talking"}
  ELSE script = "js" /\ js \in {"answer", "ready"}

BeginLine(end) ==
  /\ Gathers(end) /\ lines[end] < MaxLines(end) /\ ~half[end]
  /\ half' = [half EXCEPT ![end] = TRUE]
  /\ UNCHANGED <<script, offer, answer, lines, dart, js, remote, polls, connected, early>>

EndLine(end) ==
  /\ half[end]
  /\ half' = [half EXCEPT ![end] = FALSE]
  /\ lines' = [lines EXCEPT ![end] = @ + 1]
  /\ UNCHANGED <<script, offer, answer, dart, js, remote, polls, connected, early>>

-----------------------------------------------------------------------------
(* pollForCandidates, the same at both ends *)

\* Polling stops once a tick has seen the connection.
\* Mutant: it stops once a tick has processed what the file held.
StillPolling_Once == FALSE
StillPolling == ~connected

\* A tick of the timer reads the file, if there is one.  When it has grown, every line
\* of it is processed, one await per line; that it may be another file is not noticed.
Tick(end) ==
  /\ polling[end] /\ Len(ticks[end]) < MaxTicks /\ Size(Peer(end)) > 0
  /\ IF Size(Peer(end)) > lastSize[end]
     THEN /\ ticks' = [ticks EXCEPT ![end] =
               Append(@, [run |-> FileRun, size |-> Size(Peer(end)), lines |-> lines[Peer(end)],
                          next |-> 1])]
          /\ UNCHANGED polling
     ELSE polling' = [polling EXCEPT ![end] = ~connected] /\ UNCHANGED ticks
  /\ UNCHANGED <<script, files, dart, js, remote, lastSize, sizeRun, added, connected, early>>

\* A line is given to the peer connection; a half line does not parse.
AddLine(end, i) ==
  LET tick == ticks[end][i]
  IN /\ tick.next <= tick.lines
     /\ added' = [added EXCEPT ![end] = @ \cup {<<tick.run, tick.next>>}]
     /\ ticks' = [ticks EXCEPT ![end][i].next = @ + 1]
     /\ UNCHANGED <<script, files, dart, js, remote, polling, lastSize, sizeRun, connected, early>>

\* What the poll notes as processed: the length of what the tick has read.
\* Mutant: the length the file has at the end.
Processed_Now(end, tick) == Size(Peer(end))
Processed(end, tick) == tick.size

EndTick(end, i) ==
  /\ ticks[end][i].next > ticks[end][i].lines
  /\ lastSize' = [lastSize EXCEPT ![end] = Processed(end, ticks[end][i])]
  /\ sizeRun' = [sizeRun EXCEPT ![end] = ticks[end][i].run]
  /\ polling' = [polling EXCEPT ![end] = @ /\ StillPolling]
  /\ ticks' = [ticks EXCEPT ![end] = RemoveAt(@, i)]
  /\ UNCHANGED <<script, files, dart, js, remote, added, connected, early>>

InTick(end) == \E i \in DOMAIN ticks[end] : AddLine(end, i) \/ EndTick(end, i)

-----------------------------------------------------------------------------
(* The offerer *)

Dart(from, to) == dart = from /\ dart' = to

\* The files of an earlier run are deleted before anything else.
\* Mutant: they are kept.
Clean_Keeps ==
  /\ Dart("start", "cleaned")
  /\ UNCHANGED <<script, files, js, remote, polls, connected, early>>
Clean ==
  /\ Dart("start", "cleaned")
  /\ offer' = "absent" /\ answer' = "absent"
  /\ lines' = [end \in Ends |-> 0] /\ half' = [end \in Ends |-> FALSE]
  /\ UNCHANGED <<script, js, remote, polls, connected, early>>

\* createOffer, setLocalDescription, and the file is opened for the offer.
CreateOffer ==
  /\ \/ (Dart("cleaned", "create") \/ Dart("create", "local")) /\ UNCHANGED offer
     \/ Dart("local", "offer") /\ offer' = "empty"
  /\ UNCHANGED <<script, answer, lines, half, js, remote, polls, connected, early>>

WriteOffer ==
  /\ Dart("offer", "waiting") /\ offer' = "new"
  /\ UNCHANGED <<script, answer, lines, half, js, remote, polls, connected, early>>

\* waitForFile: the file exists, and is read after the wait.
WaitForAnswer ==
  /\ \/ Dart("waiting", "settling") /\ answer # "absent" /\ UNCHANGED remote
     \/ /\ Dart("settling", "remote") /\ answer # "empty"
        /\ remote' = [remote EXCEPT !["dart"] = answer]
  /\ UNCHANGED <<script, files, js, polls, connected, early>>

\* setRemoteDescription ends; the poll starts, and the wait for messages.
AnswerSet ==
  /\ Dart("remote", "talking") /\ polling' = [polling EXCEPT !["dart"] = TRUE]
  /\ UNCHANGED <<script, files, js, remote, lastSize, sizeRun, ticks, added,
                 connected, early>>

\* 600 attempts have found no answer, or a call of the peer connection throws.
\* Mutant: the attempts are not counted.
Fail_NoAttempts ==
  /\ \E at \in {"create", "local", "remote"} : Dart(at, "failed")
  /\ UNCHANGED <<script, files, js, remote, polls, connected, early>>
Fail ==
  /\ \E at \in {"create", "local", "waiting", "remote"} : Dart(at, "failed")
  /\ UNCHANGED <<script, files, js, remote, polls, connected, early>>

\* Thirty seconds have passed: the verdict is printed and the connection closed.
Report ==
  /\ Dart("talking", "reported") /\ polling' = [polling EXCEPT !["dart"] = FALSE]
  /\ UNCHANGED <<script, files, js, remote, lastSize, sizeRun, ticks, added,
                 connected, early>>

OffererStep == CreateOffer \/ WriteOffer \/ WaitForAnswer \/ AnswerSet

-----------------------------------------------------------------------------
(* The answerer *)

Js(from, to) == js = from /\ js' = to

StartAnswerer ==
  /\ Js("off", "watching") /\ early' = (dart = "start" /\ offer = "old")
  /\ UNCHANGED <<script, files, dart, remote, polls, connected>>

\* The text of offer.json, or the exit when it is not there or does not parse.
ReadOffer ==
  \/ /\ offer \in {"old", "new"} /\ js' = "remote"
     /\ remote' = [remote EXCEPT !["js"] = offer]
  \/ offer \in {"absent", "empty"} /\ js' = "exited" /\ UNCHANGED remote

\* checkOffer of the JavaScript answerer: it finds the file, waits and reads.
CheckOffer ==
  /\ script = "js"
  /\ \/ Js("watching", "settling") /\ offer # "absent" /\ UNCHANGED remote
     \/ js = "settling" /\ offer # "empty" /\ ReadOffer
  /\ UNCHANGED <<script, files, dart, polls, connected, early>>

\* checkOffer of the TypeScript answerer reads what is there at once.
TsCheckOffer ==
  /\ script = "ts" /\ js = "watching" /\ offer # "absent" /\ ReadOffer
  /\ UNCHANGED <<script, files, dart, polls, connected, early>>

\* setRemoteDescription, createAnswer, setLocalDescription, and the file is
\* opened for the answer.
Describe ==
  /\ \/ (Js("remote", "create") \/ Js("create", "local")) /\ UNCHANGED answer
     \/ Js("local", "answer") /\ answer' = "empty"
  /\ UNCHANGED <<script, offer, lines, half, dart, remote, polls, connected, early>>

\* The JavaScript answerer writes the answer and starts to poll.
WriteAnswer ==
  /\ script = "js" /\ Js("answer", "ready") /\ answer' = remote["js"]
  /\ polling' = [polling EXCEPT !["js"] = TRUE]
  /\ UNCHANGED <<script, offer, lines, half, dart, remote, lastSize, sizeRun, ticks, added,
                 connected, early>>

\* The TypeScript answerer only writes it.
TsWriteAnswer ==
  /\ script = "ts" /\ Js("answer", "ready") /\ answer' = remote["js"]
  /\ UNCHANGED <<script, offer, lines, half, dart, remote, polls, connected, early>>

\* A call throws: the error is printed and the process exits.
Exit ==
  /\ \E at \in {"remote", "create", "local"} : Js(at, "exited")
  /\ UNCHANGED <<script, files, dart, remote, polls, connected, early>>

AnswererStep ==
  StartAnswerer \/ CheckOffer \/ TsCheckOffer \/ Describe \/ WriteAnswer \/ TsWriteAnswer

\* ICE and DTLS, once each end has the other's description.
Connect ==
  /\ dart = "talking" /\ js = "ready" /\ remote["dart"] = remote["js"] /\ ~connected
  /\ connected' = TRUE
  /\ UNCHANGED <<script, files, dart, js, remote, polls, early>>

Next ==
  \/ Clean \/ OffererStep \/ Fail \/ Report
  \/ AnswererStep \/ Exit \/ Connect
  \/ \E end \in Ends : BeginLine(end) \/ EndLine(end) \/ Tick(end) \/ InTick(end)

Spec == Init /\ [][Next]_vars

\* Both processes run, what they await resolves, and their timers fire.
Fairness ==
  /\ WF_vars(Clean) /\ WF_vars(OffererStep) /\ WF_vars(Fail) /\ WF_vars(Report)
  /\ WF_vars(AnswererStep)
  /\ \A end \in Ends : WF_vars(EndLine(end)) /\ WF_vars(Tick(end)) /\ WF_vars(InTick(end))
FairSpec == Spec /\ Fairness

-----------------------------------------------------------------------------
\* A length is noted as processed only when every line within it has been given
\* to the peer connection, however the ticks of the two timers overlap and
\* wherever in a line the reading stopped.
ProcessedIsAdded ==
  \A end \in Ends : \A n \in 1..MaxLines(Peer(end)) :
    2 * n <= lastSize[end] => <<sizeRun[end], n>> \in added[end]

\* Unless the answerer was started among the files of an earlier run, the two
\* ends describe the same call: the offerer never takes up an answer to another
\* offer than its own, nor the answerer another offer.
AnswerFits == early \/ \A end \in Ends : remote[end] # "old"

\* A candidate that the offerer writes is added while the answerer polls, unless
\* the two connect first, or the answerer has processed an older and no shorter file:
\* reading half of the line does not lose it, nor does a tick that ends after a later
\* one, or after the files of an earlier run are gone.  (The offerer polls for thirty
\* seconds only.)
Written(n) == dart # "start" /\ lines["dart"] >= n
Hidden(n) == sizeRun["js"] = "old" /\ 2 * n <= lastSize["js"]
EveryLineIsAdded ==
  \A n \in 1..DartCandidates :
    (Written(n) /\ polling["js"]) ~> (<<"new", n>> \in added["js"] \/ connected \/ Hidden(n))

\* The offerer ends with a verdict or an error whatever the answerer does: it may
\* exit, be another run's, or never answer.
ExchangeResolves == dart = "start" ~> dart \in {"reported", "failed"}

(* What follows the code does not keep: the README has the instance. *)

\* A candidate of the new run is added whatever the answerer has read of an earlier one
\* (js_answerer.mjs:139).
NewLinesAreAdded ==
  \A n \in 1..DartCandidates :
    (Written(n) /\ polling["js"]) ~> (<<"new", n>> \in added["js"] \/ connected)
=============================================================================
