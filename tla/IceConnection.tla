--------------------------- MODULE IceConnection ---------------------------
(***************************************************************************)
(* How two ICE agents find a pair of addresses that works, from the first  *)
(* offer through restarts (lib/src/ice/ice_connection.dart), driven by the *)
(* descriptions and candidates that their peer connections exchange        *)
(* (lib/src/rtc_peer_connection.dart).  Host candidates over UDP.  What    *)
(* happens to a nominated pair afterwards, consent and close, is Transport.*)
(*                                                                         *)
(* A candidate is <<host, generation>>: restart() closes the sockets, so   *)
(* the next generation has other ports.  All pairs have the same priority, *)
(* a peer reflexive one too, and stay in the order in which they were made.*)
(***************************************************************************)
EXTENDS Naturals, FiniteSets, SequencesExt

CONSTANTS
  Peers,        \* the two agents
  First,        \* the one that makes the first offer
  Retries,      \* _maxConnectivityCheckRetries: 3
  Networks      \* the networks to look at, with the bounds for each: records with
                \*   hosts    getHostAddresses() of each agent, in order
                \*   blocked  the pairs {h, k} of hosts between which nothing passes
                \*   rounds   bound: negotiations; all after the first restart ICE
                \*   losses   bound: messages lost
                \*   lates    bound: checks that time out while their answer is on its way

ASSUME PeersAssumption == First \in Peers /\ \E p \in Peers : p # First /\ Peers = {First, p}
ASSUME NetworksAssumption ==
  \A n \in Networks :
    /\ \A p \in Peers : n.hosts[p] \in Seq(STRING) \ {<< >>}
    /\ \A p, q \in Peers : p # q => ToSet(n.hosts[p]) \cap ToSet(n.hosts[q]) = {}
    /\ {Retries, n.rounds, n.losses, n.lates} \subseteq Nat

VARIABLES
  agent,      \* the fields of each connection
  runs,       \* the calls of connect() that have not ended
  tasks,      \* the tasks of _checkNewPairs: the pairs that each has yet to check
  checks,     \* checks that wait for an answer: _pendingStunTransactions
  net,        \* STUN messages on their way
  candidates, \* candidates on their way to each peer, in order
  step,       \* how far the negotiation is
  offerer,    \* who made the last offer
  round,      \* how many offers there have been
  stronger,   \* the agent with the larger _tieBreaker
  network,    \* the one of Networks that this is about
  losses, lates,  \* what has gone wrong so far
  mishaps     \* history: "overtaken", restart() has thrown away a candidate of the new
              \* generation; "stale", a connect() of an older generation has ended it;
              \* "broken", a change of the list has ended a connect()

negotiation == <<step, offerer, round>>
budget == <<losses, lates>>
fixed == <<network, stronger>>
vars == <<agent, runs, tasks, checks, net, candidates, negotiation, fixed, budget, mishaps>>

Other(p) == CHOOSE q \in Peers : q # p
Hosts(p) == network.hosts[p]
Owner(host) == CHOOSE p \in Peers : host \in ToSet(Hosts(p))
None == << >>

-----------------------------------------------------------------------------
(* One agent.  A pair is known by its generation and its place in _checkList; *)
(* a list that restart() has cleared leaves its pairs to those who hold them. *)

\* The fields after construction, and after restart().
Fresh(controlling, generation) ==
  [state |-> "new", controlling |-> controlling, generation |-> generation,
   bound |-> << >>, remotes |-> << >>, list |-> << >>, nominated |-> None,
   early |-> << >>, earlyDone |-> FALSE, called |-> FALSE]

Pair(local, remote) == [local |-> local, remote |-> remote, state |-> "frozen"]

\* The pair at k, with what identifies it.
Ref(a, k) ==
  [generation |-> a.generation, place |-> k, local |-> a.list[k].local, remote |-> a.list[k].remote]

WithPairState(a, ref, s) ==
  IF ref.generation = a.generation THEN [a EXCEPT !.list[ref.place].state = s] ELSE a

\* A pair works: the first that does is nominated, unless one is already.
Worked(a, ref) ==
  IF a.nominated = None THEN [a EXCEPT !.nominated = ref, !.state = "completed"]
  ELSE [a EXCEPT !.state = IF @ = "checking" THEN "connected" ELSE @]

\* _performConnectivityChecks after the first success of its own checks.
Nominate(a, ref) == [a EXCEPT !.nominated = ref, !.state = "completed"]

\* _handleTriggeredCheck: the first pair with that remote address, or else a new one
\* with the first local candidate.
Triggered(a, remote) ==
  LET known == {k \in DOMAIN a.list : a.list[k].remote = remote}
      first == CHOOSE k \in known : \A j \in known : k <= j
      added == [a EXCEPT !.remotes = Append(@, remote),
                         !.list = Append(@, Pair(a.bound[1], remote))]
      ref == IF known = {} THEN Ref(added, Len(added.list)) ELSE Ref(a, first)
  IN  IF known # {} /\ a.list[first].state = "succeeded" THEN a
      ELSE Worked(WithPairState(IF known = {} THEN added ELSE a, ref, "succeeded"), ref)

\* A message and its answer; nothing passes between blocked hosts.
Carried(m) == IF {m.from[1], m.to[1]} \in network.blocked THEN {} ELSE {m}
Request(p, a, ref) ==
  [type |-> "request", check |-> <<p, ref.generation, ref.place>>, controlling |-> a.controlling,
   from |-> <<ref.local, a.generation>>, to |-> ref.remote]
Answer(m, type) ==
  [type |-> type, check |-> m.check, from |-> m.to, to |-> m.from]

\* Mutant of Yields: the weaker agent insists on its role too.
Yields_Never(p) == FALSE
\* The tie-breaker of the other agent is the larger one.
Yields(p) == stronger # p

\* _handleStunRequest once there is a check list, with _handleRoleConflict.  The result
\* has the agent and the messages that it sends.
Process(p, result, m) ==
  LET a == result.agent
      conflict == m.controlling = a.controlling
  IN  IF conflict /\ ~Yields(p)
      THEN [result EXCEPT !.out = @ \cup Carried(Answer(m, "conflict"))]
      ELSE [agent |-> Triggered([a EXCEPT !.controlling = IF conflict THEN ~@ ELSE @], m.from),
            out |-> result.out \cup Carried(Answer(m, "success"))]

\* _handleStunRequest: early checks are queued.
HandleRequest(p, a, m) ==
  IF a.list = << >> /\ ~a.earlyDone
  THEN [agent |-> [a EXCEPT !.early = Append(@, m)], out |-> {}]
  ELSE Process(p, [agent |-> a, out |-> {}], m)

\* _processEarlyChecks.
ProcessEarly(p, a) ==
  LET after[i \in 0 .. Len(a.early)] ==
        IF i = 0 THEN [agent |-> [a EXCEPT !.earlyDone = TRUE], out |-> {}]
        ELSE Process(p, after[i - 1], a.early[i])
  IN  [after[Len(a.early)] EXCEPT !.agent.early = << >>]

\* _performConnectivityCheck up to the wait for the answer; without a socket it fails.
\* The owner is the run of connect() that made the check, if one did.
Check(p, a, ref, owner, tries) ==
  IF ref.local \in ToSet(a.bound)
  THEN [agent |-> WithPairState(a, ref, "inProgress"), out |-> Carried(Request(p, a, ref)),
        checks |-> {[by |-> p, ref |-> ref, owner |-> owner, tries |-> tries]}]
  ELSE [agent |-> WithPairState(a, ref, "failed"), out |-> {}, checks |-> {}]

-----------------------------------------------------------------------------
(* connect().  A run waits for the gathering, goes through the list with a    *)
(* pause after each check ("pacing"), and waits for a success of its own.     *)

\* The iteration goes on: over a list of another length it throws, and the run ends.
Proceed(p, a, run) ==
  LET ready == {k \in run.next .. Len(a.list) : a.list[k].state = "frozen"}
      k == CHOOSE i \in ready : \A j \in ready : i <= j
      nothing == [agent |-> a, out |-> {}, checks |-> {}, runs |-> {}]
      started == Check(p, a, Ref(a, k), {run.id}, 0)
  IN  IF Len(a.list) # run.length THEN nothing
      ELSE IF run.success # None THEN [nothing EXCEPT !.agent = Nominate(a, run.success)]
      ELSE IF ready = {} THEN [nothing EXCEPT !.runs = {[run EXCEPT !.at = "waiting"]}]
      ELSE [agent |-> started.agent, out |-> started.out, checks |-> started.checks,
            runs |-> {[run EXCEPT !.next = k + 1]}]

\* _performConnectivityChecks, with the state that connect() sets before it.
Perform(p, before, id) ==
  LET a == [before EXCEPT !.state = "checking"]
      early == ProcessEarly(p, a)
      run == [id |-> id, at |-> "pacing", next |-> 1, length |-> Len(early.agent.list),
              success |-> None]
      rest == Proceed(p, early.agent, run)
  IN  IF a.list = << >> THEN [agent |-> a, out |-> {}, checks |-> {}, runs |-> {}]
      ELSE [rest EXCEPT !.out = @ \cup early.out]

\* connect() is called: it gathers first unless that has been done.
Gathering(id) ==
  [id |-> id, at |-> "gathering", next |-> 1, length |-> 0, success |-> None]
Connect(p, a) ==
  IF a.state = "new"
  THEN [agent |-> [a EXCEPT !.state = "gathering", !.called = TRUE], out |-> {}, checks |-> {},
        runs |-> {Gathering(a.generation)}]
  ELSE Perform(p, [a EXCEPT !.called = TRUE], a.generation)

\* A handler of p has done this; the runs and checks that it leaves alone stay.
Does(p, result, others, left) ==
  /\ agent' = [agent EXCEPT ![p] = result.agent]
  /\ runs' = [runs EXCEPT ![p] = others \cup result.runs]
  /\ checks' = left \cup result.checks

Init ==
  /\ \E conflict \in BOOLEAN :   \* the other one has made an offer too, and dropped it
       agent = [p \in Peers |-> Fresh(p # First /\ conflict, 0)]
  /\ runs = [p \in Peers |-> {}] /\ tasks = [p \in Peers |-> {}]
  /\ checks = {} /\ net = {} /\ candidates = [p \in Peers |-> << >>]
  /\ step = "stable" /\ offerer = First /\ round = 0
  /\ stronger \in Peers /\ network \in Networks /\ losses = 0 /\ lates = 0 /\ mishaps = {}

-----------------------------------------------------------------------------
(* Descriptions and candidates *)

\* Mutant of Restarted: the nominated pair is kept.
Restarted_KeepsNominated(a) ==
  [Fresh(a.controlling, a.generation + 1) EXCEPT !.nominated = a.nominated]
\* restart(); the role stays, and the setter refuses another one from now on.
Restarted(a) == Fresh(a.controlling, a.generation + 1)

\* What restart() does to the rest: nothing arrives at the closed sockets, and the checks
\* that wait for it time out, which only those notice who wait for them.
CloseSockets(p) ==
  /\ checks' = {c \in checks : c.by # p}
  /\ net' = {m \in net : Owner(m.to[1]) # p}

\* createOffer(), with iceRestart after the first one, and setLocalDescription() up to
\* the wait for the gathering.  The last exchange and its gathering are over, and tasks
\* that go through new pairs, 5 ms apart, have come to their end.
Offer(p) ==
  /\ step = "stable" /\ round < network.rounds /\ (round = 0 => p = First)
  /\ tasks[p] = {}
  /\ \A q \in Peers : candidates[q] = << >> /\ ~\E r \in runs[q] : r.at = "gathering"
  /\ agent' = [agent EXCEPT ![p] =
       [IF round = 0 THEN [@ EXCEPT !.controlling = TRUE] ELSE Restarted(@)
          EXCEPT !.state = "gathering"]]
  /\ IF round = 0 THEN UNCHANGED <<checks, net>> ELSE CloseSockets(p)
  /\ step' = "offering" /\ offerer' = p /\ round' = round + 1
  /\ UNCHANGED <<runs, tasks, candidates, fixed, budget, mishaps>>

\* setRemoteDescription(offer): other credentials restart ICE here too, and connect()
\* is called at once, as there is a local description of before.
TakeOffer(p) ==
  /\ step = "offered" /\ p # offerer /\ tasks[p] = {}
  /\ LET result == Connect(p, Restarted(agent[p]))
     IN  IF round = 1 THEN UNCHANGED <<agent, runs, checks, net>>
         ELSE /\ agent' = [agent EXCEPT ![p] = result.agent]
              /\ runs' = [runs EXCEPT ![p] = @ \cup result.runs]
              /\ CloseSockets(p)
  /\ mishaps' = IF \E c \in ToSet(agent[p].remotes) : round > 1 /\ c[2] = agent[offerer].generation
                THEN mishaps \cup {"overtaken"} ELSE mishaps
  /\ step' = "taken"
  /\ UNCHANGED <<tasks, candidates, offerer, round, fixed, budget>>

\* createAnswer() and setLocalDescription(answer), which waits for the gathering unless
\* that has begun.
GiveAnswer(p) ==
  /\ step = "taken" /\ p # offerer
  /\ IF round = 1
     THEN step' = "answering" /\ agent' = [agent EXCEPT ![p].state = "gathering"]
     ELSE step' = "answered" /\ UNCHANGED agent
  /\ UNCHANGED <<runs, tasks, checks, net, candidates, offerer, round, fixed, budget, mishaps>>

\* setRemoteDescription(answer).
TakeAnswer(p) ==
  /\ step = "answered" /\ p = offerer
  /\ LET result == Connect(p, agent[p])
     IN  IF agent[p].called THEN UNCHANGED <<agent, runs, checks, net>>
         ELSE Does(p, result, runs[p], checks) /\ net' = net \cup result.out
  /\ step' = "stable"
  /\ UNCHANGED <<tasks, candidates, offerer, round, fixed, budget, mishaps>>

\* setLocalDescription awaits the gathering.
Describing(p) ==
  \/ step = "offering" /\ p = offerer
  \/ step = "answering" /\ p # offerer

\* gatherCandidates binds the next address; after the last one, what waits goes on:
\* connect(), or setLocalDescription, which calls it when both descriptions are there.
Gather(p) ==
  LET a == agent[p]
      host == Hosts(p)[Len(a.bound) + 1]
      bound == [a EXCEPT !.bound = Append(@, host),
                         !.list = @ \o [i \in DOMAIN a.remotes |-> Pair(host, a.remotes[i])]]
      waiting == {r \in runs[p] : r.at = "gathering"}
      last == Len(bound.bound) = Len(Hosts(p))
      connects == waiting # {} \/ step = "answering" \/ round > 1
      result == IF last /\ connects THEN Connect(p, bound)
                ELSE [agent |-> bound, out |-> {}, checks |-> {},
                      runs |-> IF last THEN {} ELSE waiting]
  IN  /\ Describing(p) \/ waiting # {}
      /\ Does(p, result, runs[p] \ waiting, checks)
      /\ net' = net \cup result.out
      /\ candidates' = [candidates EXCEPT ![Other(p)] = Append(@, <<host, a.generation>>)]
      /\ step' = IF last /\ Describing(p)
                 THEN (IF step = "offering" THEN "offered" ELSE "answered") ELSE step
      /\ UNCHANGED <<tasks, offerer, round, fixed, budget, mishaps>>

\* Mutant of AddRemoteCandidate: new pairs are not checked.
AddRemoteCandidate_NoChecks(p) ==
  /\ candidates[p] # << >>
  /\ LET c == Head(candidates[p])
     IN  agent' = [agent EXCEPT ![p].remotes = Append(@, c),
           ![p].list = @ \o [i \in DOMAIN agent[p].bound |-> Pair(agent[p].bound[i], c)]]
  /\ candidates' = [candidates EXCEPT ![p] = Tail(@)]
  /\ UNCHANGED <<runs, tasks, checks, net, negotiation, fixed, budget, mishaps>>
\* addIceCandidate: the candidate is paired with what has been gathered, whichever
\* description has been set, and while checking the new pairs are checked.
AddRemoteCandidate(p) ==
  /\ candidates[p] # << >>
  /\ LET a == agent[p]
         c == Head(candidates[p])
         longer == [a EXCEPT !.remotes = Append(@, c),
                             !.list = @ \o [i \in DOMAIN a.bound |-> Pair(a.bound[i], c)]]
         task == [i \in DOMAIN a.bound |-> Ref(longer, Len(a.list) + i)]
     IN  /\ agent' = [agent EXCEPT ![p] = longer]
         /\ tasks' = IF a.state = "checking" /\ task # << >>
                     THEN [tasks EXCEPT ![p] = @ \cup {task}] ELSE tasks
  /\ candidates' = [candidates EXCEPT ![p] = Tail(@)]
  /\ UNCHANGED <<runs, checks, net, negotiation, fixed, budget, mishaps>>

-----------------------------------------------------------------------------
(* Checks *)

checksOnly == <<tasks, candidates, negotiation, fixed, mishaps>>

\* The iteration of connect() goes on after its pause.
Pace(p, run) ==
  /\ run.at = "pacing"
  /\ LET result == Proceed(p, agent[p], run)
     IN  Does(p, result, runs[p] \ {run}, checks) /\ net' = net \cup result.out
  /\ mishaps' = mishaps
       \cup (IF agent'[p].nominated # agent[p].nominated /\ run.id # agent[p].generation
             THEN {"stale"} ELSE {})
       \cup (IF Len(agent[p].list) # run.length THEN {"broken"} ELSE {})
  /\ UNCHANGED <<tasks, candidates, negotiation, fixed, budget>>

\* A task of _checkNewPairs comes to its next pair.
CheckNewPair(p, task) ==
  LET a == agent[p]
      ref == Head(task)
      result == Check(p, a, ref, {}, 0)
      frozen == a.list[ref.place].state = "frozen"
      rest == IF frozen /\ a.nominated # None THEN << >> ELSE Tail(task)
  IN  /\ tasks' = [tasks EXCEPT ![p] = (@ \ {task}) \cup ({rest} \ {<< >>})]
      /\ IF frozen /\ a.nominated = None
         THEN /\ agent' = [agent EXCEPT ![p] = result.agent]
              /\ checks' = checks \cup result.checks /\ net' = net \cup result.out
         ELSE UNCHANGED <<agent, checks, net>>
      /\ UNCHANGED <<runs, candidates, negotiation, fixed, budget, mishaps>>

\* The socket that the message is for is open.
Arrives(m) ==
  LET a == agent[Owner(m.to[1])] IN m.to[1] \in ToSet(a.bound) /\ m.to[2] = a.generation

ReceiveRequest(m) ==
  /\ m.type = "request"
  /\ LET p == Owner(m.to[1])
         result == HandleRequest(p, agent[p], m)
     IN  IF Arrives(m)
         THEN /\ agent' = [agent EXCEPT ![p] = result.agent]
              /\ net' = (net \ {m}) \cup result.out
         ELSE net' = net \ {m} /\ UNCHANGED agent
  /\ UNCHANGED <<runs, checks, checksOnly, budget>>

Id(c) == <<c.by, c.ref.generation, c.ref.place>>

\* What a check that succeeds does to the agent and to the runs of connect().
Succeeds(c, a) ==
  LET marked == WithPairState(a, c.ref, "succeeded")
      owners == {r \in runs[c.by] : r.id \in c.owner /\ r.success = None}
      waits == \E r \in owners : r.at = "waiting"
  IN  [agent |-> IF c.owner = {} THEN Worked(marked, c.ref)
                 ELSE IF waits THEN Nominate(marked, c.ref) ELSE marked,
       runs |-> (runs[c.by] \ owners)
                  \cup (IF waits THEN {} ELSE {[r EXCEPT !.success = c.ref] : r \in owners})]

ReceiveSuccess(m, c) ==
  /\ m.type = "success" /\ m.check = Id(c)
  /\ LET result == Succeeds(c, agent[c.by])
     IN  /\ agent' = [agent EXCEPT ![c.by] = result.agent]
         /\ runs' = [runs EXCEPT ![c.by] = result.runs]
  /\ checks' = checks \ {c} /\ net' = net \ {m}
  /\ UNCHANGED <<checksOnly, budget>>

\* An error 487: the role is switched and the check repeated, up to a limit.
ReceiveConflict(m, c) ==
  /\ m.type = "conflict" /\ m.check = Id(c)
  /\ LET a == agent[c.by]
         switched == [a EXCEPT !.controlling = ~@]
         result == IF c.tries < Retries THEN Check(c.by, switched, c.ref, c.owner, c.tries + 1)
                   ELSE [agent |-> WithPairState(a, c.ref, "failed"), out |-> {}, checks |-> {}]
     IN  /\ agent' = [agent EXCEPT ![c.by] = result.agent]
         /\ checks' = (checks \ {c}) \cup result.checks
         /\ net' = (net \ {m}) \cup result.out
  /\ UNCHANGED <<runs, checksOnly, budget>>

\* An answer to a request that was queued, for a check that has timed out or has gone.
Discard(m) ==
  /\ m.type # "request" /\ ~\E c \in checks : m.check = Id(c)
  /\ net' = net \ {m}
  /\ UNCHANGED <<agent, runs, checks, checksOnly, budget>>

Lose(m) ==
  /\ losses < network.losses /\ losses' = losses + 1
  /\ net' = net \ {m}
  /\ UNCHANGED <<agent, runs, checks, checksOnly, lates>>

\* _performConnectivityChecks has not been called in this generation.
Unprepared(p) == ~agent[p].called \/ \E r \in runs[p] : r.at = "gathering"

\* A check whose request or answer is on its way, or waits for the other's connect().
UnderWay(c) ==
  \/ \E m \in net : m.check = Id(c)
  \/ \E q \in Peers : Unprepared(q) /\ \E m \in ToSet(agent[q].early) : m.check = Id(c)

\* stunTimeout: 1.5 seconds, and no retransmission.
TimeOut(c) ==
  /\ IF UnderWay(c) THEN lates < network.lates /\ lates' = lates + 1 ELSE UNCHANGED lates
  /\ agent' = [agent EXCEPT ![c.by] = WithPairState(@, c.ref, "failed")]
  /\ checks' = checks \ {c} /\ net' = {m \in net : m.type = "request" \/ m.check # Id(c)}
  /\ UNCHANGED <<runs, checksOnly, losses>>

\* maxCheckTime: no check of this connect() has succeeded in 15 seconds, ten times
\* what each of them waits.
GiveUp(p, run) ==
  /\ run.at = "waiting" /\ ~\E c \in checks : c.by = p /\ run.id \in c.owner
  /\ agent' = [agent EXCEPT ![p].state = "failed"]
  /\ runs' = [runs EXCEPT ![p] = @ \ {run}]
  /\ mishaps' = IF run.id # agent[p].generation THEN mishaps \cup {"stale"} ELSE mishaps
  /\ UNCHANGED <<tasks, checks, net, candidates, negotiation, fixed, budget>>

-----------------------------------------------------------------------------
GivesUp == \E p \in Peers : \E run \in runs[p] : GiveUp(p, run)
Receive == \E m \in net : \/ ReceiveRequest(m)
                          \/ \E c \in checks : ReceiveSuccess(m, c) \/ ReceiveConflict(m, c)
                          \/ Discard(m)
Expire == \/ \E c \in checks : TimeOut(c)
          \/ GivesUp
Work(p) == \/ TakeOffer(p) \/ GiveAnswer(p) \/ TakeAnswer(p) \/ Gather(p)
           \/ AddRemoteCandidate(p)
           \/ \E run \in runs[p] : Pace(p, run)
           \/ \E task \in tasks[p] : CheckNewPair(p, task)

Next == \/ \E p \in Peers : Offer(p) \/ Work(p)
        \/ Receive \/ Expire
        \/ \E m \in net : Lose(m)

Spec == Init /\ [][Next]_vars

\* Descriptions and candidates reach the other end, the event loops run, timers fire.
\* One condition for all of them: after the last offer none of them goes on for ever.
InTime == \E c \in checks : ~UnderWay(c) /\ TimeOut(c)
Advance == (\E p \in Peers : Work(p)) \/ Receive \/ InTime \/ GivesUp
CanAdvance ==
  \/ step # "stable" \/ net # {}
  \/ \E p \in Peers : candidates[p] # << >> \/ tasks[p] # {} \/ runs[p] # {}
  \/ \E c \in checks : ~UnderWay(c)
\* WF_vars(Advance), with its enabling condition written out.
FairSpec == Spec /\ ([]<>~CanAdvance \/ []<><<Advance>>_vars)

-----------------------------------------------------------------------------
(* Properties *)

IceStates == {"new", "gathering", "checking", "connected", "completed", "failed"}
PairStates == {"frozen", "inProgress", "succeeded", "failed"}
Steps == {"stable", "offering", "offered", "taken", "answering", "answered"}
Candidates == (UNION {ToSet(Hosts(p)) : p \in Peers}) \X (0 .. network.rounds)

\* Types of the variables.
TypeOK ==
  /\ \A p \in Peers :
       LET a == agent[p]
       IN  /\ a.state \in IceStates /\ {a.controlling, a.earlyDone, a.called} \subseteq BOOLEAN
           /\ a.generation \in 0 .. network.rounds /\ IsPrefix(a.bound, Hosts(p))
           /\ ToSet(a.remotes) \subseteq Candidates
           /\ \A i \in DOMAIN a.list : /\ a.list[i].local \in ToSet(Hosts(p))
                                       /\ a.list[i].remote \in Candidates
                                       /\ a.list[i].state \in PairStates
           /\ \A r \in runs[p] : r.at \in {"gathering", "pacing", "waiting"}
           /\ \A t \in tasks[p] : Len(t) \in 1 .. Len(Hosts(p))
  /\ \A c \in checks : c.by \in Peers /\ c.tries \in 0 .. Retries
  /\ \A m \in net : {m.from, m.to} \subseteq Candidates
  /\ \A p \in Peers : ToSet(candidates[p]) \subseteq Candidates
  /\ step \in Steps /\ {offerer, stronger} \subseteq Peers /\ round \in 0 .. network.rounds
  /\ losses \in 0 .. network.losses /\ lates \in 0 .. network.lates
  /\ mishaps \subseteq {"overtaken", "stale", "broken"}

\* Nothing is on its way and nobody waits for anything but the 15 seconds of connect().
Quiet ==
  /\ step = "stable" /\ net = {} /\ checks = {}
  /\ \A p \in Peers : /\ candidates[p] = << >> /\ tasks[p] = {}
                      /\ \A r \in runs[p] : r.at = "waiting"

BothNominated == \A p \in Peers : agent[p].nominated # None
Undisturbed == losses = 0 /\ lates = 0

\* Two agents with one address each that began in the same role have settled on
\* different ones when they have found each other, although each error 487 switches the
\* role while checks that were sent in the old one are still on their way
\* (_handleRoleConflict and the retries of _performConnectivityCheck).
RolesAgree ==
  Quiet /\ Undisturbed /\ BothNominated /\ (\A p \in Peers : Len(Hosts(p)) = 1) =>
    \E p \in Peers : agent[p].controlling /\ ~agent[Other(p)].controlling

\* Whatever is lost or late, and however a restart falls among checks, runs of connect()
\* and new candidates, but for two mishaps: at rest the nominated pair of an agent leads
\* to a socket that the other has open now (restart, _performConnectivityChecks).
NominatedReachesPeer ==
  Quiet /\ mishaps \cap {"overtaken", "stale"} = {} =>
    \A p \in Peers :
      agent[p].nominated # None =>
        LET c == agent[p].nominated.remote
        IN  c[1] \in ToSet(agent[Other(p)].bound) /\ c[2] = agent[Other(p)].generation

Rounds == UNION {1 .. n.rounds : n \in Networks}
FindsPath(excuses) ==
  \A n \in Rounds :
    step = "stable" /\ round = n ~> \/ BothNominated \/ round # n
                                    \/ ~Undisturbed \/ mishaps \cap excuses # {}

\* With a path that is open and no message lost or late, every negotiation leads to a
\* nominated pair at both ends, in whichever order candidates, descriptions and first
\* checks arrive (early checks, triggered checks, trickled candidates), but for three
\* mishaps.
PathIsFound == FindsPath({"overtaken", "stale", "broken"})

(* What follows the code does not keep: the README has the instances. *)

\* A connection that has failed has no nominated pair (ice_connection.dart:42).
FailedIsUnreachable ==
  \A p \in Peers : agent[p].state = "failed" => agent[p].nominated = None

\* The nominated pair is one between whose hosts packets pass.
NominatedIsReachable ==
  \A p \in Peers : LET ref == agent[p].nominated
                   IN  ref # None => {ref.local, ref.remote[1]} \notin network.blocked

\* The same when candidates overtake the offer of a restart, when a restart comes before
\* connect() has ended, and when a candidate comes while connect() is pacing.
OvertakenFindsPath == FindsPath({"stale", "broken"})
EarlyRestartFindsPath == FindsPath({"overtaken", "broken"})
TrickledFindsPath == FindsPath({"overtaken", "stale"})

\* The roles differ with several addresses too.
RolesDiffer ==
  Quiet /\ Undisturbed /\ BothNominated =>
    \E p \in Peers : agent[p].controlling /\ ~agent[Other(p)].controlling

\* A nominated pair stays until the next restart: DTLS is running over it.
NominatedStays ==
  [][\A p \in Peers : agent[p].nominated # None =>
       agent'[p].nominated = agent[p].nominated \/ agent'[p].generation # agent[p].generation]_vars
=============================================================================
