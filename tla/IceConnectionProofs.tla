------------------------ MODULE IceConnectionProofs ------------------------
(***************************************************************************)
(* IceConnection for any addresses and blocked pairs of addresses, any     *)
(* number of negotiations, lost messages and late answers: whatever an     *)
(* agent has learned of the other's addresses since its last restart is    *)
(* open at the other end, unless a restart was overtaken by a candidate.   *)
(***************************************************************************)
EXTENDS IceConnection, FiniteSetTheorems, WellFoundedInduction, TLAPS

-----------------------------------------------------------------------------
(* The invariant.  First what the values are: an agent knows addresses of the *)
(* other one only, and its pairs, checks and messages are between the two.    *)

Generations == 0 .. network.rounds
Known(p) == ToSet(Hosts(Other(p))) \X Generations
Pairs(p) == [local : ToSet(Hosts(p)), remote : Known(p), state : PairStates]
Refs(p) == [generation : Nat, place : Nat, local : ToSet(Hosts(p)), remote : Known(p)]

CheckIds == Peers \X Nat \X Nat
RequestsTo(p) == [type : {"request"}, check : CheckIds, controlling : BOOLEAN,
                  from : Known(p), to : Known(Other(p))]
Answers == [type : {"success", "conflict"}, check : CheckIds, from : Candidates, to : Candidates]

Connections(p) ==
  [state : IceStates, controlling : BOOLEAN, generation : Generations,
   bound : Seq(ToSet(Hosts(p))), remotes : Seq(Known(p)), list : Seq(Pairs(p)),
   nominated : Refs(p) \cup {None}, early : Seq(RequestsTo(p)),
   earlyDone : BOOLEAN, called : BOOLEAN]
Runs(p) == [id : Nat, at : {"gathering", "pacing", "waiting"}, next : Nat \ {0}, length : Nat,
            success : Refs(p) \cup {None}]

\* The pairs of a list are made of addresses in use.
Listed(a) ==
  /\ \A i \in DOMAIN a.list : a.list[i].remote \in ToSet(a.remotes)
  /\ a.list # << >> => a.bound # << >>

\* What belongs to an agent a, which is p's: a run of connect(), a task, a check.  Those
\* of this generation lead to remote candidates that a has.
IsRun(p, a, r) ==
  /\ r \in Runs(p) /\ r.id <= a.generation
  /\ r.id = a.generation /\ r.success # None => r.success.remote \in ToSet(a.remotes)
IsTask(p, a, t) ==
  /\ t \in Seq(Refs(p)) /\ Len(t) \in 1 .. Len(Hosts(p))
  /\ \A i \in DOMAIN t : t[i].remote \in ToSet(a.remotes)
IsCheck(p, a, c) ==
  /\ c.by = p /\ c.ref \in Refs(p) /\ c.tries \in 0 .. Retries
  /\ c.ref.remote \in ToSet(a.remotes)

Parts ==
  /\ network \in Networks /\ stronger \in Peers /\ offerer \in Peers
  /\ step \in Steps /\ round \in Generations
  /\ losses \in 0 .. network.losses /\ lates \in 0 .. network.lates
  /\ mishaps \subseteq {"overtaken", "stale", "broken"}
  /\ DOMAIN agent = Peers /\ DOMAIN runs = Peers /\ DOMAIN tasks = Peers
  /\ DOMAIN candidates = Peers
  /\ \A p \in Peers :
       /\ agent[p] \in Connections(p) /\ IsPrefix(agent[p].bound, Hosts(p)) /\ Listed(agent[p])
       /\ \A r \in runs[p] : IsRun(p, agent[p], r)
       /\ \A t \in tasks[p] : IsTask(p, agent[p], t)
       /\ candidates[p] \in Seq(Known(p))
  /\ \A c \in checks : \E p \in Peers : IsCheck(p, agent[p], c)
  /\ \A m \in net : m \in Answers \/ \E p \in Peers : m \in RequestsTo(p)

\* An agent that has had no part in a negotiation yet.
Idle(p) == round = 0 \/ (round = 1 /\ p # offerer /\ step \in {"offering", "offered", "taken"})

\* The offerer has restarted, and the other one has yet to take the offer.
Behind == round > 1 /\ step \in {"offering", "offered"}

\* Where the negotiation and the gathering are.
Course(p) ==
  /\ agent[p].generation = IF round = 0 THEN 0 ELSE IF Behind /\ p # offerer THEN round - 2
                           ELSE round - 1
  /\ agent[p].state = "new" => Idle(p)
  /\ Idle(p) => agent[p].bound = << >> /\ runs[p] = {}
  /\ Describing(p) \/ (\E r \in runs[p] : r.at = "gathering") =>
       agent[p].state # "new" /\ Len(agent[p].bound) < Len(Hosts(p))
  /\ Behind => (\A r \in runs[p] : r.at # "gathering") /\ candidates[offerer] = << >>

Progress == (step # "stable" => round # 0) /\ \A p \in Peers : Course(p)

\* What an agent has learned of the other one's addresses.
Learned(a) == ToSet(a.remotes) \cup {m.from : m \in ToSet(a.early)}

\* A candidate of the new generation has come before the offer.
Pending == Behind /\ \E c \in ToSet(agent[Other(offerer)].remotes) : c[2] = agent[offerer].generation

\* The addresses of the other one that p may have learned, and when that can be said.
Open(p) == IF Behind THEN {} ELSE ToSet(agent[Other(p)].bound) \X {agent[Other(p)].generation}
Trusted(p) == "overtaken" \notin mishaps /\ (Behind => p = offerer /\ ~Pending)

\* A request for the present sockets of p.
Concerns(p, m) == m \in RequestsTo(p) /\ m.to[2] = agent[p].generation

Reach ==
  \A p \in Peers :
    /\ ToSet(candidates[p]) \subseteq
         ToSet(agent[Other(p)].bound) \X {agent[Other(p)].generation}
    /\ agent[p].nominated # None /\ "stale" \notin mishaps =>
         agent[p].nominated.remote \in ToSet(agent[p].remotes)
    /\ Trusted(p) => /\ Learned(agent[p]) \subseteq Open(p)
                     /\ \A m \in net : Concerns(p, m) => m.from \in Open(p)

IceInv == Parts /\ Progress /\ Reach

-----------------------------------------------------------------------------
(* Numbers, sequences, agents *)

\* A set of numbers has a least one.
LEMMA LeastNumber ==
  ASSUME NEW S \in SUBSET Nat, S # {}
  PROVE  \E k \in S : \A j \in S : k <= j
<1> DEFINE R == OpToRel(<, Nat)
<1>1. IsWellFoundedOn(R, Nat)
  BY NatLessThanWellFounded
<1>2. \A x, y \in Nat : <<x, y>> \in R <=> x < y
  BY DEF OpToRel
<1> HIDE DEF R
<1>3. PICK k \in S : \A j \in S : ~(<<j, k>> \in R)
  BY <1>1, WFMin
<1>4. ASSUME NEW j \in S PROVE k <= j
  <2>1. j \in Nat /\ k \in Nat
    OBVIOUS
  <2>2. ~(j < k)
    BY <1>2, <1>3, <2>1
  <2> QED
    BY <2>1, <2>2
<1> QED
  BY <1>4

LEMMA Others ==
  ASSUME NEW p \in Peers
  PROVE  /\ Other(p) \in Peers /\ Other(p) # p /\ Other(Other(p)) = p
         /\ \A q \in Peers : q = p \/ q = Other(p)
  BY PeersAssumption DEF Other

LEMMA HostsTyped ==
  ASSUME network \in Networks, NEW p \in Peers
  PROVE  /\ Hosts(p) \in Seq(ToSet(Hosts(p))) /\ Len(Hosts(p)) \in Nat \ {0}
         /\ ToSet(Hosts(p)) \cap ToSet(Hosts(Other(p))) = {}
<1>1. /\ Hosts(p) \in Seq(STRING) /\ Hosts(p) # << >>
      /\ ToSet(Hosts(p)) \cap ToSet(Hosts(Other(p))) = {}
  BY NetworksAssumption, Others DEF Hosts
<1> QED
  BY <1>1 DEF ToSet

LEMMA OwnerIs ==
  ASSUME network \in Networks, NEW p \in Peers, NEW host \in ToSet(Hosts(p))
  PROVE  Owner(host) = p
  BY HostsTyped, Others DEF Owner

LEMMA ToSetAppend ==
  ASSUME NEW S, NEW s \in Seq(S), NEW x
  PROVE  ToSet(Append(s, x)) = ToSet(s) \cup {x}
  BY DEF ToSet

LEMMA ToSetTyped ==
  ASSUME NEW S, NEW s \in Seq(S)
  PROVE  /\ ToSet(s) \subseteq S /\ \A i \in DOMAIN s : s[i] \in ToSet(s) /\ i \in Nat
         /\ Len(s) \in Nat /\ DOMAIN s = 1 .. Len(s)
  BY DEF ToSet

LEMMA ToSetTail ==
  ASSUME NEW S, NEW s \in Seq(S), s # << >>
  PROVE  ToSet(Tail(s)) \subseteq ToSet(s) /\ Head(s) \in ToSet(s) /\ Tail(s) \in Seq(S)
         /\ Head(s) \in S
  BY DEF ToSet

-----------------------------------------------------------------------------
(* The queue of early checks.  The function that _processEarlyChecks goes     *)
(* through exists, and what each request keeps, all of them keep: in both     *)
(* cases the least number for which it fails is not one.                      *)

EarlyStart(a) == [agent |-> [a EXCEPT !.earlyDone = TRUE], out |-> {}]
Stages(p, a, n, f) ==
  f = [i \in 0 .. n |-> IF i = 0 THEN EarlyStart(a) ELSE Process(p, f[i - 1], a.early[i])]

LEMMA StagesExist ==
  ASSUME NEW p, NEW a, NEW n \in Nat
  PROVE  \E f : Stages(p, a, n, f)
<1> DEFINE T == {k \in Nat : ~\E f : Stages(p, a, k, f)}
<1> SUFFICES ASSUME T # {} PROVE FALSE
  OBVIOUS
<1>1. PICK k \in T : \A j \in T : k <= j
  <2>1. T \in SUBSET Nat
    OBVIOUS
  <2> HIDE DEF T
  <2> QED
    BY <2>1, LeastNumber
<1>2. k \in Nat /\ ~\E f : Stages(p, a, k, f)
  OBVIOUS
<1>3. CASE k = 0
  <2> DEFINE f == [i \in 0 .. 0 |-> EarlyStart(a)]
  <2>1. Stages(p, a, 0, f)
    BY DEF Stages
  <2> QED
    BY <1>2, <1>3, <2>1
<1>4. CASE k # 0
  <2>1. k - 1 \in Nat /\ k - 1 < k
    BY <1>2, <1>4
  <2>2. k - 1 \notin T
    BY <1>1, <1>2, <2>1
  <2>3. PICK f : Stages(p, a, k - 1, f)
    BY <2>1, <2>2
  <2> DEFINE g == [i \in 0 .. k |-> IF i = k THEN Process(p, f[k - 1], a.early[k]) ELSE f[i]]
  <2>4. ASSUME NEW i \in 0 .. k
        PROVE  g[i] = IF i = 0 THEN EarlyStart(a) ELSE Process(p, g[i - 1], a.early[i])
    <3>1. CASE i = k
      <4>1. g[i] = Process(p, f[k - 1], a.early[k]) /\ g[i - 1] = f[k - 1]
        BY <3>1, <2>1, <1>2
      <4> QED
        BY <4>1, <3>1, <1>4
    <3>2. CASE i # k
      <4>1. i \in 0 .. (k - 1) /\ (i # 0 => i - 1 \in 0 .. k /\ i - 1 # k)
        BY <3>2, <1>2
      <4>2. f[i] = IF i = 0 THEN EarlyStart(a) ELSE Process(p, f[i - 1], a.early[i])
        BY <2>3, <4>1 DEF Stages
      <4>3. g[i] = f[i] /\ (i # 0 => g[i - 1] = f[i - 1])
        BY <4>1, <3>2
      <4> QED
        BY <4>2, <4>3
    <3> QED
      BY <3>1, <3>2
  <2>5. g = [i \in 0 .. k |-> g[i]]
    OBVIOUS
  <2> HIDE DEF g
  <2>6. Stages(p, a, k, g)
    BY <2>4, <2>5 DEF Stages
  <2> QED
    BY <1>2, <2>6
<1> QED
  BY <1>3, <1>4

LEMMA EarlyStages ==
  ASSUME NEW p, NEW a, Len(a.early) \in Nat
  PROVE  \E f : /\ Stages(p, a, Len(a.early), f)
                /\ ProcessEarly(p, a) = [f[Len(a.early)] EXCEPT !.agent.early = << >>]
<1> DEFINE n == Len(a.early)
           after == CHOOSE f : Stages(p, a, n, f)
<1>1. Stages(p, a, n, after)
  BY StagesExist
<1>2. ProcessEarly(p, a) = [after[n] EXCEPT !.agent.early = << >>]
  BY DEF ProcessEarly, Stages, EarlyStart
<1> QED
  BY <1>1, <1>2

-----------------------------------------------------------------------------
(* What handlers do to an agent *)

Sound(p, a) == a \in Connections(p) /\ IsPrefix(a.bound, Hosts(p)) /\ Listed(a)

\* In one generation an agent forgets nothing but queued checks, and learns nothing but
\* the addresses in new.
Advances(p, a, b, new) ==
  /\ Sound(p, b) /\ b.generation = a.generation
  /\ ToSet(a.bound) \subseteq ToSet(b.bound) /\ ToSet(a.remotes) \subseteq ToSet(b.remotes)
  /\ Learned(b) \subseteq Learned(a) \cup new
  /\ b.nominated = a.nominated \/ b.nominated.remote \in ToSet(b.remotes)

\* And outside the gathering it opens no socket.
Steady(a, b) == b.bound = a.bound /\ (a.state # "new" => b.state # "new")

LEMMA AdvancesReflexive ==
  ASSUME NEW p, NEW a, Sound(p, a)
  PROVE  Advances(p, a, a, {}) /\ Steady(a, a)
  BY DEF Advances, Steady

LEMMA AdvancesTransitive ==
  ASSUME NEW p, NEW a, NEW b, NEW c, NEW x, NEW y,
         Advances(p, a, b, x), Advances(p, b, c, y)
  PROVE  Advances(p, a, c, x \cup y)
<1>1. c.nominated = a.nominated \/ c.nominated.remote \in ToSet(c.remotes)
  BY DEF Advances
<1>2. Learned(c) \subseteq Learned(a) \cup (x \cup y)
  BY DEF Advances
<1> QED
  BY <1>1, <1>2 DEF Advances

LEMMA SteadyTransitive ==
  ASSUME NEW a, NEW b, NEW c, Steady(a, b), Steady(b, c)
  PROVE  Steady(a, c)
  BY DEF Steady

\* Each field on its own.
LEMMA UpdatesTyped ==
  ASSUME NEW p, NEW a \in Connections(p)
  PROVE  /\ \A s \in IceStates : [a EXCEPT !.state = s] \in Connections(p)
         /\ \A x \in BOOLEAN : [a EXCEPT !.controlling = x] \in Connections(p)
         /\ [a EXCEPT !.called = TRUE] \in Connections(p)
         /\ [a EXCEPT !.earlyDone = TRUE] \in Connections(p)
         /\ \A r \in Refs(p) : [a EXCEPT !.nominated = r] \in Connections(p)
         /\ \A e \in Seq(RequestsTo(p)) : [a EXCEPT !.early = e] \in Connections(p)
         /\ \A c \in Seq(Known(p)) : [a EXCEPT !.remotes = c] \in Connections(p)
         /\ \A l \in Seq(Pairs(p)) : [a EXCEPT !.list = l] \in Connections(p)
         /\ \A b \in Seq(ToSet(Hosts(p))) : [a EXCEPT !.bound = b] \in Connections(p)
  BY DEF Connections

\* Changes that leave addresses and pairs alone.
Alike(a, b) ==
  /\ b.generation = a.generation /\ b.bound = a.bound /\ b.remotes = a.remotes
  /\ b.list = a.list /\ b.early = a.early

LEMMA AlikeSound ==
  ASSUME NEW p, NEW a, Sound(p, a), NEW b \in Connections(p), Alike(a, b)
  PROVE  Sound(p, b) /\ Learned(b) = Learned(a)
  BY DEF Sound, Alike, Listed, Learned

LEMMA StateSet ==
  ASSUME NEW p, NEW a, Sound(p, a), NEW s \in IceStates \ {"new"}
  PROVE  LET b == [a EXCEPT !.state = s]
         IN  Advances(p, a, b, {}) /\ Steady(a, b) /\ Alike(a, b) /\ b.state = s
                /\ b.nominated = a.nominated
<1> DEFINE b == [a EXCEPT !.state = s]
<1>1. a \in Connections(p) /\ b \in Connections(p)
  BY UpdatesTyped DEF Sound
<1>2. Alike(a, b) /\ b.nominated = a.nominated /\ b.state = s
  BY <1>1 DEF Alike, Connections
<1> QED
  BY <1>1, <1>2, AlikeSound DEF Advances, Steady, Alike

LEMMA CalledSet ==
  ASSUME NEW p, NEW a, Sound(p, a)
  PROVE  LET b == [a EXCEPT !.called = TRUE]
         IN  Advances(p, a, b, {}) /\ Steady(a, b) /\ Alike(a, b) /\ b.state = a.state
<1> DEFINE b == [a EXCEPT !.called = TRUE]
<1>1. a \in Connections(p) /\ b \in Connections(p)
  BY UpdatesTyped DEF Sound
<1>2. Alike(a, b) /\ b.nominated = a.nominated /\ b.state = a.state
  BY <1>1 DEF Alike, Connections
<1> QED
  BY <1>1, <1>2, AlikeSound DEF Advances, Steady, Alike

LEMMA EarlyDoneSet ==
  ASSUME NEW p, NEW a, Sound(p, a)
  PROVE  LET b == [a EXCEPT !.earlyDone = TRUE]
         IN  Advances(p, a, b, {}) /\ Steady(a, b) /\ Alike(a, b)
<1> DEFINE b == [a EXCEPT !.earlyDone = TRUE]
<1>1. a \in Connections(p) /\ b \in Connections(p)
  BY UpdatesTyped DEF Sound
<1>2. Alike(a, b) /\ b.nominated = a.nominated /\ b.state = a.state
  BY <1>1 DEF Alike, Connections
<1> QED
  BY <1>1, <1>2, AlikeSound DEF Advances, Steady, Alike

\* The role, as it is or switched.
LEMMA RoleSet ==
  ASSUME NEW p, NEW a, Sound(p, a), NEW x \in BOOLEAN
  PROVE  LET b == [a EXCEPT !.controlling = x]
         IN  Advances(p, a, b, {}) /\ Steady(a, b) /\ Alike(a, b)
<1> DEFINE b == [a EXCEPT !.controlling = x]
<1>1. a \in Connections(p) /\ b \in Connections(p)
  BY UpdatesTyped DEF Sound
<1>2. Alike(a, b) /\ b.nominated = a.nominated /\ b.state = a.state
  BY <1>1 DEF Alike, Connections
<1> QED
  BY <1>1, <1>2, AlikeSound DEF Advances, Steady, Alike

LEMMA NominateAdvances ==
  ASSUME NEW p, NEW a, Sound(p, a), NEW ref \in Refs(p)
  PROVE  /\ Sound(p, Nominate(a, ref)) /\ Alike(a, Nominate(a, ref)) /\ Steady(a, Nominate(a, ref))
         /\ Nominate(a, ref).nominated = ref
         /\ ref.remote \in ToSet(a.remotes) => Advances(p, a, Nominate(a, ref), {})
<1> DEFINE c == [a EXCEPT !.nominated = ref]
           b == [c EXCEPT !.state = "completed"]
<1>1. Nominate(a, ref) = b
  BY DEF Nominate
<1>2. a \in Connections(p) /\ c \in Connections(p) /\ b \in Connections(p)
  BY UpdatesTyped DEF Sound, IceStates
<1>3. Alike(a, c) /\ c.nominated = ref
  BY <1>2 DEF Alike, Connections
<1>4. Alike(c, b) /\ b.nominated = c.nominated /\ b.state = "completed"
  BY <1>2 DEF Alike, Connections
<1>5. Alike(a, b) /\ b.nominated = ref /\ b.state = "completed"
  BY <1>3, <1>4 DEF Alike
<1> HIDE DEF b, c
<1> QED
  BY <1>1, <1>2, <1>5, AlikeSound DEF Advances, Steady, Alike

LEMMA WorkedAdvances ==
  ASSUME NEW p, NEW a, Sound(p, a), NEW ref \in Refs(p), ref.remote \in ToSet(a.remotes)
  PROVE  Advances(p, a, Worked(a, ref), {}) /\ Steady(a, Worked(a, ref)) /\ Alike(a, Worked(a, ref))
<1>1. CASE a.nominated = None
  BY <1>1, NominateAdvances DEF Worked, Nominate
<1>2. CASE a.nominated # None
  <2> DEFINE s == IF a.state = "checking" THEN "connected" ELSE a.state
             b == [a EXCEPT !.state = s]
  <2>1. Worked(a, ref) = b
    BY <1>2 DEF Worked
  <2>2. a \in Connections(p) /\ s \in IceStates /\ (a.state # "new" => s # "new")
    BY DEF Sound, Connections, IceStates
  <2> HIDE DEF s
  <2>3. b \in Connections(p)
    BY <2>2, UpdatesTyped
  <2>4. Alike(a, b) /\ b.nominated = a.nominated /\ b.state = s
    BY <2>2 DEF Alike, Connections
  <2> HIDE DEF b
  <2> QED
    BY <2>1, <2>2, <2>3, <2>4, AlikeSound DEF Advances, Steady, Alike
<1> QED
  BY <1>1, <1>2

\* The state of a pair.
Marked(l, k, s) == [l EXCEPT ![k].state = s]

LEMMA MarkedList ==
  ASSUME NEW p, NEW l \in Seq(Pairs(p)), NEW k, NEW s \in PairStates
  PROVE  /\ Marked(l, k, s) \in Seq(Pairs(p)) /\ DOMAIN Marked(l, k, s) = DOMAIN l
         /\ Len(Marked(l, k, s)) = Len(l)
         /\ \A i \in DOMAIN l : Marked(l, k, s)[i].remote = l[i].remote
<1> DEFINE l2 == [l EXCEPT ![k].state = s]
<1>1. DOMAIN l2 = DOMAIN l /\ DOMAIN l = 1 .. Len(l) /\ Len(l) \in Nat
  OBVIOUS
<1>2. ASSUME NEW i \in DOMAIN l PROVE l2[i] \in Pairs(p) /\ l2[i].remote = l[i].remote
  <2>1. l[i] \in Pairs(p)
    OBVIOUS
  <2>2. CASE i = k
    <3>1. l2[i] = [l[i] EXCEPT !.state = s]
      BY <2>2
    <3> QED
      BY <2>1, <3>1 DEF Pairs
  <2>3. CASE i # k
    BY <2>1, <2>3
  <2> QED
    BY <2>2, <2>3
<1> HIDE DEF l2
<1>3. l2 = [i \in 1 .. Len(l) |-> l2[i]]
  BY <1>1 DEF l2
<1>4. l2 \in Seq(Pairs(p)) /\ Len(l2) = Len(l)
  BY <1>1, <1>2, <1>3
<1>5. l2 = Marked(l, k, s)
  BY DEF l2, Marked
<1> QED
  BY <1>1, <1>2, <1>4, <1>5 DEF l2

LEMMA WithPairStateAdvances ==
  ASSUME NEW p, NEW a, Sound(p, a), NEW ref, NEW s \in PairStates
  PROVE  LET b == WithPairState(a, ref, s)
         IN  /\ Advances(p, a, b, {}) /\ Steady(a, b)
             /\ b.remotes = a.remotes /\ b.early = a.early /\ b.nominated = a.nominated
             /\ b.state = a.state /\ Len(b.list) = Len(a.list)
<1> DEFINE l == Marked(a.list, ref.place, s)
           b == [a EXCEPT !.list = l]
<1>1. CASE ref.generation = a.generation
  <2>1. WithPairState(a, ref, s) = b
    BY <1>1 DEF WithPairState, Marked
  <2>2. a \in Connections(p) /\ a.list \in Seq(Pairs(p))
    BY DEF Sound, Connections
  <2>3. /\ l \in Seq(Pairs(p)) /\ DOMAIN l = DOMAIN a.list /\ Len(l) = Len(a.list)
        /\ \A i \in DOMAIN a.list : l[i].remote = a.list[i].remote
    BY <2>2, MarkedList
  <2> HIDE DEF l
  <2>4. b \in Connections(p)
    BY <2>2, <2>3, UpdatesTyped
  <2>5. /\ b.generation = a.generation /\ b.bound = a.bound /\ b.remotes = a.remotes
        /\ b.list = l /\ b.early = a.early /\ b.nominated = a.nominated /\ b.state = a.state
    BY <2>2 DEF Connections
  <2> HIDE DEF b
  <2>6. l # << >> => a.list # << >>
    BY <2>2, <2>3
  <2>7. Sound(p, b) /\ Learned(b) = Learned(a)
    BY <2>3, <2>4, <2>5, <2>6 DEF Sound, Listed, Learned
  <2> QED
    BY <2>1, <2>3, <2>5, <2>7 DEF Advances, Steady
<1>2. CASE ref.generation # a.generation
  <2>1. WithPairState(a, ref, s) = a
    BY <1>2 DEF WithPairState
  <2> QED
    BY <2>1, AdvancesReflexive
<1> QED
  BY <1>1, <1>2

\* A reference to a pair of the list.
LEMMA RefTyped ==
  ASSUME NEW p, NEW a, Sound(p, a), NEW k \in DOMAIN a.list
  PROVE  Ref(a, k) \in Refs(p) /\ Ref(a, k).remote \in ToSet(a.remotes)
         /\ Ref(a, k).generation = a.generation
<1>1. a.list[k] \in Pairs(p) /\ a.generation \in Nat /\ k \in Nat
  BY DEF Sound, Connections, Generations
<1>2. a.list[k].remote \in ToSet(a.remotes)
  BY DEF Sound, Listed
<1> QED
  BY <1>1, <1>2 DEF Ref, Refs, Pairs

\* A new remote candidate with a pair, or with several.
Longer(a, remote, more) == [a EXCEPT !.remotes = Append(@, remote), !.list = @ \o more]

PairsWith(p, a, remote, more) ==
  /\ more \in Seq(Pairs(p)) /\ \A i \in DOMAIN more : more[i].remote = remote
  /\ more # << >> => a.bound # << >>

LEMMA LongerList ==
  ASSUME NEW p, NEW a \in Connections(p), NEW remote, NEW more
  PROVE  Longer(a, remote, more).list = a.list \o more
  BY DEF Longer, Connections

LEMMA Extended ==
  ASSUME NEW p, NEW a, Sound(p, a), NEW remote \in Known(p), NEW more,
         PairsWith(p, a, remote, more)
  PROVE  /\ Advances(p, a, Longer(a, remote, more), {remote})
         /\ Steady(a, Longer(a, remote, more))
         /\ Longer(a, remote, more).nominated = a.nominated
         /\ remote \in ToSet(Longer(a, remote, more).remotes)
         /\ Longer(a, remote, more).state = a.state
<1> DEFINE r == Append(a.remotes, remote)
           l == a.list \o more
           c == [a EXCEPT !.remotes = r]
           b == [c EXCEPT !.list = l]
<1>1. Longer(a, remote, more) = b
  BY DEF Sound, Connections, Longer
<1>2. /\ a \in Connections(p) /\ a.list \in Seq(Pairs(p)) /\ a.remotes \in Seq(Known(p))
      /\ more \in Seq(Pairs(p)) /\ (\A i \in DOMAIN more : more[i].remote = remote)
      /\ (more # << >> => a.bound # << >>)
  BY DEF Sound, Connections, PairsWith
<1>3. r \in Seq(Known(p)) /\ ToSet(r) = ToSet(a.remotes) \cup {remote}
  BY <1>2, ToSetAppend
<1>4. l \in Seq(Pairs(p)) /\ (l # << >> => a.list # << >> \/ more # << >>)
  BY <1>2
<1>5. ASSUME NEW i \in DOMAIN l PROVE l[i].remote \in ToSet(a.remotes) \cup {remote}
  <2>1. /\ i \in 1 .. (Len(a.list) + Len(more)) /\ Len(a.list) \in Nat /\ Len(more) \in Nat
        /\ l[i] = IF i <= Len(a.list) THEN a.list[i] ELSE more[i - Len(a.list)]
    BY <1>2
  <2>2. CASE i <= Len(a.list)
    BY <1>2, <2>1, <2>2 DEF Sound, Listed
  <2>3. CASE i > Len(a.list)
    <3>1. i - Len(a.list) \in DOMAIN more
      BY <2>1, <2>3
    <3> QED
      BY <1>2, <2>1, <2>3, <3>1
  <2> QED
    BY <2>1, <2>2, <2>3
<1> HIDE DEF r, l
<1>6. c \in Connections(p) /\ b \in Connections(p)
  BY <1>2, <1>3, <1>4, UpdatesTyped
<1>7. /\ b.generation = a.generation /\ b.bound = a.bound /\ b.remotes = r
      /\ b.list = l /\ b.early = a.early /\ b.nominated = a.nominated /\ b.state = a.state
  BY <1>2, <1>6 DEF Connections
<1> HIDE DEF c, b
<1>8. Listed(b)
  <2>1. \A i \in DOMAIN b.list : b.list[i].remote \in ToSet(b.remotes)
    BY <1>3, <1>5, <1>7
  <2>2. b.list # << >> => b.bound # << >>
    BY <1>2, <1>4, <1>7 DEF Sound, Listed
  <2> QED
    BY <2>1, <2>2 DEF Listed
<1>9. Learned(b) = Learned(a) \cup {remote}
  BY <1>3, <1>7 DEF Learned
<1> QED
  BY <1>1, <1>3, <1>6, <1>7, <1>8, <1>9 DEF Advances, Steady, Sound, l

\* The pair that a check from an unknown address adds.
Added(a, remote) ==
  [a EXCEPT !.remotes = Append(@, remote), !.list = Append(@, Pair(a.bound[1], remote))]

LEMMA AddedAdvances ==
  ASSUME NEW p, NEW a, Sound(p, a), a.bound # << >>, NEW remote \in Known(p)
  PROVE  /\ Sound(p, Added(a, remote)) /\ Advances(p, a, Added(a, remote), {remote})
         /\ Steady(a, Added(a, remote))
         /\ Len(Added(a, remote).list) \in DOMAIN Added(a, remote).list
<1> DEFINE new == Pair(a.bound[1], remote)
           more == <<new>>
<1>1. a.bound \in Seq(ToSet(Hosts(p))) /\ a.list \in Seq(Pairs(p)) /\ a \in Connections(p)
  BY DEF Sound, Connections
<1>2. new \in Pairs(p) /\ new.remote = remote
  <2>1. a.bound[1] \in ToSet(Hosts(p))
    BY <1>1
  <2> QED
    BY <2>1 DEF Pair, Pairs, PairStates
<1>3. Added(a, remote) = Longer(a, remote, more)
  <2> HIDE DEF new
  <2>1. Append(a.list, new) = a.list \o <<new>>
    BY <1>1, <1>2
  <2> QED
    BY <2>1, <1>1 DEF Longer, Added, new
<1> HIDE DEF new
<1>4. more \in Seq(Pairs(p)) /\ Len(more) = 1 /\ PairsWith(p, a, remote, more)
  BY <1>2 DEF PairsWith
<1> HIDE DEF more
<1>5. /\ Advances(p, a, Longer(a, remote, more), {remote}) /\ Steady(a, Longer(a, remote, more))
  BY <1>4, Extended
<1>8. Longer(a, remote, more).list = a.list \o more
  BY <1>1, LongerList
<1>6. Len(a.list \o more) \in DOMAIN (a.list \o more)
  <2>1. \A s \in Seq(Pairs(p)) : Len(s) \in Nat /\ DOMAIN s = 1 .. Len(s)
    OBVIOUS
  <2>2. \A s, t \in Seq(Pairs(p)) : s \o t \in Seq(Pairs(p)) /\ Len(s \o t) = Len(s) + Len(t)
    OBVIOUS
  <2>3. Len(a.list \o more) = Len(a.list) + 1 /\ Len(a.list) \in Nat
    BY <1>1, <1>4, <2>1, <2>2
  <2>4. DOMAIN (a.list \o more) = 1 .. Len(a.list \o more)
    BY <1>1, <1>4, <2>1, <2>2
  <2> QED
    BY <2>3, <2>4
<1>7. Len(Added(a, remote).list) \in DOMAIN Added(a, remote).list
  BY <1>3, <1>6, <1>8
<1> QED
  BY <1>3, <1>5, <1>7 DEF Advances

LEMMA TriggeredAdvances ==
  ASSUME NEW p, NEW a, Sound(p, a), a.bound # << >>, NEW remote \in Known(p)
  PROVE  Advances(p, a, Triggered(a, remote), {remote}) /\ Steady(a, Triggered(a, remote))
<1> DEFINE known == {k \in DOMAIN a.list : a.list[k].remote = remote}
           first == CHOOSE k \in known : \A j \in known : k <= j
           added == Added(a, remote)
           base == IF known = {} THEN added ELSE a
           ref == IF known = {} THEN Ref(added, Len(added.list)) ELSE Ref(a, first)
           marked == WithPairState(base, ref, "succeeded")
<1>1. Triggered(a, remote) = IF known # {} /\ a.list[first].state = "succeeded" THEN a
                             ELSE Worked(marked, ref)
  BY DEF Triggered, Added
<1>2. Sound(p, base) /\ Advances(p, a, base, {remote}) /\ Steady(a, base)
      /\ ref \in Refs(p) /\ ref.remote \in ToSet(base.remotes)
  <2>1. CASE known = {}
    <3> HIDE DEF added, known
    <3>1. /\ Sound(p, added) /\ Advances(p, a, added, {remote}) /\ Steady(a, added)
          /\ Len(added.list) \in DOMAIN added.list
      BY AddedAdvances DEF added
    <3>2. Ref(added, Len(added.list)) \in Refs(p)
          /\ Ref(added, Len(added.list)).remote \in ToSet(added.remotes)
      BY <3>1, RefTyped
    <3> QED
      BY <2>1, <3>1, <3>2
  <2>2. CASE known # {}
    <3>1. known \in SUBSET Nat
      BY ToSetTyped DEF Sound, Connections
    <3>2. first \in DOMAIN a.list
      <4> HIDE DEF known
      <4>1. \E k \in known : \A j \in known : k <= j
        BY <2>2, <3>1, LeastNumber
      <4>2. first \in known
        BY <4>1
      <4> QED
        BY <4>2 DEF known
    <3> HIDE DEF first
    <3>3. ref \in Refs(p) /\ ref.remote \in ToSet(a.remotes)
      BY <2>2, <3>2, RefTyped
    <3>4. Advances(p, a, a, {}) /\ Steady(a, a)
      BY AdvancesReflexive
    <3> QED
      BY <2>2, <3>3, <3>4 DEF Advances
  <2> QED
    BY <2>1, <2>2
<1> HIDE DEF base, ref
<1>3. Advances(p, base, marked, {}) /\ Steady(base, marked) /\ marked.remotes = base.remotes
  BY <1>2, WithPairStateAdvances DEF PairStates
<1> HIDE DEF marked
<1>4. Advances(p, marked, Worked(marked, ref), {}) /\ Steady(marked, Worked(marked, ref))
  BY <1>2, <1>3, WorkedAdvances DEF Advances
<1>5. Advances(p, a, Worked(marked, ref), {remote} \cup {} \cup {})
  BY <1>2, <1>3, <1>4, AdvancesTransitive
<1>6. Steady(a, Worked(marked, ref))
  BY <1>2, <1>3, <1>4, SteadyTransitive
<1>7. Advances(p, a, a, {remote}) /\ Steady(a, a)
  BY AdvancesReflexive DEF Advances
<1>8. {remote} \cup {} \cup {} = {remote}
  OBVIOUS
<1> QED
  BY <1>1, <1>5, <1>6, <1>7, <1>8

-----------------------------------------------------------------------------
(* What handlers send *)

\* A message that an agent sends: a request goes from one of its open sockets to a
\* candidate that it knows.
Sent(p, a, m) ==
  \/ m \in Answers
  \/ /\ m \in RequestsTo(Other(p)) /\ m.from \in ToSet(a.bound) \X {a.generation}
     /\ m.to \in ToSet(a.remotes)

LEMMA KnownCandidates ==
  ASSUME NEW p \in Peers
  PROVE  Known(p) \subseteq Candidates /\ Known(Other(p)) \subseteq Candidates
  BY Others DEF Known, Candidates, Generations

LEMMA AnswerTyped ==
  ASSUME NEW p \in Peers, NEW m \in RequestsTo(p), NEW type \in {"success", "conflict"}
  PROVE  Carried(Answer(m, type)) \subseteq Answers
<1>1. m.check \in CheckIds /\ m.from \in Candidates /\ m.to \in Candidates
  BY KnownCandidates DEF RequestsTo
<1> QED
  BY <1>1 DEF Carried, Answer, Answers

LEMMA SentStays ==
  ASSUME NEW p, NEW a, NEW b, NEW x, NEW m, Sent(p, a, m), Advances(p, a, b, x)
  PROVE  Sent(p, b, m)
  BY DEF Sent, Advances

\* The result of handling a request.
IsReply(p, a, new, r) ==
  /\ r = [agent |-> r.agent, out |-> r.out]
  /\ Advances(p, a, r.agent, new) /\ Steady(a, r.agent) /\ r.out \subseteq Answers

LEMMA ProcessReplies ==
  ASSUME NEW p \in Peers, NEW a, a.bound # << >>, NEW x, NEW r, IsReply(p, a, x, r),
         NEW m \in RequestsTo(p)
  PROVE  IsReply(p, a, x \cup {m.from}, Process(p, r, m))
<1> DEFINE b == r.agent
           conflict == m.controlling = b.controlling
           role == IF conflict THEN ~b.controlling ELSE b.controlling
           turned == [b EXCEPT !.controlling = role]
           handled == Triggered(turned, m.from)
<1>1. Sound(p, b) /\ b \in Connections(p) /\ b.bound # << >> /\ Advances(p, a, b, x) /\ Steady(a, b)
  BY DEF IsReply, Advances, Sound, Steady
<1>2. CASE conflict /\ ~Yields(p)
  <2>1. Process(p, r, m) = [r EXCEPT !.out = @ \cup Carried(Answer(m, "conflict"))]
    BY <1>2 DEF Process
  <2>2. Process(p, r, m) = [agent |-> r.agent, out |-> r.out \cup Carried(Answer(m, "conflict"))]
    BY <2>1 DEF IsReply
  <2>3. Carried(Answer(m, "conflict")) \subseteq Answers
    BY AnswerTyped
  <2>4. Advances(p, a, b, x \cup {m.from})
    BY <1>1 DEF Advances
  <2> QED
    BY <2>2, <2>3, <2>4, <1>1 DEF IsReply
<1>3. CASE ~(conflict /\ ~Yields(p))
  <2>1. Process(p, r, m) = [agent |-> handled, out |-> r.out \cup Carried(Answer(m, "success"))]
    BY <1>3 DEF Process
  <2>2. Carried(Answer(m, "success")) \subseteq Answers
    BY AnswerTyped
  <2>3. role \in BOOLEAN
    <3>1. b.controlling \in BOOLEAN
      BY <1>1 DEF Connections
    <3> QED
      BY <3>1
  <2> HIDE DEF role
  <2>4. Advances(p, b, turned, {}) /\ Steady(b, turned) /\ Sound(p, turned) /\ turned.bound # << >>
    BY <1>1, <2>3, RoleSet DEF Advances, Steady
  <2> HIDE DEF turned
  <2>5. m.from \in Known(p)
    BY DEF RequestsTo
  <2>6. Advances(p, turned, handled, {m.from}) /\ Steady(turned, handled)
    BY <2>4, <2>5, TriggeredAdvances
  <2> HIDE DEF handled
  <2>7. Advances(p, a, handled, x \cup ({} \cup {m.from}))
    BY <1>1, <2>4, <2>6, AdvancesTransitive
  <2>8. Steady(a, handled)
    BY <1>1, <2>4, <2>6, SteadyTransitive
  <2>9. x \cup ({} \cup {m.from}) = x \cup {m.from}
    OBVIOUS
  <2> QED
    BY <2>1, <2>2, <2>7, <2>8, <2>9 DEF IsReply
<1> QED
  BY <1>2, <1>3

\* The queue of early checks, longer or empty.
EarlyWith(a, e) == [a EXCEPT !.early = e]

LEMMA EarlySet ==
  ASSUME NEW p, NEW a, Sound(p, a), NEW e \in Seq(RequestsTo(p))
  PROVE  /\ Sound(p, EarlyWith(a, e)) /\ Steady(a, EarlyWith(a, e))
         /\ EarlyWith(a, e).generation = a.generation /\ EarlyWith(a, e).bound = a.bound
         /\ EarlyWith(a, e).remotes = a.remotes /\ EarlyWith(a, e).nominated = a.nominated
         /\ EarlyWith(a, e).early = e
<1> DEFINE b == [a EXCEPT !.early = e]
<1>1. a \in Connections(p) /\ b \in Connections(p)
  BY UpdatesTyped DEF Sound
<1>2. /\ b.generation = a.generation /\ b.bound = a.bound /\ b.remotes = a.remotes
      /\ b.list = a.list /\ b.nominated = a.nominated /\ b.state = a.state /\ b.early = e
  BY <1>1 DEF Connections
<1>3. EarlyWith(a, e) = b
  BY DEF EarlyWith
<1> HIDE DEF b
<1> QED
  BY <1>1, <1>2, <1>3 DEF Sound, Listed, Steady

LEMMA HandleReplies ==
  ASSUME NEW p \in Peers, NEW a, Sound(p, a), a.bound # << >>, NEW m \in RequestsTo(p)
  PROVE  IsReply(p, a, {m.from}, HandleRequest(p, a, m))
<1>1. CASE a.list = << >> /\ ~a.earlyDone
  <2> DEFINE e == Append(a.early, m)
             b == EarlyWith(a, e)
  <2>1. a.early \in Seq(RequestsTo(p))
    BY DEF Sound, Connections
  <2>2. e \in Seq(RequestsTo(p)) /\ ToSet(e) = ToSet(a.early) \cup {m}
    BY <2>1, ToSetAppend
  <2>3. HandleRequest(p, a, m) = [agent |-> b, out |-> {}]
    BY <1>1 DEF HandleRequest, EarlyWith
  <2> HIDE DEF e
  <2>4. /\ Sound(p, b) /\ Steady(a, b) /\ b.generation = a.generation /\ b.bound = a.bound
        /\ b.remotes = a.remotes /\ b.nominated = a.nominated /\ b.early = e
    BY <2>2, EarlySet
  <2> HIDE DEF b
  <2>5. Learned(b) \subseteq Learned(a) \cup {m.from}
    BY <2>2, <2>4 DEF Learned
  <2> QED
    BY <2>3, <2>4, <2>5 DEF IsReply, Advances
<1>2. CASE ~(a.list = << >> /\ ~a.earlyDone)
  <2> DEFINE r == [agent |-> a, out |-> {}]
  <2>1. HandleRequest(p, a, m) = Process(p, r, m)
    BY <1>2 DEF HandleRequest
  <2>2. IsReply(p, a, {}, r)
    BY AdvancesReflexive DEF IsReply
  <2> HIDE DEF r
  <2>3. IsReply(p, a, {} \cup {m.from}, Process(p, r, m))
    BY <2>2, ProcessReplies
  <2>4. {} \cup {m.from} = {m.from}
    OBVIOUS
  <2> QED
    BY <2>1, <2>3, <2>4
<1> QED
  BY <1>1, <1>2

LEMMA StagesReply ==
  ASSUME NEW p \in Peers, NEW a, Sound(p, a), a.bound # << >>, NEW f,
         Stages(p, a, Len(a.early), f)
  PROVE  \A i \in 0 .. Len(a.early) : IsReply(p, a, Learned(a), f[i])
<1> DEFINE n == Len(a.early)
           T == {i \in 0 .. n : ~IsReply(p, a, Learned(a), f[i])}
<1> SUFFICES ASSUME T # {} PROVE FALSE
  OBVIOUS
<1>1. a.early \in Seq(RequestsTo(p)) /\ n \in Nat
  BY DEF Sound, Connections
<1>2. PICK k \in T : \A j \in T : k <= j
  <2>1. T \in SUBSET Nat
    BY <1>1
  <2> HIDE DEF T
  <2> QED
    BY <2>1, LeastNumber
<1>3. /\ k \in 0 .. n /\ ~IsReply(p, a, Learned(a), f[k])
      /\ f[k] = IF k = 0 THEN EarlyStart(a) ELSE Process(p, f[k - 1], a.early[k])
  BY DEF Stages
<1>4. CASE k = 0
  <2> DEFINE b == [a EXCEPT !.earlyDone = TRUE]
  <2>1. f[k] = [agent |-> b, out |-> {}]
    BY <1>3, <1>4 DEF EarlyStart
  <2>2. Advances(p, a, b, {}) /\ Steady(a, b)
    BY EarlyDoneSet
  <2> HIDE DEF b
  <2>3. Advances(p, a, b, Learned(a))
    BY <2>2 DEF Advances
  <2> QED
    BY <1>3, <2>1, <2>2, <2>3 DEF IsReply
<1>5. CASE k # 0
  <2>1. k - 1 \in 0 .. n /\ k - 1 < k /\ k \in DOMAIN a.early
    BY <1>1, <1>3, <1>5
  <2>2. k - 1 \notin T
    BY <1>1, <1>2, <1>3, <2>1
  <2>3. IsReply(p, a, Learned(a), f[k - 1])
    BY <2>1, <2>2
  <2>4. a.early[k] \in RequestsTo(p) /\ a.early[k].from \in Learned(a)
    BY <1>1, <2>1 DEF Learned, ToSet
  <2>5. IsReply(p, a, Learned(a) \cup {a.early[k].from}, Process(p, f[k - 1], a.early[k]))
    BY <2>3, <2>4, ProcessReplies
  <2>6. Learned(a) \cup {a.early[k].from} = Learned(a)
    BY <2>4
  <2> QED
    BY <1>3, <1>5, <2>5, <2>6
<1> QED
  BY <1>4, <1>5

LEMMA ProcessEarlyReplies ==
  ASSUME NEW p \in Peers, NEW a, Sound(p, a), a.bound # << >>
  PROVE  IsReply(p, a, {}, ProcessEarly(p, a))
<1> DEFINE n == Len(a.early)
<1>1. n \in Nat /\ << >> \in Seq(RequestsTo(p))
  BY DEF Sound, Connections
<1>2. PICK f : Stages(p, a, n, f) /\ ProcessEarly(p, a) = [f[n] EXCEPT !.agent.early = << >>]
  BY <1>1, EarlyStages
<1>3. IsReply(p, a, Learned(a), f[n])
  BY <1>1, <1>2, StagesReply
<1> DEFINE r == f[n]
           b == EarlyWith(r.agent, << >>)
<1>4. ProcessEarly(p, a) = [agent |-> b, out |-> r.out]
  <2> HIDE DEF n
  <2> DEFINE x == r.agent
             y == r.out
  <2>1. r = [agent |-> x, out |-> y]
    BY <1>3 DEF IsReply
  <2>2. ProcessEarly(p, a) = [r EXCEPT !.agent.early = << >>]
    BY <1>2
  <2> HIDE DEF x, y, r
  <2>3. [r EXCEPT !.agent.early = << >>] = [agent |-> [x EXCEPT !.early = << >>], out |-> y]
    BY <2>1
  <2> QED
    BY <2>2, <2>3 DEF EarlyWith, x, y
<1>5. Sound(p, r.agent) /\ Advances(p, a, r.agent, Learned(a)) /\ Steady(a, r.agent)
      /\ r.out \subseteq Answers
  BY <1>3 DEF IsReply, Advances
<1> HIDE DEF r
<1>6. /\ Sound(p, b) /\ Steady(r.agent, b) /\ b.generation = r.agent.generation
      /\ b.bound = r.agent.bound /\ b.remotes = r.agent.remotes
      /\ b.nominated = r.agent.nominated /\ ToSet(b.early) = {}
  <2> DEFINE e == << >>
             c == EarlyWith(r.agent, e)
  <2>1. e \in Seq(RequestsTo(p)) /\ ToSet(e) = {}
    BY DEF ToSet
  <2> HIDE DEF e
  <2>2. /\ Sound(p, c) /\ Steady(r.agent, c) /\ c.generation = r.agent.generation
        /\ c.bound = r.agent.bound /\ c.remotes = r.agent.remotes
        /\ c.nominated = r.agent.nominated /\ c.early = e
    BY <1>5, <2>1, EarlySet
  <2>3. b = c
    BY DEF e
  <2> QED
    BY <2>1, <2>2, <2>3
<1> HIDE DEF b
<1>7. Learned(b) \subseteq Learned(a)
  <2>1. Learned(b) = ToSet(r.agent.remotes)
    BY <1>6 DEF Learned
  <2>2. Learned(r.agent) \subseteq Learned(a) \cup Learned(a)
    BY <1>5 DEF Advances
  <2> QED
    BY <2>1, <2>2 DEF Learned
<1>8. Advances(p, a, b, {})
  BY <1>5, <1>6, <1>7 DEF Advances
<1>9. Steady(a, b)
  BY <1>5, <1>6, SteadyTransitive
<1> QED
  BY <1>4, <1>5, <1>8, <1>9 DEF IsReply

-----------------------------------------------------------------------------
(* Checks and runs of connect() *)

\* As Advances, but for the nominated pair: a run of an older generation may set it.
Follows(p, a, b, new) ==
  /\ Sound(p, b) /\ b.generation = a.generation
  /\ ToSet(a.bound) \subseteq ToSet(b.bound) /\ ToSet(a.remotes) \subseteq ToSet(b.remotes)
  /\ Learned(b) \subseteq Learned(a) \cup new

\* The outcome of a handler without a wait.
IsOutcome(p, a, r) ==
  /\ Follows(p, a, r.agent, {}) /\ Steady(a, r.agent)
  /\ \A m \in r.out : Sent(p, r.agent, m)
  /\ \A c \in r.checks : IsCheck(p, r.agent, c)

LEMMA RequestSent ==
  ASSUME NEW p \in Peers, NEW a, Sound(p, a), NEW ref \in Refs(p),
         ref.remote \in ToSet(a.remotes), ref.local \in ToSet(a.bound)
  PROVE  \A m \in Carried(Request(p, a, ref)) : Sent(p, a, m)
<1> DEFINE m == Request(p, a, ref)
<1>1. Other(p) \in Peers /\ Other(Other(p)) = p
  BY Others
<1>2. a.controlling \in BOOLEAN /\ a.generation \in Generations /\ ref.local \in ToSet(Hosts(p))
      /\ ref.remote \in Known(p) /\ ref.generation \in Nat /\ ref.place \in Nat
  BY DEF Sound, Connections, Refs
<1>3. <<p, ref.generation, ref.place>> \in CheckIds
  BY <1>2 DEF CheckIds
<1>4. <<ref.local, a.generation>> \in Known(Other(p))
  BY <1>1, <1>2 DEF Known
<1>5. m \in RequestsTo(Other(p))
  BY <1>1, <1>2, <1>3, <1>4 DEF Request, RequestsTo
<1>6. m.from \in ToSet(a.bound) \X {a.generation} /\ m.to \in ToSet(a.remotes)
  BY DEF Request
<1> QED
  BY <1>5, <1>6 DEF Carried, Sent

LEMMA CheckOutcome ==
  ASSUME NEW p \in Peers, NEW a, Sound(p, a), NEW ref \in Refs(p),
         ref.remote \in ToSet(a.remotes), NEW owner, NEW tries \in 0 .. Retries
  PROVE  /\ IsOutcome(p, a, Check(p, a, ref, owner, tries))
         /\ Check(p, a, ref, owner, tries).agent.nominated = a.nominated
<1> DEFINE r == Check(p, a, ref, owner, tries)
<1>1. ASSUME NEW s \in PairStates, r.agent = WithPairState(a, ref, s)
      PROVE  /\ Follows(p, a, r.agent, {}) /\ Steady(a, r.agent)
             /\ r.agent.nominated = a.nominated /\ r.agent.remotes = a.remotes
             /\ Advances(p, a, r.agent, {})
  <2> DEFINE b == WithPairState(a, ref, s)
  <2>1. /\ Advances(p, a, b, {}) /\ Steady(a, b)
        /\ b.remotes = a.remotes /\ b.nominated = a.nominated
    BY WithPairStateAdvances
  <2> HIDE DEF b
  <2> QED
    BY <1>1, <2>1 DEF Advances, Follows, b
<1>2. CASE ref.local \in ToSet(a.bound)
  <2>1. /\ r.agent = WithPairState(a, ref, "inProgress") /\ r.out = Carried(Request(p, a, ref))
        /\ r.checks = {[by |-> p, ref |-> ref, owner |-> owner, tries |-> tries]}
    BY <1>2 DEF Check
  <2>2. "inProgress" \in PairStates
    BY DEF PairStates
  <2> HIDE DEF r
  <2>3. /\ Follows(p, a, r.agent, {}) /\ Steady(a, r.agent) /\ Advances(p, a, r.agent, {})
        /\ r.agent.nominated = a.nominated /\ r.agent.remotes = a.remotes
    BY <1>1, <2>1, <2>2
  <2>4. \A m \in r.out : Sent(p, r.agent, m)
    BY <1>2, <2>1, <2>3, RequestSent, SentStays
  <2>5. \A c \in r.checks : IsCheck(p, r.agent, c)
    BY <2>1, <2>3 DEF IsCheck
  <2> QED
    BY <2>3, <2>4, <2>5 DEF IsOutcome, r
<1>3. CASE ref.local \notin ToSet(a.bound)
  <2>1. r.agent = WithPairState(a, ref, "failed") /\ r.out = {} /\ r.checks = {}
    BY <1>3 DEF Check
  <2>2. "failed" \in PairStates
    BY DEF PairStates
  <2> HIDE DEF r
  <2>3. /\ Follows(p, a, r.agent, {}) /\ Steady(a, r.agent)
        /\ r.agent.nominated = a.nominated
    BY <1>1, <2>1, <2>2
  <2> QED
    BY <2>1, <2>3 DEF IsOutcome, r
<1> QED
  BY <1>2, <1>3

LEMMA PartsFollow ==
  ASSUME NEW p, NEW a, NEW b, NEW x, Follows(p, a, b, x)
  PROVE  /\ \A r : IsRun(p, a, r) => IsRun(p, b, r)
         /\ \A t : IsTask(p, a, t) => IsTask(p, b, t)
         /\ \A c : IsCheck(p, a, c) => IsCheck(p, b, c)
         /\ \A m : Sent(p, a, m) => Sent(p, b, m)
<1>1. /\ b.generation = a.generation /\ ToSet(a.bound) \subseteq ToSet(b.bound)
      /\ ToSet(a.remotes) \subseteq ToSet(b.remotes)
  BY DEF Follows
<1>2. \A r : IsRun(p, a, r) => IsRun(p, b, r)
  BY <1>1 DEF IsRun
<1>3. \A t : IsTask(p, a, t) => IsTask(p, b, t)
  BY <1>1 DEF IsTask
<1>4. \A c : IsCheck(p, a, c) => IsCheck(p, b, c)
  BY <1>1 DEF IsCheck
<1>5. \A m : Sent(p, a, m) => Sent(p, b, m)
  BY <1>1 DEF Sent
<1> QED
  BY <1>2, <1>3, <1>4, <1>5

LEMMA AdvancesFollows ==
  ASSUME NEW p, NEW a, NEW b, NEW x, Advances(p, a, b, x)
  PROVE  Follows(p, a, b, x)
  BY DEF Advances, Follows

LEMMA FollowsTransitive ==
  ASSUME NEW p, NEW a, NEW b, NEW c, NEW x, NEW y, Follows(p, a, b, x), Follows(p, b, c, y)
  PROVE  Follows(p, a, c, x \cup y)
<1>1. Learned(c) \subseteq Learned(a) \cup (x \cup y)
  BY DEF Follows
<1> QED
  BY <1>1 DEF Follows

\* What a call of connect() that goes on leaves: runs that have gathered, and a nominated
\* pair that a has learned of, unless the run is of an older generation.
RunsOn(p, r) == \A x \in r.runs : IsRun(p, r.agent, x) /\ x.at # "gathering"
NominatesKnown(a, b) == b.nominated = a.nominated \/ b.nominated.remote \in ToSet(b.remotes)

LEMMA RunUpdates ==
  ASSUME NEW p, NEW a, NEW run, IsRun(p, a, run), run.at = "pacing"
  PROVE  /\ IsRun(p, a, [run EXCEPT !.at = "waiting"])
         /\ [run EXCEPT !.at = "waiting"].at = "waiting"
         /\ \A k \in Nat : /\ IsRun(p, a, [run EXCEPT !.next = k + 1])
                           /\ [run EXCEPT !.next = k + 1].at = "pacing"
<1>1. run \in Runs(p)
  BY DEF IsRun
<1>2. ASSUME NEW k \in Nat
      PROVE  /\ IsRun(p, a, [run EXCEPT !.next = k + 1])
             /\ [run EXCEPT !.next = k + 1].at = "pacing"
  BY <1>1 DEF IsRun, Runs
<1>3. IsRun(p, a, [run EXCEPT !.at = "waiting"]) /\ [run EXCEPT !.at = "waiting"].at = "waiting"
  BY <1>1 DEF IsRun, Runs
<1> QED
  BY <1>2, <1>3

LEMMA ProceedOutcome ==
  ASSUME network \in Networks, NEW p \in Peers, NEW a, Sound(p, a),
         NEW run, IsRun(p, a, run), run.at = "pacing"
  PROVE  /\ IsOutcome(p, a, Proceed(p, a, run)) /\ RunsOn(p, Proceed(p, a, run))
         /\ run.id = a.generation => NominatesKnown(a, Proceed(p, a, run).agent)
         /\ run.success = None => NominatesKnown(a, Proceed(p, a, run).agent)
<1> DEFINE ready == {k \in run.next .. Len(a.list) : a.list[k].state = "frozen"}
           k == CHOOSE i \in ready : \A j \in ready : i <= j
           nothing == [agent |-> a, out |-> {}, checks |-> {}, runs |-> {}]
           started == Check(p, a, Ref(a, k), {run.id}, 0)
           r == Proceed(p, a, run)
<1>1. run \in Runs(p) /\ run.next \in Nat \ {0} /\ run.success \in Refs(p) \cup {None}
  BY DEF IsRun, Runs
<1>2. Follows(p, a, a, {}) /\ Steady(a, a)
  BY AdvancesReflexive, AdvancesFollows
<1>3. CASE Len(a.list) # run.length
  <2>1. r = nothing
    BY <1>3 DEF Proceed
  <2> QED
    BY <2>1, <1>2 DEF IsOutcome, RunsOn, NominatesKnown
<1>4. CASE Len(a.list) = run.length /\ run.success # None
  <2> DEFINE b == Nominate(a, run.success)
  <2>1. r = [nothing EXCEPT !.agent = b]
    BY <1>4 DEF Proceed
  <2>2. /\ Sound(p, b) /\ Alike(a, b) /\ Steady(a, b) /\ b.nominated = run.success
    BY <1>1, <1>4, NominateAdvances
  <2> HIDE DEF b
  <2>3. r.agent = b /\ r.out = {} /\ r.checks = {} /\ r.runs = {}
    BY <2>1
  <2> HIDE DEF r
  <2>4. Follows(p, a, b, {})
    BY <2>2 DEF Follows, Alike, Learned
  <2>5. run.id = a.generation => b.nominated.remote \in ToSet(b.remotes)
    BY <1>4, <2>2 DEF IsRun, Alike
  <2>6. IsOutcome(p, a, r) /\ RunsOn(p, r)
    BY <2>2, <2>3, <2>4 DEF IsOutcome, RunsOn
  <2> QED
    BY <1>4, <2>3, <2>5, <2>6 DEF NominatesKnown, r
<1>5. CASE Len(a.list) = run.length /\ run.success = None /\ ready = {}
  <2>1. r = [nothing EXCEPT !.runs = {[run EXCEPT !.at = "waiting"]}]
    BY <1>5 DEF Proceed
  <2> DEFINE x == [run EXCEPT !.at = "waiting"]
  <2>2. r.agent = a /\ r.out = {} /\ r.checks = {} /\ r.runs = {x}
    BY <2>1
  <2>3. IsRun(p, a, x) /\ x.at = "waiting"
    BY RunUpdates
  <2> HIDE DEF r, x
  <2>4. RunsOn(p, r)
    BY <2>2, <2>3 DEF RunsOn
  <2> QED
    BY <1>2, <2>2, <2>4 DEF IsOutcome, NominatesKnown, r
<1>6. CASE Len(a.list) = run.length /\ run.success = None /\ ready # {}
  <2>1. r = [agent |-> started.agent, out |-> started.out, checks |-> started.checks,
             runs |-> {[run EXCEPT !.next = k + 1]}]
    BY <1>6 DEF Proceed
  <2>2. k \in Nat /\ k \in DOMAIN a.list
    <3>1. Len(a.list) \in Nat /\ DOMAIN a.list = 1 .. Len(a.list)
      BY ToSetTyped DEF Sound, Connections
    <3>2. ready \in SUBSET Nat
      BY <1>1, <3>1
    <3> HIDE DEF ready
    <3>3. \E i \in ready : \A j \in ready : i <= j
      BY <1>6, <3>2, LeastNumber
    <3>4. k \in ready
      BY <3>3
    <3> HIDE DEF k
    <3>5. k \in run.next .. Len(a.list) /\ a.list[k].state = "frozen"
      BY <3>4 DEF ready
    <3> QED
      BY <1>1, <3>1, <3>5
  <2> HIDE DEF k
  <2>3. Ref(a, k) \in Refs(p) /\ Ref(a, k).remote \in ToSet(a.remotes)
    BY <2>2, RefTyped
  <2>4. 0 \in 0 .. Retries
    BY NetworksAssumption
  <2>5. IsOutcome(p, a, started) /\ started.agent.nominated = a.nominated
    BY <2>3, <2>4, CheckOutcome
  <2> DEFINE x == [run EXCEPT !.next = k + 1]
  <2>6. IsRun(p, a, x) /\ x.at = "pacing"
    <3>1. \A j \in Nat : /\ IsRun(p, a, [run EXCEPT !.next = j + 1])
                         /\ [run EXCEPT !.next = j + 1].at = "pacing"
      BY RunUpdates
    <3> QED
      BY <2>2, <3>1
  <2>7. /\ r.agent = started.agent /\ r.out = started.out /\ r.checks = started.checks
        /\ r.runs = {x}
    BY <2>1
  <2> HIDE DEF r, x, started
  <2>8. IsRun(p, r.agent, x)
    BY <2>5, <2>6, <2>7, PartsFollow DEF IsOutcome
  <2>9. RunsOn(p, r)
    BY <2>6, <2>7, <2>8 DEF RunsOn
  <2> QED
    BY <2>5, <2>7, <2>9 DEF IsOutcome, NominatesKnown, r
<1> QED
  BY <1>3, <1>4, <1>5, <1>6

LEMMA ProceedShape ==
  ASSUME NEW p, NEW a, NEW run
  PROVE  \E b, out, cs, rs : Proceed(p, a, run) = [agent |-> b, out |-> out, checks |-> cs, runs |-> rs]
<1> DEFINE nothing == [agent |-> a, out |-> {}, checks |-> {}, runs |-> {}]
<1>1. \A b : [nothing EXCEPT !.agent = b] = [agent |-> b, out |-> {}, checks |-> {}, runs |-> {}]
  OBVIOUS
<1>2. \A rs : [nothing EXCEPT !.runs = rs] = [agent |-> a, out |-> {}, checks |-> {}, runs |-> rs]
  OBVIOUS
<1> QED
  BY <1>1, <1>2, Zenon DEF Proceed

LEMMA PerformOutcome ==
  ASSUME network \in Networks, NEW p \in Peers, NEW before, Sound(p, before)
  PROVE  /\ IsOutcome(p, before, Perform(p, before, before.generation))
         /\ RunsOn(p, Perform(p, before, before.generation))
         /\ NominatesKnown(before, Perform(p, before, before.generation).agent)
<1> DEFINE id == before.generation
           a == [before EXCEPT !.state = "checking"]
           early == ProcessEarly(p, a)
           run == [id |-> id, at |-> "pacing", next |-> 1, length |-> Len(early.agent.list),
                   success |-> None]
           rest == Proceed(p, early.agent, run)
           r == Perform(p, before, id)
<1>1. r = IF a.list = << >> THEN [agent |-> a, out |-> {}, checks |-> {}, runs |-> {}]
          ELSE [rest EXCEPT !.out = @ \cup early.out]
  BY DEF Perform
<1>2. /\ Advances(p, before, a, {}) /\ Steady(before, a) /\ Sound(p, a)
      /\ a.nominated = before.nominated
  <2>1. "checking" \in IceStates \ {"new"}
    BY DEF IceStates
  <2> QED
    BY <2>1, StateSet DEF Advances
<1> HIDE DEF a
<1>3. CASE a.list = << >>
  <2>1. r.agent = a /\ r.out = {} /\ r.checks = {} /\ r.runs = {}
    BY <1>1, <1>3
  <2> HIDE DEF r
  <2> QED
    BY <2>1, <1>2, AdvancesFollows DEF IsOutcome, RunsOn, NominatesKnown, r
<1>4. CASE a.list # << >>
  <2>1. a.bound # << >>
    BY <1>2, <1>4 DEF Sound, Listed
  <2>2. IsReply(p, a, {}, early)
    BY <1>2, <2>1, ProcessEarlyReplies
  <2> HIDE DEF early
  <2>3. Advances(p, a, early.agent, {}) /\ Steady(a, early.agent) /\ Sound(p, early.agent)
        /\ early.out \subseteq Answers
    BY <2>2 DEF IsReply, Advances
  <2>4. IsRun(p, early.agent, run) /\ run.at = "pacing" /\ run.success = None
    <3>1. id = early.agent.generation
      BY <1>2, <2>3 DEF Advances
    <3>2. id \in Nat /\ Len(early.agent.list) \in Nat
      BY <2>3, <3>1 DEF Sound, Connections, Generations
    <3> QED
      BY <3>1, <3>2 DEF IsRun, Runs
  <2> HIDE DEF run
  <2>5. /\ IsOutcome(p, early.agent, rest) /\ RunsOn(p, rest)
        /\ NominatesKnown(early.agent, rest.agent)
    BY <2>3, <2>4, ProceedOutcome
  <2>6. PICK b, out, cs, rs : rest = [agent |-> b, out |-> out, checks |-> cs, runs |-> rs]
    BY ProceedShape
  <2> HIDE DEF rest
  <2>7. /\ r.agent = rest.agent /\ r.out = rest.out \cup early.out
        /\ r.checks = rest.checks /\ r.runs = rest.runs
    BY <1>1, <1>4, <2>6
  <2> HIDE DEF r
  <2>8. Advances(p, early.agent, rest.agent, {}) /\ Steady(early.agent, rest.agent)
    BY <2>5 DEF IsOutcome, Follows, Advances, NominatesKnown
  <2>9. Advances(p, before, rest.agent, {} \cup ({} \cup {})) /\ Steady(before, rest.agent)
    BY <1>2, <2>3, <2>8, AdvancesTransitive, SteadyTransitive
  <2>10. Advances(p, before, r.agent, {}) /\ Steady(before, r.agent)
    <3>1. {} \cup ({} \cup {}) = {}
      OBVIOUS
    <3> QED
      BY <2>7, <2>9, <3>1
  <2>11. \A m \in r.out : Sent(p, r.agent, m)
    BY <2>3, <2>5, <2>7 DEF IsOutcome, Sent
  <2>12. (\A c \in r.checks : IsCheck(p, r.agent, c)) /\ RunsOn(p, r)
    BY <2>5, <2>7 DEF IsOutcome, RunsOn
  <2> QED
    BY <2>10, <2>11, <2>12 DEF IsOutcome, Advances, Follows, NominatesKnown, r
<1> QED
  BY <1>3, <1>4

\* connect() once the gathering has begun.
LEMMA ConnectOutcome ==
  ASSUME network \in Networks, NEW p \in Peers, NEW a, Sound(p, a), a.state # "new"
  PROVE  /\ IsOutcome(p, a, Connect(p, a)) /\ RunsOn(p, Connect(p, a))
         /\ NominatesKnown(a, Connect(p, a).agent)
<1> DEFINE b == [a EXCEPT !.called = TRUE]
           r == Connect(p, a)
<1>1. /\ Advances(p, a, b, {}) /\ Steady(a, b) /\ Sound(p, b) /\ b.generation = a.generation
  BY CalledSet DEF Advances
<1>2. r = Perform(p, b, a.generation)
  BY DEF Connect
<1> HIDE DEF b
<1>3. /\ IsOutcome(p, b, r) /\ RunsOn(p, r) /\ NominatesKnown(b, r.agent)
  BY <1>1, <1>2, PerformOutcome
<1> HIDE DEF r
<1>4. Advances(p, b, r.agent, {}) /\ Steady(b, r.agent)
  BY <1>3 DEF IsOutcome, Follows, Advances, NominatesKnown
<1>5. Advances(p, a, r.agent, {} \cup {}) /\ Steady(a, r.agent)
  BY <1>1, <1>4, AdvancesTransitive, SteadyTransitive
<1>6. Follows(p, a, r.agent, {}) /\ NominatesKnown(a, r.agent)
  <2>1. {} \cup {} = {}
    OBVIOUS
  <2> QED
    BY <1>5, <2>1 DEF Advances, Follows, NominatesKnown
<1> QED
  BY <1>3, <1>5, <1>6 DEF IsOutcome, r

-----------------------------------------------------------------------------
(* Steps within a generation *)

\* What is not an agent's.
Scalars ==
  /\ network \in Networks /\ stronger \in Peers /\ offerer \in Peers
  /\ step \in Steps /\ round \in Generations
  /\ losses \in 0 .. network.losses /\ lates \in 0 .. network.lates
  /\ mishaps \subseteq {"overtaken", "stale", "broken"}

\* A step by p, whose agent is b afterwards and has learned the addresses in new.  Runs,
\* tasks, checks, messages and candidates are the old ones, or what b makes of them.
Local(p, b, new) ==
  /\ fixed' = fixed /\ Scalars' /\ mishaps \subseteq mishaps'
  /\ (Behind' <=> Behind) /\ (Behind => offerer' = offerer)
  /\ DOMAIN agent' = Peers /\ agent'[Other(p)] = agent[Other(p)]
  /\ agent'[p] = b /\ Follows(p, agent[p], b, new)
  /\ NominatesKnown(agent[p], b) \/ "stale" \in mishaps'
  /\ Trusted(p) => new \subseteq Open(p)
  /\ DOMAIN runs' = Peers /\ runs'[Other(p)] = runs[Other(p)]
  /\ \A r \in runs'[p] : r \in runs[p] \/ IsRun(p, b, r)
  /\ DOMAIN tasks' = Peers /\ tasks'[Other(p)] = tasks[Other(p)]
  /\ \A t \in tasks'[p] : t \in tasks[p] \/ IsTask(p, b, t)
  /\ \A c \in checks' : c \in checks \/ IsCheck(p, b, c)
  /\ \A m \in net' : m \in net \/ Sent(p, b, m)
  /\ DOMAIN candidates' = Peers
  /\ \A q \in Peers : /\ candidates'[q] \in Seq(Known(q))
                      /\ \A c \in ToSet(candidates'[q]) :
                           \/ c \in ToSet(candidates[q])
                           \/ q = Other(p) /\ c \in ToSet(b.bound) \X {b.generation}

\* The definitions that speak of the hosts and the generations only.
LEMMA FixedTypes ==
  ASSUME fixed' = fixed
  PROVE  /\ \A p : Hosts(p)' = Hosts(p) /\ Known(p)' = Known(p)
         /\ \A p : Runs(p)' = Runs(p) /\ RequestsTo(p)' = RequestsTo(p) /\ Refs(p)' = Refs(p)
         /\ \A p : Connections(p)' = Connections(p)
         /\ Answers' = Answers /\ Generations' = Generations /\ Candidates' = Candidates
  BY DEF fixed, Hosts, Known, Refs, Pairs, Runs, RequestsTo, Connections, Answers,
         Candidates, Generations

LEMMA LocalAgents ==
  ASSUME Parts, NEW p \in Peers, NEW b, NEW new, Local(p, b, new)
  PROVE  /\ DOMAIN agent' = Peers /\ agent'[p] = b /\ agent'[Other(p)] = agent[Other(p)]
         /\ \A q \in Peers : Sound(q, agent[q]) /\ Follows(q, agent[q], agent'[q], new)
         /\ Other(p) \in Peers /\ Other(p) # p
<1>1. /\ DOMAIN agent' = Peers /\ agent'[p] = b /\ agent'[Other(p)] = agent[Other(p)]
      /\ Other(p) \in Peers /\ Other(p) # p
  BY Others DEF Parts, Local
<1>2. \A q \in Peers : Sound(q, agent[q])
  BY DEF Parts, Sound
<1>3. Follows(Other(p), agent[Other(p)], agent[Other(p)], new)
  BY <1>1, <1>2, AdvancesReflexive DEF Advances, Follows
<1> QED
  BY <1>1, <1>2, <1>3, Others DEF Local

LEMMA LocalParts ==
  ASSUME Parts, NEW p \in Peers, NEW b, NEW new, Local(p, b, new)
  PROVE  Parts'
<1>1. /\ DOMAIN agent' = Peers /\ agent'[p] = b /\ agent'[Other(p)] = agent[Other(p)]
      /\ Other(p) \in Peers /\ Other(p) # p
      /\ \A q \in Peers : Sound(q, agent[q]) /\ Follows(q, agent[q], agent'[q], new)
  BY LocalAgents
<1>2. /\ \A q : Hosts(q)' = Hosts(q) /\ Known(q)' = Known(q)
      /\ \A q : Runs(q)' = Runs(q) /\ RequestsTo(q)' = RequestsTo(q) /\ Refs(q)' = Refs(q)
      /\ \A q : Connections(q)' = Connections(q)
      /\ Answers' = Answers /\ Generations' = Generations
  BY FixedTypes DEF Local
<1>3. Scalars'
  BY DEF Local
<1>4. ASSUME NEW q \in Peers
      PROVE  /\ agent'[q] \in Connections(q)' /\ IsPrefix(agent[q].bound, Hosts(q))'
             /\ Listed(agent'[q])
  BY <1>1, <1>2 DEF Follows, Sound
<1>5. ASSUME NEW q \in Peers, NEW r \in runs'[q] PROVE IsRun(q, agent'[q], r)
  <2>1. CASE q = p
    <3>1. r \in runs[q] \/ IsRun(p, b, r)
      BY <2>1 DEF Local
    <3>2. r \in runs[q] => IsRun(q, agent[q], r)
      BY DEF Parts
    <3> QED
      BY <1>1, <2>1, <3>1, <3>2, PartsFollow
  <2>2. CASE q # p
    <3>1. q = Other(p)
      BY <2>2, Others
    <3>2. r \in runs[q]
      BY <3>1 DEF Local
    <3> QED
      BY <1>1, <3>1, <3>2 DEF Parts
  <2> QED
    BY <2>1, <2>2
<1>6. ASSUME NEW q \in Peers, NEW t \in tasks'[q] PROVE IsTask(q, agent'[q], t)
  <2>1. CASE q = p
    <3>1. t \in tasks[q] \/ IsTask(p, b, t)
      BY <2>1 DEF Local
    <3>2. t \in tasks[q] => IsTask(q, agent[q], t)
      BY DEF Parts
    <3> QED
      BY <1>1, <2>1, <3>1, <3>2, PartsFollow
  <2>2. CASE q # p
    <3>1. q = Other(p)
      BY <2>2, Others
    <3>2. t \in tasks[q]
      BY <3>1 DEF Local
    <3> QED
      BY <1>1, <3>1, <3>2 DEF Parts
  <2> QED
    BY <2>1, <2>2
<1>7. ASSUME NEW c \in checks' PROVE \E q \in Peers : IsCheck(q, agent'[q], c)
  <2>1. CASE IsCheck(p, b, c)
    BY <1>1, <2>1
  <2>2. CASE c \in checks
    <3>1. PICK q \in Peers : IsCheck(q, agent[q], c)
      BY <2>2 DEF Parts
    <3> QED
      BY <1>1, <3>1, PartsFollow
  <2> QED
    BY <2>1, <2>2 DEF Local
<1>8. ASSUME NEW m \in net' PROVE m \in Answers \/ \E q \in Peers : m \in RequestsTo(q)
  BY <1>1 DEF Local, Parts, Sent
<1>9. \A q \in Peers : candidates'[q] \in Seq(Known(q)')
  BY <1>2 DEF Local
<1>10. (\A q \in Peers : \A r \in runs[q] : IsRun(q, agent[q], r))'
  BY <1>2, <1>5 DEF IsRun
<1>11. (\A q \in Peers : \A t \in tasks[q] : IsTask(q, agent[q], t))'
  BY <1>2, <1>6 DEF IsTask
<1>12. (\A c \in checks : \E q \in Peers : IsCheck(q, agent[q], c))'
  BY <1>2, <1>7 DEF IsCheck
<1>13. (\A m \in net : m \in Answers \/ \E q \in Peers : m \in RequestsTo(q))'
  BY <1>2, <1>8
<1>14. (\A q \in Peers : IsPrefix(agent[q].bound, Hosts(q)))'
  BY <1>4
<1> QED
  BY <1>1, <1>3, <1>4, <1>9, <1>10, <1>11, <1>12, <1>13, <1>14 DEF Parts, Scalars, Local

\* A request goes to the other agent: its addresses tell.
LEMMA SentToOther ==
  ASSUME network \in Networks, NEW p \in Peers, NEW a, Sound(p, a), NEW m, Sent(p, a, m),
         NEW q \in Peers, m \in RequestsTo(q)
  PROVE  /\ q = Other(p) /\ m.from \in ToSet(a.bound) \X {a.generation}
         /\ m.to \in ToSet(a.remotes)
<1>1. m.type = "request"
  BY DEF RequestsTo
<1>2. /\ m.from \in ToSet(a.bound) \X {a.generation} /\ m.to \in ToSet(a.remotes)
  BY <1>1 DEF Sent, Answers
<1>3. a.bound \in Seq(ToSet(Hosts(p)))
  BY DEF Sound, Connections
<1>4. ToSet(a.bound) \subseteq ToSet(Hosts(p))
  BY <1>3, ToSetTyped
<1>5. m.from \in ToSet(Hosts(Other(q))) \X Generations
  BY DEF RequestsTo, Known
<1>6. m.from[1] \in ToSet(Hosts(p)) /\ m.from[1] \in ToSet(Hosts(Other(q)))
  BY <1>2, <1>4, <1>5
<1>7. q # p
  BY <1>6, HostsTyped
<1> QED
  BY <1>2, <1>7, Others

LEMMA LocalReach ==
  ASSUME Parts, Reach, NEW p \in Peers, NEW b, NEW new, Local(p, b, new)
  PROVE  Reach'
<1>1. /\ DOMAIN agent' = Peers /\ agent'[p] = b /\ agent'[Other(p)] = agent[Other(p)]
      /\ Other(p) \in Peers /\ Other(p) # p
      /\ \A q \in Peers : Sound(q, agent[q]) /\ Follows(q, agent[q], agent'[q], new)
  BY LocalAgents
<1>2. /\ \A q : Hosts(q)' = Hosts(q) /\ Known(q)' = Known(q)
      /\ \A q : RequestsTo(q)' = RequestsTo(q)
      /\ network \in Networks
  BY FixedTypes DEF Local, Parts
<1>3. \A q \in Peers : /\ agent'[q].generation = agent[q].generation
                       /\ ToSet(agent[q].bound) \subseteq ToSet(agent'[q].bound)
                       /\ ToSet(agent[q].remotes) \subseteq ToSet(agent'[q].remotes)
  BY <1>1 DEF Follows
<1>4. \A q \in Peers : Open(q) \subseteq Open(q)'
  BY <1>3, Others DEF Open, Local
<1>5. ASSUME NEW q \in Peers, Trusted(q)' PROVE Trusted(q)
  <2>1. Behind /\ Pending => Pending'
    <3>1. Other(offerer) \in Peers /\ offerer \in Peers
      BY Others DEF Parts
    <3>2. Behind => offerer' = offerer /\ Behind'
      BY DEF Local
    <3> QED
      BY <1>3, <3>1, <3>2 DEF Pending
  <2>2. mishaps \subseteq mishaps' /\ (Behind' <=> Behind) /\ (Behind => offerer' = offerer)
    BY DEF Local
  <2> QED
    BY <1>5, <2>1, <2>2 DEF Trusted
<1>6. ASSUME NEW q \in Peers
      PROVE  ToSet(candidates'[q]) \subseteq
               ToSet(agent'[Other(q)].bound) \X {agent'[Other(q)].generation}
  <2> SUFFICES ASSUME NEW c \in ToSet(candidates'[q])
               PROVE  c \in ToSet(agent'[Other(q)].bound) \X {agent'[Other(q)].generation}
    OBVIOUS
  <2>1. CASE c \in ToSet(candidates[q])
    <3>1. c \in ToSet(agent[Other(q)].bound) \X {agent[Other(q)].generation}
      BY <2>1 DEF Reach
    <3> QED
      BY <1>3, <3>1, Others
  <2>2. CASE q = Other(p) /\ c \in ToSet(b.bound) \X {b.generation}
    BY <1>1, <2>2, Others
  <2> QED
    BY <2>1, <2>2 DEF Local
<1>7. ASSUME NEW q \in Peers, agent'[q].nominated # None, "stale" \notin mishaps'
      PROVE  agent'[q].nominated.remote \in ToSet(agent'[q].remotes)
  <2>1. "stale" \notin mishaps
    BY <1>7 DEF Local
  <2>2. agent[q].nominated # None => agent[q].nominated.remote \in ToSet(agent[q].remotes)
    BY <2>1 DEF Reach
  <2>3. CASE q = p
    <3>1. NominatesKnown(agent[p], b)
      BY <1>7 DEF Local
    <3> QED
      BY <1>1, <1>3, <1>7, <2>2, <2>3, <3>1 DEF NominatesKnown
  <2>4. CASE q # p
    BY <1>1, <1>7, <2>2, <2>4, Others
  <2> QED
    BY <2>3, <2>4
<1>8. ASSUME NEW q \in Peers, Trusted(q)' PROVE Learned(agent'[q]) \subseteq Open(q)'
  <2>1. Trusted(q) /\ Learned(agent[q]) \subseteq Open(q)
    BY <1>5, <1>8 DEF Reach
  <2>2. CASE q = p
    BY <1>1, <1>4, <2>1, <2>2 DEF Local, Follows
  <2>3. CASE q # p
    BY <1>1, <1>4, <2>1, <2>3, Others
  <2> QED
    BY <2>2, <2>3
<1>9. ASSUME NEW q \in Peers, Trusted(q)', NEW m \in net', m \in RequestsTo(q),
             m.to[2] = agent'[q].generation
      PROVE  m.from \in Open(q)'
  <2>1. CASE m \in net
    <3>1. Concerns(q, m)
      BY <1>3, <1>9 DEF Concerns
    <3> QED
      BY <1>4, <1>5, <1>9, <2>1, <3>1 DEF Reach
  <2>2. CASE Sent(p, b, m)
    <3>1. Sound(p, b)
      BY DEF Local, Follows
    <3>2. q = Other(p) /\ m.from \in ToSet(b.bound) \X {b.generation} /\ m.to \in ToSet(b.remotes)
      BY <1>2, <1>9, <2>2, <3>1, SentToOther
    <3>3. CASE Behind
      <4>1. q = offerer' /\ ~Pending' /\ Behind'
        BY <1>9, <3>3 DEF Local, Trusted
      <4>2. agent'[Other(q)] = b
        BY <1>1, <3>2, Others
      <4> QED
        BY <1>9, <3>2, <4>1, <4>2 DEF Pending
    <3>4. CASE ~Behind
      <4>1. ~Behind'
        BY <3>4 DEF Local
      <4>2. agent'[Other(q)] = b
        BY <1>1, <3>2, Others
      <4> QED
        BY <3>2, <4>1, <4>2 DEF Open
    <3> QED
      BY <3>3, <3>4
  <2> QED
    BY <2>1, <2>2 DEF Local
<1>10. (\A q \in Peers : Trusted(q) => \A m \in net : Concerns(q, m) => m.from \in Open(q))'
  BY <1>2, <1>9 DEF Concerns
<1> QED
  BY <1>6, <1>7, <1>8, <1>10 DEF Reach

\* A step that keeps the negotiation and the gathering in order.
Orderly(p, b) ==
  /\ round' = round /\ offerer' = offerer /\ (step' # "stable" => round # 0)
  /\ (Idle(Other(p))' <=> Idle(Other(p))) /\ (Describing(Other(p))' => Describing(Other(p)))
  /\ b.state = "new" => Idle(p)'
  /\ Idle(p)' => b.bound = << >> /\ runs'[p] = {}
  /\ Describing(p)' \/ (\E r \in runs'[p] : r.at = "gathering") =>
       b.state # "new" /\ Len(b.bound) < Len(Hosts(p))
  /\ Behind => (\A r \in runs'[p] : r.at # "gathering") /\ candidates'[offerer] = << >>

LEMMA LocalStep ==
  ASSUME IceInv, NEW p \in Peers, NEW b, NEW new, Local(p, b, new), Orderly(p, b)
  PROVE  IceInv'
<1>1. /\ agent'[p] = b /\ agent'[Other(p)] = agent[Other(p)]
      /\ \A q \in Peers : Follows(q, agent[q], agent'[q], new)
  BY LocalAgents DEF IceInv
<1>2. \A q : Hosts(q)' = Hosts(q)
  BY FixedTypes DEF Local
<1>3. runs'[Other(p)] = runs[Other(p)] /\ (Behind' <=> Behind)
  BY DEF Local
<1>4. ASSUME NEW q \in Peers PROVE Course(q)'
  <2>1. Course(q)
    BY DEF IceInv, Progress
  <2>2. agent'[q].generation = agent[q].generation
    BY <1>1 DEF Follows
  <2>3. round' = round /\ offerer' = offerer
    BY DEF Orderly
  <2>4. CASE q = p
    <3>1. agent'[q].state = "new" => Idle(q)'
      BY <1>1, <2>4 DEF Orderly
    <3>2. Idle(q)' => agent'[q].bound = << >> /\ runs'[q] = {}
      BY <1>1, <2>4 DEF Orderly
    <3>3. Describing(q)' \/ (\E r \in runs'[q] : r.at = "gathering") =>
            agent'[q].state # "new" /\ Len(agent'[q].bound) < Len(Hosts(q))
      BY <1>1, <2>4 DEF Orderly
    <3>4. Behind => (\A r \in runs'[q] : r.at # "gathering") /\ candidates'[offerer] = << >>
      BY <2>4 DEF Orderly
    <3> QED
      BY <1>2, <1>3, <2>1, <2>2, <2>3, <3>1, <3>2, <3>3, <3>4 DEF Course
  <2>5. CASE q # p
    <3>1. q = Other(p) /\ agent'[q] = agent[q] /\ runs'[q] = runs[q]
      BY <1>1, <1>3, <2>5, Others
    <3>2. /\ Behind => candidates'[offerer] = << >>
          /\ (Idle(q)' <=> Idle(q)) /\ (Describing(q)' => Describing(q))
      BY <3>1 DEF Orderly
    <3> QED
      BY <1>2, <1>3, <2>1, <2>3, <3>1, <3>2 DEF Course
  <2> QED
    BY <2>4, <2>5
<1>5. Progress'
  BY <1>4 DEF Progress, Orderly
<1> QED
  BY <1>5, LocalParts, LocalReach DEF IceInv

\* A run of connect() waits for the gathering.
Gathers(rs) == \E r \in rs : r.at = "gathering"

\* The steps that leave the negotiation and the gathering alone.
LEMMA SteadyStep ==
  ASSUME IceInv, NEW p \in Peers, NEW b, NEW new, Local(p, b, new), Steady(agent[p], b),
         negotiation' = negotiation, Gathers(runs'[p]) => Gathers(runs[p]),
         runs[p] = {} => runs'[p] = {}, candidates[offerer] = << >> => candidates'[offerer] = << >>
  PROVE  IceInv'
<1>1. Course(p) /\ Progress
  BY DEF IceInv, Progress
<1>2. step' = step /\ round' = round /\ offerer' = offerer
  BY DEF negotiation
<1>3. \A q \in Peers : (Idle(q)' <=> Idle(q)) /\ (Describing(q)' => Describing(q))
  BY <1>2 DEF Idle, Describing
<1>4. b.bound = agent[p].bound /\ (agent[p].state # "new" => b.state # "new")
  BY DEF Steady
<1>5. Idle(p) => b.bound = << >> /\ runs'[p] = {}
  BY <1>1, <1>4 DEF Course
<1>6. Describing(p)' \/ (\E r \in runs'[p] : r.at = "gathering") =>
        b.state # "new" /\ Len(b.bound) < Len(Hosts(p))
  BY <1>1, <1>3, <1>4 DEF Course, Gathers
<1>7. Behind => (\A r \in runs'[p] : r.at # "gathering") /\ candidates'[offerer] = << >>
  BY <1>1 DEF Course, Gathers
<1>8. Orderly(p, b)
  <2>1. b.state = "new" => Idle(p)
    BY <1>1, <1>4 DEF Course
  <2>2. Other(p) \in Peers
    BY Others
  <2> QED
    BY <1>1, <1>2, <1>3, <1>5, <1>6, <1>7, <2>1, <2>2 DEF Orderly, Progress
<1> QED
  BY <1>8, LocalStep

-----------------------------------------------------------------------------
(* The actions *)

\* A variable that changes at p at most.
UpdatedAt(p, f, g, v) == DOMAIN g = Peers /\ g[p] = v /\ g[Other(p)] = f[Other(p)]

LEMMA Updated ==
  ASSUME NEW f, DOMAIN f = Peers, NEW p \in Peers, NEW v
  PROVE  UpdatedAt(p, f, [f EXCEPT ![p] = v], v) /\ UpdatedAt(p, f, f, f[p])
  BY Others DEF UpdatedAt

\* A step of the checks of p: the agent, its runs and its tasks are b, rs and ts then.
Checked(p, b, new, rs, ts) ==
  /\ negotiation' = negotiation /\ fixed' = fixed /\ candidates' = candidates
  /\ losses' \in 0 .. network.losses /\ lates' \in 0 .. network.lates
  /\ mishaps \subseteq mishaps' /\ mishaps' \subseteq {"overtaken", "stale", "broken"}
  /\ UpdatedAt(p, agent, agent', b) /\ Follows(p, agent[p], b, new) /\ Steady(agent[p], b)
  /\ NominatesKnown(agent[p], b) \/ "stale" \in mishaps'
  /\ Trusted(p) => new \subseteq Open(p)
  /\ UpdatedAt(p, runs, runs', rs) /\ UpdatedAt(p, tasks, tasks', ts)
  /\ \A r \in rs : r \in runs[p] \/ IsRun(p, b, r)
  /\ (Gathers(rs) => Gathers(runs[p])) /\ (runs[p] = {} => rs = {})
  /\ \A t \in ts : t \in tasks[p] \/ IsTask(p, b, t)
  /\ \A c \in checks' : c \in checks \/ IsCheck(p, b, c)
  /\ \A m \in net' : m \in net \/ Sent(p, b, m)

LEMMA CheckStep ==
  ASSUME IceInv, NEW p \in Peers, NEW b, NEW new, NEW rs, NEW ts, Checked(p, b, new, rs, ts)
  PROVE  IceInv'
<1>1. Scalars' /\ (Behind' <=> Behind) /\ offerer' = offerer
  <2>1. Scalars
    BY DEF IceInv, Parts, Scalars
  <2> QED
    BY <2>1 DEF Checked, negotiation, fixed, Scalars, Behind, Generations
<1>2. /\ DOMAIN candidates' = Peers
      /\ \A q \in Peers : candidates'[q] \in Seq(Known(q)) /\ candidates'[q] = candidates[q]
  BY DEF IceInv, Parts, Checked
<1>3. Local(p, b, new)
  BY <1>1, <1>2 DEF Local, UpdatedAt, Checked
<1>4. /\ negotiation' = negotiation /\ Steady(agent[p], b)
      /\ (Gathers(runs'[p]) => Gathers(runs[p]))
      /\ (runs[p] = {} => runs'[p] = {}) /\ candidates' = candidates
  BY DEF Checked, UpdatedAt
<1> QED
  BY <1>3, <1>4, SteadyStep

LEMMA Basics ==
  ASSUME IceInv, NEW p \in Peers
  PROVE  /\ network \in Networks /\ Sound(p, agent[p]) /\ DOMAIN agent = Peers
         /\ DOMAIN runs = Peers /\ DOMAIN tasks = Peers /\ DOMAIN candidates = Peers
         /\ losses \in 0 .. network.losses /\ lates \in 0 .. network.lates
         /\ network.losses \in Nat /\ network.lates \in Nat
         /\ mishaps \subseteq {"overtaken", "stale", "broken"}
         /\ \A r \in runs[p] : IsRun(p, agent[p], r)
         /\ \A t \in tasks[p] : IsTask(p, agent[p], t)
<1>1. network.losses \in Nat /\ network.lates \in Nat
  BY NetworksAssumption DEF IceInv, Parts
<1> QED
  BY <1>1 DEF IceInv, Parts, Sound

LEMMA PaceKeeps ==
  ASSUME IceInv, NEW p \in Peers, NEW run \in runs[p], Pace(p, run)
  PROVE  IceInv'
<1> DEFINE a == agent[p]
           r == Proceed(p, a, run)
           rs == (runs[p] \ {run}) \cup r.runs
<1>1. run.at = "pacing" /\ IsRun(p, a, run) /\ Sound(p, a) /\ network \in Networks
  BY Basics DEF Pace
<1>2. /\ IsOutcome(p, a, r) /\ RunsOn(p, r) /\ (run.id = a.generation => NominatesKnown(a, r.agent))
  BY <1>1, ProceedOutcome
<1>3. /\ agent' = [agent EXCEPT ![p] = r.agent] /\ runs' = [runs EXCEPT ![p] = rs]
      /\ checks' = checks \cup r.checks /\ net' = net \cup r.out
      /\ mishaps' = mishaps
           \cup (IF agent'[p].nominated # agent[p].nominated /\ run.id # agent[p].generation
                 THEN {"stale"} ELSE {})
           \cup (IF Len(agent[p].list) # run.length THEN {"broken"} ELSE {})
      /\ UNCHANGED <<tasks, candidates, negotiation, fixed, budget>>
  BY DEF Pace, Does
<1>4. (\A x \in rs : x \in runs[p] \/ IsRun(p, r.agent, x)) /\ (Gathers(rs) => Gathers(runs[p]))
  <2> HIDE DEF r
  <2> QED
    BY <1>2 DEF RunsOn, Gathers
<1> HIDE DEF r, rs
<1>5. UpdatedAt(p, agent, agent', r.agent)
  BY <1>3, Basics, Updated
<1>6. UpdatedAt(p, runs, runs', rs)
  BY <1>3, Basics, Updated
<1>7. UpdatedAt(p, tasks, tasks', tasks[p])
  BY <1>3, Basics, Updated
<1>8. NominatesKnown(a, r.agent) \/ "stale" \in mishaps'
  BY <1>2, <1>3, <1>5 DEF UpdatedAt, NominatesKnown
<1>9. mishaps \subseteq mishaps' /\ mishaps' \subseteq {"overtaken", "stale", "broken"}
  BY <1>3, Basics
<1>10. /\ Follows(p, a, r.agent, {}) /\ Steady(a, r.agent)
       /\ losses' \in 0 .. network.losses /\ lates' \in 0 .. network.lates
  BY <1>2, <1>3, Basics DEF IsOutcome, budget
<1>11. (\A c \in checks' : c \in checks \/ IsCheck(p, r.agent, c))
       /\ (\A m \in net' : m \in net \/ Sent(p, r.agent, m))
  BY <1>2, <1>3 DEF IsOutcome
<1>12. Checked(p, r.agent, {}, rs, tasks[p])
  BY <1>3, <1>4, <1>5, <1>6, <1>7, <1>8, <1>9, <1>10, <1>11 DEF Checked
<1> QED
  BY <1>12, CheckStep

LEMMA CheckNewPairKeeps ==
  ASSUME IceInv, NEW p \in Peers, NEW task \in tasks[p], CheckNewPair(p, task)
  PROVE  IceInv'
<1> DEFINE a == agent[p]
           ref == Head(task)
           r == Check(p, a, ref, {}, 0)
           frozen == a.list[ref.place].state = "frozen"
           rest == IF frozen /\ a.nominated # None THEN << >> ELSE Tail(task)
           ts == (tasks[p] \ {task}) \cup ({rest} \ {<< >>})
           checked == frozen /\ a.nominated = None
           b == IF checked THEN r.agent ELSE a
<1>1. Sound(p, a) /\ network \in Networks /\ IsTask(p, a, task)
  BY Basics
<1>2. /\ tasks' = [tasks EXCEPT ![p] = ts]
      /\ IF checked THEN /\ agent' = [agent EXCEPT ![p] = b]
                         /\ checks' = checks \cup r.checks /\ net' = net \cup r.out
                    ELSE UNCHANGED <<agent, checks, net>>
      /\ UNCHANGED <<runs, candidates, negotiation, fixed, budget, mishaps>>
  BY DEF CheckNewPair
<1>3. ref \in Refs(p) /\ ref.remote \in ToSet(a.remotes)
  BY <1>1 DEF IsTask
<1>4. 0 \in 0 .. Retries
  BY <1>1, NetworksAssumption
<1>5. IsOutcome(p, a, r) /\ r.agent.nominated = a.nominated
  BY <1>1, <1>3, <1>4, CheckOutcome
<1>6. \A t \in ts : t \in tasks[p] \/ IsTask(p, a, t)
  <2>1. ASSUME Tail(task) # << >> PROVE IsTask(p, a, Tail(task))
    BY <1>1, <2>1 DEF IsTask
  <2> QED
    BY <2>1
<1>7. UpdatedAt(p, agent, agent', b) /\ Follows(p, a, b, {}) /\ Steady(a, b)
      /\ NominatesKnown(a, b)
      /\ (\A c \in checks' : c \in checks \/ IsCheck(p, b, c))
      /\ (\A m \in net' : m \in net \/ Sent(p, b, m))
  <2>1. CASE checked
    <3>1. b = r.agent
      BY <2>1
    <3> HIDE DEF r, b, checked
    <3>2. UpdatedAt(p, agent, agent', b)
      BY <1>2, <2>1, Basics, Updated
    <3> QED
      BY <1>2, <1>5, <2>1, <3>1, <3>2 DEF IsOutcome, NominatesKnown
  <2>2. CASE ~checked
    <3>1. b = a
      BY <2>2
    <3> HIDE DEF r, b, checked
    <3>2. UpdatedAt(p, agent, agent', b)
      BY <1>2, <2>2, <3>1, Basics, Updated
    <3>3. Follows(p, a, a, {}) /\ Steady(a, a)
      BY <1>1, AdvancesReflexive, AdvancesFollows
    <3> QED
      BY <1>2, <2>2, <3>1, <3>2, <3>3 DEF NominatesKnown
  <2> QED
    BY <2>1, <2>2
<1> HIDE DEF ts, b, r, checked
<1>8. UpdatedAt(p, runs, runs', runs[p])
  BY <1>2, Basics, Updated
<1>9. UpdatedAt(p, tasks, tasks', ts)
  BY <1>2, Basics, Updated
<1>10. \A t \in ts : t \in tasks[p] \/ IsTask(p, b, t)
  BY <1>6, <1>7, PartsFollow
<1>11. /\ losses' \in 0 .. network.losses /\ lates' \in 0 .. network.lates
       /\ mishaps \subseteq mishaps' /\ mishaps' \subseteq {"overtaken", "stale", "broken"}
  BY <1>2, Basics DEF budget
<1>12. Checked(p, b, {}, runs[p], ts)
  BY <1>2, <1>7, <1>8, <1>9, <1>10, <1>11 DEF Checked
<1> QED
  BY <1>12, CheckStep

\* A step of the checks that leaves runs and tasks alone.
Messaged(p, b, new) ==
  /\ UNCHANGED <<runs, checksOnly>>
  /\ losses' \in 0 .. network.losses /\ lates' \in 0 .. network.lates
  /\ UpdatedAt(p, agent, agent', b) /\ Advances(p, agent[p], b, new) /\ Steady(agent[p], b)
  /\ Trusted(p) => new \subseteq Open(p)
  /\ \A c \in checks' : c \in checks \/ IsCheck(p, b, c)
  /\ \A m \in net' : m \in net \/ Sent(p, b, m)

LEMMA MessageStep ==
  ASSUME IceInv, NEW p \in Peers, NEW b, NEW new, Messaged(p, b, new)
  PROVE  IceInv'
<1>1. /\ runs' = runs /\ tasks' = tasks /\ candidates' = candidates
      /\ negotiation' = negotiation /\ fixed' = fixed /\ mishaps' = mishaps
  BY DEF checksOnly, Messaged
<1>2. UpdatedAt(p, runs, runs', runs[p]) /\ UpdatedAt(p, tasks, tasks', tasks[p])
  BY <1>1, Basics, Updated
<1>3. Follows(p, agent[p], b, new) /\ NominatesKnown(agent[p], b)
  BY DEF Advances, Follows, NominatesKnown, Messaged
<1>4. mishaps' \subseteq {"overtaken", "stale", "broken"}
  BY <1>1, Basics
<1>5. Checked(p, b, new, runs[p], tasks[p])
  BY <1>1, <1>2, <1>3, <1>4 DEF Checked, Messaged
<1> QED
  BY <1>5, CheckStep

LEMMA CheckTyped ==
  ASSUME IceInv, NEW c \in checks
  PROVE  c.by \in Peers /\ IsCheck(c.by, agent[c.by], c)
<1>1. PICK q \in Peers : IsCheck(q, agent[q], c)
  BY DEF IceInv, Parts
<1> QED
  BY <1>1 DEF IsCheck

LEMMA BudgetTyped ==
  ASSUME IceInv
  PROVE  losses \in 0 .. network.losses /\ lates \in 0 .. network.lates
  BY DEF IceInv, Parts

LEMMA ReceiveRequestKeeps ==
  ASSUME IceInv, NEW m \in net, ReceiveRequest(m)
  PROVE  IceInv'
<1> DEFINE p == Owner(m.to[1])
           a == agent[p]
           r == HandleRequest(p, a, m)
<1>1. PICK q \in Peers : m \in RequestsTo(q)
  BY DEF IceInv, Parts, ReceiveRequest, Answers
<1>2. m.to[1] \in ToSet(Hosts(q)) /\ network \in Networks
  BY <1>1, Others, Basics DEF RequestsTo, Known
<1>3. p = q
  BY <1>2, OwnerIs
<1> HIDE DEF p
<1>4. /\ IF Arrives(m) THEN /\ agent' = [agent EXCEPT ![p] = r.agent]
                            /\ net' = (net \ {m}) \cup r.out
                       ELSE net' = net \ {m} /\ UNCHANGED agent
      /\ UNCHANGED <<runs, checks, checksOnly, budget>>
  BY DEF ReceiveRequest, p
<1>5. p \in Peers /\ Sound(p, a) /\ m \in RequestsTo(p) /\ DOMAIN agent = Peers
  BY <1>1, <1>3, Basics
<1>6. losses' \in 0 .. network.losses /\ lates' \in 0 .. network.lates
  BY <1>4, BudgetTyped DEF budget
<1>7. CASE Arrives(m)
  <2>1. m.to[1] \in ToSet(a.bound) /\ m.to[2] = a.generation
    BY <1>7 DEF Arrives, p
  <2>2. a.bound # << >>
    BY <2>1 DEF ToSet
  <2>3. IsReply(p, a, {m.from}, r)
    BY <1>5, <2>2, HandleReplies
  <2> HIDE DEF r
  <2>4. UpdatedAt(p, agent, agent', r.agent)
    BY <1>4, <1>5, <1>7, Updated
  <2>5. Trusted(p) => {m.from} \subseteq Open(p)
    BY <1>5, <2>1 DEF IceInv, Reach, Concerns
  <2>6. \A x \in net' : x \in net \/ Sent(p, r.agent, x)
    BY <1>4, <1>7, <2>3 DEF IsReply, Sent
  <2>7. Advances(p, a, r.agent, {m.from}) /\ Steady(a, r.agent)
    BY <2>3 DEF IsReply
  <2>8. Messaged(p, r.agent, {m.from})
    BY <1>4, <1>6, <2>4, <2>5, <2>6, <2>7 DEF Messaged
  <2> QED
    BY <1>5, <2>8, MessageStep
<1>8. CASE ~Arrives(m)
  <2>1. UpdatedAt(p, agent, agent', a)
    BY <1>4, <1>5, <1>8, Updated
  <2>2. Advances(p, a, a, {}) /\ Steady(a, a)
    BY <1>5, AdvancesReflexive
  <2>3. \A x \in net' : x \in net \/ Sent(p, a, x)
    BY <1>4, <1>8
  <2>4. Messaged(p, a, {})
    BY <1>4, <1>6, <2>1, <2>2, <2>3 DEF Messaged
  <2> QED
    BY <1>5, <2>4, MessageStep
<1> QED
  BY <1>7, <1>8

LEMMA ReceiveConflictKeeps ==
  ASSUME IceInv, NEW m \in net, NEW c \in checks, ReceiveConflict(m, c)
  PROVE  IceInv'
<1> DEFINE p == c.by
           a == agent[p]
           role == ~a.controlling
           switched == [a EXCEPT !.controlling = role]
           failed == [agent |-> WithPairState(a, c.ref, "failed"), out |-> {}, checks |-> {}]
           again == Check(p, switched, c.ref, c.owner, c.tries + 1)
           r == IF c.tries < Retries THEN again ELSE failed
<1>1. p \in Peers /\ IsCheck(p, a, c)
  BY CheckTyped
<1>2. Sound(p, a) /\ DOMAIN agent = Peers /\ network \in Networks
  BY <1>1, Basics
<1>3. /\ agent' = [agent EXCEPT ![p] = r.agent] /\ checks' = (checks \ {c}) \cup r.checks
      /\ net' = (net \ {m}) \cup r.out /\ UNCHANGED <<runs, checksOnly, budget>>
  <2>1. switched = [a EXCEPT !.controlling = ~@]
    OBVIOUS
  <2> HIDE DEF switched
  <2> QED
    BY <2>1 DEF ReceiveConflict
<1> HIDE DEF p
<1>4. losses' \in 0 .. network.losses /\ lates' \in 0 .. network.lates
  BY <1>3, BudgetTyped DEF budget
<1>5. /\ Advances(p, a, r.agent, {}) /\ Steady(a, r.agent)
      /\ \A x \in r.out : Sent(p, r.agent, x)
      /\ \A x \in r.checks : IsCheck(p, r.agent, x)
  <2>1. CASE c.tries < Retries
    <3>1. a.controlling \in BOOLEAN
      BY <1>2 DEF Sound, Connections
    <3>2. role \in BOOLEAN
      BY <3>1
    <3> HIDE DEF role
    <3>3. Advances(p, a, switched, {}) /\ Steady(a, switched) /\ Alike(a, switched)
      BY <1>2, <3>2, RoleSet
    <3> HIDE DEF switched
    <3>4. Sound(p, switched) /\ c.ref \in Refs(p) /\ c.ref.remote \in ToSet(switched.remotes)
          /\ c.tries \in 0 .. Retries
      BY <1>1, <3>3 DEF IsCheck, Advances, Alike
    <3>5. c.tries + 1 \in 0 .. Retries
      BY <1>2, <2>1, <3>4, NetworksAssumption
    <3>6. IsOutcome(p, switched, again) /\ again.agent.nominated = switched.nominated
      BY <1>1, <3>4, <3>5, CheckOutcome
    <3> HIDE DEF again
    <3>7. Advances(p, switched, again.agent, {}) /\ Steady(switched, again.agent)
      BY <3>6 DEF IsOutcome, Follows, Advances
    <3>8. Advances(p, a, again.agent, {} \cup {}) /\ Steady(a, again.agent)
      BY <3>3, <3>7, AdvancesTransitive, SteadyTransitive
    <3>9. {} \cup {} = {} /\ r = again
      BY <2>1
    <3> HIDE DEF r
    <3> QED
      BY <3>6, <3>8, <3>9 DEF IsOutcome
  <2>2. CASE ~(c.tries < Retries)
    <3>1. "failed" \in PairStates
      BY DEF PairStates
    <3>2. Advances(p, a, WithPairState(a, c.ref, "failed"), {})
          /\ Steady(a, WithPairState(a, c.ref, "failed"))
      BY <1>2, <3>1, WithPairStateAdvances
    <3>3. r.agent = WithPairState(a, c.ref, "failed") /\ r.out = {} /\ r.checks = {}
      BY <2>2
    <3> HIDE DEF r
    <3> QED
      BY <3>2, <3>3
  <2> QED
    BY <2>1, <2>2
<1> HIDE DEF r
<1>6. UpdatedAt(p, agent, agent', r.agent)
  BY <1>1, <1>2, <1>3, Updated
<1>7. /\ \A x \in checks' : x \in checks \/ IsCheck(p, r.agent, x)
      /\ \A x \in net' : x \in net \/ Sent(p, r.agent, x)
  BY <1>3, <1>5
<1>8. Messaged(p, r.agent, {})
  BY <1>3, <1>4, <1>5, <1>6, <1>7 DEF Messaged
<1> QED
  BY <1>1, <1>8, MessageStep

\* A message that is thrown away or lost.
LEMMA LosingKeeps ==
  ASSUME IceInv, UNCHANGED <<agent, runs, checks, checksOnly>>, net' \subseteq net,
         losses' \in 0 .. network.losses, lates' \in 0 .. network.lates
  PROVE  IceInv'
<1>1. First \in Peers
  BY PeersAssumption
<1>2. UpdatedAt(First, agent, agent', agent[First]) /\ Sound(First, agent[First])
  BY <1>1, Basics, Updated
<1>3. Advances(First, agent[First], agent[First], {}) /\ Steady(agent[First], agent[First])
  BY <1>2, AdvancesReflexive
<1>4. Messaged(First, agent[First], {})
  BY <1>2, <1>3 DEF Messaged
<1> QED
  BY <1>1, <1>4, MessageStep

LEMMA TimeOutKeeps ==
  ASSUME IceInv, NEW c \in checks, TimeOut(c)
  PROVE  IceInv'
<1> DEFINE p == c.by
           b == WithPairState(agent[p], c.ref, "failed")
<1>1. p \in Peers /\ Sound(p, agent[p]) /\ DOMAIN agent = Peers
  BY CheckTyped, Basics
<1>2. "failed" \in PairStates
  BY DEF PairStates
<1>3. Advances(p, agent[p], b, {}) /\ Steady(agent[p], b)
  BY <1>1, <1>2, WithPairStateAdvances
<1>4. /\ checks' = checks \ {c} /\ net' \subseteq net /\ UNCHANGED <<runs, checksOnly, losses>>
      /\ IF UnderWay(c) THEN lates < network.lates /\ lates' = lates + 1 ELSE UNCHANGED lates
  BY DEF TimeOut
<1>8. agent' = [agent EXCEPT ![p] = b]
  BY Zenon DEF TimeOut
<1> HIDE DEF p, b
<1>5. UpdatedAt(p, agent, agent', b)
  BY <1>1, <1>8, Updated
<1>6. network.lates \in Nat
  BY <1>1, Basics
<1>7. losses' \in 0 .. network.losses /\ lates' \in 0 .. network.lates
  BY <1>4, <1>6, BudgetTyped
<1>9. Messaged(p, b, {})
  BY <1>3, <1>4, <1>5, <1>7 DEF Messaged
<1> QED
  BY <1>1, <1>9, MessageStep

LEMMA ReceiveSuccessKeeps ==
  ASSUME IceInv, NEW m \in net, NEW c \in checks, ReceiveSuccess(m, c)
  PROVE  IceInv'
<1> DEFINE p == c.by
           a == agent[p]
           r == Succeeds(c, a)
           marked == WithPairState(a, c.ref, "succeeded")
           owners == {x \in runs[p] : x.id \in c.owner /\ x.success = None}
           waits == \E x \in owners : x.at = "waiting"
           found == IF waits THEN {} ELSE {[x EXCEPT !.success = c.ref] : x \in owners}
           rs == (runs[p] \ owners) \cup found
<1>1. /\ agent' = [agent EXCEPT ![p] = r.agent] /\ runs' = [runs EXCEPT ![p] = r.runs]
      /\ checks' = checks \ {c} /\ net' = net \ {m} /\ UNCHANGED <<checksOnly, budget>>
  BY DEF ReceiveSuccess
<1>2. p \in Peers /\ IsCheck(p, a, c)
  BY CheckTyped
<1>3. /\ r.agent = (IF c.owner = {} THEN Worked(marked, c.ref)
                    ELSE IF waits THEN Nominate(marked, c.ref) ELSE marked)
      /\ r.runs = rs
  BY DEF Succeeds
<1> HIDE DEF p, r, waits
<1>4. Sound(p, a) /\ c.ref \in Refs(p) /\ c.ref.remote \in ToSet(a.remotes)
  BY <1>2, Basics DEF IsCheck
<1>5. /\ Advances(p, a, marked, {}) /\ Steady(a, marked) /\ Sound(p, marked)
      /\ c.ref.remote \in ToSet(marked.remotes)
  <2>1. "succeeded" \in PairStates
    BY DEF PairStates
  <2> QED
    BY <1>4, <2>1, WithPairStateAdvances DEF Advances
<1> HIDE DEF marked
<1>6. Advances(p, marked, r.agent, {}) /\ Steady(marked, r.agent)
  <2>1. Advances(p, marked, Worked(marked, c.ref), {}) /\ Steady(marked, Worked(marked, c.ref))
    BY <1>4, <1>5, WorkedAdvances
  <2>2. /\ Advances(p, marked, Nominate(marked, c.ref), {})
        /\ Steady(marked, Nominate(marked, c.ref))
    BY <1>4, <1>5, NominateAdvances
  <2>3. Advances(p, marked, marked, {}) /\ Steady(marked, marked)
    BY <1>5, AdvancesReflexive
  <2> QED
    BY <1>3, <2>1, <2>2, <2>3
<1>7. /\ Follows(p, a, r.agent, {}) /\ Steady(a, r.agent) /\ NominatesKnown(a, r.agent)
      /\ r.agent.remotes = marked.remotes
  <2>1. Advances(p, a, r.agent, {} \cup {}) /\ Steady(a, r.agent)
    BY <1>5, <1>6, AdvancesTransitive, SteadyTransitive
  <2>2. {} \cup {} = {}
    OBVIOUS
  <2>3. r.agent.remotes = marked.remotes
    BY <1>3, <1>4, <1>5, WorkedAdvances, NominateAdvances DEF Alike
  <2> QED
    BY <2>1, <2>2, <2>3 DEF Advances, Follows, NominatesKnown
<1>8. ASSUME NEW x \in owners
      PROVE  /\ IsRun(p, r.agent, [x EXCEPT !.success = c.ref])
             /\ [x EXCEPT !.success = c.ref].at = x.at
  <2>1. IsRun(p, a, x)
    BY <1>2, Basics
  <2>2. x \in Runs(p) /\ x.id <= a.generation
    BY <2>1 DEF IsRun
  <2>3. r.agent.generation = a.generation /\ c.ref.remote \in ToSet(r.agent.remotes)
    BY <1>5, <1>7 DEF Follows
  <2> QED
    BY <1>4, <2>2, <2>3 DEF IsRun, Runs
<1>9. (\A x \in rs : x \in runs[p] \/ IsRun(p, r.agent, x)) /\ (Gathers(rs) => Gathers(runs[p]))
      /\ (runs[p] = {} => rs = {})
  BY <1>8 DEF Gathers
<1> HIDE DEF rs
<1>10. UpdatedAt(p, agent, agent', r.agent)
  BY <1>1, <1>2, Basics, Updated
<1>11. UpdatedAt(p, runs, runs', rs)
  BY <1>1, <1>2, <1>3, Basics, Updated
<1>12. UpdatedAt(p, tasks, tasks', tasks[p])
  BY <1>1, <1>2, Basics, Updated DEF checksOnly
<1>13. /\ losses' \in 0 .. network.losses /\ lates' \in 0 .. network.lates
       /\ mishaps \subseteq mishaps' /\ mishaps' \subseteq {"overtaken", "stale", "broken"}
  BY <1>1, <1>2, Basics DEF budget, checksOnly
<1>14. Checked(p, r.agent, {}, rs, tasks[p])
  BY <1>1, <1>7, <1>9, <1>10, <1>11, <1>12, <1>13 DEF Checked, checksOnly
<1> QED
  BY <1>2, <1>14, CheckStep

LEMMA GiveUpKeeps ==
  ASSUME IceInv, NEW p \in Peers, NEW run \in runs[p], GiveUp(p, run)
  PROVE  IceInv'
<1> DEFINE a == agent[p]
           b == [a EXCEPT !.state = "failed"]
           rs == runs[p] \ {run}
<1>1. /\ agent' = [agent EXCEPT ![p] = b] /\ runs' = [runs EXCEPT ![p] = rs]
      /\ mishaps' = (IF run.id # agent[p].generation THEN mishaps \cup {"stale"} ELSE mishaps)
      /\ UNCHANGED <<tasks, checks, net, candidates, negotiation, fixed, budget>>
  BY DEF GiveUp
<1>2. Follows(p, a, b, {}) /\ Steady(a, b) /\ NominatesKnown(a, b)
  <2>1. "failed" \in IceStates \ {"new"} /\ Sound(p, a)
    BY Basics DEF IceStates
  <2> QED
    BY <2>1, StateSet DEF Advances, Follows, NominatesKnown
<1> HIDE DEF b
<1>3. (\A x \in rs : x \in runs[p]) /\ (Gathers(rs) => Gathers(runs[p]))
  BY DEF Gathers
<1> HIDE DEF rs
<1>4. UpdatedAt(p, agent, agent', b)
  BY <1>1, Basics, Updated
<1>5. UpdatedAt(p, runs, runs', rs)
  BY <1>1, Basics, Updated
<1>6. UpdatedAt(p, tasks, tasks', tasks[p])
  BY <1>1, Basics, Updated
<1>7. /\ losses' \in 0 .. network.losses /\ lates' \in 0 .. network.lates
      /\ mishaps \subseteq mishaps' /\ mishaps' \subseteq {"overtaken", "stale", "broken"}
  BY <1>1, Basics DEF budget
<1>8. Checked(p, b, {}, rs, tasks[p])
  BY <1>1, <1>2, <1>3, <1>4, <1>5, <1>6, <1>7 DEF Checked
<1> QED
  BY <1>8, CheckStep

\* What has been bound is no more than the hosts.
LEMMA BoundTyped ==
  ASSUME NEW p \in Peers, NEW a, Sound(p, a), network \in Networks
  PROVE  /\ a.bound \in Seq(ToSet(Hosts(p))) /\ Len(a.bound) \in 0 .. Len(Hosts(p))
         /\ Len(Hosts(p)) \in Nat \ {0} /\ Hosts(p) \in Seq(ToSet(Hosts(p)))
         /\ DOMAIN a.bound = 1 .. Len(a.bound)
<1>1. a.bound \in Seq(ToSet(Hosts(p))) /\ IsPrefix(a.bound, Hosts(p))
  BY DEF Sound, Connections
<1>2. Len(a.bound) <= Len(Hosts(p))
  BY <1>1 DEF IsPrefix
<1> QED
  BY <1>1, <1>2, HostsTyped

\* The pairs of a candidate with what is bound, and the task that checks them.
PairsOf(a, c) == [i \in DOMAIN a.bound |-> Pair(a.bound[i], c)]
TaskOf(a, b) == [i \in DOMAIN a.bound |-> Ref(b, Len(a.list) + i)]

LEMMA PairsOfTyped ==
  ASSUME network \in Networks, NEW p \in Peers, NEW a, Sound(p, a), NEW c \in Known(p)
  PROVE  PairsWith(p, a, c, PairsOf(a, c)) /\ Len(PairsOf(a, c)) = Len(a.bound)
<1>1. a.bound \in Seq(ToSet(Hosts(p))) /\ DOMAIN a.bound = 1 .. Len(a.bound) /\ Len(a.bound) \in Nat
  BY BoundTyped
<1>2. ASSUME NEW i \in 1 .. Len(a.bound)
      PROVE  Pair(a.bound[i], c) \in Pairs(p) /\ Pair(a.bound[i], c).remote = c
  <2>1. a.bound[i] \in ToSet(Hosts(p))
    BY <1>1
  <2> QED
    BY <2>1 DEF Pair, Pairs, PairStates
<1>3. PairsOf(a, c) = [i \in 1 .. Len(a.bound) |-> Pair(a.bound[i], c)]
  BY <1>1 DEF PairsOf
<1> DEFINE n == Len(a.bound)
           f(i) == Pair(a.bound[i], c)
<1>4. [i \in 1 .. n |-> f(i)] \in Seq(Pairs(p)) /\ Len([i \in 1 .. n |-> f(i)]) = n
  <2>1. \A i \in 1 .. n : f(i) \in Pairs(p)
    BY <1>2
  <2> HIDE DEF f, n
  <2>2. n \in Nat
    BY <1>1 DEF n
  <2> QED
    BY <2>1, <2>2
<1>5. \A i \in 1 .. n : [j \in 1 .. n |-> f(j)][i].remote = c
  BY <1>2
<1>6. n = 0 => a.bound = << >>
  BY <1>1
<1>7. DOMAIN [i \in 1 .. n |-> f(i)] = 1 .. n
  OBVIOUS
<1>8. PairsOf(a, c) = [i \in 1 .. n |-> f(i)]
  BY <1>3
<1> HIDE DEF n, f
<1>9. PairsOf(a, c) # << >> => n # 0
  BY <1>4, <1>8
<1>10. a.bound = << >> => n = 0
  BY DEF n
<1> QED
  BY <1>4, <1>5, <1>7, <1>8, <1>9, <1>10 DEF PairsWith, n

LEMMA TaskOfTyped ==
  ASSUME network \in Networks, NEW p \in Peers, NEW a, Sound(p, a), NEW c \in Known(p),
         TaskOf(a, Longer(a, c, PairsOf(a, c))) # << >>
  PROVE  IsTask(p, Longer(a, c, PairsOf(a, c)), TaskOf(a, Longer(a, c, PairsOf(a, c))))
<1> DEFINE more == PairsOf(a, c)
           b == Longer(a, c, more)
           t == TaskOf(a, b)
           n == Len(a.bound)
<1>1. PairsWith(p, a, c, more) /\ Len(more) = n
  BY PairsOfTyped
<1>2. DOMAIN a.bound = 1 .. n /\ n \in 0 .. Len(Hosts(p)) /\ Len(Hosts(p)) \in Nat
  BY BoundTyped
<1>3. a \in Connections(p) /\ a.list \in Seq(Pairs(p)) /\ more \in Seq(Pairs(p))
  BY <1>1 DEF Sound, Connections, PairsWith
<1>4. b.list = a.list \o more
  BY <1>3, LongerList
<1>5. Sound(p, b)
  BY <1>1, Extended DEF Advances
<1> HIDE DEF more
<1>6. ASSUME NEW i \in 1 .. n PROVE Len(a.list) + i \in DOMAIN b.list
  <2>1. Len(a.list) \in Nat /\ DOMAIN (a.list \o more) = 1 .. (Len(a.list) + Len(more))
    BY <1>3
  <2>2. Len(a.list) + i \in 1 .. (Len(a.list) + Len(more))
    <3>1. \A x, y \in Nat : \A j \in 1 .. y : x + j \in 1 .. (x + y)
      OBVIOUS
    <3>2. Len(a.list) \in Nat /\ Len(more) \in Nat /\ i \in 1 .. Len(more)
      BY <1>1, <1>2, <2>1
    <3> QED
      BY <3>1, <3>2
  <2> HIDE DEF b
  <2>3. DOMAIN b.list = DOMAIN (a.list \o more)
    BY <1>4
  <2> QED
    BY <2>1, <2>2, <2>3
<1> HIDE DEF b
<1>7. ASSUME NEW i \in 1 .. n
      PROVE  Ref(b, Len(a.list) + i) \in Refs(p) /\ Ref(b, Len(a.list) + i).remote \in ToSet(b.remotes)
  BY <1>5, <1>6, <1>7, RefTyped
<1>8. t = [i \in 1 .. n |-> Ref(b, Len(a.list) + i)]
  BY <1>2 DEF TaskOf
<1> HIDE DEF t
<1>9. t \in Seq(Refs(p)) /\ Len(t) = n /\ DOMAIN t = 1 .. n
  BY <1>2, <1>7, <1>8
<1>10. t # << >>
  BY DEF t, b, more
<1>11. n # 0
  BY <1>9, <1>10
<1>12. \A i \in DOMAIN t : t[i].remote \in ToSet(b.remotes)
  BY <1>7, <1>8, <1>9
<1>13. IsTask(p, b, t)
  BY <1>2, <1>9, <1>11, <1>12 DEF IsTask
<1> QED
  BY <1>13 DEF b, t, more

LEMMA ChecksOnlyTyped ==
  ASSUME IceInv, negotiation' = negotiation, UNCHANGED <<fixed, budget, mishaps>>
  PROVE  Scalars' /\ (Behind' <=> Behind) /\ offerer' = offerer
<1>1. Scalars
  BY DEF IceInv, Parts, Scalars
<1> QED
  BY <1>1 DEF negotiation, fixed, budget, Scalars, Behind, Generations

LEMMA AddRemoteCandidateKeeps ==
  ASSUME IceInv, NEW p \in Peers, AddRemoteCandidate(p)
  PROVE  IceInv'
<1> DEFINE a == agent[p]
           c == Head(candidates[p])
           b == Longer(a, c, PairsOf(a, c))
           task == TaskOf(a, b)
           ts == IF a.state = "checking" /\ task # << >> THEN tasks[p] \cup {task} ELSE tasks[p]
           cs == Tail(candidates[p])
<1>1. /\ candidates[p] # << >> /\ agent' = [agent EXCEPT ![p] = b]
      /\ tasks' = (IF a.state = "checking" /\ task # << >>
                   THEN [tasks EXCEPT ![p] = @ \cup {task}] ELSE tasks)
      /\ candidates' = [candidates EXCEPT ![p] = cs]
      /\ UNCHANGED <<runs, checks, net, negotiation, fixed, budget, mishaps>>
  BY DEF AddRemoteCandidate, Longer, PairsOf, TaskOf
<1>2. candidates[p] \in Seq(Known(p)) /\ Sound(p, a) /\ network \in Networks
  BY Basics DEF IceInv, Parts
<1>3. /\ c \in Known(p) /\ c \in ToSet(candidates[p])
      /\ cs \in Seq(Known(p)) /\ ToSet(cs) \subseteq ToSet(candidates[p])
  BY <1>1, <1>2, ToSetTail
<1> HIDE DEF c, cs
<1>4. /\ Advances(p, a, b, {c}) /\ Steady(a, b)
  BY <1>2, <1>3, PairsOfTyped, Extended
<1>5. task # << >> => IsTask(p, b, task)
  BY <1>2, <1>3, TaskOfTyped
<1> HIDE DEF task, b
<1>6. UpdatedAt(p, agent, agent', b)
  BY <1>1, Basics, Updated
<1>7. UpdatedAt(p, tasks, tasks', ts)
  <2>1. CASE a.state = "checking" /\ task # << >>
    BY <1>1, <2>1, Basics, Updated
  <2>2. CASE ~(a.state = "checking" /\ task # << >>)
    BY <1>1, <2>2, Basics, Updated
  <2> QED
    BY <2>1, <2>2
<1>8. UpdatedAt(p, runs, runs', runs[p])
  BY <1>1, Basics, Updated
<1>9. \A t \in ts : t \in tasks[p] \/ IsTask(p, b, t)
  BY <1>5
<1>10. UpdatedAt(p, candidates, candidates', cs)
  BY <1>1, Basics, Updated
<1>11. \A q \in Peers : /\ candidates'[q] \in Seq(Known(q))
                        /\ ToSet(candidates'[q]) \subseteq ToSet(candidates[q])
  <2>1. Other(p) \in Peers /\ candidates[Other(p)] \in Seq(Known(Other(p)))
    BY Others DEF IceInv, Parts
  <2> QED
    BY <1>3, <1>10, <2>1, Others DEF UpdatedAt
<1>12. Trusted(p) => {c} \subseteq Open(p)
  <2> SUFFICES ASSUME Trusted(p) PROVE c \in Open(p)
    OBVIOUS
  <2>1. c \in ToSet(agent[Other(p)].bound) \X {agent[Other(p)].generation}
    BY <1>3 DEF IceInv, Reach
  <2>2. ~Behind
    <3>1. Behind => p = offerer /\ candidates[offerer] = << >>
      BY DEF Trusted, IceInv, Progress, Course
    <3> QED
      BY <1>1, <3>1
  <2> QED
    BY <2>1, <2>2 DEF Open
<1>13. Scalars' /\ (Behind' <=> Behind) /\ offerer' = offerer
  BY <1>1, ChecksOnlyTyped
<1>14. Local(p, b, {c})
  BY <1>1, <1>4, <1>6, <1>7, <1>8, <1>9, <1>10, <1>11, <1>12, <1>13
     DEF Local, UpdatedAt, Advances, Follows, NominatesKnown
<1>15. candidates[offerer] = << >> => candidates'[offerer] = << >>
  <2>1. offerer \in Peers
    BY DEF IceInv, Parts
  <2> QED
    BY <1>1, <1>10, <2>1, Others DEF UpdatedAt
<1> QED
  BY <1>1, <1>4, <1>8, <1>14, <1>15, SteadyStep DEF UpdatedAt

\* What setRemoteDescription and the gathering do at p, with the next step of the
\* negotiation.
LEMMA DescriptionStep ==
  ASSUME IceInv, step' \in Steps, round' = round, offerer' = offerer,
         UNCHANGED <<fixed, budget, mishaps>>
  PROVE  Scalars'
<1>1. Scalars
  BY DEF IceInv, Parts, Scalars
<1> QED
  BY <1>1 DEF fixed, budget, Scalars, Generations

LEMMA TakeAnswerKeeps ==
  ASSUME IceInv, NEW p \in Peers, TakeAnswer(p)
  PROVE  IceInv'
<1> DEFINE a == agent[p]
           r == Connect(p, a)
           b == IF a.called THEN a ELSE r.agent
           rs == IF a.called THEN runs[p] ELSE runs[p] \cup r.runs
<1>1. /\ step = "answered" /\ p = offerer /\ step' = "stable" /\ offerer' = offerer /\ round' = round
      /\ IF a.called THEN UNCHANGED <<agent, runs, checks, net>>
         ELSE /\ agent' = [agent EXCEPT ![p] = b] /\ runs' = [runs EXCEPT ![p] = rs]
              /\ checks' = checks \cup r.checks /\ net' = net \cup r.out
      /\ UNCHANGED <<tasks, candidates, fixed, budget, mishaps>>
  BY DEF TakeAnswer, Does
<1>2. Sound(p, a) /\ network \in Networks /\ Course(p) /\ round # 0
  BY <1>1, Basics DEF IceInv, Progress
<1>3. ~Idle(p) /\ ~Behind /\ a.state # "new"
  BY <1>1, <1>2 DEF Idle, Behind, Course
<1>4. IsOutcome(p, a, r) /\ RunsOn(p, r) /\ NominatesKnown(a, r.agent)
  BY <1>2, <1>3, ConnectOutcome
<1>5. Follows(p, a, a, {}) /\ Steady(a, a)
  BY <1>2, AdvancesReflexive, AdvancesFollows
<1> HIDE DEF r
<1>6. /\ Follows(p, a, b, {}) /\ Steady(a, b) /\ NominatesKnown(a, b)
      /\ (\A x \in rs : x \in runs[p] \/ IsRun(p, b, x)) /\ (Gathers(rs) => Gathers(runs[p]))
      /\ (\A c \in checks' : c \in checks \/ IsCheck(p, b, c))
      /\ (\A m \in net' : m \in net \/ Sent(p, b, m))
  <2>1. CASE a.called
    BY <1>1, <1>5, <2>1 DEF NominatesKnown
  <2>2. CASE ~a.called
    BY <1>1, <1>4, <2>2 DEF IsOutcome, RunsOn, Gathers
  <2> QED
    BY <2>1, <2>2
<1>7. UpdatedAt(p, agent, agent', b) /\ UpdatedAt(p, runs, runs', rs)
  <2>1. CASE a.called
    <3>1. b = a /\ rs = runs[p] /\ agent' = agent /\ runs' = runs
      BY <1>1, <2>1
    <3> HIDE DEF b, rs
    <3>2. UpdatedAt(p, agent, agent', b)
      BY <3>1, Basics, Updated
    <3>3. UpdatedAt(p, runs, runs', rs)
      BY <3>1, Basics, Updated
    <3> QED
      BY <3>2, <3>3
  <2>2. CASE ~a.called
    <3>1. agent' = [agent EXCEPT ![p] = b] /\ runs' = [runs EXCEPT ![p] = rs]
      BY <1>1, <2>2
    <3> HIDE DEF b, rs
    <3>2. UpdatedAt(p, agent, agent', b)
      BY <3>1, Basics, Updated
    <3>3. UpdatedAt(p, runs, runs', rs)
      BY <3>1, Basics, Updated
    <3> QED
      BY <3>2, <3>3
  <2> QED
    BY <2>1, <2>2
<1> HIDE DEF b, rs
<1>8. UpdatedAt(p, tasks, tasks', tasks[p])
  BY <1>1, Basics, Updated
<1>9. /\ DOMAIN candidates' = Peers
      /\ \A q \in Peers : candidates'[q] \in Seq(Known(q)) /\ candidates'[q] = candidates[q]
  BY <1>1 DEF IceInv, Parts
<1>10. ~Behind' /\ step' \in Steps
  BY <1>1 DEF Behind, Steps
<1>11. Scalars' /\ (Behind' <=> Behind)
  BY <1>1, <1>3, <1>10, DescriptionStep
<1>12. Local(p, b, {})
  BY <1>1, <1>3, <1>6, <1>7, <1>8, <1>9, <1>11 DEF Local, UpdatedAt
<1>13. /\ ~Idle(p)' /\ (Idle(Other(p))' <=> Idle(Other(p)))
       /\ ~Describing(p)' /\ ~Describing(Other(p))'
  BY <1>1, <1>2 DEF Idle, Describing
<1>14. Gathers(rs) => b.state # "new" /\ Len(b.bound) < Len(Hosts(p))
  <2>1. Gathers(runs[p]) => Len(a.bound) < Len(Hosts(p))
    BY <1>2 DEF Course, Gathers
  <2> QED
    BY <1>3, <1>6, <2>1 DEF Steady
<1>15. Orderly(p, b)
  BY <1>1, <1>3, <1>6, <1>7, <1>13, <1>14 DEF Orderly, UpdatedAt, Gathers, Steady
<1> QED
  BY <1>12, <1>15, LocalStep

LEMMA GiveAnswerKeeps ==
  ASSUME IceInv, NEW p \in Peers, GiveAnswer(p)
  PROVE  IceInv'
<1> DEFINE a == agent[p]
           next == [a EXCEPT !.state = "gathering"]
           b == IF round = 1 THEN next ELSE a
<1>1. /\ step = "taken" /\ p # offerer /\ offerer' = offerer /\ round' = round
      /\ step' = (IF round = 1 THEN "answering" ELSE "answered")
      /\ agent' = (IF round = 1 THEN [agent EXCEPT ![p] = next] ELSE agent)
      /\ UNCHANGED <<runs, tasks, checks, net, candidates, fixed, budget, mishaps>>
  BY DEF GiveAnswer
<1>2. Sound(p, a) /\ network \in Networks /\ Course(p) /\ round # 0
  BY <1>1, Basics DEF IceInv, Progress
<1>3. /\ Advances(p, a, next, {}) /\ Steady(a, next) /\ next.state = "gathering"
      /\ Advances(p, a, a, {}) /\ Steady(a, a)
  <2>1. "gathering" \in IceStates \ {"new"}
    BY DEF IceStates
  <2> QED
    BY <1>2, <2>1, StateSet, AdvancesReflexive
<1> HIDE DEF next
<1>4. Follows(p, a, b, {}) /\ Steady(a, b) /\ NominatesKnown(a, b)
  BY <1>3 DEF Advances, Follows, NominatesKnown
<1>5. UpdatedAt(p, agent, agent', b)
  <2>1. CASE round = 1
    BY <1>1, <2>1, Basics, Updated
  <2>2. CASE round # 1
    BY <1>1, <2>2, Basics, Updated
  <2> QED
    BY <2>1, <2>2
<1>6. UpdatedAt(p, runs, runs', runs[p])
  BY <1>1, Basics, Updated
<1>7. UpdatedAt(p, tasks, tasks', tasks[p])
  BY <1>1, Basics, Updated
<1>8. /\ DOMAIN candidates' = Peers
      /\ \A q \in Peers : candidates'[q] \in Seq(Known(q)) /\ candidates'[q] = candidates[q]
  BY <1>1 DEF IceInv, Parts
<1>9. ~Behind /\ ~Behind' /\ step' \in Steps
  BY <1>1 DEF Behind, Steps
<1>10. Scalars' /\ (Behind' <=> Behind)
  BY <1>1, <1>9, DescriptionStep
<1>11. Other(p) = offerer
  BY <1>1, Others DEF IceInv, Parts
<1>12. /\ ~Idle(p)' /\ ~Idle(Other(p))' /\ ~Idle(Other(p)) /\ ~Describing(Other(p))'
  BY <1>1, <1>2, <1>11 DEF Idle, Describing
<1>13. b.state # "new"
  BY <1>1, <1>2, <1>3 DEF Course, Idle
<1>14. Describing(p)' \/ Gathers(runs[p]) => Len(b.bound) < Len(Hosts(p))
  <2>1. b.bound = a.bound
    BY <1>4 DEF Steady
  <2>2. Gathers(runs[p]) => Len(a.bound) < Len(Hosts(p))
    BY <1>2 DEF Course, Gathers
  <2>3. CASE Describing(p)'
    <3>1. round = 1
      BY <1>1, <2>3 DEF Describing
    <3>2. a.bound = << >>
      BY <1>1, <1>2, <3>1 DEF Course, Idle
    <3>3. Len(a.bound) = 0
      BY <3>2
    <3> QED
      BY <1>2, <2>1, <3>3, HostsTyped
  <2> QED
    BY <2>1, <2>2, <2>3
<1> HIDE DEF b
<1>15. Local(p, b, {})
  BY <1>1, <1>4, <1>5, <1>6, <1>7, <1>8, <1>9, <1>10 DEF Local, UpdatedAt
<1>16. Orderly(p, b)
  BY <1>1, <1>2, <1>6, <1>9, <1>12, <1>13, <1>14 DEF Orderly, UpdatedAt, Gathers
<1> QED
  BY <1>15, <1>16, LocalStep

\* The next address is bound.
NextHost(p, a) == Hosts(p)[Len(a.bound) + 1]
HostPairs(a, host) == [i \in DOMAIN a.remotes |-> Pair(host, a.remotes[i])]
Bound(a, host) == [a EXCEPT !.bound = Append(@, host), !.list = @ \o HostPairs(a, host)]

LEMMA HostPairsTyped ==
  ASSUME NEW p \in Peers, NEW a, Sound(p, a), NEW host \in ToSet(Hosts(p))
  PROVE  /\ HostPairs(a, host) \in Seq(Pairs(p))
         /\ \A i \in DOMAIN HostPairs(a, host) : HostPairs(a, host)[i].remote \in ToSet(a.remotes)
<1>1. a.remotes \in Seq(Known(p))
  BY DEF Sound, Connections
<1>2. DOMAIN a.remotes = 1 .. Len(a.remotes) /\ Len(a.remotes) \in Nat
  BY <1>1
<1> DEFINE n == Len(a.remotes)
           f(i) == Pair(host, a.remotes[i])
<1>3. ASSUME NEW i \in 1 .. n PROVE f(i) \in Pairs(p) /\ f(i).remote \in ToSet(a.remotes)
  <2>1. a.remotes[i] \in Known(p) /\ a.remotes[i] \in ToSet(a.remotes)
    BY <1>1, <1>2, ToSetTyped
  <2> QED
    BY <2>1 DEF Pair, Pairs, PairStates
<1>4. HostPairs(a, host) = [i \in 1 .. n |-> f(i)]
  BY <1>2 DEF HostPairs
<1> HIDE DEF f, n
<1>5. [i \in 1 .. n |-> f(i)] \in Seq(Pairs(p))
  <2>1. n \in Nat
    BY <1>2 DEF n
  <2> QED
    BY <1>3, <2>1
<1> QED
  BY <1>3, <1>4, <1>5

\* A sequence that has come shorter than the whole grows by the next element.
LEMMA PrefixGrows ==
  ASSUME NEW S, NEW t \in Seq(S), NEW s \in Seq(S), IsPrefix(s, t), Len(s) < Len(t)
  PROVE  /\ IsPrefix(Append(s, t[Len(s) + 1]), t) /\ t[Len(s) + 1] \in ToSet(t)
         /\ Append(s, t[Len(s) + 1]) \in Seq(S) /\ Len(Append(s, t[Len(s) + 1])) = Len(s) + 1
<1> DEFINE n == Len(s)
           x == t[n + 1]
           r == Append(s, x)
<1>1. /\ n \in Nat /\ Len(t) \in Nat /\ n + 1 \in 1 .. Len(t) /\ DOMAIN t = 1 .. Len(t)
      /\ SubSeq(s, 1, n) = SubSeq(t, 1, n)
  BY DEF IsPrefix
<1>2. x \in S /\ x \in ToSet(t)
  BY <1>1 DEF ToSet
<1> HIDE DEF x
<1>3. /\ r \in Seq(S) /\ Len(r) = n + 1 /\ r[n + 1] = x
      /\ \A i \in 1 .. n : r[i] = s[i]
  BY <1>1, <1>2
<1>4. ASSUME NEW i \in 1 .. n PROVE s[i] = t[i]
  <2>1. SubSeq(s, 1, n)[i] = s[i] /\ SubSeq(t, 1, n)[i] = t[i]
    BY <1>1
  <2> QED
    BY <1>1, <2>1
<1> HIDE DEF r
<1>5. \A i \in 1 .. (n + 1) : r[i] = t[i]
  <2>1. x = t[n + 1]
    BY DEF x
  <2>2. ASSUME NEW i \in 1 .. (n + 1) PROVE r[i] = t[i]
    <3>1. i \in 1 .. n \/ i = n + 1
      BY <1>1
    <3> QED
      BY <1>3, <1>4, <2>1, <3>1
  <2> QED
    BY <2>2
<1>6. SubSeq(r, 1, n + 1) = SubSeq(t, 1, n + 1)
  <2>1. /\ SubSeq(r, 1, n + 1) = [i \in 1 .. (n + 1) |-> r[i]]
        /\ SubSeq(t, 1, n + 1) = [i \in 1 .. (n + 1) |-> t[i]]
    BY <1>1, <1>3
  <2> QED
    BY <1>5, <2>1
<1>7. IsPrefix(r, t)
  BY <1>1, <1>3, <1>6 DEF IsPrefix
<1> QED
  BY <1>2, <1>3, <1>7 DEF r, x

LEMMA BoundAdvances ==
  ASSUME network \in Networks, NEW p \in Peers, NEW a, Sound(p, a), Len(a.bound) < Len(Hosts(p))
  PROVE  /\ Advances(p, a, Bound(a, NextHost(p, a)), {}) /\ Sound(p, Bound(a, NextHost(p, a)))
         /\ Bound(a, NextHost(p, a)).state = a.state
         /\ Bound(a, NextHost(p, a)).nominated = a.nominated
         /\ Len(Bound(a, NextHost(p, a)).bound) = Len(a.bound) + 1
         /\ NextHost(p, a) \in ToSet(Bound(a, NextHost(p, a)).bound)
<1> DEFINE host == NextHost(p, a)
           more == HostPairs(a, host)
           r == Append(a.bound, host)
           l == a.list \o more
           c == [a EXCEPT !.bound = r]
           b == [c EXCEPT !.list = l]
<1>1. /\ a \in Connections(p) /\ a.bound \in Seq(ToSet(Hosts(p))) /\ a.list \in Seq(Pairs(p))
      /\ Hosts(p) \in Seq(ToSet(Hosts(p))) /\ IsPrefix(a.bound, Hosts(p))
  BY BoundTyped DEF Sound, Connections
<1>2. /\ IsPrefix(r, Hosts(p)) /\ host \in ToSet(Hosts(p))
      /\ r \in Seq(ToSet(Hosts(p))) /\ Len(r) = Len(a.bound) + 1
  BY <1>1, PrefixGrows DEF NextHost
<1> HIDE DEF host
<1>3. /\ more \in Seq(Pairs(p)) /\ \A i \in DOMAIN more : more[i].remote \in ToSet(a.remotes)
  BY <1>2, HostPairsTyped
<1>4. Bound(a, host) = b
  BY <1>1 DEF Connections, Bound
<1> HIDE DEF more
<1>5. l \in Seq(Pairs(p))
  BY <1>1, <1>3
<1>6. ASSUME NEW i \in DOMAIN l PROVE l[i].remote \in ToSet(a.remotes)
  <2>1. /\ i \in 1 .. (Len(a.list) + Len(more)) /\ Len(a.list) \in Nat /\ Len(more) \in Nat
        /\ l[i] = IF i <= Len(a.list) THEN a.list[i] ELSE more[i - Len(a.list)]
    BY <1>1, <1>3
  <2>2. CASE i <= Len(a.list)
    BY <1>1, <2>1, <2>2 DEF Sound, Listed
  <2>3. CASE i > Len(a.list)
    <3>1. i - Len(a.list) \in DOMAIN more
      BY <1>3, <2>1, <2>3
    <3> QED
      BY <1>3, <2>1, <2>3, <3>1
  <2> QED
    BY <2>1, <2>2, <2>3
<1>7. ToSet(r) = ToSet(a.bound) \cup {host}
  BY <1>1, ToSetAppend
<1> HIDE DEF r, l
<1>8. c \in Connections(p) /\ b \in Connections(p)
  BY <1>1, <1>2, <1>5, UpdatesTyped
<1>9. /\ b.generation = a.generation /\ b.bound = r /\ b.remotes = a.remotes
      /\ b.list = l /\ b.early = a.early /\ b.nominated = a.nominated /\ b.state = a.state
  BY <1>1, <1>8 DEF Connections
<1> HIDE DEF c, b
<1>10. r # << >>
  BY <1>7 DEF ToSet
<1>11. Sound(p, b)
  BY <1>2, <1>6, <1>8, <1>9, <1>10 DEF Sound, Listed
<1>12. Learned(b) = Learned(a)
  BY <1>9 DEF Learned
<1>13. /\ Advances(p, a, b, {}) /\ Sound(p, b) /\ b.state = a.state /\ b.nominated = a.nominated
       /\ Len(b.bound) = Len(a.bound) + 1 /\ host \in ToSet(b.bound)
  BY <1>2, <1>7, <1>9, <1>11, <1>12 DEF Advances
<1> QED
  BY <1>4, <1>13 DEF host

LEMMA GatherKeeps ==
  ASSUME IceInv, NEW p \in Peers, Gather(p)
  PROVE  IceInv'
<1> DEFINE a == agent[p]
           host == NextHost(p, a)
           bound == Bound(a, host)
           waiting == {x \in runs[p] : x.at = "gathering"}
           last == Len(bound.bound) = Len(Hosts(p))
           connects == waiting # {} \/ step = "answering" \/ round > 1
           plain == [agent |-> bound, out |-> {}, checks |-> {},
                     runs |-> IF last THEN {} ELSE waiting]
           r == IF last /\ connects THEN Connect(p, bound) ELSE plain
           rs == (runs[p] \ waiting) \cup r.runs
           cs == Append(candidates[Other(p)], <<host, a.generation>>)
           after == IF step = "offering" THEN "offered" ELSE "answered"
<1>1. /\ Describing(p) \/ waiting # {}
      /\ agent' = [agent EXCEPT ![p] = r.agent] /\ runs' = [runs EXCEPT ![p] = rs]
      /\ checks' = checks \cup r.checks /\ net' = net \cup r.out
      /\ candidates' = [candidates EXCEPT ![Other(p)] = cs]
      /\ step' = (IF last /\ Describing(p) THEN after ELSE step)
      /\ UNCHANGED <<tasks, offerer, round, fixed, budget, mishaps>>
  BY DEF Gather, Does, Bound, NextHost, HostPairs
<1>2. /\ Sound(p, a) /\ network \in Networks /\ Course(p) /\ (step # "stable" => round # 0)
      /\ Other(p) \in Peers /\ Other(p) # p
  BY Basics, Others DEF IceInv, Progress
<1>3. waiting # {} <=> Gathers(runs[p])
  BY DEF Gathers
<1>4. a.state # "new" /\ Len(a.bound) < Len(Hosts(p))
  BY <1>1, <1>2 DEF Course
<1>5. /\ Advances(p, a, bound, {}) /\ Sound(p, bound) /\ bound.state # "new"
      /\ host \in ToSet(bound.bound)
  BY <1>2, <1>4, BoundAdvances
<1>6. ~last => Len(bound.bound) < Len(Hosts(p))
  <2>1. Len(bound.bound) \in 0 .. Len(Hosts(p)) /\ Len(Hosts(p)) \in Nat
    BY <1>2, <1>5, BoundTyped
  <2> HIDE DEF bound
  <2> QED
    BY <2>1
<1> HIDE DEF bound, host, waiting, last
<1>7. /\ IsOutcome(p, bound, r) /\ NominatesKnown(bound, r.agent)
      /\ (\A x \in r.runs : x \in waiting \/ IsRun(p, r.agent, x))
      /\ (Gathers(r.runs) => waiting # {} /\ ~last)
  <2>1. CASE last /\ connects
    <3>1. r = Connect(p, bound)
      BY <2>1
    <3> HIDE DEF r
    <3>2. IsOutcome(p, bound, r) /\ RunsOn(p, r) /\ NominatesKnown(bound, r.agent)
      BY <1>2, <1>5, <3>1, ConnectOutcome
    <3> QED
      BY <3>2 DEF RunsOn, Gathers
  <2>2. CASE ~(last /\ connects)
    <3>1. /\ r.agent = bound /\ r.out = {} /\ r.checks = {}
          /\ r.runs = IF last THEN {} ELSE waiting
      BY <2>2
    <3> HIDE DEF r
    <3>2. Follows(p, bound, bound, {}) /\ Steady(bound, bound)
      BY <1>5, AdvancesReflexive, AdvancesFollows
    <3> QED
      BY <3>1, <3>2 DEF IsOutcome, NominatesKnown, Gathers
  <2> QED
    BY <2>1, <2>2
<1> HIDE DEF r, connects
<1>8. /\ Follows(p, a, r.agent, {}) /\ NominatesKnown(a, r.agent)
      /\ r.agent.bound = bound.bound /\ r.agent.state # "new"
  <2>1. Advances(p, bound, r.agent, {}) /\ Steady(bound, r.agent)
    BY <1>7 DEF IsOutcome, Follows, Advances, NominatesKnown
  <2>2. Advances(p, a, r.agent, {} \cup {})
    BY <1>5, <2>1, AdvancesTransitive
  <2>3. {} \cup {} = {}
    OBVIOUS
  <2> QED
    BY <1>5, <2>1, <2>2, <2>3 DEF Advances, Follows, NominatesKnown, Steady
<1>9. /\ \A x \in rs : x \in runs[p] \/ IsRun(p, r.agent, x)
      /\ Gathers(rs) => Gathers(runs[p]) /\ ~last
  <2>1. waiting \subseteq runs[p] /\ ~Gathers(runs[p] \ waiting)
    BY DEF waiting, Gathers
  <2> QED
    BY <1>3, <1>7, <2>1 DEF Gathers
<1>10. /\ \A c \in checks' : c \in checks \/ IsCheck(p, r.agent, c)
       /\ \A m \in net' : m \in net \/ Sent(p, r.agent, m)
  BY <1>1, <1>7 DEF IsOutcome
<1> HIDE DEF rs
<1>11. UpdatedAt(p, agent, agent', r.agent)
  BY <1>1, Basics, Updated
<1>12. UpdatedAt(p, runs, runs', rs)
  BY <1>1, Basics, Updated
<1>13. UpdatedAt(p, tasks, tasks', tasks[p])
  BY <1>1, Basics, Updated
<1>14. /\ candidates[Other(p)] \in Seq(Known(Other(p))) /\ candidates[p] \in Seq(Known(p))
       /\ DOMAIN candidates = Peers
  BY <1>2 DEF IceInv, Parts
<1>15. /\ cs \in Seq(Known(Other(p)))
       /\ ToSet(cs) = ToSet(candidates[Other(p)]) \cup {<<host, a.generation>>}
  <2>1. host \in ToSet(Hosts(p))
    <3>1. bound.bound \in Seq(ToSet(Hosts(p)))
      BY <1>5 DEF Sound, Connections
    <3> QED
      BY <1>5, <3>1, ToSetTyped
  <2>2. <<host, a.generation>> \in Known(Other(p))
    <3>1. a.generation \in Generations /\ Other(Other(p)) = p
      BY <1>2, Others DEF Sound, Connections
    <3> QED
      BY <2>1, <3>1 DEF Known
  <2> DEFINE c == <<host, a.generation>>
  <2> HIDE DEF c
  <2>3. c \in Known(Other(p))
    BY <2>2 DEF c
  <2>4. /\ Append(candidates[Other(p)], c) \in Seq(Known(Other(p)))
        /\ ToSet(Append(candidates[Other(p)], c)) = ToSet(candidates[Other(p)]) \cup {c}
    BY <1>14, <2>3, ToSetAppend
  <2> QED
    BY <2>4 DEF c
<1>16. <<host, a.generation>> \in ToSet(r.agent.bound) \X {r.agent.generation}
  BY <1>5, <1>8 DEF Follows
<1> HIDE DEF cs
<1>17. candidates'[Other(p)] = cs /\ candidates'[p] = candidates[p] /\ DOMAIN candidates' = Peers
  BY <1>1, <1>2, <1>14
<1>18. \A q \in Peers : /\ candidates'[q] \in Seq(Known(q))
                        /\ \A c \in ToSet(candidates'[q]) :
                             \/ c \in ToSet(candidates[q])
                             \/ q = Other(p) /\ c \in ToSet(r.agent.bound) \X {r.agent.generation}
  BY <1>14, <1>15, <1>16, <1>17, Others
<1>19. /\ step' = step \/ (last /\ step = "offering" /\ p = offerer /\ step' = "offered")
            \/ (last /\ step = "answering" /\ p # offerer /\ step' = "answered")
       /\ last => ~Describing(p)'
       /\ offerer' = offerer /\ round' = round
  BY <1>1 DEF Describing
<1>20. (Behind' <=> Behind) /\ step' \in Steps
  <2>1. step \in Steps
    BY DEF IceInv, Parts
  <2> QED
    BY <1>19, <2>1 DEF Behind, Steps
<1>21. Scalars'
  BY <1>1, <1>20, DescriptionStep
<1>22. Local(p, r.agent, {})
  BY <1>1, <1>8, <1>9, <1>10, <1>11, <1>12, <1>13, <1>17, <1>18, <1>20, <1>21, Basics
     DEF Local, UpdatedAt
<1>23. ~Idle(p) /\ round # 0
  <2>1. CASE Describing(p)
    BY <1>2, <2>1 DEF Describing, Idle
  <2>2. CASE waiting # {}
    BY <1>2, <1>3, <2>2 DEF Course, Gathers, Idle
  <2> QED
    BY <1>1, <2>1, <2>2
<1>24. ~Idle(p)' /\ (Idle(Other(p))' <=> Idle(Other(p)))
       /\ (Describing(Other(p))' => Describing(Other(p)))
  BY <1>19, <1>23 DEF Idle, Describing
<1>25. Describing(p)' \/ Gathers(rs) => Len(r.agent.bound) < Len(Hosts(p))
  BY <1>6, <1>8, <1>9, <1>19
<1>26. Behind => ~Gathers(rs) /\ candidates'[offerer] = << >>
  <2> SUFFICES ASSUME Behind PROVE ~Gathers(rs) /\ candidates'[offerer] = << >>
    OBVIOUS
  <2>1. ~Gathers(runs[p]) /\ candidates[offerer] = << >>
    BY <1>2 DEF Course, Gathers
  <2>2. p = offerer
    BY <1>1, <1>3, <2>1 DEF Behind, Describing
  <2> QED
    BY <1>9, <1>17, <2>1, <2>2
<1>27. Orderly(p, r.agent)
  BY <1>8, <1>12, <1>19, <1>23, <1>24, <1>25, <1>26 DEF Orderly, UpdatedAt, Gathers
<1> QED
  BY <1>22, <1>27, LocalStep

-----------------------------------------------------------------------------
(* Restarts *)

\* An agent that has just restarted.
Blank(p, a, b) ==
  /\ Sound(p, b) /\ b.generation = a.generation + 1 /\ b.bound = << >> /\ b.nominated = None
  /\ Learned(b) = {} /\ b.state = "gathering"

LEMMA RestartedSound ==
  ASSUME network \in Networks, NEW p \in Peers, NEW a, Sound(p, a),
         a.generation + 1 \in Generations
  PROVE  /\ Sound(p, Restarted(a)) /\ Restarted(a).generation = a.generation + 1
         /\ Restarted(a).bound = << >> /\ Restarted(a).nominated = None
         /\ Restarted(a).state = "new" /\ Learned(Restarted(a)) = {}
         /\ ToSet(Restarted(a).remotes) = {}
<1> DEFINE b == Restarted(a)
           e == << >>
<1>1. /\ b.state = "new" /\ b.controlling = a.controlling /\ b.generation = a.generation + 1
      /\ b.bound = << >> /\ b.remotes = e /\ b.list = << >> /\ b.nominated = None
      /\ b.early = e /\ b.earlyDone = FALSE /\ b.called = FALSE
  BY DEF Restarted, Fresh
<1>2. a.controlling \in BOOLEAN
  BY DEF Sound, Connections
<1>3. /\ << >> \in Seq(ToSet(Hosts(p))) /\ << >> \in Seq(Known(p)) /\ << >> \in Seq(Pairs(p))
      /\ << >> \in Seq(RequestsTo(p))
  OBVIOUS
<1>4. ToSet(e) = {}
  BY DEF ToSet
<1>5. b \in Connections(p)
  BY <1>2, <1>3 DEF Connections, IceStates, Restarted, Fresh
<1>6. IsPrefix(<< >>, Hosts(p))
  <2>1. Hosts(p) \in Seq(ToSet(Hosts(p)))
    BY HostsTyped
  <2>2. SubSeq(Hosts(p), 1, 0) = << >> /\ SubSeq(<< >>, 1, 0) = << >> /\ Len(<< >>) = 0
    BY <2>1
  <2>3. 0 <= Len(Hosts(p))
    BY <2>1
  <2> QED
    BY <2>2, <2>3 DEF IsPrefix
<1>7. Sound(p, b)
  <2>1. Listed(b)
    BY <1>1 DEF Listed
  <2> HIDE DEF b
  <2> QED
    BY <1>1, <1>5, <1>6, <2>1 DEF Sound
<1> HIDE DEF e, b
<1>8. Learned(b) = {}
  BY <1>1, <1>4 DEF Learned
<1> QED
  BY <1>1, <1>4, <1>7, <1>8 DEF b

\* createOffer starts to gather; the other end is also connecting.
Begun(a) == [Restarted(a) EXCEPT !.state = "gathering"]
Joined(a) == [Begun(a) EXCEPT !.called = TRUE]

LEMMA BegunBlank ==
  ASSUME network \in Networks, NEW p \in Peers, NEW a, Sound(p, a),
         a.generation + 1 \in Generations
  PROVE  Blank(p, a, Begun(a)) /\ Blank(p, a, Joined(a))
<1> DEFINE b == Restarted(a)
           c == Begun(a)
           d == Joined(a)
<1>1. /\ Sound(p, b) /\ b.generation = a.generation + 1 /\ b.bound = << >> /\ b.nominated = None
      /\ Learned(b) = {} /\ ToSet(b.remotes) = {}
  BY RestartedSound
<1> HIDE DEF b
<1>2. Advances(p, b, c, {}) /\ Alike(b, c) /\ c.state = "gathering" /\ c.nominated = b.nominated
  <2>1. "gathering" \in IceStates \ {"new"}
    BY DEF IceStates
  <2>2. c = [b EXCEPT !.state = "gathering"]
    BY DEF Begun, b
  <2> HIDE DEF c
  <2> QED
    BY <1>1, <2>1, <2>2, StateSet
<1> HIDE DEF c
<1>3. Advances(p, c, d, {}) /\ Alike(c, d) /\ d.state = c.state
  <2>1. d = [c EXCEPT !.called = TRUE] /\ Sound(p, c)
    BY <1>2 DEF Joined, c, Advances
  <2> HIDE DEF d
  <2> QED
    BY <2>1, CalledSet
<1> HIDE DEF d
<1>4. Blank(p, a, c) /\ Learned(c) = {} /\ ToSet(c.remotes) = {}
  BY <1>1, <1>2 DEF Blank, Advances, Alike
<1>5. Blank(p, a, d)
  BY <1>3, <1>4 DEF Blank, Advances, Alike
<1> QED
  BY <1>4, <1>5 DEF c, d

\* p has restarted: what belonged to its sockets has gone, and the other one trusts
\* nothing that it had not learned before.
Restarts(p, b, rs) ==
  /\ fixed' = fixed /\ Scalars' /\ mishaps \subseteq mishaps'
  /\ UpdatedAt(p, agent, agent', b) /\ Blank(p, agent[p], b)
  /\ UpdatedAt(p, runs, runs', rs)
  /\ \A r \in rs : r \in runs[p] \/ IsRun(p, b, r)
  /\ CloseSockets(p) /\ tasks[p] = {} /\ UNCHANGED <<tasks, candidates>>
  /\ candidates[Other(p)] = << >>
  /\ Trusted(Other(p))' => Trusted(Other(p)) /\ Open(Other(p)) = {}

LEMMA RestartParts ==
  ASSUME Parts, NEW p \in Peers, NEW b, NEW rs, Restarts(p, b, rs)
  PROVE  Parts'
<1>1. /\ DOMAIN agent' = Peers /\ agent'[p] = b /\ agent'[Other(p)] = agent[Other(p)]
      /\ DOMAIN runs' = Peers /\ runs'[p] = rs /\ runs'[Other(p)] = runs[Other(p)]
      /\ Other(p) \in Peers /\ Other(p) # p
      /\ Sound(p, b) /\ b.generation = agent[p].generation + 1
      /\ tasks' = tasks /\ tasks[p] = {} /\ candidates' = candidates
      /\ \A r \in rs : r \in runs[p] \/ IsRun(p, b, r)
  BY Others DEF Restarts, UpdatedAt, Blank
<1>2. /\ \A q : Hosts(q)' = Hosts(q) /\ Known(q)' = Known(q)
      /\ \A q : Runs(q)' = Runs(q) /\ RequestsTo(q)' = RequestsTo(q) /\ Refs(q)' = Refs(q)
      /\ \A q : Connections(q)' = Connections(q)
      /\ Answers' = Answers
  BY FixedTypes DEF Restarts
<1>3. ASSUME NEW q \in Peers PROVE Sound(q, agent'[q])
  <2>1. Sound(Other(p), agent[Other(p)])
    BY <1>1 DEF Parts, Sound
  <2> QED
    BY <1>1, <2>1, Others
<1>4. ASSUME NEW q \in Peers, NEW r \in runs'[q] PROVE IsRun(q, agent'[q], r)
  <2>1. CASE q = p
    <3>1. CASE r \in runs[p]
      <4>1. IsRun(p, agent[p], r)
        BY <3>1 DEF Parts
      <4>2. agent[p].generation \in Nat /\ r.id \in Nat
        BY <4>1 DEF Parts, IsRun, Runs, Connections, Generations
      <4>3. r \in Runs(p) /\ r.id <= b.generation /\ r.id # b.generation
        BY <1>1, <4>1, <4>2 DEF IsRun
      <4> QED
        BY <1>1, <2>1, <4>3 DEF IsRun
    <3> QED
      BY <1>1, <2>1, <3>1
  <2>2. CASE q # p
    <3>1. q = Other(p)
      BY <2>2, Others
    <3> QED
      BY <1>1, <3>1 DEF Parts
  <2> QED
    BY <2>1, <2>2
<1>5. ASSUME NEW q \in Peers, NEW t \in tasks'[q] PROVE IsTask(q, agent'[q], t)
  <2>1. q = Other(p)
    BY <1>1, Others
  <2> QED
    BY <1>1, <2>1 DEF Parts
<1>6. ASSUME NEW c \in checks' PROVE \E q \in Peers : IsCheck(q, agent'[q], c)
  <2>1. c \in checks /\ c.by # p
    BY DEF Restarts, CloseSockets
  <2>2. PICK q \in Peers : IsCheck(q, agent[q], c)
    BY <2>1 DEF Parts
  <2>3. q = Other(p)
    BY <2>1, <2>2, Others DEF IsCheck
  <2> QED
    BY <1>1, <2>2, <2>3
<1>7. ASSUME NEW m \in net' PROVE m \in Answers \/ \E q \in Peers : m \in RequestsTo(q)
  BY DEF Restarts, CloseSockets, Parts
<1>8. (\A q \in Peers : agent[q] \in Connections(q) /\ IsPrefix(agent[q].bound, Hosts(q))
                         /\ Listed(agent[q]))'
  BY <1>2, <1>3 DEF Sound
<1>9. (\A q \in Peers : \A r \in runs[q] : IsRun(q, agent[q], r))'
  BY <1>2, <1>4 DEF IsRun
<1>10. (\A q \in Peers : \A t \in tasks[q] : IsTask(q, agent[q], t))'
  BY <1>2, <1>5 DEF IsTask
<1>11. (\A c \in checks : \E q \in Peers : IsCheck(q, agent[q], c))'
  BY <1>2, <1>6 DEF IsCheck
<1>12. (\A m \in net : m \in Answers \/ \E q \in Peers : m \in RequestsTo(q))'
  BY <1>2, <1>7
<1>13. (\A q \in Peers : candidates[q] \in Seq(Known(q)))'
  BY <1>1, <1>2 DEF Parts
<1>14. Scalars' /\ DOMAIN tasks' = Peers /\ DOMAIN candidates' = Peers
  BY <1>1 DEF Restarts, Parts
<1> QED
  BY <1>1, <1>8, <1>9, <1>10, <1>11, <1>12, <1>13, <1>14 DEF Parts, Scalars

LEMMA RestartReach ==
  ASSUME Parts, Reach, NEW p \in Peers, NEW b, NEW rs, Restarts(p, b, rs)
  PROVE  Reach'
<1>1. /\ agent'[p] = b /\ agent'[Other(p)] = agent[Other(p)]
      /\ Other(p) \in Peers /\ Other(p) # p /\ Other(Other(p)) = p
      /\ b.nominated = None /\ Learned(b) = {}
      /\ candidates' = candidates /\ candidates[Other(p)] = << >>
      /\ mishaps \subseteq mishaps'
      /\ net' = {m \in net : Owner(m.to[1]) # p}
  BY Others DEF Restarts, UpdatedAt, Blank, CloseSockets
<1>2. /\ \A q : RequestsTo(q)' = RequestsTo(q)
      /\ network \in Networks
  BY FixedTypes DEF Restarts, Parts
<1>3. ASSUME NEW q \in Peers
      PROVE  ToSet(candidates'[q]) \subseteq
               ToSet(agent'[Other(q)].bound) \X {agent'[Other(q)].generation}
  <2>1. CASE q = p
    BY <1>1, <2>1 DEF Reach
  <2>2. CASE q = Other(p)
    <3>1. candidates'[q] = << >>
      BY <1>1, <2>2
    <3>2. ToSet(candidates'[q]) = {}
      BY <3>1 DEF ToSet
    <3> QED
      BY <3>2
  <2> QED
    BY <2>1, <2>2, Others
<1>4. ASSUME NEW q \in Peers, agent'[q].nominated # None, "stale" \notin mishaps'
      PROVE  agent'[q].nominated.remote \in ToSet(agent'[q].remotes)
  <2>1. q = Other(p) /\ agent'[q] = agent[q] /\ "stale" \notin mishaps
    BY <1>1, <1>4, Others
  <2> QED
    BY <1>4, <2>1 DEF Reach
<1>5. ASSUME NEW q \in Peers, Trusted(q)'
      PROVE  /\ Learned(agent'[q]) \subseteq Open(q)'
             /\ \A m \in net' : m \in RequestsTo(q) /\ m.to[2] = agent'[q].generation =>
                  m.from \in Open(q)'
  <2>1. CASE q = p
    <3>1. Learned(agent'[q]) = {}
      BY <1>1, <2>1
    <3>2. ASSUME NEW m \in net', m \in RequestsTo(q) PROVE FALSE
      <4>1. m.to[1] \in ToSet(Hosts(p))
        BY <1>1, <2>1, <3>2 DEF RequestsTo, Known
      <4>2. Owner(m.to[1]) = p
        BY <1>2, <4>1, OwnerIs
      <4> QED
        BY <1>1, <3>2, <4>2
    <3> QED
      BY <3>1, <3>2
  <2>2. CASE q = Other(p)
    <3>1. Trusted(q) /\ Open(q) = {} /\ agent'[q] = agent[q]
      BY <1>1, <1>5, <2>2 DEF Restarts
    <3>2. Learned(agent[q]) = {} /\ \A m \in net : ~Concerns(q, m)
      BY <3>1 DEF Reach
    <3> QED
      BY <1>1, <3>1, <3>2 DEF Concerns
  <2> QED
    BY <2>1, <2>2, Others
<1>6. (\A q \in Peers : Trusted(q) => \A m \in net : Concerns(q, m) => m.from \in Open(q))'
  BY <1>2, <1>5 DEF Concerns
<1> QED
  BY <1>3, <1>4, <1>5, <1>6 DEF Reach

\* The first offer: the connection begins to gather.
LEMMA FirstOfferKeeps ==
  ASSUME IceInv, NEW p \in Peers, Offer(p), round = 0
  PROVE  IceInv'
<1> DEFINE a == agent[p]
           role == [a EXCEPT !.controlling = TRUE]
           b == [role EXCEPT !.state = "gathering"]
<1>1. /\ p = First /\ step = "stable" /\ 0 < network.rounds
      /\ agent' = [agent EXCEPT ![p] = b]
      /\ step' = "offering" /\ offerer' = p /\ round' = 1
      /\ UNCHANGED <<runs, tasks, candidates, checks, net, fixed, budget, mishaps>>
  BY DEF Offer
<1>2. Sound(p, a) /\ network \in Networks /\ Course(p) /\ Course(Other(p)) /\ Other(p) \in Peers
      /\ Other(p) # p
  BY Basics, Others DEF IceInv, Progress
<1>3. Advances(p, a, role, {}) /\ Steady(a, role) /\ Sound(p, role)
  BY <1>2, RoleSet DEF Advances
<1> HIDE DEF role
<1>4. Advances(p, role, b, {}) /\ Steady(role, b) /\ b.state = "gathering"
  <2>1. "gathering" \in IceStates \ {"new"}
    BY DEF IceStates
  <2> QED
    BY <1>3, <2>1, StateSet
<1> HIDE DEF b
<1>5. Advances(p, a, b, {} \cup {}) /\ Steady(a, b)
  BY <1>3, <1>4, AdvancesTransitive, SteadyTransitive
<1>6. Follows(p, a, b, {}) /\ NominatesKnown(a, b) /\ b.bound = << >> /\ b.generation = 0
  <2>1. {} \cup {} = {}
    OBVIOUS
  <2>2. a.bound = << >> /\ a.generation = 0
    BY <1>2 DEF Course, Idle
  <2> QED
    BY <1>5, <2>1, <2>2 DEF Advances, Follows, NominatesKnown, Steady
<1>7. UpdatedAt(p, agent, agent', b)
  BY <1>1, Basics, Updated
<1>8. UpdatedAt(p, runs, runs', runs[p])
  BY <1>1, Basics, Updated
<1>9. UpdatedAt(p, tasks, tasks', tasks[p])
  BY <1>1, Basics, Updated
<1>10. /\ DOMAIN candidates' = Peers
       /\ \A q \in Peers : candidates'[q] \in Seq(Known(q)) /\ candidates'[q] = candidates[q]
  BY <1>1 DEF IceInv, Parts
<1>11. ~Behind /\ ~Behind'
  BY <1>1 DEF Behind
<1>12. Scalars'
  <2>1. Scalars /\ network.rounds \in Nat
    BY NetworksAssumption DEF IceInv, Parts, Scalars
  <2> QED
    BY <1>1, <2>1 DEF Scalars, Generations, Steps, fixed, budget
<1>13. Local(p, b, {})
  BY <1>1, <1>6, <1>7, <1>8, <1>9, <1>10, <1>11, <1>12 DEF Local, UpdatedAt
<1>14. agent'[p] = b /\ agent'[Other(p)] = agent[Other(p)] /\ runs' = runs
       /\ (\A q : Hosts(q)' = Hosts(q))
  BY <1>1, <1>7, FixedTypes DEF UpdatedAt
<1>15. /\ agent[Other(p)].generation = 0 /\ agent[Other(p)].bound = << >>
       /\ runs[p] = {} /\ runs[Other(p)] = {}
  BY <1>2 DEF Course, Idle
<1>16. Course(p)'
  <2>1. Len(b.bound) < Len(Hosts(p))
    <3>1. Len(b.bound) = 0
      BY <1>6
    <3> QED
      BY <1>2, <3>1, HostsTyped
  <2> QED
    BY <1>1, <1>4, <1>6, <1>11, <1>14, <1>15, <2>1 DEF Course, Idle
<1>17. Course(Other(p))'
  BY <1>1, <1>2, <1>11, <1>14, <1>15 DEF Course, Idle, Describing
<1>18. Progress'
  BY <1>1, <1>16, <1>17, Others DEF Progress
<1> QED
  BY <1>13, <1>18, LocalParts, LocalReach DEF IceInv

\* Every later one restarts ICE.
LEMMA RestartOfferKeeps ==
  ASSUME IceInv, NEW p \in Peers, Offer(p), round # 0
  PROVE  IceInv'
<1> DEFINE a == agent[p]
           b == Begun(a)
<1>1. /\ step = "stable" /\ round < network.rounds /\ tasks[p] = {}
      /\ \A q \in Peers : candidates[q] = << >> /\ ~Gathers(runs[q])
      /\ agent' = [agent EXCEPT ![p] = b] /\ CloseSockets(p)
      /\ step' = "offering" /\ offerer' = p /\ round' = round + 1
      /\ UNCHANGED <<runs, tasks, candidates, fixed, budget, mishaps>>
  BY DEF Offer, Gathers, Begun
<1>2. Sound(p, a) /\ network \in Networks /\ Course(p) /\ Course(Other(p)) /\ Other(p) \in Peers
      /\ Other(p) # p /\ round \in Nat /\ network.rounds \in Nat /\ round \in Generations
  BY Basics, Others, NetworksAssumption DEF IceInv, Progress, Parts, Generations
<1>3. ~Behind /\ ~Idle(p) /\ round > 0 /\ (Idle(Other(p)) => FALSE)
  BY <1>1, <1>2 DEF Behind, Idle
<1>4. a.generation = round - 1 /\ agent[Other(p)].generation = round - 1
      /\ agent[Other(p)].state # "new"
  BY <1>2, <1>3 DEF Course
<1>5. a.generation + 1 \in Generations
  BY <1>1, <1>2, <1>3, <1>4 DEF Generations
<1>7. Blank(p, a, b)
  BY <1>2, <1>5, BegunBlank
<1> HIDE DEF b
<1>8. Scalars'
  <2>1. Scalars /\ round + 1 \in Generations
    BY <1>1, <1>2 DEF IceInv, Parts, Scalars, Generations
  <2> QED
    BY <1>1, <2>1 DEF Scalars, Generations, Steps, fixed, budget
<1>9. UpdatedAt(p, agent, agent', b)
  BY <1>1, Basics, Updated
<1>10. UpdatedAt(p, runs, runs', runs[p])
  BY <1>1, Basics, Updated
<1>11. Behind' /\ offerer' = p
  BY <1>1, <1>2, <1>3 DEF Behind
<1>12. Restarts(p, b, runs[p])
  BY <1>1, <1>2, <1>7, <1>8, <1>9, <1>10, <1>11 DEF Restarts, Trusted
<1>13. agent'[p] = b /\ agent'[Other(p)] = agent[Other(p)] /\ runs' = runs
       /\ (\A q : Hosts(q)' = Hosts(q)) /\ candidates' = candidates
  BY <1>1, <1>9, FixedTypes DEF UpdatedAt
<1>14. /\ ~Idle(p)' /\ ~Idle(Other(p))' /\ ~Describing(Other(p))'
  BY <1>1, <1>2, <1>3 DEF Idle, Describing
<1>15. Course(p)'
  <2>1. Len(b.bound) < Len(Hosts(p)) /\ b.state # "new"
    <3>1. Len(b.bound) = 0 /\ b.state = "gathering"
      BY <1>7 DEF Blank
    <3> QED
      BY <1>2, <3>1, HostsTyped
  <2>2. b.generation = round' - 1 /\ round' # 0
    BY <1>1, <1>2, <1>4, <1>7 DEF Blank
  <2> QED
    BY <1>1, <1>2, <1>11, <1>13, <1>14, <2>1, <2>2 DEF Course, Gathers
<1>16. Course(Other(p))'
  <2>1. agent[Other(p)].generation = round' - 2 /\ round' # 0
    BY <1>1, <1>2, <1>4
  <2> QED
    BY <1>1, <1>2, <1>4, <1>11, <1>13, <1>14, <2>1 DEF Course, Gathers
<1>17. Progress'
  BY <1>1, <1>2, <1>15, <1>16, Others DEF Progress
<1> QED
  BY <1>12, <1>17, RestartParts, RestartReach DEF IceInv

\* The first offer is taken: connect() is not called yet.
LEMMA FirstTakeOfferKeeps ==
  ASSUME IceInv, NEW p \in Peers, TakeOffer(p), round = 1
  PROVE  IceInv'
<1> DEFINE a == agent[p]
<1>1. /\ step = "offered" /\ p # offerer /\ step' = "taken" /\ offerer' = offerer /\ round' = round
      /\ UNCHANGED <<agent, runs, checks, net, tasks, candidates, fixed, budget, mishaps>>
  BY DEF TakeOffer
<1>2. /\ Sound(p, a) /\ network \in Networks /\ Course(p) /\ Other(p) = offerer
      /\ DOMAIN candidates = Peers /\ \A q \in Peers : candidates[q] \in Seq(Known(q))
  BY <1>1, Basics, Others DEF IceInv, Progress, Parts
<1>3. Follows(p, a, a, {}) /\ NominatesKnown(a, a)
  BY <1>2, AdvancesReflexive, AdvancesFollows DEF NominatesKnown
<1>4. UpdatedAt(p, agent, agent', a)
  BY <1>1, Basics, Updated
<1>5. UpdatedAt(p, runs, runs', runs[p])
  BY <1>1, Basics, Updated
<1>6. UpdatedAt(p, tasks, tasks', tasks[p])
  BY <1>1, Basics, Updated
<1>7. ~Behind /\ ~Behind' /\ step' \in Steps
  BY <1>1 DEF Behind, Steps
<1>8. Scalars'
  BY <1>1, <1>7, DescriptionStep
<1>9. Local(p, a, {})
  BY <1>1, <1>2, <1>3, <1>4, <1>5, <1>6, <1>7, <1>8 DEF Local, UpdatedAt
<1>10. Idle(p) /\ Idle(p)' /\ ~Idle(Other(p)) /\ ~Idle(Other(p))'
  BY <1>1, <1>2 DEF Idle
<1>11. ~Describing(p)' /\ ~Describing(Other(p))'
  BY <1>1 DEF Describing
<1>12. a.bound = << >> /\ runs'[p] = {}
  BY <1>1, <1>2, <1>10 DEF Course
<1>13. Orderly(p, a)
  BY <1>1, <1>7, <1>10, <1>11, <1>12 DEF Orderly
<1> QED
  BY <1>9, <1>13, LocalStep

\* The offer of a restart.
LEMMA RestartTakeOfferKeeps ==
  ASSUME IceInv, NEW p \in Peers, TakeOffer(p), round # 1
  PROVE  IceInv'
<1> DEFINE a == agent[p]
           b == Joined(a)
           run == Gathering(a.generation + 1)
           rs == runs[p] \cup {run}
           overtaken == \E c \in ToSet(a.remotes) : round > 1 /\ c[2] = agent[offerer].generation
<1>1. /\ step = "offered" /\ p # offerer /\ tasks[p] = {}
      /\ agent' = [agent EXCEPT ![p] = Connect(p, Restarted(a)).agent]
      /\ runs' = [runs EXCEPT ![p] = runs[p] \cup Connect(p, Restarted(a)).runs]
      /\ CloseSockets(p)
      /\ mishaps' = (IF overtaken THEN mishaps \cup {"overtaken"} ELSE mishaps)
      /\ step' = "taken" /\ offerer' = offerer /\ round' = round
      /\ UNCHANGED <<tasks, candidates, fixed, budget>>
  BY DEF TakeOffer
<1>2. /\ Sound(p, a) /\ network \in Networks /\ Course(p) /\ Course(Other(p)) /\ Other(p) = offerer
      /\ Other(offerer) = p /\ offerer \in Peers /\ round \in Generations /\ round \in Nat
      /\ round # 0
  BY <1>1, Basics, Others DEF IceInv, Progress, Parts, Generations
<1>3. Behind /\ round > 1 /\ ~Behind'
  BY <1>1, <1>2 DEF Behind
<1>4. a.generation = round - 2 /\ agent[Other(p)].generation = round - 1
  BY <1>1, <1>2, <1>3 DEF Course
<1>5. a.generation + 1 = round - 1 /\ a.generation + 1 \in Generations
  <2>1. network.rounds \in Nat
    BY <1>2, NetworksAssumption
  <2> QED
    BY <1>2, <1>3, <1>4, <2>1 DEF Generations
<1>6. Blank(p, a, b)
  BY <1>2, <1>5, BegunBlank
<1>7. /\ Connect(p, Restarted(a)).agent = b /\ Connect(p, Restarted(a)).runs = {run}
  BY DEF Connect, Restarted, Fresh, Joined, Begun
<1> HIDE DEF b
<1>8. IsRun(p, b, run) /\ run.at = "gathering"
  <2>1. run \in Runs(p) /\ run.id = b.generation /\ run.success = None
    BY <1>5, <1>6 DEF Gathering, Runs, Blank, Generations
  <2> QED
    BY <2>1, <1>5, <1>6 DEF IsRun, Blank, Gathering, Generations
<1> HIDE DEF run, overtaken
<1>9. UpdatedAt(p, agent, agent', b)
  BY <1>1, <1>7, Basics, Updated
<1>10. UpdatedAt(p, runs, runs', rs)
  <2>1. runs' = [runs EXCEPT ![p] = rs]
    BY <1>1, <1>7
  <2> HIDE DEF rs
  <2> QED
    BY <2>1, Basics, Updated
<1>11. Scalars'
  <2>1. Scalars
    BY DEF IceInv, Parts, Scalars
  <2> QED
    BY <1>1, <2>1 DEF Scalars, Generations, Steps, fixed, budget
<1>12. Trusted(Other(p))' => Trusted(Other(p)) /\ Open(Other(p)) = {}
  <2> SUFFICES ASSUME Trusted(offerer)' PROVE Trusted(offerer) /\ Open(offerer) = {}
    BY <1>1, <1>2 DEF Trusted, Behind, Pending
  <2>1. "overtaken" \notin mishaps' /\ mishaps \subseteq mishaps'
    BY <1>1 DEF Trusted
  <2>2. ~overtaken
    BY <1>1, <2>1
  <2>3. ~Pending
    BY <1>2, <1>3, <2>2 DEF Pending, overtaken
  <2> QED
    BY <1>3, <2>1, <2>3 DEF Trusted, Open
<1>13. candidates[Other(p)] = << >> /\ ~Gathers(runs[Other(p)])
  BY <1>2, <1>3 DEF Course, Gathers
<1>14. Restarts(p, b, rs)
  BY <1>1, <1>6, <1>8, <1>9, <1>10, <1>11, <1>12, <1>13 DEF Restarts
<1>15. agent'[p] = b /\ agent'[Other(p)] = agent[Other(p)] /\ runs'[Other(p)] = runs[Other(p)]
       /\ (\A q : Hosts(q)' = Hosts(q))
  BY <1>1, <1>9, <1>10, FixedTypes DEF UpdatedAt
<1>16. /\ ~Idle(p)' /\ ~Idle(Other(p))' /\ ~Describing(p)' /\ ~Describing(Other(p))'
       /\ ~Idle(Other(p))
  BY <1>1, <1>2, <1>3 DEF Idle, Describing
<1>17. Course(p)'
  <2>1. Len(b.bound) < Len(Hosts(p)) /\ b.state # "new" /\ b.generation = round' - 1
    <3>1. Len(b.bound) = 0 /\ b.state = "gathering" /\ b.generation = a.generation + 1
      BY <1>6 DEF Blank
    <3> QED
      BY <1>1, <1>2, <1>5, <3>1, HostsTyped
  <2> QED
    BY <1>1, <1>2, <1>3, <1>15, <1>16, <2>1 DEF Course
<1>18. Course(Other(p))'
  <2>1. agent[Other(p)].state # "new"
    BY <1>2, <1>16 DEF Course
  <2> QED
    BY <1>1, <1>2, <1>3, <1>4, <1>13, <1>15, <1>16, <2>1 DEF Course, Gathers
<1>19. Progress'
  BY <1>1, <1>2, <1>17, <1>18, Others DEF Progress
<1> QED
  BY <1>14, <1>19, RestartParts, RestartReach DEF IceInv

-----------------------------------------------------------------------------
(* Every behaviour *)

LEMMA DiscardKeeps ==
  ASSUME IceInv, NEW m \in net, Discard(m)
  PROVE  IceInv'
<1>1. net' \subseteq net /\ UNCHANGED <<agent, runs, checks, checksOnly, losses, lates>>
  BY DEF Discard, budget
<1> QED
  BY <1>1, BudgetTyped, LosingKeeps

LEMMA LoseKeeps ==
  ASSUME IceInv, NEW m \in net, Lose(m)
  PROVE  IceInv'
<1>1. /\ losses < network.losses /\ losses' = losses + 1 /\ net' \subseteq net
      /\ UNCHANGED <<agent, runs, checks, checksOnly, lates>>
  BY DEF Lose
<1>2. network.losses \in Nat
  BY PeersAssumption, Basics
<1>3. losses' \in 0 .. network.losses /\ lates' \in 0 .. network.lates
  BY <1>1, <1>2, BudgetTyped
<1> QED
  BY <1>1, <1>3, LosingKeeps

LEMMA StutterKeeps ==
  ASSUME IceInv, UNCHANGED vars
  PROVE  IceInv'
<1>1. /\ UNCHANGED <<agent, runs, checks, checksOnly, losses, lates>> /\ net' = net
  BY DEF vars, checksOnly, budget
<1> QED
  BY <1>1, BudgetTyped, LosingKeeps

\* The agents at the start.
LEMMA FreshSound ==
  ASSUME network \in Networks, NEW p \in Peers, NEW x \in BOOLEAN
  PROVE  /\ Sound(p, Fresh(x, 0)) /\ Learned(Fresh(x, 0)) = {}
         /\ Fresh(x, 0).generation = 0 /\ Fresh(x, 0).bound = << >>
         /\ Fresh(x, 0).nominated = None
<1> DEFINE b == Fresh(x, 0)
           e == << >>
<1>1. /\ b.generation = 0 /\ b.bound = << >> /\ b.remotes = e /\ b.list = << >>
      /\ b.nominated = None /\ b.early = e
  BY DEF Fresh
<1>2. /\ << >> \in Seq(ToSet(Hosts(p))) /\ << >> \in Seq(Known(p)) /\ << >> \in Seq(Pairs(p))
      /\ << >> \in Seq(RequestsTo(p))
  OBVIOUS
<1>3. ToSet(e) = {}
  BY DEF ToSet
<1>4. 0 \in Generations
  BY NetworksAssumption DEF Generations
<1>5. b \in Connections(p)
  BY <1>2, <1>4 DEF Connections, IceStates, Fresh
<1>6. IsPrefix(<< >>, Hosts(p))
  <2>1. Hosts(p) \in Seq(ToSet(Hosts(p)))
    BY HostsTyped
  <2>2. SubSeq(Hosts(p), 1, 0) = << >> /\ SubSeq(<< >>, 1, 0) = << >> /\ Len(<< >>) = 0
    BY <2>1
  <2>3. 0 <= Len(Hosts(p))
    BY <2>1
  <2> QED
    BY <2>2, <2>3 DEF IsPrefix
<1>7. Listed(b)
  BY <1>1 DEF Listed
<1> HIDE DEF e, b
<1>8. Sound(p, b)
  BY <1>1, <1>5, <1>6, <1>7 DEF Sound
<1>9. Learned(b) = {}
  BY <1>1, <1>3 DEF Learned
<1> QED
  BY <1>1, <1>8, <1>9 DEF b

LEMMA IceInit ==
  ASSUME Init
  PROVE  IceInv
<1>1. PICK conflict \in BOOLEAN : agent = [p \in Peers |-> Fresh(p # First /\ conflict, 0)]
  BY DEF Init
<1>2. /\ runs = [p \in Peers |-> {}] /\ tasks = [p \in Peers |-> {}]
      /\ checks = {} /\ net = {} /\ candidates = [p \in Peers |-> << >>]
      /\ step = "stable" /\ offerer = First /\ round = 0
      /\ stronger \in Peers /\ network \in Networks /\ losses = 0 /\ lates = 0 /\ mishaps = {}
  BY DEF Init
<1>3. ASSUME NEW p \in Peers
      PROVE  /\ Sound(p, agent[p]) /\ Learned(agent[p]) = {} /\ agent[p].generation = 0
             /\ agent[p].bound = << >> /\ agent[p].nominated = None
  <2>1. agent[p] = Fresh(p # First /\ conflict, 0) /\ (p # First /\ conflict) \in BOOLEAN
    BY <1>1
  <2> QED
    BY <1>2, <2>1, FreshSound
<1>4. network.rounds \in Nat /\ network.losses \in Nat /\ network.lates \in Nat
  BY <1>2, NetworksAssumption
<1>5. DOMAIN agent = Peers
  BY <1>1
<1>6. Parts
  BY <1>2, <1>3, <1>4, <1>5, PeersAssumption DEF Parts, Sound, Steps, Generations
<1>7. ~Behind
  BY <1>2 DEF Behind
<1>8. Progress
  <2> SUFFICES ASSUME NEW p \in Peers PROVE Course(p)
    BY <1>2 DEF Progress
  <2>1. Idle(p) /\ ~Describing(p) /\ runs[p] = {}
    BY <1>2 DEF Idle, Describing
  <2> QED
    BY <1>2, <1>3, <1>7, <2>1 DEF Course
<1>9. Reach
  <2> SUFFICES ASSUME NEW p \in Peers
               PROVE  /\ ToSet(candidates[p]) = {} /\ agent[p].nominated = None
                      /\ Learned(agent[p]) = {}
    BY <1>2 DEF Reach
  <2>1. ToSet(<< >>) = {}
    BY DEF ToSet
  <2> QED
    BY <1>2, <1>3, <2>1
<1> QED
  BY <1>6, <1>8, <1>9 DEF IceInv

LEMMA IceNext ==
  ASSUME IceInv, [Next]_vars
  PROVE  IceInv'
<1>1. CASE \E p \in Peers : Offer(p)
  BY <1>1, FirstOfferKeeps, RestartOfferKeeps
<1>2. CASE \E p \in Peers : TakeOffer(p)
  BY <1>2, FirstTakeOfferKeeps, RestartTakeOfferKeeps
<1>3. CASE \E p \in Peers : GiveAnswer(p)
  BY <1>3, GiveAnswerKeeps
<1>4. CASE \E p \in Peers : TakeAnswer(p)
  BY <1>4, TakeAnswerKeeps
<1>5. CASE \E p \in Peers : Gather(p)
  BY <1>5, GatherKeeps
<1>6. CASE \E p \in Peers : AddRemoteCandidate(p)
  BY <1>6, AddRemoteCandidateKeeps
<1>7. CASE \E p \in Peers : \E run \in runs[p] : Pace(p, run)
  BY <1>7, PaceKeeps
<1>8. CASE \E p \in Peers : \E task \in tasks[p] : CheckNewPair(p, task)
  BY <1>8, CheckNewPairKeeps
<1>9. CASE \E m \in net : ReceiveRequest(m)
  BY <1>9, ReceiveRequestKeeps
<1>10. CASE \E m \in net : \E c \in checks : ReceiveSuccess(m, c)
  BY <1>10, ReceiveSuccessKeeps
<1>11. CASE \E m \in net : \E c \in checks : ReceiveConflict(m, c)
  BY <1>11, ReceiveConflictKeeps
<1>12. CASE \E m \in net : Discard(m)
  BY <1>12, DiscardKeeps
<1>13. CASE \E c \in checks : TimeOut(c)
  BY <1>13, TimeOutKeeps
<1>14. CASE GivesUp
  BY <1>14, GiveUpKeeps DEF GivesUp
<1>15. CASE \E m \in net : Lose(m)
  BY <1>15, LoseKeeps
<1>16. CASE UNCHANGED vars
  BY <1>16, StutterKeeps
<1> QED
  BY <1>1, <1>2, <1>3, <1>4, <1>5, <1>6, <1>7, <1>8, <1>9, <1>10, <1>11, <1>12, <1>13, <1>14,
     <1>15, <1>16 DEF Next, Work, Receive, Expire

\* Values, course of the negotiation and what has been learned, in every state: each handler
\* of ice_connection.dart keeps them, and each step of rtc_peer_connection.dart that calls one.
THEOREM IceInvariant == Spec => []IceInv
  BY IceInit, IceNext, PTL DEF Spec

LEMMA IceTyped ==
  ASSUME IceInv
  PROVE  TypeOK
<1>1. /\ network \in Networks /\ stronger \in Peers /\ offerer \in Peers
      /\ step \in Steps /\ round \in Generations
      /\ losses \in 0 .. network.losses /\ lates \in 0 .. network.lates
      /\ mishaps \subseteq {"overtaken", "stale", "broken"}
  BY DEF IceInv, Parts
<1>2. ASSUME NEW p \in Peers
      PROVE  /\ agent[p].state \in IceStates
             /\ {agent[p].controlling, agent[p].earlyDone, agent[p].called} \subseteq BOOLEAN
             /\ agent[p].generation \in 0 .. network.rounds /\ IsPrefix(agent[p].bound, Hosts(p))
             /\ ToSet(agent[p].remotes) \subseteq Candidates
             /\ \A i \in DOMAIN agent[p].list :
                  /\ agent[p].list[i].local \in ToSet(Hosts(p))
                  /\ agent[p].list[i].remote \in Candidates
                  /\ agent[p].list[i].state \in PairStates
  <2> DEFINE a == agent[p]
  <2>1. a \in Connections(p) /\ IsPrefix(a.bound, Hosts(p))
    BY DEF IceInv, Parts
  <2> HIDE DEF a
  <2>2. /\ a.state \in IceStates /\ {a.controlling, a.earlyDone, a.called} \subseteq BOOLEAN
        /\ a.generation \in Generations /\ a.remotes \in Seq(Known(p)) /\ a.list \in Seq(Pairs(p))
    BY <2>1 DEF Connections
  <2>3. ToSet(a.remotes) \subseteq Candidates
    BY <2>2, ToSetTyped, KnownCandidates
  <2>4. ASSUME NEW i \in DOMAIN a.list
        PROVE  /\ a.list[i].local \in ToSet(Hosts(p)) /\ a.list[i].remote \in Candidates
               /\ a.list[i].state \in PairStates
    <3>1. a.list[i] \in Pairs(p)
      BY <2>2
    <3> QED
      BY <3>1, KnownCandidates DEF Pairs
  <2> QED
    BY <2>1, <2>2, <2>3, <2>4 DEF Generations, a
<1>3. ASSUME NEW p \in Peers
      PROVE  /\ \A r \in runs[p] : r.at \in {"gathering", "pacing", "waiting"}
             /\ \A t \in tasks[p] : Len(t) \in 1 .. Len(Hosts(p))
             /\ ToSet(candidates[p]) \subseteq Candidates
  <2>1. candidates[p] \in Seq(Known(p))
    BY DEF IceInv, Parts
  <2>2. ToSet(candidates[p]) \subseteq Candidates
    BY <2>1, ToSetTyped, KnownCandidates
  <2> QED
    BY <2>2 DEF IceInv, Parts, IsRun, IsTask, Runs
<1>4. \A c \in checks : c.by \in Peers /\ c.tries \in 0 .. Retries
  BY CheckTyped DEF IsCheck
<1>5. ASSUME NEW m \in net PROVE {m.from, m.to} \subseteq Candidates
  <2>1. CASE m \in Answers
    BY <2>1 DEF Answers
  <2>2. CASE \E p \in Peers : m \in RequestsTo(p)
    BY <2>2, KnownCandidates DEF RequestsTo
  <2> QED
    BY <2>1, <2>2 DEF IceInv, Parts
<1> QED
  BY <1>1, <1>2, <1>3, <1>4, <1>5 DEF TypeOK, Generations

\* The variables keep their types: candidates, pairs, checks and messages are made of the
\* agents' own addresses, and restarts, losses and timeouts stay within their bounds.
THEOREM IceTypes == Spec => []TypeOK
  BY IceInvariant, IceTyped, PTL

\* At rest nobody is behind, so what an agent has learned is open at the other end.
LEMMA NominatedIsOpen ==
  ASSUME IceInv
  PROVE  NominatedReachesPeer
<1> SUFFICES ASSUME Quiet, mishaps \cap {"overtaken", "stale"} = {},
                    NEW p \in Peers, agent[p].nominated # None
             PROVE  LET c == agent[p].nominated.remote
                    IN  /\ c[1] \in ToSet(agent[Other(p)].bound)
                        /\ c[2] = agent[Other(p)].generation
  BY DEF NominatedReachesPeer
<1>1. ~Behind /\ "overtaken" \notin mishaps /\ "stale" \notin mishaps
  BY DEF Quiet, Behind
<1>2. Trusted(p) /\ Open(p) = ToSet(agent[Other(p)].bound) \X {agent[Other(p)].generation}
  BY <1>1 DEF Trusted, Open
<1>3. agent[p].nominated.remote \in ToSet(agent[p].remotes)
  BY <1>1 DEF IceInv, Reach
<1>4. Learned(agent[p]) \subseteq Open(p)
  BY <1>2 DEF IceInv, Reach
<1> QED
  BY <1>2, <1>3, <1>4 DEF Learned

\* A nominated pair leads to an open socket of the other end, for any number of addresses,
\* restarts, losses and timeouts, unless a candidate overtook the offer of a restart or an
\* old connect() has ended the new generation (restart, _performConnectivityChecks).
THEOREM NominationsReachPeer == Spec => []NominatedReachesPeer
  BY IceInvariant, NominatedIsOpen, PTL
=============================================================================
