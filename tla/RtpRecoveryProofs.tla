------------------------- MODULE RtpRecoveryProofs --------------------------
(***************************************************************************)
(* The list of lost packets, for every sequence number space, list size,   *)
(* retry limit and number of packets: the timer runs exactly while         *)
(* something is lost, nothing is given up that was not asked for, and what *)
(* is lost has not arrived.  The walk over a gap is arithmetic modulo the  *)
(* space, pruning is counting, and the retries are counted against the     *)
(* NACKs that were being sent when a loss was noticed.                     *)
(***************************************************************************)
EXTENDS RtpRecovery, FiniteSetTheorems, TLAPS

-----------------------------------------------------------------------------
(* The invariants *)

Lists == Seq(Seqs) \ {<< >>}

SenderTypes ==
  /\ sent \in 0..MaxPackets /\ buffer \in [0..(BufferSize - 1) -> Numbers \cup {NoPacket}]
  /\ network \in SUBSET Numbers /\ resent \in SUBSET Numbers /\ nacks \in Seq(Lists)

HandlerTypes ==
  /\ expected \in Seqs /\ timer \in BOOLEAN /\ closed \in BOOLEAN
  /\ DOMAIN lost \in SUBSET Seqs /\ lost \in [DOMAIN lost -> 1..MaxRetries]
  /\ asked \in [DOMAIN lost -> Nat] /\ received \in SUBSET Numbers /\ anchored \in Nat

SendingTypes ==
  /\ sending \in Seq(Lists) /\ Len(sending) <= MaxSends /\ failures \in 0..MaxFailures

\* The timer, and what the list may hold.
Timed == timer <=> DOMAIN lost # {}
Limited == Cardinality(DOMAIN lost) <= MaxLost

\* Every retry of a packet was a NACK that asked for it, or one of those that were being
\* sent when the loss was noticed; some of these may still be sent.
Unaware(lists, s) == {i \in DOMAIN lists : s \notin ToSet(lists[i])}
Counted ==
  \A s \in DOMAIN lost :
     lost[s] - 1 + Cardinality(Unaware(sending, s)) <= asked[s] + MaxSends

\* _expectedSeqNum belongs to the latest packet, and what is lost came before it.
Latest(E) ==
  /\ E \in received /\ expected = SeqNum(E) /\ \A n \in received : n <= E
  /\ \A s \in DOMAIN lost : \E m \in Numbers \ received : m < E /\ s = SeqNum(m)
Anchored ==
  /\ closed => DOMAIN lost = {}
  /\ anchored = 0 /\ ~closed => expected = 0 /\ received = {} /\ DOMAIN lost = {}
  /\ anchored = 1 /\ ~closed => \E E \in received : Latest(E)

ListInv == HandlerTypes /\ Timed /\ Limited /\ Counted
ReceiverInv == ListInv /\ SendingTypes /\ Anchored /\ AskedBeforeGivenUp
RecoveryInv == SenderTypes /\ ReceiverInv

-----------------------------------------------------------------------------
(* Remainders *)

LEMMA Sizes ==
  /\ Half \in Nat \ {0} /\ SeqModulo = 2 * Half /\ SeqModulo \in Nat \ {0}
  /\ BufferSize \in Nat \ {0} /\ MaxRetries \in Nat \ {0} /\ MaxLost \in Nat \ {0}
  /\ MaxSends \in Nat \ {0} /\ FirstNumber \in Nat /\ MaxPackets \in Nat
  /\ MaxFailures \in Nat /\ MaxPackets < Half
  BY RecoveryAssumption

\* A remainder is recognised by its quotient.
LEMMA Recognised ==
  ASSUME NEW m \in Nat \ {0}, NEW a \in Int, NEW r \in 0..(m - 1), NEW q \in Int, a = m * q + r
  PROVE  a % m = r
  OBVIOUS

LEMMA RemainderRange ==
  ASSUME NEW m \in Nat \ {0}, NEW a \in Int
  PROVE  a % m \in 0..(m - 1)
  OBVIOUS

\* A number is its quotient times the space and its remainder; only this is needed of
\* remainders, and no multiplication is left in what follows from it.
LEMMA Decomposed ==
  ASSUME NEW m \in Nat \ {0}, NEW a \in Int
  PROVE  \E q \in Int : a = m * q + (a % m)
<1>1. a \div m \in Int /\ a = m * (a \div m) + (a % m)
  OBVIOUS
<1> QED
  BY <1>1

\* Two numbers less than a space apart have remainders whose difference is that of the
\* numbers, up to one space.
LEMMA CloseRemainders ==
  ASSUME NEW m \in Nat \ {0}, NEW a \in Int, NEW b \in Int, a - b \in (1 - m)..(m - 1)
  PROVE  (a % m) - (b % m) \in {a - b, a - b + m, a - b - m}
<1>1. PICK p \in Int : a = m * p + (a % m)
  BY Decomposed
<1>2. PICK q \in Int : b = m * q + (b % m)
  BY Decomposed
<1>3. a % m \in 0..(m - 1) /\ b % m \in 0..(m - 1)
  BY RemainderRange
<1> DEFINE ra == a % m
           rb == b % m
           k  == p - q
<1>4. k \in Int /\ m * k = m * p - m * q /\ m * p \in Int /\ m * q \in Int
  BY <1>1, <1>2
<1>5. a = m * p + ra /\ b = m * q + rb /\ ra \in 0..(m - 1) /\ rb \in 0..(m - 1)
  BY <1>1, <1>2, <1>3
<1> HIDE DEF ra, rb, k
<1>6. m * k = (a - b) - (ra - rb) /\ m * k \in Int
  BY <1>4, <1>5
<1>7. m * k < 2 * m /\ m * k > -2 * m
  BY <1>5, <1>6
<1>8. k < 2
  <2> SUFFICES ASSUME k >= 2
               PROVE  FALSE
    BY <1>4
  <2>1. m * k >= 2 * m
    BY <1>4
  <2> QED
    BY <2>1, <1>7, <1>6
<1>9. k > -2
  <2> SUFFICES ASSUME k <= -2
               PROVE  FALSE
    BY <1>4
  <2>1. m * k <= -2 * m
    BY <1>4
  <2> QED
    BY <2>1, <1>7, <1>6
<1>10. k \in {-1, 0, 1}
  BY <1>4, <1>8, <1>9
<1>11. m * k \in {-m, 0, m}
  BY <1>10
<1>12. ra - rb \in {a - b, a - b + m, a - b - m}
  BY <1>5, <1>6, <1>11
<1> QED
  BY <1>12 DEF ra, rb

LEMMA RemainderOfSum ==
  ASSUME NEW m \in Nat \ {0}, NEW a \in Int, NEW d \in Int
  PROVE  ((a % m) + d) % m = (a + d) % m
<1> DEFINE ra  == a % m
           sum == ra + d
           r   == sum % m
           all == a + d
<1>1. ra \in 0..(m - 1) /\ \E p \in Int : a = m * p + ra
  BY RemainderRange, Decomposed
<1>2. sum \in Int /\ sum = ra + d /\ all \in Int /\ all = a + d
  BY <1>1
<1> HIDE DEF ra, sum, all
<1>3. r \in 0..(m - 1) /\ \E q \in Int : sum = m * q + r
  BY <1>2, RemainderRange, Decomposed
<1> HIDE DEF r
<1>4. PICK p \in Int, q \in Int : a = m * p + ra /\ sum = m * q + r
  BY <1>1, <1>3
<1> DEFINE k == p + q
<1>5. k \in Int /\ m * k = m * p + m * q /\ m * p \in Int /\ m * q \in Int
  OBVIOUS
<1> HIDE DEF k
<1>6. all = m * k + r
  BY <1>1, <1>2, <1>3, <1>4, <1>5
<1>7. r \in 0..(m - 1) /\ all \in Int /\ \E i \in Int : all = m * i + r
  BY <1>2, <1>3, <1>5, <1>6
<1>8. all % m = r
  BY <1>7, Recognised
<1> QED
  BY <1>8 DEF all, r, sum, ra

-----------------------------------------------------------------------------
(* Sequence numbers *)

LEMMA SeqNumRange ==
  ASSUME NEW a \in Int
  PROVE  SeqNum(a) \in Seqs
  BY Sizes, RemainderRange DEF SeqNum, Seqs

\* Packets less than a space apart have different sequence numbers.
LEMMA SeqNumInjective ==
  ASSUME NEW a \in Int, NEW b \in Int, a - b \in (1 - SeqModulo)..(SeqModulo - 1),
         SeqNum(a) = SeqNum(b)
  PROVE  a = b
<1>1. SeqNum(a) - SeqNum(b) \in {a - b, a - b + SeqModulo, a - b - SeqModulo}
  BY Sizes, CloseRemainders DEF SeqNum
<1>2. SeqNum(a) - SeqNum(b) = 0
  BY SeqNumRange DEF Seqs
<1> QED
  BY <1>1, <1>2, Sizes

\* uint16Gt compares packets less than half a space apart by their numbers, whatever
\* wraps.
LEMMA GtIsAfter ==
  ASSUME NEW a \in Int, NEW b \in Int, a - b \in (1 - Half)..(Half - 1)
  PROVE  Gt(SeqNum(a), SeqNum(b)) <=> a > b
<1>1. SeqNum(a) - SeqNum(b) \in {a - b, a - b + SeqModulo, a - b - SeqModulo}
  <2>1. a - b \in (1 - SeqModulo)..(SeqModulo - 1)
    BY Sizes
  <2> QED
    BY <2>1, Sizes, CloseRemainders DEF SeqNum
<1>2. SeqNum(a) \in 0..(SeqModulo - 1) /\ SeqNum(b) \in 0..(SeqModulo - 1)
  BY SeqNumRange DEF Seqs
<1> QED
  BY <1>1, <1>2, Sizes DEF Gt

\* uint16Add counts packets.
LEMMA AddIsNumber ==
  ASSUME NEW a \in Int, NEW d \in Int
  PROVE  Add(SeqNum(a), d) = SeqNum(a + d)
  BY Sizes, RemainderOfSum DEF Add, SeqNum

\* The numbers of the packets are close to one another.
LEMMA NumbersAreClose ==
  ASSUME NEW a \in Numbers, NEW b \in Numbers
  PROVE  a \in Int /\ b \in Int /\ a - b \in (1 - Half)..(Half - 1) /\ a - b < Half - 1
  BY Sizes DEF Numbers

-----------------------------------------------------------------------------
(* Counting: the sorted list, and what pruning leaves *)

\* How many of a set are newer than x, seen from s.
Newer(all, s, x) == {y \in all : Behind(s, y) < Behind(s, x)}
Rank(all, s, x) == Cardinality(Newer(all, s, x))

LEMMA BehindFacts ==
  ASSUME NEW s \in Int, NEW x \in Seqs
  PROVE  /\ Behind(s, x) \in Nat
         /\ \A y \in Seqs : Behind(s, x) = Behind(s, y) => x = y
<1>1. ASSUME NEW y \in Seqs
      PROVE  /\ s - y \in Int /\ (s - y) % SeqModulo \in 0..(SeqModulo - 1)
             /\ x - y \in (1 - SeqModulo)..(SeqModulo - 1)
  <2>1. x \in 0..(SeqModulo - 1) /\ y \in 0..(SeqModulo - 1) /\ s - y \in Int
    BY Sizes DEF Seqs
  <2> DEFINE z == s - y
  <2>2. z \in Int
    BY <2>1
  <2> HIDE DEF z
  <2>3. z % SeqModulo \in 0..(SeqModulo - 1)
    BY <2>2, Sizes, RemainderRange
  <2> QED
    BY <2>1, <2>3, Sizes DEF z
<1>2. ASSUME NEW y \in Seqs, Behind(s, x) = Behind(s, y)
      PROVE  x = y
  <2> DEFINE a == s - x
             b == s - y
  <2>1. a \in Int /\ b \in Int /\ b - a = x - y /\ x \in Int /\ y \in Int
    BY Sizes DEF Seqs
  <2>2. SeqNum(a) = SeqNum(b)
    BY <1>2 DEF Behind, SeqNum
  <2> HIDE DEF a, b
  <2>3. b - a \in (1 - SeqModulo)..(SeqModulo - 1)
    BY <1>1, <2>1
  <2>4. b = a
    BY <2>1, <2>2, <2>3, SeqNumInjective
  <2> QED
    BY <2>1, <2>4
<1> QED
  BY <1>1, <1>2, Sizes DEF Behind

LEMMA SeqsAreFinite ==
  ASSUME NEW S \in SUBSET Seqs
  PROVE  IsFiniteSet(S) /\ Cardinality(S) \in Nat
<1>1. IsFiniteSet(Seqs)
  BY Sizes, FS_Interval DEF Seqs
<1> QED
  BY <1>1, FS_Subset, FS_CardinalityType

\* The ranks are the numbers below the size of the set, each taken once.
LEMMA RankFacts ==
  ASSUME NEW s \in Int, NEW all \in SUBSET Seqs
  PROVE  /\ \A x \in all : Rank(all, s, x) \in 0..(Cardinality(all) - 1)
         /\ \A x, y \in all : Behind(s, x) < Behind(s, y) => Rank(all, s, x) < Rank(all, s, y)
         /\ \A x, y \in all : Rank(all, s, x) = Rank(all, s, y) => x = y
         /\ \A k \in 0..(Cardinality(all) - 1) : \E x \in all : Rank(all, s, x) = k
<1> DEFINE n == Cardinality(all)
           rank(x) == Rank(all, s, x)
<1>1. IsFiniteSet(all) /\ n \in Nat
  BY SeqsAreFinite
<1>2. ASSUME NEW x \in all
      PROVE  /\ Behind(s, x) \in Nat /\ Newer(all, s, x) \in SUBSET all
             /\ x \notin Newer(all, s, x) /\ IsFiniteSet(Newer(all, s, x)) /\ rank(x) \in Nat
  <2>1. Behind(s, x) \in Nat
    BY BehindFacts
  <2>2. Newer(all, s, x) \in SUBSET all /\ x \notin Newer(all, s, x)
    BY <2>1 DEF Newer
  <2> QED
    BY <2>1, <2>2, <1>1, FS_Subset, FS_CardinalityType DEF Rank
<1>3. ASSUME NEW x \in all, NEW T \in SUBSET all, x \in T, Newer(all, s, x) \in SUBSET T
      PROVE  rank(x) < Cardinality(T)
  <2>1. IsFiniteSet(T) /\ Cardinality(T) \in Nat
    BY <1>1, FS_Subset, FS_CardinalityType
  <2>2. IsFiniteSet(T \ {x}) /\ Cardinality(T \ {x}) = Cardinality(T) - 1
    BY <1>3, <2>1, FS_RemoveElement
  <2>3. Newer(all, s, x) \in SUBSET (T \ {x})
    BY <1>2, <1>3
  <2>4. rank(x) <= Cardinality(T \ {x})
    BY <2>2, <2>3, FS_Subset DEF Rank
  <2> QED
    BY <1>2, <2>1, <2>2, <2>4
<1>4. \A x \in all : rank(x) \in 0..(n - 1)
  BY <1>1, <1>2, <1>3
<1>5. ASSUME NEW x \in all, NEW y \in all, Behind(s, x) < Behind(s, y)
      PROVE  rank(x) < rank(y)
  <2>1. x \in Newer(all, s, y) /\ Newer(all, s, y) \in SUBSET all
    BY <1>2, <1>5 DEF Newer
  <2>2. Newer(all, s, x) \in SUBSET Newer(all, s, y)
    <3> SUFFICES ASSUME NEW z \in Newer(all, s, x)
                 PROVE  z \in Newer(all, s, y)
      OBVIOUS
    <3>1. z \in all /\ Behind(s, z) < Behind(s, x)
      BY DEF Newer
    <3>2. Behind(s, z) \in Nat /\ Behind(s, x) \in Nat /\ Behind(s, y) \in Nat
      BY <3>1, <1>2
    <3>3. Behind(s, z) < Behind(s, y)
      BY <3>1, <3>2, <1>5
    <3> QED
      BY <3>1, <3>3 DEF Newer
  <2> QED
    BY <2>1, <2>2, <1>3 DEF Rank
<1>6. ASSUME NEW x \in all, NEW y \in all, rank(x) = rank(y)
      PROVE  x = y
  <2>1. Behind(s, x) \in Nat /\ Behind(s, y) \in Nat /\ rank(x) \in Nat /\ rank(y) \in Nat
    BY <1>2
  <2>2. ~(rank(x) < rank(y)) /\ ~(rank(y) < rank(x))
    BY <1>6, <2>1
  <2>3. ~(Behind(s, x) < Behind(s, y)) /\ ~(Behind(s, y) < Behind(s, x))
    BY <1>5, <2>2
  <2>4. Behind(s, x) = Behind(s, y)
    BY <2>1, <2>3
  <2> QED
    BY <2>4, BehindFacts
<1>7. ASSUME NEW k \in 0..(n - 1)
      PROVE  \E x \in all : rank(x) = k
  <2> DEFINE f == [x \in all |-> rank(x)]
             T == 0..(n - 1)
  <2> HIDE DEF rank
  <2>1. f \in Injection(all, T)
    BY <1>4, <1>6 DEF Injection, IsInjective
  <2>2. IsFiniteSet(T) /\ Cardinality(T) = n
    BY <1>1, FS_Interval
  <2> HIDE DEF f, T
  <2>3. f \in Surjection(all, T)
    BY <2>1, <2>2, FS_Injection
  <2>4. \A t \in T : \E x \in all : f[x] = t
    BY <2>3 DEF Surjection
  <2> QED
    BY <2>4 DEF f, T
<1> QED
  BY <1>4, <1>5, <1>6, <1>7

\* Pruning leaves the oldest, and no more than the list may hold.
LEMMA PruneFacts ==
  ASSUME NEW s \in Int, NEW all \in SUBSET Seqs
  PROVE  /\ Cardinality(all \ Pruned(all, s)) <= MaxLost
         /\ all # {} => all \ Pruned(all, s) # {}
<1> DEFINE n    == Cardinality(all)
           low  == IF n > MaxLost THEN n - MaxLost ELSE 0
           kept == all \ Pruned(all, s)
           T    == low..(n - 1)
<1>1. IsFiniteSet(all) /\ n \in Nat
  BY SeqsAreFinite
<1>2. kept = {x \in all : ~(Rank(all, s, x) < n - MaxLost)}
  BY DEF Pruned, Rank, Newer
<1>3. \A x \in kept : x \in all /\ Rank(all, s, x) \in T
  BY <1>1, <1>2, RankFacts, Sizes
<1>4. Cardinality(kept) <= MaxLost
  <2> DEFINE f == [x \in kept |-> Rank(all, s, x)]
  <2> HIDE DEF kept, T
  <2>1. f \in Injection(kept, T)
    BY <1>3, RankFacts DEF Injection, IsInjective
  <2> HIDE DEF f
  <2>2. IsFiniteSet(T) /\ Cardinality(T) <= MaxLost
    <3>1. low \in Nat /\ n - 1 \in Int /\ n - low <= MaxLost
      BY <1>1, Sizes
    <3> HIDE DEF n, low
    <3>2. IsFiniteSet(T) /\ Cardinality(T) = IF low > n - 1 THEN 0 ELSE n - 1 - low + 1
      BY <3>1, FS_Interval DEF T
    <3> QED
      BY <1>1, <3>1, <3>2, Sizes
  <2>3. Cardinality(kept) <= Cardinality(T) /\ IsFiniteSet(kept)
    BY <2>1, <2>2, FS_Injection
  <2> QED
    BY <2>2, <2>3, Sizes, FS_CardinalityType
<1>5. ASSUME all # {}
      PROVE  kept # {}
  <2>1. n >= 1
    BY <1>1, <1>5, FS_EmptySet
  <2>2. n - 1 \in 0..(n - 1)
    BY <1>1, <2>1
  <2>3. \E x \in all : Rank(all, s, x) = n - 1
    BY <2>2, RankFacts
  <2>4. PICK x \in all : Rank(all, s, x) = n - 1
    BY <2>3
  <2> QED
    BY <1>1, <1>2, <2>1, <2>4, Sizes
<1> QED
  BY <1>4, <1>5

\* The list in a NACK holds everything that is lost.
LEMMA EncodedFacts ==
  ASSUME expected \in Seqs, NEW S \in SUBSET Seqs, S # {}
  PROVE  Encoded(S) \in Lists /\ S \subseteq ToSet(Encoded(S))
<1> DEFINE n == Cardinality(S)
           b(x) == Behind(expected, x)
           Sorted(list) == \A i, j \in DOMAIN list : i < j => b(list[i]) < b(list[j])
<1>1. IsFiniteSet(S) /\ n \in Nat /\ n # 0 /\ expected \in Int
  BY SeqsAreFinite, FS_EmptySet, Sizes DEF Seqs
<1>2. \A x \in S : b(x) \in Nat /\ Rank(S, expected, x) \in 0..(n - 1)
  BY <1>1, BehindFacts, RankFacts
<1>3. \E list \in [1..n -> S] : Sorted(list)
  <2> DEFINE at(i) == CHOOSE x \in S : Rank(S, expected, x) = i - 1
             list  == [i \in 1..n |-> at(i)]
  <2>1. ASSUME NEW i \in 1..n
        PROVE  at(i) \in S /\ Rank(S, expected, at(i)) = i - 1
    <3>1. i - 1 \in 0..(n - 1)
      BY <1>1
    <3>2. \E x \in S : Rank(S, expected, x) = i - 1
      BY <3>1, <1>1, RankFacts
    <3> QED
      BY <3>2
  <2> HIDE DEF at
  <2>2. ASSUME NEW i \in 1..n, NEW j \in 1..n, i < j
        PROVE  b(list[i]) < b(list[j])
    <3>1. list[i] = at(i) /\ list[j] = at(j) /\ at(i) \in S /\ at(j) \in S
      BY <2>1
    <3>2. Rank(S, expected, at(i)) = i - 1 /\ Rank(S, expected, at(j)) = j - 1
      BY <2>1
    <3> HIDE DEF list
    <3>3. b(at(i)) \in Nat /\ b(at(j)) \in Nat
      BY <1>2, <3>1
    <3>4. b(at(i)) # b(at(j))
      <4>1. SUFFICES ASSUME b(at(i)) = b(at(j))
                     PROVE  FALSE
        OBVIOUS
      <4>2. at(i) = at(j)
        BY <4>1, <3>1, <1>1, BehindFacts
      <4>3. i - 1 = j - 1
        BY <4>2, <3>2
      <4> QED
        BY <4>3, <2>2, <1>1
    <3>5. ~(b(at(j)) < b(at(i)))
      <4>1. SUFFICES ASSUME b(at(j)) < b(at(i))
                     PROVE  FALSE
        OBVIOUS
      <4>2. Rank(S, expected, at(j)) < Rank(S, expected, at(i))
        BY <4>1, <3>1, <1>1, RankFacts
      <4>3. j - 1 < i - 1
        BY <4>2, <3>2
      <4> QED
        BY <4>3, <2>2, <1>1
    <3>6. b(at(i)) < b(at(j))
      BY <3>3, <3>4, <3>5
    <3> QED
      BY <3>1, <3>6
  <2>3. list \in [1..n -> S] /\ Sorted(list)
    BY <2>1, <2>2
  <2> HIDE DEF list
  <2> QED
    BY <2>3
<1> DEFINE q == Encoded(S)
<1>4. q \in [1..n -> S] /\ Sorted(q)
  BY Zenon, <1>3 DEF Encoded
<1> HIDE DEF q
<1>5. q \in Injection(1..n, S)
  <2>1. ASSUME NEW i \in 1..n, NEW j \in 1..n, q[i] = q[j]
        PROVE  i = j
    <3>1. b(q[i]) \in Nat /\ b(q[j]) = b(q[i])
      BY <1>2, <1>4, <2>1
    <3>2. ~(i < j) /\ ~(j < i)
      BY <3>1, <1>4
    <3> QED
      BY <3>2, <1>1
  <2> QED
    BY <1>4, <2>1 DEF Injection, IsInjective
<1>6. q \in Surjection(1..n, S)
  <2> DEFINE T == 1..n
  <2>1. Cardinality(T) = n
    BY <1>1, FS_Interval
  <2> HIDE DEF T
  <2> QED
    BY <1>1, <1>5, <2>1, FS_Injection DEF T
<1>7. \A x \in S : \E i \in DOMAIN q : q[i] = x
  BY <1>4, <1>6 DEF Surjection
<1>8. S \subseteq ToSet(q)
  BY Zenon, <1>7 DEF ToSet
<1>9. q \in Seq(Seqs) /\ q # << >>
  <2>1. q \in [1..n -> Seqs]
    BY <1>4
  <2>2. q \in Seq(Seqs)
    BY <1>1, <2>1
  <2>3. q # << >>
    BY <1>1, <1>4
  <2> QED
    BY <2>2, <2>3
<1> QED
  BY <1>8, <1>9 DEF q, Lists

-----------------------------------------------------------------------------
(* Counting: the NACKs that are being sent *)

\* What is left of a sequence, and where it was before.
LEMMA RemoveAtFacts ==
  ASSUME NEW S, NEW s \in Seq(S), NEW i \in DOMAIN s
  PROVE  /\ RemoveAt(s, i) \in Seq(S) /\ Len(RemoveAt(s, i)) = Len(s) - 1
         /\ \A k \in 1..(Len(s) - 1) : RemoveAt(s, i)[k] = s[IF k < i THEN k ELSE k + 1]
<1>0. i \in 1..Len(s) /\ Len(s) \in Nat
  OBVIOUS
<1> DEFINE head == SubSeq(s, 1, i - 1)
           tail == SubSeq(s, i + 1, Len(s))
<1>1. /\ head \in Seq(S) /\ Len(head) = i - 1
      /\ \A k \in 1..(i - 1) : head[k] = s[k]
  OBVIOUS
<1>2. /\ tail \in Seq(S) /\ Len(tail) = Len(s) - i
      /\ \A k \in 1..(Len(s) - i) : tail[k] = s[i + k]
  OBVIOUS
<1>3. RemoveAt(s, i) = head \o tail
  BY DEF RemoveAt
<1> HIDE DEF head, tail
<1>4. /\ head \o tail \in Seq(S) /\ Len(head \o tail) = Len(s) - 1
      /\ \A k \in 1..(Len(s) - 1) :
           (head \o tail)[k] = IF k <= i - 1 THEN head[k] ELSE tail[k - (i - 1)]
  BY <1>1, <1>2
<1>5. ASSUME NEW k \in 1..(Len(s) - 1)
      PROVE  (head \o tail)[k] = s[IF k < i THEN k ELSE k + 1]
  <2>1. CASE k < i
    BY <2>1, <1>0, <1>1, <1>4
  <2>2. CASE ~(k < i)
    <3> DEFINE j == k - (i - 1)
    <3>1. j \in 1..(Len(s) - i) /\ i + j = k + 1 /\ ~(k <= i - 1)
      BY <2>2, <1>0
    <3>2. (head \o tail)[k] = tail[j]
      BY <3>1, <1>4
    <3> HIDE DEF j
    <3>3. tail[j] = s[k + 1]
      BY <3>1, <1>2
    <3> QED
      BY <2>2, <3>2, <3>3
  <2> QED
    BY <2>1, <2>2
<1> QED
  BY <1>3, <1>4, <1>5

LEMMA UnawareIsFinite ==
  ASSUME NEW lists \in Seq(Lists), NEW s
  PROVE  /\ IsFiniteSet(Unaware(lists, s)) /\ Cardinality(Unaware(lists, s)) \in Nat
         /\ Cardinality(Unaware(lists, s)) <= Len(lists)
<1>1. Len(lists) \in Nat /\ DOMAIN lists = 1..Len(lists)
  OBVIOUS
<1>2. IsFiniteSet(1..Len(lists)) /\ Cardinality(1..Len(lists)) = Len(lists)
  BY <1>1, FS_Interval
<1>3. Unaware(lists, s) \in SUBSET (1..Len(lists))
  BY <1>1 DEF Unaware
<1> HIDE <1>1
<1> QED
  BY <1>2, <1>3, FS_Subset, FS_CardinalityType

\* The lists that do not hold s, when one has been sent.
LEMMA UnawareRemoved ==
  ASSUME NEW lists \in Seq(Lists), NEW k \in DOMAIN lists, NEW s
  PROVE  Cardinality(Unaware(RemoveAt(lists, k), s))
           <= Cardinality(Unaware(lists, s)) - (IF s \in ToSet(lists[k]) THEN 0 ELSE 1)
<1> DEFINE rest == RemoveAt(lists, k)
           U == Unaware(rest, s)
           T == Unaware(lists, s) \ {k}
           old(i) == IF i < k THEN i ELSE i + 1
           f == [i \in U |-> old(i)]
<1>1. /\ Len(lists) \in Nat /\ DOMAIN lists = 1..Len(lists) /\ k \in 1..Len(lists)
      /\ rest \in Seq(Lists) /\ Len(rest) = Len(lists) - 1 /\ DOMAIN rest = 1..(Len(lists) - 1)
      /\ \A i \in 1..(Len(lists) - 1) : rest[i] = lists[old(i)]
  <2>1. Len(lists) \in Nat /\ DOMAIN lists = 1..Len(lists) /\ k \in 1..Len(lists)
    OBVIOUS
  <2>2. /\ rest \in Seq(Lists) /\ Len(rest) = Len(lists) - 1
        /\ \A i \in 1..(Len(lists) - 1) : rest[i] = lists[IF i < k THEN i ELSE i + 1]
    BY RemoveAtFacts
  <2> HIDE DEF rest
  <2>3. DOMAIN rest = 1..(Len(lists) - 1)
    BY <2>1, <2>2
  <2> QED
    BY <2>1, <2>2, <2>3
<1> HIDE DEF rest
<1>2. ASSUME NEW i \in U
      PROVE  i \in 1..(Len(lists) - 1) /\ old(i) \in T
  <2>1. i \in 1..(Len(lists) - 1) /\ s \notin ToSet(rest[i])
    BY <1>1 DEF Unaware
  <2>2. old(i) \in 1..Len(lists) /\ old(i) # k
    BY <2>1, <1>1
  <2>3. s \notin ToSet(lists[old(i)])
    BY <2>1, <1>1
  <2> QED
    BY <2>1, <2>2, <2>3, <1>1 DEF Unaware
<1>3. f \in Injection(U, T)
  <2>1. \A i, j \in U : old(i) = old(j) => i = j
    BY <1>1, <1>2
  <2> QED
    BY <1>2, <2>1 DEF Injection, IsInjective
<1>4. /\ IsFiniteSet(Unaware(lists, s)) /\ Cardinality(Unaware(lists, s)) \in Nat
  BY UnawareIsFinite
<1>5. /\ IsFiniteSet(T)
      /\ Cardinality(T) = IF k \in Unaware(lists, s) THEN Cardinality(Unaware(lists, s)) - 1
                          ELSE Cardinality(Unaware(lists, s))
  BY <1>4, FS_RemoveElement
<1>6. k \in Unaware(lists, s) <=> s \notin ToSet(lists[k])
  BY DEF Unaware
<1> HIDE DEF f, T
<1>7. Cardinality(U) <= Cardinality(T)
  BY <1>3, <1>5, FS_Injection
<1>8. CASE s \in ToSet(lists[k])
  <2>1. Cardinality(U) <= Cardinality(Unaware(lists, s))
    BY <1>5, <1>6, <1>7, <1>8
  <2>2. Cardinality(Unaware(lists, s)) - 0 = Cardinality(Unaware(lists, s))
    BY <1>4
  <2> QED
    BY <1>8, <2>1, <2>2 DEF rest
<1>9. CASE s \notin ToSet(lists[k])
  BY <1>5, <1>6, <1>7, <1>9 DEF rest
<1> QED
  BY <1>8, <1>9

LEMMA UnawareAppended ==
  ASSUME NEW lists \in Seq(Lists), NEW list \in Lists, NEW s, s \in ToSet(list)
  PROVE  Unaware(Append(lists, list), s) = Unaware(lists, s)
<1>1. /\ Len(lists) \in Nat /\ DOMAIN lists = 1..Len(lists)
      /\ DOMAIN Append(lists, list) = 1..(Len(lists) + 1)
      /\ \A i \in 1..Len(lists) : Append(lists, list)[i] = lists[i]
      /\ Append(lists, list)[Len(lists) + 1] = list
  OBVIOUS
<1> HIDE <1>1
<1> DEFINE more == Append(lists, list)
<1>2. /\ Len(lists) \in Nat /\ DOMAIN lists = 1..Len(lists)
      /\ DOMAIN more = 1..(Len(lists) + 1)
      /\ \A i \in 1..Len(lists) : more[i] = lists[i]
      /\ more[Len(lists) + 1] = list
  BY <1>1
<1> HIDE DEF more
<1>3. ASSUME NEW i
      PROVE  i \in Unaware(more, s) <=> i \in Unaware(lists, s)
  <2>1. i \in Unaware(more, s) <=> i \in 1..(Len(lists) + 1) /\ s \notin ToSet(more[i])
    BY <1>2 DEF Unaware
  <2>2. i \in Unaware(lists, s) <=> i \in 1..Len(lists) /\ s \notin ToSet(lists[i])
    BY <1>2 DEF Unaware
  <2> QED
    BY <2>1, <2>2, <1>2
<1> QED
  BY <1>3 DEF more, Unaware

-----------------------------------------------------------------------------
(* What a step leaves alone *)

LEMMA ListKept ==
  ASSUME ListInv, UNCHANGED <<lost, timer, asked, sending, closed>>,
         expected' \in Seqs, received' \in SUBSET Numbers, anchored' \in Nat
  PROVE  ListInv'
  BY DEF ListInv, HandlerTypes, Timed, Limited, Counted, Unaware

LEMMA SendingKept ==
  ASSUME SendingTypes, UNCHANGED <<sending, failures>>
  PROVE  SendingTypes'
  BY DEF SendingTypes

\* The list may shrink.
LEMMA AnchoredKept ==
  ASSUME Anchored, HandlerTypes, DOMAIN lost' \in SUBSET DOMAIN lost,
         UNCHANGED <<expected, closed, received, anchored>>
  PROVE  Anchored'
<1>1. ASSUME anchored = 1, ~closed
      PROVE  \E E \in received : Latest(E)'
  <2>1. PICK E \in received : Latest(E)
    BY <1>1 DEF Anchored
  <2>2. Latest(E)'
    BY <2>1 DEF Latest
  <2> QED
    BY <2>2
<1> QED
  BY <1>1 DEF Anchored

LEMMA ReceiverKept ==
  ASSUME ReceiverInv, UNCHANGED <<handler, failures, history>>
  PROVE  ReceiverInv'
<1>1. UNCHANGED <<expected, lost, timer, sending, closed, failures, received, asked, gaveUp, anchored>>
  BY DEF handler, history
<1>2. ListInv' /\ SendingTypes' /\ Anchored'
  BY <1>1, ListKept, SendingKept, AnchoredKept DEF ReceiverInv, ListInv, HandlerTypes
<1> QED
  BY <1>1, <1>2 DEF ReceiverInv, AskedBeforeGivenUp

-----------------------------------------------------------------------------
(* The sender and the network *)

LEMMA SendRtpKeeps == ASSUME RecoveryInv, SendRtp  PROVE  RecoveryInv'
<1> DEFINE number == FirstNumber + sent
           slot   == SeqNum(number) % BufferSize
<1>1. number \in Numbers /\ sent + 1 \in 0..MaxPackets
  BY Sizes DEF RecoveryInv, SenderTypes, SendRtp, Numbers
<1>2. slot \in 0..(BufferSize - 1)
  <2>1. number \in Int
    BY <1>1, Sizes DEF Numbers
  <2> HIDE DEF number
  <2>2. SeqNum(number) \in Int
    BY <2>1, SeqNumRange, Sizes DEF Seqs
  <2> QED
    BY <2>2, Sizes, RemainderRange
<1>3. /\ sent' = sent + 1 /\ buffer' = [buffer EXCEPT ![slot] = number]
      /\ network' = network \cup {number} /\ UNCHANGED <<resent, nacks, handler, failures, history>>
  BY DEF SendRtp
<1> HIDE DEF number, slot
<1>4. SenderTypes'
  BY <1>1, <1>2, <1>3 DEF RecoveryInv, SenderTypes
<1> QED
  BY <1>3, <1>4, ReceiverKept DEF RecoveryInv

\* What is left of a list of lists.
LEMMA TailFacts ==
  ASSUME NEW list \in Lists
  PROVE  /\ Head(list) \in Seqs /\ Len(list) \in Nat \ {0}
         /\ Len(list) # 1 => Tail(list) \in Lists
<1>1. /\ list \in Seq(Seqs) /\ list # << >>
  BY DEF Lists
<1>2. /\ Head(list) \in Seqs /\ Len(list) \in Nat \ {0} /\ Tail(list) \in Seq(Seqs)
      /\ Len(Tail(list)) = Len(list) - 1
  BY <1>1
<1> QED
  BY <1>2 DEF Lists

LEMMA RetransmitKeeps ==
  ASSUME RecoveryInv, NEW i \in DOMAIN nacks, Retransmit(i)
  PROVE  RecoveryInv'
<1>1. SenderTypes /\ nacks \in Seq(Lists) /\ nacks[i] \in Lists
  BY DEF RecoveryInv, SenderTypes
<1>2. Retrieve(Head(nacks[i])) \in SUBSET Numbers
  <2> DEFINE s == Head(nacks[i])
  <2>1. s \in Int
    BY <1>1, TailFacts, Sizes DEF Seqs
  <2> HIDE DEF s
  <2>2. s % BufferSize \in 0..(BufferSize - 1)
    BY <2>1, Sizes, RemainderRange
  <2>3. Retrieve(s) \in SUBSET Numbers
    BY <1>1, <2>2 DEF Retrieve, SenderTypes
  <2> QED
    BY <2>3 DEF s
<1>3. nacks' \in Seq(Lists)
  <2>1. CASE Len(nacks[i]) = 1
    BY <1>1, <2>1, RemoveAtFacts DEF Retransmit
  <2>2. CASE Len(nacks[i]) # 1
    <3>1. nacks' = [nacks EXCEPT ![i] = Tail(nacks[i])] /\ Tail(nacks[i]) \in Lists
      BY <1>1, <2>2, TailFacts DEF Retransmit
    <3> QED
      BY <1>1, <3>1
  <2> QED
    BY <2>1, <2>2
<1>4. SenderTypes'
  BY <1>1, <1>2, <1>3 DEF SenderTypes, Retransmit, sender
<1> QED
  BY <1>4, ReceiverKept DEF RecoveryInv, Retransmit

LEMMA LoseKeeps == ASSUME RecoveryInv, Lose  PROVE  RecoveryInv'
<1>1. nacks' \in Seq(Lists)
  BY RemoveAtFacts DEF RecoveryInv, SenderTypes, Lose
<1>2. network' \in SUBSET network /\ resent' \in SUBSET resent
  BY DEF Lose
<1>3. SenderTypes'
  BY <1>1, <1>2 DEF RecoveryInv, SenderTypes, Lose, sender
<1> QED
  BY <1>3, ReceiverKept DEF RecoveryInv, Lose

-----------------------------------------------------------------------------
(* A packet arrives *)

\* The parts of receiveRtp for one packet; the rest of the receiver is left alone.
Arrives(number) ==
  /\ number \in Numbers /\ received' = received \cup {number}
  /\ UNCHANGED <<sending, closed, failures, gaveUp>>

\* What the packet says of the numbers, when the handler has seen one before.
LEMMA ArrivalFacts ==
  ASSUME NEW number \in Numbers, NEW E \in Numbers, expected = SeqNum(E)
  PROVE  /\ number \in Int /\ E \in Int /\ SeqNum(number) \in Seqs
         /\ SeqNum(number) = Add(expected, 1) <=> number = E + 1
         /\ Gt(SeqNum(number), Add(expected, 1)) <=> number > E + 1
         /\ \A m \in Numbers : SeqNum(number) = SeqNum(m) => number = m
<1>1. /\ number \in Int /\ E \in Int /\ number - (E + 1) \in (1 - Half)..(Half - 1) /\ Half \in Nat
      /\ SeqModulo = 2 * Half
  BY Sizes DEF Numbers
<1>2. Add(expected, 1) = SeqNum(E + 1) /\ SeqNum(number) \in Seqs
  BY <1>1, AddIsNumber, SeqNumRange
<1> DEFINE next == E + 1
<1>3. next \in Int /\ number - next \in (1 - Half)..(Half - 1)
      /\ number - next \in (1 - SeqModulo)..(SeqModulo - 1)
  BY <1>1
<1>4. Add(expected, 1) = SeqNum(next)
  BY <1>2
<1> HIDE DEF next
<1>5. SeqNum(number) = SeqNum(next) <=> number = next
  BY <1>1, <1>3, SeqNumInjective
<1>6. Gt(SeqNum(number), SeqNum(next)) <=> number > next
  BY <1>1, <1>3, GtIsAfter
<1>7. ASSUME NEW m \in Numbers, SeqNum(number) = SeqNum(m)
      PROVE  number = m
  <2>1. m \in Int /\ number - m \in (1 - SeqModulo)..(SeqModulo - 1)
    BY Sizes DEF Numbers
  <2> QED
    BY <1>1, <1>7, <2>1, SeqNumInjective
<1> QED
  BY <1>1, <1>2, <1>4, <1>5, <1>6, <1>7 DEF next

\* The packets that addPacket walks over lie between the latest and the new one.
LEMMA MissingFacts ==
  ASSUME NEW number \in Numbers, NEW E \in Numbers, expected = SeqNum(E), number > E + 1
  PROVE  /\ Missing(SeqNum(number)) \in SUBSET Seqs
         /\ Add(expected, 1) \in Missing(SeqNum(number))
         /\ \A x \in Missing(SeqNum(number)) : \E m \in Numbers : E < m /\ m < number /\ x = SeqNum(m)
<1>1. number \in Int /\ E \in Int /\ Half \in Nat /\ number - E < Half - 1 /\ number - E > 1 - Half
  BY Sizes DEF Numbers
<1>2. ASSUME NEW x \in Missing(SeqNum(number))
      PROVE  \E m \in Numbers : E < m /\ m < number /\ x = SeqNum(m)
  <2>1. PICK d \in 1..(Half - 1) : Gt(SeqNum(number), Add(expected, d)) /\ x = Add(expected, d)
    BY DEF Missing
  <2> DEFINE m == E + d
  <2>2. d \in Int /\ m \in Int /\ E < m
    BY <1>1, <2>1
  <2>3. x = SeqNum(m)
    BY <1>1, <2>1, <2>2, AddIsNumber
  <2>4. number - m \in (1 - Half)..(Half - 1)
    BY <1>1, <2>1
  <2>5. Gt(SeqNum(number), SeqNum(m))
    BY <2>1, <2>3
  <2> HIDE DEF m
  <2>6. m < number
    BY <1>1, <2>2, <2>4, <2>5, GtIsAfter
  <2>7. m \in Numbers
    BY <2>2, <2>6, Sizes DEF Numbers
  <2> QED
    BY <2>2, <2>3, <2>6, <2>7
<1>3. Missing(SeqNum(number)) \in SUBSET Seqs
  <2>1. \A m \in Numbers : SeqNum(m) \in Seqs
    BY SeqNumRange, Sizes DEF Numbers
  <2> QED
    BY <1>2, <2>1
<1>4. Add(expected, 1) \in Missing(SeqNum(number))
  <2>1. 1 \in 1..(Half - 1)
    BY <1>1
  <2>2. Gt(SeqNum(number), Add(expected, 1))
    BY ArrivalFacts
  <2> QED
    BY <2>1, <2>2 DEF Missing
<1> QED
  BY <1>2, <1>3, <1>4

\* The first packet: nothing is known to be lost before it.
LEMMA FirstKeeps ==
  ASSUME ListInv, Anchored, NEW number, Arrives(number), ~closed, expected = 0,
         expected' = SeqNum(number), anchored' = anchored + 1, UNCHANGED <<lost, timer, asked>>
  PROVE  ListInv' /\ Anchored'
<1>1. number \in Numbers /\ number \in Int /\ SeqNum(number) \in Seqs /\ anchored \in Nat
  BY Sizes, SeqNumRange DEF Arrives, Numbers, ListInv, HandlerTypes
<1>2. received' = received \cup {number} /\ received' \in SUBSET Numbers /\ UNCHANGED <<sending, closed>>
  BY <1>1 DEF Arrives, ListInv, HandlerTypes
<1>3. ListInv'
  BY <1>1, <1>2, ListKept
<1>4. CASE anchored = 0
  <2>1. received' = {number} /\ DOMAIN lost' = {}
    BY <1>2, <1>4 DEF Anchored
  <2>2. Latest(number)'
    BY <1>1, <2>1 DEF Latest
  <2>3. ~closed' /\ anchored' = 1 /\ number \in received'
    BY <1>2, <1>4, <2>1
  <2> QED
    BY <1>3, <2>2, <2>3 DEF Anchored
<1>5. CASE anchored # 0
  <2>1. ~closed' /\ anchored' # 0 /\ anchored' # 1
    BY <1>1, <1>2, <1>5
  <2> QED
    BY <1>3, <2>1 DEF Anchored
<1> QED
  BY <1>4, <1>5

\* A later packet: what it does to the latest one and to the packets that are lost is all
\* that Anchored asks for.
LEMMA LaterKeeps ==
  ASSUME HandlerTypes, Anchored, NEW number, Arrives(number), ~closed, expected # 0,
         UNCHANGED anchored,
         \A E \in received : Latest(E) => \E F \in received' : Latest(F)'
  PROVE  Anchored'
<1>1. ~closed' /\ anchored # 0
  BY DEF Arrives, Anchored
<1> QED
  BY <1>1 DEF Anchored

LEMMA RecoverKeeps ==
  ASSUME ListInv, Anchored, NEW number, Arrives(number), ~closed, expected # 0,
         SeqNum(number) \in DOMAIN lost, Recover(SeqNum(number))
  PROVE  ListInv' /\ Anchored'
<1> DEFINE s == SeqNum(number)
           rest == DOMAIN lost \ {s}
<1>1. HandlerTypes /\ Timed /\ Limited /\ Counted /\ number \in Numbers /\ received \in SUBSET Numbers
  BY DEF ListInv, Arrives, HandlerTypes
<1>2. /\ lost' = [x \in rest |-> lost[x]] /\ asked' = [x \in rest |-> asked[x]]
      /\ UNCHANGED <<expected, anchored, sending, closed>> /\ received' = received \cup {number}
      /\ timer' = (timer /\ DOMAIN lost # {s})
  BY DEF Recover, Keep, Arrives
<1>3. DOMAIN lost' = rest
  BY <1>2
<1>4. ListInv'
  <2>1. timer' \in BOOLEAN
    BY Zenon, <1>2
  <2>2. HandlerTypes'
    BY <1>1, <1>2, <1>3, <2>1 DEF HandlerTypes
  <2>3. Timed'
    BY <1>1, <1>2, <1>3 DEF Timed
  <2>4. Limited'
    <3>1. IsFiniteSet(DOMAIN lost) /\ Cardinality(rest) <= Cardinality(DOMAIN lost)
          /\ Cardinality(rest) \in Nat /\ Cardinality(DOMAIN lost) \in Nat
      BY <1>1, SeqsAreFinite, FS_Subset DEF HandlerTypes
    <3> HIDE DEF rest
    <3> QED
      BY <1>1, <1>3, <3>1, Sizes DEF Limited
  <2>5. Counted'
    BY <1>1, <1>2, <1>3 DEF Counted, Unaware
  <2> QED
    BY <2>2, <2>3, <2>4, <2>5 DEF ListInv
<1>5. ASSUME NEW E \in received, Latest(E)
      PROVE  Latest(E)' /\ E \in received'
  <2>1. E \in Numbers /\ expected = SeqNum(E) /\ E \in Int /\ number \in Int
    BY <1>1, <1>5, Sizes DEF Latest, Numbers
  <2>2. PICK m \in Numbers \ received : m < E /\ s = SeqNum(m)
    BY <1>5 DEF Latest
  <2>3. number = m
    BY <1>1, <2>1, <2>2, ArrivalFacts
  <2>4. \A n \in received' : n <= E
    BY <1>2, <1>5, <2>1, <2>2, <2>3 DEF Latest
  <2>5. ASSUME NEW x \in DOMAIN lost'
        PROVE  \E k \in Numbers \ received' : k < E /\ x = SeqNum(k)
    <3>1. PICK k \in Numbers \ received : k < E /\ x = SeqNum(k)
      BY <1>3, <1>5, <2>5 DEF Latest
    <3>2. k # number
      BY <1>3, <2>5, <3>1
    <3> QED
      BY <1>2, <3>1, <3>2
  <2> QED
    BY <1>2, <1>5, <2>1, <2>4, <2>5 DEF Latest
<1>6. Anchored'
  BY <1>1, <1>2, <1>5, LaterKeeps
<1> QED
  BY <1>4, <1>6

LEMMA NextKeeps ==
  ASSUME ListInv, Anchored, NEW number, Arrives(number), ~closed, expected # 0,
         SeqNum(number) = Add(expected, 1), expected' = SeqNum(number),
         SeqNum(number) \notin DOMAIN lost, UNCHANGED <<lost, timer, asked, anchored>>
  PROVE  ListInv' /\ Anchored'
<1>1. HandlerTypes /\ number \in Numbers /\ received \in SUBSET Numbers
      /\ received' = received \cup {number} /\ UNCHANGED <<sending, closed>> /\ anchored \in Nat
  BY DEF ListInv, Arrives, HandlerTypes
<1>2. ListInv'
  <2>1. SeqNum(number) \in Seqs /\ received' \in SUBSET Numbers
    BY <1>1, SeqNumRange, Sizes DEF Numbers
  <2> QED
    BY <1>1, <2>1, ListKept
<1>3. ASSUME NEW E \in received, Latest(E)
      PROVE  Latest(number)' /\ number \in received'
  <2>1. E \in Numbers /\ E \in Int /\ number \in Int /\ number = E + 1
    BY <1>1, <1>3, ArrivalFacts, Sizes DEF Latest, Numbers
  <2>2. ASSUME NEW x \in DOMAIN lost'
        PROVE  \E k \in Numbers \ received' : k < number /\ x = SeqNum(k)
    <3>1. PICK k \in Numbers \ received : k < E /\ x = SeqNum(k)
      BY <1>3, <2>2 DEF Latest
    <3>2. k \in Int /\ k # number /\ k < number
      BY <2>1, <3>1, Sizes DEF Numbers
    <3> QED
      BY <1>1, <3>1, <3>2
  <2>3. \A n \in received' : n <= number
    BY <1>1, <1>3, <2>1, Sizes DEF Latest, Numbers
  <2> QED
    BY <1>1, <2>2, <2>3 DEF Latest
<1>4. Anchored'
  BY <1>1, <1>3, LaterKeeps
<1> QED
  BY <1>2, <1>4

\* A packet that is neither lost nor ahead: the latest one stays the latest.
LEMMA OtherKeeps ==
  ASSUME ListInv, Anchored, NEW number, Arrives(number), ~closed, expected # 0,
         SeqNum(number) # Add(expected, 1), ~Gt(SeqNum(number), Add(expected, 1)),
         SeqNum(number) \notin DOMAIN lost, Unmoved
  PROVE  ListInv' /\ Anchored'
<1>1. HandlerTypes /\ number \in Numbers /\ received \in SUBSET Numbers
      /\ received' = received \cup {number} /\ UNCHANGED <<sending, closed>> /\ anchored \in Nat
      /\ UNCHANGED <<expected, lost, timer, asked, anchored>> /\ received' \in SUBSET Numbers
  BY DEF ListInv, Arrives, HandlerTypes, Unmoved
<1>2. ListInv'
  BY <1>1, ListKept DEF HandlerTypes
<1>3. ASSUME NEW E \in received, Latest(E)
      PROVE  Latest(E)' /\ E \in received'
  <2>1. E \in Numbers /\ E \in Int /\ number \in Int /\ number <= E
    BY <1>1, <1>3, ArrivalFacts, Sizes DEF Latest, Numbers
  <2>2. ASSUME NEW x \in DOMAIN lost'
        PROVE  \E k \in Numbers \ received' : k < E /\ x = SeqNum(k)
    BY <1>1, <1>3, <2>2 DEF Latest
  <2>3. \A n \in received' : n <= E
    BY <1>1, <1>3, <2>1 DEF Latest
  <2> QED
    BY <1>1, <1>3, <2>2, <2>3 DEF Latest
<1>4. Anchored'
  BY <1>1, <1>3, LaterKeeps
<1> QED
  BY <1>2, <1>4

\* A gap: what is counted anew has been asked for never, and at most MaxSends NACKs that
\* do not ask for it are being sent.
LEMMA NewGapKeeps ==
  ASSUME ListInv, SendingTypes, Anchored, NEW number, Arrives(number), ~closed, expected # 0,
         Gt(SeqNum(number), Add(expected, 1)), SeqNum(number) \notin DOMAIN lost,
         NewGap(SeqNum(number))
  PROVE  ListInv' /\ Anchored'
<1> DEFINE s    == SeqNum(number)
           gap  == Missing(s)
           all  == DOMAIN lost \cup gap
           kept == all \ Pruned(all, s)
<1>1. HandlerTypes /\ Counted /\ number \in Numbers /\ received \in SUBSET Numbers
      /\ anchored \in Nat /\ number \in Int /\ s \in Seqs /\ s \in Int
  BY SeqNumRange, Sizes DEF ListInv, Arrives, HandlerTypes, Numbers, Seqs
<1>2. /\ lost' = [x \in kept |-> IF x \in gap THEN 1 ELSE lost[x]]
      /\ asked' = [x \in kept |-> IF x \in gap THEN 0 ELSE asked[x]]
      /\ expected' = s /\ timer' = TRUE /\ UNCHANGED <<anchored, sending, closed>>
      /\ received' = received \cup {number}
  BY DEF NewGap, Arrives
<1>3. DOMAIN lost' = kept
  BY <1>2
<1>4. CASE anchored = 0
  BY <1>4 DEF Anchored
<1>5. CASE anchored # 0
  <2>1. gap \in SUBSET Seqs /\ Add(expected, 1) \in gap
    \* the walk starts at the number that was expected
    <3>1. gap \in SUBSET Seqs
      <4>1. \A d \in 1..(Half - 1) : Add(expected, d) \in Seqs
        <5> TAKE d \in 1..(Half - 1)
        <5>1. expected + d \in Int
          BY <1>1, Sizes DEF HandlerTypes, Seqs
        <5> QED
          BY <5>1, SeqNumRange DEF Add, SeqNum
      <4> QED
        BY <4>1 DEF Missing
    <3>2. Half > 1
      <4>1. expected \in 0..(SeqModulo - 1) /\ Add(expected, 1) \in Seqs
        BY <1>1, Sizes, RemainderRange DEF HandlerTypes, Seqs, Add
      <4> QED
        BY <1>1, <4>1, Sizes DEF Gt, Seqs
    <3>3. 1 \in 1..(Half - 1)
      BY <3>2, Sizes
    <3> QED
      BY <3>1, <3>3 DEF Missing
  <2>2. all \in SUBSET Seqs /\ all # {}
    BY <1>1, <2>1 DEF HandlerTypes
  <2> HIDE DEF all, gap
  <2>3. Cardinality(kept) <= MaxLost /\ kept # {} /\ kept \in SUBSET all
    BY <1>1, <2>2, PruneFacts
  <2>4. ASSUME NEW x \in kept
        PROVE  x \in gap \/ x \in DOMAIN lost
    BY <2>3, <2>4 DEF all
  <2> HIDE DEF kept
  <2>5. HandlerTypes'
    <3>1. lost' \in [kept -> 1..MaxRetries] /\ asked' \in [kept -> Nat]
      BY <1>1, <1>2, <2>4, Sizes DEF HandlerTypes
    <3>2. timer' \in BOOLEAN /\ closed' \in BOOLEAN
      BY Zenon, <1>1, <1>2 DEF HandlerTypes
    <3> QED
      BY <1>1, <1>2, <1>3, <2>2, <2>3, <3>1, <3>2 DEF HandlerTypes
  <2>6. Timed' /\ Limited'
    BY <1>2, <1>3, <2>3 DEF Timed, Limited
  <2>7. Counted'
    <3>1. SUFFICES ASSUME NEW x \in kept
                   PROVE  lost'[x] - 1 + Cardinality(Unaware(sending, x)) <= asked'[x] + MaxSends
      BY <1>2, <1>3 DEF Counted
    <3>2. /\ Cardinality(Unaware(sending, x)) \in Nat
          /\ Cardinality(Unaware(sending, x)) <= Len(sending)
          /\ Len(sending) \in Nat /\ Len(sending) <= MaxSends
      BY UnawareIsFinite DEF SendingTypes
    <3>3. CASE x \in gap
      <4>1. lost'[x] = 1 /\ asked'[x] = 0
        BY <1>2, <3>3
      <4> QED
        BY <3>2, <4>1, Sizes
    <3>4. CASE x \notin gap
      <4>1. lost'[x] = lost[x] /\ asked'[x] = asked[x] /\ x \in DOMAIN lost
        BY <1>2, <2>4, <3>4
      <4> QED
        BY <1>1, <4>1 DEF Counted
    <3> QED
      BY <3>3, <3>4
  <2>8. ASSUME NEW E \in received, Latest(E)
        PROVE  Latest(number)' /\ number \in received'
    <3>1. E \in Numbers /\ E \in Int /\ expected = SeqNum(E) /\ number > E + 1
      BY <1>1, <2>8, ArrivalFacts, Sizes DEF Latest, Numbers
    <3>2. \A n \in received : n \in Int /\ n <= E
      BY <1>1, <2>8, Sizes DEF Latest, Numbers
    <3>3. ASSUME NEW x \in DOMAIN lost'
          PROVE  \E k \in Numbers \ received' : k < number /\ x = SeqNum(k)
      <4>1. CASE x \in gap
        <5>1. PICK k \in Numbers : E < k /\ k < number /\ x = SeqNum(k)
          BY <1>1, <3>1, <4>1, MissingFacts DEF gap
        <5>2. k \notin received /\ k # number
          BY <1>1, <3>1, <3>2, <5>1, Sizes DEF Numbers
        <5> QED
          BY <1>2, <5>1, <5>2
      <4>2. CASE x \notin gap
        <5>1. x \in DOMAIN lost
          BY <1>3, <2>4, <3>3, <4>2
        <5>2. PICK k \in Numbers \ received : k < E /\ x = SeqNum(k)
          BY <2>8, <5>1 DEF Latest
        <5>3. k < number /\ k # number
          BY <1>1, <3>1, <5>2, Sizes DEF Numbers
        <5> QED
          BY <1>2, <5>2, <5>3
      <4> QED
        BY <4>1, <4>2
    <3>4. \A n \in received' : n <= number
      BY <1>1, <1>2, <3>1, <3>2
    <3> QED
      BY <1>2, <3>3, <3>4 DEF Latest
  <2>9. Anchored'
    BY <1>1, <1>2, <2>8, LaterKeeps
  <2> QED
    BY <2>5, <2>6, <2>7, <2>9 DEF ListInv
<1> QED
  BY <1>4, <1>5

LEMMA ReceiveRtpKeeps == ASSUME RecoveryInv, ReceiveRtp  PROVE  RecoveryInv'
<1>1. SenderTypes /\ ListInv /\ HandlerTypes /\ SendingTypes /\ Anchored /\ AskedBeforeGivenUp
  BY DEF RecoveryInv, ReceiverInv, ListInv
<1>2. PICK number \in network \cup resent :
        /\ \/ network' = network \ {number} /\ UNCHANGED resent
           \/ resent' = resent \ {number} /\ UNCHANGED network
        /\ received' = received \cup {number}
        /\ IF closed THEN Unmoved ELSE AddPacket(SeqNum(number))
  BY DEF ReceiveRtp
<1>3. UNCHANGED <<sender, nacks, sending, closed, failures, gaveUp>>
  BY DEF ReceiveRtp
<1>4. Arrives(number) /\ number \in Numbers /\ received' \in SUBSET Numbers
  BY <1>1, <1>2, <1>3 DEF Arrives, SenderTypes, HandlerTypes
<1>5. SenderTypes' /\ SendingTypes' /\ AskedBeforeGivenUp'
  BY <1>1, <1>2, <1>3, SendingKept DEF SenderTypes, sender, AskedBeforeGivenUp
<1> DEFINE s == SeqNum(number)
<1>6. ListInv' /\ Anchored'
  <2>1. CASE closed
    <3>1. UNCHANGED <<expected, lost, timer, asked, anchored>>
      BY <1>2, <2>1 DEF Unmoved
    <3>2. ListInv'
      BY <1>1, <1>3, <1>4, <3>1, ListKept DEF HandlerTypes
    <3>3. Anchored'
      BY <1>1, <1>3, <2>1, <3>1 DEF Anchored
    <3> QED
      BY <3>2, <3>3
  <2>2. CASE ~closed
    <3>1. AddPacket(s)
      BY <1>2, <2>2
    <3>2. CASE expected = 0
      BY <1>1, <1>4, <2>2, <3>1, <3>2, FirstKeeps DEF AddPacket
    <3>3. CASE expected # 0 /\ s \in DOMAIN lost
      BY <1>1, <1>4, <2>2, <3>1, <3>3, RecoverKeeps DEF AddPacket
    <3>4. CASE expected # 0 /\ s \notin DOMAIN lost /\ s = Add(expected, 1)
      BY <1>1, <1>4, <2>2, <3>1, <3>4, NextKeeps DEF AddPacket
    <3>5. CASE expected # 0 /\ s \notin DOMAIN lost /\ s # Add(expected, 1) /\ Gt(s, Add(expected, 1))
      BY <1>1, <1>4, <2>2, <3>1, <3>5, NewGapKeeps DEF AddPacket
    <3>6. CASE expected # 0 /\ s \notin DOMAIN lost /\ s # Add(expected, 1) /\ ~Gt(s, Add(expected, 1))
      BY <1>1, <1>4, <2>2, <3>1, <3>6, OtherKeeps DEF AddPacket
    <3> QED
      BY <3>2, <3>3, <3>4, <3>5, <3>6
  <2> QED
    BY <2>1, <2>2
<1> QED
  BY <1>5, <1>6 DEF RecoveryInv, ReceiverInv

-----------------------------------------------------------------------------
(* The timer *)

LEMMA SendNackKeeps == ASSUME RecoveryInv, SendNack  PROVE  RecoveryInv'
<1>1. SenderTypes /\ ListInv /\ HandlerTypes /\ Timed /\ Counted /\ SendingTypes /\ Anchored
  BY DEF RecoveryInv, ReceiverInv, ListInv
<1>2. UNCHANGED <<sender, network, resent, nacks, expected, lost, closed, failures, received, asked,
                  gaveUp, anchored>>
  BY DEF SendNack
<1>3. SenderTypes' /\ Anchored' /\ AskedBeforeGivenUp'
  BY <1>1, <1>2, AnchoredKept
  DEF SenderTypes, sender, RecoveryInv, ReceiverInv, AskedBeforeGivenUp
<1>4. timer /\ Len(sending) < MaxSends /\ DOMAIN lost # {} /\ lost # Empty
  BY <1>1 DEF SendNack, Timed, Empty
<1>5. sending' = Append(sending, Encoded(DOMAIN lost)) /\ UNCHANGED timer
  BY <1>4 DEF SendNack
<1>6. Encoded(DOMAIN lost) \in Lists /\ \A s \in DOMAIN lost : s \in ToSet(Encoded(DOMAIN lost))
  BY <1>1, <1>4, EncodedFacts DEF HandlerTypes
<1>7. SendingTypes'
  <2>1. sending \in Seq(Lists) /\ Len(sending) \in Nat
    BY <1>1 DEF SendingTypes
  <2>2. sending' \in Seq(Lists) /\ Len(sending') = Len(sending) + 1
    BY <1>5, <1>6, <2>1
  <2> QED
    BY <1>1, <1>2, <1>4, <2>1, <2>2, Sizes DEF SendingTypes
<1>8. ListInv'
  <2>1. HandlerTypes' /\ Timed' /\ Limited'
    BY <1>1, <1>2, <1>5 DEF ListInv, HandlerTypes, Timed, Limited
  <2>2. \A s \in DOMAIN lost : Unaware(sending', s) = Unaware(sending, s)
    BY <1>1, <1>5, <1>6, UnawareAppended DEF SendingTypes
  <2>3. Counted'
    BY <1>1, <1>2, <2>2 DEF Counted
  <2> QED
    BY <2>1, <2>3 DEF ListInv
<1> QED
  BY <1>3, <1>7, <1>8 DEF RecoveryInv, ReceiverInv

\* The NACKs that are being sent, without one.
LEMMA SendingShrinks ==
  ASSUME SendingTypes, NEW i \in DOMAIN sending, sending' = RemoveAt(sending, i),
         failures' \in 0..MaxFailures
  PROVE  SendingTypes' /\ sending[i] \in Lists
<1>1. /\ sending' \in Seq(Lists) /\ Len(sending') = Len(sending) - 1 /\ sending[i] \in Lists
      /\ Len(sending) \in Nat
  BY RemoveAtFacts DEF SendingTypes
<1> QED
  BY <1>1, Sizes DEF SendingTypes

\* A packet that is counted once more has been asked for once more, or one of the lists
\* that do not hold it is gone; one that is given up has been counted MaxRetries times.
LEMMA NackSentKeeps ==
  ASSUME RecoveryInv, NEW i \in DOMAIN sending, NackSent(i)
  PROVE  RecoveryInv'
<1> DEFINE times == [s \in DOMAIN asked |->
                       IF s \in ToSet(sending[i]) THEN asked[s] + 1 ELSE asked[s]]
           kept  == {s \in DOMAIN lost : ~Spent(s)}
<1>1. /\ SenderTypes /\ ListInv /\ HandlerTypes /\ Timed /\ Limited /\ Counted /\ SendingTypes
      /\ Anchored /\ AskedBeforeGivenUp /\ DOMAIN asked = DOMAIN lost
  BY DEF RecoveryInv, ReceiverInv, ListInv, HandlerTypes
<1>2. /\ sending' = RemoveAt(sending, i) /\ nacks' = Append(nacks, sending[i])
      /\ UNCHANGED <<sender, network, resent, expected, closed, failures, received, anchored>>
      /\ UpdateRetryCount(times)
  BY DEF NackSent
<1>3. /\ lost' = [s \in kept |-> lost[s] + 1] /\ asked' = [s \in kept |-> times[s]]
      /\ gaveUp' = gaveUp \cup {times[s] : s \in DOMAIN lost \ kept}
      /\ timer' = (timer /\ kept # {})
  BY <1>2 DEF UpdateRetryCount, Keep
<1>4. SendingTypes' /\ sending[i] \in Lists
  BY <1>1, <1>2, SendingShrinks DEF SendingTypes
<1>5. SenderTypes'
  <2>1. nacks' \in Seq(Lists)
    BY <1>1, <1>2, <1>4 DEF SenderTypes
  <2> QED
    BY <1>1, <1>2, <2>1 DEF SenderTypes, sender
<1>6. ASSUME NEW s \in DOMAIN lost
      PROVE  /\ lost[s] \in 1..MaxRetries /\ times[s] \in Nat
             /\ lost[s] + Cardinality(Unaware(sending', s)) <= times[s] + MaxSends
             /\ Cardinality(Unaware(sending', s)) \in Nat
  <2> DEFINE before == Cardinality(Unaware(sending, s))
             after  == Cardinality(Unaware(sending', s))
  <2>1. /\ lost[s] \in 1..MaxRetries /\ asked[s] \in Nat
        /\ times[s] = IF s \in ToSet(sending[i]) THEN asked[s] + 1 ELSE asked[s]
    BY <1>1 DEF HandlerTypes
  <2>2. before \in Nat /\ after \in Nat
    BY <1>1, <1>4, UnawareIsFinite DEF SendingTypes
  <2>3. after <= before - (IF s \in ToSet(sending[i]) THEN 0 ELSE 1)
    BY <1>1, <1>2, UnawareRemoved DEF SendingTypes
  <2>4. lost[s] - 1 + before <= asked[s] + MaxSends
    BY <1>1 DEF Counted
  <2> HIDE DEF before, after, times
  <2>5. times[s] \in Nat /\ lost[s] + after <= times[s] + MaxSends
    <3>1. CASE s \in ToSet(sending[i])
      BY <2>1, <2>2, <2>3, <2>4, <3>1, Sizes
    <3>2. CASE s \notin ToSet(sending[i])
      BY <2>1, <2>2, <2>3, <2>4, <3>2, Sizes
    <3> QED
      BY <3>1, <3>2
  <2> QED
    BY <2>1, <2>2, <2>5 DEF after
<1> HIDE DEF times
<1>7. DOMAIN lost' = kept /\ kept \in SUBSET DOMAIN lost
  BY <1>3
<1>8. HandlerTypes'
  <2>1. timer' \in BOOLEAN
    BY Zenon, <1>3
  <2>2. \A s \in kept : lost[s] + 1 \in 1..MaxRetries /\ times[s] \in Nat
    BY <1>6, Sizes DEF Spent
  <2>3. lost' \in [kept -> 1..MaxRetries] /\ asked' \in [kept -> Nat]
    BY <1>3, <2>2
  <2> QED
    BY <1>1, <1>2, <1>7, <2>1, <2>3 DEF HandlerTypes
<1>9. Timed'
  BY <1>1, <1>3, <1>7 DEF Timed
<1>10. Limited'
  <2>1. /\ Cardinality(kept) <= Cardinality(DOMAIN lost) /\ Cardinality(kept) \in Nat
        /\ Cardinality(DOMAIN lost) \in Nat
    BY <1>1, <1>7, SeqsAreFinite, FS_Subset DEF HandlerTypes
  <2> HIDE DEF kept
  <2> QED
    BY <1>1, <1>7, <2>1, Sizes DEF Limited
<1>11. Counted'
  <2>1. ASSUME NEW s \in kept
        PROVE  lost'[s] - 1 + Cardinality(Unaware(sending', s)) <= asked'[s] + MaxSends
    <3>1. lost'[s] = lost[s] + 1 /\ asked'[s] = times[s] /\ s \in DOMAIN lost
      BY <1>3
    <3> QED
      BY <1>6, <3>1
  <2> QED
    BY <1>7, <2>1 DEF Counted
<1>12. Anchored'
  BY <1>1, <1>2, <1>7, AnchoredKept
<1>13. AskedBeforeGivenUp'
  <2>1. ASSUME NEW s \in DOMAIN lost \ kept
        PROVE  times[s] >= MaxRetries - MaxSends
    BY <1>6, Sizes DEF Spent
  <2> HIDE DEF kept
  <2> QED
    BY <1>1, <1>3, <2>1 DEF AskedBeforeGivenUp
<1> QED
  BY <1>4, <1>5, <1>8, <1>9, <1>10, <1>11, <1>12, <1>13 DEF RecoveryInv, ReceiverInv, ListInv

LEMMA SendThrowsKeeps ==
  ASSUME RecoveryInv, NEW i \in DOMAIN sending, SendThrows(i)
  PROVE  RecoveryInv'
<1>1. /\ SenderTypes /\ ListInv /\ HandlerTypes /\ Timed /\ Limited /\ Counted /\ SendingTypes
      /\ Anchored /\ AskedBeforeGivenUp
  BY DEF RecoveryInv, ReceiverInv, ListInv
<1>2. /\ sending' = RemoveAt(sending, i) /\ failures' \in 0..MaxFailures
      /\ UNCHANGED <<sender, network, resent, nacks, expected, lost, timer, closed, received, asked,
                     gaveUp, anchored>>
  BY <1>1, Sizes DEF SendThrows, SendingTypes, history
<1>3. SenderTypes' /\ SendingTypes' /\ Anchored' /\ AskedBeforeGivenUp'
  BY <1>1, <1>2, SendingShrinks, AnchoredKept DEF SenderTypes, sender, AskedBeforeGivenUp
<1>4. HandlerTypes' /\ Timed' /\ Limited'
  BY <1>1, <1>2 DEF HandlerTypes, Timed, Limited
<1>5. Counted'
  <2>1. ASSUME NEW s \in DOMAIN lost
        PROVE  lost[s] - 1 + Cardinality(Unaware(sending', s)) <= asked[s] + MaxSends
    <3> DEFINE before == Cardinality(Unaware(sending, s))
               after  == Cardinality(Unaware(sending', s))
    <3>1. before \in Nat /\ after \in Nat
      BY <1>1, <1>3, UnawareIsFinite DEF SendingTypes
    <3>2. after <= before - (IF s \in ToSet(sending[i]) THEN 0 ELSE 1)
      BY <1>1, <1>2, UnawareRemoved DEF SendingTypes
    <3>3. lost[s] - 1 + before <= asked[s] + MaxSends /\ lost[s] \in Int /\ asked[s] \in Int
      BY <1>1 DEF Counted, HandlerTypes
    <3> HIDE DEF before, after
    <3>4. after <= before
      BY <3>1, <3>2
    <3>5. lost[s] - 1 + after <= asked[s] + MaxSends
      BY <3>1, <3>3, <3>4, Sizes
    <3> QED
      BY <3>5 DEF after
  <2> QED
    BY <1>2, <2>1 DEF Counted
<1> QED
  BY <1>3, <1>4, <1>5 DEF RecoveryInv, ReceiverInv, ListInv

LEMMA CloseKeeps == ASSUME RecoveryInv, Close  PROVE  RecoveryInv'
<1>1. SenderTypes /\ HandlerTypes /\ SendingTypes /\ AskedBeforeGivenUp
  BY DEF RecoveryInv, ReceiverInv, ListInv
<1>2. /\ closed' = TRUE /\ timer' = FALSE /\ lost' = Empty /\ asked' = Empty
      /\ UNCHANGED <<sender, network, resent, nacks, expected, sending, failures, received, gaveUp, anchored>>
  BY DEF Close
<1>3. DOMAIN lost' = {} /\ DOMAIN asked' = {}
  BY <1>2 DEF Empty
<1>4. SenderTypes' /\ SendingTypes' /\ AskedBeforeGivenUp'
  BY <1>1, <1>2, SendingKept DEF SenderTypes, sender, AskedBeforeGivenUp
<1>5. HandlerTypes'
  <2>1. lost' \in [{} -> 1..MaxRetries] /\ asked' \in [{} -> Nat]
    BY <1>2 DEF Empty
  <2> QED
    BY <1>1, <1>2, <1>3, <2>1 DEF HandlerTypes
<1>6. Timed' /\ Limited' /\ Counted' /\ Anchored'
  BY <1>2, <1>3, FS_EmptySet, Sizes DEF Timed, Limited, Counted, Anchored
<1> QED
  BY <1>4, <1>5, <1>6 DEF RecoveryInv, ReceiverInv, ListInv

-----------------------------------------------------------------------------
(* The theorems *)

LEMMA InitiallyInv == Init => RecoveryInv
<1> SUFFICES ASSUME Init
             PROVE  RecoveryInv
  OBVIOUS
<1>1. DOMAIN lost = {} /\ lost = Empty /\ asked = Empty /\ sending = << >> /\ gaveUp = {}
  BY DEF Init, Empty
<1>2. SenderTypes
  BY Sizes DEF Init, SenderTypes
<1>3. HandlerTypes
  <2>1. lost \in [{} -> 1..MaxRetries] /\ asked \in [{} -> Nat]
    BY <1>1 DEF Empty
  <2>2. timer \in BOOLEAN /\ closed \in BOOLEAN
    BY Zenon DEF Init
  <2> QED
    BY <1>1, <2>1, <2>2, Sizes DEF Init, HandlerTypes, Seqs
<1>4. SendingTypes
  BY Sizes DEF Init, SendingTypes
<1>5. Timed /\ Limited /\ Counted /\ Anchored /\ AskedBeforeGivenUp
  BY <1>1, FS_EmptySet, Sizes DEF Init, Timed, Limited, Counted, Anchored, AskedBeforeGivenUp
<1> QED
  BY <1>2, <1>3, <1>4, <1>5 DEF RecoveryInv, ReceiverInv, ListInv

LEMMA StutterKeeps == ASSUME RecoveryInv, UNCHANGED vars  PROVE  RecoveryInv'
<1>1. SenderTypes'
  BY DEF RecoveryInv, SenderTypes, vars, sender
<1> QED
  BY <1>1, ReceiverKept DEF RecoveryInv, vars

LEMMA InvKept == ASSUME RecoveryInv, [Next]_vars  PROVE  RecoveryInv'
<1>1. CASE UNCHANGED vars
  BY <1>1, StutterKeeps
<1>2. CASE Next
  BY <1>2, SendRtpKeeps, LoseKeeps, ReceiveRtpKeeps, SendNackKeeps, NackSentKeeps, CloseKeeps,
     RetransmitKeeps, SendThrowsKeeps
  DEF Next, AwaitEnds
<1> QED
  BY <1>1, <1>2

LEMMA AlwaysInv == Spec => []RecoveryInv
<1>1. Init => RecoveryInv
  BY InitiallyInv
<1>2. RecoveryInv /\ [Next]_vars => RecoveryInv'
  BY InvKept
<1> QED
  BY <1>1, <1>2, PTL DEF Spec

\* The variables of the sender and of the NackHandler have their types; in particular no
\* retry count exceeds the limit.
THEOREM RecoveryTypes == Spec => []TypeOK
<1>1. ASSUME RecoveryInv
      PROVE  TypeOK
  <2>1. SenderTypes /\ HandlerTypes /\ SendingTypes
    BY <1>1 DEF RecoveryInv, ReceiverInv, ListInv
  <2>2. ASSUME NEW i \in DOMAIN nacks
        PROVE  nacks[i] # << >> /\ ToSet(nacks[i]) \subseteq Seqs
    <3>1. nacks[i] \in Seq(Seqs) /\ nacks[i] # << >>
      BY <2>1 DEF SenderTypes, Lists
    <3>2. \A k \in DOMAIN nacks[i] : nacks[i][k] \in Seqs
      BY <3>1
    <3> QED
      BY Zenon, <3>1, <3>2 DEF ToSet
  <2> QED
    BY <2>1, <2>2 DEF SenderTypes, HandlerTypes, SendingTypes, TypeOK
<1> QED
  BY <1>1, AlwaysInv, PTL

\* The timer of the NackHandler runs exactly while its list is not empty, whatever is lost,
\* recovered, pruned, given up or closed while NACKs are being sent.
THEOREM AlwaysTimed == Spec => []LossIsTimed
<1>1. RecoveryInv => LossIsTimed
  <2>1. ASSUME HandlerTypes
        PROVE  lost = Empty <=> DOMAIN lost = {}
    BY <2>1 DEF HandlerTypes, Empty
  <2> QED
    BY <2>1 DEF RecoveryInv, ReceiverInv, ListInv, Timed, LossIsTimed
<1> QED
  BY <1>1, AlwaysInv, PTL

\* For any limits: a packet is given up only after MaxRetries NACKs, of which all but those
\* being sent when the loss was noticed asked for it.
THEOREM AlwaysAsked == Spec => []AskedBeforeGivenUp
<1>1. RecoveryInv => AskedBeforeGivenUp
  BY DEF RecoveryInv, ReceiverInv
<1> QED
  BY <1>1, AlwaysInv, PTL

\* For any sequence number space and any number of packets less than half of it: nothing
\* that has arrived is asked for, and the list stays within its limit.
THEOREM AlwaysMissing == Spec => []OnlyMissingIsLost
<1>1. ASSUME RecoveryInv
      PROVE  OnlyMissingIsLost
  <2>1. HandlerTypes /\ Limited /\ Anchored
    BY <1>1 DEF RecoveryInv, ReceiverInv, ListInv
  <2>2. ASSUME anchored <= 1, NEW number \in received, SeqNum(number) \in DOMAIN lost
        PROVE  FALSE
    <3>1. anchored = 1 /\ ~closed
      BY <2>1, <2>2 DEF HandlerTypes, Anchored
    <3>2. PICK E \in received : Latest(E)
      BY <2>1, <3>1 DEF Anchored
    <3>3. PICK m \in Numbers \ received : SeqNum(number) = SeqNum(m)
      BY <2>2, <3>2 DEF Latest
    <3>4. number \in Numbers /\ E \in Numbers /\ expected = SeqNum(E)
      BY <2>1, <2>2, <3>2 DEF HandlerTypes, Latest
    <3>5. number = m
      BY <3>3, <3>4, ArrivalFacts
    <3> QED
      BY <2>2, <3>3, <3>5
  <2> QED
    BY <2>1, <2>2 DEF OnlyMissingIsLost, Limited
<1> QED
  BY <1>1, AlwaysInv, PTL
=============================================================================
