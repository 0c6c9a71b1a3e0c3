-------------------------- MODULE SrtpSessionProofs --------------------------
(***************************************************************************)
(* SrtpSession for any protection profiles, any number of packets and      *)
(* reports, and any sizes of the sequence number space and of the SRTCP    *)
(* index.  The rollover counters of the two ends are read off the newest   *)
(* packet each has met, an SRTCP packet off its place among those of its   *)
(* end, and what arrives under "gcm" is a behaviour of ReplayWindow, whose *)
(* window and highest sequence number are tied to the packets accepted.    *)
(***************************************************************************)
EXTENDS SrtpSession, FiniteSetTheorems, TLAPS

-----------------------------------------------------------------------------
(* Remainders *)

\* A remainder is recognised by its quotient.
LEMMA Remainder ==
  ASSUME NEW m \in Nat \ {0}, NEW a \in Int, NEW r \in 0..(m - 1), NEW q \in Int, a = m * q + r
  PROVE  a % m = r
  OBVIOUS

LEMMA RemainderRange ==
  ASSUME NEW m \in Nat \ {0}, NEW a \in Int
  PROVE  a % m \in 0..(m - 1)
  OBVIOUS

LEMMA Distribute ==
  ASSUME NEW m \in Int, NEW x \in Int, NEW y \in Int, NEW z \in Int
  PROVE  m * (x - y + z) = m * x - m * y + m * z
  OBVIOUS

\* The difference of two remainders has the remainder of the difference.
LEMMA DifferenceOfRemainders ==
  ASSUME NEW m \in Nat \ {0}, NEW a \in Int, NEW b \in Int
  PROVE  ((a % m) - (b % m)) % m = (a - b) % m
<1> DEFINE qa == a \div m
           ra == a % m
           qb == b \div m
           rb == b % m
           c  == ra - rb
           qc == c \div m
           rc == c % m
<1>1. /\ a = m * qa + ra /\ qa \in Int /\ ra \in Int
      /\ b = m * qb + rb /\ qb \in Int /\ rb \in Int
  OBVIOUS
<1>2. c \in Int /\ qc \in Int /\ c = m * qc + rc /\ rc \in 0..(m - 1)
  BY <1>1
<1>3. c = ra - rb
  OBVIOUS
<1> HIDE DEF qa, ra, qb, rb, c, qc, rc
<1>4. m * (qa - qb + qc) = m * qa - m * qb + m * qc
  BY <1>1, <1>2, Distribute
<1>5. /\ m * qa \in Int /\ m * qb \in Int /\ m * qc \in Int /\ rc \in Int
      /\ qa - qb + qc \in Int
  BY <1>1, <1>2
<1>6. a - b = m * (qa - qb + qc) + rc
  BY <1>1, <1>2, <1>3, <1>4, <1>5
<1>7. \E q \in Int : a - b = m * q + rc
  BY <1>5, <1>6
<1>8. (a - b) % m = rc
  BY <1>2, <1>7, Remainder, a - b \in Int
<1> QED
  BY <1>8, <1>3 DEF rc, ra, rb

\* Less than a whole space away from zero, a number is its remainder or one
\* space less.
LEMMA SmallRemainder ==
  ASSUME NEW m \in Nat \ {0}, NEW d \in (-m)..(m - 1)
  PROVE  d % m = IF d >= 0 THEN d ELSE d + m
<1>1. CASE d >= 0
  BY <1>1, Remainder, d = m * 0 + d
<1>2. CASE d < 0
  BY <1>2, Remainder, d = m * (-1) + (d + m)
<1> QED
  BY <1>1, <1>2

-----------------------------------------------------------------------------
(* Sequence numbers *)

LEMMA Sizes == SeqModulo \in Nat \ {0} /\ SeqModulo = 2 * Half /\ Half \in Nat \ {0}
  BY WindowAssumption DEF SeqModulo

LEMMA SequenceRange ==
  ASSUME NEW number \in Int
  PROVE  Sequence(number) \in 0..(SeqModulo - 1)
  BY Sizes, RemainderRange DEF Sequence

\* Of two packets less than half the space apart, the difference of the
\* sequence numbers is the difference of the numbers, whatever wrapped.
LEMMA DeltaIsDifference ==
  ASSUME NEW n \in Int, NEW h \in Int, n - h \in (-Half)..(Half - 1)
  PROVE  SequenceDelta(Sequence(n), Sequence(h)) = n - h
<1>1. (Sequence(n) - Sequence(h)) % SeqModulo = (n - h) % SeqModulo
  BY Sizes, DifferenceOfRemainders DEF Sequence
<1>2. n - h \in (-SeqModulo)..(SeqModulo - 1)
  BY Sizes
<1>3. (n - h) % SeqModulo = IF n - h >= 0 THEN n - h ELSE n - h + SeqModulo
  BY <1>2, Sizes, SmallRemainder
<1> QED
  BY <1>1, <1>3, Sizes DEF SequenceDelta

-----------------------------------------------------------------------------
(* The window *)

\* The packets whose bit is set: those accepted among the last WindowSize.
Kept(top, numbers) == {top - number : number \in {n \in numbers : top - n < WindowSize}}

LEMMA KeptIsWindow == WindowIsExact => window = Kept(newest, taken)
  BY DEF WindowIsExact, Kept

LEMMA KeptMember ==
  ASSUME NEW top \in Nat, NEW numbers \in SUBSET Nat, NEW bit
  PROVE  bit \in Kept(top, numbers) <=>
           bit \in Int /\ bit < WindowSize /\ top - bit \in numbers
<1>1. ASSUME bit \in Kept(top, numbers)
      PROVE  bit \in Int /\ bit < WindowSize /\ top - bit \in numbers
  <2>1. PICK number \in numbers : top - number < WindowSize /\ bit = top - number
    BY <1>1 DEF Kept
  <2>2. number \in Nat /\ top - bit = number
    BY <2>1
  <2> QED
    BY <2>1, <2>2
<1>2. ASSUME bit \in Int, bit < WindowSize, top - bit \in numbers
      PROVE  bit \in Kept(top, numbers)
  <2>1. bit = top - (top - bit) /\ top - (top - bit) < WindowSize
    BY <1>2
  <2> QED
    BY <1>2, <2>1 DEF Kept
<1> QED
  BY <1>1, <1>2

\* A packet ahead of the others shifts the window and sets its first bit.
LEMMA KeptAhead ==
  ASSUME NEW top \in Nat, NEW numbers \in SUBSET Nat, \A number \in numbers : number <= top,
         NEW n \in Nat, n > top
  PROVE  Kept(n, numbers \cup {n}) =
           {0} \cup ({bit + (n - top) : bit \in Kept(top, numbers)} \cap (0..(WindowSize - 1)))
<1> DEFINE Shifted == {bit + (n - top) : bit \in Kept(top, numbers)}
<1>1. ASSUME NEW b \in Kept(n, numbers \cup {n}), b # 0
      PROVE  b \in Shifted \cap (0..(WindowSize - 1))
  <2>1. b \in Int /\ b < WindowSize /\ n - b \in numbers \cup {n}
    BY <1>1, KeptMember
  <2>2. n - b \in numbers /\ n - b <= top
    BY <1>1, <2>1
  <2>3. b - (n - top) \in Int /\ b - (n - top) < WindowSize /\ top - (b - (n - top)) = n - b
    BY <2>1, WindowAssumption
  <2>4. b - (n - top) \in Kept(top, numbers)
    BY <2>2, <2>3, KeptMember
  <2>5. b = (b - (n - top)) + (n - top)
    BY <2>1
  <2> QED
    BY <2>1, <2>2, <2>4, <2>5, WindowAssumption
<1>2. 0 \in Kept(n, numbers \cup {n})
  BY KeptMember, WindowAssumption
<1>3. ASSUME NEW b \in Shifted \cap (0..(WindowSize - 1))
      PROVE  b \in Kept(n, numbers \cup {n})
  <2>1. PICK bit \in Kept(top, numbers) : b = bit + (n - top)
    BY <1>3
  <2>2. bit \in Int /\ top - bit \in numbers
    BY KeptMember
  <2>3. n - b = top - bit /\ b \in Int /\ b < WindowSize
    BY <1>3, <2>1, <2>2, WindowAssumption
  <2> QED
    BY <2>2, <2>3, KeptMember
<1> QED
  BY <1>1, <1>2, <1>3

\* A packet behind the newest sets its own bit.
LEMMA KeptBehind ==
  ASSUME NEW top \in Nat, NEW numbers \in SUBSET Nat, NEW n \in Nat, top - n < WindowSize
  PROVE  Kept(top, numbers \cup {n}) = Kept(top, numbers) \cup {top - n}
  BY DEF Kept

\* What the window and the newest packet are when any packet was accepted.
WindowInv == WindowTypeOK /\ WindowIsExact /\ (initialized <=> taken # {})

LEMMA WindowInvInit == WindowInit => WindowInv
<1> SUFFICES ASSUME WindowInit PROVE WindowInv
  OBVIOUS
<1>1. 0 = Sequence(0)
  BY Sizes, Remainder, 0 = SeqModulo * 0 + 0 DEF Sequence
<1>2. WindowTypeOK
  <2>1. 0 \in 0..(SeqModulo - 1)
    BY Sizes
  <2> QED
    BY <2>1 DEF WindowInit, WindowTypeOK
<1>3. {newest - number : number \in {n \in taken : newest - n < WindowSize}} = {}
  BY DEF WindowInit
<1> QED
  BY <1>1, <1>2, <1>3 DEF WindowInit, WindowInv, WindowIsExact

LEMMA AcceptFirst ==
  ASSUME WindowInv, ~initialized, NEW n \in Nat, Accept(n)
  PROVE  WindowInv'
<1>1. taken = {} /\ taken' = {n} /\ newest' = n /\ highest' = Sequence(n) /\ window' = {0}
      /\ initialized' = TRUE
  BY DEF WindowInv, Accept, WindowTypeOK
<1>2. WindowTypeOK'
  BY <1>1, SequenceRange, WindowAssumption DEF WindowTypeOK
<1>3. WindowIsExact'
  BY <1>1, WindowAssumption DEF WindowIsExact
<1> QED
  BY <1>1, <1>2, <1>3 DEF WindowInv

\* The difference that check() computes is the one of the packets' numbers.
LEMMA DeltaInTime ==
  ASSUME WindowInv, initialized, NEW n \in Int, n - newest \in (-Half)..(Half - 1)
  PROVE  SequenceDelta(Sequence(n), highest) = n - newest
  BY DeltaIsDifference DEF WindowInv, WindowTypeOK, WindowIsExact

LEMMA AcceptAhead ==
  ASSUME WindowInv, initialized, NEW n \in Nat, InTime(n), Accept(n), n > newest
  PROVE  WindowInv'
<1>1. SequenceDelta(Sequence(n), highest) = n - newest
  BY DeltaInTime DEF InTime
<1>2. newest \in Nat /\ n - newest > 0 /\ taken \in SUBSET Nat
  BY DEF WindowInv, WindowTypeOK
<1>3. /\ taken' = taken \cup {n} /\ newest' = n /\ highest' = Sequence(n) /\ initialized' = TRUE
      /\ window' = {0} \cup ({bit + (n - newest) : bit \in window} \cap (0..(WindowSize - 1)))
  BY <1>1, <1>2 DEF Accept, Mark
<1>4. \A number \in taken : number <= newest
  BY DEF WindowInv, WindowIsExact
<1>5. window' = Kept(n, taken \cup {n})
  BY <1>2, <1>3, <1>4, KeptAhead, KeptIsWindow DEF WindowInv
<1>6. WindowTypeOK'
  <2>1. window' \subseteq 0..(WindowSize - 1)
    BY <1>3, WindowAssumption
  <2>2. highest' \in 0..(SeqModulo - 1)
    BY <1>3, SequenceRange
  <2> QED
    BY <2>1, <2>2, <1>2, <1>3 DEF WindowTypeOK
<1>7. WindowIsExact'
  <2>1. highest' = Sequence(newest')
    BY <1>3
  <2>2. \A number \in taken' : number <= newest'
    BY <1>2, <1>3, <1>4
  <2>3. window' = {newest' - number : number \in {m \in taken' : newest' - m < WindowSize}}
    BY <1>3, <1>5 DEF Kept
  <2>4. newest' \in taken'
    BY <1>3
  <2> QED
    BY <2>1, <2>2, <2>3, <2>4 DEF WindowIsExact
<1> QED
  BY <1>3, <1>6, <1>7 DEF WindowInv

LEMMA AcceptBehind ==
  ASSUME WindowInv, initialized, NEW n \in Nat, InTime(n), Accept(n), n <= newest
  PROVE  WindowInv'
<1>1. SequenceDelta(Sequence(n), highest) = n - newest
  BY DeltaInTime DEF InTime
<1>2. newest \in Nat /\ ~(n - newest > 0) /\ taken \in SUBSET Nat
  BY DEF WindowInv, WindowTypeOK
<1>3. /\ taken' = taken \cup {n} /\ newest' = newest /\ highest' = highest /\ initialized' = TRUE
      /\ window' = window \cup {newest - n} /\ newest - n \in 1..(WindowSize - 1)
  BY <1>1, <1>2, WindowAssumption DEF Accept, Mark, Fresh
<1>4. /\ \A number \in taken : number <= newest
      /\ newest \in taken /\ highest = Sequence(newest)
  BY DEF WindowInv, WindowIsExact
<1>5. window' = Kept(newest, taken \cup {n})
  <2>1. newest - n < WindowSize
    BY <1>2, <1>3, WindowAssumption
  <2>2. window = Kept(newest, taken)
    BY KeptIsWindow DEF WindowInv
  <2> QED
    BY <1>2, <1>3, <2>1, <2>2, KeptBehind
<1>6. WindowTypeOK'
  BY <1>2, <1>3 DEF WindowTypeOK, WindowInv
<1>7. WindowIsExact'
  BY <1>2, <1>3, <1>4, <1>5 DEF WindowIsExact, Kept
<1> QED
  BY <1>3, <1>6, <1>7 DEF WindowInv

LEMMA WindowInvNext == WindowInv /\ [WindowNext]_windowVars => WindowInv'
<1> SUFFICES ASSUME WindowInv, [WindowNext]_windowVars PROVE WindowInv'
  OBVIOUS
<1>1. CASE UNCHANGED windowVars
  BY <1>1 DEF windowVars, WindowInv, WindowTypeOK, WindowIsExact
<1>2. CASE WindowNext
  <2>1. PICK n \in Nat : InTime(n) /\ (Accept(n) \/ Refuse(n))
    BY <1>2 DEF WindowNext
  <2>2. CASE Refuse(n)
    BY <1>1, <2>2 DEF Refuse
  <2>3. CASE Accept(n)
    <3>1. n <= newest \/ n > newest
      BY DEF WindowInv, WindowTypeOK
    <3> QED
      BY <2>1, <2>3, <3>1, AcceptFirst, AcceptAhead, AcceptBehind
  <2> QED
    BY <2>1, <2>2, <2>3
<1> QED
  BY <1>1, <1>2

-----------------------------------------------------------------------------
\* Whatever arrives within half the space, the window and the highest sequence
\* number say which of the last packets were accepted.
THEOREM WindowIsExactAlways == WindowSpec => [](WindowTypeOK /\ WindowIsExact)
<1>1. WindowInv => WindowTypeOK /\ WindowIsExact
  BY DEF WindowInv
<1> QED
  BY WindowInvInit, WindowInvNext, <1>1, PTL DEF WindowSpec

LEMMA WindowInvImpliesFresh == WindowInv => AcceptsExactlyFresh
<1> SUFFICES ASSUME WindowInv, initialized,
                    NEW n \in (newest - Half)..(newest + Half - 1)
             PROVE  Fresh(SequenceDelta(Sequence(n), highest)) <=>
                      n > newest - WindowSize /\ n \notin taken
  BY DEF AcceptsExactlyFresh
<1>1. newest \in Nat /\ taken \subseteq Nat /\ n \in Int /\ Half \in Nat /\ WindowSize \in Nat
  BY WindowAssumption DEF WindowInv, WindowTypeOK
<1>2. SequenceDelta(Sequence(n), highest) = n - newest
  BY <1>1, DeltaInTime
<1>3. newest \in taken /\ \A number \in taken : number <= newest
  BY DEF WindowInv, WindowIsExact
<1>4. CASE n > newest
  BY <1>1, <1>2, <1>3, <1>4, WindowAssumption DEF Fresh
<1>5. CASE n = newest
  BY <1>1, <1>2, <1>3, <1>5 DEF Fresh
<1>6. CASE n < newest
  <2>1. -(n - newest) = newest - n /\ newest - n >= 1 /\ newest - n \in Int
    BY <1>1, <1>6
  <2>2. ASSUME newest - n < WindowSize PROVE newest - n \in window <=> n \in taken
    BY <1>1, <2>1, <2>2 DEF WindowInv, WindowIsExact
  <2> QED
    BY <1>1, <1>2, <1>6, <2>1, <2>2 DEF Fresh
<1> QED
  BY <1>1, <1>4, <1>5, <1>6

\* check() accepts a packet that may arrive exactly when it is within the window
\* or ahead of it and was not accepted before.
THEOREM AcceptsExactlyFreshAlways == WindowSpec => []AcceptsExactlyFresh
  BY WindowInvInit, WindowInvNext, WindowInvImpliesFresh, PTL DEF WindowSpec

-----------------------------------------------------------------------------
(* Rollover counters *)

Counter(roc, seq, first) == [roc |-> roc, highest |-> seq, first |-> first]

\* The counter of an end whose newest packet is n.
CounterAt(n) == Counter(Rollover(n), Sequence(n), FALSE)

LEMMA Division ==
  ASSUME NEW m \in Nat \ {0}, NEW a \in Int
  PROVE  a = m * (a \div m) + (a % m) /\ a \div m \in Int /\ a % m \in 0..(m - 1)
  OBVIOUS

LEMMA NumberParts ==
  ASSUME NEW n \in Nat
  PROVE  /\ n = SeqModulo * Rollover(n) + Sequence(n) /\ Rollover(n) \in Nat
         /\ Sequence(n) \in 0..(SeqModulo - 1)
<1>1. /\ n = SeqModulo * Rollover(n) + Sequence(n) /\ Rollover(n) \in Int
      /\ Sequence(n) \in 0..(SeqModulo - 1)
  <2>1. SeqModulo \in Nat \ {0} /\ n \in Int
    BY Sizes
  <2> QED
    BY <2>1, Division DEF Rollover, Sequence
<1>2. Rollover(n) >= 0
  <2> DEFINE q == Rollover(n)
             r == Sequence(n)
  <2>1. n = SeqModulo * q + r /\ q \in Int /\ r \in 0..(SeqModulo - 1) /\ n >= 0
    BY <1>1
  <2> HIDE DEF q, r
  <2>2. SUFFICES ASSUME q <= -1 PROVE FALSE
    BY <2>1 DEF q
  <2>3. SeqModulo * q <= SeqModulo * (-1)
    <3>1. \A a \in Nat, b \in Int : b <= -1 => a * b <= a * (-1)
      OBVIOUS
    <3> QED
      BY <3>1, <2>1, <2>2, Sizes
  <2> QED
    BY <2>1, <2>3, Sizes
<1> QED
  BY <1>1, <1>2

\* Between two packets less than a space apart there is at most one rollover.
LEMMA RolloverStep ==
  ASSUME NEW n \in Nat, NEW h \in Nat, n - h \in (-Half)..(Half - 1), Rollover(n) >= Rollover(h)
  PROVE  \/ Rollover(n) = Rollover(h) /\ Sequence(n) - Sequence(h) = n - h
         \/ /\ Rollover(n) = Rollover(h) + 1 /\ Sequence(n) - Sequence(h) = n - h - SeqModulo
            /\ n > h
<1> DEFINE m == SeqModulo
           a == Rollover(n)
           b == Rollover(h)
           s == Sequence(n)
           t == Sequence(h)
<1>1. /\ n = m * a + s /\ h = m * b + t /\ a \in Nat /\ b \in Nat
      /\ s \in 0..(m - 1) /\ t \in 0..(m - 1) /\ m = 2 * Half /\ Half \in Nat \ {0} /\ a >= b
  BY NumberParts, Sizes
<1> HIDE DEF m, a, b, s, t
<1>2. m \in Nat /\ m * a \in Int /\ m * b \in Int
  BY <1>1
<1>3. CASE a = b
  <2>1. s - t = n - h
    BY <1>1, <1>2, <1>3
  <2> QED
    BY <1>3, <2>1 DEF a, b, s, t
<1>4. CASE a = b + 1
  <2>1. m * a = m * b + m
    BY <1>1, <1>2, <1>4
  <2>2. s - t = n - h - m /\ n > h
    BY <1>1, <1>2, <2>1
  <2> QED
    BY <1>4, <2>2 DEF a, b, s, t, m
<1>5. CASE a >= b + 2
  <2>1. m * a >= m * b + 2 * m
    <3>1. \A x, y, z \in Nat : y >= z + 2 => x * y >= x * z + 2 * x
      <4> TAKE x, y, z \in Nat
      <4>1. ASSUME y >= z + 2 PROVE x * y >= x * z + 2 * x
        <5> DEFINE d == y - (z + 2)
        <5>1. d \in Nat /\ y = z + 2 + d
          BY <4>1
        <5> HIDE DEF d
        <5>2. x * y = x * z + 2 * x + x * d /\ x * d \in Nat
          BY <5>1
        <5>3. x * z \in Nat /\ x * y \in Nat /\ 2 * x \in Nat
          OBVIOUS
        <5> QED
          BY <5>2, <5>3
      <4> QED
        BY <4>1
    <3> QED
      BY <3>1, <1>1, <1>2, <1>5
  <2> QED
    BY <1>1, <1>2, <2>1
<1> QED
  BY <1>1, <1>3, <1>4, <1>5

\* What _updateRolloverCounter makes of a counter.
LEMMA UpdatedCounter ==
  ASSUME NEW r \in Nat, NEW h \in Nat, NEW f \in BOOLEAN, NEW seq \in Nat
  PROVE  UpdateRolloverCounter(Counter(r, h, f), seq) =
           IF f \/ seq - h > 0 THEN Counter(r, seq, FALSE)
           ELSE IF seq - h < -Half THEN Counter(r + 1, seq, f) ELSE Counter(r, h, f)
<1> DEFINE c == Counter(r, h, f)
           moved == Counter(r, seq, f)
<1>1. c.roc = r /\ c.highest = h
  BY DEF Counter
<1>2. c.first = f
  BY Zenon DEF Counter
<1>3. [c EXCEPT !.highest = seq] = moved
  BY DEF Counter
<1>4. [c EXCEPT !.highest = seq, !.first = FALSE] = [moved EXCEPT !.first = FALSE]
  <2>1. [c EXCEPT !.highest = seq, !.first = FALSE] =
          [[c EXCEPT !.highest = seq] EXCEPT !.first = FALSE]
    OBVIOUS
  <2> QED
    BY <2>1, <1>3, Zenon
<1>5. [c EXCEPT !.highest = seq, !.roc = @ + 1] = [moved EXCEPT !.roc = @ + 1]
  <2>1. [c EXCEPT !.highest = seq, !.roc = @ + 1] =
          [[c EXCEPT !.highest = seq] EXCEPT !.roc = @ + 1]
    BY DEF Counter
  <2> QED
    BY <2>1, <1>3, Zenon
<1>6. [moved EXCEPT !.first = FALSE] = Counter(r, seq, FALSE)
  <2>1. \A g : [moved EXCEPT !.first = g] = Counter(r, seq, g)
    BY DEF Counter
  <2> QED
    BY <2>1, Zenon
<1>7. [moved EXCEPT !.roc = @ + 1] = Counter(r + 1, seq, f)
  BY DEF Counter
<1> HIDE DEF c, moved
<1>8. UpdateRolloverCounter(c, seq) =
        IF f \/ seq - h > 0 THEN [c EXCEPT !.highest = seq, !.first = FALSE]
        ELSE IF seq - h < -Half THEN [c EXCEPT !.highest = seq, !.roc = @ + 1] ELSE c
  BY <1>1, <1>2, Zenon DEF UpdateRolloverCounter
<1> QED
  BY <1>4, <1>5, <1>6, <1>7, <1>8, Zenon DEF c

\* A counter that stands at a packet follows the next one to meet it, unless that is of an
\* earlier rollover.
LEMMA CounterFollows ==
  ASSUME NEW n \in Nat, NEW h \in Nat, n - h \in (-Half)..(Half - 1), Rollover(n) >= Rollover(h)
  PROVE  /\ UpdateRolloverCounter(CounterAt(h), Sequence(n)) = CounterAt(IF n > h THEN n ELSE h)
         /\ Rollover(IF n > h THEN n ELSE h) = Rollover(n)
<1> DEFINE d == Sequence(n) - Sequence(h)
           c == CounterAt(h)
<1>1. /\ Sequence(n) \in Int /\ Sequence(h) \in Int /\ d \in Int
      /\ Half \in Nat \ {0} /\ SeqModulo = 2 * Half
  BY NumberParts, Sizes
<1>2. Rollover(h) \in Nat /\ Sequence(h) \in Nat /\ Sequence(n) \in Nat
  BY NumberParts, Sizes
<1>3. UpdateRolloverCounter(c, Sequence(n)) =
        IF d > 0 THEN Counter(Rollover(h), Sequence(n), FALSE)
        ELSE IF d < -Half THEN Counter(Rollover(h) + 1, Sequence(n), FALSE)
             ELSE CounterAt(h)
  BY <1>2, UpdatedCounter, FALSE \in BOOLEAN, Zenon DEF CounterAt
<1> HIDE DEF d, c
<1>4. CASE Rollover(n) = Rollover(h) /\ d = n - h
  <2>1. CASE n > h
    <3>1. d > 0
      BY <1>4, <2>1
    <3> QED
      BY <1>3, <1>4, <2>1, <3>1, Zenon DEF CounterAt, c
  <2>2. CASE ~(n > h)
    <3>1. ~(d > 0) /\ ~(d < -Half)
      BY <1>1, <1>4, <2>2
    <3> QED
      BY <1>3, <1>4, <2>2, <3>1, Zenon DEF c
  <2> QED
    BY <2>1, <2>2
<1>5. CASE Rollover(n) = Rollover(h) + 1 /\ d = n - h - SeqModulo /\ n > h
  <2>1. ~(d > 0) /\ d < -Half
    BY <1>1, <1>5
  <2> QED
    BY <1>3, <1>5, <2>1, Zenon DEF CounterAt, c
<1> QED
  BY <1>4, <1>5, RolloverStep DEF d

-----------------------------------------------------------------------------
(* The invariant *)

NumbersOf(packets) == {p.number : p \in packets}

\* The packets sent are numbered without a gap.
Numbered ==
  LastNumber \in Int /\ LastNumber >= FirstNumber - 1 /\ NumbersOf(sent) = FirstNumber..LastNumber

\* Unless an earlier rollover was met again, each end's counter stands at its newest packet.
CountedAlike ==
  profile = "ctr" /\ ~straddled =>
    /\ outbound = IF sent = {} THEN NewCounter ELSE CounterAt(LastNumber)
    /\ inbound = IF latest = -1 THEN NewCounter ELSE CounterAt(latest)

\* RolloverAgrees says what the counters gave to the packets.
CountingInv ==
  /\ latest \in Nat \cup {-1} /\ straddled \in BOOLEAN
  /\ Numbered /\ CountedAlike /\ RolloverAgrees

LEMMA FirstRollover ==
  FirstNumber \in Nat /\ Rollover(FirstNumber) = 0 /\ Sequence(FirstNumber) \in Nat
<1>1. FirstNumber \in 0..(SeqModulo - 1) /\ SeqModulo \in Nat \ {0} /\ FirstNumber \in Nat
  BY SessionAssumption, Sizes
<1>2. \A m \in Nat \ {0} : \A a \in 0..(m - 1) : a \div m = 0
  OBVIOUS
<1>3. FirstNumber \div SeqModulo = 0
  BY <1>1, <1>2
<1>4. Sequence(FirstNumber) \in 0..(SeqModulo - 1)
  BY <1>1, NumberParts
<1> QED
  BY <1>1, <1>3, <1>4 DEF Rollover

\* What the last number is when the packets are numbered to some number.
LEMMA NumberedTo ==
  ASSUME NEW packets, NEW last \in Int, last >= FirstNumber - 1,
         NumbersOf(packets) = FirstNumber..last
  PROVE  FirstNumber + Cardinality(NumbersOf(packets)) - 1 = last
<1>1. FirstNumber \in Int /\ Cardinality(FirstNumber..last) =
                              IF FirstNumber > last THEN 0 ELSE last - FirstNumber + 1
  BY FS_Interval, FirstRollover
<1> QED
  BY <1>1

LEMMA LastIs == LastNumber = FirstNumber + Cardinality(NumbersOf(sent)) - 1
  BY DEF LastNumber, NumbersOf

\* A counter that has met no packet takes the first one as of rollover 0.
LEMMA FirstCounted ==
  ASSUME NEW n \in Nat, Rollover(n) = 0
  PROVE  UpdateRolloverCounter(NewCounter, Sequence(n)) = CounterAt(n)
<1>1. NewCounter = Counter(0, 0, TRUE)
  BY DEF NewCounter, Counter
<1>2. 0 \in Nat /\ TRUE \in BOOLEAN /\ Sequence(n) \in Nat
  BY NumberParts, Sizes
<1> QED
  BY <1>1, <1>2, UpdatedCounter, Zenon DEF CounterAt

LEMMA RocOfCounter == ASSUME NEW n PROVE CounterAt(n).roc = Rollover(n)
  BY DEF CounterAt, Counter

LEMMA CountingInit == Init => CountingInv
<1> SUFFICES ASSUME Init PROVE CountingInv
  OBVIOUS
<1>1. /\ outbound = NewCounter /\ inbound = NewCounter /\ sent = {} /\ garbled = {}
      /\ latest = -1 /\ straddled = FALSE
  BY DEF Init
<1>2. NumbersOf(sent) = FirstNumber..(FirstNumber - 1)
  BY <1>1, FirstRollover DEF NumbersOf
<1>3. LastNumber = FirstNumber - 1
  BY <1>2, NumberedTo, LastIs, FirstRollover
<1>4. Numbered
  BY <1>2, <1>3, FirstRollover DEF Numbered
<1>5. CountedAlike
  BY <1>1, Zenon DEF CountedAlike
<1>6. RolloverAgrees
  BY <1>1 DEF RolloverAgrees
<1> QED
  BY <1>1, <1>4, <1>5, <1>6 DEF CountingInv

-----------------------------------------------------------------------------
(* Its steps *)

LEMMA NumbersAdded ==
  ASSUME NEW packets, NEW n, NEW r
  PROVE  NumbersOf(packets \cup {[number |-> n, roc |-> r]}) = NumbersOf(packets) \cup {n}
<1> DEFINE new == [number |-> n, roc |-> r]
<1>1. new.number = n
  OBVIOUS
<1> HIDE DEF new
<1>2. NumbersOf(packets \cup {new}) = NumbersOf(packets) \cup {n}
  BY <1>1 DEF NumbersOf
<1> QED
  BY <1>2 DEF new

LEMMA NumbersSent ==
  ASSUME Numbered
  PROVE  /\ LastNumber \in Int /\ LastNumber >= FirstNumber - 1 /\ FirstNumber \in Nat
         /\ \A p \in sent : p.number \in FirstNumber..LastNumber
         /\ sent # {} => LastNumber >= FirstNumber
         /\ sent = {} => LastNumber = FirstNumber - 1
<1>1. /\ LastNumber \in Int /\ LastNumber >= FirstNumber - 1
      /\ NumbersOf(sent) = FirstNumber..LastNumber /\ FirstNumber \in Nat
  BY FirstRollover DEF Numbered
<1>2. \A p \in sent : p.number \in FirstNumber..LastNumber
  BY <1>1 DEF NumbersOf
<1>3. sent = {} => ~(LastNumber >= FirstNumber)
  BY <1>1 DEF NumbersOf
<1>4. sent # {} => LastNumber >= FirstNumber
  BY <1>1, <1>2
<1> QED
  BY <1>1, <1>2, <1>3, <1>4

\* A packet is sent with the rollover counter that the counter of the server gives it.
EncryptedAs(n, counter) ==
  /\ outbound' = counter
  /\ sent' = sent \cup {[number |-> n, roc |-> counter.roc]}

LEMMA EncryptIs ==
  ASSUME NEW n, Encrypt(n)
  PROVE  EncryptedAs(n, IF profile = "ctr" THEN UpdateRolloverCounter(outbound, Sequence(n))
                                           ELSE outbound)
  BY DEF Encrypt, EncryptedAs

\* The invariant after a packet was sent, from what it did to the numbers and the counter.
LEMMA EncryptKeeps ==
  ASSUME CountingInv, NEW n, NEW counter, EncryptedAs(n, counter), Numbered',
         UNCHANGED <<profile, inbound, latest, garbled>>, straddled' \in BOOLEAN,
         straddled => straddled',
         profile = "ctr" /\ ~straddled' => /\ counter = CounterAt(LastNumber')
                                           /\ Rollover(LastNumber') = Rollover(n)
  PROVE  CountingInv'
<1>1. /\ outbound' = counter /\ sent' = sent \cup {[number |-> n, roc |-> counter.roc]}
      /\ sent' # {}
  BY DEF EncryptedAs
<1>2. CASE ~(profile = "ctr" /\ ~straddled')
  BY <1>2 DEF CountingInv, CountedAlike, RolloverAgrees
<1>3. CASE profile = "ctr" /\ ~straddled'
  <2>1. profile = "ctr" /\ ~straddled /\ profile' = "ctr" /\ ~straddled'
    BY <1>3
  <2>2. garbled = {} /\ \A p \in sent : p.roc = Rollover(p.number)
    BY <2>1 DEF CountingInv, RolloverAgrees
  <2>3. inbound = IF latest = -1 THEN NewCounter ELSE CounterAt(latest)
    BY <2>1 DEF CountingInv, CountedAlike
  <2>4. counter.roc = Rollover(n)
    BY <1>3, RocOfCounter
  <2>5. \A p \in sent' : p.roc = Rollover(p.number)
    BY <1>1, <2>2, <2>4
  <2>6. CountedAlike'
    BY <1>1, <1>3, <2>3, Zenon DEF CountedAlike
  <2>7. RolloverAgrees'
    BY <2>2, <2>5 DEF RolloverAgrees
  <2> QED
    BY <2>6, <2>7 DEF CountingInv
<1> QED
  BY <1>2, <1>3

LEMMA SendRtpNumbers ==
  ASSUME Numbered, SendRtp
  PROVE  Numbered' /\ LastNumber' = LastNumber + 1
<1> DEFINE n == LastNumber + 1
<1>1. PICK counter : EncryptedAs(n, counter)
  BY EncryptIs DEF SendRtp
<1>2. n \in Int /\ n >= FirstNumber /\ FirstNumber \in Nat
  BY NumbersSent
<1>3. NumbersOf(sent') = FirstNumber..n
  <2>1. NumbersOf(sent) = FirstNumber..LastNumber /\ LastNumber = n - 1
    BY NumbersSent DEF Numbered
  <2>2. sent' = sent \cup {[number |-> n, roc |-> counter.roc]}
    BY <1>1 DEF EncryptedAs
  <2> HIDE DEF n
  <2>3. NumbersOf(sent') = NumbersOf(sent) \cup {n}
    BY <2>2, NumbersAdded
  <2> QED
    BY <1>2, <2>1, <2>3
<1>4. LastNumber' = n
  <2>1. LastNumber' = FirstNumber + Cardinality(NumbersOf(sent')) - 1
    BY DEF LastNumber, NumbersOf
  <2> QED
    BY <2>1, <1>2, <1>3, NumberedTo
<1>5. Numbered'
  BY <1>2, <1>3, <1>4 DEF Numbered
<1> QED
  BY <1>4, <1>5

LEMMA ResendNumbers ==
  ASSUME Numbered, Resend
  PROVE  Numbered' /\ LastNumber' = LastNumber
<1>1. PICK p \in sent : Encrypt(p.number)
  BY DEF Resend
<1> DEFINE n == p.number
<1>2. PICK counter : EncryptedAs(n, counter)
  BY <1>1, EncryptIs
<1>3. /\ LastNumber \in Int /\ FirstNumber \in Nat /\ n \in FirstNumber..LastNumber
      /\ LastNumber >= FirstNumber - 1 /\ NumbersOf(sent) = FirstNumber..LastNumber
  BY NumbersSent DEF Numbered
<1> HIDE DEF n
<1>4. NumbersOf(sent') = FirstNumber..LastNumber
  <2>1. sent' = sent \cup {[number |-> n, roc |-> counter.roc]}
    BY <1>2 DEF EncryptedAs
  <2>2. NumbersOf(sent') = NumbersOf(sent) \cup {n}
    BY <2>1, NumbersAdded
  <2> QED
    BY <2>2, <1>3
<1>5. LastNumber' = LastNumber
  <2>1. LastNumber' = FirstNumber + Cardinality(NumbersOf(sent')) - 1
    BY DEF LastNumber, NumbersOf
  <2> QED
    BY <2>1, <1>3, <1>4, NumberedTo
<1>6. Numbered'
  BY <1>3, <1>4, <1>5 DEF Numbered
<1> QED
  BY <1>5, <1>6

LEMMA SendRtpCounts == ASSUME Half > 1, CountingInv, SendRtp PROVE CountingInv'
<1> DEFINE n == LastNumber + 1
<1>1. PICK counter : counter = IF profile = "ctr" THEN UpdateRolloverCounter(outbound, Sequence(n))
                                                  ELSE outbound
  OBVIOUS
<1>2. EncryptedAs(n, counter)
  BY <1>1, EncryptIs DEF SendRtp
<1>3. n \in Int /\ n \in Nat /\ n >= FirstNumber /\ FirstNumber \in Nat
  BY NumbersSent DEF CountingInv
<1>4. LastNumber' = n
  BY SendRtpNumbers DEF CountingInv
<1>5. Numbered'
  BY SendRtpNumbers DEF CountingInv
<1>6. ASSUME profile = "ctr", ~straddled PROVE counter = CounterAt(n)
  <2>1. counter = UpdateRolloverCounter(outbound, Sequence(n))
    BY <1>1, <1>6
  <2>2. CASE sent = {}
    <3>1. outbound = NewCounter /\ n = FirstNumber
      BY <1>6, <2>2, NumbersSent DEF CountingInv, CountedAlike
    <3> QED
      BY <2>1, <3>1, <1>3, FirstRollover, FirstCounted
  <2>3. CASE sent # {}
    <3>1. outbound = CounterAt(LastNumber)
      BY <1>6, <2>3 DEF CountingInv, CountedAlike
    <3>2. LastNumber \in Nat /\ n > LastNumber /\ n - LastNumber \in (-Half)..(Half - 1)
      BY <2>3, <1>3, NumbersSent, Sizes DEF CountingInv
    <3>3. Rollover(n) >= Rollover(LastNumber)
      <4>1. \A m \in Nat \ {0}, a \in Nat : (a + 1) \div m >= a \div m
        OBVIOUS
      <4> QED
        BY <4>1, <3>2, Sizes DEF Rollover
    <3> HIDE DEF n
    <3> QED
      BY <2>1, <3>1, <3>2, <3>3, <1>3, CounterFollows
  <2> QED
    BY <2>2, <2>3
<1> HIDE DEF n
<1> QED
  BY <1>2, <1>4, <1>5, <1>6, EncryptKeeps DEF SendRtp, CountingInv


LEMMA ResendCounts == ASSUME CountingInv, Resend PROVE CountingInv'
<1>1. PICK p \in sent : /\ p.number > LastNumber - Half /\ Encrypt(p.number)
                        /\ straddled' = (straddled \/ Rollover(p.number) < Rollover(LastNumber))
  BY DEF Resend
<1> DEFINE n == p.number
<1>2. PICK counter : counter = IF profile = "ctr" THEN UpdateRolloverCounter(outbound, Sequence(n))
                                                  ELSE outbound
  OBVIOUS
<1>3. EncryptedAs(n, counter)
  BY <1>1, <1>2, EncryptIs
<1>4. /\ LastNumber \in Nat /\ FirstNumber \in Nat /\ n \in FirstNumber..LastNumber /\ n \in Nat
      /\ LastNumber >= FirstNumber - 1
  BY NumbersSent DEF CountingInv
<1>5. sent # {}
  OBVIOUS
<1>6. n > LastNumber - Half /\ n <= LastNumber /\ n - LastNumber \in (-Half)..(Half - 1)
  BY <1>1, <1>4, Sizes
<1> HIDE DEF n
<1>7. LastNumber' = LastNumber
  BY ResendNumbers DEF CountingInv
<1>8. Numbered'
  BY ResendNumbers DEF CountingInv
<1>9. straddled \in BOOLEAN /\ straddled' = (straddled \/ Rollover(n) < Rollover(LastNumber))
  BY <1>1 DEF CountingInv, n
<1>10. ASSUME profile = "ctr", ~straddled'
       PROVE  counter = CounterAt(LastNumber) /\ Rollover(LastNumber) = Rollover(n)
  <2>1. ~straddled /\ ~(Rollover(n) < Rollover(LastNumber))
    BY <1>9, <1>10
  <2>2. Rollover(n) >= Rollover(LastNumber)
    <3>1. Rollover(n) \in Nat /\ Rollover(LastNumber) \in Nat
      BY <1>4, NumberParts
    <3> QED
      BY <2>1, <3>1
  <2>3. outbound = CounterAt(LastNumber)
    BY <1>5, <1>10, <2>1 DEF CountingInv, CountedAlike
  <2>4. counter = UpdateRolloverCounter(CounterAt(LastNumber), Sequence(n))
    BY <1>2, <1>10, <2>3
  <2>5. (IF n > LastNumber THEN n ELSE LastNumber) = LastNumber
    BY <1>4, <1>6
  <2> QED
    BY <1>4, <1>6, <2>2, <2>4, <2>5, CounterFollows
<1>11. straddled' \in BOOLEAN /\ (straddled => straddled')
  BY <1>9
<1> QED
  BY <1>3, <1>7, <1>8, <1>10, <1>11, EncryptKeeps DEF Resend

\* Under "ctr" the client's counter gives a packet the number's rollover.
LEMMA DecryptCtrCounts ==
  ASSUME CountingInv, profile = "ctr", NEW p \in sent, DecryptCtr(p),
         latest >= 0 => p.number - latest \in (-Half)..(Half - 1),
         UNCHANGED <<profile, outbound, sent>>
  PROVE  CountingInv'
<1> DEFINE n == p.number
           counter == UpdateRolloverCounter(inbound, Sequence(n))
<1>1. /\ inbound' = counter
      /\ garbled' = IF counter.roc = p.roc THEN garbled ELSE garbled \cup {p}
      /\ latest' = IF n > latest THEN n ELSE latest
      /\ straddled' = (straddled \/ Rollover(n) < Rollover(latest)
                                 \/ (latest = -1 /\ Rollover(n) > 0))
  BY DEF DecryptCtr
<1>2. n \in Nat /\ Rollover(n) \in Nat /\ latest \in Nat \cup {-1} /\ straddled \in BOOLEAN
  <2>1. n \in Nat
    BY NumbersSent DEF CountingInv
  <2> QED
    BY <2>1, NumberParts DEF CountingInv
<1>3. latest >= 0 => n - latest \in (-Half)..(Half - 1)
  OBVIOUS
<1> HIDE DEF n, counter
<1>4. /\ latest' \in Nat \cup {-1} /\ straddled' \in BOOLEAN /\ (straddled => straddled')
      /\ latest' # -1
  BY <1>1, <1>2
<1>5. Numbered'
  BY DEF CountingInv, Numbered, LastNumber
<1>6. CASE straddled'
  BY <1>4, <1>5, <1>6 DEF CountingInv, CountedAlike, RolloverAgrees
<1>7. CASE ~straddled'
  <2>1. ~straddled /\ ~(Rollover(n) < Rollover(latest)) /\ ~(latest = -1 /\ Rollover(n) > 0)
    BY <1>1, <1>2, <1>7
  <2>2. inbound = IF latest = -1 THEN NewCounter ELSE CounterAt(latest)
    BY <2>1 DEF CountingInv, CountedAlike
  <2>3. counter = CounterAt(latest') /\ Rollover(latest') = Rollover(n)
    <3>1. CASE latest = -1
      <4>1. latest' = n /\ Rollover(n) = 0
        BY <1>1, <1>2, <2>1, <3>1
      <4> QED
        BY <1>2, <2>2, <3>1, <4>1, FirstCounted DEF counter
    <3>2. CASE latest # -1
      <4>1. latest \in Nat /\ Rollover(latest) \in Nat /\ n - latest \in (-Half)..(Half - 1)
        BY <1>2, <1>3, <3>2, NumberParts
      <4>2. Rollover(n) >= Rollover(latest)
        BY <1>2, <2>1, <4>1
      <4>3. counter = UpdateRolloverCounter(CounterAt(latest), Sequence(n))
        BY <2>2, <3>2 DEF counter
      <4> QED
        BY <1>1, <1>2, <4>1, <4>2, <4>3, CounterFollows
    <3> QED
      BY <3>1, <3>2
  <2>4. garbled = {} /\ \A q \in sent : q.roc = Rollover(q.number)
    BY <2>1 DEF CountingInv, RolloverAgrees
  <2>5. garbled' = {}
    BY <1>1, <2>3, <2>4, RocOfCounter DEF n
  <2>6. CountedAlike'
    <3>1. outbound' = IF sent' = {} THEN NewCounter ELSE CounterAt(LastNumber')
      BY <2>1 DEF CountingInv, CountedAlike, LastNumber
    <3>2. inbound' = CounterAt(latest')
      BY <1>1, <2>3
    <3> QED
      BY <3>1, <3>2, <1>4, Zenon DEF CountedAlike
  <2>7. RolloverAgrees'
    BY <2>4, <2>5 DEF RolloverAgrees
  <2> QED
    BY <1>4, <1>5, <2>6, <2>7 DEF CountingInv
<1> QED
  BY <1>6, <1>7

LEMMA CountingNext == ASSUME Half > 1, CountingInv, [Next]_vars PROVE CountingInv'
<1>1. ASSUME UNCHANGED <<profile, outbound, inbound, sent, latest, straddled>>,
             profile = "ctr" => garbled' = garbled
      PROVE  CountingInv'
  BY <1>1 DEF CountingInv, Numbered, CountedAlike, RolloverAgrees, LastNumber
<1>2. CASE UNCHANGED vars
  BY <1>1, <1>2 DEF vars, mediaVars
<1>3. CASE ReceiveRtp
  <2>1. PICK p \in sent :
          \/ /\ profile = "ctr" /\ DecryptCtr(p)
             /\ latest >= 0 => p.number - latest \in (-Half)..(Half - 1)
          \/ profile = "gcm" /\ InTime(p.number) /\ DecryptGcm(p)
    BY <1>3 DEF ReceiveRtp
  <2>2. CASE profile = "gcm" /\ DecryptGcm(p)
    BY <1>1, <1>3, <2>2 DEF ReceiveRtp, DecryptGcm
  <2>3. CASE /\ profile = "ctr" /\ DecryptCtr(p)
             /\ latest >= 0 => p.number - latest \in (-Half)..(Half - 1)
    BY <1>3, <2>3, DecryptCtrCounts DEF ReceiveRtp
  <2> QED
    BY <2>1, <2>2, <2>3
<1>4. ASSUME NEW end \in Ends, SendRtcp(end) PROVE CountingInv'
  BY <1>1, <1>4 DEF SendRtcp, mediaVars
<1> QED
  BY <1>2, <1>3, <1>4, SendRtpCounts, ResendCounts DEF Next

\* For every size of the sequence number space but the smallest, where a wrap
\* is not a step back by more than half of it, the counters of the two ends
\* give a packet the rollover of its number, whatever is lost, repeated or
\* reordered, as long as no earlier rollover is met again.
THEOREM AlwaysCountedAlike == ASSUME Half > 1 PROVE Spec => []RolloverAgrees
<1>1. CountingInv /\ [Next]_vars => CountingInv'
  BY CountingNext
<1>2. CountingInv => RolloverAgrees
  BY DEF CountingInv
<1> QED
  BY CountingInit, <1>1, <1>2, PTL DEF Spec


-----------------------------------------------------------------------------
(* SRTCP *)

\* The packet that an end makes of its i-th report.
ReportIndex(i) == IF profile = "gcm" THEN (i - 1) % IndexModulo ELSE i
ReportAt(end, i) ==
  LET keys == Derived(Session(end).local, SrtcpLabels)
  IN  IF profile = "gcm" THEN SealSrtcp(keys, Header(end), ReportIndex(i), "none")
                         ELSE SealSrtcpCtr(keys, Header(end), ReportIndex(i), "none")

AllReports == {ReportAt(end, i) : end \in Ends, i \in Nat}

ReportsInv ==
  /\ profile \in Profiles
  /\ reports \in [Ends -> Seq(AllReports)]
  /\ \A end \in Ends : /\ Len(reports[end]) <= MaxReports
                       /\ \A i \in 1..Len(reports[end]) : reports[end][i] = ReportAt(end, i)

LEMMA ReportsInit == Init => ReportsInv
<1> SUFFICES ASSUME Init PROVE ReportsInv
  OBVIOUS
<1>1. profile \in Profiles /\ reports = [end \in Ends |-> << >>]
  BY DEF Init
<1>2. << >> \in Seq(AllReports) /\ Len(<< >>) = 0 /\ MaxReports \in Nat
  BY SessionAssumption
<1> QED
  BY <1>1, <1>2 DEF ReportsInv

LEMMA SendRtcpReports ==
  ASSUME ReportsInv, NEW end \in Ends, SendRtcp(end)
  PROVE  ReportsInv'
<1> DEFINE old == reports[end]
           new == ReportAt(end, Len(old) + 1)
<1>1. old \in Seq(AllReports) /\ Len(old) \in Nat /\ Len(old) < MaxReports
  BY DEF ReportsInv, SendRtcp
<1>2. reports' = [reports EXCEPT ![end] = Append(@, new)] /\ profile' = profile
  <2>1. profile = "gcm" => NextIndex(end) = ReportIndex(Len(old) + 1)
    BY <1>1 DEF NextIndex, ReportIndex
  <2>2. profile # "gcm" => NextIndex(end) = ReportIndex(Len(old) + 1)
    BY <1>1 DEF NextIndex, ReportIndex
  <2>3. new = LET keys == Derived(Session(end).local, SrtcpLabels)
              IN  IF profile = "gcm" THEN SealSrtcp(keys, Header(end), NextIndex(end), "none")
                                     ELSE SealSrtcpCtr(keys, Header(end), NextIndex(end), "none")
    BY <2>1, <2>2 DEF ReportAt
  <2> HIDE DEF new
  <2> QED
    BY <2>3 DEF SendRtcp
<1>3. new \in AllReports
  BY <1>1 DEF AllReports
<1>4. /\ AllReports' = AllReports
      /\ \A e \in Ends, i \in Nat : ReportAt(e, i)' = ReportAt(e, i)
  BY <1>2 DEF AllReports, ReportAt, ReportIndex, Session
<1> HIDE DEF new
<1>5. /\ Append(old, new) \in Seq(AllReports) /\ Len(Append(old, new)) = Len(old) + 1
      /\ \A i \in 1..Len(old) : Append(old, new)[i] = old[i]
      /\ Append(old, new)[Len(old) + 1] = new
  BY <1>1, <1>3
<1>6. reports' \in [Ends -> Seq(AllReports')]
  BY <1>2, <1>4, <1>5 DEF ReportsInv
<1>7. ASSUME NEW e \in Ends
      PROVE  /\ Len(reports'[e]) <= MaxReports
             /\ \A i \in 1..Len(reports'[e]) : reports'[e][i] = ReportAt(e, i)'
  <2>1. CASE e = end
    <3>1. reports'[e] = Append(old, new)
      BY <1>2, <2>1 DEF ReportsInv
    <3>2. \A i \in 1..Len(old) : old[i] = ReportAt(e, i)
      BY <2>1 DEF ReportsInv
    <3>3. \A i \in 1..Len(reports'[e]) : reports'[e][i] = ReportAt(e, i)
      BY <1>1, <1>5, <2>1, <3>1, <3>2 DEF new
    <3>4. Len(reports'[e]) <= MaxReports
      BY <1>1, <1>5, <3>1, SessionAssumption
    <3> HIDE DEF old
    <3> QED
      BY <1>1, <1>4, <1>5, <3>1, <3>3, <3>4
  <2>2. CASE e # end
    <3>1. reports'[e] = reports[e]
      BY <1>2, <2>2 DEF ReportsInv
    <3>2. Len(reports[e]) \in Nat /\ Len(reports[e]) <= MaxReports
      BY DEF ReportsInv
    <3>3. \A i \in 1..Len(reports[e]) : reports[e][i] = ReportAt(e, i) /\ i \in Nat
      BY DEF ReportsInv
    <3> QED
      BY <1>4, <3>1, <3>2, <3>3
  <2> QED
    BY <2>1, <2>2
<1> QED
  BY <1>2, <1>6, <1>7 DEF ReportsInv

LEMMA ReportsNext == ReportsInv /\ [Next]_vars => ReportsInv'
<1> SUFFICES ASSUME ReportsInv, [Next]_vars PROVE ReportsInv'
  OBVIOUS
<1>1. ASSUME UNCHANGED <<profile, reports>> PROVE ReportsInv'
  BY <1>1 DEF ReportsInv, AllReports, ReportAt, ReportIndex, Session
<1>2. UNCHANGED vars \/ SendRtp \/ Resend \/ ReceiveRtp => UNCHANGED <<profile, reports>>
  BY DEF vars, SendRtp, Resend, ReceiveRtp
<1> QED
  BY <1>1, <1>2, SendRtcpReports DEF Next

\* What an end opens with is what its peer seals with.
LEMMA SessionsMeet == ASSUME NEW end \in Ends PROVE Session(Peer(end)).remote = Session(end).local
  BY DEF Session, Masters, Peer, Ends

LEMMA IndexKept ==
  ASSUME NEW index \in 0..(IndexModulo - 1)
  PROVE  WithEFlag(index) >= IndexModulo /\ IndexOf(WithEFlag(index)) = index
<1>1. IndexModulo \in Nat \ {0} /\ index + IndexModulo = IndexModulo * 1 + index
  BY IndexAssumption
<1>2. (index + IndexModulo) % IndexModulo = index
  BY <1>1, Remainder
<1> QED
  BY <1>1, <1>2 DEF WithEFlag, IndexOf

LEMMA SealedOpens ==
  ASSUME NEW keys, NEW header, NEW index \in 0..(IndexModulo - 1), NEW plain
  PROVE  OpensSrtcp(keys, SealSrtcp(keys, header, index, plain))
<1> DEFINE nonce == SrtcpNonce(keys.salt, header.ssrc, index)
           word == WithEFlag(index)
           aad == SrtcpAad(header, word)
           box == Seal(keys.key, nonce, aad, plain)
           packet == SealSrtcp(keys, header, index, plain)
<1>1. packet.header = header /\ packet.word = word /\ packet.box = box
  BY DEF SealSrtcp
<1>2. Opens(keys.key, nonce, aad, box)
  BY DEF Opens, Seal
<1>3. word >= IndexModulo /\ IndexOf(word) = index
  BY IndexKept
<1> HIDE DEF packet, box, word
<1> QED
  BY <1>1, <1>2, <1>3 DEF OpensSrtcp, packet

LEMMA SealedOpensCtr ==
  ASSUME NEW keys, NEW header, NEW index \in 0..(IndexModulo - 1), NEW plain,
         NEW packet, packet = SealSrtcpCtr(keys, header, index, plain)
  PROVE  packet.word >= IndexModulo /\ DecryptSrtcpCtr(keys, packet, plain)
<1> DEFINE box == <<keys.key, SrtcpCounter(keys.salt, header.ssrc, index), plain>>
           word == WithEFlag(index)
<1>1. packet.header = header /\ packet.word = word /\ packet.box = box
  BY DEF SealSrtcpCtr
<1>2. word >= IndexModulo /\ IndexOf(word) = index
  BY IndexKept
<1> HIDE DEF word
<1> QED
  BY <1>1, <1>2 DEF DecryptSrtcpCtr

LEMMA ReportOpens ==
  ASSUME NEW end \in Ends, NEW i \in Nat, i >= 1, profile # "gcm" => i < IndexModulo
  PROVE  DecryptSrtcp(Peer(end), ReportAt(end, i))
<1> DEFINE keys == Derived(Session(end).local, SrtcpLabels)
<1>1. Derived(Session(Peer(end)).remote, SrtcpLabels) = keys
  BY SessionsMeet
<1>2. ReportIndex(i) \in 0..(IndexModulo - 1)
  <2>1. i - 1 \in Int /\ IndexModulo \in Nat \ {0}
    BY IndexAssumption
  <2> QED
    BY <2>1, RemainderRange DEF ReportIndex
<1> HIDE DEF keys
<1>3. CASE profile = "gcm"
  <2>1. ReportAt(end, i) = SealSrtcp(keys, Header(end), ReportIndex(i), "none")
    BY <1>3 DEF ReportAt, keys
  <2> QED
    BY <1>1, <1>2, <1>3, <2>1, SealedOpens DEF DecryptSrtcp
<1>4. CASE profile # "gcm"
  <2>1. ReportAt(end, i) = SealSrtcpCtr(keys, Header(end), ReportIndex(i), "none")
    BY <1>4 DEF ReportAt, keys
  <2> QED
    BY <1>1, <1>2, <1>4, <2>1, SealedOpensCtr DEF DecryptSrtcp
<1> QED
  BY <1>3, <1>4

\* Every SRTCP packet opens at the other end, however many are sent under
\* "gcm", whose index wraps, and as long as the index of "ctr", which does not,
\* keeps clear of the bit that the E flag is put in.
THEOREM AlwaysOpens ==
  ASSUME "ctr" \in Profiles => MaxReports < IndexModulo
  PROVE  Spec => []SrtcpOpens
<1>1. ReportsInv => SrtcpOpens
  <2> SUFFICES ASSUME ReportsInv, NEW end \in Ends, NEW i \in DOMAIN reports[end]
               PROVE  DecryptSrtcp(Peer(end), reports[end][i])
    BY DEF SrtcpOpens
  <2>1. reports[end] \in Seq(AllReports) /\ Len(reports[end]) <= MaxReports
    BY DEF ReportsInv
  <2>2. i \in 1..Len(reports[end]) /\ Len(reports[end]) \in Nat
    BY <2>1
  <2>3. reports[end][i] = ReportAt(end, i)
    BY <2>2 DEF ReportsInv
  <2>4. i \in Nat /\ i >= 1 /\ i <= MaxReports
    BY <2>1, <2>2, SessionAssumption
  <2>5. profile # "gcm" => profile = "ctr" /\ "ctr" \in Profiles
    BY SessionAssumption DEF ReportsInv
  <2>6. profile # "gcm" => i < IndexModulo
    BY <2>4, <2>5, SessionAssumption, IndexAssumption
  <2> QED
    BY <2>3, <2>4, <2>6, ReportOpens
<1> QED
  BY ReportsInit, ReportsNext, <1>1, PTL DEF Spec


-----------------------------------------------------------------------------
(* The vectors *)

\* The profile and the salt that srtp_cipher_vectors.mjs pads give the library's keys.
LEMMA SameSessionKeys ==
  ASSUME NEW end \in Ends, profile = "gcm"
  PROVE  LET local == Session(end).local
         IN  VectorSessionKeys(VectorMaster(local.key, local.salt)) = Derived(local, SrtcpLabels)
<1> DEFINE local == Session(end).local
<1>1. PICK bytes : local.salt = [bytes |-> bytes, length |-> 12]
  BY DEF Session, Masters, KeyMaterial, Ends
<1>2. SrtcpLabels.key = 3 /\ SrtcpLabels.salt = 5
  BY DEF SrtcpLabels
<1> HIDE DEF local
<1>3. [local.salt EXCEPT !.length = @ + 2] = [local.salt EXCEPT !.length = 14]
  BY <1>1
<1>4. /\ VectorMaster(local.key, local.salt).key = local.key
      /\ VectorMaster(local.key, local.salt).salt = PadSaltTo14Bytes(local.salt)
  BY <1>3 DEF VectorMaster, PadSaltTo14Bytes
<1>5. VectorSessionKeys(VectorMaster(local.key, local.salt)) = Derived(local, SrtcpLabels)
  BY <1>2, <1>4 DEF VectorSessionKeys, Derived, VectorSessionKey, VectorSessionSalt,
                    GenerateSessionKey, GenerateSessionSalt
<1> QED
  BY <1>5 DEF local

\* What srtp_cipher_vectors.mjs prints for the unit tests is what the library
\* seals, for every index: the same session keys, nonce and additional data.
THEOREM AlwaysVectorsAgree == Spec => []VectorsAgree
<1>1. ReportsInv => VectorsAgree
  <2> SUFFICES ASSUME ReportsInv, profile = "gcm",
                      NEW end \in Ends, NEW i \in DOMAIN reports[end]
               PROVE  reports[end][i] =
                        Vector(Session(end).local, Header(end), (i - 1) % IndexModulo)
    BY DEF VectorsAgree
  <2> DEFINE keys == Derived(Session(end).local, SrtcpLabels)
             index == (i - 1) % IndexModulo
  <2>1. reports[end][i] = ReportAt(end, i)
    BY DEF ReportsInv
  <2>2. ReportAt(end, i) = SealSrtcp(keys, Header(end), index, "none")
    BY DEF ReportAt, ReportIndex
  <2>3. VectorSessionKeys(VectorMaster(Session(end).local.key, Session(end).local.salt)) = keys
    BY SameSessionKeys
  <2> HIDE DEF keys, index
  <2>4. Vector(Session(end).local, Header(end), index) =
          SealSrtcp(keys, Header(end), index, "none")
    BY <2>3 DEF Vector, SealSrtcp, BuildSrtcpNonce, SrtcpNonce, BuildSrtcpAad, SrtcpAad,
                WithEFlag
  <2> QED
    BY <2>1, <2>2, <2>4 DEF index
<1> QED
  BY ReportsInit, ReportsNext, <1>1, PTL DEF Spec

-----------------------------------------------------------------------------
(* The window *)

LEMMA NumberedNext == Numbered /\ [Next]_vars => Numbered'
<1> SUFFICES ASSUME Numbered, [Next]_vars PROVE Numbered'
  OBVIOUS
<1>1. UNCHANGED sent => Numbered'
  BY DEF Numbered, LastNumber
<1>2. UNCHANGED vars \/ ReceiveRtp \/ (\E end \in Ends : SendRtcp(end)) => UNCHANGED sent
  BY DEF vars, mediaVars, ReceiveRtp, SendRtcp
<1> QED
  BY <1>1, <1>2, SendRtpNumbers, ResendNumbers DEF Next

LEMMA WindowStep == Numbered /\ [Next]_vars => [WindowNext]_windowVars
<1> SUFFICES ASSUME Numbered, [Next]_vars PROVE [WindowNext]_windowVars
  OBVIOUS
<1>1. UNCHANGED vars \/ SendRtp \/ Resend \/ (\E end \in Ends : SendRtcp(end))
        => UNCHANGED windowVars
  BY DEF vars, SendRtp, Resend, SendRtcp
<1>2. CASE ReceiveRtp
  <2>1. PICK p \in sent : \/ DecryptCtr(p)
                          \/ InTime(p.number) /\ DecryptGcm(p)
    BY <1>2 DEF ReceiveRtp
  <2>2. p.number \in Nat
    BY NumbersSent
  <2>3. CASE DecryptCtr(p)
    BY <2>3 DEF DecryptCtr
  <2>4. CASE InTime(p.number) /\ DecryptGcm(p)
    BY <2>2, <2>4 DEF DecryptGcm, WindowNext
  <2> QED
    BY <2>1, <2>3, <2>4
<1> QED
  BY <1>1, <1>2 DEF Next

\* What the client's session does with the packets that arrive is a behaviour
\* of ReplayWindow: that module's abstraction of a sender, any packet within
\* half of the space, holds of this one.
THEOREM SessionWindow == Spec => WindowSpec
<1>1. Init => Numbered /\ WindowInit
  BY CountingInit DEF CountingInv, Init
<1> QED
  BY <1>1, NumberedNext, WindowStep, PTL DEF Spec, WindowSpec

\* Under "gcm" the client takes exactly the packets within the window and ahead
\* of it that it has not taken before.
THEOREM AlwaysAcceptsFresh == Spec => []AcceptsExactlyFresh
  BY SessionWindow, AcceptsExactlyFreshAlways, PTL


-----------------------------------------------------------------------------
(* Types *)

MediaTypes ==
  /\ profile \in Profiles
  /\ outbound \in Counters /\ inbound \in Counters
  /\ sent \subseteq Packets /\ garbled \subseteq sent /\ resends \in 0..MaxResends
  /\ straddled \in BOOLEAN /\ latest \in Nat \cup {-1}

LEMMA CounterTyped == ASSUME NEW r \in Nat, NEW s \in 0..(SeqModulo - 1), NEW f \in BOOLEAN
                      PROVE  Counter(r, s, f) \in Counters
  BY DEF Counter, Counters

LEMMA UpdateTyped ==
  ASSUME NEW counter \in Counters, NEW n \in Nat
  PROVE  UpdateRolloverCounter(counter, Sequence(n)) \in Counters
<1>1. PICK r \in Nat, h \in 0..(SeqModulo - 1), f \in BOOLEAN : counter = Counter(r, h, f)
  BY DEF Counter, Counters
<1>2. Sequence(n) \in 0..(SeqModulo - 1) /\ h \in Nat /\ Sequence(n) \in Nat
  BY Sizes, NumberParts
<1>3. UpdateRolloverCounter(counter, Sequence(n)) \in
        {Counter(r, Sequence(n), FALSE), Counter(r + 1, Sequence(n), f), Counter(r, h, f)}
  BY <1>1, <1>2, UpdatedCounter, Zenon
<1>4. r + 1 \in Nat /\ FALSE \in BOOLEAN
  BY <1>1
<1>5. /\ Counter(r, Sequence(n), FALSE) \in Counters /\ Counter(r + 1, Sequence(n), f) \in Counters
      /\ Counter(r, h, f) \in Counters
  BY <1>2, <1>4, CounterTyped, Zenon
<1> QED
  BY <1>3, <1>5

LEMMA EncryptTyped ==
  ASSUME MediaTypes, NEW n \in Nat, Encrypt(n)
  PROVE  outbound' \in Counters /\ sent' \subseteq Packets /\ sent \subseteq sent'
<1> DEFINE counter == IF profile = "ctr" THEN UpdateRolloverCounter(outbound, Sequence(n))
                                         ELSE outbound
<1>1. counter \in Counters
  BY UpdateTyped DEF MediaTypes
<1>2. outbound' = counter /\ sent' = sent \cup {[number |-> n, roc |-> counter.roc]}
  BY DEF Encrypt
<1> HIDE DEF counter
<1>3. counter.roc \in Nat
  BY <1>1 DEF Counters
<1> QED
  BY <1>1, <1>2, <1>3 DEF MediaTypes, Packets

LEMMA MediaTypesNext == MediaTypes /\ Numbered /\ [Next]_vars => MediaTypes'
<1> SUFFICES ASSUME MediaTypes, Numbered, [Next]_vars PROVE MediaTypes'
  OBVIOUS
<1>1. UNCHANGED <<profile, mediaVars>> => MediaTypes'
  BY DEF MediaTypes, mediaVars
<1>2. CASE SendRtp
  <2>1. LastNumber + 1 \in Nat
    BY NumbersSent
  <2>2. Encrypt(LastNumber + 1)
    BY <1>2 DEF SendRtp
  <2> QED
    BY <1>2, <2>1, <2>2, EncryptTyped DEF SendRtp, MediaTypes
<1>3. CASE Resend
  <2>1. PICK p \in sent : /\ Encrypt(p.number)
                          /\ straddled' = (straddled \/ Rollover(p.number) < Rollover(LastNumber))
    BY <1>3 DEF Resend
  <2>2. p.number \in Nat
    BY NumbersSent
  <2>3. resends' \in 0..MaxResends
    BY <1>3, SessionAssumption DEF Resend, MediaTypes
  <2>4. straddled' \in BOOLEAN
    BY <2>1
  <2> QED
    BY <1>3, <2>1, <2>2, <2>3, <2>4, EncryptTyped DEF Resend, MediaTypes
<1>4. CASE ReceiveRtp
  <2>1. PICK p \in sent : DecryptCtr(p) \/ DecryptGcm(p)
    BY <1>4 DEF ReceiveRtp
  <2>2. p.number \in Nat
    BY NumbersSent
  <2>3. CASE DecryptGcm(p)
    BY <1>4, <2>3 DEF ReceiveRtp, DecryptGcm, MediaTypes
  <2>4. CASE DecryptCtr(p)
    <3>1. inbound' \in Counters
      BY <2>2, <2>4, UpdateTyped DEF DecryptCtr, MediaTypes
    <3>2. garbled' \subseteq sent /\ latest' \in Nat \cup {-1}
      BY <2>2, <2>4 DEF DecryptCtr, MediaTypes
    <3>3. straddled' \in BOOLEAN
      BY <2>4 DEF DecryptCtr
    <3> QED
      BY <1>4, <3>1, <3>2, <3>3 DEF ReceiveRtp, MediaTypes
  <2> QED
    BY <2>1, <2>3, <2>4
<1>5. ASSUME NEW end \in Ends, SendRtcp(end) PROVE MediaTypes'
  BY <1>1, <1>5 DEF SendRtcp
<1> QED
  BY <1>1, <1>2, <1>3, <1>4, <1>5 DEF Next, vars

\* The types of the session's counters, packets, window and reports.
THEOREM SessionTypes == Spec => []TypeOK
<1>1. Init => MediaTypes /\ Numbered
  <2> SUFFICES ASSUME Init PROVE MediaTypes
    BY CountingInit DEF CountingInv
  <2>1. 0 \in Nat /\ 0 \in 0..(SeqModulo - 1) /\ TRUE \in BOOLEAN
    BY Sizes
  <2>2. Counter(0, 0, TRUE) \in Counters
    BY <2>1, CounterTyped, Zenon
  <2>3. NewCounter \in Counters
    BY <2>2 DEF NewCounter, Counter
  <2>4. 0 \in 0..MaxResends
    BY SessionAssumption
  <2> QED
    BY <2>3, <2>4 DEF Init, MediaTypes
<1>2. MediaTypes /\ ReportsInv /\ WindowTypeOK => TypeOK
  BY DEF MediaTypes, ReportsInv, TypeOK
<1>3. Spec => [](WindowTypeOK /\ WindowIsExact)
  BY SessionWindow, WindowIsExactAlways, PTL
<1> QED
  BY <1>1, <1>2, <1>3, NumberedNext, MediaTypesNext, ReportsInit, ReportsNext, PTL DEF Spec
=============================================================================
