----------------------------- MODULE SctpProofs -----------------------------
(***************************************************************************)
(* Theorems about the SCTP association.                                    *)
(*                                                                         *)
(* SctpArrival, for any messages, any size of the two number spaces and    *)
(* any order of arrival: what is acknowledged is what has arrived, and     *)
(* what is delivered is what MessageDelivery promises.                     *)
(*                                                                         *)
(* SctpTransfer, for any messages: bufferedAmount is exact; for messages   *)
(* that may not be skipped: the receiving end is SctpArrival's, nothing    *)
(* is forgotten before it has arrived, and the transfer implements         *)
(* MessageDelivery.                                                        *)
(*                                                                         *)
(* SctpLifecycle, for every bound and every assignment of ICE roles: type  *)
(* correctness, agreement of the two ends, and the absence of untimed      *)
(* waits.                                                                  *)
(***************************************************************************)
EXTENDS SctpTransfer, SctpLifecycle, FiniteSetTheorems, SequenceTheorems,
  WellFoundedInduction, TLAPS

-----------------------------------------------------------------------------
(* Numbers and remainders *)

\* A set of numbers has a least one.
LEMMA LeastNumber ==
  ASSUME NEW S \in SUBSET Nat, S # {}
  PROVE  \E k \in S : \A j \in S : k <= j
<1> DEFINE R == OpToRel(<, Nat)
<1>1. IsWellFoundedOn(R, Nat)
  BY NatLessThanWellFounded
<1>2. \A x, y \in Nat : <<x, y>> \in R <=> x < y
  BY DEF OpToRel
<1> HIDE DEF R
<1>3. PICK k \in S : \A j \in S : ~(<<j, k>> \in R)
  BY <1>1, WFMin
<1>4. ASSUME NEW j \in S PROVE k <= j
  <2>1. j \in Nat /\ k \in Nat
    OBVIOUS
  <2>2. ~(j < k)
    BY <1>2, <1>3, <2>1
  <2> QED
    BY <2>1, <2>2
<1> QED
  BY <1>4

\* A remainder is recognised by its quotient.
LEMMA Recognised ==
  ASSUME NEW m \in Nat \ {0}, NEW a \in Int, NEW r \in 0..(m - 1), NEW q \in Int, a = m * q + r
  PROVE  a % m = r
  OBVIOUS

LEMMA RemainderRange ==
  ASSUME NEW m \in Nat \ {0}, NEW a \in Int
  PROVE  a % m \in 0..(m - 1)
  OBVIOUS

\* A number is its quotient times the space and its remainder; only this is needed of
\* remainders, and no multiplication is left in what follows from it.
LEMMA Decomposed ==
  ASSUME NEW m \in Nat \ {0}, NEW a \in Int
  PROVE  \E q \in Int : a = m * q + (a % m)
<1>1. a \div m \in Int /\ a = m * (a \div m) + (a % m)
  OBVIOUS
<1> QED
  BY <1>1

\* Two numbers less than a space apart have remainders whose difference is that of the
\* numbers, up to one space.
LEMMA CloseRemainders ==
  ASSUME NEW m \in Nat \ {0}, NEW a \in Int, NEW b \in Int, a - b \in (1 - m)..(m - 1)
  PROVE  (a % m) - (b % m) \in {a - b, a - b + m, a - b - m}
<1>1. PICK p \in Int : a = m * p + (a % m)
  BY Decomposed
<1>2. PICK q \in Int : b = m * q + (b % m)
  BY Decomposed
<1>3. a % m \in 0..(m - 1) /\ b % m \in 0..(m - 1)
  BY RemainderRange
<1> DEFINE ra == a % m
           rb == b % m
           k  == p - q
<1>4. k \in Int /\ m * k = m * p - m * q /\ m * p \in Int /\ m * q \in Int
  BY <1>1, <1>2
<1>5. a = m * p + ra /\ b = m * q + rb /\ ra \in 0..(m - 1) /\ rb \in 0..(m - 1)
  BY <1>1, <1>2, <1>3
<1> HIDE DEF ra, rb, k
<1>6. m * k = (a - b) - (ra - rb) /\ m * k \in Int
  BY <1>4, <1>5
<1>7. m * k < 2 * m /\ m * k > -2 * m
  BY <1>5, <1>6
<1>8. k < 2
  <2> SUFFICES ASSUME k >= 2
               PROVE  FALSE
    BY <1>4
  <2>1. m * k >= 2 * m
    BY <1>4
  <2> QED
    BY <2>1, <1>7, <1>6
<1>9. k > -2
  <2> SUFFICES ASSUME k <= -2
               PROVE  FALSE
    BY <1>4
  <2>1. m * k <= -2 * m
    BY <1>4
  <2> QED
    BY <2>1, <1>7, <1>6
<1>10. k \in {-1, 0, 1}
  BY <1>4, <1>8, <1>9
<1>11. m * k \in {-m, 0, m}
  BY <1>10
<1>12. ra - rb \in {a - b, a - b + m, a - b - m}
  BY <1>5, <1>6, <1>11
<1> QED
  BY <1>12 DEF ra, rb

LEMMA Halves ==
  ASSUME NEW m \in Nat \ {0}, m % 2 = 0
  PROVE  \E h \in Nat \ {0} : m = 2 * h /\ m \div 2 = h
<1>1. m \div 2 \in Int /\ m = 2 * (m \div 2)
  OBVIOUS
<1>2. m \div 2 \in Nat \ {0}
  BY <1>1
<1> QED
  BY <1>1, <1>2

LEMMA RemainderOfSum ==
  ASSUME NEW m \in Nat \ {0}, NEW a \in Int, NEW d \in Int
  PROVE  ((a % m) + d) % m = (a + d) % m
<1> DEFINE ra  == a % m
           sum == ra + d
           r   == sum % m
           all == a + d
<1>1. ra \in 0..(m - 1) /\ \E p \in Int : a = m * p + ra
  BY RemainderRange, Decomposed
<1>2. sum \in Int /\ sum = ra + d /\ all \in Int /\ all = a + d
  BY <1>1
<1> HIDE DEF ra, sum, all
<1>3. r \in 0..(m - 1) /\ \E q \in Int : sum = m * q + r
  BY <1>2, RemainderRange, Decomposed
<1> HIDE DEF r
<1>4. PICK p \in Int, q \in Int : a = m * p + ra /\ sum = m * q + r
  BY <1>1, <1>3
<1> DEFINE k == p + q
<1>5. k \in Int /\ m * k = m * p + m * q /\ m * p \in Int /\ m * q \in Int
  OBVIOUS
<1> HIDE DEF k
<1>6. all = m * k + r
  BY <1>1, <1>2, <1>3, <1>4, <1>5
<1>7. r \in 0..(m - 1) /\ all \in Int /\ \E i \in Int : all = m * i + r
  BY <1>2, <1>3, <1>5, <1>6
<1>8. all % m = r
  BY <1>7, Recognised
<1> QED
  BY <1>8 DEF all, r, sum, ra

-----------------------------------------------------------------------------
(* Sums over finite sets.  MapThenSumSet takes the elements of a set in some  *)
(* order; the sum does not depend on it.                                      *)

Picked(s) == CHOOSE x \in s : TRUE
SumOver(S, g) == MapThenSumSet(LAMBDA x : g[x], S)

IsSum(S, g, f) ==
  f = [s \in SUBSET S |-> IF s = {} THEN 0 ELSE g[Picked(s)] + f[s \ {Picked(s)}]]
\* The same for the subsets with at most n elements.
IsSumTo(S, g, n, f) ==
  f = [s \in SUBSET S |-> IF s = {} \/ Cardinality(s) > n THEN 0
                          ELSE g[Picked(s)] + f[s \ {Picked(s)}]]

LEMMA SubsetFinite ==
  ASSUME NEW S, IsFiniteSet(S), NEW s \in SUBSET S
  PROVE  /\ IsFiniteSet(s) /\ Cardinality(s) \in Nat /\ Cardinality(s) <= Cardinality(S)
         /\ Cardinality(S) \in Nat /\ s = {} <=> Cardinality(s) = 0
         /\ \A x \in s : IsFiniteSet(s \ {x}) /\ Cardinality(s \ {x}) = Cardinality(s) - 1
<1>1. IsFiniteSet(s) /\ Cardinality(s) <= Cardinality(S)
  BY FS_Subset
<1>2. Cardinality(s) \in Nat /\ Cardinality(S) \in Nat
  BY <1>1, FS_CardinalityType
<1>3. s = {} <=> Cardinality(s) = 0
  BY <1>1, FS_EmptySet
<1>4. ASSUME NEW x \in s PROVE IsFiniteSet(s \ {x}) /\ Cardinality(s \ {x}) = Cardinality(s) - 1
  BY <1>1, FS_RemoveElement
<1> QED
  BY <1>1, <1>2, <1>3, <1>4

LEMMA PickedIs ==
  ASSUME NEW s, s # {}
  PROVE  Picked(s) \in s
BY DEF Picked

LEMMA SumsExist ==
  ASSUME NEW S, IsFiniteSet(S), NEW g
  PROVE  \E f : IsSum(S, g, f)
<1>1. ASSUME NEW n \in Nat PROVE \E f : IsSumTo(S, g, n, f)
  <2> DEFINE T == {k \in Nat : ~\E f : IsSumTo(S, g, k, f)}
  <2> SUFFICES ASSUME T # {} PROVE FALSE
    OBVIOUS
  <2>1. PICK k \in T : \A j \in T : k <= j
    <3>1. T \in SUBSET Nat
      OBVIOUS
    <3> HIDE DEF T
    <3> QED
      BY <3>1, LeastNumber
  <2>2. k \in Nat /\ ~\E f : IsSumTo(S, g, k, f)
    OBVIOUS
  <2>3. CASE k = 0
    <3> DEFINE f == [s \in SUBSET S |-> 0]
    <3>1. \A s \in SUBSET S : s = {} \/ Cardinality(s) > 0
      BY SubsetFinite
    <3>2. f = [s \in SUBSET S |-> IF s = {} \/ Cardinality(s) > 0 THEN 0
                                  ELSE g[Picked(s)] + f[s \ {Picked(s)}]]
      BY <3>1
    <3>3. IsSumTo(S, g, 0, f)
      BY <3>2 DEF IsSumTo
    <3> QED
      BY <2>2, <2>3, <3>3
  <2>4. CASE k # 0
    <3>1. k - 1 \in Nat /\ ~(k <= k - 1)
      BY <2>2, <2>4
    <3>2. k - 1 \notin T
      BY <2>1, <3>1
    <3>3. PICK f : IsSumTo(S, g, k - 1, f)
      BY <3>1, <3>2
    <3> DEFINE e == [s \in SUBSET S |-> IF s = {} \/ Cardinality(s) > k THEN 0
                                        ELSE g[Picked(s)] + f[s \ {Picked(s)}]]
    <3> HIDE DEF T
    <3>4. ASSUME NEW s \in SUBSET S, Cardinality(s) <= k - 1 PROVE e[s] = f[s]
      <4>1. Cardinality(s) \in Nat /\ ~(Cardinality(s) > k) /\ ~(Cardinality(s) > k - 1)
        BY <2>2, <3>4, SubsetFinite
      <4>2. f[s] = IF s = {} \/ Cardinality(s) > k - 1 THEN 0 ELSE g[Picked(s)] + f[s \ {Picked(s)}]
        BY <3>3 DEF IsSumTo
      <4> QED
        BY <4>1, <4>2
    <3>5. ASSUME NEW s \in SUBSET S, s # {}, ~(Cardinality(s) > k)
          PROVE  e[s \ {Picked(s)}] = f[s \ {Picked(s)}]
      <4>1. s \ {Picked(s)} \in SUBSET S /\ Picked(s) \in s
        BY <3>5, PickedIs
      <4>2. Cardinality(s) \in Nat /\ Cardinality(s \ {Picked(s)}) = Cardinality(s) - 1
        BY <4>1, SubsetFinite
      <4>3. Cardinality(s \ {Picked(s)}) <= k - 1
        BY <2>2, <3>5, <4>2
      <4> QED
        BY <3>4, <4>1, <4>3
    <3>6. e = [s \in SUBSET S |-> IF s = {} \/ Cardinality(s) > k THEN 0
                                  ELSE g[Picked(s)] + e[s \ {Picked(s)}]]
      BY <3>5
    <3> HIDE DEF e
    <3>7. IsSumTo(S, g, k, e)
      BY <3>6 DEF IsSumTo
    <3> QED
      BY <2>2, <3>7
  <2> QED
    BY <2>3, <2>4
<1> DEFINE n == Cardinality(S)
<1>2. n \in Nat
  BY FS_CardinalityType
<1>3. PICK f : IsSumTo(S, g, n, f)
  BY <1>1, <1>2
<1>4. \A s \in SUBSET S : ~(Cardinality(s) > n)
  BY <1>2, SubsetFinite
<1> HIDE DEF n
<1>5. f = [s \in SUBSET S |-> IF s = {} THEN 0 ELSE g[Picked(s)] + f[s \ {Picked(s)}]]
  BY <1>3, <1>4 DEF IsSumTo
<1> QED
  BY <1>5 DEF IsSum

\* Two sums agree on the sets that they have in common.
LEMMA SumsAgree ==
  ASSUME NEW S, IsFiniteSet(S), NEW g, NEW f, IsSum(S, g, f),
         NEW S2, IsFiniteSet(S2), NEW g2, NEW f2, IsSum(S2, g2, f2),
         \A x \in S \cap S2 : g[x] = g2[x], NEW t \in SUBSET (S \cap S2)
  PROVE  f[t] = f2[t]
<1> DEFINE U == SUBSET (S \cap S2)
           T == {k \in Nat : \E s \in U : Cardinality(s) = k /\ f[s] # f2[s]}
<1>0. \A s \in U : s \in SUBSET S /\ s \in SUBSET S2 /\ Cardinality(s) \in Nat
  BY SubsetFinite
<1> SUFFICES ASSUME T # {} PROVE FALSE
  BY <1>0
<1>1. PICK k \in T : \A j \in T : k <= j
  <2>1. T \in SUBSET Nat
    OBVIOUS
  <2> HIDE DEF T
  <2> QED
    BY <2>1, LeastNumber
<1>2. PICK s \in U : Cardinality(s) = k /\ f[s] # f2[s]
  OBVIOUS
<1>3. /\ f[s] = IF s = {} THEN 0 ELSE g[Picked(s)] + f[s \ {Picked(s)}]
      /\ f2[s] = IF s = {} THEN 0 ELSE g2[Picked(s)] + f2[s \ {Picked(s)}]
  BY <1>0 DEF IsSum
<1>4. s # {}
  BY <1>2, <1>3
<1> DEFINE r == s \ {Picked(s)}
<1>5. Picked(s) \in s /\ r \in U /\ g[Picked(s)] = g2[Picked(s)]
  BY <1>4, PickedIs
<1>6. Cardinality(r) = k - 1 /\ k \in Nat /\ Cardinality(r) \in Nat
  BY <1>0, <1>2, <1>5, SubsetFinite
<1>7. Cardinality(r) \notin T
  <2>1. ~(k <= Cardinality(r))
    BY <1>6
  <2> HIDE DEF T, r
  <2> QED
    BY <1>1, <2>1
<1>8. f[r] = f2[r]
  BY <1>5, <1>6, <1>7
<1> HIDE DEF r, T, U
<1> QED
  BY <1>2, <1>3, <1>4, <1>5, <1>8 DEF r

\* What is added last may be any element.
LEMMA SumInserts ==
  ASSUME NEW S, IsFiniteSet(S), NEW g, \A x \in S : g[x] \in Int, NEW f, IsSum(S, g, f)
  PROVE  \A s \in SUBSET S : f[s] \in Int /\ \A x \in s : f[s] = f[s \ {x}] + g[x]
<1> DEFINE Bad(s) == ~(f[s] \in Int /\ \A x \in s : f[s] = f[s \ {x}] + g[x])
           T == {k \in Nat : \E s \in SUBSET S : Cardinality(s) = k /\ Bad(s)}
<1>0. \A s \in SUBSET S : Cardinality(s) \in Nat
  BY SubsetFinite
<1> SUFFICES ASSUME T # {} PROVE FALSE
  BY <1>0
<1>1. PICK k \in T : \A j \in T : k <= j
  <2>1. T \in SUBSET Nat
    OBVIOUS
  <2> HIDE DEF T
  <2> QED
    BY <2>1, LeastNumber
<1>2. PICK s \in SUBSET S : Cardinality(s) = k /\ Bad(s)
  OBVIOUS
<1>3. ASSUME NEW r \in SUBSET S, Cardinality(r) < k PROVE ~Bad(r)
  <2>1. Cardinality(r) \in Nat /\ k \in Nat /\ ~(k <= Cardinality(r))
    BY <1>0, <1>3
  <2>2. Cardinality(r) \notin T
    <3> HIDE DEF T
    <3> QED
      BY <1>1, <2>1
  <2> QED
    BY <2>1, <2>2
<1> HIDE DEF T
<1>4. ASSUME NEW r \in SUBSET S
      PROVE  f[r] = IF r = {} THEN 0 ELSE g[Picked(r)] + f[r \ {Picked(r)}]
  BY DEF IsSum
<1>5. s # {}
  <2> SUFFICES ASSUME s = {} PROVE FALSE
    OBVIOUS
  <2>1. f[s] = 0
    BY <1>4
  <2> QED
    BY <1>2, <2>1
<1> DEFINE y == Picked(s)
           r == s \ {y}
<1>6. y \in s /\ r \in SUBSET S /\ g[y] \in Int /\ f[s] = g[y] + f[r]
  BY <1>4, <1>5, PickedIs
<1> HIDE DEF y
<1>7. Cardinality(s) \in Nat /\ Cardinality(r) = Cardinality(s) - 1
  BY <1>6, SubsetFinite
<1>8. ~Bad(r)
  <2>1. Cardinality(r) < k
    BY <1>2, <1>7
  <2> QED
    BY <1>3, <1>6, <2>1
<1>9. f[r] \in Int /\ f[s] \in Int
  BY <1>6, <1>8
<1>10. ASSUME NEW x \in s PROVE f[s] = f[s \ {x}] + g[x]
  <2>1. CASE x = y
    BY <1>6, <1>9, <2>1
  <2>2. CASE x # y
    <3> DEFINE q == s \ {x}
    <3>1. x \in r /\ y \in q /\ q \in SUBSET S /\ g[x] \in Int /\ r \ {x} = q \ {y}
          /\ r \ {x} \in SUBSET S
      BY <1>6, <2>2
    <3>2. Cardinality(q) = Cardinality(s) - 1
      BY SubsetFinite
    <3>3. ~Bad(q)
      <4>1. Cardinality(q) < k
        BY <1>2, <1>7, <3>2
      <4> HIDE DEF q
      <4> QED
        BY <1>3, <3>1, <4>1
    <3>4. f[r] = f[r \ {x}] + g[x] /\ f[q] = f[q \ {y}] + g[y]
      BY <1>8, <3>1, <3>3
    <3>5. f[r \ {x}] \in Int
      <4>1. Cardinality(r \ {x}) = Cardinality(r) - 1
        BY <1>6, <3>1, SubsetFinite
      <4>2. Cardinality(r \ {x}) < k
        BY <1>2, <1>7, <4>1
      <4> QED
        BY <1>3, <3>1, <4>2
    <3> DEFINE a == f[r \ {x}]
    <3>6. f[q] = a + g[y] /\ f[r] = a + g[x] /\ f[s] = g[y] + f[r] /\ a \in Int
          /\ g[x] \in Int /\ g[y] \in Int
      BY <1>6, <3>1, <3>4, <3>5
    <3> HIDE DEF a, q, r
    <3>7. f[s] = f[q] + g[x]
      BY <3>6
    <3> QED
      BY <3>7 DEF q
  <2> QED
    BY <2>1, <2>2
<1> QED
  BY <1>2, <1>9, <1>10

LEMMA SumLast ==
  ASSUME NEW S, IsFiniteSet(S), NEW g, \A x \in S : g[x] \in Int, NEW f, IsSum(S, g, f),
         NEW s \in SUBSET S, NEW x \in s
  PROVE  f[s] = f[s \ {x}] + g[x]
BY SumInserts

LEMMA SumIs ==
  ASSUME NEW S, IsFiniteSet(S), NEW g
  PROVE  \E f : IsSum(S, g, f) /\ SumOver(S, g) = f[S]
<1> DEFINE f == CHOOSE h : IsSum(S, g, h)
<1>1. IsSum(S, g, f)
  BY SumsExist
<1>2. SumOver(S, g) = f[S]
  BY DEF SumOver, MapThenSumSet, MapThenFoldSet, IsSum, Picked
<1> QED
  BY <1>1, <1>2

\* The sum over a part of a set, read in the sum over the whole.
LEMMA SumOfPart ==
  ASSUME NEW S, IsFiniteSet(S), NEW g, NEW f, IsSum(S, g, f), NEW t \in SUBSET S, NEW h,
         \A x \in t : h[x] = g[x]
  PROVE  SumOver(t, h) = f[t]
<1>1. IsFiniteSet(t)
  BY SubsetFinite
<1>2. PICK e : IsSum(t, h, e) /\ SumOver(t, h) = e[t]
  BY <1>1, SumIs
<1>3. t \in SUBSET (t \cap S) /\ \A x \in t \cap S : h[x] = g[x]
  OBVIOUS
<1>4. e[t] = f[t]
  BY <1>1, <1>2, <1>3, SumsAgree
<1> QED
  BY <1>2, <1>4

LEMMA SumTyped ==
  ASSUME NEW S, IsFiniteSet(S), NEW g, \A x \in S : g[x] \in Int
  PROVE  SumOver(S, g) \in Int
<1>1. PICK f : IsSum(S, g, f) /\ SumOver(S, g) = f[S]
  BY SumIs
<1> QED
  BY <1>1, SumInserts

LEMMA SumOfNothing ==
  ASSUME NEW g
  PROVE  SumOver({}, g) = 0
<1>1. IsFiniteSet({})
  BY FS_EmptySet
<1>2. PICK f : IsSum({}, g, f) /\ SumOver({}, g) = f[{}]
  BY <1>1, SumIs
<1> QED
  BY <1>2 DEF IsSum

LEMMA SumOfEqual ==
  ASSUME NEW S, IsFiniteSet(S), NEW g, NEW h, \A x \in S : h[x] = g[x]
  PROVE  SumOver(S, h) = SumOver(S, g)
<1>1. PICK f : IsSum(S, g, f) /\ SumOver(S, g) = f[S]
  BY SumIs
<1> QED
  BY <1>1, SumOfPart

LEMMA SumOfMore ==
  ASSUME NEW S, IsFiniteSet(S), NEW x, x \notin S, NEW g, \A y \in S \cup {x} : g[y] \in Int
  PROVE  SumOver(S \cup {x}, g) = SumOver(S, g) + g[x]
<1> DEFINE U == S \cup {x}
<1>1. IsFiniteSet(U)
  BY FS_AddElement
<1>2. PICK f : IsSum(U, g, f) /\ SumOver(U, g) = f[U]
  BY <1>1, SumIs
<1>3. SumOver(S, g) = f[S]
  BY <1>1, <1>2, SumOfPart
<1>4. U \ {x} = S /\ x \in U /\ U \in SUBSET U /\ \A y \in U : g[y] \in Int
  OBVIOUS
<1> HIDE DEF U
<1>5. f[U] = f[U \ {x}] + g[x]
  <2>1. IsSum(U, g, f)
    BY <1>2
  <2>2. \A y \in U : g[y] \in Int
    BY <1>4
  <2>3. U \in SUBSET U /\ x \in U
    BY <1>4
  <2> QED
    BY <1>1, <2>1, <2>2, <2>3, SumLast
<1> QED
  BY <1>2, <1>3, <1>4, <1>5 DEF U

\* The sum over two sets that have nothing in common.
LEMMA SumOfBoth ==
  ASSUME NEW A, IsFiniteSet(A), NEW B, IsFiniteSet(B), A \cap B = {},
         NEW g, \A x \in A \cup B : g[x] \in Int
  PROVE  SumOver(A \cup B, g) = SumOver(A, g) + SumOver(B, g)
<1> DEFINE Bad(s) == SumOver(A \cup s, g) # SumOver(A, g) + SumOver(s, g)
           T == {k \in Nat : \E s \in SUBSET B : Cardinality(s) = k /\ Bad(s)}
<1>0. \A s \in SUBSET B : Cardinality(s) \in Nat
  BY SubsetFinite
<1> SUFFICES ASSUME T # {} PROVE FALSE
  <2>1. B \in SUBSET B
    OBVIOUS
  <2> QED
    BY <1>0, <2>1
<1>1. PICK k \in T : \A j \in T : k <= j
  <2>1. T \in SUBSET Nat
    OBVIOUS
  <2> HIDE DEF T
  <2> QED
    BY <2>1, LeastNumber
<1>2. PICK s \in SUBSET B : Cardinality(s) = k /\ Bad(s)
  OBVIOUS
<1>3. SumOver(A, g) \in Int
  BY SumTyped
<1>4. s # {}
  <2> SUFFICES ASSUME s = {} PROVE FALSE
    OBVIOUS
  <2>1. SumOver(s, g) = 0
    BY SumOfNothing
  <2>2. A \cup s = A
    OBVIOUS
  <2>3. SumOver(A \cup s, g) # SumOver(A, g) + SumOver(s, g)
    BY <1>2
  <2> HIDE DEF Bad, T
  <2>4. SumOver(A, g) # SumOver(A, g) + 0
    BY <2>1, <2>2, <2>3
  <2> QED
    BY <1>3, <2>4
<1>5. PICK x \in s : TRUE
  BY <1>4
<1> DEFINE r == s \ {x}
<1>6. r \in SUBSET B /\ IsFiniteSet(r) /\ Cardinality(r) = Cardinality(s) - 1 /\ s = r \cup {x}
      /\ x \notin r /\ x \notin A \cup r /\ A \cup s = (A \cup r) \cup {x}
  BY SubsetFinite
<1> HIDE DEF r
<1>7. ~Bad(r)
  <2>1. k \in Nat /\ Cardinality(r) \in Nat /\ ~(k <= Cardinality(r))
    BY <1>0, <1>2, <1>6
  <2>2. Cardinality(r) \notin T
    <3> HIDE DEF T
    <3> QED
      BY <1>1, <2>1
  <2> QED
    BY <1>6, <2>1, <2>2
<1>8. SumOver(r \cup {x}, g) = SumOver(r, g) + g[x]
  <2>1. \A y \in r \cup {x} : g[y] \in Int
    BY <1>6
  <2> QED
    BY <1>6, <2>1, SumOfMore
<1>9. SumOver((A \cup r) \cup {x}, g) = SumOver(A \cup r, g) + g[x]
  <2>1. \A y \in (A \cup r) \cup {x} : g[y] \in Int
    BY <1>6
  <2>2. IsFiniteSet(A \cup r)
    BY <1>6, FS_Union
  <2> QED
    BY <1>6, <2>1, <2>2, SumOfMore
<1>10. SumOver(r, g) \in Int /\ g[x] \in Int
  <2>1. \A y \in r : g[y] \in Int
    BY <1>6
  <2> QED
    BY <1>6, <2>1, SumTyped
<1> DEFINE a == SumOver(A, g)
           b == SumOver(r, g)
           c == g[x]
<1>11. SumOver(A \cup r, g) = a + b /\ SumOver(s, g) = b + c
       /\ SumOver(A \cup s, g) = SumOver(A \cup r, g) + c
       /\ a \in Int /\ b \in Int /\ c \in Int
  BY <1>3, <1>6, <1>7, <1>8, <1>9, <1>10
<1> HIDE DEF a, b, c
<1>12. SumOver(A \cup s, g) = a + SumOver(s, g)
  BY <1>11
<1> QED
  BY <1>2, <1>12 DEF a

-----------------------------------------------------------------------------
(* The chunks in the order of their TSNs.  The n-th of them has TsnAt(n).     *)

Total == Fragments[Len(Messages)]
TsnAt(n) == (InitialTsn + n - 1) % TsnModulo

\* The association has fewer chunks than half the space: none is taken for an older one.
TsnsSuffice == 2 * Total < TsnModulo

LEMMA MessagesTyped ==
  /\ Len(Messages) \in Nat /\ Numbers = 1 .. Len(Messages)
  /\ \A k \in Numbers : /\ Messages[k].sizes \in Seq(Nat) /\ Len(Messages[k].sizes) \in Nat \ {0}
                        /\ DOMAIN Messages[k].sizes = 1 .. Len(Messages[k].sizes)
                        /\ Messages[k].stream \in Streams /\ Messages[k].unordered \in BOOLEAN
<1>1. Messages \in Seq({Messages[k] : k \in DOMAIN Messages})
  BY MessagesAssumption
<1>2. Len(Messages) \in Nat /\ Numbers = 1 .. Len(Messages)
  BY <1>1 DEF Numbers
<1>3. ASSUME NEW k \in Numbers
      PROVE  /\ Messages[k].sizes \in Seq(Nat) /\ Len(Messages[k].sizes) \in Nat \ {0}
             /\ DOMAIN Messages[k].sizes = 1 .. Len(Messages[k].sizes)
             /\ Messages[k].stream \in Streams /\ Messages[k].unordered \in BOOLEAN
  <2>1. Messages[k].sizes \in Seq(Nat) /\ Messages[k].sizes # << >> /\ Messages[k].unordered \in BOOLEAN
    BY MessagesAssumption DEF Numbers
  <2> QED
    BY <2>1 DEF Streams
<1> QED
  BY <1>2, <1>3

\* The sums exist.
IsFragments(n, f) ==
  f = [k \in 0 .. n |-> IF k = 0 THEN 0 ELSE f[k - 1] + Len(Messages[k].sizes)]

LEMMA FragmentsExist ==
  ASSUME NEW n \in Nat
  PROVE  \E f : IsFragments(n, f)
<1> DEFINE T == {k \in Nat : ~\E f : IsFragments(k, f)}
<1> SUFFICES ASSUME T # {} PROVE FALSE
  OBVIOUS
<1>1. PICK k \in T : \A j \in T : k <= j
  <2>1. T \in SUBSET Nat
    OBVIOUS
  <2> HIDE DEF T
  <2> QED
    BY <2>1, LeastNumber
<1>2. k \in Nat /\ ~\E f : IsFragments(k, f)
  OBVIOUS
<1>3. CASE k = 0
  <2> DEFINE f == [i \in 0 .. 0 |-> 0]
  <2>1. IsFragments(0, f)
    BY DEF IsFragments
  <2> QED
    BY <1>2, <1>3, <2>1
<1>4. CASE k # 0
  <2>1. k - 1 \in Nat /\ k - 1 < k
    BY <1>2, <1>4
  <2>2. k - 1 \notin T
    BY <1>1, <1>2, <2>1
  <2>3. PICK f : IsFragments(k - 1, f)
    BY <2>1, <2>2
  <2> DEFINE g == [i \in 0 .. k |-> IF i = k THEN f[k - 1] + Len(Messages[k].sizes) ELSE f[i]]
  <2>4. ASSUME NEW i \in 0 .. k
        PROVE  g[i] = IF i = 0 THEN 0 ELSE g[i - 1] + Len(Messages[i].sizes)
    <3>1. CASE i = k
      <4>1. g[i] = f[k - 1] + Len(Messages[k].sizes) /\ g[i - 1] = f[k - 1]
        BY <3>1, <2>1, <1>2
      <4> QED
        BY <4>1, <3>1, <1>4
    <3>2. CASE i # k
      <4>1. i \in 0 .. (k - 1) /\ (i # 0 => i - 1 \in 0 .. k /\ i - 1 # k)
        BY <3>2, <1>2
      <4>2. f[i] = IF i = 0 THEN 0 ELSE f[i - 1] + Len(Messages[i].sizes)
        BY <2>3, <4>1 DEF IsFragments
      <4>3. g[i] = f[i] /\ (i # 0 => g[i - 1] = f[i - 1])
        BY <4>1, <3>2
      <4> QED
        BY <4>2, <4>3
    <3> QED
      BY <3>1, <3>2
  <2>5. g = [i \in 0 .. k |-> g[i]]
    OBVIOUS
  <2> HIDE DEF g
  <2>6. IsFragments(k, g)
    BY <2>4, <2>5 DEF IsFragments
  <2> QED
    BY <1>2, <2>6
<1> QED
  BY <1>3, <1>4

LEMMA FragmentsAre ==
  /\ Fragments[0] = 0
  /\ \A k \in Numbers : Fragments[k] = Fragments[k - 1] + Len(Messages[k].sizes)
<1> DEFINE n == Len(Messages)
           after == CHOOSE f : IsFragments(n, f)
<1>1. IsFragments(n, after)
  BY FragmentsExist, MessagesTyped
<1>2. Fragments = after
  BY DEF Fragments, IsFragments
<1> HIDE DEF after
<1>3. \A k \in 0 .. n :
        Fragments[k] = IF k = 0 THEN 0 ELSE Fragments[k - 1] + Len(Messages[k].sizes)
  BY <1>1, <1>2 DEF IsFragments
<1> QED
  BY <1>3, MessagesTyped

LEMMA FragmentsTyped ==
  ASSUME NEW k \in 0 .. Len(Messages)
  PROVE  Fragments[k] \in Nat
<1> DEFINE T == {j \in Nat : j <= Len(Messages) /\ Fragments[j] \notin Nat}
<1> SUFFICES ASSUME T # {} PROVE FALSE
  BY MessagesTyped
<1>1. PICK j \in T : \A i \in T : j <= i
  <2>1. T \in SUBSET Nat
    OBVIOUS
  <2> HIDE DEF T
  <2> QED
    BY <2>1, LeastNumber
<1>2. j \in Nat /\ j <= Len(Messages) /\ Fragments[j] \notin Nat
  OBVIOUS
<1>3. j # 0 /\ j \in Numbers /\ j - 1 \in Nat
  BY <1>2, FragmentsAre, MessagesTyped
<1>4. j - 1 \notin T
  BY <1>1, <1>2, <1>3
<1>5. Fragments[j - 1] \in Nat
  BY <1>2, <1>3, <1>4, MessagesTyped
<1>6. Fragments[j] = Fragments[j - 1] + Len(Messages[j].sizes)
  BY <1>3, FragmentsAre
<1>7. Len(Messages[j].sizes) \in Nat
  BY <1>3, MessagesTyped
<1> QED
  BY <1>2, <1>5, <1>6, <1>7

\* Later messages have later chunks.
LEMMA FragmentsGrow ==
  ASSUME NEW j \in 0 .. Len(Messages), NEW k \in 0 .. Len(Messages), j <= k
  PROVE  Fragments[j] <= Fragments[k]
<1> DEFINE T == {i \in Nat : i <= Len(Messages) /\ j <= i /\ ~(Fragments[j] <= Fragments[i])}
<1> SUFFICES ASSUME T # {} PROVE FALSE
  BY MessagesTyped
<1>1. PICK i \in T : \A h \in T : i <= h
  <2>1. T \in SUBSET Nat
    OBVIOUS
  <2> HIDE DEF T
  <2> QED
    BY <2>1, LeastNumber
<1>2. i \in Nat /\ i <= Len(Messages) /\ j <= i /\ ~(Fragments[j] <= Fragments[i])
  OBVIOUS
<1>3. Fragments[j] \in Nat /\ Fragments[i] \in Nat /\ j \in Nat
  BY <1>2, FragmentsTyped, MessagesTyped
<1>4. i # j /\ i - 1 \in Nat /\ i - 1 >= j /\ i \in Numbers /\ i - 1 \in 0 .. Len(Messages)
  BY <1>2, <1>3, MessagesTyped
<1>5. i - 1 \notin T
  BY <1>1, <1>2, <1>4
<1>6. Fragments[j] <= Fragments[i - 1] /\ Fragments[i - 1] \in Nat
  BY <1>2, <1>4, <1>5, FragmentsTyped, MessagesTyped
<1>7. Fragments[i] = Fragments[i - 1] + Len(Messages[i].sizes)
  BY <1>4, FragmentsAre
<1>8. Len(Messages[i].sizes) \in Nat
  BY <1>4, MessagesTyped
<1> QED
  BY <1>2, <1>3, <1>6, <1>7, <1>8

Sizes(k) == Messages[k].sizes
Place(k, i) == FragmentsBefore(k) + i

LEMMA PlaceTyped ==
  ASSUME NEW k \in Numbers, NEW i \in 1 .. Len(Sizes(k))
  PROVE  /\ FragmentsBefore(k) \in Nat /\ Place(k, i) \in 1 .. Total /\ Total \in Nat
         /\ Place(k, i) <= Fragments[k] /\ Fragments[k] \in Nat
         /\ Fragments[k] = FragmentsBefore(k) + Len(Sizes(k))
<1>1. /\ Len(Messages) \in Nat /\ k \in 1 .. Len(Messages) /\ Len(Sizes(k)) \in Nat
      /\ k - 1 \in 0 .. Len(Messages) /\ k \in 0 .. Len(Messages)
      /\ Len(Messages) \in 0 .. Len(Messages)
  BY MessagesTyped DEF Sizes
<1>2. Fragments[k] = FragmentsBefore(k) + Len(Sizes(k))
  BY FragmentsAre DEF FragmentsBefore, Sizes
<1>3. FragmentsBefore(k) \in Nat /\ Fragments[k] \in Nat /\ Total \in Nat
  BY <1>1, FragmentsTyped DEF FragmentsBefore, Total
<1>4. Fragments[k] <= Total
  BY <1>1, FragmentsGrow DEF Total
<1> QED
  BY <1>1, <1>2, <1>3, <1>4 DEF Place

LEMMA PlaceInjective ==
  ASSUME NEW k \in Numbers, NEW i \in 1 .. Len(Sizes(k)),
         NEW l \in Numbers, NEW j \in 1 .. Len(Sizes(l)), Place(k, i) = Place(l, j)
  PROVE  k = l /\ i = j
<1>1. ASSUME NEW a \in Numbers, NEW x \in 1 .. Len(Sizes(a)),
             NEW b \in Numbers, NEW y \in 1 .. Len(Sizes(b)), a < b
      PROVE  Place(a, x) < Place(b, y)
  <2>1. /\ Place(a, x) <= Fragments[a] /\ Fragments[a] \in Nat /\ Place(a, x) \in Nat
        /\ FragmentsBefore(b) \in Nat /\ Place(b, y) = FragmentsBefore(b) + y /\ y \in Nat \ {0}
    <3>1. Place(a, x) <= Fragments[a] /\ Fragments[a] \in Nat /\ Place(a, x) \in Nat
      BY PlaceTyped
    <3>2. FragmentsBefore(b) \in Nat
      BY PlaceTyped
    <3>3. y \in Nat \ {0}
      <4>1. Len(Sizes(b)) \in Nat
        <5>1. Len(Messages[b].sizes) \in Nat \ {0}
          BY MessagesTyped
        <5> QED
          BY <5>1 DEF Sizes
      <4> QED
        BY <4>1
    <3> QED
      BY <3>1, <3>2, <3>3 DEF Place
  <2>2. a \in 0 .. Len(Messages) /\ b - 1 \in 0 .. Len(Messages) /\ a <= b - 1
    BY <1>1, MessagesTyped
  <2>3. Fragments[a] <= FragmentsBefore(b)
    BY <2>2, FragmentsGrow DEF FragmentsBefore
  <2> QED
    BY <2>1, <2>3
<1>2. Place(k, i) \in Nat /\ k \in Nat /\ l \in Nat
  BY PlaceTyped, MessagesTyped
<1>3. ~(k < l) /\ ~(l < k)
  BY <1>1, <1>2
<1>4. k = l
  BY <1>2, <1>3
<1> QED
  BY <1>4, PlaceTyped, MessagesTyped DEF Place, Sizes

LEMMA TsnSpace ==
  TsnModulo \in Nat \ {0} /\ InitialTsn \in 0 .. TsnModulo - 1 /\ TsnModulo >= 2
  /\ \E h \in Nat \ {0} : TsnModulo = 2 * h /\ TsnModulo \div 2 = h
<1>1. TsnModulo \in Nat \ {0} /\ TsnModulo % 2 = 0 /\ InitialTsn \in 0 .. TsnModulo - 1
  BY ModuloAssumption, InitialTsnAssumption DEF Tsns
<1>2. \E h \in Nat \ {0} : TsnModulo = 2 * h /\ TsnModulo \div 2 = h
  BY <1>1, Halves
<1>3. TsnModulo >= 2
  BY <1>2
<1> QED
  BY <1>1, <1>2, <1>3

LEMMA TsnTyped ==
  ASSUME NEW a \in Int
  PROVE  TsnAt(a) \in Tsns
  BY TsnSpace, RemainderRange DEF TsnAt, Tsns

LEMMA TsnInjective ==
  ASSUME TsnsSuffice, Total \in Nat, NEW a \in 0 .. Total + 1, NEW b \in 0 .. Total + 1,
         TsnAt(a) = TsnAt(b)
  PROVE  a = b
<1> DEFINE m == TsnModulo
           x == InitialTsn + a - 1
           y == InitialTsn + b - 1
<1>1. m \in Nat \ {0} /\ x \in Int /\ y \in Int /\ x - y = a - b /\ m >= 2 /\ InitialTsn \in Int
  BY TsnSpace
<1>2. x - y \in (1 - m) .. (m - 1)
  BY <1>1 DEF TsnsSuffice
<1>3. TsnAt(a) = x % m /\ TsnAt(b) = y % m
  BY DEF TsnAt
<1> HIDE DEF x, y
<1>4. TsnAt(a) - TsnAt(b) \in {x - y, x - y + m, x - y - m}
  BY <1>1, <1>2, <1>3, CloseRemainders
<1>5. TsnAt(a) \in Int /\ TsnAt(a) - TsnAt(b) = 0
  BY <1>1, <1>3, RemainderRange
<1> QED
  BY <1>1, <1>2, <1>4, <1>5

LEMMA TsnDifference ==
  ASSUME TsnsSuffice, Total \in Nat, NEW a \in 0 .. Total, NEW b \in 0 .. Total
  PROVE  (TsnAt(a) - TsnAt(b)) % TsnModulo = IF a >= b THEN a - b ELSE a - b + TsnModulo
<1> DEFINE m == TsnModulo
           x == InitialTsn + a - 1
           y == InitialTsn + b - 1
           d == TsnAt(a) - TsnAt(b)
           r == IF a >= b THEN a - b ELSE a - b + m
<1>1. m \in Nat \ {0} /\ x \in Int /\ y \in Int /\ x - y = a - b /\ m >= 2 /\ InitialTsn \in Int
  BY TsnSpace
<1>2. x - y \in (1 - m) .. (m - 1)
  BY <1>1 DEF TsnsSuffice
<1>3. TsnAt(a) = x % m /\ TsnAt(b) = y % m
  BY DEF TsnAt
<1> HIDE DEF x, y
<1>4. d \in {x - y, x - y + m, x - y - m}
  BY <1>1, <1>2, <1>3, CloseRemainders
<1>5. r \in 0 .. (m - 1)
  BY <1>1 DEF TsnsSuffice
<1>6. \E q \in Int : d = m * q + r
  <2>1. d \in {r, r - m, r + m, r - 2 * m}
    BY <1>1, <1>4
  <2> HIDE DEF d, r
  <2>2. r \in Int /\ m \in Int
    BY <1>1, <1>5
  <2>3. r = m * 0 + r /\ r - m = m * (-1) + r /\ r + m = m * 1 + r /\ r - 2 * m = m * (-2) + r
    BY <2>2
  <2> QED
    BY <2>1, <2>3
<1>7. d \in Int
  BY <1>1, <1>4
<1> HIDE DEF d, r
<1>8. d % m = r
  BY <1>1, <1>5, <1>6, <1>7, Recognised
<1> QED
  BY <1>8 DEF d, r

LEMMA TsnCompare ==
  ASSUME TsnsSuffice, Total \in Nat, NEW a \in 0 .. Total, NEW b \in 0 .. Total
  PROVE  /\ Uint32Gt(TsnAt(a), TsnAt(b)) <=> a > b
         /\ Uint32Gte(TsnAt(a), TsnAt(b)) <=> a >= b
<1>1. PICK h \in Nat \ {0} : TsnModulo = 2 * h /\ TsnModulo \div 2 = h
  BY TsnSpace
<1>2. Total < h
  BY <1>1 DEF TsnsSuffice
<1> DEFINE r == (TsnAt(a) - TsnAt(b)) % TsnModulo
<1>3. r = IF a >= b THEN a - b ELSE a - b + TsnModulo
  BY TsnDifference
<1>4. TsnAt(a) = TsnAt(b) => a = b
  BY TsnInjective
<1>5. Uint32Gt(TsnAt(a), TsnAt(b)) <=> r < h /\ TsnAt(a) # TsnAt(b)
  BY <1>1 DEF Uint32Gt
<1> HIDE DEF r
<1>6. Uint32Gt(TsnAt(a), TsnAt(b)) <=> a > b
  BY <1>1, <1>2, <1>3, <1>4, <1>5
<1> QED
  BY <1>4, <1>6 DEF Uint32Gte

LEMMA TsnLater ==
  ASSUME NEW a \in Int, NEW d \in Int
  PROVE  (TsnAt(a) + d) % TsnModulo = TsnAt(a + d)
<1>1. TsnModulo \in Nat \ {0} /\ InitialTsn \in Int
  BY TsnSpace
<1> DEFINE z == InitialTsn + a - 1
<1>2. z \in Int /\ z + d = InitialTsn + (a + d) - 1
  BY <1>1
<1>3. TsnAt(a) = z % TsnModulo
  BY DEF TsnAt
<1>4. TsnAt(a + d) = (z + d) % TsnModulo
  BY <1>2 DEF TsnAt
<1> HIDE DEF z
<1>5. ((z % TsnModulo) + d) % TsnModulo = (z + d) % TsnModulo
  BY <1>1, <1>2, RemainderOfSum
<1> QED
  BY <1>3, <1>4, <1>5

LEMMA TsnSuccessor ==
  ASSUME NEW a \in Int
  PROVE  TsnPlusOne(TsnAt(a)) = TsnAt(a + 1)
  BY TsnLater DEF TsnPlusOne

LEMMA TsnBefore ==
  TsnMinusOne(InitialTsn) = TsnAt(0)
  BY TsnSpace DEF TsnMinusOne, TsnAt

-----------------------------------------------------------------------------
(* The chunks of the messages.                                               *)

LEMMA ChunkFields ==
  ASSUME NEW k \in Numbers, NEW i \in 1 .. Len(Sizes(k))
  PROVE  /\ Chunks[k][i] \in AllChunks
         /\ Chunks[k][i].tsn = TsnAt(Place(k, i)) /\ Chunks[k][i].tsn \in Tsns
         /\ Chunks[k][i].stream = Messages[k].stream
         /\ Chunks[k][i].ssn = StreamSeq(k)
         /\ Chunks[k][i].unordered = Messages[k].unordered
         /\ Chunks[k][i].begin = (i = 1)
         /\ Chunks[k][i].end = (i = Len(Sizes(k)))
         /\ Chunks[k][i].size = Sizes(k)[i]
<1>1. DOMAIN Messages[k].sizes = 1 .. Len(Sizes(k))
  BY MessagesTyped DEF Sizes
<1> DEFINE c == [tsn |-> (InitialTsn + FragmentsBefore(k) + i - 1) % TsnModulo,
                 stream |-> Messages[k].stream, ssn |-> StreamSeq(k),
                 unordered |-> Messages[k].unordered,
                 begin |-> i = 1, end |-> i = Len(Messages[k].sizes),
                 size |-> Messages[k].sizes[i], msg |-> k]
<1>2. Chunks[k][i] = c
  BY <1>1 DEF Chunks
<1>3. DOMAIN Chunks[k] = 1 .. Len(Sizes(k))
  BY <1>1 DEF Chunks
<1>4. Chunks[k][i] \in AllChunks
  BY <1>3 DEF AllChunks, ToSet
<1>5. c.tsn = TsnAt(Place(k, i))
  <2>1. FragmentsBefore(k) \in Nat /\ i \in Nat /\ InitialTsn \in Int
    BY PlaceTyped, TsnSpace, MessagesTyped
  <2>2. InitialTsn + FragmentsBefore(k) + i - 1 = InitialTsn + Place(k, i) - 1
    BY <2>1 DEF Place
  <2> QED
    BY <2>2 DEF TsnAt
<1>6. Place(k, i) \in Int
  BY PlaceTyped
<1>7. TsnAt(Place(k, i)) \in Tsns
  BY <1>6, TsnTyped
<1>8. /\ c.stream = Messages[k].stream /\ c.ssn = StreamSeq(k) /\ c.unordered = Messages[k].unordered
      /\ c.begin = (i = 1) /\ c.end = (i = Len(Sizes(k))) /\ c.size = Sizes(k)[i]
  BY DEF Sizes
<1> HIDE DEF c
<1> QED
  BY <1>2, <1>4, <1>5, <1>7, <1>8

LEMMA ChunkIs ==
  ASSUME NEW c \in AllChunks
  PROVE  \E k \in Numbers : \E i \in 1 .. Len(Sizes(k)) : c = Chunks[k][i]
<1>1. PICK k \in Numbers : c \in ToSet(Chunks[k])
  BY DEF AllChunks
<1>2. DOMAIN Chunks[k] = 1 .. Len(Sizes(k))
  BY MessagesTyped DEF Chunks, Sizes
<1> QED
  BY <1>1, <1>2 DEF ToSet

LEMMA ChunksTyped ==
  ASSUME NEW k \in Numbers
  PROVE  /\ Chunks[k] \in Seq(AllChunks) /\ Len(Chunks[k]) = Len(Sizes(k))
         /\ Len(Sizes(k)) \in Nat \ {0} /\ DOMAIN Chunks[k] = 1 .. Len(Sizes(k))
         /\ ToSet(Chunks[k]) \subseteq AllChunks
<1>1. Len(Sizes(k)) \in Nat \ {0}
  BY MessagesTyped DEF Sizes
<1>2. /\ DOMAIN Chunks[k] = 1 .. Len(Sizes(k))
      /\ Chunks[k] = [i \in 1 .. Len(Sizes(k)) |-> Chunks[k][i]]
  BY MessagesTyped DEF Chunks, Sizes
<1>3. \A i \in 1 .. Len(Sizes(k)) : Chunks[k][i] \in AllChunks
  BY ChunkFields
<1>4. Chunks[k] \in [1 .. Len(Sizes(k)) -> AllChunks]
  BY <1>2, <1>3
<1>5. Chunks[k] \in Seq(AllChunks) /\ Len(Chunks[k]) = Len(Sizes(k))
  BY <1>1, <1>4
<1> QED
  BY <1>1, <1>2, <1>3, <1>5 DEF ToSet

\* A TSN belongs to one chunk.
LEMMA SamePlace ==
  ASSUME TsnsSuffice, NEW k \in Numbers, NEW i \in 1 .. Len(Sizes(k)),
         NEW l \in Numbers, NEW j \in 1 .. Len(Sizes(l)), Chunks[k][i].tsn = Chunks[l][j].tsn
  PROVE  k = l /\ i = j
<1>1. Place(k, i) \in 1 .. Total /\ Place(l, j) \in 1 .. Total /\ Total \in Nat
  BY PlaceTyped
<1>2. TsnAt(Place(k, i)) = TsnAt(Place(l, j))
  BY ChunkFields
<1>3. Place(k, i) = Place(l, j)
  <2>1. Place(k, i) \in 0 .. Total + 1 /\ Place(l, j) \in 0 .. Total + 1
    BY <1>1
  <2> QED
    BY <1>1, <1>2, <2>1, TsnInjective
<1> QED
  BY <1>3, PlaceInjective

LEMMA SameTsn ==
  ASSUME TsnsSuffice, NEW c \in AllChunks, NEW d \in AllChunks, c.tsn = d.tsn
  PROVE  c = d
<1>1. PICK k \in Numbers : \E i \in 1 .. Len(Sizes(k)) : c = Chunks[k][i]
  BY ChunkIs
<1>2. PICK i \in 1 .. Len(Sizes(k)) : c = Chunks[k][i]
  BY <1>1
<1>3. PICK l \in Numbers : \E j \in 1 .. Len(Sizes(l)) : d = Chunks[l][j]
  BY ChunkIs
<1>4. PICK j \in 1 .. Len(Sizes(l)) : d = Chunks[l][j]
  BY <1>3
<1> QED
  BY <1>2, <1>4, SamePlace

LEMMA ChunkPlace ==
  ASSUME NEW c \in AllChunks
  PROVE  Total \in Nat /\ c.tsn \in Tsns /\ c.stream \in Streams
         /\ \E a \in 1 .. Total : c.tsn = TsnAt(a)
<1>1. PICK k \in Numbers : \E i \in 1 .. Len(Sizes(k)) : c = Chunks[k][i]
  BY ChunkIs
<1>2. PICK i \in 1 .. Len(Sizes(k)) : c = Chunks[k][i]
  BY <1>1
<1>3. Place(k, i) \in 1 .. Total /\ Total \in Nat
  BY PlaceTyped
<1>4. c.tsn = TsnAt(Place(k, i)) /\ c.tsn \in Tsns /\ c.stream = Messages[k].stream
  BY <1>2, ChunkFields
<1> QED
  BY <1>3, <1>4, MessagesTyped

\* A sequence of chunks is one message, and no other.
LEMMA MessageIs ==
  ASSUME TsnsSuffice, NEW k \in Numbers
  PROVE  MessageOf(Chunks[k]) = k
<1> DEFINE whole == {l \in Numbers : Chunks[l] = Chunks[k]}
<1>1. ASSUME NEW l \in Numbers, Chunks[l] = Chunks[k] PROVE l = k
  <2>1. 1 \in 1 .. Len(Sizes(k)) /\ 1 \in 1 .. Len(Sizes(l))
    BY ChunksTyped
  <2> QED
    BY <1>1, <2>1, SamePlace
<1>2. whole = {k}
  BY <1>1
<1>3. k \in Int
  BY MessagesTyped
<1> HIDE DEF whole
<1>4. Min(whole) = k
  BY <1>2, <1>3 DEF Min
<1>5. whole # {}
  BY <1>2
<1> QED
  BY <1>4, <1>5 DEF MessageOf, whole

-----------------------------------------------------------------------------
(* One step of popMessages: a chunk is passed over, opens or extends a       *)
(* message, or ends one.                                                     *)

Scans == [kept : Seq(AllChunks), ssn : Ssns, start : Nat, expected : Tsns,
          ordered : BOOLEAN, stopped : BOOLEAN, popped : Seq(Seq(AllChunks))]
IsScanning(v) == v \in Scans /\ v.start <= Len(v.kept) + 1

Begins(v) == IF v.start = 0 THEN Len(v.kept) + 1 ELSE v.start
InOrder(v, c) == IF v.start = 0 THEN ~c.unordered ELSE v.ordered

Skips(v, w, c) ==
  /\ w.kept = Append(v.kept, c) /\ w.popped = v.popped /\ w.ssn = v.ssn
  /\ w.stopped \/ w.start = 0
Extends(v, w, c) ==
  /\ ~v.stopped /\ Fits(v, c) /\ ~c.end
  /\ w.kept = Append(v.kept, c) /\ w.popped = v.popped /\ w.ssn = v.ssn
  /\ w.start = Begins(v) /\ w.ordered = InOrder(v, c) /\ w.expected = TsnPlusOne(c.tsn)
Pops(v, w, c) ==
  /\ ~v.stopped /\ Fits(v, c) /\ c.end
  /\ w.kept = SubSeq(Append(v.kept, c), 1, Begins(v) - 1)
  /\ w.popped = Append(v.popped, SubSeq(Append(v.kept, c), Begins(v), Len(v.kept) + 1))
  /\ w.ssn = IF InOrder(v, c) /\ c.ssn = v.ssn THEN SsnPlusOne(v.ssn) ELSE v.ssn
  /\ w.start = Begins(v) /\ w.ordered = InOrder(v, c) /\ w.expected = TsnPlusOne(c.tsn)

LEMMA SsnSpace == SsnModulo \in Nat \ {0} /\ \A n \in Int : SsnPlusOne(n) \in Ssns
<1>1. SsnModulo \in Nat \ {0}
  BY ModuloAssumption
<1>2. ASSUME NEW n \in Int PROVE SsnPlusOne(n) \in Ssns
  <2>1. n + 1 \in Int
    OBVIOUS
  <2> QED
    BY <1>1, <2>1, RemainderRange DEF SsnPlusOne, Ssns
<1> QED
  BY <1>1, <1>2

LEMMA SsnNext ==
  ASSUME NEW n \in Ssns
  PROVE  n \in Int /\ SsnPlusOne(n) \in Ssns
<1>1. n \in Int
  BY SsnSpace DEF Ssns
<1> QED
  BY <1>1, SsnSpace

LEMMA ChunkTyped ==
  ASSUME NEW c \in AllChunks
  PROVE  c.tsn \in Tsns /\ c.unordered \in BOOLEAN /\ c.end \in BOOLEAN /\ c.begin \in BOOLEAN
         /\ TsnPlusOne(c.tsn) \in Tsns
<1>1. PICK k \in Numbers : \E i \in 1 .. Len(Sizes(k)) : c = Chunks[k][i]
  BY ChunkIs
<1>2. PICK i \in 1 .. Len(Sizes(k)) : c = Chunks[k][i]
  BY <1>1
<1>3. c.tsn = TsnAt(Place(k, i)) /\ c.tsn \in Tsns /\ c.unordered = Messages[k].unordered
      /\ c.end = (i = Len(Sizes(k))) /\ c.begin = (i = 1)
  BY <1>2, ChunkFields
<1>4. Place(k, i) \in Int
  BY PlaceTyped
<1>5. TsnPlusOne(c.tsn) = TsnAt(Place(k, i) + 1)
  BY <1>3, <1>4, TsnSuccessor
<1>6. TsnAt(Place(k, i) + 1) \in Tsns
  BY <1>4, TsnTyped
<1> QED
  BY <1>3, <1>5, <1>6, MessagesTyped

\* Parts of a sequence.
LEMMA Parted ==
  ASSUME NEW S, NEW s \in Seq(S), NEW x \in S, NEW n \in 1 .. Len(s) + 1
  PROVE  /\ SubSeq(Append(s, x), 1, n - 1) = SubSeq(s, 1, n - 1)
         /\ SubSeq(s, 1, n - 1) \in Seq(S) /\ Len(SubSeq(s, 1, n - 1)) = n - 1
         /\ \A i \in 1 .. n - 1 : SubSeq(s, 1, n - 1)[i] = s[i]
         /\ SubSeq(Append(s, x), n, Len(s) + 1) \in Seq(S)
         /\ Len(SubSeq(Append(s, x), n, Len(s) + 1)) = Len(s) + 2 - n
         /\ \A i \in 1 .. Len(s) + 2 - n :
              SubSeq(Append(s, x), n, Len(s) + 1)[i] = IF i = Len(s) + 2 - n THEN x ELSE s[n + i - 1]
  OBVIOUS

\* The records of a scan that ScanChunk makes.
Longer(v, kept, start, ordered, expected) ==
  [v EXCEPT !.kept = kept, !.start = start, !.ordered = ordered, !.expected = expected]

LEMMA LongerTyped ==
  ASSUME NEW v \in Scans, NEW kept \in Seq(AllChunks), NEW start \in Nat, NEW expected \in Tsns,
         NEW ordered \in BOOLEAN
  PROVE  LET w == Longer(v, kept, start, ordered, expected)
         IN  /\ w \in Scans /\ w.kept = kept /\ w.start = start /\ w.ordered = ordered
             /\ w.expected = expected /\ w.popped = v.popped /\ w.ssn = v.ssn
<1> DEFINE w == Longer(v, kept, start, ordered, expected)
           K == Seq(AllChunks)
           P == Seq(Seq(AllChunks))
           R == [kept : K, ssn : Ssns, start : Nat, expected : Tsns,
                 ordered : BOOLEAN, stopped : BOOLEAN, popped : P]
<1>1. v \in R /\ kept \in K
  BY DEF Scans
<1>2. w = [v EXCEPT !.kept = kept, !.start = start, !.ordered = ordered, !.expected = expected]
  BY DEF Longer
<1> HIDE DEF K, P, w
<1>3. /\ w \in R /\ w.kept = kept /\ w.start = start /\ w.ordered = ordered
      /\ w.expected = expected /\ w.popped = v.popped /\ w.ssn = v.ssn
  BY <1>1, <1>2
<1> QED
  BY <1>3 DEF Scans, K, P, w

Shorter(v, kept, start, ordered, expected, ssn, popped) ==
  [v EXCEPT !.kept = kept, !.start = start, !.ordered = ordered, !.expected = expected,
            !.ssn = ssn, !.popped = popped]

LEMMA ShorterTyped ==
  ASSUME NEW v \in Scans, NEW kept \in Seq(AllChunks), NEW start \in Nat, NEW expected \in Tsns,
         NEW ordered \in BOOLEAN,
         NEW ssn \in Ssns, NEW popped \in Seq(Seq(AllChunks))
  PROVE  LET w == Shorter(v, kept, start, ordered, expected, ssn, popped)
         IN  /\ w \in Scans /\ w.kept = kept /\ w.start = start /\ w.ordered = ordered
             /\ w.expected = expected /\ w.popped = popped /\ w.ssn = ssn
<1> DEFINE w == Shorter(v, kept, start, ordered, expected, ssn, popped)
           K == Seq(AllChunks)
           P == Seq(Seq(AllChunks))
           R == [kept : K, ssn : Ssns, start : Nat, expected : Tsns,
                 ordered : BOOLEAN, stopped : BOOLEAN, popped : P]
<1>1. v \in R /\ kept \in K /\ popped \in P
  BY DEF Scans
<1>2. w = [v EXCEPT !.kept = kept, !.start = start, !.ordered = ordered, !.expected = expected,
            !.ssn = ssn, !.popped = popped]
  BY DEF Shorter
<1> HIDE DEF K, P, w
<1>3. /\ w \in R /\ w.kept = kept /\ w.start = start /\ w.ordered = ordered
      /\ w.expected = expected /\ w.popped = popped /\ w.ssn = ssn
  BY <1>1, <1>2
<1> QED
  BY <1>3 DEF Scans, K, P, w

LEMMA AppendTyped ==
  ASSUME NEW S, NEW s \in Seq(S), NEW x \in S
  PROVE  Append(s, x) \in Seq(S) /\ Len(Append(s, x)) = Len(s) + 1 /\ Len(s) \in Nat
         /\ \A i \in 1 .. Len(s) + 1 : Append(s, x)[i] = IF i = Len(s) + 1 THEN x ELSE s[i]
  OBVIOUS

LEMMA ScanStep ==
  ASSUME NEW v, IsScanning(v), NEW c \in AllChunks
  PROVE  LET w == ScanChunk(v, c)
         IN  IsScanning(w) /\ (Skips(v, w, c) \/ Extends(v, w, c) \/ Pops(v, w, c))
<1> DEFINE w == ScanChunk(v, c)
           held == Append(v.kept, c)
           n == Begins(v)
<1>1. /\ v.kept \in Seq(AllChunks) /\ v.ssn \in Ssns /\ v.start \in Nat /\ v.expected \in Tsns
      /\ v.ordered \in BOOLEAN /\ v.stopped \in BOOLEAN /\ v.popped \in Seq(Seq(AllChunks))
      /\ v \in Scans /\ v.start <= Len(v.kept) + 1 /\ Len(v.kept) \in Nat
  BY DEF IsScanning, Scans
<1>2. held \in Seq(AllChunks) /\ Len(held) = Len(v.kept) + 1
  BY <1>1
<1>3. n \in 1 .. Len(v.kept) + 1 /\ n = IF v.start = 0 THEN Len(held) ELSE v.start
  BY <1>1, <1>2 DEF Begins
<1>4. InOrder(v, c) \in BOOLEAN /\ c.end \in BOOLEAN /\ TsnPlusOne(c.tsn) \in Tsns
  BY <1>1, ChunkTyped DEF InOrder
<1>5. Fits(v, c) \in BOOLEAN
  BY <1>1, ChunkTyped DEF Fits
<1>6. CASE v.stopped
  <2>1. w = [v EXCEPT !.kept = held]
    BY <1>6 DEF ScanChunk
  <2> HIDE DEF w, held
  <2>2. w \in Scans /\ w.kept = held /\ w.popped = v.popped /\ w.ssn = v.ssn /\ w.stopped
        /\ w.start = v.start
    BY <1>1, <1>2, <1>6, <2>1 DEF Scans
  <2> QED
    BY <1>1, <1>2, <2>2 DEF Skips, IsScanning, held, w
<1>7. CASE ~v.stopped /\ ~Fits(v, c)
  <2>1. w = [v EXCEPT !.kept = held, !.start = 0, !.stopped = InOrder(v, c)]
    BY <1>7 DEF ScanChunk, InOrder
  <2> HIDE DEF w, held
  <2>2. w \in Scans /\ w.kept = held /\ w.popped = v.popped /\ w.ssn = v.ssn /\ w.start = 0
    BY <1>1, <1>2, <1>4, <2>1 DEF Scans
  <2> QED
    BY <1>1, <1>2, <2>2 DEF Skips, IsScanning, held, w
<1>8. CASE ~v.stopped /\ Fits(v, c) /\ ~c.end
  <2>1. w = Longer(v, held, n, InOrder(v, c), TsnPlusOne(c.tsn))
    BY <1>3, <1>8 DEF Longer, ScanChunk, InOrder
  <2> HIDE DEF w, held, n
  <2>2. w \in Scans /\ w.kept = held /\ w.popped = v.popped /\ w.ssn = v.ssn /\ w.start = n
        /\ w.ordered = InOrder(v, c) /\ w.expected = TsnPlusOne(c.tsn)
    <3>1. v \in Scans /\ held \in Seq(AllChunks) /\ n \in Nat /\ InOrder(v, c) \in BOOLEAN
          /\ TsnPlusOne(c.tsn) \in Tsns
      BY <1>1, <1>2, <1>3, <1>4
    <3> QED
      BY <2>1, <3>1, LongerTyped
  <2> QED
    BY <1>1, <1>2, <1>3, <1>8, <2>2 DEF Extends, IsScanning, held, w, n
<1>9. CASE ~v.stopped /\ Fits(v, c) /\ c.end
  <2> DEFINE ssn == IF InOrder(v, c) /\ c.ssn = v.ssn THEN SsnPlusOne(v.ssn) ELSE v.ssn
             kept == SubSeq(held, 1, n - 1)
             popped == Append(v.popped, SubSeq(held, n, Len(held)))
  <2>1. w = Shorter(v, kept, n, InOrder(v, c), TsnPlusOne(c.tsn), ssn, popped)
    BY <1>3, <1>9 DEF Shorter, ScanChunk, InOrder, Unpopped
  <2>2. ssn \in Ssns
    BY <1>1, SsnNext
  <2>3. kept \in Seq(AllChunks) /\ Len(kept) = n - 1 /\ SubSeq(held, n, Len(held)) \in Seq(AllChunks)
    BY <1>1, <1>2, <1>3, Parted
  <2>4. popped \in Seq(Seq(AllChunks))
    BY <1>1, <2>3, AppendTyped
  <2> HIDE DEF w, held, n, ssn, kept, popped
  <2>5. w \in Scans /\ w.kept = kept /\ w.popped = popped /\ w.ssn = ssn /\ w.start = n
        /\ w.ordered = InOrder(v, c) /\ w.expected = TsnPlusOne(c.tsn)
    <3>1. v \in Scans /\ kept \in Seq(AllChunks) /\ n \in Nat /\ InOrder(v, c) \in BOOLEAN
          /\ TsnPlusOne(c.tsn) \in Tsns /\ ssn \in Ssns /\ popped \in Seq(Seq(AllChunks))
      BY <1>1, <1>3, <1>4, <2>2, <2>3, <2>4
    <3> QED
      BY <2>1, <3>1, ShorterTyped
  <2>6. w.start <= Len(w.kept) + 1
    BY <1>3, <2>3, <2>5
  <2> QED
    BY <1>2, <1>9, <2>5, <2>6 DEF Pops, IsScanning, held, w, n, ssn, kept, popped
<1> QED
  BY <1>6, <1>7, <1>8, <1>9

-----------------------------------------------------------------------------
(* What the pass does to the chunks: each one processed is either kept, once, *)
(* or in a message that has been yielded.                                     *)

Distinct(s) == \A i, j \in DOMAIN s : s[i] = s[j] => i = j
Gone(v) == UNION {ToSet(v.popped[j]) : j \in DOMAIN v.popped}
Collected(v, processed) ==
  /\ Distinct(v.kept)
  /\ ToSet(v.kept) \cap Gone(v) = {} /\ ToSet(v.kept) \cup Gone(v) = processed

LEMMA SeqFacts ==
  ASSUME NEW S, NEW s \in Seq(S)
  PROVE  Len(s) \in Nat /\ DOMAIN s = 1 .. Len(s) /\ ToSet(s) \subseteq S
         /\ \A i \in 1 .. Len(s) : s[i] \in S /\ s[i] \in ToSet(s)
  BY DEF ToSet

LEMMA AppendSet ==
  ASSUME NEW S, NEW s \in Seq(S), NEW x \in S
  PROVE  /\ ToSet(Append(s, x)) = ToSet(s) \cup {x}
         /\ Distinct(s) /\ x \notin ToSet(s) => Distinct(Append(s, x))
<1> DEFINE t == Append(s, x)
<1>1. /\ t \in Seq(S) /\ Len(t) = Len(s) + 1 /\ Len(s) \in Nat
      /\ \A i \in 1 .. Len(s) + 1 : t[i] = IF i = Len(s) + 1 THEN x ELSE s[i]
  BY AppendTyped
<1>2. DOMAIN t = 1 .. Len(s) + 1 /\ DOMAIN s = 1 .. Len(s)
  BY <1>1, SeqFacts
<1> HIDE DEF t
<1>3. ToSet(t) = ToSet(s) \cup {x}
  BY <1>1, <1>2 DEF ToSet
<1>4. Distinct(s) /\ x \notin ToSet(s) => Distinct(t)
  BY <1>1, <1>2 DEF ToSet, Distinct
<1> QED
  BY <1>3, <1>4 DEF t

LEMMA PartedSets ==
  ASSUME NEW S, NEW s \in Seq(S), NEW x \in S, NEW n \in 1 .. Len(s) + 1,
         Distinct(s), x \notin ToSet(s)
  PROVE  LET a == SubSeq(Append(s, x), 1, n - 1)
             b == SubSeq(Append(s, x), n, Len(s) + 1)
         IN  /\ Distinct(a) /\ Distinct(b)
             /\ ToSet(a) \cap ToSet(b) = {} /\ ToSet(a) \cup ToSet(b) = ToSet(s) \cup {x}
<1> DEFINE t == Append(s, x)
           a == SubSeq(t, 1, n - 1)
           b == SubSeq(t, n, Len(s) + 1)
           l == Len(s)
<1>1. /\ t \in Seq(S) /\ Len(t) = l + 1 /\ l \in Nat /\ DOMAIN t = 1 .. l + 1
      /\ Distinct(t) /\ ToSet(t) = ToSet(s) \cup {x}
  BY AppendTyped, AppendSet, SeqFacts
<1>2. /\ DOMAIN a = 1 .. n - 1 /\ \A i \in 1 .. n - 1 : a[i] = t[i]
      /\ DOMAIN b = 1 .. l + 2 - n /\ \A i \in 1 .. l + 2 - n : b[i] = t[n + i - 1]
  <2>1. n \in Int /\ n >= 1 /\ n <= l + 1
    BY <1>1
  <2> HIDE DEF t, l
  <2> QED
    BY <1>1, <2>1 DEF l
<1> HIDE DEF t, a, b, l
<1>3. n \in Int /\ n >= 1 /\ n <= l + 1
  BY <1>1 DEF l
<1>4. Distinct(a) /\ Distinct(b)
  <2>1. Distinct(a)
    BY <1>1, <1>2, <1>3 DEF Distinct
  <2>2. ASSUME NEW i \in 1 .. l + 2 - n, NEW j \in 1 .. l + 2 - n, b[i] = b[j] PROVE i = j
    <3>1. n + i - 1 \in 1 .. l + 1 /\ n + j - 1 \in 1 .. l + 1 /\ t[n + i - 1] = t[n + j - 1]
      BY <1>1, <1>2, <1>3, <2>2
    <3>2. n + i - 1 = n + j - 1
      BY <1>1, <3>1 DEF Distinct
    <3> QED
      BY <1>1, <1>3, <3>2
  <2> QED
    BY <1>2, <2>1, <2>2 DEF Distinct
<1>5. ASSUME NEW y \in ToSet(a), y \in ToSet(b) PROVE FALSE
  <2>1. PICK i \in 1 .. n - 1 : y = t[i]
    BY <1>2 DEF ToSet
  <2>2. PICK j \in 1 .. l + 2 - n : y = t[n + j - 1]
    BY <1>2, <1>5 DEF ToSet
  <2>3. i \in 1 .. l + 1 /\ n + j - 1 \in 1 .. l + 1 /\ i # n + j - 1
    BY <1>1, <1>3
  <2> QED
    BY <1>1, <2>1, <2>2, <2>3 DEF Distinct
<1>6. ToSet(a) \subseteq ToSet(t) /\ ToSet(b) \subseteq ToSet(t)
  <2>1. \A i \in 1 .. n - 1 : i \in 1 .. l + 1
    BY <1>1, <1>3
  <2>2. \A i \in 1 .. l + 2 - n : n + i - 1 \in 1 .. l + 1
    BY <1>1, <1>3
  <2>3. ToSet(a) \subseteq ToSet(t)
    BY <1>1, <1>2, <2>1, SMTT(30) DEF ToSet
  <2>4. ToSet(b) \subseteq ToSet(t)
    BY <1>1, <1>2, <2>2 DEF ToSet
  <2> QED
    BY <2>3, <2>4
<1>7. ASSUME NEW y \in ToSet(t) PROVE y \in ToSet(a) \cup ToSet(b)
  <2>1. PICK i \in 1 .. l + 1 : y = t[i]
    BY <1>1 DEF ToSet
  <2>2. CASE i <= n - 1
    <3>1. i \in 1 .. n - 1
      BY <1>3, <2>2
    <3> QED
      BY <1>2, <2>1, <3>1 DEF ToSet
  <2>3. CASE i > n - 1
    <3>1. i - n + 1 \in 1 .. l + 2 - n /\ n + (i - n + 1) - 1 = i
      BY <1>1, <1>3, <2>3
    <3>2. b[i - n + 1] = t[i]
      BY <1>2, <3>1
    <3> QED
      BY <1>2, <2>1, <3>1, <3>2 DEF ToSet
  <2> QED
    BY <1>1, <1>3, <2>2, <2>3
<1> QED
  BY <1>1, <1>4, <1>5, <1>6, <1>7 DEF a, b, t, l

LEMMA CollectedStep ==
  ASSUME NEW v, IsScanning(v), NEW processed, Collected(v, processed),
         NEW c \in AllChunks, c \notin processed
  PROVE  Collected(ScanChunk(v, c), processed \cup {c})
<1> DEFINE w == ScanChunk(v, c)
<1>1. IsScanning(w) /\ (Skips(v, w, c) \/ Extends(v, w, c) \/ Pops(v, w, c))
  BY ScanStep
<1>2. /\ v.kept \in Seq(AllChunks) /\ Distinct(v.kept) /\ c \notin ToSet(v.kept) /\ c \notin Gone(v)
      /\ ToSet(v.kept) \cap Gone(v) = {} /\ ToSet(v.kept) \cup Gone(v) = processed
      /\ v.popped \in Seq(Seq(AllChunks)) /\ v.start \in Nat /\ v.start <= Len(v.kept) + 1
  BY DEF IsScanning, Scans, Collected
<1> HIDE DEF w
<1>3. CASE w.kept = Append(v.kept, c) /\ w.popped = v.popped
  <2>1. ToSet(w.kept) = ToSet(v.kept) \cup {c} /\ Distinct(w.kept)
    BY <1>2, <1>3, AppendSet
  <2>2. Gone(w) = Gone(v)
    BY <1>3 DEF Gone
  <2> QED
    BY <1>2, <2>1, <2>2 DEF Collected, w
<1>4. CASE Pops(v, w, c)
  <2> DEFINE n == Begins(v)
             a == SubSeq(Append(v.kept, c), 1, n - 1)
             b == SubSeq(Append(v.kept, c), n, Len(v.kept) + 1)
  <2>1. n \in 1 .. Len(v.kept) + 1
    BY <1>2, SeqFacts DEF Begins
  <2>2. Distinct(a) /\ ToSet(a) \cap ToSet(b) = {} /\ ToSet(a) \cup ToSet(b) = ToSet(v.kept) \cup {c}
    BY <1>2, <2>1, PartedSets
  <2>3. b \in Seq(AllChunks)
    BY <1>2, <2>1, Parted
  <2>4. w.kept = a /\ w.popped = Append(v.popped, b)
    BY <1>4 DEF Pops
  <2> HIDE DEF n, a, b
  <2>5. Gone(w) = Gone(v) \cup ToSet(b)
    <3>1. ToSet(w.popped) = ToSet(v.popped) \cup {b}
      BY <1>2, <2>3, <2>4, AppendSet
    <3>2. Gone(w) = UNION {ToSet(p) : p \in ToSet(w.popped)}
          /\ Gone(v) = UNION {ToSet(p) : p \in ToSet(v.popped)}
      BY DEF Gone, ToSet
    <3> QED
      BY <3>1, <3>2
  <2> QED
    BY <1>2, <2>2, <2>4, <2>5 DEF Collected, w
<1> QED
  BY <1>1, <1>3, <1>4 DEF Skips, Extends

-----------------------------------------------------------------------------
(* Between two chunks of a message the pass waits for the next of its         *)
(* fragments and, when a message has ended, for the first of the next one.    *)

\* The first m fragments of message k are the end of what is kept.
Begun(v, k, m) ==
  /\ k \in Numbers /\ m \in 1 .. Len(Sizes(k)) - 1
  /\ v.start + m - 1 = Len(v.kept)
  /\ \A x \in 1 .. m : v.kept[v.start + x - 1] = Chunks[k][x]
  /\ v.expected = TsnAt(Place(k, m) + 1)
\* Message k has been yielded last.
Ended(v, k) ==
  /\ k \in Numbers /\ v.start = Len(v.kept) + 1 /\ v.expected = TsnAt(Fragments[k] + 1)
Whole(v) == \A j \in DOMAIN v.popped : \E k \in Numbers : v.popped[j] = Chunks[k]
Tracked(v) ==
  /\ Whole(v)
  /\ v.start # 0 /\ ~v.stopped =>
       (\E k \in Numbers : \E m \in 1 .. Len(Sizes(k)) : Begun(v, k, m)) \/ (\E k \in Numbers : Ended(v, k))

\* The m-th fragment of message k continues what is kept.
Joins(v, k, m) ==
  /\ Begins(v) + m - 1 = Len(v.kept) + 1
  /\ \A x \in 1 .. m - 1 : v.kept[Begins(v) + x - 1] = Chunks[k][x]
Turn(v, c) == c.unordered \/ ~Uint16Gt(c.ssn, v.ssn)
Fitting(v, c, k, m) ==
  /\ c = Chunks[k][m] /\ Joins(v, k, m)
  /\ \/ v.start = 0 /\ m = 1 /\ Turn(v, c)
     \/ v.start # 0 /\ m > 1 /\ Begun(v, k, m - 1)
     \/ v.start # 0 /\ m = 1 /\ k - 1 \in Numbers /\ Ended(v, k - 1)

LEMMA LastPlace ==
  ASSUME NEW k \in Numbers
  PROVE  Place(k, Len(Sizes(k))) = Fragments[k] /\ Fragments[k] \in 1 .. Total /\ Total \in Nat
<1>1. Len(Sizes(k)) \in 1 .. Len(Sizes(k)) /\ Len(Sizes(k)) \in Nat
  BY ChunksTyped
<1>2. Fragments[k] = FragmentsBefore(k) + Len(Sizes(k)) /\ Place(k, Len(Sizes(k))) \in 1 .. Total
      /\ Total \in Nat
  BY <1>1, PlaceTyped
<1> QED
  BY <1>2 DEF Place

LEMMA NextPlace ==
  ASSUME NEW k \in Numbers, NEW l \in Numbers, NEW j \in 1 .. Len(Sizes(l)),
         Place(l, j) = Fragments[k] + 1
  PROVE  l = k + 1 /\ j = 1
<1>1. /\ FragmentsBefore(l) \in Nat /\ Fragments[l] \in Nat /\ Fragments[k] \in Nat
      /\ Fragments[l] = FragmentsBefore(l) + Len(Sizes(l))
      /\ Place(l, j) = FragmentsBefore(l) + j /\ Place(l, j) <= Fragments[l]
      /\ j \in Nat \ {0} /\ k \in Nat /\ l \in Nat
  <2>1. Fragments[k] \in Nat
    BY LastPlace
  <2>2. k \in Nat /\ l \in Nat /\ j \in Nat \ {0}
    BY MessagesTyped, ChunksTyped
  <2>3. /\ FragmentsBefore(l) \in Nat /\ Fragments[l] \in Nat /\ Place(l, j) <= Fragments[l]
        /\ Fragments[l] = FragmentsBefore(l) + Len(Sizes(l))
    BY PlaceTyped
  <2> QED
    BY <2>1, <2>2, <2>3 DEF Place
<1>2. k \in 0 .. Len(Messages) /\ l \in 0 .. Len(Messages) /\ l - 1 \in 0 .. Len(Messages)
      /\ Len(Messages) \in Nat
  BY MessagesTyped
<1>3. k < l
  <2>1. l <= k => Fragments[l] <= Fragments[k]
    BY <1>2, FragmentsGrow
  <2> QED
    BY <1>1, <2>1
<1>4. ~(k + 1 < l)
  <2> SUFFICES ASSUME k + 1 < l PROVE FALSE
    OBVIOUS
  <2>1. k + 1 \in 0 .. Len(Messages) /\ k + 1 <= l - 1 /\ k + 1 \in Numbers
    BY <1>1, <1>2, MessagesTyped
  <2>2. Fragments[k + 1] <= FragmentsBefore(l)
    BY <1>2, <2>1, FragmentsGrow DEF FragmentsBefore
  <2>3. Fragments[k + 1] = Fragments[k] + Len(Sizes(k + 1))
    BY <1>1, <2>1, FragmentsAre DEF Sizes
  <2>4. Len(Sizes(k + 1)) \in Nat \ {0}
    BY <2>1, ChunksTyped
  <2> QED
    BY <1>1, <2>2, <2>3, <2>4
<1>5. l = k + 1
  BY <1>1, <1>3, <1>4
<1>6. FragmentsBefore(l) = Fragments[k]
  BY <1>1, <1>5 DEF FragmentsBefore
<1> QED
  BY <1>1, <1>5, <1>6

\* The chunk that comes next by its TSN.
LEMMA Expected ==
  ASSUME TsnsSuffice, NEW c \in AllChunks, NEW n \in 1 .. Total, c.tsn = TsnAt(n + 1),
         Total \in Nat
  PROVE  \E k \in Numbers : \E m \in 1 .. Len(Sizes(k)) : c = Chunks[k][m] /\ Place(k, m) = n + 1
<1>1. PICK k \in Numbers : \E i \in 1 .. Len(Sizes(k)) : c = Chunks[k][i]
  BY ChunkIs
<1>2. PICK m \in 1 .. Len(Sizes(k)) : c = Chunks[k][m]
  BY <1>1
<1>3. Place(k, m) \in 1 .. Total /\ c.tsn = TsnAt(Place(k, m))
  BY <1>2, PlaceTyped, ChunkFields
<1>4. Place(k, m) \in 0 .. Total + 1 /\ n + 1 \in 0 .. Total + 1 /\ TsnAt(Place(k, m)) = TsnAt(n + 1)
  BY <1>3
<1>5. Place(k, m) = n + 1
  BY <1>4, TsnInjective
<1> QED
  BY <1>2, <1>5

LEMMA BeginsTyped ==
  ASSUME NEW v, IsScanning(v)
  PROVE  v.kept \in Seq(AllChunks) /\ Len(v.kept) \in Nat /\ Begins(v) \in 1 .. Len(v.kept) + 1
<1>1. v.kept \in Seq(AllChunks) /\ v.start \in Nat /\ v.start <= Len(v.kept) + 1
  BY DEF IsScanning, Scans
<1>2. Len(v.kept) \in Nat
  BY <1>1, SeqFacts
<1> QED
  BY <1>1, <1>2 DEF Begins

LEMMA JoinsFirst ==
  ASSUME NEW v, NEW k, Begins(v) = Len(v.kept) + 1, Len(v.kept) \in Nat
  PROVE  Joins(v, k, 1)
<1>1. Begins(v) + 1 - 1 = Len(v.kept) + 1 /\ 1 .. (1 - 1) = {}
  OBVIOUS
<1> QED
  BY <1>1 DEF Joins

LEMMA Fitted ==
  ASSUME TsnsSuffice, NEW v, IsScanning(v), Tracked(v), ~v.stopped, NEW c \in AllChunks, Fits(v, c)
  PROVE  \E k \in Numbers : \E m \in 1 .. Len(Sizes(k)) : Fitting(v, c, k, m)
<1>1. v.kept \in Seq(AllChunks) /\ Len(v.kept) \in Nat /\ v.start \in Nat
  BY DEF IsScanning, Scans
<1>2. CASE v.start = 0
  <2>1. PICK k \in Numbers : \E i \in 1 .. Len(Sizes(k)) : c = Chunks[k][i]
    BY ChunkIs
  <2>2. PICK m \in 1 .. Len(Sizes(k)) : c = Chunks[k][m]
    BY <2>1
  <2>3. c.begin = (m = 1) /\ c.begin /\ (~c.unordered => ~Uint16Gt(c.ssn, v.ssn))
    BY <1>2, <2>2, ChunkFields DEF Fits
  <2>4. m = 1 /\ Joins(v, k, 1)
    <3>1. Begins(v) = Len(v.kept) + 1
      BY <1>2 DEF Begins
    <3> QED
      BY <1>1, <2>3, <3>1, JoinsFirst
  <2> QED
    BY <1>2, <2>2, <2>3, <2>4 DEF Fitting, Turn
<1>3. CASE v.start # 0
  <2>1. c.tsn = v.expected
    BY <1>3 DEF Fits
  <2>2. CASE \E k \in Numbers : \E m \in 1 .. Len(Sizes(k)) : Begun(v, k, m)
    <3>1. PICK k \in Numbers : \E m \in 1 .. Len(Sizes(k)) : Begun(v, k, m)
      BY <2>2
    <3>2. PICK m \in 1 .. Len(Sizes(k)) : Begun(v, k, m)
      BY <3>1
    <3>3. m \in Nat \ {0} /\ m <= Len(Sizes(k)) - 1 /\ Len(Sizes(k)) \in Nat
          /\ c.tsn = TsnAt(Place(k, m) + 1)
      BY <2>1, <3>2, ChunksTyped DEF Begun
    <3>4. Place(k, m) \in 1 .. Total /\ Total \in Nat
      BY PlaceTyped
    <3>5. PICK l \in Numbers : \E j \in 1 .. Len(Sizes(l)) : c = Chunks[l][j] /\ Place(l, j) = Place(k, m) + 1
      BY <3>3, <3>4, Expected
    <3>6. PICK j \in 1 .. Len(Sizes(l)) : c = Chunks[l][j] /\ Place(l, j) = Place(k, m) + 1
      BY <3>5
    <3>7. m + 1 \in 1 .. Len(Sizes(k)) /\ Place(k, m + 1) = Place(k, m) + 1
      <4>1. FragmentsBefore(k) \in Nat
        BY PlaceTyped
      <4> QED
        BY <3>3, <4>1 DEF Place
    <3>8. l = k /\ j = m + 1
      BY <3>6, <3>7, PlaceInjective
    <3>9. Joins(v, k, m + 1)
      <4> DEFINE b == v.start
                 n == Len(v.kept)
      <4>1. b \in Nat /\ n \in Nat /\ b + m - 1 = n /\ m \in Nat /\ m + 1 - 1 = m
            /\ \A x \in 1 .. m : v.kept[b + x - 1] = Chunks[k][x]
        BY <1>1, <3>2, <3>3 DEF Begun
      <4>2. Begins(v) = b
        BY <1>3 DEF Begins
      <4> HIDE DEF b, n
      <4>3. b + (m + 1) - 1 = n + 1
        BY <4>1
      <4> QED
        BY <4>1, <4>2, <4>3 DEF Joins, n
    <3>10. m + 1 > 1 /\ (m + 1) - 1 = m
      BY <3>3
    <3> QED
      BY <1>3, <3>2, <3>6, <3>7, <3>8, <3>9, <3>10 DEF Fitting
  <2>3. CASE \E k \in Numbers : Ended(v, k)
    <3>1. PICK k \in Numbers : Ended(v, k)
      BY <2>3
    <3>2. c.tsn = TsnAt(Fragments[k] + 1) /\ v.start = Len(v.kept) + 1
      BY <2>1, <3>1 DEF Ended
    <3>3. Fragments[k] \in 1 .. Total /\ Total \in Nat
      BY LastPlace
    <3>4. PICK l \in Numbers : \E j \in 1 .. Len(Sizes(l)) : c = Chunks[l][j] /\ Place(l, j) = Fragments[k] + 1
      BY <3>2, <3>3, Expected
    <3>5. PICK j \in 1 .. Len(Sizes(l)) : c = Chunks[l][j] /\ Place(l, j) = Fragments[k] + 1
      BY <3>4
    <3>6. l = k + 1 /\ j = 1 /\ k \in Nat
      BY <3>5, NextPlace, MessagesTyped
    <3>7. Joins(v, l, 1)
      BY <1>1, <1>3, <3>2, JoinsFirst DEF Begins
    <3>8. l - 1 = k
      BY <3>6
    <3> QED
      BY <1>3, <3>1, <3>5, <3>6, <3>7, <3>8 DEF Fitting
  <2> QED
    BY <1>3, <2>2, <2>3 DEF Tracked
<1> QED
  BY <1>2, <1>3

\* A fragment that fits and is not the last extends the message it belongs to.
LEMMA Extending ==
  ASSUME NEW v, IsScanning(v), NEW w, NEW k \in Numbers, NEW m \in 1 .. Len(Sizes(k)),
         Fitting(v, Chunks[k][m], k, m), Extends(v, w, Chunks[k][m])
  PROVE  Begun(w, k, m)
<1> DEFINE c == Chunks[k][m]
<1>1. v.kept \in Seq(AllChunks) /\ Len(v.kept) \in Nat /\ v.start \in Nat
      /\ v.start <= Len(v.kept) + 1 /\ c \in AllChunks
  BY ChunkFields DEF IsScanning, Scans
<1>2. ~c.end /\ w.kept = Append(v.kept, c) /\ w.start = Begins(v) /\ w.expected = TsnPlusOne(c.tsn)
  BY DEF Extends
<1>3. c.end = (m = Len(Sizes(k))) /\ c.tsn = TsnAt(Place(k, m))
  BY ChunkFields
<1>4. Place(k, m) \in Int /\ Len(Sizes(k)) \in Nat
  BY PlaceTyped, ChunksTyped
<1>5. w.expected = TsnAt(Place(k, m) + 1)
  BY <1>2, <1>3, <1>4, TsnSuccessor
<1>6. Begins(v) + m - 1 = Len(v.kept) + 1 /\ \A x \in 1 .. m - 1 : v.kept[Begins(v) + x - 1] = Chunks[k][x]
  BY DEF Fitting, Joins
<1>7. Begins(v) \in Nat \ {0} /\ Begins(v) <= Len(v.kept) + 1 /\ m \in 1 .. Len(Sizes(k)) - 1
  <2>1. m # Len(Sizes(k))
    BY <1>2, <1>3
  <2>2. m \in 1 .. Len(Sizes(k)) - 1
    BY <1>4, <2>1
  <2> QED
    BY <1>1, <2>2, BeginsTyped
<1>8. Len(w.kept) = Len(v.kept) + 1
      /\ \A i \in 1 .. Len(v.kept) + 1 : w.kept[i] = IF i = Len(v.kept) + 1 THEN c ELSE v.kept[i]
  BY <1>1, <1>2, AppendTyped
<1> HIDE DEF c
<1>9. ASSUME NEW x \in 1 .. m PROVE w.kept[w.start + x - 1] = Chunks[k][x]
  <2>1. CASE x = m
    BY <1>1, <1>2, <1>6, <1>7, <1>8, <2>1 DEF c
  <2>2. CASE x # m
    <3>1. x \in 1 .. m - 1 /\ Begins(v) + x - 1 \in 1 .. Len(v.kept) + 1
          /\ Begins(v) + x - 1 # Len(v.kept) + 1
      BY <1>1, <1>6, <1>7, <2>2
    <3> QED
      BY <1>2, <1>6, <1>8, <3>1
  <2> QED
    BY <2>1, <2>2
<1> QED
  BY <1>1, <1>2, <1>5, <1>6, <1>7, <1>8, <1>9 DEF Begun

\* The last one completes it: the whole message is yielded, and nothing else.
LEMMA Completing ==
  ASSUME NEW v, IsScanning(v), NEW w, NEW k \in Numbers, NEW m \in 1 .. Len(Sizes(k)),
         Fitting(v, Chunks[k][m], k, m), Pops(v, w, Chunks[k][m])
  PROVE  w.popped = Append(v.popped, Chunks[k]) /\ Ended(w, k)
<1> DEFINE c == Chunks[k][m]
           b == SubSeq(Append(v.kept, c), Begins(v), Len(v.kept) + 1)
<1>1. v.kept \in Seq(AllChunks) /\ Len(v.kept) \in Nat /\ v.start \in Nat
      /\ v.start <= Len(v.kept) + 1 /\ c \in AllChunks
  BY ChunkFields DEF IsScanning, Scans
<1>2. /\ c.end /\ w.start = Begins(v) /\ w.expected = TsnPlusOne(c.tsn)
      /\ w.kept = SubSeq(Append(v.kept, c), 1, Begins(v) - 1)
      /\ w.popped = Append(v.popped, b)
  BY DEF Pops
<1>3. c.end = (m = Len(Sizes(k))) /\ c.tsn = TsnAt(Place(k, m))
  BY ChunkFields
<1>4. Place(k, m) \in Int /\ Len(Sizes(k)) \in Nat \ {0} /\ m = Len(Sizes(k))
      /\ Place(k, m) = Fragments[k]
  <2>1. m = Len(Sizes(k))
    BY <1>2, <1>3
  <2>2. Len(Sizes(k)) \in Nat \ {0} /\ Place(k, Len(Sizes(k))) = Fragments[k] /\ Place(k, m) \in Int
    BY ChunksTyped, LastPlace, PlaceTyped
  <2> QED
    BY <2>1, <2>2
<1>5. w.expected = TsnAt(Fragments[k] + 1)
  BY <1>2, <1>3, <1>4, TsnSuccessor
<1>6. Begins(v) + m - 1 = Len(v.kept) + 1 /\ \A x \in 1 .. m - 1 : v.kept[Begins(v) + x - 1] = Chunks[k][x]
  BY DEF Fitting, Joins
<1>7. Begins(v) \in 1 .. Len(v.kept) + 1 /\ m \in Nat
  BY <1>4, BeginsTyped
<1>8. /\ Len(w.kept) = Begins(v) - 1
      /\ b \in Seq(AllChunks) /\ Len(b) = Len(v.kept) + 2 - Begins(v)
      /\ \A i \in 1 .. Len(v.kept) + 2 - Begins(v) :
           b[i] = IF i = Len(v.kept) + 2 - Begins(v) THEN c ELSE v.kept[Begins(v) + i - 1]
  <2>1. v.kept \in Seq(AllChunks) /\ c \in AllChunks /\ Begins(v) \in 1 .. Len(v.kept) + 1
    BY <1>1, <1>7
  <2> HIDE DEF c
  <2>2. Len(w.kept) = Begins(v) - 1
    BY <1>2, <2>1, Parted
  <2>3. b \in Seq(AllChunks)
    BY <2>1, Parted
  <2>4. Len(b) = Len(v.kept) + 2 - Begins(v)
    BY <2>1, Parted
  <2>5. \A i \in 1 .. Len(v.kept) + 2 - Begins(v) :
          b[i] = IF i = Len(v.kept) + 2 - Begins(v) THEN c ELSE v.kept[Begins(v) + i - 1]
    BY <2>1, Parted
  <2> QED
    BY <2>2, <2>3, <2>4, <2>5
<1> HIDE DEF b, c
<1>9. Len(v.kept) + 2 - Begins(v) = m
  BY <1>1, <1>6, <1>7
<1>10. b = Chunks[k]
  <2>1. Chunks[k] \in Seq(AllChunks) /\ Len(Chunks[k]) = m
    BY <1>4, ChunksTyped
  <2>2. ASSUME NEW i \in 1 .. m PROVE b[i] = Chunks[k][i]
    <3>1. CASE i = m
      BY <1>8, <1>9, <3>1 DEF c
    <3>2. CASE i # m
      <4>1. i \in 1 .. m - 1
        BY <1>7, <3>2
      <4> QED
        BY <1>6, <1>8, <1>9, <3>2, <4>1
    <3> QED
      BY <3>1, <3>2
  <2>3. Len(b) = m /\ b \in Seq(AllChunks)
    BY <1>8, <1>9
  <2> QED
    BY <2>1, <2>2, <2>3, SeqEqual
<1>11. w.start = Len(w.kept) + 1
  BY <1>1, <1>2, <1>7, <1>8
<1> QED
  BY <1>2, <1>5, <1>10, <1>11 DEF Ended

LEMMA TrackedStep ==
  ASSUME TsnsSuffice, NEW v, IsScanning(v), Tracked(v), NEW c \in AllChunks
  PROVE  Tracked(ScanChunk(v, c))
<1> DEFINE w == ScanChunk(v, c)
<1>1. IsScanning(w) /\ (Skips(v, w, c) \/ Extends(v, w, c) \/ Pops(v, w, c))
  BY ScanStep
<1> HIDE DEF w
<1>2. CASE Skips(v, w, c)
  BY <1>2 DEF Skips, Tracked, Whole, w
<1>3. ASSUME Extends(v, w, c) \/ Pops(v, w, c)
      PROVE  \E k \in Numbers : \E m \in 1 .. Len(Sizes(k)) : Fitting(v, c, k, m)
  BY <1>3, Fitted DEF Extends, Pops
<1>4. CASE Extends(v, w, c)
  <2>1. PICK k \in Numbers : \E m \in 1 .. Len(Sizes(k)) : Fitting(v, c, k, m)
    BY <1>3, <1>4
  <2>2. PICK m \in 1 .. Len(Sizes(k)) : Fitting(v, c, k, m)
    BY <2>1
  <2>3. c = Chunks[k][m]
    BY <2>2 DEF Fitting
  <2>4. Begun(w, k, m)
    BY <1>4, <2>2, <2>3, Extending
  <2>5. Whole(w)
    BY <1>4 DEF Extends, Tracked, Whole
  <2> QED
    BY <2>4, <2>5 DEF Tracked, w
<1>5. CASE Pops(v, w, c)
  <2>1. PICK k \in Numbers : \E m \in 1 .. Len(Sizes(k)) : Fitting(v, c, k, m)
    BY <1>3, <1>5
  <2>2. PICK m \in 1 .. Len(Sizes(k)) : Fitting(v, c, k, m)
    BY <2>1
  <2>3. c = Chunks[k][m]
    BY <2>2 DEF Fitting
  <2>4. w.popped = Append(v.popped, Chunks[k]) /\ Ended(w, k)
    BY <1>5, <2>2, <2>3, Completing
  <2>5. v.popped \in Seq(Seq(AllChunks)) /\ Chunks[k] \in Seq(AllChunks)
    BY ChunksTyped DEF IsScanning, Scans
  <2>6. Whole(w)
    <3> DEFINE Q == Seq(AllChunks)
               d == Chunks[k]
               p == v.popped
    <3>1. p \in Seq(Q) /\ d \in Q /\ w.popped = Append(p, d)
      BY <2>4, <2>5
    <3>2. \A j \in DOMAIN p : \E l \in Numbers : p[j] = Chunks[l]
      BY DEF Tracked, Whole
    <3>3. \E l \in Numbers : d = Chunks[l]
      OBVIOUS
    <3> HIDE DEF Q, d, p
    <3>4. ASSUME NEW j \in DOMAIN w.popped PROVE w.popped[j] = d \/ (j \in DOMAIN p /\ w.popped[j] = p[j])
      BY <3>1
    <3> QED
      BY <3>2, <3>3, <3>4 DEF Whole
  <2> QED
    BY <2>4, <2>6 DEF Tracked, w
<1> QED
  BY <1>1, <1>2, <1>4, <1>5

-----------------------------------------------------------------------------
(* The whole pass: its function exists, and what one chunk keeps, all keep.   *)

IsPass(stream, n, f) ==
  f = [i \in 0 .. n |-> IF i = 0 THEN Scan(stream) ELSE ScanChunk(f[i - 1], stream.reassembly[i])]

LEMMA PassExists ==
  ASSUME NEW stream, NEW n \in Nat
  PROVE  \E f : IsPass(stream, n, f)
<1> DEFINE T == {k \in Nat : ~\E f : IsPass(stream, k, f)}
<1> SUFFICES ASSUME T # {} PROVE FALSE
  OBVIOUS
<1>1. PICK k \in T : \A j \in T : k <= j
  <2>1. T \in SUBSET Nat
    OBVIOUS
  <2> HIDE DEF T
  <2> QED
    BY <2>1, LeastNumber
<1>2. k \in Nat /\ ~\E f : IsPass(stream, k, f)
  OBVIOUS
<1>3. CASE k = 0
  <2> DEFINE f == [i \in 0 .. 0 |-> Scan(stream)]
  <2>1. IsPass(stream, 0, f)
    BY DEF IsPass
  <2> QED
    BY <1>2, <1>3, <2>1
<1>4. CASE k # 0
  <2>1. k - 1 \in Nat /\ k - 1 < k
    BY <1>2, <1>4
  <2>2. k - 1 \notin T
    BY <1>1, <1>2, <2>1
  <2>3. PICK f : IsPass(stream, k - 1, f)
    BY <2>1, <2>2
  <2> DEFINE g == [i \in 0 .. k |->
                     IF i = k THEN ScanChunk(f[k - 1], stream.reassembly[k]) ELSE f[i]]
  <2>4. ASSUME NEW i \in 0 .. k
        PROVE  g[i] = IF i = 0 THEN Scan(stream) ELSE ScanChunk(g[i - 1], stream.reassembly[i])
    <3>1. CASE i = k
      <4>1. g[i] = ScanChunk(f[k - 1], stream.reassembly[k]) /\ g[i - 1] = f[k - 1]
        BY <3>1, <2>1, <1>2
      <4> QED
        BY <4>1, <3>1, <1>4
    <3>2. CASE i # k
      <4>1. i \in 0 .. (k - 1) /\ (i # 0 => i - 1 \in 0 .. k /\ i - 1 # k)
        BY <3>2, <1>2
      <4>2. f[i] = IF i = 0 THEN Scan(stream) ELSE ScanChunk(f[i - 1], stream.reassembly[i])
        BY <2>3, <4>1 DEF IsPass
      <4>3. g[i] = f[i] /\ (i # 0 => g[i - 1] = f[i - 1])
        BY <4>1, <3>2
      <4> QED
        BY <4>2, <4>3
    <3> QED
      BY <3>1, <3>2
  <2>5. g = [i \in 0 .. k |-> g[i]]
    OBVIOUS
  <2> HIDE DEF g
  <2>6. IsPass(stream, k, g)
    BY <2>4, <2>5 DEF IsPass
  <2> QED
    BY <1>2, <2>6
<1> QED
  BY <1>3, <1>4

Result(v) == [stream |-> [reassembly |-> v.kept, ssn |-> v.ssn], popped |-> v.popped]

LEMMA PassIs ==
  ASSUME NEW stream, Len(stream.reassembly) \in Nat
  PROVE  \E f : /\ IsPass(stream, Len(stream.reassembly), f)
                /\ PopMessages(stream) = Result(f[Len(stream.reassembly)])
<1> DEFINE n == Len(stream.reassembly)
           after == CHOOSE f : IsPass(stream, n, f)
<1>1. IsPass(stream, n, after)
  BY PassExists
<1>2. PopMessages(stream) = Result(after[n])
  BY DEF PopMessages, IsPass, Result
<1> HIDE DEF after
<1> QED
  BY <1>1, <1>2

Sound(stream) ==
  stream.reassembly \in Seq(AllChunks) /\ Distinct(stream.reassembly) /\ stream.ssn \in Ssns

LEMMA ScanStarts ==
  ASSUME NEW stream, Sound(stream)
  PROVE  IsScanning(Scan(stream)) /\ Tracked(Scan(stream)) /\ Collected(Scan(stream), {})
<1> DEFINE v == Scan(stream)
           R == [kept : Seq(AllChunks), ssn : Ssns, start : Nat, expected : Tsns,
                 ordered : BOOLEAN, stopped : BOOLEAN, popped : Seq(Seq(AllChunks))]
<1>1. v = [kept |-> << >>, ssn |-> stream.ssn, start |-> 0, expected |-> 0,
           ordered |-> FALSE, stopped |-> FALSE, popped |-> << >>]
  BY DEF Scan
<1>2. 0 \in Tsns /\ stream.ssn \in Ssns
  BY TsnSpace DEF Tsns, Sound
<1>3. << >> \in Seq(AllChunks) /\ << >> \in Seq(Seq(AllChunks)) /\ Len(<< >>) = 0
  BY EmptySeq
<1> HIDE DEF v
<1>4. v \in Scans /\ v.kept = << >> /\ v.popped = << >> /\ v.start = 0
  BY <1>1, <1>2, <1>3 DEF Scans
<1>5. IsScanning(v)
  BY <1>3, <1>4 DEF IsScanning
<1>6. DOMAIN << >> = {}
  OBVIOUS
<1>7. Tracked(v)
  BY <1>4, <1>6 DEF Tracked, Whole
<1>8. Collected(v, {})
  <2>1. ToSet(v.kept) = {} /\ Gone(v) = {} /\ Distinct(v.kept)
    BY <1>4, <1>6 DEF ToSet, Gone, Distinct
  <2> QED
    BY <2>1 DEF Collected
<1> QED
  BY <1>5, <1>7, <1>8 DEF v

FirstOf(s, n) == {s[j] : j \in 1 .. n}

LEMMA PassKeeps ==
  ASSUME TsnsSuffice, NEW stream, Sound(stream), NEW f,
         IsPass(stream, Len(stream.reassembly), f), NEW i \in 0 .. Len(stream.reassembly)
  PROVE  IsScanning(f[i]) /\ Tracked(f[i]) /\ Collected(f[i], FirstOf(stream.reassembly, i))
<1> DEFINE b == stream.reassembly
           n == Len(b)
           Good(k) == IsScanning(f[k]) /\ Tracked(f[k]) /\ Collected(f[k], FirstOf(b, k))
           T == {k \in 0 .. n : ~Good(k)}
<1>1. b \in Seq(AllChunks) /\ n \in Nat /\ DOMAIN b = 1 .. n /\ Distinct(b)
  BY SeqFacts DEF Sound
<1> SUFFICES ASSUME T # {} PROVE FALSE
  OBVIOUS
<1>2. PICK k \in T : \A j \in T : k <= j
  <2>1. T \in SUBSET Nat
    BY <1>1
  <2> HIDE DEF T
  <2> QED
    BY <2>1, LeastNumber
<1>3. /\ k \in 0 .. n /\ ~Good(k)
      /\ f[k] = IF k = 0 THEN Scan(stream) ELSE ScanChunk(f[k - 1], b[k])
  BY DEF IsPass
<1>4. CASE k = 0
  <2>1. FirstOf(b, 0) = {}
    BY DEF FirstOf
  <2> QED
    BY <1>3, <1>4, <2>1, ScanStarts
<1>5. CASE k # 0
  <2>1. k - 1 \in 0 .. n /\ k - 1 < k /\ k \in 1 .. n
    BY <1>1, <1>3, <1>5
  <2>2. k - 1 \notin T
    BY <1>1, <1>2, <1>3, <2>1
  <2>3. Good(k - 1)
    BY <2>1, <2>2
  <2>4. b[k] \in AllChunks
    BY <1>1, <2>1, SeqFacts
  <2>5. b[k] \notin FirstOf(b, k - 1)
    <3> SUFFICES ASSUME NEW j \in 1 .. k - 1, b[j] = b[k] PROVE FALSE
      BY DEF FirstOf
    <3>1. j \in 1 .. n /\ j # k
      BY <1>1, <2>1
    <3> QED
      BY <1>1, <2>1, <3>1 DEF Distinct
  <2>6. FirstOf(b, k - 1) \cup {b[k]} = FirstOf(b, k)
    <3>1. \A j : j \in 1 .. k <=> j \in 1 .. k - 1 \/ j = k
      BY <1>1, <2>1
    <3> QED
      BY <3>1 DEF FirstOf
  <2>7. f[k] = ScanChunk(f[k - 1], b[k])
    BY <1>3, <1>5
  <2> HIDE DEF b, T
  <2>8. IsScanning(f[k])
    BY <2>3, <2>4, <2>7, ScanStep
  <2>9. Tracked(f[k])
    BY <2>3, <2>4, <2>7, TrackedStep
  <2>10. Collected(f[k], FirstOf(b, k))
    BY <2>3, <2>4, <2>5, <2>6, <2>7, CollectedStep
  <2> QED
    BY <1>3, <2>8, <2>9, <2>10
<1> QED
  BY <1>4, <1>5

\* popMessages loses no chunk and hands over whole messages: each chunk of the buffer is kept
\* once or is part of one of them.
LEMMA PopResult ==
  ASSUME TsnsSuffice, NEW stream, Sound(stream)
  PROVE  LET pop == PopMessages(stream)
             gone == UNION {ToSet(pop.popped[j]) : j \in DOMAIN pop.popped}
         IN  /\ Sound(pop.stream) /\ pop.popped \in Seq(Seq(AllChunks))
             /\ \A j \in DOMAIN pop.popped : \E k \in Numbers : pop.popped[j] = Chunks[k]
             /\ ToSet(pop.stream.reassembly) \cap gone = {}
             /\ ToSet(pop.stream.reassembly) \cup gone = ToSet(stream.reassembly)
<1> DEFINE b == stream.reassembly
<1>1. b \in Seq(AllChunks) /\ Len(b) \in Nat /\ DOMAIN b = 1 .. Len(b)
  BY SeqFacts DEF Sound
<1>2. PICK f : IsPass(stream, Len(b), f) /\ PopMessages(stream) = Result(f[Len(b)])
  BY <1>1, PassIs
<1> DEFINE v == f[Len(b)]
<1>3. IsScanning(v) /\ Tracked(v) /\ Collected(v, FirstOf(b, Len(b)))
  BY <1>1, <1>2, PassKeeps
<1>4. FirstOf(b, Len(b)) = ToSet(b)
  BY <1>1 DEF FirstOf, ToSet
<1> DEFINE pop == PopMessages(stream)
<1>5. pop.stream.reassembly = v.kept /\ pop.stream.ssn = v.ssn /\ pop.popped = v.popped
  BY <1>2 DEF Result
<1> HIDE DEF pop, v, b
<1>6. v.kept \in Seq(AllChunks) /\ v.ssn \in Ssns /\ v.popped \in Seq(Seq(AllChunks))
  BY <1>3 DEF IsScanning, Scans
<1>7. Distinct(v.kept) /\ ToSet(v.kept) \cap Gone(v) = {} /\ ToSet(v.kept) \cup Gone(v) = ToSet(b)
  BY <1>3, <1>4 DEF Collected
<1>8. UNION {ToSet(pop.popped[j]) : j \in DOMAIN pop.popped} = Gone(v)
  BY <1>5 DEF Gone
<1>9. \A j \in DOMAIN pop.popped : \E k \in Numbers : pop.popped[j] = Chunks[k]
  BY <1>3, <1>5 DEF Tracked, Whole
<1>10. Sound(pop.stream)
  BY <1>5, <1>6, <1>7 DEF Sound
<1> QED
  BY <1>5, <1>6, <1>7, <1>8, <1>9, <1>10 DEF pop, b

-----------------------------------------------------------------------------
(* Bytes: what is kept and what is handed over add up to what came in.       *)

SizeOf == [c \in AllChunks |-> c.size]
BytesOf(s) == SumOver(s, SizeOf)

LEMMA SizeTyped ==
  ASSUME NEW c \in AllChunks
  PROVE  SizeOf[c] = c.size /\ c.size \in Nat
<1>1. PICK k \in Numbers : \E i \in 1 .. Len(Sizes(k)) : c = Chunks[k][i]
  BY ChunkIs
<1>2. PICK i \in 1 .. Len(Sizes(k)) : c = Chunks[k][i]
  BY <1>1
<1>3. Chunks[k][i].size = Sizes(k)[i]
  BY ChunkFields
<1>4. Sizes(k)[i] \in Nat
  <2>1. Messages[k].sizes \in Seq(Nat)
    BY MessagesTyped
  <2>2. Sizes(k) \in Seq(Nat)
    BY <2>1 DEF Sizes
  <2> QED
    BY <2>2
<1> QED
  BY <1>2, <1>3, <1>4 DEF SizeOf

LEMMA ChunksFinite == ASSUME TsnsSuffice PROVE IsFiniteSet(AllChunks)
<1> DEFINE f == [c \in AllChunks |-> c.tsn]
<1>1. \A c \in AllChunks : c.tsn \in 0 .. TsnModulo - 1
  BY ChunkTyped DEF Tsns
<1>2. IsFiniteSet(0 .. TsnModulo - 1)
  BY TsnSpace, FS_Interval
<1>3. f \in [AllChunks -> 0 .. TsnModulo - 1]
  BY <1>1
<1>4. \A c, d \in AllChunks : f[c] = f[d] => c = d
  BY SameTsn
<1>5. f \in Injection(AllChunks, 0 .. TsnModulo - 1)
  BY <1>3, <1>4 DEF Injection, IsInjective
<1> QED
  BY <1>2, <1>5, FS_Injection

LEMMA PartFinite ==
  ASSUME TsnsSuffice, NEW s \in SUBSET AllChunks
  PROVE  /\ IsFiniteSet(s) /\ \A c \in s : SizeOf[c] \in Int
         /\ BytesOf(s) \in Int
<1>1. IsFiniteSet(s) /\ \A c \in s : SizeOf[c] \in Int
  BY ChunksFinite, FS_Subset, SizeTyped
<1> QED
  BY <1>1, SumTyped DEF BytesOf

LEMMA BytesOfBoth ==
  ASSUME TsnsSuffice, NEW s \in SUBSET AllChunks, NEW t \in SUBSET AllChunks, s \cap t = {}
  PROVE  /\ BytesOf(s \cup t) = BytesOf(s) + BytesOf(t)
         /\ BytesOf(s \cup t) \in Int /\ BytesOf(s) \in Int /\ BytesOf(t) \in Int
<1>1. /\ IsFiniteSet(s) /\ IsFiniteSet(t) /\ \A c \in s \cup t : SizeOf[c] \in Int
      /\ BytesOf(s) \in Int /\ BytesOf(t) \in Int
  BY PartFinite
<1>2. BytesOf(s \cup t) = BytesOf(s) + BytesOf(t)
  BY <1>1, SumOfBoth DEF BytesOf
<1> QED
  BY <1>1, <1>2

LEMMA BytesOfOne ==
  ASSUME TsnsSuffice, NEW c \in AllChunks
  PROVE  BytesOf({c}) = c.size /\ c.size \in Int
<1>1. c \notin {} /\ IsFiniteSet({}) /\ {} \cup {c} = {c}
  BY FS_EmptySet
<1>2. \A d \in {} \cup {c} : SizeOf[d] \in Int
  BY SizeTyped
<1>3. SumOver({} \cup {c}, SizeOf) = SumOver({}, SizeOf) + SizeOf[c]
  BY <1>1, <1>2, SumOfMore
<1> QED
  BY <1>1, <1>3, SumOfNothing, SizeTyped DEF BytesOf

\* The sums of the code, read as sums over functions.
SizesIn(q) == [i \in DOMAIN q |-> q[i].size]
BytesIn(p) == [j \in DOMAIN p |-> Bytes(p[j])]

LEMMA BytesAre ==
  ASSUME NEW q
  PROVE  Bytes(q) = SumOver(DOMAIN q, SizesIn(q))
<1> DEFINE D == DOMAIN q
           IsIt(f) == f = [t \in SUBSET D |-> IF t = {} THEN 0
                                             ELSE q[Picked(t)].size + f[t \ {Picked(t)}]]
<1>1. \A t \in SUBSET D : t # {} => q[Picked(t)].size = SizesIn(q)[Picked(t)]
  BY PickedIs DEF SizesIn
<1>2. \A f : IsIt(f) <=> IsSum(D, SizesIn(q), f)
  BY <1>1 DEF IsSum
<1>3. (CHOOSE f : IsIt(f)) = (CHOOSE f : IsSum(D, SizesIn(q), f))
  BY <1>2
<1>4. Bytes(q) = (CHOOSE f : IsIt(f))[D]
  BY DEF Bytes, MapThenSumSet, MapThenFoldSet, Picked
<1>5. SumOver(D, SizesIn(q)) = (CHOOSE f : IsSum(D, SizesIn(q), f))[D]
  BY DEF SumOver, MapThenSumSet, MapThenFoldSet, IsSum, Picked
<1> QED
  BY <1>3, <1>4, <1>5

LEMMA ReturnedIs ==
  ASSUME NEW p
  PROVE  Returned(p) = SumOver(DOMAIN p, BytesIn(p))
<1> DEFINE D == DOMAIN p
           IsIt(f) == f = [t \in SUBSET D |-> IF t = {} THEN 0
                                             ELSE Bytes(p[Picked(t)]) + f[t \ {Picked(t)}]]
<1>1. \A t \in SUBSET D : t # {} => Bytes(p[Picked(t)]) = BytesIn(p)[Picked(t)]
  BY PickedIs DEF BytesIn
<1>2. \A f : IsIt(f) <=> IsSum(D, BytesIn(p), f)
  BY <1>1 DEF IsSum
<1>3. (CHOOSE f : IsIt(f)) = (CHOOSE f : IsSum(D, BytesIn(p), f))
  BY <1>2
<1>4. Returned(p) = (CHOOSE f : IsIt(f))[D]
  BY DEF Returned, MapThenSumSet, MapThenFoldSet, Picked
<1>5. SumOver(D, BytesIn(p)) = (CHOOSE f : IsSum(D, BytesIn(p), f))[D]
  BY DEF SumOver, MapThenSumSet, MapThenFoldSet, IsSum, Picked
<1> QED
  BY <1>3, <1>4, <1>5

\* The bytes of a sequence in which no chunk is repeated.
LEMMA BytesOfSeq ==
  ASSUME TsnsSuffice, NEW q \in Seq(AllChunks), Distinct(q)
  PROVE  Bytes(q) = BytesOf(ToSet(q))
<1> DEFINE n == Len(q)
           g == SizesIn(q)
           Good(k) == SumOver(1 .. k, g) = BytesOf(FirstOf(q, k))
           T == {k \in 0 .. n : ~Good(k)}
<1>1. n \in Nat /\ DOMAIN q = 1 .. n /\ \A i \in 1 .. n : q[i] \in AllChunks
  BY SeqFacts
<1>2. \A i \in 1 .. n : g[i] = q[i].size /\ g[i] \in Int
  BY <1>1, SizeTyped DEF SizesIn
<1> HIDE DEF g
<1>3. T = {}
  <2> SUFFICES ASSUME T # {} PROVE FALSE
    OBVIOUS
  <2>1. PICK k \in T : \A j \in T : k <= j
    <3>1. T \in SUBSET Nat
      BY <1>1
    <3> HIDE DEF T
    <3> QED
      BY <3>1, LeastNumber
  <2>2. k \in 0 .. n /\ ~Good(k)
    OBVIOUS
  <2>3. CASE k = 0
    <3>1. 1 .. 0 = {} /\ FirstOf(q, 0) = {}
      BY DEF FirstOf
    <3> QED
      BY <2>2, <2>3, <3>1, SumOfNothing DEF BytesOf
  <2>4. CASE k # 0
    <3>1. k - 1 \in 0 .. n /\ ~(k <= k - 1) /\ k \in 1 .. n /\ k \notin 1 .. k - 1
          /\ 1 .. k = (1 .. k - 1) \cup {k}
      BY <1>1, <2>2, <2>4
    <3>2. k - 1 \notin T
      BY <2>1, <3>1
    <3>3. Good(k - 1)
      BY <3>1, <3>2
    <3>4. q[k] \notin FirstOf(q, k - 1)
      <4> SUFFICES ASSUME NEW j \in 1 .. k - 1, q[j] = q[k] PROVE FALSE
        BY DEF FirstOf
      <4>1. j \in 1 .. n /\ j # k
        BY <1>1, <3>1
      <4> QED
        BY <1>1, <3>1, <4>1 DEF Distinct
    <3>5. FirstOf(q, k) = FirstOf(q, k - 1) \cup {q[k]}
      BY <3>1 DEF FirstOf
    <3>6. FirstOf(q, k - 1) \in SUBSET AllChunks /\ q[k] \in AllChunks
      <4>1. \A j \in 1 .. k - 1 : j \in 1 .. n
        BY <1>1, <3>1
      <4> QED
        BY <1>1, <3>1, <4>1 DEF FirstOf
    <3>7. SumOver(1 .. k, g) = SumOver(1 .. k - 1, g) + g[k]
      <4>1. \A j \in (1 .. k - 1) \cup {k} : g[j] \in Int
        <5>1. \A j \in (1 .. k - 1) \cup {k} : j \in 1 .. n
          BY <1>1, <3>1
        <5> QED
          BY <1>2, <5>1
      <4>2. IsFiniteSet(1 .. k - 1)
        BY <1>1, <3>1, FS_Interval
      <4> QED
        BY <3>1, <4>1, <4>2, SumOfMore
    <3>8. BytesOf(FirstOf(q, k)) = BytesOf(FirstOf(q, k - 1)) + q[k].size
      <4>1. FirstOf(q, k - 1) \cap {q[k]} = {} /\ {q[k]} \in SUBSET AllChunks
        BY <3>4, <3>6
      <4>2. BytesOf({q[k]}) = q[k].size
        BY <3>6, BytesOfOne
      <4> QED
        BY <3>5, <3>6, <4>1, <4>2, BytesOfBoth
    <3> QED
      BY <1>2, <2>2, <3>1, <3>3, <3>7, <3>8
  <2> QED
    BY <2>3, <2>4
<1>4. Good(n)
  BY <1>1, <1>3
<1>5. FirstOf(q, n) = ToSet(q)
  BY <1>1 DEF FirstOf, ToSet
<1> QED
  BY <1>1, <1>4, <1>5, BytesAre DEF g

\* One more message is handed over.
LEMMA ReturnedMore ==
  ASSUME TsnsSuffice, NEW p \in Seq(Seq(AllChunks)), NEW q \in Seq(AllChunks)
  PROVE  /\ Returned(Append(p, q)) = Returned(p) + Bytes(q)
         /\ Returned(p) \in Int /\ Bytes(q) \in Int
<1> DEFINE r == Append(p, q)
           n == Len(p)
           g == BytesIn(r)
           h == BytesIn(p)
<1>1. /\ r \in Seq(Seq(AllChunks)) /\ Len(r) = n + 1 /\ n \in Nat
      /\ \A i \in 1 .. n + 1 : r[i] = IF i = n + 1 THEN q ELSE p[i]
  BY AppendTyped
<1>2. DOMAIN r = 1 .. n + 1 /\ DOMAIN p = 1 .. n /\ \A i \in 1 .. n : p[i] \in Seq(AllChunks)
  BY <1>1, SeqFacts
<1>3. ASSUME NEW s \in Seq(AllChunks) PROVE Bytes(s) \in Int
  <2>1. Len(s) \in Nat /\ DOMAIN s = 1 .. Len(s) /\ \A i \in 1 .. Len(s) : s[i] \in AllChunks
    BY SeqFacts
  <2>2. \A i \in DOMAIN s : SizesIn(s)[i] \in Int
    BY <2>1, SizeTyped DEF SizesIn
  <2>3. IsFiniteSet(DOMAIN s)
    BY <2>1, FS_Interval
  <2>4. SumOver(DOMAIN s, SizesIn(s)) \in Int
    BY <2>2, <2>3, SumTyped
  <2> QED
    BY <2>4, BytesAre
<1> HIDE DEF r, n
<1>4. \A i \in 1 .. n : i \in 1 .. n + 1 /\ i # n + 1
  BY <1>1
<1>5. 1 .. n + 1 = (1 .. n) \cup {n + 1} /\ n + 1 \notin 1 .. n
  BY <1>1
<1>6. /\ \A i \in 1 .. n : g[i] = h[i] /\ h[i] \in Int
      /\ g[n + 1] = Bytes(q) /\ Bytes(q) \in Int
  <2>1. \A i \in 1 .. n : g[i] = Bytes(r[i]) /\ h[i] = Bytes(p[i]) /\ r[i] = p[i]
    BY <1>1, <1>2, <1>4 DEF BytesIn
  <2>2. g[n + 1] = Bytes(r[n + 1]) /\ r[n + 1] = q
    BY <1>1, <1>2, <1>5 DEF BytesIn
  <2> QED
    BY <1>2, <1>3, <2>1, <2>2
<1> HIDE DEF g, h
<1>7. IsFiniteSet(1 .. n)
  BY <1>1, FS_Interval
<1>8. SumOver((1 .. n) \cup {n + 1}, g) = SumOver(1 .. n, g) + g[n + 1]
  <2>1. \A i \in (1 .. n) \cup {n + 1} : g[i] \in Int
    BY <1>6
  <2> QED
    BY <1>5, <1>7, <2>1, SumOfMore
<1>9. SumOver(1 .. n, g) = SumOver(1 .. n, h)
  BY <1>6, <1>7, SumOfEqual
<1>10. SumOver(1 .. n, h) \in Int
  BY <1>6, <1>7, SumTyped
<1>11. Returned(r) = SumOver(1 .. n + 1, g) /\ Returned(p) = SumOver(1 .. n, h)
  BY <1>2, ReturnedIs DEF g, h
<1> QED
  BY <1>5, <1>6, <1>8, <1>9, <1>10, <1>11 DEF r

\* Each chunk of a pass adds its bytes to what is kept, and each message that is handed over
\* takes its bytes out.
Accounts(v, processed) == BytesOf(ToSet(v.kept)) + Returned(v.popped) = BytesOf(processed)

LEMMA AccountsStep ==
  ASSUME TsnsSuffice, NEW v, IsScanning(v), NEW processed \in SUBSET AllChunks,
         Collected(v, processed), Accounts(v, processed),
         NEW c \in AllChunks, c \notin processed
  PROVE  Accounts(ScanChunk(v, c), processed \cup {c})
<1> DEFINE w == ScanChunk(v, c)
<1>1. IsScanning(w) /\ (Skips(v, w, c) \/ Extends(v, w, c) \/ Pops(v, w, c))
  BY ScanStep
<1>2. /\ v.kept \in Seq(AllChunks) /\ Distinct(v.kept) /\ c \notin ToSet(v.kept)
      /\ v.popped \in Seq(Seq(AllChunks)) /\ v.start \in Nat /\ v.start <= Len(v.kept) + 1
      /\ ToSet(v.kept) \in SUBSET AllChunks
  BY SeqFacts DEF IsScanning, Scans, Collected
<1>3. /\ BytesOf(processed \cup {c}) = BytesOf(processed) + c.size
      /\ BytesOf(ToSet(v.kept) \cup {c}) = BytesOf(ToSet(v.kept)) + c.size
      /\ c.size \in Int /\ BytesOf(processed) \in Int /\ BytesOf(ToSet(v.kept)) \in Int
  <2>1. BytesOf({c}) = c.size /\ c.size \in Int /\ {c} \in SUBSET AllChunks
    BY BytesOfOne
  <2>2. processed \cap {c} = {} /\ ToSet(v.kept) \cap {c} = {}
    BY <1>2
  <2>3. /\ BytesOf(processed \cup {c}) = BytesOf(processed) + BytesOf({c})
        /\ BytesOf(processed) \in Int
    BY <2>1, <2>2, BytesOfBoth
  <2>4. /\ BytesOf(ToSet(v.kept) \cup {c}) = BytesOf(ToSet(v.kept)) + BytesOf({c})
        /\ BytesOf(ToSet(v.kept)) \in Int
    BY <1>2, <2>1, <2>2, BytesOfBoth
  <2> QED
    BY <2>1, <2>3, <2>4
<1>4. Returned(v.popped) \in Int
  BY <1>2, ReturnedMore
<1> HIDE DEF w
<1>5. CASE w.kept = Append(v.kept, c) /\ w.popped = v.popped
  <2>1. ToSet(w.kept) = ToSet(v.kept) \cup {c}
    BY <1>2, <1>5, AppendSet
  <2>2. Returned(w.popped) = Returned(v.popped)
    BY <1>5
  <2> QED
    BY <1>3, <1>4, <2>1, <2>2 DEF Accounts, w
<1>6. CASE Pops(v, w, c)
  <2> DEFINE n == Begins(v)
             a == SubSeq(Append(v.kept, c), 1, n - 1)
             b == SubSeq(Append(v.kept, c), n, Len(v.kept) + 1)
  <2>1. n \in 1 .. Len(v.kept) + 1
    BY <1>2, SeqFacts DEF Begins
  <2>2. Distinct(b) /\ ToSet(a) \cap ToSet(b) = {} /\ ToSet(a) \cup ToSet(b) = ToSet(v.kept) \cup {c}
    BY <1>2, <2>1, PartedSets
  <2>3. b \in Seq(AllChunks)
    BY <1>2, <2>1, Parted
  <2>4. w.kept = a /\ w.popped = Append(v.popped, b)
    BY <1>6 DEF Pops
  <2> HIDE DEF n, a, b
  <2>5. ToSet(a) \in SUBSET AllChunks /\ ToSet(b) \in SUBSET AllChunks
    BY <1>2, <2>2
  <2>6. /\ BytesOf(ToSet(a) \cup ToSet(b)) = BytesOf(ToSet(a)) + BytesOf(ToSet(b))
        /\ BytesOf(ToSet(a)) \in Int /\ BytesOf(ToSet(b)) \in Int
    BY <2>2, <2>5, BytesOfBoth
  <2>7. Returned(Append(v.popped, b)) = Returned(v.popped) + Bytes(b)
    BY <1>2, <2>3, ReturnedMore
  <2>8. Bytes(b) = BytesOf(ToSet(b))
    BY <2>2, <2>3, BytesOfSeq
  <2> DEFINE x == BytesOf(ToSet(a))
             y == BytesOf(ToSet(b))
             z == Returned(v.popped)
             k == BytesOf(ToSet(v.kept))
             o == BytesOf(processed)
  <2>9. /\ BytesOf(ToSet(w.kept)) = x /\ Returned(w.popped) = z + y /\ k + z = o
        /\ k + c.size = x + y /\ BytesOf(processed \cup {c}) = o + c.size
        /\ x \in Int /\ y \in Int /\ z \in Int /\ k \in Int /\ o \in Int /\ c.size \in Int
    BY <1>3, <1>4, <2>2, <2>4, <2>6, <2>7, <2>8 DEF Accounts
  <2> HIDE DEF x, y, z, k, o
  <2>10. BytesOf(ToSet(w.kept)) + Returned(w.popped) = BytesOf(processed \cup {c})
    BY <2>9
  <2> QED
    BY <2>10 DEF Accounts, w
<1> QED
  BY <1>1, <1>5, <1>6 DEF Skips, Extends

LEMMA PassAccounts ==
  ASSUME TsnsSuffice, NEW stream, Sound(stream), NEW f,
         IsPass(stream, Len(stream.reassembly), f), NEW i \in 0 .. Len(stream.reassembly)
  PROVE  Accounts(f[i], FirstOf(stream.reassembly, i))
<1> DEFINE b == stream.reassembly
           n == Len(b)
           Good(k) == Accounts(f[k], FirstOf(b, k))
           T == {k \in 0 .. n : ~Good(k)}
<1>1. b \in Seq(AllChunks) /\ n \in Nat /\ DOMAIN b = 1 .. n /\ Distinct(b)
  BY SeqFacts DEF Sound
<1> SUFFICES ASSUME T # {} PROVE FALSE
  OBVIOUS
<1>2. PICK k \in T : \A j \in T : k <= j
  <2>1. T \in SUBSET Nat
    BY <1>1
  <2> HIDE DEF T
  <2> QED
    BY <2>1, LeastNumber
<1>3. /\ k \in 0 .. n /\ ~Good(k)
      /\ f[k] = IF k = 0 THEN Scan(stream) ELSE ScanChunk(f[k - 1], b[k])
  BY DEF IsPass
<1>4. CASE k = 0
  <2>1. FirstOf(b, 0) = {}
    BY DEF FirstOf
  <2>2. f[k].kept = << >> /\ f[k].popped = << >>
    BY <1>3, <1>4 DEF Scan
  <2>3. ToSet(<< >>) = {}
    BY DEF ToSet
  <2>4. BytesOf({}) = 0
    BY SumOfNothing DEF BytesOf
  <2>5. Returned(<< >>) = 0
    <3>1. DOMAIN << >> = {}
      OBVIOUS
    <3> QED
      BY <3>1, ReturnedIs, SumOfNothing
  <2> QED
    <3>1. /\ BytesOf(ToSet(f[k].kept)) = 0 /\ Returned(f[k].popped) = 0
          /\ BytesOf(FirstOf(b, k)) = 0
      BY <1>4, <2>1, <2>2, <2>3, <2>4, <2>5
    <3>2. BytesOf(ToSet(f[k].kept)) + Returned(f[k].popped) = BytesOf(FirstOf(b, k))
      BY <3>1
    <3> QED
      BY <1>3, <3>2 DEF Accounts
<1>5. CASE k # 0
  <2>1. k - 1 \in 0 .. n /\ k - 1 < k /\ k \in 1 .. n
    BY <1>1, <1>3, <1>5
  <2>2. k - 1 \notin T
    BY <1>1, <1>2, <1>3, <2>1
  <2>3. Good(k - 1)
    BY <2>1, <2>2
  <2>4. b[k] \in AllChunks
    BY <1>1, <2>1, SeqFacts
  <2>5. b[k] \notin FirstOf(b, k - 1)
    <3> SUFFICES ASSUME NEW j \in 1 .. k - 1, b[j] = b[k] PROVE FALSE
      BY DEF FirstOf
    <3>1. j \in 1 .. n /\ j # k
      BY <1>1, <2>1
    <3> QED
      BY <1>1, <2>1, <3>1 DEF Distinct
  <2>6. FirstOf(b, k - 1) \cup {b[k]} = FirstOf(b, k)
    <3>1. \A j : j \in 1 .. k <=> j \in 1 .. k - 1 \/ j = k
      BY <1>1, <2>1
    <3> QED
      BY <3>1 DEF FirstOf
  <2>7. f[k] = ScanChunk(f[k - 1], b[k])
    BY <1>3, <1>5
  <2>8. IsScanning(f[k - 1]) /\ Collected(f[k - 1], FirstOf(b, k - 1))
    BY <2>1, PassKeeps
  <2>9. FirstOf(b, k - 1) \in SUBSET AllChunks
    <3>1. \A j \in 1 .. k - 1 : j \in 1 .. n
      BY <1>1, <2>1
    <3> QED
      BY <1>1, <3>1, SeqFacts DEF FirstOf
  <2> HIDE DEF b, T
  <2>10. Accounts(f[k], FirstOf(b, k))
    BY <2>3, <2>4, <2>5, <2>6, <2>7, <2>8, <2>9, AccountsStep
  <2> QED
    BY <1>3, <2>10
<1> QED
  BY <1>4, <1>5

\* popMessages gives back the bytes of what leaves the buffer.
LEMMA PopAccounts ==
  ASSUME TsnsSuffice, NEW stream, Sound(stream)
  PROVE  LET pop == PopMessages(stream)
         IN  /\ BytesOf(ToSet(pop.stream.reassembly)) + Returned(pop.popped)
                  = BytesOf(ToSet(stream.reassembly))
             /\ Returned(pop.popped) \in Int
<1> DEFINE b == stream.reassembly
<1>1. b \in Seq(AllChunks) /\ Len(b) \in Nat /\ DOMAIN b = 1 .. Len(b)
  BY SeqFacts DEF Sound
<1>2. PICK f : IsPass(stream, Len(b), f) /\ PopMessages(stream) = Result(f[Len(b)])
  BY <1>1, PassIs
<1> DEFINE v == f[Len(b)]
<1>3. IsScanning(v) /\ Accounts(v, FirstOf(b, Len(b)))
  BY <1>1, <1>2, PassAccounts, PassKeeps
<1>4. FirstOf(b, Len(b)) = ToSet(b)
  BY <1>1 DEF FirstOf, ToSet
<1> DEFINE pop == PopMessages(stream)
<1>5. pop.stream.reassembly = v.kept /\ pop.popped = v.popped
  BY <1>2 DEF Result
<1> HIDE DEF pop, v, b
<1>6. Returned(v.popped) \in Int
  <2>1. v.popped \in Seq(Seq(AllChunks)) /\ v.kept \in Seq(AllChunks)
    BY <1>3 DEF IsScanning, Scans
  <2> QED
    BY <2>1, ReturnedMore
<1> QED
  BY <1>3, <1>4, <1>5, <1>6 DEF pop, b, Accounts

-----------------------------------------------------------------------------
(* addChunk puts the chunk somewhere into the buffer.                        *)

IsInserted(S, s, n, x, t) ==
  /\ t \in Seq(S) /\ Len(t) = Len(s) + 1
  /\ \A i \in 1 .. Len(s) + 1 : t[i] = IF i <= n THEN s[i] ELSE IF i = n + 1 THEN x ELSE s[i - 1]

LEMMA Inserted ==
  ASSUME NEW S, NEW s \in Seq(S), NEW x \in S, NEW n \in 0 .. Len(s)
  PROVE  IsInserted(S, s, n, x, InsertAt(s, n + 1, x))
<1> DEFINE l == Len(s)
           a == SubSeq(s, 1, n)
           b == << x >>
           c == SubSeq(s, n + 1, l)
           d == a \o b
<1>1. l \in Nat /\ n \in Int /\ n >= 0 /\ n <= l
  BY SeqFacts
<1>2. a \in Seq(S) /\ Len(a) = n /\ \A i \in 1 .. n : a[i] = s[i]
  BY <1>1
<1>3. b \in Seq(S) /\ Len(b) = 1 /\ b[1] = x
  OBVIOUS
<1>4. c \in Seq(S) /\ Len(c) = l - n /\ \A i \in 1 .. l - n : c[i] = s[n + i]
  BY <1>1
<1>5. InsertAt(s, n + 1, x) = d \o c
  <2>1. (n + 1) - 1 = n
    BY <1>1
  <2> QED
    BY <2>1 DEF InsertAt
<1> HIDE DEF l, a, b, c
<1>6. d \in Seq(S) /\ Len(d) = n + 1 /\ \A i \in 1 .. n + 1 : d[i] = IF i <= n THEN a[i] ELSE b[i - n]
  <2>1. /\ d \in Seq(S) /\ Len(d) = Len(a) + Len(b)
        /\ \A i \in 1 .. Len(a) + Len(b) : d[i] = IF i <= Len(a) THEN a[i] ELSE b[i - Len(a)]
    BY <1>2, <1>3, ConcatProperties
  <2> QED
    BY <1>2, <1>3, <2>1
<1> HIDE DEF d
<1> DEFINE t == d \o c
<1>7. t \in Seq(S) /\ Len(t) = l + 1
      /\ \A i \in 1 .. l + 1 : t[i] = IF i <= n + 1 THEN d[i] ELSE c[i - n - 1]
  <2>1. /\ t \in Seq(S) /\ Len(t) = Len(d) + Len(c)
        /\ \A i \in 1 .. Len(d) + Len(c) : t[i] = IF i <= Len(d) THEN d[i] ELSE c[i - Len(d)]
    BY <1>4, <1>6, ConcatProperties
  <2> HIDE DEF t
  <2>2. Len(d) + Len(c) = l + 1 /\ Len(d) = n + 1
    BY <1>1, <1>4, <1>6
  <2>3. ASSUME NEW i \in 1 .. l + 1 PROVE t[i] = IF i <= n + 1 THEN d[i] ELSE c[i - n - 1]
    <3>1. i - Len(d) = i - n - 1
      BY <1>1, <2>2
    <3> QED
      BY <2>1, <2>2, <3>1
  <2> QED
    BY <2>1, <2>2, <2>3
<1> HIDE DEF t
<1>8. ASSUME NEW i \in 1 .. l + 1
      PROVE  t[i] = IF i <= n THEN s[i] ELSE IF i = n + 1 THEN x ELSE s[i - 1]
  <2>1. CASE i <= n
    <3>1. i \in 1 .. n /\ i \in 1 .. n + 1 /\ i <= n + 1
      BY <1>1, <2>1
    <3>2. t[i] = d[i] /\ d[i] = a[i] /\ a[i] = s[i]
      BY <1>2, <1>6, <1>7, <2>1, <3>1
    <3> QED
      BY <2>1, <3>2
  <2>2. CASE i = n + 1
    <3>1. i \in 1 .. n + 1 /\ ~(i <= n) /\ i - n = 1 /\ i <= n + 1
      BY <1>1, <2>2
    <3>2. t[i] = d[i] /\ d[i] = b[1]
      BY <1>6, <1>7, <3>1
    <3> QED
      BY <1>3, <2>2, <3>1, <3>2
  <2>3. CASE i > n + 1
    <3>1. i - n - 1 \in 1 .. l - n /\ n + (i - n - 1) = i - 1 /\ ~(i <= n + 1) /\ ~(i <= n) /\ i # n + 1
      BY <1>1, <2>3
    <3>2. t[i] = c[i - n - 1] /\ c[i - n - 1] = s[i - 1]
      BY <1>4, <1>7, <3>1
    <3> QED
      BY <3>1, <3>2
  <2> QED
    BY <1>1, <2>1, <2>2, <2>3
<1>9. IsInserted(S, s, n, x, t)
  BY <1>7, <1>8 DEF l, IsInserted
<1>10. InsertAt(s, n + 1, x) = t
  BY <1>5 DEF t
<1> QED
  BY <1>9, <1>10

LEMMA InsertedSet ==
  ASSUME NEW S, NEW s \in Seq(S), NEW x \in S, x \notin ToSet(s), Distinct(s), NEW n \in 0 .. Len(s)
  PROVE  /\ ToSet(InsertAt(s, n + 1, x)) = ToSet(s) \cup {x} /\ Distinct(InsertAt(s, n + 1, x))
         /\ InsertAt(s, n + 1, x) \in Seq(S)
<1> DEFINE l == Len(s)
           t == InsertAt(s, n + 1, x)
<1>1. /\ t \in Seq(S) /\ Len(t) = l + 1
      /\ \A i \in 1 .. l + 1 : t[i] = IF i <= n THEN s[i] ELSE IF i = n + 1 THEN x ELSE s[i - 1]
  <2>1. IsInserted(S, s, n, x, t)
    BY Inserted
  <2> HIDE DEF t
  <2> QED
    BY <2>1 DEF IsInserted
<1>2. l \in Nat /\ DOMAIN s = 1 .. l /\ DOMAIN t = 1 .. l + 1 /\ n \in Int /\ n >= 0 /\ n <= l
  BY <1>1, SeqFacts
<1> HIDE DEF t, l
<1>3. \A i \in 1 .. l + 1 : i # n + 1 =>
        /\ (IF i <= n THEN i ELSE i - 1) \in 1 .. l
        /\ t[i] = s[IF i <= n THEN i ELSE i - 1]
  BY <1>1, <1>2
<1>4. t[n + 1] = x /\ n + 1 \in 1 .. l + 1
  BY <1>1, <1>2
<1>5. \A i \in 1 .. l : s[i] # x
  BY <1>2 DEF ToSet
<1>6. \A i, j \in 1 .. l : s[i] = s[j] => i = j
  BY <1>2 DEF Distinct
<1>7. ASSUME NEW i \in 1 .. l + 1, NEW j \in 1 .. l + 1, t[i] = t[j] PROVE i = j
  <2>1. CASE i = n + 1
    BY <1>3, <1>4, <1>5, <1>7, <2>1
  <2>2. CASE j = n + 1
    BY <1>3, <1>4, <1>5, <1>7, <2>2
  <2>3. CASE i # n + 1 /\ j # n + 1
    <3> DEFINE p == IF i <= n THEN i ELSE i - 1
               q == IF j <= n THEN j ELSE j - 1
    <3>1. p \in 1 .. l /\ t[i] = s[p] /\ q \in 1 .. l /\ t[j] = s[q]
      BY <1>3, <2>3
    <3> HIDE DEF p, q
    <3>2. p = q
      BY <1>6, <1>7, <3>1
    <3> QED
      BY <1>2, <2>3, <3>2 DEF p, q
  <2> QED
    BY <2>1, <2>2, <2>3
<1>8. ASSUME NEW y \in ToSet(t) PROVE y \in ToSet(s) \cup {x}
  <2>1. PICK i \in 1 .. l + 1 : y = t[i]
    BY <1>2 DEF ToSet
  <2> QED
    BY <1>2, <1>3, <1>4, <2>1 DEF ToSet
<1>9. ASSUME NEW y \in ToSet(s) PROVE y \in ToSet(t)
  <2>1. PICK i \in 1 .. l : y = s[i]
    BY <1>2 DEF ToSet
  <2>2. CASE i <= n
    <3>1. i \in 1 .. l + 1 /\ t[i] = s[i]
      BY <1>1, <1>2, <2>2
    <3> QED
      BY <1>2, <2>1, <3>1 DEF ToSet
  <2>3. CASE i > n
    <3>1. i + 1 \in 1 .. l + 1 /\ ~(i + 1 <= n) /\ i + 1 # n + 1 /\ i + 1 - 1 = i
      BY <1>2, <2>3
    <3>2. t[i + 1] = s[i]
      BY <1>1, <3>1
    <3> QED
      BY <1>2, <2>1, <3>1, <3>2 DEF ToSet
  <2> QED
    BY <1>2, <2>2, <2>3
<1>10. x \in ToSet(t)
  BY <1>2, <1>4 DEF ToSet
<1>11. Distinct(t)
  BY <1>2, <1>7 DEF Distinct
<1>12. ToSet(t) = ToSet(s) \cup {x}
  BY <1>8, <1>9, <1>10
<1> QED
  BY <1>1, <1>11, <1>12 DEF t

LEMMA LeastIs ==
  ASSUME NEW S \in SUBSET Nat, S # {}
  PROVE  Min(S) \in S
<1>1. \E k \in S : \A j \in S : k <= j
  BY LeastNumber
<1> QED
  BY <1>1 DEF Min

LEMMA AddedChunk ==
  ASSUME TsnsSuffice, NEW stream, Sound(stream), NEW c \in AllChunks, c \notin ToSet(stream.reassembly),
         DOMAIN stream = {"reassembly", "ssn"}
  PROVE  LET added == AddChunk(stream, c)
         IN  Sound(added) /\ ToSet(added.reassembly) = ToSet(stream.reassembly) \cup {c}
             /\ added.ssn = stream.ssn
<1> DEFINE b == stream.reassembly
           failing == {i \in DOMAIN b : Uint32Gte(b[i].tsn, c.tsn)}
           ahead == IF failing = {} THEN Len(b) ELSE Min(failing) - 1
           t == InsertAt(b, ahead + 1, c)
<1>1. b \in Seq(AllChunks) /\ Len(b) \in Nat /\ DOMAIN b = 1 .. Len(b) /\ Distinct(b)
      /\ stream.ssn \in Ssns
  BY SeqFacts DEF Sound
<1>2. ahead \in 0 .. Len(b)
  <2>1. CASE failing = {}
    BY <1>1, <2>1
  <2>2. CASE failing # {}
    <3>1. failing \in SUBSET Nat /\ failing \subseteq 1 .. Len(b)
      BY <1>1
    <3> HIDE DEF failing
    <3>2. Min(failing) \in 1 .. Len(b)
      BY <2>2, <3>1, LeastIs
    <3> QED
      BY <1>1, <2>2, <3>2
  <2> QED
    BY <2>1, <2>2
<1>3. PrefixLength(b, LAMBDA d : ~Uint32Gte(d.tsn, c.tsn)) = ahead
  BY DEF PrefixLength
<1>4. ~(ahead < Len(b) /\ b[ahead + 1].tsn = c.tsn)
  <2> SUFFICES ASSUME ahead < Len(b), b[ahead + 1].tsn = c.tsn PROVE FALSE
    OBVIOUS
  <2> HIDE DEF ahead
  <2>1. ahead + 1 \in 1 .. Len(b)
    BY <1>1, <1>2
  <2>2. b[ahead + 1] \in AllChunks /\ b[ahead + 1] \in ToSet(b)
    BY <1>1, <2>1, SeqFacts
  <2> QED
    BY <2>2, SameTsn
<1>5. AddChunk(stream, c) = [stream EXCEPT !.reassembly = t]
  <2> HIDE DEF ahead
  <2> QED
    BY <1>3, <1>4 DEF AddChunk
<1> HIDE DEF ahead
<1>6. ToSet(t) = ToSet(b) \cup {c} /\ Distinct(t) /\ t \in Seq(AllChunks)
  BY <1>1, <1>2, InsertedSet
<1> HIDE DEF t
<1>7. AddChunk(stream, c).reassembly = t /\ AddChunk(stream, c).ssn = stream.ssn
  BY <1>5
<1> QED
  BY <1>1, <1>6, <1>7 DEF Sound

-----------------------------------------------------------------------------
(* Ranks: in a finite set of numbers, the number of those up to each.         *)

Rank(S, t) == Cardinality({u \in S : u <= t})

LEMMA RankTyped ==
  ASSUME NEW S \in SUBSET Int, IsFiniteSet(S), NEW t \in S
  PROVE  Rank(S, t) \in 1 .. Cardinality(S) /\ Cardinality(S) \in Nat
<1> DEFINE U == {u \in S : u <= t}
<1>1. IsFiniteSet(U) /\ Cardinality(U) <= Cardinality(S)
  <2>1. U \in SUBSET S
    OBVIOUS
  <2> HIDE DEF U
  <2> QED
    BY <2>1, FS_Subset
<1>2. t \in U
  OBVIOUS
<1> HIDE DEF U
<1>3. Cardinality(U) \in Nat /\ Cardinality(S) \in Nat
  BY <1>1, FS_CardinalityType
<1>4. Cardinality(U) # 0
  BY <1>1, <1>2, FS_EmptySet
<1> QED
  BY <1>1, <1>3, <1>4 DEF Rank, U

LEMMA RankGrows ==
  ASSUME NEW S \in SUBSET Int, IsFiniteSet(S), NEW t \in S, NEW u \in S, t < u
  PROVE  Rank(S, t) < Rank(S, u)
<1> DEFINE A == {x \in S : x <= t}
           B == {x \in S : x <= u}
<1>1. A \in SUBSET B /\ u \in B /\ u \notin A /\ B \in SUBSET S
  <2>1. t \in Int /\ u \in Int /\ \A x \in S : x \in Int
    OBVIOUS
  <2>2. \A x \in S : x <= t => x <= u
    BY <2>1
  <2>3. u <= u /\ ~(u <= t)
    BY <2>1
  <2> QED
    BY <2>2, <2>3
<1> HIDE DEF A, B
<1>2. IsFiniteSet(B)
  BY <1>1, FS_Subset
<1>3. IsFiniteSet(A) /\ Cardinality(A) <= Cardinality(B) /\ (Cardinality(B) = Cardinality(A) => B = A)
  BY <1>1, <1>2, FS_Subset
<1>4. Cardinality(A) \in Nat /\ Cardinality(B) \in Nat
  BY <1>2, <1>3, FS_CardinalityType
<1>5. Cardinality(A) < Cardinality(B)
  BY <1>1, <1>3, <1>4
<1> QED
  BY <1>5 DEF Rank, A, B

LEMMA RankOnto ==
  ASSUME NEW S \in SUBSET Int, IsFiniteSet(S), NEW j \in 1 .. Cardinality(S)
  PROVE  \E t \in S : Rank(S, t) = j
<1> DEFINE n == Cardinality(S)
           f == [t \in S |-> Rank(S, t)]
<1>1. n \in Nat
  BY FS_CardinalityType
<1>2. f \in [S -> 1 .. n]
  BY RankTyped
<1>3. ASSUME NEW t \in S, NEW u \in S, f[t] = f[u] PROVE t = u
  <2>1. Rank(S, t) \in Int /\ Rank(S, u) \in Int /\ Rank(S, t) = Rank(S, u)
    BY <1>3, RankTyped
  <2>2. ~(t < u) /\ ~(u < t)
    BY <2>1, RankGrows
  <2> QED
    BY <2>2
<1> HIDE DEF f
<1>4. f \in Injection(S, 1 .. n)
  BY <1>2, <1>3 DEF Injection, IsInjective
<1>5. IsFiniteSet(1 .. n) /\ Cardinality(1 .. n) = n
  <2>1. Cardinality(1 .. n) = IF 1 > n THEN 0 ELSE n - 1 + 1
    BY <1>1, FS_Interval
  <2> QED
    BY <1>1, <2>1, FS_Interval
<1>6. f \in Surjection(S, 1 .. n)
  BY <1>4, <1>5, FS_Injection
<1>7. \E t \in S : f[t] = j
  BY <1>6 DEF Surjection
<1> QED
  BY <1>7 DEF f

Tsn(A) == {TsnAt(a) : a \in A}

LEMMA TsnSetTyped ==
  ASSUME NEW l \in Int, NEW h \in Int, NEW A \in SUBSET (l .. h)
  PROVE  /\ IsFiniteSet(A) /\ IsFiniteSet(Tsn(A)) /\ Tsn(A) \in SUBSET Int /\ Tsn(A) \in SUBSET Tsns
         /\ Cardinality(Tsn(A)) \in Nat /\ Cardinality(A) \in Nat
         /\ Cardinality(Tsn(A)) <= Cardinality(A)
         /\ l <= h + 1 => Cardinality(A) <= h - l + 1
<1>1. IsFiniteSet(l .. h) /\ Cardinality(l .. h) = IF l > h THEN 0 ELSE h - l + 1
  BY FS_Interval
<1>2. IsFiniteSet(A) /\ Cardinality(A) <= Cardinality(l .. h)
  BY <1>1, FS_Subset
<1> DEFINE f == [a \in A |-> TsnAt(a)]
           T == Tsn(A)
<1>3. f \in [A -> T] /\ \A t \in T : \E a \in A : f[a] = t
  BY DEF Tsn
<1>4. T \subseteq Tsns
  <2>1. \A a \in A : TsnAt(a) \in Tsns
    BY TsnTyped
  <2> QED
    BY <2>1 DEF Tsn
<1> HIDE DEF f, T
<1>5. f \in Surjection(A, T)
  BY <1>3 DEF Surjection
<1>6. IsFiniteSet(T) /\ Cardinality(T) <= Cardinality(A)
  BY <1>2, <1>5, FS_Surjection
<1>7. Cardinality(T) \in Nat /\ Cardinality(A) \in Nat
  BY <1>2, <1>6, FS_CardinalityType
<1>8. Tsns \subseteq Int
  BY TsnSpace DEF Tsns
<1>9. l <= h + 1 => Cardinality(A) <= h - l + 1
  BY <1>1, <1>2, <1>7
<1>10. T \in SUBSET Int /\ T \in SUBSET Tsns
  BY <1>4, <1>8
<1> QED
  BY <1>2, <1>6, <1>7, <1>9, <1>10 DEF T

\* _markReceived advances over chunks that have arrived, and over nothing else.
LEMMA AdvanceIs ==
  ASSUME TsnsSuffice, Total \in Nat, NEW l \in 0 .. Total, NEW A \in SUBSET (l + 1 .. Total)
  PROVE  \E n \in 0 .. Total - l :
           /\ Advance(TsnAt(l), Tsn(A)) = TsnAt(l + n) /\ \A j \in 1 .. n : l + j \in A
           /\ InitialTsn + Total <= TsnModulo => l + n + 1 \notin A
<1> DEFINE S == Tsn(A)
           from == TsnAt(l)
           inPlace == {t \in S : \A u \in S : u <= t => u = (from + Rank(S, u)) % TsnModulo}
           n == Cardinality(inPlace)
<1>1. Advance(from, S) = (from + n) % TsnModulo
  BY DEF Advance, Rank
<1>2. /\ l \in Int /\ l + 1 \in Int /\ IsFiniteSet(S) /\ S \in SUBSET Int
      /\ Cardinality(S) \in Nat /\ Cardinality(S) <= Total - l
  <2>1. l + 1 \in Int /\ Total \in Int /\ l + 1 <= Total + 1 /\ Total - (l + 1) + 1 = Total - l
    OBVIOUS
  <2>2. /\ IsFiniteSet(S) /\ S \in SUBSET Int /\ Cardinality(S) \in Nat /\ Cardinality(A) \in Nat
        /\ Cardinality(S) <= Cardinality(A) /\ Cardinality(A) <= Total - (l + 1) + 1
    BY <2>1, TsnSetTyped
  <2> HIDE DEF S
  <2> QED
    BY <2>1, <2>2
<1>3. inPlace \in SUBSET S
  OBVIOUS
<1>4. \A t \in S : t \in inPlace <=> \A u \in S : u <= t => u = (from + Rank(S, u)) % TsnModulo
  OBVIOUS
<1>5. \A t \in S : t \in inPlace => t = (from + Rank(S, t)) % TsnModulo
  <2> HIDE DEF S
  <2>1. \A t \in S : t <= t
    BY <1>2
  <2> QED
    BY <2>1
<1> HIDE DEF S, from, inPlace
<1>6. IsFiniteSet(inPlace) /\ n <= Cardinality(S) /\ n \in Nat /\ inPlace \in SUBSET Int
  <2>1. IsFiniteSet(inPlace) /\ n <= Cardinality(S)
    BY <1>2, <1>3, FS_Subset
  <2> QED
    BY <1>2, <1>3, <2>1, FS_CardinalityType
<1>7. n \in 0 .. Total - l
  BY <1>2, <1>6
<1>8. \A t \in inPlace : Rank(inPlace, t) = Rank(S, t)
  <2> SUFFICES ASSUME NEW t \in inPlace
               PROVE  {u \in inPlace : u <= t} = {u \in S : u <= t}
    BY DEF Rank
  <2>1. ASSUME NEW u \in S, u <= t PROVE u \in inPlace
    <3>1. ASSUME NEW x \in S, x <= u PROVE x <= t
      BY <1>2, <1>3, <2>1, <3>1
    <3> QED
      BY <1>3, <1>4, <2>1, <3>1
  <2> QED
    BY <1>3, <2>1
<1>9. ASSUME NEW j \in 1 .. n PROVE l + j \in A
  <2>1. PICK t \in inPlace : Rank(inPlace, t) = j
    BY <1>6, RankOnto
  <2>2. t \in S /\ t = (from + j) % TsnModulo
    BY <1>3, <1>5, <1>8, <2>1
  <2>3. PICK a \in A : t = TsnAt(a)
    BY <2>2 DEF S, Tsn
  <2>4. l \in Int /\ j \in Int
    OBVIOUS
  <2>5. (from + j) % TsnModulo = TsnAt(l + j)
    BY <2>4, TsnLater DEF from
  <2>6. a \in 0 .. Total + 1 /\ l + j \in 0 .. Total + 1
    BY <1>7
  <2>7. a = l + j
    BY <2>2, <2>3, <2>5, <2>6, TsnInjective
  <2> QED
    BY <2>7
<1>10. (from + n) % TsnModulo = TsnAt(l + n)
  BY <1>2, <1>6, TsnLater DEF from
<1>11. ASSUME InitialTsn + Total <= TsnModulo, l + n + 1 \in A PROVE FALSE
  <2> DEFINE low == InitialTsn + l
  <2>1. InitialTsn \in Nat /\ TsnModulo \in Nat /\ low \in Int
    BY TsnSpace
  <2>2. ASSUME NEW a \in 1 .. Total PROVE TsnAt(a) = InitialTsn + a - 1
    <3>1. InitialTsn + a - 1 \in 0 .. TsnModulo - 1
      BY <1>11, <2>1
    <3>2. TsnModulo \in Nat \ {0} /\ InitialTsn + a - 1 \in Int
          /\ InitialTsn + a - 1 = TsnModulo * 0 + (InitialTsn + a - 1)
      BY <2>1, <3>1
    <3> DEFINE z == InitialTsn + a - 1
    <3>3. TsnAt(a) = z % TsnModulo
      BY DEF TsnAt
    <3>4. z \in 0 .. TsnModulo - 1 /\ z \in Int /\ TsnModulo \in Nat \ {0} /\ z = TsnModulo * 0 + z
      BY <3>1, <3>2
    <3> HIDE DEF z
    <3>5. z % TsnModulo = z
      BY <3>4, Recognised
    <3> QED
      BY <3>3, <3>5 DEF z
  <2>3. A \subseteq 1 .. Total /\ \A a \in A : a >= l + 1 /\ a \in Int
    OBVIOUS
  <2>4. \A a \in A : TsnAt(a) = InitialTsn + a - 1
    BY <2>2, <2>3
  <2>5. \A j \in 1 .. n + 1 : l + j \in A
    <3> SUFFICES ASSUME NEW j \in 1 .. n + 1 PROVE l + j \in A
      OBVIOUS
    <3>1. j \in 1 .. n \/ l + j = l + n + 1
      BY <1>2, <1>6
    <3> QED
      BY <1>9, <1>11, <3>1
  <2>6. \A t \in S : t >= low /\ t \in Int
    BY <2>1, <2>3, <2>4 DEF S, Tsn
  <2>7. \A t \in low .. low + n : t \in S
    <3> SUFFICES ASSUME NEW t \in low .. low + n PROVE t \in S
      OBVIOUS
    <3>1. t - low + 1 \in 1 .. n + 1 /\ InitialTsn + (l + (t - low + 1)) - 1 = t
      BY <1>2, <1>6, <2>1
    <3>2. l + (t - low + 1) \in A
      BY <2>5, <3>1
    <3>3. TsnAt(l + (t - low + 1)) = t
      BY <2>4, <3>1, <3>2
    <3> QED
      BY <3>2, <3>3 DEF S, Tsn
  <2> HIDE DEF low
  <2>8. \A t \in low .. low + n : Rank(S, t) = t - low + 1
    <3> SUFFICES ASSUME NEW t \in low .. low + n PROVE Rank(S, t) = t - low + 1
      OBVIOUS
    <3>1. {u \in S : u <= t} = low .. t
      BY <1>6, <2>1, <2>6, <2>7
    <3>2. t \in Int /\ low \in Int /\ low <= t
      BY <1>6, <2>1
    <3>3. Cardinality(low .. t) = t - low + 1
      <4>1. Cardinality(low .. t) = IF low > t THEN 0 ELSE t - low + 1
        BY <3>2, FS_Interval
      <4> QED
        BY <3>2, <4>1
    <3> QED
      BY <3>1, <3>3 DEF Rank
  <2>9. \A t \in low .. low + n : t = (from + Rank(S, t)) % TsnModulo
    <3> SUFFICES ASSUME NEW t \in low .. low + n PROVE t = (from + Rank(S, t)) % TsnModulo
      OBVIOUS
    <3> DEFINE j == t - low + 1
    <3>1. j \in 1 .. n + 1 /\ j \in Int /\ InitialTsn + (l + j) - 1 = t /\ Rank(S, t) = j
      BY <1>2, <1>6, <2>1, <2>8 DEF low
    <3> HIDE DEF j
    <3>2. (from + j) % TsnModulo = TsnAt(l + j)
      BY <1>2, <3>1, TsnLater DEF from
    <3>3. TsnAt(l + j) = t
      BY <2>4, <2>5, <3>1
    <3> QED
      BY <3>1, <3>2, <3>3
  <2>10. low .. low + n \subseteq inPlace
    <3> SUFFICES ASSUME NEW t \in low .. low + n PROVE t \in inPlace
      OBVIOUS
    <3>1. t \in S /\ t \in Int /\ t <= low + n
      BY <1>6, <2>1, <2>7
    <3>2. ASSUME NEW u \in S, u <= t PROVE u = (from + Rank(S, u)) % TsnModulo
      <4>1. u \in low .. low + n
        BY <1>6, <2>1, <2>6, <3>1, <3>2
      <4> QED
        BY <2>9, <4>1
    <3> QED
      BY <1>4, <3>1, <3>2
  <2>11. Cardinality(low .. low + n) = n + 1
    <3> DEFINE high == low + n
    <3>1. high \in Int /\ low \in Int /\ low <= high /\ high - low + 1 = n + 1
      BY <1>6, <2>1
    <3> HIDE DEF high
    <3>2. Cardinality(low .. high) = IF low > high THEN 0 ELSE high - low + 1
      BY <3>1, FS_Interval
    <3>3. Cardinality(low .. high) = n + 1
      BY <3>1, <3>2
    <3> QED
      BY <3>3 DEF high
  <2>12. Cardinality(low .. low + n) <= n
    BY <1>6, <2>10, FS_Subset
  <2> QED
    BY <1>6, <2>11, <2>12
<1> HIDE DEF n
<1>12. Advance(TsnAt(l), Tsn(A)) = TsnAt(l + n)
  BY <1>1, <1>10 DEF S, from
<1> QED
  BY <1>7, <1>9, <1>11, <1>12

-----------------------------------------------------------------------------
(* Which chunks have arrived: those up to place l and those at the places A.  *)

At(c) == CHOOSE a \in 1 .. Total : c.tsn = TsnAt(a)
Arrived(l, A) == {c \in AllChunks : At(c) <= l \/ At(c) \in A}

LEMMA TotalTyped == Total \in Nat
  BY MessagesTyped, FragmentsTyped DEF Total

LEMMA AtIs ==
  ASSUME NEW c \in AllChunks
  PROVE  At(c) \in 1 .. Total /\ At(c) \in Int /\ c.tsn = TsnAt(At(c))
<1>1. \E a \in 1 .. Total : c.tsn = TsnAt(a)
  BY ChunkPlace
<1>2. At(c) \in 1 .. Total /\ c.tsn = TsnAt(At(c))
  BY <1>1 DEF At
<1> QED
  BY <1>2, TotalTyped

LEMMA AtOnce ==
  ASSUME TsnsSuffice, NEW c \in AllChunks, NEW d \in AllChunks, At(c) = At(d)
  PROVE  c = d
<1>1. c.tsn = d.tsn
  BY AtIs
<1> QED
  BY <1>1, SameTsn

\* Being known is having arrived.
LEMMA KnownAt ==
  ASSUME TsnsSuffice, NEW l \in 0 .. Total, NEW A \in SUBSET (l + 1 .. Total), NEW c \in AllChunks
  PROVE  /\ Uint32Gte(TsnAt(l), c.tsn) <=> At(c) <= l
         /\ c.tsn \in Tsn(A) <=> At(c) \in A
<1>1. At(c) \in 0 .. Total /\ l \in 0 .. Total /\ Total \in Nat /\ c.tsn = TsnAt(At(c)) /\ At(c) \in Int
      /\ l \in Int
  BY AtIs, TotalTyped
<1>2. Uint32Gte(TsnAt(l), TsnAt(At(c))) <=> l >= At(c)
  BY <1>1, TsnCompare
<1>3. ASSUME NEW a \in A, TsnAt(At(c)) = TsnAt(a) PROVE At(c) = a
  <2>1. a \in 0 .. Total + 1 /\ At(c) \in 0 .. Total + 1
    BY <1>1
  <2> QED
    BY <1>1, <1>3, <2>1, TsnInjective
<1>4. c.tsn \in Tsn(A) <=> At(c) \in A
  BY <1>1, <1>3 DEF Tsn
<1>5. l >= At(c) <=> At(c) <= l
  BY <1>1
<1> QED
  BY <1>1, <1>2, <1>4, <1>5

LEMMA AboveIs ==
  ASSUME TsnsSuffice, NEW l \in 0 .. Total, NEW A \in SUBSET (1 .. Total)
  PROVE  Above(Tsn(A), TsnAt(l)) = Tsn({a \in A : a > l})
<1>1. Total \in Nat /\ A \subseteq 0 .. Total
  BY TotalTyped
<1>2. \A a \in A : Uint32Gt(TsnAt(a), TsnAt(l)) <=> a > l
  BY <1>1, TsnCompare
<1> QED
  BY <1>2 DEF Above, Tsn

Grown(A, l, n) == {a \in A : a > l + n}

\* One more chunk arrives.
LEMMA ArrivedMore ==
  ASSUME TsnsSuffice, NEW l \in 0 .. Total, NEW A \in SUBSET (l + 1 .. Total), NEW c \in AllChunks,
         At(c) > l, NEW n \in 0 .. Total - l, \A j \in 1 .. n : l + j \in A \cup {At(c)}
  PROVE  Arrived(l + n, Grown(A \cup {At(c)}, l, n)) = Arrived(l, A) \cup {c}
<1>1. Total \in Nat /\ l \in Int /\ n \in Int /\ n >= 0
  BY TotalTyped
<1>2. \A d \in AllChunks : At(d) \in Int
  BY AtIs
<1>3. \A d \in AllChunks : At(d) = At(c) => d = c
  BY AtOnce
<1>4. ASSUME NEW d \in AllChunks
      PROVE  (At(d) <= l + n \/ (At(d) \in A \cup {At(c)} /\ At(d) > l + n))
             <=> (At(d) <= l \/ At(d) \in A \/ At(d) = At(c))
  <2>1. At(d) \in Int
    BY <1>2
  <2>2. CASE At(d) <= l
    BY <1>1, <2>1, <2>2
  <2>3. CASE At(d) > l /\ At(d) <= l + n
    <3>1. At(d) - l \in 1 .. n /\ l + (At(d) - l) = At(d)
      BY <1>1, <2>1, <2>3
    <3>2. At(d) \in A \cup {At(c)}
      BY <3>1
    <3> QED
      BY <2>3, <3>2
  <2>4. CASE At(d) > l + n
    BY <1>1, <2>1, <2>4
  <2> QED
    BY <1>1, <2>1, <2>2, <2>3, <2>4
<1> QED
  BY <1>3, <1>4 DEF Arrived, Grown

-----------------------------------------------------------------------------
(* What is handed to the application.                                        *)

Had(seq) == UNION {ToSet(Chunks[k]) : k \in ToSet(seq)}
Given(popped) == [i \in DOMAIN popped |-> MessageOf(popped[i])]

LEMMA GivenIs ==
  ASSUME TsnsSuffice, NEW popped \in Seq(Seq(AllChunks)),
         \A j \in DOMAIN popped : \E k \in Numbers : popped[j] = Chunks[k]
  PROVE  /\ Given(popped) \in Seq(Numbers) /\ Len(Given(popped)) = Len(popped)
         /\ \A j \in DOMAIN popped : popped[j] = Chunks[Given(popped)[j]]
         /\ Had(Given(popped)) = UNION {ToSet(popped[j]) : j \in DOMAIN popped}
<1> DEFINE g == Given(popped)
<1>1. DOMAIN popped = 1 .. Len(popped) /\ Len(popped) \in Nat
  BY SeqFacts
<1>2. ASSUME NEW j \in DOMAIN popped PROVE g[j] \in Numbers /\ popped[j] = Chunks[g[j]]
  <2>1. PICK k \in Numbers : popped[j] = Chunks[k]
    OBVIOUS
  <2>2. g[j] = k
    BY <2>1, MessageIs DEF Given
  <2> QED
    BY <2>1, <2>2
<1>3. g = [j \in 1 .. Len(popped) |-> g[j]]
  BY <1>1 DEF Given
<1> HIDE DEF g
<1>4. g \in [1 .. Len(popped) -> Numbers]
  BY <1>1, <1>2, <1>3
<1>5. g \in Seq(Numbers) /\ Len(g) = Len(popped) /\ DOMAIN g = DOMAIN popped
  BY <1>1, <1>4, SMTT(30)
<1>6. Had(g) = UNION {ToSet(popped[j]) : j \in DOMAIN popped}
  <2>1. Had(g) = UNION {ToSet(Chunks[g[j]]) : j \in DOMAIN g}
    BY DEF Had, ToSet
  <2>2. \A j \in DOMAIN g : ToSet(Chunks[g[j]]) = ToSet(popped[j])
    BY <1>2, <1>5
  <2> QED
    BY <1>5, <2>1, <2>2
<1> QED
  BY <1>2, <1>5, <1>6 DEF g

LEMMA ConcatSet ==
  ASSUME NEW S, NEW s \in Seq(S), NEW t \in Seq(S)
  PROVE  s \o t \in Seq(S) /\ ToSet(s \o t) = ToSet(s) \cup ToSet(t)
<1> DEFINE u == s \o t
<1>1. /\ u \in Seq(S) /\ Len(u) = Len(s) + Len(t)
      /\ \A i \in 1 .. Len(s) + Len(t) : u[i] = IF i <= Len(s) THEN s[i] ELSE t[i - Len(s)]
  BY ConcatProperties
<1>2. Len(s) \in Nat /\ Len(t) \in Nat /\ DOMAIN s = 1 .. Len(s) /\ DOMAIN t = 1 .. Len(t)
      /\ DOMAIN u = 1 .. Len(s) + Len(t)
  BY <1>1, SeqFacts
<1> DEFINE m == Len(s)
           n == Len(t)
<1> HIDE DEF u, m, n
<1>3. \A y \in ToSet(u) : y \in ToSet(s) \cup ToSet(t)
  <2> SUFFICES ASSUME NEW i \in 1 .. m + n PROVE u[i] \in ToSet(s) \cup ToSet(t)
    BY <1>2 DEF ToSet, m, n
  <2>1. CASE i <= m
    BY <1>1, <1>2, <2>1 DEF ToSet, m, n
  <2>2. CASE i > m
    <3>1. i - m \in 1 .. n /\ ~(i <= m)
      BY <1>2, <2>2 DEF m, n
    <3> QED
      BY <1>1, <1>2, <3>1 DEF ToSet, m, n
  <2> QED
    BY <1>2, <2>1, <2>2 DEF m, n
<1>4. \A y \in ToSet(s) : y \in ToSet(u)
  <2> SUFFICES ASSUME NEW i \in 1 .. m PROVE s[i] \in ToSet(u)
    BY <1>2 DEF ToSet, m
  <2>1. i \in 1 .. m + n /\ i <= m
    BY <1>2 DEF m, n
  <2> QED
    BY <1>1, <1>2, <2>1 DEF ToSet, m, n
<1>5. \A y \in ToSet(t) : y \in ToSet(u)
  <2> SUFFICES ASSUME NEW i \in 1 .. n PROVE t[i] \in ToSet(u)
    BY <1>2 DEF ToSet, n
  <2>1. m + i \in 1 .. m + n /\ ~(m + i <= m) /\ m + i - m = i
    BY <1>2 DEF m, n
  <2> QED
    BY <1>1, <1>2, <2>1 DEF ToSet, m, n
<1> QED
  BY <1>1, <1>3, <1>4, <1>5 DEF u

-----------------------------------------------------------------------------
(* The invariant.                                                            *)

StreamRecords == [reassembly : Seq(AllChunks), ssn : Ssns]
Here(s) == ToSet(streams[s].reassembly)

Buffers ==
  /\ streams \in [Streams -> StreamRecords]
  /\ \A s \in Streams : Distinct(streams[s].reassembly) /\ \A c \in Here(s) : c.stream = s
  /\ delivered \in [Streams -> Seq(Numbers)]
  /\ \A s \in Streams : \A k \in ToSet(delivered[s]) : Messages[k].stream = s
  /\ Held \cap DeliveredChunks = {}

\* The chunks up to the place l, and those at the places A, have arrived.
Receives(l, A) ==
  /\ last = TsnAt(l) /\ cum = last /\ mis = Tsn(A)
  /\ InitialTsn + Total <= TsnModulo => l + 1 \notin A
  /\ Arrived(l, A) = Held \cup DeliveredChunks

ReceiverInv ==
  Buffers /\ \E l \in 0 .. Total : \E A \in SUBSET (l + 1 .. Total) : Receives(l, A)

LEMMA HadAll ==
  ASSUME Buffers
  PROVE  DeliveredChunks = UNION {Had(delivered[s]) : s \in Streams}
<1>1. \A s \in Streams : ToSet(delivered[s]) \ {0} = ToSet(delivered[s])
  <2> SUFFICES ASSUME NEW s \in Streams PROVE 0 \notin ToSet(delivered[s])
    OBVIOUS
  <2>1. delivered[s] \in Seq(Numbers)
    BY DEF Buffers
  <2>2. ToSet(delivered[s]) \subseteq Numbers
    BY <2>1, SeqFacts
  <2>3. 0 \notin Numbers
    BY MessagesTyped
  <2> QED
    BY <2>2, <2>3
<1>2. DeliveredChunks = UNION {ToSet(Chunks[k]) : k \in UNION {ToSet(delivered[s]) : s \in Streams}}
  BY <1>1 DEF DeliveredChunks
<1> QED
  BY <1>2 DEF Had

\* One stream takes in a chunk that is new to it.
LEMMA TakenIn ==
  ASSUME TsnsSuffice, NEW stream \in StreamRecords, Distinct(stream.reassembly),
         NEW c \in AllChunks, c \notin ToSet(stream.reassembly),
         \A d \in ToSet(stream.reassembly) : d.stream = c.stream
  PROVE  LET pop == PopMessages(AddChunk(stream, c))
             now == ToSet(pop.stream.reassembly)
             given == Given(pop.popped)
         IN  /\ pop.stream \in StreamRecords /\ Distinct(pop.stream.reassembly)
             /\ given \in Seq(Numbers) /\ \A k \in ToSet(given) : Messages[k].stream = c.stream
             /\ now \cap Had(given) = {} /\ now \cup Had(given) = ToSet(stream.reassembly) \cup {c}
             /\ BytesOf(now) + Returned(pop.popped) = BytesOf(ToSet(stream.reassembly) \cup {c})
             /\ Returned(pop.popped) \in Int
<1> DEFINE added == AddChunk(stream, c)
           pop == PopMessages(added)
           now == ToSet(pop.stream.reassembly)
           given == Given(pop.popped)
           gone == UNION {ToSet(pop.popped[j]) : j \in DOMAIN pop.popped}
<1>1. Sound(stream) /\ DOMAIN stream = {"reassembly", "ssn"}
  BY DEF StreamRecords, Sound
<1>2. Sound(added) /\ ToSet(added.reassembly) = ToSet(stream.reassembly) \cup {c}
  BY <1>1, AddedChunk
<1> HIDE DEF added
<1>3. /\ Sound(pop.stream) /\ pop.popped \in Seq(Seq(AllChunks))
      /\ \A j \in DOMAIN pop.popped : \E k \in Numbers : pop.popped[j] = Chunks[k]
      /\ now \cap gone = {} /\ now \cup gone = ToSet(added.reassembly)
  BY <1>2, PopResult
<1>3a. /\ BytesOf(now) + Returned(pop.popped) = BytesOf(ToSet(added.reassembly))
       /\ Returned(pop.popped) \in Int
  BY <1>2, PopAccounts
<1>4. pop.stream = [reassembly |-> pop.stream.reassembly, ssn |-> pop.stream.ssn]
  <2>1. \E f : PopMessages(added) = Result(f[Len(added.reassembly)])
    <3>1. Len(added.reassembly) \in Nat
      BY <1>2, SeqFacts DEF Sound
    <3> QED
      BY <3>1, PassIs
  <2> QED
    BY <2>1 DEF Result
<1> HIDE DEF pop
<1>5. pop.stream \in StreamRecords /\ Distinct(pop.stream.reassembly)
  BY <1>3, <1>4 DEF StreamRecords, Sound
<1>6. given \in Seq(Numbers) /\ Had(given) = gone
  BY <1>3, GivenIs
<1> HIDE DEF given, gone, now
<1>7. ASSUME NEW k \in ToSet(given) PROVE Messages[k].stream = c.stream
  <2>1. k \in Numbers
    BY <1>6, <1>7, SeqFacts
  <2>2. 1 \in 1 .. Len(Sizes(k))
    BY <2>1, ChunksTyped
  <2>3. Chunks[k][1] \in ToSet(Chunks[k]) /\ Chunks[k][1].stream = Messages[k].stream
    BY <2>1, <2>2, ChunkFields, ChunksTyped DEF ToSet
  <2>4. Chunks[k][1] \in Had(given)
    BY <1>7, <2>3 DEF Had
  <2>5. Chunks[k][1].stream = c.stream
    BY <1>2, <1>3, <1>6, <2>4
  <2> QED
    BY <2>3, <2>5
<1> QED
  BY <1>2, <1>3, <1>5, <1>6, <1>7, <1>3a DEF pop, now, given, added

\* A function with one value replaced, and the union of the values of one.
LEMMA ReplacedTyped ==
  ASSUME NEW S, NEW T, NEW f \in [S -> T], NEW s \in S, NEW v \in T
  PROVE  [f EXCEPT ![s] = v] \in [S -> T]
  OBVIOUS

LEMMA ReplacedUnion ==
  ASSUME NEW I, NEW s \in I, NEW f, NEW g, NEW v,
         \A t \in I : g[t] = IF t = s THEN v ELSE f[t],
         \A t \in I : t # s => f[t] \cap f[s] = {}
  PROVE  UNION {g[t] : t \in I} = ((UNION {f[t] : t \in I}) \ f[s]) \cup v
<1>1. ASSUME NEW e, NEW t \in I, e \in g[t] PROVE e \in ((UNION {f[u] : u \in I}) \ f[s]) \cup v
  <2>1. CASE t = s
    BY <1>1, <2>1
  <2>2. CASE t # s
    BY <1>1, <2>2
  <2> QED
    BY <2>1, <2>2
<1>2. ASSUME NEW e \in v PROVE e \in UNION {g[t] : t \in I}
  OBVIOUS
<1>3. ASSUME NEW e, NEW t \in I, e \in f[t], e \notin f[s] PROVE e \in UNION {g[u] : u \in I}
  <2>1. t # s
    BY <1>3
  <2> QED
    BY <1>3, <2>1
<1> QED
  BY <1>1, <1>2, <1>3

LEMMA ExtendedUnion ==
  ASSUME NEW I, NEW s \in I, NEW f, NEW g, NEW v,
         \A t \in I : g[t] = IF t = s THEN f[s] \cup v ELSE f[t]
  PROVE  UNION {g[t] : t \in I} = (UNION {f[t] : t \in I}) \cup v
<1>1. ASSUME NEW e, NEW t \in I, e \in g[t] PROVE e \in (UNION {f[u] : u \in I}) \cup v
  <2>1. CASE t = s
    BY <1>1, <2>1
  <2>2. CASE t # s
    BY <1>1, <2>2
  <2> QED
    BY <2>1, <2>2
<1>2. ASSUME NEW e \in v PROVE e \in UNION {g[t] : t \in I}
  OBVIOUS
<1>3. ASSUME NEW e, NEW t \in I, e \in f[t] PROVE e \in UNION {g[u] : u \in I}
  <2>1. CASE t = s
    BY <1>3, <2>1
  <2>2. CASE t # s
    BY <1>3, <2>2
  <2> QED
    BY <2>1, <2>2
<1> QED
  BY <1>1, <1>2, <1>3

LEMMA BuffersGrow ==
  ASSUME TsnsSuffice, Buffers, NEW c \in AllChunks, c \notin Held \cup DeliveredChunks,
         LET pop == PopMessages(AddChunk(streams[c.stream], c))
         IN  /\ streams' = [streams EXCEPT ![c.stream] = pop.stream]
             /\ delivered' = [delivered EXCEPT ![c.stream] = Deliver(@, pop.popped)]
  PROVE  /\ Buffers' /\ (Held \cup DeliveredChunks)' = Held \cup DeliveredChunks \cup {c}
         /\ LET pop == PopMessages(AddChunk(streams[c.stream], c))
            IN  Held' = (Held \ Here(c.stream)) \cup ToSet(pop.stream.reassembly)
<1> DEFINE s == c.stream
           pop == PopMessages(AddChunk(streams[s], c))
           now == ToSet(pop.stream.reassembly)
           given == Given(pop.popped)
<1>1. s \in Streams
  BY ChunkPlace
<1>2. /\ streams \in [Streams -> StreamRecords] /\ delivered \in [Streams -> Seq(Numbers)]
      /\ \A t \in Streams : Distinct(streams[t].reassembly) /\ \A d \in Here(t) : d.stream = t
      /\ \A t \in Streams : \A k \in ToSet(delivered[t]) : Messages[k].stream = t
      /\ Held = UNION {Here(t) : t \in Streams} /\ Held \cap DeliveredChunks = {}
      /\ DeliveredChunks = UNION {Had(delivered[t]) : t \in Streams}
  BY HadAll DEF Buffers, Held, Here
<1>3. c \notin Here(s) /\ c \notin DeliveredChunks /\ c \notin Held
  BY <1>1, <1>2
<1>4. /\ pop.stream \in StreamRecords /\ Distinct(pop.stream.reassembly)
      /\ given \in Seq(Numbers) /\ \A k \in ToSet(given) : Messages[k].stream = s
      /\ now \cap Had(given) = {} /\ now \cup Had(given) = Here(s) \cup {c}
  <2>1. streams[s] \in StreamRecords /\ Distinct(streams[s].reassembly)
        /\ \A d \in ToSet(streams[s].reassembly) : d.stream = c.stream
    BY <1>1, <1>2 DEF Here
  <2>2. c \notin ToSet(streams[s].reassembly)
    BY <1>3 DEF Here
  <2> QED
    BY <2>1, <2>2, TakenIn DEF Here
<1>5. streams' = [streams EXCEPT ![s] = pop.stream]
  OBVIOUS
<1>6. delivered' = [delivered EXCEPT ![s] = @ \o given]
  BY DEF Deliver, Given
<1> HIDE DEF pop, given, now
<1>7. \A t \in Streams : streams'[t] = IF t = s THEN pop.stream ELSE streams[t]
  BY <1>1, <1>2, <1>5
<1>8. \A t \in Streams : delivered'[t] = IF t = s THEN delivered[s] \o given ELSE delivered[t]
  BY <1>1, <1>2, <1>6
<1>9. \A t \in Streams : Here(t)' = IF t = s THEN now ELSE Here(t)
  BY <1>7 DEF Here, now
<1>10. delivered[s] \o given \in Seq(Numbers)
       /\ ToSet(delivered[s] \o given) = ToSet(delivered[s]) \cup ToSet(given)
  BY <1>1, <1>2, <1>4, ConcatSet
<1>11. Had(delivered[s] \o given) = Had(delivered[s]) \cup Had(given)
  BY <1>10 DEF Had
<1>12. streams' \in [Streams -> StreamRecords] /\ delivered' \in [Streams -> Seq(Numbers)]
  <2>1. streams' \in [Streams -> StreamRecords]
    <3>1. streams \in [Streams -> StreamRecords]
      BY <1>2
    <3>2. pop.stream \in StreamRecords
      BY <1>4
    <3>3. [streams EXCEPT ![s] = pop.stream] \in [Streams -> StreamRecords]
      BY <1>1, <3>1, <3>2, ReplacedTyped
    <3> QED
      BY <1>5, <3>3
  <2>2. delivered' \in [Streams -> Seq(Numbers)]
    <3>1. delivered \in [Streams -> Seq(Numbers)]
      BY <1>2
    <3>2. [delivered EXCEPT ![s] = delivered[s] \o given] \in [Streams -> Seq(Numbers)]
      BY <1>1, <1>10, <3>1, ReplacedTyped
    <3> QED
      BY <1>6, <3>2
  <2> QED
    BY <2>1, <2>2
<1>13. ASSUME NEW t \in Streams
       PROVE  Distinct(streams'[t].reassembly) /\ \A d \in Here(t)' : d.stream = t
  BY <1>2, <1>4, <1>7, <1>9
<1>14. ASSUME NEW t \in Streams PROVE \A k \in ToSet(delivered'[t]) : Messages[k].stream = t
  BY <1>2, <1>4, <1>8, <1>10
<1>15. Held' = UNION {Here(t)' : t \in Streams}
  BY DEF Held, Here
<1>16. \A t \in Streams : ToSet(delivered'[t]) \ {0} = ToSet(delivered'[t])
  <2> SUFFICES ASSUME NEW t \in Streams PROVE 0 \notin ToSet(delivered'[t])
    OBVIOUS
  <2>1. delivered'[t] \in Seq(Numbers)
    BY <1>12
  <2>2. ToSet(delivered'[t]) \subseteq Numbers
    BY <2>1, SeqFacts
  <2> QED
    BY <2>2, MessagesTyped
<1>17. DeliveredChunks' = UNION {Had(delivered'[t]) : t \in Streams}
  <2>1. DeliveredChunks' = UNION {ToSet(Chunks[k]) : k \in UNION {ToSet(delivered'[t]) : t \in Streams}}
    BY <1>16 DEF DeliveredChunks
  <2> QED
    BY <2>1 DEF Had
<1>18. \A t \in Streams : Had(delivered'[t]) = IF t = s THEN Had(delivered[s]) \cup Had(given)
                                               ELSE Had(delivered[t])
  <2> SUFFICES ASSUME NEW t \in Streams
               PROVE  Had(delivered'[t]) = IF t = s THEN Had(delivered[s]) \cup Had(given)
                                                    ELSE Had(delivered[t])
    OBVIOUS
  <2> HIDE DEF s
  <2>1. CASE t = s
    <3>1. delivered'[t] = delivered[s] \o given
      BY <1>8, <2>1
    <3> QED
      BY <1>11, <2>1, <3>1
  <2>2. CASE t # s
    <3>1. delivered'[t] = delivered[t]
      BY <1>8, <2>2
    <3> QED
      BY <2>2, <3>1
  <2> QED
    BY <2>1, <2>2
<1> DEFINE H == Held
           D == DeliveredChunks
           G == Had(given)
<1>19. Held' = (H \ Here(s)) \cup now
  <2>1. \A t \in Streams : t # s => Here(t) \cap Here(s) = {}
    BY <1>1, <1>2
  <2> DEFINE f == [t \in Streams |-> Here(t)]
             g == [t \in Streams |-> Here(t)']
  <2>2. /\ \A t \in Streams : g[t] = IF t = s THEN now ELSE f[t]
        /\ \A t \in Streams : t # s => f[t] \cap f[s] = {}
        /\ H = UNION {f[t] : t \in Streams} /\ Held' = UNION {g[t] : t \in Streams}
        /\ f[s] = Here(s)
    BY <1>1, <1>2, <1>9, <1>15, <2>1
  <2> HIDE DEF f, g, H
  <2>3. UNION {g[t] : t \in Streams} = ((UNION {f[t] : t \in Streams}) \ f[s]) \cup now
    BY <1>1, <2>2, ReplacedUnion
  <2> QED
    BY <2>2, <2>3
<1>20. DeliveredChunks' = D \cup G
  <2> DEFINE f == [t \in Streams |-> Had(delivered[t])]
             g == [t \in Streams |-> Had(delivered'[t])]
  <2>3. \A t \in Streams : f[t] = Had(delivered[t]) /\ g[t] = Had(delivered'[t])
    OBVIOUS
  <2>4. D = UNION {Had(delivered[t]) : t \in Streams}
    BY <1>2
  <2> HIDE DEF f, g, D, s
  <2>1. /\ \A t \in Streams : g[t] = IF t = s THEN f[s] \cup G ELSE f[t]
        /\ D = UNION {f[t] : t \in Streams} /\ DeliveredChunks' = UNION {g[t] : t \in Streams}
    <3>1. \A t \in Streams : g[t] = IF t = s THEN f[s] \cup G ELSE f[t]
      BY <1>1, <1>18, <2>3 DEF G
    <3>2. D = UNION {f[t] : t \in Streams}
      BY <2>3, <2>4
    <3>3. DeliveredChunks' = UNION {g[t] : t \in Streams}
      BY <1>17, <2>3
    <3> QED
      BY <3>1, <3>2, <3>3
  <2> HIDE DEF f, g, D, G
  <2>2. UNION {g[t] : t \in Streams} = (UNION {f[t] : t \in Streams}) \cup G
    BY <1>1, <2>1, ExtendedUnion
  <2> QED
    BY <2>1, <2>2
<1>21. Here(s) \subseteq H /\ H \cap D = {} /\ c \notin H /\ c \notin D
  BY <1>1, <1>2, <1>3
<1> HIDE DEF H, D, G
<1>22. ((H \ Here(s)) \cup now) \cap (D \cup G) = {} /\ (H \ Here(s)) \cup now \cup (D \cup G) = H \cup D \cup {c}
  BY <1>4, <1>21 DEF G
<1>23. Held' \cap DeliveredChunks' = {} /\ Held' \cup DeliveredChunks' = H \cup D \cup {c}
  BY <1>19, <1>20, <1>22
<1>24. Buffers'
  BY <1>12, <1>13, <1>14, <1>23 DEF Buffers
<1> QED
  BY <1>19, <1>23, <1>24 DEF H, D, now, pop

-----------------------------------------------------------------------------
(* The invariant holds initially and is kept by every action.                *)

LEMMA ReceiverStarts ==
  ASSUME TsnsSuffice, ReceiverInit
  PROVE  ReceiverInv
<1>1. \A s \in Streams : streams[s] = EmptyStream /\ delivered[s] = << >>
  BY DEF ReceiverInit
<1>2. EmptyStream \in StreamRecords
  BY SsnSpace DEF EmptyStream, StreamRecords, Ssns
<1>3. \A s \in Streams : Here(s) = {} /\ ToSet(delivered[s]) = {}
  BY <1>1 DEF Here, EmptyStream, ToSet
<1>4. Held = {}
  BY <1>3 DEF Held, Here
<1>5. DeliveredChunks = {}
  BY <1>3 DEF DeliveredChunks
<1>6. streams \in [Streams -> StreamRecords]
  BY <1>2 DEF ReceiverInit
<1>7. delivered \in [Streams -> Seq(Numbers)]
  BY DEF ReceiverInit
<1>8. \A s \in Streams : Distinct(streams[s].reassembly)
  BY <1>1 DEF EmptyStream, Distinct
<1>9. Buffers
  BY <1>3, <1>4, <1>5, <1>6, <1>7, <1>8 DEF Buffers
<1>10. Total \in Nat /\ 0 \in 0 .. Total /\ {} \in SUBSET (0 + 1 .. Total)
  BY TotalTyped
<1>11. Receives(0, {})
  <2>1. \A c \in AllChunks : ~(At(c) <= 0)
    BY AtIs, TotalTyped
  <2>2. Arrived(0, {}) = {}
    BY <2>1 DEF Arrived
  <2>3. Tsn({}) = {}
    BY DEF Tsn
  <2> QED
    BY <1>4, <1>5, <2>2, <2>3, TsnBefore DEF Receives, ReceiverInit
<1> QED
  BY <1>9, <1>10, <1>11 DEF ReceiverInv

\* A step that leaves the buffers, the deliveries and the numbers alone.
LEMMA ReceiverUnmoved ==
  ASSUME ReceiverInv, UNCHANGED <<last, cum, mis, streams, delivered>>
  PROVE  ReceiverInv'
<1>1. Held' = Held /\ DeliveredChunks' = DeliveredChunks
  BY DEF Held, DeliveredChunks
<1>2. Buffers'
  BY <1>1 DEF ReceiverInv, Buffers, Here
<1>3. PICK l \in 0 .. Total : \E A \in SUBSET (l + 1 .. Total) : Receives(l, A)
  BY DEF ReceiverInv
<1>4. PICK A \in SUBSET (l + 1 .. Total) : Receives(l, A)
  BY <1>3
<1>5. Receives(l, A)'
  BY <1>1, <1>4 DEF Receives
<1> QED
  BY <1>2, <1>5 DEF ReceiverInv

\* A chunk that is new moves the numbers and the buffers together.
LEMMA ReceivesMore ==
  ASSUME TsnsSuffice, NEW l \in 0 .. Total, NEW A \in SUBSET (l + 1 .. Total), Receives(l, A),
         NEW c \in AllChunks, At(c) > l, At(c) \notin A,
         last' = Advance(last, mis \cup {c.tsn}),
         cum' = (IF last' = last THEN cum ELSE last'),
         mis' = Above(mis \cup {c.tsn}, last'),
         (Held \cup DeliveredChunks)' = Held \cup DeliveredChunks \cup {c}
  PROVE  \E m \in l .. Total : \E B \in SUBSET (m + 1 .. Total) : Receives(m, B)'
<1> DEFINE A1 == A \cup {At(c)}
<1>1. Total \in Nat /\ l \in Int /\ At(c) \in 1 .. Total /\ At(c) \in Int /\ c.tsn = TsnAt(At(c))
  BY AtIs, TotalTyped
<1>2. A1 \in SUBSET (l + 1 .. Total)
  <2>1. At(c) \in l + 1 .. Total
    BY <1>1
  <2> QED
    BY <2>1
<1>3. mis \cup {c.tsn} = Tsn(A1) /\ last = TsnAt(l) /\ cum = last
  BY <1>1 DEF Receives, Tsn
<1> HIDE DEF A1
<1>4. PICK n \in 0 .. Total - l :
        /\ Advance(TsnAt(l), Tsn(A1)) = TsnAt(l + n) /\ \A j \in 1 .. n : l + j \in A1
        /\ InitialTsn + Total <= TsnModulo => l + n + 1 \notin A1
  BY <1>1, <1>2, AdvanceIs
<1>5. l + n \in 0 .. Total /\ l + n \in Int /\ l + n \in l .. Total
  BY <1>1
<1>6. last' = TsnAt(l + n) /\ cum' = last'
  BY <1>3, <1>4
<1>7. Grown(A1, l, n) \in SUBSET (l + n + 1 .. Total)
  <2>1. ASSUME NEW a \in A1, a > l + n PROVE a \in l + n + 1 .. Total
    <3>1. a \in l + 1 .. Total
      BY <1>2
    <3> QED
      BY <1>1, <2>1, <3>1
  <2>2. \A a \in Grown(A1, l, n) : a \in A1 /\ a > l + n
    BY DEF Grown
  <2> QED
    BY <2>1, <2>2
<1>8. mis' = Tsn(Grown(A1, l, n))
  <2>1. A1 \in SUBSET (1 .. Total)
    <3>1. \A a \in l + 1 .. Total : a \in 1 .. Total
      BY <1>1
    <3> QED
      BY <1>2, <3>1
  <2>2. Above(Tsn(A1), TsnAt(l + n)) = Tsn({a \in A1 : a > l + n})
    BY <1>5, <2>1, AboveIs
  <2> QED
    BY <1>3, <1>6, <2>2 DEF Grown
<1>9. InitialTsn + Total <= TsnModulo => l + n + 1 \notin Grown(A1, l, n)
  BY <1>4 DEF Grown
<1>10. Arrived(l + n, Grown(A1, l, n)) = Arrived(l, A) \cup {c}
  <2>1. \A j \in 1 .. n : l + j \in A \cup {At(c)}
    BY <1>4 DEF A1
  <2>2. Arrived(l + n, Grown(A \cup {At(c)}, l, n)) = Arrived(l, A) \cup {c}
    BY <2>1, ArrivedMore
  <2> QED
    BY <2>2 DEF A1
<1>11. Arrived(l + n, Grown(A1, l, n)) = (Held \cup DeliveredChunks)'
  BY <1>10 DEF Receives
<1>12. Receives(l + n, Grown(A1, l, n))'
  BY <1>6, <1>8, <1>9, <1>11 DEF Receives
<1> QED
  BY <1>5, <1>7, <1>12

\* What an arrival does: nothing, or one more chunk has arrived.
LEMMA HandleDataMoves ==
  ASSUME TsnsSuffice, Buffers, NEW l \in 0 .. Total, NEW A \in SUBSET (l + 1 .. Total), Receives(l, A),
         NEW c \in AllChunks, HandleData(c)
  PROVE  /\ Buffers'
         /\ \E m \in l .. Total : \E B \in SUBSET (m + 1 .. Total) : Receives(m, B)'
         /\ (Held \cup DeliveredChunks)' \in {Held \cup DeliveredChunks, Held \cup DeliveredChunks \cup {c}}
<1>1. CASE Uint32Gte(last, c.tsn) \/ c.tsn \in mis
  <2>1. UNCHANGED <<last, cum, mis, streams, delivered>>
    BY <1>1 DEF HandleData
  <2>2. Held' = Held /\ DeliveredChunks' = DeliveredChunks
    BY <2>1 DEF Held, DeliveredChunks
  <2>3. Buffers'
    BY <2>1, <2>2 DEF Buffers, Here
  <2>4. Receives(l, A)'
    BY <2>1, <2>2 DEF Receives
  <2>5. l \in l .. Total
    BY TotalTyped
  <2> QED
    BY <2>2, <2>3, <2>4, <2>5
<1>2. CASE ~(Uint32Gte(last, c.tsn) \/ c.tsn \in mis)
  <2>1. ~(At(c) <= l) /\ At(c) \notin A
    <3>1. Uint32Gte(TsnAt(l), c.tsn) <=> At(c) <= l
      BY KnownAt
    <3>2. c.tsn \in Tsn(A) <=> At(c) \in A
      BY KnownAt
    <3> QED
      BY <1>2, <3>1, <3>2 DEF Receives
  <2>2. At(c) > l
    BY <2>1, AtIs, TotalTyped
  <2>3. c \notin Held \cup DeliveredChunks
    BY <2>1 DEF Receives, Arrived
  <2> DEFINE pop == PopMessages(AddChunk(streams[c.stream], c))
             moved == Advance(last, mis \cup {c.tsn})
  <2>4. /\ last' = moved /\ cum' = (IF moved = last THEN cum ELSE moved)
        /\ mis' = Above(mis \cup {c.tsn}, moved)
        /\ streams' = [streams EXCEPT ![c.stream] = pop.stream]
        /\ delivered' = [delivered EXCEPT ![c.stream] = Deliver(@, pop.popped)]
    BY <1>2 DEF HandleData
  <2>5. Buffers' /\ (Held \cup DeliveredChunks)' = Held \cup DeliveredChunks \cup {c}
    BY <2>3, <2>4, BuffersGrow
  <2>6. last' = Advance(last, mis \cup {c.tsn})
    BY <2>4
  <2>7. cum' = (IF last' = last THEN cum ELSE last')
    BY <2>4
  <2>8. mis' = Above(mis \cup {c.tsn}, last')
    BY <2>4
  <2> HIDE DEF pop, moved
  <2>9. \E m \in l .. Total : \E B \in SUBSET (m + 1 .. Total) : Receives(m, B)'
    BY <2>1, <2>2, <2>5, <2>6, <2>7, <2>8, ReceivesMore
  <2> QED
    BY <2>5, <2>9
<1> QED
  BY <1>1, <1>2

LEMMA HandleDataKeeps ==
  ASSUME TsnsSuffice, ReceiverInv, NEW c \in AllChunks, HandleData(c)
  PROVE  ReceiverInv'
<1>1. PICK l \in 0 .. Total : \E A \in SUBSET (l + 1 .. Total) : Receives(l, A)
  BY DEF ReceiverInv
<1>2. PICK A \in SUBSET (l + 1 .. Total) : Receives(l, A)
  BY <1>1
<1>3. Buffers' /\ \E m \in l .. Total : \E B \in SUBSET (m + 1 .. Total) : Receives(m, B)'
  BY <1>2, HandleDataMoves DEF ReceiverInv
<1>4. \A m \in l .. Total : m \in 0 .. Total
  BY TotalTyped
<1> QED
  BY <1>3, <1>4 DEF ReceiverInv

-----------------------------------------------------------------------------
(* What the next SACK says.                                                  *)

LEMMA SackIs ==
  ASSUME TsnsSuffice, NEW l \in 0 .. Total, NEW A \in SUBSET (l + 1 .. Total), Receives(l, A)
  PROVE  Sack.cum = TsnAt(l) /\ Sack.gaps = {a - l : a \in A}
<1>1. Total \in Nat /\ l \in Int
  BY TotalTyped
<1>2. Sack.cum = TsnAt(l) /\ last = TsnAt(l) /\ mis = Tsn(A) /\ Sack.gaps = {Offset(t) : t \in mis}
  BY DEF Sack, Receives
<1>3. ASSUME NEW a \in A PROVE Offset(TsnAt(a)) = a - l
  <2>1. a \in 0 .. Total /\ a >= l
    BY <1>1
  <2>2. (TsnAt(a) - TsnAt(l)) % TsnModulo = a - l
    BY <1>1, <2>1, TsnDifference
  <2> QED
    BY <1>2, <2>2 DEF Offset
<1> QED
  BY <1>2, <1>3 DEF Tsn

\* What the sender reads in a SACK is what has arrived.
LEMMA AcknowledgedIs ==
  ASSUME TsnsSuffice, NEW l \in 0 .. Total, NEW A \in SUBSET (l + 1 .. Total), Receives(l, A)
  PROVE  Acknowledged = Arrived(l, A)
<1> DEFINE off(c) == (c.tsn - Sack.cum) % TsnModulo
<1>1. Total \in Nat /\ l \in Int /\ TsnModulo \in Int /\ 2 * Total < TsnModulo
  BY TotalTyped, TsnSpace DEF TsnsSuffice
<1>2. Sack.cum = TsnAt(l)
  BY SackIs
<1>3. \A a \in 0 .. Total : (TsnAt(a) - TsnAt(l)) % TsnModulo = IF a >= l THEN a - l ELSE a - l + TsnModulo
  BY <1>1, TsnDifference
<1>4. Sack.gaps = {a - l : a \in A}
  BY SackIs
<1>5. ASSUME NEW c \in AllChunks
      PROVE  (Uint32Gte(Sack.cum, c.tsn) \/ off(c) \in Sack.gaps) <=> (At(c) <= l \/ At(c) \in A)
  <2>1. At(c) \in 0 .. Total /\ At(c) \in Int /\ c.tsn = TsnAt(At(c))
    BY <1>1, AtIs
  <2>2. Uint32Gte(Sack.cum, c.tsn) <=> At(c) <= l
    BY <1>2, KnownAt
  <2>3. off(c) = IF At(c) >= l THEN At(c) - l ELSE At(c) - l + TsnModulo
    BY <1>2, <1>3, <2>1
  <2> HIDE DEF off
  <2>4. off(c) \in {a - l : a \in A} <=> \E a \in A : off(c) = a - l
    OBVIOUS
  <2>5. \A a \in A : a \in Int /\ a > l /\ a <= Total
    BY <1>1
  <2>6. CASE At(c) <= l
    BY <2>2, <2>6
  <2>7. CASE At(c) > l
    <3>1. off(c) = At(c) - l
      BY <1>1, <2>1, <2>3, <2>7
    <3>2. (\E a \in A : off(c) = a - l) <=> At(c) \in A
      <4>1. \A a \in A : off(c) = a - l => a = At(c)
        BY <1>1, <2>1, <2>5, <3>1
      <4> QED
        BY <3>1, <4>1
    <3> QED
      BY <1>1, <1>4, <2>1, <2>2, <2>4, <2>7, <3>2
  <2> QED
    BY <1>1, <2>1, <2>6, <2>7
<1> QED
  BY <1>5 DEF Acknowledged, Arrived

\* The TSN after the last one in sequence is still missing, when the TSNs do not wrap.
LEMMA SuccessorMissing ==
  ASSUME TsnsSuffice, InitialTsn + Total <= TsnModulo,
         NEW l \in 0 .. Total, NEW A \in SUBSET (l + 1 .. Total), Receives(l, A)
  PROVE  CumulativeIsMaximal
<1>1. Total \in Nat /\ l \in Int /\ l + 1 \in 0 .. Total + 1
  BY TotalTyped
<1>2. TsnPlusOne(last) = TsnAt(l + 1) /\ mis = Tsn(A) /\ l + 1 \notin A
  BY <1>1, TsnSuccessor DEF Receives
<1>3. ASSUME NEW a \in A, TsnAt(l + 1) = TsnAt(a) PROVE FALSE
  <2>1. a \in 0 .. Total + 1
    <3>1. \A b \in l + 1 .. Total : b \in 0 .. Total + 1
      BY <1>1
    <3> QED
      BY <3>1
  <2>2. l + 1 = a
    BY <1>1, <1>3, <2>1, TsnInjective
  <2> QED
    BY <1>2, <2>2
<1> QED
  BY <1>2, <1>3 DEF CumulativeIsMaximal, Tsn

-----------------------------------------------------------------------------
(* The turns of the ordered messages of a stream.                            *)

OrderedOn(s) == {k \in Numbers : Messages[k].stream = s /\ ~Messages[k].unordered}
Before(k) == {j \in 1 .. k - 1 : /\ Messages[j].stream = Messages[k].stream
                                 /\ ~Messages[j].unordered}
Turns(k) == Cardinality(Before(k))

\* A stream has at most half the space of ordered messages, and none of them after an
\* unordered one.
SsnsSuffice == \A s \in Streams : Cardinality(OrderedOn(s)) <= SsnModulo \div 2
OrderedFirst ==
  \A j, k \in Numbers :
    j < k /\ Messages[j].stream = Messages[k].stream /\ Messages[j].unordered => Messages[k].unordered

LEMMA HalfSpace ==
  \E h \in Nat \ {0} : SsnModulo = 2 * h /\ SsnModulo \div 2 = h
<1>1. SsnModulo \in Nat \ {0} /\ SsnModulo % 2 = 0
  BY ModuloAssumption
<1> QED
  BY <1>1, Halves

LEMMA OrderedFinite ==
  ASSUME NEW s
  PROVE  IsFiniteSet(OrderedOn(s))
<1>1. IsFiniteSet(1 .. Len(Messages)) /\ Numbers = 1 .. Len(Messages)
  BY MessagesTyped, FS_Interval
<1>2. OrderedOn(s) \in SUBSET (1 .. Len(Messages))
  BY <1>1 DEF OrderedOn
<1> QED
  BY <1>1, <1>2, FS_Subset

LEMMA BeforeTyped ==
  ASSUME NEW k \in Numbers
  PROVE  /\ IsFiniteSet(Before(k)) /\ Turns(k) \in Nat /\ k \notin Before(k)
         /\ Before(k) \subseteq OrderedOn(Messages[k].stream)
<1>1. k \in Nat \ {0} /\ k <= Len(Messages) /\ Len(Messages) \in Nat /\ Numbers = 1 .. Len(Messages)
  BY MessagesTyped
<1>2. \A j \in 1 .. k - 1 : j \in Numbers /\ j # k
  BY <1>1
<1>3. Before(k) \in SUBSET OrderedOn(Messages[k].stream) /\ k \notin Before(k)
  BY <1>2 DEF Before, OrderedOn
<1>4. IsFiniteSet(Before(k))
  BY <1>3, OrderedFinite, FS_Subset
<1> QED
  BY <1>3, <1>4, FS_CardinalityType DEF Turns

LEMMA TurnsFew ==
  ASSUME SsnsSuffice, NEW k \in Numbers, ~Messages[k].unordered
  PROVE  Turns(k) \in Nat /\ Turns(k) < SsnModulo \div 2 /\ StreamSeq(k) = Turns(k)
<1> DEFINE s == Messages[k].stream
           B == Before(k)
           O == OrderedOn(s)
<1>1. IsFiniteSet(B) /\ Turns(k) \in Nat /\ k \notin B /\ B \subseteq O
  BY BeforeTyped
<1>2. k \in O /\ s \in Streams /\ IsFiniteSet(O)
  BY OrderedFinite, MessagesTyped DEF OrderedOn
<1>3. Turns(k) = Cardinality(B) /\ Cardinality(O) <= SsnModulo \div 2
  BY <1>2 DEF Turns, SsnsSuffice
<1> HIDE DEF B, O, s
<1>4. Cardinality(B \cup {k}) = Cardinality(B) + 1
  BY <1>1, FS_AddElement
<1>5. B \cup {k} \in SUBSET O
  BY <1>1, <1>2
<1>6. Cardinality(B \cup {k}) <= Cardinality(O)
  BY <1>2, <1>5, FS_Subset
<1>7. Cardinality(O) \in Nat
  BY <1>2, FS_CardinalityType
<1>8. PICK h \in Nat \ {0} : SsnModulo = 2 * h /\ SsnModulo \div 2 = h
  BY HalfSpace
<1>9. Turns(k) < SsnModulo \div 2
  BY <1>1, <1>3, <1>4, <1>6, <1>7, <1>8
<1>10. StreamSeq(k) = Turns(k)
  <2>1. StreamSeq(k) = Turns(k) % SsnModulo
    BY DEF StreamSeq, Turns, Before
  <2> DEFINE t == Turns(k)
             m == SsnModulo
  <2>2. t \in 0 .. m - 1 /\ t \in Int /\ m \in Nat \ {0} /\ t = m * 0 + t
    BY <1>1, <1>8, <1>9
  <2> HIDE DEF t, m
  <2>3. t % m = t
    BY <2>2, Recognised
  <2> QED
    BY <2>1, <2>3 DEF t, m
<1> QED
  BY <1>1, <1>9, <1>10

LEMMA TurnsGrow ==
  ASSUME NEW j \in Numbers, NEW k \in Numbers, j < k, Messages[j].stream = Messages[k].stream,
         ~Messages[j].unordered
  PROVE  Turns(j) < Turns(k)
<1>1. IsFiniteSet(Before(j)) /\ j \notin Before(j) /\ IsFiniteSet(Before(k))
      /\ Turns(j) \in Nat /\ Turns(k) \in Nat
  BY BeforeTyped
<1>2. Before(j) \cup {j} \in SUBSET Before(k)
  <2>1. j \in Nat \ {0} /\ k \in Nat \ {0}
    BY MessagesTyped
  <2>2. j \in 1 .. k - 1 /\ \A i \in 1 .. j - 1 : i \in 1 .. k - 1
    BY <2>1
  <2> QED
    BY <2>2 DEF Before
<1>3. Cardinality(Before(j) \cup {j}) = Cardinality(Before(j)) + 1
  BY <1>1, FS_AddElement
<1>4. Cardinality(Before(j) \cup {j}) <= Cardinality(Before(k))
  BY <1>1, <1>2, FS_Subset
<1> QED
  BY <1>1, <1>3, <1>4 DEF Turns

LEMMA TurnsNext ==
  ASSUME NEW k \in Numbers, k + 1 \in Numbers, Messages[k + 1].stream = Messages[k].stream,
         ~Messages[k].unordered
  PROVE  Turns(k + 1) = Turns(k) + 1
<1>1. IsFiniteSet(Before(k)) /\ k \notin Before(k)
  BY BeforeTyped
<1>2. Before(k + 1) = Before(k) \cup {k}
  <2>1. k \in Nat \ {0}
    BY MessagesTyped
  <2>2. \A i : i \in 1 .. (k + 1) - 1 <=> i \in 1 .. k - 1 \/ i = k
    BY <2>1
  <2> QED
    BY <2>2 DEF Before
<1> QED
  BY <1>1, <1>2, FS_AddElement DEF Turns

\* The number of a message that may be delivered now is not above that of its stream.
LEMMA TurnCompare ==
  ASSUME NEW n \in 0 .. SsnModulo \div 2, NEW t \in Nat, t < SsnModulo \div 2, ~Uint16Gt(t, n)
  PROVE  t <= n
<1>1. PICK h \in Nat \ {0} : SsnModulo = 2 * h /\ SsnModulo \div 2 = h
  BY HalfSpace
<1> SUFFICES ASSUME t > n PROVE FALSE
  BY <1>1
<1> DEFINE d == t - n
           m == SsnModulo
<1>2. d \in 1 .. h - 1 /\ d \in 0 .. m - 1 /\ d \in Int /\ m \in Nat \ {0} /\ d = m * 0 + d
  BY <1>1
<1>3. t # n /\ Uint16Gt(t, n) <=> d % m < h
  BY <1>1 DEF Uint16Gt
<1> HIDE DEF d, m
<1>4. d % m = d
  BY <1>2, Recognised
<1> QED
  BY <1>1, <1>2, <1>3, <1>4 DEF Uint16Gt, d, m

-----------------------------------------------------------------------------
(* Deliveries in turn: what has been handed over of a stream, and its number. *)

Turned(s, seq, ssn) ==
  /\ ssn \in 0 .. SsnModulo \div 2
  /\ \A i, j \in DOMAIN seq : i < j =>
       /\ seq[i] # seq[j]
       /\ seq[i] \in OrderedOn(s) /\ seq[j] \in OrderedOn(s) => seq[i] < seq[j]
  /\ \A k \in OrderedOn(s) : k \in ToSet(seq) <=> Turns(k) < ssn

LEMMA TurnedNothing ==
  ASSUME NEW s
  PROVE  Turned(s, << >>, 0)
<1>1. 0 \in 0 .. SsnModulo \div 2
  BY HalfSpace
<1>2. DOMAIN << >> = {} /\ ToSet(<< >>) = {}
  BY DEF ToSet
<1>3. \A k \in OrderedOn(s) : ~(Turns(k) < 0)
  <2>1. \A k \in OrderedOn(s) : k \in Numbers
    BY DEF OrderedOn
  <2>2. \A k \in Numbers : Turns(k) \in Nat
    BY BeforeTyped
  <2> QED
    BY <2>1, <2>2
<1> QED
  BY <1>1, <1>2, <1>3 DEF Turned

LEMMA TurnedMore ==
  ASSUME SsnsSuffice, NEW s, NEW seq \in Seq(Numbers), NEW ssn, Turned(s, seq, ssn),
         NEW k \in Numbers, Messages[k].stream = s, k \notin ToSet(seq),
         ~Messages[k].unordered => Turns(k) = ssn
  PROVE  Turned(s, Append(seq, k), IF Messages[k].unordered THEN ssn ELSE ssn + 1)
<1> DEFINE t == Append(seq, k)
           n == IF Messages[k].unordered THEN ssn ELSE ssn + 1
<1>1. /\ Len(seq) \in Nat /\ DOMAIN seq = 1 .. Len(seq) /\ DOMAIN t = 1 .. Len(seq) + 1
      /\ \A i \in 1 .. Len(seq) + 1 : t[i] = IF i = Len(seq) + 1 THEN k ELSE seq[i]
      /\ ToSet(t) = ToSet(seq) \cup {k}
      /\ \A i \in 1 .. Len(seq) : seq[i] \in Numbers /\ seq[i] \in ToSet(seq)
  BY SeqFacts, AppendTyped, AppendSet
<1>2. PICK h \in Nat \ {0} : SsnModulo = 2 * h /\ SsnModulo \div 2 = h
  BY HalfSpace
<1>3. ssn \in 0 .. h /\ ssn \in Nat
  BY <1>2 DEF Turned
<1>4. ~Messages[k].unordered => Turns(k) < h
  BY <1>2, TurnsFew
<1>5. n \in 0 .. h /\ k \in Int
  BY <1>3, <1>4, MessagesTyped
<1> HIDE DEF t, n
<1>6. \A l \in OrderedOn(s) : l \in Numbers /\ Messages[l].stream = s /\ ~Messages[l].unordered
                              /\ Turns(l) \in Nat /\ l \in Int
  BY BeforeTyped, MessagesTyped DEF OrderedOn
<1>7. ASSUME NEW l \in OrderedOn(s), k \in OrderedOn(s), l < k \/ Turns(l) < Turns(k)
      PROVE  l < k /\ Turns(l) < Turns(k)
  <2>1. l < k => Turns(l) < Turns(k)
    BY <1>6, <1>7, TurnsGrow
  <2>2. l > k => Turns(k) < Turns(l)
    <3>1. k < l => Turns(k) < Turns(l)
      BY <1>6, <1>7, TurnsGrow
    <3> QED
      BY <1>5, <1>6, <3>1
  <2>3. l = k => ~(Turns(l) < Turns(k))
    BY <1>6, <1>7
  <2> QED
    BY <1>5, <1>6, <1>7, <2>1, <2>2, <2>3
<1>8. ASSUME NEW i \in DOMAIN t, NEW j \in DOMAIN t, i < j
      PROVE  /\ t[i] # t[j]
             /\ t[i] \in OrderedOn(s) /\ t[j] \in OrderedOn(s) => t[i] < t[j]
  <2>1. i \in 1 .. Len(seq) /\ i # Len(seq) + 1 /\ t[i] = seq[i] /\ i \in DOMAIN seq
    BY <1>1, <1>8
  <2>2. CASE j = Len(seq) + 1
    <3>1. t[j] = k /\ seq[i] \in ToSet(seq)
      BY <1>1, <2>1, <2>2
    <3>2. ASSUME seq[i] \in OrderedOn(s), k \in OrderedOn(s) PROVE seq[i] < k
      <4>1. Turns(seq[i]) < ssn
        BY <3>1, <3>2 DEF Turned
      <4>2. Turns(k) = ssn
        BY <3>2, <1>6
      <4> QED
        BY <1>7, <3>2, <4>1, <4>2
    <3> QED
      BY <2>1, <3>1, <3>2
  <2>3. CASE j # Len(seq) + 1
    <3>1. j \in DOMAIN seq /\ t[j] = seq[j]
      BY <1>1, <2>3
    <3> QED
      BY <1>8, <2>1, <3>1 DEF Turned
  <2> QED
    BY <2>2, <2>3
<1>9. ASSUME NEW l \in OrderedOn(s)
      PROVE  l \in ToSet(t) <=> Turns(l) < n
  <2>1. l \in ToSet(seq) <=> Turns(l) < ssn
    BY DEF Turned
  <2>2. CASE Messages[k].unordered
    <3>1. l # k /\ n = ssn
      BY <1>6, <2>2 DEF n
    <3> QED
      BY <1>1, <2>1, <3>1
  <2>3. CASE ~Messages[k].unordered
    <3>1. n = ssn + 1 /\ k \in OrderedOn(s) /\ Turns(k) = ssn
      BY <2>3 DEF n, OrderedOn
    <3>2. l # k => Turns(l) # Turns(k)
      <4>1. ~(l < k) /\ ~(Turns(l) < Turns(k)) => l = k \/ Turns(k) < Turns(l)
        <5>1. k < l => Turns(k) < Turns(l)
          BY <1>6, <3>1, TurnsGrow
        <5> QED
          BY <1>5, <1>6, <5>1
      <4>2. l < k => Turns(l) < Turns(k)
        BY <1>7, <3>1
      <4> QED
        BY <1>6, <3>1, <4>1, <4>2
    <3>3. Turns(l) < n <=> Turns(l) < ssn \/ Turns(l) = ssn
      BY <1>3, <1>6, <3>1
    <3> QED
      BY <1>1, <2>1, <3>1, <3>2, <3>3
  <2> QED
    BY <2>2, <2>3
<1>10. Turned(s, t, n)
  <2>1. n \in 0 .. SsnModulo \div 2
    BY <1>2, <1>5
  <2> QED
    BY <1>8, <1>9, <2>1 DEF Turned
<1> QED
  BY <1>10 DEF t, n

-----------------------------------------------------------------------------
(* The pass of popMessages hands over in turn.                               *)

\* Message k is one that a message of the open chain may be.
Due(ordered, ssn, k) ==
  IF Messages[k].unordered THEN ordered => ssn >= 1 ELSE ordered /\ Turns(k) = ssn

Follows(s, v) ==
  v.start # 0 /\ ~v.stopped =>
    /\ \A k \in Numbers : \A m \in 1 .. Len(Sizes(k)) : Begun(v, k, m) => Due(v.ordered, v.ssn, k)
    /\ \A k \in Numbers : Ended(v, k) =>
         /\ Messages[k].stream = s
         /\ k + 1 \in Numbers /\ Messages[k + 1].stream = s => Due(v.ordered, v.ssn, k + 1)

PassesInTurn(s, D, v) == Turned(s, D \o Given(v.popped), v.ssn) /\ Follows(s, v)

LEMMA BegunOnce ==
  ASSUME TsnsSuffice, NEW v, NEW k, NEW m, NEW l, NEW n, Begun(v, k, m), Begun(v, l, n)
  PROVE  k = l
<1>1. k \in Numbers /\ l \in Numbers /\ m \in 1 .. Len(Sizes(k)) /\ n \in 1 .. Len(Sizes(l))
  <2>1. k \in Numbers /\ l \in Numbers /\ m \in 1 .. Len(Sizes(k)) - 1 /\ n \in 1 .. Len(Sizes(l)) - 1
    BY DEF Begun
  <2>2. Len(Sizes(k)) \in Nat /\ Len(Sizes(l)) \in Nat
    BY <2>1, ChunksTyped
  <2> QED
    BY <2>1, <2>2
<1>2. TsnAt(Place(k, m) + 1) = TsnAt(Place(l, n) + 1)
  BY DEF Begun
<1>3. Place(k, m) \in 1 .. Total /\ Place(l, n) \in 1 .. Total /\ Total \in Nat
  BY <1>1, PlaceTyped
<1>4. Place(k, m) + 1 \in 0 .. Total + 1 /\ Place(l, n) + 1 \in 0 .. Total + 1
  BY <1>3
<1>5. Place(k, m) + 1 = Place(l, n) + 1
  BY <1>2, <1>3, <1>4, TsnInjective
<1>6. Place(k, m) = Place(l, n)
  BY <1>3, <1>5
<1> QED
  BY <1>1, <1>6, PlaceInjective

LEMMA EndedOnce ==
  ASSUME TsnsSuffice, NEW v, NEW k, NEW l, Ended(v, k), Ended(v, l)
  PROVE  k = l
<1>1. k \in Numbers /\ l \in Numbers /\ TsnAt(Fragments[k] + 1) = TsnAt(Fragments[l] + 1)
  BY DEF Ended
<1>2. /\ Fragments[k] = Place(k, Len(Sizes(k))) /\ Fragments[l] = Place(l, Len(Sizes(l)))
      /\ Fragments[k] \in 1 .. Total /\ Fragments[l] \in 1 .. Total /\ Total \in Nat
  BY <1>1, LastPlace
<1>3. Fragments[k] + 1 \in 0 .. Total + 1 /\ Fragments[l] + 1 \in 0 .. Total + 1
  BY <1>2
<1>4. Fragments[k] + 1 = Fragments[l] + 1
  BY <1>1, <1>2, <1>3, TsnInjective
<1>5. Place(k, Len(Sizes(k))) = Place(l, Len(Sizes(l)))
  BY <1>2, <1>4
<1>6. Len(Sizes(k)) \in 1 .. Len(Sizes(k)) /\ Len(Sizes(l)) \in 1 .. Len(Sizes(l))
  BY <1>1, ChunksTyped
<1> QED
  BY <1>1, <1>5, <1>6, PlaceInjective

LEMMA BegunNotEnded ==
  ASSUME NEW v, Len(v.kept) \in Nat, v.start \in Nat, NEW k, NEW m, NEW l, Begun(v, k, m), Ended(v, l)
  PROVE  FALSE
<1>1. k \in Numbers /\ m \in 1 .. Len(Sizes(k)) - 1 /\ v.start + m - 1 = Len(v.kept)
      /\ v.start = Len(v.kept) + 1
  BY DEF Begun, Ended
<1>2. Len(Sizes(k)) \in Nat
  BY <1>1, ChunksTyped
<1> QED
  BY <1>1, <1>2

\* What fits is due.
LEMMA FittedDue ==
  ASSUME SsnsSuffice, NEW v, IsScanning(v), ~v.stopped, NEW s, NEW D, PassesInTurn(s, D, v),
         NEW k \in Numbers, NEW m \in 1 .. Len(Sizes(k)), NEW c, Fitting(v, c, k, m), c.stream = s,
         k \notin ToSet(D \o Given(v.popped))
  PROVE  Messages[k].stream = s /\ Due(InOrder(v, c), v.ssn, k)
<1>1. /\ c = Chunks[k][m] /\ c.stream = Messages[k].stream /\ c.unordered = Messages[k].unordered
      /\ c.ssn = StreamSeq(k) /\ Messages[k].unordered \in BOOLEAN
  BY ChunkFields, MessagesTyped DEF Fitting
<1>2. CASE v.start = 0 /\ m = 1 /\ Turn(v, c)
  <2>1. InOrder(v, c) = ~Messages[k].unordered
    BY <1>1, <1>2 DEF InOrder
  <2>2. CASE Messages[k].unordered
    BY <1>1, <2>1, <2>2 DEF Due
  <2>3. CASE ~Messages[k].unordered
    <3>1. Turns(k) \in Nat /\ Turns(k) < SsnModulo \div 2 /\ StreamSeq(k) = Turns(k)
      BY <2>3, TurnsFew
    <3>2. ~Uint16Gt(Turns(k), v.ssn)
      BY <1>1, <1>2, <2>3, <3>1 DEF Turn
    <3>3. v.ssn \in 0 .. SsnModulo \div 2 /\ k \in OrderedOn(s)
          /\ (k \in OrderedOn(s) => (k \in ToSet(D \o Given(v.popped)) <=> Turns(k) < v.ssn))
      BY <1>1, <2>3 DEF PassesInTurn, Turned, OrderedOn
    <3>4. Turns(k) <= v.ssn
      BY <3>1, <3>2, <3>3, TurnCompare
    <3>5. Turns(k) = v.ssn
      <4>1. v.ssn \in Int
        BY <3>3, HalfSpace
      <4> QED
        BY <3>1, <3>3, <3>4, <4>1
    <3> QED
      BY <1>1, <2>1, <2>3, <3>5 DEF Due
  <2> QED
    BY <2>2, <2>3
<1>3. CASE v.start # 0 /\ m > 1 /\ Begun(v, k, m - 1)
  <2>1. m - 1 \in 1 .. Len(Sizes(k))
    <3>1. Len(Sizes(k)) \in Nat
      BY ChunksTyped
    <3> QED
      BY <1>3, <3>1
  <2>2. Due(v.ordered, v.ssn, k)
    BY <1>3, <2>1 DEF PassesInTurn, Follows
  <2> QED
    BY <1>1, <1>3, <2>2 DEF InOrder
<1>4. CASE v.start # 0 /\ m = 1 /\ k - 1 \in Numbers /\ Ended(v, k - 1)
  <2>1. (k - 1) + 1 = k /\ k \in Numbers
    BY MessagesTyped
  <2>2. Due(v.ordered, v.ssn, (k - 1) + 1)
    BY <1>1, <1>4, <2>1 DEF PassesInTurn, Follows
  <2> QED
    BY <1>1, <1>4, <2>1, <2>2 DEF InOrder
<1> QED
  BY <1>2, <1>3, <1>4 DEF Fitting

LEMMA SeqAsFunction ==
  ASSUME NEW S, NEW s \in Seq(S)
  PROVE  s = [i \in 1 .. Len(s) |-> s[i]]
  OBVIOUS

LEMMA GivenMore ==
  ASSUME TsnsSuffice, NEW popped \in Seq(Seq(AllChunks)), NEW k \in Numbers, NEW D \in Seq(Numbers),
         Given(popped) \in Seq(Numbers)
  PROVE  D \o Given(Append(popped, Chunks[k])) = Append(D \o Given(popped), k)
<1> DEFINE Q == Seq(AllChunks)
           q == Append(popped, Chunks[k])
           g == Given(popped)
           n == Len(popped)
<1>1. /\ Len(q) = n + 1 /\ n \in Nat /\ q \in Seq(Q) /\ DOMAIN q = 1 .. n + 1 /\ DOMAIN popped = 1 .. n
      /\ \A i \in 1 .. n + 1 : q[i] = IF i = n + 1 THEN Chunks[k] ELSE popped[i]
  <2>1. Chunks[k] \in Q
    BY ChunksTyped
  <2>2. popped \in Seq(Q)
    OBVIOUS
  <2> HIDE DEF Q
  <2>3. /\ q \in Seq(Q) /\ Len(q) = n + 1 /\ n \in Nat
        /\ \A i \in 1 .. n + 1 : q[i] = IF i = n + 1 THEN Chunks[k] ELSE popped[i]
    BY <2>1, <2>2, AppendTyped
  <2>4. DOMAIN popped = 1 .. n
    BY <2>2, SeqFacts
  <2> HIDE DEF q, n
  <2>5. DOMAIN q = 1 .. Len(q)
    BY <2>3, SeqFacts
  <2> QED
    BY <2>3, <2>4, <2>5
<1>2. MessageOf(Chunks[k]) = k
  BY MessageIs
<1>3. g = [i \in 1 .. n |-> MessageOf(popped[i])] /\ Len(g) = n /\ g \in Seq(Numbers)
  <2>1. g = [i \in 1 .. n |-> MessageOf(popped[i])]
    BY <1>1 DEF Given
  <2>2. Len(g) = n
    BY <1>1, <2>1
  <2> QED
    BY <2>1, <2>2
<1>4. Given(q) = [i \in 1 .. n + 1 |-> IF i = n + 1 THEN k ELSE g[i]]
  <2>1. Given(q) = [i \in 1 .. n + 1 |-> MessageOf(q[i])]
    BY <1>1 DEF Given
  <2>2. ASSUME NEW i \in 1 .. n + 1 PROVE MessageOf(q[i]) = IF i = n + 1 THEN k ELSE g[i]
    <3>1. CASE i = n + 1
      BY <1>1, <1>2, <3>1
    <3>2. CASE i # n + 1
      <4>1. i \in 1 .. n /\ q[i] = popped[i]
        BY <1>1, <3>2
      <4> QED
        BY <1>3, <3>2, <4>1
    <3> QED
      BY <3>1, <3>2
  <2> HIDE DEF q, g, n
  <2> QED
    BY <2>1, <2>2
<1>5. Given(q) = Append(g, k)
  <2>1. Append(g, k) \in Seq(Numbers) /\ Len(Append(g, k)) = n + 1
        /\ \A i \in 1 .. n + 1 : Append(g, k)[i] = IF i = n + 1 THEN k ELSE g[i]
    BY <1>3, AppendTyped
  <2> HIDE DEF g, n, q
  <2>2. Append(g, k) = [i \in 1 .. Len(Append(g, k)) |-> Append(g, k)[i]]
    BY <2>1, SeqAsFunction
  <2> QED
    BY <1>4, <2>1, <2>2
<1> HIDE DEF q, g
<1>6. D \o Append(g, k) = Append(D \o g, k)
  BY <1>3
<1> QED
  BY <1>5, <1>6 DEF q, g

\* After message k has been yielded, the next one by its TSN is due.
LEMMA NextDue ==
  ASSUME SsnsSuffice, OrderedFirst, NEW s, NEW k \in Numbers, Messages[k].stream = s,
         k + 1 \in Numbers, Messages[k + 1].stream = s, NEW ordered \in BOOLEAN,
         NEW ssn \in Nat, Due(ordered, ssn, k)
  PROVE  Due(ordered, IF Messages[k].unordered THEN ssn ELSE ssn + 1, k + 1)
<1>1. k < k + 1 /\ Messages[k].unordered \in BOOLEAN /\ Messages[k + 1].unordered \in BOOLEAN
  BY MessagesTyped
<1>2. CASE Messages[k].unordered
  <2>1. Messages[k + 1].unordered
    BY <1>1, <1>2 DEF OrderedFirst
  <2> QED
    BY <1>2, <2>1 DEF Due
<1>3. CASE ~Messages[k].unordered
  <2>1. ordered /\ Turns(k) = ssn
    BY <1>3 DEF Due
  <2>2. Turns(k + 1) = ssn + 1
    BY <1>3, <2>1, TurnsNext
  <2>3. ssn + 1 >= 1
    OBVIOUS
  <2> QED
    BY <1>1, <1>3, <2>1, <2>2, <2>3 DEF Due
<1> QED
  BY <1>1, <1>2, <1>3

\* The number of the stream after message k.
LEMMA NumberMoves ==
  ASSUME SsnsSuffice, NEW k \in Numbers, NEW ordered \in BOOLEAN,
         NEW ssn \in 0 .. SsnModulo \div 2, Due(ordered, ssn, k)
  PROVE  (IF ordered /\ StreamSeq(k) = ssn THEN SsnPlusOne(ssn) ELSE ssn)
           = IF Messages[k].unordered THEN ssn ELSE ssn + 1
<1>1. PICK h \in Nat \ {0} : SsnModulo = 2 * h /\ SsnModulo \div 2 = h
  BY HalfSpace
<1>2. Messages[k].unordered \in BOOLEAN
  BY MessagesTyped
<1>3. CASE Messages[k].unordered
  <2>1. StreamSeq(k) = 0
    BY <1>3 DEF StreamSeq
  <2>2. ordered => ssn # 0
    BY <1>1, <1>3 DEF Due
  <2> QED
    BY <1>3, <2>1, <2>2
<1>4. CASE ~Messages[k].unordered
  <2>1. ordered /\ Turns(k) = ssn /\ StreamSeq(k) = ssn /\ ssn < h
    BY <1>1, <1>4, TurnsFew DEF Due
  <2> DEFINE a == ssn + 1
             m == SsnModulo
  <2>2. a \in 0 .. m - 1 /\ a \in Int /\ m \in Nat \ {0} /\ a = m * 0 + a
    BY <1>1, <2>1
  <2> HIDE DEF a, m
  <2>3. a % m = a
    BY <2>2, Recognised
  <2>4. SsnPlusOne(ssn) = a
    BY <2>3 DEF SsnPlusOne, a, m
  <2> QED
    BY <1>4, <2>1, <2>4 DEF a
<1> QED
  BY <1>2, <1>3, <1>4

\* One chunk more keeps the pass in turn.
LEMMA InTurnStep ==
  ASSUME TsnsSuffice, SsnsSuffice, OrderedFirst, NEW s, NEW D \in Seq(Numbers),
         NEW v, IsScanning(v), Tracked(v), PassesInTurn(s, D, v),
         NEW c \in AllChunks, c.stream = s, c \notin Had(D), c \notin Gone(v)
  PROVE  PassesInTurn(s, D, ScanChunk(v, c))
<1> DEFINE w == ScanChunk(v, c)
           g == Given(v.popped)
<1>1. IsScanning(w) /\ (Skips(v, w, c) \/ Extends(v, w, c) \/ Pops(v, w, c))
  BY ScanStep
<1>2. v.popped \in Seq(Seq(AllChunks)) /\ v.ordered \in BOOLEAN
      /\ \A j \in DOMAIN v.popped : \E k \in Numbers : v.popped[j] = Chunks[k]
  BY DEF IsScanning, Scans, Tracked, Whole
<1>3. g \in Seq(Numbers) /\ Had(g) = Gone(v)
  BY <1>2, GivenIs DEF Gone
<1>4. v.ssn \in 0 .. SsnModulo \div 2 /\ v.ssn \in Nat
  <2>1. v.ssn \in 0 .. SsnModulo \div 2
    BY DEF PassesInTurn, Turned
  <2> QED
    BY <2>1, HalfSpace
<1>5. InOrder(v, c) \in BOOLEAN
  BY <1>2, ChunkTyped DEF InOrder
<1>6. Len(w.kept) \in Nat /\ w.start \in Nat
  BY <1>1, BeginsTyped DEF IsScanning, Scans
<1> HIDE DEF w, g
<1>7. CASE Skips(v, w, c)
  <2>1. w.popped = v.popped /\ w.ssn = v.ssn /\ (w.stopped \/ w.start = 0)
    BY <1>7 DEF Skips
  <2>2. Follows(s, w)
    BY <2>1 DEF Follows
  <2> QED
    BY <2>1, <2>2 DEF PassesInTurn, w
<1>8. ASSUME Extends(v, w, c) \/ Pops(v, w, c)
      PROVE  \E k \in Numbers : \E m \in 1 .. Len(Sizes(k)) :
               /\ Fitting(v, c, k, m) /\ c = Chunks[k][m] /\ Messages[k].stream = s
               /\ k \notin ToSet(D \o g) /\ Due(InOrder(v, c), v.ssn, k)
  <2>1. ~v.stopped /\ Fits(v, c)
    BY <1>8 DEF Extends, Pops
  <2>2. PICK k \in Numbers : \E m \in 1 .. Len(Sizes(k)) : Fitting(v, c, k, m)
    BY <2>1, Fitted
  <2>3. PICK m \in 1 .. Len(Sizes(k)) : Fitting(v, c, k, m)
    BY <2>2
  <2>4. c = Chunks[k][m]
    BY <2>3 DEF Fitting
  <2>5. k \notin ToSet(D \o g)
    <3> SUFFICES ASSUME k \in ToSet(D \o g) PROVE FALSE
      OBVIOUS
    <3>1. k \in ToSet(D) \/ k \in ToSet(g)
      BY <1>3, ConcatSet
    <3>2. c \in ToSet(Chunks[k])
      BY <2>4, ChunksTyped DEF ToSet
    <3>3. c \in Had(D) \/ c \in Had(g)
      BY <3>1, <3>2 DEF Had
    <3> QED
      BY <1>3, <3>3
  <2>6. Messages[k].stream = s /\ Due(InOrder(v, c), v.ssn, k)
    BY <2>1, <2>3, <2>5, FittedDue DEF g
  <2> QED
    BY <2>3, <2>4, <2>5, <2>6
<1>9. CASE Extends(v, w, c)
  <2>1. PICK k \in Numbers : \E m \in 1 .. Len(Sizes(k)) :
               /\ Fitting(v, c, k, m) /\ c = Chunks[k][m] /\ Messages[k].stream = s
               /\ k \notin ToSet(D \o g) /\ Due(InOrder(v, c), v.ssn, k)
    BY <1>8, <1>9
  <2>2. PICK m \in 1 .. Len(Sizes(k)) :
               /\ Fitting(v, c, k, m) /\ c = Chunks[k][m] /\ Messages[k].stream = s
               /\ k \notin ToSet(D \o g) /\ Due(InOrder(v, c), v.ssn, k)
    BY <2>1
  <2>3. Begun(w, k, m)
    BY <1>9, <2>2, Extending
  <2>4. w.popped = v.popped /\ w.ssn = v.ssn /\ w.ordered = InOrder(v, c)
    BY <1>9 DEF Extends
  <2>5. ASSUME NEW l \in Numbers, NEW n \in 1 .. Len(Sizes(l)), Begun(w, l, n)
        PROVE  Due(w.ordered, w.ssn, l)
    <3>1. l = k
      BY <2>3, <2>5, BegunOnce
    <3> QED
      BY <2>2, <2>4, <3>1
  <2>6. ASSUME NEW l \in Numbers, Ended(w, l) PROVE FALSE
    BY <1>6, <2>3, <2>6, BegunNotEnded
  <2>7. Follows(s, w)
    BY <2>5, <2>6 DEF Follows
  <2> QED
    BY <2>4, <2>7 DEF PassesInTurn, w
<1>10. CASE Pops(v, w, c)
  <2>1. PICK k \in Numbers : \E m \in 1 .. Len(Sizes(k)) :
               /\ Fitting(v, c, k, m) /\ c = Chunks[k][m] /\ Messages[k].stream = s
               /\ k \notin ToSet(D \o g) /\ Due(InOrder(v, c), v.ssn, k)
    BY <1>8, <1>10
  <2>2. PICK m \in 1 .. Len(Sizes(k)) :
               /\ Fitting(v, c, k, m) /\ c = Chunks[k][m] /\ Messages[k].stream = s
               /\ k \notin ToSet(D \o g) /\ Due(InOrder(v, c), v.ssn, k)
    BY <2>1
  <2> DEFINE next == IF Messages[k].unordered THEN v.ssn ELSE v.ssn + 1
  <2>3. w.popped = Append(v.popped, Chunks[k]) /\ Ended(w, k)
    BY <1>10, <2>2, Completing
  <2>4. w.ordered = InOrder(v, c) /\ c.ssn = StreamSeq(k)
        /\ w.ssn = IF InOrder(v, c) /\ c.ssn = v.ssn THEN SsnPlusOne(v.ssn) ELSE v.ssn
    BY <1>10, <2>2, ChunkFields DEF Pops
  <2>5. w.ssn = next
    BY <1>4, <1>5, <2>2, <2>4, NumberMoves
  <2>6. D \o Given(w.popped) = Append(D \o g, k)
    BY <1>2, <1>3, <2>3, GivenMore DEF g
  <2>7. ~Messages[k].unordered => Turns(k) = v.ssn
    BY <2>2 DEF Due
  <2>8. D \o g \in Seq(Numbers) /\ Turned(s, D \o g, v.ssn)
    BY <1>3, ConcatSet DEF PassesInTurn, g
  <2>9. Turned(s, Append(D \o g, k), next)
    BY <2>2, <2>7, <2>8, TurnedMore
  <2>10. ASSUME NEW l \in Numbers, NEW n \in 1 .. Len(Sizes(l)), Begun(w, l, n) PROVE FALSE
    BY <1>6, <2>3, <2>10, BegunNotEnded
  <2>11. ASSUME NEW l \in Numbers, Ended(w, l)
         PROVE  /\ Messages[l].stream = s
                /\ l + 1 \in Numbers /\ Messages[l + 1].stream = s => Due(w.ordered, w.ssn, l + 1)
    <3>1. l = k
      BY <2>3, <2>11, EndedOnce
    <3>2. ASSUME k + 1 \in Numbers, Messages[k + 1].stream = s PROVE Due(InOrder(v, c), next, k + 1)
      BY <1>4, <1>5, <2>2, <3>2, NextDue
    <3> QED
      BY <2>2, <2>4, <2>5, <3>1, <3>2
  <2>12. Follows(s, w)
    BY <2>10, <2>11 DEF Follows
  <2> QED
    BY <2>5, <2>6, <2>9, <2>12 DEF PassesInTurn, w
<1> QED
  BY <1>1, <1>7, <1>9, <1>10 DEF w

LEMMA InTurnStarts ==
  ASSUME NEW s, NEW D \in Seq(Numbers), NEW stream, Turned(s, D, stream.ssn)
  PROVE  PassesInTurn(s, D, Scan(stream))
<1> DEFINE v == Scan(stream)
<1>1. v.start = 0 /\ v.ssn = stream.ssn /\ v.popped = << >>
  BY DEF Scan
<1> HIDE DEF v
<1>2. Given(v.popped) = << >>
  BY <1>1 DEF Given
<1>3. D \o << >> = D
  OBVIOUS
<1>4. Follows(s, v)
  BY <1>1 DEF Follows
<1> QED
  BY <1>1, <1>2, <1>3, <1>4 DEF PassesInTurn, v

LEMMA PassInTurn ==
  ASSUME TsnsSuffice, SsnsSuffice, OrderedFirst, NEW s, NEW D \in Seq(Numbers),
         NEW stream, Sound(stream), Turned(s, D, stream.ssn),
         \A c \in ToSet(stream.reassembly) : c.stream = s /\ c \notin Had(D),
         NEW f, IsPass(stream, Len(stream.reassembly), f), NEW i \in 0 .. Len(stream.reassembly)
  PROVE  PassesInTurn(s, D, f[i])
<1> DEFINE b == stream.reassembly
           n == Len(b)
           T == {k \in 0 .. n : ~PassesInTurn(s, D, f[k])}
<1>1. b \in Seq(AllChunks) /\ n \in Nat /\ DOMAIN b = 1 .. n /\ Distinct(b)
  BY SeqFacts DEF Sound
<1> SUFFICES ASSUME T # {} PROVE FALSE
  OBVIOUS
<1>2. PICK k \in T : \A j \in T : k <= j
  <2>1. T \in SUBSET Nat
    BY <1>1
  <2> HIDE DEF T
  <2> QED
    BY <2>1, LeastNumber
<1>3. /\ k \in 0 .. n /\ ~PassesInTurn(s, D, f[k])
      /\ f[k] = IF k = 0 THEN Scan(stream) ELSE ScanChunk(f[k - 1], b[k])
  BY DEF IsPass
<1>4. CASE k = 0
  BY <1>3, <1>4, InTurnStarts
<1>5. CASE k # 0
  <2>1. k - 1 \in 0 .. n /\ k - 1 < k /\ k \in 1 .. n
    BY <1>1, <1>3, <1>5
  <2>2. k - 1 \notin T
    BY <1>1, <1>2, <1>3, <2>1
  <2>3. PassesInTurn(s, D, f[k - 1])
    BY <2>1, <2>2
  <2>4. IsScanning(f[k - 1]) /\ Tracked(f[k - 1]) /\ Collected(f[k - 1], FirstOf(b, k - 1))
    BY <2>1, PassKeeps
  <2>5. b[k] \in AllChunks /\ b[k].stream = s /\ b[k] \notin Had(D)
    BY <1>1, <2>1, SeqFacts
  <2>6. b[k] \notin Gone(f[k - 1])
    <3>1. b[k] \notin FirstOf(b, k - 1)
      <4> SUFFICES ASSUME NEW j \in 1 .. k - 1, b[j] = b[k] PROVE FALSE
        BY DEF FirstOf
      <4>1. j \in 1 .. n /\ j # k
        BY <1>1, <2>1
      <4> QED
        BY <1>1, <2>1, <4>1 DEF Distinct
    <3> QED
      BY <2>4, <3>1 DEF Collected
  <2>7. f[k] = ScanChunk(f[k - 1], b[k])
    BY <1>3, <1>5
  <2> HIDE DEF b, T
  <2> QED
    BY <1>3, <2>3, <2>4, <2>5, <2>6, <2>7, InTurnStep
<1> QED
  BY <1>4, <1>5

LEMMA PopInTurn ==
  ASSUME TsnsSuffice, SsnsSuffice, OrderedFirst, NEW s, NEW D \in Seq(Numbers),
         NEW stream, Sound(stream), Turned(s, D, stream.ssn),
         \A c \in ToSet(stream.reassembly) : c.stream = s /\ c \notin Had(D)
  PROVE  LET pop == PopMessages(stream)
         IN  Turned(s, D \o Given(pop.popped), pop.stream.ssn)
<1> DEFINE n == Len(stream.reassembly)
<1>1. n \in Nat
  BY SeqFacts DEF Sound
<1>2. PICK f : IsPass(stream, n, f) /\ PopMessages(stream) = Result(f[n])
  BY <1>1, PassIs
<1>3. PassesInTurn(s, D, f[n])
  <2>1. IsPass(stream, n, f)
    BY <1>2
  <2>2. ASSUME NEW i \in 0 .. n PROVE PassesInTurn(s, D, f[i])
    BY <2>1, PassInTurn
  <2>3. n \in 0 .. n
    BY <1>1
  <2> QED
    BY <2>2, <2>3
<1> QED
  BY <1>2, <1>3 DEF PassesInTurn, Result

-----------------------------------------------------------------------------
(* The receiver hands over in turn.                                          *)

ReceiverOrder == \A s \in Streams : Turned(s, delivered[s], streams[s].ssn)

LEMMA OrderStarts ==
  ASSUME ReceiverInit
  PROVE  ReceiverOrder
<1>1. \A s \in Streams : streams[s].ssn = 0 /\ delivered[s] = << >>
  BY DEF ReceiverInit, EmptyStream
<1> QED
  BY <1>1, TurnedNothing DEF ReceiverOrder

\* A chunk that the numbers do not know is in no buffer and no message.
LEMMA UnknownIsNew ==
  ASSUME TsnsSuffice, ReceiverInv, NEW c \in AllChunks, ~(Uint32Gte(last, c.tsn) \/ c.tsn \in mis)
  PROVE  c \notin Held \cup DeliveredChunks
<1>1. PICK l \in 0 .. Total : \E A \in SUBSET (l + 1 .. Total) : Receives(l, A)
  BY DEF ReceiverInv
<1>2. PICK A \in SUBSET (l + 1 .. Total) : Receives(l, A)
  BY <1>1
<1>3. Uint32Gte(TsnAt(l), c.tsn) <=> At(c) <= l
  BY KnownAt
<1>4. c.tsn \in Tsn(A) <=> At(c) \in A
  BY KnownAt
<1> QED
  BY <1>2, <1>3, <1>4 DEF Receives, Arrived

LEMMA OrderGrows ==
  ASSUME TsnsSuffice, SsnsSuffice, OrderedFirst, Buffers, ReceiverOrder,
         NEW c \in AllChunks, c \notin Held \cup DeliveredChunks
  PROVE  LET pop == PopMessages(AddChunk(streams[c.stream], c))
         IN  Turned(c.stream, Deliver(delivered[c.stream], pop.popped), pop.stream.ssn)
<1> DEFINE s == c.stream
           added == AddChunk(streams[s], c)
<1>1. s \in Streams
  BY ChunkPlace
<1>2. streams[s] \in StreamRecords /\ Distinct(streams[s].reassembly) /\ delivered[s] \in Seq(Numbers)
      /\ (\A d \in Here(s) : d.stream = s) /\ Here(s) \subseteq Held
      /\ Had(delivered[s]) \subseteq DeliveredChunks /\ Held \cap DeliveredChunks = {}
  <2>1. DeliveredChunks = UNION {Had(delivered[t]) : t \in Streams}
    BY HadAll
  <2>2. Held = UNION {Here(t) : t \in Streams}
    BY DEF Held, Here
  <2> QED
    BY <1>1, <2>1, <2>2 DEF Buffers
<1>3. Sound(streams[s]) /\ DOMAIN streams[s] = {"reassembly", "ssn"}
  BY <1>2 DEF StreamRecords, Sound
<1>4. c \notin ToSet(streams[s].reassembly)
  BY <1>2 DEF Here
<1>5. Sound(added) /\ ToSet(added.reassembly) = Here(s) \cup {c} /\ added.ssn = streams[s].ssn
  <2> USE DEF Here
  <2> QED
    BY <1>3, <1>4, AddedChunk
<1>6. Turned(s, delivered[s], added.ssn)
  BY <1>1, <1>5 DEF ReceiverOrder
<1> HIDE DEF added
<1>7. \A d \in ToSet(added.reassembly) : d.stream = s /\ d \notin Had(delivered[s])
  BY <1>2, <1>5
<1> HIDE DEF s
<1>8. Turned(s, delivered[s] \o Given(PopMessages(added).popped), PopMessages(added).stream.ssn)
  BY <1>2, <1>5, <1>6, <1>7, PopInTurn
<1> QED
  BY <1>8 DEF Deliver, Given, added, s


\* What an arrival does to the deliveries: nothing, or one stream gets more of them in turn.
LEMMA DeliveriesGrow ==
  ASSUME TsnsSuffice, SsnsSuffice, OrderedFirst, ReceiverInv, ReceiverOrder,
         NEW c \in AllChunks, HandleData(c)
  PROVE  /\ ReceiverOrder'
         /\ \A s \in Streams : \E more \in Seq(Numbers) : delivered'[s] = delivered[s] \o more
<1>1. CASE Uint32Gte(last, c.tsn) \/ c.tsn \in mis
  <2>1. UNCHANGED <<streams, delivered>>
    BY <1>1 DEF HandleData
  <2>2. \A s \in Streams : delivered[s] \in Seq(Numbers) /\ delivered[s] = delivered[s] \o << >>
    BY DEF ReceiverInv, Buffers
  <2>3. << >> \in Seq(Numbers)
    OBVIOUS
  <2> QED
    BY <2>1, <2>2, <2>3 DEF ReceiverOrder
<1>2. CASE ~(Uint32Gte(last, c.tsn) \/ c.tsn \in mis)
  <2> DEFINE s == c.stream
             pop == PopMessages(AddChunk(streams[s], c))
             seq == Deliver(delivered[s], pop.popped)
  <2>1. streams' = [streams EXCEPT ![s] = pop.stream] /\ delivered' = [delivered EXCEPT ![s] = seq]
    BY <1>2 DEF HandleData
  <2>2. c \notin Held \cup DeliveredChunks
    BY <1>2, UnknownIsNew
  <2>3. Turned(s, seq, pop.stream.ssn)
    BY <2>2, OrderGrows DEF ReceiverInv
  <2>4. s \in Streams
    BY ChunkPlace
  <2>5. /\ streams \in [Streams -> StreamRecords] /\ delivered \in [Streams -> Seq(Numbers)]
        /\ Distinct(streams[s].reassembly) /\ \A d \in ToSet(streams[s].reassembly) : d.stream = c.stream
        /\ c \notin ToSet(streams[s].reassembly)
    <3>1. Held = UNION {Here(t) : t \in Streams}
      BY DEF Held, Here
    <3> QED
      BY <2>2, <2>4, <3>1 DEF ReceiverInv, Buffers, Here
  <2>6. seq = delivered[s] \o Given(pop.popped)
    BY DEF Deliver, Given
  <2>7. Given(pop.popped) \in Seq(Numbers)
    <3>1. streams[s] \in StreamRecords
      BY <2>4, <2>5
    <3> QED
      BY <2>5, <3>1, TakenIn
  <2> HIDE DEF pop, seq, s
  <2>8. \A t \in Streams : /\ streams'[t] = IF t = s THEN pop.stream ELSE streams[t]
                           /\ delivered'[t] = IF t = s THEN seq ELSE delivered[t]
    BY <2>1, <2>4, <2>5
  <2>9. ASSUME NEW t \in Streams
        PROVE  /\ Turned(t, delivered'[t], streams'[t].ssn)
               /\ \E more \in Seq(Numbers) : delivered'[t] = delivered[t] \o more
    <3>1. CASE t = s
      BY <2>3, <2>6, <2>7, <2>8, <3>1
    <3>2. CASE t # s
      <4>1. delivered'[t] = delivered[t] /\ streams'[t] = streams[t]
        BY <2>8, <3>2
      <4>2. delivered[t] \in Seq(Numbers)
        BY <2>5
      <4>3. delivered[t] = delivered[t] \o << >> /\ << >> \in Seq(Numbers)
        BY <4>2
      <4> QED
        BY <4>1, <4>3 DEF ReceiverOrder
    <3> QED
      BY <3>1, <3>2
  <2> QED
    BY <2>9 DEF ReceiverOrder
<1> QED
  BY <1>1, <1>2

LEMMA LegalInTurn ==
  ASSUME NEW s \in Streams, NEW seq \in Seq(Numbers), \A k \in ToSet(seq) : Messages[k].stream = s,
         NEW n, ToSet(seq) \subseteq 1 .. n, 1 .. n \subseteq Numbers,
         NEW ssn, Turned(s, seq, ssn)
  PROVE  Abstract!Legal(s, seq, n)
<1> DEFINE mine == {k \in 1 .. n : Messages[k].stream = s}
           inOrder == {k \in mine : ~Messages[k].unordered}
           got == ToSet(seq)
<1>1. inOrder \subseteq OrderedOn(s)
  BY DEF OrderedOn
<1>2. \A k \in inOrder : k \in OrderedOn(s)
  BY <1>1
<1>3. got \subseteq mine /\ DOMAIN seq = 1 .. Len(seq)
  BY SeqFacts
<1> HIDE DEF inOrder, mine, got
<1>4. ASSUME NEW i \in DOMAIN seq, NEW j \in DOMAIN seq, i < j
      PROVE  /\ seq[i] # seq[j]
             /\ {seq[i], seq[j]} \subseteq inOrder => seq[i] < seq[j]
  BY <1>2, <1>4 DEF Turned
<1>5. ASSUME NEW k \in got \cap inOrder, NEW j \in inOrder \ got, j < k PROVE FALSE
  <2>1. Turns(k) < ssn /\ ~(Turns(j) < ssn)
    BY <1>2 DEF Turned, got
  <2>2. j \in Numbers /\ k \in Numbers /\ Messages[j].stream = Messages[k].stream /\ ~Messages[j].unordered
    BY <1>2 DEF OrderedOn
  <2>3. Turns(j) < Turns(k) /\ Turns(j) \in Nat /\ Turns(k) \in Nat
    BY <1>5, <2>2, TurnsGrow, BeforeTyped
  <2>4. ssn \in Int
    BY HalfSpace DEF Turned
  <2> QED
    BY <2>1, <2>3, <2>4
<1>6. Abstract!ToSet(seq) = got
  BY DEF Abstract!ToSet, ToSet, got
<1>7. \A k \in got \cap inOrder, j \in inOrder \ got : j < k => Abstract!Skippable(j)
  BY <1>5
<1>8. Abstract!Legal(s, seq, n) <=>
        /\ Abstract!ToSet(seq) \subseteq mine
        /\ \A i, j \in DOMAIN seq : i < j =>
             /\ seq[i] # seq[j]
             /\ {seq[i], seq[j]} \subseteq inOrder => seq[i] < seq[j]
        /\ \A k \in Abstract!ToSet(seq) \cap inOrder, j \in inOrder \ Abstract!ToSet(seq) :
             j < k => Abstract!Skippable(j)
  BY DEF Abstract!Legal, mine, inOrder
<1> QED
  BY <1>3, <1>4, <1>6, <1>7, <1>8

LEMMA PrefixOf ==
  ASSUME NEW S, NEW s \in Seq(S), NEW t \in Seq(S)
  PROVE  Abstract!IsPrefix(s, s \o t)
<1>1. Len(s) <= Len(s \o t) /\ SubSeq(s, 1, Len(s)) = SubSeq(s \o t, 1, Len(s))
  OBVIOUS
<1> QED
  BY <1>1 DEF Abstract!IsPrefix

-----------------------------------------------------------------------------
(* The theorems.                                                             *)

LEMMA ReceiverStep ==
  ASSUME TsnsSuffice
  PROVE  ReceiverInv /\ [ArrivalNext]_receiverVars => ReceiverInv'
<1> SUFFICES ASSUME ReceiverInv, [ArrivalNext]_receiverVars PROVE ReceiverInv'
  OBVIOUS
<1>1. ASSUME NEW c \in AllChunks, Arrive(c) PROVE ReceiverInv'
  BY <1>1, HandleDataKeeps DEF Arrive
<1>2. CASE SackTimer
  BY <1>2, ReceiverUnmoved DEF SackTimer
<1>3. CASE UNCHANGED receiverVars
  BY <1>3, ReceiverUnmoved DEF receiverVars
<1> QED
  BY <1>1, <1>2, <1>3 DEF ArrivalNext

-----------------------------------------------------------------------------
(* The advertised window is what the buffers leave of it.                    *)

WindowInv == rwnd = AdvertisedRwnd - BytesOf(Held)

LEMMA HeldTyped ==
  ASSUME Buffers
  PROVE  Held \in SUBSET AllChunks /\ \A s \in Streams : Here(s) \in SUBSET AllChunks
<1>1. ASSUME NEW s \in Streams PROVE Here(s) \in SUBSET AllChunks
  <2>1. streams[s].reassembly \in Seq(AllChunks)
    BY DEF Buffers, StreamRecords
  <2> QED
    BY <2>1, SeqFacts DEF Here
<1> QED
  BY <1>1 DEF Held, Here

LEMMA WindowStarts ==
  ASSUME ReceiverInit
  PROVE  WindowInv
<1>1. \A s \in Streams : ToSet(streams[s].reassembly) = {}
  BY DEF ReceiverInit, EmptyStream, ToSet
<1>2. Held = {}
  BY <1>1 DEF Held
<1>3. BytesOf(Held) = 0
  BY <1>2, SumOfNothing DEF BytesOf
<1> QED
  BY <1>3, RwndAssumption DEF WindowInv, ReceiverInit

LEMMA WindowUnmoved ==
  ASSUME WindowInv, UNCHANGED <<streams, rwnd>>
  PROVE  WindowInv'
<1>1. Held' = Held
  BY DEF Held
<1> QED
  BY <1>1 DEF WindowInv

LEMMA WindowKept ==
  ASSUME TsnsSuffice, ReceiverInv, WindowInv, NEW c \in AllChunks, HandleData(c)
  PROVE  WindowInv'
<1>1. CASE Uint32Gte(last, c.tsn) \/ c.tsn \in mis
  <2>1. UNCHANGED <<streams, rwnd>>
    BY <1>1 DEF HandleData
  <2> QED
    BY <2>1, WindowUnmoved
<1>2. CASE ~(Uint32Gte(last, c.tsn) \/ c.tsn \in mis)
  <2> DEFINE s == c.stream
             pop == PopMessages(AddChunk(streams[s], c))
             now == ToSet(pop.stream.reassembly)
             back == Returned(pop.popped)
             rest == Held \ Here(s)
  <2>1. c \notin Held \cup DeliveredChunks
    BY <1>2, UnknownIsNew
  <2>2. /\ streams' = [streams EXCEPT ![s] = pop.stream]
        /\ delivered' = [delivered EXCEPT ![s] = Deliver(@, pop.popped)]
        /\ rwnd' = rwnd - c.size + back
    BY <1>2 DEF HandleData
  <2>3. Held' = rest \cup now
    BY <2>1, <2>2, BuffersGrow DEF ReceiverInv
  <2>4. s \in Streams
    BY ChunkPlace
  <2>5. /\ now \subseteq Here(s) \cup {c} /\ back \in Int
        /\ BytesOf(now) + back = BytesOf(Here(s) \cup {c})
    <3>1. streams[s] \in StreamRecords /\ Distinct(streams[s].reassembly)
          /\ \A d \in ToSet(streams[s].reassembly) : d.stream = c.stream
      BY <2>4 DEF ReceiverInv, Buffers, Here
    <3>2. c \notin ToSet(streams[s].reassembly)
      BY <2>1, <2>4 DEF Held
    <3> QED
      BY <3>1, <3>2, TakenIn DEF Here
  <2>6. Held \in SUBSET AllChunks /\ Here(s) \in SUBSET AllChunks /\ Here(s) \subseteq Held
    BY <2>4, HeldTyped DEF ReceiverInv, Held, Here
  <2> HIDE DEF pop, now, back, s
  <2>7. /\ rest \in SUBSET AllChunks /\ now \in SUBSET AllChunks /\ rest \cap now = {}
        /\ rest \cap Here(s) = {} /\ Held = rest \cup Here(s) /\ {c} \in SUBSET AllChunks
        /\ Here(s) \cap {c} = {}
    BY <2>1, <2>5, <2>6
  <2> HIDE DEF rest
  <2>8. BytesOf(rest \cup now) = BytesOf(rest) + BytesOf(now) /\ BytesOf(now) \in Int
        /\ BytesOf(rest) \in Int
    BY <2>7, BytesOfBoth
  <2>9. BytesOf(rest \cup Here(s)) = BytesOf(rest) + BytesOf(Here(s)) /\ BytesOf(Here(s)) \in Int
    BY <2>6, <2>7, BytesOfBoth
  <2>10. BytesOf(Here(s) \cup {c}) = BytesOf(Here(s)) + BytesOf({c})
    BY <2>6, <2>7, BytesOfBoth
  <2>11. BytesOf({c}) = c.size /\ c.size \in Int
    BY BytesOfOne
  <2> DEFINE w == BytesOf(rest)
             x == BytesOf(now)
             y == BytesOf(Here(s))
             z == c.size
  <2>12. /\ BytesOf(Held') = w + x /\ BytesOf(Held) = w + y /\ x + back = y + z
         /\ rwnd = AdvertisedRwnd - (w + y) /\ rwnd' = rwnd - z + back
         /\ w \in Int /\ x \in Int /\ y \in Int /\ z \in Int /\ back \in Int /\ AdvertisedRwnd \in Int
    <3>1. AdvertisedRwnd \in Int
      BY RwndAssumption
    <3>2. Held = rest \cup Here(s)
      BY <2>7
    <3>3. rwnd = AdvertisedRwnd - (w + y)
      BY <2>9, <3>2 DEF WindowInv
    <3> QED
      BY <2>2, <2>3, <2>5, <2>8, <2>9, <2>10, <2>11, <3>1, <3>2, <3>3
  <2> HIDE DEF w, x, y, z
  <2>13. rwnd' = AdvertisedRwnd - (w + x)
    BY <2>12
  <2> QED
    BY <2>12, <2>13 DEF WindowInv
<1> QED
  BY <1>1, <1>2

LEMMA WindowStep ==
  ASSUME TsnsSuffice
  PROVE  ReceiverInv /\ WindowInv /\ [ArrivalNext]_receiverVars => WindowInv'
<1> SUFFICES ASSUME ReceiverInv, WindowInv, [ArrivalNext]_receiverVars PROVE WindowInv'
  OBVIOUS
<1>1. CASE SackTimer
  BY <1>1, WindowUnmoved DEF SackTimer
<1>2. CASE \E c \in AllChunks : Arrive(c)
  BY <1>2, WindowKept DEF Arrive
<1>3. CASE UNCHANGED receiverVars
  BY <1>3, WindowUnmoved DEF receiverVars
<1> QED
  BY <1>1, <1>2, <1>3 DEF ArrivalNext

LEMMA AccountedIs ==
  ASSUME ReceiverInv, WindowInv
  PROVE  BufferIsAccounted
<1> DEFINE IsIt(f) == f = [t \in SUBSET Held |-> IF t = {} THEN 0
                                                ELSE Picked(t).size + f[t \ {Picked(t)}]]
           bytes == (CHOOSE f : IsIt(f))[Held]
<1>1. Held \in SUBSET AllChunks /\ Held \cap DeliveredChunks = {}
  BY HeldTyped DEF ReceiverInv, Buffers
<1>2. \A t \in SUBSET Held : t # {} => Picked(t).size = SizeOf[Picked(t)]
  BY <1>1, PickedIs, SizeTyped
<1>3. \A f : IsIt(f) <=> IsSum(Held, SizeOf, f)
  BY <1>2 DEF IsSum
<1>4. (CHOOSE f : IsIt(f)) = (CHOOSE f : IsSum(Held, SizeOf, f))
  BY <1>3
<1>5. BytesOf(Held) = (CHOOSE f : IsSum(Held, SizeOf, f))[Held]
  BY DEF BytesOf, SumOver, MapThenSumSet, MapThenFoldSet, IsSum, Picked
<1>6. rwnd = AdvertisedRwnd - bytes
  BY <1>4, <1>5 DEF WindowInv
<1> QED
  BY <1>1, <1>6 DEF BufferIsAccounted, MapThenSumSet, MapThenFoldSet, Picked

\* Whatever the order of arrival, the numbers that _markReceived keeps (_lastReceivedTsn,
\* _remoteCumulativeTsn, _sackMisOrdered) describe the same set of chunks as the reassembly
\* buffers of inbound_stream.dart and the messages given to onReceiveData together do, and no
\* chunk is both in a buffer and delivered.
THEOREM NumbersMatchBuffers ==
  ASSUME TsnsSuffice
  PROVE  ArrivalSpec => []ReceiverInv
<1>1. ReceiverInit => ReceiverInv
  BY ReceiverStarts
<1>2. ReceiverInv /\ [ArrivalNext]_receiverVars => ReceiverInv'
  BY ReceiverStep
<1> QED
  BY <1>1, <1>2, PTL DEF ArrivalSpec

\* Every byte that arrives is taken from advertisedRwnd and comes back exactly when the message
\* that it belongs to is given to onReceiveData, whatever the order of arrival.
THEOREM BytesAreAccounted ==
  ASSUME TsnsSuffice
  PROVE  ArrivalSpec => []BufferIsAccounted
<1>1. ReceiverInit => WindowInv
  BY WindowStarts
<1>2. ReceiverInv /\ WindowInv /\ [ArrivalNext]_receiverVars => WindowInv'
  BY WindowStep
<1>3. ReceiverInv /\ WindowInv => BufferIsAccounted
  BY AccountedIs
<1> QED
  BY <1>1, <1>2, <1>3, NumbersMatchBuffers, PTL DEF ArrivalSpec

\* A SACK of _sendSack, read as the sender reads it, acknowledges a chunk exactly when its
\* bytes are in a reassembly buffer or in a delivered message.
THEOREM AcknowledgesWhatIsHeld ==
  ASSUME TsnsSuffice
  PROVE  ArrivalSpec => []AcknowledgedIsHeld
<1>1. ReceiverInv => AcknowledgedIsHeld
  <2> SUFFICES ASSUME ReceiverInv PROVE AcknowledgedIsHeld
    OBVIOUS
  <2>1. PICK l \in 0 .. Total : \E A \in SUBSET (l + 1 .. Total) : Receives(l, A)
    BY DEF ReceiverInv
  <2>2. PICK A \in SUBSET (l + 1 .. Total) : Receives(l, A)
    BY <2>1
  <2>3. Acknowledged = Arrived(l, A)
    BY <2>2, AcknowledgedIs
  <2> QED
    BY <2>2, <2>3 DEF Receives, AcknowledgedIsHeld
<1> QED
  BY <1>1, NumbersMatchBuffers, PTL

\* While the TSNs of the association do not wrap, the SACK also says all that could be said:
\* _markReceived has advanced the cumulative TSN as far as the chunks in sequence reach.
THEOREM AcknowledgementsAreExact ==
  ASSUME TsnsSuffice, InitialTsn + Total <= TsnModulo
  PROVE  ArrivalSpec => []AcknowledgementIsExact
<1>1. ReceiverInv => CumulativeIsMaximal
  <2> SUFFICES ASSUME ReceiverInv PROVE CumulativeIsMaximal
    OBVIOUS
  <2>1. PICK l \in 0 .. Total : \E A \in SUBSET (l + 1 .. Total) : Receives(l, A)
    BY DEF ReceiverInv
  <2>2. PICK A \in SUBSET (l + 1 .. Total) : Receives(l, A)
    BY <2>1
  <2> QED
    BY <2>2, SuccessorMissing
<1>2. AcknowledgedIsHeld /\ CumulativeIsMaximal => AcknowledgementIsExact
  BY DEF AcknowledgementIsExact
<1> QED
  BY <1>1, <1>2, NumbersMatchBuffers, AcknowledgesWhatIsHeld, PTL


LEMMA OrderStep ==
  ASSUME TsnsSuffice, SsnsSuffice, OrderedFirst
  PROVE  ReceiverInv /\ ReceiverOrder /\ [ArrivalNext]_receiverVars => ReceiverOrder'
<1> SUFFICES ASSUME ReceiverInv, ReceiverOrder, [ArrivalNext]_receiverVars PROVE ReceiverOrder'
  OBVIOUS
<1>1. ASSUME NEW c \in AllChunks, Arrive(c) PROVE ReceiverOrder'
  BY <1>1, DeliveriesGrow DEF Arrive
<1>2. CASE SackTimer
  BY <1>2 DEF SackTimer, ReceiverOrder
<1>3. CASE UNCHANGED receiverVars
  BY <1>3 DEF receiverVars, ReceiverOrder
<1> QED
  BY <1>1, <1>2, <1>3 DEF ArrivalNext

\* A step of the receiver is a step of MessageDelivery, or changes nothing that it sees.
LEMMA DeliveryStep ==
  ASSUME TsnsSuffice, SsnsSuffice, OrderedFirst, ReceiverInv, ReceiverInv', ReceiverOrder,
         [ArrivalNext]_receiverVars
  PROVE  [Abstract!Next]_<<Len(Messages), delivered>>
<1>1. ASSUME NEW c \in AllChunks, Arrive(c) PROVE Abstract!Next
  <2>1. /\ ReceiverOrder'
        /\ \A s \in Streams : \E more \in Seq(Numbers) : delivered'[s] = delivered[s] \o more
    BY <1>1, DeliveriesGrow DEF Arrive
  <2>2. ASSUME NEW s \in Streams
        PROVE  /\ Abstract!IsPrefix(delivered[s], delivered'[s])
               /\ Abstract!Legal(s, delivered'[s], Len(Messages))
    <3>1. PICK more \in Seq(Numbers) : delivered'[s] = delivered[s] \o more
      BY <2>1
    <3>2. delivered[s] \in Seq(Numbers) /\ delivered'[s] \in Seq(Numbers)
          /\ \A k \in ToSet(delivered'[s]) : Messages[k].stream = s
      BY DEF ReceiverInv, Buffers
    <3>3. Turned(s, delivered'[s], streams'[s].ssn)
      BY <2>1 DEF ReceiverOrder
    <3>4. Abstract!IsPrefix(delivered[s], delivered'[s])
      BY <3>1, <3>2, PrefixOf
    <3>5. Abstract!Legal(s, delivered'[s], Len(Messages))
      <4>1. Numbers = 1 .. Len(Messages) /\ ToSet(delivered'[s]) \subseteq Numbers
        BY <3>2, MessagesTyped, SeqFacts
      <4> QED
        BY <3>2, <3>3, <4>1, LegalInTurn
    <3> QED
      BY <3>4, <3>5
  <2>3. Abstract!Streams = Streams
    BY DEF Abstract!Streams, Streams, Numbers
  <2> QED
    BY <2>2, <2>3 DEF Abstract!Next, Abstract!Deliver
<1>2. CASE SackTimer
  BY <1>2 DEF SackTimer
<1>3. CASE UNCHANGED receiverVars
  BY <1>3 DEF receiverVars
<1> QED
  BY <1>1, <1>2, <1>3 DEF ArrivalNext

\* The receiver keeps the promise of MessageDelivery: each stream gets every message at most
\* once and whole, and its ordered messages in the order of sendData without a gap.
\* popMessages and the stream sequence number (inbound_stream.dart) do so for streams whose
\* unordered messages, if any, come after the ordered ones.
THEOREM ReceiverImplementsDelivery ==
  ASSUME TsnsSuffice, SsnsSuffice, OrderedFirst
  PROVE  ArrivalSpec => DeliversAsPromised
<1>1. ReceiverInit => ReceiverOrder
  BY OrderStarts
<1>2. ReceiverInv /\ ReceiverOrder /\ [ArrivalNext]_receiverVars => ReceiverOrder'
  BY OrderStep
<1>3. ReceiverInit => Abstract!Init
  <2> SUFFICES ASSUME ReceiverInit PROVE Abstract!Init
    OBVIOUS
  <2>1. Abstract!Streams = Streams
    BY DEF Abstract!Streams, Streams, Numbers
  <2>2. delivered = [s \in Streams |-> << >>]
    BY DEF ReceiverInit
  <2>3. Len(Messages) \in 0 .. Len(Messages)
    BY MessagesTyped
  <2> QED
    BY <2>1, <2>2, <2>3 DEF Abstract!Init
<1>4. ReceiverInv /\ ReceiverInv' /\ ReceiverOrder /\ [ArrivalNext]_receiverVars
        => [Abstract!Next]_<<Len(Messages), delivered>>
  BY DeliveryStep
<1> QED
  BY <1>1, <1>2, <1>3, <1>4, NumbersMatchBuffers, PTL DEF ArrivalSpec, DeliversAsPromised, Abstract!Spec

-----------------------------------------------------------------------------
(* The places of the sender's queues.                                         *)

KnownTsns == DOMAIN ChunkAt

LEMMA ChunkAtIs ==
  ASSUME TsnsSuffice, NEW c \in AllChunks
  PROVE  c.tsn \in KnownTsns /\ ChunkAt[c.tsn] = c
<1>1. KnownTsns = {d.tsn : d \in AllChunks}
  BY DEF KnownTsns, ChunkAt
<1>2. c.tsn \in {d.tsn : d \in AllChunks}
  OBVIOUS
<1>3. ChunkAt[c.tsn] = CHOOSE d \in AllChunks : d.tsn = c.tsn
  BY <1>2 DEF ChunkAt
<1>4. \A d \in AllChunks : d.tsn = c.tsn => d = c
  BY SameTsn
<1> QED
  BY <1>1, <1>2, <1>3, <1>4

\* Every known TSN is the number of a chunk.
LEMMA KnownTsn ==
  ASSUME TsnsSuffice, NEW t \in KnownTsns
  PROVE  /\ ChunkAt[t] \in AllChunks /\ ChunkAt[t].tsn = t
         /\ ChunkAt[t].size \in Int /\ ChunkAt[t].msg \in Numbers
<1>1. PICK c \in AllChunks : t = c.tsn
  BY DEF KnownTsns, ChunkAt
<1>2. ChunkAt[t] = c
  BY <1>1, ChunkAtIs
<1>3. c.size \in Int /\ c.msg \in Numbers
  <2>1. PICK k \in Numbers : \E i \in 1 .. Len(Sizes(k)) : c = Chunks[k][i]
    BY ChunkIs
  <2>2. PICK i \in 1 .. Len(Sizes(k)) : c = Chunks[k][i]
    BY <2>1
  <2>3. c.size = Sizes(k)[i] /\ Sizes(k) \in Seq(Nat)
    BY <2>2, ChunkFields, MessagesTyped DEF Sizes
  <2>4. i \in DOMAIN Messages[k].sizes
    BY MessagesTyped DEF Sizes
  <2>5. c.msg = k
    BY <2>2, <2>4 DEF Chunks
  <2> QED
    BY <2>3, <2>5
<1> QED
  BY <1>1, <1>2, <1>3

\* Every place is the place of a fragment.
LEMMA PlaceOnto ==
  ASSUME NEW k \in 0 .. Len(Messages), NEW n \in 1 .. Fragments[k]
  PROVE  \E j \in 1 .. k : \E i \in 1 .. Len(Sizes(j)) : n = Place(j, i)
<1> DEFINE S == {j \in 0 .. k : n <= Fragments[j]}
<1>1. Len(Messages) \in Nat /\ Numbers = 1 .. Len(Messages) /\ \A j \in 0 .. Len(Messages) : Fragments[j] \in Nat
  BY MessagesTyped, FragmentsTyped
<1>2. k \in S /\ S \subseteq Nat
  BY <1>1
<1>3. PICK j \in S : \A l \in S : j <= l
  <2> HIDE DEF S
  <2> QED
    BY <1>2, LeastNumber
<1>4. j # 0 /\ j \in 0 .. k /\ n <= Fragments[j]
  BY <1>1, FragmentsAre
<1>5. j \in Numbers /\ j - 1 \in 0 .. k /\ j - 1 \notin S
  BY <1>1, <1>3, <1>4
<1>6. ~(n <= Fragments[j - 1]) /\ Fragments[j - 1] \in Nat
  BY <1>1, <1>5
<1>7. Fragments[j] = Fragments[j - 1] + Len(Sizes(j)) /\ Len(Sizes(j)) \in Nat
  BY <1>5, FragmentsAre, MessagesTyped DEF Sizes
<1> DEFINE i == n - Fragments[j - 1]
<1>8. i \in 1 .. Len(Sizes(j)) /\ n = Place(j, i)
  BY <1>4, <1>6, <1>7 DEF Place, FragmentsBefore
<1>9. j \in 1 .. k
  BY <1>1, <1>4
<1> QED
  BY <1>8, <1>9

LEMMA PlaceKnown ==
  ASSUME TsnsSuffice, NEW k \in 0 .. Len(Messages), NEW n \in 1 .. Fragments[k]
  PROVE  /\ TsnAt(n) \in KnownTsns /\ n \in 1 .. Total /\ At(ChunkAt[TsnAt(n)]) = n
         /\ ChunkAt[TsnAt(n)].msg \in 1 .. k
<1>1. PICK j \in 1 .. k : \E i \in 1 .. Len(Sizes(j)) : n = Place(j, i)
  BY PlaceOnto
<1>2. PICK i \in 1 .. Len(Sizes(j)) : n = Place(j, i)
  BY <1>1
<1>3. j \in Numbers
  BY MessagesTyped
<1>4. Chunks[j][i] \in AllChunks /\ Chunks[j][i].tsn = TsnAt(n) /\ Chunks[j][i].msg = j
  <2>1. i \in DOMAIN Messages[j].sizes
    BY <1>3, MessagesTyped DEF Sizes
  <2> QED
    BY <1>2, <1>3, <2>1, ChunkFields DEF Chunks
<1>5. TsnAt(n) \in KnownTsns /\ ChunkAt[TsnAt(n)] = Chunks[j][i]
  BY <1>4, ChunkAtIs
<1>6. n \in 1 .. Total
  BY <1>2, <1>3, PlaceTyped
<1>7. At(Chunks[j][i]) \in 1 .. Total /\ TsnAt(n) = TsnAt(At(Chunks[j][i]))
  BY <1>4, AtIs
<1>8. At(Chunks[j][i]) = n
  <2> DEFINE a == At(Chunks[j][i])
  <2>1. n \in 0 .. Total + 1 /\ a \in 0 .. Total + 1 /\ Total \in Nat /\ TsnAt(n) = TsnAt(a)
    BY <1>6, <1>7, TotalTyped
  <2> HIDE DEF a
  <2>2. n = a
    BY <2>1, TsnInjective
  <2> QED
    BY <2>2 DEF a
<1> QED
  BY <1>4, <1>5, <1>6, <1>8

-----------------------------------------------------------------------------
(* More about sums.                                                           *)

LEMMA SumOfZeros ==
  ASSUME NEW S, IsFiniteSet(S), NEW g, \A x \in S : g[x] = 0
  PROVE  SumOver(S, g) = 0
<1> DEFINE T == {k \in Nat : \E s \in SUBSET S : Cardinality(s) = k /\ SumOver(s, g) # 0}
<1>0. \A s \in SUBSET S : Cardinality(s) \in Nat
  BY SubsetFinite
<1> SUFFICES ASSUME T # {} PROVE FALSE
  <2>1. S \in SUBSET S
    OBVIOUS
  <2> QED
    BY <1>0, <2>1
<1>1. PICK k \in T : \A j \in T : k <= j
  <2>1. T \in SUBSET Nat
    OBVIOUS
  <2> HIDE DEF T
  <2> QED
    BY <2>1, LeastNumber
<1>2. PICK s \in SUBSET S : Cardinality(s) = k /\ SumOver(s, g) # 0
  OBVIOUS
<1>3. s # {}
  BY <1>2, SumOfNothing
<1>4. PICK x \in s : TRUE
  BY <1>3
<1> DEFINE r == s \ {x}
<1>5. /\ r \in SUBSET S /\ IsFiniteSet(r) /\ Cardinality(r) = Cardinality(s) - 1 /\ s = r \cup {x}
      /\ x \notin r
  BY SubsetFinite
<1> HIDE DEF r
<1>6. SumOver(r, g) = 0
  <2>1. k \in Nat /\ Cardinality(r) \in Nat /\ ~(k <= Cardinality(r))
    BY <1>0, <1>2, <1>5
  <2>2. Cardinality(r) \notin T
    <3> HIDE DEF T
    <3> QED
      BY <1>1, <2>1
  <2> QED
    BY <1>5, <2>1, <2>2
<1>7. SumOver(r \cup {x}, g) = SumOver(r, g) + g[x]
  <2>1. \A y \in r \cup {x} : g[y] \in Int
    BY <1>5
  <2> QED
    BY <1>5, <2>1, SumOfMore
<1>8. g[x] = 0
  OBVIOUS
<1> QED
  BY <1>2, <1>5, <1>6, <1>7, <1>8

\* A sum over the chosen elements, told as a sum over all of them.
LEMMA SumOfChosen ==
  ASSUME NEW S, IsFiniteSet(S), NEW C \in SUBSET S, NEW g, NEW h,
         \A x \in C : h[x] = g[x] /\ g[x] \in Int, \A x \in S \ C : h[x] = 0
  PROVE  SumOver(C, g) = SumOver(S, h)
<1> DEFINE D == S \ C
<1>1. /\ IsFiniteSet(C) /\ IsFiniteSet(D) /\ C \cap D = {} /\ C \cup D = S
      /\ \A x \in C \cup D : h[x] \in Int
  <2>1. IsFiniteSet(C) /\ IsFiniteSet(D)
    BY FS_Subset
  <2> QED
    BY <2>1
<1>2. SumOver(C, h) = SumOver(C, g)
  <2>1. \A x \in C : h[x] = g[x]
    OBVIOUS
  <2> QED
    BY <1>1, <2>1, SumOfEqual
<1>3. SumOver(D, h) = 0
  <2>1. \A x \in D : h[x] = 0
    OBVIOUS
  <2> HIDE DEF D
  <2> QED
    BY <1>1, <2>1, SumOfZeros
<1> HIDE DEF D
<1>4. SumOver(C \cup D, h) = SumOver(C, h) + SumOver(D, h)
  BY <1>1, SumOfBoth
<1>5. SumOver(C, h) \in Int
  <2>1. \A x \in C : h[x] \in Int
    BY <1>1
  <2> QED
    BY <1>1, <2>1, SumTyped
<1> DEFINE a == SumOver(C, h)
<1>6. SumOver(S, h) = a + 0 /\ a \in Int /\ SumOver(C, g) = a
  BY <1>1, <1>2, <1>3, <1>4, <1>5
<1> HIDE DEF a
<1> QED
  BY <1>6

\* A sum does not depend on how the elements are named.
LEMMA SumOfImage ==
  ASSUME NEW S, IsFiniteSet(S), NEW h, \A x, y \in S : h[x] = h[y] => x = y,
         NEW k, NEW g, \A x \in S : g[h[x]] = k[x] /\ k[x] \in Int
  PROVE  SumOver({h[x] : x \in S}, g) = SumOver(S, k)
<1> DEFINE Im(s) == {h[x] : x \in s}
           Bad(s) == SumOver(Im(s), g) # SumOver(s, k)
           T == {n \in Nat : \E s \in SUBSET S : Cardinality(s) = n /\ Bad(s)}
<1>0. \A s \in SUBSET S : Cardinality(s) \in Nat
  BY SubsetFinite
<1> SUFFICES ASSUME T # {} PROVE FALSE
  <2>1. S \in SUBSET S
    OBVIOUS
  <2> QED
    BY <1>0, <2>1
<1>1. PICK n \in T : \A j \in T : n <= j
  <2>1. T \in SUBSET Nat
    OBVIOUS
  <2> HIDE DEF T
  <2> QED
    BY <2>1, LeastNumber
<1>2. PICK s \in SUBSET S : Cardinality(s) = n /\ Bad(s)
  OBVIOUS
<1>3. s # {}
  <2> SUFFICES ASSUME s = {} PROVE FALSE
    OBVIOUS
  <2>1. Im(s) = {}
    OBVIOUS
  <2>2. SumOver({}, g) = 0 /\ SumOver({}, k) = 0
    BY SumOfNothing
  <2> HIDE DEF Im, T
  <2> QED
    BY <1>2, <2>1, <2>2
<1>4. PICK x \in s : TRUE
  BY <1>3
<1> DEFINE r == s \ {x}
<1>5. /\ r \in SUBSET S /\ IsFiniteSet(r) /\ Cardinality(r) = Cardinality(s) - 1 /\ s = r \cup {x}
      /\ x \notin r
  BY SubsetFinite
<1> HIDE DEF r
<1>6. ~Bad(r)
  <2>1. n \in Nat /\ Cardinality(r) \in Nat /\ ~(n <= Cardinality(r))
    BY <1>0, <1>2, <1>5
  <2>2. Cardinality(r) \notin T
    <3> HIDE DEF T
    <3> QED
      BY <1>1, <2>1
  <2> HIDE DEF Bad
  <2> QED
    BY <1>5, <2>1, <2>2
<1>7. SumOver(r \cup {x}, k) = SumOver(r, k) + k[x]
  <2>1. \A y \in r \cup {x} : k[y] \in Int
    BY <1>5
  <2> QED
    BY <1>5, <2>1, SumOfMore
<1>8. SumOver(Im(r) \cup {h[x]}, g) = SumOver(Im(r), g) + g[h[x]]
  <2>1. \A y \in Im(r) \cup {h[x]} : g[y] \in Int
    BY <1>5
  <2>2. IsFiniteSet(Im(r))
    <3> DEFINE f == [y \in r |-> h[y]]
    <3>1. f \in Surjection(r, Im(r))
      BY DEF Surjection
    <3> HIDE DEF f, Im
    <3> QED
      BY <1>5, <3>1, FS_Surjection
  <2>3. h[x] \notin Im(r)
    BY <1>5
  <2> DEFINE Q == Im(r)
             d == h[x]
  <2>4. IsFiniteSet(Q) /\ d \notin Q /\ \A y \in Q \cup {d} : g[y] \in Int
    BY <2>1, <2>2, <2>3
  <2> HIDE DEF Q, d
  <2>5. SumOver(Q \cup {d}, g) = SumOver(Q, g) + g[d]
    BY <2>4, SumOfMore
  <2> QED
    BY <2>5 DEF Q, d
<1>9. Im(s) = Im(r) \cup {h[x]} /\ g[h[x]] = k[x]
  BY <1>5
<1>10. SumOver(Im(r), g) = SumOver(r, k)
  BY <1>6
<1> HIDE DEF Im, T
<1>11. SumOver(Im(s), g) = SumOver(s, k)
  <2>1. SumOver(s, k) = SumOver(r, k) + k[x]
    BY <1>5, <1>7
  <2>2. SumOver(Im(s), g) = SumOver(Im(r), g) + k[x]
    BY <1>8, <1>9
  <2> QED
    BY <1>10, <2>1, <2>2
<1> QED
  BY <1>2, <1>11

-----------------------------------------------------------------------------
(* Positions and loops.                                                       *)

LEMMA MinIs ==
  ASSUME NEW S \in SUBSET Nat, S # {}
  PROVE  Min(S) \in S /\ \A j \in S : Min(S) <= j
<1>1. \E k \in S : \A j \in S : k <= j
  BY LeastNumber
<1> QED
  BY <1>1 DEF Min

LEMMA MaxIs ==
  ASSUME NEW n \in Nat, NEW S \in SUBSET (1 .. n), S # {}
  PROVE  Max(S) \in S /\ Max(S) \in 1 .. n
<1> DEFINE R == {n - x : x \in S}
<1>1. R \in SUBSET Nat /\ R # {}
  <2>1. \A x \in S : n - x \in Nat
    OBVIOUS
  <2> QED
    BY <2>1
<1>2. PICK k \in R : \A j \in R : k <= j
  <2> HIDE DEF R
  <2> QED
    BY <1>1, LeastNumber
<1>3. PICK x \in S : k = n - x
  OBVIOUS
<1>4. ASSUME NEW y \in S PROVE x >= y
  <2>1. n - x <= n - y
    BY <1>2, <1>3
  <2>2. x \in Int /\ y \in Int
    OBVIOUS
  <2> QED
    BY <2>1, <2>2
<1>5. \E z \in S : \A y \in S : z >= y
  BY <1>4
<1> QED
  BY <1>5 DEF Max

\* Where the longest prefix ends that holds no failing position.
Cut(failing, n) == IF failing = {} THEN n ELSE Min(failing) - 1

LEMMA CutIs ==
  ASSUME NEW n \in Nat, NEW failing \in SUBSET (1 .. n)
  PROVE  Cut(failing, n) \in 0 .. n /\ \A i \in 1 .. Cut(failing, n) : i \notin failing
<1>1. CASE failing = {}
  BY <1>1 DEF Cut
<1>2. CASE failing # {}
  <2>1. failing \in SUBSET Nat
    OBVIOUS
  <2>2. Min(failing) \in failing /\ \A j \in failing : Min(failing) <= j
    BY <1>2, <2>1, MinIs
  <2>3. Min(failing) \in 1 .. n /\ Cut(failing, n) = Min(failing) - 1
    BY <1>2, <2>2 DEF Cut
  <2> QED
    BY <2>2, <2>3
<1> QED
  BY <1>1, <1>2

\* A loop over 1 .. n whose i-th turn takes q to G[i][q], in a set that it does not leave.
IsLoop(n, a, G, f) == f = [i \in 0 .. n |-> IF i = 0 THEN a ELSE G[i][f[i - 1]]]

LEMMA LoopExists ==
  ASSUME NEW n \in Nat, NEW a, NEW G
  PROVE  \E f : IsLoop(n, a, G, f)
<1> DEFINE T == {k \in Nat : ~\E f : IsLoop(k, a, G, f)}
<1> SUFFICES ASSUME T # {} PROVE FALSE
  OBVIOUS
<1>1. PICK k \in T : \A j \in T : k <= j
  <2>1. T \in SUBSET Nat
    OBVIOUS
  <2> HIDE DEF T
  <2> QED
    BY <2>1, LeastNumber
<1>2. k \in Nat /\ ~\E f : IsLoop(k, a, G, f)
  OBVIOUS
<1>3. CASE k = 0
  <2> DEFINE f == [i \in 0 .. 0 |-> a]
  <2>1. IsLoop(0, a, G, f)
    BY DEF IsLoop
  <2> QED
    BY <1>2, <1>3, <2>1
<1>4. CASE k # 0
  <2>1. k - 1 \in Nat /\ k - 1 < k
    BY <1>2, <1>4
  <2>2. k - 1 \notin T
    BY <1>1, <1>2, <2>1
  <2>3. PICK f : IsLoop(k - 1, a, G, f)
    BY <2>1, <2>2
  <2> DEFINE g == [i \in 0 .. k |-> IF i = k THEN G[k][f[k - 1]] ELSE f[i]]
  <2>4. ASSUME NEW i \in 0 .. k
        PROVE  g[i] = IF i = 0 THEN a ELSE G[i][g[i - 1]]
    <3>1. CASE i = k
      <4>1. g[i] = G[k][f[k - 1]] /\ g[i - 1] = f[k - 1]
        BY <3>1, <2>1, <1>2
      <4> QED
        BY <4>1, <3>1, <1>4
    <3>2. CASE i # k
      <4>1. i \in 0 .. (k - 1) /\ (i # 0 => i - 1 \in 0 .. k /\ i - 1 # k)
        BY <3>2, <1>2
      <4>2. f[i] = IF i = 0 THEN a ELSE G[i][f[i - 1]]
        BY <2>3, <4>1 DEF IsLoop
      <4>3. g[i] = f[i] /\ (i # 0 => g[i - 1] = f[i - 1])
        BY <4>1, <3>2
      <4> QED
        BY <4>2, <4>3
    <3> QED
      BY <3>1, <3>2
  <2>5. g = [i \in 0 .. k |-> g[i]]
    OBVIOUS
  <2> HIDE DEF g
  <2>6. IsLoop(k, a, G, g)
    BY <2>4, <2>5 DEF IsLoop
  <2> QED
    BY <1>2, <2>6
<1> QED
  BY <1>3, <1>4

LEMMA LoopStays ==
  ASSUME NEW n \in Nat, NEW f, NEW D, f[0] \in D,
         \A i \in 1 .. n : f[i - 1] \in D => f[i] \in D
  PROVE  f[n] \in D
<1> DEFINE T == {k \in 0 .. n : f[k] \notin D}
<1> SUFFICES ASSUME f[n] \notin D PROVE FALSE
  OBVIOUS
<1>1. T \in SUBSET Nat /\ n \in T
  OBVIOUS
<1>2. PICK k \in T : \A j \in T : k <= j
  <2> HIDE DEF T
  <2> QED
    BY <1>1, LeastNumber
<1>3. k \in 0 .. n /\ f[k] \notin D /\ k # 0
  OBVIOUS
<1>4. k \in 1 .. n /\ k - 1 \in 0 .. n /\ ~(k <= k - 1)
  BY <1>3
<1>5. f[k - 1] \in D
  BY <1>2, <1>4
<1> QED
  BY <1>3, <1>4, <1>5

\* The loop that the code's recursion describes stays in D.
LEMMA LoopEnds ==
  ASSUME NEW n \in Nat, NEW D, NEW a \in D, NEW G, \A i \in 1 .. n : \A q \in D : G[i][q] \in D
  PROVE  \E f : f \in [0 .. n -> D] /\ IsLoop(n, a, G, f)
<1>1. ASSUME NEW f, IsLoop(n, a, G, f), NEW m \in 0 .. n PROVE f[m] \in D
  <2>1. f[0] \in D /\ m \in Nat
    BY <1>1 DEF IsLoop
  <2>2. \A i \in 1 .. m : f[i - 1] \in D => f[i] \in D
    <3> SUFFICES ASSUME NEW i \in 1 .. m, f[i - 1] \in D PROVE f[i] \in D
      OBVIOUS
    <3>1. i \in 1 .. n /\ i \in 0 .. n /\ i # 0
      OBVIOUS
    <3>2. f[i] = G[i][f[i - 1]]
      BY <1>1, <3>1 DEF IsLoop
    <3> QED
      BY <3>1, <3>2
  <2> QED
    BY <2>1, <2>2, LoopStays
<1>2. PICK f : IsLoop(n, a, G, f)
  BY LoopExists
<1>3. f = [i \in 0 .. n |-> IF i = 0 THEN a ELSE G[i][f[i - 1]]]
  BY <1>2 DEF IsLoop
<1>4. f \in [0 .. n -> D]
  <2>1. \A m \in 0 .. n : f[m] \in D
    BY <1>1, <1>2
  <2>2. DOMAIN f = 0 .. n /\ f = [m \in 0 .. n |-> f[m]]
    BY <1>3
  <2> QED
    BY <2>1, <2>2
<1> QED
  BY <1>2, <1>4

-----------------------------------------------------------------------------
(* The bytes of a part of the queues, by the places of its chunks.            *)

Load(st) == [n \in 1 .. Total |-> IF ChunkAt[TsnAt(n)].stream = st
                                  THEN ChunkAt[TsnAt(n)].size ELSE 0]
BytesBetween(a, b, st) == SumOver(a + 1 .. b, Load(st))

LEMMA LoadTyped ==
  ASSUME TsnsSuffice, NEW st, NEW a \in Nat, NEW b \in 0 .. Total
  PROVE  /\ IsFiniteSet(a + 1 .. b) /\ \A n \in a + 1 .. b : Load(st)[n] \in Int
         /\ BytesBetween(a, b, st) \in Int
<1>1. Total \in Nat /\ Total = Fragments[Len(Messages)] /\ Len(Messages) \in 0 .. Len(Messages)
  BY TotalTyped, MessagesTyped DEF Total
<1>2. \A n \in a + 1 .. b : n \in 1 .. Total
  BY <1>1
<1>3. ASSUME NEW n \in 1 .. Total PROVE Load(st)[n] \in Int
  <2>1. TsnAt(n) \in KnownTsns
    BY <1>1, PlaceKnown
  <2>2. ChunkAt[TsnAt(n)].size \in Int
    BY <2>1, KnownTsn
  <2> QED
    BY <2>2 DEF Load
<1>4. IsFiniteSet(a + 1 .. b)
  BY <1>1, FS_Interval
<1>5. \A n \in a + 1 .. b : Load(st)[n] \in Int
  BY <1>2, <1>3
<1> QED
  BY <1>4, <1>5, SumTyped DEF BytesBetween

LEMMA LoadSplit ==
  ASSUME TsnsSuffice, NEW st, NEW a \in Nat, NEW b \in a .. Total, NEW c \in b .. Total
  PROVE  BytesBetween(a, c, st) = BytesBetween(a, b, st) + BytesBetween(b, c, st)
<1>1. Total \in Nat /\ b \in Nat /\ b \in 0 .. Total /\ c \in 0 .. Total
  BY TotalTyped
<1> DEFINE A == a + 1 .. b
           B == b + 1 .. c
<1>2. A \cup B = a + 1 .. c /\ A \cap B = {}
  BY <1>1
<1>3. IsFiniteSet(A) /\ IsFiniteSet(B) /\ \A n \in A \cup B : Load(st)[n] \in Int
  BY <1>1, <1>2, LoadTyped
<1> HIDE DEF A, B
<1>4. SumOver(A \cup B, Load(st)) = SumOver(A, Load(st)) + SumOver(B, Load(st))
  BY <1>2, <1>3, SumOfBoth
<1> QED
  BY <1>2, <1>4 DEF A, B, BytesBetween

LEMMA SumSizesAre ==
  ASSUME NEW q, NEW P
  PROVE  SumSizes(q, P) = SumOver(P, [i \in P |-> Size(q[i])])
<1> DEFINE g == [i \in P |-> Size(q[i])]
           IsIt(f) == f = [t \in SUBSET P |-> IF t = {} THEN 0
                                             ELSE Size(q[Picked(t)]) + f[t \ {Picked(t)}]]
<1>1. \A t \in SUBSET P : t # {} => Size(q[Picked(t)]) = g[Picked(t)]
  BY PickedIs
<1> HIDE DEF g
<1>2. \A f : IsIt(f) <=> IsSum(P, g, f)
  BY <1>1 DEF IsSum
<1>3. (CHOOSE f : IsIt(f)) = (CHOOSE f : IsSum(P, g, f))
  BY <1>2
<1>4. SumSizes(q, P) = (CHOOSE f : IsIt(f))[P]
  BY DEF SumSizes, MapThenSumSet, MapThenFoldSet, Picked
<1>5. SumOver(P, g) = (CHOOSE f : IsSum(P, g, f))[P]
  BY DEF SumOver, MapThenSumSet, MapThenFoldSet, IsSum, Picked
<1> QED
  BY <1>3, <1>4, <1>5 DEF g

\* The sums that Unbuffer takes from bufferedAmount.
LEMMA LoadIs ==
  ASSUME TsnsSuffice, NEW st, NEW b \in Nat, NEW n \in Nat, b + n <= Total,
         NEW q, DOMAIN q = 1 .. n, \A i \in 1 .. n : q[i].tsn = TsnAt(b + i)
  PROVE  SumSizes(q, {i \in DOMAIN q : ChunkAt[q[i].tsn].stream = st}) = BytesBetween(b, b + n, st)
<1> DEFINE S == 1 .. n
           C == {i \in S : ChunkAt[q[i].tsn].stream = st}
           g == [i \in C |-> Size(q[i])]
           h == [i \in S |-> b + i]
           k == [i \in S |-> Load(st)[b + i]]
<1>1. Total \in Nat /\ IsFiniteSet(S) /\ b + n \in 0 .. Total
  BY TotalTyped, FS_Interval
<1>2. \A i \in S : b + i \in b + 1 .. b + n /\ b + i \in 1 .. Total
  BY <1>1
<1>3. \A i \in S : k[i] \in Int
  BY <1>1, <1>2, LoadTyped
<1>4. \A i \in C : k[i] = g[i] /\ g[i] \in Int
  <2> SUFFICES ASSUME NEW i \in C PROVE k[i] = g[i]
    BY <1>3
  <2>1. Load(st)[b + i] = ChunkAt[TsnAt(b + i)].size
    BY <1>2 DEF Load
  <2> QED
    BY <2>1 DEF Size
<1>5. \A i \in S \ C : k[i] = 0
  <2> SUFFICES ASSUME NEW i \in S \ C PROVE k[i] = 0
    OBVIOUS
  <2>1. Load(st)[b + i] = 0
    BY <1>2 DEF Load
  <2> QED
    BY <2>1
<1>6. /\ {h[i] : i \in S} = b + 1 .. b + n /\ \A x, y \in S : h[x] = h[y] => x = y
      /\ \A x \in S : Load(st)[h[x]] = k[x] /\ k[x] \in Int
  <2>1. \A x \in S : h[x] = b + x
    OBVIOUS
  <2>2. \A j \in b + 1 .. b + n : j - b \in S /\ b + (j - b) = j
    OBVIOUS
  <2>3. {h[i] : i \in S} = b + 1 .. b + n
    <3>1. \A j \in b + 1 .. b + n : \E i \in S : j = h[i]
      BY <2>1, <2>2
    <3>2. \A i \in S : h[i] \in b + 1 .. b + n
      BY <1>2, <2>1
    <3> HIDE DEF h, S
    <3> QED
      BY <3>1, <3>2
  <2>4. \A x, y \in S : h[x] = h[y] => x = y
    OBVIOUS
  <2> QED
    BY <1>3, <2>3, <2>4
<1>7. C \in SUBSET S /\ SumSizes(q, C) = SumOver(C, g)
  BY SumSizesAre
<1> HIDE DEF C, S, g, h, k
<1>8. SumOver(C, g) = SumOver(S, k)
  BY <1>1, <1>4, <1>5, <1>7, SumOfChosen
<1>9. SumOver({h[x] : x \in S}, Load(st)) = SumOver(S, k)
  BY <1>1, <1>6, SumOfImage
<1> QED
  BY <1>6, <1>7, <1>8, <1>9 DEF BytesBetween, C, S

\* The bytes of some entries are a number.
LEMMA SumSizesTyped ==
  ASSUME TsnsSuffice, NEW n \in Nat, NEW P \in SUBSET (1 .. n), NEW q,
         \A i \in 1 .. n : q[i].tsn \in KnownTsns
  PROVE  SumSizes(q, P) \in Int
<1>0. IsFiniteSet(1 .. n)
  BY FS_Interval
<1>1. IsFiniteSet(P)
  BY <1>0, FS_Subset
<1>2. \A i \in P : Size(q[i]) \in Int
  BY KnownTsn DEF Size
<1> DEFINE g == [i \in P |-> Size(q[i])]
<1>3. \A i \in P : g[i] \in Int
  BY <1>2
<1> HIDE DEF g
<1>4. SumOver(P, g) \in Int
  BY <1>1, <1>3, SumTyped
<1> QED
  BY <1>4, SumSizesAre DEF g

-----------------------------------------------------------------------------
(* The sender's fields.  T are the TSNs that may be acknowledged, and the first m chunks  *)
(* are those that may have left the queues.                                               *)

AllReliable == \A k \in Numbers : Messages[k].maxRetransmits = -1 /\ ~Messages[k].expires
Marks == IF AllReliable THEN {FALSE} ELSE BOOLEAN
Entries(T) ==
  {e \in [tsn : KnownTsns, acked : BOOLEAN, misses : Int, retransmit : BOOLEAN,
          abandoned : Marks, sentCount : Int] : e.acked => e.tsn \in T}

SenderFields ==
  {"accepted", "outbound", "sent", "buffered", "flight", "cwnd", "ssthresh", "partialBytes",
   "recoveryExit", "recoveryTransmit", "lastSacked", "forward", "t3"}

\* How many chunks have left both queues.
Base(s) == Fragments[s.accepted] - Len(s.outbound) - Len(s.sent)

InPlace(s) ==
  /\ \A i \in 1 .. Len(s.sent) : s.sent[i].tsn = TsnAt(Base(s) + i)
  /\ \A i \in 1 .. Len(s.outbound) : s.outbound[i] = TsnAt(Base(s) + Len(s.sent) + i)

SenderInv(s, T, m) ==
  /\ DOMAIN s = SenderFields
  /\ s.accepted \in 0 .. Len(Messages)
  /\ s.outbound \in Seq(KnownTsns) /\ s.sent \in Seq(Entries(T))
  /\ Base(s) \in 0 .. m /\ m \in 0 .. Total
  /\ InPlace(s)
  /\ s.flight \in Int /\ s.cwnd \in Int
  /\ s.buffered \in [Streams -> Int]
  /\ \A st \in Streams : s.buffered[st] = BytesBetween(Base(s), Fragments[s.accepted], st)
  /\ AllReliable => s.forward = {}

LEMMA SenderFacts ==
  ASSUME NEW T, NEW m, NEW s, SenderInv(s, T, m)
  PROVE  /\ s.sent \in Seq(Entries(T)) /\ s.outbound \in Seq(KnownTsns)
         /\ Len(s.sent) \in Nat /\ Len(s.outbound) \in Nat /\ m \in 0 .. Total /\ Base(s) \in Nat
         /\ Base(s) <= m
         /\ Total \in Nat /\ Fragments[s.accepted] \in 0 .. Total
         /\ Fragments[s.accepted] = Base(s) + Len(s.sent) + Len(s.outbound)
         /\ DOMAIN s.sent = 1 .. Len(s.sent)
         /\ \A i \in 1 .. Len(s.sent) : s.sent[i] \in Entries(T) /\ s.sent[i].tsn \in KnownTsns
<1>1. Total \in Nat /\ Len(Messages) \in Nat /\ s.accepted \in 0 .. Len(Messages)
  BY TotalTyped, MessagesTyped DEF SenderInv
<1>2. Fragments[s.accepted] \in Nat /\ Fragments[s.accepted] <= Total
  BY <1>1, FragmentsTyped, FragmentsGrow DEF Total
<1>3. s.sent \in Seq(Entries(T)) /\ s.outbound \in Seq(KnownTsns)
  BY DEF SenderInv
<1>4. Len(s.sent) \in Nat /\ Len(s.outbound) \in Nat /\ DOMAIN s.sent = 1 .. Len(s.sent)
      /\ \A i \in 1 .. Len(s.sent) : s.sent[i] \in Entries(T)
  BY <1>3
<1>5. \A e \in Entries(T) : e.tsn \in KnownTsns
  BY DEF Entries
<1>6. m \in 0 .. Total /\ Base(s) \in Nat /\ Base(s) <= m
  BY <1>1 DEF SenderInv
<1>7. Fragments[s.accepted] = Base(s) + Len(s.sent) + Len(s.outbound)
  BY <1>2, <1>4 DEF Base
<1> QED
  BY <1>1, <1>2, <1>3, <1>4, <1>5, <1>6, <1>7

\* The same queue with other marks.
Versions(q, T) ==
  {r \in Seq(Entries(T)) : Len(r) = Len(q) /\ \A i \in 1 .. Len(q) : r[i].tsn = q[i].tsn}

LEMMA VersionOne ==
  ASSUME NEW T, NEW q \in Seq(Entries(T)), NEW r \in Versions(q, T), NEW i \in 1 .. Len(q),
         NEW e \in Entries(T), e.tsn = r[i].tsn
  PROVE  [r EXCEPT ![i] = e] \in Versions(q, T)
<1>1. r \in Seq(Entries(T)) /\ Len(r) = Len(q) /\ \A j \in 1 .. Len(q) : r[j].tsn = q[j].tsn
  BY DEF Versions
<1> DEFINE x == [r EXCEPT ![i] = e]
<1>2. x \in Seq(Entries(T)) /\ Len(x) = Len(q)
  BY <1>1
<1>3. \A j \in 1 .. Len(q) : x[j] = IF j = i THEN e ELSE r[j]
  BY <1>1
<1> HIDE DEF x
<1>4. \A j \in 1 .. Len(q) : x[j].tsn = q[j].tsn
  BY <1>1, <1>3
<1> QED
  BY <1>2, <1>4 DEF Versions, x

LEMMA VersionSelf ==
  ASSUME NEW T, NEW q \in Seq(Entries(T))
  PROVE  q \in Versions(q, T)
BY DEF Versions

\* A version of a version.
LEMMA VersionOf ==
  ASSUME NEW T, NEW q \in Seq(Entries(T)), NEW r \in Versions(q, T), NEW x \in Versions(r, T)
  PROVE  x \in Versions(q, T)
BY DEF Versions

\* What the sender keeps does not depend on the marks, the window and the timer.
LEMMA SenderKept ==
  ASSUME NEW T, NEW m, NEW s, SenderInv(s, T, m), NEW r, DOMAIN r = SenderFields,
         r.accepted = s.accepted, r.outbound = s.outbound, r.buffered = s.buffered,
         r.sent \in Versions(s.sent, T), r.flight \in Int, r.cwnd \in Int,
         AllReliable => r.forward = {}
  PROVE  SenderInv(r, T, m) /\ Base(r) = Base(s) /\ Len(r.sent) = Len(s.sent)
<1>1. r.sent \in Seq(Entries(T)) /\ Len(r.sent) = Len(s.sent)
      /\ \A i \in 1 .. Len(s.sent) : r.sent[i].tsn = s.sent[i].tsn
  BY DEF Versions
<1>2. Base(r) = Base(s)
  BY <1>1 DEF Base
<1>3. InPlace(r)
  BY <1>1, <1>2 DEF InPlace, SenderInv
<1> QED
  BY <1>1, <1>2, <1>3 DEF SenderInv

\* More may be acknowledged and gone.
LEMMA SenderGrows ==
  ASSUME NEW T, NEW m, NEW s, SenderInv(s, T, m), NEW U, T \subseteq U, NEW n \in 0 .. Total, m <= n
  PROVE  SenderInv(s, U, n)
<1>1. Entries(T) \subseteq Entries(U)
  BY DEF Entries
<1>2. s.sent \in Seq(Entries(U))
  <2>1. s.sent \in Seq(Entries(T))
    BY DEF SenderInv
  <2> QED
    BY <1>1, <2>1
<1>3. Base(s) \in 0 .. n
  BY TotalTyped DEF SenderInv
<1> QED
  BY <1>2, <1>3 DEF SenderInv

\* The front of the sent queue leaves it, and bufferedAmount with it.
LEMMA SenderDrops ==
  ASSUME TsnsSuffice, NEW T, NEW m, NEW s, SenderInv(s, T, m), NEW n \in 0 .. Len(s.sent), Base(s) + n <= m,
         NEW r, DOMAIN r = SenderFields, r.accepted = s.accepted, r.outbound = s.outbound,
         r.sent = SubSeq(s.sent, n + 1, Len(s.sent)),
         r.buffered = Unbuffer(s, SubSeq(s.sent, 1, n)).buffered,
         r.flight \in Int, r.cwnd \in Int, AllReliable => r.forward = {}
  PROVE  SenderInv(r, T, m) /\ Base(r) = Base(s) + n
<1> DEFINE q == SubSeq(s.sent, 1, n)
           b == Base(s)
           f == Fragments[s.accepted]
<1>1. /\ s.sent \in Seq(Entries(T)) /\ Len(s.sent) \in Nat /\ Len(s.outbound) \in Nat /\ n \in Nat
      /\ b \in Nat /\ Total \in Nat /\ f \in 0 .. Total /\ m \in 0 .. Total
      /\ f = b + Len(s.sent) + Len(s.outbound)
  BY SenderFacts
<1>2. /\ r.sent \in Seq(Entries(T)) /\ Len(r.sent) = Len(s.sent) - n
      /\ \A i \in 1 .. Len(s.sent) - n : r.sent[i] = s.sent[n + i]
  <2> DEFINE w == s.sent
  <2>1. w \in Seq(Entries(T)) /\ n \in 0 .. Len(w) /\ Len(w) \in Nat
    BY <1>1
  <2> HIDE DEF w
  <2>2. SubSeq(w, n + 1, Len(w)) \in Seq(Entries(T))
    BY <2>1
  <2>3. Len(SubSeq(w, n + 1, Len(w))) = Len(w) - n
    BY <2>1
  <2>4. \A i \in 1 .. Len(w) - n : SubSeq(w, n + 1, Len(w))[i] = w[n + i]
    BY <2>1
  <2>5. r.sent = SubSeq(w, n + 1, Len(w))
    BY DEF w
  <2> QED
    BY <2>2, <2>3, <2>4, <2>5 DEF w
<1>3. Base(r) = b + n
  BY <1>1, <1>2 DEF Base
<1>4. InPlace(r)
  <2>1. ASSUME NEW i \in 1 .. Len(r.sent) PROVE r.sent[i].tsn = TsnAt(Base(r) + i)
    <3>1. r.sent[i] = s.sent[n + i] /\ n + i \in 1 .. Len(s.sent) /\ b + (n + i) = Base(r) + i
      BY <1>1, <1>2, <1>3
    <3>2. s.sent[n + i].tsn = TsnAt(b + (n + i))
      BY <3>1 DEF SenderInv, InPlace
    <3> QED
      BY <3>1, <3>2
  <2>2. Base(r) + Len(r.sent) = Base(s) + Len(s.sent)
    BY <1>1, <1>2, <1>3
  <2>3. \A i \in 1 .. Len(s.outbound) : s.outbound[i] = TsnAt(Base(s) + Len(s.sent) + i)
    BY DEF SenderInv, InPlace
  <2> QED
    BY <2>1, <2>2, <2>3 DEF InPlace
<1>5. r.buffered = [st \in Streams |-> s.buffered[st] - SumSizes(q, {i \in DOMAIN q : ChunkAt[q[i].tsn].stream = st})]
  BY DEF Unbuffer, SenderInv, SenderFields
<1>6. DOMAIN q = 1 .. n /\ \A i \in 1 .. n : q[i].tsn = TsnAt(b + i)
  <2>1. DOMAIN q = 1 .. n /\ \A i \in 1 .. n : q[i] = s.sent[i] /\ i \in 1 .. Len(s.sent)
    BY <1>1
  <2> QED
    BY <2>1 DEF SenderInv, InPlace
<1> HIDE DEF q, b, f
<1>7. ASSUME NEW st \in Streams
      PROVE  r.buffered[st] \in Int /\ r.buffered[st] = BytesBetween(b + n, f, st)
  <2>1. b + n <= Total /\ b + n \in 0 .. Total /\ b + n \in b .. Total /\ f \in b + n .. Total /\ b + n \in Nat
    BY <1>1 DEF b
  <2>2. SumSizes(q, {i \in DOMAIN q : ChunkAt[q[i].tsn].stream = st}) = BytesBetween(b, b + n, st)
    BY <1>1, <1>6, <2>1, LoadIs
  <2>3. BytesBetween(b, f, st) = BytesBetween(b, b + n, st) + BytesBetween(b + n, f, st)
    BY <1>1, <2>1, LoadSplit
  <2>4. s.buffered[st] = BytesBetween(b, f, st)
    BY DEF SenderInv, b, f
  <2>5. BytesBetween(b, b + n, st) \in Int /\ BytesBetween(b + n, f, st) \in Int
    BY <1>1, <2>1, LoadTyped
  <2>6. r.buffered[st] = s.buffered[st] - SumSizes(q, {i \in DOMAIN q : ChunkAt[q[i].tsn].stream = st})
    BY <1>5
  <2> DEFINE x == BytesBetween(b, b + n, st)
             y == BytesBetween(b + n, f, st)
  <2>7. r.buffered[st] = (x + y) - x /\ x \in Int /\ y \in Int
    BY <2>2, <2>3, <2>4, <2>5, <2>6
  <2> HIDE DEF x, y
  <2>8. r.buffered[st] = y /\ y \in Int
    BY <2>7
  <2> QED
    BY <2>8 DEF y
<1>8. r.buffered \in [Streams -> Int]
  BY <1>5, <1>7
<1>9. Base(r) \in 0 .. m
  BY <1>1, <1>3 DEF b
<1> QED
  BY <1>2, <1>3, <1>4, <1>7, <1>8, <1>9 DEF SenderInv, b, f

-----------------------------------------------------------------------------
(* What a SACK does to the sender.                                            *)

\* A SACK that acknowledges no more than what T and m allow.
SackFits(p, T, m) ==
  /\ \A t \in KnownTsns : t \in Seen(p) => t \in T
  /\ m = Total \/ \E k \in 0 .. m : p.cum = TsnAt(k)

LEMMA CoveredIs ==
  ASSUME TsnsSuffice, NEW T, NEW m, NEW s, SenderInv(s, T, m), NEW p, SackFits(p, T, m)
  PROVE  Covered(s, p) \in 0 .. Len(s.sent) /\ Base(s) + Covered(s, p) <= m
<1> DEFINE failing == {i \in DOMAIN s.sent : ~Uint32Gte(p.cum, s.sent[i].tsn)}
           n == Covered(s, p)
<1>1. /\ Len(s.sent) \in Nat /\ DOMAIN s.sent = 1 .. Len(s.sent) /\ Base(s) \in Nat /\ Total \in Nat
      /\ m \in 0 .. Total /\ Fragments[s.accepted] = Base(s) + Len(s.sent) + Len(s.outbound)
      /\ Fragments[s.accepted] \in 0 .. Total /\ Len(s.outbound) \in Nat /\ Base(s) <= m
  BY SenderFacts
<1>2. n = Cut(failing, Len(s.sent))
  BY DEF Covered, PrefixLength, Cut
<1>3. failing \in SUBSET (1 .. Len(s.sent))
  BY <1>1
<1> HIDE DEF failing
<1>4. n \in 0 .. Len(s.sent) /\ \A i \in 1 .. n : i \notin failing
  BY <1>1, <1>2, <1>3, CutIs
<1> HIDE DEF n
<1>5. CASE m = Total
  BY <1>1, <1>4, <1>5 DEF n
<1>6. CASE n = 0
  BY <1>1, <1>4, <1>6 DEF n
<1>7. CASE n # 0 /\ m # Total
  <2>1. n \in 1 .. n /\ n \in DOMAIN s.sent
    BY <1>1, <1>4, <1>7
  <2>2. Uint32Gte(p.cum, s.sent[n].tsn)
    BY <1>4, <2>1 DEF failing
  <2>3. s.sent[n].tsn = TsnAt(Base(s) + n)
    BY <1>1, <2>1 DEF SenderInv, InPlace
  <2>4. PICK k \in 0 .. m : p.cum = TsnAt(k)
    BY <1>7 DEF SackFits
  <2> DEFINE a == Base(s) + n
  <2>5. k \in 0 .. Total /\ a \in 0 .. Total
    BY <1>1, <1>4
  <2>6. Uint32Gte(TsnAt(k), TsnAt(a))
    BY <2>2, <2>3, <2>4
  <2> HIDE DEF a
  <2>7. k >= a
    BY <1>1, <2>5, <2>6, TsnCompare
  <2> QED
    BY <1>1, <1>4, <2>5, <2>7 DEF a, n
<1> QED
  BY <1>5, <1>6, <1>7

LEMMA LandTyped ==
  ASSUME NEW s, DOMAIN s = SenderFields, s.flight \in Int, NEW bytes \in Int
  PROVE  /\ DOMAIN Land(s, bytes) = SenderFields /\ Land(s, bytes).flight \in Int
         /\ Land(s, bytes) = [s EXCEPT !.flight = Land(s, bytes).flight]
<1>1. Greatest(0, s.flight - bytes) \in Int
  BY DEF Greatest
<1> QED
  BY <1>1 DEF Land, SenderFields

LEMMA AckCumulativeKeeps ==
  ASSUME TsnsSuffice, NEW T, NEW m, NEW s, SenderInv(s, T, m), NEW p, SackFits(p, T, m)
  PROVE  SenderInv(AckCumulative(s, p), T, m) /\ AckCumulative(s, p).accepted = s.accepted
<1> DEFINE n == Covered(s, p)
           sizes == SumSizes(s.sent, NewlyCovered(s, p))
           landed == Land(s, sizes)
           q == SubSeq(s.sent, 1, n)
           un == Unbuffer(landed, q)
           r == AckCumulative(s, p)
<1>1. n \in 0 .. Len(s.sent) /\ Base(s) + n <= m
  BY CoveredIs
<1>2. sizes \in Int
  <2>1. Len(s.sent) \in Nat /\ \A i \in 1 .. Len(s.sent) : s.sent[i].tsn \in KnownTsns
    BY SenderFacts
  <2>2. NewlyCovered(s, p) \in SUBSET (1 .. Len(s.sent))
    BY <1>1, <2>1 DEF NewlyCovered
  <2> QED
    BY <2>1, <2>2, SumSizesTyped
<1> HIDE DEF sizes
<1>3. /\ DOMAIN landed = SenderFields /\ landed.flight \in Int
      /\ landed = [s EXCEPT !.flight = landed.flight]
  BY <1>2, LandTyped DEF SenderInv
<1> HIDE DEF landed
<1>4. DOMAIN s = SenderFields
  BY DEF SenderInv
<1>5. un.buffered = Unbuffer(s, q).buffered /\ un = [landed EXCEPT !.buffered = un.buffered]
  BY <1>3, <1>4 DEF Unbuffer, SenderFields
<1>6. r = [un EXCEPT !.lastSacked = p.cum, !.sent = SubSeq(@, n + 1, Len(@))]
  BY DEF AckCumulative, landed, sizes
<1> HIDE DEF r, un, q, n
<1>7. /\ DOMAIN r = SenderFields /\ r.accepted = s.accepted /\ r.outbound = s.outbound
      /\ r.sent = SubSeq(s.sent, n + 1, Len(s.sent)) /\ r.buffered = un.buffered
      /\ r.flight = landed.flight /\ r.cwnd = s.cwnd /\ r.forward = s.forward
  BY <1>3, <1>4, <1>5, <1>6 DEF SenderFields
<1>8. r.buffered = Unbuffer(s, SubSeq(s.sent, 1, n)).buffered
  BY <1>5, <1>7 DEF q
<1>9. r.flight \in Int /\ r.cwnd \in Int /\ (AllReliable => r.forward = {})
  BY <1>3, <1>7 DEF SenderInv
<1>10. SenderInv(r, T, m)
  BY <1>1, <1>7, <1>8, <1>9, SenderDrops
<1> QED
  BY <1>7, <1>10 DEF r

LEMMA NewlySeenTyped ==
  ASSUME NEW T, NEW m, NEW s, SenderInv(s, T, m), NEW p
  PROVE  /\ NewlySeen(s, p) \in SUBSET (1 .. Len(s.sent))
         /\ \A i \in NewlySeen(s, p) : s.sent[i].tsn \in Seen(p)
<1> DEFINE failing == {i \in DOMAIN s.sent :
                         Uint32Gt(s.sent[i].tsn, (p.cum + p.end) % TsnModulo)}
           n == PrefixLength(s.sent, LAMBDA e : ~Uint32Gt(e.tsn, (p.cum + p.end) % TsnModulo))
<1>1. Len(s.sent) \in Nat /\ DOMAIN s.sent = 1 .. Len(s.sent)
  BY SenderFacts
<1>2. n = Cut(failing, Len(s.sent))
  <2>1. {i \in DOMAIN s.sent : ~~Uint32Gt(s.sent[i].tsn, (p.cum + p.end) % TsnModulo)} = failing
    OBVIOUS
  <2> HIDE DEF failing
  <2> QED
    BY <2>1 DEF PrefixLength, Cut
<1>3. failing \in SUBSET (1 .. Len(s.sent))
  BY <1>1
<1> HIDE DEF failing
<1>4. n \in 0 .. Len(s.sent)
  BY <1>1, <1>2, <1>3, CutIs
<1>5. NewlySeen(s, p) = {i \in 1 .. n : s.sent[i].tsn \in Seen(p) /\ ~s.sent[i].acked}
  BY DEF NewlySeen
<1> HIDE DEF n
<1> QED
  BY <1>1, <1>4, <1>5

\* One entry gets other marks.
LEMMA EntryTyped ==
  ASSUME NEW T, NEW e \in Entries(T)
  PROVE  /\ e.tsn \in T => [e EXCEPT !.acked = TRUE] \in Entries(T)
         /\ [e EXCEPT !.acked = FALSE] \in Entries(T)
         /\ [e EXCEPT !.misses = e.misses + 1] \in Entries(T)
         /\ [e EXCEPT !.misses = 0] \in Entries(T)
         /\ [e EXCEPT !.retransmit = TRUE] \in Entries(T)
         /\ ~AllReliable => [e EXCEPT !.abandoned = TRUE, !.retransmit = FALSE] \in Entries(T)
<1>1. /\ e \in [tsn : KnownTsns, acked : BOOLEAN, misses : Int, retransmit : BOOLEAN,
                 abandoned : Marks, sentCount : Int]
      /\ e.acked => e.tsn \in T
  BY DEF Entries
<1>2. e.tsn \in T => [e EXCEPT !.acked = TRUE] \in Entries(T)
  BY <1>1 DEF Entries
<1>3. [e EXCEPT !.acked = FALSE] \in Entries(T)
  BY <1>1 DEF Entries
<1>4. [e EXCEPT !.misses = e.misses + 1] \in Entries(T)
  BY <1>1 DEF Entries
<1>5. [e EXCEPT !.misses = 0] \in Entries(T)
  BY <1>1 DEF Entries
<1>6. [e EXCEPT !.retransmit = TRUE] \in Entries(T)
  BY <1>1 DEF Entries
<1>7. ~AllReliable => [e EXCEPT !.abandoned = TRUE, !.retransmit = FALSE] \in Entries(T)
  <2>1. ~AllReliable => TRUE \in Marks
    BY DEF Marks
  <2> QED
    BY <1>1, <2>1 DEF Entries
<1> QED
  BY <1>2, <1>3, <1>4, <1>5, <1>6, <1>7

LEMMA AckGapsKeeps ==
  ASSUME TsnsSuffice, NEW T, NEW m, NEW s, SenderInv(s, T, m), NEW p, SackFits(p, T, m)
  PROVE  /\ SenderInv(AckGaps(s, p), T, m) /\ Len(AckGaps(s, p).sent) = Len(s.sent)
         /\ AckGaps(s, p).accepted = s.accepted
<1> DEFINE newly == NewlySeen(s, p)
           n == Len(s.sent)
           D == Versions(s.sent, T)
           P(f) == f = [i \in 0 .. n |-> IF i = 0 THEN s.sent
                                          ELSE IF i \notin newly THEN f[i - 1]
                                          ELSE [f[i - 1] EXCEPT ![i].acked = TRUE]]
           marked == CHOOSE f : P(f)
           landed == Land(s, SumSizes(s.sent, newly))
           r == AckGaps(s, p)
<1>1. s.sent \in Seq(Entries(T)) /\ n \in Nat /\ DOMAIN s.sent = 1 .. n
      /\ \A i \in 1 .. n : s.sent[i].tsn \in KnownTsns
  BY SenderFacts
<1>2. newly \in SUBSET (1 .. n) /\ \A i \in newly : s.sent[i].tsn \in T
  BY <1>1, NewlySeenTyped DEF SackFits
<1>3. SumSizes(s.sent, newly) \in Int
  BY <1>1, <1>2, SumSizesTyped
<1>4. DOMAIN s = SenderFields /\ s.flight \in Int /\ s.cwnd \in Int /\ (AllReliable => s.forward = {})
  BY DEF SenderInv
<1>5. /\ DOMAIN landed = SenderFields /\ landed.flight \in Int
      /\ landed = [s EXCEPT !.flight = landed.flight]
  BY <1>3, <1>4, LandTyped
<1>6. r = [landed EXCEPT !.sent = marked[n]]
  BY DEF AckGaps
<1> HIDE DEF newly, landed, r
<1>7. ASSUME NEW q \in D, NEW i \in 1 .. n, i \in newly PROVE [q EXCEPT ![i].acked = TRUE] \in D
  <2>1. q \in Seq(Entries(T)) /\ Len(q) = n /\ \A j \in 1 .. n : q[j].tsn = s.sent[j].tsn
    BY DEF Versions
  <2>2. q[i] \in Entries(T) /\ q[i].tsn \in T
    BY <1>2, <1>7, <2>1
  <2>3. [q[i] EXCEPT !.acked = TRUE] \in Entries(T) /\ [q[i] EXCEPT !.acked = TRUE].tsn = q[i].tsn
    BY <2>2, EntryTyped DEF Entries
  <2>4. [q EXCEPT ![i] = [q[i] EXCEPT !.acked = TRUE]] \in D
    BY <1>1, <2>3, VersionOne
  <2>5. [q EXCEPT ![i].acked = TRUE] = [q EXCEPT ![i] = [q[i] EXCEPT !.acked = TRUE]]
    OBVIOUS
  <2> QED
    BY <2>4, <2>5
<1>8. s.sent \in D
  BY <1>1, VersionSelf
<1> HIDE DEF D, n
<1>9. P(marked)
  <2> DEFINE G == [i \in 1 .. n |-> [q \in D |-> IF i \notin newly THEN q ELSE [q EXCEPT ![i].acked = TRUE]]]
  <2>1. \A i \in 1 .. n : \A q \in D : G[i][q] \in D
    BY <1>7
  <2> HIDE DEF G
  <2>2. PICK f : f \in [0 .. n -> D] /\ IsLoop(n, s.sent, G, f)
    BY <1>1, <1>8, <2>1, LoopEnds
  <2>3. \A i \in 0 .. n : i # 0 => i - 1 \in 0 .. n /\ i \in 1 .. n
    BY <1>1
  <2>4. \A i \in 0 .. n : i # 0 => G[i][f[i - 1]] = IF i \notin newly THEN f[i - 1]
                                                      ELSE [f[i - 1] EXCEPT ![i].acked = TRUE]
    BY <2>2, <2>3 DEF G
  <2>5. P(f)
    BY <2>2, <2>4 DEF IsLoop
  <2> QED
    BY <2>5
<1>10. marked[n] \in D
  <2> HIDE DEF marked
  <2>1. marked[0] = s.sent
    BY <1>1, <1>9
  <2>2. ASSUME NEW i \in 1 .. n, marked[i - 1] \in D PROVE marked[i] \in D
    <3>1. marked[i] = IF i \notin newly THEN marked[i - 1] ELSE [marked[i - 1] EXCEPT ![i].acked = TRUE]
      <4>1. i \in 0 .. n /\ i # 0
        BY <1>1
      <4> QED
        BY <1>9, <4>1
    <3> QED
      BY <1>7, <2>2, <3>1
  <2>3. marked[0] \in D
    BY <1>8, <2>1
  <2> QED
    BY <1>1, <2>2, <2>3, LoopStays
<1> HIDE DEF marked
<1>11. /\ DOMAIN r = SenderFields /\ r.accepted = s.accepted /\ r.outbound = s.outbound
       /\ r.sent = marked[n] /\ r.buffered = s.buffered
       /\ r.flight = landed.flight /\ r.cwnd = s.cwnd /\ r.forward = s.forward
  BY <1>4, <1>5, <1>6 DEF SenderFields
<1>12. r.sent \in Versions(s.sent, T)
  BY <1>10, <1>11 DEF D
<1>13. SenderInv(r, T, m) /\ Len(r.sent) = Len(s.sent)
  BY <1>4, <1>5, <1>11, <1>12, SenderKept
<1> QED
  BY <1>11, <1>13 DEF r

-----------------------------------------------------------------------------
(* Losses.                                                                    *)

LEMMA MarkTwice ==
  ASSUME NEW T, NEW q \in Seq(Entries(T)), NEW i \in 1 .. Len(q)
  PROVE  [q EXCEPT ![i].abandoned = TRUE, ![i].retransmit = FALSE]
           = [q EXCEPT ![i] = [q[i] EXCEPT !.abandoned = TRUE, !.retransmit = FALSE]]
<1> DEFINE x == [q EXCEPT ![i].abandoned = TRUE, ![i].retransmit = FALSE]
           y == [q EXCEPT ![i] = [q[i] EXCEPT !.abandoned = TRUE, !.retransmit = FALSE]]
<1>1. DOMAIN x = DOMAIN q /\ DOMAIN y = DOMAIN q /\ i \in DOMAIN q
  OBVIOUS
<1>2. \A j \in DOMAIN q : x[j] = y[j]
  BY <1>1
<1>3. x = [j \in DOMAIN q |-> x[j]] /\ y = [j \in DOMAIN q |-> y[j]]
  BY <1>1
<1> HIDE DEF x, y
<1>4. x = y
  BY <1>2, <1>3
<1> QED
  BY <1>4 DEF x, y

LEMMA AbandonAroundIs ==
  ASSUME ~AllReliable, NEW T, NEW sent \in Seq(Entries(T)), NEW i
  PROVE  AbandonAround(sent, i) \in Versions(sent, T)
<1> DEFINE n == Len(sent)
           D == Versions(sent, T)
           firsts == {j \in 1 .. i : ChunkAt[sent[j].tsn].begin}
           lasts == {j \in i .. n : ChunkAt[sent[j].tsn].end}
           from == IF firsts = {} THEN 1 ELSE Max(firsts)
           to == IF lasts = {} THEN n ELSE Min(lasts)
           W == from .. to
           P(f) == f = [j \in 0 .. n |-> IF j = 0 THEN sent
                                          ELSE IF j \notin W THEN f[j - 1]
                                          ELSE [f[j - 1] EXCEPT ![j].abandoned = TRUE, ![j].retransmit = FALSE]]
           marked == CHOOSE f : P(f)
<1>1. n \in Nat /\ AbandonAround(sent, i) = marked[n]
  BY DEF AbandonAround
<1> HIDE DEF W
<1>2. ASSUME NEW q \in D, NEW j \in 1 .. n
      PROVE  [q EXCEPT ![j].abandoned = TRUE, ![j].retransmit = FALSE] \in D
  <2>1. q \in Seq(Entries(T)) /\ Len(q) = n /\ \A l \in 1 .. n : q[l].tsn = sent[l].tsn
    BY DEF Versions
  <2> DEFINE e == [q[j] EXCEPT !.abandoned = TRUE, !.retransmit = FALSE]
  <2>2. q[j] \in Entries(T)
    BY <2>1
  <2>3. e \in Entries(T)
    BY <2>2, EntryTyped
  <2>4. e.tsn = q[j].tsn
    BY <2>2 DEF Entries
  <2> HIDE DEF e
  <2>5. [q EXCEPT ![j] = e] \in D
    BY <2>3, <2>4, VersionOne
  <2>6. [q EXCEPT ![j].abandoned = TRUE, ![j].retransmit = FALSE] = [q EXCEPT ![j] = e]
    BY <2>1, MarkTwice DEF e
  <2> QED
    BY <2>5, <2>6
<1>3. sent \in D
  BY VersionSelf, SMTT(30)
<1> HIDE DEF D, n
<1>4. P(marked)
  <2> DEFINE G == [j \in 1 .. n |-> [q \in D |->
                    IF j \notin W THEN q
                    ELSE [q EXCEPT ![j].abandoned = TRUE, ![j].retransmit = FALSE]]]
  <2>1. \A j \in 1 .. n : \A q \in D : G[j][q] \in D
    BY <1>2
  <2> HIDE DEF G
  <2>2. PICK f : f \in [0 .. n -> D] /\ IsLoop(n, sent, G, f)
    BY <1>1, <1>3, <2>1, LoopEnds
  <2>3. \A j \in 0 .. n : j # 0 => j - 1 \in 0 .. n /\ j \in 1 .. n
    BY <1>1
  <2>4. \A j \in 0 .. n : j # 0 => G[j][f[j - 1]] = IF j \notin W THEN f[j - 1]
          ELSE [f[j - 1] EXCEPT ![j].abandoned = TRUE, ![j].retransmit = FALSE]
    BY <2>2, <2>3 DEF G
  <2>5. P(f)
    BY <2>2, <2>4 DEF IsLoop
  <2> QED
    BY <2>5
<1>5. marked[n] \in D
  <2> HIDE DEF marked
  <2>1. marked[0] = sent
    BY <1>1, <1>4
  <2>2. ASSUME NEW j \in 1 .. n, marked[j - 1] \in D PROVE marked[j] \in D
    <3>1. marked[j] = IF j \notin W THEN marked[j - 1]
                       ELSE [marked[j - 1] EXCEPT ![j].abandoned = TRUE, ![j].retransmit = FALSE]
      <4>1. j \in 0 .. n /\ j # 0
        BY <1>1
      <4> QED
        BY <1>4, <4>1
    <3> QED
      BY <1>2, <2>2, <3>1
  <2>3. marked[0] \in D
    BY <1>3, <2>1
  <2> QED
    BY <1>1, <2>2, <2>3, LoopStays
<1> QED
  BY <1>1, <1>5 DEF D

\* Nothing is abandoned when all messages are reliable.
LEMMA NeverAbandoned ==
  ASSUME TsnsSuffice, AllReliable, NEW T, NEW e \in Entries(T)
  PROVE  ~e.abandoned /\ ~MayAbandon(e, {})
<1>1. e.tsn \in KnownTsns /\ e.abandoned = FALSE
  BY DEF Entries, Marks
<1>2. ChunkAt[e.tsn].msg \in Numbers
  BY <1>1, KnownTsn
<1> QED
  BY <1>1, <1>2 DEF MayAbandon, AllReliable

LEMMA AbandonOrRetransmitIs ==
  ASSUME TsnsSuffice, NEW T, NEW sent \in Seq(Entries(T)), NEW i \in 1 .. Len(sent),
         NEW expiry, AllReliable => expiry = {}
  PROVE  AbandonOrRetransmit(sent, i, expiry) \in Versions(sent, T)
<1>1. sent \in Versions(sent, T) /\ sent[i] \in Entries(T)
  BY VersionSelf
<1>2. [sent EXCEPT ![i].retransmit = TRUE] \in Versions(sent, T)
  <2> DEFINE e == [sent[i] EXCEPT !.retransmit = TRUE]
  <2>1. e \in Entries(T)
    BY <1>1, EntryTyped
  <2>2. e.tsn = sent[i].tsn
    BY <1>1 DEF Entries
  <2> HIDE DEF e
  <2>3. [sent EXCEPT ![i] = e] \in Versions(sent, T)
    BY <1>1, <2>1, <2>2, VersionOne
  <2> QED
    BY <2>3 DEF e
<1>3. MayAbandon(sent[i], expiry) => ~AllReliable
  BY <1>1, NeverAbandoned
<1>4. ~AllReliable => AbandonAround(sent, i) \in Versions(sent, T)
  BY AbandonAroundIs
<1> QED
  BY <1>1, <1>2, <1>3, <1>4 DEF AbandonOrRetransmit

\* The sender with other marks and another count of bytes in flight.
Variant(s, x) == [s EXCEPT !.sent = x[1], !.flight = x[2]]
Variants(s, T) == {s} \cup {Variant(s, x) : x \in Versions(s.sent, T) \X Int}
Strikes(s, T) == [sender : Variants(s, T), loss : BOOLEAN]

LEMMA VariantIs ==
  ASSUME NEW T, NEW s, DOMAIN s = SenderFields, s.sent \in Seq(Entries(T)), s.flight \in Int,
         NEW v \in Variants(s, T)
  PROVE  /\ DOMAIN v = SenderFields /\ v.sent \in Versions(s.sent, T) /\ v.flight \in Int
         /\ v.accepted = s.accepted /\ v.outbound = s.outbound /\ v.buffered = s.buffered
         /\ v.cwnd = s.cwnd /\ v.forward = s.forward
<1>1. CASE v = s
  BY <1>1, VersionSelf
<1>2. CASE v # s
  <2>1. PICK x \in Versions(s.sent, T) \X Int : v = Variant(s, x)
    BY <1>2 DEF Variants
  <2>2. x[1] \in Versions(s.sent, T) /\ x[2] \in Int
    OBVIOUS
  <2> QED
    BY <2>1, <2>2 DEF SenderFields, Variant
<1> QED
  BY <1>1, <1>2

LEMMA ExceptTwice ==
  ASSUME NEW s, DOMAIN s = SenderFields, NEW q, NEW f
  PROVE  /\ [s EXCEPT !.sent = q] = Variant(s, <<q, s.flight>>)
         /\ [s EXCEPT !.flight = f] = Variant(s, <<s.sent, f>>)
<1>1. /\ "sent" \in SenderFields /\ "flight" \in SenderFields /\ "sent" # "flight"
      /\ \A y : DOMAIN Variant(s, y) = SenderFields
  BY DEF SenderFields, Variant
<1>2. ASSUME NEW u, NEW w, u = [k \in SenderFields |-> u[k]], w = [k \in SenderFields |-> w[k]],
             \A k \in SenderFields : u[k] = w[k]
      PROVE  u = w
  BY <1>2
<1>3. [s EXCEPT !.sent = q] = Variant(s, <<q, s.flight>>)
  <2> DEFINE u == [s EXCEPT !.sent = q]
             w == Variant(s, <<q, s.flight>>)
  <2>1. u = [k \in SenderFields |-> u[k]] /\ w = [k \in SenderFields |-> w[k]]
    BY DEF Variant
  <2>2. \A k \in SenderFields : u[k] = w[k]
    BY <1>1 DEF Variant
  <2> HIDE DEF u, w
  <2>3. u = w
    BY <1>2, <2>1, <2>2
  <2> QED
    BY <2>3 DEF u, w
<1>4. [s EXCEPT !.flight = f] = Variant(s, <<s.sent, f>>)
  <2> DEFINE u == [s EXCEPT !.flight = f]
             w == Variant(s, <<s.sent, f>>)
  <2>1. u = [k \in SenderFields |-> u[k]] /\ w = [k \in SenderFields |-> w[k]]
    BY DEF Variant
  <2>2. \A k \in SenderFields : u[k] = w[k]
    BY <1>1 DEF Variant
  <2> HIDE DEF u, w
  <2>3. u = w
    BY <1>2, <2>1, <2>2
  <2> QED
    BY <2>3 DEF u, w
<1> QED
  BY <1>3, <1>4

LEMMA VariantOther ==
  ASSUME NEW T, NEW s, DOMAIN s = SenderFields, s.sent \in Seq(Entries(T)), s.flight \in Int,
         NEW v \in Variants(s, T), NEW q \in Versions(s.sent, T), NEW f \in Int
  PROVE  [v EXCEPT !.sent = q] \in Variants(s, T) /\ [v EXCEPT !.flight = f] \in Variants(s, T)
<1>1. \A x \in Versions(s.sent, T) \X Int : Variant(s, x) \in Variants(s, T)
  BY DEF Variants
<1>2. CASE v = s
  <2>1. <<q, s.flight>> \in Versions(s.sent, T) \X Int /\ <<s.sent, f>> \in Versions(s.sent, T) \X Int
    BY VersionSelf
  <2>2. [s EXCEPT !.sent = q] = Variant(s, <<q, s.flight>>)
    BY ExceptTwice
  <2>3. [s EXCEPT !.flight = f] = Variant(s, <<s.sent, f>>)
    BY ExceptTwice
  <2> QED
    BY <1>1, <1>2, <2>1, <2>2, <2>3
<1>3. CASE v # s
  <2>1. PICK x \in Versions(s.sent, T) \X Int : v = Variant(s, x)
    BY <1>3 DEF Variants
  <2>2. <<q, x[2]>> \in Versions(s.sent, T) \X Int /\ <<x[1], f>> \in Versions(s.sent, T) \X Int
    OBVIOUS
  <2>3. /\ "sent" \in SenderFields /\ "flight" \in SenderFields /\ "sent" # "flight"
        /\ \A y : DOMAIN Variant(s, y) = SenderFields
    BY DEF SenderFields, Variant
  <2>4. [v EXCEPT !.sent = q] = Variant(s, <<q, x[2]>>)
    <3> DEFINE u == [v EXCEPT !.sent = q]
               w == Variant(s, <<q, x[2]>>)
    <3>1. u = [k \in SenderFields |-> u[k]] /\ w = [k \in SenderFields |-> w[k]]
      BY <2>1 DEF Variant
    <3>2. \A k \in SenderFields : u[k] = w[k]
      BY <2>1, <2>3 DEF Variant
    <3> HIDE DEF u, w
    <3>3. u = w
      BY <3>1, <3>2
    <3> QED
      BY <3>3 DEF u, w
  <2>5. [v EXCEPT !.flight = f] = Variant(s, <<x[1], f>>)
    <3> DEFINE u == [v EXCEPT !.flight = f]
               w == Variant(s, <<x[1], f>>)
    <3>1. u = [k \in SenderFields |-> u[k]] /\ w = [k \in SenderFields |-> w[k]]
      BY <2>1 DEF Variant
    <3>2. \A k \in SenderFields : u[k] = w[k]
      BY <2>1, <2>3 DEF Variant
    <3> HIDE DEF u, w
    <3>3. u = w
      BY <3>1, <3>2
    <3> QED
      BY <3>3 DEF u, w
  <2> QED
    BY <1>1, <2>2, <2>4, <2>5
<1> QED
  BY <1>2, <1>3

LEMMA StrikeIs ==
  ASSUME TsnsSuffice, NEW T, NEW s, DOMAIN s = SenderFields, s.sent \in Seq(Entries(T)),
         s.flight \in Int, NEW acc \in Strikes(s, T), NEW i \in 1 .. Len(s.sent),
         NEW expiry, AllReliable => expiry = {}
  PROVE  Strike(acc, i, expiry) \in Strikes(s, T)
<1> DEFINE v == acc.sender
           D == Versions(s.sent, T)
           struck == [v.sent EXCEPT ![i].misses = @ + 1]
           missed == [v.sent EXCEPT ![i].misses = 0]
           decided == AbandonOrRetransmit(missed, i, expiry)
           cleared == [decided EXCEPT ![i].acked = FALSE]
           loosened == [v EXCEPT !.sent = cleared]
           landed == Land(loosened, Size(v.sent[i]))
<1>1. v \in Variants(s, T) /\ acc.loss \in BOOLEAN /\ acc = [sender |-> v, loss |-> acc.loss]
  BY DEF Strikes
<1> HIDE DEF v
<1>2. DOMAIN v = SenderFields /\ v.sent \in D /\ v.flight \in Int
  BY <1>1, VariantIs
<1>3. v.sent \in Seq(Entries(T)) /\ Len(v.sent) = Len(s.sent) /\ v.sent[i] \in Entries(T)
      /\ i \in DOMAIN v.sent
  BY <1>2 DEF Versions
<1>4. struck \in D
  <2> DEFINE e == [v.sent[i] EXCEPT !.misses = v.sent[i].misses + 1]
  <2>1. e \in Entries(T)
    BY <1>3, EntryTyped
  <2>2. e.tsn = v.sent[i].tsn
    BY <1>3 DEF Entries
  <2>3. struck = [v.sent EXCEPT ![i] = e]
    BY <1>3
  <2> HIDE DEF e, struck
  <2> QED
    BY <1>2, <2>1, <2>2, <2>3, VersionOne
<1>5. missed \in D
  <2> DEFINE e == [v.sent[i] EXCEPT !.misses = 0]
  <2>1. e \in Entries(T)
    BY <1>3, EntryTyped
  <2>2. e.tsn = v.sent[i].tsn
    BY <1>3 DEF Entries
  <2>3. missed = [v.sent EXCEPT ![i] = e]
    BY <1>3
  <2> HIDE DEF e, missed
  <2> QED
    BY <1>2, <2>1, <2>2, <2>3, VersionOne
<1> HIDE DEF missed
<1>6. decided \in D
  <2>1. missed \in Seq(Entries(T)) /\ i \in 1 .. Len(missed)
    BY <1>5 DEF Versions
  <2>2. decided \in Versions(missed, T)
    BY <2>1, AbandonOrRetransmitIs
  <2> HIDE DEF decided
  <2> QED
    BY <1>5, <2>2, VersionOf
<1> HIDE DEF decided
<1>7. cleared \in D
  <2> DEFINE e == [decided[i] EXCEPT !.acked = FALSE]
  <2>1. decided[i] \in Entries(T)
    BY <1>6 DEF Versions
  <2>2. e \in Entries(T)
    BY <2>1, EntryTyped
  <2>3. e.tsn = decided[i].tsn
    BY <2>1 DEF Entries
  <2> HIDE DEF e
  <2>4. [decided EXCEPT ![i] = e] \in D
    BY <1>6, <2>2, <2>3, VersionOne
  <2> QED
    BY <2>4 DEF e
<1> HIDE DEF struck, cleared
<1>8. Size(v.sent[i]) \in Int
  BY <1>3, KnownTsn DEF Size, Entries
<1>9. loosened \in Variants(s, T)
  <2>1. 0 \in Int
    OBVIOUS
  <2>2. [v EXCEPT !.sent = cleared] \in Variants(s, T)
    BY <1>1, <1>7, <2>1, VariantOther
  <2> QED
    BY <2>2
<1>10. DOMAIN loosened = SenderFields /\ loosened.flight \in Int
  BY <1>9, VariantIs
<1> HIDE DEF loosened
<1>11. landed.flight \in Int /\ landed = [loosened EXCEPT !.flight = landed.flight]
  BY <1>8, <1>10, LandTyped
<1> HIDE DEF landed
<1>14. landed \in Variants(s, T)
  <2> DEFINE f == landed.flight
             x == [loosened EXCEPT !.flight = f]
  <2>1. f \in Int /\ landed = x
    BY <1>11
  <2> HIDE DEF f
  <2>2. x \in Variants(s, T)
    BY <1>9, <2>1, <1>4, VariantOther
  <2> QED
    BY <2>1, <2>2
<1>15. [v EXCEPT !.sent = struck] \in Variants(s, T)
  <2>1. 0 \in Int
    OBVIOUS
  <2> QED
    BY <1>1, <1>4, <2>1, VariantOther
<1>16. [acc EXCEPT !.sender.sent = struck] = [sender |-> [v EXCEPT !.sent = struck], loss |-> acc.loss]
  BY <1>1 DEF v
<1>17. Strike(acc, i, expiry) = IF struck[i].misses < 3 THEN [acc EXCEPT !.sender.sent = struck]
                                 ELSE [sender |-> landed, loss |-> TRUE]
  BY DEF Strike, struck, landed, loosened, cleared, decided, missed, v
<1> QED
  BY <1>1, <1>14, <1>15, <1>16, <1>17 DEF Strikes

LEMMA StrikeMissingKeeps ==
  ASSUME TsnsSuffice, NEW T, NEW m, NEW s, SenderInv(s, T, m), NEW p,
         NEW newly \in SUBSET (1 .. Len(s.sent)), NEW expiry, AllReliable => expiry = {}
  PROVE  /\ SenderInv(StrikeMissing(s, p, newly, expiry).sender, T, m)
         /\ StrikeMissing(s, p, newly, expiry).sender.accepted = s.accepted
<1> DEFINE n == IF newly = {} THEN 0 ELSE Max(newly)
           D == Strikes(s, T)
           a == [sender |-> s, loss |-> FALSE]
           P(f) == f = [i \in 0 .. n |-> IF i = 0 THEN a
                                          ELSE IF s.sent[i].tsn \in Seen(p) THEN f[i - 1]
                                          ELSE Strike(f[i - 1], i, expiry)]
           after == CHOOSE f : P(f)
<1>1. /\ s.sent \in Seq(Entries(T)) /\ Len(s.sent) \in Nat /\ DOMAIN s = SenderFields
      /\ s.flight \in Int /\ s.cwnd \in Int /\ (AllReliable => s.forward = {})
  BY DEF SenderInv
<1>2. n \in Nat /\ \A i \in 1 .. n : i \in 1 .. Len(s.sent)
  <2>1. newly # {} => Max(newly) \in 1 .. Len(s.sent)
    BY <1>1, MaxIs
  <2> QED
    BY <1>1, <2>1
<1>3. StrikeMissing(s, p, newly, expiry) = after[n]
  BY DEF StrikeMissing
<1> HIDE DEF n
<1>4. a \in D
  <2>1. s \in Variants(s, T)
    BY DEF Variants
  <2> QED
    BY <2>1 DEF Strikes
<1>5. ASSUME NEW q \in D, NEW i \in 1 .. n PROVE Strike(q, i, expiry) \in D
  <2>1. i \in 1 .. Len(s.sent)
    BY <1>2
  <2> QED
    BY <1>1, <2>1, StrikeIs
<1> HIDE DEF D, a
<1>6. P(after)
  <2> DEFINE G == [i \in 1 .. n |-> [q \in D |-> IF s.sent[i].tsn \in Seen(p) THEN q ELSE Strike(q, i, expiry)]]
  <2>1. \A i \in 1 .. n : \A q \in D : G[i][q] \in D
    BY <1>5
  <2> HIDE DEF G
  <2>2. PICK f : f \in [0 .. n -> D] /\ IsLoop(n, a, G, f)
    BY <1>2, <1>4, <2>1, LoopEnds
  <2>3. \A i \in 0 .. n : i # 0 => i - 1 \in 0 .. n /\ i \in 1 .. n
    BY <1>2
  <2>4. \A i \in 0 .. n : i # 0 => G[i][f[i - 1]] = IF s.sent[i].tsn \in Seen(p) THEN f[i - 1]
                                                      ELSE Strike(f[i - 1], i, expiry)
    BY <2>2, <2>3 DEF G
  <2>5. P(f)
    BY <2>2, <2>4 DEF IsLoop
  <2> QED
    BY <2>5
<1>7. after[n] \in D
  <2> HIDE DEF after
  <2>1. after[0] = a
    BY <1>2, <1>6
  <2>2. ASSUME NEW i \in 1 .. n, after[i - 1] \in D PROVE after[i] \in D
    <3>1. after[i] = IF s.sent[i].tsn \in Seen(p) THEN after[i - 1] ELSE Strike(after[i - 1], i, expiry)
      <4>1. i \in 0 .. n /\ i # 0
        BY <1>2
      <4> QED
        BY <1>6, <4>1
    <3> QED
      BY <1>5, <2>2, <3>1
  <2>3. after[0] \in D
    BY <1>4, <2>1
  <2> QED
    BY <1>2, <2>2, <2>3, LoopStays
<1> HIDE DEF after
<1> DEFINE r == after[n].sender
<1>8. r \in Variants(s, T)
  BY <1>7 DEF D, Strikes
<1> HIDE DEF r
<1>9. /\ DOMAIN r = SenderFields /\ r.sent \in Versions(s.sent, T) /\ r.flight \in Int
      /\ r.accepted = s.accepted /\ r.outbound = s.outbound /\ r.buffered = s.buffered
      /\ r.cwnd = s.cwnd /\ r.forward = s.forward
  BY <1>1, <1>8, VariantIs
<1>10. r.cwnd \in Int /\ (AllReliable => r.forward = {})
  BY <1>1, <1>9
<1>11. SenderInv(r, T, m)
  BY <1>9, <1>10, SenderKept
<1> QED
  BY <1>3, <1>9, <1>11 DEF r

LEMMA UpdatePeerAckPointKeeps ==
  ASSUME TsnsSuffice, NEW T, NEW m, NEW s, SenderInv(s, T, m), AllReliable \/ m = Total
  PROVE  SenderInv(UpdatePeerAckPoint(s), T, m) /\ UpdatePeerAckPoint(s).accepted = s.accepted
<1> DEFINE failing == {i \in DOMAIN s.sent : ~s.sent[i].abandoned}
           n == PrefixLength(s.sent, LAMBDA e : e.abandoned)
           dropped == SubSeq(s.sent, 1, n)
           ordered(stream) == {i \in 1 .. n : LET c == ChunkAt[dropped[i].tsn]
                                              IN  c.stream = stream /\ ~c.unordered}
           named == {stream \in Streams : ordered(stream) # {}}
           forward == [tsn |-> dropped[n].tsn,
                       skipped |-> [stream \in named |-> ChunkAt[dropped[Max(ordered(stream))].tsn].ssn]]
           un == Unbuffer(s, dropped)
           r == [un EXCEPT !.sent = SubSeq(@, n + 1, Len(@)), !.forward = {forward}]
<1>1. /\ s.sent \in Seq(Entries(T)) /\ Len(s.sent) \in Nat /\ DOMAIN s.sent = 1 .. Len(s.sent)
      /\ Base(s) \in Nat /\ Len(s.outbound) \in Nat /\ Total \in Nat
      /\ Fragments[s.accepted] \in 0 .. Total
      /\ Fragments[s.accepted] = Base(s) + Len(s.sent) + Len(s.outbound)
  BY SenderFacts
<1>2. UpdatePeerAckPoint(s) = IF n = 0 THEN s ELSE r
  BY DEF UpdatePeerAckPoint
<1>3. n = Cut(failing, Len(s.sent))
  BY DEF PrefixLength, Cut
<1>4. failing \in SUBSET (1 .. Len(s.sent))
  BY <1>1
<1> HIDE DEF failing, n, forward
<1>5. n \in 0 .. Len(s.sent) /\ \A i \in 1 .. n : i \notin failing
  BY <1>1, <1>3, <1>4, CutIs
<1>6. CASE AllReliable
  <2>1. ASSUME n # 0 PROVE FALSE
    <3>1. 1 \in 1 .. n /\ 1 \in 1 .. Len(s.sent)
      BY <1>1, <1>5, <2>1
    <3>2. s.sent[1] \in Entries(T) /\ s.sent[1].abandoned
      BY <1>1, <1>5, <3>1 DEF failing
    <3> QED
      BY <1>6, <3>2, NeverAbandoned
  <2> QED
    BY <1>2, <2>1
<1>7. CASE ~AllReliable
  <2>1. Base(s) + n <= m
    BY <1>1, <1>5, <1>7
  <2>2. DOMAIN s = SenderFields /\ s.flight \in Int /\ s.cwnd \in Int
    BY DEF SenderInv
  <2>3. un = [s EXCEPT !.buffered = un.buffered]
    BY <2>2 DEF Unbuffer, SenderFields
  <2> HIDE DEF un
  <2>4. /\ DOMAIN r = SenderFields /\ r.accepted = s.accepted /\ r.outbound = s.outbound
        /\ r.sent = SubSeq(s.sent, n + 1, Len(s.sent)) /\ r.buffered = un.buffered
        /\ r.flight = s.flight /\ r.cwnd = s.cwnd
    BY <2>2, <2>3 DEF SenderFields
  <2> HIDE DEF r
  <2>5. r.buffered = Unbuffer(s, SubSeq(s.sent, 1, n)).buffered
    BY <2>4 DEF un
  <2>6. r.flight \in Int /\ r.cwnd \in Int /\ (AllReliable => r.forward = {})
    BY <1>7, <2>2, <2>4
  <2>7. SenderInv(r, T, m)
    BY <1>5, <2>1, <2>4, <2>5, <2>6, SenderDrops
  <2> QED
    BY <1>2, <2>4, <2>7
<1> QED
  BY <1>6, <1>7

LEMMA WindowBytes ==
  /\ UserDataMaxLength \in Int
  /\ \A a, b \in Int : Least(a, b) \in Int /\ Greatest(a, b) \in Int
  /\ \A a \in Int : Greatest(a \div 2, 4 * UserDataMaxLength) \in Int
<1>1. UserDataMaxLength \in Int
  BY WindowAssumption
<1>2. \A a, b \in Int : Least(a, b) \in Int /\ Greatest(a, b) \in Int
  BY DEF Least, Greatest
<1>3. \A a \in Int : a \div 2 \in Int
  OBVIOUS
<1>4. 4 * UserDataMaxLength \in Int
  BY <1>1
<1> QED
  BY <1>1, <1>2, <1>3, <1>4

\* Only the window's fields and the timer are other than before.
SameQueues(r, s) ==
  /\ DOMAIN r = SenderFields /\ r.accepted = s.accepted /\ r.outbound = s.outbound
  /\ r.sent = s.sent /\ r.buffered = s.buffered /\ r.forward = s.forward

LEMMA SameQueuesKept ==
  ASSUME NEW T, NEW m, NEW s, SenderInv(s, T, m), NEW r, SameQueues(r, s),
         r.flight \in Int, r.cwnd \in Int
  PROVE  SenderInv(r, T, m)
<1>1. r.sent \in Versions(s.sent, T)
  BY VersionSelf DEF SenderInv, SameQueues
<1>2. AllReliable => r.forward = {}
  BY DEF SenderInv, SameQueues
<1> QED
  BY <1>1, <1>2, SenderKept DEF SameQueues

LEMMA AdjustWindowKeeps ==
  ASSUME NEW T, NEW m, NEW s, SenderInv(s, T, m), NEW sack, NEW done, NEW doneBytes \in Int,
         NEW fullyUtilized, NEW loss
  PROVE  /\ SenderInv(AdjustWindow(s, sack, done, doneBytes, fullyUtilized, loss), T, m)
         /\ AdjustWindow(s, sack, done, doneBytes, fullyUtilized, loss).accepted = s.accepted
<1> DEFINE slowStart == [s EXCEPT !.cwnd = @ + Least(doneBytes, UserDataMaxLength)]
           bytes == s.partialBytes + doneBytes
           more == [s EXCEPT !.partialBytes = bytes - s.cwnd, !.cwnd = @ + UserDataMaxLength]
           same == [s EXCEPT !.partialBytes = bytes]
           avoidance == IF bytes >= s.cwnd THEN more ELSE same
           grown == IF ~(done > 0 /\ fullyUtilized) THEN s
                    ELSE IF s.cwnd <= s.ssthresh THEN slowStart ELSE avoidance
           half == Greatest(grown.cwnd \div 2, 4 * UserDataMaxLength)
           recovering == [grown EXCEPT !.ssthresh = half, !.cwnd = half, !.partialBytes = 0,
                            !.recoveryTransmit = TRUE,
                            !.recoveryExit = IF s.sent = << >> THEN @ ELSE Last(s.sent).tsn]
           ended == [s EXCEPT !.recoveryExit = NoTsn]
           Fine(x) == SameQueues(x, s) /\ x.flight \in Int /\ x.cwnd \in Int
<1>1. DOMAIN s = SenderFields /\ s.flight \in Int /\ s.cwnd \in Int
  BY DEF SenderInv
<1>2. Fine(s)
  BY <1>1 DEF SameQueues
<1>3. Fine(slowStart)
  <2>1. s.cwnd + Least(doneBytes, UserDataMaxLength) \in Int
    BY <1>1, WindowBytes
  <2> DEFINE w == s.cwnd + Least(doneBytes, UserDataMaxLength)
  <2> HIDE DEF w
  <2>2. slowStart = [s EXCEPT !.cwnd = w]
    BY DEF w
  <2> HIDE DEF slowStart
  <2> QED
    BY <1>1, <2>1, <2>2 DEF SameQueues, SenderFields, w
<1>4. Fine(more)
  <2>1. s.cwnd + UserDataMaxLength \in Int
    BY <1>1, WindowBytes
  <2> HIDE DEF bytes
  <2> QED
    BY <1>1, <2>1 DEF SameQueues, SenderFields
<1>5. Fine(same)
  BY <1>1 DEF SameQueues, SenderFields
<1>6. Fine(ended)
  BY <1>1 DEF SameQueues, SenderFields
<1> HIDE DEF slowStart, more, same
<1>7. Fine(grown)
  BY <1>2, <1>3, <1>4, <1>5
<1> HIDE DEF grown
<1>8. Fine(recovering)
  <2>1. half \in Int
    BY <1>7, WindowBytes
  <2> HIDE DEF half
  <2> QED
    BY <1>7, <2>1 DEF SameQueues, SenderFields
<1> HIDE DEF recovering, ended
<1>9. ASSUME NEW x, Fine(x) PROVE SenderInv(x, T, m) /\ x.accepted = s.accepted
  BY <1>9, SameQueuesKept DEF SameQueues
<1>10. AdjustWindow(s, sack, done, doneBytes, fullyUtilized, loss) \in {s, grown, recovering, ended}
  BY DEF AdjustWindow, slowStart, bytes, more, same, grown, half, recovering, ended
<1> HIDE DEF Fine
<1> QED
  BY <1>2, <1>6, <1>7, <1>8, <1>9, <1>10

LEMMA ManageT3Keeps ==
  ASSUME NEW T, NEW m, NEW s, SenderInv(s, T, m), NEW done
  PROVE  SenderInv(ManageT3(s, done), T, m) /\ ManageT3(s, done).accepted = s.accepted
<1> DEFINE r == ManageT3(s, done)
<1>1. DOMAIN s = SenderFields /\ s.flight \in Int /\ s.cwnd \in Int
  BY DEF SenderInv
<1>2. SameQueues(r, s) /\ r.flight \in Int /\ r.cwnd \in Int
  BY <1>1 DEF SameQueues, SenderFields, ManageT3
<1> HIDE DEF r
<1>3. SenderInv(r, T, m) /\ r.accepted = s.accepted
  BY <1>2, SameQueuesKept DEF SameQueues
<1> QED
  BY <1>3 DEF r

\* A SACK, however old or repeated, leaves the sender's accounts right.
LEMMA HandleSackKeeps ==
  ASSUME TsnsSuffice, NEW T, NEW m, NEW s, SenderInv(s, T, m), AllReliable \/ m = Total,
         NEW p, SackFits(p, T, m), NEW expiry, AllReliable => expiry = {}
  PROVE  SenderInv(HandleSack(s, p, expiry), T, m) /\ HandleSack(s, p, expiry).accepted = s.accepted
<1> DEFINE done == Covered(s, p)
           covered == AckCumulative(s, p)
           newly == NewlySeen(covered, p)
           gapped == AckGaps(covered, p)
           struck == StrikeMissing(gapped, p, newly, expiry)
           doneBytes == SumSizes(s.sent, NewlyCovered(s, p)) + SumSizes(covered.sent, newly)
           updated == UpdatePeerAckPoint(struck.sender)
           full == s.flight >= s.cwnd
           adjusted == AdjustWindow(updated, p, done, doneBytes, full, struck.loss)
<1>1. SenderInv(covered, T, m) /\ covered.accepted = s.accepted
  BY AckCumulativeKeeps
<1>2. NewlyCovered(s, p) \in SUBSET (1 .. Len(s.sent)) /\ Len(s.sent) \in Nat
      /\ \A i \in 1 .. Len(s.sent) : s.sent[i].tsn \in KnownTsns
  <2>1. done \in 0 .. Len(s.sent) /\ Len(s.sent) \in Nat
    BY CoveredIs, SenderFacts
  <2>2. NewlyCovered(s, p) \in SUBSET (1 .. Len(s.sent))
    BY <2>1 DEF NewlyCovered
  <2> QED
    BY <2>1, <2>2, SenderFacts
<1>3. SumSizes(s.sent, NewlyCovered(s, p)) \in Int
  BY <1>2, SumSizesTyped
<1> HIDE DEF covered
<1>4. newly \in SUBSET (1 .. Len(covered.sent)) /\ Len(covered.sent) \in Nat
      /\ \A i \in 1 .. Len(covered.sent) : covered.sent[i].tsn \in KnownTsns
  BY <1>1, NewlySeenTyped, SenderFacts
<1>5. SumSizes(covered.sent, newly) \in Int
  BY <1>4, SumSizesTyped
<1>6. doneBytes \in Int
  BY <1>3, <1>5
<1>7. SenderInv(gapped, T, m) /\ Len(gapped.sent) = Len(covered.sent) /\ gapped.accepted = s.accepted
  BY <1>1, AckGapsKeeps
<1> HIDE DEF gapped, newly
<1>8. SenderInv(struck.sender, T, m) /\ struck.sender.accepted = s.accepted
  <2>1. newly \in SUBSET (1 .. Len(gapped.sent))
    BY <1>4, <1>7
  <2> QED
    BY <1>7, <2>1, StrikeMissingKeeps
<1> HIDE DEF struck
<1>9. SenderInv(updated, T, m) /\ updated.accepted = s.accepted
  BY <1>8, UpdatePeerAckPointKeeps
<1> HIDE DEF updated, doneBytes, full, done
<1>10. SenderInv(adjusted, T, m) /\ adjusted.accepted = s.accepted
  BY <1>6, <1>9, AdjustWindowKeeps
<1> HIDE DEF adjusted
<1>11. SenderInv(ManageT3(adjusted, done), T, m) /\ ManageT3(adjusted, done).accepted = s.accepted
  BY <1>10, ManageT3Keeps
<1>12. HandleSack(s, p, expiry) = ManageT3(adjusted, done)
  BY DEF HandleSack, adjusted, done, doneBytes, full, updated, struck, gapped, newly, covered
<1> QED
  BY <1>11, <1>12

LEMMA ExpireT3Keeps ==
  ASSUME TsnsSuffice, NEW T, NEW m, NEW s, SenderInv(s, T, m), AllReliable \/ m = Total,
         NEW expiry, AllReliable => expiry = {}
  PROVE  SenderInv(ExpireT3(s, expiry), T, m) /\ ExpireT3(s, expiry).accepted = s.accepted
<1> DEFINE n == Len(s.sent)
           D == Versions(s.sent, T)
           P(f) == f = [i \in 0 .. n |-> IF i = 0 THEN s.sent
                                          ELSE AbandonOrRetransmit(f[i - 1], i, expiry)]
           marked == CHOOSE f : P(f)
           t == [s EXCEPT !.sent = marked[n], !.t3 = FALSE]
           u == UpdatePeerAckPoint(t)
           half == Greatest(s.cwnd \div 2, 4 * UserDataMaxLength)
           r == [u EXCEPT !.recoveryExit = NoTsn, !.flight = 0, !.partialBytes = 0,
                          !.ssthresh = half, !.cwnd = UserDataMaxLength]
<1>1. s.sent \in Seq(Entries(T)) /\ n \in Nat /\ DOMAIN s = SenderFields
      /\ s.flight \in Int /\ s.cwnd \in Int /\ (AllReliable => s.forward = {})
  BY DEF SenderInv
<1>2. ExpireT3(s, expiry) = r
  BY DEF ExpireT3
<1>3. ASSUME NEW q \in D, NEW i \in 1 .. n PROVE AbandonOrRetransmit(q, i, expiry) \in D
  <2>1. q \in Seq(Entries(T)) /\ i \in 1 .. Len(q)
    BY DEF Versions
  <2>2. AbandonOrRetransmit(q, i, expiry) \in Versions(q, T)
    BY <2>1, AbandonOrRetransmitIs
  <2> QED
    BY <1>1, <2>2, VersionOf
<1>4. s.sent \in D
  BY <1>1, VersionSelf
<1> HIDE DEF D, n, half
<1>5. P(marked)
  <2> DEFINE G == [i \in 1 .. n |-> [q \in D |-> AbandonOrRetransmit(q, i, expiry)]]
  <2>1. \A i \in 1 .. n : \A q \in D : G[i][q] \in D
    BY <1>3
  <2> HIDE DEF G
  <2>2. PICK f : f \in [0 .. n -> D] /\ IsLoop(n, s.sent, G, f)
    BY <1>1, <1>4, <2>1, LoopEnds
  <2>3. \A i \in 0 .. n : i # 0 => i - 1 \in 0 .. n /\ i \in 1 .. n
    BY <1>1
  <2>4. \A i \in 0 .. n : i # 0 => G[i][f[i - 1]] = AbandonOrRetransmit(f[i - 1], i, expiry)
    BY <2>2, <2>3 DEF G
  <2>5. P(f)
    BY <2>2, <2>4 DEF IsLoop
  <2> QED
    BY <2>5
<1>6. marked[n] \in D
  <2> HIDE DEF marked
  <2>1. marked[0] = s.sent
    BY <1>1, <1>5
  <2>2. ASSUME NEW i \in 1 .. n, marked[i - 1] \in D PROVE marked[i] \in D
    <3>1. marked[i] = AbandonOrRetransmit(marked[i - 1], i, expiry)
      <4>1. i \in 0 .. n /\ i # 0
        BY <1>1
      <4> QED
        BY <1>5, <4>1
    <3> QED
      BY <1>3, <2>2, <3>1
  <2>3. marked[0] \in D
    BY <1>4, <2>1
  <2> QED
    BY <1>1, <2>2, <2>3, LoopStays
<1> HIDE DEF marked
<1>7. SenderInv(t, T, m) /\ t.accepted = s.accepted
  <2>1. /\ DOMAIN t = SenderFields /\ t.accepted = s.accepted /\ t.outbound = s.outbound
        /\ t.sent = marked[n] /\ t.buffered = s.buffered
        /\ t.flight = s.flight /\ t.cwnd = s.cwnd /\ t.forward = s.forward
    BY <1>1 DEF SenderFields
  <2> HIDE DEF t
  <2>2. t.sent \in Versions(s.sent, T)
    BY <1>6, <2>1 DEF D
  <2>3. t.flight \in Int /\ t.cwnd \in Int /\ (AllReliable => t.forward = {})
    BY <1>1, <2>1
  <2> QED
    BY <2>1, <2>2, <2>3, SenderKept
<1> HIDE DEF t
<1>8. SenderInv(u, T, m) /\ u.accepted = s.accepted
  BY <1>7, UpdatePeerAckPointKeeps
<1> HIDE DEF u
<1>9. SameQueues(r, u) /\ r.flight \in Int /\ r.cwnd \in Int
  <2>1. DOMAIN u = SenderFields
    BY <1>8 DEF SenderInv
  <2>2. r.flight = 0 /\ r.cwnd = UserDataMaxLength
    BY <2>1 DEF SenderFields
  <2>3. SameQueues(r, u)
    BY <2>1 DEF SenderFields, SameQueues
  <2> QED
    BY <2>2, <2>3, WindowBytes
<1> HIDE DEF r
<1>10. SenderInv(r, T, m) /\ r.accepted = s.accepted
  BY <1>8, <1>9, SameQueuesKept DEF SameQueues
<1> QED
  BY <1>2, <1>10

-----------------------------------------------------------------------------
(* A message is accepted.                                                     *)

\* The bytes of a message are those of its places.
LEMMA MessageBytes ==
  ASSUME TsnsSuffice, NEW k \in Numbers, NEW st
  PROVE  BytesBetween(FragmentsBefore(k), Fragments[k], st)
           = IF st = Messages[k].stream THEN Bytes(Chunks[k]) ELSE 0
<1> DEFINE q == Chunks[k]
           n == Len(Sizes(k))
           b == FragmentsBefore(k)
           C == {i \in DOMAIN q : ChunkAt[q[i].tsn].stream = st}
<1>1. n \in Nat /\ n > 0 /\ DOMAIN q = 1 .. n
  BY ChunksTyped
<1>2. b \in Nat /\ Fragments[k] = b + n /\ b + n <= Total
  <2>1. 1 \in 1 .. n
    BY <1>1
  <2>2. b \in Nat /\ Fragments[k] = b + n
    BY <2>1, PlaceTyped
  <2>3. n \in 1 .. n
    BY <1>1
  <2>4. Place(k, n) \in 1 .. Total
    BY <2>3, PlaceTyped
  <2> QED
    BY <2>2, <2>4, TotalTyped DEF Place
<1>3. ASSUME NEW i \in 1 .. n
      PROVE  /\ q[i].tsn = TsnAt(b + i) /\ ChunkAt[q[i].tsn] = q[i] /\ q[i] \in AllChunks
             /\ q[i].stream = Messages[k].stream
  <2>1. q[i] \in AllChunks /\ q[i].tsn = TsnAt(Place(k, i)) /\ q[i].stream = Messages[k].stream
    BY ChunkFields
  <2>2. ChunkAt[q[i].tsn] = q[i]
    BY <2>1, ChunkAtIs
  <2> QED
    BY <2>1, <2>2 DEF Place
<1>4. SumSizes(q, C) = BytesBetween(b, b + n, st)
  <2> HIDE DEF n, b, q
  <2> QED
    BY <1>1, <1>2, <1>3, LoadIs
<1>5. CASE st = Messages[k].stream
  <2>1. C = DOMAIN q
    BY <1>1, <1>3, <1>5
  <2> DEFINE g == [i \in DOMAIN q |-> Size(q[i])]
  <2>2. \A i \in DOMAIN q : SizesIn(q)[i] = g[i]
    BY <1>1, <1>3 DEF SizesIn, Size
  <2>3. IsFiniteSet(DOMAIN q)
    BY <1>1, FS_Interval
  <2> HIDE DEF q, g
  <2>4. SumOver(DOMAIN q, SizesIn(q)) = SumOver(DOMAIN q, g)
    BY <2>2, <2>3, SumOfEqual
  <2>5. SumSizes(q, DOMAIN q) = SumOver(DOMAIN q, g)
    BY SumSizesAre DEF g
  <2>6. Bytes(q) = SumOver(DOMAIN q, SizesIn(q))
    BY BytesAre
  <2> HIDE DEF C, b, n
  <2>7. Bytes(q) = BytesBetween(b, b + n, st)
    BY <1>4, <2>1, <2>4, <2>5, <2>6
  <2> QED
    BY <1>2, <1>5, <2>7 DEF q, b
<1>6. CASE st # Messages[k].stream
  <2>1. C = {}
    BY <1>1, <1>3, <1>6
  <2>2. SumSizes(q, {}) = 0
    BY SumSizesAre, SumOfNothing
  <2> HIDE DEF C, b, n, q
  <2>3. BytesBetween(b, b + n, st) = 0
    BY <1>4, <2>1, <2>2
  <2> QED
    BY <1>2, <1>6, <2>3 DEF b
<1> QED
  BY <1>5, <1>6

LEMMA EnqueueKeeps ==
  ASSUME TsnsSuffice, NEW T, NEW m, NEW s, SenderInv(s, T, m), s.accepted < Len(Messages)
  PROVE  SenderInv(Enqueue(s), T, m) /\ Enqueue(s).accepted = s.accepted + 1
         /\ Enqueue(s).t3 = s.t3
<1> DEFINE k == s.accepted + 1
           st == Messages[k].stream
           bytes == Bytes(Chunks[k])
           new == [i \in DOMAIN Chunks[k] |-> Chunks[k][i].tsn]
           n == Len(Sizes(k))
           r == Enqueue(s)
           l == Len(s.outbound)
           f == Fragments[s.accepted]
<1>1. /\ s.accepted \in 0 .. Len(Messages) /\ Len(Messages) \in Nat /\ Numbers = 1 .. Len(Messages)
      /\ DOMAIN s = SenderFields /\ s.buffered \in [Streams -> Int] /\ s.outbound \in Seq(KnownTsns)
  BY MessagesTyped DEF SenderInv
<1>2. k \in Numbers /\ k \in 0 .. Len(Messages) /\ k - 1 = s.accepted
  BY <1>1
<1>3. st \in Streams /\ DOMAIN Chunks[k] = 1 .. n /\ n \in Nat
  BY <1>2, MessagesTyped, ChunksTyped
<1> HIDE DEF st, bytes
<1>4. /\ DOMAIN r = SenderFields /\ r.accepted = k /\ r.outbound = s.outbound \o new
      /\ r.sent = s.sent /\ r.flight = s.flight /\ r.cwnd = s.cwnd /\ r.forward = s.forward
      /\ r.t3 = s.t3 /\ r.buffered = [s.buffered EXCEPT ![st] = @ + bytes]
  BY <1>1 DEF Enqueue, SenderFields, st, bytes
<1>5. f = FragmentsBefore(k) /\ Fragments[k] = f + n /\ f \in Nat /\ Total \in Nat /\ Fragments[k] \in 0 .. Total
      /\ f \in 0 .. Total
  <2>1. f = FragmentsBefore(k)
    BY <1>2 DEF FragmentsBefore
  <2>2. Fragments[k] = f + n
    BY <1>2, FragmentsAre DEF Sizes
  <2>3. Fragments[k] \in Nat /\ f \in Nat
    BY <1>1, <1>2, FragmentsTyped
  <2>4. Fragments[k] <= Total
    BY <1>1, <1>2, FragmentsGrow DEF Total
  <2> QED
    BY <1>3, <2>1, <2>2, <2>3, <2>4, TotalTyped
<1>6. \A i \in 1 .. n : new[i] = TsnAt(f + i) /\ new[i] \in KnownTsns
  <2> SUFFICES ASSUME NEW i \in 1 .. n PROVE new[i] = TsnAt(f + i) /\ new[i] \in KnownTsns
    OBVIOUS
  <2>1. Chunks[k][i] \in AllChunks /\ Chunks[k][i].tsn = TsnAt(Place(k, i))
    BY <1>2, ChunkFields
  <2>2. Chunks[k][i].tsn \in KnownTsns
    BY <2>1, ChunkAtIs
  <2> QED
    BY <1>3, <1>5, <2>1, <2>2 DEF Place
<1>7. DOMAIN new = 1 .. n
  BY <1>3
<1> HIDE DEF new, k, r
<1>8. new \in Seq(KnownTsns) /\ Len(new) = n
  <2>1. new = [i \in 1 .. n |-> new[i]]
    BY <1>7 DEF new
  <2> QED
    BY <1>3, <1>6, <1>7, <2>1
<1>9. /\ r.outbound \in Seq(KnownTsns) /\ Len(r.outbound) = l + n /\ l \in Nat
      /\ \A i \in 1 .. l + n : r.outbound[i] = IF i <= l THEN s.outbound[i] ELSE new[i - l]
  <2>1. s.outbound \in Seq(KnownTsns) /\ l \in Nat /\ Len(new) = n
    BY <1>1, <1>8
  <2>2. (s.outbound \o new) \in Seq(KnownTsns) /\ Len(s.outbound \o new) = l + n
    BY <1>8, <2>1
  <2>3. \A i \in 1 .. l + n : (s.outbound \o new)[i] = IF i <= l THEN s.outbound[i] ELSE new[i - l]
    BY <1>3, <1>8, <2>1
  <2> QED
    BY <1>4, <2>1, <2>2, <2>3
<1>10. /\ Len(s.sent) \in Nat /\ Base(s) \in Nat /\ f = Base(s) + Len(s.sent) + l
  BY SenderFacts
<1>11. Base(r) = Base(s)
  BY <1>3, <1>4, <1>5, <1>9, <1>10 DEF Base
<1>12. InPlace(r)
  <2>1. ASSUME NEW i \in 1 .. Len(r.outbound)
        PROVE  r.outbound[i] = TsnAt(Base(r) + Len(r.sent) + i)
    <3>1. CASE i <= l
      <4>1. i \in 1 .. l /\ r.outbound[i] = s.outbound[i]
        BY <1>9, <3>1
      <4>2. s.outbound[i] = TsnAt(Base(s) + Len(s.sent) + i)
        BY <4>1 DEF SenderInv, InPlace
      <4> QED
        BY <1>4, <1>11, <4>1, <4>2
    <3>2. CASE i > l
      <4>1. i - l \in 1 .. n /\ r.outbound[i] = new[i - l]
        BY <1>3, <1>9, <3>2
      <4>2. new[i - l] = TsnAt(f + (i - l))
        BY <1>6, <4>1
      <4>3. f + (i - l) = Base(r) + Len(r.sent) + i
        BY <1>4, <1>9, <1>10, <1>11
      <4> QED
        BY <4>1, <4>2, <4>3
    <3> QED
      BY <1>9, <3>1, <3>2
  <2>2. \A i \in 1 .. Len(r.sent) : r.sent[i].tsn = TsnAt(Base(r) + i)
    BY <1>4, <1>11 DEF SenderInv, InPlace
  <2> QED
    BY <2>1, <2>2 DEF InPlace
<1>13. ASSUME NEW x \in Streams
       PROVE  r.buffered[x] \in Int /\ r.buffered[x] = BytesBetween(Base(r), Fragments[r.accepted], x)
  <2>1. BytesBetween(f, Fragments[k], x) = IF x = st THEN bytes ELSE 0
    BY <1>2, <1>5, MessageBytes DEF st, bytes, k
  <2>2. BytesBetween(Base(s), Fragments[k], x) = BytesBetween(Base(s), f, x) + BytesBetween(f, Fragments[k], x)
    <3>1. f \in Base(s) .. Total /\ Fragments[k] \in f .. Total
      BY <1>3, <1>5, <1>10
    <3> HIDE DEF f
    <3> QED
      BY <1>10, <3>1, LoadSplit
  <2>3. s.buffered[x] = BytesBetween(Base(s), f, x)
    BY DEF SenderInv
  <2>4. BytesBetween(Base(s), f, x) \in Int /\ BytesBetween(f, Fragments[k], x) \in Int
    BY <1>5, <1>10, LoadTyped
  <2>5. r.buffered[x] = IF x = st THEN s.buffered[x] + bytes ELSE s.buffered[x]
    BY <1>1, <1>4
  <2> DEFINE a == BytesBetween(Base(s), f, x)
             c == BytesBetween(f, Fragments[k], x)
  <2>6. r.buffered[x] = a + c /\ a \in Int /\ c \in Int /\ BytesBetween(Base(r), Fragments[r.accepted], x) = a + c
    <3>1. c = IF x = st THEN bytes ELSE 0
      BY <2>1
    <3>2. a \in Int /\ c \in Int /\ s.buffered[x] = a
      BY <2>3, <2>4
    <3>3. BytesBetween(Base(r), Fragments[r.accepted], x) = a + c
      BY <1>4, <1>11, <2>2
    <3> HIDE DEF a, c
    <3> QED
      BY <2>5, <3>1, <3>2, <3>3
  <2> HIDE DEF a, c
  <2> QED
    BY <2>6
<1>14. r.buffered \in [Streams -> Int]
  BY <1>1, <1>4, <1>13
<1>15. /\ r.accepted \in 0 .. Len(Messages) /\ r.sent \in Seq(Entries(T)) /\ r.flight \in Int
       /\ r.cwnd \in Int /\ (AllReliable => r.forward = {}) /\ Base(r) \in 0 .. m /\ m \in 0 .. Total
  BY <1>2, <1>4, <1>11 DEF SenderInv
<1>16. SenderInv(r, T, m)
  BY <1>4, <1>9, <1>12, <1>13, <1>14, <1>15 DEF SenderInv
<1> QED
  BY <1>4, <1>16 DEF r, k

-----------------------------------------------------------------------------
(* The runs of _transmit.                                                     *)

Tasks == [at : {"forward", "new", "retransmit"}, window : Int, index : Nat, length : Nat]
AcceptedAt(k) == {TsnAt(n) : n \in 1 .. Fragments[k]}

\* What _transmit may put into the network when k messages are accepted.
PacketSent(p, k) ==
  /\ p.type \in {"DATA", "FORWARD_TSN"}
  /\ p.type = "DATA" => p.tsn \in AcceptedAt(k)
  /\ AllReliable => p.type = "DATA"

RunOK(run, s, T, m) ==
  /\ SenderInv(run.sender, T, m) /\ run.sender.accepted = s.accepted
  /\ run.rest \in Seq(Tasks)
  /\ \A p \in run.packets : PacketSent(p, s.accepted)

LEMMA FinishedOK ==
  ASSUME NEW T, NEW m, NEW s, SenderInv(s, T, m)
  PROVE  RunOK(Finished(s), s, T, m)
BY DEF RunOK, Finished

LEMMA SuspendedOK ==
  ASSUME NEW T, NEW m, NEW s, NEW r, SenderInv(r, T, m), r.accepted = s.accepted,
         NEW p, PacketSent(p, s.accepted), NEW task \in Tasks
  PROVE  RunOK(Suspended(r, p, task), s, T, m)
<1>1. <<task>> \in Seq(Tasks)
  OBVIOUS
<1> QED
  BY <1>1 DEF RunOK, Suspended

LEMMA DataSent ==
  ASSUME NEW k, NEW n \in 1 .. Fragments[k], NEW tsn, tsn = TsnAt(n)
  PROVE  PacketSent(DataPacket(tsn), k)
<1>1. tsn \in AcceptedAt(k)
  BY DEF AcceptedAt
<1> QED
  BY <1>1 DEF PacketSent, DataPacket

LEMMA EntryMade ==
  ASSUME NEW T, NEW t \in KnownTsns, NEW a \in BOOLEAN, NEW x \in Int, NEW r \in BOOLEAN,
         NEW b \in Marks, NEW c \in Int, a => t \in T
  PROVE  [tsn |-> t, acked |-> a, misses |-> x, retransmit |-> r, abandoned |-> b, sentCount |-> c]
           \in Entries(T)
<1> DEFINE e == [tsn |-> t, acked |-> a, misses |-> x, retransmit |-> r, abandoned |-> b, sentCount |-> c]
<1>1. e \in [tsn : KnownTsns, acked : BOOLEAN, misses : Int, retransmit : BOOLEAN,
             abandoned : Marks, sentCount : Int]
  OBVIOUS
<1>2. e.acked = a /\ e.tsn = t
  OBVIOUS
<1> HIDE DEF e
<1>3. e \in Entries(T)
  BY <1>1, <1>2 DEF Entries
<1> QED
  BY <1>3 DEF e

LEMMA SendNewOK ==
  ASSUME TsnsSuffice, NEW T, NEW m, NEW s, SenderInv(s, T, m), NEW window \in Int
  PROVE  RunOK(SendNew(s, window), s, T, m)
<1> DEFINE e == FirstSend(Head(s.outbound))
           r == [s EXCEPT !.outbound = Tail(@), !.sent = Append(@, e), !.flight = @ + Size(e)]
           task == [at |-> "new", window |-> window, index |-> 0, length |-> 0]
           b == Base(s)
           n == Len(s.sent)
           l == Len(s.outbound)
<1>1. /\ s.sent \in Seq(Entries(T)) /\ s.outbound \in Seq(KnownTsns) /\ n \in Nat /\ l \in Nat /\ b \in Nat
      /\ Fragments[s.accepted] = b + n + l /\ DOMAIN s.sent = 1 .. n
  BY SenderFacts
<1>2. DOMAIN s = SenderFields /\ s.flight \in Int
  BY DEF SenderInv
<1>3. CASE s.outbound = << >> \/ s.flight >= window
  BY <1>3, FinishedOK DEF SendNew
<1>4. CASE ~(s.outbound = << >> \/ s.flight >= window)
  <2>1. l > 0 /\ s.outbound # << >> /\ Head(s.outbound) = s.outbound[1] /\ s.outbound[1] \in KnownTsns
    BY <1>1, <1>4
  <2>2. e \in Entries(T) /\ e.tsn = s.outbound[1]
    <3> DEFINE t == Head(s.outbound)
    <3>1. FALSE \in Marks /\ t \in KnownTsns /\ t = s.outbound[1]
      BY <2>1 DEF Marks
    <3>2. e = FirstSend(t)
      OBVIOUS
    <3> HIDE DEF t
    <3>3. FirstSend(t) \in Entries(T)
      <4>1. 0 \in Int /\ 1 \in Int
        OBVIOUS
      <4>2. FALSE \in BOOLEAN /\ (FALSE => t \in T)
        OBVIOUS
      <4>3. t \in KnownTsns /\ FALSE \in Marks
        BY <3>1
      <4>4. [tsn |-> t, acked |-> FALSE, misses |-> 0, retransmit |-> FALSE, abandoned |-> FALSE,
             sentCount |-> 1] \in Entries(T)
        BY <4>1, <4>2, <4>3, EntryMade, Zenon
      <4> QED
        BY <4>4 DEF FirstSend
    <3> QED
      BY <3>1, <3>2, <3>3 DEF FirstSend
  <2>3. Size(e) \in Int
    BY <2>1, <2>2, KnownTsn DEF Size
  <2> HIDE DEF e
  <2>4. /\ DOMAIN r = SenderFields /\ r.accepted = s.accepted /\ r.outbound = Tail(s.outbound)
        /\ r.sent = Append(s.sent, e) /\ r.buffered = s.buffered /\ r.flight = s.flight + Size(e)
        /\ r.cwnd = s.cwnd /\ r.forward = s.forward
    BY <1>2 DEF SenderFields
  <2> HIDE DEF r
  <2>5. /\ r.outbound \in Seq(KnownTsns) /\ Len(r.outbound) = l - 1
        /\ \A i \in 1 .. l - 1 : r.outbound[i] = s.outbound[i + 1]
    BY <1>1, <2>1, <2>4
  <2>6. /\ r.sent \in Seq(Entries(T)) /\ Len(r.sent) = n + 1 /\ r.sent[n + 1] = e
        /\ \A i \in 1 .. n : r.sent[i] = s.sent[i]
    BY <1>1, <2>2, <2>4
  <2>7. Base(r) = b
    BY <1>1, <2>4, <2>5, <2>6 DEF Base
  <2>8. s.outbound[1] = TsnAt(b + n + 1)
    BY <1>1, <2>1 DEF SenderInv, InPlace
  <2>9. InPlace(r)
    <3>1. ASSUME NEW i \in 1 .. Len(r.sent) PROVE r.sent[i].tsn = TsnAt(Base(r) + i)
      <4>1. CASE i \in 1 .. n
        BY <2>6, <2>7, <4>1 DEF SenderInv, InPlace
      <4>2. CASE i = n + 1
        <5>1. Base(r) + i = b + n + 1
          BY <1>1, <2>7, <4>2
        <5> QED
          BY <2>2, <2>6, <2>8, <4>2, <5>1
      <4> QED
        BY <1>1, <2>6, <4>1, <4>2
    <3>2. ASSUME NEW i \in 1 .. Len(r.outbound)
          PROVE  r.outbound[i] = TsnAt(Base(r) + Len(r.sent) + i)
      <4>1. i + 1 \in 1 .. l /\ r.outbound[i] = s.outbound[i + 1]
        BY <1>1, <2>5
      <4>2. s.outbound[i + 1] = TsnAt(b + n + (i + 1))
        BY <4>1 DEF SenderInv, InPlace
      <4>3. b + n + (i + 1) = Base(r) + Len(r.sent) + i
        <5>1. Base(r) = b /\ Len(r.sent) = n + 1 /\ b \in Nat /\ n \in Nat /\ i \in Nat
          BY <1>1, <2>5, <2>6, <2>7
        <5> HIDE DEF b, n
        <5> QED
          BY <5>1
      <4> QED
        BY <4>1, <4>2, <4>3
    <3> QED
      BY <3>1, <3>2 DEF InPlace
  <2>10. SenderInv(r, T, m)
    <3>1. r.flight \in Int
      BY <1>2, <2>3, <2>4
    <3> QED
      BY <2>4, <2>5, <2>6, <2>7, <2>9, <3>1 DEF SenderInv
  <2>11. PacketSent(DataPacket(e.tsn), s.accepted)
    <3>1. b + n + 1 \in 1 .. Fragments[s.accepted]
      BY <1>1, <2>1
    <3> QED
      BY <2>2, <2>8, <3>1, DataSent
  <2>12. task \in Tasks
    BY DEF Tasks
  <2>13. SendNew(s, window) = Suspended(r, DataPacket(e.tsn), task)
    BY <1>4 DEF SendNew, r, e
  <2> HIDE DEF task
  <2> QED
    BY <2>4, <2>10, <2>11, <2>12, <2>13, SuspendedOK
<1> QED
  BY <1>3, <1>4

LEMMA SendAgainTyped ==
  ASSUME TsnsSuffice, NEW T, NEW e \in Entries(T)
  PROVE  SendAgain(e) \in Entries(T) /\ SendAgain(e).tsn = e.tsn
<1>1. /\ e \in [tsn : KnownTsns, acked : BOOLEAN, misses : Int, retransmit : BOOLEAN,
                abandoned : Marks, sentCount : Int]
      /\ e.acked => e.tsn \in T
  BY DEF Entries
<1> DEFINE limit == 2 + Messages[ChunkAt[e.tsn].msg].maxRetransmits
           count == Least(e.sentCount + 1, limit)
<1>2. limit \in Int
  <2>1. ChunkAt[e.tsn].msg \in Numbers
    BY <1>1, KnownTsn
  <2>2. Messages[ChunkAt[e.tsn].msg].maxRetransmits \in Nat \cup {-1}
    BY <2>1, MessagesAssumption DEF Numbers
  <2> QED
    BY <2>2
<1> HIDE DEF limit
<1>3. count \in Int
  BY <1>1, <1>2 DEF Least
<1>4. SendAgain(e) = [e EXCEPT !.misses = 0, !.retransmit = FALSE, !.sentCount = count]
  BY DEF SendAgain, limit
<1> HIDE DEF count
<1> DEFINE x == [e EXCEPT !.misses = 0]
           y == [x EXCEPT !.retransmit = FALSE]
           z == [y EXCEPT !.sentCount = count]
<1>5. x \in Entries(T) /\ x.tsn = e.tsn
  BY <1>1, EntryTyped
<1> HIDE DEF x
<1>6. y \in Entries(T) /\ y.tsn = e.tsn
  BY <1>5 DEF Entries
<1> HIDE DEF y
<1>7. z \in Entries(T) /\ z.tsn = e.tsn
  BY <1>3, <1>6 DEF Entries
<1> QED
  BY <1>4, <1>7 DEF x, y

LEMMA RetransmitOK ==
  ASSUME TsnsSuffice, NEW T, NEW m, NEW s, SenderInv(s, T, m), NEW i \in Nat \ {0}, NEW window \in Int
  PROVE  RunOK(Retransmit(s, i, window), s, T, m)
<1> DEFINE n == Len(s.sent)
           marked == {j \in i .. n : s.sent[j].retransmit}
           next == Min(marked)
           e == SendAgain(s.sent[next])
           r == [s EXCEPT !.recoveryTransmit = FALSE, !.flight = @ + Size(s.sent[next]),
                          !.sent[next] = SendAgain(@)]
           task == [at |-> "retransmit", window |-> window, index |-> next, length |-> n]
<1>1. /\ s.sent \in Seq(Entries(T)) /\ n \in Nat /\ DOMAIN s.sent = 1 .. n /\ Base(s) \in Nat
      /\ \A j \in 1 .. n : s.sent[j] \in Entries(T) /\ s.sent[j].tsn \in KnownTsns
      /\ Fragments[s.accepted] = Base(s) + n + Len(s.outbound) /\ Len(s.outbound) \in Nat
  BY SenderFacts
<1>2. DOMAIN s = SenderFields /\ s.flight \in Int /\ s.cwnd \in Int /\ (AllReliable => s.forward = {})
  BY DEF SenderInv
<1>3. CASE marked = {}
  BY <1>3, SendNewOK DEF Retransmit
<1>4. CASE marked # {} /\ ~s.recoveryTransmit /\ s.flight >= window
  BY <1>4, FinishedOK DEF Retransmit
<1>5. CASE marked # {} /\ ~(~s.recoveryTransmit /\ s.flight >= window)
  <2>1. next \in 1 .. n
    <3>1. marked \in SUBSET Nat
      BY <1>1
    <3>2. marked \subseteq 1 .. n
      BY <1>1
    <3> HIDE DEF marked
    <3> QED
      BY <1>5, <3>1, <3>2, LeastIs
  <2>2. Retransmit(s, i, window) = Suspended(r, DataPacket(s.sent[next].tsn), task)
    BY <1>5 DEF Retransmit
  <2> HIDE DEF next
  <2>3. e \in Entries(T) /\ e.tsn = s.sent[next].tsn
    BY <1>1, <2>1, SendAgainTyped
  <2>4. Size(s.sent[next]) \in Int
    BY <1>1, <2>1, KnownTsn DEF Size
  <2> DEFINE q == [s.sent EXCEPT ![next] = e]
  <2>5. /\ DOMAIN r = SenderFields /\ r.accepted = s.accepted /\ r.outbound = s.outbound
        /\ r.sent = q /\ r.buffered = s.buffered /\ r.flight = s.flight + Size(s.sent[next])
        /\ r.cwnd = s.cwnd /\ r.forward = s.forward
    BY <1>2 DEF SenderFields
  <2> HIDE DEF r, e
  <2>6. q \in Versions(s.sent, T)
    <3>1. s.sent \in Versions(s.sent, T)
      BY <1>1, VersionSelf
    <3> QED
      BY <1>1, <2>1, <2>3, <3>1, VersionOne
  <2> HIDE DEF q
  <2>7. r.sent \in Versions(s.sent, T) /\ r.flight \in Int /\ r.cwnd \in Int /\ (AllReliable => r.forward = {})
    BY <1>2, <2>4, <2>5, <2>6
  <2>8. SenderInv(r, T, m)
    BY <2>5, <2>7, SenderKept
  <2>9. PacketSent(DataPacket(s.sent[next].tsn), s.accepted)
    <3>1. s.sent[next].tsn = TsnAt(Base(s) + next)
      BY <2>1 DEF SenderInv, InPlace
    <3>2. Base(s) + next \in 1 .. Fragments[s.accepted]
      BY <1>1, <2>1
    <3> QED
      BY <3>1, <3>2, DataSent
  <2>10. task \in Tasks
    BY <1>1, <2>1 DEF Tasks
  <2> HIDE DEF task
  <2> QED
    BY <2>2, <2>5, <2>8, <2>9, <2>10, SuspendedOK
<1> QED
  BY <1>3, <1>4, <1>5

LEMMA BurstTyped ==
  ASSUME NEW T, NEW m, NEW s, SenderInv(s, T, m)
  PROVE  BurstWindow(s) \in Int
<1> DEFINE burst == IF s.recoveryExit # NoTsn THEN 2 ELSE 4
<1>1. burst \in Int /\ s.flight \in Int /\ s.cwnd \in Int /\ UserDataMaxLength \in Int
  BY WindowBytes DEF SenderInv
<1> HIDE DEF burst
<1>2. s.flight + burst * UserDataMaxLength \in Int
  BY <1>1
<1> QED
  BY <1>1, <1>2 DEF BurstWindow, burst, Least

LEMMA TransmitOK ==
  ASSUME TsnsSuffice, NEW T, NEW m, NEW s, SenderInv(s, T, m)
  PROVE  RunOK(Transmit(s), s, T, m)
<1> DEFINE f == CHOOSE f \in s.forward : TRUE
           task == [at |-> "forward", window |-> 0, index |-> 0, length |-> 0]
<1>1. CASE s.forward = {}
  BY <1>1, BurstTyped, RetransmitOK DEF Transmit
<1>2. CASE s.forward # {}
  <2>1. ~AllReliable
    BY <1>2 DEF SenderInv
  <2>2. PacketSent(ForwardPacket(f), s.accepted)
    BY <2>1 DEF PacketSent, ForwardPacket
  <2>3. task \in Tasks
    BY DEF Tasks
  <2>4. Transmit(s) = Suspended(s, ForwardPacket(f), task)
    BY <1>2 DEF Transmit
  <2> HIDE DEF f, task
  <2> QED
    BY <2>2, <2>3, <2>4, SuspendedOK
<1> QED
  BY <1>1, <1>2

LEMMA ResumeOK ==
  ASSUME TsnsSuffice, NEW T, NEW m, NEW s, SenderInv(s, T, m), NEW task \in Tasks
  PROVE  RunOK(Resume(s, task), s, T, m)
<1> DEFINE forwarded == [s EXCEPT !.forward = {}, !.t3 = @ \/ s.sent # << >>]
           retransmitted == [s EXCEPT !.t3 = @ \/ task.index = 1]
           timed == [s EXCEPT !.t3 = TRUE]
<1>1. task.window \in Int /\ task.index \in Nat
  BY DEF Tasks
<1>2. /\ DOMAIN s = SenderFields /\ s.flight \in Int /\ s.cwnd \in Int /\ (AllReliable => s.forward = {})
      /\ s.sent \in Versions(s.sent, T)
  BY VersionSelf DEF SenderInv
<1>3. SenderInv(forwarded, T, m) /\ forwarded.accepted = s.accepted
  <2>1. /\ DOMAIN forwarded = SenderFields /\ forwarded.accepted = s.accepted
        /\ forwarded.outbound = s.outbound /\ forwarded.sent = s.sent /\ forwarded.buffered = s.buffered
        /\ forwarded.flight = s.flight /\ forwarded.cwnd = s.cwnd /\ forwarded.forward = {}
    BY <1>2 DEF SenderFields
  <2> HIDE DEF forwarded
  <2>2. forwarded.sent \in Versions(s.sent, T) /\ forwarded.flight \in Int /\ forwarded.cwnd \in Int
    BY <1>2, <2>1
  <2> QED
    BY <2>1, <2>2, SenderKept
<1>4. SenderInv(retransmitted, T, m) /\ retransmitted.accepted = s.accepted
  <2>1. SameQueues(retransmitted, s) /\ retransmitted.flight = s.flight /\ retransmitted.cwnd = s.cwnd
    BY <1>2 DEF SenderFields, SameQueues
  <2> HIDE DEF retransmitted
  <2> QED
    BY <1>2, <2>1, SameQueuesKept DEF SameQueues
<1>5. SenderInv(timed, T, m) /\ timed.accepted = s.accepted
  <2>1. SameQueues(timed, s) /\ timed.flight = s.flight /\ timed.cwnd = s.cwnd
    BY <1>2 DEF SenderFields, SameQueues
  <2> HIDE DEF timed
  <2> QED
    BY <1>2, <2>1, SameQueuesKept DEF SameQueues
<1> HIDE DEF forwarded, retransmitted, timed
<1>6. ASSUME NEW r, SenderInv(r, T, m), r.accepted = s.accepted, NEW run, RunOK(run, r, T, m)
      PROVE  RunOK(run, s, T, m)
  BY <1>6 DEF RunOK
<1>7. RunOK(Retransmit(forwarded, 1, BurstWindow(forwarded)), s, T, m)
  <2>1. BurstWindow(forwarded) \in Int
    BY <1>3, BurstTyped
  <2>2. RunOK(Retransmit(forwarded, 1, BurstWindow(forwarded)), forwarded, T, m)
    BY <1>3, <2>1, RetransmitOK
  <2> QED
    BY <1>3, <1>6, <2>2
<1>8. RunOK(SendNew(timed, task.window), s, T, m)
  BY <1>1, <1>5, <1>6, SendNewOK
<1>9. RunOK(Finished(retransmitted), s, T, m)
  BY <1>4, <1>6, FinishedOK
<1>10. RunOK(Retransmit(retransmitted, task.index + 1, task.window), s, T, m)
  <2>1. task.index + 1 \in Nat \ {0}
    BY <1>1
  <2>2. RunOK(Retransmit(retransmitted, task.index + 1, task.window), retransmitted, T, m)
    BY <1>1, <1>4, <2>1, RetransmitOK
  <2> QED
    BY <1>4, <1>6, <2>2
<1>11. Resume(s, task) \in
         {Retransmit(forwarded, 1, BurstWindow(forwarded)), SendNew(timed, task.window),
          Finished(retransmitted), Retransmit(retransmitted, task.index + 1, task.window)}
  BY DEF Resume, forwarded, retransmitted, timed
<1> QED
  BY <1>7, <1>8, <1>9, <1>10, <1>11

-----------------------------------------------------------------------------
(* The sending end and the network, whatever happens at the receiving end.   *)

\* What the network may carry when k messages are accepted.
Flies(p, k, T, m) == PacketSent(p, k) \/ (p.type = "SACK" /\ SackFits(p, T, m))

SendingInv(T, m) ==
  /\ SenderInv(sender, T, m) /\ tasks \in Seq(Tasks)
  /\ AllReliable => expired = {}
  /\ \A p \in datagrams : Flies(p, sender.accepted, T, m)

LEMMA FliesOn ==
  ASSUME NEW k \in 0 .. Len(Messages), NEW j \in 0 .. Len(Messages), k <= j, NEW T, NEW m,
         NEW p, Flies(p, k, T, m)
  PROVE  Flies(p, j, T, m)
<1>1. Fragments[k] \in Nat /\ Fragments[j] \in Nat /\ Fragments[k] <= Fragments[j]
  BY FragmentsTyped, FragmentsGrow
<1>2. 1 .. Fragments[k] \subseteq 1 .. Fragments[j]
  BY <1>1
<1>3. AcceptedAt(k) \subseteq AcceptedAt(j)
  BY <1>2 DEF AcceptedAt
<1> QED
  BY <1>3 DEF Flies, PacketSent

\* A run of _transmit comes to its next await or to its end.
LEMMA ContinueKeeps ==
  ASSUME NEW T, NEW m, NEW s, NEW run, RunOK(run, s, T, m), NEW others \in Seq(Tasks), NEW left,
         \A p \in left : Flies(p, s.accepted, T, m), Continue(run, others, left)
  PROVE  /\ SenderInv(sender', T, m) /\ sender'.accepted = s.accepted
         /\ tasks' \in Seq(Tasks) /\ \A p \in datagrams' : Flies(p, s.accepted, T, m)
<1>1. /\ SenderInv(run.sender, T, m) /\ run.sender.accepted = s.accepted /\ run.rest \in Seq(Tasks)
      /\ \A p \in run.packets : Flies(p, s.accepted, T, m)
  BY DEF RunOK, Flies
<1>2. sender' = run.sender
  BY DEF Continue
<1>3. tasks' \in {others \o run.rest, others \o << >>} /\ datagrams' \in {left \cup run.packets, left}
  <2> DEFINE after == IF SendsForward(run.rest) THEN run.rest ELSE << >>
  <2>1. after \in {run.rest, << >>}
    OBVIOUS
  <2>2. \/ tasks' = others \o run.rest /\ datagrams' = left \cup run.packets
        \/ tasks' = others \o after /\ datagrams' = left
    BY DEF Continue
  <2> HIDE DEF after
  <2> QED
    BY <2>1, <2>2
<1>4. others \o run.rest \in Seq(Tasks) /\ others \o << >> \in Seq(Tasks)
  <2>1. others \o run.rest \in Seq(Tasks)
    BY <1>1
  <2>2. others \o << >> \in Seq(Tasks)
    OBVIOUS
  <2> QED
    BY <2>1, <2>2
<1> QED
  BY <1>1, <1>2, <1>3, <1>4

LEMMA SendDataKeeps ==
  ASSUME TsnsSuffice, NEW T, NEW m, SendingInv(T, m), SendData
  PROVE  SendingInv(T, m)' /\ sender'.accepted = sender.accepted + 1
<1> DEFINE q == Enqueue(sender)
<1>1. /\ SenderInv(sender, T, m) /\ tasks \in Seq(Tasks) /\ (AllReliable => expired = {})
      /\ \A p \in datagrams : Flies(p, sender.accepted, T, m)
  BY DEF SendingInv
<1>2. sender.accepted < Len(Messages) /\ expired' = expired
  BY DEF SendData
<1>3. SenderInv(q, T, m) /\ q.accepted = sender.accepted + 1
  BY <1>1, <1>2, EnqueueKeeps
<1> HIDE DEF q
<1>4. \A p \in datagrams : Flies(p, q.accepted, T, m)
  <2>1. sender.accepted \in 0 .. Len(Messages) /\ q.accepted \in 0 .. Len(Messages)
        /\ sender.accepted <= q.accepted
    BY <1>1, <1>3, MessagesTyped DEF SenderInv
  <2> QED
    BY <1>1, <2>1, FliesOn
<1>5. CASE q.t3
  <2>1. sender' = q /\ tasks' = tasks /\ datagrams' = datagrams
    BY <1>5 DEF SendData, q
  <2> QED
    BY <1>1, <1>2, <1>3, <1>4, <2>1 DEF SendingInv
<1>6. CASE ~q.t3
  <2>1. Continue(Transmit(q), tasks, datagrams)
    BY <1>6 DEF SendData, q
  <2>2. RunOK(Transmit(q), q, T, m)
    BY <1>3, TransmitOK
  <2> DEFINE run == Transmit(q)
  <2> HIDE DEF run
  <2>3. /\ SenderInv(sender', T, m) /\ sender'.accepted = q.accepted
        /\ tasks' \in Seq(Tasks) /\ \A p \in datagrams' : Flies(p, q.accepted, T, m)
    BY <1>1, <1>4, <2>1, <2>2, ContinueKeeps
  <2> QED
    BY <1>1, <1>2, <1>3, <2>3 DEF SendingInv
<1> QED
  BY <1>5, <1>6

LEMMA TransmitResumesKeeps ==
  ASSUME TsnsSuffice, NEW T, NEW m, SendingInv(T, m), TransmitResumes
  PROVE  SendingInv(T, m)' /\ sender'.accepted = sender.accepted
<1>1. /\ SenderInv(sender, T, m) /\ tasks \in Seq(Tasks) /\ (AllReliable => expired = {})
      /\ \A p \in datagrams : Flies(p, sender.accepted, T, m)
  BY DEF SendingInv
<1>2. PICK i \in DOMAIN tasks : Continue(Resume(sender, tasks[i]), RemoveAt(tasks, i), datagrams)
  BY DEF TransmitResumes
<1>3. tasks[i] \in Tasks
  BY <1>1
<1>4. RunOK(Resume(sender, tasks[i]), sender, T, m)
  BY <1>1, <1>3, ResumeOK
<1>5. RemoveAt(tasks, i) \in Seq(Tasks)
  <2>1. Len(tasks) \in Nat /\ i \in 1 .. Len(tasks)
    BY <1>1
  <2>2. SubSeq(tasks, 1, i - 1) \in Seq(Tasks)
    BY <1>1, <2>1
  <2>3. SubSeq(tasks, i + 1, Len(tasks)) \in Seq(Tasks)
    BY <1>1, <2>1
  <2> QED
    BY <2>2, <2>3 DEF RemoveAt
<1>6. /\ SenderInv(sender', T, m) /\ sender'.accepted = sender.accepted
      /\ tasks' \in Seq(Tasks) /\ \A p \in datagrams' : Flies(p, sender.accepted, T, m)
  BY <1>1, <1>2, <1>4, <1>5, ContinueKeeps
<1>7. expired' = expired
  BY DEF TransmitResumes
<1> QED
  BY <1>1, <1>6, <1>7 DEF SendingInv

LEMMA T3ExpiredKeeps ==
  ASSUME TsnsSuffice, NEW T, NEW m, SendingInv(T, m), AllReliable \/ m = Total, T3Expired
  PROVE  SendingInv(T, m)' /\ sender'.accepted = sender.accepted
<1> DEFINE s == ExpireT3(sender, expired)
<1>1. /\ SenderInv(sender, T, m) /\ tasks \in Seq(Tasks) /\ (AllReliable => expired = {})
      /\ \A p \in datagrams : Flies(p, sender.accepted, T, m)
  BY DEF SendingInv
<1>2. Continue(Transmit(s), tasks, datagrams) /\ expired' = expired
  BY DEF T3Expired
<1>3. SenderInv(s, T, m)
  BY <1>1, ExpireT3Keeps
<1>4. s.accepted = sender.accepted
  BY <1>1, ExpireT3Keeps
<1> HIDE DEF s
<1>5. RunOK(Transmit(s), s, T, m)
  BY <1>3, TransmitOK
<1>6. \A p \in datagrams : Flies(p, s.accepted, T, m)
  BY <1>1, <1>4
<1>7. /\ SenderInv(sender', T, m) /\ sender'.accepted = s.accepted
      /\ tasks' \in Seq(Tasks) /\ \A p \in datagrams' : Flies(p, s.accepted, T, m)
  BY <1>1, <1>2, <1>5, <1>6, ContinueKeeps
<1> QED
  BY <1>1, <1>2, <1>4, <1>7 DEF SendingInv

LEMMA ExpireKeeps ==
  ASSUME NEW T, NEW m, SendingInv(T, m), Expire
  PROVE  SendingInv(T, m)' /\ sender'.accepted = sender.accepted
<1>1. UNCHANGED <<sender, tasks, datagrams>>
  BY DEF Expire
<1>2. AllReliable => expired' = {}
  <2>1. PICK k \in 1 .. sender.accepted : Messages[k].expires
    BY DEF Expire
  <2>2. k \in Numbers
    BY MessagesTyped DEF SendingInv, SenderInv
  <2> QED
    BY <2>1, <2>2 DEF AllReliable
<1> QED
  BY <1>1, <1>2 DEF SendingInv

\* A step that changes nothing at the sending end, and nothing in the network but by
\* packets that leave it.
LEMMA OnlyLosesKeeps ==
  ASSUME NEW T, NEW m, SendingInv(T, m), UNCHANGED <<sender, tasks, expired>>,
         datagrams' \subseteq datagrams
  PROVE  SendingInv(T, m)' /\ sender'.accepted = sender.accepted
BY DEF SendingInv

LEMMA SendSackKeeps ==
  ASSUME NEW T, NEW m, SendingInv(T, m), SackFits(SackPacket, T, m), SendSack
  PROVE  SendingInv(T, m)' /\ sender'.accepted = sender.accepted
<1>1. UNCHANGED <<sender, tasks, expired>> /\ datagrams' \in {datagrams \cup {SackPacket}, datagrams}
  BY DEF SendSack, senderVars
<1>2. SackPacket.type = "SACK"
  BY DEF SackPacket
<1>3. Flies(SackPacket, sender.accepted, T, m)
  BY <1>2 DEF Flies
<1> QED
  BY <1>1, <1>3 DEF SendingInv

LEMMA ReceiveSackKeeps ==
  ASSUME TsnsSuffice, NEW T, NEW m, SendingInv(T, m), AllReliable \/ m = Total,
         NEW packet \in datagrams, ReceiveSack(packet)
  PROVE  SendingInv(T, m)' /\ sender'.accepted = sender.accepted
<1> DEFINE emptied == Covered(sender, packet) = Len(sender.sent)
           others == [i \in DOMAIN tasks |-> IF emptied THEN Detach(tasks[i]) ELSE tasks[i]]
           s == HandleSack(sender, packet, expired)
<1>1. /\ SenderInv(sender, T, m) /\ tasks \in Seq(Tasks) /\ (AllReliable => expired = {})
      /\ \A p \in datagrams : Flies(p, sender.accepted, T, m)
  BY DEF SendingInv
<1>2. packet.type = "SACK" /\ expired' = expired
  BY DEF ReceiveSack
<1>3. SackFits(packet, T, m)
  BY <1>1, <1>2 DEF Flies, PacketSent
<1>4. others \in Seq(Tasks)
  <2>1. Len(tasks) \in Nat /\ DOMAIN tasks = 1 .. Len(tasks)
    BY <1>1
  <2>2. ASSUME NEW i \in DOMAIN tasks PROVE others[i] \in Tasks
    <3>1. tasks[i] \in Tasks
      BY <1>1
    <3>2. Detach(tasks[i]) \in Tasks
      BY <3>1 DEF Detach, Tasks
    <3> QED
      BY <3>1, <3>2
  <2> QED
    BY <2>1, <2>2
<1>5. SenderInv(s, T, m)
  BY <1>1, <1>3, HandleSackKeeps
<1>6. s.accepted = sender.accepted
  BY <1>1, <1>3, HandleSackKeeps
<1>7. PICK left \in {datagrams \ {packet}, datagrams} :
        \/ datagrams' = left /\ UNCHANGED <<sender, tasks>>
        \/ Continue(Transmit(s), others, left)
  BY DEF ReceiveSack
<1>8. \A p \in left : Flies(p, sender.accepted, T, m)
  BY <1>1
<1> HIDE DEF others, s
<1>9. CASE datagrams' = left /\ UNCHANGED <<sender, tasks>>
  BY <1>1, <1>2, <1>8, <1>9 DEF SendingInv
<1>10. CASE Continue(Transmit(s), others, left)
  <2>1. RunOK(Transmit(s), s, T, m)
    BY <1>5, TransmitOK
  <2>2. \A p \in left : Flies(p, s.accepted, T, m)
    BY <1>6, <1>8
  <2>3. /\ SenderInv(sender', T, m) /\ sender'.accepted = s.accepted
        /\ tasks' \in Seq(Tasks) /\ \A p \in datagrams' : Flies(p, s.accepted, T, m)
    BY <1>4, <1>10, <2>1, <2>2, ContinueKeeps
  <2> QED
    BY <1>1, <1>2, <1>6, <2>3 DEF SendingInv
<1> QED
  BY <1>7, <1>9, <1>10

LEMMA SendingStarts ==
  ASSUME TsnsSuffice, NEW T, NEW m \in 0 .. Total, TransferInit
  PROVE  SendingInv(T, m)
<1>1. sender = InitialSender /\ tasks = << >> /\ expired = {} /\ datagrams = {}
  BY DEF TransferInit
<1> DEFINE s == InitialSender
<1>2. /\ DOMAIN s = SenderFields /\ s.accepted = 0 /\ s.outbound = << >> /\ s.sent = << >>
      /\ s.buffered = [st \in Streams |-> 0] /\ s.flight = 0 /\ s.cwnd = InitialCwnd /\ s.forward = {}
  BY DEF InitialSender, SenderFields
<1> HIDE DEF s
<1>3. 0 \in 0 .. Len(Messages) /\ Total \in Nat
  BY MessagesTyped, TotalTyped
<1>4. Fragments[0] = 0
  BY FragmentsAre, MessagesTyped
<1>5. Base(s) = 0 /\ Fragments[s.accepted] = 0
  <2>1. Len(s.outbound) = 0 /\ Len(s.sent) = 0
    BY <1>2
  <2>2. Fragments[s.accepted] = 0
    BY <1>2, <1>4
  <2> QED
    BY <2>1, <2>2 DEF Base
<1>6. InPlace(s)
  BY <1>2 DEF InPlace
<1>7. ASSUME NEW st \in Streams PROVE s.buffered[st] = BytesBetween(Base(s), Fragments[s.accepted], st)
  <2>1. Base(s) + 1 .. Fragments[s.accepted] = {}
    BY <1>5
  <2>2. SumOver({}, Load(st)) = 0
    BY SumOfNothing
  <2> QED
    BY <1>2, <2>1, <2>2 DEF BytesBetween
<1>8. s.flight \in Int /\ s.cwnd \in Int /\ s.buffered \in [Streams -> Int]
  BY <1>2, WindowAssumption
<1>9. s.outbound \in Seq(KnownTsns) /\ s.sent \in Seq(Entries(T))
  BY <1>2
<1>10. Base(s) \in 0 .. m
  BY <1>3, <1>5
<1>11. SenderInv(s, T, m)
  BY <1>2, <1>3, <1>6, <1>7, <1>8, <1>9, <1>10 DEF SenderInv
<1>12. tasks \in Seq(Tasks)
  BY <1>1
<1> QED
  BY <1>1, <1>11, <1>12 DEF SendingInv, s

\* Every step keeps it, if a SACK sent by the step is one that T and m allow.
LEMMA SendingStep ==
  ASSUME TsnsSuffice, NEW T, NEW m, SendingInv(T, m), AllReliable \/ m = Total,
         SackFits(SackPacket, T, m), [TransferNext]_transferVars
  PROVE  SendingInv(T, m)' /\ sender'.accepted \in {sender.accepted, sender.accepted + 1}
<1> DEFINE Same == sender'.accepted = sender.accepted
<1>1. CASE SendData
  BY <1>1, SendDataKeeps
<1>2. CASE TransmitResumes
  BY <1>2, TransmitResumesKeeps
<1>3. CASE T3Expired
  BY <1>3, T3ExpiredKeeps
<1>4. CASE Expire
  BY <1>4, ExpireKeeps
<1>5. CASE SendSack
  BY <1>5, SendSackKeeps
<1>6. ASSUME NEW p \in datagrams, ReceiveSack(p) PROVE SendingInv(T, m)' /\ Same
  BY <1>6, ReceiveSackKeeps
<1>7. ASSUME NEW p \in datagrams, ReceiveData(p) \/ ReceiveForwardTsn(p) \/ LoseDatagram(p)
      PROVE  SendingInv(T, m)' /\ Same
  <2>1. UNCHANGED <<sender, tasks, expired>> /\ datagrams' \in {datagrams, datagrams \ {p}}
    BY <1>7 DEF ReceiveData, ReceiveForwardTsn, LoseDatagram, Arrives, senderVars
  <2> QED
    BY <2>1, OnlyLosesKeeps
<1>8. CASE UNCHANGED transferVars
  <2>1. UNCHANGED <<sender, tasks, expired, datagrams>>
    BY <1>8 DEF transferVars, senderVars
  <2> QED
    BY <2>1, OnlyLosesKeeps
<1> QED
  BY <1>1, <1>2, <1>3, <1>4, <1>5, <1>6, <1>7, <1>8 DEF TransferNext, ReceiveDatagram

\* Any SACK is one that the sender's accounts survive.
LEMMA AnySackFits ==
  ASSUME NEW p
  PROVE  SackFits(p, KnownTsns, Total)
BY DEF SackFits

LEMMA QueuedIs ==
  ASSUME NEW T, NEW m, SenderInv(sender, T, m)
  PROVE  Queued = {TsnAt(n) : n \in Base(sender) + 1 .. Fragments[sender.accepted]}
<1> DEFINE b == Base(sender)
           n == Len(sender.sent)
           l == Len(sender.outbound)
           f == Fragments[sender.accepted]
<1>1. /\ n \in Nat /\ l \in Nat /\ b \in Nat /\ f = b + n + l
      /\ DOMAIN sender.sent = 1 .. n /\ DOMAIN sender.outbound = 1 .. l
  BY SenderFacts
<1>2. /\ \A i \in 1 .. n : sender.sent[i].tsn = TsnAt(b + i)
      /\ \A i \in 1 .. l : sender.outbound[i] = TsnAt(b + n + i)
  BY DEF SenderInv, InPlace
<1>3. Queued = {sender.outbound[i] : i \in 1 .. l} \cup {sender.sent[i].tsn : i \in 1 .. n}
  BY <1>1 DEF Queued, ToSet
<1> HIDE DEF b, n, l, f
<1>4. ASSUME NEW i \in 1 .. n PROVE sender.sent[i].tsn \in {TsnAt(j) : j \in b + 1 .. f}
  <2>1. b + i \in b + 1 .. f
    BY <1>1
  <2> QED
    BY <1>2, <2>1
<1>5. ASSUME NEW i \in 1 .. l PROVE sender.outbound[i] \in {TsnAt(j) : j \in b + 1 .. f}
  <2>1. b + n + i \in b + 1 .. f
    BY <1>1
  <2> QED
    BY <1>2, <2>1
<1>6. ASSUME NEW j \in b + 1 .. f PROVE TsnAt(j) \in Queued
  <2>1. CASE j <= b + n
    <3>1. j - b \in 1 .. n /\ b + (j - b) = j
      BY <1>1, <2>1
    <3>2. sender.sent[j - b].tsn = TsnAt(j)
      BY <1>2, <3>1
    <3> QED
      BY <1>3, <3>1, <3>2
  <2>2. CASE j > b + n
    <3>1. j - (b + n) \in 1 .. l /\ b + n + (j - (b + n)) = j
      BY <1>1, <2>2
    <3>2. sender.outbound[j - (b + n)] = TsnAt(j)
      BY <1>2, <3>1
    <3> QED
      BY <1>3, <3>1, <3>2
  <2> QED
    BY <1>1, <2>1, <2>2
<1>7. Queued = {TsnAt(j) : j \in b + 1 .. f}
  BY <1>3, <1>4, <1>5, <1>6
<1> QED
  BY <1>7 DEF b, f

LEMMA QueuedBytes ==
  ASSUME TsnsSuffice, NEW st, NEW b \in Nat, NEW f \in 0 .. Total,
         NEW Q, Q = {TsnAt(n) : n \in b + 1 .. f}
  PROVE  MapThenSumSet(LAMBDA t : IF ChunkAt[t].stream = st THEN ChunkAt[t].size ELSE 0, Q)
           = BytesBetween(b, f, st)
<1> DEFINE g == [t \in Q |-> IF ChunkAt[t].stream = st THEN ChunkAt[t].size ELSE 0]
           IsIt(x) == x = [t \in SUBSET Q |->
                            IF t = {} THEN 0
                            ELSE (IF ChunkAt[Picked(t)].stream = st THEN ChunkAt[Picked(t)].size ELSE 0)
                                   + x[t \ {Picked(t)}]]
           S == b + 1 .. f
           h == [n \in S |-> TsnAt(n)]
           k == Load(st)
<1>1. \A t \in SUBSET Q : t # {} =>
        (IF ChunkAt[Picked(t)].stream = st THEN ChunkAt[Picked(t)].size ELSE 0) = g[Picked(t)]
  BY PickedIs
<1>2. \A n \in S : g[TsnAt(n)] = (IF ChunkAt[TsnAt(n)].stream = st THEN ChunkAt[TsnAt(n)].size ELSE 0)
  OBVIOUS
<1> HIDE DEF g
<1>3. \A x : IsIt(x) <=> IsSum(Q, g, x)
  BY <1>1 DEF IsSum
<1>4. (CHOOSE x : IsIt(x)) = (CHOOSE x : IsSum(Q, g, x))
  BY <1>3
<1>5. MapThenSumSet(LAMBDA t : IF ChunkAt[t].stream = st THEN ChunkAt[t].size ELSE 0, Q)
        = (CHOOSE x : IsIt(x))[Q]
  BY DEF MapThenSumSet, MapThenFoldSet, Picked
<1>6. SumOver(Q, g) = (CHOOSE x : IsSum(Q, g, x))[Q]
  BY DEF SumOver, MapThenSumSet, MapThenFoldSet, IsSum, Picked
<1>7. IsFiniteSet(S) /\ \A n \in S : k[n] \in Int
  BY LoadTyped
<1>8. \A n \in S : n \in 1 .. Total /\ n \in 0 .. Total + 1
  BY TotalTyped
<1>9. \A x, y \in S : h[x] = h[y] => x = y
  <2> SUFFICES ASSUME NEW x \in S, NEW y \in S, TsnAt(x) = TsnAt(y) PROVE x = y
    OBVIOUS
  <2>1. x \in 0 .. Total + 1 /\ y \in 0 .. Total + 1 /\ Total \in Nat
    BY <1>8, TotalTyped
  <2> QED
    BY <2>1, TsnInjective
<1>10. \A n \in S : g[h[n]] = k[n]
  BY <1>2, <1>8 DEF Load
<1>11. {h[n] : n \in S} = Q
  OBVIOUS
<1>12. SumOver(S, k) = BytesBetween(b, f, st)
  BY DEF BytesBetween
<1> HIDE DEF S, h, k, IsIt
<1>13. SumOver({h[n] : n \in S}, g) = SumOver(S, k)
  BY <1>7, <1>9, <1>10, SumOfImage
<1> QED
  BY <1>4, <1>5, <1>6, <1>11, <1>12, <1>13

LEMMA SendingInvariant ==
  ASSUME TsnsSuffice
  PROVE  TransferSpec => []SendingInv(KnownTsns, Total)
<1>1. TransferInit => SendingInv(KnownTsns, Total)
  <2>1. Total \in 0 .. Total
    BY TotalTyped
  <2> QED
    BY <2>1, SendingStarts
<1>2. SendingInv(KnownTsns, Total) /\ [TransferNext]_transferVars => SendingInv(KnownTsns, Total)'
  <2>1. SackFits(SackPacket, KnownTsns, Total)
    BY AnySackFits
  <2> QED
    BY <2>1, SendingStep
<1> QED
  BY <1>1, <1>2, PTL DEF TransferSpec

\* bufferedAmount, for any messages and whatever the network and the timers do: what the sender
\* adds in sendData and takes back in _handleSack and _updateAdvancedPeerAckPoint is exactly the
\* bytes that are still queued.
THEOREM BufferedAmountIsExact ==
  ASSUME TsnsSuffice
  PROVE  TransferSpec => []BufferedIsExact
<1>1. SendingInv(KnownTsns, Total) => BufferedIsExact
  <2> SUFFICES ASSUME SendingInv(KnownTsns, Total), NEW s \in Streams
               PROVE  sender.buffered[s] =
                        MapThenSumSet(LAMBDA t : IF ChunkAt[t].stream = s THEN ChunkAt[t].size ELSE 0, Queued)
    BY DEF BufferedIsExact
  <2>1. SenderInv(sender, KnownTsns, Total)
    BY DEF SendingInv
  <2>2. Base(sender) \in Nat /\ Fragments[sender.accepted] \in 0 .. Total
    BY <2>1, SenderFacts
  <2>3. Queued = {TsnAt(n) : n \in Base(sender) + 1 .. Fragments[sender.accepted]}
    BY <2>1, QueuedIs
  <2>4. sender.buffered[s] = BytesBetween(Base(sender), Fragments[sender.accepted], s)
    BY <2>1 DEF SenderInv
  <2> QED
    BY <2>2, <2>3, <2>4, QueuedBytes
<1> QED
  BY <1>1, SendingInvariant, PTL

-----------------------------------------------------------------------------
(* Reliable messages: the receiving end of the transfer is SctpArrival's.    *)

AcceptedChunk(c, k) == c \in AllChunks /\ At(c) <= Fragments[k]

\* A packet with data brings a chunk of an accepted message.
LEMMA DataIs ==
  ASSUME TsnsSuffice, NEW k \in 0 .. Len(Messages), NEW t \in AcceptedAt(k)
  PROVE  AcceptedChunk(ChunkAt[t], k) /\ ChunkAt[t].tsn = t
<1>1. PICK n \in 1 .. Fragments[k] : t = TsnAt(n)
  BY DEF AcceptedAt
<1>2. t \in KnownTsns /\ At(ChunkAt[t]) = n
  BY <1>1, PlaceKnown
<1>3. n <= Fragments[k]
  BY <1>1, FragmentsTyped
<1> QED
  BY <1>2, <1>3, KnownTsn DEF AcceptedChunk

\* What a step does at the receiving end.
LEMMA ReceivingStep ==
  ASSUME TsnsSuffice, AllReliable, NEW T, NEW m, SendingInv(T, m), [TransferNext]_transferVars
  PROVE  \/ SackTimer
         \/ \E c \in AllChunks : /\ HandleData(c) /\ AcceptedChunk(c, sender.accepted)
                                 /\ sender' = sender
         \/ UNCHANGED receiverVars
<1>1. CASE SendData \/ TransmitResumes \/ T3Expired \/ Expire
  BY <1>1 DEF SendData, TransmitResumes, T3Expired, Expire
<1>2. CASE SendSack
  BY <1>2 DEF SendSack
<1>3. ASSUME NEW p \in datagrams, ReceiveSack(p) \/ LoseDatagram(p) PROVE UNCHANGED receiverVars
  BY <1>3 DEF ReceiveSack, LoseDatagram
<1>4. ASSUME NEW p \in datagrams, ReceiveForwardTsn(p) PROVE FALSE
  <2>1. p.type = "FORWARD_TSN" /\ Flies(p, sender.accepted, T, m)
    BY <1>4 DEF ReceiveForwardTsn, SendingInv
  <2> QED
    BY <2>1 DEF Flies, PacketSent
<1>5. ASSUME NEW p \in datagrams, ReceiveData(p)
      PROVE  \E c \in AllChunks : /\ HandleData(c) /\ AcceptedChunk(c, sender.accepted)
                                  /\ sender' = sender
  <2>1. p.type = "DATA" /\ HandleData(ChunkAt[p.tsn]) /\ sender' = sender
    BY <1>5 DEF ReceiveData, senderVars
  <2>2. p.tsn \in AcceptedAt(sender.accepted)
    BY <2>1 DEF SendingInv, Flies, PacketSent
  <2>3. sender.accepted \in 0 .. Len(Messages)
    BY DEF SendingInv, SenderInv
  <2>4. AcceptedChunk(ChunkAt[p.tsn], sender.accepted)
    BY <2>2, <2>3, DataIs
  <2> QED
    BY <2>1, <2>4 DEF AcceptedChunk
<1>6. CASE UNCHANGED transferVars
  BY <1>6 DEF transferVars
<1> QED
  BY <1>1, <1>2, <1>3, <1>4, <1>5, <1>6 DEF TransferNext, ReceiveDatagram

\* With reliable messages a transfer is, at its receiving end, an arrival of the chunks in some
\* order: whatever is proved about SctpArrival holds of it.
THEOREM TransferArrives ==
  ASSUME TsnsSuffice, AllReliable
  PROVE  TransferSpec => ArrivalSpec
<1>1. TransferInit => ReceiverInit
  BY DEF TransferInit
<1>2. SendingInv(KnownTsns, Total) /\ [TransferNext]_transferVars => [ArrivalNext]_receiverVars
  <2> SUFFICES ASSUME SendingInv(KnownTsns, Total), [TransferNext]_transferVars
               PROVE  [ArrivalNext]_receiverVars
    OBVIOUS
  <2>1. \/ SackTimer
        \/ \E c \in AllChunks : HandleData(c)
        \/ UNCHANGED receiverVars
    BY ReceivingStep
  <2> QED
    BY <2>1 DEF ArrivalNext, Arrive
<1> QED
  BY <1>1, <1>2, SendingInvariant, PTL DEF TransferSpec, ArrivalSpec

-----------------------------------------------------------------------------
(* What the sender has forgotten, the receiver has.                          *)

\* The SACK of a receiver that has the chunks up to l and those of T.
LEMMA SackOfReceiver ==
  ASSUME TsnsSuffice, NEW l \in 0 .. Total, NEW A \in SUBSET (l + 1 .. Total), Receives(l, A)
  PROVE  SackFits(SackPacket, ArrivedTsns, l)
<1>1. Sack.cum = TsnAt(l) /\ Sack.gaps = {a - l : a \in A}
  BY SackIs
<1>2. Total \in Nat /\ l \in Int /\ l \in 0 .. l
  BY TotalTyped
<1>3. SackPacket.cum = TsnAt(l) /\ SackPacket.gaps = {a - l : a \in A}
  BY <1>1 DEF SackPacket
<1>4. ASSUME NEW t \in KnownTsns, t \in Seen(SackPacket) PROVE t \in ArrivedTsns
  <2>1. PICK o \in SackPacket.gaps : t = (SackPacket.cum + o) % TsnModulo
    BY <1>4 DEF Seen
  <2>2. PICK a \in A : o = a - l
    BY <1>3, <2>1
  <2>3. a \in Int /\ a - l \in Int /\ l + (a - l) = a
    BY <1>2
  <2>4. t = TsnAt(a)
    BY <1>2, <1>3, <2>1, <2>2, <2>3, TsnLater
  <2>5. ChunkAt[t] \in AllChunks /\ ChunkAt[t].tsn = t
    BY KnownTsn
  <2>6. ChunkAt[t].tsn \in Tsn(A)
    BY <2>4, <2>5 DEF Tsn
  <2>7. At(ChunkAt[t]) \in A
    BY <2>5, <2>6, KnownAt
  <2>8. ChunkAt[t] \in Held \cup DeliveredChunks
    BY <2>5, <2>7 DEF Receives, Arrived
  <2> QED
    BY <2>5, <2>8 DEF ArrivedTsns
<1> QED
  BY <1>2, <1>3, <1>4 DEF SackFits

TransferInv ==
  /\ Buffers
  /\ \E l \in 0 .. Total : \E A \in SUBSET (l + 1 .. Total) :
       /\ Receives(l, A)
       /\ \E T : T = ArrivedTsns /\ SendingInv(T, l)
  /\ \A c \in Held \cup DeliveredChunks : AcceptedChunk(c, sender.accepted)

LEMMA TransferStarts ==
  ASSUME TsnsSuffice, TransferInit
  PROVE  TransferInv
<1>1. ReceiverInv /\ ReceiverInit
  BY ReceiverStarts DEF TransferInit
<1>2. \A s \in Streams : streams[s] = EmptyStream /\ delivered[s] = << >>
  BY <1>1 DEF ReceiverInit
<1>3. Held = {} /\ DeliveredChunks = {}
  <2>1. \A s \in Streams : ToSet(streams[s].reassembly) = {} /\ ToSet(delivered[s]) = {}
    BY <1>2 DEF EmptyStream, ToSet
  <2> QED
    BY <2>1 DEF Held, DeliveredChunks
<1>4. PICK l \in 0 .. Total : \E A \in SUBSET (l + 1 .. Total) : Receives(l, A)
  BY <1>1 DEF ReceiverInv
<1>5. PICK A \in SUBSET (l + 1 .. Total) : Receives(l, A)
  BY <1>4
<1>6. PICK T : T = ArrivedTsns
  OBVIOUS
<1>7. SendingInv(T, l)
  BY SendingStarts
<1> QED
  BY <1>1, <1>3, <1>5, <1>6, <1>7 DEF TransferInv, ReceiverInv

\* More has arrived than the SACKs on their way say.
LEMMA SendingGrows ==
  ASSUME NEW T, NEW m, SendingInv(T, m), NEW U, T \subseteq U, NEW n \in 0 .. Total, m <= n
  PROVE  SendingInv(U, n)
<1>1. SenderInv(sender, T, m) /\ m \in 0 .. Total /\ Total \in Nat
  BY TotalTyped DEF SendingInv, SenderInv
<1>2. SenderInv(sender, U, n)
  BY <1>1, SenderGrows
<1>3. ASSUME NEW p, SackFits(p, T, m) PROVE SackFits(p, U, n)
  <2>1. m = Total => n = Total
    BY <1>1
  <2>2. \A k \in 0 .. m : k \in 0 .. n
    BY <1>1
  <2> QED
    BY <1>3, <2>1, <2>2 DEF SackFits
<1>4. ASSUME NEW p \in datagrams PROVE Flies(p, sender.accepted, U, n)
  <2>1. Flies(p, sender.accepted, T, m)
    BY DEF SendingInv
  <2> QED
    BY <1>3, <2>1 DEF Flies
<1> QED
  BY <1>2, <1>4 DEF SendingInv

LEMMA AcceptedOn ==
  ASSUME NEW c, NEW k \in 0 .. Len(Messages), NEW j \in 0 .. Len(Messages), j \in {k, k + 1},
         AcceptedChunk(c, k)
  PROVE  AcceptedChunk(c, j)
<1>1. Fragments[k] \in Nat /\ Fragments[j] \in Nat /\ Fragments[k] <= Fragments[j]
  <2>1. k <= j
    BY MessagesTyped
  <2> QED
    BY <2>1, FragmentsTyped, FragmentsGrow
<1>2. At(c) \in Int
  BY AtIs DEF AcceptedChunk
<1> QED
  BY <1>1, <1>2 DEF AcceptedChunk

LEMMA TransferStep ==
  ASSUME TsnsSuffice, AllReliable
  PROVE  TransferInv /\ [TransferNext]_transferVars => TransferInv'
<1> SUFFICES ASSUME TransferInv, [TransferNext]_transferVars PROVE TransferInv'
  OBVIOUS
<1>1. PICK l \in 0 .. Total : \E A \in SUBSET (l + 1 .. Total) :
        Receives(l, A) /\ \E T : T = ArrivedTsns /\ SendingInv(T, l)
  BY DEF TransferInv
<1>2. PICK A \in SUBSET (l + 1 .. Total) : Receives(l, A) /\ \E T : T = ArrivedTsns /\ SendingInv(T, l)
  BY <1>1
<1>3. PICK T : T = ArrivedTsns /\ SendingInv(T, l)
  BY <1>2
<1>4. Buffers /\ \A c \in Held \cup DeliveredChunks : AcceptedChunk(c, sender.accepted)
  BY DEF TransferInv
<1>5. SackFits(SackPacket, T, l)
  BY <1>2, <1>3, SackOfReceiver
<1>6. SendingInv(T, l)' /\ sender'.accepted \in {sender.accepted, sender.accepted + 1}
  BY <1>3, <1>5, SendingStep
<1>7. sender.accepted \in 0 .. Len(Messages) /\ sender'.accepted \in 0 .. Len(Messages)
  BY <1>3, <1>6 DEF SendingInv, SenderInv
<1>8. CASE UNCHANGED <<last, cum, mis, streams, delivered>>
  <2>1. Held' = Held /\ DeliveredChunks' = DeliveredChunks
    BY <1>8 DEF Held, DeliveredChunks
  <2>2. Buffers'
    BY <1>4, <1>8, <2>1 DEF Buffers, Here
  <2>3. Receives(l, A)'
    BY <1>2, <1>8, <2>1 DEF Receives
  <2>4. T = ArrivedTsns'
    BY <1>3, <2>1 DEF ArrivedTsns
  <2>5. \A c \in (Held \cup DeliveredChunks)' : AcceptedChunk(c, sender'.accepted)
    BY <1>4, <1>6, <1>7, <2>1, AcceptedOn
  <2> QED
    BY <1>6, <2>2, <2>3, <2>4, <2>5 DEF TransferInv
<1>9. ASSUME NEW c \in AllChunks, HandleData(c), AcceptedChunk(c, sender.accepted), sender' = sender
      PROVE  TransferInv'
  <2>1. /\ Buffers'
        /\ \E m \in l .. Total : \E B \in SUBSET (m + 1 .. Total) : Receives(m, B)'
        /\ (Held \cup DeliveredChunks)' \in {Held \cup DeliveredChunks, Held \cup DeliveredChunks \cup {c}}
    BY <1>2, <1>4, <1>9, HandleDataMoves
  <2>2. PICK m \in l .. Total : \E B \in SUBSET (m + 1 .. Total) : Receives(m, B)'
    BY <2>1
  <2>3. PICK B \in SUBSET (m + 1 .. Total) : Receives(m, B)'
    BY <2>2
  <2>4. PICK U : U = ArrivedTsns'
    OBVIOUS
  <2>5. T \subseteq U
    BY <1>3, <2>1, <2>4 DEF ArrivedTsns
  <2>6. m \in 0 .. Total /\ l <= m
    BY TotalTyped
  <2>7. SendingInv(U, m)
    BY <1>3, <2>5, <2>6, SendingGrows
  <2>8. SackFits(SackPacket, U, m)
    <3>1. \A t \in KnownTsns : t \in Seen(SackPacket) => t \in U
      BY <1>5, <2>5 DEF SackFits
    <3>2. l = Total => m = Total
      BY <2>6, TotalTyped
    <3>3. \A k \in 0 .. l : k \in 0 .. m
      BY <2>6, TotalTyped
    <3> QED
      BY <1>5, <3>1, <3>2, <3>3 DEF SackFits
  <2>9. SendingInv(U, m)'
    BY <2>7, <2>8, SendingStep
  <2>10. \A d \in (Held \cup DeliveredChunks)' : AcceptedChunk(d, sender'.accepted)
    BY <1>4, <1>9, <2>1
  <2> QED
    BY <2>1, <2>3, <2>4, <2>6, <2>9, <2>10 DEF TransferInv
<1>10. \/ UNCHANGED <<last, cum, mis, streams, delivered>>
       \/ \E c \in AllChunks : /\ HandleData(c) /\ AcceptedChunk(c, sender.accepted)
                               /\ sender' = sender
  <2>1. \/ SackTimer
        \/ \E c \in AllChunks : /\ HandleData(c) /\ AcceptedChunk(c, sender.accepted)
                                /\ sender' = sender
        \/ UNCHANGED receiverVars
    BY <1>3, ReceivingStep
  <2> QED
    BY <2>1 DEF SackTimer, receiverVars
<1> QED
  BY <1>8, <1>9, <1>10

LEMMA TransferInvariant ==
  ASSUME TsnsSuffice, AllReliable
  PROVE  TransferSpec => []TransferInv
<1>1. TransferInit => TransferInv
  BY TransferStarts
<1> QED
  BY <1>1, TransferStep, PTL DEF TransferSpec

\* The chunks of the first k messages are those at the places up to Fragments[k].
LEMMA AcceptedIs ==
  ASSUME NEW T, NEW m, SenderInv(sender, T, m), NEW t \in Accepted
  PROVE  \E n \in 1 .. Fragments[sender.accepted] : t = TsnAt(n)
<1>1. PICK k \in 1 .. sender.accepted : \E c \in ToSet(Chunks[k]) : t = c.tsn
  BY DEF Accepted
<1>2. sender.accepted \in 0 .. Len(Messages) /\ k \in 0 .. Len(Messages) /\ k \in Numbers
      /\ k <= sender.accepted
  BY MessagesTyped DEF SenderInv
<1>3. PICK i \in 1 .. Len(Sizes(k)) : t = Chunks[k][i].tsn
  BY <1>1, <1>2, ChunksTyped DEF ToSet
<1>4. t = TsnAt(Place(k, i))
  BY <1>2, <1>3, ChunkFields
<1>5. Place(k, i) \in 1 .. Total /\ Total \in Nat /\ Place(k, i) <= Fragments[k] /\ Fragments[k] \in Nat
  BY <1>2, PlaceTyped
<1>6. Fragments[k] <= Fragments[sender.accepted] /\ Fragments[sender.accepted] \in Nat
  BY <1>2, FragmentsGrow, FragmentsTyped
<1>7. Place(k, i) \in 1 .. Fragments[sender.accepted]
  BY <1>5, <1>6
<1> QED
  BY <1>4, <1>7

\* What has left the queues is in sequence at the receiver.
LEMMA GoneIsReceived ==
  ASSUME TsnsSuffice, NEW T, NEW l \in 0 .. Total, SenderInv(sender, T, l), NEW t \in Accepted \ Queued
  PROVE  \E n \in 1 .. l : t = TsnAt(n) /\ n \in 1 .. Fragments[sender.accepted]
<1>1. PICK n \in 1 .. Fragments[sender.accepted] : t = TsnAt(n)
  BY AcceptedIs
<1>2. n \notin Base(sender) + 1 .. Fragments[sender.accepted]
  BY <1>1, QueuedIs
<1>3. Base(sender) \in Nat /\ Base(sender) <= l /\ Fragments[sender.accepted] \in 0 .. Total /\ Total \in Nat
  BY SenderFacts
<1>4. n \in 1 .. l
  BY <1>1, <1>2, <1>3
<1> QED
  BY <1>1, <1>4

LEMMA TransferFacts ==
  ASSUME TransferInv
  PROVE  \E l \in 0 .. Total : \E A \in SUBSET (l + 1 .. Total) :
           Receives(l, A) /\ SenderInv(sender, ArrivedTsns, l)
<1>1. PICK l \in 0 .. Total : \E A \in SUBSET (l + 1 .. Total) :
        Receives(l, A) /\ \E T : T = ArrivedTsns /\ SendingInv(T, l)
  BY DEF TransferInv
<1>2. PICK A \in SUBSET (l + 1 .. Total) : Receives(l, A) /\ \E T : T = ArrivedTsns /\ SendingInv(T, l)
  BY <1>1
<1>3. PICK T : T = ArrivedTsns /\ SendingInv(T, l)
  BY <1>2
<1>4. SenderInv(sender, ArrivedTsns, l)
  BY <1>3 DEF SendingInv
<1> QED
  BY <1>2, <1>4

\* What _handleSack drops from the queues, or marks as acknowledged, is in a reassembly buffer or
\* delivered: no SACK, however old, repeated or overtaken, makes the sender forget a chunk of a
\* reliable message that the receiver has not got.
THEOREM ReliableIsKept ==
  ASSUME TsnsSuffice, AllReliable
  PROVE  TransferSpec => []KeptUntilReceived
<1>1. TransferInv => KeptUntilReceived
  <2> SUFFICES ASSUME TransferInv, NEW t \in (Accepted \ Queued) \cup Acked PROVE t \in ArrivedTsns
    BY DEF KeptUntilReceived
  <2>1. PICK l \in 0 .. Total : \E A \in SUBSET (l + 1 .. Total) :
          Receives(l, A) /\ SenderInv(sender, ArrivedTsns, l)
    BY TransferFacts
  <2>2. PICK A \in SUBSET (l + 1 .. Total) : Receives(l, A) /\ SenderInv(sender, ArrivedTsns, l)
    BY <2>1
  <2>3. CASE t \in Accepted \ Queued
    <3>1. PICK n \in 1 .. l : t = TsnAt(n) /\ n \in 1 .. Fragments[sender.accepted]
      BY <2>2, <2>3, GoneIsReceived
    <3>2. sender.accepted \in 0 .. Len(Messages)
      BY <2>2 DEF SenderInv
    <3>3. t \in KnownTsns /\ At(ChunkAt[t]) = n
      BY <3>1, <3>2, PlaceKnown
    <3>4. ChunkAt[t] \in AllChunks /\ ChunkAt[t].tsn = t
      BY <3>3, KnownTsn
    <3>5. n <= l
      BY TotalTyped
    <3>6. ChunkAt[t] \in Held \cup DeliveredChunks
      BY <2>2, <3>3, <3>4, <3>5 DEF Receives, Arrived
    <3> QED
      BY <3>4, <3>6 DEF ArrivedTsns
  <2>4. CASE t \in Acked
    <3>1. PICK e \in ToSet(sender.sent) : e.acked /\ t = e.tsn
      BY <2>4 DEF Acked
    <3>2. e \in Entries(ArrivedTsns)
      <4>1. sender.sent \in Seq(Entries(ArrivedTsns))
        BY <2>2 DEF SenderInv
      <4> QED
        BY <3>1, <4>1, SeqFacts
    <3> QED
      BY <3>1, <3>2 DEF Entries
  <2> QED
    BY <2>3, <2>4
<1> QED
  BY <1>1, TransferInvariant, PTL

\* The two ends agree on what is in sequence: what the sender has dropped, _lastReceivedTsn has
\* passed, at every moment and so also when nothing is in flight any more.
THEOREM EndsAgree ==
  ASSUME TsnsSuffice, AllReliable
  PROVE  TransferSpec => []QuiescentAgreement
<1>1. TransferInv => QuiescentAgreement
  <2> SUFFICES ASSUME TransferInv, NEW t \in Accepted \ Queued PROVE Uint32Gte(last, t)
    BY DEF QuiescentAgreement
  <2>1. PICK l \in 0 .. Total : \E A \in SUBSET (l + 1 .. Total) :
          Receives(l, A) /\ SenderInv(sender, ArrivedTsns, l)
    BY TransferFacts
  <2>2. PICK A \in SUBSET (l + 1 .. Total) : Receives(l, A) /\ SenderInv(sender, ArrivedTsns, l)
    BY <2>1
  <2>3. PICK n \in 1 .. l : t = TsnAt(n)
    BY <2>2, GoneIsReceived
  <2>4. n \in 0 .. Total /\ l \in 0 .. Total /\ l >= n /\ Total \in Nat
    BY TotalTyped
  <2>5. Uint32Gte(TsnAt(l), TsnAt(n))
    BY <2>4, TsnCompare
  <2> QED
    BY <2>2, <2>3, <2>5 DEF Receives
<1> QED
  BY <1>1, TransferInvariant, PTL

-----------------------------------------------------------------------------
(* The transfer and the promise of MessageDelivery.                          *)

\* Only messages that the sender has accepted are delivered.
LEMMA DeliveredIsAccepted ==
  ASSUME TsnsSuffice, Buffers, NEW k \in 0 .. Len(Messages),
         \A c \in Held \cup DeliveredChunks : AcceptedChunk(c, k), NEW s \in Streams
  PROVE  ToSet(delivered[s]) \subseteq 1 .. k
<1> SUFFICES ASSUME NEW j \in ToSet(delivered[s]) PROVE j \in 1 .. k
  OBVIOUS
<1>1. delivered[s] \in Seq(Numbers)
  BY DEF Buffers
<1>2. j \in Numbers /\ Numbers = 1 .. Len(Messages) /\ Len(Messages) \in Nat
  BY <1>1, SeqFacts, MessagesTyped
<1>3. 1 \in 1 .. Len(Sizes(j))
  BY <1>2, ChunksTyped
<1> DEFINE c == Chunks[j][1]
<1>4. c \in DeliveredChunks
  <2>1. c \in ToSet(Chunks[j])
    BY <1>2, <1>3, ChunksTyped DEF ToSet
  <2>2. DeliveredChunks = UNION {Had(delivered[t]) : t \in Streams}
    BY HadAll
  <2>3. c \in Had(delivered[s])
    BY <2>1 DEF Had
  <2> HIDE DEF c
  <2> QED
    BY <2>2, <2>3
<1>5. c \in AllChunks /\ c.tsn = TsnAt(Place(j, 1)) /\ At(c) <= Fragments[k]
  BY <1>2, <1>3, <1>4, ChunkFields DEF AcceptedChunk
<1>6. At(c) = Place(j, 1)
  <2>1. At(c) \in 1 .. Total /\ TsnAt(At(c)) = TsnAt(Place(j, 1)) /\ Total \in Nat
    BY <1>5, AtIs, TotalTyped
  <2>2. Place(j, 1) \in 1 .. Total
    BY <1>2, <1>3, PlaceTyped
  <2> HIDE DEF c
  <2>3. At(c) \in 0 .. Total + 1 /\ Place(j, 1) \in 0 .. Total + 1
    BY <2>1, <2>2
  <2> QED
    BY <2>1, <2>3, TsnInjective
<1> HIDE DEF c
<1>7. Place(j, 1) = Fragments[j - 1] + 1 /\ Fragments[j - 1] \in Nat
  BY <1>2, <1>3, PlaceTyped DEF Place, FragmentsBefore
<1>8. Fragments[k] \in Nat /\ Fragments[j - 1] < Fragments[k]
  BY <1>5, <1>6, <1>7, FragmentsTyped
<1>9. CASE j > k
  <2>1. j - 1 \in 0 .. Len(Messages) /\ k <= j - 1
    BY <1>2, <1>9
  <2>2. Fragments[k] <= Fragments[j - 1]
    BY <2>1, FragmentsGrow
  <2> QED
    BY <1>7, <1>8, <2>2
<1> QED
  BY <1>2, <1>9

OnlyAccepted == \A s \in Streams : ToSet(delivered[s]) \subseteq 1 .. sender.accepted

LEMMA OnlyAcceptedHolds ==
  ASSUME TsnsSuffice, TransferInv
  PROVE  OnlyAccepted
<1>1. PICK l \in 0 .. Total : \E A \in SUBSET (l + 1 .. Total) :
        Receives(l, A) /\ SenderInv(sender, ArrivedTsns, l)
  BY TransferFacts
<1>2. sender.accepted \in 0 .. Len(Messages)
  BY <1>1 DEF SenderInv
<1>3. Buffers /\ \A c \in Held \cup DeliveredChunks : AcceptedChunk(c, sender.accepted)
  BY DEF TransferInv
<1> QED
  BY <1>2, <1>3, DeliveredIsAccepted DEF OnlyAccepted

LEMMA ServiceLegal ==
  ASSUME NEW s, NEW seq, NEW n, Abstract!Legal(s, seq, n)
  PROVE  Service!Legal(s, seq, n)
BY DEF Abstract!Legal, Service!Legal, Abstract!Skippable, Service!Skippable,
       Abstract!ToSet, Service!ToSet

LEMMA ServiceStep ==
  ASSUME TsnsSuffice, SsnsSuffice, OrderedFirst, AllReliable, TransferInv, TransferInv',
         ReceiverOrder, ReceiverOrder', OnlyAccepted', [TransferNext]_transferVars
  PROVE  [Service!Next]_<<sender.accepted, delivered>>
<1>1. PICK l \in 0 .. Total : \E A \in SUBSET (l + 1 .. Total) :
        Receives(l, A) /\ \E T : T = ArrivedTsns /\ SendingInv(T, l)
  BY DEF TransferInv
<1>2. PICK A \in SUBSET (l + 1 .. Total) : Receives(l, A) /\ \E T : T = ArrivedTsns /\ SendingInv(T, l)
  BY <1>1
<1>3. PICK T : T = ArrivedTsns /\ SendingInv(T, l)
  BY <1>2
<1>4. sender.accepted \in 0 .. Len(Messages)
  BY <1>3 DEF SendingInv, SenderInv
<1>5. SackFits(SackPacket, T, l)
  BY <1>2, <1>3, SackOfReceiver
<1>6. SendingInv(T, l)' /\ sender'.accepted \in {sender.accepted, sender.accepted + 1}
  BY <1>3, <1>5, SendingStep
<1>7. sender'.accepted \in 0 .. Len(Messages)
  BY <1>6 DEF SendingInv, SenderInv
<1>8. CASE UNCHANGED delivered
  <2>1. CASE sender'.accepted = sender.accepted
    BY <1>8, <2>1
  <2>2. CASE sender'.accepted = sender.accepted + 1
    <3>1. sender.accepted < Len(Messages)
      BY <1>4, <1>7, <2>2, MessagesTyped
    <3> QED
      BY <1>8, <2>2, <3>1 DEF Service!Next, Service!Accept
  <2> QED
    BY <1>6, <2>1, <2>2
<1>9. ASSUME NEW c \in AllChunks, HandleData(c), sender' = sender
      PROVE  Service!Next
  <2>1. \A s \in Streams : \E more \in Seq(Numbers) : delivered'[s] = delivered[s] \o more
    <3>1. ReceiverInv
      BY <1>2 DEF TransferInv, ReceiverInv
    <3> QED
      BY <1>9, <3>1, DeliveriesGrow
  <2>2. ASSUME NEW s \in Streams
        PROVE  /\ Service!IsPrefix(delivered[s], delivered'[s])
               /\ Service!Legal(s, delivered'[s], sender.accepted)
    <3>1. PICK more \in Seq(Numbers) : delivered'[s] = delivered[s] \o more
      BY <2>1
    <3>2. delivered[s] \in Seq(Numbers) /\ delivered'[s] \in Seq(Numbers)
          /\ \A k \in ToSet(delivered'[s]) : Messages[k].stream = s
      BY DEF TransferInv, Buffers
    <3>3. Turned(s, delivered'[s], streams'[s].ssn)
      BY DEF ReceiverOrder
    <3>4. Service!IsPrefix(delivered[s], delivered'[s])
      <4>1. Len(delivered[s]) <= Len(delivered'[s])
            /\ SubSeq(delivered[s], 1, Len(delivered[s])) = SubSeq(delivered'[s], 1, Len(delivered[s]))
        BY <3>1, <3>2
      <4> QED
        BY <4>1 DEF Service!IsPrefix
    <3>5. ToSet(delivered'[s]) \subseteq 1 .. sender.accepted
      <4>1. sender'.accepted = sender.accepted
        BY <1>9
      <4> QED
        BY <4>1 DEF OnlyAccepted
    <3>6. 1 .. sender.accepted \subseteq Numbers
      BY <1>4, MessagesTyped
    <3>7. Abstract!Legal(s, delivered'[s], sender.accepted)
      BY <3>2, <3>3, <3>5, <3>6, LegalInTurn
    <3> QED
      BY <3>4, <3>7, ServiceLegal
  <2>3. Service!Streams = Streams
    BY DEF Service!Streams, Streams, Numbers
  <2>4. sender'.accepted = sender.accepted
    BY <1>9
  <2> QED
    BY <2>2, <2>3, <2>4 DEF Service!Next, Service!Deliver
<1>10. \/ UNCHANGED delivered
       \/ \E c \in AllChunks : HandleData(c) /\ sender' = sender
  <2>1. \/ SackTimer
        \/ \E c \in AllChunks : /\ HandleData(c) /\ AcceptedChunk(c, sender.accepted)
                                /\ sender' = sender
        \/ UNCHANGED receiverVars
    BY <1>3, ReceivingStep
  <2> QED
    BY <2>1 DEF SackTimer, receiverVars
<1> QED
  BY <1>8, <1>9, <1>10

\* What the two ends and the network between them do is what MessageDelivery promises: of the
\* messages accepted so far each stream gets each at most once, the ordered ones in the order of
\* acceptance and none of them before an earlier one.
THEOREM TransferImplementsDelivery ==
  ASSUME TsnsSuffice, SsnsSuffice, OrderedFirst, AllReliable
  PROVE  TransferSpec => TransferDelivers
<1>1. ReceiverInit => ReceiverOrder
  BY OrderStarts
<1>2. ReceiverInv /\ ReceiverOrder /\ [ArrivalNext]_receiverVars => ReceiverOrder'
  BY OrderStep
<1>3. ArrivalSpec => []ReceiverOrder
  BY <1>1, <1>2, NumbersMatchBuffers, PTL DEF ArrivalSpec
<1>4. TransferInv => OnlyAccepted
  BY OnlyAcceptedHolds
<1>5. TransferInit => Service!Init
  <2> SUFFICES ASSUME TransferInit PROVE Service!Init
    OBVIOUS
  <2>1. Service!Streams = Streams
    BY DEF Service!Streams, Streams, Numbers
  <2>2. delivered = [s \in Streams |-> << >>]
    BY DEF TransferInit, ReceiverInit
  <2>3. sender.accepted \in 0 .. Len(Messages)
    BY MessagesTyped DEF TransferInit, InitialSender
  <2> QED
    BY <2>1, <2>2, <2>3 DEF Service!Init
<1>6. TransferInv /\ TransferInv' /\ ReceiverOrder /\ ReceiverOrder' /\ OnlyAccepted'
        /\ [TransferNext]_transferVars => [Service!Next]_<<sender.accepted, delivered>>
  BY ServiceStep
<1> QED
  BY <1>3, <1>4, <1>5, <1>6, TransferArrives, TransferInvariant, PTL
     DEF TransferSpec, TransferDelivers, Service!Spec

-----------------------------------------------------------------------------
(* The handshake and the shutdown.                                           *)

USE DEF budget

\* The other end is an end, and the relation is symmetric.
LEMMA OtherFacts ==
  ASSUME NEW p \in Peers
  PROVE  Other(p) \in Peers /\ Other(p) # p /\ Other(Other(p)) = p
BY PeersAssumption DEF Other

\* Shared by every proof below: the steps of Next one by one.
LEMMA NextSteps ==
  ASSUME Next
  PROVE  \E p \in Peers :
           \/ Connect(p) \/ Close(p) \/ Abort(p)
           \/ InitSent(p) \/ CookieEchoSent(p) \/ CookieAckSent(p)
           \/ ShutdownSent(p) \/ ShutdownAckSent(p) \/ ShutdownCompleteSent(p)
           \/ AbortSent(p) \/ (\E k \in Awaited : SendFails(p, k))
           \/ HandleInit(p) \/ HandleInitAck(p) \/ HandleCookieEcho(p)
           \/ HandleStaleCookieEcho(p) \/ HandleCookieAck(p) \/ HandleShutdown(p)
           \/ HandleShutdownAck(p)
           \/ (\E k \in {"SHUTDOWN_COMPLETE", "ABORT"} : HandleDisposing(p, k))
           \/ T1Expired(p) \/ T2Expired(p)
           \/ (\E k \in Kinds : Lose(p, k) \/ Duplicate(p, k))
BY DEF Next, SendCompletes, HandleChunk

-----------------------------------------------------------------------------
(* Type correctness. *)

\* A packet put on the wire keeps the network well typed.
LEMMA SendType ==
  ASSUME TypeOK, NEW q \in Peers, NEW k \in Kinds, Send(q, k)
  PROVE  net' \in [Peers -> [Kinds -> Nat]]
BY BoundsAssumption DEF TypeOK, Send, WithPacket

\* A packet taken from the wire keeps the network well typed.
LEMMA TakeType ==
  ASSUME TypeOK, NEW q \in Peers, NEW k \in Kinds, Receive(q, k)
  PROVE  Taken(q, k) \in [Peers -> [Kinds -> Nat]]
BY BoundsAssumption DEF TypeOK, Taken, Receive

\* A send that completes leaves counters within their bound.
LEMMA FinishType ==
  ASSUME TypeOK, NEW q \in Peers, NEW k \in Awaited, Finish(q, k)
  PROVE  pending' \in [Peers -> [Awaited -> 0..MaxPending]]
BY BoundsAssumption DEF TypeOK, Finish

\* An exception that escapes a handler is one of the four.
LEMMA RaiseType ==
  ASSUME TypeOK, NEW q \in Peers, NEW e \in Errors, Raise(q, e)
  PROVE  raised' \in [Peers -> SUBSET Errors]
BY DEF TypeOK, Raise

\* _setState keeps the state and the exceptions well typed.
LEMMA SetStateType ==
  ASSUME TypeOK, NEW q \in Peers, NEW s \in States, SetState(q, s)
  PROVE  /\ state' \in [Peers -> States]
         /\ raised' \in [Peers -> SUBSET Errors]
BY RaiseType DEF TypeOK, SetState, Errors

\* One more suspended handler stays within MaxPending.
LEMMA PushType ==
  ASSUME TypeOK, NEW q \in Peers, NEW k \in Awaited,
         pending[q][k] < MaxPending,
         pending' = [pending EXCEPT ![q][k] = @ + 1]
  PROVE  pending' \in [Peers -> [Awaited -> 0..MaxPending]]
BY BoundsAssumption DEF TypeOK

\* _sendChunk up to its await: it suspends, or throws on the null tag.
LEMMA BeginSendType ==
  ASSUME TypeOK, NEW q \in Peers, NEW k \in Awaited, BeginSend(q, k)
  PROVE  /\ pending' \in [Peers -> [Awaited -> 0..MaxPending]]
         /\ raised' \in [Peers -> SUBSET Errors]
<1>1. CASE known[q] \/ k \in {"INIT", "ABORT_UNTAGGED"}
  BY <1>1, PushType DEF BeginSend, TypeOK
<1>2. CASE ~(known[q] \/ k \in {"INIT", "ABORT_UNTAGGED"})
  <2>1. Raise(q, "null tag") /\ pending' = pending
    BY <1>2 DEF BeginSend, Raise
  <2>. QED BY <2>1, RaiseType DEF TypeOK, Errors
<1>. QED BY <1>1, <1>2

\* _setState and _t1Start keep what they assign well typed.
LEMMA StartT1Type ==
  ASSUME TypeOK, NEW q \in Peers, NEW s \in States,
         NEW k \in {"INIT", "COOKIE_ECHO"}, SetStateAndStartT1(q, s, k)
  PROVE  /\ state' \in [Peers -> States]
         /\ t1' \in [Peers -> {"off", "INIT", "COOKIE_ECHO"}]
         /\ t1Failures' \in [Peers -> 0..MaxInit]
         /\ raised' \in [Peers -> SUBSET Errors]
<1>1. raised' = raised \/ \E e \in Errors : Raise(q, e)
  BY DEF SetStateAndStartT1, Errors
<1>2. raised' \in [Peers -> SUBSET Errors]
  BY <1>1, RaiseType DEF TypeOK
<1>3. \/ t1' = t1 /\ t1Failures' = t1Failures
      \/ /\ t1' = [t1 EXCEPT ![q] = k]
         /\ t1Failures' = [t1Failures EXCEPT ![q] = 0]
  BY DEF SetStateAndStartT1
<1>5. t1' \in [Peers -> {"off", "INIT", "COOKIE_ECHO"}]
  BY <1>3 DEF TypeOK
<1>6. t1Failures' \in [Peers -> 0..MaxInit]
  <2>1. t1Failures \in [Peers -> 0..MaxInit] /\ 0 \in 0..MaxInit
    BY BoundsAssumption DEF TypeOK
  <2>. QED BY <1>3, <2>1
<1>4. state' \in [Peers -> States]
  BY DEF SetStateAndStartT1, TypeOK
<1>. QED BY <1>2, <1>4, <1>5, <1>6

\* _setState and _t2Start keep what they assign well typed.
LEMMA StartT2Type ==
  ASSUME TypeOK, NEW q \in Peers, NEW s \in States, SetStateAndStartT2(q, s)
  PROVE  /\ state' \in [Peers -> States]
         /\ t2' \in [Peers -> BOOLEAN]
         /\ t2Failures' \in [Peers -> 0..MaxAssoc]
         /\ raised' \in [Peers -> SUBSET Errors]
<1>1. raised' = raised \/ \E e \in Errors : Raise(q, e)
  BY DEF SetStateAndStartT2, Errors
<1>2. raised' \in [Peers -> SUBSET Errors]
  BY <1>1, RaiseType DEF TypeOK
<1>3. \/ t2' = t2 /\ t2Failures' = t2Failures
      \/ /\ t2' = [t2 EXCEPT ![q] = TRUE]
         /\ t2Failures' = [t2Failures EXCEPT ![q] = 0]
  BY DEF SetStateAndStartT2
<1>5. t2' \in [Peers -> BOOLEAN]
  BY <1>3 DEF TypeOK
<1>6. t2Failures' \in [Peers -> 0..MaxAssoc]
  <2>1. t2Failures \in [Peers -> 0..MaxAssoc] /\ 0 \in 0..MaxAssoc
    BY BoundsAssumption DEF TypeOK
  <2>. QED BY <1>3, <2>1
<1>4. state' \in [Peers -> States]
  BY DEF SetStateAndStartT2, TypeOK
<1>. QED BY <1>2, <1>4, <1>5, <1>6

\* _dispose keeps what it assigns well typed.
LEMMA DisposeType ==
  ASSUME TypeOK, NEW q \in Peers, Dispose(q)
  PROVE  /\ state' \in [Peers -> States]
         /\ t1' \in [Peers -> {"off", "INIT", "COOKIE_ECHO"}]
         /\ t2' \in [Peers -> BOOLEAN]
         /\ disposed' \in [Peers -> BOOLEAN]
         /\ raised' \in [Peers -> SUBSET Errors]
<1>1. /\ state' \in [Peers -> States]
      /\ raised' \in [Peers -> SUBSET Errors]
  BY SetStateType DEF Dispose, States
<1>2. /\ t1' \in [Peers -> {"off", "INIT", "COOKIE_ECHO"}]
      /\ t2' \in [Peers -> BOOLEAN]
      /\ disposed' \in [Peers -> BOOLEAN]
  BY DEF Dispose, CancelT1, CancelT2, TypeOK
<1>. QED BY <1>1, <1>2

\* Every step keeps the types, action by action.
LEMMA TypePreserved ==
  ASSUME TypeOK, [Next]_vars
  PROVE  TypeOK'
<1> USE BoundsAssumption, OtherFacts
<1>1. CASE UNCHANGED vars
  BY <1>1 DEF vars, TypeOK
<1>2. CASE Next
  <2> PICK p \in Peers :
           \/ Connect(p) \/ Close(p) \/ Abort(p)
           \/ InitSent(p) \/ CookieEchoSent(p) \/ CookieAckSent(p)
           \/ ShutdownSent(p) \/ ShutdownAckSent(p) \/ ShutdownCompleteSent(p)
           \/ AbortSent(p) \/ (\E k \in Awaited : SendFails(p, k))
           \/ HandleInit(p) \/ HandleInitAck(p) \/ HandleCookieEcho(p)
           \/ HandleStaleCookieEcho(p) \/ HandleCookieAck(p) \/ HandleShutdown(p)
           \/ HandleShutdownAck(p)
           \/ (\E k \in {"SHUTDOWN_COMPLETE", "ABORT"} : HandleDisposing(p, k))
           \/ T1Expired(p) \/ T2Expired(p)
           \/ (\E k \in Kinds : Lose(p, k) \/ Duplicate(p, k))
    BY <1>2, NextSteps
  <2>1. CASE Connect(p)
    BY <2>1, BeginSendType DEF Connect, TypeOK, Awaited, Kinds
  <2>2. CASE Close(p)
    BY <2>2, SetStateType, PushType DEF Close, TypeOK, Awaited, Kinds, States
  <2>3. CASE Abort(p)
    BY <2>3, BeginSendType DEF Abort, TypeOK, Awaited, Kinds
  <2>4. CASE InitSent(p)
    <3>1. net' \in [Peers -> [Kinds -> Nat]]
      BY <2>4, SendType DEF InitSent, Kinds
    <3>2. pending' \in [Peers -> [Awaited -> 0..MaxPending]]
      BY <2>4, FinishType DEF InitSent, Awaited, Kinds
    <3>. QED BY <2>4, <3>1, <3>2, StartT1Type DEF InitSent, Finish, TypeOK, States
  <2>5. CASE CookieEchoSent(p)
    <3>1. net' \in [Peers -> [Kinds -> Nat]]
      BY <2>5, SendType DEF CookieEchoSent, Kinds
    <3>2. pending' \in [Peers -> [Awaited -> 0..MaxPending]]
      BY <2>5, FinishType DEF CookieEchoSent, Awaited, Kinds
    <3>. QED BY <2>5, <3>1, <3>2, StartT1Type
       DEF CookieEchoSent, Finish, TypeOK, States
  <2>6. CASE CookieAckSent(p)
    <3>1. net' \in [Peers -> [Kinds -> Nat]]
      BY <2>6, SendType DEF CookieAckSent, Kinds
    <3>2. pending' \in [Peers -> [Awaited -> 0..MaxPending]]
      BY <2>6, FinishType DEF CookieAckSent, Awaited, Kinds
    <3>. QED BY <2>6, <3>1, <3>2, SetStateType
         DEF CookieAckSent, Finish, TypeOK, States
  <2>7. CASE ShutdownSent(p)
    <3>1. net' \in [Peers -> [Kinds -> Nat]]
      BY <2>7, SendType DEF ShutdownSent, Kinds
    <3>2. pending' \in [Peers -> [Awaited -> 0..MaxPending]]
      BY <2>7, FinishType DEF ShutdownSent, Awaited, Kinds
    <3>. QED BY <2>7, <3>1, <3>2, StartT2Type
       DEF ShutdownSent, Finish, TypeOK, States
  <2>8. CASE ShutdownAckSent(p)
    <3>1. net' \in [Peers -> [Kinds -> Nat]]
      BY <2>8, SendType DEF ShutdownAckSent, Kinds
    <3>2. pending' \in [Peers -> [Awaited -> 0..MaxPending]]
      BY <2>8, FinishType DEF ShutdownAckSent, Awaited, Kinds
    <3>. QED BY <2>8, <3>1, <3>2, SetStateType
         DEF ShutdownAckSent, Finish, TypeOK, States
  <2>9. CASE ShutdownCompleteSent(p)
    <3>1. net' \in [Peers -> [Kinds -> Nat]]
      BY <2>9, SendType DEF ShutdownCompleteSent, Kinds
    <3>2. pending' \in [Peers -> [Awaited -> 0..MaxPending]]
      BY <2>9, FinishType DEF ShutdownCompleteSent, Awaited, Kinds
    <3>. QED BY <2>9, <3>1, <3>2, DisposeType
       DEF ShutdownCompleteSent, Finish, TypeOK
  <2>10. CASE AbortSent(p)
    <3>1. net' \in [Peers -> [Kinds -> Nat]]
      BY <2>10, SendType DEF AbortSent, Kinds, TypeOK
    <3>2. pending' \in [Peers -> [Awaited -> 0..MaxPending]]
      BY <2>10, FinishType DEF AbortSent, Awaited, Kinds
    <3>. QED BY <2>10, <3>1, <3>2, DisposeType DEF AbortSent, Finish, TypeOK
  <2>11. CASE \E k \in Awaited : SendFails(p, k)
    BY <2>11 DEF SendFails, TypeOK
  <2>12. CASE HandleInit(p)
    <3>1. Taken(p, "INIT") \in [Peers -> [Kinds -> Nat]]
      BY <2>12, TakeType DEF HandleInit, Kinds
    <3>2. net' \in [Peers -> [Kinds -> Nat]]
      BY <2>12, <3>1 DEF HandleInit, Take, WithPacket, Kinds
    <3>3. known' \in [Peers -> BOOLEAN]
      BY <2>12 DEF HandleInit, TypeOK
    <3>. QED BY <2>12, <3>2, <3>3 DEF HandleInit, TypeOK
  <2>13. CASE HandleInitAck(p)
    <3>1. Taken(p, "INIT_ACK") \in [Peers -> [Kinds -> Nat]]
      BY <2>13, TakeType DEF HandleInitAck, Kinds
    <3>. QED BY <2>13, <3>1, PushType
         DEF HandleInitAck, Take, CancelT1, TypeOK, Awaited, Kinds
  <2>14. CASE HandleCookieEcho(p)
    <3>1. Taken(p, "COOKIE_ECHO") \in [Peers -> [Kinds -> Nat]]
      BY <2>14, TakeType DEF HandleCookieEcho, Kinds
    <3>. QED BY <2>14, <3>1, BeginSendType
         DEF HandleCookieEcho, Take, TypeOK, Awaited, Kinds
  <2>15. CASE HandleStaleCookieEcho(p)
    <3>1. Taken(p, "COOKIE_ECHO") \in [Peers -> [Kinds -> Nat]]
      BY <2>15, TakeType DEF HandleStaleCookieEcho, Kinds
    <3>. QED BY <2>15, <3>1, RaiseType
       DEF HandleStaleCookieEcho, Take, TypeOK, Errors
  <2>16. CASE HandleCookieAck(p)
    <3>1. Taken(p, "COOKIE_ACK") \in [Peers -> [Kinds -> Nat]]
      BY <2>16, TakeType DEF HandleCookieAck, Kinds
    <3>. QED BY <2>16, <3>1, SetStateType
         DEF HandleCookieAck, Take, CancelT1, TypeOK, States
  <2>17. CASE HandleShutdown(p)
    <3>1. Taken(p, "SHUTDOWN") \in [Peers -> [Kinds -> Nat]]
      BY <2>17, TakeType DEF HandleShutdown, Kinds
    <3>. QED BY <2>17, <3>1, SetStateType, PushType
         DEF HandleShutdown, Take, TypeOK, States, Awaited, Kinds
  <2>18. CASE HandleShutdownAck(p)
    <3>1. Taken(p, "SHUTDOWN_ACK") \in [Peers -> [Kinds -> Nat]]
      BY <2>18, TakeType DEF HandleShutdownAck, Kinds
    <3>. QED BY <2>18, <3>1, PushType
         DEF HandleShutdownAck, Take, CancelT2, TypeOK, Awaited, Kinds
  <2>19. CASE \E k \in {"SHUTDOWN_COMPLETE", "ABORT"} : HandleDisposing(p, k)
    <3> PICK k \in {"SHUTDOWN_COMPLETE", "ABORT"} : HandleDisposing(p, k)
      BY <2>19
    <3>1. Taken(p, k) \in [Peers -> [Kinds -> Nat]]
      BY TakeType DEF HandleDisposing, Kinds
    <3>. QED BY <3>1, DisposeType DEF HandleDisposing, Take, TypeOK
  <2>20. CASE T1Expired(p)
    <3>1. CASE t1Failures[p] = MaxInit
      <4>1. CASE StateThrows(p, "closed")
        BY <2>20, <3>1, <4>1, SetStateType DEF T1Expired, CancelT1, TypeOK, States
      <4>2. CASE ~StateThrows(p, "closed")
        BY <2>20, <3>1, <4>2, DisposeType DEF T1Expired, TypeOK
      <4>. QED BY <4>1, <4>2
    <3>2. CASE t1Failures[p] # MaxInit
      <4>1. t1[p] \in Kinds
        BY <2>20 DEF T1Expired, TypeOK, Kinds
      <4>2. net' \in [Peers -> [Kinds -> Nat]]
        BY <2>20, <3>2, <4>1, SendType DEF T1Expired
      <4>3. t1Failures' \in [Peers -> 0..MaxInit]
        <5>1. t1Failures \in [Peers -> 0..MaxInit]
          BY DEF TypeOK
        <5>2. t1Failures' = [t1Failures EXCEPT ![p] = @ + 1]
          BY <2>20, <3>2 DEF T1Expired
        <5>3. t1Failures[p] + 1 \in 0..MaxInit
          BY <5>1, <3>2
        <5>. QED BY <5>1, <5>2, <5>3
      <4>. QED BY <2>20, <3>2, <4>2, <4>3 DEF T1Expired, TypeOK
    <3>. QED BY <3>1, <3>2
  <2>21. CASE T2Expired(p)
    <3>1. CASE t2Failures[p] = MaxAssoc
      <4>1. CASE StateThrows(p, "closed")
        BY <2>21, <3>1, <4>1, SetStateType DEF T2Expired, CancelT2, TypeOK, States
      <4>2. CASE ~StateThrows(p, "closed")
        BY <2>21, <3>1, <4>2, DisposeType DEF T2Expired, TypeOK
      <4>. QED BY <4>1, <4>2
    <3>2. CASE t2Failures[p] # MaxAssoc
      <4>1. "SHUTDOWN" \in Kinds
        BY <2>21 DEF T2Expired, TypeOK, Kinds
      <4>2. net' \in [Peers -> [Kinds -> Nat]]
        BY <2>21, <3>2, <4>1, SendType DEF T2Expired
      <4>3. t2Failures' \in [Peers -> 0..MaxAssoc]
        <5>1. t2Failures \in [Peers -> 0..MaxAssoc]
          BY DEF TypeOK
        <5>2. t2Failures' = [t2Failures EXCEPT ![p] = @ + 1]
          BY <2>21, <3>2 DEF T2Expired
        <5>3. t2Failures[p] + 1 \in 0..MaxAssoc
          BY <5>1, <3>2
        <5>. QED BY <5>1, <5>2, <5>3
      <4>. QED BY <2>21, <3>2, <4>2, <4>3 DEF T2Expired, TypeOK
    <3>. QED BY <3>1, <3>2
  <2>22. CASE \E k \in Kinds : Lose(p, k) \/ Duplicate(p, k)
    <3>1. PICK k \in Kinds : Lose(p, k) \/ Duplicate(p, k)
      BY <2>22
    <3>2. net' \in [Peers -> [Kinds -> Nat]]
      <4>1. CASE Lose(p, k)
        BY <4>1, TakeType DEF Lose, Take, Receive
      <4>2. CASE Duplicate(p, k)
        <5>1. net \in [Peers -> [Kinds -> Nat]]
          BY DEF TypeOK
        <5>. QED BY <4>2, <5>1 DEF Duplicate
      <4>. QED BY <3>1, <4>1, <4>2
    <3>. QED BY <3>1, <3>2 DEF Lose, Duplicate, TypeOK
  <2>. QED
    BY <2>1, <2>2, <2>3, <2>4, <2>5, <2>6, <2>7, <2>8, <2>9, <2>10, <2>11, <2>12,
       <2>13, <2>14, <2>15, <2>16, <2>17, <2>18, <2>19, <2>20, <2>21, <2>22
<1>. QED BY <1>1, <1>2

\* Every reachable state is well typed.
THEOREM TypeCorrect == Spec => []TypeOK
<1>1. Init => TypeOK
  BY BoundsAssumption DEF Init, TypeOK, States
<1>2. TypeOK /\ [Next]_vars => TypeOK'
  BY TypePreserved
<1>. QED BY <1>1, <1>2, PTL DEF Spec

-----------------------------------------------------------------------------
(* Agreement.  The tags travel with INIT and INIT-ACK, so every later chunk  *)
(* of the handshake, in flight, about to be sent or held by T1, witnesses    *)
(* that both ends know each other; a COOKIE-ACK witnesses a verified cookie. *)

Mutual(p) == known[p] /\ known[Other(p)]
Verified(p) == verified[p] \/ verified[Other(p)]

AgreementInv ==
  \A p \in Peers :
    /\ net[p]["INIT_ACK"] > 0 => known[Other(p)]
    /\ pending[p]["COOKIE_ECHO"] > 0 => Mutual(p)
    /\ t1[p] = "COOKIE_ECHO" => Mutual(p)
    /\ net[p]["COOKIE_ECHO"] > 0 => Mutual(p)
    /\ verified[p] => Mutual(p)
    /\ pending[p]["COOKIE_ACK"] > 0 => verified[p]
    /\ net[p]["COOKIE_ACK"] > 0 => verified[Other(p)]
    /\ pending[p]["SHUTDOWN"] > 0 => Verified(p)
    /\ pending[p]["SHUTDOWN_ACK"] > 0 => Verified(p)
    /\ state[p] \in Synchronised => Verified(p)
    /\ "null tag" \notin raised[p]

\* What a step may add: at most one kind of packet, for one end, ...
OnlyNewPacket(q, k) ==
  \A r \in Peers, j \in Kinds :
    net'[r][j] > 0 => net[r][j] > 0 \/ (r = q /\ j = k)
NoNewPacket ==
  \A r \in Peers, j \in Kinds : net'[r][j] > 0 => net[r][j] > 0
\* ... and at most one suspended handler.
OnlyNewPending(q, k) ==
  \A r \in Peers, j \in Awaited :
    pending'[r][j] > 0 => pending[r][j] > 0 \/ (r = q /\ j = k)
NoNewPending ==
  \A r \in Peers, j \in Awaited : pending'[r][j] > 0 => pending[r][j] > 0
NoNewNullTag ==
  \A r \in Peers : "null tag" \in raised'[r] => "null tag" \in raised[r]
\* Only q changes state, and only to s.
OnlyNewState(q, s) ==
  \A r \in Peers : state'[r] = state[r] \/ (r = q /\ state'[r] = s)

\* A send adds packets of one kind for one end, and no others.
LEMMA SendAdds ==
  ASSUME TypeOK, NEW q \in Peers, NEW k \in Kinds, Send(q, k)
  PROVE  OnlyNewPacket(q, k)
BY DEF TypeOK, Send, WithPacket, OnlyNewPacket

\* Taking a packet adds none.
LEMMA TakeAdds ==
  ASSUME TypeOK, NEW q \in Peers, NEW k \in Kinds, Receive(q, k), Take(q, k)
  PROVE  NoNewPacket
<1>1. net \in [Peers -> [Kinds -> Nat]]
  BY DEF TypeOK
<1>. QED BY <1>1, BoundsAssumption DEF Receive, Take, Taken, NoNewPacket

\* Completing a send suspends no handler.
LEMMA FinishAdds ==
  ASSUME TypeOK, NEW q \in Peers, NEW k \in Awaited, Finish(q, k)
  PROVE  NoNewPending
<1>1. pending \in [Peers -> [Awaited -> 0..MaxPending]]
  BY DEF TypeOK
<1>. QED BY <1>1, BoundsAssumption DEF Finish, NoNewPending

\* Suspending a handler suspends no other.
LEMMA PushAdds ==
  ASSUME TypeOK, NEW q \in Peers, NEW k \in Awaited,
         pending' = [pending EXCEPT ![q][k] = @ + 1]
  PROVE  OnlyNewPending(q, k)
BY DEF TypeOK, OnlyNewPending

\* An exception other than the null tag's adds no null tag.
LEMMA RaiseAdds ==
  ASSUME TypeOK, NEW q \in Peers, NEW e \in Errors \ {"null tag"}, Raise(q, e)
  PROVE  NoNewNullTag
BY DEF TypeOK, Raise, NoNewNullTag

\* _setState moves one end, and reads no tag.
LEMMA SetStateAdds ==
  ASSUME TypeOK, NEW q \in Peers, NEW s \in States, SetState(q, s)
  PROVE  OnlyNewState(q, s) /\ NoNewNullTag
<1>1. OnlyNewState(q, s)
  BY DEF SetState, OnlyNewState, TypeOK
<1>2. NoNewNullTag
  <2>1. CASE StateThrows(q, s)
    BY <2>1, RaiseAdds DEF SetState, Errors
  <2>2. CASE ~StateThrows(q, s)
    BY <2>2 DEF SetState, NoNewNullTag
  <2>. QED BY <2>1, <2>2
<1>. QED BY <1>1, <1>2

\* _setState and _t1Start move one end, and arm its T1 with the given chunk.
LEMMA StartT1Adds ==
  ASSUME TypeOK, NEW q \in Peers, NEW s \in States,
         NEW k \in {"INIT", "COOKIE_ECHO"}, SetStateAndStartT1(q, s, k)
  PROVE  /\ OnlyNewState(q, s) /\ NoNewNullTag
         /\ \A r \in Peers : t1'[r] = t1[r] \/ (r = q /\ t1'[r] = k)
<1>1. OnlyNewState(q, s)
  BY DEF SetStateAndStartT1, OnlyNewState, TypeOK
<1>2. raised' = raised \/ \E e \in Errors \ {"null tag"} : Raise(q, e)
  BY DEF SetStateAndStartT1, Errors
<1>3. NoNewNullTag
  BY <1>2, RaiseAdds DEF NoNewNullTag
<1>4. t1' = t1 \/ t1' = [t1 EXCEPT ![q] = k]
  BY DEF SetStateAndStartT1
<1>5. \A r \in Peers : t1'[r] = t1[r] \/ (r = q /\ t1'[r] = k)
  BY <1>4 DEF TypeOK
<1>. QED BY <1>1, <1>3, <1>5

\* _setState and _t2Start move one end, and read no tag.
LEMMA StartT2Adds ==
  ASSUME TypeOK, NEW q \in Peers, NEW s \in States, SetStateAndStartT2(q, s)
  PROVE  OnlyNewState(q, s) /\ NoNewNullTag
<1>1. OnlyNewState(q, s)
  BY DEF SetStateAndStartT2, OnlyNewState, TypeOK
<1>2. raised' = raised \/ \E e \in Errors \ {"null tag"} : Raise(q, e)
  BY DEF SetStateAndStartT2, Errors
<1>3. NoNewNullTag
  BY <1>2, RaiseAdds DEF NoNewNullTag
<1>. QED BY <1>1, <1>3

\* _dispose closes one end and arms no timer.
LEMMA DisposeAdds ==
  ASSUME TypeOK, NEW q \in Peers, Dispose(q)
  PROVE  /\ OnlyNewState(q, "closed") /\ NoNewNullTag
         /\ \A r \in Peers : t1'[r] = t1[r] \/ t1'[r] = "off"
<1>1. OnlyNewState(q, "closed") /\ NoNewNullTag
  BY SetStateAdds DEF Dispose, States
<1>2. \A r \in Peers : t1'[r] = t1[r] \/ t1'[r] = "off"
  BY DEF Dispose, CancelT1, TypeOK
<1>. QED BY <1>1, <1>2

\* Everything a step adds, to the fields, the network and the suspended
\* handlers, comes with its witness.
FieldsWitnessed ==
  \A r \in Peers : /\ known[r] => known'[r]
                   /\ verified[r] => verified'[r]
                   /\ verified'[r] => verified[r] \/ Mutual(r)'
                   /\ t1'[r] \in {t1[r], "off", "INIT"} \/ Mutual(r)'
                   /\ state'[r] \in Synchronised =>
                        state[r] \in Synchronised \/ Verified(r)'
PacketsWitnessed ==
  \A r \in Peers, j \in Kinds :
    net'[r][j] > 0 =>
      \/ net[r][j] > 0
      \/ /\ j = "INIT_ACK" => known'[Other(r)]
         /\ j = "COOKIE_ECHO" => Mutual(r)'
         /\ j = "COOKIE_ACK" => verified'[Other(r)]
PendingWitnessed ==
  \A r \in Peers, j \in Awaited :
    pending'[r][j] > 0 =>
      \/ pending[r][j] > 0
      \/ /\ j = "COOKIE_ECHO" => Mutual(r)'
         /\ j = "COOKIE_ACK" => verified'[r]
         /\ j \in {"SHUTDOWN", "SHUTDOWN_ACK"} => Verified(r)'
Witnessed ==
  FieldsWitnessed /\ PacketsWitnessed /\ PendingWitnessed /\ NoNewNullTag

\* A step that witnesses what it adds preserves the agreement.
LEMMA AgreementFromWitnesses ==
  ASSUME TypeOK, AgreementInv, Witnessed
  PROVE  AgreementInv'
<1> USE DEF Witnessed, FieldsWitnessed, PacketsWitnessed, PendingWitnessed
<1> SUFFICES ASSUME NEW p \in Peers
             PROVE  /\ net'[p]["INIT_ACK"] > 0 => known'[Other(p)]
                    /\ pending'[p]["COOKIE_ECHO"] > 0 => Mutual(p)'
                    /\ t1'[p] = "COOKIE_ECHO" => Mutual(p)'
                    /\ net'[p]["COOKIE_ECHO"] > 0 => Mutual(p)'
                    /\ verified'[p] => Mutual(p)'
                    /\ pending'[p]["COOKIE_ACK"] > 0 => verified'[p]
                    /\ net'[p]["COOKIE_ACK"] > 0 => verified'[Other(p)]
                    /\ pending'[p]["SHUTDOWN"] > 0 => Verified(p)'
                    /\ pending'[p]["SHUTDOWN_ACK"] > 0 => Verified(p)'
                    /\ state'[p] \in Synchronised => Verified(p)'
                    /\ "null tag" \notin raised'[p]
  BY DEF AgreementInv
<1> Other(p) \in Peers
  BY OtherFacts
<1>1. Mutual(p) => Mutual(p)'
  BY DEF Mutual
<1>2. Verified(p) => Verified(p)'
  BY DEF Verified
<1>3. net'[p]["INIT_ACK"] > 0 => known'[Other(p)]
  BY DEF AgreementInv, Kinds
<1>4. net'[p]["COOKIE_ECHO"] > 0 => Mutual(p)'
  BY <1>1 DEF AgreementInv, Kinds
<1>5. net'[p]["COOKIE_ACK"] > 0 => verified'[Other(p)]
  BY DEF AgreementInv, Kinds
<1>6. pending'[p]["COOKIE_ECHO"] > 0 => Mutual(p)'
  BY <1>1 DEF AgreementInv, Awaited, Kinds
<1>7. pending'[p]["COOKIE_ACK"] > 0 => verified'[p]
  BY DEF AgreementInv, Awaited, Kinds
<1>8. /\ pending'[p]["SHUTDOWN"] > 0 => Verified(p)'
      /\ pending'[p]["SHUTDOWN_ACK"] > 0 => Verified(p)'
  BY <1>2 DEF AgreementInv, Awaited, Kinds
<1>9. /\ t1'[p] = "COOKIE_ECHO" => Mutual(p)'
      /\ verified'[p] => Mutual(p)'
  BY <1>1 DEF AgreementInv
<1>10. state'[p] \in Synchronised => Verified(p)'
  BY <1>2 DEF AgreementInv
<1>11. "null tag" \notin raised'[p]
  BY DEF AgreementInv, NoNewNullTag
<1>. QED BY <1>3, <1>4, <1>5, <1>6, <1>7, <1>8, <1>9, <1>10, <1>11

(* The witnesses, handler by handler. *)

\* connect() starts the send of an INIT, which needs no witness.
LEMMA ConnectWitnessed ==
  ASSUME TypeOK, AgreementInv, NEW p \in Peers, Connect(p)
  PROVE  Witnessed
<1> USE OtherFacts
<1>1. FieldsWitnessed
  BY DEF Connect, FieldsWitnessed, Mutual, Verified, TypeOK
<1>2. PacketsWitnessed
  BY DEF Connect, PacketsWitnessed
<1>3. PendingWitnessed
  BY PushAdds
     DEF Connect, BeginSend, OnlyNewPending, PendingWitnessed, Awaited, Kinds
<1>4. NoNewNullTag
  BY DEF Connect, BeginSend, NoNewNullTag
<1>. QED BY <1>1, <1>2, <1>3, <1>4 DEF Witnessed

\* close() sends its SHUTDOWN from established, which has its witness.
LEMMA CloseWitnessed ==
  ASSUME TypeOK, AgreementInv, NEW p \in Peers, Close(p)
  PROVE  Witnessed
<1> USE OtherFacts
<1>1. FieldsWitnessed
  BY SetStateAdds
     DEF Close, OnlyNewState, AgreementInv, FieldsWitnessed, Mutual, Verified,
         TypeOK, Synchronised, States
<1>2. PacketsWitnessed
  BY DEF Close, PacketsWitnessed
<1>3. PendingWitnessed
  BY PushAdds
     DEF Close, OnlyNewPending, PendingWitnessed, AgreementInv, Verified,
         Awaited, Kinds, Synchronised, States
<1>4. NoNewNullTag
  BY SetStateAdds DEF Close, States
<1>. QED BY <1>1, <1>2, <1>3, <1>4 DEF Witnessed

\* abort() adds an ABORT, which needs no witness.
LEMMA AbortWitnessed ==
  ASSUME TypeOK, AgreementInv, NEW p \in Peers, Abort(p)
  PROVE  Witnessed
<1> USE OtherFacts
<1>1. FieldsWitnessed
  BY DEF Abort, FieldsWitnessed, Mutual, Verified, TypeOK
<1>2. PacketsWitnessed
  BY DEF Abort, PacketsWitnessed
<1>3. PendingWitnessed
  <2>1. pending' = pending
           \/ \E k \in {"ABORT", "ABORT_UNTAGGED"} : OnlyNewPending(p, k)
    BY PushAdds DEF Abort, BeginSend, Awaited, Kinds
  <2>. QED BY <2>1 DEF OnlyNewPending, PendingWitnessed, Awaited, Kinds
<1>4. NoNewNullTag
  BY DEF Abort, BeginSend, NoNewNullTag
<1>. QED BY <1>1, <1>2, <1>3, <1>4 DEF Witnessed

\* The INIT is sent and retransmitted without a witness.
LEMMA InitSentWitnessed ==
  ASSUME TypeOK, AgreementInv, NEW p \in Peers, InitSent(p)
  PROVE  Witnessed
<1> USE OtherFacts
<1>1. FieldsWitnessed
  BY StartT1Adds
     DEF InitSent, Finish, OnlyNewState, FieldsWitnessed, Mutual, Verified,
         TypeOK, Synchronised, States
<1>2. PacketsWitnessed
  BY SendAdds DEF InitSent, OnlyNewPacket, PacketsWitnessed, Kinds
<1>3. PendingWitnessed
  BY FinishAdds DEF InitSent, NoNewPending, PendingWitnessed, Awaited, Kinds
<1>4. NoNewNullTag
  BY StartT1Adds DEF InitSent, States
<1>. QED BY <1>1, <1>2, <1>3, <1>4 DEF Witnessed

\* The COOKIE-ECHO goes out, and into T1, with the two tags of its handler.
LEMMA CookieEchoSentWitnessed ==
  ASSUME TypeOK, AgreementInv, NEW p \in Peers, CookieEchoSent(p)
  PROVE  Witnessed
<1> USE OtherFacts
<1>1. FieldsWitnessed
  <2>1. Mutual(p) /\ Mutual(Other(p))
    BY DEF CookieEchoSent, Finish, AgreementInv, Mutual, Awaited, Kinds
  <2>2. known' = known /\ verified' = verified
    BY DEF CookieEchoSent, Finish
  <2>3. \A r \in Peers : t1'[r] \in {t1[r], "off", "INIT"} \/ Mutual(r)'
    BY <2>1, <2>2, StartT1Adds DEF CookieEchoSent, Mutual, States
  <2>4. \A r \in Peers : state'[r] \in Synchronised => state[r] \in Synchronised
    BY StartT1Adds DEF CookieEchoSent, OnlyNewState, Synchronised, States
  <2>. QED BY <2>2, <2>3, <2>4 DEF FieldsWitnessed
<1>2. PacketsWitnessed
  <2>1. Mutual(p) /\ Mutual(Other(p))
    BY DEF CookieEchoSent, Finish, AgreementInv, Mutual, Awaited, Kinds
  <2>2. Mutual(Other(p))'
    BY <2>1 DEF CookieEchoSent, Finish, Mutual
  <2>. QED BY <2>2, SendAdds
     DEF CookieEchoSent, OnlyNewPacket, PacketsWitnessed, Kinds
<1>3. PendingWitnessed
  BY FinishAdds DEF CookieEchoSent, NoNewPending, PendingWitnessed, Awaited, Kinds
<1>4. NoNewNullTag
  BY StartT1Adds DEF CookieEchoSent, States
<1>. QED BY <1>1, <1>2, <1>3, <1>4 DEF Witnessed

\* COOKIE-ACK and established rest on the cookie its handler verified.
LEMMA CookieAckSentWitnessed ==
  ASSUME TypeOK, AgreementInv, NEW p \in Peers, CookieAckSent(p)
  PROVE  Witnessed
<1> USE OtherFacts
<1>1. FieldsWitnessed
  BY SetStateAdds
     DEF CookieAckSent, Finish, OnlyNewState, AgreementInv, FieldsWitnessed,
         Mutual, Verified, TypeOK, Synchronised, States, Awaited, Kinds
<1>2. PacketsWitnessed
  <2>1. verified'[p]
    BY DEF CookieAckSent, Finish, AgreementInv, Awaited, Kinds
  <2>. QED BY <2>1, SendAdds
     DEF CookieAckSent, OnlyNewPacket, PacketsWitnessed, Kinds
<1>3. PendingWitnessed
  BY FinishAdds DEF CookieAckSent, NoNewPending, PendingWitnessed, Awaited, Kinds
<1>4. NoNewNullTag
  BY SetStateAdds DEF CookieAckSent, States
<1>. QED BY <1>1, <1>2, <1>3, <1>4 DEF Witnessed

\* shutdownSent rests on what its suspended handler rested on.
LEMMA ShutdownSentWitnessed ==
  ASSUME TypeOK, AgreementInv, NEW p \in Peers, ShutdownSent(p)
  PROVE  Witnessed
<1> USE OtherFacts
<1>1. FieldsWitnessed
  BY StartT2Adds
     DEF ShutdownSent, Finish, OnlyNewState, AgreementInv, FieldsWitnessed,
         Mutual, Verified, TypeOK, Synchronised, States, Awaited, Kinds
<1>2. PacketsWitnessed
  BY SendAdds DEF ShutdownSent, OnlyNewPacket, PacketsWitnessed, Kinds
<1>3. PendingWitnessed
  BY FinishAdds DEF ShutdownSent, NoNewPending, PendingWitnessed, Awaited, Kinds
<1>4. NoNewNullTag
  BY StartT2Adds DEF ShutdownSent, States
<1>. QED BY <1>1, <1>2, <1>3, <1>4 DEF Witnessed

\* shutdownAckSent rests on what its suspended handler rested on.
LEMMA ShutdownAckSentWitnessed ==
  ASSUME TypeOK, AgreementInv, NEW p \in Peers, ShutdownAckSent(p)
  PROVE  Witnessed
<1> USE OtherFacts
<1>1. FieldsWitnessed
  <2>1. Verified(p)
    BY DEF ShutdownAckSent, Finish, AgreementInv, Awaited, Kinds
  <2>2. known' = known /\ verified' = verified /\ t1' = t1
    BY DEF ShutdownAckSent, Finish
  <2>3. \A r \in Peers : state'[r] \in Synchronised =>
                          state[r] \in Synchronised \/ Verified(r)'
    BY <2>1, <2>2, SetStateAdds
       DEF ShutdownAckSent, OnlyNewState, Verified, States
  <2>. QED BY <2>2, <2>3 DEF FieldsWitnessed
<1>2. PacketsWitnessed
  BY SendAdds DEF ShutdownAckSent, OnlyNewPacket, PacketsWitnessed, Kinds
<1>3. PendingWitnessed
  BY FinishAdds
     DEF ShutdownAckSent, NoNewPending, PendingWitnessed, Awaited, Kinds
<1>4. NoNewNullTag
  BY SetStateAdds DEF ShutdownAckSent, States
<1>. QED BY <1>1, <1>2, <1>3, <1>4 DEF Witnessed

\* The end that completes the shutdown is closed.
LEMMA ShutdownCompleteSentWitnessed ==
  ASSUME TypeOK, AgreementInv, NEW p \in Peers, ShutdownCompleteSent(p)
  PROVE  Witnessed
<1> USE OtherFacts
<1>1. FieldsWitnessed
  BY DisposeAdds
     DEF ShutdownCompleteSent, Finish, OnlyNewState, FieldsWitnessed, Mutual,
         Verified, TypeOK, Synchronised, States
<1>2. PacketsWitnessed
  BY SendAdds DEF ShutdownCompleteSent, OnlyNewPacket, PacketsWitnessed, Kinds
<1>3. PendingWitnessed
  BY FinishAdds
     DEF ShutdownCompleteSent, NoNewPending, PendingWitnessed, Awaited, Kinds
<1>4. NoNewNullTag
  BY DisposeAdds DEF ShutdownCompleteSent
<1>. QED BY <1>1, <1>2, <1>3, <1>4 DEF Witnessed

\* The end that aborts is closed.
LEMMA AbortSentWitnessed ==
  ASSUME TypeOK, AgreementInv, NEW p \in Peers, AbortSent(p)
  PROVE  Witnessed
<1> USE OtherFacts
<1>1. FieldsWitnessed
  BY DisposeAdds
     DEF AbortSent, Finish, OnlyNewState, FieldsWitnessed, Mutual, Verified,
         TypeOK, Synchronised, States
<1>2. PacketsWitnessed
  BY SendAdds DEF AbortSent, OnlyNewPacket, PacketsWitnessed, Kinds
<1>3. PendingWitnessed
  BY FinishAdds DEF AbortSent, NoNewPending, PendingWitnessed, Awaited, Kinds
<1>4. NoNewNullTag
  BY DisposeAdds DEF AbortSent
<1>. QED BY <1>1, <1>2, <1>3, <1>4 DEF Witnessed

\* A send that throws adds nothing.
LEMMA SendFailsWitnessed ==
  ASSUME TypeOK, AgreementInv, NEW p \in Peers, NEW k \in Awaited, SendFails(p, k)
  PROVE  Witnessed
<1> USE OtherFacts
<1>1. FieldsWitnessed
  BY DEF SendFails, FieldsWitnessed, Mutual, Verified, TypeOK
<1>2. PacketsWitnessed
  BY DEF SendFails, PacketsWitnessed
<1>3. PendingWitnessed
  <2>1. pending \in [Peers -> [Awaited -> 0..MaxPending]]
    BY DEF TypeOK
  <2>. QED BY <2>1, BoundsAssumption DEF SendFails, PendingWitnessed
<1>4. NoNewNullTag
  BY DEF SendFails, NoNewNullTag
<1>. QED BY <1>1, <1>2, <1>3, <1>4 DEF Witnessed

\* The tag is learned before the INIT-ACK is sent.
LEMMA HandleInitWitnessed ==
  ASSUME TypeOK, AgreementInv, NEW p \in Peers, HandleInit(p)
  PROVE  Witnessed
<1> USE OtherFacts
<1>1. FieldsWitnessed
  BY DEF HandleInit, FieldsWitnessed, Mutual, Verified, TypeOK
<1>2. PacketsWitnessed
  <2>1. net \in [Peers -> [Kinds -> Nat]]
    BY DEF TypeOK
  <2>2. CASE state[p] = "closed"
    <3>1. known'[p]
      BY <2>2 DEF HandleInit, TypeOK
    <3>2. \A r \in Peers, j \in Kinds :
            net'[r][j] > 0 =>
              net[r][j] > 0 \/ (r = Other(p) /\ j = "INIT_ACK")
      BY <2>1, <2>2, BoundsAssumption
         DEF HandleInit, Receive, WithPacket, Taken, Kinds
    <3>. QED BY <3>1, <3>2 DEF PacketsWitnessed
  <2>3. CASE state[p] # "closed"
    BY <2>3, TakeAdds DEF HandleInit, NoNewPacket, PacketsWitnessed, Kinds
  <2>. QED BY <2>2, <2>3
<1>3. PendingWitnessed
  BY DEF HandleInit, PendingWitnessed
<1>4. NoNewNullTag
  BY DEF HandleInit, NoNewNullTag
<1>. QED BY <1>1, <1>2, <1>3, <1>4 DEF Witnessed

\* An INIT-ACK proves that the other end knows this one's tag.
LEMMA HandleInitAckWitnessed ==
  ASSUME TypeOK, AgreementInv, NEW p \in Peers, HandleInitAck(p)
  PROVE  Witnessed
<1> USE OtherFacts
<1>1. FieldsWitnessed
  BY DEF HandleInitAck, CancelT1, FieldsWitnessed, Mutual, Verified, TypeOK
<1>2. PacketsWitnessed
  BY TakeAdds DEF HandleInitAck, NoNewPacket, PacketsWitnessed, Kinds
<1>3. PendingWitnessed
  <2>1. CASE state[p] = "cookieWait"
    <3>1. known'[p] /\ known'[Other(p)]
      BY <2>1 DEF HandleInitAck, Receive, AgreementInv, TypeOK, Kinds
    <3>2. OnlyNewPending(p, "COOKIE_ECHO")
      BY <2>1, PushAdds DEF HandleInitAck, Awaited, Kinds
    <3>. QED BY <3>1, <3>2 DEF OnlyNewPending, PendingWitnessed, Mutual
  <2>2. CASE state[p] # "cookieWait"
    BY <2>2 DEF HandleInitAck, PendingWitnessed
  <2>. QED BY <2>1, <2>2
<1>4. NoNewNullTag
  BY DEF HandleInitAck, NoNewNullTag
<1>. QED BY <1>1, <1>2, <1>3, <1>4 DEF Witnessed

\* A COOKIE-ECHO proves both tags, and its cookie is verified here.
LEMMA HandleCookieEchoWitnessed ==
  ASSUME TypeOK, AgreementInv, NEW p \in Peers, HandleCookieEcho(p)
  PROVE  Witnessed
<1> USE OtherFacts
<1>1. FieldsWitnessed
  BY DEF HandleCookieEcho, AgreementInv, Receive, FieldsWitnessed, Mutual,
         Verified, TypeOK, Kinds
<1>2. PacketsWitnessed
  BY TakeAdds DEF HandleCookieEcho, NoNewPacket, PacketsWitnessed, Kinds
<1>3. PendingWitnessed
  <2>1. verified'[p]
    BY DEF HandleCookieEcho, TypeOK
  <2>2. pending' = pending \/ OnlyNewPending(p, "COOKIE_ACK")
    BY PushAdds DEF HandleCookieEcho, BeginSend, Awaited, Kinds
  <2>. QED BY <2>1, <2>2 DEF OnlyNewPending, PendingWitnessed
<1>4. NoNewNullTag
  BY DEF HandleCookieEcho, BeginSend, Receive, AgreementInv, Mutual,
         NoNewNullTag, Kinds
<1>. QED BY <1>1, <1>2, <1>3, <1>4 DEF Witnessed

\* A stale cookie adds nothing.
LEMMA HandleStaleCookieEchoWitnessed ==
  ASSUME TypeOK, AgreementInv, NEW p \in Peers, HandleStaleCookieEcho(p)
  PROVE  Witnessed
<1> USE OtherFacts
<1>1. FieldsWitnessed
  BY DEF HandleStaleCookieEcho, FieldsWitnessed, Mutual, Verified, TypeOK
<1>2. PacketsWitnessed
  BY TakeAdds DEF HandleStaleCookieEcho, NoNewPacket, PacketsWitnessed, Kinds
<1>3. PendingWitnessed
  BY DEF HandleStaleCookieEcho, PendingWitnessed
<1>4. NoNewNullTag
  BY DEF HandleStaleCookieEcho, Receive, AgreementInv, Mutual, NoNewNullTag, Kinds
<1>. QED BY <1>1, <1>2, <1>3, <1>4 DEF Witnessed

\* A COOKIE-ACK proves that the other end has verified its cookie.
LEMMA HandleCookieAckWitnessed ==
  ASSUME TypeOK, AgreementInv, NEW p \in Peers, HandleCookieAck(p)
  PROVE  Witnessed
<1> USE OtherFacts
<1>1. FieldsWitnessed
  <2>1. Verified(p)
    BY DEF HandleCookieAck, Receive, AgreementInv, Verified, Kinds
  <2>2. known' = known /\ verified' = verified
    BY DEF HandleCookieAck
  <2>3. \A r \in Peers : t1'[r] \in {t1[r], "off", "INIT"}
    BY DEF HandleCookieAck, CancelT1, TypeOK
  <2>4. state' = state \/ OnlyNewState(p, "established")
    BY SetStateAdds DEF HandleCookieAck, States
  <2>5. \A r \in Peers : state'[r] \in Synchronised =>
                          state[r] \in Synchronised \/ Verified(r)'
    BY <2>1, <2>2, <2>4 DEF OnlyNewState, Verified
  <2>. QED BY <2>2, <2>3, <2>5 DEF FieldsWitnessed
<1>2. PacketsWitnessed
  BY TakeAdds DEF HandleCookieAck, NoNewPacket, PacketsWitnessed, Kinds
<1>3. PendingWitnessed
  BY DEF HandleCookieAck, PendingWitnessed
<1>4. NoNewNullTag
  BY SetStateAdds DEF HandleCookieAck, NoNewNullTag, States
<1>. QED BY <1>1, <1>2, <1>3, <1>4 DEF Witnessed

\* A shutdown is accepted in established only, which has its witness.
LEMMA HandleShutdownWitnessed ==
  ASSUME TypeOK, AgreementInv, NEW p \in Peers, HandleShutdown(p)
  PROVE  Witnessed
<1> USE OtherFacts
<1>1. FieldsWitnessed
  <2>1. known' = known /\ verified' = verified /\ t1' = t1
    BY DEF HandleShutdown
  <2>2. \/ state' = state
        \/ OnlyNewState(p, "shutdownReceived") /\ state[p] = "established"
    BY SetStateAdds DEF HandleShutdown, States
  <2>3. \A r \in Peers : state'[r] \in Synchronised => state[r] \in Synchronised
    BY <2>2 DEF OnlyNewState, Synchronised, States
  <2>. QED BY <2>1, <2>3 DEF FieldsWitnessed
<1>2. PacketsWitnessed
  BY TakeAdds DEF HandleShutdown, NoNewPacket, PacketsWitnessed, Kinds
<1>3. PendingWitnessed
  <2>1. \/ pending' = pending
        \/ state[p] = "established" /\ OnlyNewPending(p, "SHUTDOWN_ACK")
    BY PushAdds DEF HandleShutdown, Awaited, Kinds
  <2>2. state[p] = "established" => Verified(p)'
    BY DEF HandleShutdown, AgreementInv, Verified, Synchronised, States
  <2>. QED BY <2>1, <2>2 DEF OnlyNewPending, PendingWitnessed
<1>4. NoNewNullTag
  BY SetStateAdds DEF HandleShutdown, NoNewNullTag, States
<1>. QED BY <1>1, <1>2, <1>3, <1>4 DEF Witnessed

\* The handler of a SHUTDOWN-ACK sends a chunk without witness.
LEMMA HandleShutdownAckWitnessed ==
  ASSUME TypeOK, AgreementInv, NEW p \in Peers, HandleShutdownAck(p)
  PROVE  Witnessed
<1> USE OtherFacts
<1>1. FieldsWitnessed
  BY DEF HandleShutdownAck, FieldsWitnessed, Mutual, Verified, TypeOK
<1>2. PacketsWitnessed
  BY TakeAdds DEF HandleShutdownAck, NoNewPacket, PacketsWitnessed, Kinds
<1>3. PendingWitnessed
  BY PushAdds
     DEF HandleShutdownAck, OnlyNewPending, PendingWitnessed, Awaited, Kinds
<1>4. NoNewNullTag
  BY DEF HandleShutdownAck, NoNewNullTag
<1>. QED BY <1>1, <1>2, <1>3, <1>4 DEF Witnessed

\* SHUTDOWN-COMPLETE and ABORT close the end.
LEMMA HandleDisposingWitnessed ==
  ASSUME TypeOK, AgreementInv, NEW p \in Peers,
         NEW k \in {"SHUTDOWN_COMPLETE", "ABORT"}, HandleDisposing(p, k)
  PROVE  Witnessed
<1> USE OtherFacts
<1>1. FieldsWitnessed
  BY DisposeAdds
     DEF HandleDisposing, OnlyNewState, FieldsWitnessed, Mutual, Verified,
         TypeOK, Synchronised, States
<1>2. PacketsWitnessed
  BY TakeAdds DEF HandleDisposing, NoNewPacket, PacketsWitnessed, Kinds
<1>3. PendingWitnessed
  BY DEF HandleDisposing, PendingWitnessed
<1>4. NoNewNullTag
  BY DisposeAdds DEF HandleDisposing
<1>. QED BY <1>1, <1>2, <1>3, <1>4 DEF Witnessed

\* T1 sends again what it holds, with the witness it holds it with.
LEMMA T1ExpiredWitnessed ==
  ASSUME TypeOK, AgreementInv, NEW p \in Peers, T1Expired(p)
  PROVE  Witnessed
<1> USE OtherFacts
<1>1. FieldsWitnessed
  BY SetStateAdds, DisposeAdds
     DEF T1Expired, CancelT1, OnlyNewState, FieldsWitnessed, Mutual, Verified,
         TypeOK, Synchronised, States
<1>2. PacketsWitnessed
  <2>1. CASE UNCHANGED net
    BY <2>1 DEF PacketsWitnessed
  <2>2. CASE Send(Other(p), t1[p])
    <3>1. t1[p] \in {"INIT", "COOKIE_ECHO"}
      BY DEF T1Expired, TypeOK
    <3>2. t1[p] = "COOKIE_ECHO" => Mutual(Other(p))'
      BY DEF T1Expired, AgreementInv, Mutual
    <3>3. OnlyNewPacket(Other(p), t1[p])
      BY <2>2, <3>1, SendAdds DEF Kinds
    <3>. QED BY <3>1, <3>2, <3>3 DEF OnlyNewPacket, PacketsWitnessed
  <2>. QED BY <2>1, <2>2 DEF T1Expired
<1>3. PendingWitnessed
  BY DEF T1Expired, PendingWitnessed
<1>4. NoNewNullTag
  BY SetStateAdds, DisposeAdds DEF T1Expired, NoNewNullTag, States
<1>. QED BY <1>1, <1>2, <1>3, <1>4 DEF Witnessed

\* T2 sends a SHUTDOWN, or gives up.
LEMMA T2ExpiredWitnessed ==
  ASSUME TypeOK, AgreementInv, NEW p \in Peers, T2Expired(p)
  PROVE  Witnessed
<1> USE OtherFacts
<1>1. FieldsWitnessed
  BY SetStateAdds, DisposeAdds
     DEF T2Expired, CancelT2, OnlyNewState, FieldsWitnessed, Mutual, Verified,
         TypeOK, Synchronised, States
<1>2. PacketsWitnessed
  <2>1. CASE UNCHANGED net
    BY <2>1 DEF PacketsWitnessed
  <2>2. CASE Send(Other(p), "SHUTDOWN")
    BY <2>2, SendAdds
      
         DEF T2Expired, OnlyNewPacket, PacketsWitnessed, AgreementInv, Mutual,
             TypeOK, Kinds
  <2>. QED BY <2>1, <2>2 DEF T2Expired
<1>3. PendingWitnessed
  BY DEF T2Expired, PendingWitnessed
<1>4. NoNewNullTag
  BY SetStateAdds, DisposeAdds DEF T2Expired, NoNewNullTag, States
<1>. QED BY <1>1, <1>2, <1>3, <1>4 DEF Witnessed

\* The network makes copies only of what is in flight.
LEMMA NetworkWitnessed ==
  ASSUME TypeOK, AgreementInv, NEW p \in Peers,
         NEW k \in Kinds, Lose(p, k) \/ Duplicate(p, k)
  PROVE  Witnessed
<1> USE OtherFacts
<1>1. FieldsWitnessed
  BY DEF Lose, Duplicate, FieldsWitnessed, Mutual, Verified, TypeOK
<1>2. PacketsWitnessed
  <2>1. CASE Lose(p, k)
    BY <2>1, TakeAdds DEF Lose, Receive, NoNewPacket, PacketsWitnessed
  <2>2. CASE Duplicate(p, k)
    <3>1. net \in [Peers -> [Kinds -> Nat]]
      BY DEF TypeOK
    <3>. QED BY <2>2, <3>1 DEF Duplicate, PacketsWitnessed
  <2>. QED BY <2>1, <2>2
<1>3. PendingWitnessed
  BY DEF Lose, Duplicate, PendingWitnessed
<1>4. NoNewNullTag
  BY DEF Lose, Duplicate, NoNewNullTag
<1>. QED BY <1>1, <1>2, <1>3, <1>4 DEF Witnessed

\* Every step witnesses what it adds.
LEMMA AgreementPreserved ==
  ASSUME TypeOK, AgreementInv, [Next]_vars
  PROVE  AgreementInv'
<1>1. CASE UNCHANGED vars
  BY <1>1 DEF vars, AgreementInv, Mutual, Verified
<1>2. CASE Next
  <2>1. Witnessed
    BY <1>2, NextSteps, ConnectWitnessed, CloseWitnessed, AbortWitnessed,
       InitSentWitnessed, CookieEchoSentWitnessed, CookieAckSentWitnessed,
       ShutdownSentWitnessed, ShutdownAckSentWitnessed,
       ShutdownCompleteSentWitnessed, AbortSentWitnessed, SendFailsWitnessed,
       HandleInitWitnessed, HandleInitAckWitnessed, HandleCookieEchoWitnessed,
       HandleStaleCookieEchoWitnessed, HandleCookieAckWitnessed,
       HandleShutdownWitnessed, HandleShutdownAckWitnessed,
       HandleDisposingWitnessed, T1ExpiredWitnessed, T2ExpiredWitnessed,
       NetworkWitnessed
  <2>. QED
    BY <2>1, AgreementFromWitnesses
<1>. QED BY <1>1, <1>2

\* The agreement holds in every reachable state.
LEMMA AgreementInvariant == Spec => []AgreementInv
<1>1. Init => AgreementInv
  BY OtherFacts
     DEF Init, AgreementInv, Mutual, Verified, Synchronised, States,
         Awaited, Kinds
<1>2. TypeOK /\ AgreementInv /\ [Next]_vars => AgreementInv'
  BY AgreementPreserved
<1>. QED BY <1>1, <1>2, TypeCorrect, PTL DEF Spec

\* An established end is never alone, whatever is lost, duplicated, reordered
\* or thrown, and whoever connects.
THEOREM EstablishedAgreement == Spec => []EstablishedIsMutual
<1>1. AgreementInv => EstablishedIsMutual
  <2> SUFFICES ASSUME AgreementInv, NEW p \in Peers, state[p] \in Synchronised
               PROVE  Mutual(p) /\ Verified(p)
    BY DEF EstablishedIsMutual, Mutual, Verified
  <2>1. Verified(p)
    BY DEF AgreementInv
  <2>2. Mutual(p)
    BY <2>1, OtherFacts DEF AgreementInv, Mutual, Verified
  <2>. QED BY <2>1, <2>2
<1>. QED BY <1>1, AgreementInvariant, PTL

\* No handler reads a remote tag that is not there.
THEOREM TagAlwaysKnown == Spec => []NoNullTag
<1>1. AgreementInv => NoNullTag
  BY DEF AgreementInv, NoNullTag
<1>. QED BY <1>1, AgreementInvariant, PTL
-----------------------------------------------------------------------------
(* Timed waits.  Every step is local to one end, and leaves the waits of that *)
(* end timed.                                                               *)

LocalTo(p) ==
  \A r \in Peers \ {p} :
    /\ state'[r] = state[r] /\ disposed'[r] = disposed[r]
    /\ t1'[r] = t1[r] /\ t2'[r] = t2[r] /\ pending'[r] = pending[r]

\* What dispose leaves is a disposed association.
LEMMA DisposeEnds ==
  ASSUME TypeOK, NEW p \in Peers, Dispose(p)
  PROVE  /\ disposed'[p]
         /\ \A r \in Peers \ {p} :
              /\ state'[r] = state[r] /\ disposed'[r] = disposed[r]
              /\ t1'[r] = t1[r] /\ t2'[r] = t2[r]
BY DEF Dispose, SetState, CancelT1, CancelT2, TypeOK

\* A new suspended handler takes none away.
LEMMA PushKeeps ==
  ASSUME TypeOK, NEW q \in Peers, NEW k \in Awaited,
         \/ pending' = pending
         \/ pending' = [pending EXCEPT ![q][k] = @ + 1]
  PROVE  \A j \in Awaited : pending[q][j] > 0 => pending'[q][j] > 0
<1>1. pending \in [Peers -> [Awaited -> 0..MaxPending]]
  BY DEF TypeOK
<1>. QED BY <1>1, BoundsAssumption

\* connect() waits for nothing before its INIT is out.
LEMMA ConnectTimed ==
  ASSUME TypeOK, NEW p \in Peers, Timed(p), failures' = 0, Connect(p)
  PROVE  LocalTo(p) /\ Timed(p)'
<1>1. LocalTo(p)
  BY DEF Connect, BeginSend, LocalTo, TypeOK
<1>2. Timed(p)'
  BY DEF Connect, BeginSend, Timed, TypeOK, Awaited, Kinds
<1>. QED BY <1>1, <1>2

\* close() waits for a send that will start T2.
LEMMA CloseTimed ==
  ASSUME TypeOK, NEW p \in Peers, Timed(p), failures' = 0, Close(p)
  PROVE  LocalTo(p) /\ Timed(p)'
<1>1. LocalTo(p)
  BY DEF Close, SetState, LocalTo, TypeOK
<1>2. Timed(p)'
  <2>1. CASE StateThrows(p, "shutdownPending")
    BY <2>1 DEF StateThrows, Close, Timed
  <2>2. CASE ~StateThrows(p, "shutdownPending")
    <3>1. pending'[p]["SHUTDOWN"] > 0
      <4>1. pending \in [Peers -> [Awaited -> 0..MaxPending]]
        BY DEF TypeOK
      <4>. QED BY <2>2, <4>1, BoundsAssumption DEF Close, Awaited, Kinds
    <3>2. state'[p] = "shutdownPending"
      BY DEF Close, SetState, TypeOK
    <3>. QED BY <3>1, <3>2 DEF Timed
  <2>. QED BY <2>1, <2>2
<1>. QED BY <1>1, <1>2

\* abort() leaves state and timers alone.
LEMMA AbortTimed ==
  ASSUME TypeOK, NEW p \in Peers, Timed(p), failures' = 0, Abort(p)
  PROVE  LocalTo(p) /\ Timed(p)'
<1>1. LocalTo(p)
  BY DEF Abort, BeginSend, LocalTo, TypeOK
<1>2. Timed(p)'
  <2>1. \A j \in Awaited : pending[p][j] > 0 => pending'[p][j] > 0
    BY PushKeeps DEF Abort, BeginSend, Awaited, Kinds
  <2>. QED BY <2>1 DEF Abort, Timed, Awaited, Kinds
<1>. QED BY <1>1, <1>2

\* cookieWait is entered together with T1, or with T1 running already.
LEMMA InitSentTimed ==
  ASSUME TypeOK, NEW p \in Peers, Timed(p), failures' = 0, InitSent(p)
  PROVE  LocalTo(p) /\ Timed(p)'
<1>1. LocalTo(p)
  BY DEF InitSent, Finish, SetStateAndStartT1, LocalTo, TypeOK
<1>2. Timed(p)'
  BY DEF InitSent, Finish, SetStateAndStartT1, StateThrows, Timed, TypeOK,
         Awaited, Kinds
<1>. QED BY <1>1, <1>2

\* cookieEchoed is entered together with T1, or with T1 running already.
LEMMA CookieEchoSentTimed ==
  ASSUME TypeOK, NEW p \in Peers, Timed(p), failures' = 0, CookieEchoSent(p)
  PROVE  LocalTo(p) /\ Timed(p)'
<1>1. LocalTo(p)
  BY DEF CookieEchoSent, Finish, SetStateAndStartT1, LocalTo, TypeOK
<1>2. Timed(p)'
  BY DEF CookieEchoSent, Finish, SetStateAndStartT1, StateThrows, Timed,
         TypeOK, Awaited, Kinds
<1>. QED BY <1>1, <1>2

\* An established end waits for nothing.
LEMMA CookieAckSentTimed ==
  ASSUME TypeOK, NEW p \in Peers, Timed(p), failures' = 0, CookieAckSent(p)
  PROVE  LocalTo(p) /\ Timed(p)'
<1>1. LocalTo(p)
  BY DEF CookieAckSent, Finish, SetState, LocalTo, TypeOK
<1>2. Timed(p)'
  BY DEF CookieAckSent, Finish, SetState, Timed, TypeOK, Awaited, Kinds
<1>. QED BY <1>1, <1>2

\* shutdownSent is entered together with T2, or with T2 running already.
LEMMA ShutdownSentTimed ==
  ASSUME TypeOK, NEW p \in Peers, Timed(p), failures' = 0, ShutdownSent(p)
  PROVE  LocalTo(p) /\ Timed(p)'
<1>1. LocalTo(p)
  BY DEF ShutdownSent, Finish, SetStateAndStartT2, LocalTo, TypeOK
<1>2. Timed(p)'
  BY DEF ShutdownSent, Finish, SetStateAndStartT2, StateThrows, Timed, TypeOK,
         Awaited, Kinds
<1>. QED BY <1>1, <1>2

\* shutdownAckSent is not among the timed waits.
LEMMA ShutdownAckSentTimed ==
  ASSUME TypeOK, NEW p \in Peers, Timed(p), failures' = 0, ShutdownAckSent(p)
  PROVE  LocalTo(p) /\ Timed(p)'
<1>1. LocalTo(p)
  BY DEF ShutdownAckSent, Finish, SetState, LocalTo, TypeOK
<1>2. Timed(p)'
  BY DEF ShutdownAckSent, Finish, SetState, Timed, TypeOK, Awaited, Kinds
<1>. QED BY <1>1, <1>2

\* The end that completes the shutdown is disposed of.
LEMMA ShutdownCompleteSentTimed ==
  ASSUME TypeOK, NEW p \in Peers, Timed(p), failures' = 0, ShutdownCompleteSent(p)
  PROVE  LocalTo(p) /\ Timed(p)'
<1>1. LocalTo(p)
  BY DisposeEnds DEF ShutdownCompleteSent, Finish, LocalTo, TypeOK
<1>2. Timed(p)'
  BY DisposeEnds DEF ShutdownCompleteSent, Timed
<1>. QED BY <1>1, <1>2

\* The end that aborts is disposed of.
LEMMA AbortSentTimed ==
  ASSUME TypeOK, NEW p \in Peers, Timed(p), failures' = 0, AbortSent(p)
  PROVE  LocalTo(p) /\ Timed(p)'
<1>1. LocalTo(p)
  BY DisposeEnds DEF AbortSent, Finish, LocalTo, TypeOK
<1>2. Timed(p)'
  BY DisposeEnds DEF AbortSent, Timed
<1>. QED BY <1>1, <1>2

\* No send throws while failures = 0.
LEMMA SendFailsTimed ==
  ASSUME TypeOK, NEW p \in Peers, Timed(p), failures' = 0,
         NEW k \in Awaited, SendFails(p, k)
  PROVE  LocalTo(p) /\ Timed(p)'
<1>1. LocalTo(p)
  BY DEF SendFails, LocalTo, TypeOK
<1>2. Timed(p)'
  <2>1. failures' > 0
    BY DEF SendFails, TypeOK
  <2>. QED BY <2>1
<1>. QED BY <1>1, <1>2

\* An INIT leaves state and timers alone.
LEMMA HandleInitTimed ==
  ASSUME TypeOK, NEW p \in Peers, Timed(p), failures' = 0, HandleInit(p)
  PROVE  LocalTo(p) /\ Timed(p)'
<1>1. LocalTo(p)
  BY DEF HandleInit, LocalTo, TypeOK
<1>2. Timed(p)'
  BY DEF HandleInit, Timed, TypeOK, Awaited, Kinds
<1>. QED BY <1>1, <1>2

\* T1 is cancelled together with the start of the COOKIE-ECHO's send.
LEMMA HandleInitAckTimed ==
  ASSUME TypeOK, NEW p \in Peers, Timed(p), failures' = 0, HandleInitAck(p)
  PROVE  LocalTo(p) /\ Timed(p)'
<1>1. LocalTo(p)
  BY DEF HandleInitAck, CancelT1, LocalTo, TypeOK
<1>2. Timed(p)'
  BY DEF HandleInitAck, CancelT1, Timed, TypeOK, Awaited, Kinds
<1>. QED BY <1>1, <1>2

\* A COOKIE-ECHO leaves state and timers alone.
LEMMA HandleCookieEchoTimed ==
  ASSUME TypeOK, NEW p \in Peers, Timed(p), failures' = 0, HandleCookieEcho(p)
  PROVE  LocalTo(p) /\ Timed(p)'
<1>1. LocalTo(p)
  BY DEF HandleCookieEcho, BeginSend, LocalTo, TypeOK
<1>2. Timed(p)'
  <2>1. \A j \in Awaited : pending[p][j] > 0 => pending'[p][j] > 0
    BY PushKeeps DEF HandleCookieEcho, BeginSend, Awaited, Kinds
  <2>. QED BY <2>1 DEF HandleCookieEcho, Timed, Awaited, Kinds
<1>. QED BY <1>1, <1>2

\* A stale cookie leaves state and timers alone.
LEMMA HandleStaleCookieEchoTimed ==
  ASSUME TypeOK, NEW p \in Peers, Timed(p), failures' = 0, HandleStaleCookieEcho(p)
  PROVE  LocalTo(p) /\ Timed(p)'
<1>1. LocalTo(p)
  BY DEF HandleStaleCookieEcho, LocalTo, TypeOK
<1>2. Timed(p)'
  BY DEF HandleStaleCookieEcho, Timed, TypeOK, Awaited, Kinds
<1>. QED BY <1>1, <1>2

\* T1 is cancelled together with the move to established.
LEMMA HandleCookieAckTimed ==
  ASSUME TypeOK, NEW p \in Peers, Timed(p), failures' = 0, HandleCookieAck(p)
  PROVE  LocalTo(p) /\ Timed(p)'
<1>1. LocalTo(p)
  BY DEF HandleCookieAck, SetState, CancelT1, LocalTo, TypeOK
<1>2. Timed(p)'
  BY DEF HandleCookieAck, SetState, CancelT1, Timed, TypeOK, Awaited, Kinds
<1>. QED BY <1>1, <1>2

\* The end that accepts a shutdown is not among the timed waits.
LEMMA HandleShutdownTimed ==
  ASSUME TypeOK, NEW p \in Peers, Timed(p), failures' = 0, HandleShutdown(p)
  PROVE  LocalTo(p) /\ Timed(p)'
<1>1. LocalTo(p)
  BY DEF HandleShutdown, SetState, LocalTo, TypeOK
<1>2. Timed(p)'
  BY DEF HandleShutdown, SetState, Timed, TypeOK, Awaited, Kinds
<1>. QED BY <1>1, <1>2

\* T2 is cancelled together with the start of the last chunk's send.
LEMMA HandleShutdownAckTimed ==
  ASSUME TypeOK, NEW p \in Peers, Timed(p), failures' = 0, HandleShutdownAck(p)
  PROVE  LocalTo(p) /\ Timed(p)'
<1>1. LocalTo(p)
  BY DEF HandleShutdownAck, CancelT2, LocalTo, TypeOK
<1>2. Timed(p)'
  BY DEF HandleShutdownAck, CancelT2, Timed, TypeOK, Awaited, Kinds
<1>. QED BY <1>1, <1>2

\* The end that is closed is disposed of.
LEMMA HandleDisposingTimed ==
  ASSUME TypeOK, NEW p \in Peers, Timed(p), failures' = 0,
         NEW k \in {"SHUTDOWN_COMPLETE", "ABORT"}, HandleDisposing(p, k)
  PROVE  LocalTo(p) /\ Timed(p)'
<1>1. LocalTo(p)
  BY DisposeEnds DEF HandleDisposing, LocalTo, TypeOK
<1>2. Timed(p)'
  BY DisposeEnds DEF HandleDisposing, Timed
<1>. QED BY <1>1, <1>2

\* T1 is armed again, or the end is disposed of or closed.
LEMMA T1ExpiredTimed ==
  ASSUME TypeOK, NEW p \in Peers, Timed(p), failures' = 0, T1Expired(p)
  PROVE  LocalTo(p) /\ Timed(p)'
<1>1. LocalTo(p)
  BY DisposeEnds DEF T1Expired, SetState, CancelT1, LocalTo, TypeOK
<1>2. Timed(p)'
  BY DisposeEnds DEF T1Expired, SetState, CancelT1, StateThrows, Timed, TypeOK,
                     Awaited, Kinds
<1>. QED BY <1>1, <1>2

\* T2 is armed again, or the end is disposed of or closed.
LEMMA T2ExpiredTimed ==
  ASSUME TypeOK, NEW p \in Peers, Timed(p), failures' = 0, T2Expired(p)
  PROVE  LocalTo(p) /\ Timed(p)'
<1>1. LocalTo(p)
  BY DisposeEnds DEF T2Expired, SetState, CancelT2, LocalTo, TypeOK
<1>2. Timed(p)'
  BY DisposeEnds DEF T2Expired, SetState, CancelT2, StateThrows, Timed, TypeOK,
                     Awaited, Kinds
<1>. QED BY <1>1, <1>2

\* The network touches neither end.
LEMMA NetworkTimed ==
  ASSUME TypeOK, NEW p \in Peers, Timed(p), failures' = 0,
         NEW k \in Kinds, Lose(p, k) \/ Duplicate(p, k)
  PROVE  LocalTo(p) /\ Timed(p)'
<1>1. LocalTo(p)
  BY DEF Lose, Duplicate, LocalTo, TypeOK
<1>2. Timed(p)'
  BY DEF Lose, Duplicate, Timed, TypeOK, Awaited, Kinds
<1>. QED BY <1>1, <1>2

\* A step of one end keeps its waits timed and leaves the other's as they were.
LEMMA TimedPreserved ==
  ASSUME TypeOK, WaitIsTimed, [Next]_vars
  PROVE  WaitIsTimed'
<1>1. CASE UNCHANGED vars
  BY <1>1 DEF vars, WaitIsTimed, Timed
<1>2. CASE Next
  <2> SUFFICES ASSUME failures' = 0
               PROVE  \A r \in Peers : Timed(r)'
    BY DEF WaitIsTimed
  <2>1. failures = 0
    <3>1. failures' = failures \/ failures' = failures + 1
      BY <1>2 DEF Next, SendCompletes, HandleChunk, Connect, Close, Abort,
            InitSent, CookieEchoSent, CookieAckSent, ShutdownSent,
            ShutdownAckSent, ShutdownCompleteSent, AbortSent, Finish, SendFails,
            HandleInit, HandleInitAck, HandleCookieEcho, HandleStaleCookieEcho,
            HandleCookieAck, HandleShutdown, HandleShutdownAck, HandleDisposing,
            T1Expired, T2Expired, Lose, Duplicate
    <3>. QED BY <3>1 DEF TypeOK
  <2>2. \A r \in Peers : Timed(r)
    BY <2>1 DEF WaitIsTimed
  <2>3. PICK p \in Peers : LocalTo(p) /\ Timed(p)'
    BY <1>2, <2>2, NextSteps, ConnectTimed, CloseTimed, AbortTimed, InitSentTimed,
       CookieEchoSentTimed, CookieAckSentTimed, ShutdownSentTimed,
       ShutdownAckSentTimed, ShutdownCompleteSentTimed, AbortSentTimed,
       SendFailsTimed, HandleInitTimed, HandleInitAckTimed,
       HandleCookieEchoTimed, HandleStaleCookieEchoTimed, HandleCookieAckTimed,
       HandleShutdownTimed, HandleShutdownAckTimed, HandleDisposingTimed,
       T1ExpiredTimed, T2ExpiredTimed, NetworkTimed
  <2>4. ASSUME NEW r \in Peers \ {p} PROVE Timed(r)'
    BY <2>2, <2>3, <2>4 DEF LocalTo, Timed
  <2>. QED BY <2>3, <2>4
<1>. QED BY <1>1, <1>2

\* Whatever is lost, duplicated or reordered, an end that waits has a timer
\* running or about to be started, unless a send has thrown.
THEOREM WaitsAreTimed == Spec => []WaitIsTimed
<1>1. Init => WaitIsTimed
  BY DEF Init, WaitIsTimed, Timed
<1>2. TypeOK /\ WaitIsTimed /\ [Next]_vars => WaitIsTimed'
  BY TimedPreserved
<1>. QED BY <1>1, <1>2, TypeCorrect, PTL DEF Spec
=============================================================================
