--------------------------- MODULE NaturalNumbers ---------------------------
(***************************************************************************)
(* Lemmas about natural numbers that the proofs share: induction with a set *)
(* in the place of a predicate (the set of the numbers that have the        *)
(* property is named, and shown to hold 0 and the successor of each of its  *)
(* elements), and remainders, for ring buffers and pages.                   *)
(***************************************************************************)
EXTENDS Integers, TLAPS, WellFoundedInduction

\* A set of natural numbers that is not empty has a least element.
LEMMA LeastNatural ==
  ASSUME NEW T, T \subseteq Nat, T /= {}
  PROVE  \E n \in T : \A m \in T : n <= m
<1> DEFINE R == OpToRel(<, Nat)
<1>1. IsWellFoundedOn(R, Nat)
  BY NatLessThanWellFounded
<1>2. R = {ss \in Nat \X Nat : ss[1] < ss[2]}
  BY DEF OpToRel
<1> HIDE DEF R
<1>3. PICK n \in T : \A m \in T : ~(<<m, n>> \in R)
  BY <1>1, WFMin
<1>4. ASSUME NEW m \in T PROVE n <= m
  <2>1. m \in Nat /\ n \in Nat
    OBVIOUS
  <2>2. <<m, n>> \notin {ss \in Nat \X Nat : ss[1] < ss[2]}
    BY <1>2, <1>3
  <2>3. ~(m < n)
    BY <2>1, <2>2
  <2> QED BY <2>1, <2>3
<1> QED BY <1>4

\* What holds 0 and every successor of its elements holds all natural numbers.
LEMMA SetInduction ==
  ASSUME NEW T, 0 \in T, \A n \in Nat : n \in T => n + 1 \in T
  PROVE  \A n \in Nat : n \in T
<1> SUFFICES ASSUME Nat \ T /= {} PROVE FALSE
  OBVIOUS
<1>1. PICK n \in Nat \ T : \A m \in Nat \ T : n <= m
  <2> Nat \ T \subseteq Nat
    OBVIOUS
  <2> QED BY LeastNatural
<1>2. n /= 0 /\ n - 1 \in Nat /\ n - 1 \in T /\ n - 1 + 1 = n
  BY <1>1
<1> QED BY <1>1, <1>2

\* The values g of a loop of N turns: v at its start, and turn i makes step[i][u]
\* of u.
ValuesOfLoop(N, V, v, step, g) ==
  g \in [0 .. N -> V] /\ g[0] = v /\ \A i \in 1 .. N : g[i] = step[i][g[i - 1]]

\* Such a loop has values: what a function defined by recursion needs to exist.
LEMMA LoopRuns ==
  ASSUME NEW N \in Nat, NEW V, NEW v \in V, NEW step \in [1 .. N -> [V -> V]]
  PROVE  \E g : ValuesOfLoop(N, V, v, step, g)
<1> DEFINE Runs(n, g) == /\ g \in [0 .. n -> V] /\ g[0] = v
                         /\ \A i \in 1 .. n : g[i] = step[i][g[i - 1]]
           T == {n \in Nat : n <= N => \E g : Runs(n, g)}
<1>1. 0 \in T
  <2>1. PICK g : g = [i \in 0 .. 0 |-> v]
    OBVIOUS
  <2>2. Runs(0, g)
    BY <2>1
  <2> QED BY <2>2
<1>2. ASSUME NEW n \in Nat, n \in T PROVE n + 1 \in T
  <2> SUFFICES ASSUME n + 1 <= N PROVE \E g : Runs(n + 1, g)
    OBVIOUS
  <2>1. n <= N /\ n + 1 \in 1 .. N /\ n \in 0 .. n
    OBVIOUS
  <2>2. PICK g : Runs(n, g)
    BY <1>2, <2>1
  <2>3. PICK u \in V : u = step[n + 1][g[n]]
    BY <2>1, <2>2
  <2>4. PICK h : h = [i \in 0 .. (n + 1) |-> IF i = n + 1 THEN u ELSE g[i]]
    OBVIOUS
  <2>5. h \in [0 .. (n + 1) -> V] /\ h[0] = v /\ h[n + 1] = u /\ \A i \in 0 .. n : h[i] = g[i]
    BY <2>2, <2>4
  <2>6. ASSUME NEW i \in 1 .. (n + 1) PROVE h[i] = step[i][h[i - 1]]
    <3>1. CASE i = n + 1
      BY <2>1, <2>3, <2>5, <3>1
    <3>2. CASE i \in 1 .. n
      <4>1. i \in 0 .. n /\ i - 1 \in 0 .. n
        BY <3>2
      <4> QED BY <2>2, <2>5, <3>2, <4>1
    <3> QED BY <3>1, <3>2
  <2> QED BY <2>5, <2>6
<1>3. N \in T
  <2>1. \A n \in Nat : n \in T
    <3> HIDE DEF T
    <3> QED BY <1>1, <1>2, SetInduction
  <2> QED BY <2>1
<1> QED BY <1>3 DEF ValuesOfLoop

\* What holds at the start of a loop of N turns and from each turn to the next
\* holds after all of them.
LEMMA LoopInduction ==
  ASSUME NEW N \in Nat, NEW T, 0 \in T, \A i \in 1 .. N : i - 1 \in T => i \in T
  PROVE  \A i \in 0 .. N : i \in T
<1> DEFINE U == {i \in Nat : i <= N => i \in T}
<1>1. 0 \in U
  OBVIOUS
<1>2. ASSUME NEW i \in Nat, i \in U PROVE i + 1 \in U
  <2> SUFFICES ASSUME i + 1 <= N PROVE i + 1 \in T
    OBVIOUS
  <2>1. i \in T /\ i + 1 \in 1 .. N /\ i + 1 - 1 = i
    BY <1>2
  <2> QED BY <2>1
<1>3. \A i \in Nat : i \in U
  <2> HIDE DEF U
  <2> QED BY <1>1, <1>2, SetInduction
<1> QED BY <1>3
-----------------------------------------------------------------------------
(* Remainders. *)

LEMMA QuotientAndRemainder ==
  ASSUME NEW S \in Nat \ {0}, NEW a \in Int
  PROVE  a % S \in 0 .. (S - 1) /\ a \div S \in Int /\ a = S * (a \div S) + (a % S)
  OBVIOUS

\* A multiple of S between -S and S is 0.
LEMMA SmallMultiple ==
  ASSUME NEW S \in Nat \ {0}, NEW k \in Int, NEW d \in Int, d = S * k, d < S, -S < d
  PROVE  k = 0 /\ d = 0
<1>1. CASE k >= 1
  <2>1. S * k >= S
    BY <1>1
  <2> QED BY <2>1
<1>2. CASE k <= -1
  <2>1. S * k <= -S
    BY <1>2
  <2> QED BY <2>1
<1> QED BY <1>1, <1>2

\* The remainder is the only number below S that differs by a multiple of S.
LEMMA RemainderUnique ==
  ASSUME NEW S \in Nat \ {0}, NEW q \in Int, NEW r \in 0 .. (S - 1), NEW a \in Int,
         a = S * q + r
  PROVE  a % S = r
<1>1. PICK p \in Int, t \in 0 .. (S - 1) : a = S * p + t /\ t = a % S
  BY QuotientAndRemainder
<1>2. S * (q - p) = t - r
  <2> DEFINE x == S * q
             y == S * p
  <2>1. x \in Int /\ y \in Int /\ a = x + r /\ a = y + t
    BY <1>1
  <2>2. S * (q - p) = x - y
    BY <1>1
  <2> HIDE DEF x, y
  <2> QED BY <2>1, <2>2
<1>3. t - r = 0
  <2>1. q - p \in Int /\ t - r \in Int /\ t - r < S /\ -S < t - r
    BY <1>1
  <2> QED BY <1>2, <2>1, SmallMultiple
<1>4. t = r
  BY <1>3
<1>5. t = a % S
  BY <1>1
<1> QED BY <1>4, <1>5

\* A multiple of S does not change the remainder.
LEMMA RemainderOfSum ==
  ASSUME NEW S \in Nat \ {0}, NEW w \in Int, w % S = 0, NEW a \in Int
  PROVE  (w + a) % S = a % S
<1>1. PICK q \in Int : w = S * q + 0
  BY QuotientAndRemainder
<1>2. PICK p \in Int, t \in 0 .. (S - 1) : a = S * p + t /\ t = a % S
  BY QuotientAndRemainder
<1>3. w + a = S * (q + p) + t
  <2> DEFINE x == S * q
             y == S * p
  <2>1. x \in Int /\ y \in Int /\ w = x /\ a = y + t
    BY <1>1, <1>2
  <2>2. S * (q + p) = x + y
    BY <1>1, <1>2
  <2> HIDE DEF x, y
  <2> QED BY <2>1, <2>2
<1>4. q + p \in Int /\ w + a \in Int
  BY <1>1, <1>2
<1>5. (w + a) % S = t
  <2> DEFINE c == w + a
             k == q + p
  <2>1. c \in Int /\ k \in Int /\ c = S * k + t
    BY <1>3, <1>4
  <2> HIDE DEF c, k
  <2>2. c % S = t
    BY <2>1, RemainderUnique
  <2> QED BY <2>2 DEF c
<1>6. t = a % S
  BY <1>2
<1> QED BY <1>5, <1>6

\* Numbers less than S apart have different remainders.
LEMMA RemaindersDiffer ==
  ASSUME NEW S \in Nat \ {0}, NEW a \in Int, NEW b \in Int, a - b < S, b - a < S, a % S = b % S
  PROVE  a = b
<1>1. PICK p \in Int, r \in 0 .. (S - 1) : a = S * p + r /\ r = a % S
  BY QuotientAndRemainder
<1>2. PICK q \in Int, t \in 0 .. (S - 1) : b = S * q + t /\ t = b % S
  BY QuotientAndRemainder
<1>3. a - b = S * (p - q)
  <2> DEFINE x == S * p
             y == S * q
  <2>1. x \in Int /\ y \in Int /\ a = x + r /\ b = y + r
    BY <1>1, <1>2
  <2>2. S * (p - q) = x - y
    BY <1>1, <1>2
  <2> HIDE DEF x, y
  <2> QED BY <2>1, <2>2
<1>4. p - q \in Int /\ a - b \in Int
  BY <1>1, <1>2
<1>5. a - b < S /\ -S < a - b
  OBVIOUS
<1> QED BY <1>3, <1>4, <1>5, SmallMultiple
-----------------------------------------------------------------------------
(* Quotients. *)

LEMMA MultiplesOrdered ==
  ASSUME NEW S \in Nat \ {0}, NEW k \in Int, NEW m \in Int, S * k < S * m
  PROVE  k < m
<1>1. CASE k >= m
  <2>1. PICK d \in Nat : k = m + d
    BY <1>1
  <2>2. S * k = S * m + S * d /\ S * d \in Nat /\ S * m \in Int
    BY <2>1
  <2> QED BY <2>2
<1> QED BY <1>1

\* The quotient is the largest number whose multiple is not above a.
LEMMA QuotientAtLeast ==
  ASSUME NEW S \in Nat \ {0}, NEW a \in Int, NEW m \in Int, S * m <= a
  PROVE  m <= a \div S
<1>1. PICK q \in Int, r \in 0 .. (S - 1) : a = S * q + r /\ q = a \div S
  <2>1. a % S \in 0 .. (S - 1) /\ a \div S \in Int /\ a = S * (a \div S) + (a % S)
    BY QuotientAndRemainder
  <2> QED BY <2>1
<1>2. S * m < S * (q + 1)
  <2> DEFINE x == S * q
             y == S * m
  <2>1. x \in Int /\ y \in Int /\ a = x + r /\ y <= a /\ S * (q + 1) = x + S
    BY <1>1
  <2> HIDE DEF x, y
  <2>2. y < x + S
    BY <2>1
  <2> QED BY <2>1, <2>2 DEF y
<1>3. m < q + 1
  <2> DEFINE k == q + 1
  <2>1. k \in Int /\ S * m < S * k
    BY <1>1, <1>2
  <2> HIDE DEF k
  <2>2. m < k
    BY <2>1, MultiplesOrdered
  <2> QED BY <2>2 DEF k
<1>4. m <= q
  BY <1>3
<1>5. q = a \div S
  BY <1>1
<1> QED BY <1>4, <1>5

LEMMA QuotientAtMost ==
  ASSUME NEW S \in Nat \ {0}, NEW a \in Int, NEW m \in Int, a < S * m + S
  PROVE  a \div S <= m
<1>1. PICK q \in Int, r \in 0 .. (S - 1) : a = S * q + r /\ q = a \div S
  <2>1. a % S \in 0 .. (S - 1) /\ a \div S \in Int /\ a = S * (a \div S) + (a % S)
    BY QuotientAndRemainder
  <2> QED BY <2>1
<1>2. S * q < S * (m + 1)
  <2> DEFINE x == S * q
             y == S * m
  <2>1. x \in Int /\ y \in Int /\ a = x + r /\ a < y + S /\ S * (m + 1) = y + S
    BY <1>1
  <2> HIDE DEF x, y
  <2>2. x < y + S
    BY <2>1
  <2> QED BY <2>1, <2>2 DEF x
<1>3. q < m + 1
  <2> DEFINE k == m + 1
  <2>1. k \in Int /\ S * q < S * k
    BY <1>1, <1>2
  <2> HIDE DEF k
  <2>2. q < k
    BY <1>1, <2>1, MultiplesOrdered
  <2> QED BY <2>2 DEF k
<1>4. q <= m
  BY <1>3
<1>5. q = a \div S
  BY <1>1
<1> QED BY <1>4, <1>5

LEMMA RemainderAtMost ==
  ASSUME NEW S \in Nat \ {0}, NEW a \in Nat
  PROVE  a % S \in Nat /\ a % S <= a
<1>1. PICK q \in Int, r \in 0 .. (S - 1) : a = S * q + r /\ q = a \div S /\ r = a % S
  <2>1. a % S \in 0 .. (S - 1) /\ a \div S \in Int /\ a = S * (a \div S) + (a % S)
    BY QuotientAndRemainder
  <2> QED BY <2>1
<1>2. q >= 0
  <2>1. CASE q < 0
    <3>1. S * q <= -S
      BY <2>1
    <3> QED BY <1>1, <3>1
  <2> QED BY <2>1
<1>3. PICK d \in Nat : d = S * q
  BY <1>2
<1>4. a = d + r
  BY <1>1, <1>3
<1>5. r \in Nat /\ r <= a
  BY <1>4
<1> QED BY <1>1, <1>5
=============================================================================
