------------------------ MODULE Fat16DirectoryProofs ------------------------
(***************************************************************************)
(* Proofs about disk streams and about reading a directory through one, for *)
(* sectors and items of every size and directories of every length.         *)
(***************************************************************************)
EXTENDS Fat16Directory, NaturalNumbers, FiniteSetTheorems

(* Reads of a disk stream. *)

\* The states of the recursion.
ReadStates == [at : Int, asked : Int, bytes : Int, ended : BOOLEAN]

LEMMA SectorOffsets ==
  ASSUME NEW p \in Int
  PROVE  /\ SectorSize \in Nat \ {0} /\ Offset(p) \in 0 .. (SectorSize - 1)
         /\ p \in Nat => Offset(p) <= p
         /\ Offset(p - Offset(p)) = 0 /\ Offset(p + SectorSize - Offset(p)) = 0
<1>1. SectorSize \in Nat \ {0}
  BY DiskStreamerAssumption
<1>2. PICK q \in Int, r \in 0 .. (SectorSize - 1) : r = p % SectorSize /\ p = SectorSize * q + r
  BY <1>1, QuotientAndRemainder
<1>3. PICK x \in Int : x = SectorSize * q
  BY <1>1
<1>4. p - r = SectorSize * q + 0 /\ p + SectorSize - r = SectorSize * (q + 1) + 0
  BY <1>1, <1>2
<1>5. 0 \in 0 .. (SectorSize - 1) /\ q + 1 \in Int /\ p - r \in Int /\ p + SectorSize - r \in Int
  BY <1>1, <1>2
<1>6. (p - r) % SectorSize = 0 /\ (p + SectorSize - r) % SectorSize = 0
  BY <1>1, <1>4, <1>5, RemainderUnique
<1>7. p \in Nat => r <= p
  BY <1>1, <1>2, RemainderAtMost
<1> QED BY <1>1, <1>2, <1>6, <1>7 DEF Offset

\* The recursion, call by call.
LEMMA ReadLoopCalls ==
  ASSUME NEW p \in Nat, NEW t \in Nat
  PROVE  \E g \in [0 .. (t + 1) -> ReadStates] :
           /\ g[0] = [at |-> p, asked |-> t, bytes |-> 0, ended |-> FALSE]
           /\ \A k \in 1 .. (t + 1) : g[k] = ReadCall(g[k - 1])
           /\ ReadLoop(p, t) = g[t + 1]
<1> DEFINE N == t + 1
           z == [at |-> p, asked |-> t, bytes |-> 0, ended |-> FALSE]
           Loop(g) == g = [k \in 0 .. N |-> IF k = 0 THEN z ELSE ReadCall(g[k - 1])]
           m == CHOOSE g : Loop(g)
<1>1. N \in Nat
  OBVIOUS
<1>2. ReadLoop(p, t) = m[N]
  BY DEF ReadLoop
<1>3. z \in ReadStates
  BY DEF ReadStates
<1>4. ASSUME NEW s \in ReadStates PROVE ReadCall(s) \in ReadStates
  <2>1. Offset(s.at) \in Int /\ SectorSize \in Int
    BY SectorOffsets DEF ReadStates
  <2> QED BY <2>1 DEF ReadStates, ReadCall, Overflow
<1>5. PICK call : call = [k \in 1 .. N |-> [s \in ReadStates |-> ReadCall(s)]]
  OBVIOUS
<1> HIDE DEF z, N
<1>6. call \in [1 .. N -> [ReadStates -> ReadStates]]
  BY <1>4, <1>5
<1>7. PICK g \in [0 .. N -> ReadStates] : g[0] = z /\ \A k \in 1 .. N : g[k] = call[k][g[k - 1]]
  <2>1. PICK g : ValuesOfLoop(N, ReadStates, z, call, g)
    BY <1>1, <1>3, <1>6, LoopRuns
  <2> QED BY <2>1 DEF ValuesOfLoop
<1>8. ASSUME NEW k \in 1 .. N PROVE g[k] = ReadCall(g[k - 1])
  <2>1. g[k - 1] \in ReadStates
    BY <1>1, <1>7
  <2> QED BY <1>5, <1>7, <2>1
<1>9. Loop(g)
  <2>1. \A k \in 0 .. N : g[k] = IF k = 0 THEN z ELSE ReadCall(g[k - 1])
    BY <1>1, <1>7, <1>8
  <2> QED BY <1>7, <2>1
<1>10. Loop(m)
  <2> HIDE DEF Loop
  <2> QED BY <1>9
<1> HIDE DEF m
<1>11. m[0] = z /\ \A k \in 1 .. N : m[k] = ReadCall(m[k - 1])
  <2>1. \A k \in 0 .. N : m[k] = IF k = 0 THEN z ELSE ReadCall(m[k - 1])
    BY <1>10
  <2>2. 0 \in 0 .. N /\ \A k \in 1 .. N : k \in 0 .. N /\ k /= 0
    BY <1>1
  <2> QED BY <2>1, <2>2
<1>12. m \in [0 .. N -> ReadStates]
  <2> DEFINE T == {k \in 0 .. N : m[k] \in ReadStates}
  <2>1. 0 \in T
    BY <1>1, <1>3, <1>11
  <2>2. \A k \in 1 .. N : k - 1 \in T => k \in T
    BY <1>1, <1>4, <1>11
  <2>3. \A k \in 0 .. N : k \in T
    <3> HIDE DEF T
    <3> QED BY <1>1, <2>1, <2>2, LoopInduction
  <2> QED BY <1>10, <2>3
<1> QED BY <1>2, <1>11, <1>12 DEF N, z

\* What holds after k calls.  While the recursion goes on, the stream stands at
\* the start of a sector behind the bytes copied so far, and what the next call is
\* asked for has been lessened by the bytes before the position in the first
\* sector too; it can be below zero after the first call only.
Reading(p, t, k, s) ==
  IF s.ended THEN s.bytes = Delivered(p, t) /\ s.at = PositionAfter(p, t)
  ELSE IF k = 0 THEN s.at = p /\ s.asked = t /\ s.bytes = 0
  ELSE /\ Overflow(p, t)
       /\ s.at = p + s.bytes /\ Offset(s.at) = 0
       /\ s.asked = t - Offset(p) - s.bytes
       /\ s.asked <= t - k
       /\ IF k = 1 THEN s.asked = t - SectorSize ELSE t > SectorSize /\ s.asked >= 0

\* A call of a recursion that has not ended.
LEMMA ReadCallFields ==
  ASSUME NEW s \in ReadStates, ~s.ended
  PROVE  /\ ReadCall(s).asked = s.asked - SectorSize
         /\ Overflow(s.at, s.asked) =>
              /\ ~ReadCall(s).ended
              /\ ReadCall(s).at = s.at + SectorSize - Offset(s.at)
              /\ ReadCall(s).bytes = s.bytes + SectorSize - Offset(s.at)
         /\ ~Overflow(s.at, s.asked) =>
              /\ ReadCall(s).ended
              /\ ReadCall(s).at = s.at + s.asked
              /\ ReadCall(s).bytes = s.bytes + IF s.asked > 0 THEN s.asked ELSE 0
<1>1. /\ s.at \in Int /\ s.asked \in Int /\ s.bytes \in Int
      /\ SectorSize \in Nat \ {0} /\ Offset(s.at) \in 0 .. (SectorSize - 1)
  BY SectorOffsets DEF ReadStates
<1>2. CASE Overflow(s.at, s.asked)
  <2>1. PICK h \in Nat \ {0} : h = SectorSize - Offset(s.at)
    BY <1>1
  <2>2. ~ReadCall(s).ended /\ ReadCall(s).asked = s.asked - SectorSize
    BY <1>1, <1>2 DEF ReadCall
  <2>3. ReadCall(s).at = s.at + h
    BY <1>1, <1>2, <2>1 DEF ReadCall
  <2>4. ReadCall(s).bytes = s.bytes + h
    BY <1>1, <1>2, <2>1 DEF ReadCall
  <2> QED BY <1>1, <1>2, <2>1, <2>2, <2>3, <2>4
<1>3. CASE ~Overflow(s.at, s.asked)
  BY <1>1, <1>3 DEF ReadCall
<1> QED BY <1>2, <1>3

LEMMA NextCall ==
  ASSUME NEW p \in Nat, NEW t \in Nat, NEW k \in Nat \ {0}, NEW s \in ReadStates,
         Reading(p, t, k - 1, s)
  PROVE  Reading(p, t, k, ReadCall(s))
<1>1. /\ SectorSize \in Nat \ {0} /\ Offset(p) \in 0 .. (SectorSize - 1)
      /\ Offset(p + SectorSize - Offset(p)) = 0
  BY SectorOffsets
<1>2. PICK r : r = ReadCall(s)
  OBVIOUS
<1>3. s.at \in Int /\ s.asked \in Int /\ s.bytes \in Int /\ s.ended \in BOOLEAN
  BY DEF ReadStates
<1>4. CASE s.ended
  BY <1>2, <1>4 DEF ReadCall, Reading
<1>5. CASE ~s.ended /\ k = 1
  <2>1. s.at = p /\ s.asked = t /\ s.bytes = 0
    BY <1>5 DEF Reading
  <2>4. Overflow(s.at, s.asked) = Overflow(p, t) /\ Offset(s.at) = Offset(p)
    BY <2>1
  <2>2. CASE Overflow(p, t)
    <3>1. /\ ~r.ended /\ r.at = p + SectorSize - Offset(p) /\ r.asked = t - SectorSize
          /\ r.bytes = SectorSize - Offset(p)
      BY <1>1, <1>2, <1>5, <2>1, <2>2, <2>4, ReadCallFields
    <3>2. /\ r.at = p + r.bytes /\ Offset(r.at) = 0
          /\ r.asked = t - Offset(p) - r.bytes /\ r.asked <= t - k
      BY <1>1, <1>5, <3>1
    <3> QED BY <1>2, <1>5, <2>2, <3>1, <3>2 DEF Reading
  <2>3. CASE ~Overflow(p, t)
    <3>1. r.ended /\ r.at = p + t /\ r.bytes = t
      BY <1>1, <1>2, <1>5, <2>1, <2>3, <2>4, ReadCallFields
    <3> QED BY <1>2, <2>3, <3>1 DEF Reading, Delivered, PositionAfter
  <2> QED BY <2>2, <2>3
<1>6. CASE ~s.ended /\ k /= 1
  <2>1. /\ Overflow(p, t)
        /\ s.at = p + s.bytes /\ Offset(s.at) = 0
        /\ s.asked = t - Offset(p) - s.bytes
        /\ s.asked <= t - (k - 1)
        /\ IF k - 1 = 1 THEN s.asked = t - SectorSize ELSE t > SectorSize /\ s.asked >= 0
    BY <1>6 DEF Reading
  <2>2. Overflow(s.at, s.asked) <=> s.asked >= SectorSize
    BY <1>1, <1>3, <2>1 DEF Overflow
  <2>3. CASE s.asked >= SectorSize
    <3>1. /\ ~r.ended /\ r.at = s.at + SectorSize /\ r.asked = s.asked - SectorSize
          /\ r.bytes = s.bytes + SectorSize
      BY <1>1, <1>2, <1>3, <1>6, <2>1, <2>2, <2>3, ReadCallFields
    <3>2. Offset(s.at + SectorSize - Offset(s.at)) = 0
      BY <1>3, SectorOffsets
    <3>3. Offset(r.at) = 0
      <4>1. s.at + SectorSize - Offset(s.at) = r.at
        BY <1>1, <1>3, <2>1, <3>1
      <4> QED BY <3>2, <4>1
    <3>4. t > SectorSize
      BY <1>1, <1>3, <2>1, <2>3
    <3> QED BY <1>1, <1>2, <1>3, <1>6, <2>1, <2>3, <3>1, <3>3, <3>4 DEF Reading
  <2>4. CASE ~(s.asked >= SectorSize)
    <3>1. /\ r.ended /\ r.at = s.at + s.asked
          /\ r.bytes = s.bytes + IF s.asked > 0 THEN s.asked ELSE 0
      BY <1>1, <1>2, <1>3, <1>6, <2>1, <2>2, <2>4, ReadCallFields
    <3>2. r.at = PositionAfter(p, t)
      BY <1>1, <1>3, <2>1, <3>1 DEF PositionAfter
    <3>3. r.bytes = Delivered(p, t)
      BY <1>1, <1>3, <1>6, <2>1, <2>4, <3>1 DEF Delivered
    <3> QED BY <1>2, <3>1, <3>2, <3>3 DEF Reading
  <2> QED BY <2>3, <2>4
<1> QED BY <1>3, <1>4, <1>5, <1>6

\* The recursion ends within one call more than the bytes asked for, and delivers
\* what the formulas say.
LEMMA diskstreamer_readIsLoop ==
  ASSUME NEW p \in Nat, NEW t \in Nat
  PROVE  /\ ReadLoop(p, t).ended
         /\ ReadLoop(p, t).bytes = Delivered(p, t)
         /\ ReadLoop(p, t).at = PositionAfter(p, t)
<1>1. PICK g \in [0 .. (t + 1) -> ReadStates] :
        /\ g[0] = [at |-> p, asked |-> t, bytes |-> 0, ended |-> FALSE]
        /\ \A k \in 1 .. (t + 1) : g[k] = ReadCall(g[k - 1])
        /\ ReadLoop(p, t) = g[t + 1]
  BY ReadLoopCalls
<1> DEFINE T == {k \in 0 .. (t + 1) : Reading(p, t, k, g[k])}
<1>2. 0 \in T
  BY <1>1 DEF Reading
<1>3. ASSUME NEW k \in 1 .. (t + 1), k - 1 \in T PROVE k \in T
  <2>1. g[k - 1] \in ReadStates /\ k \in Nat \ {0} /\ k \in 0 .. (t + 1)
    BY <1>1
  <2>2. Reading(p, t, k, ReadCall(g[k - 1]))
    BY <1>3, <2>1, NextCall
  <2> QED BY <1>1, <2>1, <2>2
<1>4. t + 1 \in T
  <2>1. \A k \in 1 .. (t + 1) : k - 1 \in T => k \in T
    BY <1>3
  <2>2. t + 1 \in Nat /\ t + 1 \in 0 .. (t + 1)
    OBVIOUS
  <2>3. \A k \in 0 .. (t + 1) : k \in T
    <3> HIDE DEF T
    <3> QED BY <1>2, <2>1, <2>2, LoopInduction
  <2> QED BY <2>2, <2>3
<1>5. PICK s \in ReadStates : s = g[t + 1]
  BY <1>1
<1>6. Reading(p, t, t + 1, s)
  BY <1>4, <1>5
<1>7. s.ended
  <2> SUFFICES ASSUME ~s.ended PROVE FALSE
    BY DEF ReadStates
  <2>1. SectorSize \in Nat \ {0} /\ Offset(p) \in 0 .. (SectorSize - 1) /\ s.asked \in Int
    <3>1. p \in Int /\ s.asked \in Int
      BY DEF ReadStates
    <3> QED BY <3>1, SectorOffsets
  <2>2. /\ Overflow(p, t) /\ s.asked <= t - (t + 1)
        /\ IF t + 1 = 1 THEN s.asked = t - SectorSize ELSE t > SectorSize /\ s.asked >= 0
    BY <1>6 DEF Reading
  <2>3. t = 0
    BY <2>1, <2>2
  <2> QED BY <2>1, <2>2, <2>3 DEF Overflow
<1> QED BY <1>1, <1>5, <1>6, <1>7 DEF Reading
-----------------------------------------------------------------------------
(* Reading a directory. *)

\* A read of one item delivers it whole.  It moves the stream to the next item,
\* or, at the end of a sector that holds several, back to the second item of it.
LEMMA ReadItem ==
  ASSUME NEW p \in Nat, p % ItemSize = 0, ItemSize < SectorSize => p < SectorSize
  PROVE  /\ p \div ItemSize \in Nat /\ p = ItemSize * (p \div ItemSize)
         /\ Delivered(p, ItemSize) = ItemSize
         /\ \/ /\ PositionAfter(p, ItemSize) = p + ItemSize
               /\ ItemSize < SectorSize => p + ItemSize < SectorSize
            \/ /\ ItemSize < SectorSize
               /\ PositionAfter(p, ItemSize) = ItemSize /\ p + ItemSize = SectorSize
         /\ (p + ItemSize) \div ItemSize = p \div ItemSize + 1 /\ (p + ItemSize) % ItemSize = 0
<1>1. PICK S \in Nat \ {0} : S = ItemSize /\ S <= SectorSize
  BY Fat16DirectoryAssumption, DiskStreamerAssumption
<1>2. SectorSize \in Nat \ {0} /\ SectorSize % S = 0
  BY <1>1, Fat16DirectoryAssumption, DiskStreamerAssumption
<1>3. PICK m \in Int : m = p \div S /\ p = S * m
  <2>1. p \div S \in Int /\ p = S * (p \div S) + (p % S) /\ p % S = 0
    BY <1>1, QuotientAndRemainder
  <2> QED BY <1>1, <2>1
<1>4. PICK w \in Int : SectorSize = S * w
  <2>1. PICK b \in Int : b = SectorSize /\ b % S = 0
    BY <1>2
  <2>2. b \div S \in Int /\ b = S * (b \div S) + (b % S)
    BY QuotientAndRemainder
  <2>3. b = S * (b \div S)
    BY <2>1, <2>2
  <2> QED BY <2>1, <2>2, <2>3
<1>5. m \in Nat
  <2>1. CASE m < 0
    <3>1. PICK d \in Nat \ {0} : m = -d
      BY <2>1
    <3>2. S * d > 0 /\ S * m = -(S * d)
      BY <1>1, <3>1
    <3> QED BY <1>3, <3>2
  <2> QED BY <2>1
<1>6. (p + S) \div S = m + 1 /\ (p + S) % S = 0
  <2>1. PICK n \in Int : n = m + 1
    OBVIOUS
  <2>2. p + S = S * n + 0 /\ 0 \in 0 .. (S - 1) /\ p + S \in Int
    BY <1>1, <1>3, <2>1
  <2>3. PICK a \in Int : a = p + S /\ a = S * n + 0
    BY <2>2
  <2>4. a % S = 0
    <3>1. 0 \in 0 .. (S - 1) /\ a = S * n + 0
      BY <2>3
    <3> QED BY <3>1, RemainderUnique
  <2>5. S * n <= a /\ a < S * n + S
    BY <1>1, <2>1, <2>3
  <2>6. n <= a \div S /\ a \div S <= n
    BY <1>1, <2>5, QuotientAtLeast, QuotientAtMost, Zenon
  <2>7. a \div S \in Int
    BY <1>1, QuotientAndRemainder
  <2> QED BY <2>1, <2>3, <2>4, <2>6, <2>7
<1>7. CASE S = SectorSize
  <2>1. Offset(p) = 0
    BY <1>1, <1>7 DEF Offset
  <2>2. Delivered(p, S) = S /\ PositionAfter(p, S) = p + S
    BY <1>1, <1>7, <2>1 DEF Delivered, PositionAfter, Overflow
  <2> QED BY <1>1, <1>3, <1>5, <1>6, <1>7, <2>2
<1>8. CASE S < SectorSize
  <2>1. Offset(p) = p
    <3>1. p \in 0 .. (SectorSize - 1) /\ p = SectorSize * 0 + p
      BY <1>1, <1>2, <1>8
    <3>2. p % SectorSize = p
      BY <1>2, <3>1, RemainderUnique
    <3> QED BY <3>2 DEF Offset
  <2>2. p + S <= SectorSize
    <3>1. m < w
      BY <1>1, <1>3, <1>4, <1>8, MultiplesOrdered
    <3>2. PICK d \in Nat : w = m + 1 + d
      BY <3>1
    <3>3. S * w = S * m + S + S * d /\ S * d >= 0
      BY <1>1, <1>3, <3>2
    <3> QED BY <1>1, <1>3, <1>4, <3>3
  <2>3. CASE p + S = SectorSize
    <3>1. Delivered(p, S) = S /\ PositionAfter(p, S) = S
      BY <1>1, <1>2, <1>8, <2>1, <2>3 DEF Delivered, PositionAfter, Overflow
    <3> QED BY <1>1, <1>3, <1>5, <1>6, <1>8, <2>3, <3>1
  <2>4. CASE p + S < SectorSize
    <3>1. Delivered(p, S) = S /\ PositionAfter(p, S) = p + S
      BY <1>1, <1>2, <1>8, <2>1, <2>4 DEF Delivered, PositionAfter, Overflow
    <3> QED BY <1>1, <1>3, <1>5, <1>6, <1>8, <2>4, <3>1
  <2> QED BY <1>1, <1>2, <2>2, <2>3, <2>4
<1> QED BY <1>1, <1>2, <1>7, <1>8

\* The used items among the first k.
UsedUpTo(k) == {i \in Used : i <= k}

LEMMA UsedCount ==
  ASSUME DirectoryTypeOK, NEW k \in Nat
  PROVE  /\ IsFiniteSet(Used) /\ Used \subseteq Nat \ {0}
         /\ Cardinality(UsedUpTo(k)) \in Nat /\ Cardinality(UsedUpTo(k)) <= k
         /\ Cardinality(UsedUpTo(0)) = 0
         /\ k >= Len(table) => UsedUpTo(k) = Used
         /\ Cardinality(UsedUpTo(k + 1)) =
              Cardinality(UsedUpTo(k)) + IF k + 1 \in Used THEN 1 ELSE 0
<1>1. Len(table) \in Nat /\ DOMAIN table = 1 .. Len(table)
  BY DEF DirectoryTypeOK
<1>2. \A i \in Used : i \in Nat /\ 1 <= i /\ i <= Len(table)
  BY <1>1 DEF Used
<1>3. IsFiniteSet(1 .. Len(table)) /\ IsFiniteSet(1 .. k) /\ Cardinality(1 .. k) = k
  BY <1>1, FS_Interval
<1>4. IsFiniteSet(Used) /\ IsFiniteSet(UsedUpTo(k)) /\ Used \subseteq Nat \ {0}
  <2>1. UsedUpTo(k) \subseteq 1 .. Len(table) /\ Used \subseteq 1 .. Len(table)
    BY <1>1, <1>2 DEF UsedUpTo
  <2>2. Used \subseteq Nat \ {0}
    BY <1>2
  <2> QED BY <1>3, <2>1, <2>2, FS_Subset
<1>5. Cardinality(UsedUpTo(k)) \in Nat /\ Cardinality(UsedUpTo(k)) <= k
  <2>1. UsedUpTo(k) \subseteq 1 .. k
    BY <1>2 DEF UsedUpTo
  <2> QED BY <1>3, <1>4, <2>1, FS_Subset, FS_CardinalityType
<1>6. Cardinality(UsedUpTo(0)) = 0
  <2>1. UsedUpTo(0) = {}
    BY <1>2 DEF UsedUpTo
  <2> QED BY <2>1, FS_EmptySet
<1>7. k >= Len(table) => UsedUpTo(k) = Used
  BY <1>1, <1>2 DEF UsedUpTo
<1>8. Cardinality(UsedUpTo(k + 1)) = Cardinality(UsedUpTo(k)) + IF k + 1 \in Used THEN 1 ELSE 0
  <2>1. CASE k + 1 \in Used
    <3>1. UsedUpTo(k + 1) = UsedUpTo(k) \cup {k + 1} /\ k + 1 \notin UsedUpTo(k)
      BY <1>2, <2>1 DEF UsedUpTo
    <3>2. Cardinality(UsedUpTo(k) \cup {k + 1}) = Cardinality(UsedUpTo(k)) + 1
      BY <1>4, <3>1, FS_AddElement
    <3> QED BY <2>1, <3>1, <3>2
  <2>2. CASE k + 1 \notin Used
    <3>1. UsedUpTo(k + 1) = UsedUpTo(k)
      BY <1>2, <2>2 DEF UsedUpTo
    <3> QED BY <1>5, <2>2, <3>1
  <2> QED BY <2>1, <2>2
<1> QED BY <1>4, <1>5, <1>6, <1>7, <1>8

\* The steps that leave the directory and its count alone.
LEMMA SameCount ==
  ASSUME DirectoryInv, UNCHANGED <<table, kind, total>>, step' \in {"closed", "counted", "loaded"},
         step' \in {"counted", "loaded"} => step \in {"counted", "loaded"},
         pos' \in Nat, request'.bytes = request'.total
  PROVE  DirectoryTypeOK' /\ CountsSoFar' /\ CountsUsed'
<1>1. DirectoryTypeOK'
  BY DEF DirectoryInv, DirectoryTypeOK
<1>2. CountsSoFar'
  BY DEF CountsSoFar
<1>3. CountsUsed'
  BY DEF DirectoryInv, CountsUsed, Used
<1> QED BY <1>1, <1>2, <1>3

LEMMA InitEstablishesDirectoryInv == Init => DirectoryInv
<1> SUFFICES ASSUME Init PROVE DirectoryInv
  OBVIOUS
<1>1. PICK n \in 0 .. MaxItems : table \in [1 .. n -> Names \cup {Deleted}]
  BY DEF Init
<1>2. table \in Seq(Names \cup {Deleted}) /\ Len(table) <= MaxItems
  BY <1>1, Fat16DirectoryAssumption
<1> QED BY <1>2 DEF Init, StreamInit, NoRequest, DirectoryInv, DirectoryTypeOK, CountsSoFar,
                    CountsUsed, FindsUsed

LEMMA StartCountPreservesDirectoryInv ==
  ASSUME DirectoryInv, StartCount PROVE DirectoryInv'
<1>1. /\ step = "closed" /\ step' = "count" /\ pos' = 0 /\ total' = 0
      /\ UNCHANGED <<table, kind, found, request>>
  BY DEF StartCount, diskstreamer_seek
<1>2. DirectoryTypeOK' /\ (DirectoryTypeOK => Len(table) \in Nat)
  BY <1>1 DEF DirectoryInv, DirectoryTypeOK
<1>3. ItemSize \in Nat \ {0} /\ SectorSize \in Nat \ {0}
  BY Fat16DirectoryAssumption, DiskStreamerAssumption
<1>4. 0 % ItemSize = 0 /\ 0 \div ItemSize = 0
  BY <1>3
<1>5. Cardinality(UsedUpTo(0)) = 0
  BY UsedCount DEF DirectoryInv
<1>6. CountsSoFar'
  <2>1. Cardinality({i \in Used : i <= 0}) = 0 /\ Used' = Used
    BY <1>1, <1>5 DEF UsedUpTo, Used
  <2>2. /\ pos' % ItemSize = 0 /\ pos' < SectorSize
        /\ pos' \div ItemSize <= Len(table')
        /\ total' = Cardinality({i \in Used' : i <= pos' \div ItemSize})
    <3>1. Len(table') \in Nat
      BY <1>1, <1>2 DEF DirectoryInv
    <3>2. pos' \div ItemSize = 0 /\ pos' % ItemSize = 0
      BY <1>1, <1>4
    <3>3. total' = Cardinality({i \in Used' : i <= pos' \div ItemSize})
      BY <1>1, <2>1, <3>2
    <3> QED BY <1>1, <1>3, <3>1, <3>2, <3>3
  <2> QED BY <2>2 DEF CountsSoFar
<1>7. CountsUsed' /\ FindsUsed' /\ (found' /= NULL => step' = "loaded")
  BY <1>1 DEF DirectoryInv, CountsUsed, FindsUsed
<1> QED BY <1>2, <1>6, <1>7 DEF DirectoryInv

\* What the item at the position of the stream is.
LEMMA ItemAtPosition ==
  ASSUME DirectoryTypeOK, NEW m \in Nat, pos \div ItemSize = m
  PROVE  /\ ItemAt(pos) = EndMark <=> m >= Len(table)
         /\ m >= Len(table) => ItemAt(pos) \notin Names
         /\ m < Len(table) => (ItemAt(pos) \in Names <=> m + 1 \in Used)
<1>1. /\ Len(table) \in Nat /\ DOMAIN table = 1 .. Len(table)
      /\ \A k \in 1 .. Len(table) : table[k] \in Names \cup {Deleted}
  BY DEF DirectoryTypeOK
<1>2. ItemAt(pos) = IF m + 1 <= Len(table) THEN table[m + 1] ELSE EndMark
  BY DEF ItemAt
<1>3. EndMark \notin Names \cup {Deleted} /\ Deleted \notin Names
  BY EndMarkAssumption, Fat16DirectoryAssumption
<1>4. CASE m >= Len(table)
  BY <1>1, <1>2, <1>3, <1>4
<1>5. CASE m < Len(table)
  <2>1. m + 1 \in 1 .. Len(table) /\ ItemAt(pos) = table[m + 1]
    BY <1>1, <1>2, <1>5
  <2>2. table[m + 1] \in Names <=> m + 1 \in Used
    BY <1>1, <1>3, <2>1 DEF Used
  <2> QED BY <1>1, <1>3, <1>5, <2>1, <2>2
<1> QED BY <1>1, <1>4, <1>5

LEMMA CountItemPreservesDirectoryInv ==
  ASSUME DirectoryInv, CountItem PROVE DirectoryInv'
<1>1. /\ step = "count" /\ UNCHANGED <<table, kind, found>>
      /\ pos' = PositionAfter(pos, ItemSize)
      /\ request'.total = ItemSize /\ request'.bytes = Delivered(pos, ItemSize)
      /\ IF ItemAt(pos) = EndMark THEN step' = "counted" ELSE step' = "count"
      /\ total' = IF ItemAt(pos) \in Names /\ total < MaxCount THEN total + 1 ELSE total
  BY DEF CountItem, diskstreamer_read, ReadFrom
<1>2. /\ DirectoryTypeOK /\ pos \in Nat /\ total \in Nat
      /\ Len(table) \in Nat /\ Len(table) <= MaxItems
  BY DEF DirectoryInv, DirectoryTypeOK
<1>3. ItemSize \in Nat \ {0} /\ SectorSize \in Nat \ {0} /\ MaxItems \in Nat /\ MaxCount \in Nat
      /\ MaxItems <= MaxCount
  BY Fat16DirectoryAssumption, DiskStreamerAssumption
<1>4. /\ pos % ItemSize = 0
      /\ ItemSize < SectorSize => pos < SectorSize
      /\ \/ /\ pos \div ItemSize <= Len(table)
            /\ total = Cardinality(UsedUpTo(pos \div ItemSize))
         \/ ItemSize < SectorSize /\ SectorSize <= ItemSize * Len(table)
  BY <1>1 DEF DirectoryInv, CountsSoFar, UsedUpTo
<1>5. /\ pos \div ItemSize \in Nat /\ pos = ItemSize * (pos \div ItemSize)
      /\ Delivered(pos, ItemSize) = ItemSize
      /\ \/ /\ pos' = pos + ItemSize
            /\ ItemSize < SectorSize => pos + ItemSize < SectorSize
         \/ ItemSize < SectorSize /\ pos' = ItemSize /\ pos + ItemSize = SectorSize
      /\ (pos + ItemSize) \div ItemSize = pos \div ItemSize + 1 /\ (pos + ItemSize) % ItemSize = 0
  BY <1>1, <1>2, <1>4, ReadItem
<1>6. PICK m \in Nat : m = pos \div ItemSize
  BY <1>5
<1>7. /\ ItemAt(pos) = EndMark <=> m >= Len(table)
      /\ m >= Len(table) => ItemAt(pos) \notin Names
      /\ m < Len(table) => (ItemAt(pos) \in Names <=> m + 1 \in Used)
  BY <1>2, <1>6, ItemAtPosition
<1>8. /\ Cardinality(UsedUpTo(m)) \in Nat /\ Cardinality(UsedUpTo(m)) <= m
      /\ m >= Len(table) => UsedUpTo(m) = Used
      /\ Cardinality(UsedUpTo(m + 1)) =
           Cardinality(UsedUpTo(m)) + IF m + 1 \in Used THEN 1 ELSE 0
  BY <1>2, UsedCount
<1>9. DirectoryTypeOK'
  <2>1. pos' \in Nat /\ total' \in Nat /\ step' \in {"count", "counted"}
    BY <1>1, <1>2, <1>3, <1>5
  <2> QED BY <1>1, <2>1 DEF DirectoryInv, DirectoryTypeOK
<1>10. Used' = Used /\ request'.bytes = request'.total
  BY <1>1, <1>5 DEF Used
\* A directory that fills its first sector: the end mark is not met.
<1>11. ASSUME ItemSize < SectorSize, SectorSize <= ItemSize * Len(table) PROVE m < Len(table)
  <2>1. PICK n \in Nat : n = Len(table)
    BY <1>2
  <2>2. ItemSize * m < ItemSize * n
    <3>1. pos = ItemSize * m /\ pos < SectorSize
      BY <1>4, <1>5, <1>6, <1>11
    <3>2. SectorSize <= ItemSize * n
      BY <1>11, <2>1
    <3> QED BY <1>3, <3>1, <3>2
  <2>3. m < n
    BY <1>3, <2>2, MultiplesOrdered
  <2> QED BY <2>1, <2>3
<1>12. CASE m >= Len(table)
  <2>1. step' = "counted" /\ total' = total
    BY <1>1, <1>7, <1>12
  <2>2. m = Len(table) /\ total = Cardinality(UsedUpTo(m))
    BY <1>2, <1>4, <1>6, <1>11, <1>12
  <2>3. CountsUsed'
    BY <1>8, <1>10, <1>12, <2>1, <2>2 DEF CountsUsed
  <2>4. CountsSoFar'
    BY <2>1 DEF CountsSoFar
  <2> QED BY <1>1, <1>9, <2>1, <2>3, <2>4 DEF DirectoryInv, FindsUsed
<1>13. CASE m < Len(table)
  <2>1. step' = "count"
    BY <1>1, <1>2, <1>7, <1>13
  <2>2. CountsUsed'
    BY <1>10, <2>1 DEF CountsUsed
  <2>3. /\ pos' % ItemSize = 0
        /\ ItemSize < SectorSize => pos' < SectorSize
        /\ \/ /\ pos' \div ItemSize <= Len(table')
              /\ total' = Cardinality({i \in Used' : i <= pos' \div ItemSize})
           \/ ItemSize < SectorSize /\ SectorSize <= ItemSize * Len(table')
    <3>1. CASE pos' = pos + ItemSize /\ (ItemSize < SectorSize => pos + ItemSize < SectorSize)
      <4>1. pos' % ItemSize = 0 /\ pos' \div ItemSize = m + 1 /\ m + 1 <= Len(table')
        BY <1>1, <1>2, <1>5, <1>6, <1>13, <3>1
      <4>2. CASE total = Cardinality(UsedUpTo(m))
        <5>1. total < MaxCount
          BY <1>2, <1>3, <1>8, <1>13, <4>2
        <5>2. total' = Cardinality(UsedUpTo(m + 1))
          BY <1>1, <1>7, <1>8, <1>13, <4>2, <5>1
        <5>3. total' = Cardinality({i \in Used' : i <= pos' \div ItemSize})
          BY <1>10, <4>1, <5>2 DEF UsedUpTo
        <5> QED BY <3>1, <4>1, <5>3
      <4>3. CASE ItemSize < SectorSize /\ SectorSize <= ItemSize * Len(table)
        BY <1>1, <3>1, <4>1, <4>3
      <4> QED BY <1>4, <1>6, <4>2, <4>3
    <3>2. CASE ItemSize < SectorSize /\ pos' = ItemSize /\ pos + ItemSize = SectorSize
      <4>1. SectorSize <= ItemSize * Len(table)
        <5>1. PICK n \in Nat : n = Len(table)
          BY <1>2
        <5>2. n - m - 1 \in Nat
          BY <1>13, <5>1
        <5>3. PICK d \in Nat : d = n - m - 1
          BY <5>2
        <5>4. ItemSize * n = ItemSize * m + ItemSize + ItemSize * d
          BY <1>3, <5>3
        <5>5. ItemSize * d >= 0 /\ ItemSize * d \in Int /\ ItemSize * m \in Int
          BY <1>3
        <5>6. pos = ItemSize * m
          BY <1>5, <1>6
        <5>7. SectorSize <= ItemSize * n
          BY <1>3, <3>2, <5>4, <5>5, <5>6
        <5> QED BY <5>1, <5>7
      <4>2. ItemSize % ItemSize = 0
        BY <1>3
      <4> QED BY <1>1, <3>2, <4>1, <4>2
    <3> QED BY <1>5, <3>1, <3>2
  <2>4. CountsSoFar'
    BY <2>3 DEF CountsSoFar
  <2>5. FindsUsed' /\ (found' /= NULL => step' = "loaded")
    BY <1>1 DEF DirectoryInv, FindsUsed, Used
  <2> QED BY <1>9, <2>2, <2>4, <2>5 DEF DirectoryInv
<1> QED BY <1>2, <1>12, <1>13

\* A name that is not found: were every item before the one that has it in use, the
\* search, which looks at as many items as are in use, would have come to it.
LEMMA LookupFindsUsed ==
  ASSUME DirectoryInv, step = "loaded", NEW name \in Names, Matches(name) = {},
         NEW k \in Used, table[k] = name
  PROVE  \E j \in 1 .. (k - 1) : j \notin Used
<1> SUFFICES ASSUME \A j \in 1 .. (k - 1) : j \in Used PROVE FALSE
  OBVIOUS
<1>1. IsFiniteSet(Used) /\ k \in Nat \ {0}
  BY UsedCount DEF DirectoryInv
<1>2. 1 .. k \subseteq Used
  BY <1>1
<1>3. Cardinality(1 .. k) = k
  BY <1>1, FS_Interval
<1>4. k <= Cardinality(Used) /\ Cardinality(Used) \in Nat
  BY <1>1, <1>2, <1>3, FS_Subset, FS_CardinalityType
<1>5. total = Cardinality(Used)
  BY DEF DirectoryInv, CountsUsed
<1> QED BY <1>1, <1>4, <1>5 DEF Matches

LEMMA NextPreservesDirectoryInv ==
  ASSUME DirectoryInv, [Next]_vars PROVE DirectoryInv'
<1>1. CASE StartCount
  BY <1>1, StartCountPreservesDirectoryInv
<1>2. CASE CountItem
  BY <1>2, CountItemPreservesDirectoryInv
<1>3. CASE fat16_get_root_directory
  <2>1. /\ step = "counted" /\ step' = "loaded" /\ UNCHANGED <<table, kind, total, found>>
        /\ pos' = PositionAfter(0, RootEntries * ItemSize)
        /\ request'.total = RootEntries * ItemSize
        /\ request'.bytes = Delivered(0, RootEntries * ItemSize)
    BY <1>3 DEF fat16_get_root_directory, ReadFrom
  <2>2. PICK t \in Nat : t = RootEntries * ItemSize
    <3>1. RootEntries \in Nat /\ ItemSize \in Nat
      BY Fat16DirectoryAssumption, DiskStreamerAssumption
    <3> QED BY <3>1
  <2>3. Offset(0) = 0 /\ SectorSize \in Nat \ {0}
    BY DiskStreamerAssumption DEF Offset
  <2>4. PositionAfter(0, t) \in Nat /\ Delivered(0, t) = t
    BY <2>2, <2>3 DEF PositionAfter, Delivered, Overflow
  <2>5. DirectoryTypeOK' /\ CountsSoFar' /\ CountsUsed'
    BY <2>1, <2>2, <2>4, SameCount
  <2>6. FindsUsed' /\ (found' /= NULL => step' = "loaded")
    BY <2>1 DEF DirectoryInv, FindsUsed, Used
  <2> QED BY <2>5, <2>6 DEF DirectoryInv
<1>4. CASE fat16_load_fat_directory
  <2>1. /\ step = "counted" /\ step' = "loaded"
        /\ UNCHANGED <<table, kind, total, found, pos, request>>
    BY <1>4 DEF fat16_load_fat_directory
  <2>2. DirectoryTypeOK' /\ CountsSoFar' /\ CountsUsed'
    BY <2>1, SameCount DEF DirectoryInv, DirectoryTypeOK, CountsUsed
  <2>3. FindsUsed' /\ (found' /= NULL => step' = "loaded")
    BY <2>1 DEF DirectoryInv, FindsUsed, Used
  <2> QED BY <2>2, <2>3 DEF DirectoryInv
<1>5. ASSUME NEW name \in Names, fat16_find_item_in_directory(name) PROVE DirectoryInv'
  <2>1. /\ step = "loaded" /\ UNCHANGED <<table, kind, step, total, pos, request>>
        /\ found' = [name |-> name, item |-> IF Matches(name) = {} THEN NULL
                                             ELSE CHOOSE i \in Matches(name) : TRUE]
    BY <1>5 DEF fat16_find_item_in_directory
  <2>2. DirectoryTypeOK' /\ CountsSoFar' /\ CountsUsed'
    BY <2>1, SameCount DEF DirectoryInv, DirectoryTypeOK, CountsUsed
  <2>3. found'.item = NULL => Matches(name) = {}
    <3>1. ASSUME Matches(name) /= {} PROVE found'.item /= NULL
      <4>1. found'.item \in Matches(name)
        BY <2>1, <3>1
      <4>2. found'.item \in 1 .. total /\ total \in Nat
        BY <4>1 DEF Matches, DirectoryInv, DirectoryTypeOK
      <4>3. total <= MaxItems
        <5>1. Len(table) \in Nat /\ Len(table) <= MaxItems
          BY DEF DirectoryInv, DirectoryTypeOK
        <5>2. UsedUpTo(Len(table)) = Used /\ Cardinality(UsedUpTo(Len(table))) <= Len(table)
          BY <5>1, UsedCount DEF DirectoryInv
        <5>3. total = Cardinality(Used)
          BY <2>1 DEF DirectoryInv, CountsUsed
        <5> QED BY <4>2, <5>1, <5>2, <5>3, Fat16DirectoryAssumption
      <4>4. found'.item \in 1 .. MaxItems
        BY <4>2, <4>3, Fat16DirectoryAssumption
      <4> QED BY <4>4, Fat16DirectoryAssumption
    <3> QED BY <3>1
  <2>4. FindsUsed'
    <3> SUFFICES ASSUME found'.item = NULL, NEW k \in Used, table[k] = name
                 PROVE  \E j \in 1 .. (k - 1) : j \notin Used
      BY <2>1 DEF FindsUsed, Used
    <3> QED BY <2>1, <2>3, LookupFindsUsed
  <2> QED BY <2>1, <2>2, <2>4 DEF DirectoryInv
<1>6. CASE fat16_free_directory
  <2>1. /\ step' = "closed" /\ found' = NULL /\ UNCHANGED <<table, kind, total, pos, request>>
    BY <1>6 DEF fat16_free_directory
  <2>2. DirectoryTypeOK' /\ CountsSoFar' /\ CountsUsed'
    BY <2>1, SameCount DEF DirectoryInv, DirectoryTypeOK, CountsUsed
  <2> QED BY <2>1, <2>2 DEF DirectoryInv, FindsUsed
<1>7. CASE UNCHANGED vars
  BY <1>7 DEF vars, DirectoryInv, DirectoryTypeOK, CountsSoFar, CountsUsed, FindsUsed, Used
<1> QED BY <1>1, <1>2, <1>3, <1>4, <1>5, <1>6, <1>7 DEF Next
-----------------------------------------------------------------------------
\* The inductive invariant of a directory holds in every reachable state.
THEOREM DirectoryInvariant == Spec => []DirectoryInv
<1>1. Init => DirectoryInv
  BY InitEstablishesDirectoryInv
<1>2. DirectoryInv /\ [Next]_vars => DirectoryInv'
  BY NextPreservesDirectoryInv
<1> QED BY <1>1, <1>2, PTL DEF Spec

\* A count that ends is the number of used items, for directories of any length and
\* sectors of any size: what goes wrong at the end of a sector never gives a wrong
\* count, it keeps the count from ending.  Every item is delivered whole.
THEOREM DirectoryCountsUsed == Spec => []CountsUsed
<1>1. DirectoryInv => CountsUsed
  BY DEF DirectoryInv
<1> QED BY <1>1, DirectoryInvariant, PTL

\* A used item that a lookup does not find has a deleted one before it.
THEOREM DirectoryFindsUsed == Spec => []FindsUsed
<1>1. DirectoryInv => FindsUsed
  BY DEF DirectoryInv
<1> QED BY <1>1, DirectoryInvariant, PTL

\* The recursion of diskstreamer_read comes to what the formulas say, from every
\* position and for every number of bytes.
THEOREM DirectoryReadIsLoop == Spec => []ReadIsLoop
<1>1. DirectoryInv => ReadIsLoop
  BY diskstreamer_readIsLoop, DiskStreamerAssumption DEF ReadIsLoop, DirectoryInv, DirectoryTypeOK
<1> QED BY <1>1, DirectoryInvariant, PTL
=============================================================================
