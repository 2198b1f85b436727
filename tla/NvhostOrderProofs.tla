------------------------- MODULE NvhostOrderProofs -------------------------
(***************************************************************************)
(* Proofs about NvhostSyncpt: within the window of outstanding increments, *)
(* the comparisons that wrap agree with the order of the true values, but  *)
(* for the current value itself, for every width of the counter.           *)
(***************************************************************************)
EXTENDS NvhostSyncpt, NaturalsInduction, WellFoundedInduction, TLAPS

-----------------------------------------------------------------------------
\* A value is a number of wraps and a word, and in one way only.
LEMMA Wraps ==
  ASSUME NEW x \in Int
  PROVE  /\ x \div U32 \in Int /\ x % U32 \in 0 .. U32 - 1
         /\ x = U32 * (x \div U32) + (x % U32)
  BY U32Assumption

\* A number has one quotient and remainder by the width.
LEMMA OneWay ==
  ASSUME NEW q \in Int, NEW r \in 0 .. U32 - 1, NEW p \in Int, NEW s \in 0 .. U32 - 1,
         U32 * q + r = U32 * p + s
  PROVE  q = p /\ r = s
  BY U32Assumption

\* ... so a wrapped value is determined by any representation.
LEMMA WordUnique ==
  ASSUME NEW x \in Int, NEW q \in Int, NEW r \in 0 .. U32 - 1, x = U32 * q + r
  PROVE  x % U32 = r
  BY Wraps, OneWay

\* The difference of two words is the difference of the values, wrapped.
LEMMA SubOfWords ==
  ASSUME NEW a \in Int, NEW b \in Int
  PROVE  Sub(Word(a), Word(b)) = (a - b) % U32
<1> DEFINE qa == a \div U32
           qb == b \div U32
           q == (a - b) \div U32
           r == (a - b) % U32
<1>1. /\ qa \in Int /\ Word(a) \in Int /\ a = U32 * qa + Word(a)
      /\ qb \in Int /\ Word(b) \in Int /\ b = U32 * qb + Word(b)
  BY Wraps, U32Assumption DEF Word
<1>2. q \in Int /\ r \in 0 .. U32 - 1 /\ a - b = U32 * q + r
  BY Wraps
<1> HIDE DEF qa, qb, q, r
<1>3. Word(a) - Word(b) = U32 * (q - qa + qb) + r
  BY <1>1, <1>2, U32Assumption
<1>4. (Word(a) - Word(b)) % U32 = r
  BY <1>1, <1>2, <1>3, WordUnique
<1> QED
  BY <1>4 DEF Sub, r

\* The unsigned difference of two values less than a wrap apart.
LEMMA SubNear ==
  ASSUME NEW a \in Int, NEW b \in Int, a - b \in 1 - U32 .. U32 - 1
  PROVE  Sub(Word(a), Word(b)) = IF a >= b THEN a - b ELSE a - b + U32
<1>1. CASE a >= b
  <2>1. (a - b) % U32 = a - b
    BY <1>1, U32Assumption
  <2> QED
    BY <1>1, <2>1, SubOfWords
<1>2. CASE a < b
  <2>1. a - b = U32 * (-1) + (a - b + U32) /\ a - b + U32 \in 0 .. U32 - 1
    BY <1>2, U32Assumption
  <2>2. (a - b) % U32 = a - b + U32
    BY <2>1, WordUnique
  <2> QED
    BY <1>2, <2>2, SubOfWords
<1> QED
  BY <1>1, <1>2

\* The width is even: signed values split it in halves.
LEMMA Half == U32 \in Nat /\ U32 \div 2 \in Nat /\ U32 = 2 * (U32 \div 2) /\ U32 \div 2 > 0
  BY U32Assumption

\* Thresholds less than half a wrap apart are ordered by the signed difference,
\* as add_waiter_to_queue() and remove_completed_waiters() order them.
THEOREM SignedOrder ==
  ASSUME NEW a \in Int, NEW b \in Int,
         a - b \in 1 - U32 \div 2 .. U32 \div 2 - 1
  PROVE  After(Word(a), Word(b)) <=> a > b
  BY SubNear, Half DEF After

\* _nvhost_syncpt_is_expired() with a future value tells the thresholds that
\* have passed from the outstanding ones.
LEMMA ExpiredInWindow ==
  ASSUME NEW current \in Int, NEW future \in Int, future - current \in 0 .. U32 - 1,
         NEW t \in future - U32 + 1 .. future
  PROVE  IsExpired(Word(current), Word(future), TRUE, Word(t)) <=> t <= current
<1>1. /\ t \in Int /\ future - t \in 0 .. U32 - 1
      /\ current - t \in 1 - U32 .. U32 - 1
  BY Half
<1>2. Sub(Word(future), Word(t)) = future - t
  BY <1>1, Half, SubNear
<1>3. Sub(Word(current), Word(t)) = IF current >= t THEN current - t ELSE current - t + U32
  BY <1>1, SubNear
<1> QED
  BY <1>1, <1>2, <1>3, Half DEF IsExpired

\* The comparisons of nvhost_syncpt.c are the order of the increments, with the
\* current value misplaced as OrderOK says, whenever fewer than U32 increments
\* are outstanding, at every point of a wrap.
THEOREM WindowOrder ==
  ASSUME NEW current \in Int, NEW future \in Int, future - current \in 0 .. U32 - 1
  PROVE  OrderOK(current, future)
<1> DEFINE c == Word(current)
           f == Word(future)
           window == future - U32 + 1 .. future
           half == U32 \div 2
           compare(a, b) == Compare(c, f, TRUE, Word(a), Word(b))
<1>1. \A t \in window : IsExpired(c, f, TRUE, Word(t)) <=> t <= current
  BY ExpiredInWindow
<1>2. ASSUME NEW t \in current - half + 1 .. current + half
      PROVE  IsExpired(c, f, FALSE, Word(t)) <=> t <= current
  <2>1. t \in Int /\ current - t \in 1 - U32 .. U32 - 1
    BY Half
  <2>2. Sub(c, Word(t)) = IF current >= t THEN current - t ELSE current - t + U32
    BY <2>1, SubNear
  <2> QED
    BY <2>1, <2>2, Half DEF IsExpired
<1>3. ASSUME NEW a \in window, NEW b \in window, a < b
      PROVE  IF b = current THEN compare(a, b) = 1 /\ compare(b, a) = -1
                            ELSE compare(a, b) = -1 /\ compare(b, a) = 1
  <2>1. /\ a \in Int /\ b \in Int /\ b - a \in 1 .. U32 - 1
        /\ a - current \in 1 - U32 .. U32 - 1 /\ b - current \in 1 - U32 .. U32 - 1
    BY <1>3, Half
  <2>2. Word(a) # Word(b)
    <3>1. Sub(Word(b), Word(a)) = b - a /\ Sub(Word(a), Word(a)) = 0
      BY <2>1, Half, SubNear
    <3> QED
      BY <2>1, <3>1
  <2>3. /\ Sub(Word(a), c) = IF a >= current THEN a - current ELSE a - current + U32
        /\ Sub(Word(b), c) = IF b >= current THEN b - current ELSE b - current + U32
    BY <2>1, SubNear
  <2> DEFINE ea == IsExpired(c, f, TRUE, Word(a))
             eb == IsExpired(c, f, TRUE, Word(b))
  <2>4. /\ ea <=> a <= current
        /\ eb <=> b <= current
        /\ ea \in BOOLEAN /\ eb \in BOOLEAN
    BY <1>1 DEF IsExpired
  <2> HIDE DEF c, f, window, ea, eb
  <2>5. CASE a <= current /\ b > current
    <3>1. ea /\ ~eb
      BY <2>1, <2>4, <2>5
    <3>2. compare(a, b) = -1 /\ compare(b, a) = 1
      BY <2>2, <3>1 DEF Compare, ea, eb
    <3>3. b # current
      BY <2>1, <2>5
    <3> QED
      BY <3>2, <3>3
  <2>6. CASE b <= current \/ a > current
    <3>1. /\ Sub(Word(a), c) \in Int /\ Sub(Word(b), c) \in Int
          /\ b # current => Sub(Word(a), c) < Sub(Word(b), c)
          /\ b = current => Sub(Word(a), c) > Sub(Word(b), c)
      BY <1>3, <2>1, <2>3, <2>6, Half
    <3>2. /\ b # current => CompareRef(c, Word(a), Word(b)) = -1 /\ CompareRef(c, Word(b), Word(a)) = 1
          /\ b = current => CompareRef(c, Word(a), Word(b)) = 1 /\ CompareRef(c, Word(b), Word(a)) = -1
      BY <3>1 DEF CompareRef
    <3>3. ea <=> eb
      BY <1>3, <2>1, <2>4, <2>6
    <3>4. ea = eb
      BY <2>4, <3>3, Zenon
    <3>5. /\ compare(a, b) = CompareRef(c, Word(a), Word(b))
          /\ compare(b, a) = CompareRef(c, Word(b), Word(a))
      BY <2>2, <3>4 DEF Compare, ea, eb
    <3> QED
      BY <3>2, <3>5
  <2>7. (a <= current /\ b > current) \/ (b <= current \/ a > current)
    BY <2>1
  <2> QED
    BY <2>5, <2>6, <2>7
<1> QED
  BY <1>1, <1>2, <1>3 DEF OrderOK

-----------------------------------------------------------------------------
\* A non-empty set of positions has a last one.
LEMMA LastExists ==
  ASSUME NEW m \in Nat, NEW B, B \subseteq 1 .. m, B # {}
  PROVE  \E i \in B : \A j \in B : j <= i
<1> DEFINE R == OpToRel(<, Nat)
           C == {m - i : i \in B}
<1>1. \E c \in C : \A d \in C : ~ (<<d, c>> \in R)
  <2>1. IsWellFoundedOn(R, Nat)
    BY ONLY NatLessThanWellFounded, Zenon
  <2>2. C \subseteq Nat
    OBVIOUS
  <2>3. PICK i \in B : TRUE
    OBVIOUS
  <2>4. m - i \in C
    OBVIOUS
  <2> HIDE DEF R, C
  <2> QED
    BY <2>1, <2>2, <2>4, WFMin
<1>2. \A c, d \in C : ~ (<<d, c>> \in R) => c <= d
  BY DEF OpToRel
<1> HIDE DEF R
<1>3. PICK c \in C : \A d \in C : c <= d
  BY <1>1, <1>2
<1>4. PICK i \in B : c = m - i
  OBVIOUS
<1>5. \A j \in B : m - i <= m - j
  BY <1>3, <1>4
<1> QED
  BY <1>5
=============================================================================
