-------------------------- MODULE NvhostIntrProofs --------------------------
(***************************************************************************)
(* Proofs about NvhostIntr, for every number of threads, jobs and          *)
(* notifiers and every width of the syncpoint: the lists a waiter is in,   *)
(* its references, and the uses of the host.                               *)
(***************************************************************************)
EXTENDS NvhostIntr, NvhostOrderProofs, SequenceTheorems, FiniteSetTheorems

-----------------------------------------------------------------------------
(***************************************************************************)
(* What the operations of list.h do to the elements of a list.             *)
(***************************************************************************)

\* The elements of a list by their positions.
LEMMA InRange ==
  ASSUME NEW S, NEW s \in Seq(S)
  PROVE  /\ \A x : x \in Range(s) <=> \E i \in 1 .. Len(s) : s[i] = x
         /\ \A i \in 1 .. Len(s) : s[i] \in Range(s)
         /\ Range(s) \subseteq S
         /\ IsInjective(s) <=> \A i, j \in 1 .. Len(s) : s[i] = s[j] => i = j
         /\ Len(s) \in Nat /\ DOMAIN s = 1 .. Len(s)
  BY LenProperties, ElementOfSeq DEF Range, IsInjective

\* The first element, and the list without it.
LEMMA HeadOut ==
  ASSUME NEW S, NEW s \in Seq(S), s # <<>>, IsInjective(s)
  PROVE  /\ Head(s) \in Range(s) /\ Head(s) \in S /\ Head(s) = s[1] /\ Len(s) >= 1
         /\ Tail(s) \in Seq(S) /\ Range(Tail(s)) = Range(s) \ {Head(s)}
         /\ IsInjective(Tail(s))
<1> DEFINE t == Tail(s)
<1>1. /\ Len(s) \in Nat /\ Len(s) >= 1 /\ Head(s) = s[1] /\ Head(s) \in S
      /\ t \in Seq(S) /\ Len(t) = Len(s) - 1
      /\ \A i \in 1 .. Len(t) : t[i] = s[i + 1]
  BY HeadTailProperties, LenProperties, EmptySeq
<1> HIDE DEF t
<1>2. Head(s) \in Range(s)
  BY <1>1, InRange
<1>3. /\ \A x : x \in Range(s) <=> \E i \in 1 .. Len(s) : s[i] = x
      /\ \A x : x \in Range(t) <=> \E i \in 1 .. Len(t) : t[i] = x
      /\ \A i, j \in 1 .. Len(s) : s[i] = s[j] => i = j
      /\ IsInjective(t) <=> \A i, j \in 1 .. Len(t) : t[i] = t[j] => i = j
  BY <1>1, InRange
<1>4. ASSUME NEW x \in Range(t) PROVE x \in Range(s) \ {Head(s)}
  <2>1. PICK i \in 1 .. Len(t) : t[i] = x
    BY <1>3
  <2>2. i + 1 \in 1 .. Len(s) /\ 1 \in 1 .. Len(s) /\ s[i + 1] = x /\ i + 1 # 1
    BY <1>1, <2>1
  <2> QED
    BY <1>1, <1>3, <2>2
<1>5. ASSUME NEW x \in Range(s), x # Head(s) PROVE x \in Range(t)
  <2>1. PICK i \in 1 .. Len(s) : s[i] = x
    BY <1>3
  <2>2. i - 1 \in 1 .. Len(t) /\ t[i - 1] = x
    BY <1>1, <1>5, <2>1
  <2> QED
    BY <1>3, <2>2
<1>6. IsInjective(t)
  <2>1. SUFFICES ASSUME NEW i \in 1 .. Len(t), NEW j \in 1 .. Len(t), t[i] = t[j]
                 PROVE  i = j
    BY <1>3
  <2>2. i + 1 \in 1 .. Len(s) /\ j + 1 \in 1 .. Len(s) /\ s[i + 1] = s[j + 1]
    BY <1>1, <2>1
  <2> QED
    BY <1>3, <2>2
<1> QED
  BY <1>1, <1>2, <1>4, <1>5, <1>6 DEF t

\* Two lists with different elements, one after the other.
LEMMA Joined ==
  ASSUME NEW S, NEW s \in Seq(S), NEW t \in Seq(S), IsInjective(s), IsInjective(t),
         Range(s) \cap Range(t) = {}
  PROVE  /\ s \o t \in Seq(S) /\ Range(s \o t) = Range(s) \cup Range(t)
         /\ IsInjective(s \o t)
<1> DEFINE r == s \o t
<1>1. /\ r \in Seq(S) /\ Len(r) = Len(s) + Len(t) /\ Len(s) \in Nat /\ Len(t) \in Nat
      /\ \A i \in 1 .. Len(s) + Len(t) : r[i] = IF i <= Len(s) THEN s[i] ELSE t[i - Len(s)]
      /\ Range(r) = Range(s) \cup Range(t)
  BY ConcatProperties, RangeConcatenation, LenProperties
<1> HIDE DEF r
<1>2. SUFFICES ASSUME NEW i \in 1 .. Len(r), NEW j \in 1 .. Len(r), r[i] = r[j]
               PROVE  i = j
  BY <1>1, InRange DEF r
<1>3. /\ \A k \in 1 .. Len(s) : s[k] \in Range(s)
      /\ \A k \in 1 .. Len(t) : t[k] \in Range(t)
      /\ \A k, l \in 1 .. Len(s) : s[k] = s[l] => k = l
      /\ \A k, l \in 1 .. Len(t) : t[k] = t[l] => k = l
  BY InRange
<1>4. CASE i <= Len(s) /\ j <= Len(s)
  BY <1>1, <1>2, <1>3, <1>4
<1>5. CASE i > Len(s) /\ j > Len(s)
  <2>1. i - Len(s) \in 1 .. Len(t) /\ j - Len(s) \in 1 .. Len(t) /\ t[i - Len(s)] = t[j - Len(s)]
    BY <1>1, <1>2, <1>5
  <2>2. i - Len(s) = j - Len(s)
    BY <1>3, <2>1
  <2> QED
    BY <1>1, <2>2
<1>6. CASE i <= Len(s) /\ j > Len(s)
  <2>1. i \in 1 .. Len(s) /\ j - Len(s) \in 1 .. Len(t) /\ s[i] = t[j - Len(s)]
    BY <1>1, <1>2, <1>6
  <2> QED
    BY <1>3, <2>1
<1>7. CASE i > Len(s) /\ j <= Len(s)
  <2>1. j \in 1 .. Len(s) /\ i - Len(s) \in 1 .. Len(t) /\ s[j] = t[i - Len(s)]
    BY <1>1, <1>2, <1>7
  <2> QED
    BY <1>3, <2>1
<1> QED
  BY <1>1, <1>4, <1>5, <1>6, <1>7

\* The list of one element.
LEMMA Single ==
  ASSUME NEW S, NEW w \in S, NEW t, t = <<w>>
  PROVE  /\ t \in Seq(S) /\ Len(t) = 1 /\ t[1] = w
         /\ Range(t) = {w} /\ IsInjective(t)
<1>1. t \in Seq(S) /\ Len(t) = 1 /\ t[1] = w
  OBVIOUS
<1>2. \A x \in Seq(S) : (Len(x) = 1 /\ x[1] = w) => (Range(x) = {w} /\ IsInjective(x))
  <2>1. SUFFICES ASSUME NEW x \in Seq(S), Len(x) = 1, x[1] = w
                 PROVE  Range(x) = {w} /\ IsInjective(x)
    OBVIOUS
  <2>2. DOMAIN x = {1}
    BY <2>1, InRange
  <2> QED
    BY <2>1, <2>2, Zenon DEF Range, IsInjective
<1> QED
  BY <1>1, <1>2

\* list_add() and list_add_tail().
LEMMA Added ==
  ASSUME NEW S, NEW s \in Seq(S), IsInjective(s), NEW w \in S, w \notin Range(s)
  PROVE  /\ <<w>> \o s \in Seq(S) /\ Append(s, w) \in Seq(S)
         /\ Range(<<w>> \o s) = Range(s) \cup {w} /\ Range(Append(s, w)) = Range(s) \cup {w}
         /\ IsInjective(<<w>> \o s) /\ IsInjective(Append(s, w))
         /\ s # <<>> => (<<w>> \o s)[Len(<<w>> \o s)] = s[Len(s)]
         /\ Append(s, w)[Len(Append(s, w))] = w
<1>1. PICK t : t = <<w>>
  OBVIOUS
<1>2. /\ t \in Seq(S) /\ Len(t) = 1 /\ Range(t) = {w} /\ IsInjective(t)
  BY <1>1, Single
<1>3. /\ t \o s \in Seq(S) /\ Range(t \o s) = Range(t) \cup Range(s) /\ IsInjective(t \o s)
      /\ s \o t \in Seq(S) /\ Range(s \o t) = Range(s) \cup Range(t) /\ IsInjective(s \o t)
  <2>1. Range(s) \cap Range(t) = {} /\ Range(t) \cap Range(s) = {}
    BY <1>2
  <2> HIDE <1>1
  <2> QED
    BY <1>2, <2>1, Joined
<1>4. ASSUME s # <<>> PROVE (t \o s)[Len(t \o s)] = s[Len(s)]
  <2>1. Len(s) \in Nat /\ Len(s) >= 1
    BY <1>4, LenProperties, EmptySeq
  <2> HIDE <1>1
  <2>2. /\ Len(t \o s) = Len(t) + Len(s)
        /\ \A i \in 1 .. Len(t) + Len(s) :
              (t \o s)[i] = IF i <= Len(t) THEN t[i] ELSE s[i - Len(t)]
    <3>1. t \in Seq(S)
      BY <1>2
    <3> HIDE <1>2, <2>1
    <3> QED
      BY <3>1, ConcatProperties
  <2> QED
    BY <1>2, <2>1, <2>2
<1>5. Append(s, w) = s \o t
  BY <1>1, AppendIsConcat
<1>6. Append(s, w)[Len(Append(s, w))] = w
  BY AppendProperties
<1> QED
  BY <1>1, <1>2, <1>3, <1>4, <1>5, <1>6, Zenon

\* list_add() of w behind the n-th element, and the positions after it.
Insert(s, n, w) == SubSeq(s, 1, n) \o <<w>> \o SubSeq(s, n + 1, Len(s))
InsertedAt(r, s, n, w) ==
  /\ Len(r) = Len(s) + 1
  /\ \A i \in 1 .. Len(s) + 1 :
        r[i] = IF i <= n THEN s[i] ELSE IF i = n + 1 THEN w ELSE s[i - 1]

\* Where the elements are after list_add() behind the n-th.
LEMMA Positions ==
  ASSUME NEW S, NEW s \in Seq(S), NEW w \in S, NEW n \in 0 .. Len(s)
  PROVE  Insert(s, n, w) \in Seq(S) /\ InsertedAt(Insert(s, n, w), s, n, w)
<1>1. Len(s) \in Nat /\ \A i \in 1 .. Len(s) : s[i] \in S
  BY LenProperties, ElementOfSeq
<1>2. PICK a : a = SubSeq(s, 1, n)
  OBVIOUS
<1>3. a \in Seq(S) /\ Len(a) = n /\ \A i \in 1 .. n : a[i] = s[i]
  <2>1. /\ SubSeq(s, 1, n) \in Seq(S) /\ Len(SubSeq(s, 1, n)) = IF 1 <= n THEN n - 1 + 1 ELSE 0
        /\ \A i \in 1 .. n - 1 + 1 : SubSeq(s, 1, n)[i] = s[1 + i - 1]
    BY <1>1, SubSeqProperties
  <2> QED
    BY <1>1, <1>2, <2>1
<1>4. PICK b : b = SubSeq(s, n + 1, Len(s))
  OBVIOUS
<1>5. b \in Seq(S) /\ Len(b) = Len(s) - n /\ \A i \in 1 .. Len(s) - n : b[i] = s[n + i]
  <2>1. /\ SubSeq(s, n + 1, Len(s)) \in Seq(S)
        /\ Len(SubSeq(s, n + 1, Len(s))) = IF n + 1 <= Len(s) THEN Len(s) - (n + 1) + 1 ELSE 0
        /\ \A i \in 1 .. Len(s) - (n + 1) + 1 : SubSeq(s, n + 1, Len(s))[i] = s[n + 1 + i - 1]
    BY <1>1, SubSeqProperties
  <2> QED
    BY <1>1, <1>4, <2>1
<1>6. PICK t : t = <<w>>
  OBVIOUS
<1>7. t \in Seq(S) /\ Len(t) = 1 /\ t[1] = w
  BY <1>6, Single
<1>8. PICK c : c = a \o t
  OBVIOUS
<1>9. /\ c \in Seq(S) /\ Len(c) = n + 1
      /\ \A i \in 1 .. n + 1 : c[i] = IF i <= n THEN a[i] ELSE t[i - n]
  <2> HIDE <1>2, <1>4, <1>6
  <2>1. /\ a \o t \in Seq(S) /\ Len(a \o t) = Len(a) + Len(t)
        /\ \A i \in 1 .. Len(a) + Len(t) :
              (a \o t)[i] = IF i <= Len(a) THEN a[i] ELSE t[i - Len(a)]
    <3>1. a \in Seq(S) /\ t \in Seq(S)
      BY <1>3, <1>7
    <3> HIDE <1>1, <1>3, <1>7, <1>8
    <3> QED
      BY <3>1, ConcatProperties
  <2>2. Len(a) = n /\ Len(t) = 1
    BY <1>3, <1>7
  <2> HIDE <1>3, <1>7
  <2> QED
    BY <1>8, <2>1, <2>2, Zenon
<1>10. PICK r : r = c \o b
  OBVIOUS
<1>11. /\ r \in Seq(S) /\ Len(r) = Len(s) + 1
       /\ \A i \in 1 .. Len(s) + 1 : r[i] = IF i <= n + 1 THEN c[i] ELSE b[i - (n + 1)]
  <2> HIDE <1>2, <1>4, <1>6, <1>8
  <2>1. /\ c \o b \in Seq(S) /\ Len(c \o b) = Len(c) + Len(b)
        /\ \A i \in 1 .. Len(c) + Len(b) :
              (c \o b)[i] = IF i <= Len(c) THEN c[i] ELSE b[i - Len(c)]
    <3>1. c \in Seq(S) /\ b \in Seq(S)
      BY <1>5, <1>9
    <3> HIDE <1>1, <1>3, <1>5, <1>7, <1>9, <1>10
    <3> QED
      BY <3>1, ConcatProperties
  <2>2. Len(c) = n + 1 /\ Len(c) + Len(b) = Len(s) + 1
    BY <1>1, <1>5, <1>9
  <2> QED
    BY <1>10, <2>1, <2>2, Zenon
<1>12. \A i \in 1 .. Len(s) + 1 :
          r[i] = IF i <= n THEN s[i] ELSE IF i = n + 1 THEN w ELSE s[i - 1]
  <2> HIDE <1>2, <1>4, <1>6, <1>8, <1>10
  <2>1. TAKE i \in 1 .. Len(s) + 1
  <2>2. CASE i <= n
    BY <1>1, <1>3, <1>9, <1>11, <2>1, <2>2
  <2>3. CASE i = n + 1
    BY <1>1, <1>7, <1>9, <1>11, <2>1, <2>3
  <2>4. CASE i > n + 1
    <3>1. i - (n + 1) \in 1 .. Len(s) - n /\ n + (i - (n + 1)) = i - 1
      BY <1>1, <2>1, <2>4
    <3>2. r[i] = b[i - (n + 1)]
      BY <1>1, <1>11, <2>1, <2>4
    <3>3. r[i] = s[n + (i - (n + 1))]
      BY <1>5, <3>1, <3>2
    <3> QED
      BY <1>1, <2>4, <3>1, <3>3
  <2> QED
    BY <1>1, <2>2, <2>3, <2>4
<1>13. r = Insert(s, n, w)
  <2> HIDE <1>1, <1>3, <1>5, <1>7, <1>9, <1>11, <1>12
  <2> QED
    BY <1>2, <1>4, <1>6, <1>8, <1>10, Zenon DEF Insert
<1> HIDE <1>2, <1>4, <1>6, <1>8, <1>10
<1> QED
  BY <1>11, <1>12, <1>13, Zenon DEF InsertedAt

\* Its elements.
LEMMA Inserted ==
  ASSUME NEW S, NEW s \in Seq(S), IsInjective(s), NEW w \in S, w \notin Range(s),
         NEW n \in 0 .. Len(s), NEW r \in Seq(S), Len(r) = Len(s) + 1,
         \A i \in 1 .. Len(s) + 1 :
            r[i] = IF i <= n THEN s[i] ELSE IF i = n + 1 THEN w ELSE s[i - 1]
  PROVE  Range(r) = Range(s) \cup {w} /\ IsInjective(r)
<1>1. Len(s) \in Nat /\ \A i \in 1 .. Len(s) : s[i] \in S
  BY LenProperties, ElementOfSeq
<1>2. Len(r) = Len(s) + 1
  OBVIOUS
<1>3. \A i \in 1 .. Len(r) : r[i] = IF i <= n THEN s[i] ELSE IF i = n + 1 THEN w ELSE s[i - 1]
  OBVIOUS
<1>4. /\ \A x : x \in Range(s) <=> \E i \in 1 .. Len(s) : s[i] = x
      /\ \A x : x \in Range(r) <=> \E i \in 1 .. Len(r) : r[i] = x
      /\ \A i, j \in 1 .. Len(s) : s[i] = s[j] => i = j
      /\ IsInjective(r) <=> \A i, j \in 1 .. Len(r) : r[i] = r[j] => i = j
  BY <1>2, InRange
<1>5. ASSUME NEW x \in Range(r) PROVE x \in Range(s) \cup {w}
  <2>1. PICK i \in 1 .. Len(r) : r[i] = x
    BY <1>4
  <2>2. CASE i <= n
    <3>1. i \in 1 .. Len(s) /\ s[i] = x
      BY <1>1, <1>2, <1>3, <2>1, <2>2
    <3> QED
      BY <1>4, <3>1
  <2>3. CASE i = n + 1
    BY <1>3, <2>1, <2>3
  <2>4. CASE i > n + 1
    <3>1. i - 1 \in 1 .. Len(s) /\ s[i - 1] = x
      BY <1>1, <1>2, <1>3, <2>1, <2>4
    <3> QED
      BY <1>4, <3>1
  <2> QED
    BY <1>1, <2>2, <2>3, <2>4
<1>6. ASSUME NEW x \in Range(s) \cup {w} PROVE x \in Range(r)
  <2>1. CASE x = w
    <3>1. n + 1 \in 1 .. Len(r) /\ r[n + 1] = w
      BY <1>1, <1>2, <1>3
    <3> QED
      BY <1>4, <2>1, <3>1
  <2>2. CASE x \in Range(s)
    <3>1. PICK i \in 1 .. Len(s) : s[i] = x
      BY <1>4, <2>2
    <3>2. CASE i <= n
      <4>1. i \in 1 .. Len(r) /\ r[i] = x
        BY <1>1, <1>2, <1>3, <3>1, <3>2
      <4> QED
        BY <1>4, <4>1
    <3>3. CASE i > n
      <4>1. i + 1 \in 1 .. Len(r) /\ r[i + 1] = x
        BY <1>1, <1>2, <1>3, <3>1, <3>3
      <4> QED
        BY <1>4, <4>1
    <3> QED
      BY <1>1, <3>2, <3>3
  <2> QED
    BY <1>6, <2>1, <2>2
<1>7. ASSUME NEW i \in 1 .. Len(r), NEW j \in 1 .. Len(r), r[i] = r[j] PROVE i = j
  <2> DEFINE At(k) == IF k <= n THEN k ELSE k - 1
  <2>1. \A k \in 1 .. Len(r) : k # n + 1 => At(k) \in 1 .. Len(s) /\ r[k] = s[At(k)]
    BY <1>1, <1>2, <1>3
  <2>2. \A k \in 1 .. Len(r) : k # n + 1 => r[k] \in Range(s)
    BY <1>4, <2>1
  <2>3. r[n + 1] = w
    BY <1>1, <1>2, <1>3
  <2>4. CASE i # n + 1 /\ j # n + 1
    <3>1. /\ At(i) \in 1 .. Len(s) /\ r[i] = s[At(i)]
          /\ At(j) \in 1 .. Len(s) /\ r[j] = s[At(j)]
      BY <2>1, <2>4
    <3> HIDE DEF At
    <3>2. At(i) = At(j)
      BY <1>4, <1>7, <3>1, ZenonT(30)
    <3> QED
      BY <1>1, <1>2, <2>4, <3>2 DEF At
  <2> QED
    BY <1>7, <2>2, <2>3, <2>4
<1> QED
  BY <1>2, <1>3, <1>4, <1>5, <1>6, <1>7

\* add_waiter_to_queue() finds a position: the waiter there is not later, all
\* waiters behind it are.
LEMMA QueuedAt ==
  ASSUME wait_head \in Seq(Waiters), NEW w \in Waiters
  PROVE  \E n \in 0 .. Len(wait_head) :
           /\ Queued(w) = Insert(wait_head, n, w)
           /\ n > 0 => ~After(Word(target[wait_head[n]]), Word(target[w]))
           /\ \A i \in n + 1 .. Len(wait_head) :
                 After(Word(target[wait_head[i]]), Word(target[w]))
<1> DEFINE Late(i) == After(Word(target[wait_head[i]]), Word(target[w]))
           before == {i \in DOMAIN wait_head : ~Late(i)}
           n == IF before = {} THEN 0 ELSE CHOOSE i \in before : \A j \in before : j <= i
<1>1. Queued(w) = Insert(wait_head, n, w)
  BY DEF Queued, Insert
<1>2. Len(wait_head) \in Nat /\ DOMAIN wait_head = 1 .. Len(wait_head)
  BY LenProperties
<1>3. /\ n \in 0 .. Len(wait_head)
      /\ n > 0 => ~Late(n)
      /\ \A i \in n + 1 .. Len(wait_head) : Late(i)
  <2> HIDE DEF Late
  <2>1. CASE before = {}
    <3>1. n = 0
      BY <2>1
    <3>2. \A i \in 1 .. Len(wait_head) : Late(i)
      BY <1>2, <2>1
    <3> QED
      BY <1>2, <3>1, <3>2
  <2>2. CASE before # {}
    <3>1. before \subseteq 1 .. Len(wait_head)
      BY <1>2
    <3>2. \E i \in before : \A j \in before : j <= i
      BY <1>2, <2>2, <3>1, LastExists
    <3>3. n \in before /\ \A j \in before : j <= n
      BY <2>2, <3>2
    <3>4. \A i \in 1 .. Len(wait_head) : i \in before <=> ~Late(i)
      BY <1>2
    <3> HIDE DEF before, n
    <3> QED
      BY <1>2, <3>1, <3>3, <3>4
  <2> QED
    BY <2>1, <2>2
<1> HIDE DEF n, Late
<1>4. \E m \in 0 .. Len(wait_head) :
        /\ Queued(w) = Insert(wait_head, m, w)
        /\ m > 0 => ~Late(m)
        /\ \A i \in m + 1 .. Len(wait_head) : Late(i)
  BY <1>1, <1>3, Zenon
<1> QED
  BY <1>4 DEF Late

-----------------------------------------------------------------------------
(***************************************************************************)
(* The inductive invariant.                                                *)
(***************************************************************************)
Others == Jobs \cup Fast \cup Slow

PcOf == {"idle", "check", "check_cas", "add", "added", "sleep", "cancel", "process",
         "process_cas", "lock", "scan", "run", "put", "kref", "done"}

\* Types, except that the counts of references and of uses are not negative.
Shape ==
  /\ hw \in Nat /\ min_val \in Nat /\ max_val \in Nat /\ busy \in Int
  /\ thresh \in 0 .. U32 - 1 /\ enabled \in BOOLEAN
  /\ lock \in Procs \cup {None}
  /\ wait_head \in Seq(Waiters)
  /\ low_prio \in [submit : Seq(Jobs), notify : Seq(Slow)]
  /\ work \in BOOLEAN
  /\ state \in [Waiters -> States] /\ refcount \in [Waiters -> Int]
  /\ target \in [Waiters -> Nat] /\ count \in [Waiters -> Nat]
  /\ pc \in [Procs \cup Waiters -> PcOf]
  /\ old \in [Procs -> Nat] /\ live \in [Procs -> Nat]
  /\ todo \in [Procs -> Seq(Waiters)] /\ kick \in [Procs -> BOOLEAN]
  /\ ret \in [Sleepers -> {None, "ok", "err"}]

\* Who may be where: of those who run process_wait_list(), the one that scans
\* holds the lock, and only that and those that run handlers have a list.
Roles ==
  /\ \A w \in Others : pc[w] \in {"idle", "add", "added"}
  /\ \A s \in Sleepers : pc[s] # "added"
  /\ pc["isr"] \in {"idle", "process", "process_cas", "lock", "scan", "run", "put"}
  /\ pc["work"] \in {"idle", "run", "put"}
  /\ \A p \in Procs : /\ lock = p <=> pc[p] = "scan"
                      /\ pc[p] \notin {"scan", "run", "put"} => todo[p] = <<>>
                      /\ pc[p] = "put" => todo[p] # <<>>

\* A waiter exists from nvhost_intr_add_action() on.
Born ==
  /\ \A w \in Waiters : pc[w] \in {"idle", "add"} => state[w] = "none"
  /\ \A w \in Others : pc[w] = "added" => state[w] # "none"
  /\ \A s \in Sleepers : pc[s] \notin {"idle", "add", "check", "check_cas", "done"}
                           => state[s] # "none"

\* A list holds a waiter once.
Lists ==
  /\ IsInjective(wait_head)
  /\ IsInjective(low_prio.submit) /\ IsInjective(low_prio.notify)
  /\ \A p \in Procs : IsInjective(todo[p])

\* Different lists of completed waiters hold different waiters.
Disjoint ==
  /\ Range(todo["work"]) \cap (Range(low_prio.submit) \cup Range(low_prio.notify)) = {}
  /\ Range(todo["work"]) \subseteq Jobs \cup Slow
  /\ \A p \in Procs \ {"work"} : Range(todo[p]) \subseteq Sleepers \cup Fast
  /\ \A p, q \in Procs : p # q => Range(todo[p]) \cap Range(todo[q]) = {}

\* The list a waiter is in tells its state.
StateIn ==
  /\ \A w \in Range(wait_head) : state[w] \in {"pending", "cancelled"}
  /\ \A w \in Range(low_prio.submit) \cup Range(low_prio.notify) :
        state[w] \in {"removed", "cleanup"}
  /\ \A p \in Procs : \A w \in Range(todo[p]) :
        IF pc[p] = "put" /\ w = Head(todo[p]) THEN state[w] \in {"handled", "cleanup"}
                                              ELSE state[w] \in {"removed", "cleanup"}

\* A waiter that is pending, cancelled or removed is in a list.
Held(w) == \/ w \in Range(low_prio.submit) \/ w \in Range(low_prio.notify)
           \/ \E p \in Procs : w \in Range(todo[p])
Placed ==
  \A w \in Waiters : /\ state[w] \in {"pending", "cancelled"} => w \in Range(wait_head)
                     /\ state[w] = "removed" => Held(w)

\* One reference of the list, one of the thread.
RefInv ==
  \A w \in Waiters :
    /\ refcount[w] = (IF w \in Range(wait_head) \/ Held(w) THEN 1 ELSE 0) + ThreadRef(w)
    /\ state[w] \in {"none", "freed"} <=> refcount[w] = 0

\* Only threads cancel, and a job is merged into one whose handler will run.
Merging ==
  /\ \A w \in Waiters : state[w] = "cancelled" => w \in Sleepers
  /\ \A w \in Waiters : state[w] = "pending" => count[w] = 1
  /\ low_prio.submit # <<>> => state[low_prio.submit[Len(low_prio.submit)]] = "removed"

ListInv == /\ Shape /\ Roles /\ Born /\ Lists /\ Disjoint /\ StateIn /\ Placed
           /\ RefInv /\ Merging

-----------------------------------------------------------------------------
(***************************************************************************)
(* Facts about a state of the invariant.                                   *)
(***************************************************************************)

\* The kinds of waiters and processes are different.
LEMMA Kinds ==
  /\ Waiters = Sleepers \cup Others /\ Sleepers \cap Others = {}
  /\ Jobs \subseteq Others /\ Slow \subseteq Others /\ Fast \subseteq Others
  /\ Jobs \cap Slow = {} /\ (Jobs \cup Slow) \cap (Sleepers \cup Fast) = {}
  /\ Waiters = Jobs \cup Slow \cup (Sleepers \cup Fast)
  /\ Procs = Sleepers \cup {"isr", "work"} /\ "isr" \notin Waiters /\ "work" \notin Waiters
  /\ None \notin Procs /\ None # "ok"
  BY WaitersAssumption DEF Waiters, Others, Jobs, Procs

\* The elements of the lists are waiters.
LEMMA Elements ==
  ASSUME Shape
  PROVE  /\ Range(wait_head) \subseteq Waiters
         /\ low_prio.submit \in Seq(Jobs) /\ low_prio.notify \in Seq(Slow)
         /\ Range(low_prio.submit) \subseteq Jobs /\ Range(low_prio.notify) \subseteq Slow
         /\ \A p \in Procs : todo[p] \in Seq(Waiters) /\ Range(todo[p]) \subseteq Waiters
<1>1. /\ low_prio.submit \in Seq(Jobs) /\ low_prio.notify \in Seq(Slow)
      /\ \A p \in Procs : todo[p] \in Seq(Waiters)
      /\ wait_head \in Seq(Waiters)
  BY DEF Shape
<1> QED
  BY <1>1, InRange

\* A waiter is in one list only.
LEMMA Alone ==
  ASSUME ListInv, NEW p \in Procs, NEW w \in Range(todo[p])
  PROVE  /\ w \in Waiters /\ w \notin Range(wait_head)
         /\ w \notin Range(low_prio.submit) /\ w \notin Range(low_prio.notify)
         /\ \A q \in Procs : q # p => w \notin Range(todo[q])
<1>1. w \in Waiters
  BY Elements DEF ListInv
<1>2. w \notin Range(wait_head)
  BY DEF ListInv, StateIn
<1>3. w \notin Range(low_prio.submit) /\ w \notin Range(low_prio.notify)
  BY Elements, Kinds DEF ListInv, Disjoint
<1>4. \A q \in Procs : q # p => w \notin Range(todo[q])
  BY DEF ListInv, Disjoint
<1> QED
  BY <1>1, <1>2, <1>3, <1>4

\* A process that works on a waiter works on the first of its list.
LEMMA AtHead ==
  ASSUME ListInv, NEW p \in Procs, todo[p] # <<>>
  PROVE  /\ Head(todo[p]) \in Range(todo[p]) /\ Head(todo[p]) \in Waiters
         /\ Tail(todo[p]) \in Seq(Waiters)
         /\ Range(Tail(todo[p])) = Range(todo[p]) \ {Head(todo[p])}
         /\ IsInjective(Tail(todo[p]))
<1>1. todo[p] \in Seq(Waiters) /\ IsInjective(todo[p])
  BY Elements DEF ListInv, Lists
<1> QED
  BY <1>1, HeadOut

\* A new waiter is in no list, and enters wait_head.
LEMMA EnterEffect ==
  ASSUME ListInv, NEW w \in Waiters, AddAction(w)
  PROVE  /\ state[w] = "none" /\ w \notin Range(wait_head) /\ ~Held(w)
         /\ wait_head' \in Seq(Waiters) /\ Range(wait_head') = Range(wait_head) \cup {w}
         /\ IsInjective(wait_head')
         /\ \E n \in 0 .. Len(wait_head) :
              /\ Len(wait_head') = Len(wait_head) + 1
              /\ \A i \in 1 .. Len(wait_head) + 1 :
                    wait_head'[i] = IF i <= n THEN wait_head[i]
                                    ELSE IF i = n + 1 THEN w ELSE wait_head[i - 1]
              /\ n > 0 => ~After(Word(target[wait_head[n]]), Word(target[w]))
              /\ \A i \in n + 1 .. Len(wait_head) :
                    After(Word(target[wait_head[i]]), Word(target[w]))
<1>1. state[w] = "none"
  BY DEF AddAction, ListInv, Born
<1>2. w \notin Range(wait_head) /\ ~Held(w)
  BY <1>1 DEF ListInv, StateIn, Held
<1>3. wait_head \in Seq(Waiters) /\ IsInjective(wait_head)
  BY DEF ListInv, Shape, Lists
<1>4. PICK n \in 0 .. Len(wait_head) :
        /\ Queued(w) = Insert(wait_head, n, w)
        /\ n > 0 => ~After(Word(target[wait_head[n]]), Word(target[w]))
        /\ \A i \in n + 1 .. Len(wait_head) :
              After(Word(target[wait_head[i]]), Word(target[w]))
  BY <1>3, QueuedAt
<1>5. PICK r : r = wait_head'
  OBVIOUS
<1>6. r = Insert(wait_head, n, w)
  BY <1>4, <1>5, Zenon DEF AddAction
<1>7. /\ r \in Seq(Waiters) /\ Len(r) = Len(wait_head) + 1
      /\ \A i \in 1 .. Len(wait_head) + 1 :
            r[i] = IF i <= n THEN wait_head[i] ELSE IF i = n + 1 THEN w ELSE wait_head[i - 1]
  <2>1. PICK h : h = wait_head
    OBVIOUS
  <2>2. h \in Seq(Waiters) /\ n \in 0 .. Len(h)
    BY <1>3, <2>1, Zenon
  <2>3. Insert(h, n, w) \in Seq(Waiters) /\ InsertedAt(Insert(h, n, w), h, n, w)
    BY <2>2, Positions, Zenon
  <2> QED
    BY <1>6, <2>1, <2>3, Zenon DEF InsertedAt
<1>8. Range(r) = Range(wait_head) \cup {w} /\ IsInjective(r)
  BY <1>2, <1>3, <1>7, Inserted, ZenonT(30)
<1> QED
  BY <1>1, <1>2, <1>4, <1>5, <1>7, <1>8, Zenon

\* A completed waiter leaves wait_head for one list.
LEMMA LeaveEffect ==
  ASSUME ListInv, NEW p \in Procs, RemoveCompleted(p), NEW w, w = Head(wait_head)
  PROVE  /\ w \in Waiters /\ w \in Range(wait_head) /\ ~Held(w)
         /\ state[w] \in {"pending", "cancelled"} /\ p # "work" /\ pc[p] = "scan"
         /\ wait_head' \in Seq(Waiters) /\ IsInjective(wait_head')
         /\ Range(wait_head') = Range(wait_head) \ {w}
         /\ w \in Jobs =>
              /\ todo' = todo /\ low_prio'.notify = low_prio.notify
              /\ low_prio' \in [submit : Seq(Jobs), notify : Seq(Slow)]
              /\ IsInjective(low_prio'.submit)
              /\ Range(low_prio'.submit) = Range(low_prio.submit) \cup {w}
         /\ w \in Slow =>
              /\ todo' = todo /\ low_prio'.submit = low_prio.submit
              /\ low_prio' \in [submit : Seq(Jobs), notify : Seq(Slow)]
              /\ IsInjective(low_prio'.notify)
              /\ Range(low_prio'.notify) = Range(low_prio.notify) \cup {w}
         /\ w \in Sleepers \cup Fast =>
              /\ low_prio' = low_prio
              /\ todo' \in [Procs -> Seq(Waiters)]
              /\ IsInjective(todo'[p]) /\ Range(todo'[p]) = Range(todo[p]) \cup {w}
              /\ \A q \in Procs : q # p => todo'[q] = todo[q]
<1> DEFINE cleanup == state[w] = "cancelled" \/ Merged(p, w)
           dest == IF cleanup THEN <<w>> \o Dest(p, w) ELSE Append(Dest(p, w), w)
<1>1. wait_head # <<>> /\ wait_head \in Seq(Waiters) /\ IsInjective(wait_head)
  BY DEF ListInv, Shape, Lists, RemoveCompleted, Completed
<1>2. /\ w \in Waiters /\ w \in Range(wait_head)
      /\ Tail(wait_head) \in Seq(Waiters) /\ IsInjective(Tail(wait_head))
      /\ Range(Tail(wait_head)) = Range(wait_head) \ {w}
  BY <1>1, HeadOut
<1>3. state[w] \in {"pending", "cancelled"} /\ ~Held(w)
  <2>1. state[w] \in {"pending", "cancelled"}
    BY <1>2 DEF ListInv, StateIn
  <2> QED
    BY <2>1 DEF ListInv, StateIn, Held
<1>4. wait_head' = Tail(wait_head) /\ pc[p] = "scan" /\ p # "work"
  BY DEF RemoveCompleted, ListInv, Roles
<1>5. ASSUME w \in Jobs
      PROVE  /\ todo' = todo /\ low_prio'.notify = low_prio.notify
             /\ low_prio' \in [submit : Seq(Jobs), notify : Seq(Slow)]
             /\ IsInjective(low_prio'.submit)
             /\ Range(low_prio'.submit) = Range(low_prio.submit) \cup {w}
  <2>1. Dest(p, w) = low_prio.submit /\ w \notin Range(low_prio.submit)
    BY <1>3, <1>5, Kinds DEF Dest, Held
  <2>2. low_prio.submit \in Seq(Jobs) /\ IsInjective(low_prio.submit)
    BY Elements DEF ListInv, Lists
  <2>3. /\ dest \in Seq(Jobs) /\ Range(dest) = Range(low_prio.submit) \cup {w}
        /\ IsInjective(dest)
    BY <1>5, <2>1, <2>2, Added
  <2>4. low_prio' = [low_prio EXCEPT !.submit = dest] /\ todo' = todo
    BY <1>5, Kinds DEF RemoveCompleted
  <2> HIDE DEF dest
  <2>5. low_prio'.submit = dest /\ low_prio'.notify = low_prio.notify
    BY <2>4 DEF ListInv, Shape
  <2> QED
    BY <2>3, <2>4, <2>5 DEF ListInv, Shape
<1>6. ASSUME w \in Slow
      PROVE  /\ todo' = todo /\ low_prio'.submit = low_prio.submit
             /\ low_prio' \in [submit : Seq(Jobs), notify : Seq(Slow)]
             /\ IsInjective(low_prio'.notify)
             /\ Range(low_prio'.notify) = Range(low_prio.notify) \cup {w}
  <2>0. w \notin Jobs /\ w \notin Sleepers \cup Fast
    BY <1>6, Kinds
  <2>1. Dest(p, w) = low_prio.notify /\ w \notin Range(low_prio.notify)
    BY <1>3, <1>6, <2>0 DEF Dest, Held
  <2>2. low_prio.notify \in Seq(Slow) /\ IsInjective(low_prio.notify)
    BY Elements DEF ListInv, Lists
  <2>3. /\ dest \in Seq(Slow) /\ Range(dest) = Range(low_prio.notify) \cup {w}
        /\ IsInjective(dest)
    BY <1>6, <2>1, <2>2, Added
  <2>4. low_prio' = [low_prio EXCEPT !.notify = dest] /\ todo' = todo
    BY <1>6, <2>0 DEF RemoveCompleted
  <2> HIDE DEF dest
  <2>5. low_prio'.notify = dest /\ low_prio'.submit = low_prio.submit
    BY <2>4 DEF ListInv, Shape
  <2> QED
    BY <2>3, <2>4, <2>5 DEF ListInv, Shape
<1>7. ASSUME w \in Sleepers \cup Fast
      PROVE  /\ low_prio' = low_prio
             /\ todo' \in [Procs -> Seq(Waiters)]
             /\ IsInjective(todo'[p]) /\ Range(todo'[p]) = Range(todo[p]) \cup {w}
             /\ \A q \in Procs : q # p => todo'[q] = todo[q]
  <2>0. w \notin Jobs /\ w \notin Slow
    BY <1>7, Kinds
  <2>1. Dest(p, w) = todo[p] /\ w \notin Range(todo[p])
    BY <1>3, <1>7, <2>0 DEF Dest, Held
  <2>2. todo[p] \in Seq(Waiters) /\ IsInjective(todo[p])
    BY Elements DEF ListInv, Lists
  <2>3. dest \in Seq(Waiters) /\ Range(dest) = Range(todo[p]) \cup {w} /\ IsInjective(dest)
    BY <1>2, <2>1, <2>2, Added
  <2>4. todo' = [todo EXCEPT ![p] = dest] /\ low_prio' = low_prio
    BY <1>7, <2>0 DEF RemoveCompleted
  <2> HIDE DEF dest
  <2>5. todo'[p] = dest /\ todo' \in [Procs -> Seq(Waiters)]
    BY <2>3, <2>4 DEF ListInv, Shape
  <2> QED
    BY <2>3, <2>4, <2>5
<1> QED
  BY <1>2, <1>3, <1>4, <1>5, <1>6, <1>7, Zenon

-----------------------------------------------------------------------------
(***************************************************************************)
(* The invariant is preserved.                                             *)
(***************************************************************************)

\* Every step keeps the types.
LEMMA ShapeStep ==
  ASSUME ListInv, [Next]_vars
  PROVE  Shape'
<1>0. Shape /\ Start \in Nat
  BY StartAssumption DEF ListInv
<1> USE <1>0 DEF Shape
<1>1. ASSUME NEW s \in Sleepers, WaitBegin(s) PROVE Shape'
  <2>1. PICK t \in Start - 1 .. max_val :
          /\ target' = [target EXCEPT ![s] = t]
          /\ \/ /\ Goto(s, "done") /\ ret' = [ret EXCEPT ![s] = "ok"] /\ busy' = busy
             \/ /\ Goto(s, "check") /\ busy' = busy + 1 /\ ret' = ret
    BY <1>1 DEF WaitBegin
  <2>2. t \in Nat
    BY StartAssumption
  <2>3. target' \in [Waiters -> Nat]
    BY <2>1, <2>2
  <2>4. pc' \in [Procs \cup Waiters -> PcOf]
    BY <2>1 DEF Goto, PcOf
  <2>5. busy' \in Int
    BY <2>1
  <2>6. ret' \in [Sleepers -> {None, "ok", "err"}]
    BY <2>1
  <2>7. UNCHANGED <<hw, min_val, max_val, thresh, enabled, lock, wait_head, low_prio, work, state,
                    refcount, count, old, live, todo, kick>>
    BY <1>1 DEF WaitBegin, vars, regs, sync, lists, waiter, local
  <2> QED
    BY <2>3, <2>4, <2>5, <2>6, <2>7
<1>2. ASSUME NEW s \in Sleepers, NoTimeout(s) PROVE Shape'
  <2>1. pc' \in [Procs \cup Waiters -> PcOf]
    BY <1>2 DEF NoTimeout, Goto, PcOf
  <2>2. busy' \in Int
    BY <1>2 DEF NoTimeout
  <2>3. ret' \in [Sleepers -> {None, "ok", "err"}]
    BY <1>2 DEF NoTimeout
  <2>4. UNCHANGED <<hw, min_val, max_val, thresh, enabled, lock, wait_head, low_prio, work, state,
                    refcount, target, count, old, live, todo, kick>>
    BY <1>2 DEF NoTimeout, vars, regs, sync, lists, waiter, local
  <2> QED
    BY <2>1, <2>2, <2>3, <2>4
<1>3. ASSUME NEW s \in Sleepers, CheckPeriod(s) PROVE Shape'
  <2>1. pc' \in [Procs \cup Waiters -> PcOf]
    BY <1>3 DEF CheckPeriod, Goto, PcOf
  <2>2. UNCHANGED <<hw, min_val, max_val, busy, thresh, enabled, lock, wait_head, low_prio, work,
                    state, refcount, target, count, old, live, todo, kick, ret>>
    BY <1>3 DEF CheckPeriod, vars, regs, sync, lists, waiter, local
  <2> QED
    BY <2>1, <2>2
<1>4. ASSUME NEW s \in Sleepers, GiveUp(s) PROVE Shape'
  <2>1. pc' \in [Procs \cup Waiters -> PcOf]
    BY <1>4 DEF GiveUp, Goto, PcOf
  <2>2. ret' \in [Sleepers -> {None, "ok", "err"}]
    BY <1>4 DEF GiveUp
  <2>3. UNCHANGED <<hw, min_val, max_val, busy, thresh, enabled, lock, wait_head, low_prio, work,
                    state, refcount, target, count, old, live, todo, kick>>
    BY <1>4 DEF GiveUp, vars, regs, sync, lists, waiter, local
  <2> QED
    BY <2>1, <2>2, <2>3
<1>5. ASSUME NEW s \in Sleepers, Check(s) PROVE Shape'
  <2>1. PICK l \in PcOf : pc' = [pc EXCEPT ![s] = l]
    BY <1>5 DEF Check, Goto, PcOf
  <2>2. PICK e : ret' = [ret EXCEPT ![s] = IF e THEN "ok" ELSE @]
    BY <1>5 DEF Check
  <2>3. s \in Procs
    BY Kinds
  <2>4. busy' = busy \/ busy' = busy - 1
    BY <1>5 DEF Check
  <2>5. pc' \in [Procs \cup Waiters -> PcOf]
    BY <2>1
  <2>6. ret' \in [Sleepers -> {None, "ok", "err"}]
    BY <2>2
  <2>7. busy' \in Int
    BY <2>4
  <2>8. min_val' \in Nat
    BY <1>5, <2>3 DEF Check, CmpXchg
  <2>9. old' \in [Procs -> Nat]
    BY <1>5 DEF Check, CmpXchg, Unused
  <2>10. live' \in [Procs -> Nat]
    BY <1>5 DEF Check, Unused
  <2>11. UNCHANGED <<hw, max_val, thresh, enabled, lock, wait_head, low_prio, work, state,
                    refcount, target, count, todo, kick>>
    BY <1>5 DEF Check, CmpXchg, vars, regs, sync, lists, waiter, local
  <2> QED
    BY <2>5, <2>6, <2>7, <2>8, <2>9, <2>10, <2>11
<1>6. ASSUME NEW s \in Sleepers, Woken(s) PROVE Shape'
  <2>1. pc' \in [Procs \cup Waiters -> PcOf]
    BY <1>6 DEF Woken, Goto, PcOf
  <2>2. UNCHANGED <<hw, min_val, max_val, busy, thresh, enabled, lock, wait_head, low_prio, work,
                    state, refcount, target, count, old, live, todo, kick, ret>>
    BY <1>6 DEF Woken, vars, regs, sync, lists, waiter, local
  <2> QED
    BY <2>1, <2>2
<1>7. ASSUME NEW s \in Sleepers, PutRef(s) PROVE Shape'
  <2>1. pc' \in [Procs \cup Waiters -> PcOf]
    BY <1>7 DEF PutRef, Goto, PcOf
  <2>2. state' \in [Waiters -> States]
    BY <1>7 DEF PutRef, States
  <2>3. UNCHANGED <<hw, min_val, max_val, busy, thresh, enabled, lock, wait_head, low_prio, work,
                    refcount, target, count, old, live, todo, kick, ret>>
    BY <1>7 DEF PutRef, vars, regs, sync, lists, waiter, local
  <2> QED
    BY <2>1, <2>2, <2>3
<1>8. ASSUME NEW s \in Sleepers, WaitEnd(s) PROVE Shape'
  <2>1. s \in Waiters
    BY Kinds
  <2>2. KrefPut(s)
    BY <1>8 DEF WaitEnd
  <2>3. pc' \in [Procs \cup Waiters -> PcOf]
    BY <1>8 DEF WaitEnd, Goto, PcOf
  <2>4. busy' \in Int
    BY <1>8, Kinds DEF WaitEnd, Released
  <2>5. state' \in [Waiters -> States]
    BY <1>8 DEF WaitEnd, KrefPut, States
  <2>6. refcount' \in [Waiters -> Int]
    BY <2>1, <2>2 DEF KrefPut
  <2>7. count' \in [Waiters -> Nat]
    BY <1>8 DEF WaitEnd, KrefPut
  <2>8. UNCHANGED <<hw, min_val, max_val, thresh, enabled, lock, wait_head, low_prio, work,
                    target, old, live, todo, kick, ret>>
    BY <1>8 DEF WaitEnd, KrefPut, vars, regs, sync, lists, waiter, local
  <2> QED
    BY <2>3, <2>4, <2>5, <2>6, <2>7, <2>8
<1>9. ASSUME NEW j \in Jobs, Submit(j) PROVE Shape'
  <2>1. max_val + 1 \in Nat /\ target' = [target EXCEPT ![j] = max_val + 1]
    BY <1>9 DEF Submit, Fence
  <2>2. pc' \in [Procs \cup Waiters -> PcOf]
    BY <1>9 DEF Submit, Goto, PcOf
  <2>3. busy' \in Int
    BY <1>9 DEF Submit
  <2>4. max_val' \in Nat
    BY <1>9 DEF Submit
  <2>5. target' \in [Waiters -> Nat]
    BY <2>1
  <2>6. UNCHANGED <<hw, min_val, thresh, enabled, lock, wait_head, low_prio, work, state,
                    refcount, count, old, live, todo, kick, ret>>
    BY <1>9 DEF Submit, vars, regs, sync, lists, waiter, local
  <2> QED
    BY <2>2, <2>3, <2>4, <2>5, <2>6
<1>10. ASSUME NEW n \in Fast \cup Slow, RegisterNotifier(n) PROVE Shape'
  <2>1. PICK t \in Start .. max_val : target' = [target EXCEPT ![n] = t]
    BY <1>10 DEF RegisterNotifier
  <2>2. t \in Nat
    OBVIOUS
  <2>3. pc' \in [Procs \cup Waiters -> PcOf]
    BY <1>10 DEF RegisterNotifier, Goto, PcOf
  <2>4. busy' \in Int
    BY <1>10 DEF RegisterNotifier
  <2>5. target' \in [Waiters -> Nat]
    BY <2>1, <2>2
  <2>6. UNCHANGED <<hw, min_val, max_val, thresh, enabled, lock, wait_head, low_prio, work, state,
                    refcount, count, old, live, todo, kick, ret>>
    BY <1>10 DEF RegisterNotifier, vars, regs, sync, lists, waiter, local
  <2> QED
    BY <2>3, <2>4, <2>5, <2>6
<1>11. ASSUME NEW w \in Waiters, AddAction(w) PROVE Shape'
  <2>1. Word(target[w]) \in 0 .. U32 - 1
    BY Wraps DEF Word
  <2>2. pc' \in [Procs \cup Waiters -> PcOf]
    BY <1>11 DEF AddAction, Goto, PcOf
  <2>3. busy' \in Int
    BY <1>11 DEF AddAction
  <2>4. state' \in [Waiters -> States]
    BY <1>11 DEF AddAction, States
  <2>5. refcount' \in [Waiters -> Int]
    BY <1>11 DEF AddAction, Refs
  <2>6. count' \in [Waiters -> Nat]
    BY <1>11 DEF AddAction
  <2>7. wait_head' \in Seq(Waiters)
    BY <1>11, EnterEffect
  <2>8. thresh' \in 0 .. U32 - 1
    BY <1>11, <2>1 DEF AddAction
  <2>9. enabled' \in BOOLEAN
    BY <1>11 DEF AddAction
  <2>10. UNCHANGED <<hw, min_val, max_val, lock, low_prio, work, target, old, live, todo, kick,
                    ret>>
    BY <1>11 DEF AddAction, vars, regs, sync, lists, waiter, local
  <2> QED
    BY <2>2, <2>3, <2>4, <2>5, <2>6, <2>7, <2>8, <2>9, <2>10
<1>12. ASSUME NEW p \in Procs, UpdateRead(p) PROVE Shape'
  <2>1. pc' \in [Procs \cup Waiters -> PcOf]
    BY <1>12 DEF UpdateRead, Goto, PcOf
  <2>2. old' \in [Procs -> Nat]
    BY <1>12 DEF UpdateRead
  <2>3. live' \in [Procs -> Nat]
    BY <1>12 DEF UpdateRead
  <2>4. UNCHANGED <<hw, min_val, max_val, busy, thresh, enabled, lock, wait_head, low_prio, work,
                    state, refcount, target, count, todo, kick, ret>>
    BY <1>12 DEF UpdateRead, vars, regs, sync, lists, waiter, local
  <2> QED
    BY <2>1, <2>2, <2>3, <2>4
<1>13. ASSUME NEW p \in Procs, UpdateAgain(p) PROVE Shape'
  <2>1. pc' \in [Procs \cup Waiters -> PcOf]
    BY <1>13 DEF UpdateAgain, Goto, PcOf
  <2>2. old' \in [Procs -> Nat]
    BY <1>13 DEF UpdateAgain, Unused
  <2>3. live' \in [Procs -> Nat]
    BY <1>13 DEF UpdateAgain, Unused
  <2>4. UNCHANGED <<hw, min_val, max_val, busy, thresh, enabled, lock, wait_head, low_prio, work,
                    state, refcount, target, count, todo, kick, ret>>
    BY <1>13 DEF UpdateAgain, vars, regs, sync, lists, waiter, local
  <2> QED
    BY <2>1, <2>2, <2>3, <2>4
<1>14. ASSUME NEW p \in Procs, ProcessRead(p) PROVE Shape'
  <2>1. pc' \in [Procs \cup Waiters -> PcOf]
    BY <1>14 DEF ProcessRead, Goto, PcOf
  <2>2. old' \in [Procs -> Nat]
    BY <1>14 DEF ProcessRead, CmpXchg, Unused
  <2>3. min_val' \in Nat
    BY <1>14 DEF ProcessRead, CmpXchg
  <2>4. UNCHANGED <<hw, max_val, busy, thresh, enabled, lock, wait_head, low_prio, work, state,
                    refcount, target, count, live, todo, kick, ret>>
    BY <1>14 DEF ProcessRead, CmpXchg, vars, regs, sync, lists, waiter, local
  <2> QED
    BY <2>1, <2>2, <2>3, <2>4
<1>15. ASSUME NEW p \in Procs, RemoveCompleted(p) PROVE Shape'
  <2>1. PICK w : w = Head(wait_head)
    OBVIOUS
  <2>2. /\ w \in Waiters /\ wait_head' \in Seq(Waiters)
        /\ w \in Jobs => todo' = todo /\ low_prio' \in [submit : Seq(Jobs), notify : Seq(Slow)]
        /\ w \in Slow => todo' = todo /\ low_prio' \in [submit : Seq(Jobs), notify : Seq(Slow)]
        /\ w \in Sleepers \cup Fast =>
             /\ low_prio' = low_prio
             /\ todo' \in [Procs -> Seq(Waiters)]
    <3> HIDE <1>0
    <3> QED
      BY <1>15, <2>1, LeaveEffect
  <2>3. wait_head' \in Seq(Waiters)
    BY <2>2
  <2>4. low_prio' \in [submit : Seq(Jobs), notify : Seq(Slow)]
    BY <2>2, Kinds
  <2>5. todo' \in [Procs -> Seq(Waiters)]
    <3>1. CASE w \in Jobs \cup Slow
      BY <2>2, <3>1
    <3>2. CASE w \in Sleepers \cup Fast
      BY <2>2, <3>2
    <3> QED
      BY <2>2, <3>1, <3>2, Kinds
  <2>6. state' \in [Waiters -> States]
    BY <1>15 DEF RemoveCompleted, States
  <2>7. count' \in [Waiters -> Nat]
    <3>1. \A x : [count EXCEPT ![x] = @ + 1] \in [Waiters -> Nat]
      <4>1. TAKE x
      <4>2. CASE x \in Waiters
        BY <4>2
      <4>3. CASE x \notin Waiters
        BY <4>3
      <4> QED
        BY <4>2, <4>3
    <3> QED
      BY <1>15, <3>1, Zenon DEF RemoveCompleted
  <2>8. UNCHANGED <<hw, min_val, max_val, busy, thresh, enabled, lock, work, refcount, target, pc,
                    old, live, kick, ret>>
    BY <1>15 DEF RemoveCompleted, vars, regs, sync, lists, waiter, local
  <2> QED
    BY <2>3, <2>4, <2>5, <2>6, <2>7, <2>8
<1>16. ASSUME NEW p \in Procs, Rearm(p) PROVE Shape'
  <2>1. wait_head # <<>> => Head(wait_head) \in Waiters
    BY HeadTailProperties
  <2>2. ASSUME wait_head # <<>> PROVE Word(target[Head(wait_head)]) \in 0 .. U32 - 1
    <3>1. target[Head(wait_head)] \in Int
      BY <2>1, <2>2
    <3> QED
      BY <3>1, Wraps DEF Word
  <2>3. pc' \in [Procs \cup Waiters -> PcOf]
    BY <1>16 DEF Rearm, Goto, PcOf
  <2>4. thresh' \in 0 .. U32 - 1
    BY <1>16, <2>2 DEF Rearm
  <2>5. enabled' \in BOOLEAN
    BY <1>16 DEF Rearm
  <2>6. kick' \in [Procs -> BOOLEAN]
    BY <1>16 DEF Rearm, LowPrioPending
  <2>7. lock' \in Procs \cup {None}
    BY <1>16 DEF Rearm
  <2>8. live' \in [Procs -> Nat]
    BY <1>16 DEF Rearm, Unused
  <2>9. UNCHANGED <<hw, min_val, max_val, busy, wait_head, low_prio, work, state, refcount,
                    target, count, old, todo, ret>>
    BY <1>16 DEF Rearm, vars, regs, sync, lists, waiter, local
  <2> QED
    BY <2>3, <2>4, <2>5, <2>6, <2>7, <2>8, <2>9
<1>17. ASSUME NEW p \in Procs, RunHandler(p) PROVE Shape'
  <2>1. Head(todo[p]) \in Waiters
    BY <1>17, AtHead DEF RunHandler
  <2>2. pc' \in [Procs \cup Waiters -> PcOf]
    BY <1>17 DEF RunHandler, Goto, PcOf
  <2>3. state' \in [Waiters -> States]
    BY <1>17 DEF RunHandler, States
  <2>4. busy' \in Int
    <3>1. EndedUses(Head(todo[p])) \in Int
      BY <2>1 DEF EndedUses
    <3> QED
      BY <1>17, <3>1 DEF RunHandler
  <2>5. UNCHANGED <<hw, min_val, max_val, thresh, enabled, lock, wait_head, low_prio, work,
                    refcount, target, count, old, live, todo, kick, ret>>
    BY <1>17 DEF RunHandler, vars, regs, sync, lists, waiter, local
  <2> QED
    BY <2>2, <2>3, <2>4, <2>5
<1>18. ASSUME NEW p \in Procs, PutHandled(p) PROVE Shape'
  <2>1. todo[p] # <<>>
    BY <1>18 DEF PutHandled, ListInv, Roles
  <2>2. PICK w \in Waiters : w = Head(todo[p])
    BY <2>1, AtHead
  <2>3. Tail(todo[p]) \in Seq(Waiters)
    BY <2>1, AtHead
  <2>4. KrefPut(w) /\ busy' = busy - Released(w) /\ todo' = [todo EXCEPT ![p] = Tail(todo[p])]
    BY <1>18, <2>2 DEF PutHandled
  <2>5. pc' \in [Procs \cup Waiters -> PcOf]
    BY <1>18 DEF PutHandled, Goto, PcOf
  <2>6. todo' \in [Procs -> Seq(Waiters)]
    BY <2>3, <2>4
  <2>7. state' \in [Waiters -> States]
    BY <2>4 DEF KrefPut, States
  <2>8. busy' \in Int
    BY <2>4 DEF Released
  <2>9. refcount' \in [Waiters -> Int]
    BY <2>4 DEF KrefPut
  <2>10. count' \in [Waiters -> Nat]
    BY <2>4 DEF KrefPut
  <2>11. UNCHANGED <<hw, min_val, max_val, thresh, enabled, lock, wait_head, low_prio, work,
                    target, old, live, kick, ret>>
    BY <1>18 DEF PutHandled, KrefPut, vars, regs, sync, lists, waiter, local
  <2> QED
    BY <2>5, <2>6, <2>7, <2>8, <2>9, <2>10, <2>11
<1>19. ASSUME NEW p \in Procs, RunDone(p) PROVE Shape'
  <2>1. pc' \in [Procs \cup Waiters -> PcOf]
    BY <1>19 DEF RunDone, Goto, PcOf
  <2>2. work' \in BOOLEAN
    BY <1>19 DEF RunDone
  <2>3. kick' \in [Procs -> BOOLEAN]
    BY <1>19 DEF RunDone
  <2>4. busy' \in Int
    BY <1>19 DEF RunDone
  <2>5. UNCHANGED <<hw, min_val, max_val, thresh, enabled, lock, wait_head, low_prio, state,
                    refcount, target, count, old, live, todo, ret>>
    BY <1>19 DEF RunDone, vars, regs, sync, lists, waiter, local
  <2> QED
    BY <2>1, <2>2, <2>3, <2>4, <2>5
<1>20. ASSUME NEW p \in Procs, Lock(p) PROVE Shape'
  <2>1. pc' \in [Procs \cup Waiters -> PcOf]
    BY <1>20 DEF Lock, Goto, PcOf
  <2>2. lock' \in Procs \cup {None}
    BY <1>20 DEF Lock
  <2>3. UNCHANGED <<hw, min_val, max_val, busy, thresh, enabled, wait_head, low_prio, work, state,
                    refcount, target, count, old, live, todo, kick, ret>>
    BY <1>20 DEF Lock, vars, regs, sync, lists, waiter, local
  <2> QED
    BY <2>1, <2>2, <2>3
<1>21. CASE LowPrioWork
  <2>1. low_prio.submit \o low_prio.notify \in Seq(Waiters)
    <3>1. low_prio.submit \in Seq(Waiters) /\ low_prio.notify \in Seq(Waiters)
      BY Elements, SeqMonotonic DEF Waiters
    <3> QED
      BY <3>1, ConcatProperties
  <2>2. pc' \in [Procs \cup Waiters -> PcOf]
    BY <1>21 DEF LowPrioWork, Goto, PcOf
  <2>3. todo' \in [Procs -> Seq(Waiters)]
    BY <1>21, <2>1 DEF LowPrioWork
  <2>4. low_prio' \in [submit : Seq(Jobs), notify : Seq(Slow)]
    BY <1>21, EmptySeq DEF LowPrioWork
  <2>5. work' \in BOOLEAN
    BY <1>21 DEF LowPrioWork
  <2>6. UNCHANGED <<hw, min_val, max_val, busy, thresh, enabled, lock, wait_head, state, refcount,
                    target, count, old, live, kick, ret>>
    BY <1>21 DEF LowPrioWork, vars, regs, sync, lists, waiter, local
  <2> QED
    BY <2>2, <2>3, <2>4, <2>5, <2>6
<1>22. CASE ThreshIsr
  <2>1. pc' \in [Procs \cup Waiters -> PcOf]
    BY <1>22 DEF ThreshIsr, Goto, PcOf
  <2>2. enabled' \in BOOLEAN
    BY <1>22 DEF ThreshIsr
  <2>3. min_val' \in Nat
    BY <1>22 DEF ThreshIsr
  <2>4. busy' \in Int
    BY <1>22 DEF ThreshIsr
  <2>5. UNCHANGED <<hw, max_val, thresh, lock, wait_head, low_prio, work, state, refcount, target,
                    count, old, live, todo, kick, ret>>
    BY <1>22 DEF ThreshIsr, vars, regs, sync, lists, waiter, local
  <2> QED
    BY <2>1, <2>2, <2>3, <2>4, <2>5
<1>23. CASE HwIncr
  <2>1. hw' \in Nat
    BY <1>23 DEF HwIncr
  <2>2. UNCHANGED <<min_val, max_val, busy, thresh, enabled, lock, wait_head, low_prio, work,
                    state, refcount, target, count, pc, old, live, todo, kick,
                    ret>>
    BY <1>23 DEF HwIncr, vars, regs, sync, lists, waiter, local
  <2> QED
    BY <2>1, <2>2
<1>24. CASE PowerCycle
  <2>1. hw' \in Nat
    BY <1>24 DEF PowerCycle
  <2>2. UNCHANGED <<min_val, max_val, busy, thresh, enabled, lock, wait_head, low_prio, work,
                    state, refcount, target, count, pc, old, live, todo, kick,
                    ret>>
    BY <1>24 DEF PowerCycle, vars, regs, sync, lists, waiter, local
  <2> QED
    BY <2>1, <2>2
<1>25. CASE UNCHANGED vars
  BY <1>25 DEF vars
<1> QED
  BY <1>1, <1>2, <1>3, <1>4, <1>5, <1>6, <1>7, <1>8, <1>9, <1>10, <1>11, <1>12,
     <1>13, <1>14, <1>15, <1>16, <1>17, <1>18, <1>19, <1>20, <1>21, <1>22,
     <1>23, <1>24, <1>25
     DEF Next, Process, Wait

\* Every step keeps everyone in his place.
LEMMA RolesStep ==
  ASSUME ListInv, [Next]_vars
  PROVE  (Roles /\ Born)'
<1>0. /\ pc \in [Procs \cup Waiters -> PcOf] /\ state \in [Waiters -> States]
      /\ todo \in [Procs -> Seq(Waiters)] /\ Roles /\ Born
      /\ Waiters = Sleepers \cup Others /\ Sleepers \cap Others = {}
      /\ Procs = Sleepers \cup {"isr", "work"} /\ "isr" \notin Waiters /\ "work" \notin Waiters
      /\ None \notin Procs /\ Jobs \subseteq Others /\ Fast \cup Slow \subseteq Others
  BY Kinds DEF ListInv, Shape
<1> USE <1>0 DEF Roles, Born
<1>1. ASSUME NEW s \in Sleepers, WaitBegin(s) PROVE (Roles /\ Born)'
  <2>1. /\ pc[s] = "idle" /\ UNCHANGED <<lock, todo, state>>
        /\ \/ pc' = [pc EXCEPT ![s] = "done"]
           \/ pc' = [pc EXCEPT ![s] = "check"]
    BY <1>1 DEF WaitBegin, Goto, local
  <2> QED
    BY <2>1
<1>2. ASSUME NEW s \in Sleepers, NoTimeout(s) PROVE (Roles /\ Born)'
  BY <1>2 DEF NoTimeout, Goto, local, waiter, CmpXchg
<1>3. ASSUME NEW s \in Sleepers, CheckPeriod(s) PROVE (Roles /\ Born)'
  BY <1>3 DEF CheckPeriod, Goto, local, waiter, CmpXchg
<1>4. ASSUME NEW s \in Sleepers, GiveUp(s) PROVE (Roles /\ Born)'
  BY <1>4 DEF GiveUp, Goto, local, waiter, CmpXchg
<1>5. ASSUME NEW s \in Sleepers, Check(s) PROVE (Roles /\ Born)'
  <2>1. ThreadRef(s) = IF state[s] # "none" THEN 1 ELSE 0
    BY <1>5 DEF Check, ThreadRef
  <2>2. (refcount[s] > 0) <=> state[s] # "none"
    BY <2>1, Kinds DEF ListInv, RefInv
  <2>3. PICK l \in {"cancel", "done", "sleep", "add"} :
          /\ pc' = [pc EXCEPT ![s] = l]
          /\ state[s] = "none" <=> l \in {"done", "add"}
    BY <1>5, <2>2 DEF Check, Goto
  <2>4. UNCHANGED <<lock, todo, state>> /\ pc[s] = "check_cas"
    BY <1>5 DEF Check, lists, waiter
  <2>5. Roles'
    BY <2>3, <2>4
  <2>6. Born'
    BY <2>3, <2>4
  <2> QED
    BY <2>5, <2>6
<1>6. ASSUME NEW s \in Sleepers, Woken(s) PROVE (Roles /\ Born)'
  BY <1>6 DEF Woken, Goto, local, waiter, CmpXchg
<1>7. ASSUME NEW s \in Sleepers, PutRef(s) PROVE (Roles /\ Born)'
  BY <1>7 DEF PutRef, Goto, local, waiter, CmpXchg
<1>8. ASSUME NEW s \in Sleepers, WaitEnd(s) PROVE (Roles /\ Born)'
  <2>1. state[s] # "none"
    BY <1>8 DEF WaitEnd
  <2>2. /\ \A v \in Waiters : v # s => state'[v] = state[v]
        /\ state'[s] # "none"
        /\ lock' = lock /\ pc[s] = "kref" /\ pc' = [pc EXCEPT ![s] = "done"]
        /\ todo' = todo
    BY <1>8, <2>1 DEF WaitEnd, Goto, KrefPut, local
  <2> QED
    BY <2>2
<1>9. ASSUME NEW j \in Jobs, Submit(j) PROVE (Roles /\ Born)'
  BY <1>9 DEF Submit, Goto, local, waiter, CmpXchg
<1>10. ASSUME NEW n \in Fast \cup Slow, RegisterNotifier(n) PROVE (Roles /\ Born)'
  BY <1>10 DEF RegisterNotifier, Goto, local, waiter, CmpXchg
<1>11. ASSUME NEW w \in Waiters, AddAction(w) PROVE (Roles /\ Born)'
  <2>1. /\ \A v \in Waiters : v # w => state'[v] = state[v]
        /\ state'[w] = "pending"
        /\ lock' = lock /\ pc[w] = "add" /\ todo' = todo
        /\ pc' = [pc EXCEPT ![w] = IF w \in Sleepers THEN "check" ELSE "added"]
    BY <1>11 DEF AddAction, Goto, local
  <2>2. CASE w \in Sleepers
    BY <2>1, <2>2
  <2>3. CASE w \in Others
    BY <2>1, <2>3
  <2> QED
    BY <2>2, <2>3
<1>12. ASSUME NEW p \in Procs, UpdateRead(p) PROVE (Roles /\ Born)'
  BY <1>12 DEF UpdateRead, Goto, local, waiter, CmpXchg
<1>13. ASSUME NEW p \in Procs, UpdateAgain(p) PROVE (Roles /\ Born)'
  BY <1>13 DEF UpdateAgain, Goto, local, waiter, CmpXchg
<1>14. ASSUME NEW p \in Procs, ProcessRead(p) PROVE (Roles /\ Born)'
  BY <1>14 DEF ProcessRead, Goto, local, waiter, CmpXchg
<1>15. ASSUME NEW p \in Procs, RemoveCompleted(p) PROVE (Roles /\ Born)'
  <2>1. PICK w : w = Head(wait_head)
    OBVIOUS
  <2>2. /\ w \in Waiters /\ state[w] \in {"pending", "cancelled"}
    BY <1>15, <2>1, LeaveEffect
  <2>3. /\ \A v \in Waiters : v # w => state'[v] = state[v]
        /\ state'[w] \in {"removed", "cleanup"}
        /\ pc' = pc /\ lock' = lock /\ pc[p] = "scan"
    BY <1>15, <2>1, <2>2 DEF RemoveCompleted
  <2>4. \A q \in Procs : q # p => todo'[q] = todo[q]
    BY <1>15 DEF RemoveCompleted
  <2>5. Roles'
    BY <2>3, <2>4
  <2>6. \A v \in Waiters : state'[v] = "none" <=> state[v] = "none"
    BY <2>2, <2>3
  <2>7. Born'
    BY <2>3, <2>6
  <2> QED
    BY <2>5, <2>7
<1>16. ASSUME NEW p \in Procs, Rearm(p) PROVE (Roles /\ Born)'
  BY <1>16, SMTT(30) DEF Rearm, Goto, local, waiter, CmpXchg
<1>17. ASSUME NEW p \in Procs, RunHandler(p) PROVE (Roles /\ Born)'
  <2>2. PICK w \in Waiters : w = Head(todo[p]) /\ w \in Range(todo[p])
    BY <1>17, AtHead DEF RunHandler
  <2>3. state[w] # "none"
    BY <2>2 DEF ListInv, StateIn
  <2>4. /\ \A v \in Waiters : v # w => state'[v] = state[v]
        /\ state'[w] # "none"
        /\ lock' = lock /\ pc[p] = "run" /\ pc' = [pc EXCEPT ![p] = "put"]
        /\ todo' = todo /\ todo[p] # <<>>
    BY <1>17, <2>2, <2>3 DEF RunHandler, Goto, local
  <2>5. Roles'
    BY <2>4
  <2>6. \A v \in Waiters : state'[v] = "none" <=> state[v] = "none"
    BY <2>3, <2>4
  <2>7. Born'
    BY <2>4, <2>6
  <2> QED
    BY <2>5, <2>7
<1>18. ASSUME NEW p \in Procs, PutHandled(p) PROVE (Roles /\ Born)'
  <2>1. todo[p] # <<>>
    BY <1>18 DEF PutHandled
  <2>2. PICK w \in Waiters : w = Head(todo[p]) /\ w \in Range(todo[p])
    BY <2>1, AtHead
  <2>3. state[w] # "none"
    BY <2>2 DEF ListInv, StateIn
  <2>4. /\ \A v \in Waiters : v # w => state'[v] = state[v]
        /\ state'[w] # "none"
        /\ lock' = lock /\ pc[p] = "put" /\ pc' = [pc EXCEPT ![p] = "run"]
        /\ \A q \in Procs : q # p => todo'[q] = todo[q]
    BY <1>18, <2>2, <2>3 DEF PutHandled, Goto, KrefPut
  <2>5. Roles'
    BY <2>4
  <2>6. \A v \in Waiters : state'[v] = "none" <=> state[v] = "none"
    BY <2>3, <2>4
  <2>7. Born'
    BY <2>4, <2>6
  <2> QED
    BY <2>5, <2>7
<1>19. ASSUME NEW p \in Procs, RunDone(p) PROVE (Roles /\ Born)'
  BY <1>19 DEF RunDone, Goto, local, waiter, CmpXchg
<1>20. ASSUME NEW p \in Procs, Lock(p) PROVE (Roles /\ Born)'
  BY <1>20 DEF Lock, Goto, local, waiter, CmpXchg
<1>21. CASE LowPrioWork
  BY <1>21 DEF LowPrioWork, Goto, local, waiter, CmpXchg
<1>22. CASE ThreshIsr
  BY <1>22 DEF ThreshIsr, Goto, local, waiter, CmpXchg
<1>23. CASE HwIncr
  BY <1>23 DEF HwIncr, Goto, local, waiter, CmpXchg
<1>24. CASE PowerCycle
  BY <1>24 DEF PowerCycle, Goto, local, waiter, CmpXchg
<1>25. CASE UNCHANGED vars
  BY <1>25 DEF vars
<1> QED
  BY <1>1, <1>2, <1>3, <1>4, <1>5, <1>6, <1>7, <1>8, <1>9, <1>10, <1>11, <1>12,
     <1>13, <1>14, <1>15, <1>16, <1>17, <1>18, <1>19, <1>20, <1>21, <1>22,
     <1>23, <1>24, <1>25
     DEF Next, Process, Wait

\* What is said of the lists.
Listed == Lists /\ Disjoint /\ StateIn /\ Placed /\ RefInv /\ Merging

\* A step that leaves the lists and the waiters alone.
LEMMA QuietStep ==
  ASSUME ListInv, UNCHANGED <<wait_head, low_prio, todo, state, refcount, count>>,
         \A p \in Procs : pc'[p] = "put" <=> pc[p] = "put",
         \A s \in Sleepers : state[s] # "none" => (pc'[s] = "done" <=> pc[s] = "done")
  PROVE  Listed'
<1>1. (Lists /\ Disjoint /\ Merging)'
  BY DEF ListInv, Lists, Disjoint, Merging
<1>2. StateIn'
  BY DEF ListInv, StateIn
<1>3. \A w : Held(w)' <=> Held(w)
  BY DEF Held
<1>4. Placed'
  BY <1>3 DEF ListInv, Placed
<1>5. \A w \in Waiters : ThreadRef(w)' = ThreadRef(w)
  BY DEF ThreadRef
<1>6. RefInv'
  BY <1>3, <1>5 DEF ListInv, RefInv
<1> QED
  BY <1>1, <1>2, <1>4, <1>6 DEF Listed

\* The last element of a list.
LEMMA LastIn ==
  ASSUME NEW S, NEW s \in Seq(S), s # <<>>
  PROVE  s[Len(s)] \in Range(s)
<1>1. Len(s) \in 1 .. Len(s)
  BY LenProperties, EmptySeq
<1> QED
  BY <1>1, InRange

\* nvhost_intr_add_action() puts one waiter, not in any list, into wait_head.
LEMMA AddListed ==
  ASSUME ListInv, NEW w \in Waiters, AddAction(w)
  PROVE  Listed'
<1>1. /\ state[w] = "none" /\ w \notin Range(wait_head) /\ ~Held(w)
      /\ wait_head' \in Seq(Waiters) /\ Range(wait_head') = Range(wait_head) \cup {w}
      /\ IsInjective(wait_head')
  BY EnterEffect
<1>2. /\ UNCHANGED <<low_prio, todo>>
      /\ \A v \in Waiters : v # w => /\ state'[v] = state[v] /\ refcount'[v] = refcount[v]
                                     /\ count'[v] = count[v]
      /\ state'[w] = "pending" /\ refcount'[w] = Refs(w) /\ count'[w] = 1
  BY DEF AddAction, local, ListInv, Shape
<1>3. /\ \A x \in Procs \cup Waiters : x # w => pc'[x] = pc[x]
      /\ pc[w] = "add" /\ pc'[w] \notin {"put", "done"}
  BY DEF AddAction, Goto, ListInv, Shape
<1>4. \A v \in Waiters : v \in Range(low_prio.submit) \/ v \in Range(low_prio.notify) => v # w
  BY <1>1 DEF Held
<1>5. \A p \in Procs : w \notin Range(todo[p])
  BY <1>1 DEF Held
<1>6. Lists' /\ Disjoint'
  BY <1>1, <1>2 DEF ListInv, Lists, Disjoint
<1>7. StateIn'
  <2>1. \A v \in Range(wait_head') : state'[v] \in {"pending", "cancelled"}
    BY <1>1, <1>2, Elements DEF ListInv, StateIn
  <2>2. \A v \in Range(low_prio.submit) \cup Range(low_prio.notify) :
           state'[v] \in {"removed", "cleanup"}
    BY <1>2, <1>4, Elements, Kinds DEF ListInv, StateIn
  <2>3. ASSUME NEW p \in Procs, NEW v \in Range(todo[p])
        PROVE  /\ v \in Waiters /\ state'[v] = state[v]
               /\ pc'[p] = "put" <=> pc[p] = "put"
    BY <1>2, <1>3, <1>5, Elements DEF ListInv
  <2> QED
    BY <1>2, <2>1, <2>2, <2>3 DEF ListInv, StateIn
<1>8. \A v : Held(v)' <=> Held(v)
  BY <1>2 DEF Held
<1>9. Placed'
  BY <1>1, <1>2, <1>8 DEF ListInv, Placed
<1>10. RefInv'
  <2>1. ASSUME NEW v \in Waiters, v # w PROVE ThreadRef(v)' = ThreadRef(v)
    BY <1>2, <1>3, <2>1 DEF ThreadRef
  <2>2. ThreadRef(w)' = IF w \in Sleepers THEN 1 ELSE 0
    BY <1>2, <1>3 DEF ThreadRef
  <2>3. ASSUME NEW v \in Waiters, v # w
        PROVE  /\ refcount'[v] = (IF v \in Range(wait_head') \/ Held(v)' THEN 1 ELSE 0)
                                   + ThreadRef(v)'
               /\ state'[v] \in {"none", "freed"} <=> refcount'[v] = 0
    <3>1. v \in Range(wait_head') <=> v \in Range(wait_head)
      BY <1>1, <2>3
    <3> QED
      BY <1>2, <1>8, <2>1, <2>3, <3>1 DEF ListInv, RefInv
  <2>4. /\ refcount'[w] = (IF w \in Range(wait_head') \/ Held(w)' THEN 1 ELSE 0)
                            + ThreadRef(w)'
        /\ state'[w] \in {"none", "freed"} <=> refcount'[w] = 0
    <3>1. w \in Range(wait_head')
      BY <1>1
    <3> QED
      BY <1>2, <2>2, <3>1 DEF Refs
  <2> QED
    BY <2>3, <2>4 DEF RefInv
<1>11. Merging'
  <2>1. low_prio.submit # <<>> => low_prio.submit[Len(low_prio.submit)] \in Range(low_prio.submit)
    BY Elements, LastIn DEF ListInv
  <2>2. ASSUME low_prio.submit # <<>>
        PROVE  LET v == low_prio.submit[Len(low_prio.submit)] IN state'[v] = state[v]
    BY <1>2, <1>4, <2>1, <2>2, Elements, Kinds DEF ListInv
  <2> QED
    BY <1>2, <2>2 DEF ListInv, Merging
<1> QED
  BY <1>6, <1>7, <1>9, <1>10, <1>11 DEF Listed

\* nvhost_intr_put_ref() cancels a pending waiter where it is.
LEMMA CancelListed ==
  ASSUME ListInv, NEW s \in Sleepers, PutRef(s)
  PROVE  Listed'
<1>1. /\ UNCHANGED <<wait_head, low_prio, todo, refcount, count>>
      /\ s \in Waiters /\ state[s] # "removed"
      /\ \A v \in Waiters : v # s => state'[v] = state[v]
      /\ state'[s] = IF state[s] = "pending" THEN "cancelled" ELSE state[s]
  BY Kinds DEF PutRef, lists, local, ListInv, Shape
<1>2. /\ \A x \in Procs \cup Waiters : x # s => pc'[x] = pc[x]
      /\ pc[s] = "cancel" /\ pc'[s] = "process"
  BY Kinds DEF PutRef, Goto, ListInv, Shape
<1>3. \A v \in Waiters : state[v] # "pending" => state'[v] = state[v]
  BY <1>1
<1>4. Lists' /\ Disjoint'
  BY <1>1 DEF ListInv, Lists, Disjoint
<1>5. StateIn'
  <2>1. \A v \in Range(wait_head) : state'[v] \in {"pending", "cancelled"}
    BY <1>1, Elements DEF ListInv, StateIn
  <2>2. \A v \in Range(low_prio.submit) \cup Range(low_prio.notify) :
           state'[v] \in {"removed", "cleanup"}
    BY <1>3, Elements, Kinds DEF ListInv, StateIn
  <2>3. ASSUME NEW p \in Procs, NEW v \in Range(todo[p])
        PROVE  /\ v \in Waiters /\ state'[v] = state[v]
               /\ pc'[p] = "put" <=> pc[p] = "put"
    BY <1>2, <1>3, Elements DEF ListInv, StateIn
  <2> QED
    BY <1>1, <2>1, <2>2, <2>3 DEF ListInv, StateIn
<1>6. \A v : Held(v)' <=> Held(v)
  BY <1>1 DEF Held
<1>7. Placed'
  BY <1>1, <1>6 DEF ListInv, Placed
<1>8. RefInv'
  <2>1. ASSUME NEW v \in Waiters PROVE ThreadRef(v)' = ThreadRef(v)
    BY <1>1, <1>2 DEF ThreadRef
  <2>2. ASSUME NEW v \in Waiters
        PROVE  state'[v] \in {"none", "freed"} <=> state[v] \in {"none", "freed"}
    BY <1>1
  <2> QED
    BY <1>1, <1>6, <2>1, <2>2 DEF ListInv, RefInv
<1>9. Merging'
  <2>1. low_prio.submit # <<>> => low_prio.submit[Len(low_prio.submit)] \in Range(low_prio.submit)
    BY Elements, LastIn DEF ListInv
  <2>2. ASSUME low_prio.submit # <<>>
        PROVE  LET v == low_prio.submit[Len(low_prio.submit)] IN state'[v] = state[v]
    BY <1>3, <2>1, <2>2, Elements, Kinds DEF ListInv, StateIn
  <2> QED
    BY <1>1, <2>2 DEF ListInv, Merging
<1> QED
  BY <1>4, <1>5, <1>7, <1>8, <1>9 DEF Listed

\* run_handlers() marks the first waiter of the list as handled.
LEMMA HandleListed ==
  ASSUME ListInv, NEW p \in Procs, RunHandler(p)
  PROVE  Listed'
<1>0. todo[p] # <<>> /\ pc[p] = "run"
  BY DEF RunHandler
<1>1. PICK w \in Waiters : w = Head(todo[p]) /\ w \in Range(todo[p])
  BY <1>0, AtHead
<1>2. /\ w \notin Range(wait_head)
      /\ w \notin Range(low_prio.submit) /\ w \notin Range(low_prio.notify)
      /\ \A q \in Procs : q # p => w \notin Range(todo[q])
      /\ state[w] \in {"removed", "cleanup"}
  BY <1>0, <1>1, Alone DEF ListInv, StateIn
<1>3. /\ UNCHANGED <<wait_head, low_prio, todo, refcount, count>>
      /\ \A v \in Waiters : v # w => state'[v] = state[v]
      /\ state'[w] = IF state[w] = "cleanup" THEN "cleanup" ELSE "handled"
  BY <1>1 DEF RunHandler, lists, local, ListInv, Shape
<1>4. /\ \A x \in Procs \cup Waiters : x # p => pc'[x] = pc[x]
      /\ pc'[p] = "put"
  BY DEF RunHandler, Goto, ListInv, Shape
<1>5. Lists' /\ Disjoint'
  BY <1>3 DEF ListInv, Lists, Disjoint
<1>6. StateIn'
  <2>1. \A v \in Range(wait_head) : state'[v] \in {"pending", "cancelled"}
    BY <1>2, <1>3, Elements DEF ListInv, StateIn
  <2>2. \A v \in Range(low_prio.submit) \cup Range(low_prio.notify) :
           state'[v] \in {"removed", "cleanup"}
    BY <1>2, <1>3, Elements, Kinds DEF ListInv, StateIn
  <2>3. ASSUME NEW q \in Procs, q # p, NEW v \in Range(todo[q])
        PROVE  v \in Waiters /\ state'[v] = state[v] /\ pc'[q] = pc[q]
    BY <1>2, <1>3, <1>4, <2>3, Elements DEF ListInv
  <2>4. ASSUME NEW v \in Range(todo[p]), v # w
        PROVE  state'[v] \in {"removed", "cleanup"}
    BY <1>0, <1>3, <2>4, Elements DEF ListInv, StateIn
  <2>5. state'[w] \in {"handled", "cleanup"}
    BY <1>2, <1>3
  <2> QED
    BY <1>1, <1>3, <1>4, <2>1, <2>2, <2>3, <2>4, <2>5 DEF ListInv, StateIn
<1>7. \A v : Held(v)' <=> Held(v)
  BY <1>3 DEF Held
<1>8. Placed'
  BY <1>2, <1>3, <1>7 DEF ListInv, Placed
<1>9. RefInv'
  <2>1. ASSUME NEW v \in Waiters PROVE ThreadRef(v)' = ThreadRef(v)
    BY <1>0, <1>2, <1>3, <1>4 DEF ThreadRef
  <2>2. ASSUME NEW v \in Waiters
        PROVE  state'[v] \in {"none", "freed"} <=> state[v] \in {"none", "freed"}
    BY <1>2, <1>3
  <2> QED
    BY <1>3, <1>7, <2>1, <2>2 DEF ListInv, RefInv
<1>10. Merging'
  <2>1. low_prio.submit # <<>> => low_prio.submit[Len(low_prio.submit)] \in Range(low_prio.submit)
    BY Elements, LastIn DEF ListInv
  <2>2. ASSUME low_prio.submit # <<>>
        PROVE  LET v == low_prio.submit[Len(low_prio.submit)] IN state'[v] = state[v]
    BY <1>2, <1>3, <2>1, <2>2, Elements, Kinds DEF ListInv
  <2> QED
    BY <1>3, <2>2 DEF ListInv, Merging
<1> QED
  BY <1>5, <1>6, <1>8, <1>9, <1>10 DEF Listed

\* kref_put() of a waiter that a list no longer holds, or of a thread.
LEMMA ReleaseListed ==
  ASSUME ListInv, NEW p \in Procs, PutHandled(p)
  PROVE  Listed'
<1>0. todo[p] # <<>> /\ pc[p] = "put"
  BY DEF PutHandled, ListInv, Roles
<1>1. PICK w \in Waiters : w = Head(todo[p]) /\ w \in Range(todo[p])
  BY <1>0, AtHead
<1>2. /\ w \notin Range(wait_head)
      /\ w \notin Range(low_prio.submit) /\ w \notin Range(low_prio.notify)
      /\ \A q \in Procs : q # p => w \notin Range(todo[q])
      /\ state[w] \in {"handled", "cleanup"}
  BY <1>0, <1>1, Alone DEF ListInv, StateIn
<1>3. /\ UNCHANGED <<wait_head, low_prio>>
      /\ \A v \in Waiters : v # w => /\ state'[v] = state[v] /\ refcount'[v] = refcount[v]
                                     /\ count'[v] = count[v]
      /\ state'[w] = IF refcount[w] = 1 THEN "freed" ELSE state[w]
      /\ refcount'[w] = refcount[w] - 1
  BY <1>1 DEF PutHandled, KrefPut, lists, ListInv, Shape
<1>4. /\ \A x \in Procs \cup Waiters : x # p => pc'[x] = pc[x]
      /\ pc'[p] = "run"
  BY DEF PutHandled, Goto, ListInv, Shape
<1>5. /\ \A q \in Procs : q # p => todo'[q] = todo[q]
      /\ IsInjective(todo'[p]) /\ Range(todo'[p]) = Range(todo[p]) \ {w}
  <2>1. todo'[p] = Tail(todo[p]) /\ \A q \in Procs : q # p => todo'[q] = todo[q]
    BY DEF PutHandled, ListInv, Shape
  <2> QED
    BY <1>0, <1>1, <2>1, AtHead
<1>6. Lists'
  BY <1>3, <1>5 DEF ListInv, Lists
<1>7. Disjoint'
  <2>1. \A q \in Procs : Range(todo'[q]) \subseteq Range(todo[q])
    BY <1>5
  <2> QED
    BY <1>3, <2>1 DEF ListInv, Disjoint, Procs
<1>8. StateIn'
  <2>1. \A v \in Range(wait_head) : state'[v] \in {"pending", "cancelled"}
    BY <1>2, <1>3, Elements DEF ListInv, StateIn
  <2>2. \A v \in Range(low_prio.submit) \cup Range(low_prio.notify) :
           state'[v] \in {"removed", "cleanup"}
    BY <1>2, <1>3, Elements, Kinds DEF ListInv, StateIn
  <2>3. ASSUME NEW q \in Procs, q # p, NEW v \in Range(todo[q])
        PROVE  v \in Waiters /\ state'[v] = state[v] /\ pc'[q] = pc[q] /\ todo'[q] = todo[q]
    BY <1>2, <1>3, <1>4, <1>5, <2>3, Elements DEF ListInv
  <2>4. ASSUME NEW v \in Range(todo'[p])
        PROVE  state'[v] \in {"removed", "cleanup"}
    BY <1>1, <1>3, <1>5, <2>4, Elements DEF ListInv, StateIn
  <2>5. ASSUME NEW q \in Procs, NEW v \in Range(todo'[q])
        PROVE  IF pc'[q] = "put" /\ v = Head(todo'[q])
               THEN state'[v] \in {"handled", "cleanup"}
               ELSE state'[v] \in {"removed", "cleanup"}
    <3>1. CASE q = p
      BY <1>4, <2>4, <2>5, <3>1
    <3>2. CASE q # p
      <4>1. v \in Range(todo[q])
        BY <1>5, <2>5, <3>2
      <4> QED
        BY <2>3, <3>2, <4>1 DEF ListInv, StateIn
    <3> QED
      BY <3>1, <3>2
  <2> QED
    BY <1>3, <2>1, <2>2, <2>5 DEF StateIn
<1>9. \A v \in Waiters : IF v = w THEN Held(v) /\ ~Held(v)' ELSE Held(v)' <=> Held(v)
  BY <1>1, <1>2, <1>3, <1>5 DEF Held
<1>10. Placed'
  BY <1>2, <1>3, <1>9 DEF ListInv, Placed
<1>11. RefInv'
  <2>1. ASSUME NEW v \in Waiters PROVE ThreadRef(v)' = ThreadRef(v)
    BY <1>0, <1>2, <1>3, <1>4 DEF ThreadRef
  <2>2. ASSUME NEW v \in Waiters, v # w
        PROVE  /\ refcount'[v] = (IF v \in Range(wait_head') \/ Held(v)' THEN 1 ELSE 0)
                                   + ThreadRef(v)'
               /\ state'[v] \in {"none", "freed"} <=> refcount'[v] = 0
    BY <1>3, <1>9, <2>1, <2>2 DEF ListInv, RefInv
  <2>3. ThreadRef(w) \in {0, 1} /\ refcount[w] = 1 + ThreadRef(w)
    BY <1>9 DEF ListInv, RefInv, ThreadRef
  <2>4. /\ refcount'[w] = (IF w \in Range(wait_head') \/ Held(w)' THEN 1 ELSE 0)
                            + ThreadRef(w)'
        /\ state'[w] \in {"none", "freed"} <=> refcount'[w] = 0
    BY <1>2, <1>3, <1>9, <2>1, <2>3
  <2> QED
    BY <2>2, <2>4 DEF RefInv
<1>12. Merging'
  <2>1. low_prio.submit # <<>> => low_prio.submit[Len(low_prio.submit)] \in Range(low_prio.submit)
    BY Elements, LastIn DEF ListInv
  <2>2. ASSUME low_prio.submit # <<>>
        PROVE  LET v == low_prio.submit[Len(low_prio.submit)] IN state'[v] = state[v]
    BY <1>2, <1>3, <2>1, <2>2, Elements, Kinds DEF ListInv
  <2>3. state'[w] \notin {"pending", "cancelled"}
    BY <1>2, <1>3
  <2> QED
    BY <1>3, <2>2, <2>3 DEF ListInv, Merging
<1> QED
  BY <1>6, <1>7, <1>8, <1>10, <1>11, <1>12 DEF Listed

\* The thread drops its reference and leaves.
LEMMA EndListed ==
  ASSUME ListInv, NEW s \in Sleepers, WaitEnd(s)
  PROVE  Listed'
<1>1. /\ s \in Waiters /\ s \in Procs /\ pc[s] = "kref" /\ state[s] # "none"
      /\ ThreadRef(s) = 1
  BY Kinds DEF WaitEnd, ListInv, Born, ThreadRef
<1>2. /\ UNCHANGED <<wait_head, low_prio, todo>>
      /\ \A v \in Waiters : v # s => /\ state'[v] = state[v] /\ refcount'[v] = refcount[v]
                                     /\ count'[v] = count[v]
      /\ state'[s] = IF refcount[s] = 1 THEN "freed" ELSE state[s]
      /\ refcount'[s] = refcount[s] - 1
      /\ refcount[s] # 1 => count'[s] = count[s]
  BY <1>1 DEF WaitEnd, KrefPut, lists, local, ListInv, Shape
<1>3. /\ \A x \in Procs \cup Waiters : x # s => pc'[x] = pc[x]
      /\ pc'[s] = "done"
  BY Kinds DEF WaitEnd, Goto, ListInv, Shape
<1>4. refcount[s] = 1 <=> s \notin Range(wait_head) /\ ~Held(s)
  BY <1>1 DEF ListInv, RefInv
<1>5. \A v \in Waiters : v \in Range(wait_head) \/ Held(v) => state'[v] = state[v]
  BY <1>2, <1>4
<1>6. Lists' /\ Disjoint'
  BY <1>2 DEF ListInv, Lists, Disjoint
<1>7. StateIn'
  <2>1. \A v \in Range(wait_head) : state'[v] \in {"pending", "cancelled"}
    BY <1>5, Elements DEF ListInv, StateIn
  <2>2. \A v \in Range(low_prio.submit) \cup Range(low_prio.notify) :
           state'[v] \in {"removed", "cleanup"}
    BY <1>5, Elements, Kinds DEF ListInv, StateIn, Held
  <2>3. ASSUME NEW p \in Procs, NEW v \in Range(todo[p])
        PROVE  /\ v \in Waiters /\ state'[v] = state[v]
               /\ pc'[p] = "put" <=> pc[p] = "put"
    BY <1>1, <1>3, <1>5, Elements DEF ListInv, Held
  <2> QED
    BY <1>2, <2>1, <2>2, <2>3 DEF ListInv, StateIn
<1>8. \A v : Held(v)' <=> Held(v)
  BY <1>2 DEF Held
<1>9. Placed'
  BY <1>2, <1>8 DEF ListInv, Placed
<1>10. RefInv'
  <2>1. ASSUME NEW v \in Waiters, v # s PROVE ThreadRef(v)' = ThreadRef(v)
    BY <1>2, <1>3, <2>1 DEF ThreadRef
  <2>2. ThreadRef(s)' = 0
    BY <1>3 DEF ThreadRef
  <2>3. ASSUME NEW v \in Waiters, v # s
        PROVE  /\ refcount'[v] = (IF v \in Range(wait_head') \/ Held(v)' THEN 1 ELSE 0)
                                   + ThreadRef(v)'
               /\ state'[v] \in {"none", "freed"} <=> refcount'[v] = 0
    BY <1>2, <1>8, <2>1, <2>3 DEF ListInv, RefInv
  <2>4. /\ refcount'[s] = (IF s \in Range(wait_head') \/ Held(s)' THEN 1 ELSE 0)
                            + ThreadRef(s)'
        /\ state'[s] \in {"none", "freed"} <=> refcount'[s] = 0
    BY <1>1, <1>2, <1>8, <2>2 DEF ListInv, RefInv
  <2> QED
    BY <2>3, <2>4 DEF RefInv
<1>11. Merging'
  <2>1. low_prio.submit # <<>> => low_prio.submit[Len(low_prio.submit)] \in Range(low_prio.submit)
    BY Elements, LastIn DEF ListInv
  <2>2. ASSUME low_prio.submit # <<>>
        PROVE  LET v == low_prio.submit[Len(low_prio.submit)] IN state'[v] = state[v]
    BY <1>5, <2>1, <2>2, Elements, Kinds DEF ListInv, Held
  <2> QED
    BY <1>2, <2>2 DEF ListInv, Merging
<1> QED
  BY <1>6, <1>7, <1>9, <1>10, <1>11 DEF Listed

\* The worker takes over both lists.
LEMMA TakeListed ==
  ASSUME ListInv, LowPrioWork
  PROVE  Listed'
<1> DEFINE both == low_prio.submit \o low_prio.notify
<1>1. /\ UNCHANGED <<wait_head, state, refcount, count>>
      /\ low_prio'.submit = <<>> /\ low_prio'.notify = <<>>
      /\ todo'["work"] = both /\ \A p \in Procs : p # "work" => todo'[p] = todo[p]
  BY Kinds DEF LowPrioWork, waiter, ListInv, Shape
<1>2. /\ \A x \in Procs \cup Waiters : x # "work" => pc'[x] = pc[x]
      /\ pc["work"] = "idle" /\ pc'["work"] = "run"
  BY Kinds DEF LowPrioWork, Goto, ListInv, Shape
<1>3. todo["work"] = <<>> /\ "work" \in Procs
  BY <1>2, Kinds DEF ListInv, Roles
<1>4. Range(<<>>) = {} /\ IsInjective(<<>>)
  BY DEF Range, IsInjective
<1>5. /\ Range(both) = Range(low_prio.submit) \cup Range(low_prio.notify)
      /\ IsInjective(both)
  <2>1. /\ low_prio.submit \in Seq(Waiters) /\ low_prio.notify \in Seq(Waiters)
    BY Elements, SeqMonotonic DEF Waiters, ListInv
  <2>2. /\ IsInjective(low_prio.submit) /\ IsInjective(low_prio.notify)
        /\ Range(low_prio.submit) \cap Range(low_prio.notify) = {}
    BY Elements, Kinds DEF ListInv, Lists
  <2> QED
    BY <2>1, <2>2, Joined
<1> HIDE DEF both
<1>6. Lists'
  BY <1>1, <1>4, <1>5 DEF ListInv, Lists
<1>7. /\ Range(todo'["work"]) = Range(low_prio.submit) \cup Range(low_prio.notify)
      /\ \A p \in Procs : p # "work" => Range(todo'[p]) = Range(todo[p])
      /\ Range(low_prio'.submit) = {} /\ Range(low_prio'.notify) = {}
      /\ Range(todo["work"]) = {}
  BY <1>1, <1>3, <1>4, <1>5
<1>8. Disjoint'
  <2>1. Range(low_prio.submit) \subseteq Jobs /\ Range(low_prio.notify) \subseteq Slow
    BY Elements DEF ListInv
  <2>2. \A p \in Procs : p # "work" => Range(todo'[p]) \subseteq Sleepers \cup Fast
    BY <1>7 DEF ListInv, Disjoint
  <2>3. \A p, q \in Procs : p # q => Range(todo'[p]) \cap Range(todo'[q]) = {}
    <3>1. TAKE p, q \in Procs
    <3>2. CASE p # "work" /\ q # "work"
      BY <1>7, <3>2 DEF ListInv, Disjoint
    <3>3. CASE p = "work" /\ q # "work"
      BY <1>7, <2>1, <2>2, <3>3, Kinds
    <3>4. CASE p # "work" /\ q = "work"
      BY <1>7, <2>1, <2>2, <3>4, Kinds
    <3> QED
      BY <3>2, <3>3, <3>4
  <2> QED
    BY <1>7, <2>1, <2>2, <2>3 DEF Disjoint
<1>9. StateIn'
  <2>1. ASSUME NEW p \in Procs, NEW v \in Range(todo'[p])
        PROVE  IF pc'[p] = "put" /\ v = Head(todo'[p])
               THEN state'[v] \in {"handled", "cleanup"}
               ELSE state'[v] \in {"removed", "cleanup"}
    <3>1. CASE p = "work"
      BY <1>1, <1>2, <1>7, <2>1, <3>1 DEF ListInv, StateIn
    <3>2. CASE p # "work"
      BY <1>1, <1>2, <2>1, <3>2 DEF ListInv, StateIn
    <3> QED
      BY <3>1, <3>2
  <2> QED
    BY <1>1, <1>7, <2>1 DEF ListInv, StateIn
<1>10. \A v : Held(v)' <=> Held(v)
  BY <1>3, <1>7 DEF Held
<1>11. Placed'
  BY <1>1, <1>10 DEF ListInv, Placed
<1>12. RefInv'
  <2>1. \A v \in Waiters : ThreadRef(v)' = ThreadRef(v)
    BY <1>1, <1>2, Kinds DEF ThreadRef
  <2> QED
    BY <1>1, <1>10, <2>1 DEF ListInv, RefInv
<1>13. Merging'
  BY <1>1 DEF ListInv, Merging
<1> QED
  BY <1>6, <1>8, <1>9, <1>11, <1>12, <1>13 DEF Listed

\* remove_completed_waiters() moves the first waiter to the end of one list, or
\* to its front if its handler is not to run.
LEMMA LeaveListed ==
  ASSUME ListInv, NEW p \in Procs, RemoveCompleted(p)
  PROVE  Listed'
<1>0. PICK w : w = Head(wait_head)
  OBVIOUS
<1> DEFINE cleanup == state[w] = "cancelled" \/ Merged(p, w)
<1>1. /\ w \in Waiters /\ w \in Range(wait_head) /\ ~Held(w)
      /\ state[w] \in {"pending", "cancelled"} /\ p # "work" /\ pc[p] = "scan"
      /\ wait_head' \in Seq(Waiters) /\ IsInjective(wait_head')
      /\ Range(wait_head') = Range(wait_head) \ {w}
  BY <1>0, LeaveEffect, Zenon
<1>2. /\ \A v \in Waiters : v # w => state'[v] = state[v]
      /\ state'[w] = IF cleanup THEN "cleanup" ELSE "removed"
      /\ pc' = pc /\ refcount' = refcount
  BY <1>0, <1>1 DEF RemoveCompleted, ListInv, Shape
<1>3. w \in Jobs =>
        /\ todo' = todo /\ low_prio'.notify = low_prio.notify
        /\ IsInjective(low_prio'.submit)
        /\ Range(low_prio'.submit) = Range(low_prio.submit) \cup {w}
  BY <1>0, LeaveEffect, Zenon
<1>4. w \in Slow =>
        /\ todo' = todo /\ low_prio'.submit = low_prio.submit
        /\ IsInjective(low_prio'.notify)
        /\ Range(low_prio'.notify) = Range(low_prio.notify) \cup {w}
  BY <1>0, LeaveEffect, Zenon
<1>5. w \in Sleepers \cup Fast =>
        /\ low_prio' = low_prio
        /\ IsInjective(todo'[p]) /\ Range(todo'[p]) = Range(todo[p]) \cup {w}
        /\ \A q \in Procs : q # p => todo'[q] = todo[q]
  BY <1>0, LeaveEffect, Zenon
<1>6. w \in Jobs \/ w \in Slow \/ w \in Sleepers \cup Fast
  BY <1>1, Kinds
<1>7. Lists'
  <2>1. CASE w \in Jobs
    BY <1>1, <1>3, <2>1 DEF ListInv, Lists
  <2>2. CASE w \in Slow
    BY <1>1, <1>4, <2>2 DEF ListInv, Lists
  <2>3. CASE w \in Sleepers \cup Fast
    BY <1>1, <1>5, <2>3 DEF ListInv, Lists
  <2> QED
    BY <1>6, <2>1, <2>2, <2>3
<1>8. /\ \A q \in Procs : w \notin Range(todo[q])
      /\ w \notin Range(low_prio.submit) /\ w \notin Range(low_prio.notify)
  BY <1>1 DEF Held
<1>9. Disjoint'
  <2>1. CASE w \in Jobs
    BY <1>3, <1>8, <2>1, Kinds DEF ListInv, Disjoint
  <2>2. CASE w \in Slow
    BY <1>4, <1>8, <2>2, Kinds DEF ListInv, Disjoint
  <2>3. CASE w \in Sleepers \cup Fast
    <3>1. Range(todo'["work"]) = Range(todo["work"]) /\ low_prio' = low_prio
      BY <1>1, <1>5, <2>3, Kinds
    <3>2. \A q \in Procs \ {"work"} : Range(todo'[q]) \subseteq Sleepers \cup Fast
      BY <1>5, <2>3 DEF ListInv, Disjoint
    <3>3. \A q, r \in Procs : q # r => Range(todo'[q]) \cap Range(todo'[r]) = {}
      BY <1>5, <1>8, <2>3 DEF ListInv, Disjoint
    <3> QED
      BY <3>1, <3>2, <3>3 DEF ListInv, Disjoint
  <2> QED
    BY <1>6, <2>1, <2>2, <2>3
<1>10. /\ \A v : Held(v)' <=> Held(v) \/ v = w
       /\ \A q \in Procs : Range(todo'[q]) \subseteq Range(todo[q]) \cup {w}
       /\ Range(low_prio'.submit) \subseteq Range(low_prio.submit) \cup {w}
       /\ Range(low_prio'.notify) \subseteq Range(low_prio.notify) \cup {w}
  <2>1. CASE w \in Jobs
    BY <1>3, <2>1 DEF Held
  <2>2. CASE w \in Slow
    BY <1>4, <2>2 DEF Held
  <2>3. CASE w \in Sleepers \cup Fast
    BY <1>5, <2>3 DEF Held
  <2> QED
    BY <1>6, <2>1, <2>2, <2>3
<1>11. \A q \in Procs : pc[q] = "put" => todo'[q] = todo[q]
  BY <1>1, <1>3, <1>4, <1>5, <1>6
<1>12. StateIn'
  <2>1. \A v \in Range(wait_head') : state'[v] \in {"pending", "cancelled"}
    BY <1>1, <1>2, Elements DEF ListInv, StateIn
  <2>2. ASSUME NEW v \in Waiters,
               v \in Range(low_prio'.submit) \cup Range(low_prio'.notify)
        PROVE  state'[v] \in {"removed", "cleanup"}
    BY <1>2, <1>10, <2>2 DEF ListInv, StateIn
  <2>3. Range(low_prio'.submit) \cup Range(low_prio'.notify) \subseteq Waiters
    BY <1>1, <1>10, Elements, Kinds DEF ListInv
  <2>4. ASSUME NEW q \in Procs, NEW v \in Range(todo'[q])
        PROVE  IF pc'[q] = "put" /\ v = Head(todo'[q])
               THEN state'[v] \in {"handled", "cleanup"}
               ELSE state'[v] \in {"removed", "cleanup"}
    <3>1. CASE v = w
      <4>1. pc[q] # "put"
        BY <1>8, <1>11, <2>4, <3>1
      <4> QED
        BY <1>2, <3>1, <4>1
    <3>2. CASE v # w
      <4>1. v \in Range(todo[q]) /\ v \in Waiters
        BY <1>10, <2>4, <3>2, Elements DEF ListInv
      <4> QED
        BY <1>2, <1>11, <3>2, <4>1 DEF ListInv, StateIn
    <3> QED
      BY <3>1, <3>2
  <2> QED
    BY <2>1, <2>2, <2>3, <2>4 DEF StateIn
<1>13. Placed'
  BY <1>1, <1>2, <1>10 DEF ListInv, Placed
<1>14. RefInv'
  <2>1. \A v \in Waiters : ThreadRef(v)' = ThreadRef(v)
    BY <1>1, <1>2 DEF ThreadRef
  <2>2. \A v \in Waiters : (v \in Range(wait_head') \/ Held(v)') <=> (v \in Range(wait_head) \/ Held(v))
    BY <1>1, <1>10
  <2>3. \A v \in Waiters : state'[v] \in {"none", "freed"} <=> state[v] \in {"none", "freed"}
    BY <1>1, <1>2
  <2> QED
    BY <1>2, <2>1, <2>2, <2>3 DEF ListInv, RefInv
<1>15. Merging'
  <2>1. /\ \A v \in Waiters : state'[v] = "cancelled" => v \in Sleepers
    BY <1>2 DEF ListInv, Merging
  <2> DEFINE prev == low_prio.submit[Len(low_prio.submit)]
  <2>2. low_prio.submit # <<>> =>
          prev \in Range(low_prio.submit) /\ prev \in Waiters /\ state[prev] = "removed"
    BY Elements, Kinds, LastIn DEF ListInv, Merging
  <2>3. \A v \in Waiters : state'[v] = "pending" => count'[v] = 1
    <3>1. CASE Merged(p, w)
      <4>1. low_prio.submit # <<>> /\ count' = [count EXCEPT ![prev] = @ + 1]
        BY <1>0, <3>1 DEF RemoveCompleted, Merged
      <4>2. \A v \in Waiters : state'[v] = "pending" => v # prev /\ v # w
        BY <1>2, <2>2, <3>1, <4>1
      <4> HIDE DEF prev
      <4> QED
        BY <1>2, <4>1, <4>2 DEF ListInv, Merging, Shape
    <3>2. CASE ~Merged(p, w)
      <4>1. count' = count
        BY <1>0, <3>2 DEF RemoveCompleted
      <4> QED
        BY <1>2, <4>1 DEF ListInv, Merging
    <3> QED
      BY <3>1, <3>2
  <2>4. CASE w \in Jobs
    <3>1. state[w] = "pending"
      BY <1>1, <2>4, Kinds DEF ListInv, Merging
    <3>2. low_prio.submit \in Seq(Jobs) /\ IsInjective(low_prio.submit)
      BY Elements DEF ListInv, Lists
    <3>3. CASE Merged(p, w)
      <4>1. low_prio.submit # <<>>
        BY <3>3 DEF Merged
      <4>2. low_prio'.submit = <<w>> \o low_prio.submit
        BY <1>0, <2>4, <3>3, Kinds DEF RemoveCompleted, Dest, ListInv, Shape
      <4>3. (<<w>> \o low_prio.submit)[Len(<<w>> \o low_prio.submit)] = prev
        BY <1>8, <2>4, <3>2, <4>1, Added
      <4>4. state'[prev] = "removed"
        BY <1>2, <1>8, <2>2, <4>1
      <4> QED
        BY <2>1, <2>3, <4>2, <4>3, <4>4 DEF Merging
    <3>4. CASE ~Merged(p, w)
      <4>1. low_prio'.submit = Append(low_prio.submit, w)
        BY <1>0, <2>4, <3>1, <3>4, Kinds DEF RemoveCompleted, Dest, ListInv, Shape
      <4>2. Append(low_prio.submit, w)[Len(Append(low_prio.submit, w))] = w
        BY <1>8, <2>4, <3>2, Added
      <4>3. state'[w] = "removed"
        BY <1>2, <3>1, <3>4
      <4> QED
        BY <2>1, <2>3, <4>1, <4>2, <4>3 DEF Merging
    <3> QED
      BY <3>3, <3>4
  <2>5. CASE w \notin Jobs
    <3>1. low_prio'.submit = low_prio.submit
      BY <1>4, <1>5, <1>6, <2>5
    <3>2. low_prio.submit # <<>> => state'[prev] = "removed"
      BY <1>2, <1>8, <2>2
    <3> QED
      BY <2>1, <2>3, <3>1, <3>2 DEF Merging
  <2> QED
    BY <2>4, <2>5
<1> QED
  BY <1>7, <1>9, <1>12, <1>13, <1>14, <1>15 DEF Listed

\* Every step keeps the lists in order.
LEMMA ListStep ==
  ASSUME ListInv, [Next]_vars
  PROVE  ListInv'
<1> DEFINE Quiet == /\ \A p \in Procs : pc'[p] = "put" <=> pc[p] = "put"
                    /\ \A s \in Sleepers :
                          state[s] # "none" => (pc'[s] = "done" <=> pc[s] = "done")
<1> SUFFICES Listed'
  BY ShapeStep, RolesStep DEF ListInv, Listed
<1>0. /\ pc \in [Procs \cup Waiters -> PcOf] /\ Roles /\ Born
      /\ Waiters = Sleepers \cup Others /\ Sleepers \cap Others = {}
      /\ Procs = Sleepers \cup {"isr", "work"} /\ "isr" \notin Waiters /\ "work" \notin Waiters
      /\ Jobs \subseteq Others /\ Fast \cup Slow \subseteq Others
  BY Kinds DEF ListInv, Shape
<1> USE <1>0 DEF Roles, Born
<1>1. ASSUME NEW s \in Sleepers, WaitBegin(s) PROVE Listed'
  <2>1. /\ pc[s] = "idle" /\ UNCHANGED <<wait_head, low_prio, todo, state, refcount, count>>
        /\ \/ pc' = [pc EXCEPT ![s] = "done"]
           \/ pc' = [pc EXCEPT ![s] = "check"]
    BY <1>1 DEF WaitBegin, Goto, local, lists
  <2>2. Quiet
    BY <2>1
  <2> QED
    BY <2>1, <2>2, QuietStep
<1>2. ASSUME NEW s \in Sleepers, NoTimeout(s) PROVE Listed'
  <2>1. /\ UNCHANGED <<wait_head, low_prio, todo, state, refcount, count>>
        /\ Quiet
    BY <1>2 DEF NoTimeout, Goto, local, waiter, lists, CmpXchg
  <2> QED
    BY <2>1, QuietStep
<1>3. ASSUME NEW s \in Sleepers, CheckPeriod(s) PROVE Listed'
  <2>1. /\ UNCHANGED <<wait_head, low_prio, todo, state, refcount, count>>
        /\ Quiet
    BY <1>3 DEF CheckPeriod, Goto, local, waiter, lists, CmpXchg
  <2> QED
    BY <2>1, QuietStep
<1>4. ASSUME NEW s \in Sleepers, GiveUp(s) PROVE Listed'
  <2>1. /\ UNCHANGED <<wait_head, low_prio, todo, state, refcount, count>>
        /\ Quiet
    BY <1>4 DEF GiveUp, Goto, local, waiter, lists, CmpXchg
  <2> QED
    BY <2>1, QuietStep
<1>5. ASSUME NEW s \in Sleepers, Check(s) PROVE Listed'
  <2>1. ThreadRef(s) = IF state[s] # "none" THEN 1 ELSE 0
    BY <1>5 DEF Check, ThreadRef
  <2>2. (refcount[s] > 0) <=> state[s] # "none"
    BY <2>1, Kinds DEF ListInv, RefInv
  <2>3. \E l \in {"cancel", "done", "sleep", "add"} :
          /\ pc' = [pc EXCEPT ![s] = l]
          /\ state[s] # "none" => l # "done"
    BY <1>5, <2>2 DEF Check, Goto
  <2>4. /\ UNCHANGED <<wait_head, low_prio, todo, state, refcount, count>>
        /\ pc[s] = "check_cas"
    BY <1>5 DEF Check, lists, waiter
  <2>5. Quiet
    BY <2>3, <2>4
  <2> QED
    BY <2>4, <2>5, QuietStep
<1>6. ASSUME NEW s \in Sleepers, Woken(s) PROVE Listed'
  <2>1. /\ UNCHANGED <<wait_head, low_prio, todo, state, refcount, count>>
        /\ Quiet
    BY <1>6 DEF Woken, Goto, local, waiter, lists, CmpXchg
  <2> QED
    BY <2>1, QuietStep
<1>7. ASSUME NEW s \in Sleepers, PutRef(s) PROVE Listed'
  BY <1>7, CancelListed
<1>8. ASSUME NEW s \in Sleepers, WaitEnd(s) PROVE Listed'
  BY <1>8, EndListed
<1>9. ASSUME NEW j \in Jobs, Submit(j) PROVE Listed'
  <2>1. /\ UNCHANGED <<wait_head, low_prio, todo, state, refcount, count>>
        /\ Quiet
    BY <1>9 DEF Submit, Goto, local, waiter, lists, CmpXchg
  <2> QED
    BY <2>1, QuietStep
<1>10. ASSUME NEW n \in Fast \cup Slow, RegisterNotifier(n) PROVE Listed'
  <2>1. /\ UNCHANGED <<wait_head, low_prio, todo, state, refcount, count>>
        /\ Quiet
    BY <1>10 DEF RegisterNotifier, Goto, local, waiter, lists, CmpXchg
  <2> QED
    BY <2>1, QuietStep
<1>11. ASSUME NEW w \in Waiters, AddAction(w) PROVE Listed'
  BY <1>11, AddListed
<1>12. ASSUME NEW p \in Procs, UpdateRead(p) PROVE Listed'
  <2>1. /\ UNCHANGED <<wait_head, low_prio, todo, state, refcount, count>>
        /\ Quiet
    BY <1>12 DEF UpdateRead, Goto, local, waiter, lists, CmpXchg
  <2> QED
    BY <2>1, QuietStep
<1>13. ASSUME NEW p \in Procs, UpdateAgain(p) PROVE Listed'
  <2>1. /\ UNCHANGED <<wait_head, low_prio, todo, state, refcount, count>>
        /\ Quiet
    BY <1>13 DEF UpdateAgain, Goto, local, waiter, lists, CmpXchg
  <2> QED
    BY <2>1, QuietStep
<1>14. ASSUME NEW p \in Procs, ProcessRead(p) PROVE Listed'
  <2>1. /\ UNCHANGED <<wait_head, low_prio, todo, state, refcount, count>>
        /\ Quiet
    BY <1>14 DEF ProcessRead, Goto, local, waiter, lists, CmpXchg
  <2> QED
    BY <2>1, QuietStep
<1>15. ASSUME NEW p \in Procs, RemoveCompleted(p) PROVE Listed'
  BY <1>15, LeaveListed
<1>16. ASSUME NEW p \in Procs, Rearm(p) PROVE Listed'
  <2>1. /\ UNCHANGED <<wait_head, low_prio, todo, state, refcount, count>>
        /\ Quiet
    BY <1>16 DEF Rearm, Goto, local, waiter, lists, CmpXchg
  <2> QED
    BY <2>1, QuietStep
<1>17. ASSUME NEW p \in Procs, RunHandler(p) PROVE Listed'
  BY <1>17, HandleListed
<1>18. ASSUME NEW p \in Procs, PutHandled(p) PROVE Listed'
  BY <1>18, ReleaseListed
<1>19. ASSUME NEW p \in Procs, RunDone(p) PROVE Listed'
  <2>1. /\ UNCHANGED <<wait_head, low_prio, todo, state, refcount, count>>
        /\ Quiet
    BY <1>19 DEF RunDone, Goto, local, waiter, lists, CmpXchg
  <2> QED
    BY <2>1, QuietStep
<1>20. ASSUME NEW p \in Procs, Lock(p) PROVE Listed'
  <2>1. /\ UNCHANGED <<wait_head, low_prio, todo, state, refcount, count>>
        /\ Quiet
    BY <1>20 DEF Lock, Goto, local, waiter, lists, CmpXchg
  <2> QED
    BY <2>1, QuietStep
<1>21. CASE LowPrioWork
  BY <1>21, TakeListed
<1>22. CASE ThreshIsr
  <2>1. /\ UNCHANGED <<wait_head, low_prio, todo, state, refcount, count>>
        /\ Quiet
    BY <1>22 DEF ThreshIsr, Goto, local, waiter, lists, CmpXchg
  <2> QED
    BY <2>1, QuietStep
<1>23. CASE HwIncr
  <2>1. /\ UNCHANGED <<wait_head, low_prio, todo, state, refcount, count>>
        /\ Quiet
    BY <1>23 DEF HwIncr, Goto, local, waiter, lists, CmpXchg
  <2> QED
    BY <2>1, QuietStep
<1>24. CASE PowerCycle
  <2>1. /\ UNCHANGED <<wait_head, low_prio, todo, state, refcount, count>>
        /\ Quiet
    BY <1>24 DEF PowerCycle, Goto, local, waiter, lists, CmpXchg
  <2> QED
    BY <2>1, QuietStep
<1>25. CASE UNCHANGED vars
  BY <1>25, QuietStep DEF vars
<1> QED
  BY <1>1, <1>2, <1>3, <1>4, <1>5, <1>6, <1>7, <1>8, <1>9, <1>10, <1>11, <1>12,
     <1>13, <1>14, <1>15, <1>16, <1>17, <1>18, <1>19, <1>20, <1>21, <1>22,
     <1>23, <1>24, <1>25
     DEF Next, Process, Wait

\* The lists are in order at the start.
LEMMA ListInit ==
  ASSUME Init
  PROVE  ListInv
<1>1. /\ wait_head = <<>> /\ low_prio.submit = <<>> /\ low_prio.notify = <<>>
      /\ \A p \in Procs : todo[p] = <<>>
  BY DEF Init
<1>2. Range(<<>>) = {} /\ IsInjective(<<>>)
  BY DEF Range, IsInjective
<1>3. Shape
  <2>1. /\ hw \in Nat /\ min_val \in Nat /\ max_val \in Nat /\ busy \in Int
        /\ lock \in Procs \cup {None}
    BY StartAssumption DEF Init
  <2>2. enabled \in BOOLEAN /\ work \in BOOLEAN
    BY DEF Init
  <2>3. thresh \in 0 .. U32 - 1
    <3>1. 0 \in 0 .. U32 - 1
      BY U32Assumption
    <3> QED
      BY <3>1 DEF Init
  <2>4. wait_head \in Seq(Waiters) /\ low_prio \in [submit : Seq(Jobs), notify : Seq(Slow)]
    BY EmptySeq DEF Init
  <2>5. /\ state \in [Waiters -> States] /\ refcount \in [Waiters -> Int]
        /\ target \in [Waiters -> Nat] /\ count \in [Waiters -> Nat]
        /\ pc \in [Procs \cup Waiters -> PcOf]
    BY StartAssumption DEF Init, States, PcOf
  <2>6. /\ old \in [Procs -> Nat] /\ live \in [Procs -> Nat]
        /\ todo \in [Procs -> Seq(Waiters)] /\ kick \in [Procs -> BOOLEAN]
        /\ ret \in [Sleepers -> {None, "ok", "err"}]
    BY StartAssumption, EmptySeq DEF Init
  <2> QED
    BY <2>1, <2>2, <2>3, <2>4, <2>5, <2>6 DEF Shape
<1>4. Roles /\ Born
  BY Kinds DEF Init, Roles, Born
<1>5. Lists /\ Disjoint /\ StateIn
  BY <1>1, <1>2, Kinds DEF Lists, Disjoint, StateIn
<1>6. Placed /\ RefInv
  <2>1. \A w \in Waiters : state[w] = "none" /\ refcount[w] = 0
    BY DEF Init
  <2>2. \A w \in Waiters : ThreadRef(w) = 0 /\ ~Held(w) /\ w \notin Range(wait_head)
    BY <1>1, <1>2, <2>1 DEF ThreadRef, Held
  <2> QED
    BY <2>1, <2>2 DEF Placed, RefInv
<1>7. Merging
  BY <1>1 DEF Init, Merging
<1> QED
  BY <1>3, <1>4, <1>5, <1>6, <1>7 DEF ListInv

\* The lists are always in order.
LEMMA ListInvariance == Spec => []ListInv
<1>1. Init => ListInv
  BY ListInit
<1>2. ListInv /\ [Next]_vars => ListInv'
  BY ListStep
<1> QED
  BY <1>1, <1>2, PTL DEF Spec

-----------------------------------------------------------------------------
(***************************************************************************)
(* What follows from the lists being in order.                             *)
(***************************************************************************)

\* Some list of completed low priority waiters is not empty.
Stranded == low_prio.submit # <<>> \/ low_prio.notify # <<>>
Kept == Stranded => work \/ \E p \in Procs : kick[p] \/ pc[p] = "scan"

\* A step that leaves a waiter in a low priority list leaves somebody who will
\* queue the work.
LEMMA KeptStep ==
  ASSUME ListInv, Kept, [Next]_vars
  PROVE  Kept'
<1>0. Kept
  OBVIOUS
<1>k. /\ kick \in [Procs -> BOOLEAN] /\ pc \in [Procs \cup Waiters -> PcOf]
      /\ work \in BOOLEAN /\ Procs = Sleepers \cup {"isr", "work"}
      /\ Jobs \cup Fast \cup Slow \subseteq Waiters
  BY Kinds DEF ListInv, Shape
<1> USE <1>k DEF Kept
<1>1. ASSUME NEW s \in Sleepers, WaitBegin(s) PROVE Kept'
  <2>1. /\ low_prio' = low_prio /\ work' = work /\ kick' = kick
        /\ \A q \in Procs : pc[q] = "scan" => pc'[q] = "scan"
    BY <1>1 DEF WaitBegin, Goto, local, lists, CmpXchg
  <2> QED
    BY <1>0, <2>1 DEF Stranded
<1>2. ASSUME NEW s \in Sleepers, NoTimeout(s) PROVE Kept'
  <2>1. /\ low_prio' = low_prio /\ work' = work /\ kick' = kick
        /\ \A q \in Procs : pc[q] = "scan" => pc'[q] = "scan"
    BY <1>2 DEF NoTimeout, Goto, local, lists, CmpXchg
  <2> QED
    BY <1>0, <2>1 DEF Stranded
<1>3. ASSUME NEW s \in Sleepers, CheckPeriod(s) PROVE Kept'
  <2>1. /\ low_prio' = low_prio /\ work' = work /\ kick' = kick
        /\ \A q \in Procs : pc[q] = "scan" => pc'[q] = "scan"
    BY <1>3 DEF CheckPeriod, Goto, local, lists, CmpXchg
  <2> QED
    BY <1>0, <2>1 DEF Stranded
<1>4. ASSUME NEW s \in Sleepers, GiveUp(s) PROVE Kept'
  <2>1. /\ low_prio' = low_prio /\ work' = work /\ kick' = kick
        /\ \A q \in Procs : pc[q] = "scan" => pc'[q] = "scan"
    BY <1>4 DEF GiveUp, Goto, local, lists, CmpXchg
  <2> QED
    BY <1>0, <2>1 DEF Stranded
<1>5. ASSUME NEW s \in Sleepers, Check(s) PROVE Kept'
  <2>1. /\ low_prio' = low_prio /\ work' = work /\ kick' = kick
        /\ \A q \in Procs : pc[q] = "scan" => pc'[q] = "scan"
    BY <1>5 DEF Check, Goto, local, lists, CmpXchg
  <2> QED
    BY <1>0, <2>1 DEF Stranded
<1>6. ASSUME NEW s \in Sleepers, Woken(s) PROVE Kept'
  <2>1. /\ low_prio' = low_prio /\ work' = work /\ kick' = kick
        /\ \A q \in Procs : pc[q] = "scan" => pc'[q] = "scan"
    BY <1>6 DEF Woken, Goto, local, lists, CmpXchg
  <2> QED
    BY <1>0, <2>1 DEF Stranded
<1>7. ASSUME NEW s \in Sleepers, PutRef(s) PROVE Kept'
  <2>1. /\ low_prio' = low_prio /\ work' = work /\ kick' = kick
        /\ \A q \in Procs : pc[q] = "scan" => pc'[q] = "scan"
    BY <1>7 DEF PutRef, Goto, local, lists, CmpXchg
  <2> QED
    BY <1>0, <2>1 DEF Stranded
<1>8. ASSUME NEW s \in Sleepers, WaitEnd(s) PROVE Kept'
  <2>1. /\ low_prio' = low_prio /\ work' = work /\ kick' = kick
        /\ \A q \in Procs : pc[q] = "scan" => pc'[q] = "scan"
    BY <1>8 DEF WaitEnd, Goto, local, lists, CmpXchg
  <2> QED
    BY <1>0, <2>1 DEF Stranded
<1>9. ASSUME NEW j \in Jobs, Submit(j) PROVE Kept'
  <2>1. /\ low_prio' = low_prio /\ work' = work /\ kick' = kick
        /\ \A q \in Procs : pc[q] = "scan" => pc'[q] = "scan"
    BY <1>9 DEF Submit, Goto, local, lists, CmpXchg
  <2> QED
    BY <1>0, <2>1 DEF Stranded
<1>10. ASSUME NEW n \in Fast \cup Slow, RegisterNotifier(n) PROVE Kept'
  <2>1. /\ low_prio' = low_prio /\ work' = work /\ kick' = kick
        /\ \A q \in Procs : pc[q] = "scan" => pc'[q] = "scan"
    BY <1>10 DEF RegisterNotifier, Goto, local, lists, CmpXchg
  <2> QED
    BY <1>0, <2>1 DEF Stranded
<1>11. ASSUME NEW w \in Waiters, AddAction(w) PROVE Kept'
  <2>1. UNCHANGED <<low_prio, work, kick>> /\ \A p \in Procs : pc[p] = "scan" => pc'[p] = "scan"
    BY <1>11 DEF AddAction, Goto, local
  <2> QED
    BY <1>0, <2>1 DEF Stranded
<1>12. ASSUME NEW p \in Procs, UpdateRead(p) PROVE Kept'
  <2>1. /\ low_prio' = low_prio /\ work' = work /\ kick' = kick
        /\ \A q \in Procs : pc[q] = "scan" => pc'[q] = "scan"
    BY <1>12 DEF UpdateRead, Goto, local, lists, CmpXchg
  <2> QED
    BY <1>0, <2>1 DEF Stranded
<1>13. ASSUME NEW p \in Procs, UpdateAgain(p) PROVE Kept'
  <2>1. /\ low_prio' = low_prio /\ work' = work /\ kick' = kick
        /\ \A q \in Procs : pc[q] = "scan" => pc'[q] = "scan"
    BY <1>13 DEF UpdateAgain, Goto, local, lists, CmpXchg
  <2> QED
    BY <1>0, <2>1 DEF Stranded
<1>14. ASSUME NEW p \in Procs, ProcessRead(p) PROVE Kept'
  <2>1. /\ low_prio' = low_prio /\ work' = work /\ kick' = kick
        /\ \A q \in Procs : pc[q] = "scan" => pc'[q] = "scan"
    BY <1>14 DEF ProcessRead, Goto, local, lists, CmpXchg
  <2> QED
    BY <1>0, <2>1 DEF Stranded
<1>15. ASSUME NEW p \in Procs, RemoveCompleted(p) PROVE Kept'
  BY <1>15 DEF RemoveCompleted
<1>16. ASSUME NEW p \in Procs, Rearm(p) PROVE Kept'
  <2>1. kick'[p] = LowPrioPending /\ low_prio' = low_prio
    BY <1>16 DEF Rearm, lists
  <2>2. Stranded => kick'[p]
    BY <2>1, Zenon DEF Stranded, LowPrioPending
  <2> QED
    BY <2>1, <2>2 DEF Stranded
<1>17. ASSUME NEW p \in Procs, RunHandler(p) PROVE Kept'
  <2>1. /\ low_prio' = low_prio /\ work' = work /\ kick' = kick
        /\ \A q \in Procs : pc[q] = "scan" => pc'[q] = "scan"
    BY <1>17 DEF RunHandler, Goto, local, lists, CmpXchg
  <2> QED
    BY <1>0, <2>1 DEF Stranded
<1>18. ASSUME NEW p \in Procs, PutHandled(p) PROVE Kept'
  <2>1. /\ low_prio' = low_prio /\ work' = work /\ kick' = kick
        /\ \A q \in Procs : pc[q] = "scan" => pc'[q] = "scan"
    BY <1>18 DEF PutHandled, Goto, local, lists, CmpXchg
  <2> QED
    BY <1>0, <2>1 DEF Stranded
<1>19. ASSUME NEW p \in Procs, RunDone(p) PROVE Kept'
  <2>1. /\ work' = (work \/ kick[p]) /\ low_prio' = low_prio
        /\ \A q \in Procs : q # p => kick'[q] = kick[q] /\ pc'[q] = pc[q]
        /\ pc[p] = "run"
    BY <1>19 DEF RunDone, Goto
  <2>2. kick[p] \/ work => work'
    BY <2>1, Zenon
  <2> QED
    BY <1>0, <2>1, <2>2 DEF Stranded
<1>20. ASSUME NEW p \in Procs, Lock(p) PROVE Kept'
  <2>1. /\ low_prio' = low_prio /\ work' = work /\ kick' = kick
        /\ \A q \in Procs : pc[q] = "scan" => pc'[q] = "scan"
    BY <1>20 DEF Lock, Goto, local, lists, CmpXchg
  <2> QED
    BY <1>0, <2>1 DEF Stranded
<1>21. CASE LowPrioWork
  BY <1>21 DEF LowPrioWork, Stranded
<1>22. CASE ThreshIsr
  <2>1. /\ low_prio' = low_prio /\ work' = work /\ kick' = kick
        /\ \A q \in Procs : pc[q] = "scan" => pc'[q] = "scan"
    BY <1>22 DEF ThreshIsr, Goto, local, lists, CmpXchg
  <2> QED
    BY <1>0, <2>1 DEF Stranded
<1>23. CASE HwIncr
  <2>1. /\ low_prio' = low_prio /\ work' = work /\ kick' = kick
        /\ \A q \in Procs : pc[q] = "scan" => pc'[q] = "scan"
    BY <1>23 DEF HwIncr, Goto, local, lists, CmpXchg
  <2> QED
    BY <1>0, <2>1 DEF Stranded
<1>24. CASE PowerCycle
  <2>1. /\ low_prio' = low_prio /\ work' = work /\ kick' = kick
        /\ \A q \in Procs : pc[q] = "scan" => pc'[q] = "scan"
    BY <1>24 DEF PowerCycle, Goto, local, lists, CmpXchg
  <2> QED
    BY <1>0, <2>1 DEF Stranded
<1>25. CASE UNCHANGED vars
  BY <1>0, <1>25 DEF vars, Stranded
<1> QED
  BY <1>1, <1>2, <1>3, <1>4, <1>5, <1>6, <1>7, <1>8, <1>9, <1>10, <1>11, <1>12,
     <1>13, <1>14, <1>15, <1>16, <1>17, <1>18, <1>19, <1>20, <1>21, <1>22,
     <1>23, <1>24, <1>25
     DEF Next, Process, Wait

\* The low priority work is queued, or will be by the process that has just put
\* a waiter into its lists: run_low_prio_work of process_wait_list() is enough.
THEOREM WorkIsQueued == Spec => []NoStrandedWork
<1>1. Init => Kept
  BY DEF Init, Kept, Stranded
<1>2. ListInv /\ Kept /\ [Next]_vars => Kept'
  BY KeptStep
<1>3. Kept <=> NoStrandedWork
  BY DEF Kept, Stranded, NoStrandedWork
<1> QED
  BY <1>1, <1>2, <1>3, ListInvariance, PTL DEF Spec

\* A handler runs once and finds its waiter removed: the WARN_ON()s of
\* run_handlers() and of the wake-up handlers do not fire, for every number of
\* threads, jobs and notifiers.
THEOREM HandlersFindRemoved == Spec => []HandlerFindsRemoved
<1>1. ASSUME ListInv PROVE HandlerFindsRemoved
  <2>1. \A i \in DOMAIN wait_head : wait_head[i] \in Range(wait_head)
    BY DEF Range
  <2>2. ASSUME NEW l \in {low_prio.submit, low_prio.notify}, NEW i \in DOMAIN l
        PROVE  state[l[i]] \in {"removed", "cleanup"}
    <3>1. l[i] \in Range(low_prio.submit) \cup Range(low_prio.notify)
      BY <2>2 DEF Range
    <3> QED
      BY <1>1, <3>1 DEF ListInv, StateIn
  <2>3. ASSUME NEW p \in Procs, NEW i \in DOMAIN todo[p]
        PROVE  state[todo[p][i]] \in IF i = 1 /\ pc[p] = "put" THEN {"handled", "cleanup"}
                                                               ELSE {"removed", "cleanup"}
    <3>1. todo[p] \in Seq(Waiters) /\ IsInjective(todo[p])
      BY <1>1, Elements DEF ListInv, Lists
    <3>2. todo[p][i] \in Range(todo[p]) /\ todo[p] # <<>>
      BY <2>3, <3>1, EmptySeq DEF Range
    <3>3. 1 \in DOMAIN todo[p] /\ Head(todo[p]) = todo[p][1]
      BY <3>1, <3>2, HeadOut, InRange
    <3>4. i = 1 <=> todo[p][i] = Head(todo[p])
      BY <2>3, <3>1, <3>3 DEF IsInjective
    <3> QED
      BY <1>1, <3>2, <3>4 DEF ListInv, StateIn
  <2> QED
    BY <1>1, <2>1, <2>2, <2>3 DEF HandlerFindsRemoved, ListInv, StateIn
<1> QED
  BY <1>1, ListInvariance, PTL

\* How often a list holds a waiter.
LEMMA OnceIn ==
  ASSUME NEW S, NEW s \in Seq(S), IsInjective(s), NEW w
  PROVE  /\ Cardinality(In(s, w)) = IF w \in Range(s) THEN 1 ELSE 0
         /\ In(s, w) # {} <=> w \in Range(s)
<1>1. CASE w \in Range(s)
  <2>1. PICK i \in DOMAIN s : s[i] = w
    BY <1>1 DEF Range
  <2>2. In(s, w) = {i}
    BY <2>1 DEF In, IsInjective
  <2> QED
    BY <1>1, <2>2, FS_Singleton
<1>2. CASE w \notin Range(s)
  <2>1. In(s, w) = {}
    BY <1>2 DEF In, Range
  <2> QED
    BY <1>2, <2>1, FS_EmptySet
<1> QED
  BY <1>1, <1>2

\* The references of a waiter are those of the one list it is in and of the
\* thread that waits: kref_get() and kref_put() of nvhost_intr.c balance, and no
\* waiter is freed while a list or a thread can reach it.
THEOREM ReferencesAreExact == Spec => []RefsHeld
<1>1. ASSUME ListInv, NEW w \in Waiters
      PROVE  ListRefs(w) = IF w \in Range(wait_head) \/ Held(w) THEN 1 ELSE 0
  <2> DEFINE H == {p \in Procs : In(todo[p], w) # {}}
  <2>1. /\ Cardinality(In(wait_head, w)) = IF w \in Range(wait_head) THEN 1 ELSE 0
        /\ Cardinality(In(low_prio.submit, w)) = IF w \in Range(low_prio.submit) THEN 1 ELSE 0
        /\ Cardinality(In(low_prio.notify, w)) = IF w \in Range(low_prio.notify) THEN 1 ELSE 0
        /\ \A p \in Procs : In(todo[p], w) # {} <=> w \in Range(todo[p])
    <3>1. /\ wait_head \in Seq(Waiters) /\ IsInjective(wait_head)
          /\ low_prio.submit \in Seq(Jobs) /\ IsInjective(low_prio.submit)
          /\ low_prio.notify \in Seq(Slow) /\ IsInjective(low_prio.notify)
          /\ \A p \in Procs : todo[p] \in Seq(Waiters) /\ IsInjective(todo[p])
      BY <1>1, Elements DEF ListInv, Shape, Lists
    <3> QED
      BY <3>1, OnceIn
  <2>2. ListRefs(w) = Cardinality(In(wait_head, w)) + Cardinality(In(low_prio.submit, w))
                        + Cardinality(In(low_prio.notify, w)) + Cardinality(H)
    BY DEF ListRefs
  <2> HIDE DEF H
  <2>3. CASE \E p \in Procs : w \in Range(todo[p])
    <3>1. PICK p \in Procs : w \in Range(todo[p])
      BY <2>3
    <3>2. /\ w \notin Range(wait_head) /\ w \notin Range(low_prio.submit)
          /\ w \notin Range(low_prio.notify)
          /\ \A q \in Procs : q # p => w \notin Range(todo[q])
      BY <1>1, <3>1, Alone
    <3>3. H = {p}
      BY <2>1, <3>1, <3>2 DEF H
    <3>4. Cardinality(H) = 1 /\ Held(w)
      BY <3>1, <3>3, FS_Singleton DEF Held
    <3> QED
      BY <2>1, <2>2, <3>2, <3>4
  <2>4. CASE ~ \E p \in Procs : w \in Range(todo[p])
    <3>1. H = {}
      BY <2>1, <2>4 DEF H
    <3>2. Cardinality(H) = 0
      BY <3>1, FS_EmptySet
    <3>3. /\ w \in Range(wait_head) => w \notin Range(low_prio.submit) /\ w \notin Range(low_prio.notify)
          /\ w \in Range(low_prio.submit) => w \notin Range(low_prio.notify)
      BY <1>1, Elements, Kinds DEF ListInv, StateIn
    <3>4. Held(w) <=> w \in Range(low_prio.submit) \/ w \in Range(low_prio.notify)
      BY <2>4 DEF Held
    <3> QED
      BY <2>1, <2>2, <3>2, <3>3, <3>4
  <2> QED
    BY <2>3, <2>4
<1>2. ListInv => RefsHeld
  BY <1>1 DEF ListInv, RefInv, RefsHeld
<1> QED
  BY <1>2, ListInvariance, PTL
=============================================================================
