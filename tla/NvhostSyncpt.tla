---------------------------- MODULE NvhostSyncpt ----------------------------
(***************************************************************************)
(* The arithmetic of host1x syncpoints (drivers/video/tegra/host): a        *)
(* syncpoint is a counter of a fixed width that wraps, a threshold is a     *)
(* value it will reach, and every comparison is made modulo the width.      *)
(* The model keeps the true, unwrapped values; the code sees Word(v).       *)
(***************************************************************************)
EXTENDS Integers

CONSTANT U32   \* number of values of a syncpoint register (2^32 in the code)

ASSUME U32Assumption == U32 \in Nat /\ U32 > 1 /\ U32 % 2 = 0

Word(v) == v % U32
Sub(a, b) == (a - b) % U32     \* unsigned a - b

\* (s32)(a - b) > 0.
After(a, b) == Sub(a, b) \in 1 .. U32 \div 2 - 1

\* _nvhost_syncpt_is_expired().
IsExpired(current_val, future_val, has_future_val, thresh) ==
  IF has_future_val
  THEN Sub(future_val, thresh) >= Sub(current_val, thresh)
  ELSE Sub(current_val, thresh) < U32 \div 2

\* _nvhost_syncpt_compare_ref().
CompareRef(ref, a, b) ==
  CASE Sub(a, ref) < Sub(b, ref) -> -1
    [] Sub(a, ref) > Sub(b, ref) -> 1
    [] OTHER -> 0

\* Mutant: expired and outstanding values are not told apart.
CompareByRef(current_val, future_val, has_future_val, a, b) ==
  CompareRef(current_val, a, b)

\* _nvhost_syncpt_compare().
Compare(current_val, future_val, has_future_val, a, b) ==
  LET a_expired == IsExpired(current_val, future_val, has_future_val, a)
      b_expired == IsExpired(current_val, future_val, has_future_val, b)
  IN  CASE a = b -> 0
        [] a # b /\ a_expired /\ ~b_expired -> -1
        [] a # b /\ ~a_expired /\ b_expired -> 1
        [] a # b /\ a_expired = b_expired -> CompareRef(current_val, a, b)

\* The modular comparisons agree with the true order of the values.  A
\* threshold is expired if it is not among the outstanding increments; the
\* order of two thresholds is that of their increments, with one exception:
\* the current value is compared as the earliest of the expired ones, though
\* it is the latest ("-1 if a < b (a triggers before b)").
OrderOK(current, future) ==
  LET c == Word(current)
      f == Word(future)
      window == future - U32 + 1 .. future
      half == U32 \div 2
      compare(a, b) == Compare(c, f, TRUE, Word(a), Word(b))
  IN  /\ \A t \in window : IsExpired(c, f, TRUE, Word(t)) <=> t <= current
      /\ \A t \in current - half + 1 .. current + half :
            IsExpired(c, f, FALSE, Word(t)) <=> t <= current
      /\ \A a, b \in window : a < b =>
            IF b = current THEN compare(a, b) = 1 /\ compare(b, a) = -1
                           ELSE compare(a, b) = -1 /\ compare(b, a) = 1
=============================================================================
