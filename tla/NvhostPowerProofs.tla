------------------------- MODULE NvhostPowerProofs -------------------------
(***************************************************************************)
(* Proofs about NvhostIntr, continued: the uses of the host are counted    *)
(* exactly, the values of the syncpoint and of the thresholds stay in      *)
(* order across a wrap, and so the host loses power only when nothing is   *)
(* lost with it.                                                           *)
(***************************************************************************)
EXTENDS NvhostIntrProofs, FunctionTheorems

-----------------------------------------------------------------------------
(***************************************************************************)
(* The uses of the host: of threads in a wait, of the interrupt handler,   *)
(* of waiters, and of jobs and notifiers until their handlers have run.    *)
(***************************************************************************)
ThreadUses == {s \in Sleepers : pc[s] \notin {"idle", "done"}}
IsrUse == IF pc["isr"] = "idle" THEN 0 ELSE 1
WaiterUses == {w \in Waiters : state[w] \notin {"none", "freed"}}

\* A job or notifier counts once until its waiter is removed, and then as often
\* as jobs were merged into it.
Uses(w) == IF pc[w] = "add" \/ state[w] = "pending" THEN 1
           ELSE IF state[w] = "removed" THEN count[w] ELSE 0
JobUses == {u \in Others \X Nat : 1 <= u[2] /\ u[2] <= Uses(u[1])}

UseInv == /\ IsFiniteSet(JobUses)
          /\ busy = Cardinality(ThreadUses) + IsrUse + Cardinality(WaiterUses)
                      + Cardinality(JobUses)

\* Sets of waiters are finite.
LEMMA FiniteSome ==
  ASSUME NEW T, T \subseteq Waiters
  PROVE  IsFiniteSet(T) /\ Cardinality(T) \in Nat
  BY WaitersAssumption, FS_Subset, FS_CardinalityType

\* When a part stays as it is.
LEMMA SameThreads ==
  ASSUME \A s \in Sleepers : pc'[s] \in {"idle", "done"} <=> pc[s] \in {"idle", "done"}
  PROVE  ThreadUses' = ThreadUses
  BY DEF ThreadUses

\* The same for the waiters that hold a use ...
LEMMA SameWaiters ==
  ASSUME \A w \in Waiters : state'[w] \in {"none", "freed"} <=> state[w] \in {"none", "freed"}
  PROVE  WaiterUses' = WaiterUses
  BY DEF WaiterUses

\* ... and for the uses of jobs and notifiers.
LEMMA SameJobs ==
  ASSUME \A w \in Others : Uses(w)' = Uses(w)
  PROVE  JobUses' = JobUses
<1>1. \A u \in Others \X Nat : u[1] \in Others
  OBVIOUS
<1> QED
  BY <1>1 DEF JobUses

\* A use is a pair of a waiter and a number.
LEMMA UsePair ==
  /\ \A w, k : <<w, k>> \in JobUses <=> w \in Others /\ k \in Nat /\ 1 <= k /\ k <= Uses(w)
  /\ \A u \in JobUses : u = <<u[1], u[2]>> /\ u[1] \in Others /\ u[2] \in Nat
                          /\ 1 <= u[2] /\ u[2] <= Uses(u[1])
  BY DEF JobUses

\* A use more.
LEMMA AddOne ==
  ASSUME NEW S, NEW T, NEW x, IsFiniteSet(S), x \notin S, T = S \cup {x}
  PROVE  IsFiniteSet(T) /\ Cardinality(T) = Cardinality(S) + 1
  BY FS_AddElement

\* A use less.
LEMMA TakeOne ==
  ASSUME NEW S, NEW T, NEW x, IsFiniteSet(S), x \in S, T = S \ {x}
  PROVE  IsFiniteSet(T) /\ Cardinality(T) = Cardinality(S) - 1
  BY FS_RemoveElement

\* The same of the next state.
LEMMA UsePairNext ==
  /\ \A w, k : <<w, k>> \in JobUses' <=> w \in Others /\ k \in Nat /\ 1 <= k /\ k <= Uses(w)'
  /\ \A u \in JobUses' : u = <<u[1], u[2]>> /\ u[1] \in Others /\ u[2] \in Nat
                          /\ 1 <= u[2] /\ u[2] <= Uses(u[1])'
  BY DEF JobUses

\* A waiter that counts once more.
LEMMA JobMore ==
  ASSUME IsFiniteSet(JobUses), NEW x \in Others, NEW n \in Nat, Uses(x) = n, Uses(x)' = n + 1,
         \A w \in Others : w # x => Uses(w)' = Uses(w)
  PROVE  IsFiniteSet(JobUses') /\ Cardinality(JobUses') = Cardinality(JobUses) + 1
<1>1. <<x, n + 1>> \notin JobUses
  BY UsePair
<1>2. ASSUME NEW u \in JobUses' PROVE u \in JobUses \cup {<<x, n + 1>>}
  <2>1. PICK w \in Others, k \in Nat : u = <<w, k>> /\ 1 <= k /\ k <= Uses(w)'
    BY UsePairNext
  <2>2. CASE w = x /\ k = n + 1
    BY <2>1, <2>2
  <2>3. CASE w = x /\ k # n + 1
    <3>1. k <= Uses(w)
      BY <2>1, <2>3
    <3> QED
      BY <2>1, <3>1, UsePair
  <2>4. CASE w # x
    BY <2>1, <2>4, UsePair
  <2> QED
    BY <2>2, <2>3, <2>4
<1>3. ASSUME NEW u \in JobUses \cup {<<x, n + 1>>} PROVE u \in JobUses'
  <2>1. CASE u = <<x, n + 1>>
    BY <2>1, UsePairNext
  <2>2. CASE u \in JobUses
    <3>1. PICK w \in Others, k \in Nat : u = <<w, k>> /\ 1 <= k /\ k <= Uses(w)
      BY <2>2, UsePair
    <3>2. k <= Uses(w)'
      BY <3>1
    <3> QED
      BY <3>1, <3>2, UsePairNext
  <2> QED
    BY <1>3, <2>1, <2>2
<1>4. JobUses' = JobUses \cup {<<x, n + 1>>}
  BY <1>2, <1>3
<1> QED
  BY <1>1, <1>4, AddOne

\* A waiter that counted n times and does not count any more.
LEMMA JobLess ==
  ASSUME IsFiniteSet(JobUses), NEW x \in Others, NEW n \in Nat, Uses(x) = n, Uses(x)' = 0,
         \A w \in Others : w # x => Uses(w)' = Uses(w)
  PROVE  IsFiniteSet(JobUses') /\ Cardinality(JobUses') = Cardinality(JobUses) - n
<1> DEFINE D == {<<x, k>> : k \in 1 .. n}
           f == [k \in 1 .. n |-> <<x, k>>]
<1>1. D \subseteq JobUses
  <2>1. ASSUME NEW k \in 1 .. n PROVE <<x, k>> \in JobUses
    BY UsePair
  <2> QED
    BY <2>1
<1>2. IsFiniteSet(D) /\ Cardinality(D) = n
  <2>1. f \in Bijection(1 .. n, D)
    <3>1. f \in [1 .. n -> D]
      OBVIOUS
    <3>2. \A a, b \in 1 .. n : f[a] = f[b] => a = b
      OBVIOUS
    <3>3. \A d \in D : \E a \in 1 .. n : f[a] = d
      OBVIOUS
    <3> QED
      BY <3>1, <3>2, <3>3, Fun_IsBij
  <2>2. ExistsBijection(1 .. n, D)
    BY <2>1 DEF ExistsBijection
  <2>3. IsFiniteSet(1 .. n) /\ Cardinality(1 .. n) = n
    BY FS_Interval
  <2> HIDE DEF D
  <2> QED
    BY <2>2, <2>3, FS_Bijection
<1>3. ASSUME NEW u \in JobUses' PROVE u \in JobUses /\ u \notin D
  <2>1. PICK w \in Others, k \in Nat : u = <<w, k>> /\ 1 <= k /\ k <= Uses(w)'
    BY UsePairNext
  <2>2. w # x
    BY <2>1
  <2>3. k <= Uses(w)
    BY <2>1, <2>2
  <2> QED
    BY <2>1, <2>2, <2>3, UsePair
<1>4. ASSUME NEW u \in JobUses, u \notin D PROVE u \in JobUses'
  <2>1. PICK w \in Others, k \in Nat : u = <<w, k>> /\ 1 <= k /\ k <= Uses(w)
    BY UsePair
  <2>2. w # x
    <3>1. SUFFICES ASSUME w = x PROVE FALSE
      OBVIOUS
    <3>2. k \in 1 .. n
      BY <2>1, <3>1
    <3> QED
      BY <1>4, <2>1, <3>1, <3>2
  <2>3. k <= Uses(w)'
    BY <2>1, <2>2
  <2> QED
    BY <2>1, <2>3, UsePairNext
<1> HIDE DEF D, f
<1>5. JobUses' = JobUses \ D /\ JobUses \cap D = D
  BY <1>1, <1>3, <1>4
<1> QED
  BY <1>2, <1>5, FS_Difference

\* One waiter that counted once is merged into another.
LEMMA JobMerge ==
  ASSUME IsFiniteSet(JobUses), NEW x \in Others, NEW y \in Others, x # y, NEW n \in Nat,
         Uses(x) = 1, Uses(x)' = 0, Uses(y) = n, Uses(y)' = n + 1,
         \A w \in Others : w # x /\ w # y => Uses(w)' = Uses(w)
  PROVE  IsFiniteSet(JobUses') /\ Cardinality(JobUses') = Cardinality(JobUses)
<1> DEFINE M == JobUses \ {<<x, 1>>}
<1>1. <<x, 1>> \in JobUses /\ <<y, n + 1>> \notin JobUses
  BY UsePair
<1>2. IsFiniteSet(M) /\ Cardinality(M) = Cardinality(JobUses) - 1
  BY <1>1, TakeOne
<1>3. ASSUME NEW u \in JobUses' PROVE u \in M \cup {<<y, n + 1>>}
  <2>1. PICK w \in Others, k \in Nat : u = <<w, k>> /\ 1 <= k /\ k <= Uses(w)'
    BY UsePairNext
  <2>2. w # x
    BY <2>1
  <2>3. CASE w = y /\ k = n + 1
    BY <2>1, <2>3
  <2>4. CASE w # y \/ k # n + 1
    <3>1. k <= Uses(w)
      BY <2>1, <2>2, <2>4
    <3>2. u \in JobUses /\ u # <<x, 1>>
      BY <2>1, <2>2, <3>1, UsePair
    <3> QED
      BY <3>2
  <2> QED
    BY <2>3, <2>4
<1>4. ASSUME NEW u \in M \cup {<<y, n + 1>>} PROVE u \in JobUses'
  <2>1. CASE u = <<y, n + 1>>
    BY <2>1, UsePairNext
  <2>2. CASE u \in M
    <3>1. PICK w \in Others, k \in Nat : u = <<w, k>> /\ 1 <= k /\ k <= Uses(w)
      BY <2>2, UsePair
    <3>2. w # x
      BY <2>2, <3>1
    <3>3. k <= Uses(w)'
      BY <3>1, <3>2
    <3> QED
      BY <3>1, <3>3, UsePairNext
  <2> QED
    BY <1>4, <2>1, <2>2
<1>5. JobUses' = M \cup {<<y, n + 1>>} /\ <<y, n + 1>> \notin M
  BY <1>1, <1>3, <1>4
<1> HIDE DEF M
<1>6. IsFiniteSet(JobUses') /\ Cardinality(JobUses') = Cardinality(M) + 1
  BY <1>2, <1>5, AddOne
<1>7. Cardinality(JobUses) \in Nat
  BY FS_CardinalityType
<1> QED
  BY <1>2, <1>6, <1>7

\* The new count, from the new parts.
LEMMA Sum ==
  ASSUME IsFiniteSet(JobUses'),
         busy' = Cardinality(ThreadUses') + IsrUse' + Cardinality(WaiterUses')
                   + Cardinality(JobUses')
  PROVE  UseInv'
  BY DEF UseInv

\* A step that leaves the waiters, and the threads that wait, alone.
LEMMA UseSame ==
  ASSUME UseInv, busy' = busy, JobUses' = JobUses, WaiterUses' = WaiterUses,
         \A s \in Sleepers : pc'[s] \in {"idle", "done"} <=> pc[s] \in {"idle", "done"},
         pc'["isr"] = "idle" <=> pc["isr"] = "idle"
  PROVE  UseInv'
<1>1. ThreadUses' = ThreadUses
  BY SameThreads
<1>2. IsrUse' = IsrUse
  BY DEF IsrUse
<1> QED
  BY <1>1, <1>2 DEF UseInv

\* A step that changes no state and no count of a waiter.
LEMMA UseQuiet ==
  ASSUME UseInv, UNCHANGED <<state, count, busy>>,
         \A s \in Sleepers : pc'[s] \in {"idle", "done"} <=> pc[s] \in {"idle", "done"},
         pc'["isr"] = "idle" <=> pc["isr"] = "idle",
         \A w \in Others : pc'[w] = "add" <=> pc[w] = "add"
  PROVE  UseInv'
<1>1. \A w \in Others : Uses(w)' = Uses(w)
  BY DEF Uses
<1>2. JobUses' = JobUses
  BY <1>1, SameJobs
<1>3. WaiterUses' = WaiterUses
  BY DEF WaiterUses
<1> QED
  BY <1>2, <1>3, UseSame

\* A thread begins a wait.
LEMMA ThreadMore ==
  ASSUME ListInv, UseInv, UNCHANGED <<state, count>>, NEW s \in Sleepers, busy' = busy + 1,
         pc[s] = "idle", pc' = [pc EXCEPT ![s] = "check"]
  PROVE  UseInv'
<1>0. /\ pc \in [Procs \cup Waiters -> PcOf] /\ s \in Procs /\ s \notin Others
      /\ Sleepers \subseteq Procs /\ "isr" \in Procs /\ Others \subseteq Waiters /\ s # "isr"
  BY Kinds DEF ListInv, Shape
<1>f. /\ IsFiniteSet(ThreadUses) /\ IsFiniteSet(JobUses)
      /\ Cardinality(ThreadUses) \in Nat /\ Cardinality(WaiterUses) \in Nat
      /\ Cardinality(JobUses) \in Nat /\ IsrUse \in {0, 1}
      /\ busy = Cardinality(ThreadUses) + IsrUse + Cardinality(WaiterUses)
                  + Cardinality(JobUses)
  BY FiniteSome, FS_CardinalityType, Kinds DEF ThreadUses, WaiterUses, UseInv, IsrUse
<1>p. \A x \in Procs \cup Waiters : pc'[x] = IF x = s THEN "check" ELSE pc[x]
  BY <1>0
<1>1. ThreadUses' = ThreadUses \cup {s} /\ s \notin ThreadUses
  BY <1>0, <1>p DEF ThreadUses
<1>2. Cardinality(ThreadUses') = Cardinality(ThreadUses) + 1
  BY <1>f, <1>1, AddOne
<1>3. IsrUse' = IsrUse /\ WaiterUses' = WaiterUses
  BY <1>0, <1>p DEF IsrUse, WaiterUses
<1>4. \A w \in Others : Uses(w)' = Uses(w)
  BY <1>0, <1>p DEF Uses
<1>5. JobUses' = JobUses
  BY <1>4, SameJobs
<1> QED
  BY <1>f, <1>2, <1>3, <1>5, Sum

\* A thread ends its use.
LEMMA ThreadLess ==
  ASSUME ListInv, UseInv, UNCHANGED <<state, count>>, NEW s \in Sleepers, busy' = busy - 1,
         pc[s] \notin {"idle", "done"}, pc' = [pc EXCEPT ![s] = "done"]
  PROVE  UseInv'
<1>0. /\ pc \in [Procs \cup Waiters -> PcOf] /\ s \in Procs /\ s \notin Others
      /\ Sleepers \subseteq Procs /\ "isr" \in Procs /\ Others \subseteq Waiters /\ s # "isr"
  BY Kinds DEF ListInv, Shape
<1>f. /\ IsFiniteSet(ThreadUses) /\ IsFiniteSet(JobUses)
      /\ Cardinality(ThreadUses) \in Nat /\ Cardinality(WaiterUses) \in Nat
      /\ Cardinality(JobUses) \in Nat /\ IsrUse \in {0, 1}
      /\ busy = Cardinality(ThreadUses) + IsrUse + Cardinality(WaiterUses)
                  + Cardinality(JobUses)
  BY FiniteSome, FS_CardinalityType, Kinds DEF ThreadUses, WaiterUses, UseInv, IsrUse
<1>p. \A x \in Procs \cup Waiters : pc'[x] = IF x = s THEN "done" ELSE pc[x]
  BY <1>0
<1>1. ThreadUses' = ThreadUses \ {s} /\ s \in ThreadUses
  BY <1>0, <1>p DEF ThreadUses
<1>2. Cardinality(ThreadUses') = Cardinality(ThreadUses) - 1
  BY <1>f, <1>1, TakeOne
<1>3. IsrUse' = IsrUse /\ WaiterUses' = WaiterUses
  BY <1>0, <1>p DEF IsrUse, WaiterUses
<1>4. \A w \in Others : Uses(w)' = Uses(w)
  BY <1>0, <1>p DEF Uses
<1>5. JobUses' = JobUses
  BY <1>4, SameJobs
<1> QED
  BY <1>f, <1>2, <1>3, <1>5, Sum

\* Every step keeps the count of uses exact.
LEMMA UseStep ==
  ASSUME ListInv, UseInv, [Next]_vars
  PROVE  UseInv'
<1> DEFINE Quiet == /\ \A s \in Sleepers :
                          pc'[s] \in {"idle", "done"} <=> pc[s] \in {"idle", "done"}
                    /\ pc'["isr"] = "idle" <=> pc["isr"] = "idle"
                    /\ \A w \in Others : pc'[w] = "add" <=> pc[w] = "add"
<1>0. /\ pc \in [Procs \cup Waiters -> PcOf] /\ state \in [Waiters -> States]
      /\ count \in [Waiters -> Nat]
      /\ Waiters = Sleepers \cup Others /\ Sleepers \cap Others = {}
      /\ Procs = Sleepers \cup {"isr", "work"} /\ "isr" \notin Waiters /\ "work" \notin Waiters
      /\ Jobs \subseteq Others /\ Fast \cup Slow \subseteq Others
  BY Kinds DEF ListInv, Shape
<1>r. Roles
  BY DEF ListInv
<1>f. /\ IsFiniteSet(ThreadUses) /\ IsFiniteSet(WaiterUses) /\ IsFiniteSet(JobUses)
      /\ Cardinality(ThreadUses) \in Nat /\ Cardinality(WaiterUses) \in Nat
      /\ Cardinality(JobUses) \in Nat /\ IsrUse \in {0, 1}
      /\ busy = Cardinality(ThreadUses) + IsrUse + Cardinality(WaiterUses)
                  + Cardinality(JobUses)
  BY FiniteSome, FS_CardinalityType, Kinds DEF ThreadUses, WaiterUses, UseInv, IsrUse
<1> USE <1>0, <1>r DEF Roles
<1>1. ASSUME NEW s \in Sleepers, WaitBegin(s) PROVE UseInv'
  <2>1. UNCHANGED <<state, count>> /\ pc[s] = "idle"
    BY <1>1 DEF WaitBegin
  <2>2. CASE pc' = [pc EXCEPT ![s] = "done"] /\ busy' = busy
    BY <2>1, <2>2, UseQuiet
  <2>3. CASE pc' = [pc EXCEPT ![s] = "check"] /\ busy' = busy + 1
    <3>1. ThreadUses' = ThreadUses \cup {s} /\ s \notin ThreadUses
      BY <2>1, <2>3 DEF ThreadUses
    <3> QED
      BY <2>1, <2>3, <3>1, ThreadMore
  <2> QED
    BY <1>1, <2>2, <2>3 DEF WaitBegin, Goto
<1>2. ASSUME NEW s \in Sleepers, NoTimeout(s) PROVE UseInv'
  <2>1. /\ UNCHANGED <<state, count>> /\ pc[s] = "add" /\ busy' = busy - 1
        /\ pc' = [pc EXCEPT ![s] = "done"]
    BY <1>2 DEF NoTimeout, Goto, waiter
  <2> QED
    BY <2>1, ThreadLess
<1>3. ASSUME NEW s \in Sleepers, CheckPeriod(s) PROVE UseInv'
  <2>1. UNCHANGED <<state, count, busy>> /\ Quiet
    BY <1>3 DEF CheckPeriod, Goto, local, waiter, lists, CmpXchg
  <2> QED
    BY <2>1, UseQuiet
<1>4. ASSUME NEW s \in Sleepers, GiveUp(s) PROVE UseInv'
  <2>1. UNCHANGED <<state, count, busy>> /\ Quiet
    BY <1>4 DEF GiveUp, Goto, local, waiter, lists, CmpXchg
  <2> QED
    BY <2>1, UseQuiet
<1>5. ASSUME NEW s \in Sleepers, Check(s) PROVE UseInv'
  <2>1. UNCHANGED <<state, count>> /\ pc[s] = "check_cas"
    BY <1>5 DEF Check, waiter
  <2>2. CASE pc' = [pc EXCEPT ![s] = "done"] /\ busy' = busy - 1
    BY <2>1, <2>2, ThreadLess
  <2>3. CASE /\ busy' = busy
             /\ \E l \in {"cancel", "sleep", "add"} : pc' = [pc EXCEPT ![s] = l]
    <3>1. Quiet
      BY <2>1, <2>3
    <3> QED
      BY <2>1, <2>3, <3>1, UseQuiet
  <2> QED
    BY <1>5, <2>2, <2>3 DEF Check, Goto
<1>6. ASSUME NEW s \in Sleepers, Woken(s) PROVE UseInv'
  <2>1. UNCHANGED <<state, count, busy>> /\ Quiet
    BY <1>6 DEF Woken, Goto, local, waiter, lists, CmpXchg
  <2> QED
    BY <2>1, UseQuiet
<1>7. ASSUME NEW s \in Sleepers, PutRef(s) PROVE UseInv'
  <2>1. /\ UNCHANGED <<count, busy>>
        /\ \A w \in Waiters : w # s => state'[w] = state[w]
        /\ state'[s] = IF state[s] = "pending" THEN "cancelled" ELSE state[s]
    BY <1>7 DEF PutRef
  <2>2. Quiet
    BY <1>7 DEF PutRef, Goto
  <2>3. JobUses' = JobUses
    <3>1. \A w \in Others : Uses(w)' = Uses(w)
      BY <2>1, <2>2 DEF Uses
    <3> QED
      BY <3>1, SameJobs
  <2>4. WaiterUses' = WaiterUses
    <3>1. \A w \in Waiters : state'[w] \in {"none", "freed"} <=> state[w] \in {"none", "freed"}
      BY <2>1
    <3> QED
      BY <3>1, SameWaiters
  <2> QED
    BY <2>1, <2>2, <2>3, <2>4, UseSame
<1>8. ASSUME NEW s \in Sleepers, WaitEnd(s) PROVE UseInv'
  <2>1. /\ \A w \in Waiters : w # s => state'[w] = state[w] /\ count'[w] = count[w]
        /\ state'[s] = IF refcount[s] = 1 THEN "freed" ELSE state[s]
        /\ busy' = busy - (IF refcount[s] = 1 THEN 1 ELSE 0) - 1
        /\ pc[s] = "kref" /\ pc' = [pc EXCEPT ![s] = "done"]
    BY <1>8 DEF WaitEnd, Goto, KrefPut, Released
  <2>2. \A w \in Others : Uses(w)' = Uses(w)
    BY <2>1 DEF Uses
  <2>3. JobUses' = JobUses
    BY <2>2, SameJobs
  <2>4. state[s] # "none" /\ state[s] # "freed"
    <3>1. state[s] # "none"
      BY <2>1 DEF ListInv, Born
    <3>2. refcount[s] # 0
      BY <2>1, <3>1 DEF ListInv, RefInv, ThreadRef
    <3> QED
      BY <3>2 DEF ListInv, RefInv
  <2>5. ThreadUses' = ThreadUses \ {s} /\ s \in ThreadUses
    BY <2>1 DEF ThreadUses
  <2>6. Cardinality(ThreadUses') = Cardinality(ThreadUses) - 1
    BY <2>5, TakeOne, <1>f
  <2>7. IsrUse' = IsrUse
    BY <2>1 DEF IsrUse
  <2>8. CASE refcount[s] = 1
    <3>1. WaiterUses' = WaiterUses \ {s} /\ s \in WaiterUses
      BY <2>1, <2>4, <2>8 DEF WaiterUses
    <3>2. Cardinality(WaiterUses') = Cardinality(WaiterUses) - 1
      BY <3>1, TakeOne, <1>f
    <3> QED
      BY <1>f, <2>1, <2>3, <2>6, <2>7, <2>8, <3>2, Sum, SMTT(30)
  <2>9. CASE refcount[s] # 1
    <3>1. WaiterUses' = WaiterUses
      BY <2>1, <2>9 DEF WaiterUses
    <3> QED
      BY <1>f, <2>1, <2>3, <2>6, <2>7, <2>9, <3>1, Sum
  <2> QED
    BY <2>8, <2>9
<1>9. ASSUME NEW j \in Jobs, Submit(j) PROVE UseInv'
  <2>1. /\ UNCHANGED <<state, count>> /\ busy' = busy + 1 /\ pc[j] = "idle" /\ j \in Others
        /\ pc' = [pc EXCEPT ![j] = "add"]
    BY <1>9 DEF Submit, Goto
  <2>2. state[j] = "none"
    BY <2>1 DEF ListInv, Born
  <2>3. /\ Uses(j) = 0 /\ Uses(j)' = 0 + 1
        /\ \A w \in Others : w # j => Uses(w)' = Uses(w)
    BY <2>1, <2>2 DEF Uses
  <2>4. IsFiniteSet(JobUses') /\ Cardinality(JobUses') = Cardinality(JobUses) + 1
    BY <1>f, <2>1, <2>3, JobMore
  <2>5. ThreadUses' = ThreadUses /\ WaiterUses' = WaiterUses /\ IsrUse' = IsrUse
    BY <2>1 DEF ThreadUses, WaiterUses, IsrUse
  <2> QED
    BY <1>f, <2>1, <2>4, <2>5, Sum
<1>10. ASSUME NEW n \in Fast \cup Slow, RegisterNotifier(n) PROVE UseInv'
  <2>1. /\ UNCHANGED <<state, count>> /\ busy' = busy + 1 /\ pc[n] = "idle" /\ n \in Others
        /\ pc' = [pc EXCEPT ![n] = "add"]
    BY <1>10 DEF RegisterNotifier, Goto
  <2>2. state[n] = "none"
    BY <2>1 DEF ListInv, Born
  <2>3. /\ Uses(n) = 0 /\ Uses(n)' = 0 + 1
        /\ \A w \in Others : w # n => Uses(w)' = Uses(w)
    BY <2>1, <2>2 DEF Uses
  <2>4. IsFiniteSet(JobUses') /\ Cardinality(JobUses') = Cardinality(JobUses) + 1
    BY <1>f, <2>1, <2>3, JobMore
  <2>5. ThreadUses' = ThreadUses /\ WaiterUses' = WaiterUses /\ IsrUse' = IsrUse
    BY <2>1 DEF ThreadUses, WaiterUses, IsrUse
  <2> QED
    BY <1>f, <2>1, <2>4, <2>5, Sum
<1>11. ASSUME NEW w \in Waiters, AddAction(w) PROVE UseInv'
  <2>1. /\ \A v \in Waiters : v # w => state'[v] = state[v] /\ count'[v] = count[v]
        /\ state'[w] = "pending" /\ busy' = busy + 1 /\ pc[w] = "add"
        /\ pc' = [pc EXCEPT ![w] = IF w \in Sleepers THEN "check" ELSE "added"]
    BY <1>11 DEF AddAction, Goto
  <2>2. state[w] = "none"
    BY <2>1 DEF ListInv, Born
  <2>3. \A v \in Others : Uses(v)' = Uses(v)
    BY <2>1 DEF Uses
  <2>4. JobUses' = JobUses
    BY <2>3, SameJobs
  <2>5. ThreadUses' = ThreadUses /\ IsrUse' = IsrUse
    <3>1. \A s \in Sleepers : pc'[s] \in {"idle", "done"} <=> pc[s] \in {"idle", "done"}
      BY <2>1
    <3> QED
      BY <2>1, <3>1, SameThreads DEF IsrUse
  <2>6. WaiterUses' = WaiterUses \cup {w} /\ w \notin WaiterUses
    BY <2>1, <2>2 DEF WaiterUses
  <2>7. Cardinality(WaiterUses') = Cardinality(WaiterUses) + 1
    BY <1>f, <2>6, AddOne
  <2> QED
    BY <1>f, <2>1, <2>4, <2>5, <2>7, Sum
<1>12. ASSUME NEW p \in Procs, UpdateRead(p) PROVE UseInv'
  <2>1. UNCHANGED <<state, count, busy>> /\ Quiet
    BY <1>12 DEF UpdateRead, Goto, local, waiter, lists, CmpXchg
  <2> QED
    BY <2>1, UseQuiet
<1>13. ASSUME NEW p \in Procs, UpdateAgain(p) PROVE UseInv'
  <2>1. UNCHANGED <<state, count, busy>> /\ Quiet
    BY <1>13 DEF UpdateAgain, Goto, local, waiter, lists, CmpXchg
  <2> QED
    BY <2>1, UseQuiet
<1>14. ASSUME NEW p \in Procs, ProcessRead(p) PROVE UseInv'
  <2>1. UNCHANGED <<state, count, busy>> /\ Quiet
    BY <1>14 DEF ProcessRead, Goto, local, waiter, lists, CmpXchg
  <2> QED
    BY <2>1, UseQuiet
<1>15. ASSUME NEW p \in Procs, RemoveCompleted(p) PROVE UseInv'
  <2>0. PICK w : w = Head(wait_head)
    OBVIOUS
  <2> DEFINE prev == low_prio.submit[Len(low_prio.submit)]
             cleanup == state[w] = "cancelled" \/ Merged(p, w)
  <2>1. w \in Waiters /\ state[w] \in {"pending", "cancelled"}
    BY <1>15, <2>0, LeaveEffect, Zenon
  <2>2. /\ \A v \in Waiters : v # w => state'[v] = state[v]
        /\ state'[w] = IF cleanup THEN "cleanup" ELSE "removed"
        /\ pc' = pc /\ busy' = busy
        /\ count' = IF Merged(p, w) THEN [count EXCEPT ![prev] = @ + 1] ELSE count
    BY <1>15, <2>0, <2>1 DEF RemoveCompleted
  <2>3. ThreadUses' = ThreadUses /\ IsrUse' = IsrUse
    BY <2>2 DEF ThreadUses, IsrUse
  <2>4. WaiterUses' = WaiterUses
    <3>1. \A v \in Waiters : state'[v] \in {"none", "freed"} <=> state[v] \in {"none", "freed"}
      BY <2>1, <2>2
    <3> QED
      BY <3>1, SameWaiters
  <2>5. /\ state[w] = "pending" => count[w] = 1
        /\ state[w] = "cancelled" => w \in Sleepers
    BY <2>1 DEF ListInv, Merging
  <2>6. pc[w] # "add"
    BY <2>1 DEF ListInv, Born
  <2>7. CASE Merged(p, w)
    <3>1. w \in Jobs /\ low_prio.submit # <<>>
      BY <2>7 DEF Merged
    <3>2. prev \in Range(low_prio.submit) /\ prev \in Jobs /\ state[prev] = "removed"
      BY <3>1, Elements, LastIn DEF ListInv, Merging
    <3>3. PICK y \in Others : y = prev /\ y \in Waiters /\ w \in Others /\ y # w /\ pc[y] # "add"
      BY <2>1, <3>1, <3>2 DEF ListInv, Born
    <3> HIDE DEF prev
    <3>4. PICK m \in Nat : m = count[y]
      BY <3>3
    <3>5. /\ Uses(w) = 1 /\ Uses(w)' = 0 /\ Uses(y) = m /\ Uses(y)' = m + 1
      <4>1. Uses(w) = 1 /\ Uses(w)' = 0
        BY <2>1, <2>2, <2>5, <2>6, <2>7, <3>3, Kinds DEF Uses
      <4>2. state[y] = "removed" /\ state'[y] = "removed" /\ count'[y] = m + 1 /\ pc' = pc
        BY <2>2, <2>7, <3>2, <3>3, <3>4
      <4> QED
        BY <3>3, <3>4, <4>1, <4>2 DEF Uses
    <3>6. \A v \in Others : v # w /\ v # y => Uses(v)' = Uses(v)
      BY <2>2, <2>7, <3>3 DEF Uses
    <3>7. IsFiniteSet(JobUses') /\ Cardinality(JobUses') = Cardinality(JobUses)
      BY <1>f, <3>3, <3>4, <3>5, <3>6, JobMerge
    <3> QED
      BY <1>f, <2>2, <2>3, <2>4, <3>7, Sum
  <2>8. CASE ~Merged(p, w)
    <3>1. \A v \in Others : Uses(v)' = Uses(v)
      <4>1. \A v \in Others : v # w => Uses(v)' = Uses(v)
        BY <2>2, <2>8 DEF Uses
      <4>2. w \in Others => Uses(w)' = Uses(w)
        BY <2>1, <2>2, <2>5, <2>6, <2>8 DEF Uses
      <4> QED
        BY <4>1, <4>2
    <3>2. JobUses' = JobUses
      BY <3>1, SameJobs
    <3> QED
      BY <1>f, <2>2, <2>3, <2>4, <3>2, Sum
  <2> QED
    BY <2>7, <2>8
<1>16. ASSUME NEW p \in Procs, Rearm(p) PROVE UseInv'
  <2>1. UNCHANGED <<state, count, busy>> /\ Quiet
    BY <1>16 DEF Rearm, Goto, local, waiter, lists, CmpXchg
  <2> QED
    BY <2>1, UseQuiet
<1>17. ASSUME NEW p \in Procs, RunHandler(p) PROVE UseInv'
  <2>1. PICK w \in Waiters : w = Head(todo[p]) /\ w \in Range(todo[p])
    BY <1>17, AtHead DEF RunHandler
  <2>2. state[w] \in {"removed", "cleanup"}
    BY <1>17, <2>1 DEF ListInv, StateIn, RunHandler
  <2>3. /\ \A v \in Waiters : v # w => state'[v] = state[v]
        /\ state'[w] = IF state[w] = "cleanup" THEN "cleanup" ELSE "handled"
        /\ pc[p] = "run" /\ pc' = [pc EXCEPT ![p] = "put"] /\ count' = count
        /\ busy' = IF state[w] = "cleanup" THEN busy ELSE busy - EndedUses(w)
    BY <1>17, <2>1 DEF RunHandler, Goto
  <2>4. /\ ThreadUses' = ThreadUses /\ IsrUse' = IsrUse
        /\ \A v \in Others : pc'[v] = pc[v]
    <3>1. \A s \in Sleepers : pc'[s] \in {"idle", "done"} <=> pc[s] \in {"idle", "done"}
      BY <2>3
    <3> QED
      BY <2>3, <3>1, SameThreads DEF IsrUse
  <2>5. WaiterUses' = WaiterUses
    <3>1. \A v \in Waiters : state'[v] \in {"none", "freed"} <=> state[v] \in {"none", "freed"}
      BY <2>2, <2>3
    <3> QED
      BY <3>1, SameWaiters
  <2>6. \A v \in Others : v # w => Uses(v)' = Uses(v)
    BY <2>3, <2>4 DEF Uses
  <2>7. CASE w \in Others /\ state[w] = "removed"
    <3>1. pc[w] # "add"
      BY <2>7 DEF ListInv, Born
    <3>2. Uses(w) = count[w] /\ Uses(w)' = 0
      BY <2>3, <2>4, <2>7, <3>1 DEF Uses
    <3>3. EndedUses(w) = count[w] /\ count[w] \in Nat
      BY <2>7 DEF EndedUses
    <3>4. IsFiniteSet(JobUses') /\ Cardinality(JobUses') = Cardinality(JobUses) - count[w]
      BY <1>f, <2>6, <2>7, <3>2, <3>3, JobLess
    <3> QED
      BY <1>f, <2>3, <2>4, <2>5, <2>7, <3>3, <3>4, Sum
  <2>8. CASE w \in Sleepers \/ state[w] = "cleanup"
    <3>1. w \in Others => Uses(w)' = Uses(w)
      BY <2>3, <2>4, <2>8 DEF Uses
    <3>2. JobUses' = JobUses
      BY <2>6, <3>1, SameJobs
    <3>3. busy' = busy
      BY <1>f, <2>3, <2>8 DEF EndedUses
    <3> QED
      BY <1>f, <2>4, <2>5, <3>2, <3>3, Sum
  <2> QED
    BY <2>2, <2>7, <2>8
<1>18. ASSUME NEW p \in Procs, PutHandled(p) PROVE UseInv'
  <2>0. todo[p] # <<>> /\ pc[p] = "put"
    BY <1>18 DEF PutHandled, ListInv, Roles
  <2>1. PICK w \in Waiters : w = Head(todo[p]) /\ w \in Range(todo[p])
    BY <2>0, AtHead
  <2>2. state[w] \in {"handled", "cleanup"}
    BY <2>0, <2>1 DEF ListInv, StateIn
  <2>3. /\ \A v \in Waiters : v # w => state'[v] = state[v] /\ count'[v] = count[v]
        /\ state'[w] = IF refcount[w] = 1 THEN "freed" ELSE state[w]
        /\ pc' = [pc EXCEPT ![p] = "run"]
        /\ busy' = busy - (IF refcount[w] = 1 THEN 1 ELSE 0)
    BY <1>18, <2>1 DEF PutHandled, Goto, KrefPut, Released
  <2>4. /\ ThreadUses' = ThreadUses /\ IsrUse' = IsrUse
        /\ \A v \in Others : pc'[v] = pc[v]
    <3>1. \A s \in Sleepers : pc'[s] \in {"idle", "done"} <=> pc[s] \in {"idle", "done"}
      BY <2>0, <2>3
    <3> QED
      BY <2>0, <2>3, <3>1, SameThreads DEF IsrUse
  <2>5. \A v \in Others : Uses(v)' = Uses(v)
    BY <2>2, <2>3, <2>4 DEF Uses
  <2>6. JobUses' = JobUses
    BY <2>5, SameJobs
  <2>7. CASE refcount[w] = 1
    <3>1. WaiterUses' = WaiterUses \ {w} /\ w \in WaiterUses
      BY <2>2, <2>3, <2>7 DEF WaiterUses
    <3>2. Cardinality(WaiterUses') = Cardinality(WaiterUses) - 1
      BY <1>f, <3>1, TakeOne
    <3> QED
      BY <1>f, <2>3, <2>4, <2>6, <2>7, <3>2, Sum
  <2>8. CASE refcount[w] # 1
    <3>1. WaiterUses' = WaiterUses
      BY <2>3, <2>8 DEF WaiterUses
    <3> QED
      BY <1>f, <2>3, <2>4, <2>6, <2>8, <3>1, Sum
  <2> QED
    BY <2>7, <2>8
<1>19. ASSUME NEW p \in Procs, RunDone(p) PROVE UseInv'
  <2>1. UNCHANGED <<state, count>> /\ pc[p] = "run"
    BY <1>19 DEF RunDone, waiter
  <2>2. CASE p # "isr"
    <3>1. busy' = busy /\ Quiet
      BY <1>19, <2>2 DEF RunDone, Goto
    <3> QED
      BY <2>1, <3>1, UseQuiet
  <2>3. CASE p = "isr"
    <3>1. busy' = busy - 1 /\ pc' = [pc EXCEPT !["isr"] = "idle"]
      BY <1>19, <2>3 DEF RunDone, Goto
    <3>2. IsrUse = 1 /\ IsrUse' = 0 /\ ThreadUses' = ThreadUses /\ WaiterUses' = WaiterUses
      BY <2>1, <2>3, <3>1 DEF IsrUse, ThreadUses, WaiterUses
    <3>3. \A v \in Others : Uses(v)' = Uses(v)
      BY <2>1, <3>1 DEF Uses
    <3>4. JobUses' = JobUses
      BY <3>3, SameJobs
    <3> QED
      BY <1>f, <3>1, <3>2, <3>4, Sum
  <2> QED
    BY <2>2, <2>3
<1>20. ASSUME NEW p \in Procs, Lock(p) PROVE UseInv'
  <2>1. UNCHANGED <<state, count, busy>> /\ Quiet
    BY <1>20 DEF Lock, Goto, local, waiter, lists, CmpXchg
  <2> QED
    BY <2>1, UseQuiet
<1>21. CASE LowPrioWork
  <2>1. UNCHANGED <<state, count, busy>> /\ Quiet
    BY <1>21 DEF LowPrioWork, Goto, local, waiter, lists, CmpXchg
  <2> QED
    BY <2>1, UseQuiet
<1>22. CASE ThreshIsr
  <2>1. /\ UNCHANGED <<state, count>> /\ pc["isr"] = "idle" /\ busy' = busy + 1
        /\ pc' = [pc EXCEPT !["isr"] = "process"]
    BY <1>22 DEF ThreshIsr, Goto, waiter
  <2>2. IsrUse = 0 /\ IsrUse' = 1 /\ ThreadUses' = ThreadUses /\ WaiterUses' = WaiterUses
    BY <2>1 DEF IsrUse, ThreadUses, WaiterUses
  <2>3. \A v \in Others : Uses(v)' = Uses(v)
    BY <2>1 DEF Uses
  <2>4. JobUses' = JobUses
    BY <2>3, SameJobs
  <2> QED
    BY <1>f, <2>1, <2>2, <2>4, Sum
<1>23. CASE HwIncr
  <2>1. UNCHANGED <<state, count, busy>> /\ Quiet
    BY <1>23 DEF HwIncr, Goto, local, waiter, lists, CmpXchg
  <2> QED
    BY <2>1, UseQuiet
<1>24. CASE PowerCycle
  <2>1. UNCHANGED <<state, count, busy>> /\ Quiet
    BY <1>24 DEF PowerCycle, Goto, local, waiter, lists, CmpXchg
  <2> QED
    BY <2>1, UseQuiet
<1>25. CASE UNCHANGED vars
  BY <1>25, UseQuiet DEF vars
<1> QED
  BY <1>1, <1>2, <1>3, <1>4, <1>5, <1>6, <1>7, <1>8, <1>9, <1>10, <1>11, <1>12,
     <1>13, <1>14, <1>15, <1>16, <1>17, <1>18, <1>19, <1>20, <1>21, <1>22,
     <1>23, <1>24, <1>25
     DEF Next, Process, Wait

\* Nothing uses the host at the start.
LEMMA UseInit ==
  ASSUME Init
  PROVE  UseInv
<1>1. /\ \A s \in Sleepers : pc[s] = "idle"
      /\ \A w \in Waiters : state[w] = "none" /\ pc[w] = "idle"
      /\ pc["isr"] = "idle" /\ busy = 0
  BY Kinds DEF Init
<1>2. ThreadUses = {} /\ WaiterUses = {} /\ IsrUse = 0
  BY <1>1 DEF ThreadUses, WaiterUses, IsrUse
<1>3. JobUses = {}
  <2>1. \A w \in Others : Uses(w) = 0
    BY <1>1, Kinds DEF Uses
  <2> QED
    BY <2>1, UsePair
<1> QED
  BY <1>1, <1>2, <1>3, FS_EmptySet DEF UseInv

\* The usage count is always exact.
LEMMA UseInvariance == Spec => [](ListInv /\ UseInv)
<1>1. Init => ListInv /\ UseInv
  BY ListInit, UseInit
<1>2. ListInv /\ UseInv /\ [Next]_vars => (ListInv /\ UseInv)'
  BY ListStep, UseStep
<1> QED
  BY <1>1, <1>2, PTL DEF Spec

\* The host is unused exactly when everything is at rest.
LEMMA RestIffUnused ==
  ASSUME ListInv, UseInv
  PROVE  busy \in Nat /\ (busy = 0 <=> AtRest)
<1>1. /\ IsFiniteSet(ThreadUses) /\ IsFiniteSet(WaiterUses) /\ IsFiniteSet(JobUses)
      /\ Cardinality(ThreadUses) \in Nat /\ Cardinality(WaiterUses) \in Nat
      /\ Cardinality(JobUses) \in Nat /\ IsrUse \in {0, 1}
  BY FiniteSome, FS_CardinalityType, Kinds DEF ThreadUses, WaiterUses, UseInv, IsrUse
<1>2. busy \in Nat /\ (busy = 0 <=> /\ Cardinality(ThreadUses) = 0 /\ IsrUse = 0
                                     /\ Cardinality(WaiterUses) = 0 /\ Cardinality(JobUses) = 0)
  BY <1>1 DEF UseInv
<1>3. busy = 0 <=> ThreadUses = {} /\ IsrUse = 0 /\ WaiterUses = {} /\ JobUses = {}
  BY <1>1, <1>2, FS_EmptySet
<1>4. ASSUME AtRest PROVE busy = 0
  <2>1. ThreadUses = {} /\ WaiterUses = {} /\ IsrUse = 0
    BY <1>4, Kinds DEF AtRest, ThreadUses, WaiterUses, IsrUse, ListInv, Roles
  <2>2. \A w \in Others : Uses(w) = 0
    BY <1>4, Kinds DEF AtRest, Uses
  <2>3. JobUses = {}
    BY <2>2, UsePair
  <2> QED
    BY <1>3, <2>1, <2>3
<1>5. ASSUME busy = 0 PROVE AtRest
  <2>1. ASSUME NEW w \in Waiters PROVE state[w] \in {"none", "freed"}
    BY <1>3, <1>5 DEF WaiterUses
  <2>2. ASSUME NEW s \in Sleepers PROVE pc[s] \in {"idle", "done"}
    BY <1>3, <1>5 DEF ThreadUses
  <2>3. ASSUME NEW w \in Others PROVE pc[w] \in {"idle", "added"}
    <3>1. <<w, 1>> \notin JobUses
      BY <1>3, <1>5
    <3>2. pc[w] # "add"
      BY <3>1, UsePair DEF Uses
    <3> QED
      BY <3>2 DEF ListInv, Roles
  <2>4. pc["isr"] = "idle"
    BY <1>3, <1>5 DEF IsrUse
  <2> QED
    BY <2>1, <2>2, <2>3, <2>4, Kinds DEF AtRest
<1> QED
  BY <1>2, <1>4, <1>5

\* Every use of the host is ended, also those of jobs that were merged: when all
\* is at rest the usage count of nvhost_module_busy() is back at zero.
THEOREM HostIsReleased == Spec => []UsesEnded
<1>1. ListInv /\ UseInv => UsesEnded
  BY RestIffUnused DEF UsesEnded
<1> QED
  BY <1>1, UseInvariance, PTL

\* The types, with counts of references and uses that never go below zero.
THEOREM IntrTypeCorrect == Spec => []TypeOK
<1>1. ASSUME ListInv, UseInv PROVE TypeOK
  <2>1. busy \in Nat
    BY <1>1, RestIffUnused
  <2>2. refcount \in [Waiters -> Nat]
    <3>1. \A w \in Waiters : refcount[w] \in Nat
      BY <1>1 DEF ListInv, RefInv, ThreadRef
    <3> QED
      BY <1>1, <3>1 DEF ListInv, Shape
  <2> QED
    BY <1>1, <2>1, <2>2 DEF ListInv, Shape, TypeOK, PcOf
<1>2. ListInv /\ UseInv => TypeOK
  BY <1>1
<1> QED
  BY <1>2, UseInvariance, PTL

-----------------------------------------------------------------------------
(***************************************************************************)
(* The values of the syncpoint and of the thresholds.                      *)
(***************************************************************************)
Submitted == {j \in Jobs : pc[j] # "idle"}

\* The shadow is behind the register, the register behind the submitted jobs, and
\* the thresholds are less than half a wrap apart.
Value ==
  /\ Start <= min_val /\ min_val <= hw /\ hw <= max_val
  /\ max_val = Start + Cardinality(Submitted)
  /\ max_val = Start \/ \E j \in Jobs : pc[j] # "idle" /\ target[j] = max_val
  /\ \A w \in Waiters : Start - 1 <= target[w] /\ target[w] <= max_val

\* What a process has read of the syncpoint.
Reading ==
  \A p \in Procs :
    /\ pc[p] \in {"check_cas", "process_cas"} => old[p] <= live[p] /\ live[p] <= hw
    /\ pc[p] \in {"lock", "scan"} => Start <= live[p] /\ live[p] <= min_val

\* What is over has passed, also in the shadow.
Over == {"removed", "cleanup", "handled", "freed"}
Passed ==
  /\ \A w \in Waiters : state[w] \in Over => target[w] <= min_val
  /\ \A s \in Sleepers : /\ ret[s] = "ok" => target[s] <= min_val
                         /\ pc[s] = "idle" => ret[s] = None

\* wait_head is sorted by the true thresholds.
Sorted == \A i, j \in 1 .. Len(wait_head) :
             i <= j => target[wait_head[i]] <= target[wait_head[j]]

\* The interrupt is set up for the first waiter.
Armed == (/\ wait_head # <<>> /\ lock = None
          /\ pc["isr"] \notin {"process", "process_cas", "lock"}) =>
            enabled /\ thresh = Word(target[Head(wait_head)])

TimeInv == ListInv /\ UseInv /\ Value /\ Reading /\ Passed /\ Sorted /\ Armed

\* Within the window the wrapped comparisons are those of the true values.
LEMMA InWindow ==
  ASSUME TimeInv, NEW a \in Start - 1 .. max_val
  PROVE  /\ \A b \in Start - 1 .. max_val : After(Word(a), Word(b)) <=> a > b
         /\ \A m \in Start .. max_val :
               IsExpired(Word(m), Word(max_val), TRUE, Word(a)) <=> a <= m
<1>1. /\ Start \in Nat /\ Start > 0 /\ max_val \in Nat
      /\ Cardinality(Submitted) <= Cardinality(Jobs) /\ Cardinality(Jobs) \in Nat
      /\ Cardinality(Submitted) \in Nat
  <2>1. IsFiniteSet(Jobs) /\ Cardinality(Jobs) \in Nat
    BY FiniteSome, Kinds
  <2>2. Submitted \in SUBSET Jobs
    BY DEF Submitted
  <2>3. Cardinality(Submitted) <= Cardinality(Jobs) /\ Cardinality(Submitted) \in Nat
    BY <2>1, <2>2, FS_Subset, FS_CardinalityType
  <2> QED
    BY <2>1, <2>3, StartAssumption DEF TimeInv, ListInv, Shape
<1>2. max_val - (Start - 1) < U32 \div 2 /\ max_val - (Start - 1) \in Nat
  <2>1. max_val = Start + Cardinality(Submitted)
    BY DEF TimeInv, Value
  <2> QED
    BY <1>1, <2>1, Half, WindowAssumption
<1>3. ASSUME NEW b \in Start - 1 .. max_val PROVE After(Word(a), Word(b)) <=> a > b
  <2>1. a \in Int /\ b \in Int /\ a - b \in 1 - U32 \div 2 .. U32 \div 2 - 1
    BY <1>1, <1>2, Half
  <2> QED
    BY <2>1, SignedOrder
<1>4. ASSUME NEW m \in Start .. max_val
      PROVE  IsExpired(Word(m), Word(max_val), TRUE, Word(a)) <=> a <= m
  <2>1. /\ m \in Int /\ max_val \in Int /\ max_val - m \in 0 .. U32 - 1
        /\ a \in max_val - U32 + 1 .. max_val
    BY <1>1, <1>2, Half
  <2> QED
    BY <2>1, ExpiredInWindow
<1> QED
  BY <1>3, <1>4

\* A compare and exchange that succeeds moves the shadow forward.
LEMMA Exchanged ==
  ASSUME TimeInv, NEW p \in Procs, pc[p] \in {"check_cas", "process_cas"}, CmpXchg(p)
  PROVE  min_val' = live[p] /\ min_val <= live[p] /\ live[p] <= hw /\ live[p] \in Nat
  BY DEF TimeInv, Reading, CmpXchg, ListInv, Shape

\* The shadow only moves forward, and not past the register.
LEMMA MinStep ==
  ASSUME TimeInv, [Next]_vars
  PROVE  min_val <= min_val' /\ min_val' <= hw /\ min_val' \in Nat
<1>0. min_val \in Nat /\ hw \in Nat /\ min_val <= hw
  BY DEF TimeInv, Value, ListInv, Shape
<1>1. ASSUME NEW s \in Sleepers, Check(s) PROVE min_val <= min_val' /\ min_val' <= hw /\ min_val' \in Nat
  BY <1>1, Exchanged, Kinds DEF Check
<1>2. ASSUME NEW p \in Procs, ProcessRead(p)
      PROVE  min_val <= min_val' /\ min_val' <= hw /\ min_val' \in Nat
  BY <1>2, Exchanged DEF ProcessRead
<1>3. CASE ThreshIsr
  BY <1>0, <1>3 DEF ThreshIsr
<1>4. ASSUME min_val' = min_val PROVE min_val <= min_val' /\ min_val' <= hw /\ min_val' \in Nat
  BY <1>0, <1>4
<1>5. ASSUME NEW s \in Sleepers
      PROVE  WaitBegin(s) \/ NoTimeout(s) \/ CheckPeriod(s) \/ GiveUp(s) \/ Woken(s)
               \/ PutRef(s) \/ WaitEnd(s) => min_val' = min_val
  BY DEF WaitBegin, NoTimeout, CheckPeriod, GiveUp, Woken, PutRef, WaitEnd, sync
<1>6. ASSUME NEW w \in Waiters
      PROVE  Submit(w) \/ RegisterNotifier(w) \/ AddAction(w) => min_val' = min_val
  BY DEF Submit, RegisterNotifier, AddAction, sync
<1>7. ASSUME NEW p \in Procs
      PROVE  UpdateRead(p) \/ UpdateAgain(p) \/ RemoveCompleted(p) \/ Rearm(p) \/ RunHandler(p)
               \/ PutHandled(p) \/ RunDone(p) \/ Lock(p) => min_val' = min_val
  BY DEF UpdateRead, UpdateAgain, RemoveCompleted, Rearm, RunHandler, PutHandled, RunDone,
         Lock, sync
<1>8. LowPrioWork \/ HwIncr \/ PowerCycle \/ UNCHANGED vars => min_val' = min_val
  BY DEF LowPrioWork, HwIncr, PowerCycle, sync, vars
<1> QED
  BY <1>1, <1>2, <1>3, <1>4, <1>5, <1>6, <1>7, <1>8 DEF Next, Process, Wait, Waiters

\* A step that leaves the syncpoint and the thresholds alone.
LEMMA ValueQuiet ==
  ASSUME TimeInv, UNCHANGED <<hw, max_val, target>>, Start <= min_val', min_val' <= hw,
         \A j \in Jobs : pc'[j] = "idle" <=> pc[j] = "idle"
  PROVE  Value'
<1>1. Submitted' = Submitted
  BY DEF Submitted
<1> QED
  BY <1>1 DEF TimeInv, Value

\* Every step keeps the values in order.
LEMMA ValueStep ==
  ASSUME TimeInv, [Next]_vars
  PROVE  Value'
<1>0. /\ pc \in [Procs \cup Waiters -> PcOf] /\ state \in [Waiters -> States]
      /\ target \in [Waiters -> Nat] /\ min_val \in Nat /\ hw \in Nat /\ max_val \in Nat
      /\ old \in [Procs -> Nat] /\ live \in [Procs -> Nat] /\ Start \in Nat /\ Start > 0
      /\ ret \in [Sleepers -> {None, "ok", "err"}]
      /\ Waiters = Sleepers \cup Others /\ Sleepers \cap Others = {}
      /\ Procs = Sleepers \cup {"isr", "work"} /\ "isr" \notin Waiters /\ "work" \notin Waiters
      /\ Jobs \subseteq Others /\ Fast \cup Slow \subseteq Others /\ Jobs \cap (Fast \cup Slow) = {}
      /\ None \notin Procs /\ None # "ok" /\ Roles /\ Born
  BY Kinds, StartAssumption, WaitersAssumption DEF TimeInv, ListInv, Shape
<1>v. Value
  BY DEF TimeInv
<1>m. min_val <= min_val' /\ min_val' <= hw /\ Start <= min_val'
  BY <1>0, <1>v, MinStep DEF Value
<1> USE <1>0, <1>m DEF Value
<1>1. ASSUME NEW s \in Sleepers, WaitBegin(s) PROVE Value'
  <2>0. PICK t \in Start - 1 .. max_val : target' = [target EXCEPT ![s] = t]
    BY <1>1 DEF WaitBegin
  <2>1. /\ t \in Nat /\ Start - 1 <= t /\ t <= max_val
        /\ target' = [target EXCEPT ![s] = t]
    BY <2>0, <1>0
  <2>2. UNCHANGED <<hw, min_val, max_val>>
    BY <1>1 DEF WaitBegin, sync
  <2>3. \A j \in Jobs : pc'[j] = "idle" <=> pc[j] = "idle"
    BY <1>1, <1>0 DEF WaitBegin, Goto
  <2>4. Submitted' = Submitted
    BY <2>3 DEF Submitted
  <2>5. \A j \in Jobs : target'[j] = target[j]
    BY <1>0, <2>1
  <2>6. \A w \in Waiters : Start - 1 <= target'[w] /\ target'[w] <= max_val
    BY <1>0, <1>v, <2>1
  <2> QED
    BY <1>v, <2>2, <2>3, <2>4, <2>5, <2>6
<1>2. ASSUME NEW s \in Sleepers, NoTimeout(s) PROVE Value'
  <2>1. /\ UNCHANGED <<hw, max_val, target>>
        /\ \A j \in Jobs : pc'[j] = "idle" <=> pc[j] = "idle"
    BY <1>2 DEF NoTimeout, Goto, sync, waiter, CmpXchg
  <2> QED
    BY <2>1, ValueQuiet
<1>3. ASSUME NEW s \in Sleepers, CheckPeriod(s) PROVE Value'
  <2>1. /\ UNCHANGED <<hw, max_val, target>>
        /\ \A j \in Jobs : pc'[j] = "idle" <=> pc[j] = "idle"
    BY <1>3 DEF CheckPeriod, Goto, sync, waiter, CmpXchg
  <2> QED
    BY <2>1, ValueQuiet
<1>4. ASSUME NEW s \in Sleepers, GiveUp(s) PROVE Value'
  <2>1. /\ UNCHANGED <<hw, max_val, target>>
        /\ \A j \in Jobs : pc'[j] = "idle" <=> pc[j] = "idle"
    BY <1>4 DEF GiveUp, Goto, sync, waiter, CmpXchg
  <2> QED
    BY <2>1, ValueQuiet
<1>5. ASSUME NEW s \in Sleepers, Check(s) PROVE Value'
  <2>1. /\ UNCHANGED <<hw, max_val, target>>
        /\ \A j \in Jobs : pc'[j] = "idle" <=> pc[j] = "idle"
    BY <1>5 DEF Check, Goto, sync, waiter, CmpXchg
  <2> QED
    BY <2>1, ValueQuiet
<1>6. ASSUME NEW s \in Sleepers, Woken(s) PROVE Value'
  <2>1. /\ UNCHANGED <<hw, max_val, target>>
        /\ \A j \in Jobs : pc'[j] = "idle" <=> pc[j] = "idle"
    BY <1>6 DEF Woken, Goto, sync, waiter, CmpXchg
  <2> QED
    BY <2>1, ValueQuiet
<1>7. ASSUME NEW s \in Sleepers, PutRef(s) PROVE Value'
  <2>1. /\ UNCHANGED <<hw, max_val, target>>
        /\ \A j \in Jobs : pc'[j] = "idle" <=> pc[j] = "idle"
    BY <1>7 DEF PutRef, Goto, sync, waiter, CmpXchg
  <2> QED
    BY <2>1, ValueQuiet
<1>8. ASSUME NEW s \in Sleepers, WaitEnd(s) PROVE Value'
  <2>1. /\ UNCHANGED <<hw, max_val, target>>
        /\ \A j \in Jobs : pc'[j] = "idle" <=> pc[j] = "idle"
    BY <1>8 DEF WaitEnd, Goto, sync, waiter, CmpXchg
  <2> QED
    BY <2>1, ValueQuiet
<1>9. ASSUME NEW j \in Jobs, Submit(j) PROVE Value'
  <2>1. /\ pc[j] = "idle" /\ pc' = [pc EXCEPT ![j] = "add"] /\ UNCHANGED <<hw, min_val>>
        /\ max_val' = max_val + 1 /\ target' = [target EXCEPT ![j] = max_val + 1]
    BY <1>9 DEF Submit, Goto, Fence
  <2>2. Submitted' = Submitted \cup {j} /\ j \notin Submitted
    BY <1>0, <2>1 DEF Submitted
  <2>3. IsFiniteSet(Submitted) /\ Cardinality(Submitted) \in Nat
    BY FiniteSome, <1>0 DEF Submitted
  <2>4. Cardinality(Submitted') = Cardinality(Submitted) + 1
    BY <2>2, <2>3, AddOne
  <2>5. pc'[j] # "idle" /\ target'[j] = max_val'
    BY <1>0, <2>1
  <2>6. \A w \in Waiters : Start - 1 <= target'[w] /\ target'[w] <= max_val'
    BY <1>0, <1>v, <2>1
  <2>7. \E k \in Jobs : pc'[k] # "idle" /\ target'[k] = max_val'
    BY <2>5
  <2>8. max_val' = Start + Cardinality(Submitted')
    BY <1>0, <1>v, <2>1, <2>3, <2>4 DEF Value
  <2>9. Start <= min_val' /\ min_val' <= hw' /\ hw' <= max_val'
    BY <1>v, <2>1
  <2> QED
    BY <2>6, <2>7, <2>8, <2>9
<1>10. ASSUME NEW n \in Fast \cup Slow, RegisterNotifier(n) PROVE Value'
  <2>0. PICK t \in Start .. max_val : target' = [target EXCEPT ![n] = t]
    BY <1>10 DEF RegisterNotifier
  <2>1. /\ t \in Nat /\ Start - 1 <= t /\ t <= max_val
        /\ target' = [target EXCEPT ![n] = t]
    BY <2>0, <1>0
  <2>2. UNCHANGED <<hw, min_val, max_val>>
    BY <1>10 DEF RegisterNotifier, sync
  <2>3. \A j \in Jobs : pc'[j] = "idle" <=> pc[j] = "idle"
    BY <1>10, <1>0 DEF RegisterNotifier, Goto
  <2>4. Submitted' = Submitted
    BY <2>3 DEF Submitted
  <2>5. \A j \in Jobs : target'[j] = target[j]
    BY <1>0, <2>1
  <2>6. \A w \in Waiters : Start - 1 <= target'[w] /\ target'[w] <= max_val
    BY <1>0, <1>v, <2>1
  <2> QED
    BY <1>v, <2>2, <2>3, <2>4, <2>5, <2>6
<1>11. ASSUME NEW w \in Waiters, AddAction(w) PROVE Value'
  <2>1. /\ UNCHANGED <<hw, max_val, target>>
        /\ \A j \in Jobs : pc'[j] = "idle" <=> pc[j] = "idle"
    BY <1>11 DEF AddAction, Goto, sync, waiter, CmpXchg
  <2> QED
    BY <2>1, ValueQuiet
<1>12. ASSUME NEW p \in Procs, UpdateRead(p) PROVE Value'
  <2>1. /\ UNCHANGED <<hw, max_val, target>>
        /\ \A j \in Jobs : pc'[j] = "idle" <=> pc[j] = "idle"
    BY <1>12 DEF UpdateRead, Goto, sync, waiter, CmpXchg
  <2> QED
    BY <2>1, ValueQuiet
<1>13. ASSUME NEW p \in Procs, UpdateAgain(p) PROVE Value'
  <2>1. /\ UNCHANGED <<hw, max_val, target>>
        /\ \A j \in Jobs : pc'[j] = "idle" <=> pc[j] = "idle"
    BY <1>13 DEF UpdateAgain, Goto, sync, waiter, CmpXchg
  <2> QED
    BY <2>1, ValueQuiet
<1>14. ASSUME NEW p \in Procs, ProcessRead(p) PROVE Value'
  <2>1. /\ UNCHANGED <<hw, max_val, target>>
        /\ \A j \in Jobs : pc'[j] = "idle" <=> pc[j] = "idle"
    BY <1>14 DEF ProcessRead, Goto, sync, waiter, CmpXchg
  <2> QED
    BY <2>1, ValueQuiet
<1>15. ASSUME NEW p \in Procs, RemoveCompleted(p) PROVE Value'
  <2>1. /\ UNCHANGED <<hw, max_val, target>>
        /\ \A j \in Jobs : pc'[j] = "idle" <=> pc[j] = "idle"
    BY <1>15 DEF RemoveCompleted, Goto, sync, waiter, CmpXchg
  <2> QED
    BY <2>1, ValueQuiet
<1>16. ASSUME NEW p \in Procs, Rearm(p) PROVE Value'
  <2>1. /\ UNCHANGED <<hw, max_val, target>>
        /\ \A j \in Jobs : pc'[j] = "idle" <=> pc[j] = "idle"
    BY <1>16 DEF Rearm, Goto, sync, waiter, CmpXchg
  <2> QED
    BY <2>1, ValueQuiet
<1>17. ASSUME NEW p \in Procs, RunHandler(p) PROVE Value'
  <2>1. /\ UNCHANGED <<hw, max_val, target>>
        /\ \A j \in Jobs : pc'[j] = "idle" <=> pc[j] = "idle"
    BY <1>17 DEF RunHandler, Goto, sync, waiter, CmpXchg
  <2> QED
    BY <2>1, ValueQuiet
<1>18. ASSUME NEW p \in Procs, PutHandled(p) PROVE Value'
  <2>1. /\ UNCHANGED <<hw, max_val, target>>
        /\ \A j \in Jobs : pc'[j] = "idle" <=> pc[j] = "idle"
    BY <1>18 DEF PutHandled, Goto, sync, waiter, CmpXchg
  <2> QED
    BY <2>1, ValueQuiet
<1>19. ASSUME NEW p \in Procs, RunDone(p) PROVE Value'
  <2>1. /\ UNCHANGED <<hw, max_val, target>>
        /\ \A j \in Jobs : pc'[j] = "idle" <=> pc[j] = "idle"
    BY <1>19 DEF RunDone, Goto, sync, waiter, CmpXchg
  <2> QED
    BY <2>1, ValueQuiet
<1>20. ASSUME NEW p \in Procs, Lock(p) PROVE Value'
  <2>1. /\ UNCHANGED <<hw, max_val, target>>
        /\ \A j \in Jobs : pc'[j] = "idle" <=> pc[j] = "idle"
    BY <1>20 DEF Lock, Goto, sync, waiter, CmpXchg
  <2> QED
    BY <2>1, ValueQuiet
<1>21. CASE LowPrioWork
  <2>1. /\ UNCHANGED <<hw, max_val, target>>
        /\ \A j \in Jobs : pc'[j] = "idle" <=> pc[j] = "idle"
    BY <1>21 DEF LowPrioWork, Goto, sync, waiter, CmpXchg
  <2> QED
    BY <2>1, ValueQuiet
<1>22. CASE ThreshIsr
  <2>1. /\ UNCHANGED <<hw, max_val, target>>
        /\ \A j \in Jobs : pc'[j] = "idle" <=> pc[j] = "idle"
    BY <1>22 DEF ThreshIsr, Goto, sync, waiter, CmpXchg
  <2> QED
    BY <2>1, ValueQuiet
<1>23. CASE HwIncr
  <2>1. /\ UNCHANGED <<min_val, max_val, target, pc>> /\ hw' = hw + 1 /\ hw < max_val
    BY <1>23 DEF HwIncr, waiter
  <2>2. Submitted' = Submitted
    BY <2>1 DEF Submitted
  <2> QED
    BY <1>0, <1>v, <2>1, <2>2
<1>24. CASE PowerCycle
  <2>1. UNCHANGED <<min_val, max_val, target, pc>> /\ hw' = min_val
    BY <1>24 DEF PowerCycle, waiter
  <2>2. Submitted' = Submitted
    BY <2>1 DEF Submitted
  <2> QED
    BY <1>0, <1>v, <2>1, <2>2
<1>25. CASE UNCHANGED vars
  BY <1>25, ValueQuiet DEF vars, sync, regs, lists, waiter, local
<1> QED
  BY <1>1, <1>2, <1>3, <1>4, <1>5, <1>6, <1>7, <1>8, <1>9, <1>10, <1>11, <1>12,
     <1>13, <1>14, <1>15, <1>16, <1>17, <1>18, <1>19, <1>20, <1>21, <1>22,
     <1>23, <1>24, <1>25
     DEF Next, Process, Wait

\* A step in which no process reads, and the register does not go back.
LEMMA ReadingQuiet ==
  ASSUME TimeInv, [Next]_vars, hw <= hw', hw' \in Nat,
         \A p \in Procs : pc'[p] \in {"check_cas", "process_cas"} =>
             pc[p] \in {"check_cas", "process_cas"} /\ old'[p] = old[p] /\ live'[p] = live[p],
         \A p \in Procs : pc'[p] \in {"lock", "scan"} =>
             pc[p] \in {"lock", "scan"} /\ live'[p] = live[p]
  PROVE  Reading'
<1>1. /\ old \in [Procs -> Nat] /\ live \in [Procs -> Nat] /\ Start \in Nat /\ min_val \in Nat
      /\ hw \in Nat
  BY StartAssumption DEF TimeInv, ListInv, Shape
<1>2. min_val <= min_val' /\ min_val' \in Nat
  BY MinStep
<1>3. ASSUME NEW p \in Procs, pc'[p] \in {"check_cas", "process_cas"}
      PROVE  old'[p] <= live'[p] /\ live'[p] <= hw'
  BY <1>1, <1>3 DEF TimeInv, Reading
<1>4. ASSUME NEW p \in Procs, pc'[p] \in {"lock", "scan"}
      PROVE  Start <= live'[p] /\ live'[p] <= min_val'
  BY <1>1, <1>2, <1>4 DEF TimeInv, Reading
<1> QED
  BY <1>3, <1>4 DEF Reading

\* Every step keeps what a process has read behind the register or the shadow.
LEMMA ReadingStep ==
  ASSUME TimeInv, [Next]_vars
  PROVE  Reading'
<1>0. /\ pc \in [Procs \cup Waiters -> PcOf] /\ state \in [Waiters -> States]
      /\ target \in [Waiters -> Nat] /\ min_val \in Nat /\ hw \in Nat /\ max_val \in Nat
      /\ old \in [Procs -> Nat] /\ live \in [Procs -> Nat] /\ Start \in Nat /\ Start > 0
      /\ ret \in [Sleepers -> {None, "ok", "err"}]
      /\ Waiters = Sleepers \cup Others /\ Sleepers \cap Others = {}
      /\ Procs = Sleepers \cup {"isr", "work"} /\ "isr" \notin Waiters /\ "work" \notin Waiters
      /\ Jobs \subseteq Others /\ Fast \cup Slow \subseteq Others /\ Jobs \cap (Fast \cup Slow) = {}
      /\ None \notin Procs /\ None # "ok" /\ Roles /\ Born
  BY Kinds, StartAssumption, WaitersAssumption DEF TimeInv, ListInv, Shape
<1>r. Reading
  BY DEF TimeInv
<1>v. Start <= min_val /\ min_val <= hw
  BY DEF TimeInv, Value
<1> USE <1>0, <1>v
<1>1. ASSUME NEW s \in Sleepers, WaitBegin(s) PROVE Reading'
  <2>1. /\ hw' = hw
        /\ \A q \in Procs : pc'[q] \in {"check_cas", "process_cas"} =>
              pc[q] \in {"check_cas", "process_cas"} /\ old'[q] = old[q] /\ live'[q] = live[q]
        /\ \A q \in Procs : pc'[q] \in {"lock", "scan"} =>
              pc[q] \in {"lock", "scan"} /\ live'[q] = live[q]
    BY <1>1 DEF WaitBegin, Goto, sync, waiter, local, CmpXchg
  <2> QED
    BY <2>1, ReadingQuiet
<1>2. ASSUME NEW s \in Sleepers, NoTimeout(s) PROVE Reading'
  <2>1. /\ hw' = hw
        /\ \A q \in Procs : pc'[q] \in {"check_cas", "process_cas"} =>
              pc[q] \in {"check_cas", "process_cas"} /\ old'[q] = old[q] /\ live'[q] = live[q]
        /\ \A q \in Procs : pc'[q] \in {"lock", "scan"} =>
              pc[q] \in {"lock", "scan"} /\ live'[q] = live[q]
    BY <1>2 DEF NoTimeout, Goto, sync, waiter, local, CmpXchg
  <2> QED
    BY <2>1, ReadingQuiet
<1>3. ASSUME NEW s \in Sleepers, CheckPeriod(s) PROVE Reading'
  <2>1. /\ hw' = hw
        /\ \A q \in Procs : pc'[q] \in {"check_cas", "process_cas"} =>
              pc[q] \in {"check_cas", "process_cas"} /\ old'[q] = old[q] /\ live'[q] = live[q]
        /\ \A q \in Procs : pc'[q] \in {"lock", "scan"} =>
              pc[q] \in {"lock", "scan"} /\ live'[q] = live[q]
    BY <1>3 DEF CheckPeriod, Goto, sync, waiter, local, CmpXchg
  <2> QED
    BY <2>1, ReadingQuiet
<1>4. ASSUME NEW s \in Sleepers, GiveUp(s) PROVE Reading'
  <2>1. /\ hw' = hw
        /\ \A q \in Procs : pc'[q] \in {"check_cas", "process_cas"} =>
              pc[q] \in {"check_cas", "process_cas"} /\ old'[q] = old[q] /\ live'[q] = live[q]
        /\ \A q \in Procs : pc'[q] \in {"lock", "scan"} =>
              pc[q] \in {"lock", "scan"} /\ live'[q] = live[q]
    BY <1>4 DEF GiveUp, Goto, sync, waiter, local, CmpXchg
  <2> QED
    BY <2>1, ReadingQuiet
<1>5. ASSUME NEW s \in Sleepers, Check(s) PROVE Reading'
  <2>1. /\ hw' = hw
        /\ \A q \in Procs : pc'[q] \in {"check_cas", "process_cas"} =>
              pc[q] \in {"check_cas", "process_cas"} /\ old'[q] = old[q] /\ live'[q] = live[q]
        /\ \A q \in Procs : pc'[q] \in {"lock", "scan"} =>
              pc[q] \in {"lock", "scan"} /\ live'[q] = live[q]
    BY <1>5 DEF Check, Goto, sync, waiter, local, CmpXchg
  <2> QED
    BY <2>1, ReadingQuiet
<1>6. ASSUME NEW s \in Sleepers, Woken(s) PROVE Reading'
  <2>1. /\ hw' = hw
        /\ \A q \in Procs : pc'[q] \in {"check_cas", "process_cas"} =>
              pc[q] \in {"check_cas", "process_cas"} /\ old'[q] = old[q] /\ live'[q] = live[q]
        /\ \A q \in Procs : pc'[q] \in {"lock", "scan"} =>
              pc[q] \in {"lock", "scan"} /\ live'[q] = live[q]
    BY <1>6 DEF Woken, Goto, sync, waiter, local, CmpXchg
  <2> QED
    BY <2>1, ReadingQuiet
<1>7. ASSUME NEW s \in Sleepers, PutRef(s) PROVE Reading'
  <2>1. /\ hw' = hw
        /\ \A q \in Procs : pc'[q] \in {"check_cas", "process_cas"} =>
              pc[q] \in {"check_cas", "process_cas"} /\ old'[q] = old[q] /\ live'[q] = live[q]
        /\ \A q \in Procs : pc'[q] \in {"lock", "scan"} =>
              pc[q] \in {"lock", "scan"} /\ live'[q] = live[q]
    BY <1>7 DEF PutRef, Goto, sync, waiter, local, CmpXchg
  <2> QED
    BY <2>1, ReadingQuiet
<1>8. ASSUME NEW s \in Sleepers, WaitEnd(s) PROVE Reading'
  <2>1. /\ hw' = hw
        /\ \A q \in Procs : pc'[q] \in {"check_cas", "process_cas"} =>
              pc[q] \in {"check_cas", "process_cas"} /\ old'[q] = old[q] /\ live'[q] = live[q]
        /\ \A q \in Procs : pc'[q] \in {"lock", "scan"} =>
              pc[q] \in {"lock", "scan"} /\ live'[q] = live[q]
    BY <1>8 DEF WaitEnd, Goto, sync, waiter, local, CmpXchg
  <2> QED
    BY <2>1, ReadingQuiet
<1>9. ASSUME NEW j \in Jobs, Submit(j) PROVE Reading'
  <2>1. /\ hw' = hw
        /\ \A q \in Procs : pc'[q] \in {"check_cas", "process_cas"} =>
              pc[q] \in {"check_cas", "process_cas"} /\ old'[q] = old[q] /\ live'[q] = live[q]
        /\ \A q \in Procs : pc'[q] \in {"lock", "scan"} =>
              pc[q] \in {"lock", "scan"} /\ live'[q] = live[q]
    BY <1>9 DEF Submit, Goto, sync, waiter, local, CmpXchg
  <2> QED
    BY <2>1, ReadingQuiet
<1>10. ASSUME NEW n \in Fast \cup Slow, RegisterNotifier(n) PROVE Reading'
  <2>1. /\ hw' = hw
        /\ \A q \in Procs : pc'[q] \in {"check_cas", "process_cas"} =>
              pc[q] \in {"check_cas", "process_cas"} /\ old'[q] = old[q] /\ live'[q] = live[q]
        /\ \A q \in Procs : pc'[q] \in {"lock", "scan"} =>
              pc[q] \in {"lock", "scan"} /\ live'[q] = live[q]
    BY <1>10 DEF RegisterNotifier, Goto, sync, waiter, local, CmpXchg
  <2> QED
    BY <2>1, ReadingQuiet
<1>11. ASSUME NEW w \in Waiters, AddAction(w) PROVE Reading'
  <2>1. /\ hw' = hw
        /\ \A q \in Procs : pc'[q] \in {"check_cas", "process_cas"} =>
              pc[q] \in {"check_cas", "process_cas"} /\ old'[q] = old[q] /\ live'[q] = live[q]
        /\ \A q \in Procs : pc'[q] \in {"lock", "scan"} =>
              pc[q] \in {"lock", "scan"} /\ live'[q] = live[q]
    BY <1>11 DEF AddAction, Goto, sync, waiter, local, CmpXchg
  <2> QED
    BY <2>1, ReadingQuiet
<1>12. ASSUME NEW p \in Procs, UpdateRead(p) PROVE Reading'
  <2>1. /\ hw' = hw /\ min_val' = min_val /\ pc'[p] \in {"check_cas", "process_cas"}
        /\ old'[p] = min_val /\ live'[p] = hw
        /\ \A q \in Procs : q # p => pc'[q] = pc[q] /\ old'[q] = old[q] /\ live'[q] = live[q]
    BY <1>12 DEF UpdateRead, Goto, sync
  <2> QED
    BY <1>r, <2>1 DEF Reading
<1>13. ASSUME NEW p \in Procs, UpdateAgain(p) PROVE Reading'
  <2>1. /\ hw' = hw
        /\ \A q \in Procs : pc'[q] \in {"check_cas", "process_cas"} =>
              pc[q] \in {"check_cas", "process_cas"} /\ old'[q] = old[q] /\ live'[q] = live[q]
        /\ \A q \in Procs : pc'[q] \in {"lock", "scan"} =>
              pc[q] \in {"lock", "scan"} /\ live'[q] = live[q]
    BY <1>13 DEF UpdateAgain, Goto, sync, waiter, local, CmpXchg
  <2> QED
    BY <2>1, ReadingQuiet
<1>14. ASSUME NEW p \in Procs, ProcessRead(p) PROVE Reading'
  <2>1. /\ hw' = hw /\ live' = live /\ pc'[p] = "lock"
        /\ \A q \in Procs : q # p => pc'[q] = pc[q] /\ old'[q] = old[q]
    BY <1>14 DEF ProcessRead, CmpXchg, Goto
  <2>2. min_val' = live[p] /\ min_val <= live[p] /\ live[p] \in Nat
    BY <1>14, Exchanged DEF ProcessRead
  <2>3. Start <= live'[p] /\ live'[p] <= min_val'
    BY <2>1, <2>2
  <2>4. ASSUME NEW q \in Procs, q # p, pc'[q] \in {"lock", "scan"}
        PROVE  Start <= live'[q] /\ live'[q] <= min_val'
    <3>1. live[q] \in Nat /\ Start <= live[q] /\ live[q] <= min_val
      BY <1>r, <2>1, <2>4 DEF Reading
    <3> QED
      BY <2>1, <2>2, <3>1
  <2>5. ASSUME NEW q \in Procs, q # p, pc'[q] \in {"check_cas", "process_cas"}
        PROVE  old'[q] <= live'[q] /\ live'[q] <= hw'
    BY <1>r, <2>1, <2>5 DEF Reading
  <2>6. pc'[p] \notin {"check_cas", "process_cas"}
    BY <2>1
  <2> QED
    BY <2>3, <2>4, <2>5, <2>6 DEF Reading
<1>15. ASSUME NEW p \in Procs, RemoveCompleted(p) PROVE Reading'
  <2>1. /\ hw' = hw
        /\ \A q \in Procs : pc'[q] \in {"check_cas", "process_cas"} =>
              pc[q] \in {"check_cas", "process_cas"} /\ old'[q] = old[q] /\ live'[q] = live[q]
        /\ \A q \in Procs : pc'[q] \in {"lock", "scan"} =>
              pc[q] \in {"lock", "scan"} /\ live'[q] = live[q]
    BY <1>15 DEF RemoveCompleted, Goto, sync, waiter, local, CmpXchg
  <2> QED
    BY <2>1, ReadingQuiet
<1>16. ASSUME NEW p \in Procs, Rearm(p) PROVE Reading'
  <2>1. /\ hw' = hw
        /\ \A q \in Procs : pc'[q] \in {"check_cas", "process_cas"} =>
              pc[q] \in {"check_cas", "process_cas"} /\ old'[q] = old[q] /\ live'[q] = live[q]
        /\ \A q \in Procs : pc'[q] \in {"lock", "scan"} =>
              pc[q] \in {"lock", "scan"} /\ live'[q] = live[q]
    BY <1>16 DEF Rearm, Goto, sync, waiter, local, CmpXchg
  <2> QED
    BY <2>1, ReadingQuiet
<1>17. ASSUME NEW p \in Procs, RunHandler(p) PROVE Reading'
  <2>1. /\ hw' = hw
        /\ \A q \in Procs : pc'[q] \in {"check_cas", "process_cas"} =>
              pc[q] \in {"check_cas", "process_cas"} /\ old'[q] = old[q] /\ live'[q] = live[q]
        /\ \A q \in Procs : pc'[q] \in {"lock", "scan"} =>
              pc[q] \in {"lock", "scan"} /\ live'[q] = live[q]
    BY <1>17 DEF RunHandler, Goto, sync, waiter, local, CmpXchg
  <2> QED
    BY <2>1, ReadingQuiet
<1>18. ASSUME NEW p \in Procs, PutHandled(p) PROVE Reading'
  <2>1. /\ hw' = hw
        /\ \A q \in Procs : pc'[q] \in {"check_cas", "process_cas"} =>
              pc[q] \in {"check_cas", "process_cas"} /\ old'[q] = old[q] /\ live'[q] = live[q]
        /\ \A q \in Procs : pc'[q] \in {"lock", "scan"} =>
              pc[q] \in {"lock", "scan"} /\ live'[q] = live[q]
    BY <1>18 DEF PutHandled, Goto, sync, waiter, local, CmpXchg
  <2> QED
    BY <2>1, ReadingQuiet
<1>19. ASSUME NEW p \in Procs, RunDone(p) PROVE Reading'
  <2>1. /\ hw' = hw
        /\ \A q \in Procs : pc'[q] \in {"check_cas", "process_cas"} =>
              pc[q] \in {"check_cas", "process_cas"} /\ old'[q] = old[q] /\ live'[q] = live[q]
        /\ \A q \in Procs : pc'[q] \in {"lock", "scan"} =>
              pc[q] \in {"lock", "scan"} /\ live'[q] = live[q]
    BY <1>19 DEF RunDone, Goto, sync, waiter, local, CmpXchg
  <2> QED
    BY <2>1, ReadingQuiet
<1>20. ASSUME NEW p \in Procs, Lock(p) PROVE Reading'
  <2>1. /\ hw' = hw
        /\ \A q \in Procs : pc'[q] \in {"check_cas", "process_cas"} =>
              pc[q] \in {"check_cas", "process_cas"} /\ old'[q] = old[q] /\ live'[q] = live[q]
        /\ \A q \in Procs : pc'[q] \in {"lock", "scan"} =>
              pc[q] \in {"lock", "scan"} /\ live'[q] = live[q]
    BY <1>20 DEF Lock, Goto, sync, waiter, local, CmpXchg
  <2> QED
    BY <2>1, ReadingQuiet
<1>21. CASE LowPrioWork
  <2>1. /\ hw' = hw
        /\ \A q \in Procs : pc'[q] \in {"check_cas", "process_cas"} =>
              pc[q] \in {"check_cas", "process_cas"} /\ old'[q] = old[q] /\ live'[q] = live[q]
        /\ \A q \in Procs : pc'[q] \in {"lock", "scan"} =>
              pc[q] \in {"lock", "scan"} /\ live'[q] = live[q]
    BY <1>21 DEF LowPrioWork, Goto, sync, waiter, local, CmpXchg
  <2> QED
    BY <2>1, ReadingQuiet
<1>22. CASE ThreshIsr
  <2>1. /\ hw' = hw
        /\ \A q \in Procs : pc'[q] \in {"check_cas", "process_cas"} =>
              pc[q] \in {"check_cas", "process_cas"} /\ old'[q] = old[q] /\ live'[q] = live[q]
        /\ \A q \in Procs : pc'[q] \in {"lock", "scan"} =>
              pc[q] \in {"lock", "scan"} /\ live'[q] = live[q]
    BY <1>22 DEF ThreshIsr, Goto, sync, waiter, local, CmpXchg
  <2> QED
    BY <2>1, ReadingQuiet
<1>23. CASE HwIncr
  <2>1. hw <= hw' /\ hw' \in Nat /\ UNCHANGED <<pc, old, live>>
    BY <1>23 DEF HwIncr, local
  <2> QED
    BY <2>1, ReadingQuiet
<1>24. CASE PowerCycle
  <2>1. busy = 0 /\ UNCHANGED <<min_val, pc, old, live>>
    BY <1>24 DEF PowerCycle, local
  <2>2. AtRest
    BY <2>1, RestIffUnused DEF TimeInv
  <2>3. \A p \in Procs : pc[p] \notin {"check_cas", "process_cas"}
    BY <2>2 DEF AtRest, Roles
  <2> QED
    BY <1>r, <2>1, <2>3 DEF Reading
<1>25. CASE UNCHANGED vars
  BY <1>25, ReadingQuiet DEF vars, sync, regs, lists, waiter, local
<1> QED
  BY <1>1, <1>2, <1>3, <1>4, <1>5, <1>6, <1>7, <1>8, <1>9, <1>10, <1>11, <1>12,
     <1>13, <1>14, <1>15, <1>16, <1>17, <1>18, <1>19, <1>20, <1>21, <1>22,
     <1>23, <1>24, <1>25
     DEF Next, Process, Wait

\* A step that completes nothing and changes no threshold.
LEMMA PassedQuiet ==
  ASSUME TimeInv, [Next]_vars, target' = target,
         \A w \in Waiters : state'[w] \in Over => state[w] \in Over,
         \A s \in Sleepers : /\ ret'[s] = "ok" => ret[s] = "ok"
                             /\ pc'[s] = "idle" => pc[s] = "idle" /\ ret'[s] = ret[s]
  PROVE  Passed'
<1>1. target \in [Waiters -> Nat] /\ min_val \in Nat /\ Sleepers \subseteq Waiters
  BY Kinds DEF TimeInv, ListInv, Shape
<1>2. min_val <= min_val' /\ min_val' \in Nat
  BY MinStep
<1>3. ASSUME NEW w \in Waiters, state'[w] \in Over PROVE target'[w] <= min_val'
  BY <1>1, <1>2, <1>3 DEF TimeInv, Passed
<1>4. ASSUME NEW s \in Sleepers, ret'[s] = "ok" PROVE target'[s] <= min_val'
  BY <1>1, <1>2, <1>4 DEF TimeInv, Passed
<1>5. ASSUME NEW s \in Sleepers, pc'[s] = "idle" PROVE ret'[s] = None
  BY <1>5 DEF TimeInv, Passed
<1> QED
  BY <1>3, <1>4, <1>5 DEF Passed

\* A new threshold of a waiter that does not exist yet.
LEMMA PassedTarget ==
  ASSUME TimeInv, [Next]_vars, NEW x \in Waiters, pc[x] = "idle", state' = state,
         pc'[x] # "idle",
         \A w \in Waiters : w # x => target'[w] = target[w] /\ pc'[w] = pc[w],
         \A s \in Sleepers : s # x => ret'[s] = ret[s],
         x \in Sleepers /\ ret'[x] = "ok" => target'[x] <= min_val'
  PROVE  Passed'
<1>1. target \in [Waiters -> Nat] /\ min_val \in Nat /\ Sleepers \subseteq Waiters
  BY Kinds DEF TimeInv, ListInv, Shape
<1>2. min_val <= min_val' /\ min_val' \in Nat
  BY MinStep
<1>3. state[x] = "none"
  BY DEF TimeInv, ListInv, Born
<1>4. ASSUME NEW w \in Waiters, state'[w] \in Over PROVE target'[w] <= min_val'
  <2>1. w # x
    BY <1>3, <1>4 DEF Over
  <2>2. state[w] \in Over /\ target'[w] = target[w]
    BY <1>4, <2>1
  <2> QED
    BY <1>1, <1>2, <2>2 DEF TimeInv, Passed
<1>5. ASSUME NEW s \in Sleepers, ret'[s] = "ok" PROVE target'[s] <= min_val'
  <2>1. CASE s = x
    BY <1>5, <2>1
  <2>2. CASE s # x
    <3>1. ret[s] = "ok" /\ target'[s] = target[s]
      BY <1>1, <1>5, <2>2
    <3> QED
      BY <1>1, <1>2, <3>1 DEF TimeInv, Passed
  <2> QED
    BY <2>1, <2>2
<1>6. ASSUME NEW s \in Sleepers, pc'[s] = "idle" PROVE ret'[s] = None
  <2>1. s # x /\ s \in Waiters
    BY <1>1, <1>6
  <2> QED
    BY <1>6, <2>1 DEF TimeInv, Passed
<1> QED
  BY <1>4, <1>5, <1>6 DEF Passed

\* Every step completes only what has passed.
LEMMA PassedStep ==
  ASSUME TimeInv, [Next]_vars
  PROVE  Passed'
<1>0. /\ pc \in [Procs \cup Waiters -> PcOf] /\ state \in [Waiters -> States]
      /\ target \in [Waiters -> Nat] /\ min_val \in Nat /\ hw \in Nat /\ max_val \in Nat
      /\ old \in [Procs -> Nat] /\ live \in [Procs -> Nat] /\ Start \in Nat /\ Start > 0
      /\ ret \in [Sleepers -> {None, "ok", "err"}]
      /\ Waiters = Sleepers \cup Others /\ Sleepers \cap Others = {}
      /\ Procs = Sleepers \cup {"isr", "work"} /\ "isr" \notin Waiters /\ "work" \notin Waiters
      /\ Jobs \subseteq Others /\ Fast \cup Slow \subseteq Others /\ Jobs \cap (Fast \cup Slow) = {}
      /\ None \notin Procs /\ None # "ok" /\ Roles /\ Born
  BY Kinds, StartAssumption, WaitersAssumption DEF TimeInv, ListInv, Shape
<1>p. Passed
  BY DEF TimeInv
<1>v. /\ Start <= min_val /\ min_val <= hw /\ hw <= max_val
      /\ \A w \in Waiters : Start - 1 <= target[w] /\ target[w] <= max_val
  BY DEF TimeInv, Value
<1> USE <1>0
<1>1. ASSUME NEW s \in Sleepers, WaitBegin(s) PROVE Passed'
  <2>1. PICK t \in Start - 1 .. max_val :
          /\ target' = [target EXCEPT ![s] = t]
          /\ IF Expired(t) THEN pc' = [pc EXCEPT ![s] = "done"] /\ ret' = [ret EXCEPT ![s] = "ok"]
             ELSE pc' = [pc EXCEPT ![s] = "check"] /\ ret' = ret
    BY <1>1 DEF WaitBegin, Goto
  <2>2. pc[s] = "idle" /\ state' = state /\ min_val' = min_val
    BY <1>1 DEF WaitBegin, sync
  <2>3. s \in Waiters /\ target'[s] = t
    BY <1>0, <2>1
  <2>4. ret'[s] = "ok" => t <= min_val'
    <3>1. ASSUME ~Expired(t) PROVE ret'[s] # "ok"
      BY <1>0, <2>1, <2>2, <3>1 DEF TimeInv, Passed
    <3>2. ASSUME Expired(t) PROVE t <= min_val
      <4>1. min_val \in Start .. max_val
        BY <1>0, <1>v
      <4> QED
        BY <3>2, <4>1, InWindow DEF Expired
    <3> QED
      BY <2>2, <3>1, <3>2
  <2>5. pc'[s] # "idle" /\ \A w \in Waiters : w # s => target'[w] = target[w] /\ pc'[w] = pc[w]
    BY <1>0, <2>1
  <2>6. \A x \in Sleepers : x # s => ret'[x] = ret[x]
    BY <1>0, <2>1
  <2> QED
    BY <2>2, <2>3, <2>4, <2>5, <2>6, PassedTarget
<1>2. ASSUME NEW s \in Sleepers, NoTimeout(s) PROVE Passed'
  <2>1. /\ target' = target
        /\ \A v \in Waiters : state'[v] \in Over => state[v] \in Over
        /\ \A q \in Sleepers : /\ ret'[q] = "ok" => ret[q] = "ok"
                               /\ pc'[q] = "idle" => pc[q] = "idle" /\ ret'[q] = ret[q]
    BY <1>2 DEF NoTimeout, Goto, sync, waiter, local, CmpXchg, Over
  <2> QED
    BY <2>1, PassedQuiet
<1>3. ASSUME NEW s \in Sleepers, CheckPeriod(s) PROVE Passed'
  <2>1. /\ target' = target
        /\ \A v \in Waiters : state'[v] \in Over => state[v] \in Over
        /\ \A q \in Sleepers : /\ ret'[q] = "ok" => ret[q] = "ok"
                               /\ pc'[q] = "idle" => pc[q] = "idle" /\ ret'[q] = ret[q]
    BY <1>3 DEF CheckPeriod, Goto, sync, waiter, local, CmpXchg, Over
  <2> QED
    BY <2>1, PassedQuiet
<1>4. ASSUME NEW s \in Sleepers, GiveUp(s) PROVE Passed'
  <2>1. /\ target' = target
        /\ \A v \in Waiters : state'[v] \in Over => state[v] \in Over
        /\ \A q \in Sleepers : /\ ret'[q] = "ok" => ret[q] = "ok"
                               /\ pc'[q] = "idle" => pc[q] = "idle" /\ ret'[q] = ret[q]
    BY <1>4 DEF GiveUp, Goto, sync, waiter, local, CmpXchg, Over
  <2> QED
    BY <2>1, PassedQuiet
<1>5. ASSUME NEW s \in Sleepers, Check(s) PROVE Passed'
  <2>1. s \in Procs /\ s \in Waiters /\ pc[s] = "check_cas" /\ target' = target /\ state' = state
    BY <1>5, <1>0 DEF Check, waiter
  <2>2. min_val' = live[s] /\ min_val <= live[s] /\ live[s] <= hw /\ live[s] \in Nat
    BY <1>5, <2>1, Exchanged DEF Check
  <2>3. ret' = [ret EXCEPT ![s] = IF IsExpired(Word(min_val'), Word(max_val), TRUE, Word(target[s]))
                                  THEN "ok" ELSE ret[s]]
    BY <1>5 DEF Check
  <2>4. /\ \A q \in Sleepers : q # s => ret'[q] = ret[q] /\ pc'[q] = pc[q]
        /\ pc'[s] # "idle"
    <3>1. PICK l \in {"cancel", "done", "sleep", "add"} : pc' = [pc EXCEPT ![s] = l]
      BY <1>5 DEF Check, Goto
    <3> QED
      BY <1>0, <2>1, <2>3, <3>1
  <2>5. ASSUME ret'[s] = "ok" PROVE target'[s] <= min_val'
    <3>1. PICK m : m = min_val'
      OBVIOUS
    <3>2. m \in Start .. max_val /\ target[s] \in Start - 1 .. max_val
      BY <1>0, <1>v, <2>1, <2>2, <3>1
    <3>3. CASE IsExpired(Word(m), Word(max_val), TRUE, Word(target[s]))
      BY <2>1, <3>1, <3>2, <3>3, InWindow
    <3>4. CASE ~IsExpired(Word(m), Word(max_val), TRUE, Word(target[s]))
      <4>1. ret[s] = "ok"
        BY <1>0, <2>3, <2>5, <3>1, <3>4
      <4> QED
        BY <1>0, <1>p, <2>1, <2>2, <4>1 DEF Passed
    <3> QED
      BY <3>3, <3>4
  <2>6. \A w \in Waiters : state'[w] \in Over => target'[w] <= min_val'
    BY <1>0, <1>p, <2>1, <2>2 DEF Passed
  <2>7. ASSUME NEW q \in Sleepers, q # s PROVE ret'[q] = "ok" => target'[q] <= min_val'
    BY <1>0, <1>p, <2>1, <2>2, <2>4, <2>7 DEF Passed
  <2>8. \A q \in Sleepers : pc'[q] = "idle" => ret'[q] = None
    BY <1>p, <2>4 DEF Passed
  <2> QED
    BY <2>5, <2>6, <2>7, <2>8 DEF Passed
<1>6. ASSUME NEW s \in Sleepers, Woken(s) PROVE Passed'
  <2>1. /\ target' = target
        /\ \A v \in Waiters : state'[v] \in Over => state[v] \in Over
        /\ \A q \in Sleepers : /\ ret'[q] = "ok" => ret[q] = "ok"
                               /\ pc'[q] = "idle" => pc[q] = "idle" /\ ret'[q] = ret[q]
    BY <1>6 DEF Woken, Goto, sync, waiter, local, CmpXchg, Over
  <2> QED
    BY <2>1, PassedQuiet
<1>7. ASSUME NEW s \in Sleepers, PutRef(s) PROVE Passed'
  <2>1. /\ target' = target
        /\ \A v \in Waiters : state'[v] \in Over => state[v] \in Over
        /\ \A q \in Sleepers : /\ ret'[q] = "ok" => ret[q] = "ok"
                               /\ pc'[q] = "idle" => pc[q] = "idle" /\ ret'[q] = ret[q]
    BY <1>7 DEF PutRef, Goto, sync, waiter, local, CmpXchg, Over
  <2> QED
    BY <2>1, PassedQuiet
<1>8. ASSUME NEW s \in Sleepers, WaitEnd(s) PROVE Passed'
  <2>1. /\ target' = target /\ ret' = ret /\ pc[s] = "kref" /\ s \in Waiters
        /\ state' = [state EXCEPT ![s] = IF refcount[s] = 1 THEN "freed" ELSE state[s]]
        /\ \A q \in Sleepers : pc'[q] = "idle" => pc[q] = "idle"
    BY <1>8, <1>0 DEF WaitEnd, KrefPut, Goto
  <2>2. ASSUME refcount[s] = 1 PROVE state[s] \in Over
    <3>1. state[s] # "none" /\ state[s] \in States
      BY <1>0, <2>1 DEF Born
    <3>2. ThreadRef(s) = 1
      BY <2>1, <3>1 DEF ThreadRef
    <3>3. s \notin Range(wait_head)
      BY <2>1, <2>2, <3>2 DEF TimeInv, ListInv, RefInv
    <3>4. state[s] \notin {"pending", "cancelled"}
      BY <2>1, <3>3 DEF TimeInv, ListInv, Placed
    <3> QED
      BY <3>1, <3>4 DEF States, Over
  <2>3. \A w \in Waiters : state'[w] \in Over => state[w] \in Over
    BY <1>0, <2>1, <2>2
  <2> QED
    BY <2>1, <2>3, PassedQuiet
<1>9. ASSUME NEW j \in Jobs, Submit(j) PROVE Passed'
  <2>1. /\ pc[j] = "idle" /\ pc' = [pc EXCEPT ![j] = "add"] /\ state' = state /\ ret' = ret
        /\ target' = [target EXCEPT ![j] = max_val + 1]
    BY <1>9 DEF Submit, Goto, Fence
  <2>2. /\ j \in Waiters /\ j \notin Sleepers /\ pc'[j] # "idle"
        /\ \A w \in Waiters : w # j => target'[w] = target[w] /\ pc'[w] = pc[w]
    BY <1>0, <2>1
  <2> QED
    BY <2>1, <2>2, PassedTarget
<1>10. ASSUME NEW n \in Fast \cup Slow, RegisterNotifier(n) PROVE Passed'
  <2>1. /\ pc[n] = "idle" /\ pc' = [pc EXCEPT ![n] = "add"] /\ state' = state /\ ret' = ret
        /\ \E t \in Start .. max_val : target' = [target EXCEPT ![n] = t]
    BY <1>10 DEF RegisterNotifier, Goto
  <2>2. /\ n \in Waiters /\ n \notin Sleepers /\ pc'[n] # "idle"
        /\ \A w \in Waiters : w # n => target'[w] = target[w] /\ pc'[w] = pc[w]
    BY <1>0, <2>1
  <2> QED
    BY <2>1, <2>2, PassedTarget
<1>11. ASSUME NEW w \in Waiters, AddAction(w) PROVE Passed'
  <2>1. /\ target' = target
        /\ \A v \in Waiters : state'[v] \in Over => state[v] \in Over
        /\ \A q \in Sleepers : /\ ret'[q] = "ok" => ret[q] = "ok"
                               /\ pc'[q] = "idle" => pc[q] = "idle" /\ ret'[q] = ret[q]
    BY <1>11 DEF AddAction, Goto, sync, waiter, local, CmpXchg, Over
  <2> QED
    BY <2>1, PassedQuiet
<1>12. ASSUME NEW p \in Procs, UpdateRead(p) PROVE Passed'
  <2>1. /\ target' = target
        /\ \A v \in Waiters : state'[v] \in Over => state[v] \in Over
        /\ \A q \in Sleepers : /\ ret'[q] = "ok" => ret[q] = "ok"
                               /\ pc'[q] = "idle" => pc[q] = "idle" /\ ret'[q] = ret[q]
    BY <1>12 DEF UpdateRead, Goto, sync, waiter, local, CmpXchg, Over
  <2> QED
    BY <2>1, PassedQuiet
<1>13. ASSUME NEW p \in Procs, UpdateAgain(p) PROVE Passed'
  <2>1. /\ target' = target
        /\ \A v \in Waiters : state'[v] \in Over => state[v] \in Over
        /\ \A q \in Sleepers : /\ ret'[q] = "ok" => ret[q] = "ok"
                               /\ pc'[q] = "idle" => pc[q] = "idle" /\ ret'[q] = ret[q]
    BY <1>13 DEF UpdateAgain, Goto, sync, waiter, local, CmpXchg, Over
  <2> QED
    BY <2>1, PassedQuiet
<1>14. ASSUME NEW p \in Procs, ProcessRead(p) PROVE Passed'
  <2>1. /\ target' = target
        /\ \A v \in Waiters : state'[v] \in Over => state[v] \in Over
        /\ \A q \in Sleepers : /\ ret'[q] = "ok" => ret[q] = "ok"
                               /\ pc'[q] = "idle" => pc[q] = "idle" /\ ret'[q] = ret[q]
    BY <1>14 DEF ProcessRead, Goto, sync, waiter, local, CmpXchg, Over
  <2> QED
    BY <2>1, PassedQuiet
<1>15. ASSUME NEW p \in Procs, RemoveCompleted(p) PROVE Passed'
  <2>1. PICK w : w = Head(wait_head)
    OBVIOUS
  <2>2. w \in Waiters /\ pc[p] = "scan"
    BY <1>15, <2>1, LeaveEffect DEF TimeInv
  <2>3. /\ target' = target /\ pc' = pc /\ ret' = ret /\ min_val' = min_val
        /\ ~After(Word(target[w]), Word(live[p]))
        /\ \A v \in Waiters : v # w => state'[v] = state[v]
    BY <1>15, <1>0, <2>1 DEF RemoveCompleted, Completed, sync
  <2>4. live[p] \in Start - 1 .. max_val /\ target[w] \in Start - 1 .. max_val /\ live[p] <= min_val
    BY <1>0, <1>v, <2>2 DEF TimeInv, Reading
  <2>5. target[w] <= min_val
    <3>1. ~(target[w] > live[p])
      BY <2>3, <2>4, InWindow
    <3> QED
      BY <1>0, <2>2, <2>4, <3>1
  <2>6. \A v \in Waiters : state'[v] \in Over => target[v] <= min_val
    BY <1>p, <2>3, <2>5 DEF Passed
  <2> QED
    BY <1>p, <2>3, <2>6 DEF Passed
<1>16. ASSUME NEW p \in Procs, Rearm(p) PROVE Passed'
  <2>1. /\ target' = target
        /\ \A v \in Waiters : state'[v] \in Over => state[v] \in Over
        /\ \A q \in Sleepers : /\ ret'[q] = "ok" => ret[q] = "ok"
                               /\ pc'[q] = "idle" => pc[q] = "idle" /\ ret'[q] = ret[q]
    BY <1>16 DEF Rearm, Goto, sync, waiter, local, CmpXchg, Over
  <2> QED
    BY <2>1, PassedQuiet
<1>17. ASSUME NEW p \in Procs, RunHandler(p) PROVE Passed'
  <2>1. PICK w : w = Head(todo[p])
    OBVIOUS
  <2>2. w \in Waiters /\ state[w] \in Over
    <3>1. todo[p] # <<>>
      BY <1>17 DEF RunHandler
    <3> QED
      BY <2>1, <3>1, AtHead DEF TimeInv, ListInv, StateIn, Over
  <2>3. /\ target' = target /\ ret' = ret
        /\ \A v \in Waiters : v # w => state'[v] = state[v]
        /\ \A q \in Sleepers : pc'[q] = "idle" => pc[q] = "idle"
    BY <1>17, <1>0, <2>1 DEF RunHandler, Goto
  <2> QED
    BY <2>2, <2>3, PassedQuiet
<1>18. ASSUME NEW p \in Procs, PutHandled(p) PROVE Passed'
  <2>1. PICK w : w = Head(todo[p])
    OBVIOUS
  <2>2. w \in Waiters /\ state[w] \in Over
    <3>1. todo[p] # <<>>
      BY <1>18 DEF PutHandled, TimeInv, ListInv, Roles
    <3> QED
      BY <2>1, <3>1, AtHead DEF TimeInv, ListInv, StateIn, Over
  <2>3. /\ target' = target /\ ret' = ret
        /\ \A v \in Waiters : v # w => state'[v] = state[v]
        /\ \A q \in Sleepers : pc'[q] = "idle" => pc[q] = "idle"
    BY <1>18, <1>0, <2>1 DEF PutHandled, KrefPut, Goto
  <2> QED
    BY <2>2, <2>3, PassedQuiet
<1>19. ASSUME NEW p \in Procs, RunDone(p) PROVE Passed'
  <2>1. /\ target' = target
        /\ \A v \in Waiters : state'[v] \in Over => state[v] \in Over
        /\ \A q \in Sleepers : /\ ret'[q] = "ok" => ret[q] = "ok"
                               /\ pc'[q] = "idle" => pc[q] = "idle" /\ ret'[q] = ret[q]
    BY <1>19 DEF RunDone, Goto, sync, waiter, local, CmpXchg, Over
  <2> QED
    BY <2>1, PassedQuiet
<1>20. ASSUME NEW p \in Procs, Lock(p) PROVE Passed'
  <2>1. /\ target' = target
        /\ \A v \in Waiters : state'[v] \in Over => state[v] \in Over
        /\ \A q \in Sleepers : /\ ret'[q] = "ok" => ret[q] = "ok"
                               /\ pc'[q] = "idle" => pc[q] = "idle" /\ ret'[q] = ret[q]
    BY <1>20 DEF Lock, Goto, sync, waiter, local, CmpXchg, Over
  <2> QED
    BY <2>1, PassedQuiet
<1>21. CASE LowPrioWork
  <2>1. /\ target' = target
        /\ \A v \in Waiters : state'[v] \in Over => state[v] \in Over
        /\ \A q \in Sleepers : /\ ret'[q] = "ok" => ret[q] = "ok"
                               /\ pc'[q] = "idle" => pc[q] = "idle" /\ ret'[q] = ret[q]
    BY <1>21 DEF LowPrioWork, Goto, sync, waiter, local, CmpXchg, Over
  <2> QED
    BY <2>1, PassedQuiet
<1>22. CASE ThreshIsr
  <2>1. /\ target' = target
        /\ \A v \in Waiters : state'[v] \in Over => state[v] \in Over
        /\ \A q \in Sleepers : /\ ret'[q] = "ok" => ret[q] = "ok"
                               /\ pc'[q] = "idle" => pc[q] = "idle" /\ ret'[q] = ret[q]
    BY <1>22 DEF ThreshIsr, Goto, sync, waiter, local, CmpXchg, Over
  <2> QED
    BY <2>1, PassedQuiet
<1>23. CASE HwIncr
  <2>1. /\ target' = target
        /\ \A v \in Waiters : state'[v] \in Over => state[v] \in Over
        /\ \A q \in Sleepers : /\ ret'[q] = "ok" => ret[q] = "ok"
                               /\ pc'[q] = "idle" => pc[q] = "idle" /\ ret'[q] = ret[q]
    BY <1>23 DEF HwIncr, Goto, sync, waiter, local, CmpXchg, Over
  <2> QED
    BY <2>1, PassedQuiet
<1>24. CASE PowerCycle
  <2>1. /\ target' = target
        /\ \A v \in Waiters : state'[v] \in Over => state[v] \in Over
        /\ \A q \in Sleepers : /\ ret'[q] = "ok" => ret[q] = "ok"
                               /\ pc'[q] = "idle" => pc[q] = "idle" /\ ret'[q] = ret[q]
    BY <1>24 DEF PowerCycle, Goto, sync, waiter, local, CmpXchg, Over
  <2> QED
    BY <2>1, PassedQuiet
<1>25. CASE UNCHANGED vars
  BY <1>25, PassedQuiet DEF vars, sync, regs, lists, waiter, local
<1> QED
  BY <1>1, <1>2, <1>3, <1>4, <1>5, <1>6, <1>7, <1>8, <1>9, <1>10, <1>11, <1>12,
     <1>13, <1>14, <1>15, <1>16, <1>17, <1>18, <1>19, <1>20, <1>21, <1>22,
     <1>23, <1>24, <1>25
     DEF Next, Process, Wait

\* The waiters of wait_head keep their thresholds: only waiters that do not exist
\* yet get one.
LEMMA QueuedKeep ==
  ASSUME TimeInv, NEW x \in Waiters, pc[x] = "idle",
         \A w \in Waiters : w # x => target'[w] = target[w]
  PROVE  \A i \in 1 .. Len(wait_head) : target'[wait_head[i]] = target[wait_head[i]]
<1>1. x \notin Range(wait_head)
  <2>1. state[x] = "none"
    BY DEF TimeInv, ListInv, Born
  <2> QED
    BY <2>1 DEF TimeInv, ListInv, StateIn
<1>2. wait_head \in Seq(Waiters)
  BY DEF TimeInv, ListInv, Shape
<1>3. \A i \in 1 .. Len(wait_head) : wait_head[i] \in Range(wait_head) /\ wait_head[i] \in Waiters
  BY <1>2, InRange
<1> QED
  BY <1>1, <1>3

\* A step that leaves the list alone.
LEMMA SortedQuiet ==
  ASSUME TimeInv, wait_head' = wait_head,
         \A i \in 1 .. Len(wait_head) : target'[wait_head[i]] = target[wait_head[i]]
  PROVE  Sorted'
  BY DEF TimeInv, Sorted

\* add_waiter_to_queue() keeps the list sorted.
LEMMA AddSorted ==
  ASSUME TimeInv, NEW w \in Waiters, AddAction(w)
  PROVE  Sorted'
<1>1. PICK h : h = wait_head
  OBVIOUS
<1>2. PICK r : r = wait_head'
  OBVIOUS
<1>3. target' = target /\ target \in [Waiters -> Nat] /\ h \in Seq(Waiters)
  BY <1>1 DEF AddAction, TimeInv, ListInv, Shape
<1>4. PICK n \in 0 .. Len(h) :
        /\ Len(r) = Len(h) + 1
        /\ \A i \in 1 .. Len(h) + 1 :
              r[i] = IF i <= n THEN h[i] ELSE IF i = n + 1 THEN w ELSE h[i - 1]
        /\ n > 0 => ~After(Word(target[h[n]]), Word(target[w]))
        /\ \A i \in n + 1 .. Len(h) : After(Word(target[h[i]]), Word(target[w]))
  BY <1>1, <1>2, EnterEffect, Zenon DEF TimeInv
<1>5. Len(h) \in Nat /\ \A i \in 1 .. Len(h) : h[i] \in Waiters
  BY <1>3, LenProperties, ElementOfSeq
<1>6. \A v \in Waiters : target[v] \in Start - 1 .. max_val /\ target[v] \in Nat
  BY <1>3, StartAssumption DEF TimeInv, Value, ListInv, Shape
<1>7. n > 0 => target[h[n]] <= target[w]
  <2>1. SUFFICES ASSUME n > 0 PROVE target[h[n]] <= target[w]
    OBVIOUS
  <2>2. h[n] \in Waiters
    BY <1>5, <2>1
  <2>3. ~(target[h[n]] > target[w])
    BY <1>4, <1>6, <2>1, <2>2, InWindow
  <2> QED
    BY <1>6, <2>2, <2>3
<1>8. \A i \in n + 1 .. Len(h) : target[h[i]] > target[w]
  <2>1. TAKE i \in n + 1 .. Len(h)
  <2>2. h[i] \in Waiters
    BY <1>5, <2>1
  <2> QED
    BY <1>4, <1>6, <2>1, <2>2, InWindow
<1>9. \A i, j \in 1 .. Len(h) : i <= j => target[h[i]] <= target[h[j]]
  BY <1>1, Zenon DEF TimeInv, Sorted
<1>10. ASSUME NEW i \in 1 .. Len(r), NEW j \in 1 .. Len(r), i <= j
       PROVE  target[r[i]] <= target[r[j]]
  <2>1. i \in 1 .. Len(h) + 1 /\ j \in 1 .. Len(h) + 1 /\ n \in Nat /\ n <= Len(h)
    BY <1>4, <1>5
  <2>2. CASE j <= n
    <3>1. i \in 1 .. Len(h) /\ j \in 1 .. Len(h) /\ r[i] = h[i] /\ r[j] = h[j]
      BY <1>4, <1>5, <1>10, <2>1, <2>2
    <3> QED
      BY <1>9, <1>10, <3>1
  <2>3. CASE i <= n /\ j = n + 1
    <3>1. n > 0 /\ i \in 1 .. Len(h) /\ n \in 1 .. Len(h) /\ r[i] = h[i] /\ r[j] = w
      BY <1>4, <1>5, <2>1, <2>3
    <3>2. target[h[i]] <= target[h[n]] /\ target[h[n]] <= target[w]
      BY <1>7, <1>9, <2>3, <3>1
    <3>3. target[h[i]] \in Nat /\ target[h[n]] \in Nat /\ target[w] \in Nat
      BY <1>5, <1>6, <3>1
    <3> QED
      BY <3>1, <3>2, <3>3
  <2>4. CASE i <= n /\ j > n + 1
    <3>1. i \in 1 .. Len(h) /\ j - 1 \in 1 .. Len(h) /\ i <= j - 1 /\ r[i] = h[i] /\ r[j] = h[j - 1]
      BY <1>4, <1>5, <2>1, <2>4
    <3> QED
      BY <1>9, <3>1
  <2>5. CASE i = n + 1 /\ j = n + 1
    BY <1>4, <1>6, <2>1, <2>5
  <2>6. CASE i = n + 1 /\ j > n + 1
    <3>1. j - 1 \in n + 1 .. Len(h) /\ j - 1 \in 1 .. Len(h) /\ r[i] = w /\ r[j] = h[j - 1]
      BY <1>4, <1>5, <2>1, <2>6
    <3>2. target[h[j - 1]] > target[w] /\ target[h[j - 1]] \in Nat /\ target[w] \in Nat
      BY <1>5, <1>6, <1>8, <3>1
    <3> QED
      BY <3>1, <3>2
  <2>7. CASE i > n + 1
    <3>1. /\ i - 1 \in 1 .. Len(h) /\ j - 1 \in 1 .. Len(h) /\ i - 1 <= j - 1
          /\ r[i] = h[i - 1] /\ r[j] = h[j - 1]
      BY <1>4, <1>5, <1>10, <2>1, <2>7
    <3> QED
      BY <1>9, <3>1
  <2> QED
    BY <1>10, <2>1, <2>2, <2>3, <2>4, <2>5, <2>6, <2>7
<1>11. \A i, j \in 1 .. Len(wait_head') :
          i <= j => target'[wait_head'[i]] <= target'[wait_head'[j]]
  BY <1>2, <1>3, <1>10, Zenon
<1> QED
  BY <1>11, Zenon DEF Sorted

\* Every step keeps the list sorted.
LEMMA SortedStep ==
  ASSUME TimeInv, [Next]_vars
  PROVE  Sorted'
<1>0. /\ pc \in [Procs \cup Waiters -> PcOf] /\ state \in [Waiters -> States]
      /\ target \in [Waiters -> Nat] /\ min_val \in Nat /\ hw \in Nat /\ max_val \in Nat
      /\ old \in [Procs -> Nat] /\ live \in [Procs -> Nat] /\ Start \in Nat /\ Start > 0
      /\ ret \in [Sleepers -> {None, "ok", "err"}]
      /\ Waiters = Sleepers \cup Others /\ Sleepers \cap Others = {}
      /\ Procs = Sleepers \cup {"isr", "work"} /\ "isr" \notin Waiters /\ "work" \notin Waiters
      /\ Jobs \subseteq Others /\ Fast \cup Slow \subseteq Others /\ Jobs \cap (Fast \cup Slow) = {}
      /\ None \notin Procs /\ None # "ok" /\ Roles /\ Born
  BY Kinds, StartAssumption, WaitersAssumption DEF TimeInv, ListInv, Shape
<1> USE <1>0
<1>1. ASSUME NEW s \in Sleepers, WaitBegin(s) PROVE Sorted'
  <2>1. /\ wait_head' = wait_head /\ s \in Waiters /\ pc[s] = "idle"
        /\ \A w \in Waiters : w # s => target'[w] = target[w]
    BY <1>1, <1>0 DEF WaitBegin, lists, Fence
  <2> QED
    BY <2>1, QueuedKeep, SortedQuiet
<1>2. ASSUME NEW s \in Sleepers, NoTimeout(s) PROVE Sorted'
  <2>1. wait_head' = wait_head /\ target' = target
    BY <1>2 DEF NoTimeout, Goto, sync, lists, waiter, local, CmpXchg
  <2> QED
    BY <2>1, SortedQuiet
<1>3. ASSUME NEW s \in Sleepers, CheckPeriod(s) PROVE Sorted'
  <2>1. wait_head' = wait_head /\ target' = target
    BY <1>3 DEF CheckPeriod, Goto, sync, lists, waiter, local, CmpXchg
  <2> QED
    BY <2>1, SortedQuiet
<1>4. ASSUME NEW s \in Sleepers, GiveUp(s) PROVE Sorted'
  <2>1. wait_head' = wait_head /\ target' = target
    BY <1>4 DEF GiveUp, Goto, sync, lists, waiter, local, CmpXchg
  <2> QED
    BY <2>1, SortedQuiet
<1>5. ASSUME NEW s \in Sleepers, Check(s) PROVE Sorted'
  <2>1. wait_head' = wait_head /\ target' = target
    BY <1>5 DEF Check, Goto, sync, lists, waiter, local, CmpXchg
  <2> QED
    BY <2>1, SortedQuiet
<1>6. ASSUME NEW s \in Sleepers, Woken(s) PROVE Sorted'
  <2>1. wait_head' = wait_head /\ target' = target
    BY <1>6 DEF Woken, Goto, sync, lists, waiter, local, CmpXchg
  <2> QED
    BY <2>1, SortedQuiet
<1>7. ASSUME NEW s \in Sleepers, PutRef(s) PROVE Sorted'
  <2>1. wait_head' = wait_head /\ target' = target
    BY <1>7 DEF PutRef, Goto, sync, lists, waiter, local, CmpXchg
  <2> QED
    BY <2>1, SortedQuiet
<1>8. ASSUME NEW s \in Sleepers, WaitEnd(s) PROVE Sorted'
  <2>1. wait_head' = wait_head /\ target' = target
    BY <1>8 DEF WaitEnd, Goto, sync, lists, waiter, local, CmpXchg
  <2> QED
    BY <2>1, SortedQuiet
<1>9. ASSUME NEW j \in Jobs, Submit(j) PROVE Sorted'
  <2>1. /\ wait_head' = wait_head /\ j \in Waiters /\ pc[j] = "idle"
        /\ \A w \in Waiters : w # j => target'[w] = target[w]
    BY <1>9, <1>0 DEF Submit, lists, Fence
  <2> QED
    BY <2>1, QueuedKeep, SortedQuiet
<1>10. ASSUME NEW n \in Fast \cup Slow, RegisterNotifier(n) PROVE Sorted'
  <2>1. /\ wait_head' = wait_head /\ n \in Waiters /\ pc[n] = "idle"
        /\ \A w \in Waiters : w # n => target'[w] = target[w]
    BY <1>10, <1>0 DEF RegisterNotifier, lists, Fence
  <2> QED
    BY <2>1, QueuedKeep, SortedQuiet
<1>11. ASSUME NEW w \in Waiters, AddAction(w) PROVE Sorted'
  BY <1>11, AddSorted
<1>12. ASSUME NEW p \in Procs, UpdateRead(p) PROVE Sorted'
  <2>1. wait_head' = wait_head /\ target' = target
    BY <1>12 DEF UpdateRead, Goto, sync, lists, waiter, local, CmpXchg
  <2> QED
    BY <2>1, SortedQuiet
<1>13. ASSUME NEW p \in Procs, UpdateAgain(p) PROVE Sorted'
  <2>1. wait_head' = wait_head /\ target' = target
    BY <1>13 DEF UpdateAgain, Goto, sync, lists, waiter, local, CmpXchg
  <2> QED
    BY <2>1, SortedQuiet
<1>14. ASSUME NEW p \in Procs, ProcessRead(p) PROVE Sorted'
  <2>1. wait_head' = wait_head /\ target' = target
    BY <1>14 DEF ProcessRead, Goto, sync, lists, waiter, local, CmpXchg
  <2> QED
    BY <2>1, SortedQuiet
<1>15. ASSUME NEW p \in Procs, RemoveCompleted(p) PROVE Sorted'
  <2>1. PICK h : h = wait_head
    OBVIOUS
  <2>2. PICK r : r = wait_head'
    OBVIOUS
  <2>3. h \in Seq(Waiters) /\ h # <<>> /\ r = Tail(h) /\ target' = target
    BY <1>15, <2>1, <2>2 DEF RemoveCompleted, Completed, TimeInv, ListInv, Shape
  <2>4. Len(h) \in Nat /\ Len(r) = Len(h) - 1 /\ \A i \in 1 .. Len(r) : r[i] = h[i + 1]
    BY <2>3, HeadTailProperties, LenProperties, EmptySeq
  <2>5. \A i, j \in 1 .. Len(h) : i <= j => target[h[i]] <= target[h[j]]
    BY <2>1, Zenon DEF TimeInv, Sorted
  <2>6. ASSUME NEW i \in 1 .. Len(r), NEW j \in 1 .. Len(r), i <= j
        PROVE  target[r[i]] <= target[r[j]]
    <3>1. i + 1 \in 1 .. Len(h) /\ j + 1 \in 1 .. Len(h) /\ i + 1 <= j + 1
      BY <2>4, <2>6
    <3> QED
      BY <2>4, <2>5, <3>1
  <2>7. \A i, j \in 1 .. Len(wait_head') :
          i <= j => target'[wait_head'[i]] <= target'[wait_head'[j]]
    BY <2>2, <2>3, <2>6, Zenon
  <2> QED
    BY <2>7, Zenon DEF Sorted
<1>16. ASSUME NEW p \in Procs, Rearm(p) PROVE Sorted'
  <2>1. wait_head' = wait_head /\ target' = target
    BY <1>16 DEF Rearm, Goto, sync, lists, waiter, local, CmpXchg
  <2> QED
    BY <2>1, SortedQuiet
<1>17. ASSUME NEW p \in Procs, RunHandler(p) PROVE Sorted'
  <2>1. wait_head' = wait_head /\ target' = target
    BY <1>17 DEF RunHandler, Goto, sync, lists, waiter, local, CmpXchg
  <2> QED
    BY <2>1, SortedQuiet
<1>18. ASSUME NEW p \in Procs, PutHandled(p) PROVE Sorted'
  <2>1. wait_head' = wait_head /\ target' = target
    BY <1>18 DEF PutHandled, Goto, sync, lists, waiter, local, CmpXchg
  <2> QED
    BY <2>1, SortedQuiet
<1>19. ASSUME NEW p \in Procs, RunDone(p) PROVE Sorted'
  <2>1. wait_head' = wait_head /\ target' = target
    BY <1>19 DEF RunDone, Goto, sync, lists, waiter, local, CmpXchg
  <2> QED
    BY <2>1, SortedQuiet
<1>20. ASSUME NEW p \in Procs, Lock(p) PROVE Sorted'
  <2>1. wait_head' = wait_head /\ target' = target
    BY <1>20 DEF Lock, Goto, sync, lists, waiter, local, CmpXchg
  <2> QED
    BY <2>1, SortedQuiet
<1>21. CASE LowPrioWork
  <2>1. wait_head' = wait_head /\ target' = target
    BY <1>21 DEF LowPrioWork, Goto, sync, lists, waiter, local, CmpXchg
  <2> QED
    BY <2>1, SortedQuiet
<1>22. CASE ThreshIsr
  <2>1. wait_head' = wait_head /\ target' = target
    BY <1>22 DEF ThreshIsr, Goto, sync, lists, waiter, local, CmpXchg
  <2> QED
    BY <2>1, SortedQuiet
<1>23. CASE HwIncr
  <2>1. wait_head' = wait_head /\ target' = target
    BY <1>23 DEF HwIncr, Goto, sync, lists, waiter, local, CmpXchg
  <2> QED
    BY <2>1, SortedQuiet
<1>24. CASE PowerCycle
  <2>1. wait_head' = wait_head /\ target' = target
    BY <1>24 DEF PowerCycle, Goto, sync, lists, waiter, local, CmpXchg
  <2> QED
    BY <2>1, SortedQuiet
<1>25. CASE UNCHANGED vars
  BY <1>25, SortedQuiet DEF vars, sync, regs, lists, waiter, local
<1> QED
  BY <1>1, <1>2, <1>3, <1>4, <1>5, <1>6, <1>7, <1>8, <1>9, <1>10, <1>11, <1>12,
     <1>13, <1>14, <1>15, <1>16, <1>17, <1>18, <1>19, <1>20, <1>21, <1>22,
     <1>23, <1>24, <1>25
     DEF Next, Process, Wait

\* A step that leaves the list and the interrupt alone.
LEMMA ArmedQuiet ==
  ASSUME TimeInv, wait_head' = wait_head, thresh' = thresh, enabled' = enabled,
         \A i \in 1 .. Len(wait_head) : target'[wait_head[i]] = target[wait_head[i]],
         lock' = None => lock = None,
         pc'["isr"] \notin {"process", "process_cas", "lock"} =>
            pc["isr"] \notin {"process", "process_cas", "lock"}
  PROVE  Armed'
<1>1. SUFFICES ASSUME wait_head # <<>>, lock = None,
                      pc["isr"] \notin {"process", "process_cas", "lock"}
               PROVE  enabled' /\ thresh' = Word(target'[Head(wait_head)])
  BY Zenon DEF Armed
<1>2. wait_head \in Seq(Waiters)
  BY DEF TimeInv, ListInv, Shape
<1>3. Head(wait_head) = wait_head[1] /\ 1 \in 1 .. Len(wait_head)
  BY <1>1, <1>2, HeadTailProperties, LenProperties, EmptySeq
<1>4. enabled /\ thresh = Word(target[Head(wait_head)])
  BY <1>1, Zenon DEF TimeInv, Armed
<1>5. target'[Head(wait_head)] = target[Head(wait_head)]
  BY <1>3
<1> QED
  BY <1>4, <1>5

\* nvhost_intr_add_action() sets the interrupt up for a new first waiter.
LEMMA AddArmed ==
  ASSUME TimeInv, NEW w \in Waiters, AddAction(w)
  PROVE  Armed'
<1>1. PICK h : h = wait_head
  OBVIOUS
<1>2. PICK r : r = wait_head'
  OBVIOUS
<1>3. /\ target' = target /\ h \in Seq(Waiters) /\ lock' = lock /\ pc'["isr"] = pc["isr"]
  BY <1>1, Kinds DEF AddAction, Goto, TimeInv, ListInv, Shape
<1>4. /\ thresh' = IF Head(r) = w THEN Word(target[w]) ELSE thresh
      /\ enabled' = (enabled \/ h = <<>>)
  BY <1>1, <1>2, Zenon DEF AddAction
<1>5. PICK n \in 0 .. Len(h) :
        /\ Len(r) = Len(h) + 1
        /\ \A i \in 1 .. Len(h) + 1 :
              r[i] = IF i <= n THEN h[i] ELSE IF i = n + 1 THEN w ELSE h[i - 1]
        /\ n > 0 => ~After(Word(target[h[n]]), Word(target[w]))
        /\ \A i \in n + 1 .. Len(h) : After(Word(target[h[i]]), Word(target[w]))
  BY <1>1, <1>2, EnterEffect, Zenon DEF TimeInv
<1>6. r \in Seq(Waiters)
  BY <1>2, EnterEffect, Zenon DEF TimeInv
<1>7. Len(h) \in Nat /\ r # <<>> /\ Head(r) = r[1]
  BY <1>3, <1>5, <1>6, HeadTailProperties, LenProperties, EmptySeq
<1>8. SUFFICES ASSUME lock = None, pc["isr"] \notin {"process", "process_cas", "lock"}
               PROVE  enabled' /\ thresh' = Word(target[Head(r)])
  BY <1>2, <1>3, Zenon DEF Armed
<1>9. h # <<>> => enabled /\ thresh = Word(target[Head(h)])
  BY <1>1, <1>8, Zenon DEF TimeInv, Armed
<1>10. enabled'
  BY <1>4, <1>9, Zenon
<1>11. Head(r) # w => h # <<>> /\ Head(r) = Head(h)
  <2>1. SUFFICES ASSUME r[1] # w PROVE h # <<>> /\ r[1] = Head(h)
    BY <1>7
  <2>2. n > 0
    BY <1>5, <1>7, <2>1
  <2>3. r[1] = h[1] /\ Len(h) > 0
    BY <1>5, <1>7, <2>2
  <2>4. h # <<>>
    BY <1>3, <1>7, <2>3, EmptySeq
  <2> QED
    BY <1>3, <2>3, <2>4, HeadTailProperties
<1>12. thresh' = Word(target[Head(r)])
  <2>1. CASE Head(r) = w
    BY <1>4, <2>1, Zenon
  <2>2. CASE Head(r) # w
    <3>1. thresh' = thresh
      BY <1>4, <2>2, Zenon
    <3> QED
      BY <1>9, <1>11, <2>2, <3>1, Zenon
  <2> QED
    BY <2>1, <2>2
<1> QED
  BY <1>10, <1>12

\* Every step leaves the interrupt set up for the first waiter.
LEMMA ArmedStep ==
  ASSUME TimeInv, [Next]_vars
  PROVE  Armed'
<1>0. /\ pc \in [Procs \cup Waiters -> PcOf] /\ state \in [Waiters -> States]
      /\ target \in [Waiters -> Nat] /\ min_val \in Nat /\ hw \in Nat /\ max_val \in Nat
      /\ old \in [Procs -> Nat] /\ live \in [Procs -> Nat] /\ Start \in Nat /\ Start > 0
      /\ ret \in [Sleepers -> {None, "ok", "err"}]
      /\ Waiters = Sleepers \cup Others /\ Sleepers \cap Others = {}
      /\ Procs = Sleepers \cup {"isr", "work"} /\ "isr" \notin Waiters /\ "work" \notin Waiters
      /\ Jobs \subseteq Others /\ Fast \cup Slow \subseteq Others /\ Jobs \cap (Fast \cup Slow) = {}
      /\ None \notin Procs /\ None # "ok" /\ Roles /\ Born
  BY Kinds, StartAssumption, WaitersAssumption DEF TimeInv, ListInv, Shape
<1> USE <1>0
<1>1. ASSUME NEW s \in Sleepers, WaitBegin(s) PROVE Armed'
  <2>1. /\ UNCHANGED <<wait_head, thresh, enabled, lock>> /\ s \in Waiters /\ pc[s] = "idle"
        /\ pc'["isr"] = pc["isr"]
        /\ \A w \in Waiters : w # s => target'[w] = target[w]
    BY <1>1, <1>0 DEF WaitBegin, lists, regs, Fence, Goto
  <2> QED
    BY <2>1, QueuedKeep, ArmedQuiet
<1>2. ASSUME NEW s \in Sleepers, NoTimeout(s) PROVE Armed'
  <2>1. /\ UNCHANGED <<wait_head, thresh, enabled, lock, target>>
        /\ pc'["isr"] \notin {"process", "process_cas", "lock"} =>
              pc["isr"] \notin {"process", "process_cas", "lock"}
    BY <1>2 DEF NoTimeout, Goto, sync, regs, lists, waiter, local, CmpXchg
  <2> QED
    BY <2>1, ArmedQuiet
<1>3. ASSUME NEW s \in Sleepers, CheckPeriod(s) PROVE Armed'
  <2>1. /\ UNCHANGED <<wait_head, thresh, enabled, lock, target>>
        /\ pc'["isr"] \notin {"process", "process_cas", "lock"} =>
              pc["isr"] \notin {"process", "process_cas", "lock"}
    BY <1>3 DEF CheckPeriod, Goto, sync, regs, lists, waiter, local, CmpXchg
  <2> QED
    BY <2>1, ArmedQuiet
<1>4. ASSUME NEW s \in Sleepers, GiveUp(s) PROVE Armed'
  <2>1. /\ UNCHANGED <<wait_head, thresh, enabled, lock, target>>
        /\ pc'["isr"] \notin {"process", "process_cas", "lock"} =>
              pc["isr"] \notin {"process", "process_cas", "lock"}
    BY <1>4 DEF GiveUp, Goto, sync, regs, lists, waiter, local, CmpXchg
  <2> QED
    BY <2>1, ArmedQuiet
<1>5. ASSUME NEW s \in Sleepers, Check(s) PROVE Armed'
  <2>1. /\ UNCHANGED <<wait_head, thresh, enabled, lock, target>>
        /\ pc'["isr"] \notin {"process", "process_cas", "lock"} =>
              pc["isr"] \notin {"process", "process_cas", "lock"}
    BY <1>5 DEF Check, Goto, sync, regs, lists, waiter, local, CmpXchg
  <2> QED
    BY <2>1, ArmedQuiet
<1>6. ASSUME NEW s \in Sleepers, Woken(s) PROVE Armed'
  <2>1. /\ UNCHANGED <<wait_head, thresh, enabled, lock, target>>
        /\ pc'["isr"] \notin {"process", "process_cas", "lock"} =>
              pc["isr"] \notin {"process", "process_cas", "lock"}
    BY <1>6 DEF Woken, Goto, sync, regs, lists, waiter, local, CmpXchg
  <2> QED
    BY <2>1, ArmedQuiet
<1>7. ASSUME NEW s \in Sleepers, PutRef(s) PROVE Armed'
  <2>1. /\ UNCHANGED <<wait_head, thresh, enabled, lock, target>>
        /\ pc'["isr"] \notin {"process", "process_cas", "lock"} =>
              pc["isr"] \notin {"process", "process_cas", "lock"}
    BY <1>7 DEF PutRef, Goto, sync, regs, lists, waiter, local, CmpXchg
  <2> QED
    BY <2>1, ArmedQuiet
<1>8. ASSUME NEW s \in Sleepers, WaitEnd(s) PROVE Armed'
  <2>1. /\ UNCHANGED <<wait_head, thresh, enabled, lock, target>>
        /\ pc'["isr"] \notin {"process", "process_cas", "lock"} =>
              pc["isr"] \notin {"process", "process_cas", "lock"}
    BY <1>8 DEF WaitEnd, Goto, sync, regs, lists, waiter, local, CmpXchg
  <2> QED
    BY <2>1, ArmedQuiet
<1>9. ASSUME NEW j \in Jobs, Submit(j) PROVE Armed'
  <2>1. /\ UNCHANGED <<wait_head, thresh, enabled, lock>> /\ j \in Waiters /\ pc[j] = "idle"
        /\ pc'["isr"] = pc["isr"]
        /\ \A w \in Waiters : w # j => target'[w] = target[w]
    BY <1>9, <1>0 DEF Submit, lists, regs, Fence, Goto
  <2> QED
    BY <2>1, QueuedKeep, ArmedQuiet
<1>10. ASSUME NEW n \in Fast \cup Slow, RegisterNotifier(n) PROVE Armed'
  <2>1. /\ UNCHANGED <<wait_head, thresh, enabled, lock>> /\ n \in Waiters /\ pc[n] = "idle"
        /\ pc'["isr"] = pc["isr"]
        /\ \A w \in Waiters : w # n => target'[w] = target[w]
    BY <1>10, <1>0 DEF RegisterNotifier, lists, regs, Fence, Goto
  <2> QED
    BY <2>1, QueuedKeep, ArmedQuiet
<1>11. ASSUME NEW w \in Waiters, AddAction(w) PROVE Armed'
  BY <1>11, AddArmed
<1>12. ASSUME NEW p \in Procs, UpdateRead(p) PROVE Armed'
  <2>1. /\ UNCHANGED <<wait_head, thresh, enabled, lock, target>>
        /\ pc'["isr"] \notin {"process", "process_cas", "lock"} =>
              pc["isr"] \notin {"process", "process_cas", "lock"}
    BY <1>12 DEF UpdateRead, Goto, sync, regs, lists, waiter, local, CmpXchg
  <2> QED
    BY <2>1, ArmedQuiet
<1>13. ASSUME NEW p \in Procs, UpdateAgain(p) PROVE Armed'
  <2>1. /\ UNCHANGED <<wait_head, thresh, enabled, lock, target>>
        /\ pc'["isr"] \notin {"process", "process_cas", "lock"} =>
              pc["isr"] \notin {"process", "process_cas", "lock"}
    BY <1>13 DEF UpdateAgain, Goto, sync, regs, lists, waiter, local, CmpXchg
  <2> QED
    BY <2>1, ArmedQuiet
<1>14. ASSUME NEW p \in Procs, ProcessRead(p) PROVE Armed'
  <2>1. /\ UNCHANGED <<wait_head, thresh, enabled, lock, target>>
        /\ pc'["isr"] \notin {"process", "process_cas", "lock"} =>
              pc["isr"] \notin {"process", "process_cas", "lock"}
    BY <1>14 DEF ProcessRead, Goto, sync, regs, lists, waiter, local, CmpXchg
  <2> QED
    BY <2>1, ArmedQuiet
<1>15. ASSUME NEW p \in Procs, RemoveCompleted(p) PROVE Armed'
  <2>1. pc[p] = "scan" /\ lock' = lock
    BY <1>15 DEF RemoveCompleted
  <2>2. lock' # None
    BY <1>0, <2>1 DEF Roles
  <2> QED
    BY <2>2, Zenon DEF Armed
<1>16. ASSUME NEW p \in Procs, Rearm(p) PROVE Armed'
  <2>1. /\ UNCHANGED <<wait_head, target>> /\ enabled' = (wait_head # <<>>)
        /\ thresh' = IF wait_head = <<>> THEN thresh ELSE Word(target[Head(wait_head)])
    BY <1>16 DEF Rearm, lists, waiter
  <2> QED
    BY <2>1, Zenon DEF Armed
<1>17. ASSUME NEW p \in Procs, RunHandler(p) PROVE Armed'
  <2>1. /\ UNCHANGED <<wait_head, thresh, enabled, lock, target>>
        /\ pc'["isr"] \notin {"process", "process_cas", "lock"} =>
              pc["isr"] \notin {"process", "process_cas", "lock"}
    BY <1>17 DEF RunHandler, Goto, sync, regs, lists, waiter, local, CmpXchg
  <2> QED
    BY <2>1, ArmedQuiet
<1>18. ASSUME NEW p \in Procs, PutHandled(p) PROVE Armed'
  <2>1. /\ UNCHANGED <<wait_head, thresh, enabled, lock, target>>
        /\ pc'["isr"] \notin {"process", "process_cas", "lock"} =>
              pc["isr"] \notin {"process", "process_cas", "lock"}
    BY <1>18 DEF PutHandled, Goto, sync, regs, lists, waiter, local, CmpXchg
  <2> QED
    BY <2>1, ArmedQuiet
<1>19. ASSUME NEW p \in Procs, RunDone(p) PROVE Armed'
  <2>1. /\ UNCHANGED <<wait_head, thresh, enabled, lock, target>>
        /\ pc'["isr"] \notin {"process", "process_cas", "lock"} =>
              pc["isr"] \notin {"process", "process_cas", "lock"}
    BY <1>19 DEF RunDone, Goto, sync, regs, lists, waiter, local, CmpXchg
  <2> QED
    BY <2>1, ArmedQuiet
<1>20. ASSUME NEW p \in Procs, Lock(p) PROVE Armed'
  <2>1. lock' # None
    BY <1>20, <1>0 DEF Lock
  <2> QED
    BY <2>1, Zenon DEF Armed
<1>21. CASE LowPrioWork
  <2>1. /\ UNCHANGED <<wait_head, thresh, enabled, lock, target>>
        /\ pc'["isr"] \notin {"process", "process_cas", "lock"} =>
              pc["isr"] \notin {"process", "process_cas", "lock"}
    BY <1>21 DEF LowPrioWork, Goto, sync, regs, lists, waiter, local, CmpXchg
  <2> QED
    BY <2>1, ArmedQuiet
<1>22. CASE ThreshIsr
  <2>1. pc'["isr"] = "process"
    BY <1>22, <1>0 DEF ThreshIsr, Goto
  <2> QED
    BY <2>1 DEF Armed
<1>23. CASE HwIncr
  <2>1. /\ UNCHANGED <<wait_head, thresh, enabled, lock, target>>
        /\ pc'["isr"] \notin {"process", "process_cas", "lock"} =>
              pc["isr"] \notin {"process", "process_cas", "lock"}
    BY <1>23 DEF HwIncr, Goto, sync, regs, lists, waiter, local, CmpXchg
  <2> QED
    BY <2>1, ArmedQuiet
<1>24. CASE PowerCycle
  <2>1. /\ UNCHANGED <<wait_head, thresh, enabled, lock, target>>
        /\ pc'["isr"] \notin {"process", "process_cas", "lock"} =>
              pc["isr"] \notin {"process", "process_cas", "lock"}
    BY <1>24 DEF PowerCycle, Goto, sync, regs, lists, waiter, local, CmpXchg
  <2> QED
    BY <2>1, ArmedQuiet
<1>25. CASE UNCHANGED vars
  BY <1>25, ArmedQuiet DEF vars, sync, regs, lists, waiter, local
<1> QED
  BY <1>1, <1>2, <1>3, <1>4, <1>5, <1>6, <1>7, <1>8, <1>9, <1>10, <1>11, <1>12,
     <1>13, <1>14, <1>15, <1>16, <1>17, <1>18, <1>19, <1>20, <1>21, <1>22,
     <1>23, <1>24, <1>25
     DEF Next, Process, Wait

-----------------------------------------------------------------------------
(***************************************************************************)
(* The theorems about the values.                                          *)
(***************************************************************************)

\* At boot nothing has happened.
LEMMA TimeInit ==
  ASSUME Init
  PROVE  TimeInv
<1>1. ListInv /\ UseInv
  BY ListInit, UseInit
<1>2. Start \in Nat /\ Start > 0 /\ hw = Start /\ min_val = Start /\ max_val = Start
  BY StartAssumption DEF Init
<1>3. Submitted = {}
  BY Kinds DEF Init, Submitted
<1>4. Value
  <2>1. Cardinality(Submitted) = 0
    BY <1>3, FS_EmptySet
  <2>2. \A w \in Waiters : target[w] = Start
    BY DEF Init
  <2> QED
    BY <1>2, <2>1, <2>2 DEF Value
<1>5. Reading
  BY DEF Init, Reading
<1>6. Passed
  BY Kinds DEF Init, Passed, Over
<1>7. Sorted /\ Armed
  BY DEF Init, Sorted, Armed
<1> QED
  BY <1>1, <1>4, <1>5, <1>6, <1>7 DEF TimeInv

\* The whole invariant holds in every state.
LEMMA TimeInvariance == Spec => []TimeInv
<1>1. Init => TimeInv
  BY TimeInit
<1>2. TimeInv /\ [Next]_vars => TimeInv'
  <2>1. SUFFICES ASSUME TimeInv, [Next]_vars PROVE TimeInv'
    OBVIOUS
  <2>2. ListInv' /\ UseInv'
    BY <2>1, ListStep, UseStep DEF TimeInv
  <2> QED
    BY <2>1, <2>2, ValueStep, ReadingStep, PassedStep, SortedStep, ArmedStep DEF TimeInv
<1> QED
  BY <1>1, <1>2, PTL DEF Spec

\* No handler and no caller of nvhost_syncpt_wait_timeout() is told of a threshold
\* that the register has not reached, whatever the number of waiters and jobs, and
\* across a wrap of the syncpoint (remove_completed_waiters(),
\* nvhost_syncpt_is_expired()).
THEOREM NobodyIsEarly == Spec => []NothingEarly
<1>1. ASSUME TimeInv PROVE NothingEarly
  <2>1. /\ min_val \in Nat /\ hw \in Nat /\ min_val <= hw /\ target \in [Waiters -> Nat]
        /\ Sleepers \subseteq Waiters /\ Passed
    BY <1>1, Kinds DEF TimeInv, Value, ListInv, Shape
  <2>2. \A w \in Waiters : target[w] <= min_val => hw >= target[w]
    BY <2>1
  <2>3. \A w \in Waiters : state[w] \in {"removed", "handled"} => hw >= target[w]
    BY <2>1, <2>2 DEF Passed, Over
  <2>4. \A s \in Sleepers : ret[s] = "ok" => hw >= target[s]
    BY <2>1, <2>2 DEF Passed
  <2> QED
    BY <2>3, <2>4 DEF NothingEarly
<1> QED
  BY <1>1, TimeInvariance, PTL

\* The interrupt is never lost: while a waiter waits and nobody is about to set it
\* up, it is enabled for the earliest threshold (nvhost_intr_add_action(),
\* process_wait_list(), syncpt_thresh_cascade_isr()).
THEOREM InterruptIsArmed == Spec => []InterruptArmed
<1>1. ASSUME TimeInv PROVE InterruptArmed
  <2>1. SUFFICES ASSUME wait_head # <<>>, lock = None,
                        pc["isr"] \notin {"process", "process_cas", "lock"}
                 PROVE  /\ enabled
                        /\ \A i \in DOMAIN wait_head :
                              target[wait_head[i]] >= target[Head(wait_head)]
                        /\ thresh = Word(target[Head(wait_head)])
    BY Zenon DEF InterruptArmed
  <2>2. enabled /\ thresh = Word(target[Head(wait_head)])
    BY <1>1, <2>1, Zenon DEF TimeInv, Armed
  <2>3. wait_head \in Seq(Waiters) /\ target \in [Waiters -> Nat]
    BY <1>1 DEF TimeInv, ListInv, Shape
  <2>4. /\ DOMAIN wait_head = 1 .. Len(wait_head) /\ 1 \in 1 .. Len(wait_head)
        /\ Len(wait_head) \in Nat /\ Head(wait_head) = wait_head[1]
        /\ \A i \in 1 .. Len(wait_head) : wait_head[i] \in Waiters
    BY <2>1, <2>3, HeadTailProperties, LenProperties, EmptySeq, ElementOfSeq
  <2>5. ASSUME NEW i \in 1 .. Len(wait_head)
        PROVE  target[wait_head[i]] >= target[wait_head[1]]
    <3>1. target[wait_head[1]] <= target[wait_head[i]]
      BY <1>1, <2>4 DEF TimeInv, Sorted
    <3> QED
      BY <2>3, <2>4, <3>1
  <2> QED
    BY <2>2, <2>4, <2>5
<1> QED
  BY <1>1, TimeInvariance, PTL

\* The host loses power only when all is at rest and the shadow, from which
\* nvhost_syncpt_reset() restores the register, is its value: every submitted job
\* has been waited for (nvhost_module_busy(), power_on_host()).
THEOREM PowerOffIsSafe == Spec => []PowerOffSafe
<1>1. ASSUME TimeInv PROVE PowerOffSafe
  <2>1. SUFFICES ASSUME busy = 0 PROVE AtRest /\ min_val = hw
    BY DEF PowerOffSafe
  <2>2. AtRest
    BY <1>1, <2>1, RestIffUnused DEF TimeInv
  <2>3. /\ min_val \in Nat /\ hw \in Nat /\ max_val \in Nat /\ Start \in Nat
        /\ Start <= min_val /\ min_val <= hw /\ hw <= max_val
    BY <1>1, StartAssumption DEF TimeInv, Value, ListInv, Shape
  <2>4. max_val <= min_val
    <3>1. CASE max_val = Start
      BY <2>3, <3>1
    <3>2. ASSUME NEW j \in Jobs, pc[j] # "idle", target[j] = max_val PROVE max_val <= min_val
      <4>1. j \in Waiters /\ j \in Others
        BY Kinds
      <4>2. pc[j] = "added"
        BY <1>1, <2>2, <3>2, <4>1 DEF AtRest, TimeInv, ListInv, Roles
      <4>3. state[j] = "freed"
        BY <1>1, <2>2, <4>1, <4>2 DEF AtRest, TimeInv, ListInv, Born
      <4> QED
        BY <1>1, <3>2, <4>1, <4>3 DEF TimeInv, Passed, Over
    <3> QED
      BY <1>1, <3>1, <3>2 DEF TimeInv, Value
  <2> QED
    BY <2>2, <2>3, <2>4
<1> QED
  BY <1>1, TimeInvariance, PTL

\* The shadow never goes back, with any number of threads in
\* t20_syncpt_update_min() and the interrupt that stores what it has read.
THEOREM ShadowNeverGoesBack == Spec => MinNeverBack
<1>1. TimeInv /\ [Next]_vars => [min_val' >= min_val]_vars
  <2>1. SUFFICES ASSUME TimeInv, [Next]_vars PROVE min_val' >= min_val
    OBVIOUS
  <2>2. min_val \in Nat
    BY <2>1 DEF TimeInv, ListInv, Shape
  <2> QED
    BY <2>1, <2>2, MinStep
<1> QED
  BY <1>1, TimeInvariance, PTL DEF Spec, MinNeverBack

=============================================================================
