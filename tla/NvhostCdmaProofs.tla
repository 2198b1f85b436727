-------------------------- MODULE NvhostCdmaProofs --------------------------
(***************************************************************************)
(* Proofs about NvhostCdma, for every number and length of jobs, every     *)
(* size of the push buffer and width of the syncpoint: the jobs in the     *)
(* push buffer, the sync queue and the timer.  That the work queue has one *)
(* thread (WorkerAssumption) is not used: several would do no harm.        *)
(***************************************************************************)
EXTENDS NvhostCdma, NvhostOrderProofs, SequenceTheorems, FiniteSetTheorems

P == PushBufferSize

-----------------------------------------------------------------------------
(***************************************************************************)
(* The push buffer is a ring.                                              *)
(***************************************************************************)

\* Distance of slot x from the first slot in use, the one behind the fence.
Dist(f, x) == (x - f - 1) % P

\* The remainder by the size of the ring.
LEMMA Turn ==
  ASSUME NEW x \in Int, - P <= x, x < 2 * P
  PROVE  x % P = IF x < 0 THEN x + P ELSE IF x < P THEN x ELSE x - P
<1>0. P \in Nat /\ P > 1
  BY BufferAssumption DEF P
<1>1. ASSUME NEW q \in Int, NEW r \in 0 .. P - 1, x = P * q + r PROVE x % P = r
  <2>1. x \div P \in Int /\ x % P \in 0 .. P - 1 /\ x = P * (x \div P) + (x % P)
    BY <1>0
  <2>2. \A d \in Int, s \in 0 .. P - 1 : P * q + r = P * d + s => r = s
    BY <1>0, <1>1
  <2> QED
    BY <1>1, <2>1, <2>2
<1>2. CASE x < 0
  <2>1. x = P * (-1) + (x + P) /\ x + P \in 0 .. P - 1
    BY <1>0, <1>2
  <2> QED
    BY <1>1, <1>2, <2>1
<1>3. CASE 0 <= x /\ x < P
  <2>1. x = P * 0 + x /\ x \in 0 .. P - 1
    BY <1>0, <1>3
  <2> QED
    BY <1>1, <1>3, <2>1
<1>4. CASE P <= x
  <2>1. x = P * 1 + (x - P) /\ x - P \in 0 .. P - 1
    BY <1>0, <1>4
  <2> QED
    BY <1>0, <1>1, <1>4, <2>1
<1> QED
  BY <1>0, <1>2, <1>3, <1>4

\* Distances are linear within the ring: of a slot further on, after the fence has
\* moved, and nvhost_push_buffer_space().
LEMMA Ring ==
  ASSUME NEW f \in 0 .. P - 1, NEW x \in 0 .. P - 1
  PROVE  /\ Dist(f, x) \in 0 .. P - 1
         /\ Dist(f, x) = IF x <= f THEN x - f - 1 + P ELSE x - f - 1
         /\ \A k \in Nat : Dist(f, x) + k < P =>
               (x + k) % P \in 0 .. P - 1 /\ Dist(f, (x + k) % P) = Dist(f, x) + k
         /\ \A s \in Nat : s <= Dist(f, x) =>
               (f + s) % P \in 0 .. P - 1 /\ Dist((f + s) % P, x) = Dist(f, x) - s
         /\ \A y \in 0 .. P - 1 : Dist(f, x) = Dist(f, y) => x = y
         /\ (f - x) % P = P - 1 - Dist(f, x)
         /\ (x - f) % P = IF Dist(f, x) = P - 1 THEN 0 ELSE Dist(f, x) + 1
<1>0. P \in Nat /\ P > 1 /\ f \in Nat /\ x \in Nat
  BY BufferAssumption DEF P
<1>1. \A g \in 0 .. P - 1, y \in 0 .. P - 1 :
         /\ Dist(g, y) = IF y <= g THEN y - g - 1 + P ELSE y - g - 1
         /\ Dist(g, y) \in 0 .. P - 1
  <2> TAKE g \in 0 .. P - 1, y \in 0 .. P - 1
  <2>1. y - g - 1 \in Int /\ - P <= y - g - 1 /\ y - g - 1 < P /\ P < 2 * P
    BY <1>0
  <2>2. (y - g - 1) % P = IF y - g - 1 < 0 THEN y - g - 1 + P
                          ELSE IF y - g - 1 < P THEN y - g - 1 ELSE y - g - 1 - P
    <3>1. y - g - 1 < 2 * P
      BY <1>0, <2>1
    <3> QED
      BY <2>1, <3>1, Turn
  <2>3. (y - g - 1) % P = IF y <= g THEN y - g - 1 + P ELSE y - g - 1
    BY <1>0, <2>1, <2>2
  <2> QED
    BY <1>0, <2>1, <2>3 DEF Dist
<1>2. \A a \in 0 .. P - 1, k \in 0 .. P - 1 :
         (a + k) % P = IF a + k < P THEN a + k ELSE a + k - P
  <2> TAKE a \in 0 .. P - 1, k \in 0 .. P - 1
  <2>1. PICK z \in Int : z = a + k
    BY <1>0
  <2>2. - P <= z /\ z < 2 * P /\ ~(z < 0)
    BY <1>0, <2>1
  <2>3. z % P = IF z < P THEN z ELSE z - P
    BY <2>2, Turn
  <2> QED
    BY <1>0, <2>1, <2>3
<1>a. /\ Dist(f, x) = IF x <= f THEN x - f - 1 + P ELSE x - f - 1
      /\ Dist(f, x) \in 0 .. P - 1
  BY <1>1
<1>3. ASSUME NEW k \in Nat, Dist(f, x) + k < P
      PROVE  (x + k) % P \in 0 .. P - 1 /\ Dist(f, (x + k) % P) = Dist(f, x) + k
  <2>1. k \in 0 .. P - 1
    BY <1>0, <1>a, <1>3
  <2>2. PICK y : y = (x + k) % P
    OBVIOUS
  <2>3. y = IF x + k < P THEN x + k ELSE x + k - P
    BY <1>2, <2>1, <2>2
  <2>4. y \in 0 .. P - 1
    BY <1>0, <2>1, <2>3
  <2>5. Dist(f, y) = IF y <= f THEN y - f - 1 + P ELSE y - f - 1
    BY <1>1, <2>4
  <2>6. Dist(f, y) = Dist(f, x) + k
    BY <1>0, <1>a, <1>3, <2>1, <2>3, <2>4, <2>5
  <2> QED
    BY <2>2, <2>4, <2>6
<1>4. ASSUME NEW s \in Nat, s <= Dist(f, x)
      PROVE  (f + s) % P \in 0 .. P - 1 /\ Dist((f + s) % P, x) = Dist(f, x) - s
  <2>1. s \in 0 .. P - 1
    BY <1>0, <1>a, <1>4
  <2>2. PICK g : g = (f + s) % P
    OBVIOUS
  <2>3. g = IF f + s < P THEN f + s ELSE f + s - P
    BY <1>2, <2>1, <2>2
  <2>4. g \in 0 .. P - 1
    BY <1>0, <2>1, <2>3
  <2>5. Dist(g, x) = IF x <= g THEN x - g - 1 + P ELSE x - g - 1
    BY <1>1, <2>4
  <2>6. Dist(g, x) = Dist(f, x) - s
    BY <1>0, <1>a, <1>4, <2>1, <2>3, <2>4, <2>5
  <2> QED
    BY <2>2, <2>4, <2>6
<1>5. ASSUME NEW y \in 0 .. P - 1, Dist(f, x) = Dist(f, y) PROVE x = y
  <2>1. Dist(f, y) = IF y <= f THEN y - f - 1 + P ELSE y - f - 1
    BY <1>1
  <2> QED
    BY <1>0, <1>a, <1>5, <2>1
<1>6. (f - x) % P = P - 1 - Dist(f, x)
  <2>1. f - x \in Int /\ - P <= f - x /\ f - x < P /\ f - x < 2 * P
    BY <1>0
  <2>2. (f - x) % P = IF f - x < 0 THEN f - x + P ELSE f - x
    BY <2>1, Turn
  <2> QED
    BY <1>0, <1>a, <2>2
<1>7. (x - f) % P = IF Dist(f, x) = P - 1 THEN 0 ELSE Dist(f, x) + 1
  <2>1. x - f \in Int /\ - P <= x - f /\ x - f < P /\ x - f < 2 * P
    BY <1>0
  <2>2. (x - f) % P = IF x - f < 0 THEN x - f + P ELSE x - f
    BY <2>1, Turn
  <2> QED
    BY <1>0, <1>a, <2>2
<1> QED
  BY <1>a, <1>3, <1>4, <1>5, <1>6, <1>7

-----------------------------------------------------------------------------
(***************************************************************************)
(* The inductive invariant.                                                *)
(***************************************************************************)

\* Jobs with a fence, jobs added to the sync queue, jobs taken from it, and jobs
\* whose increment has happened: each an initial part of the jobs.
Begun == IF pc["sub"] \in {"idle", "closed"} THEN next - 1 ELSE next
Added == IF pc["sub"] \in {"kick", "timer", "wait"} THEN next ELSE next - 1
Retired == Added - Len(sync_queue)
Finished == hw - Start

\* Commands of a job that are in the push buffer.
Pushed(j) == IF j = next THEN slots_used ELSE Slots[j]

\* Distance of a slot from the first one in use.
Off(x) == Dist(fence, x)

UpdaterPcs == {"idle", "enter", "scan", "cancel", "flush", "clear", "pop", "start", "exit"}
SubPcs == {"idle", "push", "down", "relock", "check", "add", "kick", "timer", "wait", "closed"}

PcShape ==
  /\ pc \in [Procs -> UpdaterPcs \cup SubPcs \cup {"mutex", "write", "done"}]
  /\ pc["sub"] \in SubPcs /\ pc["tmo"] \in {"idle", "mutex"}
  /\ pc["abort"] \in {"idle", "write", "done"} /\ \A u \in Updaters : pc[u] \in UpdaterPcs

DataShape ==
  /\ hw \in Nat /\ min_val \in Nat /\ max_val \in Nat
  /\ fence \in 0 .. P - 1 /\ cur \in 0 .. P - 1
  /\ mem \in [0 .. P - 1 -> (Jobs \X Nat) \cup {None}]
  /\ get \in 0 .. P - 1 /\ last_put \in 0 .. P - 1 /\ running \in BOOLEAN
  /\ slots_free \in Nat /\ slots_used \in Nat
  /\ sync_queue \in Seq(Jobs)
  /\ jfence \in [Jobs -> Nat] /\ first_get \in [Jobs -> 0 .. P - 1]
  /\ timeout \in [Jobs -> BOOLEAN] /\ waiter \in [Jobs -> {"none", "armed", "done"}]
  /\ pending \in BOOLEAN /\ was_idle \in BOOLEAN /\ raced \in BOOLEAN
  /\ next \in Nat /\ mine \in [Updaters -> (Jobs \cup {None}) \X (Jobs \cup {None})]

Shape == PcShape /\ DataShape

\* The jobs are submitted in order, and each has the next value of the syncpoint.
Counted ==
  /\ 1 <= next /\ next <= Len(Slots) + 1
  /\ pc["sub"] \notin {"idle", "closed"} => next <= Len(Slots)
  /\ pc["sub"] \in {"push", "down", "relock"} => slots_used < Slots[next]
  /\ pc["sub"] \in {"check", "add", "kick", "timer", "wait"} => slots_used = Slots[next]
  /\ max_val = Start + Begun
  /\ \A j \in 1 .. Begun : jfence[j] = Start + j

\* The sync queue holds the jobs that were added and not taken, in order, and only
\* finished jobs are taken.
Queued ==
  /\ 0 <= Retired /\ \A i \in 1 .. Len(sync_queue) : sync_queue[i] = Retired + i
  /\ Start + Retired <= min_val /\ min_val <= hw /\ hw <= Start + Added

\* The jobs lie one behind the other in the push buffer, up to cur.
Laid ==
  /\ \A j \in Retired + 1 .. Begun :
        /\ Off(first_get[j]) + Pushed(j) <= Off(cur)
        /\ j = Begun => Off(first_get[j]) + Pushed(j) = Off(cur)
  /\ \A i, j \in Retired + 1 .. Begun :
        /\ i < j => Off(first_get[i]) + Slots[i] <= Off(first_get[j])
        /\ j = i + 1 => Off(first_get[i]) + Slots[i] = Off(first_get[j])

\* In front of them are the slots of jobs that a handler has taken and will free.
Retiring(u) == pc[u] \in {"cancel", "flush", "clear", "pop"}
Owed == {x \in Updaters \X Nat : Retiring(x[1]) /\ 1 <= x[2] /\ x[2] <= Slots[mine[x[1]][2]]}
Front == IF Retired < Begun THEN Off(first_get[Retired + 1]) ELSE Off(cur)
Freed == IsFiniteSet(Owed) /\ Cardinality(Owed) = Front

\* What a submit knows of free slots is true.
Known == pc["sub"] \notin {"idle", "closed"} => slots_free <= P - 1 - Off(cur)

\* The DMA is at the first job that is not finished, and does not reach the end of
\* one that has not been handed to it.
Dma ==
  /\ Off(get) <= Off(last_put) /\ Off(last_put) <= Off(cur)
  /\ Finished < Begun => /\ Off(first_get[Finished + 1]) <= Off(get)
                         /\ Off(get) < Off(first_get[Finished + 1]) + Slots[Finished + 1]
  /\ Finished = Begun => Off(get) = Off(cur)
  /\ pc["sub"] \in {"push", "down", "relock", "check", "add", "kick"} =>
        Finished < next /\ Off(last_put) < Off(first_get[next]) + Slots[next]

\* A stopped channel has no jobs.
Halted == ~running => sync_queue = <<>> /\ pc["sub"] \in {"idle", "closed"}

\* The commands of unfinished jobs are in memory.
Stored ==
  \A j \in Finished + 1 .. Begun : \A k \in Nat :
     k < Pushed(j) => mem[(first_get[j] + k) % P] = <<j, k + 1>>

\* A submit-complete handler returns when the job it was called for is retired.
Waiters ==
  \A j \in Jobs : /\ waiter[j] = "none" <=> j >= next
                  /\ waiter[j] = "done" => j <= Retired
CalledAt(l, handled, taken, n, shadow, r, a) ==
  /\ l # "idle" => handled \in Jobs /\ handled < n /\ Start + handled <= shadow
  /\ l \in {"start", "exit"} => handled <= r
  /\ l \in {"cancel", "flush", "clear", "pop", "start"} => taken \in Jobs /\ taken <= a
  /\ l = "start" => taken <= r + 1
Called(u) == CalledAt(pc[u], mine[u][1], mine[u][2], next, min_val, Retired, Added)
Handled == Waiters /\ \A u \in Updaters : Called(u)

\* The timer is about a job, and unfinished jobs can be timed.
Timed ==
  /\ clientid # None => sp \in Jobs /\ sp <= Added /\ clientid = ClientId[sp]
  /\ \A j \in Jobs : timeout[j] \/ j <= Finished

QueueInv == Shape /\ Counted /\ Queued /\ Handled /\ Timed /\ Halted
BufferInv == Laid /\ Freed /\ Known /\ Dma /\ Stored

\* A running timer is about the head of the queue, or is about to be stopped.
Stopping == \E u \in Updaters : pc[u] \in {"cancel", "flush", "clear"}
Running ==
  (clientid # None /\ ~raced) =>
    \/ Stopping
    \/ /\ sp = Retired + 1 /\ Retired < Added
       /\ Finished < sp => pending \/ pc["tmo"] = "mutex"

\* An unfinished job at the head of the queue is timed, or somebody will time it.
Checking == \E u \in Updaters : pc[u] \in {"scan", "cancel", "flush", "clear", "pop", "start"}
WillTime ==
  (~raced /\ Retired < Added /\ Finished = Retired) =>
    clientid # None \/ Checking \/ (pc["sub"] \in {"kick", "timer"} /\ was_idle)

\* A submit that saw the queue empty adds the only job of the queue.
SawIdle == (pc["sub"] \in {"add", "kick", "timer"} /\ was_idle) => Retired >= next - 1

TimerInv == Running /\ WillTime /\ SawIdle
CdmaInv == QueueInv /\ BufferInv /\ TimerInv

\* What the counts of jobs have to do with each other.
Order ==
  /\ Retired \in Nat /\ Finished \in Nat /\ Added \in Nat /\ Begun \in Nat /\ next \in Nat
  /\ Retired <= Finished /\ Finished <= Added /\ Added <= Begun /\ Begun <= Len(Slots)
  /\ Begun <= next /\ next <= Begun + 1 /\ next <= Added + 1
  /\ Len(sync_queue) = Added - Retired /\ hw = Start + Finished
Numbers ==
  /\ Order
  /\ \A j \in 1 .. Begun : jfence[j] = Start + j
  /\ \A i \in 1 .. Len(sync_queue) : sync_queue[i] = Retired + i
  /\ sync_queue # <<>> <=> Retired < Added
  /\ sync_queue # <<>> => Head(sync_queue) = Retired + 1
  /\ \A j \in 1 .. Begun : /\ Pushed(j) \in Nat /\ Pushed(j) <= Slots[j]
                           /\ j <= Added \/ j < Begun => Pushed(j) = Slots[j]
  /\ Added < Begun => /\ pc["sub"] \in {"push", "down", "relock", "check", "add"}
                      /\ Begun = next /\ Added = next - 1
-----------------------------------------------------------------------------
\* The jobs are numbered from 1, and each has commands.
LEMMA JobFacts ==
  /\ Len(Slots) \in Nat /\ Len(Slots) > 0 /\ Jobs = 1 .. Len(Slots)
  /\ \A j \in Jobs : Slots[j] \in Nat /\ Slots[j] >= 1
  /\ Start \in Nat
  /\ P \in Nat /\ P > 1
BY JobsAssumption, BufferAssumption, CdmaAssumption DEF Jobs, P

\* A handler thread is none of the other processes.
LEMMA ProcFacts ==
  /\ \A u \in Updaters : u \in Procs /\ u # "sub" /\ u # "tmo" /\ u # "abort"
  /\ "sub" \in Procs /\ "tmo" \in Procs /\ "abort" \in Procs
BY CdmaAssumption DEF Procs

\* The counts of jobs, from the invariant of the sync queue.
LEMMA Counts == Shape /\ Counted /\ Queued => Numbers
<1> SUFFICES ASSUME Shape, Counted, Queued PROVE Numbers
  OBVIOUS
<1> USE JobFacts
<1>1. next \in Nat /\ hw \in Nat /\ min_val \in Nat /\ pc["sub"] \in SubPcs /\ slots_used \in Nat
      /\ Len(sync_queue) \in Nat /\ sync_queue \in Seq(Jobs)
  BY DEF Shape, DataShape, PcShape
<1>2. Begun \in Nat /\ Added \in Nat /\ Added <= Begun /\ Begun <= Len(Slots) /\ Begun <= next
      /\ next <= Begun + 1 /\ next <= Added + 1
  BY <1>1 DEF Begun, Added, Counted, SubPcs
<1>3. Retired \in Nat /\ Len(sync_queue) = Added - Retired
  BY <1>1, <1>2 DEF Retired, Queued
<1>4. Finished \in Nat /\ Retired <= Finished /\ Finished <= Added /\ hw = Start + Finished
  BY <1>1, <1>2, <1>3 DEF Finished, Queued
<1>5. sync_queue # <<>> <=> Retired < Added
  BY <1>1, <1>2, <1>3
<1>6. ASSUME sync_queue # <<>> PROVE Head(sync_queue) = Retired + 1
  <2>1. 1 \in 1 .. Len(sync_queue) /\ Head(sync_queue) = sync_queue[1]
    BY <1>1, <1>6
  <2> QED
    BY <2>1 DEF Queued
<1>7. ASSUME NEW j \in 1 .. Begun
      PROVE  /\ Pushed(j) \in Nat /\ Pushed(j) <= Slots[j]
             /\ j <= Added \/ j < Begun => Pushed(j) = Slots[j]
  <2>1. j \in Jobs /\ Slots[j] \in Nat
    BY <1>2
  <2>2. CASE j = next
    <3>1. pc["sub"] \notin {"idle", "closed"} /\ ~(j < Begun)
      BY <1>1, <1>2, <2>2 DEF Begun
    <3>2. j <= Added => pc["sub"] \in {"kick", "timer", "wait"}
      BY <1>1, <2>2 DEF Added
    <3> QED
      BY <1>1, <2>1, <2>2, <3>1, <3>2 DEF Pushed, Counted, SubPcs
  <2>3. CASE j # next
    BY <2>1, <2>3 DEF Pushed
  <2> QED
    BY <2>2, <2>3
<1>8. Added < Begun => /\ pc["sub"] \in {"push", "down", "relock", "check", "add"}
                       /\ Begun = next /\ Added = next - 1
  BY <1>1 DEF Begun, Added, SubPcs
<1>9. Order
  BY <1>1, <1>2, <1>3, <1>4 DEF Order
<1>10. /\ \A j \in 1 .. Begun : jfence[j] = Start + j
       /\ \A i \in 1 .. Len(sync_queue) : sync_queue[i] = Retired + i
  BY DEF Counted, Queued
<1> QED
  BY <1>5, <1>6, <1>7, <1>8, <1>9, <1>10 DEF Numbers

-----------------------------------------------------------------------------
(***************************************************************************)
(* Types.                                                                  *)
(***************************************************************************)

\* Program counters.
LEMMA PcStep == PcShape /\ [Next]_vars => PcShape'
<1> SUFFICES ASSUME PcShape, [Next]_vars PROVE PcShape'
  OBVIOUS
<1> USE ProcFacts
<1>1. ASSUME NEW u \in Updaters, NEW l \in UpdaterPcs, Goto(u, l) PROVE PcShape'
  BY <1>1 DEF Goto, PcShape
<1>2. ASSUME NEW l \in SubPcs, Goto("sub", l) PROVE PcShape'
  BY <1>2 DEF Goto, PcShape
<1>3. CASE SubStep
  BY <1>2, <1>3 DEF SubStep, Begin, Push, WaitSpace, Down, EndCheck, EndAdd, EndKick, EndTimer,
                    AddAction, SubPcs
<1>4. ASSUME NEW u \in Updaters, Update(u) PROVE PcShape'
  BY <1>1, <1>4 DEF Update, Take, Enter, Scan, Cancel, Clear, Pop, Restart, Exit, UpdaterPcs
<1>5. CASE Fire \/ Handler
  <2>1. PICK l \in {"idle", "mutex"} : Goto("tmo", l)
    BY <1>5 DEF Fire, Handler
  <2> QED
    BY <2>1 DEF Goto, PcShape, UpdaterPcs
<1>6. CASE AbortBegin \/ Abort
  BY <1>6 DEF AbortBegin, Abort, Goto, PcShape, SubPcs
<1>7. CASE Stop \/ Fetch \/ UpdateMin \/ UNCHANGED vars
  BY <1>7 DEF Stop, Fetch, UpdateMin, vars, PcShape
<1> QED
  BY <1>3, <1>4, <1>5, <1>6, <1>7 DEF Next

-----------------------------------------------------------------------------
(***************************************************************************)
(* nvhost_cdma_update_sync_queue().                                        *)
(***************************************************************************)

\* The search for the first unfinished job finds it.
LEMMA SearchFinds ==
  ASSUME Shape, Counted, Queued, Finished < Added
  PROVE  /\ FirstUnfinished = Finished + 1 - Retired
         /\ FirstUnfinished \in 1 .. Len(sync_queue)
         /\ sync_queue[FirstUnfinished] = Finished + 1
<1> USE JobFacts
<1>1. Numbers /\ Order
  BY Counts DEF Numbers
<1>2. sync_queue \in Seq(Jobs) /\ DOMAIN sync_queue = 1 .. Len(sync_queue) /\ hw \in Nat
  BY DEF Shape, DataShape
<1>3. \A i \in 1 .. Len(sync_queue) : sync_queue[i] = Retired + i /\ jfence[sync_queue[i]] = Start + (Retired + i)
  <2> TAKE i \in 1 .. Len(sync_queue)
  <2>1. sync_queue[i] = Retired + i
    BY <1>1 DEF Numbers
  <2>2. Retired + i \in 1 .. Begun
    BY <1>1 DEF Order
  <2>3. jfence[Retired + i] = Start + (Retired + i)
    BY <1>1, <2>2 DEF Numbers
  <2> QED
    BY <2>1, <2>3
<1> DEFINE m == Finished + 1 - Retired
           F(i) == /\ jfence[sync_queue[i]] > hw
                   /\ \A k \in 1 .. i - 1 : jfence[sync_queue[k]] <= hw
<1>4. m \in 1 .. Len(sync_queue)
  BY <1>1 DEF Order
<1>5. hw = Start + Finished
  BY <1>1 DEF Order
<1>6. F(m)
  BY <1>1, <1>3, <1>4, <1>5 DEF Order
<1>7. ASSUME NEW i \in 1 .. Len(sync_queue), F(i) PROVE i = m
  <2>1. Retired + i > Finished
    BY <1>1, <1>3, <1>5, <1>7 DEF Order
  <2>2. CASE i = 1
    BY <1>1, <2>1, <2>2 DEF Order
  <2>3. CASE i > 1
    <3>1. i - 1 \in 1 .. i - 1 /\ i - 1 \in 1 .. Len(sync_queue)
      BY <1>2, <2>3
    <3>2. Start + (Retired + (i - 1)) <= hw
      BY <1>3, <1>7, <3>1
    <3> QED
      BY <1>1, <1>5, <2>1, <3>2 DEF Order
  <2> QED
    BY <1>2, <2>2, <2>3
<1>8. FirstUnfinished = CHOOSE i \in DOMAIN sync_queue : F(i)
  BY DEF FirstUnfinished
<1> HIDE DEF F
<1>9. FirstUnfinished \in DOMAIN sync_queue /\ F(FirstUnfinished)
  BY <1>2, <1>4, <1>6, <1>8
<1>10. FirstUnfinished = m
  BY <1>2, <1>7, <1>9
<1> QED
  BY <1>1, <1>3, <1>4, <1>10 DEF Order

\* Who the recovery of a timeout ends: nobody, or the jobs from the first unfinished
\* one to some job l; the DMA goes on behind them.
Recovered(l) ==
  /\ hw' = Start + l /\ min_val' = Start + l
  /\ timeout' = [j \in Jobs |-> timeout[j] /\ j \notin Finished + 1 .. l]
  /\ mem' = [i \in DOMAIN mem |->
               IF \E j \in Finished + 1 .. l : i \in SlotsOf(j) THEN None ELSE mem[i]]
  /\ l = Finished => get' = first_get[Finished + 1]
  /\ l > Finished => get' = (first_get[l] + Slots[l]) % P
  /\ last_put' = cur /\ running' = TRUE
  /\ ClientId[Finished + 1] = clientid => l > Finished

\* The recovery finds the job of the timeout in the queue.
LEMMA Recovery ==
  ASSUME Shape, Counted, Queued, Timed, clientid # None, hw < jfence[sp], UpdateSyncQueue
  PROVE  Finished < Added /\ \E l \in Finished .. Added : Recovered(l)
<1> USE JobFacts
<1>1. Numbers /\ Order
  BY Counts DEF Numbers
<1>2. /\ sync_queue \in Seq(Jobs) /\ DOMAIN sync_queue = 1 .. Len(sync_queue) /\ hw \in Nat
      /\ hw = Start + Finished
  BY DEF Shape, DataShape, Finished
<1>3. Finished < Added
  <2>1. sp \in 1 .. Begun /\ sp <= Added
    BY <1>1 DEF Timed, Order
  <2>2. jfence[sp] = Start + sp
    BY <1>1, <2>1 DEF Numbers
  <2> QED
    BY <1>1, <2>1, <2>2 DEF Order
<1> DEFINE f == Finished + 1 - Retired
           n == Len(sync_queue)
<1>4. FirstUnfinished = f /\ f \in 1 .. n /\ sync_queue # <<>>
  BY <1>1, <1>3, SearchFinds DEF Numbers
<1>5. \A i \in 1 .. n : sync_queue[i] = Retired + i /\ jfence[Retired + i] = Start + (Retired + i)
  <2> TAKE i \in 1 .. n
  <2>2. Retired + i \in 1 .. Begun
    BY <1>1 DEF Order
  <2> QED
    BY <1>1, <2>2 DEF Numbers
<1>6. Victims = {i \in f .. n : \A k \in f .. i : ClientId[Retired + k] = clientid}
  BY <1>1, <1>4, <1>5 DEF Victims
<1>7. CASE Victims = {}
  <2>1. VictimJobs = {}
    BY <1>7 DEF VictimJobs
  <2>2. ~ClientId[Finished + 1] = clientid
    <3>1. f \notin Victims
      BY <1>7
    <3>2. f \in f .. n /\ \A k \in f .. f : k = f
      BY <1>1, <1>4 DEF Order
    <3>3. Retired + f = Finished + 1
      BY <1>1 DEF Order
    <3> QED
      BY <1>6, <3>1, <3>2, <3>3
  <2>3. Finished + 1 .. Finished = {} /\ Finished \in Finished .. Added /\ ~(Finished > Finished)
    BY <1>1 DEF Order
  <2>4. get' = first_get[Finished + 1]
    BY <1>3, <1>4, <1>7, SearchFinds DEF UpdateSyncQueue
  <2>5. Recovered(Finished)
    BY <1>2, <1>7, <2>1, <2>2, <2>3, <2>4 DEF Recovered, UpdateSyncQueue, RunningAgain
  <2> QED
    BY <1>3, <2>3, <2>5
<1>8. CASE Victims # {}
  <2> DEFINE m == CHOOSE i \in Victims : \A k \in Victims : k <= i
  <2>1. m \in Victims /\ \A k \in Victims : k <= m
    <3>1. n \in Nat /\ Victims \subseteq 1 .. n
      BY <1>2, <1>4, <1>6
    <3>2. \E i \in Victims : \A k \in Victims : k <= i
      BY <1>8, <3>1, LastExists
    <3> QED
      BY <3>2
  <2>2. LastVictim = sync_queue[m]
    BY DEF LastVictim
  <2> HIDE DEF m
  <2>3. m \in f .. n /\ \A k \in f .. m : ClientId[Retired + k] = clientid
    BY <1>6, <2>1
  <2>4. Victims = f .. m
    BY <1>4, <1>6, <2>1, <2>3
  <2> DEFINE l == Retired + m
  <2>5. l \in Finished .. Added /\ l > Finished /\ ~(l = Finished) /\ m \in 1 .. n
    BY <1>1, <1>4, <2>3 DEF Order
  <2>6. LastVictim = l /\ jfence[LastVictim] = Start + l
    BY <1>1, <1>5, <2>2, <2>5 DEF Order
  <2>7. VictimJobs = Finished + 1 .. l
    <3>1. ASSUME NEW j \in VictimJobs PROVE j \in Finished + 1 .. l
      <4>1. PICK i \in f .. m : j = sync_queue[i]
        BY <2>4 DEF VictimJobs
      <4>2. i \in 1 .. n
        BY <1>4, <2>5
      <4>3. sync_queue[i] = Retired + i
        BY <1>5, <4>2
      <4> QED
        BY <1>1, <2>5, <4>1, <4>2, <4>3 DEF Order
    <3>2. ASSUME NEW j \in Finished + 1 .. l PROVE j \in VictimJobs
      <4>1. j - Retired \in f .. m /\ j - Retired \in 1 .. n /\ j = Retired + (j - Retired)
        BY <1>1, <1>4, <2>5 DEF Order
      <4>2. sync_queue[j - Retired] = j
        BY <1>5, <4>1
      <4> QED
        BY <2>4, <4>1, <4>2 DEF VictimJobs
    <3> QED
      BY <3>1, <3>2
  <2>8. get' = (first_get[l] + Slots[l]) % P
    BY <1>4, <1>8, <2>6 DEF UpdateSyncQueue, P
  <2> HIDE DEF l
  <2>9. Recovered(l)
    BY <1>8, <2>5, <2>6, <2>7, <2>8 DEF Recovered, UpdateSyncQueue, RunningAgain
  <2> QED
    BY <1>3, <2>5, <2>9
<1> QED
  BY <1>7, <1>8

-----------------------------------------------------------------------------
(***************************************************************************)
(* One lemma per part of the queue's invariant.  What an action does to    *)
(* the counts of jobs comes first.                                         *)
(***************************************************************************)

\* The timeout work and the abort recover, or leave the buffer and the jobs alone.
Recovers == \/ UNCHANGED <<hw, min_val, timeout, mem, get, last_put, running>>
            \/ hw >= jfence[sp] /\ min_val' = hw /\ UNCHANGED <<hw, timeout, mem, get, last_put, running>>
            \/ Finished < Added /\ \E l \in Finished .. Added : Recovered(l)

\* The data that neither of them touches.
Kept == UNCHANGED <<max_val, fence, cur, submit, wakeup, sync_queue, jfence, first_get,
                    waiter, clientid, sp, mine, raced>>

\* Handler and Abort, after the search through the queue.
LEMMA HandlerEffect ==
  ASSUME QueueInv, Handler \/ Abort
  PROVE  Kept /\ Recovers /\ pending' \in BOOLEAN
<1>1. ASSUME HandleTimeout PROVE Recovers
  <2>1. CASE clientid # None /\ hw < jfence[sp] /\ UpdateSyncQueue
    BY <2>1, Recovery DEF QueueInv, Recovers
  <2> QED
    BY <1>1, <2>1 DEF HandleTimeout, Recovers
<1>2. pending \in BOOLEAN
  BY DEF QueueInv, Shape, DataShape
<1>3. CASE Handler
  BY <1>1, <1>2, <1>3 DEF Handler, Kept, Recovers, Cancelling
<1>4. CASE Abort
  BY <1>1, <1>2, <1>4 DEF Abort, Kept, timer
<1> QED
  BY <1>3, <1>4

\* Types of the data.
LEMMA DataStep == QueueInv /\ [Next]_vars => DataShape'
<1> SUFFICES ASSUME QueueInv, [Next]_vars PROVE DataShape'
  OBVIOUS
<1> USE JobFacts, ProcFacts
<1>1. Numbers /\ Order /\ DataShape /\ PcShape
  BY Counts DEF QueueInv, Numbers, Shape
<1>2. CASE SubStep
  <2>0. pc["sub"] \notin {"idle", "closed"} => next \in Jobs
    BY <1>1 DEF QueueInv, Counted, DataShape
  <2>1. CASE Begin
    <3>1. /\ jfence' \in [Jobs -> Nat] /\ first_get' \in [Jobs -> 0 .. P - 1]
          /\ max_val' \in Nat /\ last_put' \in 0 .. P - 1 /\ get' \in 0 .. P - 1
          /\ running' \in BOOLEAN
      <4>1. next \in Jobs /\ max_val + 1 \in Nat /\ cur \in 0 .. P - 1
        BY <1>1, <2>1 DEF Begin, DataShape
      <4>2. jfence' \in [Jobs -> Nat]
        BY <1>1, <2>1, <4>1 DEF Begin, DataShape
      <4>3. first_get' \in [Jobs -> 0 .. P - 1]
        BY <1>1, <2>1, <4>1 DEF Begin, DataShape
      <4>4. last_put' \in 0 .. P - 1 /\ get' \in 0 .. P - 1 /\ running' \in BOOLEAN
        BY <1>1, <2>1, <4>1 DEF Begin, DataShape
      <4> QED
        BY <2>1, <4>1, <4>2, <4>3, <4>4 DEF Begin
    <3> QED
      BY <1>1, <2>1, <3>1 DEF Begin, wakeup, timer, DataShape
  <2>2. CASE Push
    <3>1. next \in Jobs /\ slots_used + 1 \in Nat /\ <<next, slots_used + 1>> \in Jobs \X Nat
      BY <1>1, <2>0, <2>2 DEF Push, DataShape
    <3>2. (cur + 1) % P \in 0 .. P - 1
      BY <1>1 DEF DataShape
    <3>3. slots_free' \in Nat
      <4>1. Space \in Nat
        BY <1>1 DEF Space, DataShape, P
      <4> QED
        BY <1>1, <2>2, <4>1 DEF Push, DataShape
    <3> QED
      BY <1>1, <2>2, <3>1, <3>2, <3>3 DEF Push, sync, job, wakeup, timer, DataShape, P
  <2>3. CASE WaitSpace \/ Down \/ EndCheck
    BY <1>1, <2>3 DEF WaitSpace, Down, EndCheck, sync, buffer, submit, job, wakeup, timer, DataShape
  <2>4. CASE EndAdd
    <3>1. next \in Jobs
      BY <2>0, <2>4 DEF EndAdd
    <3> QED
      BY <1>1, <2>4, <3>1 DEF EndAdd, sync, buffer, submit, job, wakeup, timer, DataShape
  <2>5. CASE EndKick \/ EndTimer
    BY <1>1, <2>5 DEF EndKick, EndTimer, StartTimer, sync, buffer, submit, job, wakeup, timer, DataShape, Cancelling
  <2>6. CASE AddAction
    <3>1. waiter' \in [Jobs -> {"none", "armed", "done"}]
      BY <1>1, <2>0, <2>6 DEF AddAction, DataShape
    <3>2. next' \in Nat
      BY <1>1, <2>6 DEF AddAction, DataShape
    <3> QED
      BY <1>1, <2>6, <3>1, <3>2 DEF AddAction, sync, buffer, job, wakeup, timer, DataShape
  <2> QED
    BY <1>2, <2>1, <2>2, <2>3, <2>4, <2>5, <2>6 DEF SubStep
<1>3. ASSUME NEW u \in Updaters, Update(u) PROVE DataShape'
  <2>0. mine[u][1] \in Jobs \cup {None} /\ mine[u][2] \in Jobs \cup {None} /\ mine[u] = <<mine[u][1], mine[u][2]>>
    BY <1>1 DEF DataShape
  <2>1. CASE Take(u)
    BY <1>1, <2>1, SMTT(30) DEF Take, buffer, submit, job, wakeup, timer, DataShape
  <2>2. CASE Enter(u) \/ Cancel(u) \/ Clear(u)
    BY <1>1, <2>2 DEF Enter, Cancel, Clear, sync, buffer, submit, job, wakeup, timer, DataShape
  <2>3. CASE Scan(u)
    <3>1. CASE sync_queue = <<>>
      BY <1>1, <2>3, <3>1 DEF Scan, sync, buffer, submit, job, wakeup, timer, DataShape
    <3>2. CASE sync_queue # <<>>
      <4>1. Head(sync_queue) \in Jobs /\ Tail(sync_queue) \in Seq(Jobs)
        BY <1>1, <3>2 DEF DataShape
      <4>2. sync_queue' \in Seq(Jobs)
        BY <1>1, <2>3, <3>2, <4>1 DEF Scan, DataShape
      <4>3. mine' \in [Updaters -> (Jobs \cup {None}) \X (Jobs \cup {None})]
        <5>1. mine' = [mine EXCEPT ![u] = <<mine[u][1], Head(sync_queue)>>]
          BY <1>1, <2>0, <2>3, <3>2 DEF Scan, DataShape
        <5> QED
          BY <1>1, <2>0, <4>1, <5>1 DEF DataShape
      <4> QED
        BY <1>1, <2>3, <4>2, <4>3 DEF Scan, sync, buffer, submit, job, wakeup, timer, DataShape
    <3> QED
      BY <3>1, <3>2
  <2>4. CASE Pop(u)
    <3>1. mine[u][2] \in Jobs
      BY <2>4 DEF Pop, QueueInv, Handled, Called, CalledAt
    <3>2. (fence + Slots[mine[u][2]]) % P \in 0 .. P - 1
      BY <1>1, <3>1 DEF DataShape
    <3> QED
      BY <1>1, <2>4, <3>2 DEF Pop, sync, submit, job, timer, DataShape, P
  <2>5. CASE Restart(u)
    BY <1>1, <2>5 DEF Restart, StartTimer, sync, buffer, submit, job, wakeup, timer, DataShape, Cancelling
  <2>6. CASE Exit(u)
    <3>1. mine[u][1] \in Jobs
      BY <2>6 DEF Exit, QueueInv, Handled, Called, CalledAt
    <3> QED
      BY <1>1, <2>6, <3>1 DEF Exit, sync, buffer, submit, job, wakeup, timer, DataShape
  <2> QED
    BY <1>3, <2>1, <2>2, <2>3, <2>4, <2>5, <2>6 DEF Update
<1>4. CASE Handler \/ Abort
  <2>1. Kept /\ Recovers /\ pending' \in BOOLEAN
    BY <1>4, HandlerEffect
  <2>2. was_idle' = was_idle /\ slots_free' = slots_free /\ slots_used' = slots_used /\ next' = next
    BY <2>1 DEF Kept, submit
  <2>3. CASE UNCHANGED <<hw, timeout, mem, get, last_put, running>> /\ min_val' \in {min_val, hw}
    BY <1>1, <2>1, <2>2, <2>3 DEF Kept, DataShape
  <2>4. ASSUME NEW l \in Finished .. Added, Finished < Added, Recovered(l) PROVE DataShape'
    <3>1. /\ hw' \in Nat /\ min_val' \in Nat /\ last_put' \in 0 .. P - 1 /\ running' \in BOOLEAN
          /\ timeout' \in [Jobs -> BOOLEAN]
      BY <1>1, <2>4 DEF Recovered, DataShape, Order
    <3>2. get' \in 0 .. P - 1
      <4>1. CASE l = Finished
        <5>1. Finished + 1 \in Jobs
          BY <1>1, <2>4 DEF Order
        <5> QED
          BY <1>1, <2>4, <4>1, <5>1 DEF Recovered, DataShape
      <4>2. CASE l > Finished
        <5>0. l \in Jobs
          BY <1>1, <4>2 DEF Order
        <5>1. first_get[l] \in Nat /\ Slots[l] \in Nat
          BY <1>1, <5>0 DEF DataShape
        <5>2. (first_get[l] + Slots[l]) % P \in 0 .. P - 1
          <6>1. PICK z \in Nat : z = first_get[l] + Slots[l]
            BY <5>1
          <6>2. z % P \in 0 .. P - 1
            OBVIOUS
          <6> QED
            BY <6>1, <6>2
        <5> QED
          BY <2>4, <4>2, <5>2 DEF Recovered
      <4> QED
        BY <1>1, <4>1, <4>2 DEF Order
    <3>3. mem' \in [0 .. P - 1 -> (Jobs \X Nat) \cup {None}]
      BY <1>1, <2>4 DEF Recovered, DataShape
    <3> QED
      BY <1>1, <2>1, <2>2, <3>1, <3>2, <3>3 DEF Kept, DataShape
  <2> QED
    BY <2>1, <2>3, <2>4 DEF Recovers
<1>5. CASE Fire \/ AbortBegin \/ Stop \/ UpdateMin
  BY <1>1, <1>5 DEF Fire, AbortBegin, Stop, UpdateMin, sync, buffer, submit, job, wakeup, timer, DataShape
<1>6. CASE Fetch
  <2>1. (get + 1) % P \in 0 .. P - 1
    BY <1>1 DEF DataShape
  <2>2. hw' \in Nat /\ get' \in 0 .. P - 1
    BY <1>1, <1>6, <2>1 DEF Fetch, DataShape, P
  <2> QED
    BY <1>1, <1>6, <2>2 DEF Fetch, submit, job, wakeup, timer, DataShape
<1>7. CASE UNCHANGED vars
  BY <1>1, <1>7 DEF vars, DataShape
<1> QED
  BY <1>2, <1>3, <1>4, <1>5, <1>6, <1>7 DEF Next

-----------------------------------------------------------------------------
\* Distances of slots, as numbers.
LEMMA Offs ==
  ASSUME DataShape, NEW x \in 0 .. P - 1
  PROVE  /\ Off(x) \in Nat /\ Off(x) < P
         /\ \A k \in Nat : Off(x) + k < P => (x + k) % P \in 0 .. P - 1 /\ Off((x + k) % P) = Off(x) + k
         /\ \A y \in 0 .. P - 1 : Off(x) = Off(y) => x = y
<1>1. fence \in 0 .. P - 1 /\ P \in Nat
  BY JobFacts DEF DataShape
<1>2. /\ Dist(fence, x) \in 0 .. P - 1
      /\ \A k \in Nat : Dist(fence, x) + k < P =>
               (x + k) % P \in 0 .. P - 1 /\ Dist(fence, (x + k) % P) = Dist(fence, x) + k
      /\ \A y \in 0 .. P - 1 : Dist(fence, x) = Dist(fence, y) => x = y
  BY <1>1, Ring
<1> QED
  BY <1>1, <1>2 DEF Off

\* The job that the DMA is in, and the commands of it that lie ahead.
LEMMA FetchEffect ==
  ASSUME QueueInv, BufferInv, Fetch
  PROVE  /\ Finished < Begun /\ Off(get') = Off(get) + 1 /\ Off(get') <= Off(last_put)
         /\ \/ /\ hw' = hw
               /\ Off(get') < Off(first_get[Finished + 1]) + Slots[Finished + 1]
            \/ /\ hw' = hw + 1 /\ Finished < Added
               /\ Off(get') = Off(first_get[Finished + 1]) + Slots[Finished + 1]
<1> USE JobFacts
<1>1. Numbers /\ Order /\ DataShape
  BY Counts DEF QueueInv, Numbers, Shape
<1>2. get \in 0 .. P - 1 /\ last_put \in 0 .. P - 1 /\ cur \in 0 .. P - 1
  BY <1>1 DEF DataShape
<1>3. /\ Off(get) \in Nat /\ Off(last_put) \in Nat /\ Off(cur) \in Nat /\ Off(cur) < P
      /\ Off(get) <= Off(last_put) /\ Off(last_put) <= Off(cur)
  BY <1>1, <1>2, Offs DEF BufferInv, Dma
<1>4. Off(get) < Off(last_put)
  <2>1. get # last_put
    BY DEF Fetch
  <2>2. Off(get) # Off(last_put)
    BY <1>1, <1>2, <2>1, Offs
  <2> QED
    BY <1>3, <2>2
<1>5. Finished < Begun
  BY <1>1, <1>3, <1>4 DEF BufferInv, Dma, Order
<1> DEFINE j == Finished + 1
           s == first_get[j]
<1>6. /\ j \in 1 .. Begun /\ j \in Retired + 1 .. Begun /\ j \in Jobs /\ j \in Finished + 1 .. Begun
  BY <1>1, <1>5 DEF Order
<1>7. s \in 0 .. P - 1 /\ Slots[j] \in Nat /\ Slots[j] >= 1 /\ Pushed(j) \in Nat /\ Pushed(j) <= Slots[j]
  BY <1>1, <1>6 DEF DataShape, Numbers
<1>8. Off(s) \in Nat /\ Off(s) <= Off(get) /\ Off(get) < Off(s) + Slots[j] /\ Off(s) + Pushed(j) <= Off(cur)
  BY <1>1, <1>5, <1>6, <1>7, Offs DEF BufferInv, Dma, Laid
<1> DEFINE k == Off(get) - Off(s)
<1>9. k \in Nat /\ k < Slots[j] /\ Off(s) + k = Off(get) /\ Off(s) + k < P
  BY <1>3, <1>4, <1>7, <1>8, SMTT(30)
<1>10. k < Pushed(j)
  <2>1. CASE j < Begun
    BY <1>1, <1>6, <1>9, <2>1 DEF Numbers
  <2>2. CASE j = Begun
    <3>1. Off(s) + Pushed(j) = Off(cur)
      BY <1>6, <2>2 DEF BufferInv, Laid
    <3> QED
      BY <1>3, <1>4, <1>7, <1>8, <1>9, <3>1
  <2> QED
    BY <1>1, <1>6, <2>1, <2>2 DEF Order
<1>11. (s + k) % P = get
  <2>1. (s + k) % P \in 0 .. P - 1 /\ Off((s + k) % P) = Off(get)
    BY <1>1, <1>7, <1>9, Offs
  <2> QED
    BY <1>1, <1>2, <2>1, Offs
<1> HIDE DEF k
<1>12. mem[get] = <<j, k + 1>>
  <2>1. mem[(s + k) % P] = <<j, k + 1>>
    BY <1>6, <1>9, <1>10 DEF BufferInv, Stored
  <2> QED
    BY <1>11, <2>1
<1>13. get' = (get + 1) % P /\ Off(get) + 1 < P
  BY <1>3, <1>4 DEF Fetch, P
<1>14. get' \in 0 .. P - 1 /\ Dist(fence, get') = Off(get) + 1
  <2>1. (get + 1) % P \in 0 .. P - 1 /\ Off((get + 1) % P) = Off(get) + 1
    BY <1>1, <1>2, <1>13, Offs
  <2> QED
    BY <1>13, <2>1 DEF Off
<1>15. mem[get] # None /\ mem[get][1] = j /\ mem[get][2] = k + 1
  <2>1. <<j, k + 1>> \in Jobs \X Nat
    BY <1>6, <1>9
  <2>2. mem[get] # None
    BY <1>12, <2>1, JobsAssumption
  <2> HIDE DEF j
  <2> QED
    BY <1>12, <2>2
<1>16. hw' = IF k + 1 = Slots[j] THEN hw + 1 ELSE hw
  BY <1>15 DEF Fetch
<1>17. Off(get') = Off(get) + 1
  BY <1>14 DEF Off
<1>18. Off(get') <= Off(last_put)
  BY <1>3, <1>4, <1>17
<1>19. Off(s) + k = Off(get)
  BY <1>9
<1>20. CASE k + 1 = Slots[j]
  <2>1. Off(get') = Off(s) + Slots[j] /\ hw' = hw + 1
    BY <1>3, <1>8, <1>9, <1>16, <1>17, <1>19, <1>20
  <2>2. Finished < Added
    <3>1. CASE Added < Begun
      <4>1. pc["sub"] \in {"push", "down", "relock", "check", "add"} /\ Begun = next /\ Added = next - 1
        BY <1>1, <3>1 DEF Numbers
      <4>2. Off(last_put) < Off(first_get[next]) + Slots[next]
        BY <4>1 DEF BufferInv, Dma
      <4>3. j # next
        BY <1>3, <1>7, <1>8, <1>18, <2>1, <4>2
      <4> QED
        BY <1>1, <1>5, <4>1, <4>3 DEF Order
    <3>2. CASE Added = Begun
      BY <1>5, <3>2
    <3> QED
      BY <1>1, <3>1, <3>2 DEF Order
  <2> QED
    BY <1>5, <1>17, <1>18, <2>1, <2>2
<1>21. CASE k + 1 # Slots[j]
  <2>1. Off(get') < Off(s) + Slots[j] /\ hw' = hw
    BY <1>3, <1>7, <1>8, <1>9, <1>16, <1>17, <1>19, <1>21, SMTT(30)
  <2> QED
    BY <1>5, <1>17, <1>18, <2>1
<1> QED
  BY <1>20, <1>21

-----------------------------------------------------------------------------
(***************************************************************************)
(* The sync queue.                                                         *)
(***************************************************************************)

\* Actions that are not the submitter's.
Others == \/ \E u \in Updaters : Update(u)
          \/ Fire \/ Handler \/ AbortBegin \/ Abort \/ Stop \/ Fetch \/ UpdateMin
          \/ UNCHANGED vars

\* They leave the submit in progress alone.
LEMMA OthersKeep ==
  ASSUME QueueInv, Others
  PROVE  /\ UNCHANGED <<next, slots_free, slots_used, was_idle, max_val, jfence, first_get, cur>>
         /\ pc'["sub"] = pc["sub"] \/ (pc["sub"] = "idle" /\ pc'["sub"] = "closed")
         /\ Begun' = Begun /\ Added' = Added
         /\ \A j : Pushed(j)' = Pushed(j)
<1> USE ProcFacts
<1>1. PcShape
  BY DEF QueueInv, Shape
<1>2. /\ UNCHANGED <<next, slots_free, slots_used, was_idle, max_val, jfence, first_get, cur>>
      /\ pc'["sub"] = pc["sub"] \/ (pc["sub"] = "idle" /\ pc'["sub"] = "closed")
  <2>1. ASSUME NEW u \in Updaters, Update(u)
        PROVE  /\ UNCHANGED <<next, slots_free, slots_used, was_idle, max_val, jfence, first_get, cur>>
               /\ pc'["sub"] = pc["sub"]
    <3>1. CASE Take(u) \/ Enter(u) \/ Scan(u) \/ Exit(u)
      BY <1>1, <3>1 DEF Take, Enter, Scan, Exit, Goto, PcShape, sync, buffer, submit, job
    <3>2. CASE Cancel(u) \/ Clear(u) \/ Pop(u) \/ Restart(u)
      BY <1>1, <3>2 DEF Cancel, Clear, Pop, Restart, Goto, PcShape, sync, buffer, submit, job
    <3> QED
      BY <2>1, <3>1, <3>2 DEF Update
  <2>2. CASE Handler \/ Abort
    <3>1. Kept
      BY <2>2, HandlerEffect
    <3>2. pc'["sub"] = pc["sub"]
      BY <1>1, <2>2 DEF Handler, Abort, Goto, PcShape
    <3> QED
      BY <3>1, <3>2 DEF Kept, submit
  <2>3. CASE Fire \/ AbortBegin \/ Stop \/ Fetch \/ UpdateMin \/ UNCHANGED vars
    BY <1>1, <2>3 DEF Fire, AbortBegin, Stop, Fetch, UpdateMin, vars, Goto, PcShape, sync, buffer,
                      submit, job
  <2> QED
    BY <2>1, <2>2, <2>3 DEF Others
<1>3. Begun' = Begun /\ Added' = Added /\ \A j : Pushed(j)' = Pushed(j)
  BY <1>2 DEF Begun, Added, Pushed
<1> QED
  BY <1>2, <1>3

\* What a submit does to the counts.
LEMMA SubKeep ==
  ASSUME QueueInv, SubStep
  PROVE  /\ Begun' = (IF pc["sub"] = "idle" THEN Begun + 1 ELSE Begun)
         /\ Added' = (IF pc["sub"] = "add" THEN Added + 1 ELSE Added)
         /\ pc["sub"] # "add" => sync_queue' = sync_queue
         /\ pc["sub"] = "add" => EndAdd
         /\ Retired' = Retired
         /\ UNCHANGED <<hw, min_val>>
         /\ \A u \in Updaters : pc'[u] = pc[u]
         /\ pc'["tmo"] = pc["tmo"] /\ pc'["abort"] = pc["abort"] /\ UNCHANGED mine
<1> USE ProcFacts
<1>1. PcShape /\ next \in Nat /\ sync_queue \in Seq(Jobs)
  BY DEF QueueInv, Shape, DataShape
<1>2. Begun' = (IF pc["sub"] = "idle" THEN Begun + 1 ELSE Begun)
      /\ Added' = (IF pc["sub"] = "add" THEN Added + 1 ELSE Added)
  <2>1. CASE Begin \/ Push \/ WaitSpace \/ Down
    BY <1>1, <2>1 DEF Begin, Push, WaitSpace, Down, submit, Goto, PcShape, Begun, Added
  <2>2. CASE EndCheck \/ EndAdd \/ EndKick \/ EndTimer \/ AddAction
    BY <1>1, <2>2 DEF EndCheck, EndAdd, EndKick, EndTimer, AddAction, submit, Goto, PcShape, Begun, Added
  <2> QED
    BY <2>1, <2>2 DEF SubStep
<1>3. /\ pc["sub"] # "add" => sync_queue' = sync_queue
      /\ pc["sub"] = "add" => EndAdd
      /\ UNCHANGED <<hw, min_val>>
  BY DEF SubStep, Begin, Push, WaitSpace, Down, EndCheck, EndAdd, EndKick, EndTimer, AddAction, sync
<1>4. /\ \A u \in Updaters : pc'[u] = pc[u]
      /\ pc'["tmo"] = pc["tmo"] /\ pc'["abort"] = pc["abort"] /\ UNCHANGED mine
  BY <1>1 DEF SubStep, Begin, Push, WaitSpace, Down, EndCheck, EndAdd, EndKick, EndTimer, AddAction, Goto, PcShape
<1>5. Retired' = Retired
  <2>0. Added \in Int /\ Len(sync_queue) \in Nat
    BY <1>1 DEF Added
  <2>1. CASE pc["sub"] = "add"
    <3>1. Len(sync_queue') = Len(sync_queue) + 1
      BY <1>1, <1>3, <2>1 DEF EndAdd
    <3> QED
      BY <1>2, <2>0, <2>1, <3>1 DEF Retired
  <2>2. CASE pc["sub"] # "add"
    BY <1>2, <1>3, <2>2 DEF Retired
  <2> QED
    BY <2>1, <2>2
<1> QED
  BY <1>2, <1>3, <1>4, <1>5

\* The jobs are submitted in order.
LEMMA CountedStep == QueueInv /\ [Next]_vars => Counted'
<1> SUFFICES ASSUME QueueInv, [Next]_vars PROVE Counted'
  OBVIOUS
<1> USE JobFacts, ProcFacts
<1>1. Numbers /\ Order /\ DataShape /\ PcShape /\ Counted
  BY Counts DEF QueueInv, Numbers, Shape
<1>2. CASE Others
  <2>1. /\ UNCHANGED <<next, slots_used, max_val, jfence>> /\ Begun' = Begun
        /\ pc'["sub"] = pc["sub"] \/ (pc["sub"] = "idle" /\ pc'["sub"] = "closed")
    BY <1>2, OthersKeep
  <2> QED
    BY <1>1, <2>1 DEF Counted
<1>3. CASE Begin
  <2>1. /\ Begun' = Begun + 1 /\ next' = next /\ max_val' = max_val + 1 /\ slots_used' = 0
        /\ pc'["sub"] = "push" /\ next \in Jobs /\ next = Begun + 1
        /\ jfence' = [jfence EXCEPT ![next] = max_val + 1]
    BY <1>1, <1>3, SubKeep DEF SubStep, Begin, Goto, PcShape, Begun, Order
  <2>2. max_val = Start + Begun /\ DOMAIN jfence = Jobs
    BY <1>1 DEF Counted, DataShape
  <2>3. max_val' = Start + Begun'
    BY <1>1, <2>1, <2>2 DEF Order
  <2>4. ASSUME NEW j \in 1 .. Begun' PROVE jfence'[j] = Start + j
    <3>1. CASE j = next
      BY <1>1, <2>1, <2>2, <3>1 DEF Order
    <3>2. CASE j # next
      <4>1. j \in 1 .. Begun /\ jfence'[j] = jfence[j]
        BY <1>1, <2>1, <2>2, <3>2 DEF Order
      <4> QED
        BY <1>1, <4>1 DEF Counted
    <3> QED
      BY <3>1, <3>2
  <2> QED
    BY <1>1, <2>1, <2>3, <2>4 DEF Counted, Order
<1>4. CASE SubStep /\ ~Begin
  <2>1. Begun' = Begun /\ UNCHANGED <<max_val, jfence>>
    <3>1. pc["sub"] # "idle"
      BY <1>4 DEF SubStep, Push, WaitSpace, Down, EndCheck, EndAdd, EndKick, EndTimer, AddAction
    <3> QED
      BY <1>4, <3>1, SubKeep DEF SubStep, Push, WaitSpace, Down, EndCheck, EndAdd, EndKick, EndTimer,
                                 AddAction, sync, job
  <2>2. max_val' = Start + Begun' /\ \A j \in 1 .. Begun' : jfence'[j] = Start + j
    BY <1>1, <2>1 DEF Counted
  <2>3. CASE Push
    <3>1. /\ next' = next /\ slots_used' = slots_used + 1 /\ pc["sub"] = "push"
          /\ pc'["sub"] = IF slots_used + 1 = Slots[next] THEN "check" ELSE "push"
      BY <1>1, <2>3 DEF Push, Goto, PcShape
    <3>2. next \in Jobs /\ slots_used < Slots[next] /\ slots_used \in Nat /\ next \in Nat
      BY <1>1, <3>1 DEF Counted, DataShape
    <3> QED
      BY <1>1, <2>2, <3>1, <3>2 DEF Counted
  <2>4. CASE AddAction
    <3>1. next' = next + 1 /\ pc'["sub"] = "idle" /\ next \in Jobs
      BY <1>1, <2>4 DEF AddAction, Goto, PcShape, Counted, DataShape
    <3> QED
      BY <1>1, <2>2, <3>1 DEF Counted
  <2>5. CASE WaitSpace \/ Down \/ EndCheck \/ EndAdd \/ EndKick \/ EndTimer
    <3>1. /\ UNCHANGED <<next, slots_used>> /\ pc["sub"] \notin {"idle", "closed"}
          /\ \/ {pc["sub"], pc'["sub"]} \subseteq {"push", "down", "relock"}
             \/ {pc["sub"], pc'["sub"]} \subseteq {"check", "add", "kick", "timer", "wait"}
      BY <1>1, <2>5 DEF WaitSpace, Down, EndCheck, EndAdd, EndKick, EndTimer, Goto, PcShape, submit
    <3> QED
      BY <1>1, <2>2, <3>1 DEF Counted
  <2> QED
    BY <1>4, <2>3, <2>4, <2>5 DEF SubStep
<1> QED
  BY <1>2, <1>3, <1>4 DEF Next, SubStep, Others

\* A handler takes the first job of the queue, which is finished.
Retires(u) == /\ Scan(u) /\ sync_queue # <<>> /\ Completed(Head(sync_queue))
              /\ sync_queue' = Tail(sync_queue) /\ mine' = [mine EXCEPT ![u][2] = Head(sync_queue)]
              /\ Goto(u, "cancel")

\* What the first of the queue looks like to a handler.
LEMMA HeadCompleted ==
  ASSUME QueueInv, sync_queue # <<>>
  PROVE  Completed(Head(sync_queue)) <=> Start + Retired + 1 <= min_val
<1> USE JobFacts
<1>1. Numbers /\ Order /\ DataShape
  BY Counts DEF QueueInv, Numbers, Shape
<1>2. Head(sync_queue) = Retired + 1 /\ Retired + 1 \in 1 .. Begun
  BY <1>1 DEF Numbers, Order
<1>3. jfence[Head(sync_queue)] = Start + Retired + 1
  BY <1>1, <1>2 DEF Numbers, Order
<1>4. /\ min_val \in Int /\ max_val \in Int /\ max_val = Start + Begun
      /\ Start + Retired <= min_val /\ min_val <= Start + Finished
  BY <1>1 DEF DataShape, QueueInv, Queued, Counted, Order
<1>5. Len(Slots) < U32 \div 2 /\ U32 \in Nat /\ U32 \div 2 <= U32 /\ U32 \div 2 \in Nat
  BY JobsAssumption, Half
<1>6. max_val - min_val \in 0 .. U32 - 1 /\ Start + Retired + 1 \in max_val - U32 + 1 .. max_val
  BY <1>1, <1>2, <1>4, <1>5 DEF Order
<1> QED
  BY <1>3, <1>4, <1>6, ExpiredInWindow DEF Completed

\* Only a retirement takes from the queue.
LEMMA OthersQueue ==
  ASSUME QueueInv, Others
  PROVE  \/ sync_queue' = sync_queue /\ Retired' = Retired
         \/ \E u \in Updaters : Retires(u) /\ Retired' = Retired + 1 /\ Retired < Added
                                /\ Start + Retired + 1 <= min_val /\ UNCHANGED <<hw, min_val>>
<1>1. Numbers /\ Order /\ DataShape
  BY Counts DEF QueueInv, Numbers, Shape
<1>2. Added' = Added
  BY OthersKeep
<1>3. ASSUME NEW u \in Updaters, Retires(u)
      PROVE  Retired' = Retired + 1 /\ Retired < Added /\ Start + Retired + 1 <= min_val /\ UNCHANGED <<hw, min_val>>
  <2>1. Start + Retired + 1 <= min_val
    BY <1>3, HeadCompleted DEF Retires
  <2>2. Len(sync_queue') = Len(sync_queue) - 1 /\ Len(sync_queue) \in Nat
    BY <1>1, <1>3 DEF Retires, DataShape
  <2>3. Retired < Added /\ UNCHANGED <<hw, min_val>>
    BY <1>1, <1>3 DEF Retires, Scan, sync, Numbers
  <2> QED
    BY <1>1, <1>2, <2>1, <2>2, <2>3 DEF Retired, Order
<1>4. sync_queue' = sync_queue \/ \E u \in Updaters : Retires(u)
  <2>1. ASSUME NEW u \in Updaters, Scan(u) PROVE sync_queue' = sync_queue \/ Retires(u)
    BY <2>1 DEF Scan, Retires
  <2>2. ASSUME NEW u \in Updaters, Update(u), ~Scan(u) PROVE sync_queue' = sync_queue
    BY <2>2 DEF Update, Take, Enter, Cancel, Clear, Pop, Restart, Exit
  <2>3. CASE Handler \/ Abort
    BY <2>3, HandlerEffect DEF Kept
  <2>4. CASE Fire \/ AbortBegin \/ Stop \/ Fetch \/ UpdateMin \/ UNCHANGED vars
    BY <2>4 DEF Fire, AbortBegin, Stop, Fetch, UpdateMin, vars
  <2> QED
    BY <2>1, <2>2, <2>3, <2>4 DEF Others
<1>5. sync_queue' = sync_queue => Retired' = Retired
  BY <1>2 DEF Retired
<1> QED
  BY <1>3, <1>4, <1>5

\* The syncpoint only grows, up to the last job that was added, and its shadow follows.
LEMMA ClockStep ==
  ASSUME QueueInv, BufferInv, [Next]_vars
  PROVE  /\ hw <= hw' /\ hw' <= Start + Added
         /\ min_val <= min_val' /\ min_val' <= hw'
<1> USE JobFacts
<1>1. Order /\ DataShape /\ min_val <= hw /\ hw \in Nat /\ min_val \in Nat
  BY Counts DEF QueueInv, Numbers, Shape, Queued, DataShape
<1>2. CASE SubStep
  BY <1>1, <1>2, SubKeep DEF Order
<1>3. ASSUME NEW u \in Updaters, Update(u) PROVE hw' = hw /\ min_val' \in {min_val, hw}
  BY <1>3 DEF Update, Take, Enter, Scan, Cancel, Clear, Pop, Restart, Exit, sync
<1>4. CASE Handler \/ Abort
  <2>1. Recovers
    BY <1>4, HandlerEffect
  <2>2. ASSUME NEW l \in Finished .. Added, Recovered(l)
        PROVE  hw' = Start + l /\ min_val' = Start + l
    BY <2>2 DEF Recovered
  <2> QED
    BY <1>1, <2>1, <2>2 DEF Recovers, Order
<1>5. CASE Fetch
  <2>1. hw' = hw \/ (hw' = hw + 1 /\ Finished < Added)
    BY <1>5, FetchEffect
  <2>2. min_val' = min_val
    BY <1>5 DEF Fetch
  <2> QED
    BY <1>1, <2>1, <2>2 DEF Order
<1>6. CASE Fire \/ AbortBegin \/ Stop \/ UpdateMin \/ UNCHANGED vars
  BY <1>1, <1>6 DEF Fire, AbortBegin, Stop, UpdateMin, sync, vars, Order
<1> QED
  BY <1>1, <1>2, <1>3, <1>4, <1>5, <1>6 DEF Next, Order

\* The queue.
LEMMA QueuedStep == QueueInv /\ BufferInv /\ [Next]_vars => Queued'
<1> SUFFICES ASSUME QueueInv, BufferInv, [Next]_vars PROVE Queued'
  OBVIOUS
<1> USE JobFacts
<1>1. Numbers /\ Order /\ DataShape /\ min_val <= hw /\ hw \in Nat /\ min_val \in Nat /\ Start + Retired <= min_val
      /\ Len(sync_queue) \in Nat
  <2>1. Shape /\ Counted /\ Queued /\ DataShape
    BY DEF QueueInv, Shape
  <2>2. Numbers /\ Order
    BY <2>1, Counts DEF Numbers
  <2>3. Len(sync_queue) \in Nat /\ hw \in Nat /\ min_val \in Nat
    BY <2>1 DEF DataShape
  <2> QED
    BY <2>1, <2>2, <2>3 DEF Queued
<1>2. /\ hw <= hw' /\ hw' <= Start + Added
      /\ min_val <= min_val' /\ min_val' <= hw' /\ hw' \in Nat /\ min_val' \in Nat
  BY ClockStep, DataStep DEF DataShape
<1>3. Added' \in {Added, Added + 1}
  BY OthersKeep, SubKeep DEF Next, Others
<1>4. hw' <= Start + Added'
  <2>1. Added \in Nat
    BY <1>1 DEF Order
  <2>2. hw' <= Start + Added /\ hw' \in Nat /\ Start \in Nat
    BY <1>2
  <2>3. CASE Added' = Added
    BY <2>2, <2>3
  <2>4. CASE Added' = Added + 1
    BY ONLY <2>1, <2>2, <2>4, SMT
  <2> QED
    BY <1>3, <2>3, <2>4
<1>5. CASE SubStep
  <2>1. Retired' = Retired
    BY <1>5, SubKeep
  <2>2. ASSUME NEW i \in 1 .. Len(sync_queue') PROVE sync_queue'[i] = Retired + i
    <3>1. CASE pc["sub"] # "add"
      BY <1>1, <1>5, <3>1, SubKeep DEF Numbers
    <3>2. CASE pc["sub"] = "add"
      <4>1. sync_queue' = Append(sync_queue, next) /\ next = Added + 1
        BY <1>5, <3>2, SubKeep, <1>1 DEF EndAdd, Added, Order
      <4>2. CASE i = Len(sync_queue) + 1
        <5>1. sync_queue'[i] = next
          BY <1>1, <4>1, <4>2 DEF DataShape
        <5> QED
          BY <1>1, <4>1, <4>2, <5>1 DEF Order
      <4>3. CASE i # Len(sync_queue) + 1
        <5>1. i \in 1 .. Len(sync_queue) /\ sync_queue'[i] = sync_queue[i]
          <6>1. sync_queue \in Seq(Jobs) /\ next \in Jobs
            BY <1>1, <3>2, <1>5 DEF DataShape, QueueInv, Counted
          <6>2. Len(sync_queue') = Len(sync_queue) + 1
            BY <4>1, <6>1
          <6> QED
            BY <1>1, <4>1, <4>3, <6>1, <6>2
        <5> QED
          BY <1>1, <5>1 DEF Numbers
      <4> QED
        BY <4>2, <4>3
    <3> QED
      BY <3>1, <3>2
  <2> QED
    BY <1>1, <1>2, <1>4, <2>1, <2>2 DEF Queued, Order
<1>6. CASE Others
  <2>1. CASE sync_queue' = sync_queue /\ Retired' = Retired
    BY <1>1, <1>2, <1>4, <2>1 DEF Queued, Order, Numbers
  <2>2. ASSUME NEW u \in Updaters, Retires(u), Retired' = Retired + 1, Retired < Added,
               Start + Retired + 1 <= min_val
        PROVE  Queued'
    <3>1. sync_queue' = Tail(sync_queue) /\ sync_queue # <<>>
      BY <2>2 DEF Retires
    <3>2. ASSUME NEW i \in 1 .. Len(sync_queue') PROVE sync_queue'[i] = Retired' + i
      <4>1. i + 1 \in 1 .. Len(sync_queue) /\ sync_queue'[i] = sync_queue[i + 1]
        BY <1>1, <3>1 DEF DataShape
      <4>2. sync_queue[i + 1] = Retired + (i + 1)
        BY <1>1, <4>1 DEF Numbers
      <4> QED
        BY <1>1, <2>2, <4>1, <4>2 DEF Order
    <3> QED
      BY <1>1, <1>2, <1>4, <2>2, <3>2 DEF Queued, Order
  <2> QED
    BY <1>6, <2>1, <2>2, OthersQueue
<1> QED
  BY <1>5, <1>6 DEF Next, Others

-----------------------------------------------------------------------------
(***************************************************************************)
(* Handlers, and the job the timer is about.                               *)
(***************************************************************************)

\* The counts only grow.
LEMMA Growing ==
  ASSUME QueueInv, BufferInv, [Next]_vars
  PROVE  /\ Retired \in Nat /\ Added \in Nat /\ Finished \in Nat /\ next \in Nat /\ min_val \in Nat
         /\ Retired' \in Nat /\ Added' \in Nat /\ Finished' \in Nat /\ next' \in Nat /\ min_val' \in Nat
         /\ Retired <= Retired' /\ Added <= Added' /\ Finished <= Finished' /\ next <= next'
         /\ min_val <= min_val' /\ Finished' <= Added
<1> USE JobFacts
<1>1. Order /\ DataShape /\ hw \in Nat /\ min_val \in Nat
  BY Counts DEF QueueInv, Numbers, Shape, DataShape
<1>2. hw <= hw' /\ hw' <= Start + Added /\ min_val <= min_val' /\ hw' \in Nat /\ min_val' \in Nat /\ next' \in Nat
  BY ClockStep, DataStep DEF DataShape
<1>3. Finished' \in Nat /\ Finished <= Finished' /\ Finished' <= Added
  <2>1. Finished = hw - Start /\ Finished' = hw' - Start /\ Finished \in Nat /\ Added \in Nat
    BY <1>1 DEF Finished, Order
  <2>2. hw \in Nat /\ Start \in Nat
    BY <1>1
  <2>3. PICK h \in Nat, k \in Nat, a \in Nat : h = hw /\ k = hw' /\ a = Added
    BY <1>2, <2>1, <2>2
  <2>4. h <= k /\ k <= Start + a /\ h - Start \in Nat
    BY <1>2, <2>1, <2>3
  <2>5. k - Start \in Nat /\ h - Start <= k - Start /\ k - Start <= a
    BY <2>2, <2>4
  <2> QED
    BY <2>1, <2>3, <2>5
<1>4. Added' \in Nat /\ Added <= Added'
  <2>1. CASE SubStep
    <3>1. Added' = Added \/ Added' = Added + 1
      BY <2>1, SubKeep
    <3> QED
      BY <1>1, <3>1 DEF Order
  <2>2. CASE Others
    BY <1>1, <2>2, OthersKeep DEF Order
  <2> QED
    BY <2>1, <2>2 DEF Next, Others
<1>5. Retired' \in Nat /\ Retired <= Retired'
  <2>1. Retired' = Retired \/ Retired' = Retired + 1
    BY SubKeep, OthersQueue DEF Next, Others
  <2> QED
    BY <1>1, <2>1 DEF Order
<1>6. next <= next'
  <2>1. CASE SubStep
    BY <1>1, <2>1 DEF SubStep, Begin, Push, WaitSpace, Down, EndCheck, EndAdd, EndKick, EndTimer,
                      AddAction, submit, Order
  <2>2. CASE Others
    BY <1>1, <2>2, OthersKeep DEF Order
  <2> QED
    BY <2>1, <2>2 DEF Next, Others
<1> QED
  BY <1>1, <1>2, <1>3, <1>4, <1>5, <1>6 DEF Order

\* What is said of a handler stays true as the counts grow.
LEMMA CalledMonotone ==
  ASSUME NEW l, NEW h, NEW t, NEW n \in Nat, NEW m \in Nat, NEW r \in Nat, NEW a \in Nat,
         NEW n2 \in Nat, NEW m2 \in Nat, NEW r2 \in Nat, NEW a2 \in Nat,
         n <= n2, m <= m2, r <= r2, a <= a2, CalledAt(l, h, t, n, m, r, a)
  PROVE  CalledAt(l, h, t, n2, m2, r2, a2)
  BY JobFacts, SMTT(30) DEF CalledAt

\* A handler that does not move in this step.
LEMMA CalledKeep ==
  ASSUME QueueInv, BufferInv, [Next]_vars, NEW v \in Updaters, pc'[v] = pc[v], mine'[v] = mine[v]
  PROVE  Called(v)'
<1>1. /\ Retired \in Nat /\ Added \in Nat /\ next \in Nat /\ min_val \in Nat
      /\ Retired' \in Nat /\ Added' \in Nat /\ next' \in Nat /\ min_val' \in Nat
      /\ Retired <= Retired' /\ Added <= Added' /\ next <= next' /\ min_val <= min_val'
  BY Growing
<1>2. CalledAt(pc[v], mine[v][1], mine[v][2], next, min_val, Retired, Added)
  BY DEF QueueInv, Handled, Called
<1>3. CalledAt(pc[v], mine[v][1], mine[v][2], next', min_val', Retired', Added')
  BY <1>1, <1>2, CalledMonotone
<1> QED
  BY <1>3 DEF Called

\* Handlers.
LEMMA CalledStep ==
  ASSUME QueueInv, BufferInv, [Next]_vars, NEW v \in Updaters
  PROVE  Called(v)'
<1> USE JobFacts, ProcFacts
<1>1. Numbers /\ Order /\ DataShape /\ PcShape /\ Called(v)
  BY Counts DEF QueueInv, Numbers, Shape, Handled
<1>2. CASE SubStep
  BY <1>2, SubKeep, CalledKeep
<1>3. CASE Handler \/ Abort
  <2>1. pc'[v] = pc[v] /\ mine'[v] = mine[v]
    BY <1>1, <1>3 DEF Handler, Abort, Goto, PcShape
  <2> QED
    BY <2>1, CalledKeep
<1>4. CASE Fire \/ AbortBegin \/ Stop \/ Fetch \/ UpdateMin \/ UNCHANGED vars
  <2>1. pc'[v] = pc[v] /\ mine'[v] = mine[v]
    BY <1>1, <1>4 DEF Fire, AbortBegin, Stop, Fetch, UpdateMin, vars, Goto, PcShape
  <2> QED
    BY <2>1, CalledKeep
<1>5. ASSUME NEW u \in Updaters, Update(u), u # v PROVE Called(v)'
  <2>1. pc'[v] = pc[v]
    BY <1>1, <1>5 DEF Update, Take, Enter, Scan, Cancel, Clear, Pop, Restart, Exit, Goto, PcShape
  <2>2. mine'[v] = mine[v]
    BY <1>1, <1>5 DEF Update, Take, Enter, Scan, Cancel, Clear, Pop, Restart, Exit, DataShape
  <2> QED
    BY <2>1, <2>2, CalledKeep
<1>6. CASE Update(v)
  <2>0. /\ Others /\ pc \in [Procs -> UpdaterPcs \cup SubPcs \cup {"mutex", "write", "done"}] /\ v \in DOMAIN pc
        /\ Added' = Added /\ next' = next /\ DOMAIN mine = Updaters
        /\ Retired <= Retired' /\ min_val <= min_val' /\ Retired' \in Nat /\ min_val' \in Nat /\ min_val \in Nat
    BY <1>1, <1>6, OthersKeep, Growing DEF Others, PcShape, DataShape
  <2>a. next \in Nat /\ Added \in Nat /\ Retired \in Nat /\ Start \in Nat
    BY <1>1 DEF Order
  <2>b. ASSUME NEW l, NEW h, NEW t, CalledAt(l, h, t, next, min_val, Retired, Added),
               pc'[v] = l, mine'[v][1] = h, mine'[v][2] = t
        PROVE  Called(v)'
    <3>1. CalledAt(l, h, t, next', min_val', Retired', Added')
      BY <2>0, <2>a, <2>b, CalledMonotone
    <3> QED
      BY <2>b, <3>1 DEF Called
  <2>1. CASE Take(v)
    <3>1. PICK j \in Jobs : waiter[j] = "armed" /\ hw >= jfence[j] /\ mine' = [mine EXCEPT ![v] = <<j, None>>]
      BY <2>1 DEF Take
    <3>2. pc'[v] = "enter" /\ min_val' = hw /\ mine'[v][1] = j
      BY <1>1, <2>0, <2>1, <3>1 DEF Take, Goto
    <3>3. j < next
      BY <1>1, <3>1 DEF QueueInv, Handled, Waiters, Order
    <3>4. jfence[j] = Start + j
      BY <1>1, <3>3 DEF Numbers, Order
    <3> QED
      BY <1>1, <2>0, <3>1, <3>2, <3>3, <3>4 DEF Called, CalledAt, Order
  <2>2. CASE Enter(v)
    <3>1. /\ pc[v] = "enter" /\ mine'[v] = mine[v] /\ pc'[v] \in {"scan", "exit"}
          /\ pc'[v] = "exit" => ~running
      BY <2>0, <2>2 DEF Enter, Goto
    <3>2. /\ mine[v][1] \in Jobs /\ mine[v][1] < next /\ Start + mine[v][1] <= min_val
      BY <1>1, <3>1 DEF Called, CalledAt
    <3>3. ~running => mine[v][1] <= Retired
      <4>1. ~running => Retired = Added /\ Added = next - 1
        BY <1>1 DEF QueueInv, Halted, Numbers, Order, Added
      <4> QED
        BY <1>1, <3>2, <4>1 DEF Order
    <3>4. CalledAt(pc'[v], mine[v][1], mine[v][2], next, min_val, Retired, Added)
      BY <3>1, <3>2, <3>3 DEF CalledAt
    <3> QED
      BY <2>b, <3>1, <3>4
  <2>3. CASE Scan(v)
    <3>1. pc[v] = "scan"
      BY <2>3 DEF Scan
    <3>2. /\ mine[v][1] \in Jobs /\ mine[v][1] < next /\ Start + mine[v][1] <= min_val
      BY <1>1, <3>1 DEF Called, CalledAt
    <3>3. CASE sync_queue = <<>>
      <4>1. mine'[v] = mine[v] /\ pc'[v] = "exit"
        BY <2>0, <2>3, <3>3 DEF Scan, Goto
      <4>2. Retired = Added
        BY <1>1, <3>3 DEF Numbers, Order
      <4>3. mine[v][1] <= Retired
        BY <1>1, <2>0, <3>2, <4>2, SMTT(30) DEF QueueInv, Queued, Order
      <4> QED
        BY <1>1, <2>0, <3>2, <4>1, <4>3 DEF Called, CalledAt, Order
    <3>4. CASE sync_queue # <<>>
      <4>1. /\ mine' = [mine EXCEPT ![v] = [mine[v] EXCEPT ![2] = Head(sync_queue)]]
            /\ pc'[v] = IF Completed(Head(sync_queue)) THEN "cancel" ELSE "start"
        BY <2>0, <2>3, <3>4 DEF Scan, Goto
      <4>2. mine[v] \in (Jobs \cup {None}) \X (Jobs \cup {None})
        BY <1>1 DEF DataShape
      <4>3. mine'[v] = [mine[v] EXCEPT ![2] = Head(sync_queue)]
        BY <2>0, <4>1
      <4>4. mine'[v][1] = mine[v][1] /\ mine'[v][2] = Head(sync_queue)
        BY <4>2, <4>3
      <4>5. Head(sync_queue) = Retired + 1 /\ Retired + 1 <= Added /\ Retired + 1 \in Jobs
        BY <1>1, <3>4 DEF Numbers, Order
      <4>6. pc'[v] = "start" => mine[v][1] <= Retired
        <5>1. pc'[v] = "start" => ~(Start + Retired + 1 <= min_val)
          BY <3>4, <4>1, HeadCompleted
        <5>2. mine[v][1] \in Nat
          BY <3>2
        <5> QED
          BY ONLY <2>0, <2>a, <3>2, <5>1, <5>2
      <4>7. pc'[v] \in {"cancel", "start"}
        BY <4>1
      <4>8. Retired + 1 <= Retired + 1
        BY <2>a
      <4>9. CalledAt(pc'[v], mine[v][1], Retired + 1, next, min_val, Retired, Added)
        BY ONLY <3>2, <4>5, <4>6, <4>7, <4>8 DEF CalledAt
      <4> QED
        BY <2>b, <4>4, <4>5, <4>9
    <3> QED
      BY <3>3, <3>4
  <2>4. CASE Cancel(v) \/ Clear(v) \/ Pop(v)
    <3>1. /\ mine'[v] = mine[v] /\ pc[v] \in {"cancel", "flush", "clear", "pop"}
          /\ pc'[v] \in {"flush", "clear", "pop", "scan"}
      BY <2>0, <2>4 DEF Cancel, Clear, Pop, Goto
    <3>2. /\ mine[v][1] \in Jobs /\ mine[v][1] < next /\ Start + mine[v][1] <= min_val
          /\ mine[v][2] \in Jobs /\ mine[v][2] <= Added
      BY <1>1, <3>1 DEF Called, CalledAt
    <3>3. CalledAt(pc'[v], mine[v][1], mine[v][2], next, min_val, Retired, Added)
      BY ONLY <3>1, <3>2 DEF CalledAt
    <3> QED
      BY <2>b, <3>1, <3>3
  <2>5. CASE Restart(v)
    <3>1. mine'[v] = mine[v] /\ pc[v] = "start" /\ pc'[v] = "exit"
      BY <2>0, <2>5 DEF Restart, Goto
    <3>2. /\ mine[v][1] \in Jobs /\ mine[v][1] < next /\ Start + mine[v][1] <= min_val /\ mine[v][1] <= Retired
      BY <1>1, <3>1 DEF Called, CalledAt
    <3> QED
      BY <1>1, <2>0, <3>1, <3>2, SMTT(30) DEF Called, CalledAt, Order
  <2>6. CASE Exit(v)
    <3>1. pc'[v] = "idle"
      BY <2>0, <2>6 DEF Exit, Goto
    <3> QED
      BY <3>1 DEF Called, CalledAt
  <2> QED
    BY <1>6, <2>1, <2>2, <2>3, <2>4, <2>5, <2>6 DEF Update
<1> QED
  BY <1>2, <1>3, <1>4, <1>5, <1>6 DEF Next

\* Waiters.
LEMMA WaitersStep == QueueInv /\ BufferInv /\ [Next]_vars => Waiters'
<1> SUFFICES ASSUME QueueInv, BufferInv, [Next]_vars PROVE Waiters'
  OBVIOUS
<1> USE JobFacts, ProcFacts
<1>1. Order /\ DataShape /\ Waiters
  BY Counts DEF QueueInv, Numbers, Shape, Handled
<1>2. Retired <= Retired' /\ Retired' \in Nat
  BY Growing
<1>3. CASE UNCHANGED <<waiter, next>>
  BY <1>1, <1>2, <1>3 DEF Waiters, Order
<1>4. CASE AddAction
  <2>1. waiter' = [waiter EXCEPT ![next] = "armed"] /\ next' = next + 1 /\ next \in Jobs
    BY <1>1, <1>4 DEF AddAction, QueueInv, Counted, Order
  <2>2. \A j \in Jobs : waiter'[j] = IF j = next THEN "armed" ELSE waiter[j]
    BY <1>1, <2>1 DEF DataShape
  <2> QED
    BY <1>1, <1>2, <2>1, <2>2 DEF Waiters, Order
<1>5. ASSUME NEW u \in Updaters, Exit(u) PROVE Waiters'
  <2>1. waiter' = [waiter EXCEPT ![mine[u][1]] = "done"] /\ next' = next
    BY <1>5 DEF Exit, submit
  <2>2. mine[u][1] \in Jobs /\ mine[u][1] < next /\ mine[u][1] <= Retired
    BY <1>5 DEF Exit, QueueInv, Handled, Called, CalledAt
  <2>3. \A j \in Jobs : waiter'[j] = IF j = mine[u][1] THEN "done" ELSE waiter[j]
    BY <1>1, <2>1 DEF DataShape
  <2> QED
    BY <1>1, <1>2, <2>1, <2>2, <2>3 DEF Waiters, Order
<1>6. CASE SubStep /\ ~AddAction
  BY <1>3, <1>6 DEF SubStep, Begin, Push, WaitSpace, Down, EndCheck, EndAdd, EndKick, EndTimer, submit
<1>7. ASSUME NEW u \in Updaters, Update(u), ~Exit(u) PROVE UNCHANGED <<waiter, next>>
  BY <1>7 DEF Update, Take, Enter, Scan, Cancel, Clear, Pop, Restart, submit
<1>8. CASE Fire \/ Handler \/ AbortBegin \/ Abort \/ Stop \/ Fetch \/ UpdateMin \/ UNCHANGED vars
  <2>1. UNCHANGED <<waiter, next>>
    BY <1>8 DEF Fire, Handler, AbortBegin, Abort, Stop, Fetch, UpdateMin, submit, vars
  <2> QED
    BY <1>3, <2>1
<1> QED
  BY <1>3, <1>4, <1>5, <1>6, <1>7, <1>8 DEF Next, SubStep

\* The timer.
LEMMA TimedStep == QueueInv /\ BufferInv /\ [Next]_vars => Timed'
<1> SUFFICES ASSUME QueueInv, BufferInv, [Next]_vars PROVE Timed'
  OBVIOUS
<1> USE JobFacts, ProcFacts
<1>1. Order /\ DataShape /\ Timed /\ Counted
  BY Counts DEF QueueInv, Numbers, Shape
<1>2. /\ Added \in Nat /\ Added' \in Nat /\ Added <= Added'
      /\ Finished \in Nat /\ Finished' \in Nat /\ Finished <= Finished'
  BY Growing
<1> DEFINE About(c, s) == c # None => s \in Jobs /\ s <= Added' /\ c = ClientId[s]
<1>3. About(clientid, sp)
  BY <1>1, <1>2 DEF Timed
<1>4. About(clientid', sp')
  <2>1. CASE UNCHANGED <<clientid, sp>>
    BY <1>3, <2>1
  <2>2. ASSUME NEW j \in Jobs, j <= Added', StartTimer(j) PROVE About(clientid', sp')
    BY <1>3, <2>2 DEF StartTimer, timer
  <2> HIDE DEF About
  <2>3. CASE EndTimer
    <3>1. next \in Jobs /\ next = Added
      BY <1>1, <2>3 DEF EndTimer, Counted, Order, Added
    <3>2. next \in Jobs /\ next <= Added'
      BY <1>2, <3>1
    <3>3. StartTimer(next) \/ UNCHANGED <<clientid, sp>>
      BY <2>3 DEF EndTimer, timer
    <3> QED
      BY <2>1, <2>2, <3>2, <3>3
  <2>4. ASSUME NEW u \in Updaters, Restart(u) PROVE About(clientid', sp')
    <3>1. mine[u][2] \in Jobs /\ mine[u][2] <= Added /\ StartTimer(mine[u][2])
      BY <2>4 DEF Restart, QueueInv, Handled, Called, CalledAt
    <3>2. mine[u][2] <= Added'
      BY <1>2, <3>1
    <3> QED
      BY <2>2, <3>1, <3>2
  <2>5. ASSUME NEW u \in Updaters, Clear(u) PROVE About(clientid', sp')
    BY <2>5 DEF Clear, About
  <2>6. CASE SubStep /\ ~EndTimer
    BY <2>1, <2>6 DEF SubStep, Begin, Push, WaitSpace, Down, EndCheck, EndAdd, EndKick, AddAction, timer
  <2>7. ASSUME NEW u \in Updaters, Update(u), ~Restart(u), ~Clear(u) PROVE UNCHANGED <<clientid, sp>>
    BY <2>7 DEF Update, Take, Enter, Scan, Cancel, Pop, Exit, timer
  <2>8. CASE Fire \/ Handler \/ AbortBegin \/ Abort \/ Stop \/ Fetch \/ UpdateMin \/ UNCHANGED vars
    <3>1. UNCHANGED <<clientid, sp>>
      BY <2>8 DEF Fire, Handler, AbortBegin, Abort, Stop, Fetch, UpdateMin, timer, vars
    <3> QED
      BY <2>1, <3>1
  <2> QED
    BY <2>1, <2>3, <2>4, <2>5, <2>6, <2>7, <2>8 DEF Next
<1>5. \A j \in Jobs : timeout'[j] \/ j <= Finished'
  <2>1. CASE timeout' = timeout
    BY <1>1, <1>2, <2>1 DEF Timed
  <2>2. CASE Handler \/ Abort
    <3>1. ASSUME NEW l \in Finished .. Added, Recovered(l) PROVE \A j \in Jobs : timeout'[j] \/ j <= Finished'
      <4>1. /\ timeout' = [j \in Jobs |-> timeout[j] /\ j \notin Finished + 1 .. l]
            /\ hw' = Start + l
        BY <3>1 DEF Recovered
      <4>2. Finished' = l
        BY <1>2, <4>1 DEF Finished
      <4>3. ASSUME NEW j \in Jobs PROVE timeout'[j] \/ j <= Finished'
        <5>1. timeout'[j] = (timeout[j] /\ j \notin Finished + 1 .. l)
          BY <4>1
        <5>2. timeout[j] \/ j <= Finished
          BY <1>1 DEF Timed
        <5>3. CASE j <= l
          BY <4>2, <5>3
        <5>4. CASE ~(j <= l)
          <6>1. ~(j <= Finished) /\ j \notin Finished + 1 .. l
            BY <1>2, <3>1, <5>4
          <6> QED
            BY <5>1, <5>2, <6>1
        <5> QED
          BY <5>3, <5>4
      <4> QED
        BY <4>3
    <3> QED
      BY <2>1, <2>2, <3>1, HandlerEffect DEF Recovers
  <2>3. CASE SubStep
    BY <2>1, <2>3 DEF SubStep, Begin, Push, WaitSpace, Down, EndCheck, EndAdd, EndKick, EndTimer, AddAction, job
  <2>4. ASSUME NEW u \in Updaters, Update(u) PROVE timeout' = timeout
    BY <2>4 DEF Update, Take, Enter, Scan, Cancel, Clear, Pop, Restart, Exit, job
  <2>5. CASE Fire \/ AbortBegin \/ Stop \/ Fetch \/ UpdateMin \/ UNCHANGED vars
    BY <2>1, <2>5 DEF Fire, AbortBegin, Stop, Fetch, UpdateMin, job, vars
  <2> QED
    BY <2>1, <2>2, <2>3, <2>4, <2>5 DEF Next
<1> QED
  BY <1>4, <1>5 DEF Timed

\* A stopped channel.
LEMMA HaltedStep == QueueInv /\ [Next]_vars => Halted'
<1> SUFFICES ASSUME QueueInv, [Next]_vars PROVE Halted'
  OBVIOUS
<1>1. Halted
  BY DEF QueueInv
<1>2. CASE SubStep
  <2>1. CASE Begin
    BY <2>1 DEF Begin, Halted
  <2>2. CASE ~Begin
    <3>1. pc["sub"] \notin {"idle", "closed"} /\ running' = running
      BY <1>2, <2>2 DEF SubStep, Push, WaitSpace, Down, EndCheck, EndAdd, EndKick, EndTimer, AddAction, buffer
    <3> QED
      BY <1>1, <3>1 DEF Halted
  <2> QED
    BY <2>1, <2>2
<1>3. CASE Others
  <2>1. pc["sub"] \in {"idle", "closed"} => pc'["sub"] \in {"idle", "closed"}
    BY <1>3, OthersKeep
  <2>2. sync_queue = <<>> => sync_queue' = <<>>
    BY <1>3, OthersQueue DEF Retires
  <2>3. CASE running' = running
    BY <1>1, <2>1, <2>2, <2>3 DEF Halted
  <2>4. CASE Handler \/ Abort
    <3>1. running' = running \/ running' = TRUE
      BY <2>4, HandlerEffect DEF Recovers, Recovered
    <3> QED
      BY <2>3, <3>1 DEF Halted
  <2>5. CASE Stop
    BY <2>1, <2>2, <2>5 DEF Stop, Unused, Halted
  <2>6. ASSUME NEW u \in Updaters, Update(u) PROVE running' = running
    BY <2>6 DEF Update, Take, Enter, Scan, Cancel, Clear, Pop, Restart, Exit, buffer
  <2>7. CASE Fire \/ AbortBegin \/ Fetch \/ UpdateMin \/ UNCHANGED vars
    BY <2>3, <2>7 DEF Fire, AbortBegin, Fetch, UpdateMin, buffer, vars
  <2> QED
    BY <1>3, <2>3, <2>4, <2>5, <2>6, <2>7 DEF Others
<1> QED
  BY <1>2, <1>3 DEF Next, Others

\* The invariant of the sync queue.
LEMMA QueueStep == QueueInv /\ BufferInv /\ [Next]_vars => QueueInv'
<1> SUFFICES ASSUME QueueInv, BufferInv, [Next]_vars PROVE QueueInv'
  OBVIOUS
<1>1. PcShape' /\ DataShape' /\ Counted' /\ Queued' /\ Waiters' /\ Timed' /\ Halted'
  BY PcStep, DataStep, CountedStep, QueuedStep, WaitersStep, TimedStep, HaltedStep DEF QueueInv, Shape
<1>2. (\A u \in Updaters : Called(u))'
  BY CalledStep
<1> QED
  BY <1>1, <1>2 DEF QueueInv, Shape, Handled

-----------------------------------------------------------------------------
(***************************************************************************)
(* The push buffer.  First the actions that leave it alone.                *)
(***************************************************************************)

\* The submit's commands are not handed to the DMA yet.
Unkicked == {"push", "down", "relock", "check", "add", "kick"}

\* Nothing that the invariant of the push buffer speaks of has changed.
Untouched ==
  /\ UNCHANGED <<hw, fence, cur, mem, get, last_put, first_get, slots_free>>
  /\ Begun' = Begun /\ Retired' = Retired
  /\ \A j \in 1 .. Begun : Pushed(j)' = Pushed(j)
  /\ Owed' = Owed
  /\ pc'["sub"] \notin {"idle", "closed"} => pc["sub"] \notin {"idle", "closed"}
  /\ pc'["sub"] \in Unkicked => pc["sub"] \in Unkicked /\ next' = next

\* Then the invariant of the push buffer still holds.
LEMMA UntouchedKeeps ==
  ASSUME QueueInv, BufferInv, Untouched
  PROVE  BufferInv'
<1> USE JobFacts
<1>1. Order
  BY Counts DEF QueueInv, Numbers
<1>2. UNCHANGED <<hw, fence, cur, mem, get, last_put, first_get, slots_free>>
      /\ Begun' = Begun /\ Retired' = Retired /\ Owed' = Owed /\ Finished' = Finished
  BY DEF Untouched, Finished
<1>3. \A j \in 1 .. Begun : Pushed(j)' = Pushed(j)
  BY DEF Untouched
<1>4. Retired + 1 .. Begun \subseteq 1 .. Begun /\ Finished + 1 .. Begun \subseteq 1 .. Begun
  BY <1>1 DEF Order
<1>5. Laid'
  BY <1>2, <1>3, <1>4 DEF BufferInv, Laid, Off
<1>6. Freed'
  BY <1>2 DEF BufferInv, Freed, Front, Off
<1>7. Known'
  BY <1>2 DEF BufferInv, Known, Untouched, Off
<1>8. Dma'
  BY <1>2 DEF BufferInv, Dma, Untouched, Unkicked, Off
<1>9. Stored'
  <2>1. ASSUME NEW j \in Finished + 1 .. Begun, NEW k \in Nat, k < Pushed(j)'
        PROVE  mem[(first_get[j] + k) % P] = <<j, k + 1>>
    BY <1>3, <1>4, <2>1 DEF BufferInv, Stored
  <2> QED
    BY <1>2, <2>1 DEF Stored
<1> QED
  BY <1>5, <1>6, <1>7, <1>8, <1>9 DEF BufferInv

\* Slots are owed by the handlers that have taken a job.
LEMMA OwedSame ==
  ASSUME \A v \in Updaters : /\ Retiring(v)' <=> Retiring(v)
                             /\ Retiring(v) => mine'[v][2] = mine[v][2]
  PROVE  Owed' = Owed
BY DEF Owed

\* The submitter, without Begin, Push and EndKick.
LEMMA SubUntouched ==
  ASSUME QueueInv, WaitSpace \/ Down \/ EndCheck \/ EndAdd \/ EndTimer \/ AddAction
  PROVE  Untouched
<1> USE ProcFacts
<1>1. PcShape /\ SubStep
  BY DEF QueueInv, Shape, SubStep
<1>2. Begun' = Begun /\ Retired' = Retired /\ Owed' = Owed /\ hw' = hw
  <2>1. /\ pc["sub"] # "idle" /\ \A u \in Updaters : pc'[u] = pc[u]
        /\ UNCHANGED mine
    BY <1>1, SubKeep DEF WaitSpace, Down, EndCheck, EndAdd, EndTimer, AddAction
  <2>2. Owed' = Owed
    BY <2>1, OwedSame DEF Retiring
  <2> QED
    BY <1>1, <2>1, <2>2, SubKeep
<1>3. /\ UNCHANGED <<fence, cur, mem, get, last_put, first_get, slots_free, slots_used>>
      /\ pc["sub"] \notin {"idle", "closed"}
      /\ pc'["sub"] \in Unkicked => pc["sub"] \in Unkicked /\ next' = next
  BY <1>1 DEF WaitSpace, Down, EndCheck, EndAdd, EndTimer, AddAction, Goto, PcShape, buffer, submit, job, Unkicked
<1>4. \A j \in 1 .. Begun : Pushed(j)' = Pushed(j)
  <2>1. CASE AddAction
    <3>1. slots_used = Slots[next] /\ next' = next + 1 /\ Begun = next /\ next \in Nat
      BY <2>1 DEF AddAction, QueueInv, Counted, Begun, Shape, DataShape
    <3> QED
      BY <1>3, <3>1 DEF Pushed
  <2>2. CASE ~AddAction
    <3>1. next' = next
      BY <2>2 DEF WaitSpace, Down, EndCheck, EndAdd, EndTimer, submit
    <3> QED
      BY <1>3, <3>1 DEF Pushed
  <2> QED
    BY <2>1, <2>2
<1> QED
  BY <1>2, <1>3, <1>4 DEF Untouched

\* The other processes, without Retires, Pop, Fetch and the recovery.
LEMMA OthersUntouched ==
  ASSUME QueueInv, Others, UNCHANGED <<hw, fence, mem, get, last_put>>, Retired' = Retired, Owed' = Owed
  PROVE  Untouched
<1>1. /\ UNCHANGED <<next, slots_free, slots_used, first_get, cur>>
      /\ pc'["sub"] = pc["sub"] \/ (pc["sub"] = "idle" /\ pc'["sub"] = "closed")
      /\ Begun' = Begun
      /\ \A j : Pushed(j)' = Pushed(j)
  BY OthersKeep
<1> QED
  BY <1>1 DEF Untouched, Unkicked

\* A handler that does not free slots or take a job.
LEMMA UpdateUntouched ==
  ASSUME QueueInv, NEW u \in Updaters, Update(u), ~Pop(u), sync_queue' = sync_queue
  PROVE  Untouched
<1> USE ProcFacts
<1>1. PcShape /\ DataShape /\ Others
  BY DEF QueueInv, Shape, Others
<1>2. UNCHANGED <<hw, fence, mem, get, last_put>>
  BY DEF Update, Take, Enter, Scan, Cancel, Clear, Restart, Exit, buffer, sync
<1>3. Retired' = Retired
  BY <1>1, OthersKeep DEF Retired
<1>4. /\ \A v \in Updaters \ {u} : pc'[v] = pc[v] /\ mine'[v] = mine[v]
      /\ u \in DOMAIN pc
  <2>1. \A v \in Updaters \ {u} : pc'[v] = pc[v]
    BY <1>1 DEF Update, Take, Enter, Scan, Cancel, Clear, Restart, Exit, Goto, PcShape
  <2>2. \A v \in Updaters \ {u} : mine'[v] = mine[v]
    BY <1>1 DEF Update, Take, Enter, Scan, Cancel, Clear, Restart, Exit, DataShape
  <2> QED
    BY <1>1, <2>1, <2>2 DEF PcShape
<1>5. /\ Retiring(u)' <=> Retiring(u)
      /\ Retiring(u) => mine'[u] = mine[u]
  <2>1. CASE Take(u) \/ Enter(u) \/ Restart(u) \/ Exit(u)
    BY <1>4, <2>1 DEF Take, Enter, Restart, Exit, Goto, Retiring
  <2>2. CASE Cancel(u) \/ Clear(u)
    BY <1>4, <2>2 DEF Cancel, Clear, Goto, Retiring
  <2>3. CASE Scan(u)
    <3>1. pc[u] = "scan" /\ pc'[u] \in {"exit", "start"}
      <4>1. ASSUME sync_queue # <<>>, sync_queue' = Tail(sync_queue) PROVE FALSE
        BY <1>1, <4>1 DEF DataShape
      <4> QED
        BY <1>4, <2>3, <4>1 DEF Scan, Goto
    <3> QED
      BY <3>1 DEF Retiring
  <2> QED
    BY <2>1, <2>2, <2>3 DEF Update
<1>6. Owed' = Owed
  <2>1. ASSUME NEW v \in Updaters
        PROVE  /\ Retiring(v)' <=> Retiring(v)
               /\ Retiring(v) => mine'[v][2] = mine[v][2]
    <3>1. CASE v = u
      BY <1>5, <3>1
    <3>2. CASE v # u
      BY <1>4, <3>2 DEF Retiring
    <3> QED
      BY <3>1, <3>2
  <2> QED
    BY <2>1, OwedSame
<1> QED
  BY <1>1, <1>2, <1>3, <1>6, OthersUntouched

\* Timer, closing thread and hardware.
LEMMA RestUntouched ==
  ASSUME QueueInv, Fire \/ AbortBegin \/ Stop \/ UpdateMin \/ UNCHANGED vars
                   \/ ((Handler \/ Abort) /\ UNCHANGED <<hw, mem, get, last_put>>)
  PROVE  Untouched
<1> USE ProcFacts
<1>1. PcShape /\ Others
  BY DEF QueueInv, Shape, Others
<1>2. UNCHANGED <<hw, fence, mem, get, last_put, mine>> /\ sync_queue' = sync_queue
  BY DEF Fire, AbortBegin, Stop, UpdateMin, vars, Handler, Abort, buffer, sync
<1>3. Retired' = Retired
  BY <1>1, <1>2, OthersKeep DEF Retired
<1>4. \A v \in Updaters : pc'[v] = pc[v]
  BY <1>1 DEF Fire, AbortBegin, Stop, UpdateMin, vars, Handler, Abort, Goto, PcShape
<1>5. Owed' = Owed
  BY <1>2, <1>4, OwedSame DEF Retiring
<1> QED
  BY <1>1, <1>2, <1>3, <1>5, OthersUntouched

-----------------------------------------------------------------------------
(***************************************************************************)
(* The actions of the submitter on the push buffer.                        *)
(***************************************************************************)

\* Where things are, as numbers; nothing in use lies in front of the first job.
LEMMA Positions ==
  ASSUME QueueInv, BufferInv
  PROVE  /\ Off(cur) \in Nat /\ Off(cur) < P /\ Off(get) \in Nat /\ Off(last_put) \in Nat
         /\ Off(get) <= Off(last_put) /\ Off(last_put) <= Off(cur)
         /\ \A j \in Retired + 1 .. Begun :
               /\ first_get[j] \in 0 .. P - 1 /\ j \in Jobs /\ j \in 1 .. Begun
               /\ Off(first_get[j]) \in Nat /\ Front <= Off(first_get[j])
               /\ Off(first_get[j]) + Pushed(j) <= Off(cur)
         /\ Front \in Nat /\ Front <= Off(get)
<1> USE JobFacts
<1>1. Numbers /\ Order /\ DataShape
  BY Counts DEF QueueInv, Numbers, Shape
<1>2. get \in 0 .. P - 1 /\ last_put \in 0 .. P - 1 /\ cur \in 0 .. P - 1
  BY <1>1 DEF DataShape
<1>3. /\ Off(get) \in Nat /\ Off(last_put) \in Nat /\ Off(cur) \in Nat /\ Off(cur) < P
      /\ Off(get) <= Off(last_put) /\ Off(last_put) <= Off(cur)
  BY <1>1, <1>2, Offs DEF BufferInv, Dma
<1>4. ASSUME NEW j \in Retired + 1 .. Begun
      PROVE  /\ first_get[j] \in 0 .. P - 1 /\ j \in Jobs /\ j \in 1 .. Begun
             /\ Off(first_get[j]) \in Nat
             /\ Off(first_get[j]) + Pushed(j) <= Off(cur)
  <2>1. j \in Jobs /\ j \in 1 .. Begun
    BY <1>1 DEF Order
  <2>2. first_get[j] \in 0 .. P - 1
    BY <1>1, <2>1 DEF DataShape
  <2> QED
    BY <1>1, <2>1, <2>2, Offs DEF BufferInv, Laid
<1>5. ASSUME NEW j \in Retired + 1 .. Begun PROVE Front <= Off(first_get[j])
  <2>1. Retired + 1 \in Retired + 1 .. Begun /\ Retired < Begun
    BY <1>1 DEF Order
  <2>2. Front = Off(first_get[Retired + 1]) /\ Front \in Nat
    BY <1>4, <2>1 DEF Front
  <2>3. CASE j = Retired + 1
    BY <2>2, <2>3
  <2>4. CASE Retired + 1 < j
    <3>1. Off(first_get[Retired + 1]) + Slots[Retired + 1] <= Off(first_get[j])
      BY <2>1, <2>4 DEF BufferInv, Laid
    <3>2. Slots[Retired + 1] \in Nat /\ Off(first_get[j]) \in Nat
      BY <1>4, <2>1
    <3> QED
      BY <2>2, <3>1, <3>2
  <2> QED
    BY <1>1, <2>3, <2>4 DEF Order
<1>6. Front \in Nat
  <2>1. CASE Retired < Begun
    <3>1. Retired + 1 \in Retired + 1 .. Begun
      BY <1>1, <2>1 DEF Order
    <3> QED
      BY <1>4, <2>1, <3>1 DEF Front
  <2>2. CASE ~(Retired < Begun)
    BY <1>3, <2>2 DEF Front
  <2> QED
    BY <2>1, <2>2
<1>7. Front <= Off(get)
  <2>1. CASE Finished < Begun
    <3>1. Finished + 1 \in Retired + 1 .. Begun
      BY <1>1, <2>1 DEF Order
    <3>2. Off(first_get[Finished + 1]) <= Off(get)
      BY <2>1 DEF BufferInv, Dma
    <3>3. Front <= Off(first_get[Finished + 1]) /\ Off(first_get[Finished + 1]) \in Nat
      BY <1>4, <1>5, <3>1
    <3> QED
      BY <1>3, <1>6, <3>2, <3>3
  <2>2. CASE Finished = Begun
    <3>1. Off(get) = Off(cur)
      BY <2>2 DEF BufferInv, Dma
    <3>2. CASE Retired < Begun
      <4>1. Retired + 1 \in Retired + 1 .. Begun
        BY <1>1, <3>2 DEF Order
      <4>2. Pushed(Retired + 1) \in Nat /\ Off(first_get[Retired + 1]) + Pushed(Retired + 1) <= Off(cur)
            /\ Off(first_get[Retired + 1]) \in Nat /\ Front = Off(first_get[Retired + 1])
        BY <1>1, <1>4, <3>2, <4>1 DEF Numbers, Front
      <4> QED
        BY <1>3, <3>1, <4>2
    <3>3. CASE ~(Retired < Begun)
      BY <1>3, <3>1, <3>3 DEF Front
    <3> QED
      BY <3>2, <3>3
  <2> QED
    BY <1>1, <2>1, <2>2 DEF Order
<1> QED
  BY <1>3, <1>4, <1>5, <1>6, <1>7

\* A submit begins: an empty job behind the others.
LEMMA BeginBuffer ==
  ASSUME QueueInv, BufferInv, Begin
  PROVE  BufferInv'
<1> USE JobFacts, ProcFacts
<1>1. Numbers /\ Order /\ DataShape /\ PcShape
  BY Counts DEF QueueInv, Numbers, Shape
<1>2. /\ Begun' = Begun + 1 /\ Retired' = Retired /\ hw' = hw /\ pc["sub"] = "idle"
      /\ \A u \in Updaters : pc'[u] = pc[u]
      /\ UNCHANGED mine /\ next = Begun + 1 /\ next' = next /\ next \in Jobs /\ pc'["sub"] = "push"
  BY <1>1, SubKeep DEF SubStep, Begin, Begun, Order, Goto, PcShape
<1>3. /\ UNCHANGED <<fence, cur, mem>> /\ slots_free' = 0 /\ slots_used' = 0
      /\ first_get' = [first_get EXCEPT ![next] = cur]
  BY DEF Begin
<1>4. /\ Off(cur) \in Nat /\ Off(cur) < P /\ Off(get) \in Nat /\ Off(last_put) \in Nat
      /\ Off(get) <= Off(last_put) /\ Off(last_put) <= Off(cur)
  BY Positions
<1>5. get' = get /\ last_put' = last_put
  <2>1. CASE running
    BY <2>1 DEF Begin
  <2>2. CASE ~running
    <3>1. Finished = Begun
      BY <1>1, <1>2, <2>2 DEF QueueInv, Halted, Numbers, Order
    <3>2. Off(get) = Off(cur) /\ Off(last_put) = Off(cur)
      BY <1>4, <3>1 DEF BufferInv, Dma
    <3>3. get = cur /\ last_put = cur
      BY <1>1, <3>2, Offs DEF DataShape
    <3> QED
      BY <2>2, <3>3 DEF Begin
  <2> QED
    BY <2>1, <2>2
<1>6. /\ \A j \in 1 .. Begun : first_get'[j] = first_get[j] /\ Pushed(j)' = Pushed(j) /\ Pushed(j) = Slots[j]
      /\ first_get'[next] = cur /\ \A j : j = next => Pushed(j)' = 0
  <2>1. \A j \in 1 .. Begun : j # next
    BY <1>1, <1>2 DEF Order
  <2> QED
    BY <1>1, <1>2, <1>3, <2>1 DEF DataShape, Pushed
<1>7. Retired + 1 .. Begun \subseteq 1 .. Begun /\ Finished + 1 .. Begun \subseteq 1 .. Begun /\ Finished' = Finished
  BY <1>1, <1>2 DEF Order, Finished
<1> DEFINE O(j) == Dist(fence, first_get'[j])
<1>8. /\ \A j \in Retired + 1 .. Begun :
            /\ O(j) = Off(first_get[j]) /\ O(j) \in Nat /\ O(j) + Slots[j] <= Off(cur)
            /\ j = Begun => O(j) + Slots[j] = Off(cur)
      /\ O(next) = Off(cur)
  <2>1. ASSUME NEW j \in Retired + 1 .. Begun
        PROVE  /\ O(j) = Off(first_get[j]) /\ O(j) \in Nat /\ O(j) + Slots[j] <= Off(cur)
               /\ j = Begun => O(j) + Slots[j] = Off(cur)
    <3>1. first_get'[j] = first_get[j] /\ Pushed(j) = Slots[j]
      BY <1>6, <1>7
    <3>2. Off(first_get[j]) \in Nat /\ Off(first_get[j]) + Pushed(j) <= Off(cur)
      BY Positions
    <3>3. j = Begun => Off(first_get[j]) + Pushed(j) = Off(cur)
      BY DEF BufferInv, Laid
    <3> QED
      BY <3>1, <3>2, <3>3 DEF Off
  <2> QED
    BY <1>6, <2>1 DEF Off
<1>9. Laid'
  <2>1. ASSUME NEW j \in Retired + 1 .. Begun + 1
        PROVE  /\ O(j) + Pushed(j)' <= Off(cur)
               /\ j = Begun + 1 => O(j) + Pushed(j)' = Off(cur)
    <3>1. CASE j = next
      <4>1. Off(cur) + 0 = Off(cur)
        BY <1>4
      <4> QED
        BY <1>4, <1>6, <1>8, <3>1, <4>1
    <3>2. CASE j # next
      <4>1. j \in Retired + 1 .. Begun /\ j \in 1 .. Begun
        BY <1>1, <1>2, <3>2 DEF Order
      <4> QED
        BY <1>1, <1>2, <1>6, <1>8, <3>2, <4>1
    <3> QED
      BY <3>1, <3>2
  <2>2. ASSUME NEW i \in Retired + 1 .. Begun + 1, NEW j \in Retired + 1 .. Begun + 1
        PROVE  /\ i < j => O(i) + Slots[i] <= O(j)
               /\ j = i + 1 => O(i) + Slots[i] = O(j)
    <3>1. CASE j = next
      <4>1. i < j => i \in Retired + 1 .. Begun
        BY <1>1, <1>2, <3>1 DEF Order
      <4>2. j = i + 1 => i = Begun /\ i < j
        BY <1>1, <1>2, <3>1 DEF Order
      <4> QED
        BY <1>8, <3>1, <4>1, <4>2
    <3>2. CASE j # next /\ i < j
      <4>1. j \in Retired + 1 .. Begun /\ i \in Retired + 1 .. Begun
        BY <1>1, <1>2, <3>2 DEF Order
      <4>2. /\ Off(first_get[i]) + Slots[i] <= Off(first_get[j])
            /\ j = i + 1 => Off(first_get[i]) + Slots[i] = Off(first_get[j])
        BY <3>2, <4>1 DEF BufferInv, Laid
      <4> QED
        BY <1>8, <4>1, <4>2
    <3>3. CASE ~(i < j)
      <4>1. j # i + 1
        BY <1>1, <3>3 DEF Order
      <4> QED
        BY <3>3, <4>1
    <3> QED
      BY <3>1, <3>2, <3>3
  <2> HIDE DEF O
  <2>3. Dist(fence, cur) = Off(cur)
    BY DEF Off
  <2> QED
    BY <1>2, <1>3, <2>1, <2>2, <2>3 DEF Laid, Off, O
<1>10. Freed'
  <2>1. Owed' = Owed
    BY <1>2, OwedSame DEF Retiring
  <2>2. Front' = Front
    <3>1. CASE Retired < Begun
      <4>1. Retired + 1 \in Retired + 1 .. Begun
        BY <1>1, <3>1 DEF Order
      <4>2. Retired' < Begun'
        BY <1>1, <1>2, <3>1 DEF Order
      <4> QED
        BY <1>2, <1>3, <1>8, <3>1, <4>1, <4>2 DEF Front, Off
    <3>2. CASE ~(Retired < Begun)
      <4>1. Retired' < Begun' /\ Retired + 1 = next
        BY <1>1, <1>2, <3>2 DEF Order
      <4> QED
        BY <1>2, <1>3, <1>8, <3>2, <4>1 DEF Front, Off
    <3> QED
      BY <3>1, <3>2
  <2> QED
    BY <2>1, <2>2 DEF BufferInv, Freed
<1>11. Known'
  <2>1. 0 <= P - 1 - Off(cur)
    BY <1>4
  <2> QED
    BY <1>3, <2>1 DEF Known, Off
<1>12. Dma'
  <2>1. CASE Finished < Begun
    <3>1. /\ Off(first_get[Finished + 1]) <= Off(get)
          /\ Off(get) < Off(first_get[Finished + 1]) + Slots[Finished + 1]
      BY <2>1 DEF BufferInv, Dma
    <3>2. Finished + 1 \in Retired + 1 .. Begun /\ Finished + 1 \in 1 .. Begun /\ Finished # Begun + 1
      BY <1>1, <2>1 DEF Order
    <3>3. first_get'[Finished + 1] = first_get[Finished + 1]
      BY <1>6, <3>2
    <3>4. Off(last_put) < Off(cur) + Slots[next] /\ Finished < next
      BY <1>1, <1>2, <1>4 DEF Order
    <3> QED
      BY <1>2, <1>3, <1>4, <1>5, <1>6, <1>7, <3>1, <3>2, <3>3, <3>4 DEF Dma, Off
  <2>2. CASE Finished = Begun
    <3>1. Off(get) = Off(cur) /\ Finished + 1 = next /\ Finished # Begun + 1
      BY <1>1, <1>2, <2>2 DEF BufferInv, Dma, Order
    <3>2. /\ Off(last_put) < Off(cur) + Slots[next] /\ Off(get) < Off(cur) + Slots[next]
          /\ Off(cur) <= Off(get) /\ Finished < next
      BY <1>1, <1>2, <1>4, <3>1 DEF Order
    <3> QED
      BY <1>2, <1>3, <1>4, <1>5, <1>6, <1>7, <3>1, <3>2 DEF Dma, Off
  <2> QED
    BY <1>1, <2>1, <2>2 DEF Order
<1>13. Stored'
  <2>1. ASSUME NEW j \in Finished + 1 .. Begun + 1, NEW k \in Nat, k < Pushed(j)'
        PROVE  mem[(first_get'[j] + k) % P] = <<j, k + 1>>
    <3>1. j # next
      <4>1. ~(k < 0)
        OBVIOUS
      <4> QED
        BY <1>6, <2>1, <4>1
    <3>2. j \in Finished + 1 .. Begun /\ j \in 1 .. Begun
      BY <1>1, <1>2, <3>1 DEF Order
    <3> QED
      BY <1>6, <2>1, <3>2 DEF BufferInv, Stored
  <2> QED
    BY <1>2, <1>3, <1>7, <2>1 DEF Stored
<1> QED
  BY <1>9, <1>10, <1>11, <1>12, <1>13 DEF BufferInv

\* A command is pushed into a free slot.
LEMMA PushBuffer ==
  ASSUME QueueInv, BufferInv, Push
  PROVE  BufferInv'
<1> USE JobFacts, ProcFacts
<1>1. Numbers /\ Order /\ DataShape /\ PcShape
  BY Counts DEF QueueInv, Numbers, Shape
<1>2. /\ Begun' = Begun /\ Retired' = Retired /\ hw' = hw /\ Finished' = Finished
      /\ \A u \in Updaters : pc'[u] = pc[u]
      /\ UNCHANGED mine /\ next' = next /\ pc["sub"] = "push" /\ pc'["sub"] \in {"push", "check"}
  BY <1>1, SubKeep DEF SubStep, Push, Goto, PcShape, Finished
<1>3. next = Begun /\ Added < Begun /\ next \in Jobs /\ Retired < Begun /\ Finished < Begun
  BY <1>1, <1>2 DEF Begun, Added, Order
<1>4. /\ UNCHANGED <<fence, get, last_put, first_get>>
      /\ slots_used' = slots_used + 1 /\ slots_used \in Nat /\ slots_free \in Nat
      /\ mem' = [mem EXCEPT ![cur] = <<next, slots_used + 1>>]
      /\ cur' = (cur + 1) % P /\ cur \in 0 .. P - 1 /\ fence \in 0 .. P - 1
  BY <1>1 DEF Push, job, DataShape, P
<1>5. /\ Off(cur) \in Nat /\ Off(cur) < P /\ Off(get) \in Nat /\ Off(last_put) \in Nat
      /\ Off(get) <= Off(last_put) /\ Off(last_put) <= Off(cur)
  BY Positions
<1>6. Space = P - 1 - Off(cur) /\ slots_free <= P - 1 - Off(cur)
  <2>1. (fence - cur) % P = P - 1 - Dist(fence, cur)
    BY <1>4, Ring
  <2> QED
    BY <1>2, <2>1 DEF Space, Off, P, BufferInv, Known
<1>7. /\ Off(cur) + 1 < P /\ slots_free' \in Nat /\ slots_free' <= P - 1 - (Off(cur) + 1)
  <2>1. slots_free > 0 \/ Space > 0
    BY DEF Push
  <2>2. slots_free' = (IF slots_free = 0 THEN Space ELSE slots_free) - 1
    BY DEF Push
  <2> QED
    BY <1>4, <1>5, <1>6, <2>1, <2>2, SMTT(30)
<1>8. cur' \in 0 .. P - 1 /\ Dist(fence, cur') = Off(cur) + 1
  <2>1. (cur + 1) % P \in 0 .. P - 1 /\ Off((cur + 1) % P) = Off(cur) + 1
    BY <1>1, <1>4, <1>7, Offs
  <2> QED
    BY <1>4, <2>1 DEF Off
<1>9. /\ \A j \in 1 .. Begun : j # next => Pushed(j)' = Pushed(j)
      /\ \A j : j = next => Pushed(j)' = slots_used + 1 /\ Pushed(j) = slots_used
  BY <1>2, <1>4 DEF Pushed
<1>10. \A j \in Retired + 1 .. Begun :
         /\ first_get[j] \in 0 .. P - 1 /\ j \in 1 .. Begun /\ Off(first_get[j]) \in Nat
         /\ Off(first_get[j]) + Pushed(j) <= Off(cur) /\ Pushed(j) \in Nat
         /\ j = next => Off(first_get[j]) + slots_used = Off(cur)
  <2> TAKE j \in Retired + 1 .. Begun
  <2>1. /\ first_get[j] \in 0 .. P - 1 /\ j \in 1 .. Begun /\ Off(first_get[j]) \in Nat
        /\ Off(first_get[j]) + Pushed(j) <= Off(cur)
    BY Positions
  <2>2. j = next => Off(first_get[j]) + Pushed(j) = Off(cur)
    BY <1>3 DEF BufferInv, Laid
  <2>3. Pushed(j) \in Nat
    BY <1>1, <2>1 DEF Numbers
  <2> QED
    BY <1>9, <2>1, <2>2, <2>3
<1>11. Laid'
  <2>1. ASSUME NEW j \in Retired + 1 .. Begun
        PROVE  /\ Off(first_get[j]) + Pushed(j)' <= Off(cur) + 1
               /\ j = Begun => Off(first_get[j]) + Pushed(j)' = Off(cur) + 1
    <3>1. CASE j = next
      <4>1. /\ Pushed(j)' = slots_used + 1 /\ Off(first_get[j]) + slots_used = Off(cur)
            /\ Off(first_get[j]) \in Nat
        BY <1>9, <1>10, <3>1
      <4>2. Off(first_get[j]) + (slots_used + 1) = Off(cur) + 1
        BY <1>4, <1>5, <4>1
      <4> QED
        BY <1>5, <4>1, <4>2
    <3>2. CASE j # next
      <4>1. /\ Pushed(j)' = Pushed(j) /\ Off(first_get[j]) + Pushed(j) <= Off(cur) /\ j # Begun
            /\ Off(first_get[j]) \in Nat /\ Pushed(j) \in Nat
        BY <1>3, <1>9, <1>10, <3>2
      <4> QED
        BY <1>5, <4>1
    <3> QED
      BY <3>1, <3>2
  <2>2. \A i, j \in Retired + 1 .. Begun :
          /\ i < j => Off(first_get[i]) + Slots[i] <= Off(first_get[j])
          /\ j = i + 1 => Off(first_get[i]) + Slots[i] = Off(first_get[j])
    BY DEF BufferInv, Laid
  <2>3. Off(cur)' = Off(cur) + 1 /\ \A j : Off(first_get[j])' = Off(first_get[j])
    BY <1>4, <1>8 DEF Off
  <2> QED
    BY <1>2, <2>1, <2>2, <2>3 DEF Laid
<1>12. Freed'
  <2>1. Owed' = Owed
    BY <1>2, OwedSame DEF Retiring
  <2>2. Front' = Front
    BY <1>2, <1>3, <1>4 DEF Front, Off
  <2> QED
    BY <2>1, <2>2 DEF BufferInv, Freed
<1>13. Known'
  <2>1. Off(cur)' = Off(cur) + 1
    BY <1>4, <1>8 DEF Off
  <2> QED
    BY <1>7, <2>1 DEF Known
<1>14. Dma'
  <2>1. Off(cur)' = Off(cur) + 1 /\ Off(get)' = Off(get) /\ Off(last_put)' = Off(last_put)
        /\ \A j : Off(first_get[j])' = Off(first_get[j])
    BY <1>4, <1>8 DEF Off
  <2>2. /\ Off(first_get[Finished + 1]) <= Off(get)
        /\ Off(get) < Off(first_get[Finished + 1]) + Slots[Finished + 1]
        /\ Off(last_put) < Off(first_get[next]) + Slots[next] /\ Finished < next
    BY <1>2, <1>3 DEF BufferInv, Dma
  <2>3. Off(last_put) <= Off(cur) + 1 /\ Finished # Begun
    BY <1>1, <1>3, <1>5 DEF Order
  <2> QED
    BY <1>2, <1>4, <1>5, <2>1, <2>2, <2>3 DEF Dma, Off
<1>15. Stored'
  <2>1. ASSUME NEW j \in Finished + 1 .. Begun, NEW k \in Nat, k < Pushed(j)'
        PROVE  mem'[(first_get[j] + k) % P] = <<j, k + 1>>
    <3>1. j \in Retired + 1 .. Begun
      BY <1>1 DEF Order
    <3>2. /\ first_get[j] \in 0 .. P - 1 /\ j \in 1 .. Begun /\ Off(first_get[j]) \in Nat
          /\ Off(first_get[j]) + Pushed(j) <= Off(cur) /\ Pushed(j) \in Nat
          /\ j = next => Off(first_get[j]) + slots_used = Off(cur)
      BY <1>10, <3>1
    <3> DEFINE x == (first_get[j] + k) % P
    <3>3. CASE j = next /\ k = slots_used
      <4>1. Off(first_get[j]) + k = Off(cur) /\ Off(first_get[j]) + k < P
        BY <1>5, <3>2, <3>3
      <4>2. x \in 0 .. P - 1 /\ Off(x) = Off(cur)
        BY <1>1, <3>2, <4>1, Offs
      <4>3. x = cur
        BY <1>1, <1>4, <4>2, Offs
      <4>4. mem'[cur] = <<next, slots_used + 1>>
        BY <1>1, <1>4 DEF DataShape
      <4> HIDE DEF x
      <4>5. mem'[x] = <<j, k + 1>>
        BY <3>3, <4>3, <4>4
      <4> QED
        BY <4>5 DEF x
    <3>4. CASE ~(j = next /\ k = slots_used)
      <4>1. k < Pushed(j)
        BY <1>4, <1>9, <2>1, <3>2, <3>4
      <4>2. Off(first_get[j]) + k < Off(cur) /\ Off(first_get[j]) + k < P
        BY <1>5, <3>2, <4>1
      <4>3. x \in 0 .. P - 1 /\ Off(x) = Off(first_get[j]) + k
        BY <1>1, <3>2, <4>2, Offs
      <4>4. x # cur
        BY <1>5, <3>2, <4>2, <4>3
      <4>5. mem[x] = <<j, k + 1>>
        BY <4>1 DEF BufferInv, Stored
      <4> HIDE DEF x
      <4>6. mem'[x] = mem[x]
        BY <1>1, <1>4, <4>3, <4>4 DEF DataShape
      <4> QED
        BY <4>5, <4>6 DEF x
    <3> QED
      BY <3>3, <3>4
  <2>2. Finished' = Finished /\ Begun' = Begun /\ first_get' = first_get
    BY <1>2, <1>4
  <2> QED
    BY <2>1, <2>2, Zenon DEF Stored
<1> QED
  BY <1>11, <1>12, <1>13, <1>14, <1>15 DEF BufferInv

\* The DMA may fetch everything that has been pushed.
LEMMA KickBuffer ==
  ASSUME QueueInv, BufferInv, EndKick
  PROVE  BufferInv'
<1> USE JobFacts, ProcFacts
<1>1. Numbers /\ Order /\ DataShape /\ PcShape
  BY Counts DEF QueueInv, Numbers, Shape
<1>2. /\ Begun' = Begun /\ Retired' = Retired /\ hw' = hw /\ Finished' = Finished
      /\ \A u \in Updaters : pc'[u] = pc[u]
      /\ UNCHANGED mine /\ next' = next /\ pc["sub"] = "kick" /\ pc'["sub"] = "timer"
  BY <1>1, SubKeep DEF SubStep, EndKick, Goto, PcShape, Finished, submit
<1>3. UNCHANGED <<fence, cur, mem, get, first_get, slots_used, slots_free>> /\ last_put' = cur
  BY DEF EndKick, job, submit
<1>4. /\ Off(cur) \in Nat /\ Off(get) \in Nat /\ Off(last_put) \in Nat
      /\ Off(get) <= Off(last_put) /\ Off(last_put) <= Off(cur)
  BY Positions
<1>5. Owed' = Owed
  BY <1>2, OwedSame DEF Retiring
<1>6. Laid' /\ Known' /\ Freed'
  BY <1>2, <1>3, <1>5 DEF BufferInv, Laid, Known, Freed, Front, Off, Pushed
<1>7. Stored'
  BY <1>2, <1>3 DEF BufferInv, Stored, Pushed
<1>8. Dma'
  <2>1. Off(get) <= Off(cur) /\ Off(cur) <= Off(cur)
    BY <1>4
  <2> QED
    BY <1>2, <1>3, <2>1 DEF BufferInv, Dma, Off
<1> QED
  BY <1>6, <1>7, <1>8 DEF BufferInv

-----------------------------------------------------------------------------
(***************************************************************************)
(* Retirement: a job is taken off the queue, and later its slots are freed.*)
(***************************************************************************)

\* The slots that a handler owes.
Block(u, n) == {u} \X (1 .. n)

\* They are as many as the commands of its job.
LEMMA BlockSize ==
  ASSUME NEW u, NEW n \in Nat
  PROVE  IsFiniteSet(Block(u, n)) /\ Cardinality(Block(u, n)) = n
<1>1. IsFiniteSet({u}) /\ Cardinality({u}) = 1
  BY FS_Singleton
<1>2. IsFiniteSet(1 .. n) /\ Cardinality(1 .. n) = n
  BY FS_Interval
<1>3. IsFiniteSet({u} \X (1 .. n)) /\ Cardinality({u} \X (1 .. n)) = Cardinality({u}) * Cardinality(1 .. n)
  BY <1>1, <1>2, FS_Product
<1> QED
  BY <1>1, <1>2, <1>3 DEF Block

\* A finished job leaves the queue; its slots are owed.
LEMMA RetireBuffer ==
  ASSUME QueueInv, BufferInv, NEW u \in Updaters, Retires(u)
  PROVE  BufferInv'
<1> USE JobFacts, ProcFacts
<1>1. Numbers /\ Order /\ DataShape /\ PcShape
  BY Counts DEF QueueInv, Numbers, Shape
<1>2. Others
  BY DEF Retires, Others, Update
<1>3. /\ UNCHANGED <<next, slots_free, slots_used, first_get, cur>>
      /\ pc'["sub"] = pc["sub"] \/ (pc["sub"] = "idle" /\ pc'["sub"] = "closed")
      /\ Begun' = Begun
      /\ \A j : Pushed(j)' = Pushed(j)
  BY <1>2, OthersKeep
<1>4. UNCHANGED <<hw, fence, mem, get, last_put>> /\ Finished' = Finished
  BY DEF Retires, Scan, buffer, sync, Finished
<1> DEFINE j == Retired + 1
           s == Slots[j]
<1>5. /\ Retired' = Retired + 1 /\ Retired < Added /\ Retired < Begun
  <2>1. sync_queue' # sync_queue
    BY <1>1 DEF Retires, DataShape
  <2>2. Retired' = Retired + 1 /\ Retired < Added
    BY <1>2, <2>1, OthersQueue
  <2> QED
    BY <1>1, <2>2 DEF Order
<1>6. j \in Jobs /\ j \in Retired + 1 .. Begun /\ j \in 1 .. Begun /\ s \in Nat /\ s >= 1 /\ Pushed(j) = s
  BY <1>1, <1>5 DEF Order, Numbers
<1>7. Head(sync_queue) = j
  BY <1>1, <1>5 DEF Numbers, Order
<1>8. Owed' = Owed \cup Block(u, s) /\ Owed \cap Block(u, s) = {}
  <2>1. pc[u] = "scan" /\ u \in DOMAIN pc /\ u \in DOMAIN mine /\ DOMAIN mine = Updaters /\ DOMAIN pc = Procs
    BY <1>1 DEF Retires, Scan, PcShape, DataShape
  <2>2. pc'[u] = "cancel" /\ \A v \in Updaters \ {u} : pc'[v] = pc[v]
    BY <2>1 DEF Retires, Goto
  <2>3. mine' = [mine EXCEPT ![u] = [mine[u] EXCEPT ![2] = j]]
    BY <1>7 DEF Retires
  <2>4. \A v \in Updaters \ {u} : mine'[v] = mine[v]
    BY <2>1, <2>3
  <2>5. mine'[u][2] = j
    <3>1. mine[u] \in (Jobs \cup {None}) \X (Jobs \cup {None})
      BY <1>1 DEF DataShape
    <3>2. mine'[u] = [mine[u] EXCEPT ![2] = j]
      BY <2>1, <2>3
    <3> HIDE DEF j
    <3> QED
      BY <3>1, <3>2
  <2> HIDE DEF j
  <2>6. ~Retiring(u)
    BY <2>1 DEF Retiring
  <2>7. \A v \in Updaters \ {u} : Retiring(v)' <=> Retiring(v)
    BY <2>2 DEF Retiring
  <2>8. Retiring(u)'
    BY <2>2 DEF Retiring
  <2>9. Owed \cap Block(u, s) = {}
    BY <2>6 DEF Owed, Block
  <2>10. ASSUME NEW x PROVE x \in Owed' <=> x \in Owed \cup Block(u, s)
    <3>1. CASE x \notin Updaters \X Nat
      BY <1>6, <3>1 DEF Owed, Block
    <3>2. CASE x \in Updaters \X Nat
      <4>1. PICK v \in Updaters, i \in Nat : x = <<v, i>>
        BY <3>2
      <4>2. x \in Owed <=> Retiring(v) /\ 1 <= i /\ i <= Slots[mine[v][2]]
        BY <4>1 DEF Owed
      <4>3. x \in Owed' <=> Retiring(v)' /\ 1 <= i /\ i <= Slots[mine'[v][2]]
        BY <4>1 DEF Owed
      <4>4. x \in Block(u, s) <=> v = u /\ 1 <= i /\ i <= s
        BY <1>6, <4>1 DEF Block
      <4>5. CASE v = u
        BY <2>5, <2>6, <2>8, <4>2, <4>3, <4>4, <4>5
      <4>6. CASE v # u
        BY <2>4, <2>7, <4>2, <4>3, <4>4, <4>6
      <4> QED
        BY <4>5, <4>6
    <3> QED
      BY <3>1, <3>2
  <2> QED
    BY <2>9, <2>10
<1>9. /\ Off(cur) \in Nat /\ Off(first_get[j]) \in Nat
      /\ \A i \in Retired + 1 .. Begun : first_get[i] \in 0 .. P - 1
  BY <1>6, Positions
<1>10. Front = Off(first_get[j]) /\ Front' = Off(first_get[j]) + s
  <2>1. Front = Off(first_get[j])
    BY <1>5 DEF Front
  <2>2. CASE j < Begun
    <3>1. j + 1 \in Retired + 1 .. Begun /\ Retired' < Begun'
      BY <1>1, <1>3, <1>5, <2>2 DEF Order
    <3>2. Off(first_get[j]) + Slots[j] = Off(first_get[j + 1])
      BY <1>6, <3>1 DEF BufferInv, Laid
    <3> QED
      BY <1>3, <1>4, <1>5, <2>1, <3>1, <3>2 DEF Front, Off
  <2>3. CASE j = Begun
    <3>1. ~(Retired' < Begun')
      BY <1>1, <1>3, <1>5, <2>3 DEF Order
    <3>2. Off(first_get[j]) + Pushed(j) = Off(cur)
      BY <1>6, <2>3 DEF BufferInv, Laid
    <3> QED
      BY <1>3, <1>4, <1>6, <2>1, <3>1, <3>2 DEF Front, Off
  <2> QED
    BY <1>1, <1>5, <2>2, <2>3 DEF Order
<1>11. Freed'
  <2>1. IsFiniteSet(Owed) /\ Cardinality(Owed) = Front
    BY DEF BufferInv, Freed
  <2>2. IsFiniteSet(Block(u, s)) /\ Cardinality(Block(u, s)) = s
    BY <1>6, BlockSize
  <2>3. /\ IsFiniteSet(Owed \cup Block(u, s))
        /\ Cardinality(Owed \cup Block(u, s)) = Cardinality(Owed) + Cardinality(Block(u, s)) - Cardinality({})
    BY <1>8, <2>1, <2>2, FS_Union
  <2>4. Cardinality(Owed \cup Block(u, s)) = Front + s
    BY <1>6, <1>9, <1>10, <2>1, <2>2, <2>3, FS_EmptySet
  <2> QED
    BY <1>8, <1>10, <2>3, <2>4 DEF Freed
<1>12. Retired' + 1 .. Begun \subseteq Retired + 1 .. Begun
  BY <1>1, <1>5 DEF Order
<1>13. Laid'
  BY <1>3, <1>4, <1>12 DEF BufferInv, Laid, Off
<1>14. Known' /\ Dma'
  BY <1>3, <1>4 DEF BufferInv, Known, Dma, Off
<1>15. Stored'
  BY <1>3, <1>4 DEF BufferInv, Stored
<1> QED
  BY <1>11, <1>13, <1>14, <1>15 DEF BufferInv

\* Comparisons do not change when both sides move.
LEMMA Shift ==
  ASSUME NEW a \in Int, NEW b \in Int, NEW n \in Int, NEW s \in Int
  PROVE  /\ a + n <= b => (a - s) + n <= b - s
         /\ a + n = b => (a - s) + n = b - s
         /\ a <= b => a - s <= b - s
         /\ b < a + n => b - s < (a - s) + n
  OBVIOUS

\* The slots are freed: the fence moves over the front of the buffer.
LEMMA PopBuffer ==
  ASSUME QueueInv, BufferInv, NEW u \in Updaters, Pop(u)
  PROVE  BufferInv'
<1> USE JobFacts, ProcFacts
<1>1. Numbers /\ Order /\ DataShape /\ PcShape
  BY Counts DEF QueueInv, Numbers, Shape
<1>2. Others
  BY DEF Others, Update
<1>3. /\ UNCHANGED <<next, slots_free, slots_used, first_get, cur>>
      /\ pc'["sub"] = pc["sub"] \/ (pc["sub"] = "idle" /\ pc'["sub"] = "closed")
      /\ Begun' = Begun /\ Added' = Added
      /\ \A j : Pushed(j)' = Pushed(j)
  BY <1>2, OthersKeep
<1>4. UNCHANGED <<hw, mem, get, last_put>> /\ Finished' = Finished /\ Retired' = Retired
  BY <1>3 DEF Pop, sync, Finished, Retired
<1> DEFINE s == Slots[mine[u][2]]
<1>5. mine[u][2] \in Jobs /\ s \in Nat /\ s >= 1
  <2>1. mine[u][2] \in Jobs
    BY DEF Pop, QueueInv, Handled, Called, CalledAt
  <2> QED
    BY <2>1
<1>6. fence' = (fence + s) % P
  BY DEF Pop, P
<1>7. Owed' = Owed \ Block(u, s) /\ Block(u, s) \subseteq Owed
  <2>1. pc[u] = "pop" /\ u \in DOMAIN pc /\ DOMAIN pc = Procs /\ mine' = mine
    BY <1>1 DEF Pop, PcShape
  <2>2. pc'[u] = "scan" /\ \A v \in Updaters \ {u} : pc'[v] = pc[v]
    BY <2>1 DEF Pop, Goto
  <2>3. \A v \in Updaters \ {u} : Retiring(v)' <=> Retiring(v)
    BY <2>2 DEF Retiring
  <2>4. Retiring(u) /\ ~Retiring(u)'
    BY <2>1, <2>2 DEF Retiring
  <2> HIDE DEF s
  <2>5. ASSUME NEW x PROVE /\ x \in Owed' <=> x \in Owed \ Block(u, s)
                           /\ x \in Block(u, s) => x \in Owed
    <3>1. CASE x \notin Updaters \X Nat
      BY <1>5, <3>1 DEF Owed, Block
    <3>2. CASE x \in Updaters \X Nat
      <4>1. PICK v \in Updaters, i \in Nat : x = <<v, i>>
        BY <3>2
      <4>2. x \in Owed <=> Retiring(v) /\ 1 <= i /\ i <= Slots[mine[v][2]]
        BY <4>1 DEF Owed
      <4>3. x \in Owed' <=> Retiring(v)' /\ 1 <= i /\ i <= Slots[mine[v][2]]
        BY <2>1, <4>1 DEF Owed
      <4>4. x \in Block(u, s) <=> v = u /\ 1 <= i /\ i <= s
        BY <1>5, <4>1 DEF Block
      <4>5. CASE v = u
        BY <2>4, <4>2, <4>3, <4>4, <4>5 DEF s
      <4>6. CASE v # u
        BY <2>3, <4>2, <4>3, <4>4, <4>6
      <4> QED
        BY <4>5, <4>6
    <3> QED
      BY <3>1, <3>2
  <2> QED
    BY <2>5
<1> HIDE DEF s
<1>8. /\ IsFiniteSet(Owed') /\ Cardinality(Owed') = Front - s /\ s <= Front /\ Front \in Nat
  <2>1. IsFiniteSet(Owed) /\ Cardinality(Owed) = Front /\ Front \in Nat
    BY Positions DEF BufferInv, Freed
  <2>2. IsFiniteSet(Block(u, s)) /\ Cardinality(Block(u, s)) = s
    BY <1>5, BlockSize
  <2>3. Owed \cap Block(u, s) = Block(u, s)
    BY <1>7
  <2>4. /\ IsFiniteSet(Owed \ Block(u, s))
        /\ Cardinality(Owed \ Block(u, s)) = Cardinality(Owed) - Cardinality(Owed \cap Block(u, s))
    BY <2>1, FS_Difference
  <2>5. Cardinality(Block(u, s)) <= Cardinality(Owed)
    BY <1>7, <2>1, FS_Subset
  <2> QED
    BY <1>7, <2>1, <2>2, <2>3, <2>4, <2>5
<1>9. ASSUME NEW x \in 0 .. P - 1, Front <= Off(x)
      PROVE  Dist(fence', x) = Off(x) - s
  <2>1. fence \in 0 .. P - 1 /\ s <= Dist(fence, x)
    <3>1. Off(x) \in Nat
      BY <1>1, Offs
    <3> QED
      BY <1>1, <1>5, <1>8, <1>9, <3>1 DEF Off, DataShape
  <2>2. Dist((fence + s) % P, x) = Dist(fence, x) - s
    BY <1>5, <2>1, Ring
  <2> QED
    BY <1>6, <2>2 DEF Off
<1>10. /\ Off(cur) \in Nat /\ Off(cur) < P /\ Off(get) \in Nat /\ Off(last_put) \in Nat
       /\ Off(get) <= Off(last_put) /\ Off(last_put) <= Off(cur) /\ Front <= Off(get)
       /\ cur \in 0 .. P - 1 /\ get \in 0 .. P - 1 /\ last_put \in 0 .. P - 1
  BY <1>1, Positions DEF DataShape
<1>11. Front <= Off(last_put) /\ Front <= Off(cur)
  BY <1>8, <1>10
<1>12. Off(cur)' = Off(cur) - s /\ Off(get)' = Off(get) - s /\ Off(last_put)' = Off(last_put) - s
  <2>1. /\ Dist(fence', cur) = Off(cur) - s /\ Dist(fence', get) = Off(get) - s
        /\ Dist(fence', last_put) = Off(last_put) - s
    BY <1>9, <1>10, <1>11
  <2> QED
    BY <1>3, <1>4, <2>1 DEF Off
<1>13. \A j \in Retired + 1 .. Begun :
         /\ Off(first_get[j])' = Off(first_get[j]) - s /\ Off(first_get[j]) \in Nat
         /\ Slots[j] \in Nat /\ Pushed(j) \in Nat
  <2> TAKE j \in Retired + 1 .. Begun
  <2>1. /\ first_get[j] \in 0 .. P - 1 /\ j \in Jobs /\ j \in 1 .. Begun
        /\ Off(first_get[j]) \in Nat /\ Front <= Off(first_get[j])
    BY Positions
  <2>2. Dist(fence', first_get[j]) = Off(first_get[j]) - s
    BY <1>9, <2>1
  <2>3. Pushed(j) \in Nat /\ Slots[j] \in Nat
    BY <1>1, <2>1 DEF Numbers
  <2> QED
    BY <1>3, <2>1, <2>2, <2>3 DEF Off
<1>14. Laid'
  <2>1. ASSUME NEW j \in Retired + 1 .. Begun
        PROVE  /\ Off(first_get[j])' + Pushed(j) <= Off(cur)'
               /\ j = Begun => Off(first_get[j])' + Pushed(j) = Off(cur)'
    <3>1. /\ Off(first_get[j]) + Pushed(j) <= Off(cur)
          /\ j = Begun => Off(first_get[j]) + Pushed(j) = Off(cur)
      BY DEF BufferInv, Laid
    <3>2. Off(first_get[j])' = Off(first_get[j]) - s /\ Off(first_get[j]) \in Nat /\ Pushed(j) \in Nat
      BY <1>13
    <3>3. /\ (Off(first_get[j]) - s) + Pushed(j) <= Off(cur) - s
          /\ j = Begun => (Off(first_get[j]) - s) + Pushed(j) = Off(cur) - s
      BY <1>5, <1>10, <3>1, <3>2, Shift
    <3> QED
      BY <1>12, <3>2, <3>3
  <2>2. ASSUME NEW i \in Retired + 1 .. Begun, NEW j \in Retired + 1 .. Begun
        PROVE  /\ i < j => Off(first_get[i])' + Slots[i] <= Off(first_get[j])'
               /\ j = i + 1 => Off(first_get[i])' + Slots[i] = Off(first_get[j])'
    <3>1. /\ i < j => Off(first_get[i]) + Slots[i] <= Off(first_get[j])
          /\ j = i + 1 => Off(first_get[i]) + Slots[i] = Off(first_get[j])
      BY DEF BufferInv, Laid
    <3>2. /\ Off(first_get[i])' = Off(first_get[i]) - s /\ Off(first_get[i]) \in Nat /\ Slots[i] \in Nat
          /\ Off(first_get[j])' = Off(first_get[j]) - s /\ Off(first_get[j]) \in Nat
      BY <1>13
    <3>3. /\ i < j => (Off(first_get[i]) - s) + Slots[i] <= Off(first_get[j]) - s
          /\ j = i + 1 => (Off(first_get[i]) - s) + Slots[i] = Off(first_get[j]) - s
      BY <1>5, <3>1, <3>2, Shift
    <3> QED
      BY <3>2, <3>3
  <2> QED
    BY <1>3, <1>4, <2>1, <2>2 DEF Laid
<1>15. Freed'
  <2>1. Front' = Front - s
    <3>1. CASE Retired < Begun
      <4>1. Retired + 1 \in Retired + 1 .. Begun
        BY <1>1, <3>1 DEF Order
      <4>2. Off(first_get[Retired + 1])' = Off(first_get[Retired + 1]) - s
        <5>1. PICK j \in Retired + 1 .. Begun : j = Retired + 1
          BY <4>1
        <5>2. Off(first_get[j])' = Off(first_get[j]) - s
          BY <1>13
        <5> QED
          BY <1>4, <5>1, <5>2
      <4> QED
        BY <1>3, <1>4, <3>1, <4>2 DEF Front
    <3>2. CASE ~(Retired < Begun)
      BY <1>3, <1>4, <1>12, <3>2 DEF Front
    <3> QED
      BY <3>1, <3>2
  <2> QED
    BY <1>8, <2>1 DEF Freed
<1>16. Known'
  <2>1. P - 1 - Off(cur) <= P - 1 - Off(cur)'
    BY <1>5, <1>10, <1>12
  <2>2. slots_free \in Nat /\ P - 1 - Off(cur)' \in Int /\ P - 1 - Off(cur) \in Int
    BY <1>1, <1>5, <1>10, <1>12, SMTT(30) DEF DataShape
  <2> QED
    BY <1>3, <2>1, <2>2 DEF BufferInv, Known
<1>17. Dma'
  <2>1. Off(get)' <= Off(last_put)' /\ Off(last_put)' <= Off(cur)'
    BY <1>5, <1>10, <1>12
  <2>2. ASSUME Finished < Begun
        PROVE  /\ Off(first_get[Finished + 1])' <= Off(get)'
               /\ Off(get)' < Off(first_get[Finished + 1])' + Slots[Finished + 1]
    <3>1. PICK j \in Retired + 1 .. Begun : j = Finished + 1
      BY <1>1, <2>2 DEF Order
    <3>2. Off(first_get[j]) <= Off(get) /\ Off(get) < Off(first_get[j]) + Slots[j]
      BY <2>2, <3>1 DEF BufferInv, Dma
    <3>3. Off(first_get[j])' <= Off(get)' /\ Off(get)' < Off(first_get[j])' + Slots[j]
      <4>1. Off(first_get[j])' = Off(first_get[j]) - s /\ Off(first_get[j]) \in Nat /\ Slots[j] \in Nat
        BY <1>13
      <4>2. Off(first_get[j]) - s <= Off(get) - s /\ Off(get) - s < (Off(first_get[j]) - s) + Slots[j]
        BY <1>5, <1>10, <3>2, <4>1, Shift, SMTT(30)
      <4> QED
        BY <1>12, <4>1, <4>2
    <3> QED
      BY <1>4, <3>1, <3>3
  <2>3. Finished = Begun => Off(get)' = Off(cur)'
    BY <1>12 DEF BufferInv, Dma
  <2>4. ASSUME pc'["sub"] \in {"push", "down", "relock", "check", "add", "kick"}
        PROVE  Finished < next /\ Off(last_put)' < Off(first_get[next])' + Slots[next]
    <3>1. pc["sub"] = pc'["sub"]
      BY <1>3, <2>4
    <3>2. Finished < next /\ Off(last_put) < Off(first_get[next]) + Slots[next]
      BY <2>4, <3>1 DEF BufferInv, Dma
    <3>3. next = Begun
      BY <2>4, <3>1 DEF Begun
    <3>4. PICK j \in Retired + 1 .. Begun : j = next
      BY <1>1, <3>2, <3>3 DEF Order
    <3>5. Off(first_get[j])' = Off(first_get[j]) - s /\ Off(first_get[j]) \in Nat /\ Slots[j] \in Nat
      BY <1>13
    <3>6. Off(last_put) - s < (Off(first_get[j]) - s) + Slots[j]
      BY <1>5, <1>10, <3>2, <3>4, <3>5, Shift, SMTT(30)
    <3> QED
      BY <1>3, <1>12, <3>2, <3>4, <3>5, <3>6
  <2> QED
    BY <1>3, <1>4, <2>1, <2>2, <2>3, <2>4 DEF Dma
<1>18. Stored'
  BY <1>3, <1>4 DEF BufferInv, Stored
<1> QED
  BY <1>14, <1>15, <1>16, <1>17, <1>18 DEF BufferInv

-----------------------------------------------------------------------------
(***************************************************************************)
(* The DMA, and the recovery that moves it.                                *)
(***************************************************************************)

\* A command is fetched.
LEMMA FetchBuffer ==
  ASSUME QueueInv, BufferInv, Fetch
  PROVE  BufferInv'
<1> USE JobFacts
<1>1. Numbers /\ Order /\ DataShape /\ Others
  BY Counts DEF QueueInv, Numbers, Shape, Others
<1>2. /\ UNCHANGED <<fence, cur, mem, last_put, first_get, slots_free, slots_used, next, pc, mine, sync_queue>>
      /\ Begun' = Begun /\ Added' = Added /\ Retired' = Retired /\ Owed' = Owed
      /\ \A j : Pushed(j)' = Pushed(j)
  BY DEF Fetch, submit, job, Begun, Added, Retired, Owed, Retiring, Pushed
<1>3. /\ Off(cur) \in Nat /\ Off(get) \in Nat /\ Off(last_put) \in Nat
      /\ Off(get) <= Off(last_put) /\ Off(last_put) <= Off(cur)
  BY Positions
<1> DEFINE j == Finished + 1
<1>4. /\ Finished < Begun /\ Off(get') = Off(get) + 1 /\ Off(get') <= Off(last_put)
      /\ \/ /\ hw' = hw
            /\ Off(get') < Off(first_get[j]) + Slots[j]
         \/ /\ hw' = hw + 1 /\ Finished < Added
            /\ Off(get') = Off(first_get[j]) + Slots[j]
  BY FetchEffect
<1>5. j \in Retired + 1 .. Begun /\ j \in 1 .. Begun /\ j \in Jobs
  BY <1>1, <1>4 DEF Order
<1>6. /\ Off(first_get[j]) \in Nat /\ Off(first_get[j]) <= Off(get) /\ Slots[j] \in Nat
      /\ Off(first_get[j]) + Pushed(j) <= Off(cur)
  BY <1>4, <1>5, Positions DEF BufferInv, Dma
<1>7. Off(get)' = Off(get') /\ Off(cur)' = Off(cur) /\ Off(last_put)' = Off(last_put)
      /\ \A i : Off(first_get[i])' = Off(first_get[i])
  BY <1>2 DEF Off
<1>8. Laid' /\ Freed' /\ Known'
  BY <1>2 DEF BufferInv, Laid, Freed, Front, Known, Off
<1>9. Stored'
  <2>1. hw' = hw \/ hw' = hw + 1
    BY <1>4
  <2>2. Finished' + 1 .. Begun \subseteq Finished + 1 .. Begun
    <3>1. hw \in Nat /\ Start \in Nat /\ Begun \in Nat
      BY <1>1 DEF DataShape, Order
    <3> QED
      BY <2>1, <3>1 DEF Finished
  <2> QED
    BY <1>2, <2>2 DEF BufferInv, Stored
<1>10. CASE hw' = hw /\ Off(get') < Off(first_get[j]) + Slots[j]
  <2>1. Finished' = Finished
    BY <1>10 DEF Finished
  <2>2. Off(first_get[j]) <= Off(get')
    BY <1>3, <1>4, <1>6
  <2>3. Finished # Begun
    BY <1>1, <1>4 DEF Order
  <2>4. Dma'
    BY <1>2, <1>3, <1>4, <1>7, <1>10, <2>1, <2>2, <2>3 DEF BufferInv, Dma
  <2> QED
    BY <1>8, <1>9, <2>4 DEF BufferInv
<1>11. CASE hw' = hw + 1 /\ Finished < Added /\ Off(get') = Off(first_get[j]) + Slots[j]
  <2>1. Finished' = j
    BY <1>1, <1>11 DEF Finished, DataShape
  <2>2. ASSUME j < Begun
        PROVE  /\ Off(first_get[j + 1]) <= Off(get')
               /\ Off(get') < Off(first_get[j + 1]) + Slots[j + 1]
    <3>1. j + 1 \in Retired + 1 .. Begun /\ j + 1 \in Jobs
      BY <1>1, <1>5, <2>2 DEF Order
    <3>2. Off(first_get[j]) + Slots[j] = Off(first_get[j + 1])
      BY <1>5, <3>1 DEF BufferInv, Laid
    <3>3. Slots[j + 1] \in Nat /\ Slots[j + 1] >= 1
      BY <3>1
    <3>4. Off(get') = Off(first_get[j + 1]) /\ Off(get') \in Nat
      BY <1>3, <1>4, <1>11, <3>2
    <3> QED
      BY <3>3, <3>4
  <2>3. ASSUME j = Begun PROVE Off(get') = Off(cur)
    <3>1. Off(first_get[j]) + Pushed(j) = Off(cur) /\ Pushed(j) \in Nat /\ Pushed(j) <= Slots[j]
      BY <1>1, <1>5, <2>3 DEF BufferInv, Laid, Numbers
    <3> QED
      BY <1>3, <1>4, <1>6, <1>11, <3>1
  <2>4. ASSUME pc["sub"] \in {"push", "down", "relock", "check", "add", "kick"} PROVE j < next
    <3>1. Finished < next /\ Off(last_put) < Off(first_get[next]) + Slots[next]
      BY <2>4 DEF BufferInv, Dma
    <3>2. j # next
      BY <1>3, <1>4, <1>6, <1>11, <3>1
    <3> QED
      BY <1>1, <3>1, <3>2 DEF Order
  <2> HIDE DEF j
  <2>5. Dma'
    BY <1>2, <1>3, <1>4, <1>7, <2>1, <2>2, <2>3, <2>4 DEF BufferInv, Dma
  <2> QED
    BY <1>8, <1>9, <2>5 DEF BufferInv
<1> QED
  BY <1>4, <1>10, <1>11

\* A timeout or an abort gives up some jobs; the DMA goes on behind them.
LEMMA RecoverBuffer ==
  ASSUME QueueInv, BufferInv, Handler \/ Abort, NEW l \in Finished .. Added,
         Finished < Added, Recovered(l), Readers = {}
  PROVE  BufferInv'
<1> USE JobFacts, ProcFacts
<1>1. Numbers /\ Order /\ DataShape /\ PcShape /\ Others
  BY Counts DEF QueueInv, Numbers, Shape, Others
<1>2. /\ UNCHANGED <<next, slots_free, slots_used, first_get, cur>>
      /\ pc'["sub"] = pc["sub"] \/ (pc["sub"] = "idle" /\ pc'["sub"] = "closed")
      /\ Begun' = Begun /\ Added' = Added
      /\ \A j : Pushed(j)' = Pushed(j)
  BY <1>1, OthersKeep
<1>3. UNCHANGED <<fence, sync_queue, mine>> /\ Retired' = Retired
  BY <1>2, HandlerEffect DEF Kept, Retired
<1>4. Owed' = Owed
  <2>1. \A v \in Updaters : pc'[v] = pc[v]
    BY <1>1 DEF Handler, Abort, Goto, PcShape
  <2> QED
    BY <1>3, <2>1, OwedSame DEF Retiring
<1>5. /\ hw' = Start + l /\ Finished' = l /\ last_put' = cur /\ l \in Nat /\ Finished <= l /\ l <= Added
      /\ mem' = [i \in DOMAIN mem |->
               IF \E j \in Finished + 1 .. l : i \in SlotsOf(j) THEN None ELSE mem[i]]
      /\ l = Finished => get' = first_get[Finished + 1]
      /\ l > Finished => get' = (first_get[l] + Slots[l]) % P
  <2>1. l \in Nat /\ Finished <= l /\ l <= Added
    BY <1>1 DEF Order
  <2>2. hw' = Start + l
    BY DEF Recovered
  <2>3. Finished' = l
    BY <2>1, <2>2 DEF Finished
  <2> QED
    BY <2>1, <2>2, <2>3 DEF Recovered
<1>6. /\ Off(cur) \in Nat /\ Off(cur) < P
  BY Positions
<1>7. \A j \in Retired + 1 .. Begun :
         /\ first_get[j] \in 0 .. P - 1 /\ j \in 1 .. Begun /\ j \in Jobs /\ Off(first_get[j]) \in Nat
         /\ Off(first_get[j]) + Pushed(j) <= Off(cur)
         /\ Pushed(j) \in Nat /\ Slots[j] \in Nat /\ Slots[j] >= 1
         /\ j <= Added => Pushed(j) = Slots[j]
  <2> TAKE j \in Retired + 1 .. Begun
  <2>1. /\ first_get[j] \in 0 .. P - 1 /\ j \in 1 .. Begun /\ j \in Jobs /\ Off(first_get[j]) \in Nat
        /\ Off(first_get[j]) + Pushed(j) <= Off(cur)
    BY Positions
  <2> QED
    BY <1>1, <2>1 DEF Numbers
<1>8. /\ Off(cur)' = Off(cur) /\ Off(last_put)' = Off(cur)
      /\ \A i : Off(first_get[i])' = Off(first_get[i])
      /\ Off(get)' = Dist(fence, get')
  BY <1>2, <1>3, <1>5 DEF Off
<1>9. Laid' /\ Freed' /\ Known'
  BY <1>2, <1>3, <1>4 DEF BufferInv, Laid, Freed, Front, Known, Off
<1>10. /\ l < Begun => Dist(fence, get') = Off(first_get[l + 1])
       /\ l = Begun => Dist(fence, get') = Off(cur)
  <2>1. CASE l = Finished
    <3>1. l < Begun /\ l # Begun
      BY <1>1, <2>1 DEF Order
    <3> QED
      BY <1>5, <2>1, <3>1 DEF Off
  <2>2. CASE l > Finished
    <3>1. l \in Retired + 1 .. Begun
      BY <1>1, <1>5, <2>2 DEF Order
    <3>2. /\ first_get[l] \in 0 .. P - 1 /\ Off(first_get[l]) \in Nat
          /\ Off(first_get[l]) + Slots[l] <= Off(cur) /\ Slots[l] \in Nat /\ Pushed(l) = Slots[l]
      BY <1>5, <1>7, <3>1
    <3>3. Off(first_get[l]) + Slots[l] < P
      BY <1>6, <3>2
    <3>4. Off((first_get[l] + Slots[l]) % P) = Off(first_get[l]) + Slots[l]
      BY <1>1, <3>2, <3>3, Offs
    <3>5. Dist(fence, get') = Off(first_get[l]) + Slots[l]
      BY <1>5, <2>2, <3>4 DEF Off
    <3>6. CASE l < Begun
      <4>1. l + 1 \in Retired + 1 .. Begun
        BY <1>1, <1>5, <3>1, <3>6 DEF Order
      <4>2. Off(first_get[l]) + Slots[l] = Off(first_get[l + 1])
        BY <3>1, <4>1 DEF BufferInv, Laid
      <4>3. l # Begun
        BY <1>1, <1>5, <3>6 DEF Order
      <4> QED
        BY <3>5, <4>2, <4>3
    <3>7. CASE l = Begun
      <4>1. Off(first_get[l]) + Pushed(l) = Off(cur) /\ ~(l < Begun)
        BY <1>1, <1>5, <3>1, <3>7 DEF BufferInv, Laid, Order
      <4> QED
        BY <3>2, <3>5, <4>1
    <3> QED
      BY <1>1, <1>5, <3>6, <3>7 DEF Order
  <2> QED
    BY <1>1, <1>5, <2>1, <2>2 DEF Order
<1>11. Dma'
  <2>1. CASE l < Begun
    <3>1. l + 1 \in Retired + 1 .. Begun /\ l # Begun
      BY <1>1, <1>5, <2>1 DEF Order
    <3>2. /\ Off(first_get[l + 1]) \in Nat /\ Off(first_get[l + 1]) + Pushed(l + 1) <= Off(cur)
          /\ Pushed(l + 1) \in Nat /\ Slots[l + 1] \in Nat /\ Slots[l + 1] >= 1
      BY <1>7, <3>1
    <3>3. Off(get)' = Off(first_get[l + 1])
      BY <1>8, <1>10, <2>1
    <3>4. /\ Off(first_get[l + 1]) <= Off(cur) /\ Off(cur) <= Off(cur)
          /\ Off(first_get[l + 1]) <= Off(first_get[l + 1])
          /\ Off(first_get[l + 1]) < Off(first_get[l + 1]) + Slots[l + 1]
      BY <1>6, <3>2
    <3>5. ASSUME pc'["sub"] \in {"push", "down", "relock", "check", "add", "kick"}
          PROVE  l < next /\ Off(cur) < Off(first_get[next]) + Slots[next]
      <4>1. pc["sub"] \in {"down", "relock"}
        BY <1>2, <3>5 DEF Readers
      <4>2. next = Begun /\ l < next /\ Begun \in Retired + 1 .. Begun
        BY <1>1, <2>1, <4>1 DEF Begun, Order
      <4>3. Off(first_get[next]) + Pushed(next) = Off(cur)
        BY <4>2 DEF BufferInv, Laid
      <4>4. Pushed(next) = slots_used /\ slots_used < Slots[next] /\ slots_used \in Nat
        BY <1>1, <4>1 DEF Pushed, QueueInv, Counted, DataShape
      <4>5. Off(first_get[next]) \in Nat /\ Slots[next] \in Nat
        BY <1>7, <4>2
      <4> QED
        BY <1>6, <4>2, <4>3, <4>4, <4>5
    <3> QED
      BY <1>2, <1>5, <1>8, <2>1, <3>1, <3>3, <3>4, <3>5 DEF Dma
  <2>2. CASE l = Begun
    <3>1. ~(l < Begun) /\ Off(get)' = Off(cur) /\ Off(cur) <= Off(cur)
      BY <1>1, <1>6, <1>8, <1>10, <2>2 DEF Order
    <3>2. pc'["sub"] \notin {"push", "down", "relock", "check", "add", "kick"}
      <4>1. ASSUME pc["sub"] \in {"down", "relock"} PROVE FALSE
        BY <1>1, <1>5, <2>2, <4>1 DEF Begun, Added, Order
      <4> QED
        BY <1>2, <4>1 DEF Readers
    <3> QED
      BY <1>2, <1>5, <1>8, <2>2, <3>1, <3>2 DEF Dma
  <2> QED
    BY <1>1, <1>5, <2>1, <2>2 DEF Order
<1>12. Stored'
  <2>1. ASSUME NEW j \in l + 1 .. Begun, NEW k \in Nat, k < Pushed(j)
        PROVE  mem'[(first_get[j] + k) % P] = <<j, k + 1>>
    <3>1. j \in Retired + 1 .. Begun /\ j \in Finished + 1 .. Begun
      BY <1>1, <1>5 DEF Order
    <3>2. /\ first_get[j] \in 0 .. P - 1 /\ Off(first_get[j]) \in Nat
          /\ Off(first_get[j]) + Pushed(j) <= Off(cur) /\ Pushed(j) \in Nat
      BY <1>7, <3>1
    <3> DEFINE x == (first_get[j] + k) % P
    <3>3. Off(first_get[j]) + k < P
      BY <1>6, <2>1, <3>2
    <3>4. x \in 0 .. P - 1 /\ Off(x) = Off(first_get[j]) + k
      BY <1>1, <3>2, <3>3, Offs
    <3>5. mem[x] = <<j, k + 1>>
      BY <2>1, <3>1 DEF BufferInv, Stored
    <3> HIDE DEF x
    <3>6. ASSUME NEW i \in Finished + 1 .. l PROVE x \notin SlotsOf(i)
      <4>1. i \in Retired + 1 .. Begun /\ i < j /\ i <= Added
        BY <1>1, <1>5 DEF Order
      <4>2. /\ first_get[i] \in 0 .. P - 1 /\ Off(first_get[i]) \in Nat /\ Slots[i] \in Nat
            /\ Off(first_get[i]) + Slots[i] <= Off(cur)
        BY <1>7, <4>1
      <4>3. Off(first_get[i]) + Slots[i] <= Off(first_get[j])
        BY <3>1, <4>1 DEF BufferInv, Laid
      <4>4. SUFFICES ASSUME NEW m \in 0 .. Slots[i] - 1, x = (first_get[i] + m) % P PROVE FALSE
        BY DEF SlotsOf, P
      <4>5. m \in Nat /\ Off(first_get[i]) + m < P
        BY <1>6, <4>2
      <4>6. Off(x) = Off(first_get[i]) + m
        BY <1>1, <4>2, <4>4, <4>5, Offs
      <4>7. Off(first_get[j]) + k = Off(first_get[i]) + m
        BY <3>4, <4>6
      <4>8. m < Slots[i]
        BY <4>2
      <4> QED
        BY <3>2, <4>2, <4>3, <4>5, <4>7, <4>8, SMTT(30)
    <3>7. mem'[x] = mem[x]
      BY <1>1, <1>5, <3>4, <3>6 DEF DataShape
    <3> QED
      BY <3>5, <3>7 DEF x
  <2> QED
    BY <1>2, <1>5, <2>1 DEF Stored
<1> QED
  BY <1>9, <1>11, <1>12 DEF BufferInv

\* The invariant of the push buffer.
LEMMA BufferStep == QueueInv /\ BufferInv /\ [Next]_vars => BufferInv'
<1> SUFFICES ASSUME QueueInv, BufferInv, [Next]_vars PROVE BufferInv'
  OBVIOUS
<1>1. CASE SubStep
  BY <1>1, BeginBuffer, PushBuffer, KickBuffer, SubUntouched, UntouchedKeeps DEF SubStep
<1>2. ASSUME NEW u \in Updaters, Update(u) PROVE BufferInv'
  <2>1. CASE Pop(u)
    BY <2>1, PopBuffer
  <2>2. CASE ~Pop(u) /\ sync_queue' = sync_queue
    BY <1>2, <2>2, UpdateUntouched, UntouchedKeeps
  <2>3. CASE sync_queue' # sync_queue
    <3>1. \E v \in Updaters : Retires(v)
      BY <1>2, <2>3, OthersQueue DEF Others
    <3> QED
      BY <3>1, RetireBuffer
  <2> QED
    BY <2>1, <2>2, <2>3
<1>3. CASE Handler \/ Abort
  <2>1. CASE UNCHANGED <<hw, mem, get, last_put>>
    BY <1>3, <2>1, RestUntouched, UntouchedKeeps
  <2>2. CASE ~UNCHANGED <<hw, mem, get, last_put>>
    <3>1. Finished < Added /\ \E l \in Finished .. Added : Recovered(l)
      BY <1>3, <2>2, HandlerEffect DEF Recovers
    <3>2. Readers = {}
      BY <1>3, <2>2 DEF Handler, Abort
    <3> QED
      BY <1>3, <3>1, <3>2, RecoverBuffer
  <2> QED
    BY <2>1, <2>2
<1>4. CASE Fetch
  BY <1>4, FetchBuffer
<1>5. CASE Fire \/ AbortBegin \/ Stop \/ UpdateMin \/ UNCHANGED vars
  BY <1>5, RestUntouched, UntouchedKeeps
<1> QED
  BY <1>1, <1>2, <1>3, <1>4, <1>5 DEF Next

-----------------------------------------------------------------------------
(***************************************************************************)
(* The timer.                                                              *)
(***************************************************************************)

\* A submit that saw an empty queue.
LEMMA SawIdleStep == QueueInv /\ BufferInv /\ SawIdle /\ [Next]_vars => SawIdle'
<1> SUFFICES ASSUME QueueInv, BufferInv, SawIdle, [Next]_vars PROVE SawIdle'
  OBVIOUS
<1> USE ProcFacts
<1>1. Numbers /\ Order /\ PcShape
  BY Counts DEF QueueInv, Numbers, Shape
<1>2. Retired \in Nat /\ Retired' \in Nat /\ Retired <= Retired' /\ next \in Nat
  BY Growing
<1>3. CASE /\ UNCHANGED <<next, was_idle>>
           /\ pc'["sub"] \in {"add", "kick", "timer"} => pc["sub"] \in {"add", "kick", "timer"}
  <2>1. Retired >= next - 1 => Retired' >= next - 1
    BY <1>2
  <2> QED
    BY <1>3, <2>1 DEF SawIdle
<1>4. CASE Others
  BY <1>3, <1>4, OthersKeep DEF QueueInv
<1>5. CASE EndCheck
  <2>1. /\ pc["sub"] = "check" /\ was_idle' = (sync_queue = <<>>) /\ next' = next /\ Retired' = Retired
    BY <1>5, SubKeep DEF SubStep, EndCheck
  <2>2. sync_queue = <<>> => Retired >= next - 1
    BY <1>1, <2>1 DEF Numbers, Order
  <2> QED
    BY <2>1, <2>2 DEF SawIdle
<1>6. CASE EndAdd \/ EndKick
  BY <1>1, <1>3, <1>6 DEF EndAdd, EndKick, submit, Goto, PcShape
<1>7. CASE Begin \/ Push \/ WaitSpace \/ Down \/ EndTimer \/ AddAction
  <2>1. pc'["sub"] \notin {"add", "kick", "timer"}
    BY <1>1, <1>7 DEF Begin, Push, WaitSpace, Down, EndTimer, AddAction, Goto, PcShape
  <2> QED
    BY <2>1 DEF SawIdle
<1> QED
  BY <1>4, <1>5, <1>6, <1>7 DEF Next, SubStep, Others

\* A step that leaves the timer alone, or schedules the work.
LEMMA RunningKeep ==
  ASSUME QueueInv, BufferInv, Running, [Next]_vars, UNCHANGED <<clientid, sp>>, raced => raced',
         Stopping => Stopping', Retired' = Retired,
         (pending \/ pc["tmo"] = "mutex") => (pending' \/ pc'["tmo"] = "mutex")
  PROVE  Running'
<1>1. /\ Added \in Nat /\ Added' \in Nat /\ Added <= Added' /\ Retired \in Nat
      /\ Finished \in Nat /\ Finished' \in Nat /\ Finished <= Finished'
  BY Growing
<1>2. Retired < Added => Retired < Added'
  BY <1>1
<1>3. \A s : s = Retired + 1 /\ Finished' < s => Finished < s
  BY <1>1
<1> QED
  BY <1>2, <1>3 DEF Running

\* cdma_start_timer_locked(), for the first job of the queue or one before it.
LEMMA RunningStart ==
  ASSUME QueueInv, Running, NEW j \in Jobs, j <= Retired + 1, j <= Added, StartTimer(j),
         Retired' = Retired, Added' = Added, Finished' = Finished,
         pc'["tmo"] = pc["tmo"], Stopping => Stopping'
  PROVE  Running'
<1> USE JobFacts
<1>1. Numbers /\ Order /\ DataShape /\ Timed
  BY Counts DEF QueueInv, Numbers, Shape
<1>2. raced => raced'
  BY DEF StartTimer
<1>3. CASE clientid # None
  BY <1>2, <1>3 DEF StartTimer, timer, Running
<1>4. CASE clientid = None
  <2>1. sp' = j /\ pending' = (pending \/ (timeout[j] /\ ~Cancelling))
    BY <1>4 DEF StartTimer
  <2>2. ASSUME ~raced' PROVE j = Retired + 1 /\ Retired < Added
    <3>1. PICK i \in DOMAIN sync_queue : sync_queue[i] = j
      BY <1>4, <2>2 DEF StartTimer
    <3>2. i \in 1 .. Len(sync_queue)
      BY <1>1 DEF DataShape
    <3>3. j = Retired + i
      BY <1>1, <3>1, <3>2 DEF Numbers
    <3> QED
      BY <1>1, <3>2, <3>3 DEF Order
  <2>3. Cancelling => Stopping'
    BY DEF Cancelling, Stopping
  <2>4. Finished < j => timeout[j]
    BY <1>1 DEF Timed, Order
  <2> QED
    BY <2>1, <2>2, <2>3, <2>4 DEF Running
<1> QED
  BY <1>3, <1>4

\* Handler and Abort, when nobody else holds the lock.
LEMMA RunningHandle ==
  ASSUME QueueInv, BufferInv, Running, Handler \/ Abort, Readers = {}, HandleTimeout,
         Retired' = Retired, Added' = Added, UNCHANGED <<clientid, sp, raced>>
  PROVE  Running'
<1> USE JobFacts
<1>1. Numbers /\ Order /\ DataShape /\ Timed
  BY Counts DEF QueueInv, Numbers, Shape
<1>2. SUFFICES ASSUME clientid # None, ~raced
               PROVE  sp = Retired + 1 /\ Retired < Added /\ ~(Finished' < sp)
  BY DEF Running
<1>3. ~Stopping
  BY DEF Stopping, Readers
<1>4. sp = Retired + 1 /\ Retired < Added
  BY <1>2, <1>3 DEF Running
<1>5. sp \in 1 .. Begun
  BY <1>1, <1>4 DEF Order
<1>6. jfence[sp] = Start + sp
  BY <1>1, <1>5 DEF Numbers
<1>7. CASE hw >= jfence[sp] /\ hw' = hw
  <2>1. Finished' = Finished /\ hw = Start + Finished
    BY <1>1, <1>7 DEF Finished, Order
  <2>2. Finished >= sp
    BY <1>1, <1>5, <1>6, <1>7, <2>1 DEF Order
  <2> QED
    BY <1>1, <1>4, <1>5, <2>1, <2>2 DEF Order
<1>8. CASE hw < jfence[sp] /\ UpdateSyncQueue
  <2>1. PICK l \in Finished .. Added : Recovered(l)
    BY <1>2, <1>8, Recovery DEF QueueInv
  <2>2. hw' = Start + l /\ (ClientId[Finished + 1] = clientid => l > Finished)
    BY <2>1 DEF Recovered
  <2>3. Finished + 1 = sp
    BY <1>1, <1>4, <1>5, <1>6, <1>8 DEF Order
  <2>4. l > Finished
    BY <1>1, <1>2, <2>2, <2>3 DEF Timed
  <2>5. Finished' = l
    BY <1>1, <2>2 DEF Finished, Order
  <2> QED
    BY <1>1, <1>4, <2>3, <2>4, <2>5 DEF Order
<1> QED
  BY <1>2, <1>7, <1>8 DEF HandleTimeout

\* A running timer, over the steps of Next.
LEMMA RunningStep == QueueInv /\ BufferInv /\ TimerInv /\ [Next]_vars => Running'
<1> SUFFICES ASSUME QueueInv, BufferInv, TimerInv, [Next]_vars PROVE Running'
  OBVIOUS
<1> USE ProcFacts, JobFacts
<1>1. Numbers /\ Order /\ DataShape /\ PcShape /\ Running /\ SawIdle
  BY Counts DEF QueueInv, Numbers, Shape, TimerInv
<1>2. CASE SubStep
  <2>1. /\ Retired' = Retired /\ hw' = hw /\ \A u \in Updaters : pc'[u] = pc[u]
        /\ pc'["tmo"] = pc["tmo"]
    BY <1>2, SubKeep
  <2>2. Stopping => Stopping'
    BY <2>1 DEF Stopping
  <2>3. CASE EndTimer /\ was_idle
    <3>1. pc["sub"] = "timer" /\ StartTimer(next) /\ Added' = Added
      BY <1>2, <2>3, SubKeep DEF EndTimer
    <3>2. next \in Jobs /\ next <= Retired + 1 /\ next <= Added
      BY <1>1, <2>3, <3>1 DEF SawIdle, QueueInv, Counted, Added, Order
    <3>3. Finished' = Finished
      BY <2>1 DEF Finished
    <3> QED
      BY <1>1, <2>1, <2>2, <3>1, <3>2, <3>3, RunningStart
  <2>4. CASE EndTimer /\ ~was_idle
    <3>1. UNCHANGED <<clientid, sp, pending, raced>>
      BY <2>4 DEF EndTimer, timer
    <3> QED
      BY <1>1, <2>1, <2>2, <3>1, RunningKeep
  <2>5. CASE ~EndTimer
    <3>1. UNCHANGED <<clientid, sp, pending>>
      BY <1>2, <2>5 DEF SubStep, Begin, Push, WaitSpace, Down, EndCheck, EndAdd, EndKick, AddAction, timer
    <3>2. EndAdd \/ raced' = raced
      BY <1>2, <2>5 DEF SubStep, Begin, Push, WaitSpace, Down, EndCheck, EndKick, AddAction
    <3>3. EndAdd => (raced => raced')
      BY Zenon DEF EndAdd
    <3> QED
      BY <1>1, <2>1, <2>2, <3>1, <3>2, <3>3, RunningKeep
  <2> QED
    BY <2>3, <2>4, <2>5
<1>3. ASSUME NEW u \in Updaters, Update(u) PROVE Running'
  <2>0. /\ Others /\ \A v \in Updaters \ {u} : pc'[v] = pc[v]
        /\ pc'["tmo"] = pc["tmo"] /\ u \in DOMAIN pc
    BY <1>1, <1>3 DEF Others, Update, Take, Enter, Scan, Cancel, Clear, Pop, Restart, Exit, Goto, PcShape
  <2>1. CASE Take(u) \/ Enter(u) \/ Pop(u) \/ Exit(u)
    <3>1. pc[u] \notin {"cancel", "flush", "clear"} /\ UNCHANGED <<clientid, sp, pending, raced, sync_queue>>
      BY <2>1 DEF Take, Enter, Pop, Exit, timer
    <3>2. Stopping => Stopping'
      BY <2>0, <3>1 DEF Stopping
    <3>3. Retired' = Retired
      BY <2>0, <3>1, OthersKeep DEF Retired
    <3> QED
      BY <1>1, <2>0, <3>1, <3>2, <3>3, RunningKeep
  <2>2. CASE Scan(u)
    <3>1. pc[u] = "scan" /\ UNCHANGED <<clientid, sp, pending, raced>>
      BY <2>2 DEF Scan, timer
    <3>2. CASE sync_queue' = sync_queue
      <4>1. Retired' = Retired
        BY <2>0, <3>2, OthersKeep DEF Retired
      <4>2. Stopping => Stopping'
        BY <2>0, <3>1 DEF Stopping
      <4> QED
        BY <1>1, <2>0, <3>1, <4>1, <4>2, RunningKeep
    <3>3. CASE sync_queue' # sync_queue
      <4>1. pc'[u] = "cancel"
        BY <2>0, <2>2, <3>3 DEF Scan, Goto
      <4> QED
        BY <4>1 DEF Running, Stopping
    <3> QED
      BY <3>2, <3>3
  <2>3. CASE Cancel(u)
    <3>1. pc'[u] \in {"flush", "clear"}
      BY <2>0, <2>3 DEF Cancel, Goto
    <3> QED
      BY <3>1 DEF Running, Stopping
  <2>4. CASE Clear(u)
    BY <2>4 DEF Clear, Running
  <2>5. CASE Restart(u)
    <3>1. pc[u] = "start" /\ StartTimer(mine[u][2]) /\ hw' = hw /\ sync_queue' = sync_queue
      BY <2>5 DEF Restart, sync
    <3>2. mine[u][2] \in Jobs /\ mine[u][2] <= Added /\ mine[u][2] <= Retired + 1
      BY <3>1 DEF QueueInv, Handled, Called, CalledAt
    <3>3. Retired' = Retired /\ Added' = Added /\ Finished' = Finished
      BY <2>0, <3>1, OthersKeep DEF Retired, Finished
    <3>4. Stopping => Stopping'
      BY <2>0, <3>1 DEF Stopping
    <3> QED
      BY <1>1, <2>0, <3>1, <3>2, <3>3, <3>4, RunningStart
  <2> QED
    BY <1>3, <2>1, <2>2, <2>3, <2>4, <2>5 DEF Update
<1>4. CASE Handler \/ Abort
  <2>1. Others /\ Kept /\ \A v \in Updaters : pc'[v] = pc[v]
    BY <1>1, <1>4, HandlerEffect DEF Others, Handler, Abort, Goto, PcShape
  <2>2. Retired' = Retired /\ Added' = Added /\ UNCHANGED <<clientid, sp, raced>> /\ (Stopping => Stopping')
    BY <2>1, OthersKeep DEF Retired, Kept, Stopping
  <2>3. CASE Readers = {} /\ HandleTimeout
    BY <1>1, <1>4, <2>2, <2>3, RunningHandle
  <2>4. CASE ~(Readers = {} /\ HandleTimeout)
    <3>1. Handler /\ pending' = (pending \/ ~Cancelling)
      BY <1>4, <2>4 DEF Handler, Abort
    <3>2. CASE Cancelling
      BY <2>1, <3>2 DEF Cancelling, Running, Stopping
    <3>3. CASE ~Cancelling
      <4>1. pending'
        BY <3>1, <3>3
      <4> QED
        BY <1>1, <2>2, <4>1, RunningKeep
    <3> QED
      BY <3>2, <3>3
  <2> QED
    BY <2>3, <2>4
<1>5. CASE Fire \/ AbortBegin \/ Stop \/ Fetch \/ UpdateMin \/ UNCHANGED vars
  <2>1. Others /\ UNCHANGED <<clientid, sp, raced, sync_queue>> /\ \A v \in Updaters : pc'[v] = pc[v]
    BY <1>1, <1>5 DEF Others, Fire, AbortBegin, Stop, Fetch, UpdateMin, vars, timer, Goto, PcShape
  <2>2. (pending \/ pc["tmo"] = "mutex") => (pending' \/ pc'["tmo"] = "mutex")
    BY <1>1, <1>5 DEF Fire, AbortBegin, Stop, Fetch, UpdateMin, vars, timer, Goto, PcShape
  <2>3. Retired' = Retired /\ (Stopping => Stopping')
    BY <2>1, OthersKeep DEF Retired, Stopping
  <2> QED
    BY <1>1, <2>1, <2>2, <2>3, RunningKeep
<1> QED
  BY <1>2, <1>3, <1>4, <1>5 DEF Next

\* A step that leaves the timer to those who had it.
LEMMA WillTimeKeep ==
  ASSUME QueueInv, BufferInv, WillTime, [Next]_vars, raced => raced', Retired' = Retired,
         Retired' < Added' => Retired < Added,
         clientid # None => clientid' # None, Checking => Checking',
         (pc["sub"] \in {"kick", "timer"} /\ was_idle) => (pc'["sub"] \in {"kick", "timer"} /\ was_idle')
  PROVE  WillTime'
<1>1. Retired \in Nat /\ Finished \in Nat /\ Finished' \in Nat /\ Finished <= Finished'
  BY Growing
<1>2. Retired <= Finished
  BY Counts DEF QueueInv, Numbers, Order
<1>3. Finished' = Retired => Finished = Retired
  BY <1>1, <1>2
<1> QED
  BY <1>3 DEF WillTime

\* cdma_start_timer_locked() leaves a timed client.
LEMMA StartTimed ==
  ASSUME NEW j \in Jobs, StartTimer(j)
  PROVE  clientid' # None
BY JobsAssumption DEF StartTimer, timer

\* An unfinished job at the head of the queue, over the steps of Next.
LEMMA WillTimeStep == QueueInv /\ BufferInv /\ TimerInv /\ [Next]_vars => WillTime'
<1> SUFFICES ASSUME QueueInv, BufferInv, TimerInv, [Next]_vars PROVE WillTime'
  OBVIOUS
<1> USE ProcFacts, JobFacts
<1>1. Numbers /\ Order /\ DataShape /\ PcShape /\ WillTime
  BY Counts DEF QueueInv, Numbers, Shape, TimerInv
<1>2. CASE SubStep
  <2>1. /\ Retired' = Retired /\ \A u \in Updaters : pc'[u] = pc[u]
        /\ pc["sub"] # "add" => Added' = Added
    BY <1>2, SubKeep
  <2>2. Checking => Checking'
    BY <2>1 DEF Checking
  <2>3. CASE EndTimer /\ was_idle
    <3>1. pc["sub"] = "timer" /\ StartTimer(next)
      BY <2>3 DEF EndTimer
    <3>2. next \in Jobs
      BY <1>1, <3>1 DEF QueueInv, Counted, Order
    <3> QED
      BY <3>1, <3>2, StartTimed DEF WillTime
  <2>4. CASE EndAdd
    <3>1. /\ pc["sub"] = "add" /\ pc'["sub"] = "kick" /\ was_idle' = was_idle /\ clientid' = clientid
      BY <1>1, <2>4 DEF EndAdd, Goto, PcShape, submit, timer
    <3>2. CASE was_idle
      BY <3>1, <3>2 DEF WillTime
    <3>3. CASE sync_queue = <<>> /\ ~was_idle
      <4>1. raced'
        BY <2>4, <3>3, Zenon DEF EndAdd
      <4> QED
        BY <4>1 DEF WillTime
    <3>4. CASE sync_queue # <<>>
      <4>1. Retired < Added
        BY <1>1, <3>4 DEF Numbers
      <4>2. raced => raced'
        BY <2>4, Zenon DEF EndAdd
      <4> QED
        BY <1>1, <2>1, <2>2, <3>1, <4>1, <4>2, WillTimeKeep
    <3> QED
      BY <3>2, <3>3, <3>4
  <2>5. CASE ~EndAdd /\ ~(EndTimer /\ was_idle)
    <3>1. UNCHANGED <<clientid, raced>> /\ pc["sub"] # "add"
      BY <1>2, <2>5 DEF SubStep, Begin, Push, WaitSpace, Down, EndCheck, EndKick, EndTimer, AddAction, timer
    <3>2. (pc["sub"] \in {"kick", "timer"} /\ was_idle) => (pc'["sub"] \in {"kick", "timer"} /\ was_idle')
      BY <1>1, <1>2, <2>5 DEF SubStep, Begin, Push, WaitSpace, Down, EndCheck, EndKick, EndTimer, AddAction,
                              Goto, PcShape, submit
    <3> QED
      BY <1>1, <2>1, <2>2, <3>1, <3>2, WillTimeKeep
  <2> QED
    BY <2>3, <2>4, <2>5
<1>3. CASE Others /\ UNCHANGED <<clientid, raced, sync_queue>> /\ (Checking => Checking')
  <2>1. /\ Added' = Added /\ Retired' = Retired /\ was_idle' = was_idle
        /\ pc'["sub"] = pc["sub"] \/ pc["sub"] = "idle"
    BY <1>3, OthersKeep DEF Retired
  <2> QED
    BY <1>1, <1>3, <2>1, WillTimeKeep
<1>4. ASSUME NEW u \in Updaters, Update(u) PROVE WillTime'
  <2>0. Others /\ u \in DOMAIN pc /\ \A v \in Updaters \ {u} : pc'[v] = pc[v]
    BY <1>1, <1>4 DEF Others, Update, Take, Enter, Scan, Cancel, Clear, Pop, Restart, Exit, Goto, PcShape
  <2>1. CASE Take(u) \/ Enter(u) \/ Exit(u)
    <3>1. UNCHANGED <<clientid, raced, sync_queue>> /\ pc[u] \in {"idle", "enter", "exit"}
      BY <2>1 DEF Take, Enter, Exit, timer
    <3>2. Checking => Checking'
      BY <2>0, <3>1 DEF Checking
    <3> QED
      BY <1>3, <2>0, <3>1, <3>2
  <2>2. CASE Scan(u) /\ sync_queue = <<>>
    <3>1. sync_queue' = sync_queue
      BY <2>2 DEF Scan
    <3>2. Retired' = Retired /\ Added' = Added /\ ~(Retired < Added)
      BY <1>1, <2>0, <2>2, <3>1, OthersKeep DEF Retired, Numbers
    <3> QED
      BY <3>2 DEF WillTime
  <2>3. CASE (Scan(u) /\ sync_queue # <<>>) \/ Cancel(u) \/ Clear(u) \/ Pop(u)
    <3>1. pc'[u] \in {"scan", "cancel", "flush", "clear", "pop", "start"}
      BY <2>0, <2>3 DEF Scan, Cancel, Clear, Pop, Goto
    <3> QED
      BY <3>1 DEF WillTime, Checking
  <2>4. CASE Restart(u)
    <3>1. StartTimer(mine[u][2]) /\ mine[u][2] \in Jobs
      BY <2>4 DEF Restart, QueueInv, Handled, Called, CalledAt
    <3> QED
      BY <3>1, StartTimed DEF WillTime
  <2> QED
    BY <1>4, <2>1, <2>2, <2>3, <2>4 DEF Update
<1>5. CASE Handler \/ Abort
  <2>1. Others /\ Kept /\ \A v \in Updaters : pc'[v] = pc[v]
    BY <1>1, <1>5, HandlerEffect DEF Others, Handler, Abort, Goto, PcShape
  <2> QED
    BY <1>3, <2>1 DEF Kept, Checking
<1>6. CASE Fire \/ AbortBegin \/ Stop \/ Fetch \/ UpdateMin \/ UNCHANGED vars
  <2>1. Others /\ UNCHANGED <<clientid, raced, sync_queue>> /\ \A v \in Updaters : pc'[v] = pc[v]
    BY <1>1, <1>6 DEF Others, Fire, AbortBegin, Stop, Fetch, UpdateMin, vars, timer, Goto, PcShape
  <2> QED
    BY <1>3, <2>1 DEF Checking
<1> QED
  BY <1>2, <1>4, <1>5, <1>6 DEF Next

-----------------------------------------------------------------------------
(***************************************************************************)
(* The invariant, and what follows from it.                                *)
(***************************************************************************)

\* Boot: no job, an empty ring, no timer.
LEMMA CdmaStart == Init => CdmaInv
<1> SUFFICES ASSUME Init PROVE CdmaInv
  OBVIOUS
<1> USE JobFacts, ProcFacts
<1>1. /\ \A p \in Procs : pc[p] = "idle"
      /\ pc["sub"] = "idle" /\ pc["tmo"] = "idle" /\ pc["abort"] = "idle"
      /\ \A u \in Updaters : pc[u] = "idle"
  BY DEF Init
<1>2. Begun = 0 /\ Added = 0 /\ Retired = 0 /\ Finished = 0
  BY <1>1 DEF Init, Begun, Added, Retired, Finished
<1>3. Shape
  <2>1. PcShape
    BY <1>1 DEF Init, PcShape, SubPcs, UpdaterPcs
  <2>2. P - 1 \in 0 .. P - 1 /\ 0 \in 0 .. P - 1
    OBVIOUS
  <2>3. /\ fence \in 0 .. P - 1 /\ cur \in 0 .. P - 1 /\ get \in 0 .. P - 1 /\ last_put \in 0 .. P - 1
        /\ mem \in [0 .. P - 1 -> (Jobs \X Nat) \cup {None}] /\ first_get \in [Jobs -> 0 .. P - 1]
    BY <2>2 DEF Init, P
  <2>4. mine \in [Updaters -> (Jobs \cup {None}) \X (Jobs \cup {None})]
    BY DEF Init
  <2>5. sync_queue \in Seq(Jobs)
    BY DEF Init
  <2>6. DataShape
    BY <2>3, <2>4, <2>5 DEF Init, DataShape
  <2> QED
    BY <2>1, <2>6 DEF Shape
<1>4. Counted /\ Queued
  BY <1>1, <1>2 DEF Init, Counted, Queued
<1>5. Handled
  <2>1. \A j \in Jobs : waiter[j] = "none" /\ j >= next
    BY DEF Init
  <2>2. \A u \in Updaters : Called(u)
    BY <1>1 DEF Called, CalledAt
  <2> QED
    BY <2>1, <2>2 DEF Handled, Waiters
<1>6. Timed /\ Halted /\ TimerInv
  BY <1>1, <1>2 DEF Init, Timed, Halted, TimerInv, Running, WillTime, SawIdle
<1>7. BufferInv
  <2>1. cur = 0 /\ get = 0 /\ last_put = 0 /\ fence = P - 1 /\ slots_free = 0
    BY DEF Init, P
  <2>2. Dist(P - 1, 0) = 0
    <3>1. P - 1 \in 0 .. P - 1 /\ 0 \in 0 .. P - 1 /\ 0 <= P - 1
      OBVIOUS
    <3>2. Dist(P - 1, 0) = IF 0 <= P - 1 THEN 0 - (P - 1) - 1 + P ELSE 0 - (P - 1) - 1
      BY <3>1, Ring
    <3> QED
      BY <3>1, <3>2
  <2>3. Off(cur) = 0 /\ Off(get) = 0 /\ Off(last_put) = 0
    BY <2>1, <2>2 DEF Off
  <2>4. Owed = {}
    BY <1>1 DEF Owed, Retiring
  <2>5. Freed
    BY <1>2, <2>3, <2>4, FS_EmptySet DEF Freed, Front
  <2>6. Laid /\ Stored
    BY <1>2 DEF Laid, Stored
  <2>7. Known /\ Dma
    BY <1>1, <1>2, <2>3 DEF Known, Dma
  <2> QED
    BY <2>5, <2>6, <2>7 DEF BufferInv
<1> QED
  BY <1>3, <1>4, <1>5, <1>6, <1>7 DEF CdmaInv, QueueInv

\* Every step of the submitter, of the handlers, of the timeout work, of the abort
\* and of the hardware keeps the invariant.
LEMMA CdmaInvariant == Spec => []CdmaInv
<1>1. Init => CdmaInv
  BY CdmaStart
<1>2. CdmaInv /\ [Next]_vars => CdmaInv'
  BY QueueStep, BufferStep, RunningStep, WillTimeStep, SawIdleStep DEF CdmaInv, TimerInv
<1> QED
  BY <1>1, <1>2, PTL DEF Spec

\* nvhost_syncpt_is_expired() and the comparisons of thresholds are right at every
\* point of a wrap, as fewer increments are outstanding than half of the values.
THEOREM ThresholdsAreOrdered == Spec => []ThresholdOrder
<1>1. CdmaInv => ThresholdOrder
  <2> SUFFICES ASSUME CdmaInv PROVE ThresholdOrder
    OBVIOUS
  <2> USE JobFacts
  <2>1. /\ Order /\ max_val = Start + Begun /\ Start + Retired <= min_val /\ min_val <= hw
        /\ min_val \in Nat
    BY Counts DEF CdmaInv, QueueInv, Numbers, Counted, Queued, Shape, DataShape
  <2>2. min_val <= max_val /\ max_val - min_val <= Len(Slots) /\ max_val \in Nat
    BY <2>1 DEF Order
  <2>3. U32 \in Nat /\ Len(Slots) < U32 \div 2 /\ U32 \div 2 \in Nat /\ U32 \div 2 < U32
    BY U32Assumption, JobsAssumption
  <2>4. max_val - min_val \in 0 .. U32 - 1
    BY <2>1, <2>2, <2>3
  <2> QED
    BY <2>1, <2>2, <2>4, WindowOrder DEF ThresholdOrder
<1> QED
  BY <1>1, CdmaInvariant, PTL

\* nvhost_cdma_push_gather() never overwrites a command of an unfinished job, and
\* the DMA, restarted by cdma_timeout_restart() or not, has not passed the last one.
THEOREM CommandsStayIntact == Spec => []CommandsIntact
<1>1. CdmaInv => CommandsIntact
  <2> SUFFICES ASSUME CdmaInv, NEW i \in DOMAIN sync_queue, jfence[sync_queue[i]] > hw
               PROVE  LET j == sync_queue[i]
                          last == (first_get[j] + Slots[j] - 1) % PushBufferSize
                          at(k) == (first_get[j] + k) % PushBufferSize
                      IN  /\ \A k \in 0 .. Slots[j] - 1 : mem[at(k)] = <<j, k + 1>>
                          /\ (get - fence) % PushBufferSize <= (last - fence) % PushBufferSize
    BY DEF CommandsIntact
  <2> USE JobFacts
  <2>1. Numbers /\ Order /\ DataShape /\ Laid /\ Dma /\ Stored
    BY Counts DEF CdmaInv, QueueInv, BufferInv, Numbers, Shape
  <2>2. PICK j : j = sync_queue[i]
    OBVIOUS
  <2>3. /\ i \in 1 .. Len(sync_queue) /\ j = Retired + i /\ j \in 1 .. Begun /\ j <= Added
        /\ j \in Jobs /\ j \in Retired + 1 .. Begun
    <3>1. i \in 1 .. Len(sync_queue)
      BY <2>1 DEF DataShape
    <3>2. j = Retired + i
      BY <2>1, <2>2, <3>1 DEF Numbers
    <3> QED
      BY <2>1, <3>1, <3>2 DEF Order
  <2>4. Finished + 1 <= j /\ Finished + 1 \in Retired + 1 .. Begun /\ j \in Finished + 1 .. Begun
        /\ Finished < Begun
    <3>1. Start + j > Start + Finished
      BY <2>1, <2>2, <2>3 DEF Numbers, Order
    <3> QED
      BY <2>1, <2>3, <3>1, SMTT(30) DEF Order
  <2>5. Pushed(j) = Slots[j] /\ Slots[j] \in Nat /\ Slots[j] >= 1
    BY <2>1, <2>3 DEF Numbers
  <2>6. \A k \in 0 .. Slots[j] - 1 : mem[(first_get[j] + k) % P] = <<j, k + 1>>
    <3> TAKE k \in 0 .. Slots[j] - 1
    <3>1. k \in Nat /\ k < Slots[j]
      BY <2>5
    <3> QED
      BY <2>1, <2>4, <2>5, <3>1 DEF Stored
  <2>7. PICK a \in Nat, g \in Nat, c \in Nat :
           a = Off(first_get[j]) /\ g = Off(get) /\ c = Off(cur) /\ c < P
    <3>1. first_get[j] \in 0 .. P - 1 /\ get \in 0 .. P - 1 /\ cur \in 0 .. P - 1
      BY <2>1, <2>3 DEF DataShape
    <3> QED
      BY <2>1, <3>1, Offs
  <2>8. a + Slots[j] <= c
    BY <2>1, <2>3, <2>5, <2>7 DEF Laid
  <2>9. g < a + Slots[j]
    <3>1. CASE Finished + 1 = j
      BY <2>1, <2>4, <2>7, <3>1 DEF Dma
    <3>2. CASE Finished + 1 < j
      <4>1. PICK f : f = Finished + 1
        OBVIOUS
      <4>2. f \in Retired + 1 .. Begun /\ f < j
        BY <2>4, <3>2, <4>1
      <4>3. Off(get) < Off(first_get[f]) + Slots[f]
        BY <2>1, <2>4, <4>1 DEF Dma
      <4>4. Off(first_get[f]) + Slots[f] <= Off(first_get[j])
        BY <2>1, <2>3, <4>2 DEF Laid
      <4>5. Off(first_get[f]) \in Nat /\ Slots[f] \in Nat
        <5>1. f \in Jobs
          BY <2>1, <4>2 DEF Order
        <5>2. first_get[f] \in 0 .. P - 1
          BY <2>1, <5>1 DEF DataShape
        <5> QED
          BY <2>1, <5>1, <5>2, Offs
      <4>6. PICK e \in Nat : e = Off(first_get[f]) + Slots[f]
        BY <4>5
      <4>7. g < e /\ e <= a
        BY <2>7, <4>3, <4>4, <4>6
      <4> QED
        BY <2>5, <2>7, <4>6, <4>7
    <3>3. Finished \in Nat /\ j \in Nat
      BY <2>1, <2>3 DEF Order
    <3> QED
      BY <2>4, <3>1, <3>2, <3>3
  <2>10. PICK last : last = (first_get[j] + (Slots[j] - 1)) % P
    OBVIOUS
  <2>11. last \in 0 .. P - 1 /\ Off(last) = a + (Slots[j] - 1)
    <3>1. first_get[j] \in 0 .. P - 1
      BY <2>1, <2>3 DEF DataShape
    <3>2. PICK k \in Nat : k = Slots[j] - 1
      BY <2>5
    <3>3. a + k < P
      BY <2>5, <2>7, <2>8, <3>2
    <3>4. (first_get[j] + k) % P \in 0 .. P - 1 /\ Off((first_get[j] + k) % P) = Off(first_get[j]) + k
      BY <2>1, <2>7, <3>1, <3>3, Offs
    <3> QED
      BY <2>7, <2>10, <3>2, <3>4
  <2>12. (get - fence) % P = g + 1 /\ (last - fence) % P = a + (Slots[j] - 1) + 1
    <3>1. get \in 0 .. P - 1 /\ fence \in 0 .. P - 1
      BY <2>1 DEF DataShape
    <3>2. \A x \in 0 .. P - 1 :
             (x - fence) % P = IF Dist(fence, x) = P - 1 THEN 0 ELSE Dist(fence, x) + 1
      <4> TAKE x \in 0 .. P - 1
      <4> QED
        BY <3>1, Ring
    <3>3. g # P - 1 /\ a + (Slots[j] - 1) # P - 1
      BY <2>5, <2>7, <2>8, <2>9
    <3> QED
      BY <2>7, <2>11, <3>1, <3>2, <3>3 DEF Off
  <2>13. (get - fence) % P <= (last - fence) % P
    BY <2>5, <2>7, <2>9, <2>12
  <2>14. (first_get[j] + Slots[j] - 1) % P = last
    <3>1. first_get[j] \in Int /\ first_get[j] + Slots[j] - 1 = first_get[j] + (Slots[j] - 1)
      BY <2>1, <2>3, <2>5 DEF DataShape
    <3> QED
      BY <2>10, <3>1
  <2> QED
    BY <2>2, <2>6, <2>13, <2>14 DEF P
<1> QED
  BY <1>1, CdmaInvariant, PTL

\* cdma_handle_timeout() finds the job it was scheduled for in the sync queue, and
\* it is of the timed client, so the search for where to restart ends.
THEOREM TimeoutFindsItsJob == Spec => []TimeoutJobQueued
<1>1. CdmaInv => TimeoutJobQueued
  <2> SUFFICES ASSUME CdmaInv, clientid # None, jfence[sp] > hw
               PROVE  clientid = ClientId[sp] /\ \E i \in DOMAIN sync_queue : sync_queue[i] = sp
    BY DEF TimeoutJobQueued
  <2> USE JobFacts
  <2>1. Numbers /\ Order /\ DataShape /\ Timed
    BY Counts DEF CdmaInv, QueueInv, Numbers, Shape
  <2>2. sp \in Jobs /\ sp <= Added /\ clientid = ClientId[sp]
    BY <2>1 DEF Timed
  <2>3. PICK s \in Nat : s = sp /\ s \in 1 .. Begun /\ s <= Added
    BY <2>1, <2>2 DEF Order
  <2>4. s > Finished
    <3>1. jfence[s] = Start + s
      BY <2>1, <2>3 DEF Numbers
    <3> QED
      BY <2>1, <2>3, <3>1 DEF Order
  <2>5. PICK i : i = s - Retired
    OBVIOUS
  <2>6. i \in 1 .. Len(sync_queue) /\ s = Retired + i
    BY <2>1, <2>3, <2>4, <2>5 DEF Order
  <2>7. sync_queue[i] = s /\ i \in DOMAIN sync_queue
    BY <2>1, <2>6 DEF Numbers, DataShape
  <2> QED
    BY <2>2, <2>3, <2>7
<1> QED
  BY <1>1, CdmaInvariant, PTL

\* An unfinished job at the head of the sync queue has its timer running, unless a
\* submit lost a race with a retirement (nvhost_cdma_end()).
THEOREM HeadIsTimed == Spec => []TimerKept
<1>1. CdmaInv => TimerKept
  <2> SUFFICES ASSUME CdmaInv, Settled, ~raced, sync_queue # <<>>, jfence[Head(sync_queue)] > hw
               PROVE  clientid # None /\ sp = Head(sync_queue) /\ pending
    BY DEF TimerKept, HeadTimed
  <2> USE JobFacts
  <2>1. Numbers /\ Order /\ Running /\ WillTime
    BY Counts DEF CdmaInv, QueueInv, TimerInv, Numbers
  <2>2. Head(sync_queue) = Retired + 1 /\ Retired < Added
    BY <2>1 DEF Numbers
  <2>3. Finished = Retired
    <3>1. PICK h \in 1 .. Begun : h = Retired + 1
      BY <2>1, <2>2 DEF Order
    <3>2. jfence[h] = Start + h /\ jfence[h] > hw
      BY <2>1, <2>2, <3>1 DEF Numbers
    <3> QED
      BY <2>1, <3>1, <3>2 DEF Order
  <2>4. ~Checking /\ ~Stopping /\ pc["tmo"] # "mutex" /\ pc["sub"] \notin {"kick", "timer"}
    BY DEF Settled, Checking, Stopping
  <2>5. clientid # None
    BY <2>1, <2>2, <2>3, <2>4 DEF WillTime
  <2>6. sp = Retired + 1 /\ (Finished < sp => pending)
    BY <2>1, <2>4, <2>5 DEF Running
  <2>7. Finished < Retired + 1
    BY <2>1, <2>3 DEF Order
  <2> QED
    BY <2>2, <2>5, <2>6, <2>7
<1> QED
  BY <1>1, CdmaInvariant, PTL

\* cdma_stop(), called when the channel is unused, finds the sync queue empty and
\* does not wait for it.
THEOREM StopNeverWaits == Spec => []StopFindsEmpty
<1>1. CdmaInv => StopFindsEmpty
  <2> SUFFICES ASSUME CdmaInv, Unused, sync_queue # <<>> PROVE FALSE
    BY DEF StopFindsEmpty
  <2> USE JobFacts
  <2>1. Numbers /\ Order /\ DataShape /\ Waiters
    BY Counts DEF CdmaInv, QueueInv, Numbers, Shape, Handled
  <2>2. Retired < Added /\ Added = next - 1
    BY <2>1 DEF Numbers, Unused, Added
  <2>3. PICK j \in Jobs : j = Retired + 1 /\ j < next
    BY <2>1, <2>2 DEF Order
  <2>4. waiter[j] \in {"none", "armed", "done"} /\ waiter[j] # "armed"
    BY <2>1 DEF DataShape, Unused
  <2>5. waiter[j] # "none" /\ waiter[j] # "done"
    BY <2>1, <2>3 DEF Waiters, Order
  <2> QED
    BY <2>4, <2>5
<1> QED
  BY <1>1, CdmaInvariant, PTL
=============================================================================
