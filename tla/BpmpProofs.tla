----------------------------- MODULE BpmpProofs -----------------------------
(***************************************************************************)
(* Proofs about the pool of thread channels of BpmpMail, for every number  *)
(* of callers, channels, timeouts and suspends.                            *)
(***************************************************************************)
EXTENDS BpmpMail, FiniteSetTheorems, WellFoundedInduction, TLAPS

-----------------------------------------------------------------------------
(***************************************************************************)
(* The inductive invariant.                                                *)
(***************************************************************************)

\* Everything but the bound of the semaphore, which follows from PoolOK.
Shape ==
  /\ obq \in [Ch -> Frame] /\ fw \in [Ch -> Frame] /\ ibframe \in [Ch -> Frame]
  /\ ibq \in [Ch -> BOOLEAN] /\ ibptr \in [Ch -> BOOLEAN]
  /\ tch_free \subseteq TCh /\ tch_sem \in Nat
  /\ to_complete \subseteq TCh /\ completion \in [TCh -> Nat]
  /\ ach_lock \in ACallers \cup {None}
  /\ pc \in [Clients -> TPc \cup APc] /\ ch \in [Clients -> Ch]
  /\ answer \in [Clients -> Frame]
  /\ warned \in BOOLEAN /\ fwbell \in BOOLEAN /\ irqbell \in BOOLEAN
  /\ timeouts \in 0 .. MaxTimeouts /\ suspends \in 0 .. MaxSuspends

\* Callers whose wait has timed out and who have not looked again yet.
Late == {t \in Callers : pc[t] = "recheck"}

\* PoolShrinksOnlyByTimeouts, with the late callers' channels already counted.
Budget == tch_sem + Cardinality(Between) + Cardinality(Owners)
            + (MaxTimeouts - timeouts) >= NCh + Cardinality(Late)

PoolInv == Shape /\ PoolOK /\ OneCallerPerChannel

-----------------------------------------------------------------------------
(***************************************************************************)
(* Facts about the sets the pool counts.                                   *)
(***************************************************************************)
\* Channels and callers are finite sets, so that they can be counted.
LEMMA Finite ==
  /\ IsFiniteSet(TCh) /\ Cardinality(TCh) = NCh
  /\ \A S : S \subseteq TCh => /\ IsFiniteSet(S) /\ Cardinality(S) \in 0 .. NCh
                               /\ Cardinality(S) = 0 <=> S = {}
  /\ \A S : S \subseteq Callers => /\ IsFiniteSet(S) /\ Cardinality(S) \in Nat
<1>1. IsFiniteSet(TCh) /\ Cardinality(TCh) = NCh
  BY FS_Interval, NChAssumption DEF TCh
<1>2. ASSUME NEW S, S \subseteq TCh
      PROVE  /\ IsFiniteSet(S) /\ Cardinality(S) \in 0 .. NCh
             /\ Cardinality(S) = 0 <=> S = {}
  <2>1. IsFiniteSet(S) /\ Cardinality(S) <= NCh
    BY <1>1, <1>2, FS_Subset
  <2> QED
    BY <2>1, FS_CardinalityType, FS_EmptySet, NChAssumption
<1>3. ASSUME NEW S, S \subseteq Callers
      PROVE  IsFiniteSet(S) /\ Cardinality(S) \in Nat
  BY <1>3, CallersAssumption, FS_Subset, FS_CardinalityType
<1> QED
  BY <1>1, <1>2, <1>3

\* A non-empty mask has a lowest bit.
LEMMA FirstFreeType ==
  ASSUME tch_free \subseteq TCh, tch_free # {}
  PROVE  FirstFree \in tch_free
<1> DEFINE R == OpToRel(<, Nat)
<1>1. \E i \in tch_free : \A j \in tch_free : ~ (<<j, i>> \in R)
  <2>1. IsWellFoundedOn(R, Nat)
    BY ONLY NatLessThanWellFounded, Zenon
  <2>2. tch_free \subseteq Nat
    BY NChAssumption DEF TCh
  <2> HIDE DEF R
  <2> QED
    BY <2>1, <2>2, WFMin
<1>2. \A i, j \in tch_free : ~ (<<j, i>> \in R) => i <= j
  BY NChAssumption DEF TCh, OpToRel
<1> HIDE DEF R
<1> QED
  BY <1>1, <1>2 DEF FirstFree

\* A caller that holds a unit of the semaphore finds a free channel.
LEMMA WriterFindsChannel ==
  ASSUME Shape, PoolOK, NEW t \in Callers, pc[t] = "write"
  PROVE  FirstFree \in tch_free
<1>1. Between # {} /\ Between \subseteq Callers
  BY DEF Between
<1>2. Cardinality(Between) \in Nat /\ Cardinality(Between) # 0
  BY <1>1, Finite, FS_EmptySet
<1>3. Cardinality(tch_free) # 0 /\ tch_free \subseteq TCh
  BY <1>2 DEF PoolOK, Shape
<1> QED
  BY <1>3, Finite, FirstFreeType

-----------------------------------------------------------------------------
(***************************************************************************)
(* The invariant is preserved.                                             *)
(***************************************************************************)
\* Every step keeps the types and the place of each caller.
LEMMA ShapeStep ==
  ASSUME PoolInv, [Next]_vars
  PROVE  Shape'
<1>0. \A t \in Callers : pc[t] = "write" => FirstFree \in tch_free
  BY WriterFindsChannel DEF PoolInv
<1> USE DEF PoolInv, Shape, Goto, Return, queues, pool, bells, TPc, APc, Frame,
            Clients
<1>1. ASSUME NEW t \in Clients, Call(t) PROVE Shape'
  BY <1>1 DEF Call
<1>2. ASSUME NEW t \in Callers, Down(t) PROVE Shape'
  BY <1>2 DEF Down
<1>3. ASSUME NEW t \in Callers, DownTimeout(t) PROVE Shape'
  BY <1>3, NChAssumption DEF DownTimeout, ACh, Ch
<1>4. ASSUME NEW t \in Callers, Write(t) PROVE Shape'
  <2>1. FirstFree \in tch_free
    BY <1>0, <1>4 DEF Write
  <2>2. FirstFree \in TCh /\ FirstFree \in Ch
    BY <2>1, NChAssumption DEF TCh, Ch
  <2> QED
    BY <1>4, <2>2 DEF Write
<1>5. ASSUME NEW t \in Clients, Ring(t) PROVE Shape'
  BY <1>5 DEF Ring
<1>6. ASSUME NEW t \in Callers, WaitDone(t) PROVE Shape'
  <2>1. ch[t] \in TCh
    BY <1>6 DEF WaitDone, OneCallerPerChannel, Owners
  <2> QED
    BY <1>6, <2>1 DEF WaitDone
<1>7. ASSUME NEW t \in Callers, WaitTimeout(t) PROVE Shape'
  BY <1>7, BoundsAssumption DEF WaitTimeout
<1>8. ASSUME NEW t \in Callers, Recheck(t) PROVE Shape'
  <2>1. ACh \in Ch /\ ch[t] \in Ch
    BY NChAssumption DEF ACh, Ch
  <2>2. CASE ibq[ch[t]]
    BY <1>8, <2>1, <2>2 DEF Recheck
  <2>3. CASE ~ibq[ch[t]]
    BY <1>8, <2>1, <2>3 DEF Recheck
  <2> QED
    BY <2>2, <2>3
<1>9. ASSUME NEW t \in Callers, Read(t) PROVE Shape'
  <2>1. ch[t] \in TCh
    BY <1>9 DEF Read, OneCallerPerChannel, Owners
  <2> QED
    BY <1>9, <2>1 DEF Read, ReadCh, FreeMaster
<1>10. ASSUME NEW t \in Callers, Up(t) PROVE Shape'
  BY <1>10, NChAssumption DEF Up, ACh, Ch
<1>11. ASSUME NEW t \in ACallers, ALock(t) PROVE Shape'
  BY <1>11, NChAssumption DEF ALock, ACh, Ch
<1>12. ASSUME NEW t \in ACallers, AWrite(t) PROVE Shape'
  BY <1>12, NChAssumption DEF AWrite, ACh, Ch
<1>13. ASSUME NEW t \in ACallers, AAcked(t) PROVE Shape'
  BY <1>13, NChAssumption DEF AAcked, ACh, Ch
<1>14. ASSUME NEW t \in ACallers, ATimeout(t) PROVE Shape'
  BY <1>14, BoundsAssumption DEF ATimeout
<1>15. ASSUME NEW t \in ACallers, ARead(t) PROVE Shape'
  BY <1>15 DEF ARead, ReadCh, FreeMaster
<1>16. ASSUME NEW t \in ACallers, AUnlock(t) PROVE Shape'
  BY <1>16, NChAssumption DEF AUnlock, ACh, Ch
<1>17. ASSUME HandleIrq PROVE Shape'
  <2>1. to_complete' \subseteq TCh /\ irqbell' = FALSE
    BY <1>17 DEF HandleIrq
  <2>2. completion' \in [TCh -> Nat]
    BY <1>17 DEF HandleIrq
  <2>3. ibptr' \in [Ch -> BOOLEAN]
    BY <1>17, Zenon DEF HandleIrq
  <2> QED
    BY <1>17, <2>1, <2>2, <2>3 DEF HandleIrq
<1>18. ASSUME SuspendResume PROVE Shape'
  BY <1>18, BoundsAssumption DEF SuspendResume, ResetChannels
<1>19. ASSUME NEW c \in Ch, FwTake(c) PROVE Shape'
  BY <1>19 DEF FwTake
<1>20. ASSUME NEW c \in Ch, FwAnswer(c) PROVE Shape'
  BY <1>20 DEF FwAnswer
<1>21. ASSUME FwSleep PROVE Shape'
  BY <1>21 DEF FwSleep
<1>22. CASE UNCHANGED vars
  BY <1>22 DEF vars
<1> QED
  BY <1>1, <1>2, <1>3, <1>4, <1>5, <1>6, <1>7, <1>8, <1>9, <1>10, <1>11,
     <1>12, <1>13, <1>14, <1>15, <1>16, <1>17, <1>18, <1>19, <1>20, <1>21,
     <1>22 DEF Next, ThreadStep, AtomicStep, Firmware

\* The semaphore and the mask move together.
LEMMA PoolStep ==
  ASSUME PoolInv, [Next]_vars
  PROVE  PoolOK'
<1>0. \A t \in Callers : pc[t] = "write" => FirstFree \in tch_free
  BY WriterFindsChannel DEF PoolInv
<1>1. /\ IsFiniteSet(tch_free) /\ Cardinality(tch_free) \in Nat
      /\ IsFiniteSet(Between) /\ Cardinality(Between) \in Nat /\ tch_sem \in Nat
  BY Finite DEF PoolInv, Shape, Between
<1> USE DEF Goto, Return, queues, pool, bells, Clients
<1>2. ASSUME NEW t \in Callers, Down(t) PROVE PoolOK'
  <2>1. Between' = Between \cup {t} /\ t \notin Between
    BY <1>2 DEF Down, Between, PoolInv, Shape
  <2>2. tch_sem' = tch_sem - 1 /\ tch_free' = tch_free
    BY <1>2 DEF Down
  <2>3. Cardinality(Between') = Cardinality(Between) + 1
    BY <1>1, <2>1, FS_AddElement
  <2> QED
    BY <1>1, <2>2, <2>3 DEF PoolInv, PoolOK
<1>3. ASSUME NEW t \in Callers, Write(t) PROVE PoolOK'
  <2>1. CASE MasterFree(FirstFree)
    <3>1. Between' = Between \ {t} /\ t \in Between
      BY <1>3, <2>1 DEF Write, Between, PoolInv, Shape
    <3>2. /\ tch_sem' = tch_sem /\ tch_free' = tch_free \ {FirstFree}
          /\ FirstFree \in tch_free
      BY <1>0, <1>3, <2>1 DEF Write
    <3>3. Cardinality(Between') = Cardinality(Between) - 1
      BY <1>1, <3>1, FS_RemoveElement
    <3>4. Cardinality(tch_free') = Cardinality(tch_free) - 1
      BY <1>1, <3>2, FS_RemoveElement
    <3> QED
      BY <1>1, <3>2, <3>3, <3>4 DEF PoolInv, PoolOK
  <2>2. CASE ~MasterFree(FirstFree)
    <3>1. Between' = Between /\ tch_sem' = tch_sem /\ tch_free' = tch_free
      BY <1>3, <2>2 DEF Write, Between, PoolInv, Shape
    <3> QED
      BY <3>1 DEF PoolInv, PoolOK
  <2> QED
    BY <2>1, <2>2
<1>4. ASSUME NEW t \in Callers, Read(t) PROVE PoolOK'
  <2>1. Between' = Between \cup {t} /\ t \notin Between
    BY <1>4 DEF Read, Between, PoolInv, Shape
  <2>2. /\ tch_sem' = tch_sem /\ tch_free' = tch_free \cup {ch[t]}
        /\ ch[t] \notin tch_free
    BY <1>4 DEF Read, PoolInv, OneCallerPerChannel, Owners
  <2>3. Cardinality(Between') = Cardinality(Between) + 1
    BY <1>1, <2>1, FS_AddElement
  <2>4. Cardinality(tch_free') = Cardinality(tch_free) + 1
    BY <1>1, <2>2, FS_AddElement
  <2> QED
    BY <1>1, <2>2, <2>3, <2>4 DEF PoolInv, PoolOK
<1>5. ASSUME NEW t \in Callers, Up(t) PROVE PoolOK'
  <2>1. Between' = Between \ {t} /\ t \in Between
    BY <1>5 DEF Up, Between, PoolInv, Shape
  <2>2. tch_sem' = tch_sem + 1 /\ tch_free' = tch_free
    BY <1>5 DEF Up
  <2>3. Cardinality(Between') = Cardinality(Between) - 1
    BY <1>1, <2>1, FS_RemoveElement
  <2> QED
    BY <1>1, <2>2, <2>3 DEF PoolInv, PoolOK
<1>6. ASSUME NEW t \in Callers,
             \/ DownTimeout(t) \/ Ring(t) \/ WaitDone(t) \/ WaitTimeout(t)
             \/ Recheck(t)
      PROVE  PoolOK'
  <2>1. Between' = Between /\ tch_sem' = tch_sem /\ tch_free' = tch_free
    BY <1>6 DEF DownTimeout, Ring, WaitDone, WaitTimeout, Recheck, Between,
                PoolInv, Shape
  <2> QED
    BY <2>1 DEF PoolInv, PoolOK
<1>7. ASSUME NEW t \in Clients, Call(t) PROVE PoolOK'
  <2>1. Between' = Between /\ tch_sem' = tch_sem /\ tch_free' = tch_free
    BY <1>7, CallersAssumption DEF Call, Between, PoolInv, Shape
  <2> QED
    BY <2>1 DEF PoolInv, PoolOK
<1>8. ASSUME NEW t \in ACallers,
             \/ ALock(t) \/ ATimeout(t) \/ Ring(t) \/ AWrite(t) \/ AAcked(t)
             \/ ARead(t) \/ AUnlock(t)
      PROVE  PoolOK'
  <2>1. Between' = Between /\ tch_sem' = tch_sem /\ tch_free' = tch_free
    BY <1>8, CallersAssumption
       DEF ALock, ATimeout, Ring, AWrite, AAcked, ARead, AUnlock, Between,
           PoolInv, Shape
  <2> QED
    BY <2>1 DEF PoolInv, PoolOK
<1>9. ASSUME \/ HandleIrq \/ SuspendResume \/ FwSleep
             \/ \E c \in Ch : FwTake(c) \/ FwAnswer(c)
             \/ UNCHANGED vars
      PROVE  PoolOK'
  <2>1. Between' = Between /\ tch_sem' = tch_sem /\ tch_free' = tch_free
    BY <1>9 DEF HandleIrq, SuspendResume, FwSleep, FwTake, FwAnswer, vars, Between
  <2> QED
    BY <2>1 DEF PoolInv, PoolOK
<1> QED
  BY <1>2, <1>3, <1>4, <1>5, <1>6, <1>7, <1>8, <1>9
     DEF Next, ThreadStep, AtomicStep, Firmware

\* A channel passes from the mask to one caller and back.
LEMMA OwnerStep ==
  ASSUME PoolInv, [Next]_vars
  PROVE  OneCallerPerChannel'
<1>0. \A t \in Callers : pc[t] = "write" => FirstFree \in tch_free
  BY WriterFindsChannel DEF PoolInv
<1> USE DEF PoolInv, Shape, OneCallerPerChannel, Owners, Goto, Return, queues,
            pool, bells, Clients
<1>1. ASSUME NEW t \in Callers, Write(t) PROVE OneCallerPerChannel'
  <2>1. CASE MasterFree(FirstFree)
    <3>1. FirstFree \in tch_free
      BY <1>0, <1>1 DEF Write
    <3>2. Owners' = Owners \cup {t} /\ t \notin Owners
      BY <1>1, <2>1 DEF Write
    <3>3. tch_free' = tch_free \ {FirstFree} /\ ch' = [ch EXCEPT ![t] = FirstFree]
      BY <1>1, <2>1 DEF Write
    <3> HIDE DEF Owners
    <3> QED
      BY <3>1, <3>2, <3>3 DEF Owners
  <2>2. CASE ~MasterFree(FirstFree)
    BY <1>1, <2>2 DEF Write
  <2> QED
    BY <2>1, <2>2
<1>2. ASSUME NEW t \in Callers, Read(t) PROVE OneCallerPerChannel'
  <2>1. Owners' = Owners \ {t} /\ t \in Owners
    BY <1>2 DEF Read
  <2>2. tch_free' = tch_free \cup {ch[t]} /\ ch' = ch
    BY <1>2 DEF Read
  <2> QED
    BY <2>1, <2>2
<1>3. ASSUME NEW t \in Callers,
             \/ Down(t) \/ DownTimeout(t) \/ Ring(t) \/ WaitDone(t)
             \/ WaitTimeout(t) \/ Recheck(t) \/ Up(t)
      PROVE  OneCallerPerChannel'
  <2>1. Owners' \subseteq Owners /\ tch_free' = tch_free
    BY <1>3 DEF Down, DownTimeout, Ring, WaitDone, WaitTimeout, Recheck, Up
  <2>2. \A u \in Owners' : ch'[u] = ch[u]
    BY <1>3 DEF Down, DownTimeout, Ring, WaitDone, WaitTimeout, Recheck, Up
  <2> QED
    BY <2>1, <2>2
<1>4. ASSUME NEW t \in Clients, Call(t) PROVE OneCallerPerChannel'
  <2>1. Owners' = Owners /\ tch_free' = tch_free /\ ch' = ch
    BY <1>4 DEF Call
  <2> QED
    BY <2>1
<1>5. ASSUME NEW t \in ACallers,
             \/ ALock(t) \/ ATimeout(t) \/ Ring(t) \/ AWrite(t) \/ AAcked(t)
             \/ ARead(t) \/ AUnlock(t)
      PROVE  OneCallerPerChannel'
  <2>1. Owners' = Owners /\ tch_free' = tch_free /\ \A u \in Callers : ch'[u] = ch[u]
    BY <1>5, CallersAssumption
       DEF ALock, ATimeout, Ring, AWrite, AAcked, ARead, AUnlock
  <2> QED
    BY <2>1
<1>6. ASSUME \/ HandleIrq \/ SuspendResume \/ FwSleep
             \/ \E c \in Ch : FwTake(c) \/ FwAnswer(c)
             \/ UNCHANGED vars
      PROVE  OneCallerPerChannel'
  BY <1>6 DEF HandleIrq, SuspendResume, FwSleep, FwTake, FwAnswer, vars
<1> QED
  BY <1>1, <1>2, <1>3, <1>4, <1>5, <1>6
     DEF Next, ThreadStep, AtomicStep, Firmware

\* The channels that can still be given out: a unit of the semaphore is held
\* before, during or after a call, or it was lost to a timeout.
LEMMA BudgetStep ==
  ASSUME PoolInv, Budget, [Next]_vars
  PROVE  Budget'
<1>1. /\ IsFiniteSet(Between) /\ Cardinality(Between) \in Nat
      /\ IsFiniteSet(Owners) /\ Cardinality(Owners) \in Nat
      /\ IsFiniteSet(Late) /\ Cardinality(Late) \in Nat
  BY Finite DEF Between, Owners, Late
<1>2. tch_sem \in Nat /\ timeouts \in Nat /\ MaxTimeouts \in Nat /\ NCh \in Nat
  BY NChAssumption, BoundsAssumption DEF PoolInv, Shape
<1> DEFINE Same == /\ Between' = Between /\ Owners' = Owners /\ Late' = Late
                   /\ tch_sem' = tch_sem /\ timeouts' = timeouts
<1>3. Same => Budget'
  BY DEF Budget
<1> USE DEF Goto, Return, queues, pool, bells, Clients
<1>4. ASSUME NEW t \in Callers, Down(t) PROVE Budget'
  <2>1. Between' = Between \cup {t} /\ t \notin Between
    BY <1>4 DEF Down, Between, PoolInv, Shape
  <2>2. Owners' = Owners /\ Late' = Late
    BY <1>4 DEF Down, Owners, Late, PoolInv, Shape
  <2>3. tch_sem' = tch_sem - 1 /\ timeouts' = timeouts
    BY <1>4 DEF Down
  <2>4. Cardinality(Between') = Cardinality(Between) + 1
    BY <1>1, <2>1, FS_AddElement
  <2> QED
    BY <1>1, <1>2, <2>2, <2>3, <2>4 DEF Budget
<1>5. ASSUME NEW t \in Callers, Write(t) PROVE Budget'
  <2>1. CASE MasterFree(FirstFree)
    <3>1. Between' = Between \ {t} /\ t \in Between
      BY <1>5, <2>1 DEF Write, Between, PoolInv, Shape
    <3>2. Owners' = Owners \cup {t} /\ t \notin Owners
      BY <1>5, <2>1 DEF Write, Owners, PoolInv, Shape
    <3>3. Late' = Late /\ tch_sem' = tch_sem /\ timeouts' = timeouts
      BY <1>5, <2>1 DEF Write, Late, PoolInv, Shape
    <3>4. Cardinality(Between') = Cardinality(Between) - 1
      BY <1>1, <3>1, FS_RemoveElement
    <3>5. Cardinality(Owners') = Cardinality(Owners) + 1
      BY <1>1, <3>2, FS_AddElement
    <3> QED
      BY <1>1, <1>2, <3>3, <3>4, <3>5 DEF Budget
  <2>2. CASE ~MasterFree(FirstFree)
    <3>1. Same
      BY <1>5, <2>2 DEF Write, Between, Owners, Late, PoolInv, Shape
    <3> QED
      BY <1>3, <3>1
  <2> QED
    BY <2>1, <2>2
<1>6. ASSUME NEW t \in Callers, WaitTimeout(t) PROVE Budget'
  <2>1. Late' = Late \cup {t} /\ t \notin Late
    BY <1>6 DEF WaitTimeout, Late, PoolInv, Shape
  <2>2. Between' = Between /\ Owners' = Owners
    BY <1>6 DEF WaitTimeout, Between, Owners, PoolInv, Shape
  <2>3. tch_sem' = tch_sem /\ timeouts' = timeouts - 1
    BY <1>6 DEF WaitTimeout
  <2>4. Cardinality(Late') = Cardinality(Late) + 1
    BY <1>1, <2>1, FS_AddElement
  <2> QED
    BY <1>1, <1>2, <2>2, <2>3, <2>4 DEF Budget
<1>7. ASSUME NEW t \in Callers, Recheck(t) PROVE Budget'
  <2>1. Late' = Late \ {t} /\ t \in Late
    BY <1>7 DEF Recheck, Late, PoolInv, Shape
  <2>2. Between' = Between /\ tch_sem' = tch_sem /\ timeouts' = timeouts
    BY <1>7 DEF Recheck, Between, PoolInv, Shape
  <2>3. Owners' = Owners \/ Owners' = Owners \ {t}
    BY <1>7 DEF Recheck, Owners, PoolInv, Shape
  <2>4. Cardinality(Late') = Cardinality(Late) - 1
    BY <1>1, <2>1, FS_RemoveElement
  <2>5. Cardinality(Owners') >= Cardinality(Owners) - 1 /\ Cardinality(Owners') \in Int
    <3>1. /\ Cardinality(Owners \ {t}) >= Cardinality(Owners) - 1
          /\ Cardinality(Owners \ {t}) \in Int
      BY <1>1, FS_RemoveElement
    <3> QED
      BY <1>1, <2>3, <3>1
  <2> QED
    BY <1>1, <1>2, <2>2, <2>4, <2>5 DEF Budget
<1>8. ASSUME NEW t \in Callers, Read(t) PROVE Budget'
  <2>1. Between' = Between \cup {t} /\ t \notin Between
    BY <1>8 DEF Read, Between, PoolInv, Shape
  <2>2. Owners' = Owners \ {t} /\ t \in Owners
    BY <1>8 DEF Read, Owners, PoolInv, Shape
  <2>3. Late' = Late /\ tch_sem' = tch_sem /\ timeouts' = timeouts
    BY <1>8 DEF Read, Late, PoolInv, Shape
  <2>4. Cardinality(Between') = Cardinality(Between) + 1
    BY <1>1, <2>1, FS_AddElement
  <2>5. Cardinality(Owners') = Cardinality(Owners) - 1
    BY <1>1, <2>2, FS_RemoveElement
  <2> QED
    BY <1>1, <1>2, <2>3, <2>4, <2>5 DEF Budget
<1>9. ASSUME NEW t \in Callers, Up(t) PROVE Budget'
  <2>1. Between' = Between \ {t} /\ t \in Between
    BY <1>9 DEF Up, Between, PoolInv, Shape
  <2>2. Owners' = Owners /\ Late' = Late
    BY <1>9 DEF Up, Owners, Late, PoolInv, Shape
  <2>3. tch_sem' = tch_sem + 1 /\ timeouts' = timeouts
    BY <1>9 DEF Up
  <2>4. Cardinality(Between') = Cardinality(Between) - 1
    BY <1>1, <2>1, FS_RemoveElement
  <2> QED
    BY <1>1, <1>2, <2>2, <2>3, <2>4 DEF Budget
<1>10. ASSUME NEW t \in Callers, DownTimeout(t) \/ Ring(t) \/ WaitDone(t)
       PROVE  Budget'
  <2>1. Same
    BY <1>10 DEF DownTimeout, Ring, WaitDone, Between, Owners, Late, PoolInv, Shape
  <2> QED
    BY <1>3, <2>1
<1>11. ASSUME NEW t \in Clients, Call(t) PROVE Budget'
  <2>1. Same
    BY <1>11 DEF Call, Between, Owners, Late, PoolInv, Shape
  <2> QED
    BY <1>3, <2>1
<1>12. ASSUME NEW t \in ACallers, ATimeout(t) PROVE Budget'
  <2>1. /\ Between' = Between /\ Owners' = Owners /\ Late' = Late
        /\ tch_sem' = tch_sem /\ timeouts' = timeouts - 1
    BY <1>12, CallersAssumption
       DEF ATimeout, Between, Owners, Late, PoolInv, Shape
  <2> QED
    BY <1>1, <1>2, <2>1 DEF Budget
<1>13. ASSUME NEW t \in ACallers,
              \/ ALock(t) \/ Ring(t) \/ AWrite(t) \/ AAcked(t) \/ ARead(t)
              \/ AUnlock(t)
       PROVE  Budget'
  <2>1. Same
    BY <1>13, CallersAssumption
       DEF ALock, Ring, AWrite, AAcked, ARead, AUnlock, Between, Owners, Late,
           PoolInv, Shape
  <2> QED
    BY <1>3, <2>1
<1>14. ASSUME \/ HandleIrq \/ SuspendResume \/ FwSleep
              \/ \E c \in Ch : FwTake(c) \/ FwAnswer(c)
              \/ UNCHANGED vars
       PROVE  Budget'
  <2>1. Same
    BY <1>14 DEF HandleIrq, SuspendResume, FwSleep, FwTake, FwAnswer, vars,
                 Between, Owners, Late
  <2> QED
    BY <1>3, <2>1
<1> HIDE DEF Same
<1> QED
  BY <1>4, <1>5, <1>6, <1>7, <1>8, <1>9, <1>10, <1>11, <1>12, <1>13, <1>14
     DEF Next, ThreadStep, AtomicStep, Firmware

-----------------------------------------------------------------------------
(***************************************************************************)
(* The theorems.                                                           *)
(***************************************************************************)
\* The inductive invariant holds throughout.
LEMMA Invariance == Spec => []PoolInv
<1>1. Init => PoolInv
  <2> SUFFICES ASSUME Init PROVE PoolInv
    OBVIOUS
  <2>1. Shape
    <3>1. ACh \in Ch /\ NCh \in Nat /\ None \in Frame
      BY NChAssumption DEF ACh, Ch, Frame
    <3>2. /\ timeouts \in 0 .. MaxTimeouts /\ suspends \in 0 .. MaxSuspends
          /\ tch_sem \in Nat /\ completion \in [TCh -> Nat]
      BY <3>1, BoundsAssumption DEF Init
    <3>3. pc \in [Clients -> TPc \cup APc]
      BY DEF Init, TPc, APc
    <3>4. warned \in BOOLEAN /\ fwbell \in BOOLEAN /\ irqbell \in BOOLEAN
      BY Zenon DEF Init
    <3> QED
      BY <3>1, <3>2, <3>3, <3>4 DEF Init, Shape
  <2>2. Between = {} /\ Owners = {}
    BY DEF Init, Between, Owners, Clients
  <2>3. PoolOK
    BY <2>2, Finite, FS_EmptySet, NChAssumption DEF Init, PoolOK
  <2> QED
    BY <2>1, <2>2, <2>3 DEF PoolInv, OneCallerPerChannel
<1>2. PoolInv /\ [Next]_vars => PoolInv'
  BY ShapeStep, PoolStep, OwnerStep DEF PoolInv
<1> QED
  BY <1>1, <1>2, PTL DEF Spec

\* Every reachable state is well typed; in particular up() never takes the
\* semaphore above thread_ch_cnt.
THEOREM BpmpTypeCorrect == Spec => []TypeOK
<1>1. PoolInv => TypeOK
  <2> SUFFICES ASSUME PoolInv PROVE TypeOK
    OBVIOUS
  <2>1. /\ Cardinality(tch_free) \in 0 .. NCh /\ Cardinality(Between) \in Nat
        /\ tch_sem \in Nat
    BY Finite DEF PoolInv, Shape, Between
  <2>2. tch_sem \in 0 .. NCh
    BY <2>1, NChAssumption DEF PoolInv, PoolOK
  <2> QED
    BY <2>2 DEF PoolInv, Shape, TypeOK
<1> QED
  BY <1>1, Invariance, PTL

\* tch_sem counts the channels of tch_free that are not spoken for, so that
\* bpmp_write_threaded_ch() never calls __ffs(0).
THEOREM SemaphoreCountsFreeChannels == Spec => []PoolOK
<1>1. PoolInv => PoolOK
  BY DEF PoolInv
<1> QED
  BY <1>1, Invariance, PTL

\* No two calls of tegra_bpmp_send_receive() ever use the same channel at the
\* same time, also after calls that timed out.
THEOREM ChannelsAreExclusive == Spec => []OneCallerPerChannel
<1>1. PoolInv => OneCallerPerChannel
  BY DEF PoolInv
<1> QED
  BY <1>1, Invariance, PTL

\* Each timeout of bpmp_trywait() costs the pool at most one channel, and no
\* other path of tegra_bpmp_send_receive() loses one.
THEOREM OnlyTimeoutsLoseChannels == Spec => []PoolShrinksOnlyByTimeouts
<1>1. Init => Budget
  <2> SUFFICES ASSUME Init PROVE Budget
    OBVIOUS
  <2>1. Between = {} /\ Owners = {} /\ Late = {}
    BY DEF Init, Between, Owners, Late, Clients
  <2> QED
    BY <2>1, FS_EmptySet, NChAssumption, BoundsAssumption DEF Init, Budget
<1>2. PoolInv /\ Budget /\ [Next]_vars => Budget'
  BY BudgetStep
<1>3. PoolInv /\ Budget => PoolShrinksOnlyByTimeouts
  <2>1. Cardinality(Between) \in Nat /\ Cardinality(Owners) \in Nat
        /\ Cardinality(Late) \in Nat
    BY Finite DEF Between, Owners, Late
  <2> QED
    BY <2>1, NChAssumption, BoundsAssumption
       DEF PoolInv, Shape, Budget, PoolShrinksOnlyByTimeouts
<1> QED
  BY <1>1, <1>2, <1>3, Invariance, PTL DEF Spec
=============================================================================
