----------------------------- MODULE IvcProofs -----------------------------
(***************************************************************************)
(* Proofs about IvcChannel, for every number of frames, every width of the *)
(* counters and every number of resets.  The queues are proved when neither*)
(* a reset races with the end of a handshake nor notified() with a frame   *)
(* operation; the handshake is proved for the code with both races, with   *)
(* the history variables of IvcHistory.                                    *)
(***************************************************************************)
EXTENDS IvcHistory, SequenceTheorems, TLAPS

-----------------------------------------------------------------------------
(***************************************************************************)
(* The inductive invariant.                                                *)
(***************************************************************************)

\* What one endpoint's own threads ensure.
Local(e) ==
  /\ irq[e] = "idle" => seen[e] = "est"
  /\ irq[e] \in {"clear_w", "clear_r"} => seen[e] # "est"
  /\ irq[e] # "idle" /\ state[e] = "est" => seen[e] = "sync"
  /\ irq[e] # "idle" /\ state[e] = "sync" => seen[e] # "est"
  /\ irq[e] \in {"clear_w", "clear_r"} /\ state[e] = "ack" => seen[e] = "sync"
  /\ Busy(e) => state[e] = "est" /\ irq[e] = "idle"
  /\ irq[e] = "clear_r" => w_count[e] = 0
  /\ irq[e] = "move" \/ state[e] = "ack" =>
        w_count[e] = 0 /\ r_count[e] = 0 /\ w_pos[e] = 0 /\ r_pos[e] = 0

\* What the handshake lets e conclude about its peer.
Handshake(e) == LET p == Peer(e) IN
  /\ Establishing(e) => state[p] # "sync"
  /\ Establishing(e) /\ state[e] = "sync" => state[p] = "ack"
  /\ irq[e] # "idle" /\ seen[e] = "sync" =>
        /\ state[e] = "est" => state[p] = "sync"
        /\ state[e] = "sync" => state[p] # "est"

\* The queue of e, as its two sides see it.
QueueInv(e) == LET p == Peer(e) IN
  /\ InService(e) => Avail(e) <= NFrames
  /\ InService(e) /\ state[e] # "sync" =>
        w_pos[e] = SlotAt(r_pos[p], Avail(e))
  /\ InService(e) /\ tx[e] \in {"fill", "advance"} => Avail(e) < NFrames
  /\ rx[p] \in {"copy", "advance"} => Avail(e) >= 1

IInv == /\ TypeOK
        /\ \A e \in Endpoints : Local(e) /\ Handshake(e) /\ QueueInv(e)

-----------------------------------------------------------------------------
(***************************************************************************)
(* Type correctness.                                                       *)
(***************************************************************************)
\* The other end of a channel is an end of the channel.
LEMMA PeerType ==
  \A e \in Endpoints : /\ Peer(e) \in Endpoints /\ Peer(e) # e
                       /\ Peer(Peer(e)) = e
                       /\ \A x \in Endpoints : x = e \/ x = Peer(e)
BY DEF Endpoints, Peer

\* Advancing a counter or a position keeps it in its range.
LEMMA CounterTypes ==
  /\ 0 \in Count /\ 0 \in Slot
  /\ \A c \in Count : Succ32(c) \in Count
  /\ \A p \in Slot : NextPos(p) \in Slot
BY NFramesAssumption, U32Assumption DEF Count, Slot, Succ32, NextPos

\* Every step of either endpoint keeps the types.
LEMMA TypeStep == TypeOK /\ [Next]_vars => TypeOK'
<1> SUFFICES ASSUME TypeOK, [Next]_vars PROVE TypeOK'
  OBVIOUS
<1> USE DEF TypeOK, States, IrqPc, TxPc, RxPc, shared, pos, intr, Ring
<1>1. ASSUME NEW e \in Endpoints, TxCall(e) PROVE TypeOK'
  BY <1>1, PeerType DEF TxCall, WaitWritable
<1>2. ASSUME NEW e \in Endpoints, TxRetry(e) PROVE TypeOK'
  BY <1>2, PeerType DEF TxRetry, WaitWritable
<1>3. ASSUME NEW e \in Endpoints, TxGet(e) PROVE TypeOK'
  BY <1>3, PeerType DEF TxGet
<1>4. ASSUME NEW e \in Endpoints, NEW d \in Data, TxFill(e, d) PROVE TypeOK'
  BY <1>4, PeerType DEF TxFill
<1>5. ASSUME NEW e \in Endpoints, TxFault(e) PROVE TypeOK'
  BY <1>5, PeerType DEF TxFault
<1>6. ASSUME NEW e \in Endpoints, TxAdvance(e) PROVE TypeOK'
  <2>1. Succ32(w_count[e]) \in Count /\ NextPos(w_pos[e]) \in Slot
    BY CounterTypes
  <2>2. CASE CanWrite(e)
    <3>1. /\ w_count' = [w_count EXCEPT ![e] = Succ32(w_count[e])]
          /\ w_pos' = [w_pos EXCEPT ![e] = NextPos(w_pos[e])]
          /\ tx' = [tx EXCEPT ![e] = "notify"]
          /\ UNCHANGED <<r_count, state, frames, r_pos, bell, irq, seen,
                         sched, rx, buf, resets>>
      BY <1>6, <2>2 DEF TxAdvance
    <3> QED
      BY <2>1, <3>1
  <2>3. CASE ~CanWrite(e)
    BY <1>6, <2>3 DEF TxAdvance
  <2> QED
    BY <2>2, <2>3
<1>7. ASSUME NEW e \in Endpoints, TxNotify(e) PROVE TypeOK'
  BY <1>7, PeerType DEF TxNotify
<1>8. ASSUME NEW e \in Endpoints, RxStart(e) PROVE TypeOK'
  BY <1>8, PeerType DEF RxStart
<1>9. ASSUME NEW e \in Endpoints, RxCheck(e) PROVE TypeOK'
  BY <1>9, PeerType, ZenonT(30) DEF RxCheck, WakeWriters
<1>10. ASSUME NEW e \in Endpoints, RxCopy(e) PROVE TypeOK'
  BY <1>10, PeerType DEF RxCopy
<1>11. ASSUME NEW e \in Endpoints, RxAdvance(e) PROVE TypeOK'
  <2>1. Succ32(r_count[e]) \in Count /\ NextPos(r_pos[e]) \in Slot
    BY CounterTypes
  <2>2. CASE CanRead(e)
    <3>1. /\ r_count' = [r_count EXCEPT ![e] = Succ32(r_count[e])]
          /\ r_pos' = [r_pos EXCEPT ![e] = NextPos(r_pos[e])]
          /\ rx' = [rx EXCEPT ![e] = "notify"]
          /\ UNCHANGED <<w_count, state, frames, w_pos, bell, irq, seen,
                         sched, tx, buf, resets>>
      BY <1>11, <2>2 DEF RxAdvance
    <3> QED
      BY <2>1, <3>1
  <2>3. CASE ~CanRead(e)
    BY <1>11, <2>3 DEF RxAdvance
  <2> QED
    BY <2>2, <2>3
<1>12. ASSUME NEW e \in Endpoints, RxNotify(e) PROVE TypeOK'
  BY <1>12, PeerType DEF RxNotify
<1>13. ASSUME NEW e \in Endpoints, Doorbell(e) PROVE TypeOK'
  BY <1>13, PeerType DEF Doorbell, Observe
<1>14. ASSUME NEW e \in Endpoints, Poll(e) PROVE TypeOK'
  BY <1>14, PeerType, ZenonT(40) DEF Poll, Observe
<1>15. ASSUME NEW e \in Endpoints, ClearW(e) PROVE TypeOK'
  BY <1>15, PeerType, CounterTypes DEF ClearW
<1>16. ASSUME NEW e \in Endpoints, ClearR(e) PROVE TypeOK'
  BY <1>16, PeerType, CounterTypes DEF ClearR
<1>17. ASSUME NEW e \in Endpoints, Move(e) PROVE TypeOK'
  BY <1>17, PeerType DEF Move
<1>18. ASSUME NEW e \in Endpoints, Reset(e) PROVE TypeOK'
  BY <1>18, PeerType, MaxResetsAssumption DEF Reset
<1>19. ASSUME NEW e \in Endpoints, Reboot(e) PROVE TypeOK'
  BY <1>19, PeerType, CounterTypes, MaxResetsAssumption DEF Reboot
<1>20. ASSUME NEW e \in Endpoints, TxSignal(e) PROVE TypeOK'
  BY <1>20 DEF TxSignal
<1>21. CASE UNCHANGED vars
  BY <1>21 DEF vars
<1> QED
  BY <1>1, <1>2, <1>3, <1>4, <1>5, <1>6, <1>7, <1>8, <1>9, <1>10, <1>11,
     <1>12, <1>13, <1>14, <1>15, <1>16, <1>17, <1>18, <1>19, <1>20,
     <1>21
     DEF Next, Writer, Tasklet, Interrupt

\* Every reachable state is well typed: counters stay below U32 and positions
\* below nframes, which is what BUG_ON(frame >= ivc->nframes) asserts.
THEOREM TypeCorrect == Spec => []TypeOK
<1>1. Init => TypeOK
  BY CounterTypes, MaxResetsAssumption
     DEF Init, TypeOK, States, IrqPc, TxPc, RxPc
<1> QED
  BY <1>1, TypeStep, PTL DEF Spec

-----------------------------------------------------------------------------
(***************************************************************************)
(* The inductive invariant is preserved.                                   *)
(***************************************************************************)

\* Wrapping subtraction: what advancing a counter does to the distance.
LEMMA DiffFacts ==
  \A w, r \in Count :
     /\ Diff(w, r) \in 0 .. U32 - 1
     /\ Diff(w, r) = 0 <=> w = r
     /\ Diff(w, r) < NFrames => Diff(Succ32(w), r) = Diff(w, r) + 1
     /\ Diff(w, r) >= 1 => Diff(w, Succ32(r)) = Diff(w, r) - 1
BY NFramesAssumption, U32Assumption DEF Count, Diff, Succ32

\* The slot that is k frames ahead, when either end of the distance moves.
LEMMA SlotFacts ==
  /\ SlotAt(0, 0) = 0
  /\ \A r \in Slot, k \in 0 .. NFrames - 1 :
        NextPos(SlotAt(r, k)) = SlotAt(r, k + 1)
  /\ \A r \in Slot, k \in 1 .. NFrames :
        SlotAt(NextPos(r), k - 1) = SlotAt(r, k)
  /\ \A r \in Slot, k \in 1 .. NFrames - 1 : SlotAt(r, k) # r
BY NFramesAssumption DEF Slot, SlotAt, NextPos

\* The distance of two counters is a counter value.
LEMMA AvailType ==
  ASSUME TypeOK
  PROVE  \A e \in Endpoints : /\ Avail(e) \in 0 .. U32 - 1
                              /\ Avail(e) = 0 <=> w_count[e] = r_count[Peer(e)]
BY DiffFacts, PeerType DEF TypeOK, Avail

\* The same, after a step.
LEMMA AvailTypeNext ==
  ASSUME TypeOK'
  PROVE  \A e \in Endpoints : Avail(e)' \in 0 .. U32 - 1
BY DiffFacts, PeerType DEF TypeOK, Avail

\* An endpoint's own bookkeeping.
LEMMA LocalStep ==
  ASSUME ~ResetRaces, ~NotifiedRaces, IInv, TypeOK', [Next]_vars
  PROVE  \A x \in Endpoints : Local(x)'
<1> USE PeerType, RacesAssumption
    DEF IInv, TypeOK, shared, pos, intr, Ring, Local, Busy
<1>1. ASSUME NEW e \in Endpoints, TxCall(e)
      PROVE  \A x \in Endpoints : Local(x)'
  BY <1>1 DEF TxCall, WaitWritable
<1>2. ASSUME NEW e \in Endpoints, TxRetry(e)
      PROVE  \A x \in Endpoints : Local(x)'
  BY <1>2 DEF TxRetry, WaitWritable
<1>3. ASSUME NEW e \in Endpoints, TxGet(e)
      PROVE  \A x \in Endpoints : Local(x)'
  BY <1>3 DEF TxGet, CanWrite
<1>4. ASSUME NEW e \in Endpoints, NEW d \in Data, TxFill(e, d)
      PROVE  \A x \in Endpoints : Local(x)'
  BY <1>4 DEF TxFill
<1>5. ASSUME NEW e \in Endpoints, TxFault(e)
      PROVE  \A x \in Endpoints : Local(x)'
  BY <1>5 DEF TxFault
<1>6. ASSUME NEW e \in Endpoints, TxAdvance(e)
      PROVE  \A x \in Endpoints : Local(x)'
  BY <1>6 DEF TxAdvance
<1>7. ASSUME NEW e \in Endpoints, TxNotify(e)
      PROVE  \A x \in Endpoints : Local(x)'
  BY <1>7 DEF TxNotify
<1>8. ASSUME NEW e \in Endpoints, RxStart(e)
      PROVE  \A x \in Endpoints : Local(x)'
  BY <1>8 DEF RxStart
<1>9. ASSUME NEW e \in Endpoints, RxCheck(e)
      PROVE  \A x \in Endpoints : Local(x)'
  BY <1>9 DEF RxCheck, CanRead, WakeWriters
<1>10. ASSUME NEW e \in Endpoints, RxCopy(e)
      PROVE  \A x \in Endpoints : Local(x)'
  BY <1>10 DEF RxCopy
<1>11. ASSUME NEW e \in Endpoints, RxAdvance(e)
      PROVE  \A x \in Endpoints : Local(x)'
  BY <1>11 DEF RxAdvance
<1>12. ASSUME NEW e \in Endpoints, RxNotify(e)
      PROVE  \A x \in Endpoints : Local(x)'
  BY <1>12 DEF RxNotify
<1>13. ASSUME NEW e \in Endpoints, Doorbell(e)
      PROVE  \A x \in Endpoints : Local(x)'
  BY <1>13 DEF Doorbell, Observe, MustClear, MustMove
<1>14. ASSUME NEW e \in Endpoints, Poll(e)
      PROVE  \A x \in Endpoints : Local(x)'
  BY <1>14 DEF Poll, Observe, MustClear, MustMove
<1>15. ASSUME NEW e \in Endpoints, ClearW(e)
      PROVE  \A x \in Endpoints : Local(x)'
  BY <1>15 DEF ClearW
<1>16. ASSUME NEW e \in Endpoints, ClearR(e)
      PROVE  \A x \in Endpoints : Local(x)'
  BY <1>16 DEF ClearR
<1>17. ASSUME NEW e \in Endpoints, Move(e)
      PROVE  \A x \in Endpoints : Local(x)'
  BY <1>17 DEF Move
<1>18. ASSUME NEW e \in Endpoints, Reset(e)
      PROVE  \A x \in Endpoints : Local(x)'
  BY <1>18 DEF Reset
<1>19. ASSUME NEW e \in Endpoints, Reboot(e)
      PROVE  \A x \in Endpoints : Local(x)'
  BY <1>19 DEF Reboot
<1>20. ASSUME NEW e \in Endpoints, TxSignal(e)
      PROVE  \A x \in Endpoints : Local(x)'
  BY <1>20 DEF TxSignal
<1>21. CASE UNCHANGED vars
  BY <1>21 DEF vars
<1> QED
  BY <1>1, <1>2, <1>3, <1>4, <1>5, <1>6, <1>7, <1>8, <1>9, <1>10, <1>11,
     <1>12, <1>13, <1>14, <1>15, <1>16, <1>17, <1>18, <1>19, <1>20,
     <1>21
     DEF Next, Writer, Tasklet, Interrupt

\* The handshake: a reset is not accepted while the peer moves to EST, so an
\* endpoint that observed ACK or EST still finds its peer there.
LEMMA HandshakeStep ==
  ASSUME ~ResetRaces, ~NotifiedRaces, IInv, TypeOK', [Next]_vars
  PROVE  \A x \in Endpoints : Handshake(x)'
<1> USE PeerType, RacesAssumption
    DEF IInv, TypeOK, shared, pos, intr, Ring, Local, Handshake, Establishing, States
<1>1. ASSUME NEW e \in Endpoints, TxCall(e)
      PROVE  \A x \in Endpoints : Handshake(x)'
  BY <1>1 DEF TxCall, WaitWritable
<1>2. ASSUME NEW e \in Endpoints, TxRetry(e)
      PROVE  \A x \in Endpoints : Handshake(x)'
  BY <1>2 DEF TxRetry, WaitWritable
<1>3. ASSUME NEW e \in Endpoints, TxGet(e)
      PROVE  \A x \in Endpoints : Handshake(x)'
  BY <1>3 DEF TxGet
<1>4. ASSUME NEW e \in Endpoints, NEW d \in Data, TxFill(e, d)
      PROVE  \A x \in Endpoints : Handshake(x)'
  BY <1>4 DEF TxFill
<1>5. ASSUME NEW e \in Endpoints, TxFault(e)
      PROVE  \A x \in Endpoints : Handshake(x)'
  BY <1>5 DEF TxFault
<1>6. ASSUME NEW e \in Endpoints, TxAdvance(e)
      PROVE  \A x \in Endpoints : Handshake(x)'
  BY <1>6 DEF TxAdvance
<1>7. ASSUME NEW e \in Endpoints, TxNotify(e)
      PROVE  \A x \in Endpoints : Handshake(x)'
  BY <1>7 DEF TxNotify
<1>8. ASSUME NEW e \in Endpoints, RxStart(e)
      PROVE  \A x \in Endpoints : Handshake(x)'
  BY <1>8 DEF RxStart
<1>9. ASSUME NEW e \in Endpoints, RxCheck(e)
      PROVE  \A x \in Endpoints : Handshake(x)'
  BY <1>9 DEF RxCheck
<1>10. ASSUME NEW e \in Endpoints, RxCopy(e)
      PROVE  \A x \in Endpoints : Handshake(x)'
  BY <1>10 DEF RxCopy
<1>11. ASSUME NEW e \in Endpoints, RxAdvance(e)
      PROVE  \A x \in Endpoints : Handshake(x)'
  BY <1>11 DEF RxAdvance
<1>12. ASSUME NEW e \in Endpoints, RxNotify(e)
      PROVE  \A x \in Endpoints : Handshake(x)'
  BY <1>12 DEF RxNotify
<1>13. ASSUME NEW e \in Endpoints, Doorbell(e)
      PROVE  \A x \in Endpoints : Handshake(x)'
  BY <1>13 DEF Doorbell, Observe, MustClear, MustMove
<1>14. ASSUME NEW e \in Endpoints, Poll(e)
      PROVE  \A x \in Endpoints : Handshake(x)'
  BY <1>14 DEF Poll, Observe, MustClear, MustMove
<1>15. ASSUME NEW e \in Endpoints, ClearW(e)
      PROVE  \A x \in Endpoints : Handshake(x)'
  BY <1>15 DEF ClearW
<1>16. ASSUME NEW e \in Endpoints, ClearR(e)
      PROVE  \A x \in Endpoints : Handshake(x)'
  BY <1>16 DEF ClearR
<1>17. ASSUME NEW e \in Endpoints, Move(e)
      PROVE  \A x \in Endpoints : Handshake(x)'
  BY <1>17 DEF Move
<1>18. ASSUME NEW e \in Endpoints, Reset(e)
      PROVE  \A x \in Endpoints : Handshake(x)'
  BY <1>18 DEF Reset
<1>19. ASSUME NEW e \in Endpoints, Reboot(e)
      PROVE  \A x \in Endpoints : Handshake(x)'
  BY <1>19 DEF Reboot
<1>20. ASSUME NEW e \in Endpoints, TxSignal(e)
      PROVE  \A x \in Endpoints : Handshake(x)'
  BY <1>20 DEF TxSignal
<1>21. CASE UNCHANGED vars
  BY <1>21 DEF vars
<1> QED
  BY <1>1, <1>2, <1>3, <1>4, <1>5, <1>6, <1>7, <1>8, <1>9, <1>10, <1>11,
     <1>12, <1>13, <1>14, <1>15, <1>16, <1>17, <1>18, <1>19, <1>20,
     <1>21
     DEF Next, Writer, Tasklet, Interrupt

\* The queue: its window moves by one frame, or is empty when a handshake puts
\* it back in service.
LEMMA QueueStep ==
  ASSUME ~ResetRaces, ~NotifiedRaces, IInv, TypeOK', [Next]_vars
  PROVE  \A x \in Endpoints : QueueInv(x)'
<1> USE PeerType, RacesAssumption
    DEF IInv, TypeOK, shared, pos, intr, Ring, Local, Handshake, QueueInv, InService, Avail, Busy,
        Establishing
<1>1. ASSUME NEW e \in Endpoints, TxCall(e)
      PROVE  \A x \in Endpoints : QueueInv(x)'
  BY <1>1 DEF TxCall, WaitWritable
<1>2. ASSUME NEW e \in Endpoints, TxRetry(e)
      PROVE  \A x \in Endpoints : QueueInv(x)'
  BY <1>2 DEF TxRetry, WaitWritable
<1>3. ASSUME NEW e \in Endpoints, TxGet(e)
      PROVE  \A x \in Endpoints : QueueInv(x)'
  <2>1. CanWrite(e) => Avail(e) < NFrames
    BY AvailType, NFramesAssumption, U32Assumption DEF CanWrite, Full
  <2> QED
    BY <1>3, <2>1 DEF TxGet
<1>4. ASSUME NEW e \in Endpoints, NEW d \in Data, TxFill(e, d)
      PROVE  \A x \in Endpoints : QueueInv(x)'
  BY <1>4 DEF TxFill
<1>5. ASSUME NEW e \in Endpoints, TxFault(e)
      PROVE  \A x \in Endpoints : QueueInv(x)'
  BY <1>5 DEF TxFault
<1>6. ASSUME NEW e \in Endpoints, TxAdvance(e)
      PROVE  \A x \in Endpoints : QueueInv(x)'
  <2> DEFINE p == Peer(e)
  <2>1. CASE ~CanWrite(e)
    BY <1>6, <2>1 DEF TxAdvance
  <2>2. CASE CanWrite(e)
    <3>1. /\ w_count' = [w_count EXCEPT ![e] = Succ32(w_count[e])]
          /\ w_pos' = [w_pos EXCEPT ![e] = NextPos(w_pos[e])]
          /\ tx' = [tx EXCEPT ![e] = "notify"]
          /\ UNCHANGED <<r_count, state, r_pos, irq, rx>>
      BY <1>6, <2>2 DEF TxAdvance
    <3>2. Avail(e) \in 0 .. NFrames - 1 /\ state[e] = "est"
      BY <2>2, AvailType, NFramesAssumption, U32Assumption DEF CanWrite, Full
    <3>3. Avail(e)' = Avail(e) + 1
      <4>1. /\ w_count[e] \in Count /\ r_count[p] \in Count
            /\ Diff(w_count[e], r_count[p]) < NFrames
        BY <3>2, NFramesAssumption
      <4>2. Diff(Succ32(w_count[e]), r_count[p]) = Diff(w_count[e], r_count[p]) + 1
        BY ONLY <4>1, DiffFacts
      <4> QED
        BY <3>1, <4>2
    <3>8. Avail(p)' = Avail(p)
      BY <3>1
    <3>4. (InService(e)' <=> InService(e)) /\ (InService(p)' <=> InService(p))
      BY <3>1
    <3>5. InService(e) => w_pos'[e] = SlotAt(r_pos[p], Avail(e) + 1)
      BY <3>1, <3>2, SlotFacts, SMTT(30)
    <3>6. QueueInv(e)'
      BY <3>1, <3>2, <3>3, <3>4, <3>5, NFramesAssumption
    <3>7. QueueInv(p)'
      BY <3>1, <3>4, <3>8
    <3> QED
      BY ONLY <3>6, <3>7, PeerType
  <2> QED
    BY <2>1, <2>2
<1>7. ASSUME NEW e \in Endpoints, TxNotify(e)
      PROVE  \A x \in Endpoints : QueueInv(x)'
  BY <1>7 DEF TxNotify
<1>8. ASSUME NEW e \in Endpoints, RxStart(e)
      PROVE  \A x \in Endpoints : QueueInv(x)'
  BY <1>8 DEF RxStart
<1>9. ASSUME NEW e \in Endpoints, RxCheck(e)
      PROVE  \A x \in Endpoints : QueueInv(x)'
  <2>1. CanRead(e) => Avail(Peer(e)) >= 1
    BY AvailType DEF CanRead, Empty
  <2> QED
    BY <1>9, <2>1 DEF RxCheck, WakeWriters
<1>10. ASSUME NEW e \in Endpoints, RxCopy(e)
      PROVE  \A x \in Endpoints : QueueInv(x)'
  BY <1>10 DEF RxCopy
<1>11. ASSUME NEW e \in Endpoints, RxAdvance(e)
      PROVE  \A x \in Endpoints : QueueInv(x)'
  <2> DEFINE p == Peer(e)
  <2>1. CASE ~CanRead(e)
    BY <1>11, <2>1 DEF RxAdvance
  <2>2. CASE CanRead(e)
    <3>1. /\ r_count' = [r_count EXCEPT ![e] = Succ32(r_count[e])]
          /\ r_pos' = [r_pos EXCEPT ![e] = NextPos(r_pos[e])]
          /\ rx' = [rx EXCEPT ![e] = "notify"]
          /\ UNCHANGED <<w_count, state, w_pos, irq, tx>>
      BY <1>11, <2>2 DEF RxAdvance
    <3>2. InService(p)
      BY <1>11 DEF RxAdvance
    <3>3. Avail(p) \in 1 .. NFrames
      BY <2>2, <3>2, AvailType DEF CanRead, Empty
    <3>4. Avail(p)' = Avail(p) - 1 /\ Avail(e)' = Avail(e)
      BY <3>1, <3>3, DiffFacts
    <3>5. (InService(e)' <=> InService(e)) /\ (InService(p)' <=> InService(p))
      BY <3>1
    <3>6. state[p] # "sync" => w_pos[p] = SlotAt(r_pos'[e], Avail(p) - 1)
      BY <3>1, <3>2, <3>3, SlotFacts
    <3>7. QueueInv(p)'
      BY <3>1, <3>3, <3>4, <3>5, <3>6, NFramesAssumption
    <3>8. QueueInv(e)'
      BY <3>1, <3>4, <3>5
    <3> QED
      BY ONLY <3>7, <3>8, PeerType
  <2> QED
    BY <2>1, <2>2
<1>12. ASSUME NEW e \in Endpoints, RxNotify(e)
      PROVE  \A x \in Endpoints : QueueInv(x)'
  BY <1>12 DEF RxNotify
<1>13. ASSUME NEW e \in Endpoints, Doorbell(e)
      PROVE  \A x \in Endpoints : QueueInv(x)'
  BY <1>13 DEF Doorbell, Observe, MustClear, MustMove
<1>14. ASSUME NEW e \in Endpoints, Poll(e)
      PROVE  \A x \in Endpoints : QueueInv(x)'
  BY <1>14 DEF Poll, Observe, MustClear, MustMove
<1>15. ASSUME NEW e \in Endpoints, ClearW(e)
      PROVE  \A x \in Endpoints : QueueInv(x)'
  <2> DEFINE p == Peer(e)
  <2>1. /\ w_count' = [w_count EXCEPT ![e] = 0]
        /\ irq' = [irq EXCEPT ![e] = "clear_r"] /\ irq[e] = "clear_w"
        /\ UNCHANGED <<r_count, state, w_pos, r_pos, tx, rx>>
    BY <1>15 DEF ClearW
  <2>2. InService(e) => state[e] = "ack" /\ w_count[e] = 0
    BY <2>1 DEF States
  <2>3. (InService(e)' <=> InService(e)) /\ (InService(p)' <=> InService(p))
    BY <2>1
  <2>4. (InService(e) => Avail(e)' = Avail(e)) /\ Avail(p)' = Avail(p)
    BY <2>1, <2>2
  <2>5. rx[p] \in {"copy", "advance"} => InService(e)
    BY <2>1
  <2>6. QueueInv(e)'
    BY <2>1, <2>3, <2>4, <2>5
  <2>7. QueueInv(p)'
    BY <2>1, <2>3, <2>4
  <2> QED
    BY ONLY <2>6, <2>7, PeerType
<1>16. ASSUME NEW e \in Endpoints, ClearR(e)
      PROVE  \A x \in Endpoints : QueueInv(x)'
  <2> DEFINE p == Peer(e)
  <2>1. /\ r_count' = [r_count EXCEPT ![e] = 0]
        /\ w_pos' = [w_pos EXCEPT ![e] = 0] /\ r_pos' = [r_pos EXCEPT ![e] = 0]
        /\ irq' = [irq EXCEPT ![e] = "move"] /\ irq[e] = "clear_r"
        /\ UNCHANGED <<w_count, state, tx, rx>>
    BY <1>16 DEF ClearR
  <2>2. /\ InService(e) => state[e] = "ack" /\ w_pos[e] = 0
        /\ InService(p) => state[e] = "ack" /\ r_count[e] = 0 /\ r_pos[e] = 0
    BY <2>1 DEF States
  <2>3. (InService(e)' <=> InService(e)) /\ (InService(p)' <=> InService(p))
    BY <2>1
  <2>4. Avail(e)' = Avail(e) /\ (InService(p) => Avail(p)' = Avail(p))
    BY <2>1, <2>2
  <2>5. rx[e] \notin {"copy", "advance"}
    BY <2>1
  <2>6. QueueInv(e)'
    BY <2>1, <2>2, <2>3, <2>4
  <2>7. QueueInv(p)'
    BY <2>1, <2>2, <2>3, <2>4, <2>5
  <2> QED
    BY ONLY <2>6, <2>7, PeerType
<1>17. ASSUME NEW e \in Endpoints, Move(e)
      PROVE  \A x \in Endpoints : QueueInv(x)'
  <2> DEFINE p == Peer(e)
  <2>1. /\ state' = [state EXCEPT ![e] = IF seen[e] = "sync" THEN "ack" ELSE "est"]
        /\ irq' = [irq EXCEPT ![e] = "idle"] /\ irq[e] = "move"
        /\ UNCHANGED <<w_count, r_count, w_pos, r_pos, tx, rx>>
    BY <1>17 DEF Move
  <2>2. w_count[e] = 0 /\ r_count[e] = 0 /\ w_pos[e] = 0 /\ r_pos[e] = 0
    BY <2>1
  <2>3. state[p] = "ack" =>
          w_count[p] = 0 /\ r_count[p] = 0 /\ w_pos[p] = 0 /\ r_pos[p] = 0
    OBVIOUS
  <2>4. Avail(e)' = Avail(e) /\ Avail(p)' = Avail(p)
    BY <2>1
  <2>5. rx[e] \notin {"copy", "advance"} /\ tx[e] \notin {"fill", "advance"}
    BY <2>1
  <2>6. state[p] = "ack" => Avail(e) = 0 /\ Avail(p) = 0
    BY <2>2, <2>3, DiffFacts
  <2>7. InService(e)' => \/ state[p] = "ack"
                         \/ InService(e) /\ state[e] # "sync"
    BY <2>1 DEF States
  <2>8. QueueInv(e)'
    BY <2>1, <2>2, <2>3, <2>4, <2>5, <2>6, <2>7, SlotFacts, NFramesAssumption
  <2>9. InService(p)' => state[p] = "ack" \/ InService(p)
    BY <2>1 DEF States
  <2>10. QueueInv(p)'
    BY <2>1, <2>2, <2>3, <2>4, <2>5, <2>6, <2>9, SlotFacts, NFramesAssumption
  <2> QED
    BY ONLY <2>8, <2>10, PeerType
<1>18. ASSUME NEW e \in Endpoints, Reset(e)
      PROVE  \A x \in Endpoints : QueueInv(x)'
  BY <1>18 DEF Reset
<1>19. ASSUME NEW e \in Endpoints, Reboot(e)
      PROVE  \A x \in Endpoints : QueueInv(x)'
  BY <1>19 DEF Reboot
<1>20. ASSUME NEW e \in Endpoints, TxSignal(e)
      PROVE  \A x \in Endpoints : QueueInv(x)'
  BY <1>20 DEF TxSignal
<1>21. CASE UNCHANGED vars
  BY <1>21 DEF vars
<1> QED
  BY <1>1, <1>2, <1>3, <1>4, <1>5, <1>6, <1>7, <1>8, <1>9, <1>10, <1>11,
     <1>12, <1>13, <1>14, <1>15, <1>16, <1>17, <1>18, <1>19, <1>20,
     <1>21
     DEF Next, Writer, Tasklet, Interrupt

-----------------------------------------------------------------------------
(***************************************************************************)
(* The theorems.                                                           *)
(***************************************************************************)
\* The inductive invariant holds throughout, when neither race may happen.
LEMMA Invariance ==
  ASSUME ~ResetRaces, ~NotifiedRaces
  PROVE  Spec => []IInv
<1>1. Init => IInv
  <2> SUFFICES ASSUME Init PROVE IInv
    OBVIOUS
  <2>1. TypeOK
    BY CounterTypes, MaxResetsAssumption
       DEF Init, TypeOK, States, IrqPc, TxPc, RxPc
  <2>2. \A e \in Endpoints : Local(e) /\ Handshake(e)
    BY PeerType DEF Init, Local, Handshake, Busy, Establishing
  <2>3. \A e \in Endpoints : Avail(e) = 0
    BY <2>1, PeerType, AvailType DEF Init
  <2>4. \A e \in Endpoints : QueueInv(e)
    BY <2>3, PeerType, SlotFacts, NFramesAssumption DEF Init, QueueInv
  <2> QED
    BY <2>1, <2>2, <2>4 DEF IInv
<1>2. IInv /\ [Next]_vars => IInv'
  <2> SUFFICES ASSUME IInv, [Next]_vars PROVE IInv'
    OBVIOUS
  <2>1. TypeOK'
    BY TypeStep DEF IInv
  <2> QED
    BY <2>1, LocalStep, HandshakeStep, QueueStep DEF IInv
<1> QED
  BY <1>1, <1>2, PTL DEF Spec

\* No frame is read while it is written: the check of the counters by
\* ivc_check_read() and ivc_check_write() is enough, for any ring size, any
\* counter width and any sequence of resets and reboots.
THEOREM TornFrameFreedom ==
  ASSUME ~ResetRaces, ~NotifiedRaces
  PROVE  Spec => []NoTornFrame
<1>1. IInv => NoTornFrame
  <2> SUFFICES ASSUME IInv, NEW e \in Endpoints,
                      tx[e] \in {"fill", "advance"},
                      rx[Peer(e)] \in {"copy", "advance"},
                      w_pos[e] = r_pos[Peer(e)]
               PROVE  FALSE
    BY DEF NoTornFrame
  <2>1. InService(e) /\ state[e] # "sync"
    BY PeerType DEF IInv, Local, Busy, InService
  <2>2. Avail(e) \in 1 .. NFrames - 1
    BY <2>1, AvailType, PeerType, NFramesAssumption DEF IInv, QueueInv
  <2>3. r_pos[Peer(e)] \in Slot /\ w_pos[e] = SlotAt(r_pos[Peer(e)], Avail(e))
    BY <2>1, PeerType DEF IInv, TypeOK, QueueInv
  <2> QED
    BY <2>2, <2>3, SlotFacts
<1> QED
  BY <1>1, Invariance, PTL

\* A queue in service is never over-full and the private positions agree with
\* the shared counters, through every wrap-around and every handshake.
THEOREM QueueConsistency ==
  ASSUME ~ResetRaces, ~NotifiedRaces
  PROVE  Spec => []QueueOK
<1>1. IInv => QueueOK
  BY DEF IInv, QueueInv, QueueOK
<1> QED
  BY <1>1, Invariance, PTL

-----------------------------------------------------------------------------
(***************************************************************************)
(* The handshake of the code as it is, races included: HSpec, with no      *)
(* assumption on ResetRaces and NotifiedRaces.                             *)
(***************************************************************************)

\* What an endpoint's own threads ensure, whatever interrupts them.
OwnRaces(e) ==
  /\ irq[e] = "idle" => seen[e] = "est"
  /\ irq[e] \in {"clear_w", "clear_r"} => seen[e] # "est"
  /\ irq[e] # "idle" /\ state[e] = "est" => seen[e] = "sync"
  /\ irq[e] \in {"clear_w", "clear_r"} /\ state[e] = "ack" => seen[e] = "sync"
  /\ Busy(e) => state[e] # "sync"
  /\ Busy(e) /\ (state[e] = "ack" \/ irq[e] # "idle") => overlap[e]

\* What is cleared when no frame operation ran into the clearing.
Cleared(e) ==
  ~overlap[e] =>
    /\ irq[e] = "clear_r" => w_count[e] = 0
    /\ irq[e] = "move" \/ state[e] = "ack" =>
          w_count[e] = 0 /\ r_count[e] = 0 /\ w_pos[e] = 0 /\ r_pos[e] = 0

\* What e may conclude of its peer unless it established blindly.
Sighted(e) == LET p == Peer(e) IN
  state[e] = "est" /\ ~blind[e] =>
    /\ ~(state[p] = "sync" /\ irq[p] # "idle")
    /\ irq[e] # "idle" => state[p] = "sync"

RaceInv == /\ TypeOK
           /\ \A e \in Endpoints : OwnRaces(e) /\ Cleared(e) /\ Sighted(e)

\* What a step does to the history variables of an endpoint.
LEMMA HistoryNext ==
  ASSUME HNext, NEW x \in Endpoints
  PROVE  /\ overlap[x] => overlap'[x] \/ (BeginsClear(x) /\ state[x] # "ack")
         /\ ~overlap'[x] => ~overlap[x] \/ (BeginsClear(x) /\ state[x] # "ack" /\ ~Busy(x))
         /\ BeginsClear(x) /\ Busy(x) => overlap'[x]
         /\ ~BeginsClear(x) /\ OpensInside(x) => overlap'[x]
         /\ Establishes(x) /\ state[Peer(x)] = "sync" => blind'[x]
         /\ state[x] = "est" /\ state'[x] = "est" => (blind'[x] <=> blind[x])
BY DEF HNext, Establishes

\* A step outside notified() that starts an operation only when established.
LEMMA OwnRacesFrame ==
  ASSUME RaceInv, HNext, NEW x \in Endpoints,
         irq'[x] = irq[x], seen'[x] = seen[x], state'[x] = state[x],
         Busy(x)' => Busy(x) \/ state[x] = "est"
  PROVE  OwnRaces(x)'
<1>1. ~BeginsClear(x)
  BY DEF BeginsClear
<1> QED
  BY <1>1, HistoryNext DEF RaceInv, OwnRaces, OpensInside

\* An endpoint's own bookkeeping: an operation that meets notified() is recorded.
LEMMA OwnRacesStep ==
  ASSUME RaceInv, TypeOK', HNext, NEW x \in Endpoints
  PROVE  OwnRaces(x)'
<1> USE PeerType DEF TypeOK, shared, pos, intr, Ring
<1>t. TypeOK /\ OwnRaces(x)
  BY DEF RaceInv
<1>1. ASSUME NEW e \in Endpoints, TxCall(e)
      PROVE  OwnRaces(x)'
  BY <1>1, <1>t, OwnRacesFrame DEF Busy, TxCall, WaitWritable
<1>2. ASSUME NEW e \in Endpoints, TxRetry(e)
      PROVE  OwnRaces(x)'
  BY <1>2, <1>t, OwnRacesFrame DEF Busy, TxRetry, WaitWritable
<1>3. ASSUME NEW e \in Endpoints, TxSignal(e)
      PROVE  OwnRaces(x)'
  BY <1>3, <1>t, OwnRacesFrame DEF Busy, TxSignal
<1>4. ASSUME NEW e \in Endpoints, TxGet(e)
      PROVE  OwnRaces(x)'
  BY <1>4, <1>t, OwnRacesFrame DEF Busy, TxGet, CanWrite
<1>5. ASSUME NEW e \in Endpoints, NEW d \in Data, TxFill(e, d)
      PROVE  OwnRaces(x)'
  BY <1>5, <1>t, OwnRacesFrame DEF Busy, TxFill
<1>6. ASSUME NEW e \in Endpoints, TxFault(e)
      PROVE  OwnRaces(x)'
  BY <1>6, <1>t, OwnRacesFrame DEF Busy, TxFault
<1>7. ASSUME NEW e \in Endpoints, TxAdvance(e)
      PROVE  OwnRaces(x)'
  BY <1>7, <1>t, OwnRacesFrame DEF Busy, TxAdvance
<1>8. ASSUME NEW e \in Endpoints, TxNotify(e)
      PROVE  OwnRaces(x)'
  BY <1>8, <1>t, OwnRacesFrame DEF Busy, TxNotify
<1>9. ASSUME NEW e \in Endpoints, RxStart(e)
      PROVE  OwnRaces(x)'
  BY <1>9, <1>t, OwnRacesFrame DEF Busy, RxStart
<1>10. ASSUME NEW e \in Endpoints, RxCheck(e)
      PROVE  OwnRaces(x)'
  <2>1. UNCHANGED <<irq, seen, state>> /\ rx[e] = "check"
    BY <1>10 DEF RxCheck
  <2>2. /\ x # e => rx'[x] = rx[x]
        /\ rx'[e] \in {"copy", "advance"} => state[e] = "est"
    BY <1>10, <1>t DEF RxCheck, CanRead
  <2>3. tx'[x] \in {"fill", "advance"} => tx'[x] = tx[x]
    BY <1>10, <1>t DEF RxCheck, WakeWriters
  <2>4. Busy(x)' => Busy(x) \/ state[x] = "est"
    BY <2>2, <2>3 DEF Busy
  <2> QED
    BY <2>1, <2>4, OwnRacesFrame
<1>11. ASSUME NEW e \in Endpoints, RxCopy(e)
      PROVE  OwnRaces(x)'
  BY <1>11, <1>t, OwnRacesFrame DEF Busy, RxCopy
<1>12. ASSUME NEW e \in Endpoints, RxAdvance(e)
      PROVE  OwnRaces(x)'
  BY <1>12, <1>t, OwnRacesFrame DEF Busy, RxAdvance
<1>13. ASSUME NEW e \in Endpoints, RxNotify(e)
      PROVE  OwnRaces(x)'
  BY <1>13, <1>t, OwnRacesFrame DEF Busy, RxNotify
<1>14. ASSUME NEW e \in Endpoints, Doorbell(e)
      PROVE  OwnRaces(x)'
  <2>1. CASE x # e
    BY <1>14, <1>t, <2>1, OwnRacesFrame DEF Busy, Doorbell, Observe
  <2>2. CASE x = e /\ MustClear(e)
    <3>1. /\ irq[x] = "idle" /\ irq'[x] = "clear_w" /\ UNCHANGED <<state, tx, rx>>
          /\ seen'[x] = state[Peer(x)]
      BY <1>14, <1>t, <2>2 DEF Doorbell, Observe
    <3>2. BeginsClear(x) /\ (Busy(x)' <=> Busy(x))
      BY <3>1 DEF BeginsClear, Busy
    <3>3. (state[x] = "est" => state[Peer(x)] = "sync") /\ state[Peer(x)] # "est"
          /\ (state[x] = "ack" => state[Peer(x)] = "sync")
      BY <2>2 DEF MustClear
    <3> QED
      BY <1>t, <3>1, <3>2, <3>3, HistoryNext DEF OwnRaces
  <2>3. CASE x = e /\ ~MustClear(e)
    <3>1. /\ irq[x] = "idle" /\ irq'[x] = (IF MustMove(e) THEN "move" ELSE "idle")
          /\ UNCHANGED <<state, tx, rx>>
          /\ seen'[x] = (IF MustMove(e) THEN state[Peer(x)] ELSE "est")
      BY <1>14, <1>t, <2>3 DEF Doorbell, Observe
    <3>2. ~BeginsClear(x) /\ ~OpensInside(x) /\ (Busy(x)' <=> Busy(x))
      BY <3>1 DEF BeginsClear, OpensInside, Busy
    <3>3. MustMove(e) => state[x] = "ack"
      BY <2>3 DEF MustMove
    <3> QED
      BY <1>t, <3>1, <3>2, <3>3, HistoryNext DEF OwnRaces
  <2> QED
    BY <2>1, <2>2, <2>3
<1>15. ASSUME NEW e \in Endpoints, Poll(e)
      PROVE  OwnRaces(x)'
  <2>1. CASE x # e
    BY <1>15, <1>t, <2>1, OwnRacesFrame DEF Busy, Poll, Observe
  <2>2. CASE x = e /\ MustClear(e)
    <3>1. /\ irq[x] = "idle" /\ irq'[x] = "clear_w" /\ UNCHANGED <<state, tx, rx>>
          /\ seen'[x] = state[Peer(x)]
      BY <1>15, <1>t, <2>2 DEF Poll, Observe
    <3>2. BeginsClear(x) /\ (Busy(x)' <=> Busy(x))
      BY <3>1 DEF BeginsClear, Busy
    <3>3. (state[x] = "est" => state[Peer(x)] = "sync") /\ state[Peer(x)] # "est"
          /\ (state[x] = "ack" => state[Peer(x)] = "sync")
      BY <2>2 DEF MustClear
    <3> QED
      BY <1>t, <3>1, <3>2, <3>3, HistoryNext DEF OwnRaces
  <2>3. CASE x = e /\ ~MustClear(e)
    <3>1. /\ irq[x] = "idle" /\ irq'[x] = (IF MustMove(e) THEN "move" ELSE "idle")
          /\ UNCHANGED <<state, tx, rx>>
          /\ seen'[x] = (IF MustMove(e) THEN state[Peer(x)] ELSE "est")
      BY <1>15, <1>t, <2>3 DEF Poll, Observe
    <3>2. ~BeginsClear(x) /\ ~OpensInside(x) /\ (Busy(x)' <=> Busy(x))
      BY <3>1 DEF BeginsClear, OpensInside, Busy
    <3>3. MustMove(e) => state[x] = "ack"
      BY <2>3 DEF MustMove
    <3> QED
      BY <1>t, <3>1, <3>2, <3>3, HistoryNext DEF OwnRaces
  <2> QED
    BY <2>1, <2>2, <2>3
<1>16. ASSUME NEW e \in Endpoints, ClearW(e)
      PROVE  OwnRaces(x)'
  <2>1. CASE x # e
    BY <1>16, <1>t, <2>1, OwnRacesFrame DEF Busy, ClearW
  <2>2. CASE x = e
    <3>1. /\ irq[x] = "clear_w" /\ irq'[x] = "clear_r" /\ UNCHANGED <<state, seen, tx, rx>>
      BY <1>16, <1>t, <2>2 DEF ClearW
    <3>2. ~BeginsClear(x) /\ (Busy(x)' <=> Busy(x))
      BY <3>1 DEF BeginsClear, Busy
    <3> QED
      BY <1>t, <3>1, <3>2, HistoryNext DEF OwnRaces
  <2> QED
    BY <2>1, <2>2
<1>17. ASSUME NEW e \in Endpoints, ClearR(e)
      PROVE  OwnRaces(x)'
  <2>1. CASE x # e
    BY <1>17, <1>t, <2>1, OwnRacesFrame DEF Busy, ClearR
  <2>2. CASE x = e
    <3>1. /\ irq[x] = "clear_r" /\ irq'[x] = "move" /\ UNCHANGED <<state, seen, tx, rx>>
      BY <1>17, <1>t, <2>2 DEF ClearR
    <3>2. ~BeginsClear(x) /\ (Busy(x)' <=> Busy(x))
      BY <3>1 DEF BeginsClear, Busy
    <3> QED
      BY <1>t, <3>1, <3>2, HistoryNext DEF OwnRaces
  <2> QED
    BY <2>1, <2>2
<1>18. ASSUME NEW e \in Endpoints, Move(e)
      PROVE  OwnRaces(x)'
  <2>1. CASE x # e
    BY <1>18, <1>t, <2>1, OwnRacesFrame DEF Busy, Move
  <2>2. CASE x = e
    <3>1. /\ irq[x] = "move" /\ irq'[x] = "idle" /\ UNCHANGED <<tx, rx>>
          /\ seen'[x] = "est" /\ state'[x] \in {"ack", "est"}
      BY <1>18, <1>t, <2>2 DEF Move
    <3>2. ~BeginsClear(x) /\ (Busy(x)' <=> Busy(x))
      BY <3>1 DEF BeginsClear, Busy
    <3> QED
      BY <1>t, <3>1, <3>2, HistoryNext DEF OwnRaces
  <2> QED
    BY <2>1, <2>2
<1>19. ASSUME NEW e \in Endpoints, Reset(e)
      PROVE  OwnRaces(x)'
  <2>1. CASE x # e
    BY <1>19, <1>t, <2>1, OwnRacesFrame DEF Busy, Reset
  <2>2. CASE x = e
    BY <1>19, <1>t, <2>2 DEF Reset, OwnRaces, Busy
  <2> QED
    BY <2>1, <2>2
<1>20. ASSUME NEW e \in Endpoints, Reboot(e)
      PROVE  OwnRaces(x)'
  <2>1. CASE x # e
    BY <1>20, <1>t, <2>1, OwnRacesFrame DEF Busy, Reboot
  <2>2. CASE x = e
    BY <1>20, <1>t, <2>2 DEF Reboot, OwnRaces, Busy
  <2> QED
    BY <2>1, <2>2
<1> QED
  BY <1>1, <1>2, <1>3, <1>4, <1>5, <1>6, <1>7, <1>8, <1>9, <1>10, <1>11, <1>12, <1>13, <1>14, <1>15, <1>16, <1>17, <1>18, <1>19, <1>20
  DEF HNext, Next, Writer, Tasklet, Interrupt

\* A step that leaves notified() and the counters of an endpoint alone.
LEMMA ClearedFrame ==
  ASSUME RaceInv, HNext, NEW x \in Endpoints,
         irq'[x] = irq[x], state'[x] = state[x],
         w_count'[x] = w_count[x], r_count'[x] = r_count[x],
         w_pos'[x] = w_pos[x], r_pos'[x] = r_pos[x]
  PROVE  Cleared(x)'
<1>1. ~BeginsClear(x)
  BY DEF BeginsClear
<1> QED
  BY <1>1, HistoryNext DEF RaceInv, Cleared

\* Only an operation that meets notified() undoes the clearing.
LEMMA ClearedStep ==
  ASSUME RaceInv, TypeOK', HNext, NEW x \in Endpoints
  PROVE  Cleared(x)'
<1> USE PeerType DEF TypeOK, shared, pos, intr, Ring
<1>t. TypeOK /\ OwnRaces(x) /\ Cleared(x)
  BY DEF RaceInv
<1>1. ASSUME NEW e \in Endpoints, TxCall(e)
      PROVE  Cleared(x)'
  BY <1>1, <1>t, ClearedFrame DEF TxCall, WaitWritable
<1>2. ASSUME NEW e \in Endpoints, TxRetry(e)
      PROVE  Cleared(x)'
  BY <1>2, <1>t, ClearedFrame DEF TxRetry, WaitWritable
<1>3. ASSUME NEW e \in Endpoints, TxSignal(e)
      PROVE  Cleared(x)'
  BY <1>3, <1>t, ClearedFrame DEF TxSignal
<1>4. ASSUME NEW e \in Endpoints, TxGet(e)
      PROVE  Cleared(x)'
  BY <1>4, <1>t, ClearedFrame DEF TxGet
<1>5. ASSUME NEW e \in Endpoints, NEW d \in Data, TxFill(e, d)
      PROVE  Cleared(x)'
  BY <1>5, <1>t, ClearedFrame DEF TxFill
<1>6. ASSUME NEW e \in Endpoints, TxFault(e)
      PROVE  Cleared(x)'
  BY <1>6, <1>t, ClearedFrame DEF TxFault
<1>7. ASSUME NEW e \in Endpoints, TxNotify(e)
      PROVE  Cleared(x)'
  BY <1>7, <1>t, ClearedFrame DEF TxNotify
<1>8. ASSUME NEW e \in Endpoints, RxStart(e)
      PROVE  Cleared(x)'
  BY <1>8, <1>t, ClearedFrame DEF RxStart
<1>9. ASSUME NEW e \in Endpoints, RxCheck(e)
      PROVE  Cleared(x)'
  BY <1>9, <1>t, ClearedFrame DEF RxCheck
<1>10. ASSUME NEW e \in Endpoints, RxCopy(e)
      PROVE  Cleared(x)'
  BY <1>10, <1>t, ClearedFrame DEF RxCopy
<1>11. ASSUME NEW e \in Endpoints, RxNotify(e)
      PROVE  Cleared(x)'
  BY <1>11, <1>t, ClearedFrame DEF RxNotify
<1>12. ASSUME NEW e \in Endpoints, TxAdvance(e)
      PROVE  Cleared(x)'
  <2>1. CASE x # e
    BY <1>12, <1>t, <2>1, ClearedFrame DEF TxAdvance
  <2>2. CASE x = e
    <3>1. Busy(x) /\ UNCHANGED <<irq, state>>
      BY <1>12, <2>2 DEF TxAdvance, Busy
    <3>2. ~BeginsClear(x)
      BY <3>1 DEF BeginsClear
    <3> QED
      BY <1>t, <3>1, <3>2, HistoryNext DEF OwnRaces, Cleared
  <2> QED
    BY <2>1, <2>2
<1>13. ASSUME NEW e \in Endpoints, RxAdvance(e)
      PROVE  Cleared(x)'
  <2>1. CASE x # e
    BY <1>13, <1>t, <2>1, ClearedFrame DEF RxAdvance
  <2>2. CASE x = e
    <3>1. Busy(x) /\ UNCHANGED <<irq, state>>
      BY <1>13, <2>2 DEF RxAdvance, Busy
    <3>2. ~BeginsClear(x)
      BY <3>1 DEF BeginsClear
    <3> QED
      BY <1>t, <3>1, <3>2, HistoryNext DEF OwnRaces, Cleared
  <2> QED
    BY <2>1, <2>2
<1>14. ASSUME NEW e \in Endpoints, Doorbell(e)
      PROVE  Cleared(x)'
  <2>1. CASE x # e
    BY <1>14, <1>t, <2>1, ClearedFrame DEF Doorbell, Observe
  <2>2. CASE x = e
    <3>1. /\ UNCHANGED <<w_count, r_count, w_pos, r_pos, state>> /\ irq[x] = "idle"
          /\ irq'[x] \in {"clear_w", "move", "idle"}
          /\ irq'[x] = "move" => state[x] = "ack"
      BY <1>14, <1>t, <2>2 DEF Doorbell, Observe, MustMove
    <3>2. state[x] = "ack" /\ ~overlap'[x] => ~overlap[x]
      BY HistoryNext
    <3> QED
      BY <1>t, <3>1, <3>2 DEF Cleared
  <2> QED
    BY <2>1, <2>2
<1>15. ASSUME NEW e \in Endpoints, Poll(e)
      PROVE  Cleared(x)'
  <2>1. CASE x # e
    BY <1>15, <1>t, <2>1, ClearedFrame DEF Poll, Observe
  <2>2. CASE x = e
    <3>1. /\ UNCHANGED <<w_count, r_count, w_pos, r_pos, state>> /\ irq[x] = "idle"
          /\ irq'[x] \in {"clear_w", "move", "idle"}
          /\ irq'[x] = "move" => state[x] = "ack"
      BY <1>15, <1>t, <2>2 DEF Poll, Observe, MustMove
    <3>2. state[x] = "ack" /\ ~overlap'[x] => ~overlap[x]
      BY HistoryNext
    <3> QED
      BY <1>t, <3>1, <3>2 DEF Cleared
  <2> QED
    BY <2>1, <2>2
<1>16. ASSUME NEW e \in Endpoints, ClearW(e)
      PROVE  Cleared(x)'
  <2>1. CASE x # e
    BY <1>16, <1>t, <2>1, ClearedFrame DEF ClearW
  <2>2. CASE x = e
    <3>1. ~overlap'[x] => ~overlap[x]
      BY <1>16, <2>2, HistoryNext DEF ClearW, BeginsClear
    <3> QED
      BY <1>16, <1>t, <2>2, <3>1 DEF ClearW, Cleared
  <2> QED
    BY <2>1, <2>2
<1>17. ASSUME NEW e \in Endpoints, ClearR(e)
      PROVE  Cleared(x)'
  <2>1. CASE x # e
    BY <1>17, <1>t, <2>1, ClearedFrame DEF ClearR
  <2>2. CASE x = e
    <3>1. ~overlap'[x] => ~overlap[x]
      BY <1>17, <2>2, HistoryNext DEF ClearR, BeginsClear
    <3> QED
      BY <1>17, <1>t, <2>2, <3>1 DEF ClearR, Cleared
  <2> QED
    BY <2>1, <2>2
<1>18. ASSUME NEW e \in Endpoints, Move(e)
      PROVE  Cleared(x)'
  <2>1. CASE x # e
    BY <1>18, <1>t, <2>1, ClearedFrame DEF Move
  <2>2. CASE x = e
    <3>1. ~overlap'[x] => ~overlap[x]
      BY <1>18, <2>2, HistoryNext DEF Move, BeginsClear
    <3> QED
      BY <1>18, <1>t, <2>2, <3>1 DEF Move, Cleared
  <2> QED
    BY <2>1, <2>2
<1>19. ASSUME NEW e \in Endpoints, Reset(e)
      PROVE  Cleared(x)'
  <2>1. CASE x # e
    BY <1>19, <1>t, <2>1, ClearedFrame DEF Reset
  <2>2. CASE x = e
    <3>1. irq'[x] = "idle" /\ state'[x] = "sync"
      BY <1>19, <1>t, <2>2 DEF Reset
    <3> QED
      BY <3>1 DEF Cleared
  <2> QED
    BY <2>1, <2>2
<1>20. ASSUME NEW e \in Endpoints, Reboot(e)
      PROVE  Cleared(x)'
  <2>1. CASE x # e
    BY <1>20, <1>t, <2>1, ClearedFrame DEF Reboot
  <2>2. CASE x = e
    <3>1. irq'[x] = "idle" /\ state'[x] = "sync"
      BY <1>20, <1>t, <2>2 DEF Reboot
    <3> QED
      BY <3>1 DEF Cleared
  <2> QED
    BY <2>1, <2>2
<1> QED
  BY <1>1, <1>2, <1>3, <1>4, <1>5, <1>6, <1>7, <1>8, <1>9, <1>10, <1>11, <1>12, <1>13, <1>14, <1>15, <1>16, <1>17, <1>18, <1>19, <1>20
  DEF HNext, Next, Writer, Tasklet, Interrupt

\* A step that leaves the handshake of both ends alone.
LEMMA SightedFrame ==
  ASSUME RaceInv, HNext, NEW x \in Endpoints,
         irq' = irq, state' = state
  PROVE  Sighted(x)'
BY HistoryNext DEF RaceInv, Sighted

\* Only a reset overtaken by a move to EST leaves the two ends in disagreement.
LEMMA SightedStep ==
  ASSUME RaceInv, TypeOK', HNext, NEW x \in Endpoints
  PROVE  Sighted(x)'
<1> USE PeerType DEF TypeOK, shared, pos, intr, Ring
<1>t. TypeOK /\ OwnRaces(x) /\ Sighted(x)
  BY DEF RaceInv
<1>b. state[x] = "est" /\ state'[x] = "est" => (blind'[x] <=> blind[x])
  BY HistoryNext
<1>1. ASSUME NEW e \in Endpoints, TxCall(e)
      PROVE  Sighted(x)'
  BY <1>1, SightedFrame DEF TxCall, WaitWritable
<1>2. ASSUME NEW e \in Endpoints, TxRetry(e)
      PROVE  Sighted(x)'
  BY <1>2, SightedFrame DEF TxRetry, WaitWritable
<1>3. ASSUME NEW e \in Endpoints, TxSignal(e)
      PROVE  Sighted(x)'
  BY <1>3, SightedFrame DEF TxSignal
<1>4. ASSUME NEW e \in Endpoints, TxGet(e)
      PROVE  Sighted(x)'
  BY <1>4, SightedFrame DEF TxGet
<1>5. ASSUME NEW e \in Endpoints, NEW d \in Data, TxFill(e, d)
      PROVE  Sighted(x)'
  BY <1>5, SightedFrame DEF TxFill
<1>6. ASSUME NEW e \in Endpoints, TxFault(e)
      PROVE  Sighted(x)'
  BY <1>6, SightedFrame DEF TxFault
<1>7. ASSUME NEW e \in Endpoints, TxNotify(e)
      PROVE  Sighted(x)'
  BY <1>7, SightedFrame DEF TxNotify
<1>8. ASSUME NEW e \in Endpoints, RxStart(e)
      PROVE  Sighted(x)'
  BY <1>8, SightedFrame DEF RxStart
<1>9. ASSUME NEW e \in Endpoints, RxCheck(e)
      PROVE  Sighted(x)'
  BY <1>9, SightedFrame DEF RxCheck
<1>10. ASSUME NEW e \in Endpoints, RxCopy(e)
      PROVE  Sighted(x)'
  BY <1>10, SightedFrame DEF RxCopy
<1>11. ASSUME NEW e \in Endpoints, RxNotify(e)
      PROVE  Sighted(x)'
  BY <1>11, SightedFrame DEF RxNotify
<1>12. ASSUME NEW e \in Endpoints, TxAdvance(e)
      PROVE  Sighted(x)'
  BY <1>12, SightedFrame DEF TxAdvance
<1>13. ASSUME NEW e \in Endpoints, RxAdvance(e)
      PROVE  Sighted(x)'
  BY <1>13, SightedFrame DEF RxAdvance
<1>14. ASSUME NEW e \in Endpoints, Doorbell(e)
      PROVE  Sighted(x)'
  <2>1. /\ UNCHANGED state
        /\ \A y \in Endpoints : y # e => irq'[y] = irq[y]
        /\ irq'[e] # "idle" => MustClear(e) \/ state[e] = "ack"
    BY <1>14, <1>t DEF Doorbell, Observe, MustMove
  <2> QED
    BY <1>t, <1>b, <2>1 DEF MustClear, Sighted
<1>15. ASSUME NEW e \in Endpoints, Poll(e)
      PROVE  Sighted(x)'
  <2>1. /\ UNCHANGED state
        /\ \A y \in Endpoints : y # e => irq'[y] = irq[y]
        /\ irq'[e] # "idle" => MustClear(e) \/ state[e] = "ack"
    BY <1>15, <1>t DEF Poll, Observe, MustMove
  <2> QED
    BY <1>t, <1>b, <2>1 DEF MustClear, Sighted
<1>16. ASSUME NEW e \in Endpoints, ClearW(e)
      PROVE  Sighted(x)'
  <2>1. /\ UNCHANGED state
        /\ \A y \in Endpoints : irq'[y] # "idle" => irq[y] # "idle"
    BY <1>16, <1>t DEF ClearW
  <2> QED
    BY <1>t, <1>b, <2>1 DEF Sighted
<1>17. ASSUME NEW e \in Endpoints, ClearR(e)
      PROVE  Sighted(x)'
  <2>1. /\ UNCHANGED state
        /\ \A y \in Endpoints : irq'[y] # "idle" => irq[y] # "idle"
    BY <1>17, <1>t DEF ClearR
  <2> QED
    BY <1>t, <1>b, <2>1 DEF Sighted
<1>18. ASSUME NEW e \in Endpoints, Move(e)
      PROVE  Sighted(x)'
  <2>1. /\ irq[e] = "move" /\ irq'[e] = "idle" /\ state'[e] # "sync"
        /\ \A y \in Endpoints : y # e => irq'[y] = irq[y] /\ state'[y] = state[y]
        /\ state'[e] = "est" => seen[e] # "sync"
    BY <1>18, <1>t DEF Move
  <2>2. CASE x = e
    <3>1. state'[x] = "est" => Establishes(x)
      BY <1>t, <2>1, <2>2 DEF OwnRaces, Establishes
    <3> QED
      BY <2>1, <2>2, <3>1, HistoryNext DEF Sighted
  <2>3. CASE x # e
    BY <1>t, <1>b, <2>1, <2>3 DEF Sighted
  <2> QED
    BY <2>2, <2>3
<1>19. ASSUME NEW e \in Endpoints, Reset(e)
      PROVE  Sighted(x)'
  <2>1. /\ irq'[e] = "idle" /\ state'[e] = "sync"
        /\ \A y \in Endpoints : y # e => irq'[y] = irq[y] /\ state'[y] = state[y]
    BY <1>19, <1>t DEF Reset
  <2> QED
    BY <1>t, <1>b, <2>1 DEF Sighted
<1>20. ASSUME NEW e \in Endpoints, Reboot(e)
      PROVE  Sighted(x)'
  <2>1. /\ irq'[e] = "idle" /\ state'[e] = "sync"
        /\ \A y \in Endpoints : y # e => irq'[y] = irq[y] /\ state'[y] = state[y]
    BY <1>20, <1>t DEF Reboot
  <2> QED
    BY <1>t, <1>b, <2>1 DEF Sighted
<1> QED
  BY <1>1, <1>2, <1>3, <1>4, <1>5, <1>6, <1>7, <1>8, <1>9, <1>10, <1>11, <1>12, <1>13, <1>14, <1>15, <1>16, <1>17, <1>18, <1>19, <1>20
  DEF HNext, Next, Writer, Tasklet, Interrupt

LEMMA RaceInvariance == HSpec => []RaceInv
<1>1. HInit => RaceInv
  <2> SUFFICES ASSUME HInit PROVE RaceInv
    OBVIOUS
  <2>1. TypeOK
    BY CounterTypes, MaxResetsAssumption
       DEF HInit, Init, TypeOK, States, IrqPc, TxPc, RxPc
  <2>2. \A e \in Endpoints : OwnRaces(e) /\ Cleared(e) /\ Sighted(e)
    BY PeerType DEF HInit, Init, OwnRaces, Cleared, Sighted, Busy
  <2> QED
    BY <2>1, <2>2 DEF RaceInv
<1>2. RaceInv /\ [HNext]_<<vars, history>> => RaceInv'
  <2> SUFFICES ASSUME RaceInv, [HNext]_<<vars, history>> PROVE RaceInv'
    OBVIOUS
  <2>1. CASE HNext
    <3>1. TypeOK'
      BY <2>1, TypeStep DEF RaceInv, HNext
    <3> QED
      BY <2>1, <3>1, OwnRacesStep, ClearedStep, SightedStep DEF RaceInv
  <2>2. CASE UNCHANGED <<vars, history>>
    BY <2>2 DEF RaceInv, TypeOK, OwnRaces, Cleared, Sighted, Busy, vars, history
  <2> QED
    BY <2>1, <2>2
<1> QED
  BY <1>1, <1>2, PTL DEF HSpec

\* tegra_ivc_channel_notified() takes back only counters that the other side
\* does not use, whatever races with it, except right after a reset that was
\* overtaken by a move to EST, or a frame operation that ran into a clearing.
THEOREM ClearingIsSafe == HSpec => []ClearedUnlessRaced
<1>1. RaceInv => ClearedUnlessRaced
  BY PeerType DEF RaceInv, TypeOK, States, OwnRaces, Cleared, Sighted, Clears,
                  ClearedUnlessRaced
<1> QED
  BY <1>1, RaceInvariance, PTL

\* An endpoint in ACK offers cleared counters to its peer unless its own
\* writer or reader ran into the clearing: no reset, reboot or doorbell, in
\* whatever order, makes it offer a counter in use.
THEOREM AckOffersClearedCounters == HSpec => []AckUnlessOverlapped
<1>1. RaceInv => AckUnlessOverlapped
  BY DEF RaceInv, Cleared, AckUnlessOverlapped
<1> QED
  BY <1>1, RaceInvariance, PTL

-----------------------------------------------------------------------------
(***************************************************************************)
(* Doorbells: who will act, when something is left to do.                  *)
(***************************************************************************)
\* Somebody acts on a state other than EST: a reset is observed by the peer, or
\* both ends are in the handshake and the end itself is about to look.
Acting(e) == bell[e] \/ irq[e] # "idle"
Shaking(e) == LET p == Peer(e) IN
  /\ state[e] = "sync" => Acting(p) \/ (state[p] # "est" /\ Acting(e))
  /\ state[e] = "ack" /\ state[p] # "sync" => Acting(e) \/ (state[p] = "ack" /\ Acting(p))
  /\ irq[e] # "idle" /\ seen[e] = "sync" /\ state[p] = "est" => bell[e]

\* The tasklet of e will look at the queue.
Looking(e) == sched[e] \/ rx[e] # "idle" \/ bell[e]

\* Frames that were published are looked for.
Delivering(e) == LET p == Peer(e) IN
  state[p] = "est" /\ irq[p] = "idle" /\ Avail(e) >= 1 =>
     Looking(p) \/ (tx[e] = "notify" /\ Avail(e) = 1)

\* A writer that waits on an established channel is woken.
Waking(e) == LET p == Peer(e) IN
  tx[e] = "wait" /\ LinkUp =>
     Looking(e) \/ Avail(e) >= NFrames \/ (rx[p] = "notify" /\ Avail(e) = NFrames - 1)

\* Frames ready to be published are complete, and a frame that was read is the first.
Whole(e) == tx[e] = "advance" => frames[e][w_pos[e]] \in Data
First(e) == rx[e] = "advance" => buf[e] = frames[Peer(e)][r_pos[e]]

-----------------------------------------------------------------------------
\* The handshake does not come to rest before both ends are established.
LEMMA ShakingStep ==
  ASSUME ~ResetRaces, ~NotifiedRaces, IInv, \A x \in Endpoints : Shaking(x), TypeOK', [Next]_vars
  PROVE  \A x \in Endpoints : Shaking(x)'
<1> USE PeerType, RacesAssumption
    DEF IInv, TypeOK, shared, pos, intr, Ring, Local, Handshake, Establishing, States, Shaking, Acting
<1>1. ASSUME NEW e \in Endpoints, TxCall(e)
      PROVE  \A x \in Endpoints : Shaking(x)'
  BY <1>1 DEF TxCall, WaitWritable
<1>2. ASSUME NEW e \in Endpoints, TxRetry(e)
      PROVE  \A x \in Endpoints : Shaking(x)'
  BY <1>2 DEF TxRetry, WaitWritable
<1>3. ASSUME NEW e \in Endpoints, TxGet(e)
      PROVE  \A x \in Endpoints : Shaking(x)'
  BY <1>3 DEF TxGet
<1>4. ASSUME NEW e \in Endpoints, NEW d \in Data, TxFill(e, d)
      PROVE  \A x \in Endpoints : Shaking(x)'
  BY <1>4 DEF TxFill
<1>5. ASSUME NEW e \in Endpoints, TxFault(e)
      PROVE  \A x \in Endpoints : Shaking(x)'
  BY <1>5 DEF TxFault
<1>6. ASSUME NEW e \in Endpoints, TxAdvance(e)
      PROVE  \A x \in Endpoints : Shaking(x)'
  BY <1>6 DEF TxAdvance
<1>7. ASSUME NEW e \in Endpoints, TxNotify(e)
      PROVE  \A x \in Endpoints : Shaking(x)'
  BY <1>7 DEF TxNotify, RingOnPublish
<1>8. ASSUME NEW e \in Endpoints, RxStart(e)
      PROVE  \A x \in Endpoints : Shaking(x)'
  BY <1>8 DEF RxStart
<1>9. ASSUME NEW e \in Endpoints, RxCheck(e)
      PROVE  \A x \in Endpoints : Shaking(x)'
  BY <1>9 DEF RxCheck, WakeWriters
<1>10. ASSUME NEW e \in Endpoints, RxCopy(e)
      PROVE  \A x \in Endpoints : Shaking(x)'
  BY <1>10 DEF RxCopy
<1>11. ASSUME NEW e \in Endpoints, RxAdvance(e)
      PROVE  \A x \in Endpoints : Shaking(x)'
  BY <1>11 DEF RxAdvance
<1>12. ASSUME NEW e \in Endpoints, RxNotify(e)
      PROVE  \A x \in Endpoints : Shaking(x)'
  BY <1>12 DEF RxNotify, RingOnRelease
<1>13. ASSUME NEW e \in Endpoints, Doorbell(e)
      PROVE  \A x \in Endpoints : Shaking(x)'
  BY <1>13 DEF Doorbell, Observe, MustClear, MustMove
<1>14. ASSUME NEW e \in Endpoints, Poll(e)
      PROVE  \A x \in Endpoints : Shaking(x)'
  BY <1>14 DEF Poll, Observe, MustClear, MustMove
<1>15. ASSUME NEW e \in Endpoints, ClearW(e)
      PROVE  \A x \in Endpoints : Shaking(x)'
  BY <1>15 DEF ClearW
<1>16. ASSUME NEW e \in Endpoints, ClearR(e)
      PROVE  \A x \in Endpoints : Shaking(x)'
  BY <1>16 DEF ClearR
<1>17. ASSUME NEW e \in Endpoints, Move(e)
      PROVE  \A x \in Endpoints : Shaking(x)'
  BY <1>17 DEF Move
<1>18. ASSUME NEW e \in Endpoints, Reset(e)
      PROVE  \A x \in Endpoints : Shaking(x)'
  BY <1>18 DEF Reset
<1>19. ASSUME NEW e \in Endpoints, Reboot(e)
      PROVE  \A x \in Endpoints : Shaking(x)'
  BY <1>19 DEF Reboot
<1>20. ASSUME NEW e \in Endpoints, TxSignal(e)
      PROVE  \A x \in Endpoints : Shaking(x)'
  BY <1>20 DEF TxSignal
<1>21. CASE UNCHANGED vars
  BY <1>21 DEF vars
<1> QED
  BY <1>1, <1>2, <1>3, <1>4, <1>5, <1>6, <1>7, <1>8, <1>9, <1>10, <1>11,
     <1>12, <1>13, <1>14, <1>15, <1>16, <1>17, <1>18, <1>19, <1>20,
     <1>21
     DEF Next, Writer, Tasklet, Interrupt

\* Published frames: the bell is rung when the queue was empty, and a tasklet looks until it is.
LEMMA DeliveringStep ==
  ASSUME ~ResetRaces, ~NotifiedRaces, IInv, \A x \in Endpoints : Delivering(x), TypeOK', [Next]_vars
  PROVE  \A x \in Endpoints : Delivering(x)'
<1> USE PeerType, RacesAssumption
    DEF IInv, TypeOK, shared, pos, intr, Ring, Local, Delivering, Looking, Busy
<1>0. UNCHANGED <<w_count, r_count>> => \A x \in Endpoints : Avail(x)' = Avail(x)
  BY DEF Avail
<1>a. \A x \in Endpoints : Avail(x) \in Nat /\ Avail(x)' \in Nat
  BY AvailType, AvailTypeNext, U32Assumption
<1>1. ASSUME NEW e \in Endpoints, TxCall(e)
      PROVE  \A x \in Endpoints : Delivering(x)'
  BY <1>0, <1>a, <1>1 DEF TxCall, WaitWritable
<1>2. ASSUME NEW e \in Endpoints, TxRetry(e)
      PROVE  \A x \in Endpoints : Delivering(x)'
  BY <1>0, <1>a, <1>2 DEF TxRetry, WaitWritable
<1>3. ASSUME NEW e \in Endpoints, TxGet(e)
      PROVE  \A x \in Endpoints : Delivering(x)'
  BY <1>0, <1>a, <1>3 DEF TxGet
<1>4. ASSUME NEW e \in Endpoints, NEW d \in Data, TxFill(e, d)
      PROVE  \A x \in Endpoints : Delivering(x)'
  BY <1>0, <1>a, <1>4 DEF TxFill
<1>5. ASSUME NEW e \in Endpoints, TxFault(e)
      PROVE  \A x \in Endpoints : Delivering(x)'
  BY <1>0, <1>a, <1>5 DEF TxFault
<1>6. ASSUME NEW e \in Endpoints, TxAdvance(e)
      PROVE  \A x \in Endpoints : Delivering(x)'
  <2> DEFINE p == Peer(e)
  <2>1. CASE ~CanWrite(e)
    BY <1>0, <1>6, <2>1 DEF TxAdvance
  <2>2. CASE CanWrite(e)
    <3>1. /\ w_count' = [w_count EXCEPT ![e] = Succ32(w_count[e])]
          /\ tx[e] = "advance" /\ tx' = [tx EXCEPT ![e] = "notify"]
          /\ UNCHANGED <<r_count, state, irq, rx, sched, bell>>
      BY <1>6, <2>2 DEF TxAdvance
    <3>2. Avail(e) < NFrames
      BY <1>a, <2>2, NFramesAssumption DEF CanWrite, Full
    <3>3. Avail(e)' = Avail(e) + 1 /\ Avail(p)' = Avail(p)
      BY <3>1, <3>2, DiffFacts DEF Avail
    <3> QED
      BY <1>a, <3>1, <3>3
  <2> QED
    BY <2>1, <2>2
<1>7. ASSUME NEW e \in Endpoints, TxNotify(e)
      PROVE  \A x \in Endpoints : Delivering(x)'
  BY <1>0, <1>a, <1>7 DEF TxNotify, RingOnPublish
<1>8. ASSUME NEW e \in Endpoints, RxStart(e)
      PROVE  \A x \in Endpoints : Delivering(x)'
  BY <1>0, <1>a, <1>8 DEF RxStart
<1>9. ASSUME NEW e \in Endpoints, RxCheck(e)
      PROVE  \A x \in Endpoints : Delivering(x)'
  <2>1. ASSUME state[e] = "est", irq[e] = "idle", ~CanRead(e) PROVE ~(Avail(Peer(e)) >= 1)
    <3>1. Avail(Peer(e)) <= NFrames
      BY <2>1 DEF QueueInv, InService
    <3> QED
      BY <1>a, <2>1, <3>1, AvailType, NFramesAssumption DEF CanRead, Empty
  <2> QED
    BY <1>0, <1>9, <2>1 DEF RxCheck, WakeWriters
<1>10. ASSUME NEW e \in Endpoints, RxCopy(e)
      PROVE  \A x \in Endpoints : Delivering(x)'
  BY <1>0, <1>a, <1>10 DEF RxCopy
<1>11. ASSUME NEW e \in Endpoints, RxAdvance(e)
      PROVE  \A x \in Endpoints : Delivering(x)'
  <2> DEFINE p == Peer(e)
  <2>1. CASE ~CanRead(e)
    BY <1>0, <1>11, <2>1 DEF RxAdvance
  <2>2. CASE CanRead(e)
    <3>1. /\ r_count' = [r_count EXCEPT ![e] = Succ32(r_count[e])]
          /\ rx' = [rx EXCEPT ![e] = "notify"]
          /\ UNCHANGED <<w_count, state, irq, tx, sched, bell>>
      BY <1>11, <2>2 DEF RxAdvance
    <3>2. Avail(p) >= 1
      BY <1>a, <2>2, AvailType DEF CanRead, Empty
    <3>3. Avail(p)' = Avail(p) - 1 /\ Avail(e)' = Avail(e)
      BY <3>1, <3>2, DiffFacts DEF Avail
    <3> QED
      BY <1>a, <3>1, <3>2, <3>3
  <2> QED
    BY <2>1, <2>2
<1>12. ASSUME NEW e \in Endpoints, RxNotify(e)
      PROVE  \A x \in Endpoints : Delivering(x)'
  BY <1>0, <1>a, <1>12 DEF RxNotify, RingOnRelease
<1>13. ASSUME NEW e \in Endpoints, Doorbell(e)
      PROVE  \A x \in Endpoints : Delivering(x)'
  BY <1>0, <1>a, <1>13 DEF Doorbell, Observe, MustClear, MustMove
<1>14. ASSUME NEW e \in Endpoints, Poll(e)
      PROVE  \A x \in Endpoints : Delivering(x)'
  BY <1>0, <1>a, <1>14 DEF Poll, Observe, MustClear, MustMove
<1>15. ASSUME NEW e \in Endpoints, ClearW(e)
      PROVE  \A x \in Endpoints : Delivering(x)'
  <2> DEFINE p == Peer(e)
  <2>1. /\ w_count' = [w_count EXCEPT ![e] = 0] /\ irq[e] = "clear_w"
        /\ irq' = [irq EXCEPT ![e] = "clear_r"]
        /\ UNCHANGED <<r_count, state, tx, rx, sched, bell>>
    BY <1>15 DEF ClearW
  <2>2. Avail(p)' = Avail(p)
    BY <2>1 DEF Avail
  <2>3. ASSUME state[p] = "est", irq[p] = "idle" PROVE Avail(e)' = Avail(e)
    <3>1. w_count[e] = 0
      BY <2>1, <2>3 DEF Handshake, Establishing, States
    <3> QED
      BY <2>1, <3>1 DEF Avail
  <2> QED
    BY <2>1, <2>2, <2>3
<1>16. ASSUME NEW e \in Endpoints, ClearR(e)
      PROVE  \A x \in Endpoints : Delivering(x)'
  <2> DEFINE p == Peer(e)
  <2>1. /\ r_count' = [r_count EXCEPT ![e] = 0] /\ irq[e] = "clear_r"
        /\ irq' = [irq EXCEPT ![e] = "move"]
        /\ UNCHANGED <<w_count, state, tx, rx, sched, bell>>
    BY <1>16 DEF ClearR
  <2>2. Avail(e)' = Avail(e)
    BY <2>1 DEF Avail
  <2> QED
    BY <2>1, <2>2
<1>17. ASSUME NEW e \in Endpoints, Move(e)
      PROVE  \A x \in Endpoints : Delivering(x)'
  <2> DEFINE p == Peer(e)
  <2>1. /\ bell'[p] /\ (state'[e] = "est" => sched'[e]) /\ UNCHANGED <<w_count, r_count, tx, rx>>
        /\ state'[p] = state[p] /\ sched'[p] = sched[p] /\ irq'[p] = irq[p]
    BY <1>17 DEF Move
  <2>2. Delivering(e)'
    BY <1>0, <2>1
  <2>3. Delivering(p)'
    BY <1>0, <2>1
  <2> QED
    BY ONLY <2>2, <2>3, PeerType
<1>18. ASSUME NEW e \in Endpoints, Reset(e)
      PROVE  \A x \in Endpoints : Delivering(x)'
  BY <1>0, <1>a, <1>18 DEF Reset
<1>19. ASSUME NEW e \in Endpoints, Reboot(e)
      PROVE  \A x \in Endpoints : Delivering(x)'
  BY <1>0, <1>a, <1>19 DEF Reboot
<1>20. ASSUME NEW e \in Endpoints, TxSignal(e)
      PROVE  \A x \in Endpoints : Delivering(x)'
  BY <1>0, <1>a, <1>20 DEF TxSignal
<1>21. CASE UNCHANGED vars
  BY <1>0, <1>a, <1>21 DEF vars
<1> QED
  BY <1>1, <1>2, <1>3, <1>4, <1>5, <1>6, <1>7, <1>8, <1>9, <1>10, <1>11,
     <1>12, <1>13, <1>14, <1>15, <1>16, <1>17, <1>18, <1>19, <1>20,
     <1>21
     DEF Next, Writer, Tasklet, Interrupt

\* Waiting writers: the bell is rung when the queue was full.
LEMMA WakingStep ==
  ASSUME ~ResetRaces, ~NotifiedRaces, IInv, \A x \in Endpoints : Waking(x), TypeOK', [Next]_vars
  PROVE  \A x \in Endpoints : Waking(x)'
<1> USE PeerType, RacesAssumption
    DEF IInv, TypeOK, shared, pos, intr, Ring, Local, Waking, Looking, LinkUp, Busy
<1>0. UNCHANGED <<w_count, r_count>> => \A x \in Endpoints : Avail(x)' = Avail(x)
  BY DEF Avail
<1>a. \A x \in Endpoints : Avail(x) \in Nat /\ Avail(x)' \in Nat
  BY AvailType, AvailTypeNext, U32Assumption
<1>1. ASSUME NEW e \in Endpoints, TxCall(e)
      PROVE  \A x \in Endpoints : Waking(x)'
  <2>1. ~CanWrite(e) => state[e] # "est" \/ Avail(e) >= NFrames
    BY DEF CanWrite, Full
  <2> QED
    BY <1>0, <1>1, <2>1 DEF TxCall, WaitWritable
<1>2. ASSUME NEW e \in Endpoints, TxRetry(e)
      PROVE  \A x \in Endpoints : Waking(x)'
  <2>1. ~CanWrite(e) => state[e] # "est" \/ Avail(e) >= NFrames
    BY DEF CanWrite, Full
  <2> QED
    BY <1>0, <1>2, <2>1 DEF TxRetry, WaitWritable
<1>3. ASSUME NEW e \in Endpoints, TxGet(e)
      PROVE  \A x \in Endpoints : Waking(x)'
  BY <1>0, <1>a, <1>3 DEF TxGet
<1>4. ASSUME NEW e \in Endpoints, NEW d \in Data, TxFill(e, d)
      PROVE  \A x \in Endpoints : Waking(x)'
  BY <1>0, <1>a, <1>4 DEF TxFill
<1>5. ASSUME NEW e \in Endpoints, TxFault(e)
      PROVE  \A x \in Endpoints : Waking(x)'
  BY <1>0, <1>a, <1>5 DEF TxFault
<1>6. ASSUME NEW e \in Endpoints, TxAdvance(e)
      PROVE  \A x \in Endpoints : Waking(x)'
  <2> DEFINE p == Peer(e)
  <2>1. CASE ~CanWrite(e)
    BY <1>0, <1>6, <2>1 DEF TxAdvance
  <2>2. CASE CanWrite(e)
    <3>1. /\ w_count' = [w_count EXCEPT ![e] = Succ32(w_count[e])]
          /\ tx[e] = "advance" /\ tx' = [tx EXCEPT ![e] = "notify"]
          /\ UNCHANGED <<r_count, state, irq, rx, sched, bell>>
      BY <1>6, <2>2 DEF TxAdvance
    <3>2. Avail(e) < NFrames
      BY <1>a, <2>2, NFramesAssumption DEF CanWrite, Full
    <3>3. Avail(e)' = Avail(e) + 1 /\ Avail(p)' = Avail(p)
      BY <3>1, <3>2, DiffFacts DEF Avail
    <3> QED
      BY <1>a, <3>1, <3>3
  <2> QED
    BY <2>1, <2>2
<1>7. ASSUME NEW e \in Endpoints, TxNotify(e)
      PROVE  \A x \in Endpoints : Waking(x)'
  BY <1>0, <1>a, <1>7 DEF TxNotify, RingOnPublish
<1>8. ASSUME NEW e \in Endpoints, RxStart(e)
      PROVE  \A x \in Endpoints : Waking(x)'
  BY <1>0, <1>a, <1>8 DEF RxStart
<1>9. ASSUME NEW e \in Endpoints, RxCheck(e)
      PROVE  \A x \in Endpoints : Waking(x)'
  <2>1. CASE CanRead(e)
    BY <1>0, <1>9, <2>1 DEF RxCheck
  <2>2. CASE ~CanRead(e)
    <3>1. /\ tx'[e] # "wait" /\ tx'[Peer(e)] = tx[Peer(e)] /\ rx[e] = "check"
          /\ UNCHANGED <<w_count, r_count, state, irq, sched, bell>> /\ rx'[Peer(e)] = rx[Peer(e)]
      BY <1>9, <2>2 DEF RxCheck, WakeWriters
    <3>2. Waking(e)'
      BY <3>1
    <3>3. PICK p \in Endpoints : p = Peer(e) /\ Peer(p) = e
      OBVIOUS
    <3>4. LinkUp' => LinkUp
      BY <3>1
    <3>5. Looking(p) => Looking(p)'
      BY <3>1, <3>3
    <3>6. Waking(p)'
      BY <1>0, <3>1, <3>3, <3>4, <3>5, ZenonT(40)
    <3> QED
      BY ONLY <3>2, <3>3, <3>6, PeerType
  <2> QED
    BY <2>1, <2>2
<1>10. ASSUME NEW e \in Endpoints, RxCopy(e)
      PROVE  \A x \in Endpoints : Waking(x)'
  BY <1>0, <1>a, <1>10 DEF RxCopy
<1>11. ASSUME NEW e \in Endpoints, RxAdvance(e)
      PROVE  \A x \in Endpoints : Waking(x)'
  <2> DEFINE p == Peer(e)
  <2>1. CASE ~CanRead(e)
    BY <1>0, <1>11, <2>1 DEF RxAdvance
  <2>2. CASE CanRead(e)
    <3>1. /\ r_count' = [r_count EXCEPT ![e] = Succ32(r_count[e])]
          /\ rx' = [rx EXCEPT ![e] = "notify"]
          /\ UNCHANGED <<w_count, state, irq, tx, sched, bell>>
      BY <1>11, <2>2 DEF RxAdvance
    <3>2. Avail(p) >= 1
      BY <1>a, <2>2, AvailType DEF CanRead, Empty
    <3>3. Avail(p)' = Avail(p) - 1 /\ Avail(e)' = Avail(e)
      BY <3>1, <3>2, DiffFacts DEF Avail
    <3>4. Avail(p) <= NFrames /\ rx[e] = "advance"
      BY <1>11 DEF RxAdvance, QueueInv, InService
    <3>5. Avail(p) >= NFrames => Avail(p)' = NFrames - 1
      BY <1>a, <3>3, <3>4, NFramesAssumption
    <3>6. Waking(p)'
      BY <3>1, <3>4, <3>5
    <3>7. Waking(e)'
      BY <3>1, <3>3
    <3> QED
      BY ONLY <3>6, <3>7, PeerType
  <2> QED
    BY <2>1, <2>2
<1>12. ASSUME NEW e \in Endpoints, RxNotify(e)
      PROVE  \A x \in Endpoints : Waking(x)'
  BY <1>0, <1>a, <1>12 DEF RxNotify, RingOnRelease
<1>13. ASSUME NEW e \in Endpoints, Doorbell(e)
      PROVE  \A x \in Endpoints : Waking(x)'
  BY <1>0, <1>a, <1>13 DEF Doorbell, Observe, MustClear, MustMove
<1>14. ASSUME NEW e \in Endpoints, Poll(e)
      PROVE  \A x \in Endpoints : Waking(x)'
  BY <1>0, <1>a, <1>14 DEF Poll, Observe, MustClear, MustMove
<1>15. ASSUME NEW e \in Endpoints, ClearW(e)
      PROVE  \A x \in Endpoints : Waking(x)'
  BY <1>0, <1>a, <1>15 DEF ClearW
<1>16. ASSUME NEW e \in Endpoints, ClearR(e)
      PROVE  \A x \in Endpoints : Waking(x)'
  BY <1>0, <1>a, <1>16 DEF ClearR
<1>17. ASSUME NEW e \in Endpoints, Move(e)
      PROVE  \A x \in Endpoints : Waking(x)'
  <2> DEFINE p == Peer(e)
  <2>1. /\ bell'[p] /\ (state'[e] = "est" => sched'[e]) /\ UNCHANGED <<w_count, r_count, tx, rx>>
        /\ state'[p] = state[p] /\ sched'[p] = sched[p] /\ irq'[p] = irq[p]
    BY <1>17 DEF Move
  <2>2. Waking(e)'
    BY <1>0, <2>1
  <2>3. Waking(p)'
    BY <1>0, <2>1
  <2> QED
    BY ONLY <2>2, <2>3, PeerType
<1>18. ASSUME NEW e \in Endpoints, Reset(e)
      PROVE  \A x \in Endpoints : Waking(x)'
  BY <1>0, <1>a, <1>18 DEF Reset
<1>19. ASSUME NEW e \in Endpoints, Reboot(e)
      PROVE  \A x \in Endpoints : Waking(x)'
  BY <1>0, <1>a, <1>19 DEF Reboot
<1>20. ASSUME NEW e \in Endpoints, TxSignal(e)
      PROVE  \A x \in Endpoints : Waking(x)'
  BY <1>0, <1>a, <1>20 DEF TxSignal
<1>21. CASE UNCHANGED vars
  BY <1>0, <1>a, <1>21 DEF vars
<1> QED
  BY <1>1, <1>2, <1>3, <1>4, <1>5, <1>6, <1>7, <1>8, <1>9, <1>10, <1>11,
     <1>12, <1>13, <1>14, <1>15, <1>16, <1>17, <1>18, <1>19, <1>20,
     <1>21
     DEF Next, Writer, Tasklet, Interrupt

\* Contents of a frame about to be published.
LEMMA WholeStep ==
  ASSUME ~ResetRaces, ~NotifiedRaces, IInv, \A x \in Endpoints : Whole(x), TypeOK', [Next]_vars
  PROVE  \A x \in Endpoints : Whole(x)'
<1> USE PeerType, RacesAssumption
    DEF IInv, TypeOK, shared, pos, intr, Ring, Local, Whole, Busy
<1>1. ASSUME NEW e \in Endpoints, TxCall(e)
      PROVE  \A x \in Endpoints : Whole(x)'
  BY <1>1 DEF TxCall, WaitWritable
<1>2. ASSUME NEW e \in Endpoints, TxRetry(e)
      PROVE  \A x \in Endpoints : Whole(x)'
  BY <1>2 DEF TxRetry, WaitWritable
<1>3. ASSUME NEW e \in Endpoints, TxGet(e)
      PROVE  \A x \in Endpoints : Whole(x)'
  BY <1>3 DEF TxGet
<1>4. ASSUME NEW e \in Endpoints, NEW d \in Data, TxFill(e, d)
      PROVE  \A x \in Endpoints : Whole(x)'
  BY <1>4 DEF TxFill
<1>5. ASSUME NEW e \in Endpoints, TxFault(e)
      PROVE  \A x \in Endpoints : Whole(x)'
  BY <1>5 DEF TxFault
<1>6. ASSUME NEW e \in Endpoints, TxAdvance(e)
      PROVE  \A x \in Endpoints : Whole(x)'
  BY <1>6, SMTT(30) DEF TxAdvance
<1>7. ASSUME NEW e \in Endpoints, TxNotify(e)
      PROVE  \A x \in Endpoints : Whole(x)'
  BY <1>7 DEF TxNotify, RingOnPublish
<1>8. ASSUME NEW e \in Endpoints, RxStart(e)
      PROVE  \A x \in Endpoints : Whole(x)'
  BY <1>8 DEF RxStart
<1>9. ASSUME NEW e \in Endpoints, RxCheck(e)
      PROVE  \A x \in Endpoints : Whole(x)'
  BY <1>9 DEF RxCheck, WakeWriters
<1>10. ASSUME NEW e \in Endpoints, RxCopy(e)
      PROVE  \A x \in Endpoints : Whole(x)'
  BY <1>10 DEF RxCopy
<1>11. ASSUME NEW e \in Endpoints, RxAdvance(e)
      PROVE  \A x \in Endpoints : Whole(x)'
  BY <1>11 DEF RxAdvance
<1>12. ASSUME NEW e \in Endpoints, RxNotify(e)
      PROVE  \A x \in Endpoints : Whole(x)'
  BY <1>12 DEF RxNotify, RingOnRelease
<1>13. ASSUME NEW e \in Endpoints, Doorbell(e)
      PROVE  \A x \in Endpoints : Whole(x)'
  BY <1>13 DEF Doorbell, Observe, MustClear, MustMove
<1>14. ASSUME NEW e \in Endpoints, Poll(e)
      PROVE  \A x \in Endpoints : Whole(x)'
  BY <1>14 DEF Poll, Observe, MustClear, MustMove
<1>15. ASSUME NEW e \in Endpoints, ClearW(e)
      PROVE  \A x \in Endpoints : Whole(x)'
  BY <1>15 DEF ClearW
<1>16. ASSUME NEW e \in Endpoints, ClearR(e)
      PROVE  \A x \in Endpoints : Whole(x)'
  BY <1>16 DEF ClearR
<1>17. ASSUME NEW e \in Endpoints, Move(e)
      PROVE  \A x \in Endpoints : Whole(x)'
  BY <1>17 DEF Move
<1>18. ASSUME NEW e \in Endpoints, Reset(e)
      PROVE  \A x \in Endpoints : Whole(x)'
  BY <1>18 DEF Reset
<1>19. ASSUME NEW e \in Endpoints, Reboot(e)
      PROVE  \A x \in Endpoints : Whole(x)'
  BY <1>19 DEF Reboot
<1>20. ASSUME NEW e \in Endpoints, TxSignal(e)
      PROVE  \A x \in Endpoints : Whole(x)'
  BY <1>20 DEF TxSignal
<1>21. CASE UNCHANGED vars
  BY <1>21 DEF vars
<1> QED
  BY <1>1, <1>2, <1>3, <1>4, <1>5, <1>6, <1>7, <1>8, <1>9, <1>10, <1>11,
     <1>12, <1>13, <1>14, <1>15, <1>16, <1>17, <1>18, <1>19, <1>20,
     <1>21
     DEF Next, Writer, Tasklet, Interrupt

\* Contents of a frame that was read.
LEMMA FirstStep ==
  ASSUME ~ResetRaces, ~NotifiedRaces, IInv, NoTornFrame, \A x \in Endpoints : First(x), TypeOK', [Next]_vars
  PROVE  \A x \in Endpoints : First(x)'
<1> USE PeerType, RacesAssumption
    DEF IInv, TypeOK, shared, pos, intr, Ring, Local, First, Busy, NoTornFrame
<1>1. ASSUME NEW e \in Endpoints, TxCall(e)
      PROVE  \A x \in Endpoints : First(x)'
  BY <1>1 DEF TxCall, WaitWritable
<1>2. ASSUME NEW e \in Endpoints, TxRetry(e)
      PROVE  \A x \in Endpoints : First(x)'
  BY <1>2 DEF TxRetry, WaitWritable
<1>3. ASSUME NEW e \in Endpoints, TxGet(e)
      PROVE  \A x \in Endpoints : First(x)'
  BY <1>3 DEF TxGet
<1>4. ASSUME NEW e \in Endpoints, NEW d \in Data, TxFill(e, d)
      PROVE  \A x \in Endpoints : First(x)'
  BY <1>4 DEF TxFill
<1>5. ASSUME NEW e \in Endpoints, TxFault(e)
      PROVE  \A x \in Endpoints : First(x)'
  BY <1>5 DEF TxFault
<1>6. ASSUME NEW e \in Endpoints, TxAdvance(e)
      PROVE  \A x \in Endpoints : First(x)'
  BY <1>6 DEF TxAdvance
<1>7. ASSUME NEW e \in Endpoints, TxNotify(e)
      PROVE  \A x \in Endpoints : First(x)'
  BY <1>7 DEF TxNotify, RingOnPublish
<1>8. ASSUME NEW e \in Endpoints, RxStart(e)
      PROVE  \A x \in Endpoints : First(x)'
  BY <1>8 DEF RxStart
<1>9. ASSUME NEW e \in Endpoints, RxCheck(e)
      PROVE  \A x \in Endpoints : First(x)'
  BY <1>9 DEF RxCheck, WakeWriters
<1>10. ASSUME NEW e \in Endpoints, RxCopy(e)
      PROVE  \A x \in Endpoints : First(x)'
  BY <1>10 DEF RxCopy
<1>11. ASSUME NEW e \in Endpoints, RxAdvance(e)
      PROVE  \A x \in Endpoints : First(x)'
  BY <1>11 DEF RxAdvance
<1>12. ASSUME NEW e \in Endpoints, RxNotify(e)
      PROVE  \A x \in Endpoints : First(x)'
  BY <1>12 DEF RxNotify, RingOnRelease
<1>13. ASSUME NEW e \in Endpoints, Doorbell(e)
      PROVE  \A x \in Endpoints : First(x)'
  BY <1>13 DEF Doorbell, Observe, MustClear, MustMove
<1>14. ASSUME NEW e \in Endpoints, Poll(e)
      PROVE  \A x \in Endpoints : First(x)'
  BY <1>14 DEF Poll, Observe, MustClear, MustMove
<1>15. ASSUME NEW e \in Endpoints, ClearW(e)
      PROVE  \A x \in Endpoints : First(x)'
  BY <1>15 DEF ClearW
<1>16. ASSUME NEW e \in Endpoints, ClearR(e)
      PROVE  \A x \in Endpoints : First(x)'
  BY <1>16 DEF ClearR
<1>17. ASSUME NEW e \in Endpoints, Move(e)
      PROVE  \A x \in Endpoints : First(x)'
  BY <1>17 DEF Move
<1>18. ASSUME NEW e \in Endpoints, Reset(e)
      PROVE  \A x \in Endpoints : First(x)'
  BY <1>18 DEF Reset
<1>19. ASSUME NEW e \in Endpoints, Reboot(e)
      PROVE  \A x \in Endpoints : First(x)'
  BY <1>19 DEF Reboot
<1>20. ASSUME NEW e \in Endpoints, TxSignal(e)
      PROVE  \A x \in Endpoints : First(x)'
  BY <1>20 DEF TxSignal
<1>21. CASE UNCHANGED vars
  BY <1>21 DEF vars
<1> QED
  BY <1>1, <1>2, <1>3, <1>4, <1>5, <1>6, <1>7, <1>8, <1>9, <1>10, <1>11,
     <1>12, <1>13, <1>14, <1>15, <1>16, <1>17, <1>18, <1>19, <1>20,
     <1>21
     DEF Next, Writer, Tasklet, Interrupt

-----------------------------------------------------------------------------
(***************************************************************************)
(* Refinement.  First the steps of the abstract queues, one lemma each.    *)
(***************************************************************************)
Link == IF LinkUp THEN "up" ELSE "down"

\* Nothing that the queues show changes.
LEMMA Stutters ==
  ASSUME \A x \in Endpoints : Window(x)' = Window(x), buf' = buf, Link' = Link
  PROVE  UNCHANGED Fifo!vars
<1>1. [x \in Endpoints |-> Window(x)]' = [x \in Endpoints |-> Window(x)]
  OBVIOUS
<1> QED
  BY <1>1 DEF Fifo!vars, Link

\* tegra_ivc_write_advance() appends a frame.
LEMMA Pushes ==
  ASSUME NEW e \in Endpoints, NEW d \in Data, Len(Window(e)) < NFrames,
         Window(e)' = Append(Window(e), d), Window(Peer(e))' = Window(Peer(e)),
         buf' = buf, Link' = Link
  PROVE  Fifo!Push(e, d)
<1>1. [x \in Endpoints |-> Window(x)]' =
        [[x \in Endpoints |-> Window(x)] EXCEPT ![e] = Append(Window(e), d)]
  BY PeerType
<1> QED
  BY <1>1 DEF Fifo!Push, Link

\* The client reads the first frame.
LEMMA Peeks ==
  ASSUME NEW e \in Endpoints, Window(Peer(e)) # <<>>,
         \A x \in Endpoints : Window(x)' = Window(x),
         buf' = [buf EXCEPT ![e] = Head(Window(Peer(e)))], Link' = Link
  PROVE  Fifo!Peek(e)
<1>1. [x \in Endpoints |-> Window(x)]' = [x \in Endpoints |-> Window(x)]
  OBVIOUS
<1> QED
  BY <1>1, PeerType DEF Fifo!Peek, Link

\* tegra_ivc_read_advance() removes it.
LEMMA Pops ==
  ASSUME NEW e \in Endpoints, Window(Peer(e)) # <<>>, buf[e] = Head(Window(Peer(e))),
         Window(Peer(e))' = Tail(Window(Peer(e))), Window(e)' = Window(e),
         buf' = buf, Link' = Link
  PROVE  Fifo!Pop(e)
<1>1. [x \in Endpoints |-> Window(x)]' =
        [[x \in Endpoints |-> Window(x)] EXCEPT ![Peer(e)] = Tail(Window(Peer(e)))]
  BY PeerType
<1> QED
  BY <1>1, PeerType DEF Fifo!Pop, Link

\* A reset empties queues while the link is down.
LEMMA Drops ==
  ASSUME Link' = "down", \A x \in Endpoints : Window(x)' \in {Window(x), <<>>}, buf' = buf
  PROVE  Fifo!Drop
<1> DEFINE S == {x \in Endpoints : Window(x)' = <<>>}
<1>1. [x \in Endpoints |-> Window(x)]' =
        [x \in Endpoints |-> IF x \in S THEN <<>> ELSE [y \in Endpoints |-> Window(y)][x]]
  OBVIOUS
<1>2. S \in SUBSET Endpoints
  OBVIOUS
<1> HIDE DEF S
<1> QED
  BY <1>1, <1>2 DEF Fifo!Drop, Link

\* The handshake is over.
LEMMA Restores ==
  ASSUME Link' = "up", \A x \in Endpoints : Window(x)' = Window(x), buf' = buf
  PROVE  Fifo!Restore
<1>1. [x \in Endpoints |-> Window(x)]' = [x \in Endpoints |-> Window(x)]
  OBVIOUS
<1> QED
  BY <1>1 DEF Fifo!Restore, Link

-----------------------------------------------------------------------------
(***************************************************************************)
(* The frames between the counters.                                        *)
(***************************************************************************)
Part(f, r, n) == [i \in 1 .. n |-> f[SlotAt(r, i - 1)]]
Contents == [Slot -> Data \cup {Junk}]

\* Slots of a queue are different, and there are no others.
LEMMA SlotsDiffer ==
  /\ \A r \in Slot, k \in 0 .. NFrames - 1 : SlotAt(r, k) \in Slot
  /\ \A r \in Slot : SlotAt(r, 0) = r
  /\ \A r \in Slot, k \in 0 .. NFrames - 1, m \in 0 .. NFrames - 1 :
        k # m => SlotAt(r, k) # SlotAt(r, m)
  /\ \A r \in Slot, k \in 0 .. NFrames - 1 :
        k + 1 < NFrames => SlotAt(NextPos(r), k) = SlotAt(r, k + 1)
BY NFramesAssumption DEF Slot, SlotAt, NextPos

\* A part of the queue is a sequence of frames.
LEMMA PartSeq ==
  ASSUME NEW f \in Contents, NEW r \in Slot, NEW n \in 0 .. NFrames
  PROVE  /\ Part(f, r, n) \in Seq(Data \cup {Junk}) /\ Len(Part(f, r, n)) = n
         /\ n = 0 => Part(f, r, n) = <<>>
         /\ n > 0 => Part(f, r, n) # <<>> /\ Head(Part(f, r, n)) = f[r]
<1>0. n \in Nat /\ NFrames \in Nat /\ \A i \in 1 .. n : i - 1 \in 0 .. NFrames - 1
  BY NFramesAssumption
<1>1. \A i \in 1 .. n : f[SlotAt(r, i - 1)] \in Data \cup {Junk}
  BY <1>0, SlotsDiffer DEF Contents
<1>2. Part(f, r, n) \in [1 .. n -> Data \cup {Junk}]
  BY <1>1 DEF Part
<1>3. Part(f, r, n) \in Seq(Data \cup {Junk}) /\ Len(Part(f, r, n)) = n
  BY <1>0, <1>2
<1>4. ASSUME n > 0 PROVE Part(f, r, n) # <<>> /\ Head(Part(f, r, n)) = f[r]
  <2>1. Part(f, r, n)[1] = f[SlotAt(r, 0)]
    BY <1>0, <1>4 DEF Part
  <2> QED
    BY <1>0, <1>3, <1>4, <2>1, SlotsDiffer
<1> QED
  BY <1>0, <1>3, <1>4

\* One more frame.
LEMMA PartAppend ==
  ASSUME NEW f \in Contents, NEW r \in Slot, NEW n \in 0 .. NFrames - 1
  PROVE  Part(f, r, n + 1) = Append(Part(f, r, n), f[SlotAt(r, n)])
<1>0. n \in 0 .. NFrames /\ n + 1 \in 0 .. NFrames /\ n \in Nat
  BY NFramesAssumption
<1>1. /\ Part(f, r, n) \in Seq(Data \cup {Junk}) /\ Len(Part(f, r, n)) = n
      /\ Part(f, r, n + 1) \in Seq(Data \cup {Junk}) /\ Len(Part(f, r, n + 1)) = n + 1
  BY <1>0, PartSeq
<1>2. f[SlotAt(r, n)] \in Data \cup {Junk}
  BY SlotsDiffer DEF Contents
<1>3. PICK a \in Seq(Data \cup {Junk}) : a = Append(Part(f, r, n), f[SlotAt(r, n)])
  BY <1>1, <1>2, AppendProperties
<1>4. Len(a) = n + 1
  BY <1>1, <1>2, <1>3
<1>5. \A i \in 1 .. n + 1 : a[i] = Part(f, r, n + 1)[i]
  <2> TAKE i \in 1 .. n + 1
  <2>1. CASE i = n + 1
    BY <1>0, <1>1, <1>2, <1>3, <2>1 DEF Part
  <2>2. CASE i \in 1 .. n
    <3>1. a[i] = Part(f, r, n)[i]
      BY <1>1, <1>2, <1>3, <2>2
    <3> QED
      BY <1>0, <2>2, <3>1 DEF Part
  <2> QED
    BY <1>0, <2>1, <2>2
<1> QED
  BY <1>0, <1>1, <1>3, <1>4, <1>5, SeqEqual

\* One frame less.
LEMMA PartTail ==
  ASSUME NEW f \in Contents, NEW r \in Slot, NEW n \in 1 .. NFrames
  PROVE  Part(f, NextPos(r), n - 1) = Tail(Part(f, r, n))
<1>0. n \in 0 .. NFrames /\ n - 1 \in 0 .. NFrames /\ n \in Nat /\ n - 1 \in Nat /\ NextPos(r) \in Slot
  BY NFramesAssumption, CounterTypes
<1>1. /\ Part(f, r, n) \in Seq(Data \cup {Junk}) /\ Len(Part(f, r, n)) = n
      /\ Part(f, NextPos(r), n - 1) \in Seq(Data \cup {Junk}) /\ Len(Part(f, NextPos(r), n - 1)) = n - 1
      /\ Part(f, r, n) # <<>>
  BY <1>0, PartSeq
<1>2. PICK t \in Seq(Data \cup {Junk}) : t = Tail(Part(f, r, n))
  BY <1>1, HeadTailProperties
<1>3. Len(t) = n - 1
  BY <1>0, <1>1, <1>2
<1>4. \A i \in 1 .. n - 1 : Part(f, NextPos(r), n - 1)[i] = t[i]
  <2> TAKE i \in 1 .. n - 1
  <2>1. t[i] = Part(f, r, n)[i + 1]
    BY <1>0, <1>1, <1>2
  <2>2. i + 1 \in 1 .. n /\ i - 1 \in 0 .. NFrames - 1 /\ (i - 1) + 1 < NFrames /\ (i + 1) - 1 = (i - 1) + 1
    BY <1>0, NFramesAssumption
  <2>3. SlotAt(NextPos(r), i - 1) = SlotAt(r, (i - 1) + 1)
    BY <2>2, SlotsDiffer
  <2>4. Part(f, r, n)[i + 1] = f[SlotAt(r, (i - 1) + 1)]
    BY <2>2 DEF Part
  <2>5. Part(f, NextPos(r), n - 1)[i] = f[SlotAt(NextPos(r), i - 1)]
    BY DEF Part
  <2> QED
    BY <2>1, <2>3, <2>4, <2>5
<1> QED
  BY <1>0, <1>1, <1>2, <1>3, <1>4, SeqEqual

\* A frame is stored behind the ones in the queue.
LEMMA PartBehind ==
  ASSUME NEW f \in Contents, NEW r \in Slot, NEW n \in 0 .. NFrames - 1, NEW d
  PROVE  Part([f EXCEPT ![SlotAt(r, n)] = d], r, n) = Part(f, r, n)
<1>1. \A i \in 1 .. n : i - 1 \in 0 .. NFrames - 1 /\ i - 1 # n
  BY NFramesAssumption
<1>2. \A i \in 1 .. n : SlotAt(r, i - 1) # SlotAt(r, n) /\ SlotAt(r, i - 1) \in Slot
  BY <1>1, SlotsDiffer
<1>3. \A i \in 1 .. n : [f EXCEPT ![SlotAt(r, n)] = d][SlotAt(r, i - 1)] = f[SlotAt(r, i - 1)]
  BY <1>2 DEF Contents
<1> QED
  BY <1>3 DEF Part

\* What the queues show of e depends on these.
LEMMA SameWindow ==
  ASSUME NEW e \in Endpoints, InService(e)' <=> InService(e),
         InService(e) => /\ frames'[e] = frames[e] /\ r_pos'[Peer(e)] = r_pos[Peer(e)]
                         /\ Avail(e)' = Avail(e)
  PROVE  Window(e)' = Window(e)
BY DEF Window

\* A queue in service.
LEMMA ServedWindow ==
  ASSUME IInv, NEW e \in Endpoints, InService(e)
  PROVE  /\ Window(e) = Part(frames[e], r_pos[Peer(e)], Avail(e))
         /\ frames[e] \in Contents /\ r_pos[Peer(e)] \in Slot /\ Avail(e) \in 0 .. NFrames
<1>1. Avail(e) \in 0 .. NFrames
  BY AvailType, NFramesAssumption, U32Assumption DEF IInv, QueueInv
<1> QED
  BY <1>1, PeerType DEF IInv, TypeOK, Window, Part, Contents

\* Program counters and bells are not part of the queues.
LEMMA Unseen ==
  ASSUME UNCHANGED <<w_count, r_count, state, frames, r_pos, irq, buf>>
  PROVE  UNCHANGED Fifo!vars
<1>1. \A x \in Endpoints : Window(x)' = Window(x)
  BY DEF Window, InService, Avail
<1>2. Link' = Link
  BY DEF Link, LinkUp
<1> QED
  BY <1>1, <1>2, Stutters

\* A frame is written behind the window.
LEMMA FillUnseen ==
  ASSUME ~ResetRaces, ~NotifiedRaces, IInv, NEW e \in Endpoints, tx[e] = "fill", NEW d,
         frames' = [frames EXCEPT ![e][w_pos[e]] = d],
         UNCHANGED <<w_count, r_count>>
  PROVE  /\ InService(e) => Part(frames'[e], r_pos[Peer(e)], Avail(e)) = Window(e)
         /\ frames'[Peer(e)] = frames[Peer(e)]
<1>1. frames'[Peer(e)] = frames[Peer(e)] /\ frames'[e] = [frames[e] EXCEPT ![w_pos[e]] = d]
  BY PeerType DEF IInv, TypeOK
<1>2. ASSUME InService(e)
      PROVE  Part(frames'[e], r_pos[Peer(e)], Avail(e)) = Window(e)
  <2>1. state[e] = "est"
    BY DEF IInv, Local, Busy
  <2>2. w_pos[e] = SlotAt(r_pos[Peer(e)], Avail(e)) /\ Avail(e) < NFrames
    BY <1>2, <2>1 DEF IInv, QueueInv
  <2>3. /\ Window(e) = Part(frames[e], r_pos[Peer(e)], Avail(e)) /\ frames[e] \in Contents
        /\ r_pos[Peer(e)] \in Slot /\ Avail(e) \in 0 .. NFrames - 1
    BY <1>2, <2>2, ServedWindow, NFramesAssumption
  <2> QED
    BY <1>1, <2>2, <2>3, PartBehind
<1> QED
  BY <1>1, <1>2

\* The writer's steps.
LEMMA WriterRefines ==
  ASSUME ~ResetRaces, ~NotifiedRaces, IInv, \A x \in Endpoints : Whole(x),
         NEW e \in Endpoints, Writer(e)
  PROVE  Fifo!Next \/ UNCHANGED Fifo!vars
<1> USE PeerType, RacesAssumption
<1> DEFINE p == Peer(e)
<1>1. CASE TxRetry(e) \/ TxGet(e) \/ TxNotify(e)
  BY <1>1, Unseen DEF TxRetry, WaitWritable, TxGet, TxNotify, shared, pos, intr
<1>2. ASSUME NEW d, tx[e] = "fill", frames' = [frames EXCEPT ![e][w_pos[e]] = d],
             UNCHANGED <<w_count, r_count, state, r_pos, irq, buf>>
      PROVE  UNCHANGED Fifo!vars
  <2>1. /\ InService(e) => Part(frames'[e], r_pos[p], Avail(e)) = Window(e)
        /\ frames'[p] = frames[p]
    BY <1>2, FillUnseen
  <2>2. \A x \in Endpoints : (InService(x)' <=> InService(x)) /\ Avail(x)' = Avail(x)
    BY <1>2 DEF InService, Avail
  <2>3. Window(p)' = Window(p)
    BY <1>2, <2>1, <2>2, SameWindow
  <2>4. Window(e)' = Window(e)
    <3>0. r_pos' = r_pos /\ Avail(e)' = Avail(e) /\ (InService(e)' <=> InService(e))
      BY <1>2, <2>2
    <3>1. Window(e)' = IF InService(e) THEN Part(frames'[e], r_pos[p], Avail(e)) ELSE <<>>
      BY <3>0 DEF Window, Part
    <3>2. ~InService(e) => Window(e) = <<>>
      BY DEF Window
    <3> QED
      BY <2>1, <3>1, <3>2
  <2>5. Link' = Link
    BY <1>2 DEF Link, LinkUp
  <2> QED
    BY <1>2, <2>3, <2>4, <2>5, Stutters
<1>3. CASE TxFault(e) \/ \E d \in Data : TxFill(e, d)
  BY <1>2, <1>3 DEF TxFault, TxFill, pos, intr
<1>4. CASE TxAdvance(e) /\ ~CanWrite(e)
  BY <1>4, Unseen DEF TxAdvance, intr
<1>5. CASE TxAdvance(e) /\ CanWrite(e)
  <2>1. /\ w_count' = [w_count EXCEPT ![e] = Succ32(w_count[e])] /\ tx[e] = "advance"
        /\ UNCHANGED <<r_count, state, frames, r_pos, irq, buf>>
    BY <1>5 DEF TxAdvance, intr
  <2>2. Avail(e) < NFrames /\ state[e] = "est" /\ w_count[e] \in Count /\ r_count[p] \in Count
    BY <1>5, AvailType, NFramesAssumption, U32Assumption DEF IInv, TypeOK, CanWrite, Full
  <2>3. Avail(e)' = Avail(e) + 1 /\ Avail(p)' = Avail(p)
    BY <2>1, <2>2, DiffFacts DEF Avail, IInv, TypeOK
  <2>4. \A x \in Endpoints : InService(x)' <=> InService(x)
    BY <2>1 DEF InService
  <2>5. Window(p)' = Window(p)
    BY <2>1, <2>3, <2>4, SameWindow
  <2>6. Link' = Link
    BY <2>1 DEF Link, LinkUp
  <2>7. CASE ~InService(e)
    <3>1. Window(e)' = Window(e)
      BY <2>4, <2>7 DEF Window
    <3> QED
      BY <2>1, <2>5, <2>6, <3>1, Stutters
  <2>8. CASE InService(e)
    <3>1. /\ Window(e) = Part(frames[e], r_pos[p], Avail(e)) /\ frames[e] \in Contents
          /\ r_pos[p] \in Slot /\ Avail(e) \in 0 .. NFrames - 1 /\ Avail(e) \in 0 .. NFrames
      BY <2>2, <2>8, ServedWindow, NFramesAssumption
    <3>2. w_pos[e] = SlotAt(r_pos[p], Avail(e))
      BY <2>2, <2>8 DEF IInv, QueueInv
    <3>3. PICK d \in Data : d = frames[e][w_pos[e]]
      BY <2>1 DEF Whole
    <3>4. Window(e)' = Part(frames[e], r_pos[p], Avail(e) + 1)
      BY <2>1, <2>3, <2>4, <2>8 DEF Window, Part
    <3>5. Window(e)' = Append(Window(e), d)
      BY <3>1, <3>2, <3>3, <3>4, PartAppend
    <3>6. Len(Window(e)) < NFrames
      BY <2>2, <3>1, PartSeq
    <3>7. Fifo!Push(e, d)
      BY <2>1, <2>5, <2>6, <3>5, <3>6, Pushes
    <3> QED
      BY <3>7 DEF Fifo!Next
  <2> QED
    BY <2>7, <2>8
<1> QED
  BY <1>1, <1>3, <1>4, <1>5 DEF Writer

\* The tasklet's steps.
LEMMA TaskletRefines ==
  ASSUME ~ResetRaces, ~NotifiedRaces, IInv, \A x \in Endpoints : First(x),
         NEW e \in Endpoints, Tasklet(e)
  PROVE  Fifo!Next \/ UNCHANGED Fifo!vars
<1> USE PeerType, RacesAssumption
<1>0. PICK p \in Endpoints : p = Peer(e) /\ Peer(p) = e
  OBVIOUS
<1>1. CASE RxStart(e) \/ RxCheck(e) \/ RxNotify(e)
  BY <1>1, Unseen DEF RxStart, RxCheck, RxNotify, shared, pos, intr
<1>2. ASSUME rx[e] \in {"copy", "advance"}
      PROVE  /\ InService(p) /\ Window(p) = Part(frames[p], r_pos[e], Avail(p)) /\ frames[p] \in Contents
             /\ r_pos[e] \in Slot /\ Avail(p) \in 1 .. NFrames /\ Avail(p) \in 0 .. NFrames
             /\ Window(p) # <<>> /\ Head(Window(p)) = frames[p][r_pos[e]]
  <2>1. InService(p) /\ Avail(p) >= 1
    BY <1>0, <1>2 DEF IInv, Local, Busy, InService, QueueInv
  <2>2. /\ Window(p) = Part(frames[p], r_pos[e], Avail(p)) /\ frames[p] \in Contents
        /\ r_pos[e] \in Slot /\ Avail(p) \in 0 .. NFrames
    BY <1>0, <2>1, ServedWindow
  <2>3. Avail(p) \in 1 .. NFrames /\ Avail(p) > 0
    BY <2>1, <2>2, NFramesAssumption
  <2> QED
    BY <2>1, <2>2, <2>3, PartSeq
<1>3. CASE RxCopy(e)
  <2>1. /\ rx[e] = "copy" /\ buf' = [buf EXCEPT ![e] = frames[p][r_pos[e]]]
        /\ UNCHANGED <<w_count, r_count, state, frames, r_pos, irq>>
    BY <1>0, <1>3 DEF RxCopy, shared, pos, intr
  <2>2. \A x \in Endpoints : Window(x)' = Window(x)
    BY <2>1 DEF Window, InService, Avail
  <2>3. Link' = Link
    BY <2>1 DEF Link, LinkUp
  <2>4. Fifo!Peek(e)
    BY <1>0, <1>2, <2>1, <2>2, <2>3, Peeks
  <2> QED
    BY <2>4 DEF Fifo!Next
<1>4. CASE RxAdvance(e) /\ ~CanRead(e)
  BY <1>4, Unseen DEF RxAdvance, intr
<1>5. CASE RxAdvance(e) /\ CanRead(e)
  <2>1. /\ r_count' = [r_count EXCEPT ![e] = Succ32(r_count[e])] /\ rx[e] = "advance"
        /\ r_pos' = [r_pos EXCEPT ![e] = NextPos(r_pos[e])]
        /\ UNCHANGED <<w_count, state, frames, irq, buf>>
    BY <1>5 DEF RxAdvance, intr
  <2>2. /\ InService(p) /\ Window(p) = Part(frames[p], r_pos[e], Avail(p)) /\ frames[p] \in Contents
        /\ r_pos[e] \in Slot /\ Avail(p) \in 1 .. NFrames
        /\ Window(p) # <<>> /\ Head(Window(p)) = frames[p][r_pos[e]]
    BY <1>2, <2>1
  <2>3. r_pos'[e] = NextPos(r_pos[e]) /\ r_pos'[p] = r_pos[p] /\ r_count'[e] = Succ32(r_count[e])
        /\ r_count'[p] = r_count[p] /\ w_count[p] \in Count /\ r_count[e] \in Count
    BY <1>0, <2>1 DEF IInv, TypeOK
  <2>4. Avail(p)' = Avail(p) - 1 /\ Avail(e)' = Avail(e)
    <3>1. Diff(w_count[p], r_count[e]) >= 1
      BY <1>0, <2>2, NFramesAssumption DEF Avail
    <3> QED
      BY <1>0, <2>1, <2>3, <3>1, DiffFacts DEF Avail
  <2>5. \A x \in Endpoints : InService(x)' <=> InService(x)
    BY <2>1 DEF InService
  <2>6. Window(e)' = Window(e)
    BY <1>0, <2>1, <2>3, <2>4, <2>5, SameWindow
  <2>7. Window(p)' = Part(frames[p], NextPos(r_pos[e]), Avail(p) - 1)
    BY <1>0, <2>1, <2>2, <2>3, <2>4, <2>5 DEF Window, Part
  <2>8. Window(p)' = Tail(Window(p))
    BY <2>2, <2>7, PartTail
  <2>9. Link' = Link
    BY <2>1 DEF Link, LinkUp
  <2>10. buf[e] = Head(Window(p))
    BY <1>0, <2>1, <2>2 DEF First
  <2>11. Fifo!Pop(e)
    BY <1>0, <2>1, <2>2, <2>6, <2>8, <2>9, <2>10, Pops
  <2> QED
    BY <2>11 DEF Fifo!Next
<1> QED
  BY <1>1, <1>3, <1>4, <1>5 DEF Tasklet


\* A queue in service after a step.
LEMMA ServedWindowNext ==
  ASSUME IInv', NEW e \in Endpoints, InService(e)'
  PROVE  /\ Window(e)' = Part(frames'[e], r_pos'[Peer(e)], Avail(e)')
         /\ frames'[e] \in Contents /\ r_pos'[Peer(e)] \in Slot
<1> QED
  BY PeerType DEF IInv, TypeOK, Window, Part, Contents
\* The steps of tegra_ivc_channel_notified(), by the interrupt or a poll.
LEMMA NotifiedRefines ==
  ASSUME ~ResetRaces, ~NotifiedRaces, IInv, IInv', NEW e \in Endpoints, Interrupt(e) \/ Poll(e)
  PROVE  Fifo!Next \/ UNCHANGED Fifo!vars
<1> USE PeerType, RacesAssumption
<1>0. PICK p \in Endpoints : p = Peer(e) /\ Peer(p) = e /\ p # e
  OBVIOUS
<1>1. ASSUME Observe(e) PROVE Fifo!Next \/ UNCHANGED Fifo!vars
  <2>1. UNCHANGED <<w_count, r_count, state, frames, r_pos, buf>> /\ irq[e] = "idle" /\ irq'[p] = irq[p]
    BY <1>0, <1>1 DEF Observe, shared, pos, IInv, TypeOK
  <2>2. CASE irq'[e] = "idle"
    <3>1. irq' = irq
      BY <1>0, <1>1, <2>1, <2>2 DEF Observe, IInv, TypeOK
    <3> QED
      BY <2>1, <3>1, Unseen
  <2>3. CASE irq'[e] # "idle"
    <3>1. Window(e)' = Window(e)
      BY <1>0, <2>1 DEF Window, InService, Avail
    <3>2. Window(p)' \in {Window(p), <<>>}
      BY <1>0, <2>1, <2>3 DEF Window, InService, Avail
    <3>3. Link' = "down"
      BY <2>3 DEF Link, LinkUp
    <3>4. \A x \in Endpoints : Window(x)' \in {Window(x), <<>>}
      BY <1>0, <3>1, <3>2
    <3>5. Fifo!Drop
      BY <2>1, <3>3, <3>4, Drops
    <3> QED
      BY <3>5 DEF Fifo!Next
  <2> QED
    BY <2>2, <2>3
<1>2. CASE ClearW(e)
  <2>1. /\ irq[e] = "clear_w" /\ irq' = [irq EXCEPT ![e] = "clear_r"]
        /\ w_count' = [w_count EXCEPT ![e] = 0] /\ UNCHANGED <<r_count, state, frames, r_pos, buf>>
    BY <1>2 DEF ClearW, pos
  <2>2. \A x \in Endpoints : InService(x)' <=> InService(x)
    BY <2>1 DEF InService, IInv, TypeOK
  <2>3. InService(e) => w_count[e] = 0
    BY <1>0, <2>1 DEF InService, IInv, TypeOK, States, Local, Handshake, Establishing
  <2>4. Avail(p)' = Avail(p) /\ (InService(e) => Avail(e)' = Avail(e))
    BY <1>0, <2>1, <2>3 DEF Avail, IInv, TypeOK
  <2>5. Window(e)' = Window(e) /\ Window(p)' = Window(p)
    BY <1>0, <2>1, <2>2, <2>4, SameWindow
  <2>6. Link' = Link
    BY <2>1 DEF Link, LinkUp, IInv, TypeOK
  <2> QED
    BY <1>0, <2>1, <2>5, <2>6, Stutters
<1>3. CASE ClearR(e)
  <2>1. /\ irq[e] = "clear_r" /\ irq' = [irq EXCEPT ![e] = "move"]
        /\ r_count' = [r_count EXCEPT ![e] = 0] /\ r_pos' = [r_pos EXCEPT ![e] = 0]
        /\ UNCHANGED <<w_count, state, frames, buf>>
    BY <1>3 DEF ClearR
  <2>2. \A x \in Endpoints : InService(x)' <=> InService(x)
    BY <2>1 DEF InService, IInv, TypeOK
  <2>3. InService(p) => r_count[e] = 0 /\ r_pos[e] = 0
    BY <1>0, <2>1 DEF InService, IInv, TypeOK, States, Local
  <2>4. Avail(e)' = Avail(e) /\ (InService(p) => Avail(p)' = Avail(p) /\ r_pos'[e] = r_pos[e])
        /\ r_pos'[p] = r_pos[p]
    BY <1>0, <2>1, <2>3 DEF Avail, IInv, TypeOK
  <2>5. Window(e)' = Window(e) /\ Window(p)' = Window(p)
    BY <1>0, <2>1, <2>2, <2>4, SameWindow
  <2>6. Link' = Link
    BY <2>1 DEF Link, LinkUp, IInv, TypeOK
  <2> QED
    BY <1>0, <2>1, <2>5, <2>6, Stutters
<1>4. CASE Move(e)
  <2>1. /\ state' = [state EXCEPT ![e] = IF seen[e] = "sync" THEN "ack" ELSE "est"]
        /\ irq' = [irq EXCEPT ![e] = "idle"] /\ irq[e] = "move"
        /\ UNCHANGED <<w_count, r_count, frames, r_pos, buf>>
    BY <1>4 DEF Move, pos
  <2>2. Avail(e)' = Avail(e) /\ Avail(p)' = Avail(p)
    BY <2>1 DEF Avail
  <2>3. w_count[e] = 0 /\ r_count[e] = 0 /\ (state[p] = "ack" => w_count[p] = 0 /\ r_count[p] = 0)
    BY <1>0, <2>1 DEF IInv, Local
  <2>4. state[p] = "ack" => Avail(e) = 0 /\ Avail(p) = 0
    BY <1>0, <2>3, AvailType DEF IInv
  <2>5. \A x \in Endpoints : InService(x) /\ Avail(x) = 0 => Window(x) = <<>>
    BY ServedWindow, PartSeq
  <2>6. \A x \in Endpoints : /\ ~InService(x) => Window(x) = <<>>
                             /\ ~InService(x)' => Window(x)' = <<>>
    BY DEF Window
  <2>7. ASSUME state[p] = "ack" PROVE \A x \in Endpoints : Window(x)' = Window(x)
    <3>1. \A x \in Endpoints : InService(x)' => Window(x)' = <<>>
      <4> SUFFICES ASSUME NEW x \in Endpoints, InService(x)' PROVE Window(x)' = <<>>
        OBVIOUS
      <4>1. Avail(x)' = 0
        BY <1>0, <2>2, <2>4, <2>7
      <4>2. /\ Window(x)' = Part(frames'[x], r_pos'[Peer(x)], 0)
            /\ frames'[x] \in Contents /\ r_pos'[Peer(x)] \in Slot
        BY <4>1, ServedWindowNext
      <4>3. 0 \in 0 .. NFrames
        BY NFramesAssumption
      <4> QED
        BY <4>2, <4>3, PartSeq
    <3> QED
      BY <1>0, <2>4, <2>5, <2>6, <2>7, <3>1
  <2>8. ASSUME state[p] # "ack" PROVE \A x \in Endpoints : Window(x)' = Window(x)
    <3>1. /\ state'[e] = IF seen[e] = "sync" THEN "ack" ELSE "est"
          /\ state'[p] = state[p] /\ irq'[e] = "idle" /\ irq'[p] = irq[p]
          /\ state[e] \in States /\ state[p] \in {"est", "sync"}
      BY <1>0, <2>1, <2>8 DEF IInv, TypeOK, States
    <3>2. state[p] = "est" => state[e] = "ack"
      BY <1>0, <2>1, <3>1 DEF IInv, Local, Handshake, Establishing, States
    <3>3. state[p] = "sync" => seen[e] = "sync"
      BY <1>0, <2>1, <3>1 DEF IInv, Handshake, Establishing
    <3>4. (InService(e)' <=> InService(e)) /\ (InService(p)' <=> InService(p))
      BY <1>0, <2>1, <3>1, <3>2, <3>3 DEF InService
    <3>5. Window(e)' = Window(e) /\ Window(p)' = Window(p)
      BY <1>0, <2>1, <2>2, <3>4, SameWindow
    <3> QED
      BY <1>0, <3>5
  <2>9. \A x \in Endpoints : Window(x)' = Window(x)
    BY <2>7, <2>8
  <2>10. CASE LinkUp'
    BY <2>1, <2>9, <2>10, Restores DEF Link, Fifo!Next
  <2>11. CASE ~LinkUp'
    <3>1. ~LinkUp
      BY <2>1 DEF LinkUp
    <3> QED
      BY <2>1, <2>9, <2>11, <3>1, Stutters DEF Link
  <2> QED
    BY <2>10, <2>11
<1> QED
  BY <1>1, <1>2, <1>3, <1>4 DEF Interrupt, Doorbell, Poll


\* A reset or a reboot empties the queue towards e, and may empty the other.
LEMMA ResetRefines ==
  ASSUME ~ResetRaces, ~NotifiedRaces, IInv, NEW e \in Endpoints, Reset(e) \/ Reboot(e)
  PROVE  Fifo!Next
<1> USE PeerType, RacesAssumption
<1>0. PICK p \in Endpoints : p = Peer(e) /\ Peer(p) = e /\ p # e
  OBVIOUS
<1>1. /\ state'[e] = "sync" /\ state'[p] = state[p] /\ irq'[p] = irq[p] /\ r_pos'[p] = r_pos[p]
      /\ UNCHANGED <<w_count, r_count, buf>>
  BY <1>0 DEF Reset, Reboot, pos, IInv, TypeOK
<1>2. InService(e)' => InService(e)
  BY <1>0, <1>1 DEF InService
<1>3. ~InService(p)'
  BY <1>0, <1>1 DEF InService
<1>4. Avail(e)' = Avail(e)
  BY <1>1 DEF Avail
<1>5. ASSUME InService(e)' PROVE Window(e)' = Window(e)
  <2>1. Window(e)' = Part(frames'[e], r_pos[p], Avail(e))
    BY <1>0, <1>1, <1>4, <1>5 DEF Window, Part
  <2>2. Window(e) = Part(frames[e], r_pos[p], Avail(e))
    BY <1>0, <1>2, <1>5 DEF Window, Part
  <2>3. CASE frames' = frames
    BY <2>1, <2>2, <2>3
  <2>4. CASE frames' # frames
    <3>1. tx[e] = "fill" /\ frames' = [frames EXCEPT ![e][w_pos[e]] = Junk]
      BY <2>4 DEF Reset, Reboot
    <3> QED
      BY <1>0, <1>1, <1>2, <1>5, <2>1, <3>1, FillUnseen
  <2> QED
    BY <2>3, <2>4
<1>6. \A x \in Endpoints : Window(x)' \in {Window(x), <<>>}
  <2>1. Window(p)' = <<>> /\ (~InService(e)' => Window(e)' = <<>>)
    BY <1>3 DEF Window
  <2> QED
    BY <1>0, <1>5, <2>1
<1>7. Link' = "down"
  BY <1>1 DEF Link, LinkUp
<1> QED
  BY <1>1, <1>6, <1>7, Drops DEF Fifo!Next

\* Every step of the channel is a step of the queues, or leaves them alone.
LEMMA StepRefines ==
  ASSUME ~ResetRaces, ~NotifiedRaces, IInv, IInv',
         \A x \in Endpoints : Whole(x) /\ First(x), [Next]_vars
  PROVE  [Fifo!Next]_(Fifo!vars)
<1>1. ASSUME NEW e \in Endpoints, TxCall(e) \/ TxSignal(e) PROVE UNCHANGED Fifo!vars
  BY <1>1, Unseen DEF TxCall, WaitWritable, TxSignal, shared, pos, intr
<1>2. CASE UNCHANGED vars
  BY <1>2, Unseen DEF vars
<1> QED
  BY <1>1, <1>2, WriterRefines, TaskletRefines, NotifiedRefines, ResetRefines DEF Next

-----------------------------------------------------------------------------
(***************************************************************************)
(* The theorems about doorbells and queues.                                *)
(***************************************************************************)
FlowInv == \A e \in Endpoints : /\ Shaking(e) /\ Delivering(e) /\ Waking(e)
                                /\ Whole(e) /\ First(e)

\* Bells, waits and frames follow the rules above throughout.
LEMMA FlowInvariance ==
  ASSUME ~ResetRaces, ~NotifiedRaces
  PROVE  Spec => []FlowInv
<1>1. Init => FlowInv
  <2> SUFFICES ASSUME Init, NEW e \in Endpoints
               PROVE  Shaking(e) /\ Delivering(e) /\ Waking(e) /\ Whole(e) /\ First(e)
    BY DEF FlowInv
  <2>1. Avail(e) = 0
    BY PeerType DEF Init, Avail, Diff
  <2> QED
    BY <2>1, PeerType DEF Init, Shaking, Delivering, Waking, Whole, First
<1>2. IInv /\ NoTornFrame /\ FlowInv /\ [Next]_vars => FlowInv'
  <2> SUFFICES ASSUME IInv, NoTornFrame, FlowInv, [Next]_vars PROVE FlowInv'
    OBVIOUS
  <2>1. TypeOK'
    BY TypeStep DEF IInv
  <2>2. /\ \A x \in Endpoints : Shaking(x)
        /\ \A x \in Endpoints : Delivering(x)
        /\ \A x \in Endpoints : Waking(x)
        /\ \A x \in Endpoints : Whole(x)
        /\ \A x \in Endpoints : First(x)
    BY DEF FlowInv
  <2>3. \A x \in Endpoints : Shaking(x)'
    BY <2>1, <2>2, ShakingStep
  <2>4. \A x \in Endpoints : Delivering(x)'
    BY <2>1, <2>2, DeliveringStep
  <2>5. \A x \in Endpoints : Waking(x)'
    BY <2>1, <2>2, WakingStep
  <2>6. \A x \in Endpoints : Whole(x)'
    BY <2>1, <2>2, WholeStep
  <2>7. \A x \in Endpoints : First(x)'
    BY <2>1, <2>2, FirstStep
  <2> QED
    BY <2>3, <2>4, <2>5, <2>6, <2>7 DEF FlowInv
<1> QED
  BY <1>1, <1>2, Invariance, TornFrameFreedom, PTL DEF Spec

\* When nothing is left to run, the handshake is over, every published frame
\* was read and no writer sleeps, although tegra_ivc_write_advance() and
\* tegra_ivc_read_advance() ring only on the transitions from empty and full.
THEOREM DoorbellsAreNotLost ==
  ASSUME ~ResetRaces, ~NotifiedRaces
  PROVE  Spec => []NoLostDoorbell
<1>1. IInv /\ FlowInv => NoLostDoorbell
  <2> SUFFICES ASSUME IInv, FlowInv, Quiescent, NEW e \in Endpoints
               PROVE  state[e] = "est" /\ Avail(e) = 0 /\ tx[e] = "idle"
    BY DEF NoLostDoorbell
  <2>1. \A x \in Endpoints : ~Acting(x) /\ ~Looking(x)
    BY DEF Quiescent, Acting, Looking
  <2>2. \A x \in Endpoints : state[x] = "est"
    BY <2>1, PeerType DEF FlowInv, Shaking, IInv, TypeOK, States
  <2>3. \A x \in Endpoints : /\ irq[x] = "idle" /\ rx[x] # "notify"
                             /\ tx[x] \in {"idle", "wait"} /\ tx[x] # "notify"
    BY DEF Quiescent
  <2>4. ~(Avail(e) >= 1)
    BY <2>1, <2>2, <2>3, PeerType DEF FlowInv, Delivering
  <2>5. Avail(e) = 0
    BY <2>4, AvailType, U32Assumption DEF IInv
  <2>6. ~(Avail(e) >= NFrames)
    BY <2>5, NFramesAssumption
  <2>7. LinkUp
    BY <2>2, <2>3 DEF LinkUp
  <2>8. tx[e] # "wait"
    BY <2>1, <2>3, <2>6, <2>7, PeerType DEF FlowInv, Waking
  <2> QED
    BY <2>2, <2>3, <2>5, <2>8
<1> QED
  BY <1>1, Invariance, FlowInvariance, PTL

\* The counters, positions and the handshake of tegra-ivc.c implement two bounded
\* FIFO queues: a frame is delivered once, in order and unaltered, and only a
\* reset loses frames.
THEOREM ChannelIsFifo ==
  ASSUME ~ResetRaces, ~NotifiedRaces
  PROVE  Spec => FifoSpec
<1>1. Init => Fifo!Init
  <2> SUFFICES ASSUME Init PROVE Fifo!Init
    OBVIOUS
  <2>1. \A e \in Endpoints : Avail(e) = 0
    BY PeerType DEF Init, Avail, Diff
  <2>2. \A e \in Endpoints : Window(e) = <<>>
    BY <2>1 DEF Window
  <2>3. LinkUp
    BY DEF Init, LinkUp
  <2> QED
    BY <2>2, <2>3 DEF Init, Fifo!Init
<1>2. IInv /\ IInv' /\ FlowInv /\ [Next]_vars => [Fifo!Next]_(Fifo!vars)
  <2> SUFFICES ASSUME IInv, IInv', FlowInv, [Next]_vars PROVE [Fifo!Next]_(Fifo!vars)
    OBVIOUS
  <2>1. \A x \in Endpoints : Whole(x) /\ First(x)
    BY DEF FlowInv
  <2> QED
    BY <2>1, StepRefines
<1> QED
  BY <1>1, <1>2, Invariance, FlowInvariance, PTL DEF Spec, FifoSpec, Fifo!Spec
=============================================================================
