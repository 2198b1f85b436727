----------------------------- MODULE IvcChannel -----------------------------
(***************************************************************************)
(* An IVC channel (drivers/platform/tegra/tegra-ivc.c): two endpoints, each *)
(* of which owns a transmit queue in shared memory, free-running frame     *)
(* counters, and the SYNC/ACK reset handshake that re-synchronises the     *)
(* counters when an endpoint is reset or reboots.  The endpoints run the   *)
(* client of drivers/platform/tegra/rtcpu: a writer (one at a time, under  *)
(* ivc_wr_lock), a receive tasklet, and the doorbell interrupt that calls  *)
(* tegra_ivc_channel_notified().                                           *)
(*                                                                         *)
(* One step is one access to memory that the other side, or another thread *)
(* of the same side, may use.                                              *)
(***************************************************************************)
EXTENDS Integers, Sequences, FiniteSets

CONSTANTS
  NFrames,          \* ivc->nframes
  U32,              \* number of values of a counter (2^32 in the code)
  Data,             \* contents of a frame
  Junk,             \* contents of a frame that was not completely written
  Writers,          \* endpoints whose client writes
  MaxResets,        \* bound: resets and reboots in a behaviour
  ResetRaces,       \* may an endpoint reset while its peer moves to EST?
  NotifiedRaces     \* may notified() clear counters in the middle of a
                    \* frame operation of the same endpoint?

Endpoints == {"A", "B"}
Peer(e) == IF e = "A" THEN "B" ELSE "A"

\* A counter must be able to tell an over-full queue from a full one.
ASSUME NFramesAssumption == NFrames \in Nat \ {0}
ASSUME U32Assumption == U32 \in Nat /\ U32 > NFrames
ASSUME DataAssumption == Data # {} /\ Junk \notin Data
ASSUME WritersAssumption == Writers \subseteq Endpoints
ASSUME MaxResetsAssumption == MaxResets \in Nat
ASSUME RacesAssumption == ResetRaces \in BOOLEAN /\ NotifiedRaces \in BOOLEAN

Count == 0 .. U32 - 1
Slot == 0 .. NFrames - 1

VARIABLES
  w_count,   \* tx_channel->w_count of e, written by e
  r_count,   \* rx_channel->r_count of e, written by e
  state,     \* tx_channel->state of e: "est", "sync" or "ack"
  frames,    \* the frames of e's transmit queue
  w_pos,     \* ivc->w_pos of e
  r_pos,     \* ivc->r_pos of e
  bell,      \* is the doorbell of e ringing?
  irq,       \* progress of e in tegra_ivc_channel_notified()
  seen,      \* peer_state of e while notified() runs, else "est"
  sched,     \* is the receive tasklet of e scheduled?
  tx,        \* progress of e's writer
  rx,        \* progress of e's receive tasklet
  buf,       \* the last frame e's tasklet read
  resets     \* resets and reboots left

shared == <<w_count, r_count, state, frames>>
pos    == <<w_pos, r_pos>>
intr   == <<bell, irq, seen, sched>>
vars   == <<w_count, r_count, state, frames, w_pos, r_pos, bell, irq, seen,
            sched, tx, rx, buf, resets>>

States == {"est", "sync", "ack"}
IrqPc == {"idle", "clear_w", "clear_r", "move"}
TxPc == {"idle", "check", "wait", "get", "fill", "advance", "notify"}
RxPc == {"idle", "check", "copy", "advance", "notify"}

Init ==
  /\ w_count = [e \in Endpoints |-> 0]
  /\ r_count = [e \in Endpoints |-> 0]
  /\ state   = [e \in Endpoints |-> "est"]
  /\ frames  = [e \in Endpoints |-> [i \in Slot |-> Junk]]
  /\ w_pos   = [e \in Endpoints |-> 0]
  /\ r_pos   = [e \in Endpoints |-> 0]
  /\ bell    = [e \in Endpoints |-> FALSE]
  /\ irq     = [e \in Endpoints |-> "idle"]
  /\ seen    = [e \in Endpoints |-> "est"]
  /\ sched   = [e \in Endpoints |-> FALSE]
  /\ tx      = [e \in Endpoints |-> "idle"]
  /\ rx      = [e \in Endpoints |-> "idle"]
  /\ buf     = [e \in Endpoints |-> Junk]
  /\ resets  = MaxResets

-----------------------------------------------------------------------------
(***************************************************************************)
(* Counters.  The queue of e is described by w_count[e] and r_count[Peer(e)].*)
(***************************************************************************)

\* uint32_t subtraction: ivc_channel_avail_count().
Diff(w, r) == IF w >= r THEN w - r ELSE w - r + U32

Succ32(c) == IF c = U32 - 1 THEN 0 ELSE c + 1

\* Mutant: the position does not wrap.
NextPosNoWrap(p) == p + 1
NextPos(p) == IF p = NFrames - 1 THEN 0 ELSE p + 1

Avail(e) == Diff(w_count[e], r_count[Peer(e)])

\* Mutant: only an over-full queue looks empty.
EmptyIfOverfull(e) == Avail(e) > NFrames
Empty(e) == Avail(e) > NFrames \/ w_count[e] = r_count[Peer(e)]

\* Mutant: off by one.
FullIfOver(e) == Avail(e) > NFrames
Full(e) == Avail(e) >= NFrames

CanRead(e) == state[e] = "est" /\ ~Empty(Peer(e))

\* Mutant: the state of the channel is not checked.
CanWriteAnyState(e) == ~Full(e)
CanWrite(e) == state[e] = "est" /\ ~Full(e)

\* Notify only upon the transition from empty to non-empty.
\* Mutant: the queue is expected to be empty after the advance.
RingIfEmpty(e) == Avail(e) = 0
RingOnPublish(e) == Avail(e) = 1

\* Notify only upon the transition from full to non-full.
\* Mutant: the queue is expected to be full after the advance.
RingIfFull(e) == Avail(Peer(e)) = NFrames
RingOnRelease(e) == Avail(Peer(e)) = NFrames - 1

Ring(e) == bell' = [bell EXCEPT ![Peer(e)] = TRUE]

-----------------------------------------------------------------------------
(***************************************************************************)
(* The writer.                                                             *)
(***************************************************************************)

\* wait_event_interruptible(rpc->ivc_wq, tegra_ivc_can_write(...)).
WaitWritable(e) ==
  /\ tx' = [tx EXCEPT ![e] = IF CanWrite(e) THEN "get" ELSE "wait"]
  /\ UNCHANGED <<shared, pos, intr, rx, buf, resets>>

\* A client starts to send a frame.
TxCall(e) == e \in Writers /\ tx[e] = "idle" /\ WaitWritable(e)

\* A woken writer evaluates the condition of its wait_event again.
TxRetry(e) == tx[e] = "check" /\ WaitWritable(e)

\* A signal ends the wait_event: TEGRA_IVC_RPC_ERR_WRITE_FAILED.
TxSignal(e) ==
  /\ tx[e] = "wait"
  /\ tx' = [tx EXCEPT ![e] = "idle"]
  /\ UNCHANGED <<shared, pos, intr, rx, buf, resets>>

\* tegra_ivc_write_get_next_frame(); on an error the client waits again.
TxGet(e) ==
  /\ tx[e] = "get"
  /\ NotifiedRaces \/ irq[e] = "idle"
  /\ tx' = [tx EXCEPT ![e] = IF CanWrite(e) THEN "fill" ELSE "check"]
  /\ UNCHANGED <<shared, pos, intr, rx, buf, resets>>

\* The client stores frame d in the slot at w_pos.
TxFill(e, d) ==
  /\ tx[e] = "fill"
  /\ frames' = [frames EXCEPT ![e][w_pos[e]] = d]
  /\ tx' = [tx EXCEPT ![e] = "advance"]
  /\ UNCHANGED <<w_count, r_count, state, pos, intr, rx, buf, resets>>

\* copy_from_user() fails in ivc_write_frame(): the slot is left half
\* written and the counter is not advanced.
TxFault(e) ==
  /\ tx[e] = "fill"
  /\ frames' = [frames EXCEPT ![e][w_pos[e]] = Junk]
  /\ tx' = [tx EXCEPT ![e] = "idle"]
  /\ UNCHANGED <<w_count, r_count, state, pos, intr, rx, buf, resets>>

\* tegra_ivc_write_advance() up to ivc_mb(): publish the frame.  The client
\* ignores the error that is returned when the channel is not writable.
TxAdvance(e) ==
  /\ tx[e] = "advance"
  /\ IF CanWrite(e)
     THEN /\ w_count' = [w_count EXCEPT ![e] = Succ32(@)]
          /\ w_pos' = [w_pos EXCEPT ![e] = NextPos(@)]
          /\ tx' = [tx EXCEPT ![e] = "notify"]
     ELSE /\ tx' = [tx EXCEPT ![e] = "idle"]
          /\ UNCHANGED <<w_count, w_pos>>
  /\ UNCHANGED <<r_count, state, frames, r_pos, intr, rx, buf, resets>>

\* The end of tegra_ivc_write_advance(): ring on empty to non-empty.
TxNotify(e) ==
  /\ tx[e] = "notify"
  /\ tx' = [tx EXCEPT ![e] = "idle"]
  /\ IF RingOnPublish(e) THEN Ring(e) ELSE UNCHANGED bell
  /\ UNCHANGED <<shared, pos, irq, seen, sched, rx, buf, resets>>

-----------------------------------------------------------------------------
(***************************************************************************)
(* The receive tasklet.                                                    *)
(***************************************************************************)

\* The softirq starts the scheduled tasklet.
RxStart(e) ==
  /\ rx[e] = "idle" /\ sched[e]
  /\ rx' = [rx EXCEPT ![e] = "check"]
  /\ sched' = [sched EXCEPT ![e] = FALSE]
  /\ UNCHANGED <<shared, pos, bell, irq, seen, tx, buf, resets>>

\* wake_up_all(&rpc->ivc_wq).
\* Mutant: the wake-up is forgotten.
WakeNobody(e) == UNCHANGED tx
WakeWriters(e) == tx' = [tx EXCEPT ![e] = IF @ = "wait" THEN "check" ELSE @]

\* while (tegra_ivc_can_read(...)): the next frame, or the end of the
\* tasklet, which wakes the writers.
RxCheck(e) ==
  /\ rx[e] = "check"
  /\ IF CanRead(e)
     THEN /\ NotifiedRaces \/ irq[e] = "idle"
          /\ rx' = [rx EXCEPT ![e] = "copy"]
          /\ UNCHANGED tx
     ELSE /\ rx' = [rx EXCEPT ![e] = "idle"]
          /\ WakeWriters(e)
  /\ UNCHANGED <<shared, pos, intr, buf, resets>>

\* The client reads the frame at r_pos.
RxCopy(e) ==
  /\ rx[e] = "copy"
  /\ buf' = [buf EXCEPT ![e] = frames[Peer(e)][r_pos[e]]]
  /\ rx' = [rx EXCEPT ![e] = "advance"]
  /\ UNCHANGED <<shared, pos, intr, tx, resets>>

\* tegra_ivc_read_advance() up to ivc_mb(): give the slot back.
RxAdvance(e) ==
  /\ rx[e] = "advance"
  /\ IF CanRead(e)
     THEN /\ r_count' = [r_count EXCEPT ![e] = Succ32(@)]
          /\ r_pos' = [r_pos EXCEPT ![e] = NextPos(@)]
          /\ rx' = [rx EXCEPT ![e] = "notify"]
     ELSE /\ rx' = [rx EXCEPT ![e] = "check"]
          /\ UNCHANGED <<r_count, r_pos>>
  /\ UNCHANGED <<w_count, state, frames, w_pos, intr, tx, buf, resets>>

\* The end of tegra_ivc_read_advance(): ring on full to non-full.
RxNotify(e) ==
  /\ rx[e] = "notify"
  /\ rx' = [rx EXCEPT ![e] = "check"]
  /\ IF RingOnRelease(e) THEN Ring(e) ELSE UNCHANGED bell
  /\ UNCHANGED <<shared, pos, irq, seen, sched, tx, buf, resets>>

-----------------------------------------------------------------------------
(***************************************************************************)
(* tegra_ivc_channel_notified().                                           *)
(***************************************************************************)

\* Between the check and the advance of a frame operation.
Busy(e) == tx[e] \in {"fill", "advance"} \/ rx[e] \in {"copy", "advance"}

\* The rows of the state transition table that reset the counters.
\* Mutant: an established endpoint reacts to ACK.
ClearOnAck(e) == state[Peer(e)] \in {"sync", "ack"}
MustClear(e) == \/ state[Peer(e)] = "sync"
                \/ state[e] = "sync" /\ state[Peer(e)] = "ack"

\* The rows that only move to EST.
MustMove(e) == ~MustClear(e) /\ state[e] = "ack"

\* Copy the peer's state and choose a row of the state transition table.
Observe(e) ==
  /\ irq[e] = "idle"
  /\ MustClear(e) => (NotifiedRaces \/ ~Busy(e))
  /\ irq' = [irq EXCEPT ![e] = IF MustClear(e) THEN "clear_w"
                               ELSE IF MustMove(e) THEN "move" ELSE "idle"]
  /\ seen' = [seen EXCEPT ![e] =
                IF MustClear(e) \/ MustMove(e) THEN state[Peer(e)] ELSE "est"]
  /\ sched' = [sched EXCEPT ![e] = @ \/ (~MustClear(e) /\ state[e] = "est")]
  /\ UNCHANGED <<shared, pos, tx, rx, buf, resets>>

\* The doorbell interrupt of e.  A channel that is not ready yet returns before
\* its client is told; tegra_ivc_bus_ready() rings for it again, so the step
\* stands for that later notification.
Doorbell(e) ==
  /\ bell[e]
  /\ bell' = [bell EXCEPT ![e] = FALSE]
  /\ Observe(e)

\* while (tegra_ivc_channel_notified(ivc)): a resetting client polls, and rings
\* when there is nothing to do yet.
Poll(e) ==
  /\ state[e] # "est"
  /\ Observe(e)
  /\ IF MustClear(e) \/ MustMove(e) THEN UNCHANGED bell ELSE Ring(e)

\* tx_channel->w_count = 0.
ClearW(e) ==
  /\ irq[e] = "clear_w"
  /\ w_count' = [w_count EXCEPT ![e] = 0]
  /\ irq' = [irq EXCEPT ![e] = "clear_r"]
  /\ UNCHANGED <<r_count, state, frames, pos, bell, seen, sched, tx, rx, buf, resets>>

\* Mutant: the private positions keep their values.
ClearRKeepPos(e) ==
  /\ irq[e] = "clear_r"
  /\ r_count' = [r_count EXCEPT ![e] = 0]
  /\ irq' = [irq EXCEPT ![e] = "move"]
  /\ UNCHANGED <<w_count, state, frames, pos, bell, seen, sched, tx, rx, buf, resets>>

\* rx_channel->r_count = 0, and the private positions.
ClearR(e) ==
  /\ irq[e] = "clear_r"
  /\ r_count' = [r_count EXCEPT ![e] = 0]
  /\ w_pos' = [w_pos EXCEPT ![e] = 0]
  /\ r_pos' = [r_pos EXCEPT ![e] = 0]
  /\ irq' = [irq EXCEPT ![e] = "move"]
  /\ UNCHANGED <<w_count, state, frames, bell, seen, sched, tx, rx, buf, resets>>

\* Mutant: the peer is not notified of the new state.
MoveSilently(e) ==
  /\ irq[e] = "move"
  /\ state' = [state EXCEPT ![e] = IF seen[e] = "sync" THEN "ack" ELSE "est"]
  /\ sched' = [sched EXCEPT ![e] = @ \/ seen[e] # "sync"]
  /\ irq' = [irq EXCEPT ![e] = "idle"]
  /\ seen' = [seen EXCEPT ![e] = "est"]
  /\ UNCHANGED <<w_count, r_count, frames, pos, bell, tx, rx, buf, resets>>

\* Store the new state and notify; once established, the client's notify
\* callback schedules the tasklet.
Move(e) ==
  /\ irq[e] = "move"
  /\ LET next == IF seen[e] = "sync" THEN "ack" ELSE "est"
     IN  /\ state' = [state EXCEPT ![e] = next]
         /\ sched' = [sched EXCEPT ![e] = @ \/ next = "est"]
  /\ Ring(e)
  /\ irq' = [irq EXCEPT ![e] = "idle"]
  /\ seen' = [seen EXCEPT ![e] = "est"]
  /\ UNCHANGED <<w_count, r_count, frames, pos, tx, rx, buf, resets>>

-----------------------------------------------------------------------------
(***************************************************************************)
(* Resets.                                                                 *)
(***************************************************************************)

Establishing(e) == irq[e] # "idle" /\ seen[e] # "sync"

\* tegra_ivc_channel_reset() by a client with no frame operation under way.
Reset(e) ==
  /\ resets > 0
  /\ ~Busy(e) /\ irq[e] = "idle"
  /\ ResetRaces \/ ~Establishing(Peer(e))
  /\ state' = [state EXCEPT ![e] = "sync"]
  /\ Ring(e)
  /\ resets' = resets - 1
  /\ UNCHANGED <<w_count, r_count, frames, pos, irq, seen, sched, tx, rx, buf>>

\* The processor of e restarts at any point of its threads: the shared
\* memory keeps its contents, tegra_ivc_init() zeroes the positions and
\* tegra_ivc_channel_reset() asks for a new handshake.
Reboot(e) ==
  /\ resets > 0
  /\ ResetRaces \/ ~Establishing(Peer(e))
  /\ state' = [state EXCEPT ![e] = "sync"]
  /\ w_pos' = [w_pos EXCEPT ![e] = 0]
  /\ r_pos' = [r_pos EXCEPT ![e] = 0]
  /\ irq' = [irq EXCEPT ![e] = "idle"]
  /\ seen' = [seen EXCEPT ![e] = "est"]
  /\ sched' = [sched EXCEPT ![e] = FALSE]
  /\ tx' = [tx EXCEPT ![e] = "idle"]
  /\ rx' = [rx EXCEPT ![e] = "idle"]
  /\ frames' = IF tx[e] = "fill"
               THEN [frames EXCEPT ![e][w_pos[e]] = Junk] ELSE frames
  /\ Ring(e)
  /\ resets' = resets - 1
  /\ UNCHANGED <<w_count, r_count, buf>>

-----------------------------------------------------------------------------
Writer(e) == \/ TxRetry(e) \/ TxGet(e) \/ TxFault(e)
             \/ \E d \in Data : TxFill(e, d)
             \/ TxAdvance(e) \/ TxNotify(e)

Tasklet(e) == \/ RxStart(e) \/ RxCheck(e) \/ RxCopy(e) \/ RxAdvance(e)
              \/ RxNotify(e)

Interrupt(e) == Doorbell(e) \/ ClearW(e) \/ ClearR(e) \/ Move(e)

Next == \E e \in Endpoints : \/ TxCall(e) \/ TxSignal(e)
                             \/ Writer(e) \/ Tasklet(e) \/ Interrupt(e)
                             \/ Poll(e)
                             \/ Reset(e)
                             \/ Reboot(e)

Spec == Init /\ [][Next]_vars

TypeOK ==
  /\ w_count \in [Endpoints -> Count]
  /\ r_count \in [Endpoints -> Count]
  /\ state   \in [Endpoints -> States]
  /\ frames  \in [Endpoints -> [Slot -> Data \cup {Junk}]]
  /\ w_pos   \in [Endpoints -> Slot]
  /\ r_pos   \in [Endpoints -> Slot]
  /\ bell    \in [Endpoints -> BOOLEAN]
  /\ irq     \in [Endpoints -> IrqPc]
  /\ seen    \in [Endpoints -> States]
  /\ sched   \in [Endpoints -> BOOLEAN]
  /\ tx      \in [Endpoints -> TxPc]
  /\ rx      \in [Endpoints -> RxPc]
  /\ buf     \in [Endpoints -> Data \cup {Junk}]
  /\ resets  \in 0 .. MaxResets

-----------------------------------------------------------------------------
(***************************************************************************)
(* Safety.                                                                 *)
(***************************************************************************)

\* The queue of e is in service for its receiver: the receiver has not begun
\* to clear its counters for a reset of e, and has cleared them for its own.
InService(e) == LET p == Peer(e) IN
                \/ state[p] = "est" /\ irq[p] = "idle"
                \/ state[p] = "ack" /\ state[e] # "sync"

\* The slot that is k frames after r_pos.
SlotAt(p, k) == IF p + k < NFrames THEN p + k ELSE p + k - NFrames

\* A frame is never read (tegra_ivc_read_get_next_frame to read_advance)
\* while the other side is writing it (write_get_next_frame to
\* write_advance), whatever the interleaving with resets and reboots.
NoTornFrame ==
  \A e \in Endpoints :
     ~ /\ tx[e] \in {"fill", "advance"}
       /\ rx[Peer(e)] \in {"copy", "advance"}
       /\ w_pos[e] = r_pos[Peer(e)]

\* A queue in service is never over-full, and the private write and read
\* positions of the two sides, which no side can compare, agree with the
\* distance of the shared counters (also when these wrap around).
QueueOK ==
  \A e \in Endpoints : InService(e) =>
     /\ Avail(e) <= NFrames
     /\ state[e] # "sync" => w_pos[e] = SlotAt(r_pos[Peer(e)], Avail(e))

\* tegra_ivc_channel_notified() takes a counter back to zero only while the
\* other side cannot use it: "the counters are not in use at this time".
CountersNotInUse ==
  \A e \in Endpoints :
     \/ irq[e] = "clear_w" /\ w_count[e] # 0
     \/ irq[e] \in {"clear_w", "clear_r"} /\ r_count[e] # 0
     => state[Peer(e)] # "est" /\ ~Busy(Peer(e))

\* An endpoint in ACK has cleared its counters and leaves them alone: "we have
\* just cleared our counters, so it is now safe for the remote end to start
\* using these values".
AckMeansCleared ==
  \A e \in Endpoints :
     state[e] = "ack" => /\ w_count[e] = 0 /\ r_count[e] = 0
                         /\ w_pos[e] = 0 /\ r_pos[e] = 0

\* Nobody will take another step on its own.
Quiescent == \A e \in Endpoints : /\ ~bell[e] /\ ~sched[e]
                                  /\ irq[e] = "idle" /\ rx[e] = "idle"
                                  /\ tx[e] \in {"idle", "wait"}

\* No doorbell is lost although it is rung only on the transitions from empty
\* and from full: when everyone rests, the handshake is over, every published
\* frame was read and no writer sleeps.
NoLostDoorbell ==
  Quiescent => \A e \in Endpoints : /\ state[e] = "est"
                                    /\ Avail(e) = 0
                                    /\ tx[e] = "idle"

-----------------------------------------------------------------------------
(***************************************************************************)
(* Refinement: the frames between the counters are a FIFO queue.           *)
(***************************************************************************)
Window(e) ==
  IF InService(e)
  THEN [i \in 1 .. Avail(e) |-> frames[e][SlotAt(r_pos[Peer(e)], i - 1)]]
  ELSE <<>>

LinkUp == \A e \in Endpoints : state[e] = "est" /\ irq[e] = "idle"

Fifo == INSTANCE IvcFifo WITH
          queue <- [e \in Endpoints |-> Window(e)],
          got   <- buf,
          link  <- IF LinkUp THEN "up" ELSE "down",
          None  <- Junk

\* The channel implements two bounded FIFO queues: frames are delivered once,
\* in order and unaltered, and are lost only by a reset.
FifoSpec == Fifo!Spec

-----------------------------------------------------------------------------
(***************************************************************************)
(* Liveness.  Woken threads, scheduled tasklets and pending interrupts run; *)
(* calls, polls, signals and resets need never happen.  The fairness of the *)
(* interrupt is strong because the model keeps it out of a frame operation *)
(* that a busy writer repeats forever.                                     *)
(***************************************************************************)
FairSpec == /\ Spec
            /\ \A e \in Endpoints : /\ WF_vars(Writer(e))
                                    /\ WF_vars(Tasklet(e))
                                    /\ SF_vars(Interrupt(e))

\* The handshake ends: once the resets stop, both ends stay established.
HandshakeEnds == <>[](\A e \in Endpoints : state[e] = "est")

\* A writer that found the queue full, or the channel down, gets its turn
\* (unless a signal or a reboot ends its wait).
WriterWakes == \A e \in Writers : tx[e] = "wait" ~> tx[e] \in {"get", "idle"}

\* A published frame is read, unless a reset takes the channel down.
FrameIsRead ==
  \A e \in Writers, c \in Count :
     (LinkUp /\ Avail(e) > 0 /\ w_count[e] = c)
       ~> (r_count[Peer(e)] = c \/ ~LinkUp)
=============================================================================
