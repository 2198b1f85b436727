------------------------------ MODULE BpmpMail ------------------------------
(***************************************************************************)
(* The CCPLEX side of the BPMP mail protocol: drivers/firmware/tegra/mail.c *)
(* with the channel operations of mail_t186.c.  Threads send requests over *)
(* a pool of thread channels (a semaphore and a bit mask of free channels) *)
(* and sleep until the doorbell interrupt completes them; callers with     *)
(* interrupts disabled share one polled channel under ach_lock.  Each      *)
(* channel is a pair of IVC queues of one frame (nframes = 1 in            *)
(* native_single_init), so a queue is abstracted to "holds a frame".       *)
(* The BPMP firmware is external.                                          *)
(***************************************************************************)
EXTENDS Naturals, FiniteSets

CONSTANTS
  Callers,      \* threads that call tegra_bpmp_send_receive()
  ACallers,     \* cpus that call tegra_bpmp_send_receive_atomic()
  NCh,          \* channel_cfg->thread_ch_cnt
  MaxTimeouts,  \* bound: waits for an answer that time out
  MaxSuspends,  \* bound: suspend and resume cycles
  None

ASSUME CallersAssumption == Callers \cap ACallers = {} /\ IsFiniteSet(Callers)
ASSUME NoneAssumption == None \notin Callers \cup ACallers
ASSUME NChAssumption == NCh \in Nat \ {0}
ASSUME BoundsAssumption == MaxTimeouts \in Nat /\ MaxSuspends \in Nat

TCh == 0 .. NCh - 1     \* thread channels
ACh == NCh              \* the channel of the atomic callers
Ch  == 0 .. NCh
Clients == Callers \cup ACallers

\* A frame holds a request, or the answer to it: it is identified by the caller.
Frame == Clients \cup {None}

VARIABLES
  obq,          \* the request in the outbound queue of a channel
  fw,           \* the request the firmware works on, per channel
  ibq,          \* does the inbound queue of a channel hold a frame?
  ibframe,      \* contents of the inbound frame
  ibptr,        \* is channel_area[ch].ib set (not NULL)?
  tch_free,     \* thread channels that are free
  tch_sem,      \* count of the semaphore
  to_complete,  \* thread channels waiting for completion
  completion,   \* count of the completion of a thread channel
  ach_lock,     \* holder of the spin lock, or None
  pc, ch,       \* progress of a caller, and its channel (ACh when it has none)
  answer,       \* the answer the call is about to return, or None
  warned,       \* did WARN_ON() of bpmp_free_master() fire?
  fwbell,       \* doorbell of the firmware
  irqbell,      \* doorbell of the CCPLEX
  timeouts, suspends

queues == <<obq, fw, ibq, ibframe>>
pool   == <<tch_free, tch_sem, to_complete, completion>>
bells  == <<fwbell, irqbell>>
vars   == <<obq, fw, ibq, ibframe, ibptr, tch_free, tch_sem, to_complete,
            completion, ach_lock, pc, ch, answer, warned, fwbell,
            irqbell, timeouts, suspends>>

TPc == {"idle", "down", "write", "ring", "wait", "recheck", "read", "up"}
APc == {"idle", "lock", "awrite", "aring", "await", "aread", "unlock"}

\* bpmp_mail_init().
Init ==
  /\ obq = [c \in Ch |-> None] /\ fw = [c \in Ch |-> None]
  /\ ibq = [c \in Ch |-> FALSE] /\ ibframe = [c \in Ch |-> None]
  /\ ibptr = [c \in Ch |-> FALSE]
  /\ tch_free = TCh /\ tch_sem = NCh
  /\ to_complete = {} /\ completion = [c \in TCh |-> 0]
  /\ ach_lock = None
  /\ pc = [t \in Clients |-> "idle"] /\ ch = [t \in Clients |-> ACh]
  /\ answer = [t \in Clients |-> None]
  /\ warned = FALSE
  /\ fwbell = FALSE /\ irqbell = FALSE
  /\ timeouts = MaxTimeouts /\ suspends = MaxSuspends

Goto(t, l) == pc' = [pc EXCEPT ![t] = l]

\* The call returns: its local variables are gone.
Return(t) == /\ Goto(t, "idle")
             /\ ch' = [ch EXCEPT ![t] = ACh]
             /\ answer' = [answer EXCEPT ![t] = None]

\* master_free(): the outbound queue of channel c has room.
MasterFree(c) == obq[c] = None

\* free_master(): tegra_ivc_read_advance(), which fails on an empty queue.
FreeMaster(c) == /\ ibq' = [ibq EXCEPT ![c] = FALSE]
                 /\ warned' = (warned \/ ~ibq[c])

-----------------------------------------------------------------------------
(***************************************************************************)
(* tegra_bpmp_send_receive().                                              *)
(***************************************************************************)

\* A thread or a cpu starts a call.
Call(t) ==
  /\ pc[t] = "idle"
  /\ Goto(t, IF t \in Callers THEN "down" ELSE "lock")
  /\ UNCHANGED <<queues, ibptr, pool, ach_lock, ch, answer, warned, bells, timeouts, suspends>>

\* down_timeout(&tch_sem, ...) succeeds.
Down(t) ==
  /\ pc[t] = "down" /\ tch_sem > 0
  /\ tch_sem' = tch_sem - 1
  /\ Goto(t, "write")
  /\ UNCHANGED <<queues, ibptr, tch_free, to_complete, completion, ach_lock, ch, answer, warned, bells, timeouts, suspends>>

\* down_timeout(&tch_sem, ...) expires.
DownTimeout(t) ==
  /\ pc[t] = "down" /\ tch_sem = 0
  /\ Return(t)
  /\ UNCHANGED <<queues, ibptr, pool, ach_lock, warned, bells, timeouts, suspends>>

\* __ffs(tch_free).
FirstFree == CHOOSE i \in tch_free : \A j \in tch_free : i <= j

\* Mutant: the channel stays in the mask of free channels.
WriteKeepsFree(t) ==
  /\ pc[t] = "write"
  /\ MasterFree(FirstFree)
  /\ ch' = [ch EXCEPT ![t] = FirstFree]
  /\ obq' = [obq EXCEPT ![FirstFree] = t]
  /\ to_complete' = to_complete \cup {FirstFree}
  /\ Goto(t, "ring")
  /\ UNCHANGED <<fw, ibq, ibframe, ibptr, tch_free, tch_sem, completion,
                 ach_lock, answer, warned, bells, timeouts, suspends>>

\* bpmp_write_threaded_ch(), under lock.
Write(t) ==
  /\ pc[t] = "write"
  /\ ch' = [ch EXCEPT ![t] = FirstFree]
  /\ IF MasterFree(FirstFree)
     THEN /\ tch_free' = tch_free \ {FirstFree}
          /\ obq' = [obq EXCEPT ![FirstFree] = t]
          /\ to_complete' = to_complete \cup {FirstFree}
          /\ Goto(t, "ring")
     ELSE /\ Goto(t, "up")
          /\ UNCHANGED <<tch_free, obq, to_complete>>
  /\ UNCHANGED <<fw, ibq, ibframe, ibptr, tch_sem, completion, ach_lock,
                 answer, warned, bells, timeouts, suspends>>

\* mail_ops->ring_doorbell(ch).
Ring(t) ==
  /\ pc[t] \in {"ring", "aring"}
  /\ fwbell' = TRUE
  /\ Goto(t, IF pc[t] = "ring" THEN "wait" ELSE "await")
  /\ UNCHANGED <<queues, ibptr, pool, ach_lock, ch, answer, warned, irqbell,
                 timeouts, suspends>>

\* Mutant: the completion is not consumed.
WaitDoneKeeps(t) ==
  /\ pc[t] = "wait" /\ completion[ch[t]] > 0
  /\ Goto(t, "read")
  /\ UNCHANGED <<queues, ibptr, pool, ach_lock, ch, answer, warned, bells,
                 timeouts, suspends>>

\* bpmp_trywait(): the completion was signalled.
WaitDone(t) ==
  /\ pc[t] = "wait" /\ completion[ch[t]] > 0
  /\ completion' = [completion EXCEPT ![ch[t]] = @ - 1]
  /\ Goto(t, "read")
  /\ UNCHANGED <<queues, ibptr, tch_free, tch_sem, to_complete, ach_lock, ch,
                 answer, warned, bells, timeouts, suspends>>

\* bpmp_trywait(): the timeout expires.
WaitTimeout(t) ==
  /\ pc[t] = "wait" /\ completion[ch[t]] = 0
  /\ timeouts > 0
  /\ timeouts' = timeouts - 1
  /\ Goto(t, "recheck")
  /\ UNCHANGED <<queues, ibptr, pool, ach_lock, ch, answer, warned, bells, suspends>>

\* Mutant: the timed-out call gives back the semaphore but not the channel.
RecheckUps(t) ==
  /\ pc[t] = "recheck"
  /\ ibptr' = [ibptr EXCEPT ![ch[t]] = ibq[ch[t]]]
  /\ Goto(t, IF ibq[ch[t]] THEN "read" ELSE "up")
  /\ UNCHANGED <<queues, pool, ach_lock, ch, answer, warned, bells, timeouts, suspends>>

\* bpmp_trywait(): master_acked() after the timeout, without the lock.  On
\* -ETIMEDOUT the call returns and gives back neither channel nor semaphore.
Recheck(t) ==
  /\ pc[t] = "recheck"
  /\ ibptr' = [ibptr EXCEPT ![ch[t]] = ibq[ch[t]]]
  /\ IF ibq[ch[t]] THEN Goto(t, "read") /\ UNCHANGED <<ch, answer>>
                   ELSE Return(t)
  /\ UNCHANGED <<queues, pool, ach_lock, warned, bells, timeouts, suspends>>

\* __bpmp_read_ch(): copy the answer, advance the inbound queue.
ReadCh(t) ==
  /\ answer' = [answer EXCEPT ![t] = ibframe[ch[t]]]
  /\ FreeMaster(ch[t])

\* Mutant: the call returns without up().
ReadReturns(t) ==
  /\ pc[t] = "read"
  /\ ibq' = [ibq EXCEPT ![ch[t]] = FALSE]
  /\ tch_free' = tch_free \cup {ch[t]}
  /\ Return(t)
  /\ UNCHANGED <<obq, fw, ibframe, ibptr, tch_sem, to_complete, completion,
                 ach_lock, warned, bells, timeouts, suspends>>

\* bpmp_read_ch(), under lock.
Read(t) ==
  /\ pc[t] = "read"
  /\ ReadCh(t)
  /\ tch_free' = tch_free \cup {ch[t]}
  /\ Goto(t, "up")
  /\ UNCHANGED <<obq, fw, ibframe, ibptr, tch_sem, to_complete, completion,
                 ach_lock, ch, bells, timeouts, suspends>>

\* Mutant: the unit is given back by bpmp_read_ch() and by its caller.
UpTwice(t) ==
  /\ pc[t] = "up"
  /\ tch_sem' = tch_sem + 2
  /\ Return(t)
  /\ UNCHANGED <<queues, ibptr, tch_free, to_complete, completion, ach_lock,
                 warned, bells, timeouts, suspends>>

\* up(&tch_sem).
Up(t) ==
  /\ pc[t] = "up"
  /\ tch_sem' = tch_sem + 1
  /\ Return(t)
  /\ UNCHANGED <<queues, ibptr, tch_free, to_complete, completion, ach_lock, warned, bells, timeouts, suspends>>

-----------------------------------------------------------------------------
(***************************************************************************)
(* tegra_bpmp_send_receive_atomic(), with one channel for all cpus.        *)
(***************************************************************************)

\* Mutant: the lock is not taken.
ANoLock(t) ==
  /\ pc[t] = "lock"
  /\ Goto(t, "awrite")
  /\ UNCHANGED <<queues, ibptr, pool, ach_lock, ch, answer, warned, bells, timeouts, suspends>>

\* raw_spin_lock(&ach_lock).
ALock(t) ==
  /\ pc[t] = "lock" /\ ach_lock = None
  /\ ach_lock' = t
  /\ ch' = [ch EXCEPT ![t] = ACh]
  /\ Goto(t, "awrite")
  /\ UNCHANGED <<queues, ibptr, pool, answer, warned, bells, timeouts, suspends>>

\* bpmp_write_ch(): bpmp_wait_master_free(), then the request.
AWrite(t) ==
  /\ pc[t] = "awrite" /\ MasterFree(ACh)
  /\ obq' = [obq EXCEPT ![ACh] = t]
  /\ Goto(t, "aring")
  /\ UNCHANGED <<fw, ibq, ibframe, ibptr, pool, ach_lock, ch, answer, warned,
                 bells, timeouts, suspends>>

\* bpmp_wait_ack() sees an answer.
AAcked(t) ==
  /\ pc[t] = "await" /\ ibq[ACh]
  /\ ibptr' = [ibptr EXCEPT ![ACh] = TRUE]
  /\ Goto(t, "aread")
  /\ UNCHANGED <<queues, pool, ach_lock, ch, answer, warned, bells, timeouts, suspends>>

\* bpmp_wait_master_free() or bpmp_wait_ack() times out.
ATimeout(t) ==
  /\ \/ pc[t] = "awrite" /\ ~MasterFree(ACh)
     \/ pc[t] = "await" /\ ~ibq[ACh]
  /\ timeouts > 0
  /\ timeouts' = timeouts - 1
  /\ Goto(t, "unlock")
  /\ UNCHANGED <<queues, ibptr, pool, ach_lock, ch, answer, warned, bells, suspends>>

\* __bpmp_read_ch().
ARead(t) ==
  /\ pc[t] = "aread"
  /\ ReadCh(t)
  /\ Goto(t, "unlock")
  /\ UNCHANGED <<obq, fw, ibframe, ibptr, pool, ach_lock, ch, bells, timeouts, suspends>>

\* raw_spin_unlock(&ach_lock).
AUnlock(t) ==
  /\ pc[t] = "unlock"
  /\ ach_lock' = None
  /\ Return(t)
  /\ UNCHANGED <<queues, ibptr, pool, warned, bells, timeouts, suspends>>

-----------------------------------------------------------------------------
(***************************************************************************)
(* The interrupt, suspend, and the firmware.                               *)
(***************************************************************************)

\* Mutant: the answer is not looked for.
AllAcked == to_complete

\* master_acked() for a channel in to_complete.
Acked == {c \in to_complete : ibq[c]}

\* bpmp_handle_irq(), the loop under lock: complete the acked channels; it
\* stops, and leaves the rest of channel_area alone, when none is left.  Threads
\* always write RING_DOORBELL, so bpmp_signal_thread() does not return early.
HandleIrq ==
  LET visited == {c \in TCh : to_complete \ {d \in Acked : d < c} # {}}
  IN  /\ irqbell
      /\ irqbell' = FALSE
      /\ to_complete' = to_complete \ Acked
      /\ completion' = [c \in TCh |-> completion[c] + (IF c \in Acked THEN 1 ELSE 0)]
      /\ ibptr' = [c \in Ch |-> IF c \in visited THEN ibq[c] ELSE ibptr[c]]
      /\ UNCHANGED <<queues, tch_free, tch_sem, ach_lock, pc, ch, answer,
                     warned, fwbell, timeouts, suspends>>

\* native_resume(): tegra_ivc_channel_reset() of every channel, and the
\* handshake, after which the counters, and with them the queues, are clear.
ResetChannels == /\ obq' = [c \in Ch |-> None]
                 /\ ibq' = [c \in Ch |-> FALSE]

\* tegra_bpmp_suspend() (-EBUSY unless to_complete is clear) and
\* tegra_bpmp_resume(), with all callers at rest.
SuspendResume ==
  /\ suspends > 0
  /\ to_complete = {}
  /\ \A t \in Clients : pc[t] = "idle"
  /\ suspends' = suspends - 1
  /\ ResetChannels
  /\ UNCHANGED <<fw, ibframe, ibptr, pool, ach_lock, pc, ch, answer, warned,
                 bells, timeouts>>

\* The firmware takes a request.
FwTake(c) ==
  /\ fwbell /\ obq[c] # None /\ fw[c] = None
  /\ fw' = [fw EXCEPT ![c] = obq[c]]
  /\ obq' = [obq EXCEPT ![c] = None]
  /\ UNCHANGED <<ibq, ibframe, ibptr, pool, ach_lock, pc, ch, answer, warned,
                 bells, timeouts, suspends>>

\* The firmware answers, and rings for a thread channel.
FwAnswer(c) ==
  /\ fw[c] # None /\ ~ibq[c]
  /\ ibframe' = [ibframe EXCEPT ![c] = fw[c]]
  /\ ibq' = [ibq EXCEPT ![c] = TRUE]
  /\ fw' = [fw EXCEPT ![c] = None]
  /\ irqbell' = (irqbell \/ c \in TCh)
  /\ UNCHANGED <<obq, ibptr, pool, ach_lock, pc, ch, answer, warned, fwbell,
                 timeouts, suspends>>

\* The firmware has looked at every channel.
FwSleep ==
  /\ fwbell /\ \A c \in Ch : obq[c] = None
  /\ fwbell' = FALSE
  /\ UNCHANGED <<queues, ibptr, pool, ach_lock, pc, ch, answer, warned,
                 irqbell, timeouts, suspends>>

-----------------------------------------------------------------------------
ThreadStep(t) == \/ Write(t) \/ Ring(t) \/ WaitDone(t) \/ Recheck(t)
                 \/ Read(t) \/ Up(t)

AtomicStep(t) == Ring(t) \/ AWrite(t) \/ AAcked(t) \/ ARead(t) \/ AUnlock(t)

Firmware == FwSleep \/ \E c \in Ch : FwTake(c) \/ FwAnswer(c)

Next == \/ \E t \in Clients : Call(t)
        \/ \E t \in Callers : \/ Down(t) \/ DownTimeout(t) \/ WaitTimeout(t)
                              \/ ThreadStep(t)
        \/ \E t \in ACallers : ALock(t) \/ ATimeout(t) \/ AtomicStep(t)
        \/ HandleIrq
        \/ SuspendResume
        \/ Firmware

Spec == Init /\ [][Next]_vars

\* Threads and cpus run, interrupts are taken, the firmware answers, and the
\* semaphore and the spin lock are handed out in order (both are queued), so
\* that no waiter is overtaken forever.  No timeout is fair, that of the
\* semaphore included: none ever has to expire.
FairSpec == /\ Spec
            /\ \A t \in Callers : WF_vars(ThreadStep(t)) /\ SF_vars(Down(t))
            /\ \A t \in ACallers : WF_vars(AtomicStep(t)) /\ SF_vars(ALock(t))
            /\ WF_vars(HandleIrq)
            /\ WF_vars(FwSleep)
            /\ \A c \in Ch : WF_vars(FwTake(c)) /\ WF_vars(FwAnswer(c))

TypeOK ==
  /\ obq \in [Ch -> Frame] /\ fw \in [Ch -> Frame] /\ ibframe \in [Ch -> Frame]
  /\ ibq \in [Ch -> BOOLEAN] /\ ibptr \in [Ch -> BOOLEAN]
  /\ tch_free \subseteq TCh /\ tch_sem \in 0 .. NCh
  /\ to_complete \subseteq TCh /\ completion \in [TCh -> Nat]
  /\ ach_lock \in ACallers \cup {None}
  /\ pc \in [Clients -> TPc \cup APc] /\ ch \in [Clients -> Ch]
  /\ answer \in [Clients -> Frame]
  /\ warned \in BOOLEAN /\ fwbell \in BOOLEAN /\ irqbell \in BOOLEAN
  /\ timeouts \in 0 .. MaxTimeouts /\ suspends \in 0 .. MaxSuspends

\* Callers of a thread channel that hold a unit of the semaphore but own no
\* channel (yet, or any more).
Between == {t \in Callers : pc[t] \in {"write", "up"}}
Owners  == {t \in Callers : pc[t] \in {"ring", "wait", "recheck", "read"}}

\* The semaphore counts the free channels, although it is taken before and
\* given back after the bit mask: __ffs(tch_free) never sees an empty mask.
PoolOK == Cardinality(tch_free) = tch_sem + Cardinality(Between)

\* A channel is used by one caller at a time and is not free meanwhile.
OneCallerPerChannel ==
  \A t \in Owners : /\ ch[t] \in TCh \ tch_free
                    /\ \A u \in Owners \ {t} : ch[u] # ch[t]

\* A wait that times out costs at most one channel of the pool, and nothing
\* else takes channels away.
PoolShrinksOnlyByTimeouts ==
  tch_sem + Cardinality(Between) + Cardinality(Owners)
    + (MaxTimeouts - timeouts) >= NCh

NoTimeoutYet == timeouts = MaxTimeouts

\* Until a wait times out, every caller is given the answer to its own
\* request, over a channel it shares with all the calls before.
OwnAnswer ==
  NoTimeoutYet => \A t \in Clients : answer[t] \in {None, t}

\* Until a wait times out, a completion is signalled once for each request: the
\* channel of a waiting caller is in to_complete or has been completed, and
\* no other channel is either.
CompletedOnce ==
  NoTimeoutYet =>
    \A c \in TCh :
       (IF c \in to_complete THEN 1 ELSE 0) + completion[c]
         = Cardinality({t \in Callers : pc[t] \in {"ring", "wait"} /\ ch[t] = c})

\* An answer is read only when there is one: tegra_ivc_read_advance() in
\* bpmp_free_master() succeeds ("WARN_ON(1)" is not reached).
NoFailedAdvance == ~warned

\* The same, until a wait times out; and channel_area[ch].ib is not NULL.
AnswerPresent ==
  NoTimeoutYet =>
    /\ NoFailedAdvance
    /\ \A t \in Clients :
          pc[t] \in {"read", "aread"} => ibq[ch[t]] /\ ibptr[ch[t]]

\* Every call returns though no timeout expires, that of down_timeout()
\* included: no doorbell and no completion is lost, and the semaphore and the
\* spin lock reach the callers that queue for them.
CallReturns ==
  \A t \in Clients : pc[t] # "idle" ~> pc[t] = "idle" \/ ~NoTimeoutYet
=============================================================================
