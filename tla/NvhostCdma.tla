----------------------------- MODULE NvhostCdma -----------------------------
(***************************************************************************)
(* Command DMA of a host1x channel (drivers/video/tegra/host/nvhost_cdma.c  *)
(* with host1x/host1x_cdma_t186.c).  A submit copies the commands of a job  *)
(* to a circular push buffer, blocking while it is full, and appends the    *)
(* job to the sync queue.  The handlers of the submit-complete interrupts   *)
(* (module NvhostIntr) retire finished jobs and free their slots.  A job    *)
(* that hangs is ended by the timeout of its channel, which increments the  *)
(* syncpoint in its place, replaces its commands by no-operations and       *)
(* restarts the DMA; closing the channel does the same at once.             *)
(*                                                                         *)
(* One channel and one syncpoint; a job increments it once, with its last   *)
(* command, and has a timeout.  The hardware may hang at any command.       *)
(***************************************************************************)
EXTENDS NvhostSyncpt, Sequences, FiniteSets

CONSTANTS
  PushBufferSize,  \* slots of the push buffer (512 in the code)
  Slots,           \* commands of each job, in the order of submission
  ClientId,        \* client of each job
  Updaters,        \* the worker of low_prio_wq, which runs submit-complete handlers
  Aborts,          \* is the channel of a device with support_abort_on_close?
  Start,           \* value of the syncpoint at boot
  None

Jobs == DOMAIN Slots

ASSUME BufferAssumption == PushBufferSize \in Nat /\ PushBufferSize > 1
ASSUME JobsAssumption ==
  /\ Slots \in Seq(Nat \ {0}) /\ Slots # <<>> /\ DOMAIN ClientId = Jobs
  /\ \A j \in Jobs : ClientId[j] # None
  /\ None \notin Jobs \X Nat
  /\ Len(Slots) < U32 \div 2
ASSUME CdmaAssumption ==
  /\ Start \in Nat \ {0} /\ Aborts \in BOOLEAN
  /\ IsFiniteSet(Updaters) /\ {"sub", "tmo", "abort"} \cap Updaters = {}
\* create_singlethread_workqueue("host_low_prio_wq").
ASSUME WorkerAssumption == Cardinality(Updaters) = 1

VARIABLES
  hw, min_val, max_val,   \* the syncpoint, its shadow, its value when all is done
  fence, cur,             \* push buffer: end of the free slots, next slot
  mem,                    \* command in each slot: <<job, index>>, or None
  get, last_put,          \* DMA: next slot to fetch, end of the slots to fetch
  running,
  slots_free, slots_used, \* of the submit in progress
  event, sem,             \* is the submit waiting for space, and its semaphore
  sync_queue,
  jfence, first_get, timeout,  \* of a job; timeout: does it have one?
  waiter,                 \* its submit-complete waiter: "none", "armed", "done"
  clientid, sp,           \* cdma->timeout: client and job it is about
  pending,                \* is the timeout work scheduled?
  next,                   \* job of the next or current submit
  was_idle,               \* local of nvhost_cdma_end()
  mine,                   \* job of an updater: <<handled, retired>>
  pc,
  raced                   \* history: the timer was started for a job that had been
                          \* retired meanwhile, or not at all for the head of the
                          \* queue; nothing reads it

sync   == <<hw, min_val, max_val>>
buffer == <<fence, cur, mem, get, last_put, running>>
submit == <<slots_free, slots_used, next, was_idle>>
wakeup == <<event, sem>>
job    == <<jfence, first_get, timeout>>
timer  == <<clientid, sp, pending>>
vars   == <<hw, min_val, max_val, fence, cur, mem, get, last_put, running,
            slots_free, slots_used, event, sem, sync_queue, jfence, first_get,
            timeout, waiter, clientid, sp, pending, next, was_idle, mine, pc,
            raced>>

Procs == Updaters \cup {"sub", "tmo", "abort"}

Init ==
  /\ hw = Start /\ min_val = Start /\ max_val = Start
  /\ fence = PushBufferSize - 1 /\ cur = 0
  /\ mem = [i \in 0 .. PushBufferSize - 1 |-> None]
  /\ get = 0 /\ last_put = 0 /\ running = FALSE
  /\ slots_free = 0 /\ slots_used = 0
  /\ event = "none" /\ sem = 0
  /\ sync_queue = <<>>
  /\ jfence = [j \in Jobs |-> Start] /\ first_get = [j \in Jobs |-> 0]
  /\ timeout = [j \in Jobs |-> TRUE]
  /\ waiter = [j \in Jobs |-> "none"]
  /\ clientid = None /\ sp = None /\ pending = FALSE
  /\ next = 1 /\ was_idle = FALSE
  /\ mine = [u \in Updaters |-> <<None, None>>]
  /\ pc = [p \in Procs |-> "idle"]
  /\ raced = FALSE

Goto(p, l) == pc' = [pc EXCEPT ![p] = l]

\* Holders of cdma->lock for reading.  down_read() also waits behind a writer.
Readers == {p \in Updaters : pc[p] \notin {"idle", "enter"}} \cup
           {p \in {"sub"} : pc[p] \in {"push", "check", "add", "kick", "timer"}}
CanRead == pc["abort"] # "write"

\* Mutant: plain unsigned comparison.
CompletedUnsigned(j) == Word(min_val) >= Word(jfence[j])

\* nvhost_syncpt_is_expired() of the fence of a job.
Completed(j) == IsExpired(Word(min_val), Word(max_val), TRUE, Word(jfence[j]))

-----------------------------------------------------------------------------
(***************************************************************************)
(* The timer.                                                              *)
(***************************************************************************)

\* cancel_delayed_work_sync() is in progress: scheduling the work has no effect.
Cancelling == \E u \in Updaters : pc[u] = "flush"

\* cdma_start_timer_locked().
StartTimer(j) ==
  IF clientid # None
  THEN UNCHANGED <<timer, raced>>
  ELSE /\ clientid' = ClientId[j] /\ sp' = j
       /\ pending' = (pending \/ (timeout[j] /\ ~Cancelling))
       /\ raced' = (raced \/ \A i \in DOMAIN sync_queue : sync_queue[i] # j)

-----------------------------------------------------------------------------
(***************************************************************************)
(* host1x_channel_submit(), one caller at a time (submitlock).              *)
(***************************************************************************)

\* nvhost_cdma_begin() with cdma_start(), and the fence of the job.
Begin ==
  /\ pc["sub"] = "idle" /\ next \in Jobs /\ CanRead
  /\ IF running
     THEN UNCHANGED <<running, last_put, get>>
     ELSE running' = TRUE /\ last_put' = cur /\ get' = cur
  /\ slots_free' = 0 /\ slots_used' = 0
  /\ first_get' = [first_get EXCEPT ![next] = cur]
  /\ max_val' = max_val + 1
  /\ jfence' = [jfence EXCEPT ![next] = max_val + 1]
  /\ Goto("sub", "push")
  /\ UNCHANGED <<hw, min_val, fence, cur, mem, wakeup, sync_queue, timeout,
                 waiter, timer, next, was_idle, mine, raced>>

\* Mutant: equal pointers mean an empty buffer.
SpaceIfEmpty == IF fence = cur THEN PushBufferSize
                               ELSE (fence - cur) % PushBufferSize

\* nvhost_push_buffer_space(): equal pointers mean a full buffer.
Space == (fence - cur) % PushBufferSize

\* nvhost_cdma_push_gather() when it knows of, or finds, a free slot.
Push ==
  /\ pc["sub"] = "push" /\ (slots_free > 0 \/ Space > 0)
  /\ slots_free' = (IF slots_free = 0 THEN Space ELSE slots_free) - 1
  /\ slots_used' = slots_used + 1
  /\ mem' = [mem EXCEPT ![cur] = <<next, slots_used + 1>>]
  /\ cur' = (cur + 1) % PushBufferSize
  /\ Goto("sub", IF slots_used + 1 = Slots[next] THEN "check" ELSE "push")
  /\ UNCHANGED <<sync, fence, get, last_put, running, wakeup, sync_queue, job,
                 waiter, timer, next, was_idle, mine, raced>>

\* nvhost_cdma_wait_locked(): nobody else waits for this cdma, both locks are
\* dropped.
WaitSpace ==
  /\ pc["sub"] = "push" /\ slots_free = 0 /\ Space = 0
  /\ event = "none" /\ event' = "space"
  /\ Goto("sub", "down")
  /\ UNCHANGED <<sync, buffer, submit, sem, sync_queue, job, waiter, timer, mine,
                 raced>>

\* ... and both are taken again after down(&cdma->sem).
Down ==
  /\ \/ pc["sub"] = "down" /\ sem > 0 /\ sem' = sem - 1 /\ Goto("sub", "relock")
     \/ pc["sub"] = "relock" /\ CanRead /\ Goto("sub", "push") /\ UNCHANGED sem
  /\ UNCHANGED <<sync, buffer, submit, event, sync_queue, job, waiter, timer, mine,
                 raced>>

\* nvhost_cdma_end(): is the queue empty?
EndCheck ==
  /\ pc["sub"] = "check"
  /\ was_idle' = (sync_queue = <<>>)
  /\ Goto("sub", "add")
  /\ UNCHANGED <<sync, buffer, slots_free, slots_used, next, wakeup, sync_queue,
                 job, waiter, timer, mine, raced>>

\* add_to_sync_queue().
EndAdd ==
  /\ pc["sub"] = "add"
  /\ sync_queue' = Append(sync_queue, next)
  /\ raced' = (raced \/ (~was_idle /\ sync_queue = <<>>))
  /\ Goto("sub", "kick")
  /\ UNCHANGED <<sync, buffer, submit, wakeup, job, waiter, timer, mine>>

\* cdma_kick().
EndKick ==
  /\ pc["sub"] = "kick"
  /\ last_put' = cur
  /\ Goto("sub", "timer")
  /\ UNCHANGED <<sync, fence, cur, mem, get, running, submit, wakeup, sync_queue,
                 job, waiter, timer, mine, raced>>

\* The timer, "on idle -> active transitions", and up_read().
EndTimer ==
  /\ pc["sub"] = "timer"
  /\ IF was_idle THEN StartTimer(next) ELSE UNCHANGED <<timer, raced>>
  /\ Goto("sub", "wait")
  /\ UNCHANGED <<sync, buffer, submit, wakeup, sync_queue, job, waiter, mine>>

\* nvhost_intr_add_action(): a submit-complete waiter.
AddAction ==
  /\ pc["sub"] = "wait"
  /\ waiter' = [waiter EXCEPT ![next] = "armed"]
  /\ next' = next + 1
  /\ Goto("sub", "idle")
  /\ UNCHANGED <<sync, buffer, slots_free, slots_used, was_idle, wakeup, sync_queue,
                 job, timer, mine, raced>>

-----------------------------------------------------------------------------
(***************************************************************************)
(* action_submit_complete(): nvhost_cdma_update(), by the worker.           *)
(***************************************************************************)

\* The worker takes a completed waiter of the syncpoint.
Take(u) ==
  /\ pc[u] = "idle"
  /\ min_val' = hw
  /\ \E j \in Jobs :
       /\ waiter[j] = "armed" /\ hw >= jfence[j]
       /\ \A v \in Updaters : mine[v][1] # j
       /\ mine' = [mine EXCEPT ![u] = <<j, None>>]
  /\ Goto(u, "enter")
  /\ UNCHANGED <<hw, max_val, buffer, submit, wakeup, sync_queue, job, waiter,
                 timer, raced>>

\* down_read(); a stopped cdma has nothing to retire.
Enter(u) ==
  /\ pc[u] = "enter" /\ CanRead
  /\ Goto(u, IF running THEN "scan" ELSE "exit")
  /\ UNCHANGED <<sync, buffer, submit, wakeup, sync_queue, job, waiter, timer, mine,
                 raced>>

\* The section of update_cdma_locked() under sync_queue_lock.
Scan(u) ==
  /\ pc[u] = "scan"
  /\ \/ sync_queue = <<>> /\ Goto(u, "exit") /\ UNCHANGED <<sync_queue, mine>>
     \/ /\ sync_queue # <<>>
        /\ mine' = [mine EXCEPT ![u][2] = Head(sync_queue)]
        /\ IF Completed(Head(sync_queue))
           THEN sync_queue' = Tail(sync_queue) /\ Goto(u, "cancel")
           ELSE UNCHANGED sync_queue /\ Goto(u, "start")
  /\ UNCHANGED <<sync, buffer, submit, wakeup, job, waiter, timer, raced>>

\* stop_cdma_timer_locked(): the work is taken off its queue, and if it runs
\* its end is awaited, with cdma->lock held.
Cancel(u) ==
  /\ \/ pc[u] = "cancel" /\ pending' = FALSE /\ Goto(u, "flush")
     \/ pc[u] = "flush" /\ pc["tmo"] = "idle" /\ Goto(u, "clear") /\ UNCHANGED pending
  /\ UNCHANGED <<sync, buffer, submit, wakeup, sync_queue, job, waiter, clientid, sp,
                 mine, raced>>

\* Mutant: the client is not cleared.
ClearNothing(u) ==
  /\ pc[u] = "clear" /\ Goto(u, "pop")
  /\ UNCHANGED <<sync, buffer, submit, wakeup, sync_queue, job, waiter, timer,
                 mine, raced>>

\* ... and under timeout_lock there is no timed client any more.
Clear(u) ==
  /\ pc[u] = "clear" /\ Goto(u, "pop")
  /\ clientid' = None
  /\ UNCHANGED <<sync, buffer, submit, wakeup, sync_queue, job, waiter, sp, pending,
                 mine, raced>>

\* Mutant: the submit that waits for space is not woken.
PopSilently(u) ==
  /\ pc[u] = "pop" /\ Goto(u, "scan")
  /\ fence' = (fence + Slots[mine[u][2]]) % PushBufferSize
  /\ UNCHANGED <<sync, cur, mem, get, last_put, running, submit, wakeup, sync_queue,
                 job, waiter, timer, mine, raced>>

\* The section under push_buffer_lock: free the slots, wake the submit.
Pop(u) ==
  /\ pc[u] = "pop" /\ Goto(u, "scan")
  /\ fence' = (fence + Slots[mine[u][2]]) % PushBufferSize
  /\ IF event = "space" THEN event' = "none" /\ sem' = sem + 1
                        ELSE UNCHANGED wakeup
  /\ UNCHANGED <<sync, cur, mem, get, last_put, running, submit, sync_queue, job,
                 waiter, timer, mine, raced>>

\* The first job is not finished: time it.
Restart(u) ==
  /\ pc[u] = "start" /\ Goto(u, "exit")
  /\ StartTimer(mine[u][2])
  /\ UNCHANGED <<sync, buffer, submit, wakeup, sync_queue, job, waiter, mine>>

\* up_read(); nvhost_module_idle_mult() and nvhost_putchannel().
Exit(u) ==
  /\ pc[u] = "exit" /\ Goto(u, "idle")
  /\ waiter' = [waiter EXCEPT ![mine[u][1]] = "done"]
  /\ mine' = [mine EXCEPT ![u] = <<None, None>>]
  /\ UNCHANGED <<sync, buffer, submit, wakeup, sync_queue, job, timer, raced>>

-----------------------------------------------------------------------------
(***************************************************************************)
(* cdma_handle_timeout().                                                  *)
(***************************************************************************)

\* The first job of the queue that is not finished.
FirstUnfinished == CHOOSE i \in DOMAIN sync_queue :
  /\ jfence[sync_queue[i]] > hw
  /\ \A k \in 1 .. i - 1 : jfence[sync_queue[k]] <= hw

\* It and the jobs of the timed client right after it.
Victims ==
  IF sync_queue = <<>> THEN {} ELSE
  {i \in FirstUnfinished .. Len(sync_queue) :
     \A k \in FirstUnfinished .. i : ClientId[sync_queue[k]] = clientid}
VictimJobs == {sync_queue[i] : i \in Victims}
LastVictim == sync_queue[CHOOSE i \in Victims : \A k \in Victims : k <= i]

\* Mutant: the cdma is left stopped.
StillStopped == FALSE

\* cdma_timeout_restart().
RunningAgain == TRUE

\* Slots of a job (cdma_timeout_pb_cleanup()).
SlotsOf(j) == {(first_get[j] + k) % PushBufferSize : k \in 0 .. Slots[j] - 1}

\* nvhost_cdma_update_sync_queue() with the teardown around it: the syncpoint is
\* moved past the jobs of the timed client, their commands become no-operations,
\* and the DMA starts again at the first of them, up to the end of what has
\* been pushed.  The hardware is assumed to have fetched the no-operations
\* before anything else happens.
UpdateSyncQueue ==
  /\ hw' = IF Victims = {} THEN hw ELSE jfence[LastVictim]
  /\ min_val' = hw'
  /\ timeout' = [j \in Jobs |-> timeout[j] /\ j \notin VictimJobs]
  /\ mem' = [i \in DOMAIN mem |->
               IF \E j \in VictimJobs : i \in SlotsOf(j) THEN None ELSE mem[i]]
  /\ get' = CASE sync_queue = <<>> -> last_put
              [] sync_queue # <<>> /\ Victims = {} ->
                   first_get[sync_queue[FirstUnfinished]]
              [] OTHER -> (first_get[LastVictim] + Slots[LastVictim]) % PushBufferSize
  /\ last_put' = cur
  /\ running' = RunningAgain

\* The part under cdma->lock.  The command processor is stopped meanwhile.
HandleTimeout ==
  \/ /\ clientid = None
     /\ UNCHANGED <<hw, min_val, timeout, mem, get, last_put, running>>
  \/ /\ clientid # None /\ hw >= jfence[sp]
     /\ min_val' = hw
     /\ UNCHANGED <<hw, timeout, mem, get, last_put, running>>
  \/ /\ clientid # None /\ hw < jfence[sp]
     /\ UpdateSyncQueue

\* The delayed work expires.
Fire ==
  /\ pending /\ pc["tmo"] = "idle"
  /\ pending' = FALSE /\ Goto("tmo", "mutex")
  /\ UNCHANGED <<sync, buffer, submit, wakeup, sync_queue, job, waiter, clientid, sp,
                 mine, raced>>

\* cdma_timeout_handler(): timeout_mutex, and down_write_trylock(), or again in
\* 10 ms.
Handler ==
  /\ pc["tmo"] = "mutex" /\ pc["abort"] # "write"
  /\ Goto("tmo", "idle")
  /\ \/ /\ Readers # {}
        /\ pending' = (pending \/ ~Cancelling)
        /\ UNCHANGED <<hw, min_val, timeout, mem, get, last_put, running>>
     \/ Readers = {} /\ HandleTimeout /\ UNCHANGED pending
  /\ UNCHANGED <<max_val, fence, cur, submit, wakeup, sync_queue, jfence, first_get,
                 waiter, clientid, sp, mine, raced>>

\* nvhost_channel_abort() when the channel is closed: timeout_mutex, and then
\* down_write(), which waits.
AbortBegin ==
  /\ Aborts /\ pc["abort"] = "idle" /\ pc["sub"] = "idle"
  /\ pc' = [pc EXCEPT !["abort"] = "write", !["sub"] = "closed"]
  /\ UNCHANGED <<sync, buffer, submit, wakeup, sync_queue, job, waiter, timer, mine,
                 raced>>

Abort ==
  /\ pc["abort"] = "write" /\ Readers = {}
  /\ HandleTimeout
  /\ Goto("abort", "done")
  /\ UNCHANGED <<max_val, fence, cur, submit, wakeup, sync_queue, jfence, first_get,
                 waiter, timer, mine, raced>>

-----------------------------------------------------------------------------
\* Nothing uses the channel: the host may be powered off, the channel unmapped.
Unused == /\ pc["sub"] \in {"idle", "closed"}
          /\ \A j \in Jobs : waiter[j] # "armed"

\* cdma_stop(), when the queue is empty.
Stop ==
  /\ Unused /\ CanRead /\ running
  /\ sync_queue = <<>>
  /\ running' = FALSE
  /\ UNCHANGED <<sync, fence, cur, mem, get, last_put, submit, wakeup, sync_queue,
                 job, waiter, timer, mine, pc, raced>>

\* External: host1x executes the next command; the last of a job increments.
Fetch ==
  /\ running /\ get # last_put
  /\ get' = (get + 1) % PushBufferSize
  /\ hw' = IF mem[get] # None /\ mem[get][2] = Slots[mem[get][1]] THEN hw + 1 ELSE hw
  /\ UNCHANGED <<min_val, max_val, fence, cur, mem, last_put, running, submit, wakeup,
                 sync_queue, job, waiter, timer, mine, pc, raced>>

\* Any thread that waits for the syncpoint updates the shadow.
UpdateMin ==
  /\ min_val # hw /\ min_val' = hw
  /\ UNCHANGED <<hw, max_val, buffer, submit, wakeup, sync_queue, job, waiter, timer,
                 mine, pc, raced>>

SubStep == Begin \/ Push \/ WaitSpace \/ Down \/ EndCheck \/ EndAdd \/ EndKick
           \/ EndTimer \/ AddAction
Update(u) == Take(u) \/ Enter(u) \/ Scan(u) \/ Cancel(u) \/ Clear(u) \/ Pop(u)
             \/ Restart(u) \/ Exit(u)

Next ==
  \/ SubStep
  \/ \E u \in Updaters : Update(u)
  \/ Fire \/ Handler
  \/ AbortBegin \/ Abort
  \/ Stop \/ Fetch \/ UpdateMin

Spec == Init /\ [][Next]_vars

\* Threads run, and a delayed work expires; the hardware owes nothing.
FairSpec ==
  /\ Spec
  /\ WF_vars(SubStep)
  /\ \A u \in Updaters : WF_vars(Update(u))
  /\ WF_vars(Fire) /\ WF_vars(Handler) /\ WF_vars(Abort)

-----------------------------------------------------------------------------
(***************************************************************************)
(* Properties.                                                             *)
(***************************************************************************)

\* The comparisons of syncpoint values agree with the order of the increments
\* at every point of a wrap, but for the current value (see OrderOK).
ThresholdOrder == OrderOK(min_val, max_val)

\* The commands of a job stay in the push buffer until the job is finished, and
\* the DMA has not passed its last one: no submit overruns them, and no restart
\* after a timeout skips or repeats a job.
CommandsIntact ==
  \A i \in DOMAIN sync_queue :
    LET j == sync_queue[i]
        last == (first_get[j] + Slots[j] - 1) % PushBufferSize
        at(k) == (first_get[j] + k) % PushBufferSize
    IN  jfence[j] > hw =>
          /\ \A k \in 0 .. Slots[j] - 1 : mem[at(k)] = <<j, k + 1>>
          /\ (get - fence) % PushBufferSize <= (last - fence) % PushBufferSize

\* A timeout is about an unfinished job of the sync queue, of the client it
\* names, so the recovery finds where to restart and never reads past the end
\* of the queue.
TimeoutJobQueued ==
  (clientid # None /\ jfence[sp] > hw) =>
    /\ clientid = ClientId[sp]
    /\ \E i \in DOMAIN sync_queue : sync_queue[i] = sp

\* Nobody is in the middle of an operation that sets the timer.
Settled == /\ \A u \in Updaters : pc[u] \in {"idle", "enter", "exit"}
           /\ pc["sub"] \notin {"kick", "timer"}
           /\ pc["tmo"] = "idle"

\* An unfinished job at the head of the queue is timed when nobody is in the
\* middle of setting the timer: "start timer on idle -> active transitions".
HeadTimed ==
  (/\ Settled
   /\ sync_queue # <<>> /\ jfence[Head(sync_queue)] > hw) =>
      clientid # None /\ sp = Head(sync_queue) /\ pending

\* That is so however retirements, submits, timeouts and trylocks interleave,
\* until a submit found the queue in use and the queue drained before its job
\* was added, or started the timer for a job that was retired meanwhile.
TimerKept == HeadTimed \/ raced

\* cdma_stop() never has to wait for the queue: when the channel is unused it
\* is empty (the wait would be in the thread that retires its jobs).
StopFindsEmpty == Unused => sync_queue = <<>>

\* A retirement waits for the timeout work with cdma->lock held, the work waits
\* for timeout_mutex, and the abort that holds it waits for cdma->lock.
CircularWait == /\ \E u \in Updaters : pc[u] = "flush"
                /\ pc["tmo"] = "mutex" /\ pc["abort"] = "write"

\* Whatever job hangs, every submit gets its space and every job is retired,
\* unless its timer was lost in a race or a close met the circular wait.
Drains ==
  <>(raced \/ CircularWait) \/
  <>[](/\ pc["sub"] \in {"idle", "closed"} /\ sync_queue = <<>>
       /\ \A j \in Jobs : waiter[j] # "armed")
=============================================================================
