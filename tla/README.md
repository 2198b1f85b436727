# A TLA+ model of the communication and submission core of linux-nvidia

The repository holds NVIDIA's out-of-tree Linux drivers for Tegra: about 1560
files and 650,000 lines, most of it register programming for one device each.
Two parts have protocols of their own, used by the rest. One is the
communication of the CPU complex (CCPLEX) with the other processors of the chip:
shared-memory channels (IVC), remote procedure calls on top of them, and the mail
protocol to the power-management processor (BPMP). The other is nvhost, through
which the multimedia engines get their work: syncpoints, the waiters for them,
and the command DMA of a channel. This project models these, checks them with
TLC and proves central properties with TLAPS.

## 1. Inventory

| Component | State | Operations | Interaction | What is hard |
|---|---|---|---|---|
| IVC channel, `drivers/platform/tegra/tegra-ivc.c` | shared: per direction `w_count`, `r_count`, `state`, frames; private: `w_pos`, `r_pos` | get/advance a frame on either side, `channel_reset`, `channel_notified` | shared memory and a doorbell; no lock across processors | free-running counters that wrap, doorbells only on transitions, reset and reboot in the middle of anything |
| IVC bus, `rtcpu/ivc-bus.c` | list of channels, `ops` under RCU | create a channel, `tegra_hsp_notify` | the doorbell interrupt calls `channel_notified`, then the client's `notify` | interrupt against the client's threads |
| IVC RPC, `rtcpu/tegra-ivc-rpc.c` | `tx_list`, TX descriptors, timers, completions | `tegra_ivc_rpc_call`, receive tasklet, timer handler | threads, tasklet and timers share descriptors | who frees a descriptor; a timeout racing the answer |
| BPMP mail, `firmware/tegra/mail.c`, `mail_t186.c` | `tch_sem`, `tch_free`, `to_complete`, completions, `channel_area` | `send_receive`, `send_receive_atomic`, `handle_irq`, `suspend`, `resume` | one IVC pair with one frame per channel, doorbells both ways | a pool with a semaphore and a mask, timeouts, late answers, one interrupt for many channels |
| Mailman, `firmware/tegra/mailman.c` | table of MRQ handlers | request, cancel, handle | called from `bpmp_handle_irq` | dispatch against cancel, unregistered MRQs |
| Capture IVC, `rtcpu/capture-ivc.c` | callback contexts per channel id | register, notify id, unregister, worker | client of an IVC channel | registration against the receive worker |
| nvhost waiters, `drivers/video/tegra/host/nvhost_{intr,syncpt}.c`, `host1x/host1x_{intr,syncpt}.c` | syncpoint registers with shadows `min_val`, `max_val`; waiters sorted by threshold, reference counted; usage count of the host | add action, wait with timeout, threshold interrupt, low priority work, put reference, power off and on | threads, interrupt and worker share the list; handlers run without the lock | modular comparison at a wrap, cancellation against removal, work queued after the lock is dropped, losing increments with power |
| nvhost command DMA, `nvhost_cdma.c`, `host1x/host1x_cdma_t186.c`, `nvhost_channel.c` | push buffer, sync queue, timer, `event` and `sem` | begin, push, end; update; timeout; abort; stop | submitter, completion worker, timeout work and closing thread under one rwsem and four mutexes | space at its limit, timer against retirement, recovery of a hung job, lock order |
| the rest (nvmap, display, sound, media, sensors, CAN, crypto) | | | | outside the scope: device programming |

Correctness, per component:

* IVC: a queue is a FIFO; no frame is torn; private positions agree with shared
  counters; a reset never clears a counter in use; no doorbell is lost.
* RPC: a descriptor is freed once, by its last user; every call ends, and a
  callback is called once.
* nvhost waiters: nobody is told early, nobody is forgotten, a waiter is freed by
  its last user, and the host loses power only when no increment is lost.
* nvhost command DMA: commands survive until executed, a hung job is timed and
  recovered, and every submit and every job ends.
* BPMP mail: a channel has one caller; semaphore and mask agree; a caller gets
  its own answer; every call returns.

`PROJECT.json` lists the hazards, each at its line, with the properties that
would catch it going wrong.

## 2. Modules

| Module | Models | Notes |
|---|---|---|
| `IvcChannel` | both endpoints of a channel, with the RPC client's writer and tasklet and the interrupt | one step per access to memory another party may use |
| `IvcFifo` | what a channel promises: two bounded FIFO queues that lose frames only while the link is down | abstract |
| `IvcHistory` | `IvcChannel` with a record of the races each endpoint met | history variables only; TLAPS |
| `MCIvc` | `IvcChannel` with the symmetry of frame contents | for TLC |
| `IvcProofs` | proofs about `IvcChannel` and `IvcHistory` | TLAPS |
| `BpmpMail` | CCPLEX side of the mail protocol over Tegra186 IVC channels | firmware external |
| `BpmpProofs` | proofs about the pool of thread channels | TLAPS |
| `BpmpAnswerProofs` | proofs about requests, answers and completions | TLAPS; extends `BpmpProofs` |
| `NvhostSyncpt` | the modular comparisons of syncpoint values, and the order they stand for | operators; both nvhost modules extend it |
| `NvhostIntr` | one syncpoint, its waiters, threads, interrupt, worker and the power of the host | hardware external |
| `NvhostCdma` | command DMA of one channel: submit, retirement, timeout, abort, stop | DMA engine external |
| `MCCdma` | sizes and clients of the jobs | for TLC |
| `NvhostOrderProofs` | proofs about the modular comparisons | TLAPS |
| `NvhostIntrProofs` | proofs about the lists of waiters and their references | TLAPS |
| `NvhostPowerProofs` | proofs about the usage count, the shadow and the interrupt | TLAPS; extends the two above |
| `NvhostCdmaProofs` | proofs about `NvhostCdma` | TLAPS; extends `NvhostOrderProofs` |
| `IvcRpc` | calls, tasklet and timers of the RPC layer over two bounded queues | remote processor external |
| `IvcRpcProofs` | proofs about `IvcRpc` | TLAPS |

Operators defined just before a definition and commented "Mutant" are faulty
variants of it; no specification uses them. Replacing the definition by its
mutant must make the property named in `PROJECT.json` fail.

### IvcChannel

The queue of endpoint `e` is described by `w_count[e]`, written by `e`, and
`r_count[Peer(e)]`, written by its peer, as the two cache lines of
`struct ivc_channel_header` are; `state[e]` is `tx_channel->state`. `U32`
stands for 2^32. `bell[e]` is the doorbell of `e`, `sched[e]` the tasklet's
scheduled bit; `tx`, `rx` and `irq` are the program counters of the writer
(one at a time: clients hold `ivc_wr_lock`), the receive tasklet and
`tegra_ivc_channel_notified()`; `seen` is the local `peer_state`.

* Writer: `TxCall`, `TxRetry`, `TxSignal` (the `wait_event_interruptible` of
  `tegra_ivc_rpc_call`), `TxGet`, `TxFill` or `TxFault`, `TxAdvance` (publish),
  `TxNotify` (ring on empty to non-empty).
* Tasklet: `RxStart`, `RxCheck`, `RxCopy`, `RxAdvance`, `RxNotify`.
* Handshake: `Doorbell` or `Poll` observe the peer's state and choose a row of
  the transition table; `ClearW`, `ClearR` and `Move` carry it out.
* `Reset` is `tegra_ivc_channel_reset()`; `Reboot` is a restart at any point,
  the shared memory surviving: initialisation of the private positions, then a
  reset.

Two constants admit what the code does wrong. `ResetRaces` lets an endpoint be
reset while its peer is between observing the state and storing EST.
`NotifiedRaces` lets the interrupt clear counters while the same endpoint's writer
or reader is between its check and its advance, which nothing in `ivc-bus.c`
prevents. The code has both races: TRUE is the code, FALSE restricts it. The
passing runs set both FALSE and show that nothing else goes wrong; with one of
them TRUE there is a violation (section 4).

`Doorbell` leaves out the early return for a channel that is not ready: its client
is not told, but `tegra_ivc_bus_ready()` runs the notification again.

`IvcHistory` adds, without restricting any step, `overlap` (a frame operation of
the endpoint ran into the clearing of its counters) and `blind` (the endpoint moved
to EST although its peer had gone back to SYNC). Its properties hold with both
races admitted: `ClearedUnlessRaced` says which endpoints may see a counter cleared
under them, `AckUnlessOverlapped` that an acknowledged reset has cleared counters
unless the endpoint's own frame operation got in between. They are proved
(section 5) for all constants.

The initial state is a channel that came up: `ivc-bus.c` hands out zeroed
memory, in which all counters are zero and `state` is established.

### BpmpMail

`obq`, `fw` and `ibq` follow a request of a channel from the outbound queue to
the firmware and back. Frames are identified by the caller that asked, so that
"its own answer" is an equation. `ibptr` tells whether `channel_area[ch].ib` is
NULL. A thread goes through `Call`, `Down`, `Write`, `Ring`, `WaitDone` (or
`WaitTimeout` and `Recheck`), `Read`, `Up`; an atomic caller through `Call`,
`ALock`, `AWrite`, `Ring`, `AAcked`, `ARead`, `AUnlock`, with `ATimeout`.
`DownTimeout` is `down_timeout` giving up. `HandleIrq` is the loop of
`bpmp_handle_irq` under its lock; the test of `ob->flags` in `bpmp_signal_thread()`
is left out, since threads always set `RING_DOORBELL`. `SuspendResume` is
a whole cycle: no caller runs during it, and `native_resume` resets all
channels.

### IvcRpc

A call, its descriptor and its frames share a sequence number. `tx_desc` tells
whether the descriptor is allocated, `rx_timer` how far the timer of an
asynchronous call got. The caller (`Call` ... `Exit`), the timer (`TimerFire`,
`TimerLock`, `TimerEnd`) and the tasklet (`RxFind`, `RxFill`, `RxFinish`)
interleave; critical sections under `tx_list_lock` are single steps. The remote
processor answers in any order, late, with the wrong type, or never. `Modes` are
the modes of the calls. No race is left out: the wait of a synchronous call may
time out after the tasklet took the descriptor, and the tasklet may take it after
the timer handler was entered, so a descriptor may be freed under the tasklet or
under the handler. `FreedUnderLateUser` says that these are the only two cases. A
descriptor that was freed keeps its contents in the model: what happens when the
memory is used again in between is not followed.

### NvhostSyncpt

`IsExpired`, `CompareRef` and `Compare` are the C functions over `U32` values.
Both nvhost modules keep true, unwrapped values and pass `Word(v)` to the code's
comparisons, so a wrap cannot hide. `OrderOK` is the reference: expired means "not
among the outstanding increments", and the order is that of the increments, with
one exception. The comment at `nvhost_syncpt.c:516` promises -1 when `a` triggers
before `b`; when `b` is the current value and `a` an earlier one, the code returns
1, because `b - ref` is then zero (line 550): the current value, the latest of the
expired ones, is compared as the earliest. `OrderOK` states this result.

### NvhostIntr

`wait_head` is the list of a syncpoint, `low_prio` the lists of completed waiters
for the worker, `todo[p]` the list a process handles without the lock, `state`,
`refcount`, `target` and `count` the fields of a waiter. The reads of the shadow
and the register in `t20_syncpt_update_min()` (`UpdateRead`) and its cmpxchg
(`CmpXchg`, `UpdateAgain`) are separate steps.

* Thread: `WaitBegin`, `Check`, `NoTimeout`, `AddAction`, `Woken`, `CheckPeriod`
  or `GiveUp`, `PutRef`, then `process_wait_list()` and `WaitEnd`.
* Job: `Submit`, `AddAction`; notifier: `RegisterNotifier`, `AddAction`.
* `process_wait_list()`, by a thread or by the interrupt: `ProcessRead`, `Lock`,
  `RemoveCompleted` for each waiter, `Rearm`, and without the lock `RunHandler`,
  `PutHandled`, `RunDone`. `LowPrioWork` takes the completed jobs and notifiers
  over and handles them in the same way.
* `ThreshIsr` takes the look at the status, the acknowledgement, which disables the
  interrupt, the update of the shadow and `nvhost_module_busy()` in one step, so a
  loss of power between them is not seen; `PowerCycle` is off and on when `busy`,
  the usage count, is zero.

The body of the job's handler, `nvhost_cdma_update()`, is the subject of the next
module; here it only ends the uses of the host.

### NvhostCdma

`fence` and `cur` are the push buffer's pointers, `get` and `last_put` the DMA's,
`mem` what is in each slot. `sync_queue`, `event` and `sem` are the fields of
`struct nvhost_cdma`; `clientid`, `sp` and `pending` the timer; `waiter` tells how
far the submit-complete waiter of a job is. Each critical section is a step.

* Submitter, one at a time (`submitlock`): `Begin`, `Push` or `WaitSpace` and
  `Down`, `EndCheck`, `EndAdd`, `EndKick`, `EndTimer`, `AddAction`.
* Handler: `Take`, `Enter`, then per job `Scan`, `Cancel`, `Clear`, `Pop`, and at
  the first unfinished job `Restart`; `Exit`. There is one at a time:
  `action_submit_complete()` is a low priority action, run by the one thread of
  `host_low_prio_wq` (`nvhost_intr.c:576`), and nobody else calls
  `nvhost_cdma_update()`. `WorkerAssumption` says so.
* Timeout: `Fire`, `Handler`; closing: `AbortBegin`, `Abort`; both do
  `HandleTimeout`. `Stop` is `cdma_stop()`.

`cdma->lock` is not a variable: `Readers` are those between `down_read` and
`up_read`, a waiting writer keeps new readers out, and the writers' sections are
single steps. `raced` is a history variable for the two races of section 4. Every
job has a timeout; a client may also set none, and such a job is never recovered.
One assumption is made about the hardware: after a recovery it fetches the
no-operations that replace a job before anything overwrites them. `get` is therefore
put behind them, and a wrong restart point would show only in a recovery that
replaces nothing.

## 3. Runs

| Run | Instance | Shows |
|---|---|---|
| `ivc_stream` | one writer, 2 frames, counters modulo 4, 2 contents, 1 reset | FIFO refinement, no torn frame, consistent positions, no counter cleared in use, no lost doorbell |
| `ivc_live` | one writer, 1 frame, counters modulo 2, 2 resets, fair | acknowledged counters are clear, no lost doorbell, the handshake ends, writers wake, frames are read |
| `bpmp_pool` | 2 threads, 2 thread channels, 1 timeout, 1 suspend | pool, completions, answers |
| `bpmp_calls` | 2 threads on 1 thread channel, 2 atomic callers, 1 timeout, fair | own answers, every call returns |
| `ivc_rpc` | 3 calls of either mode, queues of 1 frame, fair | descriptors and callbacks with all races, every call ends |
| `nvhost_intr` | 1 thread, 2 jobs of one channel, 1 low priority notifier, values modulo 8, start just below the wrap | reference counts, one handling, an armed interrupt, no early news, no stranded work, safe power off |
| `nvhost_cdma` | 4 jobs of 2 clients, 7 commands in 4 slots, values modulo 16, a close, fair | commands intact, timer kept, recovery finds its job, everything drains |
| `ivc_reset_race`, `ivc_notified_race` | `IvcChannel` with one race admitted | findings 1 and 2 |
| `bpmp_timeout` | 1 thread, 1 channel, 1 timeout | finding 3 |
| `ivc_rpc_timer` | 1 asynchronous call | finding 4 |
| `nvhost_cdma_timer` | as `nvhost_cdma`, without the close | finding 5 |

Bounds. Two frames are the least that distinguish order, positions and counters;
modulo 4 is the least power of two above two frames that also leaves an
over-full value, so wrap-around and the over-full test happen often. A ring of
one frame makes the full and the empty transition coincide, the hardest case
for the doorbell rules and the one BPMP uses. One reset reaches every row of the
transition table, two let a second reset land inside the first handshake. Two
callers over two channels let a channel be handed over while the other is in
use, and one interrupt answer both; two callers of one channel contend for the
semaphore, two atomic callers for the lock. Three calls over one frame let a
call wait for the queue while others time out. In `nvhost_intr` two jobs of one
channel are what merging needs, and a start below the wrap puts thresholds on both
sides of it; values modulo 8 leave room for fewer than half outstanding, which the
signed comparison of `nvhost_intr.c` requires and 2^32 gives. In `nvhost_cdma` the
jobs do not fit the push buffer together, so a submit waits for a retirement; two
jobs of one client, one of another and one more of the first show a recovery that
must stop at a change of client; the pointers wrap. The theorems of section 5 remove these bounds for
the FIFO refinement and for all safety properties, `CountersNotInUse` and
`AckMeansCleared` in the form `IvcHistory` gives them.

Deadlock is checked everywhere but in `IvcRpc` and the nvhost modules, where the
number of calls and jobs is bounded and the system rests when all are done;
`CallEnds` and `Drains` say that it rests nowhere else.

Fairness. `IvcChannel`: weak for the writer and the tasklet (threads and
softirqs are scheduled), strong for the interrupt, since the model keeps the
interrupt out of a frame operation, which a busy writer repeats forever; calls,
signals, polls and resets need never happen. `BpmpMail`: weak for threads, the
interrupt and the firmware, whose answering the liveness of calls depends on;
strong for the semaphore and the spin lock, both of which queue their waiters.
No timeout has fairness, neither that of a wait for an answer nor `DownTimeout`, and
`CallReturns` does not rely on them: a thread that waits for the semaphore gets it
because another gives its channel back. `IvcRpc`:
weak for threads, the tasklet and timers; none for the remote processor.
`NvhostCdma`: weak for the submitter, the handlers, the delayed work and the
closing thread; none for the hardware, which may hang at any command.

## 4. Findings

1. `ivc_reset_race`. The comment at `tegra-ivc.c:695` says that the peer, being
   in ACK, makes no progress until the local state changes. A peer that read the
   old EST or ACK state before the second reset still stores EST afterwards, and
   uses counters while they are cleared.
2. `ivc_notified_race`. The interrupt calls `tegra_ivc_channel_notified()`
   without the writer's lock (`ivc-bus.c:233`); a counter may be incremented
   after it was cleared and before, or after, ACK is offered.
3. `bpmp_timeout`. A wait that times out but finds its answer
   (`mail.c:357`) leaves the channel in `to_complete`; the completion the
   interrupt then signals makes the next caller read too early, and the
   `WARN_ON(1)` at `mail_t186.c:456` is reached.
4. `ivc_rpc_timer`. The comment at `tegra-ivc-rpc.c:232` says that a timer handler
   that was entered when the answer arrives will not find the descriptor. The
   handler is handed the descriptor and reads it (lines 356 and 362) to find out,
   when the tasklet may have freed it (line 308): `del_timer()` does not wait.
5. `nvhost_cdma_timer`. `nvhost_cdma_end()` reads `was_idle`, drops
   `sync_queue_lock` and adds the job (`nvhost_cdma.c:647`). If the queue drains in
   between, the job is at the head and has no timer; if it hangs, it hangs for good.
   It also starts the timer after the lock was dropped (line 660): if the worker has
   retired the job by then, the timer refers to it, and, since a timer seems to run,
   the next job gets none. Both violate `HeadTimed`; `TimerKept` and `Drains` except
   them (`raced`). At line 349 the same cannot happen, the only thread that retires
   jobs being the one that starts the timer.

Three more disagreements are stated by passing properties:

* A handler waits in `cancel_delayed_work_sync()` with `cdma->lock` held
  (`nvhost_cdma.c:292`); the timeout work waits for `timeout_mutex`;
  `nvhost_channel_abort()` holds `timeout_mutex` and waits in `down_write()`. This
  needs a device with `support_abort_on_close` (`t186/t186.c:215`). `Drains` excepts
  it (`CircularWait`), and says that, but for the timer races, nothing else gets stuck.
* The comment at `tegra-ivc-rpc.c:495` says that a timed-out descriptor is still in
  `tx_list`; the tasklet may already have taken it, and still be filling it when the
  caller frees it. This is the first case of `FreedUnderLateUser`.
* `_nvhost_syncpt_compare()` at the current value (section 2): `OrderOK` states what
  the code returns.

## 5. Proofs

`IvcProofs` proves, for every `NFrames`, `U32 > NFrames`, `Data` and number of
resets, `Spec => []TypeOK` without further assumptions and, assuming `~ResetRaces`
and `~NotifiedRaces`, the invariance of `NoTornFrame` and `QueueOK`. Both assumptions
restrict the code: with a race the queue is not consistent, as the runs show. The
inductive invariant `IInv` has three parts per endpoint: `Local` (how the
program counters relate to the endpoint's own state: a busy endpoint is
established and not in the interrupt, an endpoint about to move or in ACK has
cleared counters), `Handshake` (what a chosen row says about the peer: an
endpoint that will store EST has a peer that is not in SYNC) and `QueueInv` (the
distance of the counters is at most `NFrames` while the queue is in service,
below it while a slot is being written, at least 1 while one is being read, and
the write position is that distance after the read position). Each part has a
step lemma with one case per action. Wrap-around enters only through
`DiffFacts` and `SlotFacts`.

What the handshake guarantees with the races admitted is proved of `IvcHistory`,
without assumptions: `ClearingIsSafe` (`HSpec => []ClearedUnlessRaced`) and
`AckOffersClearedCounters` (`HSpec => []AckUnlessOverlapped`). The inductive
invariant `RaceInv` is made of what an endpoint knows when the histories are not
set: a step of the interrupt that is under way and met no frame operation has
cleared what it should have (`Cleared`); an endpoint that is established, and was
not blind, has no peer that is on its way out of SYNC, and leaves EST itself only
for a peer in SYNC (`Sighted`).

Under the same assumptions it proves `NoLostDoorbell` and the refinement
`Spec => FifoSpec`, from `IInv` and `FlowInv`, which says who will act:

* `Shaking`: while an end is in SYNC or ACK, a bell rings or an interrupt runs at the
  end whose turn it is; a row chosen for a SYNC that is over has its bell rung again.
* `Delivering`: frames in a queue in service are looked for by a tasklet, or the
  writer that made the queue non-empty has still to ring.
* `Waking`: a writer that waits on an established channel has a tasklet coming that
  wakes it, or a full queue, or a reader that has still to ring.
* `Whole` and `First`: a slot about to be published is completely written, and the
  copy a reader holds still equals the slot, which uses `NoTornFrame`.

For the refinement, the frames between the counters are a part of the ring (`Part`);
three lemmas say that advancing `w_count` appends to it, that advancing `r_count`
takes its tail and that filling the slot at `w_pos` does not touch it. Then publishing
is `Push`, copying `Peek`, releasing `Pop`, a reset, a reboot and the choice of a row
are `Drop`, the last move to EST is `Restore`, and all other steps stutter.

`BpmpProofs` proves, for every finite set of callers and every number of
channels, timeouts and suspends, the invariance of `TypeOK`, `PoolOK`,
`OneCallerPerChannel` and `PoolShrinksOnlyByTimeouts`. `PoolOK` and
`OneCallerPerChannel` are proved together (`PoolInv`): that the mask is not
empty when a caller holding a unit arrives needs the count, and that the count
changes by one when a channel is given back needs exclusivity. The last theorem
counts the late callers as well (`Budget`).

`BpmpAnswerProofs` proves the invariance of `OwnAnswer`, `AnswerPresent` and
`CompletedOnce`, which say what holds until a wait times out. `MailInv` follows a
request. A channel nobody asks on is quiet: no request, no answer, no completion
(`QuietInv`). A channel with a caller carries exactly one thing, the request, the
firmware's copy or the answer, all of that caller, and its completion is signalled
no earlier than the answer is there (`CarryInv`). Handing a channel over needs the
exclusivity of `PoolInv`.

`IvcRpcProofs` proves `TypeOK`, `FreedUnderLateUser`, `NoLeak` and `CallbackOnce` for
every number of calls, modes and length of the queues, with all races. The invariant
`Life` lists the phases of a call (fresh, prepared, listed, taken by the tasklet,
answered, expired, returning, called back), each with who holds the descriptor and
who may still look at it; two facts about the order of sending and answering keep an
answer from arriving for a call that has not been sent.

`NvhostOrderProofs` proves, for every even width, that the signed comparison is
the order of the true values when they are less than half a wrap apart
(`SignedOrder`), and `OrderOK`, the case of the current value included, for all
values less than a wrap apart (`WindowOrder`). The modulus enters all other proofs through these two.

`NvhostIntrProofs` proves `RefsHeld`, `HandlerFindsRemoved` and `NoStrandedWork` for
any number of threads, jobs and notifiers. `ListInv` says that no waiter is twice
in a list or in two lists, that the list a waiter is in determines its state, and
that its reference count is the number of those who can reach it. One set of lemmas
tells what each operation on sequences does to membership and uniqueness; the step
lemmas use only these.

`NvhostPowerProofs` adds two invariants. `UseInv` says that the usage count of the
host is the number of threads in a wait, of live waiters, of uses of jobs and of
the interrupt. The uses of merged jobs are counted as the cardinality of a set of
pairs, which avoids a sum over a set and so induction. It gives `UsesEnded` and that
no count is negative (`TypeOK`). `TimeInv` adds the values: `Value` (the shadow is
at most the register, which is at most `max_val`, less than half a wrap ahead),
`Reading` (what an update read before its cmpxchg), `Passed` (a waiter taken off the
list has a threshold the shadow reached), `Sorted` and `Armed`. It gives
`NothingEarly`, `InterruptArmed`, `PowerOffSafe` and the action property
`MinNeverBack`.

`NvhostCdmaProofs` proves `ThresholdOrder`, `CommandsIntact`, `TimeoutJobQueued`,
`TimerKept` and `StopFindsEmpty` for every size of the push buffer, number and
length of jobs and assignment of clients (`WorkerAssumption` is not used). `CdmaInv`
has three parts.

* `QueueInv`: the jobs retired, finished, added and begun are four initial parts of
  the jobs, `Retired <= Finished <= Added <= Begun`. The fence of job `j` is
  `Start + j`, the sync queue is `Retired + 1 .. Added`, and a handler that is about
  to return, or to start the timer, was called for a job at most `Retired`.
* `BufferInv` measures slots by their distance from the fence (`Off`), which makes
  the ring linear (lemma `Ring`). Unretired jobs lie one behind the other up to
  `cur`. In front of them are exactly the slots that handlers still have to free,
  again counted as a set of pairs. `get` is inside the first unfinished job.
* `TimerInv`: a timer that runs is about job `Retired + 1` or about to be stopped;
  if that job is unfinished, somebody will time it or it is timed; and a submit that
  saw the queue empty adds the job `Retired + 1`.

The recovery is reduced to one number first (`Recovery`): the search ends, and what
it does is to move the syncpoint to the end of some job between `Finished` and
`Added`, beyond the first one if that is of the timed client.

Assumptions on constants are those of the modules: sizes and counts are positive,
widths are even and leave room for the outstanding increments, the model values for
"nothing" are not values of the data, one worker retires jobs. Four theorems need
more, `~ResetRaces` and `~NotifiedRaces`, which the code does not guarantee:
`TornFrameFreedom`, `QueueConsistency`, `DoorbellsAreNotLost` and `ChannelIsFifo`. The
theorems about answers (`BpmpAnswerProofs`) say in their properties that they hold
until a wait times out, and `HeadIsTimed` that it holds until a timer race.

Only model-checked: all liveness (fairness is out of the prover's reach), and the
five runs that show a violation.

## 6. What is left out

* Memory is sequentially consistent; barriers and cache maintenance are assumed
  to do their work. The two stores that clear the counters have a fixed order.
* `RxCheck` takes `tegra_ivc_can_read()` and `tegra_ivc_read_get_next_frame()` in
  one step, so a reset between them (an error pointer in the client) is not seen.
* The layout of queues and the checks of `check_ivc_params()`: addresses.
* The inbound half of `bpmp_handle_irq` and mailman: a table of handlers under one
  lock, with nothing left to interleave; per-cpu atomic channels, which take no
  lock; the hypervisor and Tegra210 transports.
* Power management, debugfs, statistics and channel creation of the RPC layer.
* nvhost: syncpoints the client manages, virtual machines, the polling wait, errors
  of `nvhost_module_busy()`, increments past `max_val`, `nvhost_intr_stop()`, the
  release of hardware mutexes by the timeout, jobs without a timeout or with several
  syncpoints, the
  mapping of channels to devices, and what the commands mean.
* Capture IVC and its clients in the camera drivers: callback contexts handed from
  transaction to channel ids, used by the receive worker without the lock.
* All other drivers: they program one device each and call into the parts above.

## 7. Plan

1. Splitting `RxCheck` in `IvcChannel`, with the error pointer as an outcome.
