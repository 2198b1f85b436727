----------------------------- MODULE NvhostIntr -----------------------------
(***************************************************************************)
(* Waiting for a syncpoint (drivers/video/tegra/host/nvhost_intr.c with     *)
(* nvhost_syncpt.c and host1x/host1x_intr.c).  One syncpoint, its list of   *)
(* waiters sorted by threshold, and the actors that share it: threads in    *)
(* nvhost_syncpt_wait_timeout(), channels that submit jobs, notifiers, the  *)
(* threaded interrupt handler and the low priority worker.  A waiter is     *)
(* reference counted; it is removed from the list by whoever sees first     *)
(* that its threshold has passed, and its handler runs without the lock.    *)
(* The syncpoint is managed by the host: its increments are those of the    *)
(* submitted jobs.  The host1x hardware is external.                        *)
(***************************************************************************)
EXTENDS NvhostSyncpt, Sequences, FiniteSets

CONSTANTS
  Sleepers,      \* threads that call nvhost_syncpt_wait_timeout()
  Jobs1, Jobs2,  \* jobs of two channels, each with a submit-complete waiter
  Fast, Slow,    \* high and low priority notifiers
  Start,         \* value of the syncpoint at boot
  None

Jobs    == Jobs1 \cup Jobs2
Waiters == Sleepers \cup Jobs \cup Fast \cup Slow
Procs   == Sleepers \cup {"isr", "work"}   \* who runs handlers

ASSUME WaitersAssumption ==
  /\ IsFiniteSet(Waiters)
  /\ Sleepers \cap (Jobs \cup Fast \cup Slow) = {} /\ Jobs1 \cap Jobs2 = {}
  /\ Jobs \cap (Fast \cup Slow) = {} /\ Fast \cap Slow = {}
  /\ {"isr", "work"} \cap Waiters = {} /\ None \notin Procs \cup {"ok"}
ASSUME StartAssumption == Start \in Nat \ {0}
\* Fewer than half of the values are outstanding at any time.
ASSUME WindowAssumption == Cardinality(Jobs) + 1 < U32 \div 2

VARIABLES
  hw,            \* value of the syncpoint in hardware
  min_val,       \* its shadow in memory
  max_val,       \* its value once all submitted jobs are done
  busy,          \* usage count of the host (nvhost_module_busy())
  thresh, enabled,  \* threshold and enable bit of the interrupt
  lock,          \* holder of syncpt->lock, or None
  wait_head,     \* waiters that wait, by threshold
  low_prio,      \* low_prio_handlers: completed, by action
  work,          \* is low_prio_work queued?
  state, refcount, target, count,   \* of a waiter
  pc,            \* progress of threads, jobs, notifiers, interrupt and worker
  old, live,     \* locals of t20_syncpt_update_min()
  todo,          \* completed waiters whose handlers a process will run
  kick,          \* run_low_prio_work
  ret            \* what nvhost_syncpt_wait_timeout() returns

regs  == <<thresh, enabled>>
sync  == <<hw, min_val, max_val>>
lists == <<wait_head, low_prio, work>>
waiter == <<state, refcount, target, count>>
local == <<old, live, todo, kick>>
vars  == <<hw, min_val, max_val, busy, thresh, enabled, lock, wait_head,
           low_prio, work, state, refcount, target, count, pc, old, live,
           todo, kick, ret>>

Init ==
  /\ hw = Start /\ min_val = Start /\ max_val = Start
  /\ busy = 0
  /\ thresh = 0 /\ enabled = FALSE
  /\ lock = None
  /\ wait_head = <<>> /\ low_prio = [submit |-> <<>>, notify |-> <<>>]
  /\ work = FALSE
  /\ state = [w \in Waiters |-> "none"] /\ refcount = [w \in Waiters |-> 0]
  /\ target = [w \in Waiters |-> Start] /\ count = [w \in Waiters |-> 0]
  /\ pc = [p \in Procs \cup Waiters |-> "idle"]
  /\ old = [p \in Procs |-> Start] /\ live = [p \in Procs |-> Start]
  /\ todo = [p \in Procs |-> <<>>] /\ kick = [p \in Procs |-> FALSE]
  /\ ret = [s \in Sleepers |-> None]

Goto(p, l) == pc' = [pc EXCEPT ![p] = l]

Channel(w) == IF w \in Jobs1 THEN 1 ELSE 2

\* nvhost_syncpt_is_expired() of the shadow.
Expired(t) == IsExpired(Word(min_val), Word(max_val), TRUE, Word(t))

-----------------------------------------------------------------------------
(***************************************************************************)
(* nvhost_intr_add_action().                                               *)
(***************************************************************************)

\* Mutant: thresholds are compared as plain unsigned numbers.
QueuedUnsigned(w) ==
  LET before == {i \in DOMAIN wait_head :
                   Word(target[wait_head[i]]) <= Word(target[w])}
      n == IF before = {} THEN 0 ELSE CHOOSE i \in before : \A j \in before : j <= i
  IN  SubSeq(wait_head, 1, n) \o <<w>> \o SubSeq(wait_head, n + 1, Len(wait_head))

\* add_waiter_to_queue(): after the last waiter whose threshold is not later.
Queued(w) ==
  LET before == {i \in DOMAIN wait_head :
                   ~After(Word(target[wait_head[i]]), Word(target[w]))}
      n == IF before = {} THEN 0 ELSE CHOOSE i \in before : \A j \in before : j <= i
  IN  SubSeq(wait_head, 1, n) \o <<w>> \o SubSeq(wait_head, n + 1, Len(wait_head))

\* Mutant: kref_get() for the caller is missing.
OneRef(w) == 1

\* References of a new waiter: of the list, and of the caller of a wait.
Refs(w) == IF w \in Sleepers THEN 2 ELSE 1

\* nvhost_intr_add_action().
AddAction(w) ==
  /\ pc[w] = "add" /\ lock = None
  /\ busy' = busy + 1
  /\ state' = [state EXCEPT ![w] = "pending"]
  /\ refcount' = [refcount EXCEPT ![w] = Refs(w)]
  /\ count' = [count EXCEPT ![w] = 1]
  /\ wait_head' = Queued(w)
  /\ thresh' = IF Head(Queued(w)) = w THEN Word(target[w]) ELSE thresh
  /\ enabled' = (enabled \/ wait_head = <<>>)
  /\ Goto(w, IF w \in Sleepers THEN "check" ELSE "added")
  /\ UNCHANGED <<sync, lock, low_prio, work, target, local, ret>>

\* Mutant: the fence is the maximum before the increments of the job.
FenceTooEarly == max_val

\* nvhost_syncpt_incr_max(): the value of the syncpoint when the job is done.
Fence == max_val + 1

\* host1x_channel_submit(), with submitlock held until the action is added.
Submit(j) ==
  /\ pc[j] = "idle"
  /\ \A k \in Jobs : pc[k] = "add" => Channel(k) # Channel(j)
  /\ busy' = busy + 1
  /\ max_val' = max_val + 1
  /\ target' = [target EXCEPT ![j] = Fence]
  /\ Goto(j, "add")
  /\ UNCHANGED <<hw, min_val, regs, lock, lists, state, refcount, count,
                 local, ret>>

\* __nvhost_intr_register_notifier().
RegisterNotifier(n) ==
  /\ pc[n] = "idle"
  /\ \E t \in Start .. max_val :
        target' = [target EXCEPT ![n] = t]
  /\ busy' = busy + 1
  /\ Goto(n, "add")
  /\ UNCHANGED <<sync, regs, lock, lists, state, refcount, count, local, ret>>

-----------------------------------------------------------------------------
(***************************************************************************)
(* nvhost_syncpt_wait_timeout().                                           *)
(***************************************************************************)

\* The wait starts, unless the shadow shows that the threshold has passed.
WaitBegin(s) ==
  /\ pc[s] = "idle"
  /\ \E t \in Start - 1 .. max_val :
        /\ target' = [target EXCEPT ![s] = t]
        /\ IF Expired(t)
           THEN /\ Goto(s, "done") /\ ret' = [ret EXCEPT ![s] = "ok"]
                /\ UNCHANGED busy
           ELSE /\ Goto(s, "check") /\ busy' = busy + 1
                /\ UNCHANGED ret
  /\ UNCHANGED <<sync, regs, lock, lists, state, refcount, count, local>>

\* t20_syncpt_update_min(): read the shadow and the register.
UpdateRead(p) ==
  /\ pc[p] \in {"check", "process"}
  /\ old' = [old EXCEPT ![p] = min_val]
  /\ live' = [live EXCEPT ![p] = hw]
  /\ Goto(p, IF pc[p] = "check" THEN "check_cas" ELSE "process_cas")
  /\ UNCHANGED <<sync, busy, regs, lock, lists, waiter, todo, kick, ret>>

\* A local variable that is not used any more.
Unused == Start

\* Mutant: a plain store.
Store(p) == min_val' = live[p] /\ old' = [old EXCEPT ![p] = Unused]

\* t20_syncpt_update_min(): atomic_cmpxchg() of the shadow.
CmpXchg(p) == /\ old[p] = min_val
              /\ min_val' = live[p]
              /\ old' = [old EXCEPT ![p] = Unused]

\* The cmpxchg failed: once more.
UpdateAgain(p) ==
  /\ pc[p] \in {"check_cas", "process_cas"} /\ old[p] # min_val
  /\ old' = [old EXCEPT ![p] = Unused] /\ live' = [live EXCEPT ![p] = Unused]
  /\ Goto(p, IF pc[p] = "check_cas" THEN "check" ELSE "process")
  /\ UNCHANGED <<sync, busy, regs, lock, lists, waiter, todo, kick, ret>>

\* The thread looks whether the threshold has passed, before it adds a waiter
\* and each time it wakes up.
Check(s) ==
  /\ pc[s] = "check_cas" /\ CmpXchg(s)
  /\ LET expired == IsExpired(Word(min_val'), Word(max_val), TRUE, Word(target[s]))
         mine == refcount[s] > 0
     IN  /\ ret' = [ret EXCEPT ![s] = IF expired THEN "ok" ELSE @]
         /\ Goto(s, CASE expired /\ mine -> "cancel"
                      [] expired /\ ~mine -> "done"
                      [] ~expired /\ mine -> "sleep"
                      [] ~expired /\ ~mine -> "add")
         /\ busy' = IF expired /\ ~mine THEN busy - 1 ELSE busy
  /\ live' = [live EXCEPT ![s] = Unused]
  /\ UNCHANGED <<hw, max_val, regs, lock, lists, waiter, todo, kick>>

\* A timeout of zero.
NoTimeout(s) ==
  /\ pc[s] = "add" /\ s \in Sleepers
  /\ ret' = [ret EXCEPT ![s] = "err"]
  /\ busy' = busy - 1
  /\ Goto(s, "done")
  /\ UNCHANGED <<sync, regs, lock, lists, waiter, local>>

\* The handler of the waiter called wake_up().
Woken(s) ==
  /\ pc[s] = "sleep" /\ state[s] = "handled"
  /\ Goto(s, "check")
  /\ UNCHANGED <<sync, busy, regs, lock, lists, waiter, local, ret>>

\* SYNCPT_CHECK_PERIOD has passed: the thread looks by itself.
CheckPeriod(s) ==
  /\ pc[s] = "sleep" /\ state[s] # "handled"
  /\ Goto(s, "check")
  /\ UNCHANGED <<sync, busy, regs, lock, lists, waiter, local, ret>>

\* The timeout expires or a signal arrives.
GiveUp(s) ==
  /\ pc[s] = "sleep"
  /\ ret' = [ret EXCEPT ![s] = "err"]
  /\ Goto(s, "cancel")
  /\ UNCHANGED <<sync, busy, regs, lock, lists, waiter, local>>

\* Mutant: the loop that waits for the handler is missing.
CancelAlways(s) ==
  /\ pc[s] = "cancel"
  /\ state' = [state EXCEPT ![s] = "cancelled"]
  /\ Goto(s, "process")
  /\ UNCHANGED <<sync, busy, regs, lock, lists, refcount, target, count, local,
                 ret>>

\* nvhost_intr_put_ref(): cancel the waiter; while it is removed but not yet
\* handled, call schedule() and try again.
PutRef(s) ==
  /\ pc[s] = "cancel" /\ state[s] # "removed"
  /\ state' = [state EXCEPT ![s] = IF @ = "pending" THEN "cancelled" ELSE @]
  /\ Goto(s, "process")
  /\ UNCHANGED <<sync, busy, regs, lock, lists, refcount, target, count, local,
                 ret>>

-----------------------------------------------------------------------------
(***************************************************************************)
(* process_wait_list().                                                    *)
(***************************************************************************)

\* The value to process has been read; spin_lock(&syncpt->lock).
ProcessRead(p) ==
  /\ pc[p] = "process_cas" /\ CmpXchg(p)
  /\ Goto(p, "lock")
  /\ UNCHANGED <<hw, max_val, busy, regs, lock, lists, waiter, live, todo, kick,
                 ret>>

Lock(p) ==
  /\ pc[p] = "lock" /\ lock = None
  /\ lock' = p
  /\ Goto(p, "scan")
  /\ UNCHANGED <<sync, busy, regs, lists, waiter, local, ret>>

\* Mutant: an unsigned comparison.
CompletedUnsigned(p) ==
  wait_head # <<>> /\ Word(target[Head(wait_head)]) <= Word(live[p])

\* The first waiter has completed at the value that process p has read.
Completed(p) ==
  wait_head # <<>> /\ ~After(Word(target[Head(wait_head)]), Word(live[p]))

\* The list a completed waiter goes to.
Dest(p, w) == CASE w \in Jobs -> low_prio.submit
                [] w \in Slow -> low_prio.notify
                [] OTHER -> todo[p]

\* A submit-complete waiter is merged into the last one of its channel.
Merged(p, w) ==
  /\ w \in Jobs /\ low_prio.submit # <<>>
  /\ Channel(low_prio.submit[Len(low_prio.submit)]) = Channel(w)

\* The loop body of remove_completed_waiters(): the state goes from pending
\* to removed or, if cancelled, to cleanup; waiters to clean up go first.
RemoveCompleted(p) ==
  LET w == Head(wait_head)
      merged == Merged(p, w)
      cleanup == state[w] = "cancelled" \/ merged
      dest == IF cleanup THEN <<w>> \o Dest(p, w) ELSE Append(Dest(p, w), w)
      prev == low_prio.submit[Len(low_prio.submit)]
  IN  /\ pc[p] = "scan" /\ Completed(p)
      /\ wait_head' = Tail(wait_head)
      /\ state' = [state EXCEPT ![w] = IF cleanup THEN "cleanup" ELSE "removed"]
      /\ count' = IF merged THEN [count EXCEPT ![prev] = @ + 1] ELSE count
      /\ low_prio' = CASE w \in Jobs -> [low_prio EXCEPT !.submit = dest]
                       [] w \in Slow -> [low_prio EXCEPT !.notify = dest]
                       [] OTHER -> low_prio
      /\ todo' = IF w \in Sleepers \cup Fast THEN [todo EXCEPT ![p] = dest] ELSE todo
      /\ UNCHANGED <<sync, busy, regs, lock, work, refcount, target, pc, old,
                     live, kick, ret>>

\* Mutant: the notifiers are forgotten.
LowPrioSubmits == low_prio.submit # <<>>

\* Do the low priority lists hold a waiter?
LowPrioPending == low_prio.submit # <<>> \/ low_prio.notify # <<>>

\* The rest of process_wait_list() under the lock: the interrupt is set up for
\* the first waiter that is left.
Rearm(p) ==
  /\ pc[p] = "scan" /\ ~Completed(p)
  /\ enabled' = (wait_head # <<>>)
  /\ thresh' = IF wait_head = <<>> THEN thresh ELSE Word(target[Head(wait_head)])
  /\ kick' = [kick EXCEPT ![p] = LowPrioPending]
  /\ lock' = None
  /\ live' = [live EXCEPT ![p] = Unused]
  /\ Goto(p, "run")
  /\ UNCHANGED <<sync, busy, lists, waiter, old, todo, ret>>

\* Mutant: merged jobs are not counted.
EndOneUse(w) == IF w \in Sleepers THEN 0 ELSE 1

\* nvhost_module_idle_mult() in the handlers of jobs and notifiers.
EndedUses(w) == IF w \in Sleepers THEN 0 ELSE count[w]

\* run_handlers(): the handler of the first waiter, unless it is to be cleaned
\* up only.  The handlers of jobs and notifiers end a use of the host for each
\* job or notification they stand for.
RunHandler(p) ==
  LET w == Head(todo[p])
  IN  /\ pc[p] = "run" /\ todo[p] # <<>>
      /\ Goto(p, "put")
      /\ IF state[w] = "cleanup"
         THEN UNCHANGED <<state, busy>>
         ELSE /\ state' = [state EXCEPT ![w] = "handled"]
              /\ busy' = busy - EndedUses(w)
      /\ UNCHANGED <<sync, regs, lock, lists, refcount, target, count, local,
                     ret>>

\* kref_put(): waiter_release() frees the waiter and its use of the host.
KrefPut(w) ==
  /\ refcount' = [refcount EXCEPT ![w] = @ - 1]
  /\ count' = [count EXCEPT ![w] = IF refcount[w] = 1 THEN 0 ELSE @]
  /\ state' = [state EXCEPT ![w] = IF refcount[w] = 1 THEN "freed" ELSE @]

\* Mutant: every kref_put() ends a use of the host.
ReleasedAlways(w) == 1

\* waiter_release(): nvhost_module_idle() with the last reference.
Released(w) == IF refcount[w] = 1 THEN 1 ELSE 0

\* run_handlers(): the reference of the list is dropped.
PutHandled(p) ==
  LET w == Head(todo[p])
  IN  /\ pc[p] = "put"
      /\ KrefPut(w)
      /\ busy' = busy - Released(w)
      /\ todo' = [todo EXCEPT ![p] = Tail(@)]
      /\ Goto(p, "run")
      /\ UNCHANGED <<sync, regs, lock, lists, target, old, live, kick, ret>>

\* All handlers were run: queue the low priority work.  The interrupt handler
\* drops its use of the host, a thread its reference to the waiter.
RunDone(p) ==
  /\ pc[p] = "run" /\ todo[p] = <<>>
  /\ work' = (work \/ kick[p])
  /\ kick' = [kick EXCEPT ![p] = FALSE]
  /\ busy' = IF p = "isr" THEN busy - 1 ELSE busy
  /\ Goto(p, IF p \in Sleepers THEN "kref" ELSE "idle")
  /\ UNCHANGED <<sync, regs, lock, wait_head, low_prio, waiter, old, live,
                 todo, ret>>

\* The end of nvhost_intr_put_ref() and nvhost_syncpt_wait_timeout().
WaitEnd(s) ==
  /\ pc[s] = "kref"
  /\ KrefPut(s)
  /\ busy' = busy - Released(s) - 1
  /\ Goto(s, "done")
  /\ UNCHANGED <<sync, regs, lock, lists, target, local, ret>>

\* nvhost_syncpt_low_prio_work(): take over the completed waiters.
LowPrioWork ==
  /\ pc["work"] = "idle" /\ work /\ lock = None
  /\ work' = FALSE
  /\ todo' = [todo EXCEPT !["work"] = low_prio.submit \o low_prio.notify]
  /\ low_prio' = [submit |-> <<>>, notify |-> <<>>]
  /\ Goto("work", "run")
  /\ UNCHANGED <<sync, busy, regs, lock, wait_head, waiter, old, live, kick,
                 ret>>

-----------------------------------------------------------------------------
(***************************************************************************)
(* The interrupt, the hardware and the power of the host.                  *)
(***************************************************************************)

\* The hardware compares: the interrupt is pending while it is enabled and the
\* syncpoint is at or past the threshold.
Pending == enabled /\ ~After(thresh, Word(hw))

\* syncpt_thresh_cascade_isr(): t20_intr_syncpt_intr_ack() disables the
\* interrupt and reads the syncpoint; nvhost_syncpt_thresh_fn() begins with a use
\* of the host.  All in one step, from the look at the status on: that the host
\* loses power inside it is not modelled.
ThreshIsr ==
  /\ pc["isr"] = "idle" /\ Pending
  /\ enabled' = FALSE
  /\ min_val' = hw
  /\ busy' = busy + 1
  /\ Goto("isr", "process")
  /\ UNCHANGED <<hw, max_val, thresh, lock, lists, waiter, local, ret>>

\* A job increments the syncpoint.
HwIncr ==
  /\ hw < max_val
  /\ hw' = hw + 1
  /\ UNCHANGED <<min_val, max_val, busy, regs, lock, lists, waiter, pc, local,
                 ret>>

\* The host is idle: power_off_host() saves nothing for a syncpoint the host
\* manages, the register is lost, and power_on_host() restores the shadow.
PowerCycle ==
  /\ busy = 0
  /\ hw' = min_val
  /\ UNCHANGED <<min_val, max_val, busy, regs, lock, lists, waiter, pc, local, ret>>

-----------------------------------------------------------------------------
Process(p) == \/ UpdateRead(p) \/ UpdateAgain(p) \/ ProcessRead(p)
              \/ RemoveCompleted(p) \/ Rearm(p)
              \/ RunHandler(p) \/ PutHandled(p) \/ RunDone(p)

Wait(s) == Check(s) \/ Woken(s) \/ PutRef(s) \/ WaitEnd(s)

Next == \/ \E s \in Sleepers : \/ WaitBegin(s) \/ NoTimeout(s) \/ CheckPeriod(s)
                               \/ GiveUp(s) \/ Wait(s)
        \/ \E j \in Jobs : Submit(j)
        \/ \E n \in Fast \cup Slow : RegisterNotifier(n)
        \/ \E w \in Waiters : AddAction(w)
        \/ \E p \in Procs : Process(p) \/ Lock(p)
        \/ LowPrioWork \/ ThreshIsr
        \/ HwIncr \/ PowerCycle

Spec == Init /\ [][Next]_vars

-----------------------------------------------------------------------------
States == {"none", "pending", "removed", "cancelled", "handled", "cleanup", "freed"}

TypeOK ==
  /\ hw \in Nat /\ min_val \in Nat /\ max_val \in Nat /\ busy \in Nat
  /\ thresh \in 0 .. U32 - 1 /\ enabled \in BOOLEAN
  /\ lock \in Procs \cup {None}
  /\ wait_head \in Seq(Waiters)
  /\ low_prio \in [submit : Seq(Jobs), notify : Seq(Slow)]
  /\ work \in BOOLEAN
  /\ state \in [Waiters -> States] /\ refcount \in [Waiters -> Nat]
  /\ target \in [Waiters -> Nat] /\ count \in [Waiters -> Nat]
  /\ pc \in [Procs \cup Waiters ->
               {"idle", "check", "check_cas", "add", "added", "sleep", "cancel",
                "process", "process_cas", "lock", "scan", "run", "put", "kref",
                "done"}]
  /\ old \in [Procs -> Nat] /\ live \in [Procs -> Nat]
  /\ todo \in [Procs -> Seq(Waiters)] /\ kick \in [Procs -> BOOLEAN]
  /\ ret \in [Sleepers -> {None, "ok", "err"}]

\* The positions of waiter w in a list.
In(list, w) == {i \in DOMAIN list : list[i] = w}

\* References to a waiter: of the lists, and of the thread that waits.
ListRefs(w) == Cardinality(In(wait_head, w)) + Cardinality(In(low_prio.submit, w))
               + Cardinality(In(low_prio.notify, w))
               + Cardinality({p \in Procs : In(todo[p], w) # {}})
ThreadRef(w) == IF w \in Sleepers /\ state[w] # "none" /\ pc[w] # "done" THEN 1 ELSE 0

\* Reference counts are exact: whoever can still reach a waiter holds one of
\* its references, and a waiter is freed when, and only when, nobody can, with
\* a thread that gives up, the interrupt and the worker on the same waiter.
RefsHeld ==
  \A w \in Waiters :
    /\ refcount[w] = ListRefs(w) + ThreadRef(w)
    /\ state[w] \in {"none", "freed"} <=> refcount[w] = 0

\* A handler is run once and finds its waiter removed: the WARN_ON()s of
\* run_handlers() and of the wake-up handlers do not fire, because a
\* cancellation never hits a waiter that is on its way to its handler.
HandlerFindsRemoved ==
  /\ \A i \in DOMAIN wait_head : state[wait_head[i]] \in {"pending", "cancelled"}
  /\ \A l \in {low_prio.submit, low_prio.notify} :
       \A i \in DOMAIN l : state[l[i]] \in {"removed", "cleanup"}
  /\ \A p \in Procs : \A i \in DOMAIN todo[p] :
       state[todo[p][i]] \in IF i = 1 /\ pc[p] = "put" THEN {"handled", "cleanup"}
                                                       ELSE {"removed", "cleanup"}

\* No interrupt is missed: while anyone waits, and neither the interrupt handler
\* nor a thread is about to set it up again, the interrupt is enabled for the
\* earliest threshold, also across a wrap of the syncpoint.
InterruptArmed ==
  (/\ wait_head # <<>> /\ lock = None
   /\ pc["isr"] \notin {"process", "process_cas", "lock"}) =>
     /\ enabled
     /\ \A i \in DOMAIN wait_head : target[wait_head[i]] >= target[Head(wait_head)]
     /\ thresh = Word(target[Head(wait_head)])

\* Nobody is told of a threshold that the syncpoint has not reached: neither a
\* handler nor the caller of a wait.
NothingEarly ==
  /\ \A w \in Waiters : state[w] \in {"removed", "handled"} => hw >= target[w]
  /\ \A s \in Sleepers : ret[s] = "ok" => hw >= target[s]

\* Completed low priority waiters are not forgotten: the work is queued, or a
\* process that has seen them will queue it.
NoStrandedWork ==
  (low_prio.submit # <<>> \/ low_prio.notify # <<>>) =>
    work \/ \E p \in Procs : kick[p] \/ pc[p] = "scan"

\* Nothing uses the host: all waits and jobs are over and all waiters freed.
AtRest == /\ \A w \in Waiters : /\ state[w] \in {"none", "freed"}
                                /\ pc[w] \in {"idle", "added", "done"}
          /\ pc["isr"] = "idle"

\* The host loses power only when nobody waits and the shadow it is restored
\* from is the value of the register: no increment is lost.
PowerOffSafe == busy = 0 => AtRest /\ min_val = hw

\* Every use of the host is ended, those of merged jobs too: at rest the usage
\* count is zero and the host can be powered off.
UsesEnded == AtRest => busy = 0

\* The shadow of the syncpoint never goes back, although any thread updates it
\* from a register it has read earlier.
MinNeverBack == [][min_val' >= min_val]_vars
=============================================================================
