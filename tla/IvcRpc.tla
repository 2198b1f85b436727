------------------------------- MODULE IvcRpc -------------------------------
(***************************************************************************)
(* Remote procedure calls over an IVC channel                              *)
(* (drivers/platform/tegra/rtcpu/tegra-ivc-rpc.c): calling threads, the    *)
(* receive tasklet and the timers of asynchronous calls share TX           *)
(* descriptors through tx_list, and each of the three may free one.        *)
(* The channel is two bounded queues (see IvcFifo); the remote processor   *)
(* that answers is external.                                               *)
(***************************************************************************)
EXTENDS Naturals, Sequences, FiniteSets

CONSTANTS
  MaxCalls,   \* bound: calls in a behaviour
  NFrames,    \* frames of each queue of the channel
  Modes,      \* the modes clients call in: "sync", "async" (with a callback)
  None

ASSUME BoundsAssumption == MaxCalls \in Nat /\ NFrames \in Nat \ {0}
ASSUME ModesAssumption == Modes \subseteq {"sync", "async"}

\* A call, its descriptor and its frames are identified by the sequence number.
Seq32 == 1 .. MaxCalls

\* What the frame of an answer carries: the response_id the caller asked for,
\* or another one.
Answer == {"good", "wrong"}

VARIABLES
  next_seq_num,  \* sequence number of the last call
  mode,          \* the mode of a call
  pc,            \* progress of tegra_ivc_rpc_call()
  ivc_wr_lock,   \* holder of the mutex, or None
  tx_desc,       \* is the descriptor of a call "none", "live" or "freed"?
  tx_list,       \* the requests that wait for an answer
  rx_complete,   \* was complete() called?
  rx_timer,      \* "off", "armed", "entered" (the handler runs), "found"
  ret_code,      \* tx_desc->ret_code
  result,        \* what the caller, or its callback, was given
  callbacks,     \* how often the callback was called
  req, work,     \* requests in the queue, and in the remote processor
  rsp,           \* answers in the queue
  rx, cur        \* progress of the tasklet, and the descriptor it holds

link  == <<req, work, rsp>>
tasklet == <<rx, cur>>
vars  == <<next_seq_num, mode, pc, ivc_wr_lock, tx_desc, tx_list, rx_complete,
           rx_timer, ret_code, result, callbacks, req, work, rsp, rx, cur>>

Pc == {"none", "write", "list", "timer", "send", "wait", "timeout", "free", "done"}
Results == Answer \cup {"failed", "timeout"}

Init ==
  /\ next_seq_num = 0
  /\ mode = [s \in Seq32 |-> "sync"] /\ pc = [s \in Seq32 |-> "none"]
  /\ ivc_wr_lock = None
  /\ tx_desc = [s \in Seq32 |-> "none"] /\ tx_list = {}
  /\ rx_complete = [s \in Seq32 |-> FALSE] /\ rx_timer = [s \in Seq32 |-> "off"]
  /\ ret_code = [s \in Seq32 |-> None] /\ result = [s \in Seq32 |-> None]
  /\ callbacks = [s \in Seq32 |-> 0]
  /\ req = {} /\ work = {} /\ rsp = <<>>
  /\ rx = "idle" /\ cur = None

Goto(s, l) == pc' = [pc EXCEPT ![s] = l]
Free(s) == tx_desc' = [tx_desc EXCEPT ![s] = "freed"]
Give(s, r) == result' = [result EXCEPT ![s] = r]

-----------------------------------------------------------------------------
(***************************************************************************)
(* tegra_ivc_rpc_call().                                                   *)
(***************************************************************************)

\* Allocate and fill the descriptor.
Call(m) ==
  LET s == next_seq_num + 1
  IN  /\ next_seq_num < MaxCalls
      /\ next_seq_num' = s
      /\ mode' = [mode EXCEPT ![s] = m]
      /\ tx_desc' = [tx_desc EXCEPT ![s] = "live"]
      /\ Goto(s, "write")
      /\ UNCHANGED <<ivc_wr_lock, tx_list, rx_complete, rx_timer, ret_code,
                     result, callbacks, link, tasklet>>

\* wait_event_interruptible() is interrupted.
Interrupted(s) ==
  /\ pc[s] = "write"
  /\ Give(s, "failed")
  /\ Goto(s, "free")
  /\ UNCHANGED <<next_seq_num, mode, ivc_wr_lock, tx_desc, tx_list, rx_complete,
                 rx_timer, ret_code, callbacks, link, tasklet>>

\* The channel is writable: take the lock and fill the frame.
GetFrame(s) ==
  /\ pc[s] = "write" /\ ivc_wr_lock = None
  /\ Cardinality(req) < NFrames
  /\ ivc_wr_lock' = s
  /\ Goto(s, "list")
  /\ UNCHANGED <<next_seq_num, mode, tx_desc, tx_list, rx_complete, rx_timer,
                 ret_code, result, callbacks, link, tasklet>>

\* list_add_tail(&tx_desc->node, &rpc->tx_list).
List(s) ==
  /\ pc[s] = "list"
  /\ tx_list' = tx_list \cup {s}
  /\ Goto(s, IF mode[s] = "async" THEN "timer" ELSE "send")
  /\ UNCHANGED <<next_seq_num, mode, ivc_wr_lock, tx_desc, rx_complete,
                 rx_timer, ret_code, result, callbacks, link, tasklet>>

\* Mutant: the timer is set up but not started.
ArmTimerForgets(s) ==
  /\ pc[s] = "timer"
  /\ Goto(s, "send")
  /\ UNCHANGED <<next_seq_num, mode, ivc_wr_lock, tx_desc, tx_list, rx_complete,
                 rx_timer, ret_code, result, callbacks, link, tasklet>>

\* mod_timer(&tx_desc->rx_timer, ...), before the request is sent.
ArmTimer(s) ==
  /\ pc[s] = "timer"
  /\ rx_timer' = [rx_timer EXCEPT ![s] = "armed"]
  /\ Goto(s, "send")
  /\ UNCHANGED <<next_seq_num, mode, ivc_wr_lock, tx_desc, tx_list, rx_complete,
                 ret_code, result, callbacks, link, tasklet>>

\* tegra_ivc_write_advance(), whose error (the channel was reset in the
\* meantime) is ignored, and mutex_unlock().
Send(s) ==
  /\ pc[s] = "send"
  /\ req' = req \cup {s} \/ UNCHANGED req
  /\ ivc_wr_lock' = None
  /\ Goto(s, IF mode[s] = "async" THEN "done" ELSE "wait")
  /\ UNCHANGED <<next_seq_num, mode, tx_desc, tx_list, rx_complete, rx_timer,
                 ret_code, result, callbacks, work, rsp, tasklet>>

\* wait_for_completion_timeout() succeeds.
WaitDone(s) ==
  /\ pc[s] = "wait" /\ rx_complete[s]
  /\ Give(s, ret_code[s])
  /\ Goto(s, "free")
  /\ UNCHANGED <<next_seq_num, mode, ivc_wr_lock, tx_desc, tx_list, rx_complete,
                 rx_timer, ret_code, callbacks, link, tasklet>>

\* wait_for_completion_timeout() times out, perhaps when the tasklet already
\* has the descriptor.
WaitTimeout(s) ==
  /\ pc[s] = "wait" /\ ~rx_complete[s]
  /\ Goto(s, "timeout")
  /\ UNCHANGED <<next_seq_num, mode, ivc_wr_lock, tx_desc, tx_list, rx_complete,
                 rx_timer, ret_code, result, callbacks, link, tasklet>>

\* Remove the descriptor from tx_list, if it is there.
Unlist(s) ==
  /\ pc[s] = "timeout"
  /\ tx_list' = tx_list \ {s}
  /\ Give(s, "timeout")
  /\ Goto(s, "free")
  /\ UNCHANGED <<next_seq_num, mode, ivc_wr_lock, tx_desc, rx_complete,
                 rx_timer, ret_code, callbacks, link, tasklet>>

\* kmem_cache_free() and return.
Exit(s) ==
  /\ pc[s] = "free"
  /\ Free(s)
  /\ Goto(s, "done")
  /\ UNCHANGED <<next_seq_num, mode, ivc_wr_lock, tx_list, rx_complete,
                 rx_timer, ret_code, result, callbacks, link, tasklet>>

-----------------------------------------------------------------------------
(***************************************************************************)
(* The timer of an asynchronous call.                                      *)
(***************************************************************************)

\* The timer expires: tegra_ivc_rpc_timer() starts.
TimerFire(s) ==
  /\ rx_timer[s] = "armed"
  /\ rx_timer' = [rx_timer EXCEPT ![s] = "entered"]
  /\ UNCHANGED <<next_seq_num, mode, pc, ivc_wr_lock, tx_desc, tx_list,
                 rx_complete, ret_code, result, callbacks, link, tasklet>>

\* Under tx_list_lock: take the descriptor out of tx_list, or return when the
\* tasklet was first.  A freed descriptor is taken to keep its contents.
TimerLock(s) ==
  /\ rx_timer[s] = "entered"
  /\ rx_timer' = [rx_timer EXCEPT ![s] = IF s \in tx_list THEN "found" ELSE "off"]
  /\ tx_list' = tx_list \ {s}
  /\ UNCHANGED <<next_seq_num, mode, pc, ivc_wr_lock, tx_desc, rx_complete,
                 ret_code, result, callbacks, link, tasklet>>

\* Call the callback with an error and free the descriptor.
TimerEnd(s) ==
  /\ rx_timer[s] = "found"
  /\ rx_timer' = [rx_timer EXCEPT ![s] = "off"]
  /\ callbacks' = [callbacks EXCEPT ![s] = @ + 1]
  /\ Give(s, "timeout")
  /\ Free(s)
  /\ UNCHANGED <<next_seq_num, mode, pc, ivc_wr_lock, tx_list, rx_complete,
                 ret_code, link, tasklet>>

-----------------------------------------------------------------------------
(***************************************************************************)
(* The receive tasklet: one frame.                                         *)
(***************************************************************************)
Front == Head(rsp)

\* Mutant: the timer of an asynchronous call is not cancelled.
FoundKeepsTimer(s) ==
  /\ tx_list' = tx_list \ {s}
  /\ UNCHANGED rx_timer

\* Under tx_list_lock: the descriptor is found and leaves tx_list, and
\* del_timer() cancels a timer that has not expired yet; it does not wait
\* for a handler that was entered.
Found(s) ==
  /\ tx_list' = tx_list \ {s}
  /\ rx_timer' = [rx_timer EXCEPT ![s] = IF @ = "armed" THEN "off" ELSE @]

\* Find the descriptor; a frame without one (an unexpected response, or a
\* message that is not RPC) is passed on, and read.
RxFind ==
  /\ rx = "idle" /\ rsp # <<>>
  /\ LET s == Front.seq
     IN  IF s \in tx_list
         THEN /\ Found(s)
              /\ rx' = "fill" /\ cur' = s
              /\ UNCHANGED rsp
         ELSE /\ rsp' = Tail(rsp)
              /\ UNCHANGED <<tx_list, rx_timer, rx, cur>>
  /\ UNCHANGED <<next_seq_num, mode, pc, ivc_wr_lock, tx_desc, rx_complete,
                 ret_code, result, callbacks, req, work>>

\* Mutant: a response of the wrong type is reported as a timeout.
RxFillTimeout ==
  /\ rx = "fill"
  /\ ret_code' = [ret_code EXCEPT ![cur] =
                    IF Front.id = "good" THEN "good" ELSE "timeout"]
  /\ rx' = "finish"
  /\ UNCHANGED <<next_seq_num, mode, pc, ivc_wr_lock, tx_desc, tx_list,
                 rx_complete, rx_timer, result, callbacks, link, cur>>

\* Collect the response into the descriptor.
RxFill ==
  /\ rx = "fill"
  /\ ret_code' = [ret_code EXCEPT ![cur] = Front.id]
  /\ rx' = "finish"
  /\ UNCHANGED <<next_seq_num, mode, pc, ivc_wr_lock, tx_desc, tx_list,
                 rx_complete, rx_timer, result, callbacks, link, cur>>

\* Mutant: the callback is forgotten.
FinishForgetsCallback ==
  /\ rx = "finish"
  /\ rx_complete' = [rx_complete EXCEPT ![cur] = mode[cur] = "sync"]
  /\ IF mode[cur] = "async" THEN Free(cur) ELSE UNCHANGED tx_desc
  /\ rx' = "idle" /\ cur' = None /\ rsp' = Tail(rsp)
  /\ UNCHANGED <<next_seq_num, mode, pc, ivc_wr_lock, tx_list, rx_timer,
                 ret_code, result, callbacks, req, work>>

\* complete(), or the callback and kmem_cache_free(); then the frame is read.
RxFinish ==
  /\ rx = "finish"
  /\ IF mode[cur] = "sync"
     THEN /\ rx_complete' = [rx_complete EXCEPT ![cur] = TRUE]
          /\ UNCHANGED <<callbacks, result, tx_desc>>
     ELSE /\ callbacks' = [callbacks EXCEPT ![cur] = @ + 1]
          /\ Give(cur, ret_code[cur])
          /\ Free(cur)
          /\ UNCHANGED rx_complete
  /\ rx' = "idle" /\ cur' = None /\ rsp' = Tail(rsp)
  /\ UNCHANGED <<next_seq_num, mode, pc, ivc_wr_lock, tx_list, rx_timer,
                 ret_code, req, work>>

-----------------------------------------------------------------------------
(***************************************************************************)
(* The remote processor.                                                   *)
(***************************************************************************)
RemoteTake(s) ==
  /\ s \in req
  /\ req' = req \ {s} /\ work' = work \cup {s}
  /\ UNCHANGED <<next_seq_num, mode, pc, ivc_wr_lock, tx_desc, tx_list,
                 rx_complete, rx_timer, ret_code, result, callbacks, rsp, tasklet>>

RemoteAnswer(s, a) ==
  /\ s \in work /\ Len(rsp) < NFrames
  /\ work' = work \ {s} /\ rsp' = Append(rsp, [seq |-> s, id |-> a])
  /\ UNCHANGED <<next_seq_num, mode, pc, ivc_wr_lock, tx_desc, tx_list,
                 rx_complete, rx_timer, ret_code, result, callbacks, req, tasklet>>

-----------------------------------------------------------------------------
Thread(s) == \/ List(s) \/ ArmTimer(s) \/ Send(s) \/ WaitDone(s)
             \/ WaitTimeout(s) \/ Unlist(s) \/ Exit(s)
Timer(s) == TimerFire(s) \/ TimerLock(s) \/ TimerEnd(s)
Tasklet == RxFind \/ RxFill \/ RxFinish

Next == \/ \E m \in Modes : Call(m)
        \/ \E s \in Seq32 : \/ Interrupted(s) \/ GetFrame(s)
                            \/ Thread(s) \/ Timer(s)
        \/ Tasklet
        \/ \E s \in Seq32 : RemoteTake(s) \/ \E a \in Answer : RemoteAnswer(s, a)

Spec == Init /\ [][Next]_vars

\* Threads and tasklets run and timers expire; nothing is assumed of the
\* remote processor.
FairSpec == /\ Spec
            /\ WF_vars(Tasklet)
            /\ \A s \in Seq32 : WF_vars(Thread(s)) /\ WF_vars(Timer(s))

TypeOK ==
  /\ next_seq_num \in 0 .. MaxCalls
  /\ mode \in [Seq32 -> {"sync", "async"}] /\ pc \in [Seq32 -> Pc]
  /\ ivc_wr_lock \in Seq32 \cup {None}
  /\ tx_desc \in [Seq32 -> {"none", "live", "freed"}] /\ tx_list \subseteq Seq32
  /\ rx_complete \in [Seq32 -> BOOLEAN]
  /\ rx_timer \in [Seq32 -> {"off", "armed", "entered", "found"}]
  /\ ret_code \in [Seq32 -> Answer \cup {None}]
  /\ result \in [Seq32 -> Results \cup {None}] /\ callbacks \in [Seq32 -> Nat]
  /\ req \subseteq Seq32 /\ work \subseteq Seq32
  /\ rsp \in Seq([seq : Seq32, id : Answer])
  /\ rx \in {"idle", "fill", "finish"} /\ cur \in Seq32 \cup {None}

-----------------------------------------------------------------------------
\* The parties that still use the descriptor of a call.
CallerUses(s) == pc[s] \notin {"none", "done"}
                   /\ ~(mode[s] = "async" /\ pc[s] = "send")
TaskletUses(s) == rx # "idle" /\ cur = s
TimerUses(s) == rx_timer[s] # "off"

\* A descriptor is freed only when nobody will touch it again: not the
\* thread that allocated it, not tx_list, not the tasklet, not the timer:
\* "Even if it entered the timer handler, it won't find the descriptor".
NoUseAfterFree ==
  \A s \in Seq32 :
     CallerUses(s) \/ TaskletUses(s) \/ TimerUses(s) \/ s \in tx_list
       => tx_desc[s] = "live"

\* A descriptor is freed under a user in two cases only: the synchronous
\* caller timed out after the tasklet had unlisted the descriptor, or the
\* handler of a timer was entered before the tasklet unlisted the descriptor,
\* and has yet to look.  It is never freed while in tx_list, under its caller,
\* under a handler that found it, or under the tasklet of an asynchronous call.
FreedUnderLateUser ==
  \A s \in Seq32 : tx_desc[s] = "freed" =>
     /\ s \notin tx_list /\ ~CallerUses(s)
     /\ TaskletUses(s) => mode[s] = "sync" /\ result[s] = "timeout"
     /\ TimerUses(s) => /\ mode[s] = "async" /\ rx_timer[s] = "entered"
                        /\ result[s] \in Answer /\ ~TaskletUses(s)

\* No descriptor leaks: one that is still allocated is in the hands of its
\* thread, of the tasklet, or of a timer that runs or will expire, each of
\* which frees it or passes it on; waiting in tx_list alone is not enough.
NoLeak ==
  \A s \in Seq32 :
     tx_desc[s] = "live" => CallerUses(s) \/ TaskletUses(s) \/ TimerUses(s)

\* The callback of an asynchronous call is called once, by the tasklet or by
\* the timer, before the descriptor is freed; never in the synchronous mode
\* and never for a call that failed.
CallbackOnce ==
  \A s \in Seq32 :
     callbacks[s] = IF /\ mode[s] = "async" /\ tx_desc[s] = "freed"
                       /\ result[s] # "failed" THEN 1 ELSE 0

\* A call whose request was listed ends with a result, whatever the remote
\* processor does: answer, answer late, or never answer.
CallEnds == \A s \in Seq32 : s \in tx_list ~> result[s] # None
=============================================================================
