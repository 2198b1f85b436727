---------------------------- MODULE IvcRpcProofs ----------------------------
(***************************************************************************)
(* Proofs about IvcRpc, for every number of calls and of frames: the life  *)
(* of a descriptor that a calling thread, the receive tasklet and a timer  *)
(* hand to each other.                                                     *)
(***************************************************************************)
EXTENDS IvcRpc, SequenceTheorems, TLAPS

-----------------------------------------------------------------------------
(***************************************************************************)
(* The inductive invariant.                                                *)
(***************************************************************************)

\* While the tasklet works on a frame, the frame stays at the front of the
\* queue, and the response is collected before the descriptor is finished.
TaskletInv ==
  /\ rx # "idle" => cur \in Seq32 /\ rsp # <<>>
  /\ rx = "finish" => ret_code[cur] \in Answer

\* Sequence numbers beyond the last call are not in use.
Numbered == \A s \in Seq32 : pc[s] = "none" <=> s > next_seq_num

\* What the remote processor knows of has been sent: its descriptor was
\* listed, and its timer armed, before.
PastSend(s) == pc[s] \in {"wait", "timeout", "free", "done"}
SentFirst == /\ \A s \in req \cup work : PastSend(s)
             /\ \A i \in DOMAIN rsp : PastSend(rsp[i].seq)

\* Nobody but the calling thread knows the descriptor.
Private(s) == s \notin tx_list /\ ~TaskletUses(s) /\ rx_timer[s] = "off"

\* The phases of the life of a descriptor.
Fresh(s) == /\ pc[s] = "none" /\ Private(s)
            /\ ~rx_complete[s] /\ tx_desc[s] = "none" /\ callbacks[s] = 0

Prepared(s) == /\ pc[s] \in {"write", "list"} /\ Private(s)
               /\ ~rx_complete[s] /\ tx_desc[s] = "live" /\ callbacks[s] = 0

Listed(s) ==
  /\ s \in tx_list /\ ~TaskletUses(s) /\ ~rx_complete[s]
  /\ tx_desc[s] = "live" /\ callbacks[s] = 0
  /\ \/ mode[s] = "sync" /\ pc[s] \in {"send", "wait", "timeout"} /\ rx_timer[s] = "off"
     \/ mode[s] = "async" /\ pc[s] = "timer" /\ rx_timer[s] = "off"
     \/ mode[s] = "async" /\ pc[s] \in {"send", "done"}
          /\ rx_timer[s] \in {"armed", "entered"}

\* The tasklet has the descriptor; the synchronous caller may time out, and
\* free it, meanwhile, and the timer handler may have been entered before.
Taken(s) ==
  /\ s \notin tx_list /\ TaskletUses(s) /\ ~rx_complete[s] /\ callbacks[s] = 0
  /\ \/ /\ mode[s] = "sync" /\ rx_timer[s] = "off"
        /\ pc[s] \in {"wait", "timeout", "free", "done"}
        /\ pc[s] \in {"free", "done"} => result[s] = "timeout"
        /\ tx_desc[s] = (IF pc[s] = "done" THEN "freed" ELSE "live")
     \/ /\ mode[s] = "async" /\ rx_timer[s] \in {"off", "entered"}
        /\ pc[s] = "done" /\ tx_desc[s] = "live"

Answered(s) == /\ mode[s] = "sync" /\ pc[s] \in {"wait", "timeout"} /\ Private(s)
               /\ rx_complete[s] /\ tx_desc[s] = "live" /\ callbacks[s] = 0

Expired(s) == /\ mode[s] = "async" /\ pc[s] \in {"send", "done"}
              /\ s \notin tx_list /\ ~TaskletUses(s) /\ rx_timer[s] = "found"
              /\ tx_desc[s] = "live" /\ callbacks[s] = 0

Returning(s) == /\ pc[s] \in {"free", "done"} /\ Private(s) /\ callbacks[s] = 0
                /\ tx_desc[s] = (IF pc[s] = "free" THEN "live" ELSE "freed")
                /\ mode[s] = "async" => result[s] = "failed"

CalledBack(s) == /\ mode[s] = "async" /\ pc[s] \in {"send", "done"}
                 /\ s \notin tx_list /\ ~TaskletUses(s)
                 /\ \/ rx_timer[s] = "off"
                    \/ rx_timer[s] = "entered" /\ result[s] \in Answer
                 /\ tx_desc[s] = "freed" /\ callbacks[s] = 1 /\ result[s] # "failed"

Life(s) == \/ Fresh(s) \/ Prepared(s) \/ Listed(s) \/ Taken(s) \/ Answered(s)
           \/ Expired(s) \/ Returning(s) \/ CalledBack(s)

RpcInv == /\ TypeOK /\ TaskletInv /\ Numbered /\ SentFirst
          /\ \A s \in Seq32 : Life(s)

-----------------------------------------------------------------------------
(***************************************************************************)
(* Types and the tasklet.                                                  *)
(***************************************************************************)
RpcType == TypeOK /\ TaskletInv

\* A frame at the front of the queue is an answer, and so is the rest.
LEMMA FrontFrame ==
  ASSUME TypeOK, rsp # <<>>
  PROVE  /\ Front \in [seq : Seq32, id : Answer]
         /\ Front.seq \in Seq32 /\ Front.id \in Answer
         /\ Tail(rsp) \in Seq([seq : Seq32, id : Answer])
         /\ 1 \in DOMAIN rsp /\ Front = rsp[1]
         /\ \A i \in DOMAIN Tail(rsp) : i + 1 \in DOMAIN rsp /\ Tail(rsp)[i] = rsp[i + 1]
<1>1. rsp \in Seq([seq : Seq32, id : Answer])
  BY DEF TypeOK
<1>2. Front \in [seq : Seq32, id : Answer] /\ Tail(rsp) \in Seq([seq : Seq32, id : Answer])
  BY <1>1, HeadTailProperties DEF Front
<1>3. /\ 1 \in DOMAIN rsp /\ Front = rsp[1]
      /\ \A i \in DOMAIN Tail(rsp) : i + 1 \in DOMAIN rsp /\ Tail(rsp)[i] = rsp[i + 1]
  BY <1>1 DEF Front
<1> QED
  BY <1>2, <1>3

\* The state is well typed at the start ...
LEMMA RpcTypeInit == Init => RpcType
  BY BoundsAssumption DEF Init, RpcType, TypeOK, TaskletInv, Seq32, Pc, Results, Answer

\* ... and after every step of a call, the tasklet or a timer.
LEMMA RpcTypeStep == RpcType /\ [Next]_vars => RpcType'
<1> SUFFICES ASSUME RpcType, [Next]_vars
             PROVE  RpcType'
  OBVIOUS
<1> USE DEF RpcType, TaskletInv, TypeOK, link, tasklet, Goto, Free, Give
<1>1. ASSUME NEW m \in Modes, Call(m)
      PROVE  RpcType'
  BY <1>1, BoundsAssumption, ModesAssumption, SMTT(30) DEF Call, Pc, Seq32
<1>2. ASSUME NEW s \in Seq32, Interrupted(s) \/ GetFrame(s)
      PROVE  RpcType'
  BY <1>2 DEF Interrupted, GetFrame, Pc, Results
<1>3. ASSUME NEW s \in Seq32, List(s) \/ ArmTimer(s) \/ Send(s)
      PROVE  RpcType'
  BY <1>3 DEF List, ArmTimer, Send, Pc
<1>4. ASSUME NEW s \in Seq32, WaitDone(s) \/ WaitTimeout(s) \/ Unlist(s) \/ Exit(s)
      PROVE  RpcType'
  BY <1>4, ZenonT(30) DEF WaitDone, WaitTimeout, Unlist, Exit, Pc, Results
<1>5. ASSUME NEW s \in Seq32, Timer(s)
      PROVE  RpcType'
  <2>1. CASE TimerFire(s)
    BY <2>1 DEF TimerFire
  <2>2. CASE TimerLock(s)
    BY <2>2 DEF TimerLock
  <2>3. CASE TimerEnd(s)
    BY <2>3 DEF TimerEnd, Results
  <2> QED
    BY <1>5, <2>1, <2>2, <2>3 DEF Timer
<1>6. CASE RxFind
  <2> HIDE DEF TypeOK
  <2>1. rsp # <<>> /\ Front.seq \in Seq32 /\ Tail(rsp) \in Seq([seq : Seq32, id : Answer])
    BY <1>6, FrontFrame DEF RxFind
  <2>2. CASE Front.seq \in tx_list
    BY <1>6, <2>1, <2>2 DEF RxFind, Found, TypeOK
  <2>3. CASE Front.seq \notin tx_list
    BY <1>6, <2>1, <2>3 DEF RxFind, TypeOK
  <2> QED
    BY <2>2, <2>3
<1>7. CASE RxFill
  <2>1. Front.id \in Answer
    BY <1>7, FrontFrame DEF RxFill
  <2> QED
    BY <1>7, <2>1 DEF RxFill
<1>8. CASE RxFinish
  <2>1. Tail(rsp) \in Seq([seq : Seq32, id : Answer])
    BY <1>8, FrontFrame DEF RxFinish
  <2>2. CASE mode[cur] = "sync"
    BY <1>8, <2>1, <2>2 DEF RxFinish
  <2>3. CASE mode[cur] # "sync"
    <3>1. cur \in Seq32 /\ ret_code[cur] \in Results /\ callbacks[cur] + 1 \in Nat
      BY <1>8 DEF RxFinish, Results
    <3> QED
      BY <1>8, <2>1, <2>3, <3>1, ZenonT(30) DEF RxFinish
  <2> QED
    BY <2>2, <2>3
<1>9. ASSUME NEW s \in Seq32, RemoteTake(s)
      PROVE  RpcType'
  BY <1>9 DEF RemoteTake
<1>10. ASSUME NEW s \in Seq32, NEW a \in Answer, RemoteAnswer(s, a)
       PROVE  RpcType'
  BY <1>10 DEF RemoteAnswer
<1>11. CASE UNCHANGED vars
  BY <1>11 DEF vars
<1> QED
  BY <1>1, <1>2, <1>3, <1>4, <1>5, <1>6, <1>7, <1>8, <1>9, <1>10, <1>11
  DEF Next, Thread, Tasklet

\* Every variable of the RPC layer keeps its type, whatever the remote
\* processor, the tasklet, the timers and the calling threads do, races between
\* an answer and its timeout included (tegra-ivc-rpc.c).
THEOREM RpcTypeCorrect == Spec => []TypeOK
<1>1. RpcType => TypeOK
  BY DEF RpcType
<1> QED
  BY RpcTypeInit, RpcTypeStep, <1>1, PTL DEF Spec

-----------------------------------------------------------------------------
(***************************************************************************)
(* The order of numbering, sending and answering.                          *)
(***************************************************************************)
LEMMA OrderStep == RpcType /\ Numbered /\ SentFirst /\ [Next]_vars => Numbered' /\ SentFirst'
<1> SUFFICES ASSUME RpcType, Numbered, SentFirst, [Next]_vars
             PROVE  Numbered' /\ SentFirst'
  OBVIOUS
<1> USE DEF RpcType, Numbered, SentFirst, PastSend, link, tasklet, Goto
<1>a. \A i \in DOMAIN rsp : rsp[i].seq \in Seq32
  <2>1. rsp \in Seq([seq : Seq32, id : Answer])
    BY DEF TypeOK
  <2>2. ASSUME NEW i \in DOMAIN rsp
        PROVE  rsp[i] \in [seq : Seq32, id : Answer]
    <3>1. i \in 1 .. Len(rsp)
      BY <2>1
    <3> QED
      BY <2>1, <3>1, ElementOfSeq
  <2> QED
    BY <2>2
<1>b. pc \in [Seq32 -> Pc] /\ req \subseteq Seq32 /\ work \subseteq Seq32
  BY DEF TypeOK
<1>c. ASSUME NEW s \in Seq32, NEW l \in Pc, Goto(s, l), pc[s] # "none",
             l \in {"free", "done", "timeout"} \/ (~PastSend(s) /\ l # "none"),
             UNCHANGED <<next_seq_num, req, work, rsp>>
      PROVE  Numbered' /\ SentFirst'
  BY <1>a, <1>b, <1>c
<1>1. ASSUME NEW m \in Modes, Call(m)
      PROVE  Numbered' /\ SentFirst'
  <2>1. next_seq_num + 1 \in Seq32 /\ pc[next_seq_num + 1] = "none"
    BY <1>1, BoundsAssumption DEF Call, TypeOK, Seq32
  <2>2. Numbered'
    BY <1>1, <2>1 DEF Call, TypeOK, Seq32
  <2>3. SentFirst'
    BY <1>1, <2>1, <1>a, <1>b DEF Call
  <2> QED
    BY <2>2, <2>3
<1>2. ASSUME NEW s \in Seq32, Interrupted(s) \/ GetFrame(s)
      PROVE  Numbered' /\ SentFirst'
  BY <1>2, <1>c DEF Interrupted, GetFrame, Pc
<1>3. ASSUME NEW s \in Seq32, List(s) \/ ArmTimer(s)
      PROVE  Numbered' /\ SentFirst'
  BY <1>3, <1>c DEF List, ArmTimer, Pc
<1>4. ASSUME NEW s \in Seq32, Send(s)
      PROVE  Numbered' /\ SentFirst'
  BY <1>4 DEF Send, TypeOK
<1>5. ASSUME NEW s \in Seq32, WaitDone(s) \/ WaitTimeout(s) \/ Unlist(s) \/ Exit(s)
      PROVE  Numbered' /\ SentFirst'
  BY <1>5, <1>c DEF WaitDone, WaitTimeout, Unlist, Exit, Pc
<1>6. ASSUME NEW s \in Seq32, Timer(s)
      PROVE  Numbered' /\ SentFirst'
  BY <1>6 DEF Timer, TimerFire, TimerLock, TimerEnd
<1>7. CASE RxFind \/ RxFill \/ RxFinish
  <2>1. UNCHANGED <<pc, next_seq_num, req, work>> /\ (UNCHANGED rsp \/ rsp' = Tail(rsp))
    BY <1>7 DEF RxFind, RxFill, RxFinish
  <2>2. rsp # <<>> => \A i \in DOMAIN Tail(rsp) :
                         i + 1 \in DOMAIN rsp /\ Tail(rsp)[i] = rsp[i + 1]
    BY FrontFrame
  <2>3. rsp' = Tail(rsp) => rsp # <<>>
    BY <1>7 DEF RxFind, RxFill, RxFinish, TaskletInv
  <2> QED
    BY <2>1, <2>2, <2>3
<1>8. ASSUME NEW s \in Seq32, RemoteTake(s)
      PROVE  Numbered' /\ SentFirst'
  BY <1>8 DEF RemoteTake
<1>9. ASSUME NEW s \in Seq32, NEW a \in Answer, RemoteAnswer(s, a)
      PROVE  Numbered' /\ SentFirst'
  BY <1>9 DEF RemoteAnswer, TypeOK
<1>10. CASE UNCHANGED vars
  BY <1>10 DEF vars
<1> QED
  BY <1>1, <1>2, <1>3, <1>4, <1>5, <1>6, <1>7, <1>8, <1>9, <1>10
  DEF Next, Thread, Tasklet

-----------------------------------------------------------------------------
(***************************************************************************)
(* The life of a descriptor.                                               *)
(***************************************************************************)

\* Nothing that the phase of call s depends on changes.
Untouched(s) ==
  /\ mode'[s] = mode[s] /\ pc'[s] = pc[s] /\ rx_timer'[s] = rx_timer[s]
  /\ rx_complete'[s] = rx_complete[s] /\ tx_desc'[s] = tx_desc[s]
  /\ callbacks'[s] = callbacks[s] /\ result'[s] = result[s]
  /\ (s \in tx_list)' <=> s \in tx_list
  /\ TaskletUses(s)' <=> TaskletUses(s)

\* A step that leaves the descriptor of a call, its timer and its users alone.
LEMMA Frame ==
  ASSUME NEW s \in Seq32, Life(s), Untouched(s)
  PROVE  Life(s)'
  BY DEF Untouched, Life, Private, Fresh, Prepared, Listed, Taken, Answered,
         Expired, Returning, CalledBack

\* A step of the thread, the timer or the tasklet that works on call t takes t
\* to its next phase and leaves the other calls alone.
LEMMA LifeStep == RpcInv /\ [Next]_vars => \A s \in Seq32 : Life(s)'
<1> SUFFICES ASSUME RpcInv, [Next]_vars, NEW s \in Seq32
             PROVE  Life(s)'
  OBVIOUS
<1> USE DEF link, tasklet, Goto, Free, Give
<1>l. Life(s) /\ TypeOK
  BY DEF RpcInv
<1>1. ASSUME NEW m \in Modes, Call(m)
      PROVE  Life(s)'
  <2> DEFINE t == next_seq_num + 1
  <2>1. t \in Seq32 /\ pc[t] = "none"
    BY <1>1, BoundsAssumption DEF Call, RpcInv, Numbered, TypeOK, Seq32
  <2>2. CASE s = t
    <3>1. Fresh(s) /\ ~rx_complete[s]
      BY <1>l, <2>1, <2>2 DEF Life, Fresh, Prepared, Listed, Taken, Answered, Expired,
                        Returning, CalledBack
    <3> QED
      BY <1>1, <1>l, <2>2, <3>1
      DEF Call, TypeOK, Life, Fresh, Prepared, Private, TaskletUses
  <2>3. CASE s # t
    BY <1>1, <1>l, <2>1, <2>3, Frame DEF Call, Untouched, TaskletUses, TypeOK
  <2> QED
    BY <2>2, <2>3
<1>2. ASSUME NEW t \in Seq32, Interrupted(t) \/ GetFrame(t)
      PROVE  Life(s)'
  <2>1. CASE s = t
    BY <1>2, <1>l, <2>1 DEF Interrupted, GetFrame, TypeOK, Life, Fresh, Prepared, Listed,
       Taken, Answered, Expired, Returning, CalledBack, Private, TaskletUses
  <2>2. CASE s # t
    BY <1>2, <1>l, <2>2, Frame DEF Interrupted, GetFrame, Untouched, TaskletUses, TypeOK
  <2> QED
    BY <2>1, <2>2
<1>3. ASSUME NEW t \in Seq32, List(t) \/ ArmTimer(t)
      PROVE  Life(s)'
  <2>1. CASE s = t
    BY <1>3, <1>l, <2>1 DEF List, ArmTimer, TypeOK, Life, Fresh, Prepared, Listed,
       Taken, Answered, Expired, Returning, CalledBack, Private, TaskletUses
  <2>2. CASE s # t
    BY <1>3, <1>l, <2>2, Frame DEF List, ArmTimer, Untouched, TaskletUses, TypeOK
  <2> QED
    BY <2>1, <2>2
<1>4. ASSUME NEW t \in Seq32, Send(t)
      PROVE  Life(s)'
  <2>1. CASE s = t
    BY <1>4, <1>l, <2>1 DEF Send, TypeOK, Life, Fresh, Prepared, Listed,
       Taken, Answered, Expired, Returning, CalledBack, Private, TaskletUses
  <2>2. CASE s # t
    BY <1>4, <1>l, <2>2, Frame DEF Send, Untouched, TaskletUses, TypeOK
  <2> QED
    BY <2>1, <2>2
<1>5. ASSUME NEW t \in Seq32, WaitDone(t) \/ WaitTimeout(t) \/ Unlist(t) \/ Exit(t)
      PROVE  Life(s)'
  <2>1. CASE s = t
    BY <1>5, <1>l, <2>1 DEF WaitDone, WaitTimeout, Unlist, Exit, TypeOK, Life, Fresh,
       Prepared, Listed, Taken, Answered, Expired, Returning, CalledBack, Private, TaskletUses
  <2>2. CASE s # t
    BY <1>5, <1>l, <2>2, Frame
    DEF WaitDone, WaitTimeout, Unlist, Exit, Untouched, TaskletUses, TypeOK
  <2> QED
    BY <2>1, <2>2
<1>6. ASSUME NEW t \in Seq32, Timer(t)
      PROVE  Life(s)'
  <2>1. CASE s = t
    BY <1>6, <1>l, <2>1 DEF Timer, TimerFire, TimerLock, TimerEnd, TypeOK, Life, Fresh,
       Prepared, Listed, Taken, Answered, Expired, Returning, CalledBack, Private, TaskletUses
  <2>2. CASE s # t
    BY <1>6, <1>l, <2>2, Frame
    DEF Timer, TimerFire, TimerLock, TimerEnd, Untouched, TaskletUses, TypeOK
  <2> QED
    BY <2>1, <2>2
<1>7. CASE RxFind
  <2>1. Front.seq \in Seq32 /\ PastSend(Front.seq)
    BY <1>7, FrontFrame DEF RxFind, RpcInv, SentFirst
  <2>2. CASE s = Front.seq /\ s \in tx_list
    BY <1>7, <1>l, <2>1, <2>2 DEF RxFind, Found, PastSend, TypeOK, Life, Fresh,
       Prepared, Listed, Taken, Answered, Expired, Returning, CalledBack, Private, TaskletUses
  <2>3. CASE s # Front.seq /\ Front.seq \in tx_list
    <3>1. rx = "idle"
      BY <1>7 DEF RxFind
    <3> QED
      BY <1>7, <1>l, <2>1, <2>3, <3>1, Frame DEF RxFind, Found, Untouched, TaskletUses, TypeOK
  <2>4. CASE Front.seq \notin tx_list
    BY <1>7, <1>l, <2>4, Frame DEF RxFind, Untouched, TaskletUses
  <2> QED
    BY <2>2, <2>3, <2>4
<1>8. CASE RxFill
  BY <1>8, <1>l, Frame DEF RxFill, Untouched, TaskletUses
<1>9. CASE RxFinish
  <2>1. cur \in Seq32 /\ ret_code[cur] \in Answer /\ rx = "finish"
    BY <1>9 DEF RxFinish, RpcInv, TaskletInv
  <2>2. CASE s = cur
    BY <1>9, <1>l, <2>1, <2>2 DEF RxFinish, Answer, TypeOK, Life, Fresh,
       Prepared, Listed, Taken, Answered, Expired, Returning, CalledBack, Private, TaskletUses
  <2>3. CASE s # cur
    BY <1>9, <1>l, <2>1, <2>3, Frame DEF RxFinish, Untouched, TaskletUses, TypeOK
  <2> QED
    BY <2>2, <2>3
<1>10. ASSUME NEW t \in Seq32, RemoteTake(t) \/ \E a \in Answer : RemoteAnswer(t, a)
       PROVE  Life(s)'
  BY <1>10, <1>l, Frame DEF RemoteTake, RemoteAnswer, Untouched, TaskletUses
<1>11. CASE UNCHANGED vars
  BY <1>11, <1>l, Frame DEF vars, Untouched, TaskletUses
<1> QED
  BY <1>1, <1>2, <1>3, <1>4, <1>5, <1>6, <1>7, <1>8, <1>9, <1>10, <1>11
  DEF Next, Thread, Tasklet

-----------------------------------------------------------------------------
(***************************************************************************)
(* The theorems.                                                           *)
(***************************************************************************)
LEMMA RpcInvariance == Spec => []RpcInv
<1>1. Init => RpcInv
  <2>1. Init => RpcType /\ Numbered /\ SentFirst
    BY RpcTypeInit DEF Init, Numbered, SentFirst, Seq32
  <2>2. Init => \A s \in Seq32 : Life(s)
    BY DEF Init, Life, Fresh, Private, TaskletUses
  <2> QED
    BY <2>1, <2>2 DEF RpcInv, RpcType
<1>2. RpcInv /\ [Next]_vars => RpcInv'
  BY RpcTypeStep, OrderStep, LifeStep DEF RpcInv, RpcType
<1> QED
  BY <1>1, <1>2, PTL DEF Spec

\* A descriptor is freed under a user in two cases only, a synchronous call
\* that times out after the tasklet took its descriptor (tegra-ivc-rpc.c:493)
\* and a timer handler that was entered before del_timer() (237); never while it
\* is in tx_list, under its caller, or under a handler that found it.
THEOREM FreedDescriptorsUnused == Spec => []FreedUnderLateUser
<1>1. RpcInv => FreedUnderLateUser
  BY DEF RpcInv, TypeOK, FreedUnderLateUser, CallerUses, TimerUses, Life, Fresh, Prepared,
         Listed, Taken, Answered, Expired, Returning, CalledBack, Private
<1> QED
  BY <1>1, RpcInvariance, PTL

\* No descriptor leaks: whatever becomes of the answer, and whichever of the
\* tasklet and the timeout is first, an allocated descriptor is held by
\* somebody who will free it.
THEOREM DescriptorsAreHeld == Spec => []NoLeak
<1>1. RpcInv => NoLeak
  BY DEF RpcInv, TypeOK, NoLeak, CallerUses, TimerUses, Life, Fresh, Prepared,
         Listed, Taken, Answered, Expired, Returning, CalledBack, Private
<1> QED
  BY <1>1, RpcInvariance, PTL

\* The callback of an asynchronous call is called exactly once before its
\* descriptor is freed, by the tasklet or by the timer, also when the timer
\* handler was entered before the tasklet cancelled it; and not at all for a
\* call that failed.
THEOREM CallbacksAreExact == Spec => []CallbackOnce
<1>1. RpcInv => CallbackOnce
  BY DEF RpcInv, TypeOK, CallbackOnce, Life, Fresh, Prepared,
         Listed, Taken, Answered, Expired, Returning, CalledBack
<1> QED
  BY <1>1, RpcInvariance, PTL
=============================================================================
