-------------------------- MODULE BpmpAnswerProofs --------------------------
(***************************************************************************)
(* Proofs about requests and answers in BpmpMail, for every number of      *)
(* callers, channels and suspends: as long as no wait times out, a request *)
(* is followed through the queues of its channel, the firmware and the     *)
(* interrupt handler back to its own caller.                               *)
(***************************************************************************)
EXTENDS BpmpProofs

-----------------------------------------------------------------------------
(***************************************************************************)
(* The inductive invariant.                                                *)
(***************************************************************************)

\* Threads and atomic callers keep to their own paths; the atomic callers
\* share channel ACh, and one of them at a time is past ach_lock.
Locked(t) == pc[t] \in {"awrite", "aring", "await", "aread", "unlock"}
Roles == /\ \A t \in Callers : pc[t] \in TPc
         /\ \A t \in ACallers :
               /\ pc[t] \in APc /\ ch[t] = ACh
               /\ Locked(t) <=> ach_lock = t

\* Callers with a request under way.
Asking(t) == pc[t] \in {"ring", "wait", "read", "aring", "await", "aread"}

\* A channel without a request is empty, and nobody will complete it.
Quiet(c) == /\ obq[c] = None /\ fw[c] = None /\ ~ibq[c]
            /\ c \in TCh => c \notin to_complete /\ completion[c] = 0

\* The request of t, or the answer to it, is in one place of channel c.
Carries(c, t) ==
  \/ obq[c] = t /\ fw[c] = None /\ ~ibq[c]
  \/ obq[c] = None /\ fw[c] = t /\ ~ibq[c]
  \/ obq[c] = None /\ fw[c] = None /\ ibq[c] /\ ibframe[c] = t

\* A waiting thread is completed once, after the answer is there.
Signalled(c, t) ==
  /\ pc[t] \in {"ring", "wait"} =>
       \/ c \in to_complete /\ completion[c] = 0
       \/ c \notin to_complete /\ completion[c] = 1 /\ ibq[c] /\ ibptr[c]
  /\ pc[t] = "read" => c \notin to_complete /\ completion[c] = 0
  /\ pc[t] \in {"read", "aread"} => ibq[c] /\ ibptr[c]

QuietInv == \A c \in Ch : (\A t \in Clients : Asking(t) => ch[t] # c) => Quiet(c)
CarryInv == \A t \in Clients : Asking(t) => Carries(ch[t], t) /\ Signalled(ch[t], t)
AnswerInv == ~warned /\ \A t \in Clients : pc[t] # "recheck" /\ answer[t] \in {None, t}

MailInv == Roles /\ (NoTimeoutYet => QuietInv /\ CarryInv /\ AnswerInv)

-----------------------------------------------------------------------------
(***************************************************************************)
(* Roles and channels.                                                     *)
(***************************************************************************)
\* No step lets a caller take a step of the other path, or two cpus pass
\* ach_lock.
LEMMA RolesStep ==
  ASSUME Shape, Roles, [Next]_vars
  PROVE  Roles'
<1> USE NoneAssumption, CallersAssumption
    DEF Shape, Roles, Locked, Goto, Return, queues, pool, bells, TPc, APc, Clients
<1>1. ASSUME NEW t \in Clients, Call(t) PROVE Roles'
  BY <1>1 DEF Call
<1>2. ASSUME NEW t \in Callers, Down(t) \/ WaitTimeout(t) \/ DownTimeout(t) \/ Up(t)
      PROVE  Roles'
  BY <1>2 DEF Down, WaitTimeout, DownTimeout, Up
<1>3. ASSUME NEW t \in Callers, Write(t) \/ Recheck(t) \/ Read(t) \/ WaitDone(t)
      PROVE  Roles'
  BY <1>3 DEF Write, Recheck, Read, ReadCh, WaitDone
<1>4. ASSUME NEW t \in Clients, Ring(t) PROVE Roles'
  BY <1>4 DEF Ring
<1>5. ASSUME NEW t \in ACallers, ALock(t) \/ AUnlock(t)
      PROVE  Roles'
  BY <1>5 DEF ALock, AUnlock
<1>6. ASSUME NEW t \in ACallers, ATimeout(t) \/ AWrite(t) \/ AAcked(t) \/ ARead(t)
      PROVE  Roles'
  BY <1>6 DEF ATimeout, AWrite, AAcked, ARead, ReadCh
<1>7. CASE HandleIrq \/ SuspendResume
  BY <1>7 DEF HandleIrq, SuspendResume
<1>8. CASE Firmware
  BY <1>8 DEF Firmware, FwSleep, FwTake, FwAnswer
<1>9. CASE UNCHANGED vars
  BY <1>9 DEF vars
<1> QED
  BY <1>1, <1>2, <1>3, <1>4, <1>5, <1>6, <1>7, <1>8, <1>9
  DEF Next, ThreadStep, AtomicStep

\* Two requests under way are on different channels.
LEMMA OwnChannel ==
  ASSUME PoolInv, Roles, NEW t \in Clients, Asking(t)
  PROVE  /\ ch[t] \in Ch
         /\ t \in Callers => ch[t] \in TCh \ tch_free
         /\ t \in ACallers => ch[t] = ACh
         /\ \A u \in Clients : Asking(u) /\ ch[u] = ch[t] => u = t
<1>1. ch[t] \in Ch
  BY DEF PoolInv, Shape
<1>2. ASSUME NEW u \in Callers, Asking(u)
      PROVE  u \in Owners /\ ch[u] \in TCh \ tch_free
  BY <1>2 DEF Asking, Owners, Roles, TPc, PoolInv, OneCallerPerChannel
<1>3. ASSUME NEW u \in ACallers, Asking(u)
      PROVE  ach_lock = u /\ ch[u] = ACh
  BY <1>3 DEF Asking, Roles, APc, Locked
<1>4. ACh \notin TCh
  BY NChAssumption DEF ACh, TCh
<1> QED
  BY <1>1, <1>2, <1>3, <1>4 DEF Clients, PoolInv, OneCallerPerChannel

-----------------------------------------------------------------------------
(***************************************************************************)
(* Requests and answers.                                                   *)
(***************************************************************************)
Link == QuietInv /\ CarryInv /\ AnswerInv

\* A step of a caller that has no request under way, before or after it.
LEMMA BystanderStep ==
  ASSUME Shape, Link, NEW t \in Clients, ~Asking(t), ~Asking(t)',
         \A u \in Clients \ {t} : pc'[u] = pc[u] /\ ch'[u] = ch[u],
         UNCHANGED <<queues, ibptr, to_complete, completion>>
  PROVE  QuietInv' /\ CarryInv'
  BY DEF Shape, Link, QuietInv, CarryInv, Quiet, Carries, Signalled, Asking, queues

\* A step that changes neither a caller nor a channel.
LEMMA StillStep ==
  ASSUME Link, UNCHANGED <<queues, ibptr, to_complete, completion, pc, ch, answer, warned>>
  PROVE  Link'
  BY DEF Link, AnswerInv, QuietInv, CarryInv, Quiet, Carries, Signalled, Asking, queues

\* A step that concerns one caller and the channel of its request.
LEMMA ChannelStep ==
  ASSUME Link, NEW t \in Clients, NEW d \in Ch,
         \A u \in Clients \ {t} :
            /\ pc'[u] = pc[u] /\ ch'[u] = ch[u]
            /\ Asking(u) => ch[u] # d,
         \A c \in Ch \ {d} :
            /\ obq'[c] = obq[c] /\ fw'[c] = fw[c] /\ ibq'[c] = ibq[c]
            /\ ibframe'[c] = ibframe[c] /\ ibptr'[c] = ibptr[c],
         \A c \in TCh \ {d} :
            /\ completion'[c] = completion[c]
            /\ c \in to_complete' <=> c \in to_complete,
         Asking(t) => ch[t] = d,
         Asking(t)' => ch'[t] = d /\ Carries(d, t)' /\ Signalled(d, t)',
         ~Asking(t)' => Quiet(d)',
         \A u \in Clients : Asking(u) => ch[u] \in Ch /\ (u \in Callers => ch[u] \in TCh),
         \A u \in ACallers : pc[u] \in APc
  PROVE  QuietInv' /\ CarryInv'
<1>1. QuietInv'
  <2> SUFFICES ASSUME NEW c \in Ch, \A u \in Clients : Asking(u)' => ch'[u] # c
               PROVE  Quiet(c)'
    BY DEF QuietInv
  <2>1. CASE c = d
    BY <2>1
  <2>2. CASE c # d
    <3>1. ASSUME NEW u \in Clients, Asking(u) PROVE ch[u] # c
      <4>1. CASE u = t
        BY <2>2, <3>1, <4>1
      <4>2. CASE u # t
        BY <3>1, <4>2 DEF Asking
      <4> QED
        BY <4>1, <4>2
    <3>2. Quiet(c)
      BY <3>1 DEF Link, QuietInv
    <3> QED
      BY <2>2, <3>2 DEF Quiet
  <2> QED
    BY <2>1, <2>2
<1>2. CarryInv'
  <2> SUFFICES ASSUME NEW u \in Clients, Asking(u)'
               PROVE  Carries(ch[u], u)' /\ Signalled(ch[u], u)'
    BY DEF CarryInv
  <2>1. CASE u = t
    BY <2>1
  <2>2. CASE u # t
    <3>a. ch'[u] = ch[u] /\ pc'[u] = pc[u]
      BY <2>2
    <3>b. Asking(u) /\ ch[u] # d /\ ch[u] \in Ch
      BY <2>2, <3>a DEF Asking
    <3>1. Carries(ch[u], u) /\ Signalled(ch[u], u)
      BY <3>b DEF Link, CarryInv
    <3>2. Carries(ch[u], u)'
      BY <3>a, <3>b, <3>1 DEF Carries
    <3>3. Signalled(ch[u], u)'
      <4>1. CASE u \in Callers
        <5>1. ch[u] \in TCh \ {d}
          BY <3>b, <4>1
        <5> QED
          BY <3>a, <3>b, <3>1, <5>1 DEF Signalled
      <4>2. CASE u \in ACallers
        <5>1. pc[u] \notin {"ring", "wait", "read"}
          BY <4>2 DEF APc
        <5> QED
          BY <3>a, <3>b, <3>1, <5>1 DEF Signalled
      <4> QED
        BY <4>1, <4>2 DEF Clients
    <3> QED
      BY <3>1, <3>2, <3>3
  <2> QED
    BY <2>1, <2>2
<1> QED
  BY <1>1, <1>2

\* Every step, as long as no wait has timed out.
LEMMA LinkStep ==
  ASSUME PoolInv, Roles, Link, NoTimeoutYet, NoTimeoutYet', [Next]_vars
  PROVE  Link'
<1> USE DEF Goto, Return, Clients
<1>a. Shape
  BY DEF PoolInv
<1>b. Callers \cap ACallers = {} /\ None \notin Clients
  BY CallersAssumption, NoneAssumption
<1>c. /\ \A u \in Clients : Asking(u) => ch[u] \in Ch /\ (u \in Callers => ch[u] \in TCh)
      /\ \A u \in ACallers : pc[u] \in APc
  BY OwnChannel DEF Roles
<1>1. ASSUME NEW t \in Clients, Call(t) PROVE Link'
  <2>1. AnswerInv'
    BY <1>a, <1>1 DEF Call, Link, AnswerInv, Shape
  <2> QED
    BY <1>a, <1>1, <2>1, BystanderStep DEF Call, Link, Asking, Shape, pool, queues
<1>2. ASSUME NEW t \in Callers, Down(t) \/ DownTimeout(t) \/ Up(t) PROVE Link'
  <2>1. AnswerInv'
    BY <1>a, <1>2 DEF Down, DownTimeout, Up, Link, AnswerInv, Shape
  <2> QED
    BY <1>a, <1>2, <2>1, BystanderStep
    DEF Down, DownTimeout, Up, Link, Asking, Shape, pool, queues
<1>3. ASSUME NEW t \in ACallers, ALock(t) \/ AUnlock(t) PROVE Link'
  <2>1. AnswerInv'
    BY <1>a, <1>3 DEF ALock, AUnlock, Link, AnswerInv, Shape
  <2> QED
    BY <1>a, <1>3, <2>1, BystanderStep
    DEF ALock, AUnlock, Link, Asking, Shape, pool, queues
<1>4. ASSUME NEW t \in Callers, Write(t) PROVE Link'
  <2>0. PICK d : d = FirstFree
    OBVIOUS
  <2>1. d \in tch_free /\ d \in TCh /\ d \in Ch
    <3>1. FirstFree \in tch_free
      BY <1>4, WriterFindsChannel DEF Write, PoolInv
    <3> QED
      BY <2>0, <1>a, <3>1, NChAssumption DEF Shape, TCh, Ch
  <2>2. ASSUME NEW u \in Clients, Asking(u) PROVE ch[u] # d
    BY <2>0, <2>1, <2>2, OwnChannel, NChAssumption DEF ACh, TCh
  <2>3. Quiet(d)
    BY <2>0, <2>1, <2>2 DEF Link, QuietInv
  <2>4. /\ ch' = [ch EXCEPT ![t] = d] /\ pc' = [pc EXCEPT ![t] = "ring"]
        /\ obq' = [obq EXCEPT ![d] = t] /\ to_complete' = to_complete \cup {d}
        /\ UNCHANGED <<fw, ibq, ibframe, ibptr, completion, answer, warned>>
    BY <2>0, <1>4, <2>3 DEF Write, MasterFree, Quiet
  <2>5. ~Asking(t) /\ ch'[t] = d /\ Carries(d, t)' /\ Signalled(d, t)' /\ Asking(t)'
    BY <2>0, <1>4, <1>a, <2>1, <2>3, <2>4
    DEF Write, Asking, Quiet, Carries, Signalled, Shape
  <2>6. QuietInv' /\ CarryInv'
    BY <2>0, <1>a, <1>c, <2>1, <2>2, <2>4, <2>5, ChannelStep DEF Shape, Roles
  <2>7. AnswerInv'
    BY <2>0, <1>a, <2>4 DEF Link, AnswerInv, Shape
  <2> QED
    BY <2>0, <2>6, <2>7 DEF Link
<1>5. ASSUME NEW t \in Clients, Ring(t) PROVE Link'
  <2>0. PICK d : d = ch[t]
    OBVIOUS
  <2>1. Asking(t) /\ d \in Ch /\ \A u \in Clients \ {t} : Asking(u) => ch[u] # d
    BY <2>0, <1>5, OwnChannel DEF Ring, Asking
  <2>2. Carries(d, t) /\ Signalled(d, t)
    BY <2>0, <2>1 DEF Link, CarryInv
  <2>3. Asking(t)' /\ ch'[t] = d /\ Carries(d, t)' /\ Signalled(d, t)'
    BY <2>0, <1>5, <1>a, <2>2 DEF Ring, Asking, Carries, Signalled, Shape, queues, pool
  <2>4. QuietInv' /\ CarryInv'
    BY <2>0, <1>5, <1>a, <1>c, <2>1, <2>3, ChannelStep DEF Ring, Shape, queues, pool, Roles
  <2>5. AnswerInv'
    BY <2>0, <1>5, <1>a DEF Ring, Link, AnswerInv, Shape
  <2> QED
    BY <2>0, <2>4, <2>5 DEF Link
<1>6. ASSUME NEW t \in Callers, WaitDone(t) PROVE Link'
  <2>0. PICK d : d = ch[t]
    OBVIOUS
  <2>1. /\ Asking(t) /\ d \in Ch /\ d \in TCh
        /\ \A u \in Clients \ {t} : Asking(u) => ch[u] # d
    BY <2>0, <1>6, OwnChannel DEF WaitDone, Asking
  <2>2. Carries(d, t) /\ Signalled(d, t) /\ pc[t] = "wait" /\ completion[d] > 0
    BY <2>0, <1>6, <2>1 DEF WaitDone, Link, CarryInv
  <2>3. d \notin to_complete /\ completion[d] = 1 /\ ibq[d] /\ ibptr[d]
    BY <2>0, <2>2 DEF Signalled
  <2>4. pc' = [pc EXCEPT ![t] = "read"] /\ completion' = [completion EXCEPT ![d] = 0]
        /\ UNCHANGED <<queues, ibptr, to_complete, ch, answer, warned>>
    BY <2>0, <1>6, <1>a, <2>1, <2>3 DEF WaitDone, Shape
  <2>5. Asking(t)' /\ ch'[t] = d /\ Carries(d, t)' /\ Signalled(d, t)'
    BY <2>0, <1>a, <2>1, <2>2, <2>3, <2>4 DEF Asking, Carries, Signalled, Shape, queues
  <2>6. QuietInv' /\ CarryInv'
    BY <2>0, <1>a, <1>c, <2>1, <2>4, <2>5, ChannelStep DEF Shape, queues, Roles
  <2>7. AnswerInv'
    BY <2>0, <1>a, <2>4 DEF Link, AnswerInv, Shape
  <2> QED
    BY <2>0, <2>6, <2>7 DEF Link
<1>7. ASSUME NEW t \in Clients,
             (t \in Callers /\ Read(t)) \/ (t \in ACallers /\ ARead(t))
      PROVE  Link'
  <2>0. PICK d : d = ch[t]
    OBVIOUS
  <2>1. /\ Asking(t) /\ d \in Ch /\ pc[t] \in {"read", "aread"}
        /\ \A u \in Clients \ {t} : Asking(u) => ch[u] # d
    BY <2>0, <1>7, OwnChannel DEF Read, ARead, Asking
  <2>2. Carries(d, t) /\ Signalled(d, t)
    BY <2>0, <2>1 DEF Link, CarryInv
  <2>3. ibq[d] /\ ibframe[d] = t /\ obq[d] = None /\ fw[d] = None
        /\ (d \in TCh => d \notin to_complete /\ completion[d] = 0)
    BY <2>0, <1>7, <1>b, <2>1, <2>2, OwnChannel, NChAssumption DEF Read, ARead, Carries, Signalled, ACh, TCh
  <2>4. /\ pc'[t] \in {"up", "unlock"} /\ \A u \in Clients \ {t} : pc'[u] = pc[u]
        /\ answer' = [answer EXCEPT ![t] = t] /\ ibq' = [ibq EXCEPT ![d] = FALSE]
        /\ UNCHANGED <<obq, fw, ibframe, ibptr, to_complete, completion, ch>> /\ ~warned'
    BY <2>0, <1>7, <1>a, <2>3 DEF Read, ARead, ReadCh, FreeMaster, Shape, Link, AnswerInv, pool
  <2>5. ~Asking(t)' /\ Quiet(d)'
    BY <2>0, <1>a, <2>1, <2>3, <2>4 DEF Asking, Quiet, Shape
  <2>6. QuietInv' /\ CarryInv'
    BY <2>0, <1>a, <1>c, <2>1, <2>4, <2>5, ChannelStep DEF Shape, Roles
  <2>7. AnswerInv'
    BY <2>0, <1>a, <2>4 DEF Link, AnswerInv, Shape
  <2> QED
    BY <2>0, <2>6, <2>7 DEF Link
<1>8. ASSUME NEW t \in ACallers, AWrite(t) PROVE Link'
  <2>1. ACh \in Ch /\ ACh \notin TCh /\ ~Asking(t) /\ ch[t] = ACh /\ ach_lock = t
    BY <1>8, NChAssumption DEF AWrite, Asking, ACh, Ch, TCh, Roles, Locked
  <2>2. ASSUME NEW u \in Clients, Asking(u) PROVE ch[u] # ACh
    <3>1. u # t
      BY <2>1, <2>2
    <3>2. u \in ACallers => Locked(u)
      BY <2>2 DEF Roles, APc, Asking, Locked
    <3> QED
      BY <2>1, <2>2, <3>1, <3>2, OwnChannel DEF Roles
  <2>3. Quiet(ACh)
    BY <2>1, <2>2 DEF Link, QuietInv
  <2>4. /\ pc' = [pc EXCEPT ![t] = "aring"] /\ obq' = [obq EXCEPT ![ACh] = t]
        /\ UNCHANGED <<fw, ibq, ibframe, ibptr, to_complete, completion, ch, answer, warned>>
    BY <1>8 DEF AWrite, pool
  <2>5. Asking(t)' /\ Carries(ACh, t)' /\ Signalled(ACh, t)'
    BY <1>a, <2>1, <2>3, <2>4 DEF Asking, Quiet, Carries, Signalled, Shape
  <2>6. QuietInv' /\ CarryInv'
    BY <1>a, <1>c, <2>1, <2>2, <2>4, <2>5, ChannelStep DEF Shape, Roles
  <2>7. AnswerInv'
    BY <1>a, <2>4 DEF Link, AnswerInv, Shape
  <2> QED
    BY <2>6, <2>7 DEF Link
<1>9. ASSUME NEW t \in ACallers, AAcked(t) PROVE Link'
  <2>1. /\ Asking(t) /\ ACh \in Ch /\ ACh \notin TCh /\ ch[t] = ACh
        /\ \A u \in Clients \ {t} : Asking(u) => ch[u] # ACh
    BY <1>9, OwnChannel, NChAssumption DEF AAcked, Asking, ACh, Ch, TCh
  <2>2. Carries(ACh, t) /\ ibq[ACh]
    BY <1>9, <2>1 DEF AAcked, Link, CarryInv
  <2>3. /\ pc' = [pc EXCEPT ![t] = "aread"] /\ ibptr' = [ibptr EXCEPT ![ACh] = TRUE]
        /\ UNCHANGED <<queues, to_complete, completion, ch, answer, warned>>
    BY <1>9 DEF AAcked, pool
  <2>4. Asking(t)' /\ Carries(ACh, t)' /\ Signalled(ACh, t)'
    BY <1>a, <2>1, <2>2, <2>3 DEF Asking, Carries, Signalled, Shape, queues
  <2>5. QuietInv' /\ CarryInv'
    BY <1>a, <1>c, <2>1, <2>3, <2>4, ChannelStep DEF Shape, Roles, queues
  <2>6. AnswerInv'
    BY <1>a, <2>3 DEF Link, AnswerInv, Shape
  <2> QED
    BY <2>5, <2>6 DEF Link
<1>10. ASSUME NEW d \in Ch, FwTake(d) \/ FwAnswer(d) PROVE Link'
  <2>1. ~Quiet(d)
    BY <1>10 DEF FwTake, FwAnswer, Quiet
  <2>2. PICK t \in Clients : Asking(t) /\ ch[t] = d
    BY <2>1 DEF Link, QuietInv
  <2>3. \A u \in Clients \ {t} : Asking(u) => ch[u] # d
    BY <2>2, OwnChannel
  <2>4. Carries(d, t) /\ Signalled(d, t)
    BY <2>2 DEF Link, CarryInv
  <2>5. /\ UNCHANGED <<pc, ch, ibptr, to_complete, completion, answer, warned>>
        /\ \A c \in Ch \ {d} :
              /\ obq'[c] = obq[c] /\ fw'[c] = fw[c] /\ ibq'[c] = ibq[c]
              /\ ibframe'[c] = ibframe[c]
    BY <1>10, <1>a DEF FwTake, FwAnswer, Shape, pool
  <2>6. Carries(d, t)' /\ (ibq[d] => ibq'[d])
    BY <1>10, <1>a, <1>b, <2>4 DEF FwTake, FwAnswer, Carries, Shape
  <2>7. Asking(t)' /\ Signalled(d, t)'
    BY <2>2, <2>4, <2>5, <2>6 DEF Asking, Signalled
  <2>8. QuietInv' /\ CarryInv'
    BY <1>a, <1>c, <2>2, <2>3, <2>5, <2>6, <2>7, ChannelStep DEF Roles
  <2>9. AnswerInv'
    BY <2>5 DEF Link, AnswerInv
  <2> QED
    BY <2>8, <2>9 DEF Link
<1>11. CASE HandleIrq
  <2>1. UNCHANGED <<queues, pc, ch, answer, warned>>
    BY <1>11 DEF HandleIrq
  <2>2. ASSUME NEW c \in TCh
        PROVE  IF c \in Acked
               THEN /\ c \notin to_complete' /\ ibptr'[c]
                    /\ completion'[c] = completion[c] + 1
               ELSE /\ c \in to_complete' <=> c \in to_complete
                    /\ completion'[c] = completion[c]
    BY <1>11, <1>a, <2>2, NChAssumption DEF HandleIrq, Acked, Shape, TCh, Ch
  <2>3. \A c \in Ch : ibq[c] /\ ibptr[c] => ibptr'[c]
    BY <1>11 DEF HandleIrq
  <2>4. QuietInv'
    <3> SUFFICES ASSUME NEW c \in Ch, \A u \in Clients : Asking(u)' => ch'[u] # c
                 PROVE  Quiet(c)'
      BY DEF QuietInv
    <3>1. Quiet(c)
      BY <2>1 DEF Link, QuietInv, Asking
    <3> QED
      BY <2>1, <2>2, <3>1 DEF Quiet, queues, Acked
  <2>5. CarryInv'
    <3> SUFFICES ASSUME NEW u \in Clients, Asking(u)'
                 PROVE  Carries(ch[u], u)' /\ Signalled(ch[u], u)'
      BY <2>1 DEF CarryInv
    <3>1. Asking(u) /\ Carries(ch[u], u) /\ Signalled(ch[u], u) /\ ch[u] \in Ch
      BY <2>1, OwnChannel DEF Link, CarryInv, Asking
    <3>2. Carries(ch[u], u)'
      BY <2>1, <3>1 DEF Carries, queues
    <3>3. CASE u \in Callers
      <4>1. ch[u] \in TCh /\ completion[ch[u]] \in Nat
        BY <1>a, <3>1, <3>3, OwnChannel DEF Shape
      <4> QED
        BY <2>1, <2>2, <2>3, <3>1, <3>2, <4>1 DEF Signalled, Acked, queues
    <3>4. CASE u \in ACallers
      <4>1. pc[u] \notin {"ring", "wait", "read"}
        BY <3>4 DEF Roles, APc
      <4>2. pc' = pc /\ ibq' = ibq /\ (ibq[ch[u]] /\ ibptr[ch[u]] => ibptr'[ch[u]])
        BY <2>1, <2>3, <3>1 DEF queues
      <4> QED
        BY <2>1, <3>1, <3>2, <4>1, <4>2 DEF Signalled
    <3> QED
      BY <2>1, <3>2, <3>3, <3>4
  <2>6. AnswerInv'
    BY <2>1 DEF Link, AnswerInv
  <2> QED
    BY <2>4, <2>5, <2>6 DEF Link
<1>12. CASE SuspendResume
  <2>1. \A t \in Clients : ~Asking(t)
    BY <1>12 DEF SuspendResume, Asking
  <2>2. \A c \in Ch : Quiet(c)
    BY <2>1 DEF Link, QuietInv
  <2>3. /\ UNCHANGED <<fw, pc, ch, to_complete, completion, answer, warned>>
        /\ \A c \in Ch : obq'[c] = None /\ ~ibq'[c]
    BY <1>12 DEF SuspendResume, ResetChannels, pool
  <2> QED
    BY <2>1, <2>2, <2>3 DEF Link, QuietInv, CarryInv, AnswerInv, Asking, Quiet
<1>13. CASE FwSleep \/ UNCHANGED vars
  BY <1>13, StillStep DEF FwSleep, vars, queues, pool
<1>14. ASSUME NEW t \in Callers, WaitTimeout(t) \/ Recheck(t) PROVE Link'
  BY <1>14, <1>a DEF WaitTimeout, Recheck, NoTimeoutYet, Shape, Link, AnswerInv
<1>15. ASSUME NEW t \in ACallers, ATimeout(t) PROVE Link'
  BY <1>15, <1>a DEF ATimeout, NoTimeoutYet, Shape
<1> QED
  BY <1>1, <1>2, <1>3, <1>4, <1>5, <1>6, <1>7, <1>8, <1>9, <1>10, <1>11, <1>12,
     <1>13, <1>14, <1>15 DEF Next, ThreadStep, AtomicStep, Firmware
-----------------------------------------------------------------------------
(***************************************************************************)
(* The theorems.                                                           *)
(***************************************************************************)
\* The invariant holds throughout.
LEMMA MailInvariance == Spec => [](PoolInv /\ MailInv)
<1>1. Init => MailInv
  <2> SUFFICES ASSUME Init PROVE MailInv
    OBVIOUS
  <2>1. Roles
    BY NoneAssumption DEF Init, Roles, Locked, Clients, TPc, APc
  <2>2. QuietInv
    BY DEF Init, QuietInv, Quiet
  <2>3. CarryInv /\ AnswerInv
    BY DEF Init, CarryInv, AnswerInv, Asking
  <2> QED
    BY <2>1, <2>2, <2>3 DEF MailInv
<1>2. PoolInv /\ MailInv /\ [Next]_vars => MailInv'
  <2> SUFFICES ASSUME PoolInv, MailInv, [Next]_vars PROVE MailInv'
    OBVIOUS
  <2>1. Roles'
    BY RolesStep DEF PoolInv, MailInv
  <2>2. NoTimeoutYet' => NoTimeoutYet
    BY BoundsAssumption DEF PoolInv, Shape, NoTimeoutYet, Next, vars, Call, Down,
       WaitTimeout, ThreadStep, DownTimeout, Write, Ring, WaitDone, Recheck, Read, Up,
       ALock, ATimeout, AtomicStep, AWrite, AAcked, ARead, AUnlock, HandleIrq,
       SuspendResume, Firmware, FwSleep, FwTake, FwAnswer
  <2> QED
    BY <2>1, <2>2, LinkStep DEF MailInv, Link
<1> QED
  BY <1>1, <1>2, Invariance, PTL DEF Spec

\* Until a wait times out, tegra_bpmp_send_receive() and its atomic variant
\* return the answer to their own request, for any number of callers that take
\* over each other's channels.
THEOREM AnswersReachTheirCaller == Spec => []OwnAnswer
<1>1. MailInv => OwnAnswer
  BY DEF MailInv, AnswerInv, OwnAnswer
<1> QED
  BY <1>1, MailInvariance, PTL

\* Until a wait times out, bpmp_free_master() finds the frame it frees and
\* __bpmp_read_ch() a pointer to it.
THEOREM AnswersArePresent == Spec => []AnswerPresent
<1>1. MailInv => AnswerPresent
  BY DEF MailInv, AnswerInv, AnswerPresent, NoFailedAdvance, CarryInv, Signalled, Asking
<1> QED
  BY <1>1, MailInvariance, PTL

\* Until a wait times out, bpmp_handle_irq() completes the channel of every
\* waiting thread exactly once, and no other channel.
THEOREM CompletionsAreExact == Spec => []CompletedOnce
<1>1. PoolInv /\ MailInv => CompletedOnce
  <2> SUFFICES ASSUME PoolInv, MailInv, NoTimeoutYet, NEW c \in TCh
               PROVE  (IF c \in to_complete THEN 1 ELSE 0) + completion[c]
                        = Cardinality({t \in Callers : pc[t] \in {"ring", "wait"} /\ ch[t] = c})
    BY DEF CompletedOnce
  <2> DEFINE W == {t \in Callers : pc[t] \in {"ring", "wait"} /\ ch[t] = c}
  <2>1. c \in Ch /\ ACh # c /\ completion[c] \in Nat
    BY NChAssumption DEF TCh, Ch, ACh, PoolInv, Shape
  <2>2. CASE \E t \in W : TRUE
    <3>1. PICK t \in W : TRUE
      BY <2>2
    <3>2. t \in Clients /\ Asking(t) /\ Signalled(c, t)
      BY <3>1 DEF Clients, Asking, MailInv, CarryInv
    <3>3. \A u \in W : u = t
      BY <3>1, <3>2, OwnChannel DEF MailInv, Clients, Asking
    <3>4. Cardinality(W) = 1
      <4>1. W = {t}
        BY <3>1, <3>3
      <4> QED
        BY <4>1, FS_Singleton
    <3> QED
      BY <3>1, <3>2, <3>4 DEF Signalled
  <2>3. CASE ~\E t \in W : TRUE
    <3>1. Cardinality(W) = 0
      BY <2>3, FS_EmptySet
    <3>2. c \notin to_complete /\ completion[c] = 0
      <4>1. CASE \E t \in Clients : Asking(t) /\ ch[t] = c
        <5>1. PICK t \in Clients : Asking(t) /\ ch[t] = c
          BY <4>1
        <5>2. t \in Callers
          BY <2>1, <5>1, OwnChannel DEF MailInv, Clients
        <5>3. pc[t] = "read"
          BY <2>3, <5>1, <5>2 DEF Asking, MailInv, Roles, TPc
        <5> QED
          BY <5>1, <5>3 DEF MailInv, CarryInv, Signalled
      <4>2. CASE ~\E t \in Clients : Asking(t) /\ ch[t] = c
        BY <2>1, <4>2 DEF MailInv, QuietInv, Quiet
      <4> QED
        BY <4>1, <4>2
    <3> QED
      BY <3>1, <3>2
  <2> QED
    BY <2>2, <2>3
<1> QED
  BY <1>1, MailInvariance, PTL
=============================================================================
