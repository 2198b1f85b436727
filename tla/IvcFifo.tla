------------------------------ MODULE IvcFifo ------------------------------
(***************************************************************************)
(* What an IVC channel promises to its two endpoints: in each direction a  *)
(* bounded first-in first-out queue of frames.  A frame that was published *)
(* is delivered once, in order and unaltered, unless the channel goes      *)
(* through a reset, and only a reset (the link being down) loses frames.   *)
(***************************************************************************)
EXTENDS Naturals, Sequences

CONSTANTS Endpoints,    \* the two ends
          Peer(_),      \* the other end
          NFrames,      \* frames of each queue
          Data,         \* what a frame may hold
          None          \* no frame was received yet

VARIABLES queue,        \* queue[e]: frames sent by e and not yet received
          got,          \* got[e]: the last frame e received
          link          \* "up", or "down" while a reset is under way

vars == <<queue, got, link>>

Init == /\ queue = [e \in Endpoints |-> <<>>]
        /\ got = [e \in Endpoints |-> None]
        /\ link = "up"

\* e publishes frame d.
Push(e, d) == /\ Len(queue[e]) < NFrames
              /\ queue' = [queue EXCEPT ![e] = Append(@, d)]
              /\ UNCHANGED <<got, link>>

\* e looks at the oldest frame of its peer.
Peek(e) == /\ queue[Peer(e)] # <<>>
           /\ got' = [got EXCEPT ![e] = Head(queue[Peer(e)])]
           /\ UNCHANGED <<queue, link>>

\* e releases the frame it looked at.
Pop(e) == /\ queue[Peer(e)] # <<>>
          /\ got[e] = Head(queue[Peer(e)])
          /\ queue' = [queue EXCEPT ![Peer(e)] = Tail(@)]
          /\ UNCHANGED <<got, link>>

\* A reset takes the link down or keeps it down, and drops whole queues.
Drop == /\ link' = "down"
        /\ \E S \in SUBSET Endpoints :
              queue' = [e \in Endpoints |-> IF e \in S THEN <<>> ELSE queue[e]]
        /\ UNCHANGED got

\* The reset is over.
Restore == /\ link' = "up"
           /\ UNCHANGED <<queue, got>>

Next == \/ \E e \in Endpoints : \/ \E d \in Data : Push(e, d)
                                \/ Peek(e)
                                \/ Pop(e)
        \/ Drop
        \/ Restore

Spec == Init /\ [][Next]_vars
=============================================================================
