----------------------------- MODULE IvcHistory -----------------------------
(***************************************************************************)
(* IvcChannel with two history variables that record, for each endpoint,   *)
(* whether the last handshake met one of the two races of the code: a      *)
(* frame operation of the same endpoint while notified() runs, and a reset *)
(* of the peer between the look at its state and the move to EST.  They    *)
(* restrict no step; the properties below say exactly what is lost when    *)
(* they are set, and that nothing is lost when they are not.               *)
(***************************************************************************)
EXTENDS IvcChannel

VARIABLES
  overlap,   \* did a frame operation of e overlap the clearing of e's counters?
  blind      \* did e move to EST although its peer had gone back to SYNC?

history == <<overlap, blind>>

HInit ==
  /\ Init
  /\ overlap = [e \in Endpoints |-> FALSE]
  /\ blind   = [e \in Endpoints |-> FALSE]

\* notified() begins to clear the counters of e.
BeginsClear(e) == irq[e] = "idle" /\ irq'[e] = "clear_w"

\* A frame operation of e begins while notified() is under way.
OpensInside(e) == irq[e] # "idle" /\ ~Busy(e) /\ Busy(e)'

Establishes(e) == state[e] # "est" /\ state'[e] = "est"

HNext ==
  /\ Next
  /\ overlap' = [e \in Endpoints |->
                   IF BeginsClear(e)
                   THEN Busy(e) \/ (state[e] = "ack" /\ overlap[e])
                   ELSE overlap[e] \/ OpensInside(e)]
  /\ blind' = [e \in Endpoints |->
                   IF Establishes(e) THEN state[Peer(e)] = "sync"
                   ELSE blind[e] /\ state'[e] = "est"]

HSpec == HInit /\ [][HNext]_<<vars, history>>

-----------------------------------------------------------------------------
\* A counter of e that is not zero is about to be cleared.
Clears(e) == \/ irq[e] = "clear_w" /\ w_count[e] # 0
             \/ irq[e] \in {"clear_w", "clear_r"} /\ r_count[e] # 0

\* notified() takes a counter back to zero only while the other side is not
\* established and in no frame operation, except after one of the two races:
\* the end that clears, or the end that uses the counter, moved to EST on a
\* state of its peer that a reset had overtaken, or a frame operation ran into
\* the clearing.
ClearedUnlessRaced ==
  \A e \in Endpoints :
     Clears(e) /\ ~overlap[e] /\ ~blind[e] =>
        LET p == Peer(e) IN
        /\ state[p] = "est" => blind[p]
        /\ Busy(p) => blind[p] \/ overlap[p]

\* An endpoint that offers ACK has cleared its counters and positions, unless
\* a frame operation of its own ran into the clearing (the interrupt takes
\* neither ivc_wr_lock nor the lock of the reader).
AckUnlessOverlapped ==
  \A e \in Endpoints :
     state[e] = "ack" /\ ~overlap[e] => /\ w_count[e] = 0 /\ r_count[e] = 0
                                        /\ w_pos[e] = 0 /\ r_pos[e] = 0
=============================================================================
