--------------------------- MODULE EventAckQueue ---------------------------
(***************************************************************************)
(* The acknowledge queue of the event client (events/event_ack_queue.cpp).*)
(*                                                                         *)
(* Ids to acknowledge wait in a FIFO, at most MaxParallelAcks of them are  *)
(* running (sent to the server, not confirmed yet).  One posted task at a  *)
(* time, remembered by ack_pending_, moves ids from the FIFO to the        *)
(* running set and sends them.  The confirmation is not the answer of the  *)
(* Call, which the code drops, but the acknowledged event itself.          *)
(*                                                                         *)
(* Dispatch may run the task inline or later.  Running it inline is the    *)
(* posting step followed at once by AckPendingEvents, so one posted step   *)
(* covers both.                                                            *)
(***************************************************************************)
EXTENDS Events, Integers, Sequences, FiniteSets, SequencesExt

CONSTANT MaxParallelAcks    \* kMaxParallelAcks

ASSUME MaxParallelAcksAssumption == MaxParallelAcks \in Nat \ {0}

VARIABLES
    pending,       \* pending_ack_event_ids_
    running,       \* running_ack_event_ids_
    ack_pending,   \* ack_pending_: AckPendingEvents is posted
    sent,          \* ids of Acknowledge calls the server has not processed
    aborted        \* a Check of the queue failed

ackVars == <<pending, running, ack_pending, sent, aborted>>

AckTypeOK ==
    /\ pending \in Seq(EventIds)
    /\ running \in SUBSET EventIds
    /\ ack_pending \in BOOLEAN
    /\ sent \in SUBSET EventIds
    /\ aborted \in BOOLEAN

AckInit ==
    /\ pending = <<>>
    /\ running = {}
    /\ ack_pending = FALSE
    /\ sent = {}
    /\ aborted = FALSE

-----------------------------------------------------------------------------
(* The operations of the queue.                                            *)

IsAcking == pending # <<>> \/ running # {}

\* There is something to send and room to send it.
CanSend(p, r) == p # <<>> /\ Cardinality(r) < MaxParallelAcks

\* p, r: the FIFO and the running set as the caller leaves them; posted: its
\* ack_pending_.  With nothing to post the code Checks that nothing is posted.
PostAckPendingEvents(p, r, posted) ==
    /\ ack_pending' = (posted \/ CanSend(p, r))
    /\ aborted' = (aborted \/ (posted /\ ~CanSend(p, r)))

\* Mutant: Ack does not look whether the id is queued or running.
AckWithoutDuplicateCheck(ids) ==
    \E new \in SetToSeqs(ids) :
        /\ pending' = pending \o new
        /\ PostAckPendingEvents(pending', running, ack_pending)
        /\ UNCHANGED <<running, sent>>

\* A loop of Ack over the ids of a container, in the container's order.
AckAll(ids) ==
    \E new \in SetToSeqs(ids \ (running \cup ToSet(pending))) :
        /\ pending' = pending \o new
        /\ IF new = <<>>
             THEN UNCHANGED <<ack_pending, aborted>>
             ELSE PostAckPendingEvents(pending', running, ack_pending)
        /\ UNCHANGED <<running, sent>>

Ack(id) == AckAll({id})

\* Mutant: a confirmation frees its slot and does not post.
OnAckedLeavesQueueAsleep(id) ==
    /\ running' = running \ {id}
    /\ UNCHANGED <<pending, ack_pending, sent, aborted>>

\* The acknowledged event of id has arrived.
OnAcked(id) ==
    /\ running' = running \ {id}
    /\ IF id \in running
         THEN PostAckPendingEvents(pending, running', ack_pending)
         ELSE UNCHANGED <<ack_pending, aborted>>
    /\ UNCHANGED <<pending, sent>>

\* How many ids the sending loop takes off the front of the FIFO.
Takes ==
    LET room == MaxParallelAcks - Cardinality(running)
    IN  IF room < 0 THEN 0 ELSE IF room < Len(pending) THEN room ELSE Len(pending)

\* Mutant: ids are taken off the back of the FIFO.
AckPendingEventsFromTheBack ==
    LET left  == Len(pending) - Takes
        batch == ToSet(SubSeq(pending, left + 1, Len(pending)))
    IN  /\ ack_pending
        /\ pending' = SubSeq(pending, 1, left)
        /\ running' = running \cup batch
        /\ sent' = sent \cup batch
        /\ PostAckPendingEvents(pending', running', FALSE)

\* The posted task.
AckPendingEvents ==
    LET batch == ToSet(SubSeq(pending, 1, Takes))
    IN  /\ ack_pending
        /\ pending' = SubSeq(pending, Takes + 1, Len(pending))
        /\ running' = running \cup batch
        /\ sent' = sent \cup batch
        /\ PostAckPendingEvents(pending', running', FALSE)

\* Reset leaves ack_pending_ and the posted task alone.
Reset ==
    /\ pending' = <<>>
    /\ running' = {}
    /\ UNCHANGED <<ack_pending, sent, aborted>>

\* The Call of id ends; its status is dropped.
CallEnds(id) ==
    /\ id \in sent
    /\ sent' = sent \ {id}
    /\ UNCHANGED <<pending, running, ack_pending, aborted>>

AckNext ==
    \/ \E id \in EventIds : Ack(id)
    \/ \E id \in EventIds : OnAcked(id)
    \/ AckPendingEvents
    \/ Reset
    \/ \E id \in EventIds : CallEnds(id)

AckSpec == AckInit /\ [][AckNext]_ackVars

-----------------------------------------------------------------------------
(* Properties.                                                             *)

\* An id is in the queue at most once: Ack's two membership tests keep a
\* repeated acknowledge (double click, AcknowledgeAll after AcknowledgeItem)
\* from being sent twice.
NoDuplicateAcks ==
    /\ \A i, j \in 1..Len(pending) : pending[i] = pending[j] => i = j
    /\ \A i \in 1..Len(pending) : pending[i] \notin running

\* The server never has more than MaxParallelAcks of this client's ids to
\* confirm (kMaxParallelAcks bounds the running set).
AtMostMaxParallelAcks == Cardinality(running) <= MaxParallelAcks

\* Together: each acknowledge under way holds one slot of its own, over every
\* sequence of repeated requests, confirmations and partial runs of the task.
AcksHoldTheirSlots == AtMostMaxParallelAcks /\ NoDuplicateAcks

\* No lost wake-up: whenever something waits and there is room to send it, the
\* task that sends it is posted.  Nothing else would ever wake the queue.
NoLostWakeup == CanSend(pending, running) => ack_pending

\* Both Checks of the queue hold: PostAckPendingEvents finds nothing posted when
\* there is nothing to post, and the task finds ack_pending_ set when it runs.
ChecksHold == ~aborted

\* A task is posted only while a slot is free, and it finds the FIFO empty only
\* when a Reset emptied the whole queue under it: the reason the Checks hold.
PostedTaskIsNeeded ==
    ack_pending => /\ Cardinality(running) < MaxParallelAcks
                   /\ pending = <<>> => running = {}

\* What starts to run was queued behind nothing that still waits.
StartsInOrder ==
    \A i, j \in 1..Len(pending) :
        (i < j /\ pending[j] \in running' \ running) => pending[i] \in running'

\* The FIFO is fair: no id starts to run before an id that was queued earlier.
NoOvertaking == [][StartsInOrder]_ackVars

=============================================================================
