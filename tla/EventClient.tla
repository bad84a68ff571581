---------------------------- MODULE EventClient -----------------------------
(***************************************************************************)
(* The event client: EventFetcher with its storage and acknowledge queue,  *)
(* the session's channel and the server it talks to.                       *)
(*                                                                         *)
(* Two streams bring events.  The monitored item delivers live events in   *)
(* order, each through a posted task; a history read delivers a snapshot   *)
(* of the unacked events the server had when it served the read.  Nothing  *)
(* orders a snapshot against the live events.  Acknowledge calls travel to *)
(* the server on their own.  A lost channel drops what is under way.       *)
(***************************************************************************)
EXTENDS EventStorage, EventAckQueue

CONSTANTS
    FirstOrigins,       \* bound: the nodes and times events are raised with
    Watched,            \* bound: the nodes that items observe
    Severity,           \* the severity of each event
    SeverityLevels,     \* values SetSeverityMin is called with
    kSeverityMin,       \* the lowest of them
    ReadSlots,          \* bound: history reads under way at a time
    MaxLive,            \* bound: live events under way at a time
    MaxUpdates,         \* bound: events the server changes
    ChannelMayClose,    \* may the session be lost
    OthersAcknowledge   \* do other clients acknowledge events

ASSUME ClientAssumption ==
    /\ IsFiniteSet(EventIds)
    /\ FirstOrigins \subseteq Origins /\ Watched \subseteq Nodes
    /\ SeverityLevels \subseteq Nat /\ kSeverityMin \in SeverityLevels
    /\ Severity \in [EventIds -> Nat]
    /\ MaxLive \in Nat /\ MaxUpdates \in Nat
    /\ OthersAcknowledge \in BOOLEAN

VARIABLES
    status,         \* server: "none", "unacked" or "acked"
    origin,         \* server: the source and time of each event
    updates,        \* server: how many changes it has made to events
    live,           \* live events sent and not delivered, oldest first
    reads,          \* history reads: "idle", "requested" or the snapshot
    connected,      \* connected_, which is the state of the session too
    severity_min,   \* severity_min_
    readLost        \* history: the read that was to bring what the client does
                    \* not know failed with the session up

serverVars == <<status, origin, updates>>
fetcherVars == <<live, reads, connected, severity_min, readLost>>
clientVars == <<serverVars, fetcherVars, storageVars, ackVars>>

Idle == [state |-> "idle", events |-> {}]
Requested == [state |-> "requested", events |-> {}]
Answer(events) == [state |-> "answered", events |-> events]

ClientTypeOK ==
    /\ AckTypeOK
    /\ StorageTypeOK
    /\ status \in [EventIds -> {"none", "unacked", "acked"}]
    /\ origin \in [EventIds -> Origins]
    /\ updates \in Nat
    /\ live \in Seq(Event)
    /\ reads \in [ReadSlots -> [state : {"idle", "requested", "answered"},
                                events : SUBSET Event]]
    /\ connected \in BOOLEAN
    /\ severity_min \in Nat
    /\ readLost \in BOOLEAN

\* The client starts without a session.
ClientInit ==
    /\ AckInit
    /\ StorageInit
    /\ status = [e \in EventIds |-> "none"]
    /\ origin \in [EventIds -> FirstOrigins]
    /\ updates = 0
    /\ live = <<>>
    /\ reads = [r \in ReadSlots |-> Idle]
    /\ connected = FALSE
    /\ severity_min = kSeverityMin
    /\ readLost = FALSE

-----------------------------------------------------------------------------
(* The server (external) and the channel.                                  *)

\* The event e of origin o.
MakeEvent(e, acked, o) == [id |-> e, acked |-> acked, source |-> o.source, time |-> o.time]

EventOf(e) == MakeEvent(e, status[e] = "acked", origin[e])

\* The server notifies its subscribers; without a session nobody hears it.
Notify(v) ==
    IF connected THEN Len(live) < MaxLive /\ live' = Append(live, v)
                 ELSE live' = live

ServerRaises(e) ==
    /\ status[e] = "none"
    /\ status' = [status EXCEPT ![e] = "unacked"]
    /\ Notify(MakeEvent(e, FALSE, origin[e]))
    /\ UNCHANGED <<origin, updates, reads, connected, severity_min, readLost,
                   storageVars, ackVars>>

\* The server reports an event again with another node or another time, perhaps
\* acked by then.  That the client must expect it is what event_storage.cpp:20-21 say.
ServerUpdates(e) ==
    /\ status[e] = "unacked"
    /\ updates < MaxUpdates
    /\ updates' = updates + 1
    /\ \E o \in Origins \ {origin[e]}, acked \in {FALSE, OthersAcknowledge} :
          /\ origin' = [origin EXCEPT ![e] = o]
          /\ status' = [status EXCEPT ![e] = IF acked THEN "acked" ELSE "unacked"]
          /\ Notify(MakeEvent(e, acked, o))
    /\ UNCHANGED <<reads, connected, severity_min, readLost, storageVars, ackVars>>

ServerAcks(e) ==
    /\ status[e] = "unacked"
    /\ status' = [status EXCEPT ![e] = "acked"]
    /\ Notify(MakeEvent(e, TRUE, origin[e]))

OtherClientAcks(e) ==
    /\ OthersAcknowledge
    /\ ServerAcks(e)
    /\ UNCHANGED <<origin, updates, reads, connected, severity_min, readLost,
                   storageVars, ackVars>>

\* The server processes this client's Acknowledge of e.  Acknowledging an event
\* that is acked already changes nothing and notifies nobody.
ServerProcessesAck(e) ==
    /\ connected
    /\ CallEnds(e)
    /\ IF status[e] = "unacked" THEN ServerAcks(e) ELSE UNCHANGED <<status, live>>
    /\ UNCHANGED <<origin, updates, reads, connected, severity_min, readLost, storageVars>>

\* Without a session a Call fails.
AckCallFails(e) ==
    /\ ~connected
    /\ CallEnds(e)
    /\ UNCHANGED <<serverVars, fetcherVars, storageVars>>

ServerAnswersRead(r) ==
    /\ connected
    /\ reads[r] = Requested
    /\ reads' = [reads EXCEPT ![r] =
                    Answer({EventOf(e) : e \in {x \in EventIds : status[x] = "unacked"}})]
    /\ UNCHANGED <<serverVars, live, connected, severity_min, readLost, storageVars, ackVars>>

\* A read may fail at any time, with or without a session: it ends with a bad
\* status, which the client drops, and with no events.  Another read that is still
\* with the server will bring the same.
ReadFails(r) ==
    /\ reads[r] = Requested
    /\ reads' = [reads EXCEPT ![r] = Answer({})]
    /\ readLost' = (readLost \/ (connected /\ \A q \in ReadSlots \ {r} : reads[q] # Requested))
    /\ UNCHANGED <<serverVars, live, connected, severity_min, storageVars, ackVars>>

-----------------------------------------------------------------------------
(* EventFetcher.                                                           *)

\* Mutant: the history read is forgotten.
UpdateSkipped == UNCHANGED reads

\* Update: start a history read, of all there is.  The guard on a free slot is a
\* bound.
Update ==
    \E r \in ReadSlots :
        /\ reads[r] = Idle
        /\ reads' = [reads EXCEPT ![r] = Requested]

OnChannelOpened ==
    /\ ~connected
    /\ connected' = TRUE
    /\ Update
    /\ readLost' = FALSE
    /\ UNCHANGED <<serverVars, live, severity_min, storageVars, ackVars>>

\* The session is lost: the live events already posted to the executor stay,
\* those still in the channel are gone, and requests there fail.  The fetcher
\* itself only takes note.
OnChannelClosed ==
    /\ ChannelMayClose
    /\ connected
    /\ connected' = FALSE
    /\ \E n \in 0..Len(live) : live' = SubSeq(live, 1, n)
    /\ reads' = [r \in ReadSlots |-> IF reads[r] = Requested THEN Answer({}) ELSE reads[r]]
    /\ UNCHANGED <<serverVars, severity_min, readLost, storageVars, ackVars>>

\* Mutant: the storage takes events of any severity.
OnSystemEventsUnfiltered(events) ==
    \/ /\ \E v \in events : v.acked
       /\ LET v == CHOOSE w \in events : TRUE
          IN  OnAcked(v.id) /\ RemoveEvent(v)
    \/ /\ \A v \in events : ~v.acked
       /\ IF events = {} THEN UNCHANGED storageVars ELSE AddEvents(events)
       /\ UNCHANGED ackVars

\* A batch is one live event or a snapshot of unacked events, so an acked event
\* comes alone.  The queue learns of it whatever its severity; the storage takes
\* the events that reach severity_min_.
OnSystemEvents(events) ==
    LET filtered == {v \in events : Severity[v.id] >= severity_min}
    IN  \/ /\ \E v \in events : v.acked
           /\ LET v == CHOOSE w \in events : TRUE
              IN  /\ OnAcked(v.id)
                  /\ IF filtered = {} THEN UNCHANGED storageVars ELSE RemoveEvent(v)
        \/ /\ \A v \in events : ~v.acked
           /\ IF filtered = {} THEN UNCHANGED storageVars ELSE AddEvents(filtered)
           /\ UNCHANGED ackVars

\* The posted task of the oldest live event.
DeliverLiveEvent ==
    /\ live # <<>>
    /\ live' = Tail(live)
    /\ OnSystemEvents({Head(live)})
    /\ UNCHANGED <<serverVars, reads, connected, severity_min, readLost>>

\* Whatever the status, the events of the result are taken, and nothing is read again.
OnHistoryReadEventsComplete(r) ==
    /\ reads[r].state = "answered"
    /\ reads' = [reads EXCEPT ![r] = Idle]
    /\ OnSystemEvents(reads[r].events)
    /\ UNCHANGED <<serverVars, live, connected, severity_min, readLost>>

SetSeverityMin(severity) ==
    /\ severity # severity_min
    /\ severity_min' = severity
    /\ Reset
    /\ ClearEvents
    /\ Update
    /\ readLost' = FALSE
    /\ UNCHANGED <<serverVars, live, connected>>

\* The user acknowledges one event, those of an item, or all.  One event is taken
\* from those shown: EventFetcher itself does not ask whether it is stored.
AcknowledgeEvent(e) ==
    /\ e \in StoredIds
    /\ Ack(e)
    /\ UNCHANGED <<serverVars, fetcherVars, storageVars>>

AcknowledgeItemEvents(n) ==
    /\ n \in entries
    /\ AckAll(index[n])
    /\ UNCHANGED <<serverVars, fetcherVars, storageVars>>

AcknowledgeAllEvents ==
    /\ AckAll(StoredIds)
    /\ UNCHANGED <<serverVars, fetcherVars, storageVars>>

AckTask ==
    /\ AckPendingEvents
    /\ UNCHANGED <<serverVars, fetcherVars, storageVars>>

AddItemObserver(n) ==
    /\ AddNodeObserver(n)
    /\ UNCHANGED <<serverVars, fetcherVars, ackVars>>

RemoveItemObserver(n) ==
    /\ n \in observed
    /\ RemoveNodeObserver(n)
    /\ UNCHANGED <<serverVars, fetcherVars, ackVars>>

-----------------------------------------------------------------------------
ServerNext ==
    \E e \in EventIds :
        \/ ServerRaises(e)
        \/ ServerUpdates(e)
        \/ OtherClientAcks(e)

\* Steps that happen by themselves once something has been requested.
Progress ==
    \/ \E e \in EventIds : ServerProcessesAck(e) \/ AckCallFails(e)
    \/ \E r \in ReadSlots :
          ServerAnswersRead(r) \/ ReadFails(r) \/ OnHistoryReadEventsComplete(r)
    \/ DeliverLiveEvent
    \/ AckTask

UserNext ==
    \/ \E s \in SeverityLevels : SetSeverityMin(s)
    \/ \E e \in EventIds : AcknowledgeEvent(e)
    \/ \E n \in Nodes : AcknowledgeItemEvents(n)
    \/ \E n \in Watched : AddItemObserver(n) \/ RemoveItemObserver(n)
    \/ AcknowledgeAllEvents

ClientNext ==
    \/ ServerNext
    \/ Progress
    \/ UserNext
    \/ OnChannelOpened
    \/ OnChannelClosed

ClientSpec == ClientInit /\ [][ClientNext]_clientVars

\* The executor runs what is posted and the server answers what it is asked.
ClientFairness ==
    /\ WF_clientVars(DeliverLiveEvent)
    /\ WF_clientVars(AckTask)
    /\ \A e \in EventIds : WF_clientVars(ServerProcessesAck(e))

FairClientSpec == ClientSpec /\ ClientFairness

-----------------------------------------------------------------------------
(* Properties.                                                             *)

\* The severity filter is applied when an event arrives, with the limit of that
\* moment: whatever reads and live events were under way when the limit changed,
\* nothing below it is ever shown.
OnlyShownSeverities == \A e \in StoredIds : Severity[e] >= severity_min

\* Nothing is missed while the session is up: an unacked event the user should
\* see is shown, or its live event is on the way, or a read is under way that
\* will bring it.  This is what OnChannelOpened's and SetSeverityMin's Update are
\* for.  It holds from each Update on until a read fails with the session up:
\* OnHistoryReadEventsComplete drops its status and nothing reads again.
NoEventIsMissed ==
    \A e \in EventIds :
        (connected /\ ~readLost /\ status[e] = "unacked" /\ Severity[e] >= severity_min) =>
            \/ e \in StoredIds
            \/ \E i \in 1..Len(live) : live[i].id = e
            \/ \E r \in ReadSlots :
                  \/ reads[r] = Requested
                  \/ \E v \in reads[r].events : v.id = e

\* No sequence of events, acknowledges and resets fails a Check of the queue; and
\* none fails the lookup of the storage, as long as no event comes back with
\* another node or another time than it is stored with.
EveryCheckHolds == ChecksHold /\ StorageChecksHold

\* EventStorage holds unacked events: an event that the server has acked is still
\* stored only while the news of it is on the way.
StoredEventsAreUnacked ==
    \A e \in StoredIds :
        (connected /\ status[e] = "acked") =>
            \E i \in 1..Len(live) : live[i].id = e /\ live[i].acked

\* With a session and a severity limit that stay and no other client, every
\* acknowledge reaches the server and its event leaves the queue's way, whatever
\* the order of confirmations and repeated requests - as long as no acked event is
\* shown and none has moved.  An acked event that the user acknowledges again, or that
\* the index still has under its old node, is never confirmed and keeps its slot, and
\* MaxParallelAcks of them stop the queue.
AcknowledgesArrive ==
    [](StoredEventsAreUnacked /\ ~moved) =>
        \A e \in EventIds :
            (e \in running \cup ToSet(pending)) ~> e \notin running \cup ToSet(pending)

=============================================================================
