---------------------------- MODULE EventStorage ----------------------------
(***************************************************************************)
(* The client's store of unacknowledged events (events/event_storage.cpp): *)
(* events_ by id, and node_events_, the index by source node that items    *)
(* watch.  The index holds pointers into events_, here the ids.            *)
(*                                                                         *)
(* A node's EventSet is a std::set ordered by the time of the events its   *)
(* pointers lead to (events/event_set.h), and an arriving event overwrites *)
(* the stored one in place, its time included.  With another time the      *)
(* order the set was built with is gone, and a lookup in it finds its      *)
(* event or misses it: which one depends on the shape of the tree and is   *)
(* left open here, as it is in a set with a pointer to an event that is    *)
(* gone.                                                                   *)
(*                                                                         *)
(* An event is a record of its id, its acked flag, its source node and its *)
(* time; the other fields do not steer the storage.  Notifications are     *)
(* left out: the observers only read.                                      *)
(***************************************************************************)
EXTENDS Events, FiniteSets

CONSTANTS
    Nodes,       \* source nodes
    NullNode,    \* the null node id: an event without a source
    Times,       \* times of events
    Absent       \* no event of this id is stored

Sources == Nodes \cup {NullNode}

\* The fields the storage files an event by.
Origins == [source : Sources, time : Times]

ASSUME NodesAssumption ==
    /\ NullNode \notin Nodes
    /\ Absent \notin Nodes \cup {NullNode} \cup Origins

Event == [id : EventIds, acked : BOOLEAN, source : Sources, time : Times]

OriginOf(v) == [source |-> v.source, time |-> v.time]

VARIABLES
    stored,           \* events_: the source and time of each stored event
    index,            \* node_events_[n].events
    disordered,       \* nodes whose EventSet may have lost its order
    entries,          \* the keys of node_events_
    observed,         \* nodes whose entry has observers
    alerting,         \* alerting_
    storageAborted,   \* the Check in Remove failed
    moved             \* history: a stored event was overwritten by one of
                      \* another node or time

storageVars == <<stored, index, disordered, entries, observed, alerting,
                 storageAborted, moved>>

StoredIds == {e \in EventIds : stored[e] # Absent}

StorageTypeOK ==
    /\ stored \in [EventIds -> Origins \cup {Absent}]
    /\ index \in [Nodes -> SUBSET EventIds]
    /\ disordered \in SUBSET Nodes
    /\ entries \in SUBSET Nodes
    /\ observed \in SUBSET Nodes
    /\ alerting \in BOOLEAN
    /\ storageAborted \in BOOLEAN
    /\ moved \in BOOLEAN

StorageInit ==
    /\ stored = [e \in EventIds |-> Absent]
    /\ index = [n \in Nodes |-> {}]
    /\ disordered = {}
    /\ entries = {}
    /\ observed = {}
    /\ alerting = FALSE
    /\ storageAborted = FALSE
    /\ moved = FALSE

-----------------------------------------------------------------------------
UpdateAlerting == alerting' = (\E e \in EventIds : stored'[e] # Absent)

\* The stored event of v's id takes v's fields where it is.
Moves(v) == v.id \in StoredIds /\ stored[v.id] # OriginOf(v)

\* An event that gets another time may leave its place among the others of its
\* set.  (The order survives a time between the same neighbours; the model does
\* not tell these apart.)
LeavesPlace(v, n) ==
    /\ Moves(v)
    /\ stored[v.id].time # v.time
    /\ v.id \in index[n]
    /\ index[n] # {v.id}

\* An event that goes under a new source leaves its pointer in the old node's set,
\* and every later lookup there reads what it points to.
LeavesPointer(v, n) == n # v.source /\ v.id \in index[n]

\* Mutant: a node's entry takes the first events only.
AddIndexesOnlyFirst(events) ==
    LET Found(e) == CHOOSE v \in events : v.id = e
        ids == {v.id : v \in events}
    IN  /\ stored' = [e \in EventIds |-> IF e \in ids THEN OriginOf(Found(e)) ELSE stored[e]]
        /\ index' = [n \in Nodes |->
                       IF index[n] = {} THEN {e \in ids : Found(e).source = n} ELSE index[n]]
        /\ disordered' = disordered \cup {n \in Nodes : \E v \in events : LeavesPlace(v, n)}
        /\ entries' = entries \cup (Nodes \cap {Found(e).source : e \in ids})
        /\ moved' = (moved \/ \E v \in events : Moves(v))
        /\ UpdateAlerting
        /\ UNCHANGED <<observed, storageAborted>>

\* Update with unacked events, at most one of each id: Add for each of them.  An
\* event already stored is replaced where it is, and the index keeps the place
\* it had; only an inserted event with a source enters the index.
AddEvents(events) ==
    LET Found(e) == CHOOSE v \in events : v.id = e
        ids == {v.id : v \in events}
        inserted == ids \ StoredIds
    IN  /\ stored' = [e \in EventIds |-> IF e \in ids THEN OriginOf(Found(e)) ELSE stored[e]]
        /\ index' = [n \in Nodes |-> index[n] \cup {e \in inserted : Found(e).source = n}]
        /\ disordered' = disordered \cup {n \in Nodes : \E v \in events : LeavesPlace(v, n)}
        /\ entries' = entries \cup (Nodes \cap {Found(e).source : e \in inserted})
        /\ moved' = (moved \/ \E v \in events : Moves(v))
        /\ UpdateAlerting
        /\ UNCHANGED <<observed, storageAborted>>

\* The part of Remove on the index, for an event that has an entry: the lookup in
\* the entry's set, its Check, and the entry's end.
RemoveFromIndex(v) ==
    LET broken == disordered \cup {n \in Nodes : LeavesPlace(v, n) \/ LeavesPointer(v, n)}
    IN  \/ /\ v.id \in index[v.source]
           /\ index' = [index EXCEPT ![v.source] = @ \ {v.id}]
           /\ disordered' = {n \in broken : index'[n] # {}}
           /\ entries' = IF index'[v.source] = {} /\ v.source \notin observed
                           THEN entries \ {v.source} ELSE entries
           /\ storageAborted' = storageAborted
        \/ /\ v.id \notin index[v.source] \/ v.source \in broken
           /\ storageAborted' = TRUE
           /\ disordered' = broken
           /\ UNCHANGED <<index, entries>>

\* Mutant: Remove forgets to take the event out of the index.
RemoveKeepsIndex(v) ==
    /\ stored' = [stored EXCEPT ![v.id] = Absent]
    /\ UpdateAlerting
    /\ UNCHANGED <<index, disordered, entries, observed, storageAborted, moved>>

\* Update with one acked event: Remove.  The stored event takes the fields of
\* the arriving one first, so the entry looked up is that of the new source.
RemoveEvent(v) ==
    IF v.id \notin StoredIds THEN UNCHANGED storageVars
    ELSE /\ stored' = [stored EXCEPT ![v.id] = Absent]
         /\ IF v.source \in entries
              THEN RemoveFromIndex(v)
              ELSE /\ disordered' = disordered \cup
                          {n \in Nodes : LeavesPlace(v, n) \/ LeavesPointer(v, n)}
                   /\ UNCHANGED <<index, entries, storageAborted>>
         /\ moved' = (moved \/ Moves(v))
         /\ UpdateAlerting
         /\ UNCHANGED observed

\* Clear: only the entries somebody observes survive, empty.
ClearEvents ==
    /\ stored' = [e \in EventIds |-> Absent]
    /\ index' = [n \in Nodes |-> {}]
    /\ disordered' = {}
    /\ entries' = entries \cap observed
    /\ UpdateAlerting
    /\ UNCHANGED <<observed, storageAborted, moved>>

AddNodeObserver(n) ==
    /\ observed' = observed \cup {n}
    /\ entries' = entries \cup {n}
    /\ UNCHANGED <<stored, index, disordered, alerting, storageAborted, moved>>

RemoveNodeObserver(n) ==
    /\ observed' = observed \ {n}
    /\ entries' = entries \cup {n}
    /\ UNCHANGED <<stored, index, disordered, alerting, storageAborted, moved>>

-----------------------------------------------------------------------------
(* Properties.                                                             *)

\* The index and the events agree as long as no stored event was overwritten by
\* one of another node or time: an item shows exactly the stored events of its
\* node, and no pointer of the index dangles.
IndexMatchesStore ==
    ~moved =>
        /\ \A n \in Nodes :
              index[n] = {e \in EventIds : stored[e] # Absent /\ stored[e].source = n}
        /\ \A n \in Nodes : index[n] # {} => n \in entries

\* The Check in Remove (the lookup finds the event in its node's set) holds as long
\* as no stored event was overwritten by one of another node or time, the
\* arriving acknowledge included.
StorageChecksHold == ~moved => ~storageAborted

=============================================================================
