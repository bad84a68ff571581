------------------------- MODULE ClientServices_proofs -------------------------
(***************************************************************************)
(* What a client of the server relies on: its queue of acknowledgements,   *)
(* its event fetcher with the storage, and its facade of services.         *)
(*                                                                         *)
(* For every set of event ids and every limit: the acknowledge queue keeps *)
(* its types, never queues an id twice, never runs more than its limit,    *)
(* never loses a wake-up, never fails a Check and sends in order.          *)
(*                                                                         *)
(* For every set of event ids, nodes, severities and bounds: whatever the  *)
(* server, the channel and the user do, the queue inside the client keeps  *)
(* these promises, and - as long as no event comes back with another node  *)
(* or time than it is stored with - the storage's index matches its events *)
(* and its Check holds.                                                    *)
(*                                                                         *)
(* For every set of services, items and notifiers: whatever the slots of   *)
(* the session signal do in the middle of a swap, no item and no notifier  *)
(* is left behind.                                                         *)
(***************************************************************************)
EXTENDS EventClient, MasterDataServices, FiniteSetTheorems, SequenceTheorems, TLAPS

-----------------------------------------------------------------------------
(* The queue alone, over AckSpec.                                          *)

\* The inductive invariant.  AtMostMaxParallelAcks and NoLostWakeup are not
\* inductive alone: the Check needs PostedTaskIsNeeded, and the limit needs the
\* FIFO to be disjoint from the running set.
AckInv ==
    /\ AckTypeOK
    /\ IsFiniteSet(running)
    /\ NoDuplicateAcks
    /\ AtMostMaxParallelAcks
    /\ NoLostWakeup
    /\ PostedTaskIsNeeded
    /\ ChecksHold

\* The elements of the first n entries of a sequence are at most n.
LEMMA PrefixCardinality ==
    ASSUME NEW S, NEW s \in Seq(S), NEW n \in 0..Len(s)
    PROVE  /\ IsFiniteSet(ToSet(SubSeq(s, 1, n)))
           /\ Cardinality(ToSet(SubSeq(s, 1, n))) <= n
<1> DEFINE f == [i \in 1..n |-> s[i]]
           T == ToSet(SubSeq(s, 1, n))
<1>1. T = {s[i] : i \in 1..n}
  <2>1. n \in Nat /\ DOMAIN SubSeq(s, 1, n) = 1..n /\ \A i \in 1..n : SubSeq(s, 1, n)[i] = s[i]
    OBVIOUS
  <2>2. QED
    BY <2>1 DEF ToSet
<1>2. f \in Surjection(1..n, T)
  BY <1>1 DEF Surjection
<1>3. IsFiniteSet(1..n) /\ Cardinality(1..n) = n
  BY FS_Interval
<1>4. QED
  BY <1>2, <1>3, FS_Surjection

\* The invariant speaks of the variables of the queue alone.
LEMMA StutterInv ==
    ASSUME AckInv, UNCHANGED ackVars
    PROVE  AckInv'
BY DEF ackVars, AckInv, AckTypeOK, NoDuplicateAcks, AtMostMaxParallelAcks,
   NoLostWakeup, CanSend, PostedTaskIsNeeded, ChecksHold

\* Queueing the ids of any finite container keeps the invariant: the lemma
\* behind Ack, AcknowledgeItemEvents and AcknowledgeAllEvents.
LEMMA AckAllInv ==
    ASSUME AckInv, NEW ids \in SUBSET EventIds, IsFiniteSet(ids), AckAll(ids)
    PROVE  AckInv'
<1> DEFINE fresh == ids \ (running \cup ToSet(pending))
<1>1. PICK new \in SetToSeqs(fresh) :
          /\ pending' = pending \o new
          /\ IF new = <<>>
               THEN UNCHANGED <<ack_pending, aborted>>
               ELSE PostAckPendingEvents(pending', running, ack_pending)
          /\ UNCHANGED <<running, sent>>
  BY DEF AckAll
<1>2. IsFiniteSet(fresh) /\ Cardinality(fresh) \in Nat
  BY FS_Subset, FS_CardinalityType
<1>3. /\ new \in Seq(fresh)
      /\ \A i, j \in 1..Len(new) : new[i] = new[j] => i = j
  <2> DEFINE n == Cardinality(fresh)
  <2>1. /\ new \in [1..n -> fresh]
        /\ \A i, j \in 1..n : i # j => new[i] # new[j]
    BY <1>1, Zenon DEF SetToSeqs
  <2> HIDE DEF fresh
  <2>2. n \in Nat
    BY <1>2
  <2> HIDE DEF n
  <2>3. new \in Seq(fresh) /\ Len(new) = n
    BY <2>1, <2>2
  <2>4. QED
    BY <2>1, <2>3
<1>4. /\ \A i \in 1..Len(new) : new[i] \in EventIds /\ new[i] \notin running
      /\ \A i \in 1..Len(new) : \A j \in 1..Len(pending) : new[i] # pending[j]
  BY <1>3 DEF ToSet, AckInv, AckTypeOK
<1>5. /\ pending \in Seq(EventIds) /\ new \in Seq(EventIds)
      /\ pending' \in Seq(EventIds)
      /\ Len(pending') = Len(pending) + Len(new)
      /\ \A i \in 1..Len(pending') :
            pending'[i] = IF i <= Len(pending) THEN pending[i]
                                               ELSE new[i - Len(pending)]
  <2>1. pending \in Seq(EventIds) /\ new \in Seq(EventIds)
    BY <1>3, <1>4 DEF AckInv, AckTypeOK
  <2>2. pending' = pending \o new
    BY <1>1
  <2>3. QED
    BY <2>1, <2>2
<1>6. NoDuplicateAcks'
  <2>1. ASSUME NEW i \in 1..Len(pending'), NEW j \in 1..Len(pending'),
               pending'[i] = pending'[j]
        PROVE  i = j
    <3>1. CASE i <= Len(pending) /\ j <= Len(pending)
      <4>1. i \in 1..Len(pending) /\ j \in 1..Len(pending)
        BY <1>5, <3>1
      <4>2. pending[i] = pending[j]
        BY <1>5, <2>1, <3>1
      <4>3. QED
        BY <4>1, <4>2 DEF AckInv, NoDuplicateAcks
    <3>2. CASE i > Len(pending) /\ j > Len(pending)
      <4>1. new[i - Len(pending)] = new[j - Len(pending)]
        BY <1>5, <2>1, <3>2
      <4>2. QED
        BY <1>3, <1>5, <3>2, <4>1
    <3>3. CASE i > Len(pending) /\ j <= Len(pending)
      <4>1. new[i - Len(pending)] = pending[j]
        BY <1>5, <2>1, <3>3
      <4>2. i - Len(pending) \in 1..Len(new) /\ j \in 1..Len(pending)
        BY <1>5, <3>3
      <4>3. QED
        BY <1>4, <4>1, <4>2
    <3>4. CASE i <= Len(pending) /\ j > Len(pending)
      <4>1. new[j - Len(pending)] = pending[i]
        BY <1>5, <2>1, <3>4
      <4>2. j - Len(pending) \in 1..Len(new) /\ i \in 1..Len(pending)
        BY <1>5, <3>4
      <4>3. QED
        BY <1>4, <4>1, <4>2
    <3>5. QED
      BY <1>5, <3>1, <3>2, <3>3, <3>4
  <2>2. ASSUME NEW i \in 1..Len(pending')
        PROVE  pending'[i] \notin running'
    BY <1>1, <1>4, <1>5 DEF AckInv, NoDuplicateAcks
  <2>3. QED
    BY <2>1, <2>2 DEF NoDuplicateAcks
<1>7. CASE new = <<>>
  <2>1. pending' = pending
    BY <1>1, <1>7 DEF AckInv, AckTypeOK
  <2>2. QED
    BY <1>1, <1>7, <2>1 DEF AckInv, AckTypeOK, NoDuplicateAcks,
       AtMostMaxParallelAcks, NoLostWakeup, CanSend, PostedTaskIsNeeded, ChecksHold
<1>8. CASE new # <<>>
  <2>1. pending' # <<>>
    BY <1>5, <1>8
  <2>2. Cardinality(running) \in Nat
    BY FS_CardinalityType DEF AckInv
  <2>3. ack_pending => CanSend(pending', running)
    BY <2>1 DEF AckInv, PostedTaskIsNeeded, CanSend
  <2>4. /\ ack_pending' = (ack_pending \/ CanSend(pending', running))
        /\ aborted' = (aborted \/ (ack_pending /\ ~CanSend(pending', running)))
    BY <1>1, <1>8 DEF PostAckPendingEvents
  <2>5. ChecksHold' /\ ack_pending' \in BOOLEAN /\ aborted' \in BOOLEAN
    BY <2>3, <2>4 DEF AckInv, AckTypeOK, ChecksHold
  <2>6. NoLostWakeup' /\ PostedTaskIsNeeded'
    BY <1>1, <2>1, <2>3, <2>4 DEF NoLostWakeup, PostedTaskIsNeeded, CanSend
  <2>7. QED
    BY <1>1, <1>5, <1>6, <2>5, <2>6 DEF AckInv, AckTypeOK, AtMostMaxParallelAcks
<1>9. QED
  BY <1>7, <1>8

\* A confirmation frees a slot; if ids wait, the task is posted.
LEMMA OnAckedInv ==
    ASSUME AckInv, NEW id \in EventIds, OnAcked(id)
    PROVE  AckInv'
<1>1. /\ IsFiniteSet(running')
      /\ Cardinality(running) \in Nat /\ Cardinality(running') \in Nat
      /\ Cardinality(running') <= Cardinality(running)
      /\ id \in running => Cardinality(running') < Cardinality(running)
  <2>1. running' = running \ {id} /\ IsFiniteSet(running)
    BY DEF OnAcked, AckInv
  <2>2. Cardinality(running) \in Nat
    BY <2>1, FS_CardinalityType
  <2>3. /\ IsFiniteSet(running')
        /\ Cardinality(running') =
             IF id \in running THEN Cardinality(running) - 1 ELSE Cardinality(running)
    BY <2>1, FS_RemoveElement, Zenon
  <2>4. Cardinality(running') \in Nat
    BY <2>3, FS_CardinalityType
  <2>5. QED
    BY <2>2, <2>3, <2>4
<1>2. running' \in SUBSET running /\ pending' = pending /\ sent' = sent
  BY DEF OnAcked
<1>3. CASE id \notin running
  <2>1. UNCHANGED ackVars
    BY <1>2, <1>3 DEF OnAcked, ackVars
  <2>2. QED
    BY <2>1, StutterInv
<1>4. CASE id \in running
  <2>1. /\ ack_pending' = (ack_pending \/ CanSend(pending, running'))
        /\ aborted' = (aborted \/ (ack_pending /\ ~CanSend(pending, running')))
    BY <1>4 DEF OnAcked, PostAckPendingEvents
  <2>2. CanSend(pending, running') <=> pending # <<>>
    BY <1>1, <1>4, MaxParallelAcksAssumption DEF AckInv, AtMostMaxParallelAcks, CanSend
  <2>3. ack_pending => pending # <<>>
    BY <1>4 DEF AckInv, PostedTaskIsNeeded
  <2>4. ChecksHold' /\ ack_pending' \in BOOLEAN /\ aborted' \in BOOLEAN
    BY <2>1, <2>2, <2>3 DEF AckInv, AckTypeOK, ChecksHold
  <2>5. NoLostWakeup' /\ PostedTaskIsNeeded'
    BY <1>2, <2>1, <2>2, <2>3 DEF NoLostWakeup, PostedTaskIsNeeded, CanSend
  <2>6. QED
    BY <1>1, <1>2, <2>4, <2>5, MaxParallelAcksAssumption
       DEF AckInv, AckTypeOK, NoDuplicateAcks, AtMostMaxParallelAcks
<1>5. QED
  BY <1>3, <1>4

\* The sending loop stays within the limit and leaves no id behind that it
\* had room for without posting the task again.
LEMMA AckPendingEventsInv ==
    ASSUME AckInv, AckPendingEvents
    PROVE  AckInv'
<1> DEFINE n == Takes
           batch == ToSet(SubSeq(pending, 1, n))
<1>1. Cardinality(running) \in Nat
  BY FS_CardinalityType DEF AckInv
<1>2. /\ pending \in Seq(EventIds) /\ Len(pending) \in Nat
      /\ n \in 0..Len(pending)
      /\ Cardinality(running) + n <= MaxParallelAcks
  BY <1>1, MaxParallelAcksAssumption
     DEF AckInv, AckTypeOK, AtMostMaxParallelAcks, Takes
<1>3. /\ pending' = SubSeq(pending, n + 1, Len(pending))
      /\ running' = running \cup batch
      /\ sent' = sent \cup batch
      /\ ack_pending' = (FALSE \/ CanSend(pending', running'))
      /\ aborted' = (aborted \/ (FALSE /\ ~CanSend(pending', running')))
  BY Zenon DEF AckPendingEvents, PostAckPendingEvents
<1> HIDE DEF n
<1>4. IsFiniteSet(batch) /\ Cardinality(batch) <= n
  BY <1>2, PrefixCardinality
<1>5. batch = {pending[i] : i \in 1..n}
  BY <1>2 DEF ToSet
<1>6. /\ pending' \in Seq(EventIds)
      /\ Len(pending') = Len(pending) - n
      /\ \A i \in 1..Len(pending') : pending'[i] = pending[n + i]
  BY <1>2, <1>3
<1>7. IsFiniteSet(running') /\ AtMostMaxParallelAcks'
  <2>1. Cardinality(batch) \in Nat /\ Cardinality(running \cap batch) \in Nat
    BY <1>4, FS_CardinalityType, FS_Intersection DEF AckInv
  <2>2. /\ IsFiniteSet(running')
        /\ Cardinality(running')
             = Cardinality(running) + Cardinality(batch) - Cardinality(running \cap batch)
    BY <1>3, <1>4, FS_Union DEF AckInv
  <2>3. QED
    BY <1>1, <1>2, <1>4, <2>1, <2>2, MaxParallelAcksAssumption DEF AtMostMaxParallelAcks
<1>8. NoDuplicateAcks'
  <2>1. ASSUME NEW i \in 1..Len(pending'), NEW j \in 1..Len(pending'),
               pending'[i] = pending'[j]
        PROVE  i = j
    BY <1>2, <1>6, <2>1 DEF AckInv, NoDuplicateAcks
  <2>2. ASSUME NEW i \in 1..Len(pending')
        PROVE  pending'[i] \notin running'
    <3>1. n + i \in 1..Len(pending) /\ pending'[i] = pending[n + i]
      BY <1>2, <1>6
    <3>2. pending[n + i] \notin batch
      <4>1. ASSUME NEW k \in 1..n, pending[k] = pending[n + i] PROVE FALSE
        <5>1. k \in 1..Len(pending) /\ k # n + i
          BY <1>2, <3>1
        <5>2. QED
          BY <3>1, <4>1, <5>1 DEF AckInv, NoDuplicateAcks
      <4>2. QED
        BY <1>5, <4>1
    <3>3. QED
      BY <1>3, <3>1, <3>2 DEF AckInv, NoDuplicateAcks
  <2>3. QED
    BY <2>1, <2>2 DEF NoDuplicateAcks
<1>9. AckTypeOK'
  <2>1. batch \in SUBSET EventIds
    BY <1>2, <1>5
  <2>2. QED
    BY <1>3, <1>6, <2>1 DEF AckInv, AckTypeOK, CanSend
<1>10. QED
  BY <1>3, <1>7, <1>8, <1>9
     DEF AckInv, NoLostWakeup, CanSend, PostedTaskIsNeeded, ChecksHold

\* Reset empties the queue under a task that may be posted.
LEMMA ResetInv ==
    ASSUME AckInv, Reset
    PROVE  AckInv'
<1>1. IsFiniteSet({}) /\ Cardinality({}) = 0
  BY FS_EmptySet
<1>2. pending' = <<>> /\ running' = {} /\ UNCHANGED <<ack_pending, sent, aborted>>
  BY DEF Reset
<1>3. QED
  BY <1>1, <1>2, MaxParallelAcksAssumption
     DEF AckInv, AckTypeOK, NoDuplicateAcks, AtMostMaxParallelAcks, NoLostWakeup,
         CanSend, PostedTaskIsNeeded, ChecksHold

\* The end of a Call, whose status the code drops, leaves the queue as it is.
LEMMA CallEndsInv ==
    ASSUME AckInv, NEW id \in EventIds, CallEnds(id)
    PROVE  AckInv'
BY DEF CallEnds, AckInv, AckTypeOK, NoDuplicateAcks, AtMostMaxParallelAcks,
   NoLostWakeup, CanSend, PostedTaskIsNeeded, ChecksHold

\* An empty queue with nothing posted is in order.
LEMMA AckInitInv == AckInit => AckInv
<1>1. IsFiniteSet({}) /\ Cardinality({}) = 0
  BY FS_EmptySet
<1>2. QED
  <2> SUFFICES ASSUME AckInit PROVE AckInv
    OBVIOUS
  <2>1. AckTypeOK
    BY EmptySeq DEF AckInit, AckTypeOK
  <2>2. NoDuplicateAcks
    BY DEF AckInit, NoDuplicateAcks
  <2>3. QED
    BY <1>1, <2>1, <2>2, MaxParallelAcksAssumption
       DEF AckInit, AckInv, AtMostMaxParallelAcks, NoLostWakeup, CanSend,
           PostedTaskIsNeeded, ChecksHold

\* Every operation of the queue keeps the invariant.
LEMMA AckNextInv == AckInv /\ [AckNext]_ackVars => AckInv'
<1> SUFFICES ASSUME AckInv, [AckNext]_ackVars PROVE AckInv'
  OBVIOUS
<1>1. ASSUME NEW id \in EventIds, Ack(id) PROVE AckInv'
  <2>1. IsFiniteSet({id})
    BY FS_Singleton
  <2>2. QED
    BY <1>1, <2>1, AckAllInv DEF Ack
<1>2. ASSUME NEW id \in EventIds, OnAcked(id) PROVE AckInv'
  BY <1>2, OnAckedInv
<1>3. CASE AckPendingEvents
  BY <1>3, AckPendingEventsInv
<1>4. CASE Reset
  BY <1>4, ResetInv
<1>5. ASSUME NEW id \in EventIds, CallEnds(id) PROVE AckInv'
  BY <1>5, CallEndsInv
<1>6. CASE UNCHANGED ackVars
  BY <1>6, StutterInv
<1>7. QED
  BY <1>1, <1>2, <1>3, <1>4, <1>5, <1>6 DEF AckNext

\* The queue's variables keep their types (event_ack_queue.h, the members).
THEOREM AckTypeCorrect == AckSpec => []AckTypeOK
<1>1. AckInv => AckTypeOK
  BY DEF AckInv
<1>2. QED
  BY <1>1, AckInitInv, AckNextInv, PTL DEF AckSpec

\* At most kMaxParallelAcks acknowledges run, and none is in the queue twice.
THEOREM AckLimitAndUniqueness ==
    AckSpec => []AcksHoldTheirSlots
<1>1. AckInv => AcksHoldTheirSlots
  BY DEF AckInv, AcksHoldTheirSlots
<1>2. QED
  BY <1>1, AckInitInv, AckNextInv, PTL DEF AckSpec

\* The queue never sleeps on work it could do.
THEOREM AckNoLostWakeup == AckSpec => []NoLostWakeup
<1>1. AckInv => NoLostWakeup
  BY DEF AckInv
<1>2. QED
  BY <1>1, AckInitInv, AckNextInv, PTL DEF AckSpec

\* Check(!ack_pending_) in PostAckPendingEvents cannot fail.
THEOREM AckChecksHold == AckSpec => []ChecksHold
<1>1. AckInv => ChecksHold
  BY DEF AckInv
<1>2. QED
  BY <1>1, AckInitInv, AckNextInv, PTL DEF AckSpec

-----------------------------------------------------------------------------
(* The order of sending.                                                   *)

\* Only the posted task starts anything.
LEMMA NothingStarts ==
    ASSUME running' \subseteq running
    PROVE  StartsInOrder
BY DEF StartsInOrder

\* The task takes a prefix of the FIFO: whatever it starts, everything before it
\* starts too.
LEMMA TaskStartsInOrder ==
    ASSUME AckInv, AckPendingEvents
    PROVE  StartsInOrder
<1> DEFINE n == Takes
           batch == ToSet(SubSeq(pending, 1, n))
<1>1. Cardinality(running) \in Nat
  BY FS_CardinalityType DEF AckInv
<1>2. /\ pending \in Seq(EventIds) /\ Len(pending) \in Nat
      /\ n \in 0..Len(pending)
  BY <1>1, MaxParallelAcksAssumption
     DEF AckInv, AckTypeOK, AtMostMaxParallelAcks, Takes
<1>3. running' = running \cup batch
  BY Zenon DEF AckPendingEvents
<1> HIDE DEF n
<1>4. batch = {pending[i] : i \in 1..n}
  BY <1>2 DEF ToSet
<1>5. SUFFICES ASSUME NEW i \in 1..Len(pending), NEW j \in 1..Len(pending),
                      i < j, pending[j] \in running' \ running
               PROVE  pending[i] \in running'
  BY DEF StartsInOrder
<1>6. PICK k \in 1..n : pending[j] = pending[k]
  BY <1>3, <1>4, <1>5
<1>7. j = k
  BY <1>2, <1>6 DEF AckInv, NoDuplicateAcks
<1>8. QED
  BY <1>2, <1>3, <1>4, <1>5, <1>7

\* Every step of the queue, and so every sequence of partial runs of the task,
\* keeps the order in which the ids were queued.
LEMMA AckNextStartsInOrder == AckInv /\ [AckNext]_ackVars => [StartsInOrder]_ackVars
<1> SUFFICES ASSUME AckInv, AckNext PROVE StartsInOrder
  OBVIOUS
<1>1. CASE AckPendingEvents
  BY <1>1, TaskStartsInOrder
<1>2. CASE \E id \in EventIds : Ack(id)
  BY <1>2, NothingStarts DEF Ack, AckAll
<1>3. CASE \E id \in EventIds : OnAcked(id) \/ CallEnds(id)
  BY <1>3, NothingStarts DEF OnAcked, CallEnds
<1>4. CASE Reset
  BY <1>4, NothingStarts DEF Reset
<1>5. QED
  BY <1>1, <1>2, <1>3, <1>4 DEF AckNext

\* AckPendingEvents sends in the order of the FIFO, however its runs fall between
\* repeated requests, confirmations and resets.
THEOREM AckSendsInOrder == AckSpec => NoOvertaking
<1>1. AckSpec => []AckInv
  BY AckInitInv, AckNextInv, PTL DEF AckSpec
<1>2. QED
  BY <1>1, AckNextStartsInOrder, PTL DEF AckSpec, NoOvertaking

-----------------------------------------------------------------------------
(* The queue inside the client.                                            *)

\* A batch touches the queue as OnAcked of one id, or not at all.
LEMMA BatchAckInv ==
    ASSUME AckInv, NEW events \in SUBSET Event, OnSystemEvents(events)
    PROVE  AckInv'
<1> DEFINE filtered == {v \in events : Severity[v.id] >= severity_min}
           w == CHOOSE x \in events : TRUE
<1>1. CASE \E v \in events : v.acked
  <2>1. w \in events /\ w.id \in EventIds
    BY <1>1 DEF Event
  <2>2. OnAcked(w.id)
    BY <1>1 DEF OnSystemEvents
  <2>3. QED
    BY <2>1, <2>2, OnAckedInv
<1>2. CASE ~ \E v \in events : v.acked
  BY <1>2, StutterInv DEF OnSystemEvents
<1>3. QED
  BY <1>1, <1>2

\* Queueing several ids needs a finite container; the storage's are.
LEMMA AckSetInv ==
    ASSUME AckInv, NEW ids \in SUBSET EventIds, AckAll(ids)
    PROVE  AckInv'
<1>1. IsFiniteSet(ids)
  BY ClientAssumption, FS_Subset
<1>2. QED
  BY <1>1, AckAllInv

-----------------------------------------------------------------------------
(* The storage inside the client.                                          *)

\* The index alone is not inductive: the lookup must find what it has, so its order
\* must be intact as long as no stored event was moved.
StorageOK ==
    /\ StorageTypeOK
    /\ ~moved => disordered = {}
    /\ IndexMatchesStore
    /\ StorageChecksHold

ClientTypes ==
    /\ status \in [EventIds -> {"none", "unacked", "acked"}]
    /\ origin \in [EventIds -> Origins]
    /\ updates \in Nat
    /\ live \in Seq(Event)
    /\ reads \in [ReadSlots -> [state : {"idle", "requested", "answered"},
                                events : SUBSET Event]]
    /\ connected \in BOOLEAN
    /\ severity_min \in Nat
    /\ readLost \in BOOLEAN

ClientInv ==
    /\ AckInv
    /\ ClientTypes
    /\ StorageOK

\* The mark of an empty slot of the storage is no event's origin.
LEMMA AbsentIsNoOrigin == Absent \notin Origins /\ Absent \notin Sources
  BY NodesAssumption DEF Sources

\* An event has an origin.
LEMMA OriginType == ASSUME NEW v \in Event PROVE OriginOf(v) \in Origins /\ v.id \in EventIds
  BY DEF Event, OriginOf, Origins

\* Add, of any events: without a move what is overwritten keeps its node and its
\* time, so the index needs no change for it and keeps its order.
LEMMA AddEventsInv ==
    ASSUME StorageOK, NEW events \in SUBSET Event, AddEvents(events)
    PROVE  StorageOK'
<1> DEFINE Found(e) == CHOOSE v \in events : v.id = e
           ids == {v.id : v \in events}
           inserted == ids \ StoredIds
           leaving == {n \in Nodes : \E v \in events : LeavesPlace(v, n)}
<1>1. /\ stored' = [e \in EventIds |-> IF e \in ids THEN OriginOf(Found(e)) ELSE stored[e]]
      /\ index' = [n \in Nodes |-> index[n] \cup {e \in inserted : Found(e).source = n}]
      /\ entries' = entries \cup (Nodes \cap {Found(e).source : e \in inserted})
      /\ disordered' = disordered \cup leaving
      /\ moved' = (moved \/ \E v \in events : Moves(v))
      /\ UNCHANGED <<observed, storageAborted>>
  BY DEF AddEvents
<1>2. alerting' \in BOOLEAN
  BY DEF AddEvents, UpdateAlerting
<1>3. ids \subseteq EventIds
  BY DEF Event
<1>4. ASSUME NEW e \in ids
      PROVE  /\ Found(e) \in events /\ Found(e).id = e
             /\ OriginOf(Found(e)) \in Origins /\ OriginOf(Found(e)).source = Found(e).source
  <2>1. Found(e) \in events /\ Found(e).id = e
    OBVIOUS
  <2>2. QED
    BY <2>1, OriginType DEF OriginOf
<1> HIDE DEF Found, ids, leaving
<1>5. StorageTypeOK'
  <2>1. stored' \in [EventIds -> Origins \cup {Absent}]
    BY <1>1, <1>3, <1>4 DEF StorageOK, StorageTypeOK
  <2>2. index' \in [Nodes -> SUBSET EventIds] /\ entries' \in SUBSET Nodes
    BY <1>1, <1>3 DEF StorageOK, StorageTypeOK
  <2>3. disordered' \in SUBSET Nodes /\ moved' \in BOOLEAN
    BY <1>1 DEF StorageOK, StorageTypeOK, leaving
  <2>4. QED
    BY <1>1, <1>2, <2>1, <2>2, <2>3 DEF StorageOK, StorageTypeOK
<1>6. CASE moved'
  BY <1>5, <1>6 DEF StorageOK, IndexMatchesStore, StorageChecksHold
<1>7. CASE ~moved'
  <2>1. ~moved /\ \A v \in events : ~Moves(v)
    BY <1>1, <1>7
  <2>2. disordered' = {}
    BY <1>1, <2>1 DEF StorageOK, LeavesPlace, leaving
  <2>3. ASSUME NEW e \in ids, e \in StoredIds PROVE stored'[e] = stored[e]
    BY <1>1, <1>3, <1>4, <2>1, <2>3 DEF Moves
  <2>4. ASSUME NEW e \in inserted
        PROVE  /\ stored'[e] = OriginOf(Found(e)) /\ stored'[e].source = Found(e).source
               /\ stored'[e] # Absent /\ stored[e] = Absent
    BY <1>1, <1>3, <1>4, AbsentIsNoOrigin DEF StoredIds
  <2>5. ASSUME NEW n \in Nodes
        PROVE  index'[n] = {e \in EventIds : stored'[e] # Absent /\ stored'[e].source = n}
    <3>1. index[n] = {e \in EventIds : stored[e] # Absent /\ stored[e].source = n}
      BY <2>1 DEF StorageOK, IndexMatchesStore
    <3>2. index'[n] = index[n] \cup {e \in inserted : Found(e).source = n}
      BY <1>1
    <3>3. ASSUME NEW e \in EventIds
          PROVE  e \in index'[n] <=> stored'[e] # Absent /\ stored'[e].source = n
      <4>1. CASE e \in inserted
        BY <2>4, <3>1, <3>2, <4>1
      <4>2. CASE e \notin inserted
        <5>1. stored'[e] = stored[e]
          BY <1>1, <2>3, <4>2
        <5>2. QED
          BY <3>1, <3>2, <4>2, <5>1
      <4>3. QED
        BY <4>1, <4>2
    <3>4. index'[n] \subseteq EventIds
      BY <1>3, <3>1, <3>2
    <3>5. QED
      BY <3>3, <3>4
  <2>6. ASSUME NEW n \in Nodes, index'[n] # {} PROVE n \in entries'
    <3>1. index[n] # {} => n \in entries
      BY <2>1 DEF StorageOK, IndexMatchesStore
    <3>2. index[n] # {} \/ \E e \in inserted : Found(e).source = n
      BY <1>1, <2>6
    <3>3. QED
      BY <1>1, <3>1, <3>2
  <2>7. QED
    BY <1>1, <1>5, <1>7, <2>1, <2>2, <2>5, <2>6
       DEF StorageOK, IndexMatchesStore, StorageChecksHold
<1>8. QED
  BY <1>6, <1>7

\* Remove, of any event: without a move it is looked up where the index has it, in
\* a set whose order is intact.
LEMMA RemoveEventInv ==
    ASSUME StorageOK, NEW v \in Event, RemoveEvent(v)
    PROVE  StorageOK'
<1> DEFINE e == v.id
           n == v.source
           leaving == {m \in Nodes : LeavesPlace(v, m) \/ LeavesPointer(v, m)}
           broken == disordered \cup leaving
<1>1. e \in EventIds /\ n \in Sources
  BY DEF Event
<1>2. CASE e \notin StoredIds
  BY <1>2 DEF RemoveEvent, storageVars, StorageOK, StorageTypeOK, IndexMatchesStore,
              StorageChecksHold
<1>3. CASE e \in StoredIds
  <2>1. /\ stored' = [stored EXCEPT ![e] = Absent]
        /\ moved' = (moved \/ Moves(v))
        /\ IF n \in entries THEN RemoveFromIndex(v)
             ELSE disordered' = broken /\ UNCHANGED <<index, entries, storageAborted>>
        /\ UNCHANGED observed
    BY <1>3 DEF RemoveEvent
  <2>2. alerting' \in BOOLEAN
    BY <1>3 DEF RemoveEvent, UpdateAlerting
  <2>3. \/ /\ n \in entries /\ e \in index[n]
           /\ index' = [index EXCEPT ![n] = @ \ {e}]
           /\ disordered' \subseteq broken
           /\ entries' = IF index'[n] = {} /\ n \notin observed THEN entries \ {n} ELSE entries
           /\ storageAborted' = storageAborted
        \/ /\ n \in entries /\ (e \notin index[n] \/ n \in broken)
           /\ storageAborted' = TRUE /\ disordered' = broken /\ UNCHANGED <<index, entries>>
        \/ /\ n \notin entries /\ disordered' = broken
           /\ UNCHANGED <<index, entries, storageAborted>>
    BY <2>1 DEF RemoveFromIndex
  <2>4. broken \in SUBSET Nodes
    BY DEF StorageOK, StorageTypeOK
  <2>5. Moves(v) \in BOOLEAN
    BY DEF Moves
  <2>6. ~moved /\ ~Moves(v) => broken = disordered
    <3> SUFFICES ASSUME ~moved, ~Moves(v) PROVE leaving = {}
      OBVIOUS
    <3>1. stored[e].source = n
      BY <1>3 DEF Moves, OriginOf
    <3>2. ASSUME NEW m \in Nodes, LeavesPointer(v, m) PROVE FALSE
      BY <3>1, <3>2 DEF LeavesPointer, StorageOK, IndexMatchesStore
    <3>3. QED
      BY <3>2 DEF LeavesPlace
  <2> HIDE DEF broken, leaving
  <2>7. StorageTypeOK'
    <3>1. stored' \in [EventIds -> Origins \cup {Absent}] /\ moved' \in BOOLEAN
      BY <1>1, <2>1, <2>5 DEF StorageOK, StorageTypeOK
    <3>2. /\ index' \in [Nodes -> SUBSET EventIds] /\ disordered' \in SUBSET Nodes
          /\ entries' \in SUBSET Nodes /\ storageAborted' \in BOOLEAN
      BY <2>3, <2>4 DEF StorageOK, StorageTypeOK
    <3>3. QED
      BY <2>1, <2>2, <3>1, <3>2 DEF StorageOK, StorageTypeOK
  <2>8. CASE moved'
    BY <2>7, <2>8 DEF StorageOK, IndexMatchesStore, StorageChecksHold
  <2>9. CASE ~moved'
    <3>1. ~moved /\ ~Moves(v) /\ disordered = {} /\ broken = {}
      BY <2>1, <2>6, <2>9 DEF StorageOK
    <3>2. stored[e] # Absent /\ stored[e].source = n
      BY <1>3, <3>1 DEF Moves, StoredIds, OriginOf
    <3>3. \A m \in Nodes :
             index[m] = {x \in EventIds : stored[x] # Absent /\ stored[x].source = m}
      BY <3>1 DEF StorageOK, IndexMatchesStore
    <3>4. ASSUME NEW m \in Nodes
          PROVE  {x \in EventIds : stored'[x] # Absent /\ stored'[x].source = m}
                   = index[m] \ {e}
      <4>1. \A x \in EventIds : stored'[x] = IF x = e THEN Absent ELSE stored[x]
        BY <2>1 DEF StorageOK, StorageTypeOK
      <4>2. QED
        BY <3>3, <4>1
    <3>5. CASE n \in entries
      <4>1. n \in Nodes
        BY <3>5 DEF StorageOK, StorageTypeOK
      <4>2. e \in index[n]
        BY <1>1, <3>2, <3>3, <4>1
      <4>3. /\ index' = [index EXCEPT ![n] = @ \ {e}]
            /\ entries' = IF index'[n] = {} /\ n \notin observed THEN entries \ {n} ELSE entries
            /\ storageAborted' = storageAborted /\ disordered' = {}
        BY <2>3, <3>1, <3>5, <4>2
      <4>4. \A m \in Nodes : index'[m] = index[m] \ {e}
        BY <3>2, <3>3, <4>3 DEF StorageOK, StorageTypeOK
      <4>5. \A m \in Nodes : index'[m] # {} => m \in entries'
        BY <3>1, <4>3, <4>4 DEF StorageOK, IndexMatchesStore
      <4>6. QED
        BY <2>7, <3>1, <3>4, <4>3, <4>4, <4>5
           DEF StorageOK, IndexMatchesStore, StorageChecksHold
    <3>6. CASE n \notin entries
      <4>1. \A m \in Nodes : e \notin index[m]
        BY <3>1, <3>2, <3>3, <3>6 DEF StorageOK, IndexMatchesStore
      <4>2. UNCHANGED <<index, entries, storageAborted>> /\ disordered' = {}
        BY <2>3, <3>1, <3>6
      <4>3. QED
        BY <2>7, <3>1, <3>4, <4>1, <4>2 DEF StorageOK, IndexMatchesStore, StorageChecksHold
    <3>7. QED
      BY <3>5, <3>6
  <2>10. QED
    BY <2>8, <2>9
<1>4. QED
  BY <1>2, <1>3

\* A batch of events keeps the storage.
LEMMA BatchStorageInv ==
    ASSUME StorageOK, NEW events \in SUBSET Event, OnSystemEvents(events)
    PROVE  StorageOK'
<1> DEFINE filtered == {v \in events : Severity[v.id] >= severity_min}
           w == CHOOSE x \in events : TRUE
<1>1. CASE UNCHANGED storageVars
  BY <1>1 DEF storageVars, StorageOK, StorageTypeOK, IndexMatchesStore, StorageChecksHold
<1>2. CASE (\E v \in events : v.acked) /\ RemoveEvent(w)
  <2>1. w \in events
    BY <1>2
  <2>2. QED
    BY <1>2, <2>1, RemoveEventInv
<1>3. CASE AddEvents(filtered)
  BY <1>3, AddEventsInv
<1>4. QED
  BY <1>1, <1>2, <1>3 DEF OnSystemEvents

\* Clear leaves observed entries, all empty.
LEMMA ClearEventsInv ==
    ASSUME StorageOK, ClearEvents
    PROVE  StorageOK'
<1>1. alerting' \in BOOLEAN
  BY DEF ClearEvents, UpdateAlerting
<1>2. QED
  BY <1>1, NodesAssumption
     DEF ClearEvents, StorageOK, StorageTypeOK, IndexMatchesStore, StorageChecksHold

\* Observers come and go without a change to the events.
LEMMA ObserverInv ==
    ASSUME StorageOK, NEW n \in Nodes, AddNodeObserver(n) \/ RemoveNodeObserver(n)
    PROVE  StorageOK'
BY DEF AddNodeObserver, RemoveNodeObserver, StorageOK, StorageTypeOK, IndexMatchesStore,
       StorageChecksHold

\* The storage invariant speaks of the storage alone.
LEMMA StorageStutter ==
    ASSUME StorageOK, UNCHANGED storageVars
    PROVE  StorageOK'
BY DEF storageVars, StorageOK, StorageTypeOK, IndexMatchesStore, StorageChecksHold

-----------------------------------------------------------------------------
(* What is under way between server and client.                            *)

\* What the server makes of an event it knows is an event.
LEMMA MadeEvent ==
    ASSUME NEW e \in EventIds, NEW acked \in BOOLEAN, NEW o \in Origins
    PROVE  MakeEvent(e, acked, o) \in Event
BY DEF MakeEvent, Origins, Event

\* The server sends v, or nobody listens.
LEMMA SendInv ==
    ASSUME ClientTypes, NEW v \in Event, Notify(v)
    PROVE  live' \in Seq(Event)
<1>1. live \in Seq(Event)
  BY DEF ClientTypes
<1>2. live' = live \/ live' = Append(live, v)
  BY DEF Notify
<1>3. QED
  BY <1>1, <1>2

\* The executor or a lost channel takes events off live, never reorders them.
LEMMA SectionInv ==
    ASSUME ClientTypes, NEW m \in Nat, NEW n \in 0..Len(live), 1 <= m,
           live' = SubSeq(live, m, n)
    PROVE  live' \in Seq(Event)
BY SubSeqProperties DEF ClientTypes

\* Delivering the oldest live event takes an event off the channel.
LEMMA TakeLiveInv ==
    ASSUME ClientTypes, live # <<>>, live' = Tail(live)
    PROVE  Head(live) \in Event /\ Head(live) = live[1] /\ live' \in Seq(Event)
BY DEF ClientTypes

-----------------------------------------------------------------------------
(* The steps.                                                              *)

\* Items observe nodes.
LEMMA WatchedAreNodes == Watched \subseteq Nodes
BY ClientAssumption

\* The client starts with nothing under way, nothing stored and an empty queue.
LEMMA ClientInitInv == ClientInit => ClientInv
<1> SUFFICES ASSUME ClientInit PROVE ClientInv
  OBVIOUS
<1>1. AckInv
  BY AckInitInv DEF ClientInit
<1>2. kSeverityMin \in Nat
  BY ClientAssumption
<1>3. ClientTypes
  <2>1. live \in Seq(Event)
    BY DEF ClientInit
  <2>2. reads \in [ReadSlots -> [state : {"idle", "requested", "answered"},
                                events : SUBSET Event]]
    BY DEF ClientInit, Idle
  <2>3. status \in [EventIds -> {"none", "unacked", "acked"}]
    BY DEF ClientInit
  <2>4. origin \in [EventIds -> Origins]
    BY ClientAssumption DEF ClientInit
  <2>5. QED
    BY <1>2, <2>1, <2>2, <2>3, <2>4 DEF ClientInit, ClientTypes
<1>4. StorageOK
  BY NodesAssumption DEF ClientInit, StorageInit, StorageOK, StorageTypeOK,
     IndexMatchesStore, StorageChecksHold
<1>5. QED
  BY <1>1, <1>3, <1>4 DEF ClientInv

\* The queue: every step of the client is a step of the queue or leaves it alone.
LEMMA ClientAckStep ==
    ASSUME ClientInv, ClientNext
    PROVE  AckInv'
<1> USE DEF ClientInv
<1>1. ASSUME UNCHANGED ackVars PROVE AckInv'
  BY <1>1, StutterInv
<1>2. ASSUME NEW e \in EventIds, ServerProcessesAck(e) \/ AckCallFails(e) PROVE AckInv'
  BY <1>2, CallEndsInv DEF ServerProcessesAck, AckCallFails
<1>3. CASE DeliverLiveEvent
  <2>1. {Head(live)} \in SUBSET Event /\ OnSystemEvents({Head(live)})
    BY <1>3, TakeLiveInv DEF DeliverLiveEvent
  <2>2. QED
    BY <2>1, BatchAckInv
<1>4. ASSUME NEW r \in ReadSlots, OnHistoryReadEventsComplete(r) PROVE AckInv'
  <2>1. reads[r].events \in SUBSET Event
    BY DEF ClientTypes
  <2>2. QED
    BY <1>4, <2>1, BatchAckInv DEF OnHistoryReadEventsComplete
<1>5. CASE AckTask
  BY <1>5, AckPendingEventsInv DEF AckTask
<1>6. ASSUME NEW s \in SeverityLevels, SetSeverityMin(s) PROVE AckInv'
  BY <1>6, ResetInv DEF SetSeverityMin
<1>7. ASSUME NEW e \in EventIds, AcknowledgeEvent(e) PROVE AckInv'
  BY <1>7, AckSetInv DEF AcknowledgeEvent, Ack
<1>8. ASSUME NEW n \in Nodes, AcknowledgeItemEvents(n) PROVE AckInv'
  <2>1. index[n] \in SUBSET EventIds
    BY DEF StorageOK, StorageTypeOK
  <2>2. QED
    BY <1>8, <2>1, AckSetInv DEF AcknowledgeItemEvents
<1>9. CASE AcknowledgeAllEvents
  <2>1. StoredIds \in SUBSET EventIds
    BY DEF StoredIds
  <2>2. QED
    BY <1>9, <2>1, AckSetInv DEF AcknowledgeAllEvents
<1>10. ASSUME NEW e \in EventIds, ServerRaises(e) \/ ServerUpdates(e) \/ OtherClientAcks(e)
       PROVE  AckInv'
  BY <1>1, <1>10 DEF ServerRaises, ServerUpdates, OtherClientAcks
<1>11. ASSUME NEW r \in ReadSlots, ServerAnswersRead(r) \/ ReadFails(r) PROVE AckInv'
  BY <1>1, <1>11 DEF ServerAnswersRead, ReadFails
<1>12. ASSUME NEW n \in Nodes, AddItemObserver(n) \/ RemoveItemObserver(n) PROVE AckInv'
  BY <1>1, <1>12 DEF AddItemObserver, RemoveItemObserver
<1>13. CASE OnChannelOpened \/ OnChannelClosed
  BY <1>1, <1>13 DEF OnChannelOpened, OnChannelClosed
<1>14. QED
  BY <1>2, <1>3, <1>4, <1>5, <1>6, <1>7, <1>8, <1>9, <1>10, <1>11, <1>12, <1>13, WatchedAreNodes
     DEF ClientNext, ServerNext, Progress, UserNext

\* The storage: only a batch, SetSeverityMin and the observers touch it.
LEMMA ClientStorageStep ==
    ASSUME ClientInv, ClientNext
    PROVE  StorageOK'
<1> USE DEF ClientInv
<1>1. ASSUME UNCHANGED storageVars PROVE StorageOK'
  BY <1>1, StorageStutter
<1>2. CASE DeliverLiveEvent
  <2>1. {Head(live)} \in SUBSET Event /\ OnSystemEvents({Head(live)})
    BY <1>2, TakeLiveInv DEF DeliverLiveEvent
  <2>2. QED
    BY <2>1, BatchStorageInv
<1>3. ASSUME NEW r \in ReadSlots, OnHistoryReadEventsComplete(r) PROVE StorageOK'
  <2>1. reads[r].events \in SUBSET Event
    BY DEF ClientTypes
  <2>2. QED
    BY <1>3, <2>1, BatchStorageInv DEF OnHistoryReadEventsComplete
<1>4. ASSUME NEW s \in SeverityLevels, SetSeverityMin(s) PROVE StorageOK'
  BY <1>4, ClearEventsInv DEF SetSeverityMin
<1>5. ASSUME NEW n \in Nodes, AddItemObserver(n) \/ RemoveItemObserver(n) PROVE StorageOK'
  BY <1>5, ObserverInv DEF AddItemObserver, RemoveItemObserver
<1>6. ASSUME NEW e \in EventIds,
             \/ ServerRaises(e) \/ ServerUpdates(e) \/ OtherClientAcks(e)
             \/ ServerProcessesAck(e) \/ AckCallFails(e) \/ AcknowledgeEvent(e)
      PROVE  StorageOK'
  BY <1>1, <1>6 DEF ServerRaises, ServerUpdates, OtherClientAcks, ServerProcessesAck,
     AckCallFails, AcknowledgeEvent
<1>7. ASSUME NEW r \in ReadSlots, ServerAnswersRead(r) \/ ReadFails(r) PROVE StorageOK'
  BY <1>1, <1>7 DEF ServerAnswersRead, ReadFails
<1>8. ASSUME NEW n \in Nodes, AcknowledgeItemEvents(n) PROVE StorageOK'
  BY <1>1, <1>8 DEF AcknowledgeItemEvents
<1>9. CASE AckTask \/ AcknowledgeAllEvents \/ OnChannelOpened \/ OnChannelClosed
  BY <1>1, <1>9 DEF AckTask, AcknowledgeAllEvents, OnChannelOpened, OnChannelClosed
<1>10. QED
  BY <1>2, <1>3, <1>4, <1>5, <1>6, <1>7, <1>8, <1>9, WatchedAreNodes
     DEF ClientNext, ServerNext, Progress, UserNext

\* The types of what is under way: the server sends events, and the channel and the
\* executor only take them off.
LEMMA ClientTransportStep ==
    ASSUME ClientInv, ClientNext
    PROVE  ClientTypes'
<1> USE DEF ClientInv
<1>1. live \in Seq(Event)
  BY DEF ClientTypes
<1>2. ASSUME UNCHANGED <<serverVars, fetcherVars>> PROVE ClientTypes'
  BY <1>2 DEF serverVars, fetcherVars, ClientTypes
<1>3. ASSUME NEW v \in Event, Notify(v), NEW e \in EventIds,
             NEW s \in {"unacked", "acked"}, status' = [status EXCEPT ![e] = s],
             origin' \in [EventIds -> Origins], updates' \in Nat,
             UNCHANGED <<reads, connected, severity_min, readLost>>
      PROVE  ClientTypes'
  <2>1. live' \in Seq(Event)
    BY <1>3, SendInv
  <2>2. status' \in [EventIds -> {"none", "unacked", "acked"}]
    BY <1>3 DEF ClientTypes
  <2>3. QED
    BY <1>3, <2>1, <2>2 DEF ClientTypes
<1>4. ASSUME NEW e \in EventIds PROVE origin[e] \in Origins
  BY DEF ClientTypes
<1>5. ASSUME NEW e \in EventIds, ServerRaises(e) PROVE ClientTypes'
  <2>1. MakeEvent(e, FALSE, origin[e]) \in Event
    BY <1>4, MadeEvent
  <2>2. QED
    BY <1>3, <1>5, <2>1 DEF ServerRaises, ClientTypes
<1>6. ASSUME NEW e \in EventIds, ServerUpdates(e) PROVE ClientTypes'
  <2>1. PICK o \in Origins, acked \in {FALSE, OthersAcknowledge} :
           /\ origin' = [origin EXCEPT ![e] = o]
           /\ status' = [status EXCEPT ![e] = IF acked THEN "acked" ELSE "unacked"]
           /\ Notify(MakeEvent(e, acked, o))
    BY <1>6 DEF ServerUpdates
  <2>2. MakeEvent(e, acked, o) \in Event
    BY <2>1, ClientAssumption, MadeEvent
  <2>3. /\ origin' \in [EventIds -> Origins] /\ updates' \in Nat
        /\ (IF acked THEN "acked" ELSE "unacked") \in {"unacked", "acked"}
        /\ UNCHANGED <<reads, connected, severity_min, readLost>>
    BY <1>6, <2>1 DEF ServerUpdates, ClientTypes
  <2>4. QED
    BY <1>3, <2>1, <2>2, <2>3
<1>7. ASSUME NEW e \in EventIds, ServerAcks(e),
             UNCHANGED <<origin, updates, reads, connected, severity_min, readLost>>
      PROVE  ClientTypes'
  <2>1. MakeEvent(e, TRUE, origin[e]) \in Event
    BY <1>4, MadeEvent
  <2>2. QED
    BY <1>3, <1>7, <2>1 DEF ServerAcks, ClientTypes
<1>8. ASSUME NEW e \in EventIds, OtherClientAcks(e) PROVE ClientTypes'
  BY <1>7, <1>8 DEF OtherClientAcks
<1>9. ASSUME NEW e \in EventIds, ServerProcessesAck(e) PROVE ClientTypes'
  <2>1. CASE status[e] = "unacked"
    BY <1>7, <1>9, <2>1 DEF ServerProcessesAck
  <2>2. CASE status[e] # "unacked"
    <3>1. UNCHANGED <<serverVars, fetcherVars>>
      BY <1>9, <2>2 DEF ServerProcessesAck, serverVars, fetcherVars
    <3>2. QED
      BY <1>2, <3>1
  <2>3. QED
    BY <2>1, <2>2
<1>10. ASSUME NEW r \in ReadSlots, ServerAnswersRead(r) PROVE ClientTypes'
  <2> DEFINE answer == {EventOf(e) : e \in {x \in EventIds : status[x] = "unacked"}}
  <2>1. answer \in SUBSET Event
    <3>1. ASSUME NEW e \in EventIds PROVE EventOf(e) \in Event
      <4>1. (status[e] = "acked") \in BOOLEAN
        OBVIOUS
      <4>2. QED
        BY <1>4, <4>1, MadeEvent DEF EventOf
    <3>2. QED
      BY <3>1
  <2>2. /\ reads' = [reads EXCEPT ![r] = Answer(answer)]
        /\ UNCHANGED <<serverVars, live, connected, severity_min, readLost>>
    BY <1>10 DEF ServerAnswersRead
  <2> HIDE DEF answer
  <2>3. Answer(answer) \in [state : {"idle", "requested", "answered"}, events : SUBSET Event]
    BY <2>1 DEF Answer
  <2>4. QED
    BY <2>2, <2>3 DEF serverVars, ClientTypes
<1>11. ASSUME NEW r \in ReadSlots, ReadFails(r) PROVE ClientTypes'
  <2>1. Answer({}) \in [state : {"idle", "requested", "answered"}, events : SUBSET Event]
    BY DEF Answer
  <2>2. /\ reads' = [reads EXCEPT ![r] = Answer({})] /\ readLost' \in BOOLEAN
        /\ UNCHANGED <<serverVars, live, connected, severity_min>>
    BY <1>11 DEF ReadFails, ClientTypes
  <2>3. QED
    BY <2>1, <2>2 DEF serverVars, ClientTypes
<1>12. CASE DeliverLiveEvent
  BY <1>12, TakeLiveInv DEF DeliverLiveEvent, serverVars, ClientTypes
<1>13. ASSUME NEW r \in ReadSlots, OnHistoryReadEventsComplete(r) PROVE ClientTypes'
  BY <1>13 DEF OnHistoryReadEventsComplete, Idle, serverVars, ClientTypes
<1>14. ASSUME NEW r \in ReadSlots, reads' = [reads EXCEPT ![r] = Requested],
              connected' \in BOOLEAN, severity_min' \in Nat, readLost' \in BOOLEAN,
              UNCHANGED <<serverVars, live>>
       PROVE  ClientTypes'
  BY <1>14 DEF Requested, serverVars, ClientTypes
<1>15. ASSUME NEW s \in SeverityLevels, SetSeverityMin(s) PROVE ClientTypes'
  BY <1>14, <1>15, ClientAssumption DEF SetSeverityMin, Update, ClientTypes
<1>16. CASE OnChannelOpened
  BY <1>14, <1>16 DEF OnChannelOpened, Update, ClientTypes
<1>17. CASE OnChannelClosed
  <2>1. PICK n \in 0..Len(live) : live' = SubSeq(live, 1, n)
    BY <1>17 DEF OnChannelClosed
  <2>2. live' \in Seq(Event)
    BY <2>1, SectionInv
  <2>3. /\ reads' = [r \in ReadSlots |->
                       IF reads[r] = Requested THEN Answer({}) ELSE reads[r]]
        /\ connected' \in BOOLEAN /\ UNCHANGED <<serverVars, severity_min, readLost>>
    BY <1>17 DEF OnChannelClosed
  <2>4. QED
    BY <2>2, <2>3 DEF serverVars, Answer, ClientTypes
<1>18. ASSUME NEW e \in EventIds, AckCallFails(e) \/ AcknowledgeEvent(e) PROVE ClientTypes'
  BY <1>2, <1>18 DEF AckCallFails, AcknowledgeEvent
<1>19. ASSUME NEW n \in Nodes,
              AcknowledgeItemEvents(n) \/ AddItemObserver(n) \/ RemoveItemObserver(n)
       PROVE  ClientTypes'
  BY <1>2, <1>19 DEF AcknowledgeItemEvents, AddItemObserver, RemoveItemObserver
<1>20. CASE AckTask \/ AcknowledgeAllEvents
  BY <1>2, <1>20 DEF AckTask, AcknowledgeAllEvents
<1>21. QED
  BY <1>5, <1>6, <1>8, <1>9, <1>10, <1>11, <1>12, <1>13, <1>15, <1>16, <1>17, <1>18,
     <1>19, <1>20, WatchedAreNodes
     DEF ClientNext, ServerNext, Progress, UserNext

\* Every step of the client keeps the invariant: the queue, what is under way and
\* the storage, each by its own lemma.
LEMMA ClientNextInv == ClientInv /\ [ClientNext]_clientVars => ClientInv'
<1> SUFFICES ASSUME ClientInv, [ClientNext]_clientVars PROVE ClientInv'
  OBVIOUS
<1>1. CASE ClientNext
  <2>1. AckInv' /\ StorageOK' /\ ClientTypes'
    BY <1>1, ClientAckStep, ClientStorageStep, ClientTransportStep
  <2>2. QED
    BY <2>1 DEF ClientInv
<1>2. CASE UNCHANGED clientVars
  <2>1. AckInv'
    BY <1>2, StutterInv DEF ClientInv, clientVars
  <2>2. StorageOK'
    BY <1>2, StorageStutter DEF ClientInv, clientVars
  <2>3. ClientTypes'
    BY <1>2 DEF ClientInv, clientVars, serverVars, fetcherVars, ClientTypes
  <2>4. QED
    BY <2>1, <2>2, <2>3 DEF ClientInv
<1>3. QED
  BY <1>1, <1>2

\* The inductive invariant of EventFetcher, EventStorage and EventAckQueue together:
\* the queue keeps its own, what is under way is well-formed, and as long as no stored
\* event is moved the index by item points at exactly the stored events, in order.
THEOREM ClientInvariant == ClientSpec => []ClientInv
  BY ClientInitInv, ClientNextInv, PTL DEF ClientSpec

-----------------------------------------------------------------------------
\* The types of the whole client (event_fetcher.h, event_storage.h, event_ack_queue.h).
THEOREM ClientTypeCorrect == ClientSpec => []ClientTypeOK
<1>1. ClientInv => ClientTypeOK
  BY DEF ClientInv, AckInv, ClientTypes, StorageOK, ClientTypeOK
<1>2. QED
  BY <1>1, ClientInvariant, PTL

\* The index by item and the stored events agree (EventStorage Add, Remove, Clear) as
\* long as no stored event was overwritten by one of another node or time.
THEOREM ClientIndexMatchesStore == ClientSpec => []IndexMatchesStore
<1>1. ClientInv => IndexMatchesStore
  BY DEF ClientInv, StorageOK
<1>2. QED
  BY <1>1, ClientInvariant, PTL

\* The Checks of the queue cannot fail, and the Check in EventStorage::Remove cannot
\* as long as no stored event was overwritten by one of another node or time: its
\* lookup then runs in the set of the right node, in the order it was built with.
THEOREM ClientChecksHold == ClientSpec => []EveryCheckHolds
<1>1. ClientInv => EveryCheckHolds
  BY DEF ClientInv, AckInv, StorageOK, EveryCheckHolds
<1>2. QED
  BY <1>1, ClientInvariant, PTL

\* Inside the client the queue keeps its limit and queues nothing twice.
THEOREM ClientAckLimitAndUniqueness ==
    ClientSpec => []AcksHoldTheirSlots
<1>1. ClientInv => AcksHoldTheirSlots
  BY DEF ClientInv, AckInv, AcksHoldTheirSlots
<1>2. QED
  BY <1>1, ClientInvariant, PTL

\* Inside the client the queue loses no wake-up, although SetSeverityMin resets it
\* under a posted task.
THEOREM ClientAckNeverSleeps == ClientSpec => []NoLostWakeup
<1>1. ClientInv => NoLostWakeup
  BY DEF ClientInv, AckInv
<1>2. QED
  BY <1>1, ClientInvariant, PTL

\* A batch of events starts nothing: it confirms one id or leaves the queue alone.
LEMMA BatchStartsNothing ==
    ASSUME NEW events, OnSystemEvents(events)
    PROVE  running' \subseteq running
BY DEF OnSystemEvents, OnAcked, ackVars

\* Of the client's steps only the queue's task starts anything.
LEMMA ClientStartsInOrder ==
    ASSUME ClientInv, ClientNext
    PROVE  [StartsInOrder]_ackVars
<1>1. ASSUME UNCHANGED ackVars PROVE [StartsInOrder]_ackVars
  BY <1>1
<1>2. CASE AckTask
  BY <1>2, TaskStartsInOrder DEF AckTask, ClientInv
<1>3. CASE \E r \in ReadSlots : OnHistoryReadEventsComplete(r)
  BY <1>3, BatchStartsNothing, NothingStarts DEF OnHistoryReadEventsComplete
<1>4. CASE DeliverLiveEvent
  BY <1>4, BatchStartsNothing, NothingStarts DEF DeliverLiveEvent
<1>5. CASE \E s \in SeverityLevels : SetSeverityMin(s)
  BY <1>5, NothingStarts DEF SetSeverityMin, Reset
<1>6. CASE \/ \E e \in EventIds : AcknowledgeEvent(e)
           \/ \E n \in Nodes : AcknowledgeItemEvents(n)
           \/ AcknowledgeAllEvents
  BY <1>6, NothingStarts
     DEF AcknowledgeEvent, AcknowledgeItemEvents, AcknowledgeAllEvents, Ack, AckAll
<1>7. CASE \E e \in EventIds : ServerProcessesAck(e) \/ AckCallFails(e)
  BY <1>7, NothingStarts DEF ServerProcessesAck, AckCallFails, CallEnds
<1>8. CASE \/ ServerNext \/ OnChannelOpened \/ OnChannelClosed
           \/ \E r \in ReadSlots : ServerAnswersRead(r) \/ ReadFails(r)
           \/ \E n \in Watched : AddItemObserver(n) \/ RemoveItemObserver(n)
  BY <1>1, <1>8
     DEF ServerNext, ServerRaises, ServerUpdates, OtherClientAcks, OnChannelOpened, OnChannelClosed,
         ServerAnswersRead, ReadFails, AddItemObserver, RemoveItemObserver
<1>9. QED
  BY <1>2, <1>3, <1>4, <1>5, <1>6, <1>7, <1>8 DEF ClientNext, Progress, UserNext

\* Inside the client too, whatever reconnects, reads and filters do meanwhile, no id
\* is sent before an id that was queued earlier.
THEOREM ClientSendsInOrder == ClientSpec => NoOvertaking
<1>1. ClientInv /\ [ClientNext]_clientVars => [StartsInOrder]_ackVars
  BY ClientStartsInOrder DEF clientVars
<1>2. QED
  BY <1>1, ClientInvariant, PTL DEF ClientSpec, NoOvertaking

-----------------------------------------------------------------------------
(* What is shown.                                                          *)

\* A batch adds only events that reach the limit.
LEMMA BatchShows ==
    ASSUME OnlyShownSeverities, StorageTypeOK, NEW events \in SUBSET Event,
           OnSystemEvents(events), UNCHANGED severity_min
    PROVE  OnlyShownSeverities'
<1> DEFINE filtered == {v \in events : Severity[v.id] >= severity_min}
           w == CHOOSE x \in events : TRUE
<1>1. CASE UNCHANGED storageVars
  BY <1>1 DEF storageVars, OnlyShownSeverities, StoredIds
<1>2. CASE RemoveEvent(w)
  <2>1. stored' = stored \/ stored' = [stored EXCEPT ![w.id] = Absent]
    BY <1>2 DEF RemoveEvent, storageVars
  <2>2. StoredIds' \subseteq StoredIds
    BY <2>1 DEF StorageTypeOK, StoredIds
  <2>3. QED
    BY <2>2 DEF OnlyShownSeverities
<1>3. CASE AddEvents(filtered)
  <2>1. \A e \in StoredIds' : e \in StoredIds \/ \E v \in filtered : v.id = e
    BY <1>3 DEF AddEvents, StoredIds
  <2>2. QED
    BY <2>1 DEF OnlyShownSeverities
<1>4. QED
  BY <1>1, <1>2, <1>3 DEF OnSystemEvents

\* Whatever was under way when the limit changed, nothing below the limit is
\* shown (EventFetcher::SetSeverityMin and the filter of OnSystemEvents).
THEOREM ClientShowsOnlySeverities == ClientSpec => []OnlyShownSeverities
<1>1. ClientInit => OnlyShownSeverities
  BY DEF ClientInit, StorageInit, OnlyShownSeverities, StoredIds
<1>2. ClientInv /\ OnlyShownSeverities /\ [ClientNext]_clientVars => OnlyShownSeverities'
  <2> SUFFICES ASSUME ClientInv, OnlyShownSeverities, [ClientNext]_clientVars
               PROVE  OnlyShownSeverities'
    OBVIOUS
  <2>1. StorageTypeOK
    BY DEF ClientInv, StorageOK
  <2>2. ASSUME UNCHANGED stored, UNCHANGED severity_min PROVE OnlyShownSeverities'
    BY <2>2 DEF OnlyShownSeverities, StoredIds
  <2>3. CASE DeliverLiveEvent
    <3>1. {Head(live)} \in SUBSET Event
        BY <2>3, TakeLiveInv DEF DeliverLiveEvent, ClientInv
    <3>2. QED
      BY <2>1, <2>3, <3>1, BatchShows DEF DeliverLiveEvent
  <2>4. ASSUME NEW r \in ReadSlots, OnHistoryReadEventsComplete(r)
        PROVE  OnlyShownSeverities'
    <3>1. reads[r].events \in SUBSET Event
      BY DEF ClientInv, ClientTypes
    <3>2. QED
      BY <2>1, <2>4, <3>1, BatchShows DEF OnHistoryReadEventsComplete
  <2>5. ASSUME NEW s \in SeverityLevels, SetSeverityMin(s) PROVE OnlyShownSeverities'
    BY <2>5 DEF SetSeverityMin, ClearEvents, OnlyShownSeverities, StoredIds
  <2>6. ASSUME NEW e \in EventIds,
               \/ ServerRaises(e) \/ ServerUpdates(e) \/ OtherClientAcks(e)
               \/ ServerProcessesAck(e) \/ AckCallFails(e) \/ AcknowledgeEvent(e)
        PROVE  OnlyShownSeverities'
    BY <2>2, <2>6 DEF ServerRaises, ServerUpdates, OtherClientAcks, ServerProcessesAck,
       AckCallFails, AcknowledgeEvent, storageVars, fetcherVars
  <2>7. ASSUME NEW r \in ReadSlots, ServerAnswersRead(r) \/ ReadFails(r)
        PROVE  OnlyShownSeverities'
    BY <2>2, <2>7 DEF ServerAnswersRead, ReadFails, storageVars
  <2>8. ASSUME NEW n \in Nodes,
               AcknowledgeItemEvents(n) \/ AddItemObserver(n) \/ RemoveItemObserver(n)
        PROVE  OnlyShownSeverities'
    BY <2>2, <2>8 DEF AcknowledgeItemEvents, AddItemObserver, RemoveItemObserver,
       AddNodeObserver, RemoveNodeObserver, storageVars, fetcherVars
  <2>9. CASE \/ AckTask \/ AcknowledgeAllEvents \/ OnChannelOpened \/ OnChannelClosed
             \/ UNCHANGED clientVars
    BY <2>2, <2>9 DEF AckTask, AcknowledgeAllEvents, OnChannelOpened, OnChannelClosed,
       storageVars, fetcherVars, clientVars
  <2>10. QED
    BY <2>3, <2>4, <2>5, <2>6, <2>7, <2>8, <2>9, WatchedAreNodes
       DEF ClientNext, ServerNext, Progress, UserNext
<1>3. QED
  BY <1>1, <1>2, ClientInvariant, PTL DEF ClientSpec

-----------------------------------------------------------------------------
(* Nothing is missed.                                                      *)

\* News of an acknowledge is true, and snapshots bring only unacked events:
\* with it, an unacked event is never taken off the storage or dropped on arrival.
NewsIsTrue ==
    /\ \A i \in 1..Len(live) : live[i].acked => status[live[i].id] = "acked"
    /\ \A r \in ReadSlots : \A v \in reads[r].events : ~v.acked

\* A section of true live news is true.
LEMMA LiveNewsIsTrue ==
    ASSUME ClientInv, NewsIsTrue, NEW m \in Nat, NEW n \in 0..Len(live), 1 <= m,
           live' = SubSeq(live, m, n), UNCHANGED status
    PROVE  \A i \in 1..Len(live') : live'[i].acked => status'[live'[i].id] = "acked"
<1>1. live \in Seq(Event)
  BY DEF ClientInv, ClientTypes
<1>2. ASSUME NEW i \in 1..Len(live')
      PROVE  m + i - 1 \in 1..Len(live) /\ live'[i] = live[m + i - 1]
  BY <1>1, SubSeqProperties
<1>3. ASSUME NEW i \in 1..Len(live'), live'[i].acked
      PROVE  status'[live'[i].id] = "acked"
  <2>1. live[m + i - 1].acked /\ m + i - 1 \in 1..Len(live)
    BY <1>2, <1>3
  <2>2. status[live[m + i - 1].id] = "acked"
    BY <2>1 DEF NewsIsTrue
  <2>3. QED
    BY <1>2, <2>2
<1>4. QED
  BY <1>3

\* The server sends true news.
LEMMA SendNews ==
    ASSUME ClientInv, NewsIsTrue, NEW v, Notify(v), UNCHANGED reads,
           \A e \in EventIds : status[e] = "acked" => status'[e] = "acked",
           v.acked => status'[v.id] = "acked"
    PROVE  NewsIsTrue'
<1>1. live \in Seq(Event)
  BY DEF ClientInv, ClientTypes
<1>2. ASSUME NEW i \in 1..Len(live), live[i].acked PROVE status'[live[i].id] = "acked"
  <2>1. live[i] \in Event
    BY <1>1
  <2>2. QED
    BY <1>2, <2>1 DEF NewsIsTrue, Event
<1>3. ASSUME NEW i \in 1..Len(live'), live'[i].acked PROVE status'[live'[i].id] = "acked"
  <2>1. CASE live' = live
    BY <1>2, <1>3, <2>1
  <2>2. CASE live' = Append(live, v)
    <3>1. \/ i \in 1..Len(live) /\ live'[i] = live[i]
          \/ live'[i] = v
      BY <1>1, <2>2
    <3>2. QED
      BY <1>2, <1>3, <3>1
  <2>3. QED
    BY <2>1, <2>2 DEF Notify
<1>4. QED
  BY <1>3 DEF NewsIsTrue

\* Every step keeps the news under way true: a live event says what the server said,
\* a snapshot holds unacked events only (OnSystemEvents, OnHistoryReadEventsComplete).
LEMMA NewsStep ==
    ASSUME ClientInv, NewsIsTrue, [ClientNext]_clientVars
    PROVE  NewsIsTrue'
<1>1. live \in Seq(Event) /\ status \in [EventIds -> {"none", "unacked", "acked"}]
      /\ reads \in [ReadSlots -> [state : {"idle", "requested", "answered"},
                                  events : SUBSET Event]]
  BY DEF ClientInv, ClientTypes
<1>2. ASSUME UNCHANGED <<status, live, reads>> PROVE NewsIsTrue'
  BY <1>2 DEF NewsIsTrue
<1>3. ASSUME NEW e \in EventIds, ServerRaises(e) PROVE NewsIsTrue'
  BY <1>1, <1>3, SendNews DEF ServerRaises, MakeEvent
<1>4. ASSUME NEW e \in EventIds, ServerAcks(e), UNCHANGED reads PROVE NewsIsTrue'
  BY <1>1, <1>4, SendNews DEF ServerAcks, MakeEvent
<1>5. ASSUME NEW e \in EventIds,
             OtherClientAcks(e) \/ ServerProcessesAck(e) \/ ServerUpdates(e)
      PROVE  NewsIsTrue'
  <2>1. CASE ServerUpdates(e)
    BY <1>1, <2>1, SendNews DEF ServerUpdates, MakeEvent
  <2>2. CASE OtherClientAcks(e) \/ ServerProcessesAck(e)
    BY <1>2, <1>4, <2>2 DEF OtherClientAcks, ServerProcessesAck
  <2>3. QED
    BY <1>5, <2>1, <2>2
<1>6. ASSUME NEW r \in ReadSlots, ServerAnswersRead(r) PROVE NewsIsTrue'
  <2> DEFINE answer == {EventOf(e) : e \in {x \in EventIds : status[x] = "unacked"}}
  <2>1. \A v \in answer : ~v.acked
    <3>1. ASSUME NEW x \in EventIds, status[x] = "unacked" PROVE ~EventOf(x).acked
      <4>1. EventOf(x).acked = (status[x] = "acked")
        BY DEF EventOf, MakeEvent
      <4>2. QED
        BY <3>1, <4>1
    <3>2. QED
      BY <3>1
  <2>2. reads' = [reads EXCEPT ![r] = Answer(answer)] /\ UNCHANGED <<status, live>>
    BY <1>6 DEF ServerAnswersRead, serverVars
  <2> HIDE DEF answer
  <2>3. QED
    BY <1>1, <2>1, <2>2 DEF NewsIsTrue, Answer
<1>7. ASSUME NEW r \in ReadSlots, ReadFails(r) PROVE NewsIsTrue'
  BY <1>1, <1>7 DEF ReadFails, serverVars, NewsIsTrue, Answer
<1>8. ASSUME NEW r \in ReadSlots, OnHistoryReadEventsComplete(r) PROVE NewsIsTrue'
  BY <1>1, <1>8 DEF OnHistoryReadEventsComplete, Idle, serverVars, NewsIsTrue
<1>9. CASE DeliverLiveEvent
  <2> DEFINE last == Len(live)
  <2>1. last \in 0..Len(live) /\ 2 \in Nat /\ 1 <= 2
    BY <1>1
  <2>2. live' = SubSeq(live, 2, last) /\ UNCHANGED <<status, reads>>
    BY <1>1, <1>9, TailIsSubSeq DEF DeliverLiveEvent, serverVars
  <2> HIDE DEF last
  <2>3. QED
    BY <2>1, <2>2, LiveNewsIsTrue DEF NewsIsTrue
<1>10. CASE OnChannelClosed
  <2>1. PICK n \in 0..Len(live) : live' = SubSeq(live, 1, n)
    BY <1>10 DEF OnChannelClosed
  <2>2. UNCHANGED status
        /\ reads' = [r \in ReadSlots |->
                       IF reads[r] = Requested THEN Answer({}) ELSE reads[r]]
    BY <1>10 DEF OnChannelClosed, serverVars
  <2>3. QED
    BY <2>1, <2>2, LiveNewsIsTrue DEF NewsIsTrue, Answer
<1>11. ASSUME Update, UNCHANGED <<status, live>> PROVE NewsIsTrue'
  BY <1>1, <1>11 DEF Update, Requested, NewsIsTrue
<1>12. ASSUME NEW s \in SeverityLevels, SetSeverityMin(s) PROVE NewsIsTrue'
  BY <1>11, <1>12 DEF SetSeverityMin, serverVars
<1>13. CASE OnChannelOpened
  BY <1>11, <1>13 DEF OnChannelOpened, serverVars
<1>14. ASSUME NEW e \in EventIds, AckCallFails(e) \/ AcknowledgeEvent(e) PROVE NewsIsTrue'
  BY <1>2, <1>14 DEF AckCallFails, AcknowledgeEvent, serverVars, fetcherVars
<1>15. ASSUME NEW n \in Nodes,
              AcknowledgeItemEvents(n) \/ AddItemObserver(n) \/ RemoveItemObserver(n)
       PROVE  NewsIsTrue'
  BY <1>2, <1>15 DEF AcknowledgeItemEvents, AddItemObserver, RemoveItemObserver,
     serverVars, fetcherVars
<1>16. CASE AckTask \/ AcknowledgeAllEvents \/ UNCHANGED clientVars
  BY <1>2, <1>16 DEF AckTask, AcknowledgeAllEvents, clientVars, serverVars, fetcherVars
<1>17. QED
  BY <1>3, <1>5, <1>6, <1>7, <1>8, <1>9, <1>10, <1>12, <1>13, <1>14, <1>15, <1>16, WatchedAreNodes
     DEF ClientNext, ServerNext, Progress, UserNext

\* A batch of true news brings the events in it that are due, and drops none.
LEMMA BatchBrings ==
    ASSUME StorageTypeOK, NEW events \in SUBSET Event, OnSystemEvents(events),
           \A v \in events : v.acked => status[v.id] = "acked",
           (\A v \in events : ~v.acked) \/ (\E x : events = {x}),
           NEW e \in EventIds, status[e] = "unacked", Severity[e] >= severity_min,
           e \in StoredIds \/ \E v \in events : v.id = e
    PROVE  e \in StoredIds'
<1> DEFINE filtered == {v \in events : Severity[v.id] >= severity_min}
           w == CHOOSE x \in events : TRUE
<1>1. CASE \E v \in events : v.acked
  <2>1. events = {w} /\ w.acked
    BY <1>1
  <2>2. w.id # e /\ w.id \in EventIds
    BY <2>1 DEF Event
  <2>3. UNCHANGED storageVars \/ RemoveEvent(w)
    BY <1>1 DEF OnSystemEvents
  <2>4. stored' = stored \/ stored' = [stored EXCEPT ![w.id] = Absent]
    BY <2>3 DEF RemoveEvent, storageVars
  <2>5. e \in StoredIds
    BY <2>1, <2>2
  <2>6. QED
    BY <2>2, <2>4, <2>5 DEF StorageTypeOK, StoredIds
<1>2. CASE \A v \in events : ~v.acked
  <2>1. CASE filtered = {}
    <3>1. UNCHANGED storageVars
      BY <1>2, <2>1 DEF OnSystemEvents
    <3>2. ~ \E v \in events : v.id = e
      BY <2>1
    <3>3. QED
      BY <3>1, <3>2 DEF storageVars, StoredIds
  <2>2. CASE filtered # {}
    <3>1. AddEvents(filtered)
      BY <1>2, <2>2 DEF OnSystemEvents
    <3> DEFINE first == CHOOSE v \in filtered : v.id = e
    <3> HIDE DEF filtered
    <3>2. stored'[e] = IF e \in {v.id : v \in filtered} THEN OriginOf(first) ELSE stored[e]
      BY <3>1 DEF AddEvents
    <3>3. CASE e \in {v.id : v \in filtered}
      <4>1. first \in filtered
        BY <3>3
      <4>2. OriginOf(first) \in Origins
        BY <4>1, OriginType DEF filtered
      <4>3. QED
        BY <3>2, <3>3, <4>2, AbsentIsNoOrigin DEF StoredIds
    <3>4. CASE e \notin {v.id : v \in filtered}
      <4>1. e \in StoredIds
        BY <3>4 DEF filtered
      <4>2. QED
        BY <3>2, <3>4, <4>1 DEF StoredIds
    <3>5. QED
      BY <3>3, <3>4
  <2>3. QED
    BY <2>1, <2>2
<1>3. QED
  BY <1>1, <1>2

\* An event the user should see, and the ways it comes.
Due(e) == connected /\ ~readLost /\ status[e] = "unacked" /\ Severity[e] >= severity_min
InLive(e) == \E i \in 1..Len(live) : live[i].id = e
InReads(e) == \E r \in ReadSlots : reads[r] = Requested \/ \E v \in reads[r].events : v.id = e

\* Every step keeps NoEventIsMissed: what leaves the channel or a read enters the
\* storage, and what empties the storage starts a read.
LEMMA NothingMissedStep ==
    ASSUME ClientInv, NewsIsTrue, NoEventIsMissed, [ClientNext]_clientVars
    PROVE  NoEventIsMissed'
<1> SUFFICES ASSUME NEW e \in EventIds, Due(e)'
             PROVE  e \in StoredIds' \/ InLive(e)' \/ InReads(e)'
  BY DEF NoEventIsMissed, Due, InLive, InReads
<1>1. /\ live \in Seq(Event) /\ StorageTypeOK
      /\ status \in [EventIds -> {"none", "unacked", "acked"}]
      /\ reads \in [ReadSlots -> [state : {"idle", "requested", "answered"},
                                  events : SUBSET Event]]
  BY DEF ClientInv, ClientTypes, StorageOK
<1>2. Due(e) => e \in StoredIds \/ InLive(e) \/ InReads(e)
  BY DEF NoEventIsMissed, Due, InLive, InReads
<1> HIDE DEF Due
<1>3. ASSUME UNCHANGED <<connected, readLost, status, severity_min, stored, live, reads>>
      PROVE  e \in StoredIds' \/ InLive(e)' \/ InReads(e)'
  BY <1>2, <1>3 DEF Due, StoredIds, InLive, InReads
<1>4. ASSUME NEW v \in Event, Notify(v),
             UNCHANGED <<connected, readLost, reads, severity_min, stored>>,
             status'[e] # status[e] => v.id = e
      PROVE  e \in StoredIds' \/ InLive(e)' \/ InReads(e)'
  <2>1. Len(live') = Len(live) + 1 /\ live'[Len(live) + 1] = v
        /\ \A i \in 1..Len(live) : live'[i] = live[i]
    BY <1>1, <1>4 DEF Notify, Due
  <2>2. CASE v.id = e
    BY <1>1, <2>1, <2>2 DEF InLive
  <2>3. CASE v.id # e
    <3>1. Due(e)
      BY <1>4, <2>3 DEF Due
    <3>2. InLive(e) => InLive(e)'
      BY <1>1, <2>1 DEF InLive
    <3>3. QED
      BY <1>2, <1>4, <3>1, <3>2 DEF StoredIds, InReads
  <2>4. QED
    BY <2>2, <2>3
<1>5. ASSUME NEW x \in EventIds, ServerRaises(x)
      PROVE  e \in StoredIds' \/ InLive(e)' \/ InReads(e)'
  <2> DEFINE v == MakeEvent(x, FALSE, origin[x])
  <2>1. v \in Event /\ v.id = x
    BY MadeEvent DEF MakeEvent, ClientInv, ClientTypes
  <2> HIDE DEF v
  <2>2. Notify(v)
    BY <1>5 DEF ServerRaises, v
  <2>3. QED
    BY <1>1, <1>4, <1>5, <2>1, <2>2 DEF ServerRaises, storageVars
<1>6. ASSUME NEW x \in EventIds, ServerAcks(x),
             UNCHANGED <<connected, readLost, reads, severity_min, stored>>
      PROVE  e \in StoredIds' \/ InLive(e)' \/ InReads(e)'
  <2> DEFINE v == MakeEvent(x, TRUE, origin[x])
  <2>1. v \in Event /\ v.id = x
    BY MadeEvent DEF MakeEvent, ClientInv, ClientTypes
  <2> HIDE DEF v
  <2>2. Notify(v)
    BY <1>6 DEF ServerAcks, v
  <2>3. QED
    BY <1>1, <1>4, <1>6, <2>1, <2>2 DEF ServerAcks
<1>7. ASSUME NEW x \in EventIds,
             OtherClientAcks(x) \/ ServerProcessesAck(x) \/ ServerUpdates(x)
      PROVE  e \in StoredIds' \/ InLive(e)' \/ InReads(e)'
  <2>1. CASE ServerUpdates(x)
    <3>1. PICK o \in Origins, acked \in {FALSE, OthersAcknowledge} :
             /\ Notify(MakeEvent(x, acked, o))
             /\ status' = [status EXCEPT ![x] = IF acked THEN "acked" ELSE "unacked"]
      BY <2>1 DEF ServerUpdates
    <3> DEFINE v == MakeEvent(x, acked, o)
    <3>2. v \in Event /\ v.id = x
      BY <3>1, ClientAssumption, MadeEvent DEF MakeEvent
    <3> HIDE DEF v
    <3>3. Notify(v)
      BY <3>1 DEF v
    <3>4. QED
      BY <1>1, <1>4, <2>1, <3>1, <3>2, <3>3 DEF ServerUpdates, storageVars
  <2>2. CASE OtherClientAcks(x) \/ ServerProcessesAck(x)
    BY <1>3, <1>6, <2>2 DEF OtherClientAcks, ServerProcessesAck, storageVars
  <2>3. QED
    BY <1>7, <2>1, <2>2
<1>8. ASSUME NEW r \in ReadSlots, ServerAnswersRead(r)
      PROVE  e \in StoredIds' \/ InLive(e)' \/ InReads(e)'
  <2> DEFINE answer == {EventOf(x) : x \in {y \in EventIds : status[y] = "unacked"}}
  <2>1. reads' = [reads EXCEPT ![r] = Answer(answer)] /\ UNCHANGED status
    BY <1>8 DEF ServerAnswersRead, serverVars
  <2>2. EventOf(e) \in answer /\ EventOf(e).id = e
    BY <2>1 DEF Due, EventOf, MakeEvent
  <2> HIDE DEF answer
  <2>3. reads'[r].events = answer
    BY <1>1, <2>1 DEF Answer
  <2>4. QED
    BY <2>2, <2>3 DEF InReads
<1>9. CASE DeliverLiveEvent
  <2>1. /\ {Head(live)} \in SUBSET Event /\ OnSystemEvents({Head(live)})
        /\ Head(live) = live[1] /\ 1 \in 1..Len(live)
        /\ UNCHANGED <<status, reads, connected, readLost, severity_min>>
    BY <1>1, <1>9, TakeLiveInv DEF DeliverLiveEvent, ClientInv, serverVars
  <2>2. Head(live).acked => status[Head(live).id] = "acked"
    BY <2>1 DEF NewsIsTrue
  <2>3. Due(e)
    BY <2>1 DEF Due
  <2>4. CASE e \in StoredIds \/ Head(live).id = e
    BY <1>1, <2>1, <2>2, <2>3, <2>4, BatchBrings DEF Due
  <2>5. ASSUME NEW i \in 1..Len(live), live[i].id = e, Head(live).id # e
        PROVE  InLive(e)'
    <3>1. i # 1
      BY <2>1, <2>5
    <3>2. i - 1 \in 1..Len(live') /\ live'[i - 1] = live[i]
      BY <1>1, <1>9, <3>1 DEF DeliverLiveEvent
    <3>3. QED
      BY <2>5, <3>2 DEF InLive
  <2>6. InReads(e) => InReads(e)'
    BY <2>1 DEF InReads
  <2>7. QED
    BY <1>2, <2>3, <2>4, <2>5, <2>6 DEF InLive
<1>10. ASSUME NEW r \in ReadSlots, OnHistoryReadEventsComplete(r)
       PROVE  e \in StoredIds' \/ InLive(e)' \/ InReads(e)'
  <2>1. /\ reads[r].events \in SUBSET Event /\ OnSystemEvents(reads[r].events)
        /\ reads[r].state = "answered" /\ reads' = [reads EXCEPT ![r] = Idle]
        /\ UNCHANGED <<status, live, connected, readLost, severity_min>>
    BY <1>1, <1>10 DEF OnHistoryReadEventsComplete, serverVars
  <2>2. \A v \in reads[r].events : ~v.acked
    BY DEF NewsIsTrue
  <2>3. Due(e)
    BY <2>1 DEF Due
  <2>4. CASE e \in StoredIds \/ \E v \in reads[r].events : v.id = e
    BY <1>1, <2>1, <2>2, <2>3, <2>4, BatchBrings DEF Due
  <2>5. CASE InLive(e)
    BY <2>1, <2>5 DEF InLive
  <2>6. ASSUME NEW q \in ReadSlots,
               reads[q] = Requested \/ \E v \in reads[q].events : v.id = e, q # r
        PROVE  InReads(e)'
    BY <1>1, <2>1, <2>6 DEF InReads
  <2>7. reads[r] # Requested
    BY <2>1 DEF Requested
  <2>8. QED
    BY <1>2, <2>3, <2>4, <2>5, <2>6, <2>7 DEF InReads
<1>11. ASSUME Update PROVE InReads(e)'
  BY <1>1, <1>11 DEF Update, InReads
<1>12. ASSUME NEW s \in SeverityLevels, SetSeverityMin(s) PROVE InReads(e)'
  BY <1>11, <1>12 DEF SetSeverityMin
<1>13. CASE OnChannelOpened
  BY <1>11, <1>13 DEF OnChannelOpened
<1>14. connected'
  BY DEF Due
<1>15. ASSUME NEW r \in ReadSlots, ReadFails(r) PROVE InReads(e)'
  <2>1. connected /\ ~readLost'
    BY <1>15 DEF ReadFails, Due
  <2>2. PICK q \in ReadSlots \ {r} : reads[q] = Requested
    BY <1>15, <2>1 DEF ReadFails
  <2>3. reads'[q] = Requested
    BY <1>1, <1>15, <2>2 DEF ReadFails
  <2>4. QED
    BY <2>2, <2>3 DEF InReads
<1>16. CASE OnChannelClosed
  BY <1>14, <1>16 DEF OnChannelClosed
<1>17. ASSUME NEW x \in EventIds, AckCallFails(x) \/ AcknowledgeEvent(x)
       PROVE  e \in StoredIds' \/ InLive(e)' \/ InReads(e)'
  BY <1>3, <1>17 DEF AckCallFails, AcknowledgeEvent, serverVars, fetcherVars, storageVars
<1>18. ASSUME NEW n \in Nodes,
              AcknowledgeItemEvents(n) \/ AddItemObserver(n) \/ RemoveItemObserver(n)
       PROVE  e \in StoredIds' \/ InLive(e)' \/ InReads(e)'
  BY <1>3, <1>18 DEF AcknowledgeItemEvents, AddItemObserver, RemoveItemObserver,
     AddNodeObserver, RemoveNodeObserver, serverVars, fetcherVars, storageVars
<1>19. CASE AckTask \/ AcknowledgeAllEvents \/ UNCHANGED clientVars
  BY <1>3, <1>19 DEF AckTask, AcknowledgeAllEvents, clientVars, serverVars, fetcherVars,
     storageVars
<1>20. QED
  BY <1>5, <1>7, <1>8, <1>9, <1>10, <1>12, <1>13, <1>15, <1>16, <1>17, <1>18, <1>19, WatchedAreNodes
     DEF ClientNext, ServerNext, Progress, UserNext

\* While the session is up, an unacked event that reaches the limit is shown, or
\* its news is on the way, or a read that will bring it is, from each Update (in
\* OnChannelOpened and in SetSeverityMin) until a read fails with the session up.
THEOREM ClientMissesNothing == ClientSpec => []NoEventIsMissed
<1>1. ClientInit => NewsIsTrue /\ NoEventIsMissed
  BY DEF ClientInit, Idle, NewsIsTrue, NoEventIsMissed
<1>2. ClientInv /\ NewsIsTrue /\ NoEventIsMissed /\ [ClientNext]_clientVars
        => (NewsIsTrue /\ NoEventIsMissed)'
  BY NewsStep, NothingMissedStep
<1>3. QED
  BY <1>1, <1>2, ClientInvariant, PTL DEF ClientSpec

-----------------------------------------------------------------------------
(* The facade of services, over Spec.                                      *)

\* Where an emission is, and what holds of the services there.
EmissionOK ==
    /\ phase = "idle" => toCall = {}
    /\ phase = "closing" => /\ alive /\ current = NoSession
                            /\ HandOverConnected /\ next # NoSession => up[next]
    /\ phase = "opening" => /\ alive /\ current # NoSession
                            /\ HandOverConnected => up[current]
    /\ phase = "forwarding" => alive /\ current # NoSession
    /\ ~ alive => current = NoSession /\ notifiers = {}

\* The notifiers the emission has called, or that it need not call, agree with the session.
NotifiersOK ==
    HandOverConnected => \A n \in notifiers \ toCall : n \in opened <=> IsConnected

\* While the slots are told of new services, an item may wait for its Reconnect.
ItemsOK ==
    alive => \A i \in Items :
        IF item[i] = "subscribed"
        THEN \/ underlying[i] = Reconnected
             \/ phase = "opening" /\ underlying[i] = NoSession
        ELSE underlying[i] = NoSession

\* ChannelsAgree and ItemsAreBound say nothing of the middle of a swap: the inductive
\* invariant says for each phase what is done and what is still to do.
MasterInv ==
    /\ MasterTypeOK
    /\ EmissionOK
    /\ NotifiersOK
    /\ ItemsOK

\* What services make of an item is theirs.
LEMMA ReconnectedType == ASSUME MasterTypeOK PROVE Reconnected \in {NoSession, current}
  BY DEF Reconnected

\* The first states.
LEMMA InitInv == Init => MasterInv
  BY DEF Init, MasterInv, MasterTypeOK, Services, EmissionOK, NotifiersOK, ItemsOK

\* A step of the items changes nothing else.
LEMMA ItemStep ==
    ASSUME MasterInv, NEW i \in Items, CreateItem(i) \/ Subscribe(i) \/ DestroyItem(i)
    PROVE  MasterInv'
<1> USE DEF itemVars, serviceVars, emissionVars, notifierVars
<1>1. MasterTypeOK'
  <2>1. Reconnected \in Services /\ NoSession \in Services
    BY ReconnectedType DEF MasterInv, MasterTypeOK, Services
  <2> QED
    BY <2>1 DEF MasterInv, MasterTypeOK, CreateItem, Subscribe, DestroyItem
<1>2. EmissionOK'
  BY DEF MasterInv, EmissionOK, CreateItem, Subscribe, DestroyItem
<1>3. NotifiersOK'
  BY DEF MasterInv, NotifiersOK, IsConnected, CreateItem, Subscribe, DestroyItem
<1>4. ItemsOK'
  <2>1. Reconnected' = Reconnected
    BY DEF Reconnected, CreateItem, Subscribe, DestroyItem
  <2>2. CASE CreateItem(i)
    BY <2>1, <2>2 DEF MasterInv, MasterTypeOK, ItemsOK, CreateItem
  <2>3. CASE Subscribe(i)
    BY <2>1, <2>3 DEF MasterInv, MasterTypeOK, ItemsOK, Subscribe
  <2>4. CASE DestroyItem(i)
    BY <2>1, <2>4 DEF MasterInv, MasterTypeOK, ItemsOK, DestroyItem
  <2> QED BY <2>2, <2>3, <2>4
<1> QED BY <1>1, <1>2, <1>3, <1>4 DEF MasterInv

\* Notifiers may come and go at any point of an emission.
LEMMA NotifierStep ==
    ASSUME MasterInv, NEW n \in Notifiers,
           CreateNotifier(n) \/ DestroyNotifier(n) \/ TellNotifier(n)
    PROVE  MasterInv'
<1> USE DEF itemVars, serviceVars, emissionVars
<1>1. MasterTypeOK'
  BY DEF MasterInv, MasterTypeOK, CreateNotifier, DestroyNotifier, TellNotifier
<1>2. EmissionOK'
  BY DEF MasterInv, EmissionOK, CreateNotifier, DestroyNotifier, TellNotifier
<1>3. NotifiersOK'
  <2>1. IsConnected' = IsConnected
    BY DEF IsConnected, CreateNotifier, DestroyNotifier, TellNotifier
  <2>2. CASE CreateNotifier(n)
    BY <2>1, <2>2 DEF MasterInv, MasterTypeOK, NotifiersOK, CreateNotifier
  <2>3. CASE DestroyNotifier(n)
    BY <2>1, <2>3 DEF MasterInv, NotifiersOK, DestroyNotifier
  <2>4. CASE TellNotifier(n)
    <3>1. HandOverConnected => (Told <=> IsConnected)
      BY <2>4 DEF MasterInv, MasterTypeOK, EmissionOK, TellNotifier, Told, IsConnected
    <3> QED BY <2>1, <2>4, <3>1 DEF MasterInv, NotifiersOK, TellNotifier
  <2> QED BY <2>2, <2>3, <2>4
<1>4. ItemsOK'
  BY DEF MasterInv, ItemsOK, Reconnected, CreateNotifier, DestroyNotifier, TellNotifier
<1> QED BY <1>1, <1>2, <1>3, <1>4 DEF MasterInv

\* A swap starts: the old services are closed, or there are none to close.
LEMMA SetServicesStep ==
    ASSUME MasterInv, NEW s \in Services, SetServices(s)
    PROVE  MasterInv'
<1> USE MasterAssumption DEF SetServices, Assign, Close, notifierVars
<1>1. MasterTypeOK'
  BY DEF MasterInv, MasterTypeOK, Services
<1>2. EmissionOK'
  BY DEF MasterInv, EmissionOK, Services, MasterTypeOK
<1>3. NotifiersOK'
  BY DEF MasterInv, NotifiersOK, EmissionOK, IsConnected, Services
<1>4. ItemsOK'
  BY DEF MasterInv, ItemsOK, Reconnected, EmissionOK
<1> QED BY <1>1, <1>2, <1>3, <1>4 DEF MasterInv

\* The steps by which an emission ends.
LEMMA EmissionEnds ==
    ASSUME MasterInv, Closed \/ Opened \/ Forwarded
    PROVE  MasterInv'
<1> USE MasterAssumption
    DEF Closed, Assign, Opened, Forwarded, serviceVars, itemVars, notifierVars
<1>1. MasterTypeOK'
  BY ReconnectedType DEF MasterInv, MasterTypeOK, Services
<1>2. EmissionOK'
  BY DEF MasterInv, EmissionOK, MasterTypeOK, Services
<1>3. NotifiersOK'
  BY DEF MasterInv, NotifiersOK, EmissionOK, IsConnected, MasterTypeOK, Services
<1>4. ItemsOK'
  BY DEF MasterInv, ItemsOK, Reconnected, EmissionOK
<1> QED BY <1>1, <1>2, <1>3, <1>4 DEF MasterInv

\* A session connects or is lost.
LEMMA SessionStep ==
    ASSUME MasterInv, NEW s \in Sessions, SessionChanges(s)
    PROVE  MasterInv'
<1> USE MasterAssumption
    DEF SessionChanges, serviceVars, emissionVars, itemVars, notifierVars
<1>1. MasterTypeOK'
  BY DEF MasterInv, MasterTypeOK
<1>2. EmissionOK'
  BY DEF MasterInv, EmissionOK, MasterTypeOK, Services
<1>3. NotifiersOK'
  BY DEF MasterInv, NotifiersOK, EmissionOK, IsConnected, MasterTypeOK, Services
<1>4. ItemsOK'
  BY DEF MasterInv, ItemsOK, Reconnected, EmissionOK
<1> QED BY <1>1, <1>2, <1>3, <1>4 DEF MasterInv

\* Destruction, after which nothing is claimed of the items.
LEMMA DestroyStep == ASSUME MasterInv, Destroy PROVE MasterInv'
  BY DEF MasterInv, MasterTypeOK, Services, EmissionOK, NotifiersOK, ItemsOK,
         Destroy, emissionVars, itemVars, notifierVars

\* The invariant speaks of these variables alone.
LEMMA MasterStutter == ASSUME MasterInv, UNCHANGED vars PROVE MasterInv'
  BY DEF vars, MasterInv, MasterTypeOK, EmissionOK, NotifiersOK, ItemsOK,
         IsConnected, Reconnected

\* The inductive invariant of the services facade, over every order in which slots make
\* and destroy items and notifiers while SetServices or a session change is announced.
THEOREM MasterInvariant == Spec => []MasterInv
<1>1. MasterInv /\ [Next]_vars => MasterInv'
  BY ItemStep, NotifierStep, SetServicesStep, EmissionEnds, SessionStep, DestroyStep,
     MasterStutter DEF Next
<1> QED BY InitInv, <1>1, PTL DEF Spec

\* A notifier that the signal is to call exists: destruction disconnects its slot.
THEOREM MasterTypes == Spec => []MasterTypeOK
<1>1. MasterInv => MasterTypeOK
  BY DEF MasterInv
<1> QED BY <1>1, MasterInvariant, PTL

\* However often the services are swapped, no item keeps what services that were taken
\* away had made, and between operations every subscribed item has what the current ones make.
THEOREM ItemsFollowServices == Spec => []ItemsAreBound
<1>1. MasterInv => ItemsAreBound
  BY ReconnectedType DEF MasterInv, ItemsOK, ItemsAreBound
<1> QED BY <1>1, MasterInvariant, PTL

\* If the client hands over connected sessions only, every slot is told what IsConnected
\* answers, and between operations every notifier's proxy has the state of the session.
THEOREM NotifiersFollowSession == Spec => []ChannelsAgree
<1>1. ASSUME MasterInv, HandOverConnected, toCall # {}
      PROVE  Told <=> IsConnected
  BY <1>1 DEF MasterInv, MasterTypeOK, EmissionOK, Told, IsConnected
<1>2. ASSUME MasterInv, HandOverConnected, phase = "idle"
      PROVE  opened = IF IsConnected THEN notifiers ELSE {}
  BY <1>2 DEF MasterInv, MasterTypeOK, EmissionOK, NotifiersOK
<1>3. MasterInv => ChannelsAgree
  BY <1>1, <1>2 DEF ChannelsAgree
<1> QED BY <1>3, MasterInvariant, PTL
=============================================================================
