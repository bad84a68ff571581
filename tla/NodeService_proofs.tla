-------------------------- MODULE NodeService_proofs --------------------------
(***************************************************************************)
(* The guards of the node service match its fetches, whoever waits for a   *)
(* node is served, and observers have seen what the models hold.           *)
(***************************************************************************)
EXTENDS NodeService, FiniteSetTheorems, SequenceTheorems, TLAPS

-----------------------------------------------------------------------------
(* The inductive invariant.                                                *)

Owners(ts) == {t.owner : t \in ts}

\* A tail that waits does so for its next target.
TailsOK(ts) ==
    \A t \in ts : t \in TypeOfTail /\ (t.waiting => t.todo # <<>>)

\* At most one tail works for a node: none is ever superseded.
OneTailEach(ts) == \A s, t \in ts : s.owner = t.owner => s = t

\* A guard is held by a call or, after the answer, by the tail.
Guarded(owners, nodeGuards, childrenGuards, nodes, children) ==
    /\ owners \subseteq childrenGuards
    /\ \A n \in Nodes :
          /\ nodes[n] = IF n \in nodeGuards THEN 1 ELSE 0
          /\ children[n] = IF n \in childrenGuards \ owners THEN 1 ELSE 0

GuardsOK ==
    Guarded(Owners(tails), node_fetch_in_flight, children_fetch_in_flight,
            nodeCalls, childrenCalls)

\* Models ms agree with snapshots; kids holds what a children fetch reported,
\* which a node fetch reports from the other end only.
Shown(ms, snapshots) ==
    \A n \in Nodes :
        /\ (ms[n].status = "good" /\ "node" \in ms[n].have) =>
              snapshots[n] = SnapshotOf(ms[n])
        /\ ms[n].refs \cap ms[n].kids = {}
        /\ \A e \in ms[n].kids : e[1] = "child"

\* NodeWaitersAreServed of models ms, callers asking, calls of nodes and a channel
\* that is open or has queued.
Served(ms, asking, nodes, open, queued) ==
    \A n \in Nodes :
        \/ \A w \in asking[n] : "node" \notin w \/ "node" \in ms[n].have
        \/ nodes[n] > 0
        \/ ~open /\ "node" \in queued[n]

ListOK(list) ==
    list \in Seq(Nodes) /\ IsInjective(list) /\ Len(list) <= KeepAlive

QueueOK(queue) == queue \in [Nodes -> SUBSET MaxStatus]

CallsOK(nodeGuards, childrenGuards, nodes, children) ==
    /\ nodeGuards \subseteq Nodes /\ childrenGuards \subseteq Nodes
    /\ nodes \in [Nodes -> Nat] /\ children \in [Nodes -> Nat]

\* The types of what is neither a model nor a tail.
RestOK ==
    /\ ListOK(keep_alive_list)
    /\ channel_opened \in BOOLEAN
    /\ QueueOK(pending_fetch_nodes)
    /\ CallsOK(node_fetch_in_flight, children_fetch_in_flight, nodeCalls, childrenCalls)
    /\ waiters \in [Nodes -> SUBSET SUBSET MaxStatus]
    /\ published \in [Nodes -> Snapshot]

ServiceInv ==
    /\ model \in [Nodes -> Model]
    /\ RestOK
    /\ TailsOK(tails) /\ OneTailEach(tails)
    /\ GuardsOK
    /\ Shown(model, published)
    /\ Served(model, waiters, nodeCalls, channel_opened, pending_fetch_nodes)

-----------------------------------------------------------------------------
(* The keep-alive list.                                                    *)

LEMMA RemoveAtShifts ==
  ASSUME NEW S, NEW s \in Seq(S), NEW i \in 1..Len(s)
  PROVE  /\ RemoveAt(s, i) \in Seq(S)
         /\ Len(RemoveAt(s, i)) = Len(s) - 1
         /\ \A j \in 1..i - 1 : RemoveAt(s, i)[j] = s[j]
         /\ \A j \in i..Len(s) - 1 : RemoveAt(s, i)[j] = s[j + 1]
<1> DEFINE a == SubSeq(s, 1, i - 1)
           b == SubSeq(s, i + 1, Len(s))
<1>1. /\ a \in Seq(S) /\ Len(a) = i - 1
      /\ \A j \in 1..i - 1 : a[j] = s[j]
  BY SubSeqProperties, i - 1 <= Len(s)
<1>2. /\ b \in Seq(S) /\ Len(b) = Len(s) - i
      /\ \A j \in 1..Len(s) - i : b[j] = s[i + j]
  BY SubSeqProperties, i + 1 <= Len(s) + 1
<1>3. RemoveAt(s, i) = a \o b
  BY DEF RemoveAt
<1> HIDE DEF a, b
<1>4. /\ a \o b \in Seq(S) /\ Len(a \o b) = Len(a) + Len(b)
      /\ \A j \in 1..Len(a) + Len(b) :
            (a \o b)[j] = IF j <= Len(a) THEN a[j] ELSE b[j - Len(a)]
  BY <1>1, <1>2, ConcatProperties
<1>5. Len(s) \in Nat /\ i \in Nat /\ i >= 1 /\ i <= Len(s)
  BY LenProperties
<1>6. \A j \in 1..i - 1 : (a \o b)[j] = s[j]
  BY <1>1, <1>2, <1>4, <1>5
<1>7. ASSUME NEW j \in i..Len(s) - 1 PROVE (a \o b)[j] = s[j + 1]
  <2>1. (a \o b)[j] = b[j - (i - 1)]
    BY <1>1, <1>2, <1>4, <1>5
  <2>2. b[j - (i - 1)] = s[i + (j - (i - 1))]
    BY <1>2, <1>5
  <2>3. i + (j - (i - 1)) = j + 1
    BY <1>5
  <2>4. QED
    BY <2>1, <2>2, <2>3
<1>8. QED
  BY <1>1, <1>2, <1>3, <1>4, <1>5, <1>6, <1>7

LEMMA WithoutRemoves ==
  ASSUME NEW S, NEW s \in Seq(S), IsInjective(s), NEW n
  PROVE  /\ Without(s, n) \in Seq(S)
         /\ ToSet(Without(s, n)) = ToSet(s) \ {n}
         /\ IsInjective(Without(s, n))
         /\ Len(Without(s, n)) <= Len(s)
<1> DEFINE i == CHOOSE k \in 1..Len(s) : s[k] = n
           w == RemoveAt(s, i)
<1>1. CASE n \notin ToSet(s)
  BY <1>1 DEF Without
<1>2. CASE n \in ToSet(s)
  <2>1. PICK m \in 1..Len(s) : s[m] = n
    BY <1>2 DEF ToSet
  <2>2. i \in 1..Len(s) /\ s[i] = n
    BY <2>1
  <2>3. Without(s, n) = w
    BY <1>2 DEF Without
  <2> HIDE DEF i
  <2>4. /\ w \in Seq(S)
        /\ Len(w) = Len(s) - 1
        /\ \A j \in 1..i - 1 : w[j] = s[j]
        /\ \A j \in i..Len(s) - 1 : w[j] = s[j + 1]
    BY <2>2, RemoveAtShifts
  <2> HIDE DEF w
  <2>5. ToSet(w) = ToSet(s) \ {n}
    <3>1. ASSUME NEW x \in ToSet(w) PROVE x \in ToSet(s) \ {n}
      BY <2>2, <2>4 DEF ToSet, IsInjective
    <3>2. ASSUME NEW x \in ToSet(s) \ {n} PROVE x \in ToSet(w)
      <4>1. PICK j \in 1..Len(s) : s[j] = x
        BY DEF ToSet
      <4>2. CASE j < i
        BY <4>1, <4>2, <2>2, <2>4 DEF ToSet
      <4>3. CASE j > i
        <5>1. j - 1 \in DOMAIN w /\ w[j - 1] = x
          BY <4>1, <4>3, <2>2, <2>4
        <5>2. QED
          BY <5>1, Zenon DEF ToSet
      <4>4. QED
        BY <4>1, <4>2, <4>3, <2>2
    <3>3. QED
      BY <3>1, <3>2
  <2>6. IsInjective(w)
    <3> SUFFICES ASSUME NEW j \in 1..Len(w), NEW k \in 1..Len(w), w[j] = w[k]
                 PROVE  j = k
      BY <2>4 DEF IsInjective
    <3> DEFINE from(x) == IF x < i THEN x ELSE x + 1
    <3>1. \A x \in 1..Len(s), y \in 1..Len(s) : s[x] = s[y] => x = y
      BY DEF IsInjective
    <3>2. \A x \in 1..Len(w) : from(x) \in 1..Len(s) /\ w[x] = s[from(x)]
      <4>1. ASSUME NEW x \in 1..Len(w), x < i
            PROVE  from(x) \in 1..Len(s) /\ w[x] = s[from(x)]
        <5>1. x \in 1..i - 1 /\ x \in 1..Len(s)
          BY <2>2, <2>4, <4>1
        <5>2. w[x] = s[x]
          BY <2>4, <5>1
        <5>3. from(x) = x
          BY <4>1
        <5>4. QED
          BY <5>1, <5>2, <5>3
      <4>2. ASSUME NEW x \in 1..Len(w), ~(x < i)
            PROVE  from(x) \in 1..Len(s) /\ w[x] = s[from(x)]
        <5>1. x \in i..Len(s) - 1 /\ x + 1 \in 1..Len(s)
          BY <2>2, <2>4, <4>2
        <5>2. w[x] = s[x + 1]
          BY <2>4, <5>1
        <5>3. from(x) = x + 1
          BY <4>2
        <5>4. QED
          BY <5>1, <5>2, <5>3
      <4>3. QED
        BY <4>1, <4>2
    <3>3. from(j) = from(k)
      BY <3>1, <3>2
    <3>4. QED
      BY <2>2, <2>4, <3>3
  <2>7. QED
    BY <2>3, <2>4, <2>5, <2>6
<1>3. QED
  BY <1>1, <1>2

LEMMA TouchKeepsList ==
  ASSUME ListOK(keep_alive_list), NEW n \in Nodes
  PROVE  ListOK(Touch(n))
<1> DEFINE w == Without(keep_alive_list, n)
           list == <<n>> \o w
           len == IF Len(list) > KeepAlive THEN KeepAlive ELSE Len(list)
<1>1. /\ w \in Seq(Nodes) /\ IsInjective(w) /\ n \notin ToSet(w)
      /\ Len(w) \in Nat
  BY WithoutRemoves, LenProperties DEF ListOK
<1> HIDE DEF w
<1>2. /\ <<n>> \in Seq(Nodes) /\ Len(<<n>>) = 1 /\ <<n>>[1] = n
  OBVIOUS
<1>3. /\ list \in Seq(Nodes) /\ Len(list) = 1 + Len(w)
      /\ \A j \in 1..1 + Len(w) : list[j] = IF j <= 1 THEN <<n>>[j] ELSE w[j - 1]
  BY <1>1, <1>2, ConcatProperties
<1>4. IsInjective(list)
  <2> SUFFICES ASSUME NEW j \in 1..Len(list), NEW k \in 1..Len(list),
                      list[j] = list[k]
               PROVE  j = k
    BY <1>3 DEF IsInjective
  <2>1. \A x \in 1..Len(w) : w[x] # n
    BY <1>1 DEF ToSet
  <2>2. \A x, y \in 1..Len(w) : w[x] = w[y] => x = y
    BY <1>1 DEF IsInjective
  <2>3. QED
    BY <1>1, <1>2, <1>3, <2>1, <2>2
<1> HIDE DEF list
<1>5. len \in Nat /\ len <= Len(list) /\ len <= KeepAlive
  BY <1>1, <1>3, GraphAssumption
<1> HIDE DEF len
<1>6. /\ SubSeq(list, 1, len) \in Seq(Nodes)
      /\ Len(SubSeq(list, 1, len)) = len
      /\ \A i \in 1..len : SubSeq(list, 1, len)[i] = list[i]
  BY <1>3, <1>5, SubSeqProperties
<1>7. IsInjective(SubSeq(list, 1, len))
  <2>1. \A x, y \in 1..Len(list) : list[x] = list[y] => x = y
    BY <1>3, <1>4 DEF IsInjective
  <2>2. QED
    BY <1>3, <1>5, <1>6, <2>1 DEF IsInjective
<1>8. Touch(n) = SubSeq(list, 1, len)
  BY DEF Touch, list, len, w
<1>9. QED
  BY <1>5, <1>6, <1>7, <1>8 DEF ListOK

-----------------------------------------------------------------------------
(* What a step leaves.                                                     *)

LEMMA AbsentIsAModel == Absent \in Model
BY DEF Absent, Model

LEMMA LeaveEffect ==
  ASSUME NEW ms \in [Nodes -> Model], NEW ts, TailsOK(ts), OneTailEach(ts),
         Leave(ms, ts)
  PROVE  /\ model' \in [Nodes -> Model]
         /\ \A n \in Nodes : model'[n] = ms[n] \/ model'[n] = Absent
         /\ \A n \in Nodes : waiters'[n] # {} => model'[n] = ms[n]
         /\ TailsOK(tails') /\ OneTailEach(tails') /\ Owners(tails') = Owners(ts)
<1> DEFINE after(x) == [x EXCEPT !.live = x.live /\ Held(x.owner, ts)]
<1>1. /\ model' = [n \in Nodes |-> IF Held(n, ts) THEN ms[n] ELSE Absent]
      /\ tails' = {after(x) : x \in ts}
  BY DEF Leave
<1>2. /\ model' \in [Nodes -> Model]
      /\ \A n \in Nodes : model'[n] = ms[n] \/ model'[n] = Absent
  BY <1>1, AbsentIsAModel
<1>3. \A n \in Nodes : waiters'[n] # {} => model'[n] = ms[n]
  BY <1>1 DEF Held
<1>4. ASSUME NEW x \in ts
      PROVE  /\ after(x) \in TypeOfTail /\ after(x).owner = x.owner
             /\ after(x).waiting = x.waiting /\ after(x).todo = x.todo
  <2>1. x \in TypeOfTail
    BY DEF TailsOK
  <2>2. (x.live /\ Held(x.owner, ts)) \in BOOLEAN
    OBVIOUS
  <2>3. QED
    BY <2>1, <2>2 DEF TypeOfTail
<1> HIDE DEF after
<1>5. TailsOK(tails')
  BY <1>1, <1>4 DEF TailsOK
<1>6. OneTailEach(tails')
  BY <1>1, <1>4 DEF OneTailEach
<1>7. Owners(tails') = Owners(ts)
  BY <1>1, <1>4 DEF Owners
<1>8. QED
  BY <1>2, <1>3, <1>5, <1>6, <1>7

\* To show the invariant of a step it is enough to show it of the models and
\* tails it leaves, before those that nothing holds are gone.
LEMMA LeaveKeepsInv ==
  ASSUME NEW ms \in [Nodes -> Model], NEW ts, TailsOK(ts), OneTailEach(ts),
         Leave(ms, ts), RestOK',
         Guarded(Owners(ts), node_fetch_in_flight', children_fetch_in_flight',
                 nodeCalls', childrenCalls'),
         Shown(ms, published'),
         Served(ms, waiters', nodeCalls', channel_opened', pending_fetch_nodes')
  PROVE  ServiceInv'
<1>1. /\ model' \in [Nodes -> Model]
      /\ \A n \in Nodes : model'[n] = ms[n] \/ model'[n] = Absent
      /\ \A n \in Nodes : waiters'[n] # {} => model'[n] = ms[n]
      /\ TailsOK(tails') /\ OneTailEach(tails') /\ Owners(tails') = Owners(ts)
  BY LeaveEffect
<1>2. GuardsOK'
  BY <1>1 DEF GuardsOK
<1>3. Shown(model', published')
  BY <1>1 DEF Shown, Absent
<1>4. Served(model', waiters', nodeCalls', channel_opened', pending_fetch_nodes')
  BY <1>1 DEF Served
<1>5. QED
  BY <1>1, <1>2, <1>3, <1>4 DEF ServiceInv

-----------------------------------------------------------------------------
(* Requests.                                                               *)

LEMMA SpawnFetchKeeps ==
  ASSUME NEW asks \in [Nodes -> SUBSET MaxStatus], NEW owners,
         CallsOK(node_fetch_in_flight, children_fetch_in_flight, nodeCalls, childrenCalls),
         Guarded(owners, node_fetch_in_flight, children_fetch_in_flight,
                 nodeCalls, childrenCalls),
         SpawnFetch(asks)
  PROVE  /\ CallsOK(node_fetch_in_flight', children_fetch_in_flight',
                    nodeCalls', childrenCalls')
         /\ Guarded(owners, node_fetch_in_flight', children_fetch_in_flight',
                    nodeCalls', childrenCalls')
         /\ \A n \in Nodes : "node" \in asks[n] => nodeCalls'[n] > 0
         /\ \A n \in Nodes : nodeCalls[n] > 0 => nodeCalls'[n] > 0
<1> DEFINE one == {n \in Nodes : "node" \in asks[n]} \ node_fetch_in_flight
           all == {n \in Nodes : "children" \in asks[n]} \ children_fetch_in_flight
<1>1. /\ node_fetch_in_flight' = node_fetch_in_flight \cup one
      /\ children_fetch_in_flight' = children_fetch_in_flight \cup all
      /\ nodeCalls' = [n \in Nodes |-> nodeCalls[n] + (IF n \in one THEN 1 ELSE 0)]
      /\ childrenCalls' = [n \in Nodes |-> childrenCalls[n] + (IF n \in all THEN 1 ELSE 0)]
  BY DEF SpawnFetch
<1>2. CallsOK(node_fetch_in_flight', children_fetch_in_flight', nodeCalls', childrenCalls')
  BY <1>1 DEF CallsOK
<1>3. owners \subseteq children_fetch_in_flight'
  BY <1>1 DEF Guarded
<1>4. \A n \in Nodes : nodeCalls'[n] = IF n \in node_fetch_in_flight' THEN 1 ELSE 0
  BY <1>1 DEF Guarded, CallsOK
<1>5. \A n \in Nodes :
        childrenCalls'[n] = IF n \in children_fetch_in_flight' \ owners THEN 1 ELSE 0
  BY <1>1 DEF Guarded, CallsOK
<1>6. \A n \in Nodes : "node" \in asks[n] => nodeCalls'[n] > 0
  BY <1>1, <1>4
<1>7. \A n \in Nodes : nodeCalls[n] > 0 => nodeCalls'[n] > 0
  BY <1>1 DEF CallsOK
<1>8. QED
  BY <1>2, <1>3, <1>4, <1>5, <1>6, <1>7 DEF Guarded

LEMMA RequestedKeeps ==
  ASSUME model \in [Nodes -> Model], Shown(model, published),
         NEW n \in Nodes, NEW wants \in SUBSET SUBSET MaxStatus
  PROVE  /\ Requested(n, wants) \in [Nodes -> Model]
         /\ Shown(Requested(n, wants), published)
         /\ \A k \in Nodes : Requested(n, wants)[k].have = model[k].have
<1> DEFINE missing == {w \in wants : ~(w \subseteq GetNodeModel(n).have)}
           found == GetNodeModel(n)
           asked == [found EXCEPT !.asked = @ \cup UNION missing]
<1>1. /\ found \in Model /\ found.have = model[n].have
      /\ found.refs = model[n].refs /\ found.kids = model[n].kids
      /\ "node" \in found.have => found.status = model[n].status
  BY DEF GetNodeModel, Resident, Fresh, Absent, Model
<1>2. UNION missing \subseteq MaxStatus
  OBVIOUS
<1>3. Requested(n, wants) = [model EXCEPT ![n] = asked]
  BY DEF Requested
<1> HIDE DEF found, missing
<1>4. /\ asked \in Model /\ asked.have = found.have /\ asked.status = found.status
      /\ asked.refs = found.refs /\ asked.kids = found.kids
  BY <1>1, <1>2 DEF Model
<1> HIDE DEF asked
<1>5. Requested(n, wants) \in [Nodes -> Model]
  BY <1>3, <1>4
<1>6. \A k \in Nodes : Requested(n, wants)[k].have = model[k].have
  BY <1>1, <1>3, <1>4
<1>7. Shown(Requested(n, wants), published)
  BY <1>1, <1>3, <1>4 DEF Shown, SnapshotOf
<1>8. QED
  BY <1>5, <1>6, <1>7

LEMMA RequestKeeps ==
  ASSUME RestOK, model \in [Nodes -> Model], NEW owners,
         Guarded(owners, node_fetch_in_flight, children_fetch_in_flight,
                 nodeCalls, childrenCalls),
         NEW n \in Nodes, NEW wants \in SUBSET SUBSET MaxStatus, Request(n, wants)
  PROVE  /\ ListOK(keep_alive_list')
         /\ QueueOK(pending_fetch_nodes')
         /\ CallsOK(node_fetch_in_flight', children_fetch_in_flight',
                    nodeCalls', childrenCalls')
         /\ Guarded(owners, node_fetch_in_flight', children_fetch_in_flight',
                    nodeCalls', childrenCalls')
         /\ \A k \in Nodes : nodeCalls[k] > 0 => nodeCalls'[k] > 0
         /\ \A k \in Nodes : ~channel_opened /\ "node" \in pending_fetch_nodes[k]
                               => "node" \in pending_fetch_nodes'[k]
         /\ \A w \in wants : "node" \in w /\ "node" \notin model[n].have
               => nodeCalls'[n] > 0 \/ (~channel_opened /\ "node" \in pending_fetch_nodes'[n])
<1> DEFINE missing == {w \in wants : ~(w \subseteq GetNodeModel(n).have)}
           asked == GetNodeModel(n).asked \cup UNION missing
           asks == [m \in Nodes |-> IF m = n THEN asked ELSE {}]
<1> USE DEF RestOK
<1>1. ListOK(keep_alive_list')
  BY TouchKeepsList DEF Request
<1>2. GetNodeModel(n) \in Model /\ GetNodeModel(n).have = model[n].have
  BY DEF GetNodeModel, Resident, Fresh, Absent, Model
<1>3. asked \subseteq MaxStatus
  BY <1>2 DEF Model
<1>4. asks \in [Nodes -> SUBSET MaxStatus] /\ asks[n] = asked
  BY <1>3
<1>5. \A w \in wants : "node" \in w /\ "node" \notin model[n].have
        => missing # {} /\ "node" \in asked
  BY <1>2
<1>6. \/ missing = {} /\ UNCHANGED <<pending_fetch_nodes, callVars>>
      \/ missing # {} /\ OnFetchNode(n, asked)
  BY DEF Request
<1> HIDE DEF missing, asked, asks
<1>7. CASE missing = {} /\ UNCHANGED <<pending_fetch_nodes, callVars>>
  BY <1>1, <1>5, <1>7 DEF callVars
<1>8. CASE missing # {} /\ OnFetchNode(n, asked)
  <2>1. CASE channel_opened
    <3>1. SpawnFetch(asks) /\ UNCHANGED pending_fetch_nodes
      BY <1>8, <2>1 DEF OnFetchNode, asks
    <3>2. /\ CallsOK(node_fetch_in_flight', children_fetch_in_flight',
                     nodeCalls', childrenCalls')
          /\ Guarded(owners, node_fetch_in_flight', children_fetch_in_flight',
                     nodeCalls', childrenCalls')
          /\ \A k \in Nodes : "node" \in asks[k] => nodeCalls'[k] > 0
          /\ \A k \in Nodes : nodeCalls[k] > 0 => nodeCalls'[k] > 0
      BY <1>4, <3>1, SpawnFetchKeeps
    <3>3. QED
      BY <1>1, <1>4, <1>5, <2>1, <3>1, <3>2
  <2>2. CASE ~channel_opened
    <3>1. /\ pending_fetch_nodes' = [pending_fetch_nodes EXCEPT ![n] = @ \cup asked]
          /\ UNCHANGED callVars
      BY <1>8, <2>2 DEF OnFetchNode
    <3>2. QED
      BY <1>1, <1>3, <1>5, <2>2, <3>1 DEF QueueOK, callVars
  <2>3. QED
    BY <2>1, <2>2
<1>9. QED
  BY <1>6, <1>7, <1>8

\* A step that only requests keeps the invariant, whichever tails it leaves for
\* the same nodes.
LEMMA RequestKeepsInv ==
  ASSUME ServiceInv, NEW n \in Nodes, NEW wants \in SUBSET SUBSET MaxStatus,
         Request(n, wants), UNCHANGED <<channel_opened, published>>,
         NEW ts, TailsOK(ts), OneTailEach(ts), Owners(ts) = Owners(tails),
         Leave(Requested(n, wants), ts),
         waiters' \in [Nodes -> SUBSET SUBSET MaxStatus],
         \A k \in Nodes : \A w \in waiters'[k] : w \in waiters[k] \/ (k = n /\ w \in wants)
  PROVE  ServiceInv'
<1> DEFINE ms == Requested(n, wants)
<1>1. /\ ms \in [Nodes -> Model] /\ Shown(ms, published)
      /\ \A k \in Nodes : ms[k].have = model[k].have
  BY RequestedKeeps DEF ServiceInv
<1> HIDE DEF ms
<1>2. /\ ListOK(keep_alive_list')
      /\ QueueOK(pending_fetch_nodes')
      /\ CallsOK(node_fetch_in_flight', children_fetch_in_flight',
                 nodeCalls', childrenCalls')
      /\ Guarded(Owners(ts), node_fetch_in_flight', children_fetch_in_flight',
                 nodeCalls', childrenCalls')
      /\ \A k \in Nodes : nodeCalls[k] > 0 => nodeCalls'[k] > 0
      /\ \A k \in Nodes : ~channel_opened /\ "node" \in pending_fetch_nodes[k]
                            => "node" \in pending_fetch_nodes'[k]
      /\ \A w \in wants : "node" \in w /\ "node" \notin model[n].have
            => nodeCalls'[n] > 0 \/ (~channel_opened /\ "node" \in pending_fetch_nodes'[n])
  BY RequestKeeps DEF ServiceInv, GuardsOK
<1>3. RestOK'
  BY <1>2 DEF ServiceInv, RestOK
<1>4. Served(ms, waiters', nodeCalls', channel_opened', pending_fetch_nodes')
  <2> SUFFICES ASSUME NEW k \in Nodes, NEW w \in waiters'[k],
                      "node" \in w, "node" \notin ms[k].have
               PROVE  nodeCalls'[k] > 0 \/ (~channel_opened /\ "node" \in pending_fetch_nodes'[k])
    BY DEF Served
  <2>1. CASE w \in waiters[k]
    <3>1. nodeCalls[k] > 0 \/ (~channel_opened /\ "node" \in pending_fetch_nodes[k])
      BY <1>1, <2>1 DEF ServiceInv, Served
    <3>2. QED
      BY <1>2, <3>1
  <2>2. CASE k = n /\ w \in wants
    BY <1>1, <1>2, <2>2
  <2>3. QED
    BY <2>1, <2>2
<1>5. Shown(ms, published')
  BY <1>1
<1>6. QED
  BY <1>1, <1>2, <1>3, <1>4, <1>5, LeaveKeepsInv DEF ms

LEMMA StartFetchKeepsInv ==
  ASSUME ServiceInv, NEW n \in Nodes, NEW want \in Wants[n], StartFetch(n, want)
  PROVE  ServiceInv'
<1>1. {want} \in SUBSET SUBSET MaxStatus
  BY GraphAssumption
<1>2. /\ Request(n, {want}) /\ UNCHANGED <<channel_opened, waiters, published>>
      /\ Leave(Requested(n, {want}), tails)
  BY DEF StartFetch
<1>3. /\ waiters' \in [Nodes -> SUBSET SUBSET MaxStatus]
      /\ \A k \in Nodes : \A w \in waiters'[k] : w \in waiters[k]
      /\ TailsOK(tails) /\ OneTailEach(tails)
  BY <1>2 DEF ServiceInv, RestOK
<1>4. QED
  BY <1>1, <1>2, <1>3, RequestKeepsInv

LEMMA FetchKeepsInv ==
  ASSUME ServiceInv, NEW n \in Nodes, NEW want \in Wants[n], Fetch(n, want)
  PROVE  ServiceInv'
<1> DEFINE wants == {{"node"}, want}
<1>1. wants \in SUBSET SUBSET MaxStatus /\ want \in wants
  BY GraphAssumption DEF MaxStatus
<1>2. /\ Request(n, wants) /\ UNCHANGED <<channel_opened, published>>
      /\ \/ waiters' = waiters
         \/ waiters' = [waiters EXCEPT ![n] = @ \cup {want}]
      /\ Leave(Requested(n, wants), tails)
  BY DEF Fetch
<1> HIDE DEF wants
<1>3. /\ waiters' \in [Nodes -> SUBSET SUBSET MaxStatus]
      /\ \A k \in Nodes : \A w \in waiters'[k] : w \in waiters[k] \/ (k = n /\ w \in wants)
      /\ TailsOK(tails) /\ OneTailEach(tails)
  BY <1>1, <1>2 DEF ServiceInv, RestOK
<1>4. QED
  BY <1>1, <1>2, <1>3, RequestKeepsInv

-----------------------------------------------------------------------------
(* Answers.                                                                *)

LEMMA ResumedKeeps ==
  ASSUME TailsOK(tails), OneTailEach(tails), NEW n \in Nodes, NEW have
  PROVE  /\ TailsOK(Resumed(n, have)) /\ OneTailEach(Resumed(n, have))
         /\ Owners(Resumed(n, have)) = Owners(tails)
         /\ \A t \in tails : ~t.waiting => t \in Resumed(n, have)
<1> DEFINE after(x) == IF x.waiting /\ Head(x.todo) = n /\ "node" \in have
                       THEN [x EXCEPT !.waiting = FALSE, !.todo = Tail(@)] ELSE x
<1>1. Resumed(n, have) = {after(x) : x \in tails}
  BY DEF Resumed
<1>2. ASSUME NEW x \in tails
      PROVE  /\ after(x) \in TypeOfTail /\ after(x).owner = x.owner
             /\ after(x).waiting => after(x).todo # <<>>
             /\ ~x.waiting => after(x) = x
  <2>1. x \in TypeOfTail /\ (x.waiting => x.todo # <<>>)
    BY DEF TailsOK
  <2>2. x.waiting => Tail(x.todo) \in Seq(Nodes)
    BY <2>1, HeadTailProperties DEF TypeOfTail
  <2>3. QED
    BY <2>1, <2>2 DEF TypeOfTail
<1> HIDE DEF after
<1>3. TailsOK(Resumed(n, have))
  BY <1>1, <1>2 DEF TailsOK
<1>4. OneTailEach(Resumed(n, have))
  BY <1>1, <1>2 DEF OneTailEach
<1>5. Owners(Resumed(n, have)) = Owners(tails)
  BY <1>1, <1>2 DEF Owners
<1>6. \A t \in tails : ~t.waiting => t \in Resumed(n, have)
  BY <1>1, <1>2
<1>7. QED
  BY <1>3, <1>4, <1>5, <1>6

\* Whoever is left waiting for n after NotifyCallbacks waits for what have lacks.
LEMMA NotifyKeepsServed ==
  ASSUME ServiceInv, NEW n \in Nodes, NEW ms \in [Nodes -> Model],
         \A k \in Nodes : model[k].have \subseteq ms[k].have,
         "node" \in ms[n].have,
         NotifyCallbacks(n, ms[n].have), UNCHANGED <<channel_opened, pending_fetch_nodes>>,
         NEW nodes, \A k \in Nodes \ {n} : nodes[k] = nodeCalls[k]
  PROVE  /\ waiters' \in [Nodes -> SUBSET SUBSET MaxStatus]
         /\ Served(ms, waiters', nodes, channel_opened', pending_fetch_nodes')
<1>1. waiters' = [waiters EXCEPT ![n] = {w \in @ : ~(w \subseteq ms[n].have)}]
  BY DEF NotifyCallbacks
<1>2. waiters' \in [Nodes -> SUBSET SUBSET MaxStatus]
  BY <1>1 DEF ServiceInv, RestOK
<1>3. \A k \in Nodes : waiters'[k] \subseteq waiters[k]
  BY <1>1 DEF ServiceInv, RestOK
<1>4. QED
  BY <1>2, <1>3 DEF ServiceInv, Served

\* The node guard goes with its call.
LEMMA NodeCallEnds ==
  ASSUME ServiceInv, NEW n \in Nodes, nodeCalls[n] > 0,
         nodeCalls' = [nodeCalls EXCEPT ![n] = @ - 1],
         node_fetch_in_flight' = node_fetch_in_flight \ {n},
         UNCHANGED <<children_fetch_in_flight, childrenCalls>>
  PROVE  /\ CallsOK(node_fetch_in_flight', children_fetch_in_flight',
                    nodeCalls', childrenCalls')
         /\ Guarded(Owners(tails), node_fetch_in_flight', children_fetch_in_flight',
                    nodeCalls', childrenCalls')
         /\ \A k \in Nodes \ {n} : nodeCalls'[k] = nodeCalls[k]
BY DEF ServiceInv, RestOK, CallsOK, GuardsOK, Guarded

LEMMA FetchedReferencesAreEdges ==
  ASSUME NEW n \in Nodes
  PROVE  /\ FetchedReferences(n) \in SUBSET Edge
         /\ \A e \in FetchedReferences(n) : e[1] # "child"
BY GraphAssumption DEF FetchedReferences, Edge

LEMMA MirrorsAreEdges ==
  ASSUME NEW n \in Nodes, NEW m \in Nodes
  PROVE  {<<MirrorRole[e[1]], n>> : e \in {x \in FetchedReferences(n) : x[2] = m}} \in SUBSET Edge
<1>1. ASSUME NEW e \in FetchedReferences(n)
      PROVE  <<MirrorRole[e[1]], n>> \in Edge
  <2>1. e[1] \in {"refers", "parent"}
    BY DEF FetchedReferences
  <2>2. MirrorRole[e[1]] \in {"parent", "child", "refers", "referred"}
    BY <2>1 DEF MirrorRole
  <2>3. QED
    BY <2>2 DEF Edge
<1>2. QED
  BY <1>1

LEMMA OnFetchedKeeps ==
  ASSUME model \in [Nodes -> Model], Shown(model, published), NEW n \in Nodes
  PROVE  /\ OnFetched(n) \in [Nodes -> Model]
         /\ "node" \in OnFetched(n)[n].have
         /\ \A k \in Nodes :
               /\ model[k].have \subseteq OnFetched(n)[k].have
               /\ OnFetched(n)[k].refs \cap OnFetched(n)[k].kids = {}
               /\ \A e \in OnFetched(n)[k].kids : e[1] = "child"
<1> DEFINE mirrors(m) ==
             {<<MirrorRole[e[1]], n>> : e \in {x \in FetchedReferences(n) : x[2] = m}}
           self == [model[n] EXCEPT !.refs = FetchedReferences(n), !.status = "good",
                                    !.have = @ \cup {"node"}, !.asked = @ \cup {"node"}]
           other(m) == [model[m] EXCEPT !.refs = @ \cup (mirrors(m) \ model[m].kids)]
<1>1. \A m \in Nodes : mirrors(m) \in SUBSET Edge
  BY MirrorsAreEdges
<1>2. OnFetched(n) = [m \in Nodes |-> IF m = n THEN self
                                      ELSE IF Resident(m) THEN other(m) ELSE model[m]]
  BY DEF OnFetched
<1> HIDE DEF mirrors
<1>3. /\ self \in Model /\ self.have = model[n].have \cup {"node"}
      /\ self.refs = FetchedReferences(n) /\ self.kids = model[n].kids
  BY FetchedReferencesAreEdges DEF Model, MaxStatus
<1>4. \A m \in Nodes : /\ other(m) \in Model /\ other(m).have = model[m].have
                       /\ other(m).refs = model[m].refs \cup (mirrors(m) \ model[m].kids)
                       /\ other(m).kids = model[m].kids
  BY <1>1 DEF Model
<1> HIDE DEF self, other
<1>5. OnFetched(n) \in [Nodes -> Model]
  BY <1>2, <1>3, <1>4
<1>6. "node" \in OnFetched(n)[n].have
  BY <1>2, <1>3
<1>7. ASSUME NEW k \in Nodes
      PROVE  /\ model[k].have \subseteq OnFetched(n)[k].have
             /\ OnFetched(n)[k].refs \cap OnFetched(n)[k].kids = {}
             /\ \A e \in OnFetched(n)[k].kids : e[1] = "child"
  <2>1. model[k].refs \cap model[k].kids = {} /\ \A e \in model[k].kids : e[1] = "child"
    BY DEF Shown
  <2>2. CASE k = n
    BY <1>2, <1>3, <2>1, <2>2, FetchedReferencesAreEdges
  <2>3. CASE k # n /\ Resident(k)
    BY <1>2, <1>4, <2>1, <2>3
  <2>4. CASE k # n /\ ~Resident(k)
    BY <1>2, <2>1, <2>4
  <2>5. QED
    BY <2>2, <2>3, <2>4
<1>8. QED
  BY <1>5, <1>6, <1>7

LEMMA NodeFetchedKeepsInv ==
  ASSUME ServiceInv, NEW n \in Nodes, NodeFetched(n)
  PROVE  ServiceInv'
<1> DEFINE m == OnFetched(n)
<1>1. /\ nodeCalls[n] > 0
      /\ nodeCalls' = [nodeCalls EXCEPT ![n] = @ - 1]
      /\ node_fetch_in_flight' = node_fetch_in_flight \ {n}
      /\ published' = [x \in Nodes |->
                         IF x = n \/ (m[x] # model[x] /\ "node" \in m[x].have)
                         THEN SnapshotOf(m[x]) ELSE published[x]]
      /\ NotifyCallbacks(n, m[n].have)
      /\ UNCHANGED <<keep_alive_list, channel_opened, pending_fetch_nodes,
                     children_fetch_in_flight, childrenCalls>>
      /\ Leave(m, Resumed(n, m[n].have))
  BY DEF NodeFetched
<1>2. /\ m \in [Nodes -> Model]
      /\ "node" \in m[n].have
      /\ \A k \in Nodes : /\ model[k].have \subseteq m[k].have
                          /\ m[k].refs \cap m[k].kids = {}
                          /\ \A e \in m[k].kids : e[1] = "child"
  BY OnFetchedKeeps DEF ServiceInv
<1> HIDE DEF m
<1>3. /\ CallsOK(node_fetch_in_flight', children_fetch_in_flight',
                 nodeCalls', childrenCalls')
      /\ Guarded(Owners(tails), node_fetch_in_flight', children_fetch_in_flight',
                 nodeCalls', childrenCalls')
      /\ \A k \in Nodes \ {n} : nodeCalls'[k] = nodeCalls[k]
  BY <1>1, NodeCallEnds
<1>4. /\ waiters' \in [Nodes -> SUBSET SUBSET MaxStatus]
      /\ Served(m, waiters', nodeCalls', channel_opened', pending_fetch_nodes')
  BY <1>1, <1>2, <1>3, NotifyKeepsServed
<1>5. /\ TailsOK(Resumed(n, m[n].have)) /\ OneTailEach(Resumed(n, m[n].have))
      /\ Owners(Resumed(n, m[n].have)) = Owners(tails)
  BY ResumedKeeps DEF ServiceInv
<1>6. \A k \in Nodes : SnapshotOf(m[k]) \in Snapshot
  BY <1>2 DEF SnapshotOf, Snapshot, Model
<1>7. published' \in [Nodes -> Snapshot]
  BY <1>1, <1>6 DEF ServiceInv, RestOK
<1>8. Shown(m, published')
  BY <1>1, <1>2 DEF ServiceInv, Shown
<1>9. RestOK'
  BY <1>1, <1>3, <1>4, <1>7 DEF ServiceInv, RestOK, ListOK, QueueOK
<1>10. QED
  BY <1>1, <1>2, <1>3, <1>4, <1>5, <1>8, <1>9, LeaveKeepsInv

LEMMA OnFetchErrorKeeps ==
  ASSUME model \in [Nodes -> Model], Shown(model, published), NEW n \in Nodes
  PROVE  /\ OnFetchError(n) \in [Nodes -> Model]
         /\ Shown(OnFetchError(n), published)
         /\ "node" \in OnFetchError(n)[n].have
         /\ \A k \in Nodes : model[k].have \subseteq OnFetchError(n)[k].have
<1> DEFINE self == [model[n] EXCEPT !.status = "bad", !.have = MaxStatus, !.asked = MaxStatus]
<1>1. OnFetchError(n) = [model EXCEPT ![n] = self]
  BY DEF OnFetchError
<1>2. /\ self \in Model /\ self.have = MaxStatus /\ self.status = "bad"
      /\ self.refs = model[n].refs /\ self.kids = model[n].kids
      /\ model[n].have \subseteq MaxStatus
  BY DEF Model
<1> HIDE DEF self
<1>3. /\ OnFetchError(n) \in [Nodes -> Model]
      /\ \A k \in Nodes : OnFetchError(n)[k] = IF k = n THEN self ELSE model[k]
  BY <1>1, <1>2
<1>4. Shown(OnFetchError(n), published)
  BY <1>2, <1>3 DEF Shown
<1>5. QED
  BY <1>2, <1>3, <1>4 DEF MaxStatus

LEMMA NodeFetchFailsKeepsInv ==
  ASSUME ServiceInv, NEW n \in Nodes, NodeFetchFails(n)
  PROVE  ServiceInv'
<1> DEFINE m == OnFetchError(n)
<1>1. /\ nodeCalls[n] > 0
      /\ nodeCalls' = [nodeCalls EXCEPT ![n] = @ - 1]
      /\ node_fetch_in_flight' = node_fetch_in_flight \ {n}
      /\ NotifyCallbacks(n, m[n].have)
      /\ UNCHANGED <<keep_alive_list, channel_opened, pending_fetch_nodes,
                     children_fetch_in_flight, childrenCalls, published>>
      /\ Leave(m, Resumed(n, m[n].have))
  BY DEF NodeFetchFails
<1>2. /\ m \in [Nodes -> Model] /\ Shown(m, published) /\ "node" \in m[n].have
      /\ \A k \in Nodes : model[k].have \subseteq m[k].have
  BY OnFetchErrorKeeps DEF ServiceInv
<1> HIDE DEF m
<1>3. /\ CallsOK(node_fetch_in_flight', children_fetch_in_flight',
                 nodeCalls', childrenCalls')
      /\ Guarded(Owners(tails), node_fetch_in_flight', children_fetch_in_flight',
                 nodeCalls', childrenCalls')
      /\ \A k \in Nodes \ {n} : nodeCalls'[k] = nodeCalls[k]
  BY <1>1, NodeCallEnds
<1>4. /\ waiters' \in [Nodes -> SUBSET SUBSET MaxStatus]
      /\ Served(m, waiters', nodeCalls', channel_opened', pending_fetch_nodes')
  BY <1>1, <1>2, <1>3, NotifyKeepsServed
<1>5. /\ TailsOK(Resumed(n, m[n].have)) /\ OneTailEach(Resumed(n, m[n].have))
      /\ Owners(Resumed(n, m[n].have)) = Owners(tails)
  BY ResumedKeeps DEF ServiceInv
<1>6. RestOK'
  BY <1>1, <1>3, <1>4 DEF ServiceInv, RestOK, ListOK, QueueOK
<1>7. Shown(m, published')
  BY <1>1, <1>2
<1>8. QED
  BY <1>1, <1>2, <1>3, <1>4, <1>5, <1>6, <1>7, LeaveKeepsInv

LEMMA ChildrenFetchFailsKeepsInv ==
  ASSUME ServiceInv, NEW n \in Nodes, ChildrenFetchFails(n)
  PROVE  ServiceInv'
<1> DEFINE m == OnFetchError(n)
<1>1. /\ childrenCalls[n] > 0
      /\ childrenCalls' = [childrenCalls EXCEPT ![n] = @ - 1]
      /\ children_fetch_in_flight' = children_fetch_in_flight \ {n}
      /\ NotifyCallbacks(n, m[n].have)
      /\ UNCHANGED <<keep_alive_list, channel_opened, pending_fetch_nodes,
                     node_fetch_in_flight, nodeCalls, published>>
      /\ Leave(m, Resumed(n, m[n].have))
  BY DEF ChildrenFetchFails
<1>2. /\ m \in [Nodes -> Model] /\ Shown(m, published) /\ "node" \in m[n].have
      /\ \A k \in Nodes : model[k].have \subseteq m[k].have
  BY OnFetchErrorKeeps DEF ServiceInv
<1> HIDE DEF m
<1>3. /\ CallsOK(node_fetch_in_flight', children_fetch_in_flight',
                 nodeCalls', childrenCalls')
      /\ Guarded(Owners(tails), node_fetch_in_flight', children_fetch_in_flight',
                 nodeCalls', childrenCalls')
  BY <1>1 DEF ServiceInv, RestOK, CallsOK, GuardsOK, Guarded
<1>4. /\ waiters' \in [Nodes -> SUBSET SUBSET MaxStatus]
      /\ Served(m, waiters', nodeCalls', channel_opened', pending_fetch_nodes')
  BY <1>1, <1>2, NotifyKeepsServed
<1>5. /\ TailsOK(Resumed(n, m[n].have)) /\ OneTailEach(Resumed(n, m[n].have))
      /\ Owners(Resumed(n, m[n].have)) = Owners(tails)
  BY ResumedKeeps DEF ServiceInv
<1>6. RestOK'
  BY <1>1, <1>3, <1>4 DEF ServiceInv, RestOK, ListOK, QueueOK
<1>7. Shown(m, published')
  BY <1>1, <1>2
<1>8. QED
  BY <1>1, <1>2, <1>3, <1>4, <1>5, <1>6, <1>7, LeaveKeepsInv

-----------------------------------------------------------------------------
(* Tails.                                                                  *)

\* The guard passes from the call to the tail: with it held, no other tail of the
\* node exists that the new one could supersede.
LEMMA ChildrenFetchedKeepsInv ==
  ASSUME ServiceInv, NEW n \in Nodes, ChildrenFetched(n)
  PROVE  ServiceInv'
<1> DEFINE tail == [owner |-> n, todo |-> Targets[n], waiting |-> FALSE, live |-> TRUE]
           superseded == {x \in tails : x.owner = n}
           ts == (tails \ superseded) \cup {tail}
                    \cup {[x EXCEPT !.live = FALSE] : x \in superseded}
<1>1. /\ childrenCalls[n] > 0
      /\ childrenCalls' = [childrenCalls EXCEPT ![n] = @ - 1]
      /\ UNCHANGED <<keep_alive_list, channel_opened, pending_fetch_nodes,
                     node_fetch_in_flight, children_fetch_in_flight, nodeCalls,
                     waiters, published>>
      /\ Leave(model, ts)
  BY DEF ChildrenFetched
<1>2. childrenCalls[n] = 1 /\ n \in children_fetch_in_flight /\ n \notin Owners(tails)
  BY <1>1 DEF ServiceInv, GuardsOK, Guarded
<1>3. superseded = {}
  BY <1>2 DEF Owners
<1>4. ts = tails \cup {tail}
  BY <1>3
<1>5. /\ tail \in TypeOfTail /\ ~tail.waiting /\ tail.owner = n
  BY GraphAssumption DEF TypeOfTail
<1> HIDE DEF tail, ts
<1>6. TailsOK(ts)
  BY <1>4, <1>5 DEF TailsOK, ServiceInv
<1>7. OneTailEach(ts)
  BY <1>2, <1>4, <1>5 DEF OneTailEach, Owners, ServiceInv
<1>8. Owners(ts) = Owners(tails) \cup {n}
  BY <1>4, <1>5 DEF Owners
<1>9. Guarded(Owners(ts), node_fetch_in_flight', children_fetch_in_flight',
              nodeCalls', childrenCalls')
  BY <1>1, <1>2, <1>8 DEF ServiceInv, RestOK, CallsOK, GuardsOK, Guarded
<1>10. RestOK'
  BY <1>1 DEF ServiceInv, RestOK, ListOK, QueueOK, CallsOK
<1>11. /\ model \in [Nodes -> Model] /\ Shown(model, published')
       /\ Served(model, waiters', nodeCalls', channel_opened', pending_fetch_nodes')
  BY <1>1 DEF ServiceInv
<1>12. QED
  BY <1>1, <1>6, <1>7, <1>9, <1>10, <1>11, LeaveKeepsInv

LEMMA TailFetchesKeepsInv ==
  ASSUME ServiceInv, NEW t \in tails, TailFetches(t)
  PROVE  ServiceInv'
<1> DEFINE c == Head(t.todo)
           fetched == "node" \in GetNodeModel(c).have
           next == IF fetched THEN [t EXCEPT !.todo = Tail(@)]
                              ELSE [t EXCEPT !.waiting = TRUE]
           ts == (tails \ {t}) \cup {next}
           wants == {{"node"}}
<1>1. /\ t.todo # <<>> /\ ~t.waiting
      /\ Request(c, wants)
      /\ UNCHANGED <<channel_opened, waiters, published>>
      /\ Leave(Requested(c, wants), ts)
  BY DEF TailFetches
<1>2. t \in TypeOfTail
  BY DEF ServiceInv, TailsOK
<1>3. c \in Nodes /\ Tail(t.todo) \in Seq(Nodes)
  BY <1>1, <1>2, HeadTailProperties DEF TypeOfTail
<1>4. wants \in SUBSET SUBSET MaxStatus
  BY DEF MaxStatus
<1>5. next \in TypeOfTail /\ next.owner = t.owner /\ (next.waiting => next.todo # <<>>)
  BY <1>1, <1>2, <1>3 DEF TypeOfTail
<1> HIDE DEF c, next, ts, wants
<1>6. TailsOK(ts) /\ OneTailEach(ts) /\ Owners(ts) = Owners(tails)
  <2>1. ts = (tails \ {t}) \cup {next}
    BY DEF ts
  <2>2. QED
    BY <1>5, <2>1 DEF ServiceInv, TailsOK, OneTailEach, Owners
<1>7. /\ waiters' \in [Nodes -> SUBSET SUBSET MaxStatus]
      /\ \A k \in Nodes : \A w \in waiters'[k] : w \in waiters[k]
  BY <1>1 DEF ServiceInv, RestOK
<1>8. QED
  BY <1>1, <1>3, <1>4, <1>6, <1>7, RequestKeepsInv

LEMMA ShowChildrenKeeps ==
  ASSUME model \in [Nodes -> Model], published \in [Nodes -> Snapshot],
         Shown(model, published), NEW n \in Nodes
  PROVE  /\ ShowChildren(n) \in [Nodes -> Model]
         /\ Shown(ShowChildren(n),
                  [published EXCEPT ![n] = SnapshotOf(ShowChildren(n)[n])])
         /\ \A k \in Nodes : model[k].have \subseteq ShowChildren(n)[k].have
<1> DEFINE self == [model[n] EXCEPT !.kids = FetchedChildren(n),
                       !.refs = @ \ FetchedChildren(n),
                       !.have = @ \cup {"children"}, !.asked = @ \cup {"children"}]
<1>1. ShowChildren(n) = [model EXCEPT ![n] = self]
  BY DEF ShowChildren
<1>2. /\ FetchedChildren(n) \in SUBSET Edge
      /\ \A e \in FetchedChildren(n) : e[1] = "child"
  BY DEF FetchedChildren, Children, Edge
<1>3. /\ self \in Model /\ self.have = model[n].have \cup {"children"}
      /\ self.refs = model[n].refs \ FetchedChildren(n) /\ self.kids = FetchedChildren(n)
  BY <1>2 DEF Model, MaxStatus
<1> HIDE DEF self
<1>4. /\ ShowChildren(n) \in [Nodes -> Model]
      /\ \A k \in Nodes : ShowChildren(n)[k] = IF k = n THEN self ELSE model[k]
  BY <1>1, <1>3
<1>5. Shown(ShowChildren(n), [published EXCEPT ![n] = SnapshotOf(ShowChildren(n)[n])])
  BY <1>2, <1>3, <1>4 DEF Shown
<1>6. QED
  BY <1>3, <1>4, <1>5

\* The guard of a tail goes with it.
LEMMA TailLeavesGuard ==
  ASSUME ServiceInv, NEW t \in tails, NEW ts, TailsOK(ts), OneTailEach(ts),
         Owners(ts) = Owners(tails), t \in ts,
         children_fetch_in_flight' = children_fetch_in_flight \ {t.owner},
         UNCHANGED <<node_fetch_in_flight, nodeCalls, childrenCalls>>
  PROVE  /\ TailsOK(ts \ {t}) /\ OneTailEach(ts \ {t})
         /\ Guarded(Owners(ts \ {t}), node_fetch_in_flight', children_fetch_in_flight',
                    nodeCalls', childrenCalls')
         /\ CallsOK(node_fetch_in_flight', children_fetch_in_flight',
                    nodeCalls', childrenCalls')
<1>1. TailsOK(ts \ {t}) /\ OneTailEach(ts \ {t})
  BY DEF TailsOK, OneTailEach
<1>2. Owners(ts \ {t}) = Owners(tails) \ {t.owner}
  <2>1. Owners(ts \ {t}) = Owners(ts) \ {t.owner}
    BY DEF Owners, OneTailEach
  <2>2. QED
    BY <2>1
<1>3. t.owner \in Owners(tails)
  BY DEF Owners
<1>4. Guarded(Owners(tails) \ {t.owner}, node_fetch_in_flight', children_fetch_in_flight',
              nodeCalls', childrenCalls')
  BY <1>3 DEF ServiceInv, GuardsOK, Guarded
<1>5. CallsOK(node_fetch_in_flight', children_fetch_in_flight', nodeCalls', childrenCalls')
  BY DEF ServiceInv, RestOK, CallsOK
<1>6. QED
  BY <1>1, <1>2, <1>4, <1>5

LEMMA TailShowsKeepsInv ==
  ASSUME ServiceInv, NEW t \in tails, TailShows(t)
  PROVE  ServiceInv'
<1> DEFINE n == t.owner
           m == ShowChildren(n)
           ts == Resumed(n, m[n].have)
<1>1. /\ t.todo = <<>> /\ t.live
      /\ NotifyCallbacks(n, m[n].have)
      /\ children_fetch_in_flight' = children_fetch_in_flight \ {n}
      /\ published' = [published EXCEPT ![n] = SnapshotOf(m[n])]
      /\ UNCHANGED <<keep_alive_list, channel_opened, pending_fetch_nodes,
                     node_fetch_in_flight, nodeCalls, childrenCalls>>
      /\ Leave(m, ts \ {t})
  BY DEF TailShows
<1>2. t \in TypeOfTail /\ ~t.waiting /\ n \in Nodes
  BY <1>1 DEF ServiceInv, TailsOK, TypeOfTail
<1>3. /\ m \in [Nodes -> Model] /\ Shown(m, published')
      /\ \A k \in Nodes : model[k].have \subseteq m[k].have
  BY <1>1, <1>2, ShowChildrenKeeps DEF ServiceInv, RestOK
<1>4. /\ TailsOK(ts) /\ OneTailEach(ts) /\ Owners(ts) = Owners(tails)
      /\ t \in ts
  BY <1>2, ResumedKeeps DEF ServiceInv
<1> HIDE DEF m, ts
<1>5. /\ TailsOK(ts \ {t}) /\ OneTailEach(ts \ {t})
      /\ Guarded(Owners(ts \ {t}), node_fetch_in_flight', children_fetch_in_flight',
                 nodeCalls', childrenCalls')
      /\ CallsOK(node_fetch_in_flight', children_fetch_in_flight',
                 nodeCalls', childrenCalls')
  BY <1>1, <1>4, TailLeavesGuard
<1>6. waiters' = [waiters EXCEPT ![n] = {w \in @ : ~(w \subseteq m[n].have)}]
  BY <1>1 DEF NotifyCallbacks
<1>7. /\ waiters' \in [Nodes -> SUBSET SUBSET MaxStatus]
      /\ \A k \in Nodes : waiters'[k] \subseteq waiters[k]
  BY <1>6 DEF ServiceInv, RestOK
<1>8. Served(m, waiters', nodeCalls', channel_opened', pending_fetch_nodes')
  BY <1>1, <1>3, <1>7 DEF ServiceInv, Served
<1>9. SnapshotOf(m[n]) \in Snapshot
  BY <1>2, <1>3 DEF SnapshotOf, Snapshot, Model
<1>10. RestOK'
  BY <1>1, <1>5, <1>7, <1>9 DEF ServiceInv, RestOK, ListOK, QueueOK
<1>11. QED
  BY <1>1, <1>3, <1>5, <1>8, <1>10, LeaveKeepsInv

LEMMA TailEndsKeepsInv ==
  ASSUME ServiceInv, NEW t \in tails, TailEnds(t)
  PROVE  ServiceInv'
<1>1. /\ children_fetch_in_flight' = children_fetch_in_flight \ {t.owner}
      /\ UNCHANGED <<keep_alive_list, channel_opened, pending_fetch_nodes,
                     node_fetch_in_flight, nodeCalls, childrenCalls, waiters, published>>
      /\ Leave(model, tails \ {t})
  BY DEF TailEnds
<1>2. /\ TailsOK(tails \ {t}) /\ OneTailEach(tails \ {t})
      /\ Guarded(Owners(tails \ {t}), node_fetch_in_flight', children_fetch_in_flight',
                 nodeCalls', childrenCalls')
      /\ CallsOK(node_fetch_in_flight', children_fetch_in_flight',
                 nodeCalls', childrenCalls')
  BY <1>1, TailLeavesGuard DEF ServiceInv
<1>3. RestOK'
  BY <1>1, <1>2 DEF ServiceInv, RestOK, ListOK, QueueOK
<1>4. /\ model \in [Nodes -> Model] /\ Shown(model, published')
      /\ Served(model, waiters', nodeCalls', channel_opened', pending_fetch_nodes')
  BY <1>1 DEF ServiceInv
<1>5. QED
  BY <1>1, <1>2, <1>3, <1>4, LeaveKeepsInv

-----------------------------------------------------------------------------
(* Events.                                                                 *)

LEMMA NodeDeletedKeepsInv ==
  ASSUME ServiceInv, NEW n \in Nodes, NodeDeleted(n)
  PROVE  ServiceInv'
<1> DEFINE self == [model[n] EXCEPT !.status = "deleted", !.have = MaxStatus,
                                    !.asked = MaxStatus, !.kids = {}]
           m == [model EXCEPT ![n] = self]
<1>1. /\ RemoveFromKeepAlive(n)
      /\ NotifyCallbacks(n, MaxStatus)
      /\ UNCHANGED <<channel_opened, pending_fetch_nodes, callVars, published>>
      /\ Leave(m, Resumed(n, MaxStatus))
  BY DEF NodeDeleted
<1>2. /\ self \in Model /\ self.have = MaxStatus /\ self.status = "deleted"
      /\ self.kids = {} /\ model[n].have \subseteq MaxStatus
  BY DEF ServiceInv, Model
<1> HIDE DEF self
<1>3. /\ m \in [Nodes -> Model]
      /\ \A k \in Nodes : m[k] = IF k = n THEN self ELSE model[k]
  BY <1>2 DEF ServiceInv
<1> HIDE DEF m
<1>4. /\ \A k \in Nodes : model[k].have \subseteq m[k].have
      /\ m[n].have = MaxStatus /\ "node" \in m[n].have
  BY <1>2, <1>3 DEF MaxStatus
<1>5. Shown(m, published')
  BY <1>1, <1>2, <1>3 DEF ServiceInv, Shown
<1>6. /\ waiters' \in [Nodes -> SUBSET SUBSET MaxStatus]
      /\ Served(m, waiters', nodeCalls, channel_opened', pending_fetch_nodes')
  BY <1>1, <1>3, <1>4, NotifyKeepsServed
<1>7. /\ TailsOK(Resumed(n, MaxStatus)) /\ OneTailEach(Resumed(n, MaxStatus))
      /\ Owners(Resumed(n, MaxStatus)) = Owners(tails)
  BY ResumedKeeps DEF ServiceInv
<1>8. ListOK(keep_alive_list')
  <2>1. ListOK(keep_alive_list)
    BY DEF ServiceInv, RestOK
  <2>2. /\ Without(keep_alive_list, n) \in Seq(Nodes)
        /\ IsInjective(Without(keep_alive_list, n))
        /\ Len(Without(keep_alive_list, n)) <= Len(keep_alive_list)
    BY <2>1, WithoutRemoves DEF ListOK
  <2>3. /\ Len(Without(keep_alive_list, n)) \in Nat /\ Len(keep_alive_list) \in Nat
        /\ KeepAlive \in Nat
    BY <2>1, <2>2, LenProperties, GraphAssumption DEF ListOK
  <2>4. QED
    BY <1>1, <2>1, <2>2, <2>3 DEF RemoveFromKeepAlive, ListOK
<1>9. RestOK'
  BY <1>1, <1>6, <1>8 DEF ServiceInv, RestOK, QueueOK, CallsOK, callVars
<1>10. Guarded(Owners(Resumed(n, MaxStatus)), node_fetch_in_flight',
               children_fetch_in_flight', nodeCalls', childrenCalls')
  BY <1>1, <1>7 DEF ServiceInv, GuardsOK, callVars
<1>11. Served(m, waiters', nodeCalls', channel_opened', pending_fetch_nodes')
  BY <1>1, <1>6 DEF callVars
<1>12. QED
  BY <1>1, <1>3, <1>5, <1>7, <1>9, <1>10, <1>11, LeaveKeepsInv

LEMMA OnChannelOpenedKeepsInv ==
  ASSUME ServiceInv, OnChannelOpened
  PROVE  ServiceInv'
<1>1. /\ channel_opened' = TRUE
      /\ SpawnFetch(pending_fetch_nodes)
      /\ pending_fetch_nodes' = [n \in Nodes |-> {}]
      /\ UNCHANGED <<keep_alive_list, waiters, published>>
      /\ Leave(model, tails)
  BY DEF OnChannelOpened
<1>2. /\ CallsOK(node_fetch_in_flight', children_fetch_in_flight',
                 nodeCalls', childrenCalls')
      /\ Guarded(Owners(tails), node_fetch_in_flight', children_fetch_in_flight',
                 nodeCalls', childrenCalls')
      /\ \A n \in Nodes : "node" \in pending_fetch_nodes[n] => nodeCalls'[n] > 0
      /\ \A n \in Nodes : nodeCalls[n] > 0 => nodeCalls'[n] > 0
  BY <1>1, SpawnFetchKeeps DEF ServiceInv, RestOK, QueueOK, GuardsOK
<1>3. RestOK'
  BY <1>1, <1>2 DEF ServiceInv, RestOK, ListOK, QueueOK
<1>4. Served(model, waiters', nodeCalls', channel_opened', pending_fetch_nodes')
  BY <1>1, <1>2 DEF ServiceInv, Served
<1>5. /\ model \in [Nodes -> Model] /\ Shown(model, published')
      /\ TailsOK(tails) /\ OneTailEach(tails)
  BY <1>1 DEF ServiceInv
<1>6. QED
  BY <1>1, <1>2, <1>3, <1>4, <1>5, LeaveKeepsInv

LEMMA OnChannelClosedKeepsInv ==
  ASSUME ServiceInv, OnChannelClosed
  PROVE  ServiceInv'
<1>1. /\ channel_opened /\ channel_opened' = FALSE
      /\ UNCHANGED <<model, keep_alive_list, pending_fetch_nodes, callVars, tails,
                     waiters, published>>
  BY DEF OnChannelClosed
<1>2. Served(model', waiters', nodeCalls', channel_opened', pending_fetch_nodes')
  BY <1>1 DEF ServiceInv, Served, callVars
<1>3. QED
  BY <1>1, <1>2 DEF ServiceInv, RestOK, ListOK, QueueOK, CallsOK, GuardsOK, callVars

-----------------------------------------------------------------------------
(* The invariant holds.                                                    *)

LEMMA InitInv == Init => ServiceInv
<1> SUFFICES ASSUME Init PROVE ServiceInv
  OBVIOUS
<1> USE DEF Init
<1>1. model \in [Nodes -> Model]
  BY AbsentIsAModel
<1>2. ListOK(keep_alive_list)
  BY GraphAssumption DEF ListOK, IsInjective
<1>3. RestOK
  BY <1>2 DEF RestOK, QueueOK, CallsOK, Snapshot
<1>4. TailsOK(tails) /\ OneTailEach(tails) /\ GuardsOK
  BY DEF TailsOK, OneTailEach, GuardsOK, Guarded, Owners
<1>5. Shown(model, published) /\ Served(model, waiters, nodeCalls, channel_opened, pending_fetch_nodes)
  BY DEF Shown, Served, Absent
<1>6. QED
  BY <1>1, <1>3, <1>4, <1>5 DEF ServiceInv

LEMMA NextInv ==
  ASSUME ServiceInv, [Next]_vars
  PROVE  ServiceInv'
<1>1. ASSUME NEW n \in Nodes, NEW want \in Wants[n], StartFetch(n, want) \/ Fetch(n, want)
      PROVE  ServiceInv'
  BY <1>1, StartFetchKeepsInv, FetchKeepsInv
<1>2. ASSUME NEW n \in Nodes, Answer(n)
      PROVE  ServiceInv'
  BY <1>2, NodeFetchedKeepsInv, NodeFetchFailsKeepsInv, ChildrenFetchedKeepsInv,
     ChildrenFetchFailsKeepsInv DEF Answer
<1>3. ASSUME NEW n \in Nodes, TailStep(n)
      PROVE  ServiceInv'
  BY <1>3, TailFetchesKeepsInv, TailShowsKeepsInv, TailEndsKeepsInv DEF TailStep
<1>4. ASSUME NEW n \in Deletable, NodeDeleted(n)
      PROVE  ServiceInv'
  BY <1>4, NodeDeletedKeepsInv, GraphAssumption
<1>5. CASE UNCHANGED vars
  BY <1>5 DEF ServiceInv, RestOK, ListOK, QueueOK, CallsOK, GuardsOK, vars, callVars
<1>6. QED
  BY <1>1, <1>2, <1>3, <1>4, <1>5, OnChannelOpenedKeepsInv, OnChannelClosedKeepsInv DEF Next

\* What the properties say follows from the invariant.
LEMMA InvImplies ==
  ASSUME ServiceInv
  PROVE  /\ NodeServiceTypeOK
         /\ GuardsMatchFetches
         /\ NodeWaitersAreServed
         /\ SnapshotsAreCurrent
<1>1. NodeServiceTypeOK
  BY DEF ServiceInv, RestOK, ListOK, QueueOK, CallsOK, TailsOK, NodeServiceTypeOK
<1>2. GuardsMatchFetches
  <2> SUFFICES ASSUME NEW n \in Nodes
               PROVE  /\ nodeCalls[n] = IF n \in node_fetch_in_flight THEN 1 ELSE 0
                      /\ childrenCalls[n] + Cardinality(TailsOf(n)) =
                            IF n \in children_fetch_in_flight THEN 1 ELSE 0
    BY DEF GuardsMatchFetches
  <2>1. /\ nodeCalls[n] = IF n \in node_fetch_in_flight THEN 1 ELSE 0
        /\ childrenCalls[n] = IF n \in children_fetch_in_flight \ Owners(tails) THEN 1 ELSE 0
        /\ n \in Owners(tails) => n \in children_fetch_in_flight
    BY DEF ServiceInv, GuardsOK, Guarded
  <2>2. CASE n \in Owners(tails)
    <3>1. PICK t \in tails : t.owner = n
      BY <2>2 DEF Owners
    <3>2. TailsOf(n) = {t}
      BY <3>1 DEF TailsOf, ServiceInv, OneTailEach
    <3>3. Cardinality(TailsOf(n)) = 1
      BY <3>2, FS_Singleton
    <3>4. QED
      BY <2>1, <2>2, <3>3
  <2>3. CASE n \notin Owners(tails)
    <3>1. TailsOf(n) = {}
      BY <2>3 DEF TailsOf, Owners
    <3>2. Cardinality(TailsOf(n)) = 0
      BY <3>1, FS_EmptySet
    <3>3. QED
      BY <2>1, <2>3, <3>2
  <2>4. QED
    BY <2>2, <2>3
<1>3. NodeWaitersAreServed
  BY DEF ServiceInv, Served, NodeWaitersAreServed
<1>4. SnapshotsAreCurrent
  BY DEF ServiceInv, Shown, SnapshotsAreCurrent
<1>5. QED
  BY <1>1, <1>2, <1>3, <1>4

LEMMA ServiceInvHolds == Spec => []ServiceInv
<1>1. Init => ServiceInv
  BY InitInv
<1>2. ServiceInv /\ [Next]_vars => ServiceInv'
  BY NextInv
<1>3. QED
  BY <1>1, <1>2, PTL DEF Spec

\* The keep-alive list is bounded and holds a node once, and the rest of the state
\* of NodeServiceImpl and its models has its type (TouchKeepAlive).
THEOREM TypesHold == Spec => []NodeServiceTypeOK
<1>1. ServiceInv => NodeServiceTypeOK
  BY InvImplies
<1>2. QED
  BY <1>1, ServiceInvHolds, PTL

\* The in-flight sets of NodeServiceImpl are exactly the fetches that run: the
\* guard passes from FetchChildren to its OnChildrenFetched tail and goes with it,
\* whatever became of the model (SpawnFetch).
THEOREM GuardsHold == Spec => []GuardsMatchFetches
<1>1. ServiceInv => GuardsMatchFetches
  BY InvImplies
<1>2. QED
  BY <1>1, ServiceInvHolds, PTL

\* Whoever waits for a node in Fetch is served by a fetch under way or queued
\* (OnFetchNode, OnChannelOpened, NotifyCallbacks).
THEOREM NodeWaitersHold == Spec => []NodeWaitersAreServed
<1>1. ServiceInv => NodeWaitersAreServed
  BY InvImplies
<1>2. QED
  BY <1>1, ServiceInvHolds, PTL

\* Observers have the state of the model, and no reference is in it twice
\* (OnFetched, OnChildrenFetched, the mirrors of neighbours).
THEOREM SnapshotsHold == Spec => []SnapshotsAreCurrent
<1>1. ServiceInv => SnapshotsAreCurrent
  BY InvImplies
<1>2. QED
  BY <1>1, ServiceInvHolds, PTL

-----------------------------------------------------------------------------
(* What a step never does.                                                 *)

\* The models of a step in which none forgets what it fetched.
Grows(ms) == \A n \in Nodes : model[n].have \subseteq ms[n].have

LEMMA LeaveGrows ==
  ASSUME NEW ms \in [Nodes -> Model], NEW ts, Leave(ms, ts), Grows(ms),
         NEW n \in Nodes, Resident(n)'
  PROVE  model[n].have \subseteq model'[n].have
<1>1. model'[n] = ms[n] \/ model'[n] = Absent
  BY DEF Leave
<1>2. model'[n] # Absent
  BY DEF Resident
<1>3. QED
  BY <1>1, <1>2 DEF Grows

LEMMA RequestGrows ==
  ASSUME ServiceInv, NEW n \in Nodes, NEW wants \in SUBSET SUBSET MaxStatus
  PROVE  Requested(n, wants) \in [Nodes -> Model] /\ Grows(Requested(n, wants))
BY RequestedKeeps DEF ServiceInv, Grows

\* Every step but the closing of the channel leaves such models.
LEMMA NextGrows ==
  ASSUME ServiceInv, Next
  PROVE  \/ UNCHANGED model
         \/ \E ms \in [Nodes -> Model] : \E ts : Leave(ms, ts) /\ Grows(ms)
<1> DEFINE Grown == \E ms \in [Nodes -> Model] : \E ts : Leave(ms, ts) /\ Grows(ms)
<1>1. ASSUME NEW n \in Nodes, NEW want \in Wants[n], StartFetch(n, want)
      PROVE  Grown
  <2>1. {want} \in SUBSET SUBSET MaxStatus
    BY GraphAssumption
  <2>2. Leave(Requested(n, {want}), tails)
    BY <1>1 DEF StartFetch
  <2>3. QED
    BY <2>1, <2>2, RequestGrows
<1>2. ASSUME NEW n \in Nodes, NEW want \in Wants[n], Fetch(n, want)
      PROVE  Grown
  <2>1. {{"node"}, want} \in SUBSET SUBSET MaxStatus
    BY GraphAssumption DEF MaxStatus
  <2>2. Leave(Requested(n, {{"node"}, want}), tails)
    BY <1>2 DEF Fetch
  <2>3. QED
    BY <2>1, <2>2, RequestGrows
<1>3. ASSUME NEW n \in Nodes, NodeFetched(n)
      PROVE  Grown
  <2>1. OnFetched(n) \in [Nodes -> Model] /\ Grows(OnFetched(n))
    BY OnFetchedKeeps DEF ServiceInv, Grows
  <2>2. Leave(OnFetched(n), Resumed(n, OnFetched(n)[n].have))
    BY <1>3 DEF NodeFetched
  <2>3. QED
    BY <2>1, <2>2
<1>4. ASSUME NEW n \in Nodes, NodeFetchFails(n) \/ ChildrenFetchFails(n)
      PROVE  Grown
  <2>1. OnFetchError(n) \in [Nodes -> Model] /\ Grows(OnFetchError(n))
    BY OnFetchErrorKeeps DEF ServiceInv, Grows
  <2>2. Leave(OnFetchError(n), Resumed(n, OnFetchError(n)[n].have))
    BY <1>4 DEF NodeFetchFails, ChildrenFetchFails
  <2>3. QED
    BY <2>1, <2>2
<1>5. model \in [Nodes -> Model] /\ Grows(model)
  BY DEF ServiceInv, Grows
<1>6. ASSUME NEW n \in Nodes, ChildrenFetched(n)
      PROVE  Grown
  <2>1. \E ts : Leave(model, ts)
    BY <1>6 DEF ChildrenFetched
  <2>2. QED
    BY <1>5, <2>1
<1>7. ASSUME NEW t \in tails, TailFetches(t)
      PROVE  Grown
  <2> DEFINE c == Head(t.todo)
  <2>1. c \in Nodes
    BY <1>7, HeadTailProperties DEF ServiceInv, TailsOK, TypeOfTail, TailFetches
  <2>2. {{"node"}} \in SUBSET SUBSET MaxStatus
    BY DEF MaxStatus
  <2>3. \E ts : Leave(Requested(c, {{"node"}}), ts)
    BY <1>7 DEF TailFetches
  <2>4. QED
    BY <2>1, <2>2, <2>3, RequestGrows
<1>8. ASSUME NEW t \in tails, TailShows(t)
      PROVE  Grown
  <2>1. t.owner \in Nodes
    BY DEF ServiceInv, TailsOK, TypeOfTail
  <2>2. ShowChildren(t.owner) \in [Nodes -> Model] /\ Grows(ShowChildren(t.owner))
    BY <2>1, ShowChildrenKeeps DEF ServiceInv, RestOK, Grows
  <2>3. \E ts : Leave(ShowChildren(t.owner), ts)
    BY <1>8 DEF TailShows
  <2>4. QED
    BY <2>2, <2>3
<1>9. ASSUME NEW t \in tails, TailEnds(t)
      PROVE  Grown
  <2>1. \E ts : Leave(model, ts)
    BY <1>9 DEF TailEnds
  <2>2. QED
    BY <1>5, <2>1
<1>10. ASSUME NEW n \in Deletable, NodeDeleted(n)
       PROVE  Grown
  <2> DEFINE self == [model[n] EXCEPT !.status = "deleted", !.have = MaxStatus,
                                      !.asked = MaxStatus, !.kids = {}]
             m == [model EXCEPT ![n] = self]
  <2>1. n \in Nodes
    BY GraphAssumption
  <2>2. \E ts : Leave(m, ts)
    BY <1>10 DEF NodeDeleted
  <2>3. self \in Model /\ self.have = MaxStatus /\ model[n].have \subseteq MaxStatus
    BY <2>1 DEF ServiceInv, Model
  <2> HIDE DEF self
  <2>4. m \in [Nodes -> Model] /\ Grows(m)
    BY <2>1, <2>3 DEF ServiceInv, Grows
  <2>5. QED
    BY <2>2, <2>4
<1>11. ASSUME OnChannelOpened
       PROVE  Grown
  BY <1>5, <1>11 DEF OnChannelOpened
<1>12. ASSUME OnChannelClosed
       PROVE  UNCHANGED model
  BY <1>12 DEF OnChannelClosed
<1>13. QED
  BY <1>1, <1>2, <1>3, <1>4, <1>6, <1>7, <1>8, <1>9, <1>10, <1>11, <1>12
     DEF Next, Answer, TailStep

\* A model that lives through a step keeps every dimension it has fetched: a node
\* fetch that ends after the children's does not take their bit (OnFetched,
\* OnFetchError, OnChildrenFetched).
THEOREM StatusGrows == Spec => FetchStatusOnlyGrows
<1>1. ASSUME ServiceInv, Next
      PROVE  \A n \in Nodes : (Resident(n) /\ Resident(n)')
                                 => model[n].have \subseteq model'[n].have
  BY <1>1, NextGrows, LeaveGrows
<1>2. ServiceInv /\ [Next]_vars
        => [\A n \in Nodes : (Resident(n) /\ Resident(n)')
                                => model[n].have \subseteq model'[n].have]_vars
  BY <1>1
<1>3. QED
  BY <1>2, ServiceInvHolds, PTL DEF Spec, FetchStatusOnlyGrows
=============================================================================
