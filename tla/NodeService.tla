---------------------------- MODULE NodeService -----------------------------
(***************************************************************************)
(* The v3 node service: NodeServiceImpl, its NodeModelImpls and the fetch  *)
(* coroutines they start.                                                  *)
(*                                                                         *)
(* The registry holds models weakly.  A model lives while the keep-alive   *)
(* list, a fetch under way, a fetch queued for the channel or a coroutine  *)
(* that awaits it holds it; NodeRefs, child_models_ and subscriptions are  *)
(* cursors and hold nothing.  There is at most one live model of a node.   *)
(*                                                                         *)
(* A fetch of the node and one of its children run side by side.  The      *)
(* answer to a children fetch starts a tail, a coroutine that fetches each *)
(* child and its reference type before it shows the children; the tail     *)
(* does not hold the model it works for.                                   *)
(*                                                                         *)
(* Attributes are left out; of a node's data the model keeps references.   *)
(***************************************************************************)
EXTENDS Naturals, FiniteSets, SequencesExt

CONSTANTS
    Nodes,
    Parent,      \* server: the parent of each node, or NoParent
    NoParent,
    Refers,      \* server: forward non-hierarchical references of each node
    Targets,     \* server: child, reference type, child, ... in browse order
    Wants,       \* what callers ask of each node: sets of fetch dimensions
    Deletable,   \* nodes the server may delete
    KeepAlive    \* keep_alive_capacity_

MaxStatus == {"node", "children"}     \* NodeFetchStatus; the third dimension is never fetched

Children(n) == {c \in Nodes : Parent[c] = n}

ASSUME GraphAssumption ==
    /\ NoParent \notin Nodes
    /\ Parent \in [Nodes -> Nodes \cup {NoParent}]
    /\ Refers \in [Nodes -> SUBSET Nodes]
    /\ Targets \in [Nodes -> Seq(Nodes)]
    /\ \A n \in Nodes : Children(n) \subseteq ToSet(Targets[n])
    /\ Wants \in [Nodes -> SUBSET SUBSET MaxStatus]
    /\ Deletable \subseteq Nodes
    /\ KeepAlive \in Nat

\* A reference of a model: its role and the node at the other end.
Edge == {"parent", "child", "refers", "referred"} \X Nodes

MirrorRole == [parent |-> "child", child |-> "parent",
               refers |-> "referred", referred |-> "refers"]

\* What FetchNode and FetchChildren return.
FetchedReferences(n) ==
    {<<"refers", m>> : m \in Refers[n]} \cup {<<"parent", m>> : m \in {Parent[n]} \cap Nodes}
FetchedChildren(n) == {<<"child", c>> : c \in Children(n)}

Absent == [status |-> "absent", have |-> {}, asked |-> {}, refs |-> {}, kids |-> {}]
Fresh == [Absent EXCEPT !.status = "good"]

VARIABLES
    model,                      \* the live model of each node, or Absent
    keep_alive_list,            \* most recently used first
    channel_opened,
    pending_fetch_nodes,        \* what is queued for the channel, {} for no entry
    node_fetch_in_flight,       \* guards
    children_fetch_in_flight,
    nodeCalls,                  \* FetchNode coroutines of each node
    childrenCalls,              \* FetchChildren coroutines of each node
    tails,                      \* OnChildrenFetched coroutines
    waiters,                    \* fetch_callbacks_ of callers of Fetch
    published                   \* the last snapshot sent to observers

callVars == <<node_fetch_in_flight, children_fetch_in_flight, nodeCalls, childrenCalls>>
vars == <<model, keep_alive_list, channel_opened, pending_fetch_nodes, callVars,
          tails, waiters, published>>

Model == [status : {"absent", "good", "bad", "deleted"}, have : SUBSET MaxStatus,
          asked : SUBSET MaxStatus, refs : SUBSET Edge, kids : SUBSET Edge]

Snapshot == [refs : SUBSET Edge, have : SUBSET MaxStatus]

\* live: reference_request_ of the owner is still this tail's.
TypeOfTail == [owner : Nodes, todo : Seq(Nodes), waiting : BOOLEAN, live : BOOLEAN]

NodeServiceTypeOK ==
    /\ model \in [Nodes -> Model]
    /\ keep_alive_list \in Seq(Nodes) /\ IsInjective(keep_alive_list)
    /\ Len(keep_alive_list) <= KeepAlive
    /\ channel_opened \in BOOLEAN
    /\ pending_fetch_nodes \in [Nodes -> SUBSET MaxStatus]
    /\ node_fetch_in_flight \subseteq Nodes /\ children_fetch_in_flight \subseteq Nodes
    /\ nodeCalls \in [Nodes -> Nat] /\ childrenCalls \in [Nodes -> Nat]
    /\ \A t \in tails : t \in TypeOfTail
    /\ waiters \in [Nodes -> SUBSET SUBSET MaxStatus]
    /\ published \in [Nodes -> Snapshot]

Init ==
    /\ model = [n \in Nodes |-> Absent]
    /\ keep_alive_list = <<>>
    /\ channel_opened = FALSE
    /\ pending_fetch_nodes = [n \in Nodes |-> {}]
    /\ node_fetch_in_flight = {} /\ children_fetch_in_flight = {}
    /\ nodeCalls = [n \in Nodes |-> 0] /\ childrenCalls = [n \in Nodes |-> 0]
    /\ tails = {}
    /\ waiters = [n \in Nodes |-> {}]
    /\ published = [n \in Nodes |-> [refs |-> {}, have |-> {}]]

-----------------------------------------------------------------------------
(* Lifetime of models.                                                     *)

Resident(n) == model[n] # Absent

\* What holds the model of n after the step, given the tails t.
Held(n, t) ==
    \/ n \in ToSet(keep_alive_list')
    \/ pending_fetch_nodes'[n] # {}
    \/ nodeCalls'[n] > 0
    \/ childrenCalls'[n] > 0
    \/ waiters'[n] # {}
    \/ \E x \in t : x.waiting /\ Head(x.todo) = n

\* The step leaves models m and tails t.  A model nothing holds any more dies,
\* and with it the flag of its tail.
Leave(m, t) ==
    /\ model' = [n \in Nodes |-> IF Held(n, t) THEN m[n] ELSE Absent]
    /\ tails' = {[x EXCEPT !.live = x.live /\ Held(x.owner, t)] : x \in t}

\* The list without n, which is in it once at most.
Without(list, n) ==
    LET i == CHOOSE k \in 1..Len(list) : list[k] = n
    IN  IF n \in ToSet(list) THEN RemoveAt(list, i) ELSE list

\* Mutant: the keep-alive list is not bounded.
TouchEvictsNothing(n) == <<n>> \o Without(keep_alive_list, n)

\* TouchKeepAlive: n comes first; the oldest goes when the list is too long.
Touch(n) ==
    LET list == <<n>> \o Without(keep_alive_list, n)
    IN  SubSeq(list, 1, IF Len(list) > KeepAlive THEN KeepAlive ELSE Len(list))

RemoveFromKeepAlive(n) == keep_alive_list' = Without(keep_alive_list, n)

-----------------------------------------------------------------------------
(* Requests.                                                               *)

\* SpawnFetch for every n and dimension in asks[n]; a guard lets one fetch of a
\* kind run for a node at a time.
SpawnFetch(asks) ==
    LET one == {n \in Nodes : "node" \in asks[n]} \ node_fetch_in_flight
        all == {n \in Nodes : "children" \in asks[n]} \ children_fetch_in_flight
    IN  /\ node_fetch_in_flight' = node_fetch_in_flight \cup one
        /\ children_fetch_in_flight' = children_fetch_in_flight \cup all
        /\ nodeCalls' = [n \in Nodes |-> nodeCalls[n] + (IF n \in one THEN 1 ELSE 0)]
        /\ childrenCalls' = [n \in Nodes |-> childrenCalls[n] + (IF n \in all THEN 1 ELSE 0)]

\* OnFetchNode: without a channel the request is queued and holds the model.
OnFetchNode(n, asked) ==
    IF channel_opened
    THEN /\ SpawnFetch([m \in Nodes |-> IF m = n THEN asked ELSE {}])
         /\ UNCHANGED pending_fetch_nodes
    ELSE /\ pending_fetch_nodes' = [pending_fetch_nodes EXCEPT ![n] = @ \cup asked]
         /\ UNCHANGED callVars

GetNodeModel(n) == IF Resident(n) THEN model[n] ELSE Fresh

\* BaseNodeModel::StartFetch for each of wants on the model of n: what is missing
\* joins fetching_status_, all of which is requested, the parts fetched before too.
Request(n, wants) ==
    LET missing == {w \in wants : ~(w \subseteq GetNodeModel(n).have)}
        asked == GetNodeModel(n).asked \cup UNION missing
    IN  /\ keep_alive_list' = Touch(n)
        /\ IF missing = {} THEN UNCHANGED <<pending_fetch_nodes, callVars>>
                           ELSE OnFetchNode(n, asked)

Requested(n, wants) ==
    LET missing == {w \in wants : ~(w \subseteq GetNodeModel(n).have)}
    IN  [model EXCEPT ![n] = [GetNodeModel(n) EXCEPT !.asked = @ \cup UNION missing]]

\* NodeServiceImpl::StartFetch; with {"node"} also every read of the node.
StartFetch(n, want) ==
    /\ Request(n, {want})
    /\ UNCHANGED <<channel_opened, waiters, published>>
    /\ Leave(Requested(n, {want}), tails)

\* NodeServiceImpl::Fetch: it reads the node first; the coroutine awaits the model
\* and holds it, unless the model has what it wants already.
Fetch(n, want) ==
    /\ Request(n, {{"node"}, want})
    /\ waiters' = IF want \subseteq GetNodeModel(n).have THEN waiters
                  ELSE [waiters EXCEPT ![n] = @ \cup {want}]
    /\ UNCHANGED <<channel_opened, published>>
    /\ Leave(Requested(n, {{"node"}, want}), tails)

-----------------------------------------------------------------------------
(* Results.                                                                *)

\* NotifyCallbacks when n has got have: callers and tails that await it go on.
NotifyCallbacks(n, have) ==
    waiters' = [waiters EXCEPT ![n] = {w \in @ : ~(w \subseteq have)}]

Resumed(n, have) ==
    {IF x.waiting /\ Head(x.todo) = n /\ "node" \in have
     THEN [x EXCEPT !.waiting = FALSE, !.todo = Tail(@)] ELSE x : x \in tails}

SnapshotOf(r) == [refs |-> r.refs \cup r.kids, have |-> r.have]

\* Mutant: the mask is replaced, and the bit of the children lost.
OnFetchedReplacesStatus(n) ==
    LET references == FetchedReferences(n)
        Mirrors(m) == {<<MirrorRole[e[1]], n>> : e \in {x \in references : x[2] = m}}
    IN  [m \in Nodes |->
           IF m = n THEN [model[n] EXCEPT !.refs = references, !.status = "good",
                                          !.have = {"node"}, !.asked = @ \cup {"node"}]
           ELSE IF Resident(m) THEN [model[m] EXCEPT !.refs = @ \cup (Mirrors(m) \ model[m].kids)]
           ELSE model[m]]

\* OnFetched: n takes its references anew, and resident neighbours learn of the
\* other end of each, unless their children fetch reported it.
OnFetched(n) ==
    LET references == FetchedReferences(n)
        Mirrors(m) == {<<MirrorRole[e[1]], n>> : e \in {x \in references : x[2] = m}}
    IN  [m \in Nodes |->
           IF m = n THEN [model[n] EXCEPT !.refs = references, !.status = "good",
                                          !.have = @ \cup {"node"}, !.asked = @ \cup {"node"}]
           ELSE IF Resident(m) THEN [model[m] EXCEPT !.refs = @ \cup (Mirrors(m) \ model[m].kids)]
           ELSE model[m]]

\* FetchNode succeeds: OnFetched and OnFetchCompleted.  The node and each fetched
\* neighbour that changed publish a snapshot.
NodeFetched(n) ==
    LET m == OnFetched(n)
    IN  /\ nodeCalls[n] > 0
        /\ nodeCalls' = [nodeCalls EXCEPT ![n] = @ - 1]
        /\ node_fetch_in_flight' = node_fetch_in_flight \ {n}
        /\ published' = [x \in Nodes |->
                           IF x = n \/ (m[x] # model[x] /\ "node" \in m[x].have)
                           THEN SnapshotOf(m[x]) ELSE published[x]]
        /\ NotifyCallbacks(n, m[n].have)
        /\ UNCHANGED <<keep_alive_list, channel_opened, pending_fetch_nodes,
                       children_fetch_in_flight, childrenCalls>>
        /\ Leave(m, Resumed(n, m[n].have))

\* Mutant: an error does not settle the fetch status.
OnFetchErrorKeepsStatus(n) == [model EXCEPT ![n].status = "bad"]

\* OnFetchError of the model: everything counts as fetched.
OnFetchError(n) ==
    [model EXCEPT ![n].status = "bad", ![n].have = MaxStatus, ![n].asked = MaxStatus]

NodeFetchFails(n) ==
    LET m == OnFetchError(n)
    IN  /\ nodeCalls[n] > 0
        /\ nodeCalls' = [nodeCalls EXCEPT ![n] = @ - 1]
        /\ node_fetch_in_flight' = node_fetch_in_flight \ {n}
        /\ NotifyCallbacks(n, m[n].have)
        /\ UNCHANGED <<keep_alive_list, channel_opened, pending_fetch_nodes,
                       children_fetch_in_flight, childrenCalls, published>>
        /\ Leave(m, Resumed(n, m[n].have))

ChildrenFetchFails(n) ==
    LET m == OnFetchError(n)
    IN  /\ childrenCalls[n] > 0
        /\ childrenCalls' = [childrenCalls EXCEPT ![n] = @ - 1]
        /\ children_fetch_in_flight' = children_fetch_in_flight \ {n}
        /\ NotifyCallbacks(n, m[n].have)
        /\ UNCHANGED <<keep_alive_list, channel_opened, pending_fetch_nodes,
                       node_fetch_in_flight, nodeCalls, published>>
        /\ Leave(m, Resumed(n, m[n].have))

\* Mutant: the guard is released before the tail has run.
ChildrenFetchedReleasesGuard(n) ==
    LET tail == [owner |-> n, todo |-> Targets[n], waiting |-> FALSE, live |-> TRUE]
        superseded == {x \in tails : x.owner = n}
    IN  /\ childrenCalls[n] > 0
        /\ childrenCalls' = [childrenCalls EXCEPT ![n] = @ - 1]
        /\ children_fetch_in_flight' = children_fetch_in_flight \ {n}
        /\ UNCHANGED <<keep_alive_list, channel_opened, pending_fetch_nodes,
                       node_fetch_in_flight, nodeCalls, waiters, published>>
        /\ Leave(model, (tails \ superseded) \cup {tail}
                        \cup {[x EXCEPT !.live = FALSE] : x \in superseded})

\* FetchChildren succeeds: OnChildrenFetched starts the tail, which keeps the guard.
ChildrenFetched(n) ==
    LET tail == [owner |-> n, todo |-> Targets[n], waiting |-> FALSE, live |-> TRUE]
        superseded == {x \in tails : x.owner = n}
    IN  /\ childrenCalls[n] > 0
        /\ childrenCalls' = [childrenCalls EXCEPT ![n] = @ - 1]
        /\ UNCHANGED <<keep_alive_list, channel_opened, pending_fetch_nodes,
                       node_fetch_in_flight, children_fetch_in_flight, nodeCalls,
                       waiters, published>>
        /\ Leave(model, (tails \ superseded) \cup {tail}
                        \cup {[x EXCEPT !.live = FALSE] : x \in superseded})

\* The tail asks for its next target and awaits it if it is not fetched.
TailFetches(t) ==
    /\ t.todo # <<>> /\ ~t.waiting
    /\ LET c == Head(t.todo)
           fetched == "node" \in GetNodeModel(c).have
           next == IF fetched THEN [t EXCEPT !.todo = Tail(@)]
                              ELSE [t EXCEPT !.waiting = TRUE]
       IN  /\ Request(c, {{"node"}})
           /\ UNCHANGED <<channel_opened, waiters, published>>
           /\ Leave(Requested(c, {{"node"}}), (tails \ {t}) \cup {next})

\* The model shows its children; mirrors of the same references go.
ShowChildren(n) ==
    [model EXCEPT ![n].kids = FetchedChildren(n), ![n].refs = @ \ FetchedChildren(n),
                  ![n].have = @ \cup {"children"}, ![n].asked = @ \cup {"children"}]

\* Mutant: the children are not published.
TailShowsSilently(t) ==
    /\ t.todo = <<>> /\ t.live
    /\ LET m == ShowChildren(t.owner)
       IN  /\ NotifyCallbacks(t.owner, m[t.owner].have)
           /\ children_fetch_in_flight' = children_fetch_in_flight \ {t.owner}
           /\ UNCHANGED <<keep_alive_list, channel_opened, pending_fetch_nodes,
                          node_fetch_in_flight, nodeCalls, childrenCalls, published>>
           /\ Leave(m, Resumed(t.owner, m[t.owner].have) \ {t})

\* All targets are fetched and the model still lives.
TailShows(t) ==
    /\ t.todo = <<>> /\ t.live
    /\ LET m == ShowChildren(t.owner)
       IN  /\ NotifyCallbacks(t.owner, m[t.owner].have)
           /\ children_fetch_in_flight' = children_fetch_in_flight \ {t.owner}
           /\ published' = [published EXCEPT ![t.owner] = SnapshotOf(m[t.owner])]
           /\ UNCHANGED <<keep_alive_list, channel_opened, pending_fetch_nodes,
                          node_fetch_in_flight, nodeCalls, childrenCalls>>
           /\ Leave(m, Resumed(t.owner, m[t.owner].have) \ {t})

\* Mutant: a tail whose model is gone keeps the guard.
TailEndsUnsettled(t) ==
    /\ t.todo = <<>> /\ ~t.live
    /\ UNCHANGED <<keep_alive_list, channel_opened, pending_fetch_nodes, callVars,
                   waiters, published>>
    /\ Leave(model, tails \ {t})

\* The model it worked for is gone; only the guard is released.
TailEnds(t) ==
    /\ t.todo = <<>> /\ ~t.live
    /\ children_fetch_in_flight' = children_fetch_in_flight \ {t.owner}
    /\ UNCHANGED <<keep_alive_list, channel_opened, pending_fetch_nodes,
                   node_fetch_in_flight, nodeCalls, childrenCalls, waiters, published>>
    /\ Leave(model, tails \ {t})

-----------------------------------------------------------------------------
(* Events.                                                                 *)

\* OnModelChanged with NodeDeleted.  Other verbs and semantic changes only notify.
NodeDeleted(n) ==
    LET tombstone == [model EXCEPT ![n].status = "deleted", ![n].have = MaxStatus,
                                   ![n].asked = MaxStatus, ![n].kids = {}]
    IN  /\ Resident(n)
        /\ RemoveFromKeepAlive(n)
        /\ NotifyCallbacks(n, MaxStatus)
        /\ UNCHANGED <<channel_opened, pending_fetch_nodes, callVars, published>>
        /\ Leave(tombstone, Resumed(n, MaxStatus))

OnChannelOpened ==
    /\ ~channel_opened
    /\ channel_opened' = TRUE
    /\ SpawnFetch(pending_fetch_nodes)
    /\ pending_fetch_nodes' = [n \in Nodes |-> {}]
    /\ UNCHANGED <<keep_alive_list, waiters, published>>
    /\ Leave(model, tails)

OnChannelClosed ==
    /\ channel_opened
    /\ channel_opened' = FALSE
    /\ UNCHANGED <<model, keep_alive_list, pending_fetch_nodes, callVars, tails,
                   waiters, published>>

-----------------------------------------------------------------------------
\* The fetcher answers; calls of a lost channel answer with an error or late.
Answer(n) ==
    \/ NodeFetched(n)
    \/ NodeFetchFails(n)
    \/ ChildrenFetched(n)
    \/ ChildrenFetchFails(n)

TailStep(n) ==
    \E t \in tails : t.owner = n /\ (TailFetches(t) \/ TailShows(t) \/ TailEnds(t))

Next ==
    \/ \E n \in Nodes : \E want \in Wants[n] : StartFetch(n, want) \/ Fetch(n, want)
    \/ \E n \in Nodes : Answer(n) \/ TailStep(n)
    \/ \E n \in Deletable : NodeDeleted(n)
    \/ OnChannelOpened
    \/ OnChannelClosed

Spec == Init /\ [][Next]_vars

\* Calls are answered, the executor runs coroutines, the session reconnects.
Fairness ==
    /\ \A n \in Nodes :
          /\ WF_vars(NodeFetched(n) \/ NodeFetchFails(n))
          /\ WF_vars(ChildrenFetched(n) \/ ChildrenFetchFails(n))
          /\ WF_vars(TailStep(n))
    /\ WF_vars(OnChannelOpened)

FairSpec == Spec /\ Fairness

-----------------------------------------------------------------------------
(* Properties.                                                             *)

TailsOf(n) == {t \in tails : t.owner = n}

\* The guards are exactly the fetches: no two fetches of a kind run for a node, the
\* tail of a children fetch included, and no guard outlives its fetch, which would
\* make every later request of the node a no-op.
GuardsMatchFetches ==
    \A n \in Nodes :
        /\ nodeCalls[n] = IF n \in node_fetch_in_flight THEN 1 ELSE 0
        /\ childrenCalls[n] + Cardinality(TailsOf(n)) =
              IF n \in children_fetch_in_flight THEN 1 ELSE 0

\* A request for the node that waits on the model is served: a fetch is under way,
\* or it is queued until the channel opens.
NodeWaitersAreServed ==
    \A n \in Nodes :
        \/ \A w \in waiters[n] : "node" \notin w \/ "node" \in model[n].have
        \/ nodeCalls[n] > 0
        \/ ~channel_opened /\ "node" \in pending_fetch_nodes[n]

\* The same for the children.
ChildrenWaitersAreServed ==
    \A n \in Nodes :
        \/ \A w \in waiters[n] : "children" \notin w \/ "children" \in model[n].have
        \/ childrenCalls[n] > 0
        \/ \E t \in TailsOf(n) : t.live
        \/ ~channel_opened /\ "children" \in pending_fetch_nodes[n]

\* Observers are push-only: the last snapshot they got of a fetched node is what its
\* model holds, whoever changed it last - the node's own fetch, a neighbour's mirror
\* or the tail of a children fetch - and nothing is in it twice: what a neighbour
\* mirrored and what the children fetch reported do not overlap, in whatever order
\* they arrive.
SnapshotsAreCurrent ==
    \A n \in Nodes :
        /\ (model[n].status = "good" /\ "node" \in model[n].have) =>
              published[n] = SnapshotOf(model[n])
        /\ model[n].refs \cap model[n].kids = {}

\* A living model never forgets what it fetched: a node fetch that ends after the
\* children fetch keeps the children's bit, or every view asks for them again.
FetchStatusOnlyGrows ==
    [][\A n \in Nodes : (Resident(n) /\ Resident(n)') => model[n].have \subseteq model'[n].have]_vars

\* A children fetch comes to its end, although its tail waits for other fetches and
\* views keep asking for the children on every notification.
ChildrenFetchSettles ==
    \A n \in Nodes : n \in children_fetch_in_flight ~> n \notin children_fetch_in_flight

=============================================================================
