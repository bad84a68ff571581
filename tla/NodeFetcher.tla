----------------------------- MODULE NodeFetcher -----------------------------
(***************************************************************************)
(* The legacy node fetcher (NodeFetcherImpl, FetchingNodeGraph,            *)
(* FetchQueue).  Nodes to fetch wait in a queue, go out in batches, one    *)
(* read and one browse per batch, and are handed to the service once both  *)
(* answers are in for the node and for everything it depends on.  Answers  *)
(* report further nodes, which join the queue and the dependencies.        *)
(*                                                                         *)
(* The queue's heap loses its order, because FetchNode changes the key of  *)
(* a queued node in place, so a batch is any part of the queue.  One turn  *)
(* of the loop of FetchPendingNodes is a step: the completion handler and  *)
(* services that answer at once call the fetcher between two turns.        *)
(***************************************************************************)
EXTENDS Naturals, FiniteSets

CONSTANTS
  Ids,              \* node ids
  Root,             \* RootFolder
  Children,         \* Ids -> SUBSET Ids: forward Aggregates
  Forward,          \* Ids -> SUBSET Ids: forward NonHierarchicalReferences,
                    \* and the types of the references the node reports
  Inverses,         \* Ids -> SUBSET Ids: inverse NonHierarchicalReferences
  Parents,          \* Ids -> SUBSET Ids: the inverse HierarchicalReferences
  DataTypes,        \* Ids -> SUBSET Ids: the DataType attribute
  Properties,       \* the nodes whose parent reference is HasProperty
  Types,            \* the nodes of a type class
  Valid,            \* the nodes node_validator_ accepts from the start
  Statuses,         \* the fetch statuses callers ask for (sets of dimensions)
  MaxBatch,         \* kMaxRequestNodeCount
  MaxRunning,       \* kMaxParallelRequestCount
  Failing,          \* the nodes whose reads and browses may fail
  Asked,            \* bound: the nodes callers fetch and cancel
  MaxFetches,       \* bound: calls of Fetch
  MaxCancels,       \* bound: calls of Cancel
  MaxChanges        \* bound: changes of a node on the server

ASSUME FetcherAssumption ==
  /\ {Children, Forward, Inverses, Parents, DataTypes} \subseteq [Ids -> SUBSET Ids]
  /\ Properties \cup Types \cup Valid \cup Failing \cup Asked \subseteq Ids
  /\ \A status \in Statuses :
       status \subseteq {"NodeOnly", "ChildrenOnly", "Inverse"} /\ "NodeOnly" \in status
  /\ MaxBatch \in Nat \ {0}
  /\ MaxRunning \in Nat

\* The parent that reports a child is the child's parent.
ASSUME ParentAssumption ==
  /\ Parents \in [Ids -> SUBSET Ids]
  /\ \A n \in Ids : \A c \in Children[n] : Parents[c] \subseteq {n}
  /\ Root \in Ids => Parents[Root] = {}

VARIABLES
  graph,      \* fetching_nodes_, by node id
  draining,   \* draining_pending_queue_
  reads,      \* Read calls under way
  browses,    \* Browse calls under way
  running,    \* running_request_count_
  next_id,    \* next_request_id_
  valid,      \* the nodes node_validator_ accepts: what the service has
  aborted,    \* a Check failed
  version,    \* how often each node changed on the server
  floor,      \* ghost: the version when Fetch was last forced
  shown,      \* ghost: what the service was handed last, with the floor then
  excused,    \* ghost: the nodes that failed or were cancelled
  calls       \* calls made so far (bounds)

vars == <<graph, draining, reads, browses, running, next_id, valid, aborted,
          version, floor, shown, excused, calls>>

server == <<version, floor, calls>>

NewNode ==
  [pending |-> FALSE, wanted |-> {}, started |-> {}, request |-> 0,
   attributes |-> FALSE, references |-> FALSE, good |-> TRUE, depends |-> {},
   parent |-> FALSE, property |-> FALSE, declaration |-> FALSE, type |-> FALSE,
   version |-> 0]

\* AddNode: the node of an id, or a new one.
NodeAt(g, n) == IF n \in DOMAIN g THEN g[n] ELSE NewNode

Fetched(node) == node.attributes /\ node.references

Queue == {n \in DOMAIN graph : graph[n].pending}

-----------------------------------------------------------------------------
(* FetchNode.                                                              *)

Reset(node) ==
  [node EXCEPT !.started = {}, !.request = 0, !.attributes = FALSE,
               !.references = FALSE, !.good = TRUE]

\* Mutant: a node that is fetched wider or anew is not queued again.
MutantFetchNode(node, status, force) ==
  IF node.started # {}
    THEN IF status \subseteq node.started /\ ~force THEN node ELSE Reset(node)
    ELSE [node EXCEPT !.pending = TRUE, !.wanted = @ \cup status]

FetchNode(node, status, force) ==
  IF node.started # {} /\ status \subseteq node.started /\ ~force
    THEN node
    ELSE [IF node.started = {} THEN node ELSE Reset(node)
            EXCEPT !.pending = TRUE, !.wanted = @ \cup status]

\* ValidateDependency for each edge <<node, from>>, and the edges between a
\* parent and its children, which are fetched whether the service has them
\* or not.
Depend(g, edges) ==
  LET from == {e[2] : e \in edges}
  IN  [m \in DOMAIN g \cup from |->
         LET node == IF m \in from THEN FetchNode(NodeAt(g, m), {"NodeOnly"}, FALSE)
                                   ELSE g[m]
         IN  [node EXCEPT !.depends = @ \cup {e[2] : e \in {x \in edges : x[1] = m}}]]

Unknown(n, ids) == {<<n, d>> : d \in ids \ (valid \cup {n})}

-----------------------------------------------------------------------------
(* GetFetchedNodes and NotifyFetchedNodes.                                 *)

\* Mutant: a cycle means not fetched.
MutantAcyclic(g) ==
  {m \in DOMAIN g : \A S \in SUBSET DOMAIN g :
     (\A k \in DOMAIN g : Fetched(g[k]) /\ g[k].depends \subseteq S => k \in S) => m \in S}

\* Mutant: what the node depends on itself is looked at, but no further.
MutantFetchedRecursively(g) ==
  {m \in DOMAIN g : /\ Fetched(g[m])
                    /\ \A d \in g[m].depends : Fetched(g[d])}

\* The nodes that are fetched with all they depend on, directly or not.
FetchedRecursively(g) ==
  UNION {S \in SUBSET DOMAIN g : \A m \in S : Fetched(g[m]) /\ g[m].depends \subseteq S}

Without(g, gone) ==
  [m \in DOMAIN g \ gone |-> [g[m] EXCEPT !.depends = @ \ gone]]

\* What is done leaves the graph; what went well is in the service then.
\* (The singletons make TLC evaluate a graph once.)
Notify(next, lost) ==
  \E g \in {next} : \E done \in {FetchedRecursively(g)} :
    LET good == {n \in done : g[n].good}
    IN  /\ graph' = Without(g, done)
        /\ valid' = valid \cup good
        /\ shown' = [n \in Ids |-> IF n \in good
                                    THEN [version |-> g[n].version, floor |-> floor[n]]
                                    ELSE shown[n]]
        /\ excused' = excused \cup lost \cup (done \ good)

-----------------------------------------------------------------------------
(* Callers.                                                                *)

Fetch(n, status, force) ==
  /\ calls.fetch < MaxFetches
  /\ graph' = [m \in DOMAIN graph \cup {n} |->
                 IF m = n THEN FetchNode(NodeAt(graph, n), status, force)
                          ELSE graph[m]]
  /\ draining' = (draining \/ graph' # graph)
  /\ floor' = IF force THEN [floor EXCEPT ![n] = version[n]] ELSE floor
  /\ calls' = [calls EXCEPT !.fetch = @ + 1]
  /\ UNCHANGED <<reads, browses, running, next_id, valid, aborted, version,
                 shown, excused>>

WithoutNode(g, n) == Without(g, {n})

Cancel(n) ==
  /\ calls.cancel < MaxCancels
  /\ n \in DOMAIN graph
  /\ Notify(WithoutNode(graph, n), {n})
  /\ draining' = TRUE
  /\ calls' = [calls EXCEPT !.cancel = @ + 1]
  /\ UNCHANGED <<reads, browses, running, next_id, aborted, version, floor>>

-----------------------------------------------------------------------------
(* FetchPendingNodes.                                                      *)

\* GetFetchReferences.
Descriptions(n, node) ==
  (IF node.property THEN {} ELSE {"children"})
  \cup (IF node.property /\ ~node.declaration THEN {} ELSE {"forward"})
  \cup (IF "Inverse" \in node.started THEN {"inverse"} ELSE {})
  \cup (IF n = Root \/ node.parent THEN {} ELSE {"parent"})

HasRoom == running + 2 <= MaxRunning

Started(n) ==
  LET node == [graph[n] EXCEPT !.pending = FALSE, !.started = graph[n].wanted,
                               !.request = next_id, !.attributes = FALSE]
  IN  [node EXCEPT !.references = Descriptions(n, node) = {}]

\* A batch with nothing to browse has its browse answered inline, which is
\* where the nodes that are done are looked for.
Send(batch) ==
  LET g == [m \in DOMAIN graph |-> IF m \in batch THEN Started(m) ELSE graph[m]]
      browsed == {n \in batch : Descriptions(n, g[n]) # {}}
      inline == browsed = {}
  IN  /\ reads' = reads \cup {[request |-> next_id,
                               version |-> [n \in batch |-> version[n]]]}
      /\ browses' = IF inline THEN browses
                    ELSE browses \cup {[request |-> next_id,
                                        wants |-> [n \in browsed |->
                                                     Descriptions(n, g[n])]]}
      /\ running' = IF inline THEN running + 1 ELSE running + 2
      /\ next_id' = next_id + 1
      /\ IF inline THEN Notify(g, {})
                   ELSE graph' = g /\ UNCHANGED <<valid, shown, excused>>

DrainStep ==
  /\ draining
  /\ Queue # {} /\ HasRoom
  /\ \E batch \in SUBSET Queue :
       /\ Cardinality(batch) = IF Cardinality(Queue) < MaxBatch
                                 THEN Cardinality(Queue) ELSE MaxBatch
       /\ Send(batch)
  /\ UNCHANGED <<draining, aborted, server>>

DrainEnds ==
  /\ draining
  /\ Queue = {} \/ ~HasRoom
  /\ draining' = FALSE
  /\ UNCHANGED <<graph, reads, browses, running, next_id, valid, aborted, shown,
                 excused, server>>

-----------------------------------------------------------------------------
(* OnReadResult and OnBrowseResult.                                        *)

\* Mutant: an answer is taken whatever request it belongs to.
MutantAccepted(nodes, request) ==
  {n \in nodes \cap DOMAIN graph : graph[n].started # {}}

Accepted(nodes, request) ==
  {n \in nodes \cap DOMAIN graph :
     graph[n].started # {} /\ graph[n].request = request}

Release ==
  /\ running' = running - 1
  /\ draining' = TRUE

\* A bad browse name fails the node, and so does a bad call.  The answer is
\* about the node as it was when the call was made.
ReadAnswer(call, bad) ==
  LET accepted == Accepted(DOMAIN call.version, call.request)
      good == accepted \ bad
      g == [m \in DOMAIN graph |->
              IF m \in accepted
                THEN [graph[m] EXCEPT !.attributes = TRUE,
                                      !.good = @ /\ m \notin bad,
                                      !.type = @ \/ (m \in good /\ m \in Types),
                                      !.version = call.version[m]]
                ELSE graph[m]]
  IN  /\ call \in reads
      /\ reads' = reads \ {call}
      /\ Notify(Depend(g, UNION {Unknown(n, DataTypes[n]) : n \in good}), {})
      /\ Release
      /\ UNCHANGED <<browses, next_id, aborted, server>>

\* AddFetchedReference of the children, the references and the parent that
\* the answer for n reports.
ChildEdges(n, wants) ==
  IF "children" \in wants
    THEN {<<c, n>> : c \in Children[n]} \cup {<<n, c>> : c \in Children[n]}
    ELSE {}

ReferenceEdges(n, wants) ==
  Unknown(n, (IF "forward" \in wants THEN Forward[n] ELSE {})
             \cup (IF "parent" \in wants THEN Parents[n] ELSE {}))

\* What a child learns from the parent's answer before it is asked for.
Introduced(g, parent, c) ==
  [NodeAt(g, c) EXCEPT
     !.parent = TRUE,
     !.property = @ \/ c \in Properties,
     !.declaration = IF c \in Properties THEN g[parent].type ELSE @]

BrowseAnswer(call, bad) ==
  LET accepted == Accepted(DOMAIN call.wants, call.request)
      good == accepted \ bad
      applied == [m \in DOMAIN graph |->
                    IF m \in accepted
                      THEN [graph[m] EXCEPT !.references = TRUE,
                                            !.good = @ /\ m \notin bad,
                                            !.parent = @ \/ /\ m \in good
                                                            /\ "parent" \in call.wants[m]
                                                            /\ Parents[m] # {}]
                      ELSE graph[m]]
      parents == {n \in good : "children" \in call.wants[n]}
      children == UNION {Children[n] : n \in parents}
      g == [m \in DOMAIN graph \cup children |->
              IF m \in children
                THEN Introduced(applied, CHOOSE n \in parents : m \in Children[n], m)
                ELSE applied[m]]
      edges == UNION {ChildEdges(n, call.wants[n])
                      \cup ReferenceEdges(n, call.wants[n]) : n \in good}
  IN  /\ call \in browses
      /\ browses' = browses \ {call}
      /\ Notify(Depend(g, edges), {})
      /\ Release
      /\ aborted' = (aborted \/ \E n \in good : /\ "inverse" \in call.wants[n]
                                                /\ Inverses[n] # {})
      /\ UNCHANGED <<reads, next_id, server>>

\* The node changes on the server; who forces a fetch wants to see it.
ServerChanges(n) ==
  /\ calls.change < MaxChanges
  /\ version' = [version EXCEPT ![n] = @ + 1]
  /\ calls' = [calls EXCEPT !.change = @ + 1]
  /\ UNCHANGED <<graph, draining, reads, browses, running, next_id, valid, aborted,
                 floor, shown, excused>>

Init ==
  /\ graph = [n \in {} |-> NewNode]
  /\ draining = FALSE
  /\ reads = {}
  /\ browses = {}
  /\ running = 0
  /\ next_id = 1
  /\ valid = Valid
  /\ aborted = FALSE
  /\ version = [n \in Ids |-> 0]
  /\ floor = [n \in Ids |-> 0]
  /\ shown = [n \in Ids |-> [version |-> 0, floor |-> 0]]
  /\ excused = {}
  /\ calls = [fetch |-> 0, cancel |-> 0, change |-> 0]

Answers ==
  \/ \E call \in reads : \E bad \in SUBSET (Failing \cap DOMAIN call.version) :
       ReadAnswer(call, bad)
  \/ \E call \in browses : \E bad \in SUBSET (Failing \cap DOMAIN call.wants) :
       BrowseAnswer(call, bad)

Next ==
  \/ /\ ~aborted
     /\ \/ \E n \in Asked, status \in Statuses, force \in BOOLEAN :
             Fetch(n, status, force)
        \/ \E n \in Asked : Cancel(n)
        \/ DrainStep
        \/ DrainEnds
        \/ Answers
  \/ \E n \in Asked : ServerChanges(n)

Spec == Init /\ [][Next]_vars

\* The executor runs the loop to its end, and the services answer.
FairSpec == Spec /\ WF_vars(DrainStep) /\ WF_vars(DrainEnds) /\ WF_vars(Answers)

-----------------------------------------------------------------------------
(* Properties.                                                             *)

Flags == {"pending", "attributes", "references", "good", "parent", "property",
          "declaration", "type"}

\* Types of the fetcher's state; what a node depends on is in the graph.
FetcherTypeOK ==
  /\ DOMAIN graph \subseteq Ids
  /\ \A n \in DOMAIN graph :
       /\ \A flag \in Flags : graph[n][flag] \in BOOLEAN
       /\ graph[n].started \subseteq graph[n].wanted
       /\ graph[n].request < next_id
       /\ graph[n].depends \subseteq DOMAIN graph
       /\ graph[n].pending => graph[n].started = {}
  /\ draining \in BOOLEAN /\ aborted \in BOOLEAN
  /\ valid \subseteq Ids /\ excused \subseteq Ids
  /\ \A call \in reads \cup browses : call.request \in 1..next_id - 1

\* No node is forgotten: a node that is not done waits in the queue, or waits
\* for an answer that is still to come and will be taken, or waits for others
\* (a reset, a superseded request or a cancelled dependency must not leave a
\* node between the two).  And the queue moves: running_request_count_ counts the
\* calls under way, stays within the limit, and while there is room for a batch
\* the loop runs; every answer, of a cancelled request as well, gives its slot
\* back and resumes the queue.
EveryNodeIsOnItsWay ==
  /\ \A n \in DOMAIN graph :
       \/ graph[n].pending
       \/ Fetched(graph[n])
       \/ /\ graph[n].started # {}
          /\ \/ graph[n].attributes
             \/ \E call \in reads :
                  call.request = graph[n].request /\ n \in DOMAIN call.version
          /\ \/ graph[n].references
             \/ \E call \in browses :
                  call.request = graph[n].request /\ n \in DOMAIN call.wants
  /\ running = Cardinality(reads) + Cardinality(browses)
  /\ running <= MaxRunning
  /\ Queue # {} /\ HasRoom => draining

\* What a node cannot be used without.  The references of a property that is
\* no declaration are not asked for.
Needs(n) ==
  IF n \in Properties THEN DataTypes[n]
                      ELSE Children[n] \cup Forward[n] \cup DataTypes[n] \cup Parents[n]

\* A node the service is handed can be used: its children, the nodes it refers
\* to, its data type and its parent have been handed over with it or before,
\* unless they failed or were cancelled.
HandedNodesAreUsable ==
  \A n \in valid \ Valid : Needs(n) \subseteq valid \cup excused

\* The fetcher keeps the promise of NodeDelivery: every node that leaves the
\* graph does so handed over, with all it needs, or given up, and whatever the
\* service was handed stays.
Delivery == INSTANCE NodeDelivery WITH
  Required <- [n \in Ids |-> Needs(n)], Initial <- Valid,
  asked <- DOMAIN graph, known <- valid, lost <- excused

ImplementsDelivery == Delivery!Spec

\* A forced fetch shows the node as it was when it was forced, or later: the
\* answer to a request made before cannot complete it.
ForcedFetchIsFresh ==
  \A n \in Ids : shown[n].version >= shown[n].floor

\* Every fetch ends, whatever the nodes depend on and whichever requests are
\* superseded, fail or are cancelled.
EveryFetchEnds ==
  \A n \in Ids : n \in DOMAIN graph ~> n \notin DOMAIN graph
=============================================================================
