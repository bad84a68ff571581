-------------------------- MODULE NodeFetcher_proofs --------------------------
(***************************************************************************)
(* What the fetcher hands over is usable and as fresh as was asked for,    *)
(* and the fetcher keeps the promise of NodeDelivery.                      *)
(***************************************************************************)
EXTENDS NodeFetcher, FiniteSetTheorems, TLAPS

Dimensions == {"NodeOnly", "ChildrenOnly", "Inverse"}

Node ==
  [pending : BOOLEAN, wanted : SUBSET Dimensions, started : SUBSET Dimensions,
   request : Nat, attributes : BOOLEAN, references : BOOLEAN, good : BOOLEAN,
   depends : SUBSET Ids, parent : BOOLEAN, property : BOOLEAN,
   declaration : BOOLEAN, type : BOOLEAN, version : Nat]

-----------------------------------------------------------------------------
(* The inductive invariant.                                                *)

\* A node that is not asked for yet has nothing of an answer.
Idle(node) ==
  /\ node.started = {} /\ node.request = 0
  /\ ~node.attributes /\ ~node.references

NodeOK(node, limit) ==
  /\ node \in Node
  /\ node.pending <=> node.started = {}
  /\ node.pending => node.wanted # {}
  /\ node.started = {} => Idle(node)
  /\ node.started \subseteq node.wanted
  /\ node.request < limit

\* What a node needs and its answers have named is among its dependencies,
\* or was handed over or given up before.
Covered(n, node, settled) ==
  /\ node.references /\ node.good /\ n \notin Properties
       => Children[n] \cup Forward[n] \cup Parents[n]
            \subseteq node.depends \cup settled \cup {n}
  /\ node.attributes /\ node.good => DataTypes[n] \subseteq node.depends \cup settled \cup {n}
  /\ node.parent => Parents[n] \subseteq node.depends \cup settled \cup {n}
  /\ node.property => n \in Properties

\* A graph where the nodes of settled are done, request numbers are below
\* limit and no attributes are older than least.
GraphOK(g, settled, limit, least) ==
  /\ DOMAIN g \subseteq Ids
  /\ g \in [DOMAIN g -> Node]
  /\ \A n \in DOMAIN g : /\ NodeOK(g[n], limit)
                         /\ g[n].depends \subseteq DOMAIN g
                         /\ Covered(n, g[n], settled)
                         /\ g[n].attributes => g[n].version >= least[n]

\* A call that a node waits for is not older than the last forced fetch, and
\* asks for all the node needs.
ReadOK(call, g, limit, least) ==
  /\ call.request \in 1..limit - 1
  /\ call.version \in [DOMAIN call.version -> Nat]
  /\ \A n \in DOMAIN call.version \cap DOMAIN g :
       g[n].request = call.request => call.version[n] >= least[n]

BrowseOK(call, g, limit) ==
  /\ call.request \in 1..limit - 1
  /\ \A n \in DOMAIN call.wants \cap DOMAIN g :
       g[n].request = call.request /\ n \notin Properties
         => /\ {"children", "forward"} \subseteq call.wants[n]
            /\ "parent" \in call.wants[n] \/ n = Root \/ g[n].parent

CallsOK(g, limit, least) ==
  /\ \A call \in reads : ReadOK(call, g, limit, least)
  /\ \A call \in browses : BrowseOK(call, g, limit)

ServiceOK ==
  /\ Valid \subseteq valid /\ valid \subseteq Ids /\ excused \subseteq Ids
  /\ shown \in [Ids -> [version : Nat, floor : Nat]]
  /\ HandedNodesAreUsable
  /\ ForcedFetchIsFresh

CountersOK ==
  /\ next_id \in Nat \ {0}
  /\ version \in [Ids -> Nat] /\ floor \in [Ids -> Nat]
  /\ \A n \in Ids : floor[n] <= version[n]
  /\ draining \in BOOLEAN /\ aborted \in BOOLEAN

\* A node that was asked for has each answer, or waits for a call that will be
\* taken: rs and bs are the reads and the browses under way.
AwaitedIn(g, rs, bs) ==
  \A n \in DOMAIN g : g[n].started # {} =>
    /\ g[n].attributes \/ \E call \in rs : call.request = g[n].request
                                           /\ n \in DOMAIN call.version
    /\ g[n].references \/ \E call \in bs : call.request = g[n].request
                                           /\ n \in DOMAIN call.wants

FetcherInv ==
  /\ CountersOK
  /\ ServiceOK
  /\ GraphOK(graph, valid \cup excused, next_id, floor)
  /\ CallsOK(graph, next_id, floor)
  /\ AwaitedIn(graph, reads, browses)

-----------------------------------------------------------------------------
(* Nodes and graphs.                                                       *)

\* What FetchNode leaves alone.
SameNode(a, b) ==
  /\ a.depends = b.depends /\ a.parent = b.parent
  /\ a.property = b.property /\ a.version = b.version

Requeued(node) == node.pending /\ node.wanted # {} /\ Idle(node)

\* FetchNode leaves a node as it is or puts it into the queue, with nothing of
\* an answer.
LEMMA FetchNodeResult ==
  ASSUME NEW node \in Node, NEW status \in SUBSET Dimensions, NEW force \in BOOLEAN,
         status # {}, node.started = {} => Idle(node), node.started \subseteq node.wanted,
         NEW res, res = FetchNode(node, status, force)
  PROVE  /\ res \in Node
         /\ res.started \subseteq res.wanted
         /\ SameNode(res, node)
         /\ Requeued(res) \/ (res = node /\ node.started # {} /\ ~force)
<1>1. CASE node.started # {} /\ status \subseteq node.started /\ ~force
  BY <1>1 DEF FetchNode, SameNode
<1>2. CASE ~(node.started # {} /\ status \subseteq node.started /\ ~force)
  <2> DEFINE base == IF node.started = {} THEN node ELSE Reset(node)
  <2>1. base \in Node /\ SameNode(base, node) /\ Idle(base)
    BY DEF Reset, Node, SameNode, Idle
  <2>2. res = [base EXCEPT !.pending = TRUE, !.wanted = @ \cup status]
    BY <1>2 DEF FetchNode
  <2> HIDE DEF base
  <2> QED BY <2>1, <2>2 DEF Node, SameNode, Idle, Requeued
<1> QED BY <1>1, <1>2

\* A new node is a node.
LEMMA NewNodeIsNode == NewNode \in Node /\ Idle(NewNode) /\ NewNode.wanted = {}
                        /\ ~NewNode.parent /\ ~NewNode.property /\ NewNode.depends = {}
  BY DEF NewNode, Node, Idle

\* A graph whose queue is still to be brought up to date.
Draft(g, limit) ==
  /\ DOMAIN g \subseteq Ids
  /\ \A n \in DOMAIN g : /\ g[n] \in Node
                         /\ g[n].started = {} => Idle(g[n])
                         /\ g[n].started \subseteq g[n].wanted
                         /\ g[n].request < limit

\* Depend adds the edges, and the nodes they lead to are there and either as
\* they were or queued.
LEMMA DependResult ==
  ASSUME NEW g, NEW limit \in Nat \ {0}, Draft(g, limit),
         NEW edges \in SUBSET (Ids \X Ids), NEW h, h = Depend(g, edges)
  PROVE  /\ DOMAIN h = DOMAIN g \cup {e[2] : e \in edges}
         /\ \A m \in DOMAIN h :
              LET node == NodeAt(g, m)
              IN  /\ h[m] \in Node
                  /\ h[m].started \subseteq h[m].wanted
                  /\ h[m].request < limit
                  /\ h[m].depends = node.depends \cup {e[2] : e \in {x \in edges : x[1] = m}}
                  /\ h[m].parent = node.parent /\ h[m].property = node.property
                  /\ h[m].version = node.version
                  /\ \/ Requeued(h[m])
                     \/ /\ m \in DOMAIN g
                        /\ m \in {e[2] : e \in edges} => g[m].started # {}
                        /\ h[m] = [g[m] EXCEPT !.depends = h[m].depends]
<1> DEFINE from == {e[2] : e \in edges}
           out(m) == {e[2] : e \in {x \in edges : x[1] = m}}
           base(m) == IF m \in from THEN FetchNode(NodeAt(g, m), {"NodeOnly"}, FALSE) ELSE g[m]
<1>1. h = [m \in DOMAIN g \cup from |-> [base(m) EXCEPT !.depends = @ \cup out(m)]]
  BY DEF Depend
<1>2. DOMAIN h = DOMAIN g \cup from
  BY <1>1
<1>3. ASSUME NEW m \in DOMAIN h
      PROVE  /\ NodeAt(g, m) \in Node
             /\ NodeAt(g, m).started = {} => Idle(NodeAt(g, m))
             /\ NodeAt(g, m).started \subseteq NodeAt(g, m).wanted
             /\ NodeAt(g, m).request < limit
  BY <1>2, NewNodeIsNode DEF NodeAt, Draft, Idle
<1>4. ASSUME NEW m \in DOMAIN h
      PROVE  /\ base(m) \in Node
             /\ base(m).started \subseteq base(m).wanted
             /\ SameNode(base(m), NodeAt(g, m))
             /\ \/ Requeued(base(m))
                \/ base(m) = g[m] /\ m \in DOMAIN g /\ (m \in from => g[m].started # {})
  <2>1. CASE m \in from
    <3>1. {"NodeOnly"} \in SUBSET Dimensions
      BY DEF Dimensions
    <3> DEFINE node == NodeAt(g, m)
    <3>a. base(m) = FetchNode(node, {"NodeOnly"}, FALSE)
      BY <2>1
    <3>b. node \in Node /\ (node.started = {} => Idle(node)) /\ node.started \subseteq node.wanted
      BY <1>3
    <3> HIDE DEF base, node
    <3>c. /\ base(m) \in Node
          /\ base(m).started \subseteq base(m).wanted
          /\ SameNode(base(m), node)
          /\ Requeued(base(m)) \/ (base(m) = node /\ node.started # {} /\ ~FALSE)
      BY <3>1, <3>a, <3>b, FetchNodeResult
    <3>2. /\ base(m) \in Node
          /\ base(m).started \subseteq base(m).wanted
          /\ SameNode(base(m), NodeAt(g, m))
          /\ \/ Requeued(base(m))
             \/ base(m) = NodeAt(g, m) /\ NodeAt(g, m).started # {}
      BY <3>c DEF node
    <3> HIDE DEF base
    <3> QED BY <3>2, NewNodeIsNode DEF NodeAt, Idle
  <2>2. CASE m \notin from
    <3>1. m \in DOMAIN g /\ base(m) = g[m] /\ NodeAt(g, m) = g[m]
      BY <2>2, <1>2 DEF NodeAt
    <3> QED BY <3>1, <1>3, <2>2 DEF SameNode
  <2> QED BY <2>1, <2>2
<1>5. ASSUME NEW m \in DOMAIN h
      PROVE  out(m) \subseteq Ids
  OBVIOUS
<1> HIDE DEF base
<1>6. ASSUME NEW m \in DOMAIN h
      PROVE  /\ h[m] \in Node
             /\ h[m].started \subseteq h[m].wanted
             /\ h[m].request < limit
             /\ h[m].depends = NodeAt(g, m).depends \cup out(m)
             /\ h[m].parent = NodeAt(g, m).parent /\ h[m].property = NodeAt(g, m).property
             /\ h[m].version = NodeAt(g, m).version
             /\ \/ Requeued(h[m])
                \/ /\ m \in DOMAIN g
                   /\ m \in from => g[m].started # {}
                   /\ h[m] = [g[m] EXCEPT !.depends = h[m].depends]
  <2>1. h[m] = [base(m) EXCEPT !.depends = base(m).depends \cup out(m)]
    BY <1>1, <1>2
  <2>2. h[m] \in Node /\ h[m].depends = base(m).depends \cup out(m)
    BY <2>1, <1>4, <1>5 DEF Node
  <2>3. Requeued(base(m)) => Requeued(h[m]) /\ h[m].request = 0
    BY <2>1, <1>4 DEF Node, Requeued, Idle
  <2>4. base(m) = g[m] /\ m \in DOMAIN g => h[m].request = g[m].request
    BY <2>1, <1>4 DEF Node
  <2>5. h[m].request < limit
    BY <2>3, <2>4, <1>4 DEF Draft
  <2> HIDE DEF out
  <2> QED BY <2>1, <2>2, <2>3, <2>5, <1>4 DEF Node, SameNode
<1> QED BY <1>2, <1>6

\* Nodes that leave the graph are settled.
LEMMA WithoutKeepsGraph ==
  ASSUME NEW g, NEW settled, NEW limit, NEW least, GraphOK(g, settled, limit, least),
         NEW gone, NEW h, h = Without(g, gone)
  PROVE  /\ GraphOK(h, settled \cup gone, limit, least)
         /\ DOMAIN h = DOMAIN g \ gone
<1>1. /\ DOMAIN h = DOMAIN g \ gone
      /\ \A n \in DOMAIN h : h[n] = [g[n] EXCEPT !.depends = g[n].depends \ gone]
  BY DEF Without
<1>2. ASSUME NEW n \in DOMAIN h
      PROVE  /\ h[n] \in Node
             /\ h[n].depends = g[n].depends \ gone
             /\ NodeOK(h[n], limit)
             /\ h[n].attributes => h[n].version >= least[n]
             /\ Covered(n, h[n], settled \cup gone)
  <2>1. g[n] \in Node /\ NodeOK(g[n], limit) /\ Covered(n, g[n], settled)
        /\ (g[n].attributes => g[n].version >= least[n])
    BY <1>1 DEF GraphOK
  <2>2. h[n] \in Node /\ h[n].depends = g[n].depends \ gone
    BY <1>1, <2>1 DEF Node
  <2>3. /\ h[n].request = g[n].request /\ h[n].parent = g[n].parent
        /\ h[n].property = g[n].property /\ h[n].version = g[n].version
        /\ h[n].pending = g[n].pending /\ h[n].started = g[n].started
        /\ h[n].wanted = g[n].wanted /\ h[n].attributes = g[n].attributes
        /\ h[n].references = g[n].references /\ h[n].good = g[n].good
    BY <1>1, <2>1 DEF Node
  <2>4. NodeOK(h[n], limit)
    BY <2>1, <2>2, <2>3 DEF NodeOK, Idle
  <2>5. Covered(n, h[n], settled \cup gone)
    BY <2>1, <2>2, <2>3 DEF Covered
  <2> QED BY <2>1, <2>2, <2>3, <2>4, <2>5
<1>3. h \in [DOMAIN h -> Node]
  BY <1>2 DEF Without
<1>4. DOMAIN h \subseteq Ids /\ \A n \in DOMAIN h : h[n].depends \subseteq DOMAIN h
  BY <1>1, <1>2 DEF GraphOK
<1> QED BY <1>1, <1>2, <1>3, <1>4 DEF GraphOK

\* Nodes that go on waiting for the same call, or for none, leave the calls
\* as they are.
LEMMA CallsFollow ==
  ASSUME NEW g, NEW h, NEW limit \in Nat \ {0}, NEW least, NEW call,
         \A n \in DOMAIN h :
           \/ h[n].request \notin 1..limit - 1
           \/ /\ n \in DOMAIN g /\ h[n].request = g[n].request
              /\ g[n].parent => h[n].parent
  PROVE  /\ ReadOK(call, g, limit, least) => ReadOK(call, h, limit, least)
         /\ BrowseOK(call, g, limit) => BrowseOK(call, h, limit)
<1>1. ReadOK(call, g, limit, least) => ReadOK(call, h, limit, least)
  BY DEF ReadOK
<1>2. BrowseOK(call, g, limit) => BrowseOK(call, h, limit)
  BY DEF BrowseOK
<1> QED BY <1>1, <1>2

\* What is fetched recursively is closed under the dependencies.
LEMMA FetchedRecursivelyIsClosed ==
  ASSUME NEW g, NEW n \in FetchedRecursively(g)
  PROVE  /\ n \in DOMAIN g /\ Fetched(g[n])
         /\ g[n].depends \subseteq FetchedRecursively(g)
<1>1. PICK S \in SUBSET DOMAIN g :
        n \in S /\ \A m \in S : Fetched(g[m]) /\ g[m].depends \subseteq S
  BY DEF FetchedRecursively
<1>2. S \subseteq FetchedRecursively(g)
  BY <1>1 DEF FetchedRecursively
<1> QED BY <1>1, <1>2

\* NotifyFetchedNodes: what it hands over is usable and fresh, and what stays
\* in the graph still leads to all it needs.
LEMMA NotifyResult ==
  ASSUME ServiceOK, floor \in [Ids -> Nat],
         NEW h, NEW limit, NEW lost \in SUBSET Ids,
         GraphOK(h, valid \cup excused \cup lost, limit, floor),
         Notify(h, lost)
  PROVE  /\ GraphOK(graph', valid' \cup excused', limit, floor)
         /\ \A n \in DOMAIN graph' : /\ n \in DOMAIN h
                                     /\ graph'[n].request = h[n].request
                                     /\ graph'[n].parent = h[n].parent
         /\ ServiceOK'
         /\ valid \subseteq valid' /\ excused \cup lost \subseteq excused'
         /\ DOMAIN h \ DOMAIN graph' \subseteq valid' \cup excused'
         /\ \A n \in (valid' \ valid) \cup (excused' \ (excused \cup lost)) :
              n \in DOMAIN h /\ Fetched(h[n])
<1> DEFINE done == FetchedRecursively(h)
           good == {n \in done : h[n].good}
           settled == valid \cup excused \cup lost
<1>1. /\ graph' = Without(h, done)
      /\ valid' = valid \cup good
      /\ shown' = [n \in Ids |-> IF n \in good
                                    THEN [version |-> h[n].version, floor |-> floor[n]]
                                    ELSE shown[n]]
      /\ excused' = excused \cup lost \cup (done \ good)
  BY DEF Notify
<1>2. ASSUME NEW n \in done
      PROVE  /\ n \in DOMAIN h /\ Fetched(h[n]) /\ h[n].depends \subseteq done
             /\ n \in Ids
  BY FetchedRecursivelyIsClosed DEF GraphOK
<1> HIDE DEF done
<1>3. valid' \cup excused' = settled \cup done
  BY <1>1
<1>4. /\ GraphOK(graph', settled \cup done, limit, floor)
      /\ DOMAIN graph' = DOMAIN h \ done
      /\ \A n \in DOMAIN graph' : /\ graph'[n].request = h[n].request
                                  /\ graph'[n].parent = h[n].parent
  <2>1. GraphOK(h, settled, limit, floor)
    OBVIOUS
  <2> HIDE DEF settled
  <2> DEFINE next == Without(h, done)
  <2>2. next = Without(h, done)
    OBVIOUS
  <2> HIDE DEF next
  <2>3. /\ GraphOK(next, settled \cup done, limit, floor)
        /\ DOMAIN next = DOMAIN h \ done
    BY <2>1, <2>2, WithoutKeepsGraph
  <2>4. graph' = next
    BY <1>1, <2>2
  <2>5. ASSUME NEW n \in DOMAIN next
        PROVE  next[n].request = h[n].request /\ next[n].parent = h[n].parent
    <3>1. h[n] \in Node /\ next[n] = [h[n] EXCEPT !.depends = h[n].depends \ done]
      BY <2>2, <2>3 DEF GraphOK, Without
    <3> QED BY <3>1 DEF Node
  <2> QED BY <2>3, <2>4, <2>5
<1>5. Valid \subseteq valid' /\ valid' \subseteq Ids /\ excused' \subseteq Ids
  BY <1>1, <1>2 DEF ServiceOK
<1>6. ASSUME NEW n \in good
      PROVE  /\ h[n].version \in Nat /\ h[n].version >= floor[n]
             /\ Needs(n) \subseteq settled \cup done
  <2>1. h[n] \in Node /\ h[n].attributes /\ h[n].references /\ h[n].good
    BY <1>2 DEF GraphOK, Fetched
  <2>2. Covered(n, h[n], settled) /\ h[n].version >= floor[n]
    BY <1>2, <2>1 DEF GraphOK
  <2>3. Needs(n) \subseteq h[n].depends \cup settled \cup {n}
    BY <2>1, <2>2 DEF Covered, Needs
  <2> QED BY <1>2, <2>1, <2>2, <2>3 DEF Node
<1>7. shown' \in [Ids -> [version : Nat, floor : Nat]]
  BY <1>1, <1>6 DEF ServiceOK
<1>8. ASSUME NEW n \in Ids
      PROVE  shown'[n].version >= shown'[n].floor
  BY <1>1, <1>6 DEF ServiceOK, ForcedFetchIsFresh
<1>9. ASSUME NEW n \in valid' \ Valid
      PROVE  Needs(n) \subseteq valid' \cup excused'
  <2>1. CASE n \in good
    BY <2>1, <1>3, <1>6
  <2>2. CASE n \notin good
    BY <2>2, <1>1 DEF ServiceOK, HandedNodesAreUsable
  <2> QED BY <2>1, <2>2
<1>10. ServiceOK'
  BY <1>5, <1>7, <1>8, <1>9 DEF ServiceOK, HandedNodesAreUsable, ForcedFetchIsFresh, Needs
<1> QED BY <1>1, <1>2, <1>3, <1>4, <1>10

\* What stays in the graph waits for what it waited for.
LEMMA NotifyKeepsAwaited ==
  ASSUME NEW h, \A n \in DOMAIN h : h[n] \in Node,
         NEW lost, Notify(h, lost),
         NEW rs, NEW bs, AwaitedIn(h, rs, bs)
  PROVE  AwaitedIn(graph', rs, bs)
<1> DEFINE done == FetchedRecursively(h)
<1>1. graph' = Without(h, done)
  BY DEF Notify
<1> HIDE DEF done
<1>2. ASSUME NEW n \in DOMAIN graph'
      PROVE  /\ n \in DOMAIN h
             /\ graph'[n].started = h[n].started /\ graph'[n].request = h[n].request
             /\ graph'[n].attributes = h[n].attributes
             /\ graph'[n].references = h[n].references
  <2>1. n \in DOMAIN h /\ graph'[n] = [h[n] EXCEPT !.depends = h[n].depends \ done]
    BY <1>1 DEF Without
  <2> QED BY <2>1 DEF Node
<1> QED BY <1>2 DEF AwaitedIn

Leads(edges, n) == {e[2] : e \in {x \in edges : x[1] = n}}

\* A graph that is in order but for the edges that are to be added and the
\* nodes they lead to, which may not be queued yet.
DraftOK(g, edges, settled, limit, least) ==
  /\ Draft(g, limit)
  /\ \A n \in DOMAIN g :
       /\ g[n].depends \subseteq DOMAIN g
       /\ g[n].pending => g[n].started = {} /\ g[n].wanted # {}
       /\ g[n].started = {} => g[n].pending \/ \E e \in edges : e[2] = n
       /\ Covered(n, [g[n] EXCEPT !.depends = @ \cup Leads(edges, n)], settled)
       /\ g[n].attributes => g[n].version >= least[n]

\* Depend brings a draft into order.
LEMMA DependKeepsGraph ==
  ASSUME NEW g, NEW limit \in Nat \ {0}, NEW settled, NEW least,
         NEW edges \in SUBSET (Ids \X Ids), DraftOK(g, edges, settled, limit, least),
         NEW h, h = Depend(g, edges)
  PROVE  /\ GraphOK(h, settled, limit, least)
         /\ DOMAIN g \subseteq DOMAIN h
         /\ \A n \in DOMAIN h :
              /\ Fetched(h[n]) => n \in DOMAIN g /\ Fetched(g[n])
              /\ \/ h[n].request = 0
                 \/ n \in DOMAIN g /\ h[n].request = g[n].request /\ h[n].parent = g[n].parent
<1> DEFINE from == {e[2] : e \in edges}
<1>1. Draft(g, limit)
  BY DEF DraftOK
<1>2. /\ DOMAIN h = DOMAIN g \cup from
      /\ \A m \in DOMAIN h :
           LET node == NodeAt(g, m)
           IN  /\ h[m] \in Node
               /\ h[m].started \subseteq h[m].wanted
               /\ h[m].request < limit
               /\ h[m].depends = node.depends \cup {e[2] : e \in {x \in edges : x[1] = m}}
               /\ h[m].parent = node.parent /\ h[m].property = node.property
               /\ h[m].version = node.version
               /\ \/ Requeued(h[m])
                  \/ /\ m \in DOMAIN g
                     /\ m \in {e[2] : e \in edges} => g[m].started # {}
                     /\ h[m] = [g[m] EXCEPT !.depends = h[m].depends]
  BY <1>1, DependResult
<1>3. from \subseteq Ids
  OBVIOUS
<1>4. ASSUME NEW n \in DOMAIN h
      PROVE  /\ NodeOK(h[n], limit)
             /\ h[n].depends \subseteq DOMAIN h
             /\ Covered(n, h[n], settled)
             /\ h[n].attributes => h[n].version >= least[n]
             /\ Fetched(h[n]) => n \in DOMAIN g /\ Fetched(g[n])
             /\ \/ h[n].request = 0
                \/ n \in DOMAIN g /\ h[n].request = g[n].request /\ h[n].parent = g[n].parent
  <2>1. /\ h[n] \in Node
        /\ h[n].started \subseteq h[n].wanted
        /\ h[n].request < limit
        /\ h[n].depends = NodeAt(g, n).depends \cup Leads(edges, n)
        /\ h[n].parent = NodeAt(g, n).parent /\ h[n].property = NodeAt(g, n).property
    BY <1>2 DEF Leads
  <2>2. Leads(edges, n) \subseteq from
    BY DEF Leads
  <2>3. h[n].depends \subseteq DOMAIN h
    BY <2>1, <2>2, <1>2, NewNodeIsNode DEF NodeAt, DraftOK
  <2>4. CASE Requeued(h[n])
    <3>1. NodeOK(h[n], limit) /\ ~h[n].attributes /\ ~h[n].references /\ h[n].request = 0
      BY <2>1, <2>4 DEF NodeOK, Requeued, Idle
    <3>2. CASE n \in DOMAIN g
      <4> DEFINE led == [g[n] EXCEPT !.depends = @ \cup Leads(edges, n)]
      <4>1. g[n] \in Node /\ NodeAt(g, n) = g[n] /\ Covered(n, led, settled)
        BY <3>2 DEF NodeAt, DraftOK, Draft
      <4>2. led.depends = h[n].depends /\ led.parent = h[n].parent /\ led.property = h[n].property
        BY <4>1, <2>1 DEF Node
      <4> HIDE DEF led
      <4>3. Covered(n, h[n], settled)
        BY <4>1, <4>2, <3>1 DEF Covered
      <4> QED BY <3>1, <2>3, <4>3 DEF Fetched
    <3>3. CASE n \notin DOMAIN g
      <4>1. ~h[n].parent /\ ~h[n].property
        BY <3>3, <2>1, NewNodeIsNode DEF NodeAt
      <4> QED BY <3>1, <2>3, <4>1 DEF Covered, Fetched
    <3> QED BY <3>2, <3>3
  <2>5. CASE ~Requeued(h[n])
    <3>1. /\ n \in DOMAIN g
          /\ n \in from => g[n].started # {}
          /\ h[n] = [g[n] EXCEPT !.depends = h[n].depends]
      BY <1>2, <2>5
    <3>2. h[n].depends = g[n].depends \cup Leads(edges, n)
      BY <3>1, <2>1 DEF NodeAt
    <3>3. /\ g[n] \in Node
          /\ g[n].started = {} => Idle(g[n])
          /\ g[n].started \subseteq g[n].wanted
          /\ g[n].request < limit
          /\ g[n].pending => g[n].started = {} /\ g[n].wanted # {}
          /\ g[n].started = {} => g[n].pending
          /\ g[n].attributes => g[n].version >= least[n]
      <4>1. (\E e \in edges : e[2] = n) => n \in from
        OBVIOUS
      <4> HIDE DEF from
      <4>2. g[n].started = {} => g[n].pending
        BY <3>1, <4>1 DEF DraftOK
      <4> QED BY <3>1, <4>2 DEF DraftOK, Draft
    <3>4. /\ h[n].pending = g[n].pending /\ h[n].started = g[n].started
          /\ h[n].wanted = g[n].wanted /\ h[n].request = g[n].request
          /\ h[n].attributes = g[n].attributes /\ h[n].references = g[n].references
          /\ h[n].version = g[n].version /\ h[n].parent = g[n].parent
      BY <3>1, <3>3 DEF Node
    <3>5. NodeOK(h[n], limit)
      BY <2>1, <3>3, <3>4 DEF NodeOK, Idle
    <3>6. Covered(n, h[n], settled)
      <4>1. Covered(n, [g[n] EXCEPT !.depends = @ \cup Leads(edges, n)], settled)
        BY <3>1 DEF DraftOK
      <4>2. h[n] = [g[n] EXCEPT !.depends = @ \cup Leads(edges, n)]
        BY <3>1, <3>2
      <4> QED BY <4>1, <4>2
    <3> QED BY <2>3, <3>1, <3>3, <3>4, <3>5, <3>6 DEF Fetched
  <2> QED BY <2>4, <2>5
<1>5. DOMAIN h \subseteq Ids /\ h \in [DOMAIN h -> Node]
  <2>1. \A n \in DOMAIN h : h[n] \in Node
    BY <1>2
  <2>2. h = [n \in DOMAIN h |-> h[n]]
    BY DEF Depend
  <2>3. DOMAIN h \subseteq Ids
    BY <1>1, <1>2, <1>3 DEF Draft
  <2> QED BY <2>1, <2>2, <2>3
<1> QED BY <1>2, <1>4, <1>5 DEF GraphOK

\* A node that an edge leads to goes on waiting, or is queued.
LEMMA DependKeepsAwaited ==
  ASSUME NEW g, NEW limit \in Nat \ {0}, Draft(g, limit),
         NEW edges \in SUBSET (Ids \X Ids), NEW h, h = Depend(g, edges),
         NEW rs, NEW bs, AwaitedIn(g, rs, bs)
  PROVE  AwaitedIn(h, rs, bs)
<1>1. \A m \in DOMAIN h :
        \/ Requeued(h[m])
        \/ m \in DOMAIN g /\ h[m] = [g[m] EXCEPT !.depends = h[m].depends]
  <2>1. /\ DOMAIN h = DOMAIN g \cup {e[2] : e \in edges}
        /\ \A m \in DOMAIN h :
             LET node == NodeAt(g, m)
             IN  /\ h[m] \in Node
                 /\ h[m].started \subseteq h[m].wanted
                 /\ h[m].request < limit
                 /\ h[m].depends = node.depends \cup {e[2] : e \in {x \in edges : x[1] = m}}
                 /\ h[m].parent = node.parent /\ h[m].property = node.property
                 /\ h[m].version = node.version
                 /\ \/ Requeued(h[m])
                    \/ /\ m \in DOMAIN g
                       /\ m \in {e[2] : e \in edges} => g[m].started # {}
                       /\ h[m] = [g[m] EXCEPT !.depends = h[m].depends]
    BY DependResult
  <2> QED BY <2>1
<1>2. ASSUME NEW m \in DOMAIN h, h[m].started # {}
      PROVE  /\ m \in DOMAIN g
             /\ h[m].started = g[m].started /\ h[m].request = g[m].request
             /\ h[m].attributes = g[m].attributes /\ h[m].references = g[m].references
  <2>1. m \in DOMAIN g /\ h[m] = [g[m] EXCEPT !.depends = h[m].depends]
    BY <1>1, <1>2 DEF Requeued, Idle
  <2>2. g[m] \in Node
    BY <2>1 DEF Draft
  <2> QED BY <2>1, <2>2 DEF Node
<1> QED BY <1>2 DEF AwaitedIn

-----------------------------------------------------------------------------
(* The steps.                                                              *)

\* What NodeDelivery asks of a step.
Promised ==
  /\ valid \subseteq valid' /\ valid' \ valid \subseteq DOMAIN graph
  /\ excused \subseteq excused' /\ excused' \ excused \subseteq DOMAIN graph
  /\ DOMAIN graph \ DOMAIN graph' \subseteq valid' \cup excused'

\* A fetcher that was just created.
LEMMA InitEstablishes == Init => FetcherInv
<1> SUFFICES ASSUME Init PROVE FetcherInv
  OBVIOUS
<1>1. CountersOK
  <2>1. next_id \in Nat \ {0} /\ version \in [Ids -> Nat] /\ floor \in [Ids -> Nat]
    BY DEF Init
  <2>2. \A n \in Ids : floor[n] <= version[n]
    BY DEF Init
  <2>3. draining \in BOOLEAN /\ aborted \in BOOLEAN
    BY DEF Init
  <2> QED BY <2>1, <2>2, <2>3 DEF CountersOK
<1>2. ServiceOK
  BY FetcherAssumption
  DEF Init, ServiceOK, FetcherAssumption, HandedNodesAreUsable, ForcedFetchIsFresh
<1>3. GraphOK(graph, valid \cup excused, next_id, floor)
  BY DEF Init, GraphOK
<1>4. CallsOK(graph, next_id, floor) /\ AwaitedIn(graph, reads, browses)
  BY DEF Init, CallsOK, AwaitedIn
<1> QED BY <1>1, <1>2, <1>3, <1>4 DEF FetcherInv

\* A call of Fetch: what a node waited for before is forgotten with its request.
LEMMA FetchKeeps ==
  ASSUME FetcherInv, NEW n \in Asked, NEW status \in Statuses, NEW force \in BOOLEAN,
         Fetch(n, status, force)
  PROVE  FetcherInv' /\ Promised
<1> DEFINE base == NodeAt(graph, n)
           fetched == FetchNode(base, status, force)
<1>1. n \in Ids /\ status \in SUBSET Dimensions /\ status # {}
  BY FetcherAssumption DEF FetcherAssumption, Dimensions
<1>2. /\ base \in Node /\ base.started \subseteq base.wanted
      /\ base.started = {} => Idle(base)
      /\ base.request < next_id
      /\ base.depends \subseteq DOMAIN graph
      /\ base.parent => Parents[n] \subseteq base.depends \cup valid \cup excused \cup {n}
      /\ base.property => n \in Properties
      /\ base.started # {} => n \in DOMAIN graph
  <2>1. CASE n \in DOMAIN graph
    <3>1. base = graph[n]
      BY <2>1 DEF NodeAt
    <3>2. NodeOK(graph[n], next_id) /\ graph[n].depends \subseteq DOMAIN graph
          /\ Covered(n, graph[n], valid \cup excused)
      BY <2>1 DEF FetcherInv, GraphOK
    <3> QED BY <3>1, <3>2, <2>1 DEF NodeOK, Covered
  <2>2. CASE n \notin DOMAIN graph
    BY <2>2, NewNodeIsNode DEF NodeAt, Idle, FetcherInv, CountersOK
  <2> QED BY <2>1, <2>2
<1> HIDE DEF base
<1>3. /\ fetched \in Node
      /\ fetched.started \subseteq fetched.wanted
      /\ SameNode(fetched, base)
      /\ Requeued(fetched) \/ (fetched = base /\ base.started # {} /\ ~force)
  BY <1>1, <1>2, FetchNodeResult
<1>4. /\ graph' = [m \in DOMAIN graph \cup {n} |-> IF m = n THEN fetched ELSE graph[m]]
      /\ DOMAIN graph' = DOMAIN graph \cup {n} /\ graph'[n] = fetched
      /\ \A m \in DOMAIN graph' \ {n} : m \in DOMAIN graph /\ graph'[m] = graph[m]
  BY DEF Fetch, base
<1> HIDE DEF fetched
<1>5. /\ floor' \in [Ids -> Nat]
      /\ \A m \in Ids \ {n} : floor'[m] = floor[m]
      /\ ~force => floor' = floor
      /\ \A m \in Ids : floor'[m] <= version[m]
  BY <1>1 DEF Fetch, FetcherInv, CountersOK
<1>6. /\ UNCHANGED <<reads, browses, next_id, valid, excused, shown, version, aborted>>
      /\ draining' \in BOOLEAN
  BY DEF Fetch, FetcherInv, CountersOK
<1>7. CASE Requeued(fetched)
  <2>1. /\ NodeOK(fetched, next_id) /\ fetched.request = 0
        /\ ~fetched.attributes /\ ~fetched.references
    BY <1>7, <1>3 DEF NodeOK, Requeued, Idle, FetcherInv, CountersOK
  <2>2. Covered(n, fetched, valid \cup excused) /\ fetched.depends \subseteq DOMAIN graph
    BY <1>2, <1>3, <2>1 DEF Covered, SameNode
  <2>3. GraphOK(graph', valid \cup excused, next_id, floor')
    <3>1. ASSUME NEW m \in DOMAIN graph'
          PROVE  /\ graph'[m] \in Node
                 /\ NodeOK(graph'[m], next_id)
                 /\ graph'[m].depends \subseteq DOMAIN graph'
                 /\ Covered(m, graph'[m], valid \cup excused)
                 /\ graph'[m].attributes => graph'[m].version >= floor'[m]
      <4>1. CASE m = n
        BY <4>1, <1>3, <1>4, <2>1, <2>2
      <4>2. CASE m # n
        <5>1. m \in DOMAIN graph /\ graph'[m] = graph[m] /\ m \in Ids
          BY <4>2, <1>4 DEF FetcherInv, GraphOK
        <5> QED BY <4>2, <5>1, <1>4, <1>5 DEF FetcherInv, GraphOK
      <4> QED BY <4>1, <4>2
    <3>2. DOMAIN graph' \subseteq Ids /\ graph' \in [DOMAIN graph' -> Node]
      <4>1. DOMAIN graph' \subseteq Ids
        BY <1>1, <1>4 DEF FetcherInv, GraphOK
      <4>2. graph' = [m \in DOMAIN graph' |-> graph'[m]]
        BY <1>4
      <4> QED BY <4>1, <4>2, <3>1
    <3> QED BY <3>1, <3>2 DEF GraphOK
  <2>4. ASSUME NEW call
        PROVE  /\ ReadOK(call, graph, next_id, floor) => ReadOK(call, graph', next_id, floor')
               /\ BrowseOK(call, graph, next_id) => BrowseOK(call, graph', next_id)
    <3>1. \A m \in DOMAIN graph' :
            \/ graph'[m].request = 0
            \/ m # n /\ m \in Ids /\ m \in DOMAIN graph /\ graph'[m] = graph[m]
      BY <1>4, <2>1, <2>3 DEF GraphOK
    <3>2. call.request \in 1..next_id - 1 => call.request # 0
      BY DEF FetcherInv, CountersOK
    <3> QED BY <3>1, <3>2, <1>5 DEF ReadOK, BrowseOK
  <2>5. AwaitedIn(graph', reads', browses')
    <3>1. AwaitedIn(graph, reads, browses) /\ fetched.started = {}
      BY <1>7 DEF FetcherInv, Requeued, Idle
    <3> QED BY <3>1, <1>4, <1>6 DEF AwaitedIn
  <2> QED BY <1>4, <1>5, <1>6, <2>3, <2>4, <2>5
      DEF FetcherInv, CountersOK, CallsOK, ServiceOK, HandedNodesAreUsable, ForcedFetchIsFresh,
          Promised
<1>8. CASE fetched = base /\ base.started # {} /\ ~force
  <2>1. graph' = graph
    <3>1. graph = [m \in DOMAIN graph |-> graph[m]]
      BY DEF FetcherInv, GraphOK
    <3> QED BY <3>1, <1>2, <1>4, <1>8 DEF base, NodeAt
  <2> QED BY <2>1, <1>5, <1>6, <1>8
      DEF FetcherInv, CountersOK, CallsOK, ServiceOK, HandedNodesAreUsable, ForcedFetchIsFresh,
          Promised
<1> QED BY <1>3, <1>7, <1>8

\* Cancel: who depends on the node goes on without it.
LEMMA CancelKeeps ==
  ASSUME FetcherInv, NEW n \in Asked, Cancel(n)
  PROVE  FetcherInv' /\ Promised
<1> DEFINE h == WithoutNode(graph, n)
           settled == valid \cup excused
<1>1. n \in Ids /\ n \in DOMAIN graph /\ {n} \in SUBSET Ids
  BY FetcherAssumption DEF FetcherAssumption, Cancel
<1>2. h = Without(graph, {n}) /\ GraphOK(graph, settled, next_id, floor)
  BY DEF WithoutNode, FetcherInv
<1> HIDE DEF h, settled
<1>3. GraphOK(h, settled \cup {n}, next_id, floor) /\ DOMAIN h = DOMAIN graph \ {n}
  BY <1>2, WithoutKeepsGraph
<1>4. ASSUME NEW m \in DOMAIN h
      PROVE  /\ m \in DOMAIN graph /\ h[m].request = graph[m].request
             /\ h[m].parent = graph[m].parent
             /\ Fetched(h[m]) => Fetched(graph[m])
  <2>1. graph[m] \in Node /\ h[m] = [graph[m] EXCEPT !.depends = graph[m].depends \ {n}]
    BY <1>2, <1>3 DEF Without, GraphOK
  <2> QED BY <2>1, <1>3 DEF Node, Fetched
<1>5. Notify(h, {n}) /\ UNCHANGED <<reads, browses, next_id, aborted, version, floor>>
      /\ draining'
  BY DEF Cancel, h
<1>6. ServiceOK /\ floor \in [Ids -> Nat] /\ next_id \in Nat \ {0}
      /\ GraphOK(h, valid \cup excused \cup {n}, next_id, floor)
  BY <1>3 DEF FetcherInv, CountersOK, settled
<1>7. /\ GraphOK(graph', valid' \cup excused', next_id, floor)
      /\ \A m \in DOMAIN graph' : /\ m \in DOMAIN h
                                  /\ graph'[m].request = h[m].request
                                  /\ graph'[m].parent = h[m].parent
      /\ ServiceOK'
      /\ valid \subseteq valid' /\ excused \cup {n} \subseteq excused'
      /\ DOMAIN h \ DOMAIN graph' \subseteq valid' \cup excused'
      /\ \A m \in (valid' \ valid) \cup (excused' \ (excused \cup {n})) :
           m \in DOMAIN h /\ Fetched(h[m])
  BY <1>1, <1>5, <1>6, NotifyResult
<1>8. ASSUME NEW call
      PROVE  /\ ReadOK(call, graph, next_id, floor) => ReadOK(call, graph', next_id, floor)
             /\ BrowseOK(call, graph, next_id) => BrowseOK(call, graph', next_id)
  <2>1. \A m \in DOMAIN graph' :
          m \in DOMAIN graph /\ graph'[m].request = graph[m].request
          /\ (graph[m].parent => graph'[m].parent)
    BY <1>4, <1>7
  <2> QED BY <1>6, <2>1, CallsFollow
<1>9. CallsOK(graph, next_id, floor)' /\ CountersOK'
  BY <1>5, <1>8 DEF FetcherInv, CallsOK, CountersOK
<1>10. Promised
  BY <1>1, <1>3, <1>7 DEF Promised
<1>11. AwaitedIn(graph', reads', browses')
  <2>1. AwaitedIn(h, reads, browses)
    <3>1. AwaitedIn(graph, reads, browses)
      BY DEF FetcherInv
    <3>2. ASSUME NEW m \in DOMAIN h
          PROVE  /\ m \in DOMAIN graph
                 /\ h[m].started = graph[m].started /\ h[m].request = graph[m].request
                 /\ h[m].attributes = graph[m].attributes
                 /\ h[m].references = graph[m].references
      <4>1. graph[m] \in Node /\ h[m] = [graph[m] EXCEPT !.depends = graph[m].depends \ {n}]
        BY <1>2, <1>3 DEF Without, GraphOK
      <4> QED BY <4>1, <1>3 DEF Node
    <3> QED BY <3>1, <3>2 DEF AwaitedIn
  <2>2. \A m \in DOMAIN h : h[m] \in Node
    BY <1>3 DEF GraphOK
  <2>3. AwaitedIn(graph', reads, browses)
    BY <1>5, <2>1, <2>2, NotifyKeepsAwaited
  <2> QED BY <2>3, <1>5
<1> QED BY <1>5, <1>7, <1>9, <1>10, <1>11 DEF FetcherInv

\* A batch goes out: its nodes wait for a read and a browse that ask for all
\* they need.
LEMMA DrainStepKeeps ==
  ASSUME FetcherInv, DrainStep
  PROVE  FetcherInv' /\ Promised
<1> DEFINE settled == valid \cup excused
<1>1. PICK batch \in SUBSET Queue : Send(batch)
  BY DEF DrainStep
<1> DEFINE g == [m \in DOMAIN graph |-> IF m \in batch THEN Started(m) ELSE graph[m]]
           browsed == {n \in batch : Descriptions(n, g[n]) # {}}
           read == [request |-> next_id, version |-> [n \in batch |-> version[n]]]
           browse == [request |-> next_id, wants |-> [n \in browsed |-> Descriptions(n, g[n])]]
<1>2. /\ reads' = reads \cup {read}
      /\ browses' \subseteq browses \cup {browse}
      /\ browses \subseteq browses' /\ (browsed # {} => browse \in browses')
      /\ next_id' = next_id + 1
      /\ Notify(g, {}) \/ (graph' = g /\ UNCHANGED <<valid, shown, excused>>)
      /\ UNCHANGED <<draining, aborted, version, floor>>
  BY <1>1 DEF Send, DrainStep, server
<1>3. /\ next_id \in Nat \ {0} /\ version \in [Ids -> Nat] /\ floor \in [Ids -> Nat]
      /\ \A n \in Ids : floor[n] <= version[n]
      /\ ServiceOK /\ GraphOK(graph, settled, next_id, floor)
  BY DEF FetcherInv, CountersOK
<1>4. DOMAIN graph \subseteq Ids /\ batch \subseteq DOMAIN graph
  BY <1>3 DEF GraphOK, Queue
<1>5. ASSUME NEW m \in batch
      PROVE  /\ g[m] = Started(m) /\ g[m] \in Node
             /\ NodeOK(g[m], next_id + 1)
             /\ g[m].request = next_id /\ ~g[m].attributes
             /\ g[m].references => m \in Properties
             /\ ~g[m].references => m \in browsed
             /\ g[m].depends = graph[m].depends /\ g[m].parent = graph[m].parent
             /\ g[m].property = graph[m].property
  <2> DEFINE node == [graph[m] EXCEPT !.pending = FALSE, !.started = graph[m].wanted,
                                      !.request = next_id, !.attributes = FALSE]
  <2>1. g[m] = [node EXCEPT !.references = Descriptions(m, node) = {}]
    BY <1>4 DEF Started
  <2>2. graph[m] \in Node /\ NodeOK(graph[m], next_id) /\ graph[m].pending
        /\ Covered(m, graph[m], settled)
    BY <1>3, <1>4 DEF GraphOK, Queue
  <2>3. /\ node \in Node /\ node.request = next_id /\ ~node.attributes /\ ~node.pending
        /\ node.started = graph[m].wanted /\ node.wanted = graph[m].wanted
        /\ node.depends = graph[m].depends /\ node.parent = graph[m].parent
        /\ node.property = graph[m].property
    BY <2>2, <1>3 DEF Node
  <2> HIDE DEF node
  <2>4. /\ g[m] \in Node /\ g[m].request = next_id /\ ~g[m].attributes /\ ~g[m].pending
        /\ g[m].started = graph[m].wanted /\ g[m].wanted = graph[m].wanted
        /\ g[m].depends = graph[m].depends /\ g[m].parent = graph[m].parent
        /\ g[m].property = graph[m].property
        /\ g[m].references <=> Descriptions(m, node) = {}
        /\ g[m].declaration = node.declaration
    <3> DEFINE none == Descriptions(m, node) = {}
    <3>1. none \in BOOLEAN /\ g[m] = [node EXCEPT !.references = none]
      BY <2>1
    <3> HIDE DEF none, g
    <3>2. /\ g[m] \in Node /\ g[m].request = next_id /\ ~g[m].attributes /\ ~g[m].pending
          /\ g[m].started = graph[m].wanted /\ g[m].wanted = graph[m].wanted
          /\ g[m].depends = graph[m].depends /\ g[m].parent = graph[m].parent
          /\ g[m].property = graph[m].property
      BY <2>3, <3>1 DEF Node
    <3>3. (g[m].references <=> none) /\ g[m].declaration = node.declaration
      BY <2>3, <3>1 DEF Node
    <3> QED BY <3>2, <3>3 DEF none
  <2>5. Descriptions(m, node) = {} => node.property
    BY DEF Descriptions
  <2>6. g[m].references => m \in Properties
    BY <2>2, <2>3, <2>4, <2>5 DEF Covered
  <2>7. NodeOK(g[m], next_id + 1)
    <3>1. g[m].started # {} /\ ~g[m].pending /\ g[m].started \subseteq g[m].wanted
      BY <2>2, <2>4 DEF NodeOK
    <3>2. next_id < next_id + 1
      BY <1>3
    <3> HIDE DEF g
    <3> QED BY <2>4, <3>1, <3>2 DEF NodeOK
  <2>8. g[m] = Started(m)
    BY <1>4
  <2>9. ~g[m].references => m \in browsed
    <3>1. /\ g[m].property = node.property /\ g[m].declaration = node.declaration
          /\ g[m].started = node.started /\ g[m].parent = node.parent
      BY <2>3, <2>4
    <3>2. Descriptions(m, g[m]) = Descriptions(m, node)
      BY <3>1 DEF Descriptions
    <3> QED BY <2>4, <3>2
  <2> QED BY <2>4, <2>6, <2>7, <2>8, <2>9
<1>6. ASSUME NEW m \in DOMAIN graph \ batch
      PROVE  g[m] = graph[m]
  OBVIOUS
<1>7. DOMAIN g = DOMAIN graph
  OBVIOUS
<1>8. \A m \in DOMAIN g : g[m] \in Node
  BY <1>3, <1>5, <1>6, <1>7 DEF GraphOK
<1>9. g \in [DOMAIN g -> Node]
  BY <1>8
<1> HIDE DEF g
<1>10. GraphOK(g, settled, next_id + 1, floor)
  <2>1. ASSUME NEW m \in DOMAIN g
        PROVE  /\ NodeOK(g[m], next_id + 1)
               /\ g[m].depends \subseteq DOMAIN g
               /\ Covered(m, g[m], settled)
               /\ g[m].attributes => g[m].version >= floor[m]
    <3>0. /\ NodeOK(graph[m], next_id) /\ graph[m].depends \subseteq DOMAIN graph
          /\ Covered(m, graph[m], settled)
          /\ graph[m].attributes => graph[m].version >= floor[m]
      BY <1>3, <1>7 DEF GraphOK
    <3>1. CASE m \in batch
      BY <3>0, <3>1, <1>5, <1>7 DEF Covered
    <3>2. CASE m \notin batch
      <4>1. g[m] = graph[m]
        BY <3>2, <1>6, <1>7
      <4>2. NodeOK(g[m], next_id + 1)
        BY <3>0, <4>1, <1>3 DEF NodeOK, Node
      <4> QED BY <3>0, <4>1, <4>2, <1>7
    <3> QED BY <3>1, <3>2
  <2> QED BY <2>1, <1>4, <1>7, <1>9 DEF GraphOK
<1>11. ASSUME NEW call
       PROVE  /\ call \in reads' => ReadOK(call, g, next_id + 1, floor)
              /\ call \in browses' => BrowseOK(call, g, next_id + 1)
  <2>1. /\ ReadOK(call, graph, next_id, floor) => ReadOK(call, g, next_id, floor)
        /\ BrowseOK(call, graph, next_id) => BrowseOK(call, g, next_id)
    <3>1. ASSUME NEW m \in DOMAIN g
          PROVE  \/ g[m].request \notin 1..next_id - 1
                 \/ /\ m \in DOMAIN graph /\ g[m].request = graph[m].request
                    /\ graph[m].parent => g[m].parent
      <4>1. next_id \notin 1..next_id - 1
        BY <1>3
      <4> QED BY <4>1, <1>5, <1>6, <1>7
    <3> QED BY <3>1, <1>3, CallsFollow
  <2>2. 1..next_id - 1 \subseteq 1..(next_id + 1) - 1 /\ next_id \in 1..(next_id + 1) - 1
    BY <1>3
  <2>3. /\ ReadOK(call, graph, next_id, floor) => ReadOK(call, g, next_id + 1, floor)
        /\ BrowseOK(call, graph, next_id) => BrowseOK(call, g, next_id + 1)
    BY <2>1, <2>2 DEF ReadOK, BrowseOK
  <2>4. ReadOK(read, g, next_id + 1, floor)
    <3>1. read.request = next_id /\ read.version = [n \in batch |-> version[n]]
      OBVIOUS
    <3>2. \A n \in batch : n \in Ids
      BY <1>4
    <3> HIDE DEF read
    <3> QED BY <3>1, <3>2, <1>3, <2>2 DEF ReadOK
  <2>5. BrowseOK(browse, g, next_id + 1)
    <3>1. browse.request = next_id /\ browse.wants = [n \in browsed |-> Descriptions(n, g[n])]
          /\ browsed \subseteq batch
      OBVIOUS
    <3>2. ASSUME NEW n \in browsed, n \notin Properties
          PROVE  /\ {"children", "forward"} \subseteq Descriptions(n, g[n])
                 /\ "parent" \in Descriptions(n, g[n]) \/ n = Root \/ g[n].parent
      <4>1. Covered(n, graph[n], settled)
        BY <1>3, <1>4, <3>1 DEF GraphOK
      <4>2. ~g[n].property
        BY <3>1, <3>2, <4>1, <1>5 DEF Covered
      <4> QED BY <4>2 DEF Descriptions
    <3> HIDE DEF browse, browsed
    <3> QED BY <3>1, <3>2, <2>2 DEF BrowseOK
  <2>6. /\ call \in reads => ReadOK(call, graph, next_id, floor)
        /\ call \in browses => BrowseOK(call, graph, next_id)
    BY DEF FetcherInv, CallsOK
  <2> HIDE DEF read, browse
  <2> QED BY <1>2, <2>3, <2>4, <2>5, <2>6
<1>a. AwaitedIn(g, reads', browses')
  <2>1. AwaitedIn(graph, reads, browses)
    BY DEF FetcherInv
  <2>2. read \in reads' /\ read.request = next_id /\ DOMAIN read.version = batch
    BY <1>2
  <2>3. browse.request = next_id /\ DOMAIN browse.wants = browsed
    OBVIOUS
  <2>4. browsed # {} => browse \in browses'
    BY <1>2
  <2> HIDE DEF read, browse, browsed
  <2>5. ASSUME NEW m \in DOMAIN g, g[m].started # {}
        PROVE  /\ g[m].attributes \/ \E c \in reads' : c.request = g[m].request
                                                      /\ m \in DOMAIN c.version
               /\ g[m].references \/ \E c \in browses' : c.request = g[m].request
                                                        /\ m \in DOMAIN c.wants
    <3>1. CASE m \in batch
      BY <3>1, <2>2, <2>3, <2>4, <1>5
    <3>2. CASE m \notin batch
      BY <3>2, <2>1, <2>5, <1>2, <1>6, <1>7 DEF AwaitedIn
    <3> QED BY <3>1, <3>2
  <2> QED BY <2>5 DEF AwaitedIn
<1>b. AwaitedIn(graph', reads', browses')
  <2>1. CASE Notify(g, {})
    BY <2>1, <1>8, <1>a, NotifyKeepsAwaited
  <2>2. CASE graph' = g
    BY <2>2, <1>a
  <2> QED BY <2>1, <2>2, <1>2
<1>12. CASE Notify(g, {})
  <2>0. GraphOK(g, valid \cup excused \cup {}, next_id + 1, floor)
    BY <1>10
  <2>1. /\ GraphOK(graph', valid' \cup excused', next_id + 1, floor)
        /\ \A m \in DOMAIN graph' : /\ m \in DOMAIN g
                                    /\ graph'[m].request = g[m].request
                                    /\ graph'[m].parent = g[m].parent
        /\ ServiceOK'
        /\ valid \subseteq valid' /\ excused \cup {} \subseteq excused'
        /\ DOMAIN g \ DOMAIN graph' \subseteq valid' \cup excused'
        /\ \A m \in (valid' \ valid) \cup (excused' \ (excused \cup {})) :
             m \in DOMAIN g /\ Fetched(g[m])
    <3>1. {} \in SUBSET Ids
      OBVIOUS
    <3> QED BY <1>3, <1>12, <2>0, <3>1, NotifyResult
  <2>2. ASSUME NEW call
        PROVE  /\ ReadOK(call, g, next_id + 1, floor) => ReadOK(call, graph', next_id + 1, floor)
               /\ BrowseOK(call, g, next_id + 1) => BrowseOK(call, graph', next_id + 1)
    <3>1. next_id + 1 \in Nat \ {0}
      BY <1>3
    <3>2. \A m \in DOMAIN graph' :
            m \in DOMAIN g /\ graph'[m].request = g[m].request /\ (g[m].parent => graph'[m].parent)
      BY <2>1
    <3> QED BY <3>1, <3>2, CallsFollow
  <2>3. CallsOK(graph, next_id, floor)' /\ CountersOK'
    BY <1>2, <1>11, <2>2 DEF CallsOK, CountersOK, FetcherInv
  <2>4. Promised
    BY <2>1, <1>7 DEF Promised
  <2> QED BY <1>2, <1>b, <2>1, <2>3, <2>4 DEF FetcherInv
<1>13. CASE graph' = g /\ UNCHANGED <<valid, shown, excused>>
  <2>1. CallsOK(graph, next_id, floor)' /\ CountersOK'
    BY <1>2, <1>11, <1>13 DEF CallsOK, CountersOK, FetcherInv
  <2>2. ServiceOK'
    BY <1>3, <1>13 DEF ServiceOK, HandedNodesAreUsable, ForcedFetchIsFresh
  <2> QED BY <1>2, <1>b, <1>7, <1>10, <1>13, <2>1, <2>2 DEF FetcherInv, Promised
<1> QED BY <1>2, <1>12, <1>13

\* An answer: a draft of the graph, the edges it adds, and who is done then.
LEMMA AnswerKeeps ==
  ASSUME FetcherInv, NEW g, NEW edges \in SUBSET (Ids \X Ids),
         DraftOK(g, edges, valid \cup excused, next_id, floor),
         DOMAIN graph \subseteq DOMAIN g,
         \A m \in DOMAIN g :
           \/ g[m].request = 0 /\ ~Fetched(g[m])
           \/ m \in DOMAIN graph /\ g[m].request = graph[m].request
              /\ (graph[m].parent => g[m].parent),
         Notify(Depend(g, edges), {}), AwaitedIn(g, reads', browses'),
         reads' \subseteq reads, browses' \subseteq browses,
         UNCHANGED <<next_id, version, floor>>,
         draining' \in BOOLEAN, aborted' \in BOOLEAN
  PROVE  FetcherInv' /\ Promised
<1> DEFINE h == Depend(g, edges)
           settled == valid \cup excused
<1>1. /\ next_id \in Nat \ {0} /\ floor \in [Ids -> Nat] /\ ServiceOK
      /\ {} \in SUBSET Ids /\ h = Depend(g, edges) /\ Notify(h, {})
      /\ DraftOK(g, edges, settled, next_id, floor)
  BY DEF FetcherInv, CountersOK
<1>2. settled = valid \cup excused \cup {}
  OBVIOUS
<1> HIDE DEF h, settled
<1>3. /\ GraphOK(h, settled, next_id, floor)
      /\ DOMAIN g \subseteq DOMAIN h
      /\ \A n \in DOMAIN h :
           /\ Fetched(h[n]) => n \in DOMAIN g /\ Fetched(g[n])
           /\ \/ h[n].request = 0
              \/ n \in DOMAIN g /\ h[n].request = g[n].request /\ h[n].parent = g[n].parent
  BY <1>1, DependKeepsGraph
<1>4. GraphOK(h, valid \cup excused \cup {}, next_id, floor)
  BY <1>2, <1>3
<1>5. /\ GraphOK(graph', valid' \cup excused', next_id, floor)
      /\ \A m \in DOMAIN graph' : /\ m \in DOMAIN h
                                  /\ graph'[m].request = h[m].request
                                  /\ graph'[m].parent = h[m].parent
      /\ ServiceOK'
      /\ valid \subseteq valid' /\ excused \cup {} \subseteq excused'
      /\ DOMAIN h \ DOMAIN graph' \subseteq valid' \cup excused'
      /\ \A m \in (valid' \ valid) \cup (excused' \ (excused \cup {})) :
           m \in DOMAIN h /\ Fetched(h[m])
  BY <1>1, <1>4, NotifyResult
<1>6. \A m \in DOMAIN h : Fetched(h[m]) => m \in DOMAIN graph
  <2>1. ASSUME NEW m \in DOMAIN h, Fetched(h[m])
        PROVE  m \in DOMAIN graph
    BY <2>1, <1>3
  <2> QED BY <2>1
<1>7. \A m \in DOMAIN graph' :
        \/ graph'[m].request \notin 1..next_id - 1
        \/ m \in DOMAIN graph /\ graph'[m].request = graph[m].request
           /\ (graph[m].parent => graph'[m].parent)
  <2>1. ASSUME NEW m \in DOMAIN graph'
        PROVE  \/ graph'[m].request = 0
               \/ m \in DOMAIN graph /\ graph'[m].request = graph[m].request
                  /\ (graph[m].parent => graph'[m].parent)
    BY <1>3, <1>5
  <2>2. 0 \notin 1..next_id - 1
    BY <1>1
  <2> QED BY <2>1, <2>2
<1>8. ASSUME NEW call
      PROVE  /\ ReadOK(call, graph, next_id, floor) => ReadOK(call, graph', next_id, floor)
             /\ BrowseOK(call, graph, next_id) => BrowseOK(call, graph', next_id)
  BY <1>1, <1>7, CallsFollow
<1>9. CallsOK(graph, next_id, floor)' /\ CountersOK'
  BY <1>8 DEF FetcherInv, CallsOK, CountersOK
<1>10. Promised
  BY <1>3, <1>5, <1>6 DEF Promised
<1>11. AwaitedIn(graph', reads', browses')
  <2>1. Draft(g, next_id)
    BY <1>1 DEF DraftOK
  <2>2. AwaitedIn(h, reads', browses')
    BY <1>1, <2>1, DependKeepsAwaited
  <2>3. \A n \in DOMAIN h : h[n] \in Node
    BY <1>3 DEF GraphOK
  <2> QED BY <1>1, <2>2, <2>3, NotifyKeepsAwaited
<1> QED BY <1>5, <1>9, <1>10, <1>11 DEF FetcherInv

\* ValidateDependency leads to all ids that are not known, and nowhere else.
LEMMA UnknownEdges ==
  ASSUME valid \subseteq Ids, NEW n \in Ids, NEW ids \in SUBSET Ids
  PROVE  /\ Unknown(n, ids) \in SUBSET (Ids \X Ids)
         /\ \A d \in ids : d \in valid \cup {n} \/ <<n, d>> \in Unknown(n, ids)
         /\ \A e \in Unknown(n, ids) : e[1] = n
  BY DEF Unknown

\* OnReadResult, for answers that are still awaited and for those that are not.
LEMMA ReadAnswerKeeps ==
  ASSUME FetcherInv, NEW call, NEW bad, ReadAnswer(call, bad)
  PROVE  FetcherInv' /\ Promised
<1> DEFINE accepted == Accepted(DOMAIN call.version, call.request)
           good == accepted \ bad
           g == [m \in DOMAIN graph |->
                   IF m \in accepted
                     THEN [graph[m] EXCEPT !.attributes = TRUE,
                                           !.good = @ /\ m \notin bad,
                                           !.type = @ \/ (m \in good /\ m \in Types),
                                           !.version = call.version[m]]
                     ELSE graph[m]]
           edges == UNION {Unknown(n, DataTypes[n]) : n \in good}
           settled == valid \cup excused
<1>1. /\ call \in reads /\ reads' = reads \ {call}
      /\ Notify(Depend(g, edges), {})
      /\ draining'
      /\ UNCHANGED <<browses, next_id, aborted, version, floor>>
  BY DEF ReadAnswer, Release, server
<1>2. /\ GraphOK(graph, settled, next_id, floor) /\ valid \subseteq Ids
      /\ ReadOK(call, graph, next_id, floor) /\ DOMAIN graph \subseteq Ids
      /\ aborted \in BOOLEAN
  BY <1>1 DEF FetcherInv, ServiceOK, CallsOK, GraphOK, CountersOK
<1>3. ASSUME NEW m \in accepted
      PROVE  /\ m \in DOMAIN graph /\ m \in Ids /\ graph[m].started # {}
             /\ call.version[m] \in Nat /\ call.version[m] >= floor[m]
             /\ DataTypes[m] \in SUBSET Ids
  BY <1>2, FetcherAssumption DEF Accepted, ReadOK, FetcherAssumption
<1>4. edges \in SUBSET (Ids \X Ids)
  BY <1>2, <1>3, UnknownEdges
<1>5. ASSUME NEW m \in DOMAIN graph
      PROVE  /\ g[m] \in Node
             /\ g[m].started = graph[m].started /\ g[m].wanted = graph[m].wanted
             /\ g[m].pending = graph[m].pending /\ g[m].request = graph[m].request
             /\ g[m].depends = graph[m].depends /\ g[m].parent = graph[m].parent
             /\ g[m].references = graph[m].references /\ g[m].property = graph[m].property
             /\ m \notin accepted => g[m] = graph[m]
             /\ g[m].good => graph[m].good /\ (m \in accepted => m \in good)
             /\ m \in accepted => g[m].attributes /\ g[m].version = call.version[m]
  <2>1. graph[m] \in Node
    BY <1>2 DEF GraphOK
  <2>2. CASE m \in accepted
    <3> DEFINE fine == graph[m].good /\ m \notin bad
               typed == graph[m].type \/ (m \in good /\ m \in Types)
    <3>1. g[m] = [graph[m] EXCEPT !.attributes = TRUE, !.good = fine, !.type = typed,
                                  !.version = call.version[m]]
      BY <2>2
    <3>2. fine \in BOOLEAN /\ typed \in BOOLEAN
      BY <2>1 DEF Node
    <3>3. fine => graph[m].good /\ m \in good
      BY <2>2
    <3> HIDE DEF fine, typed, g, good, accepted
    <3>4. /\ g[m] \in Node
          /\ g[m].started = graph[m].started /\ g[m].wanted = graph[m].wanted
          /\ g[m].request = graph[m].request
          /\ g[m].depends = graph[m].depends /\ g[m].version = call.version[m]
      BY <3>1, <3>2, <2>1, <2>2, <1>3 DEF Node
    <3>5. /\ g[m].pending = graph[m].pending /\ g[m].parent = graph[m].parent
          /\ g[m].references = graph[m].references /\ g[m].property = graph[m].property
          /\ g[m].good = fine /\ g[m].attributes
      BY <3>1, <3>2, <2>1 DEF Node
    <3> QED BY <3>3, <3>4, <3>5, <2>2
  <2>3. CASE m \notin accepted
    BY <2>1, <2>3
  <2> QED BY <2>2, <2>3
<1>6. DOMAIN g = DOMAIN graph
  OBVIOUS
<1>7. \A m \in good : \A d \in DataTypes[m] : d \in Leads(edges, m) \cup valid \cup {m}
  <2>1. ASSUME NEW m \in good, NEW d \in DataTypes[m]
        PROVE  d \in Leads(edges, m) \cup valid \cup {m}
    <3>1. d \in valid \cup {m} \/ <<m, d>> \in edges
      BY <1>2, <1>3, UnknownEdges
    <3> HIDE DEF edges
    <3> QED BY <3>1 DEF Leads
  <2> QED BY <2>1
<1>a. \A m \in DOMAIN call.version \cap DOMAIN graph :
        graph[m].started # {} /\ graph[m].request = call.request => m \in accepted
  BY DEF Accepted
<1> HIDE DEF g, edges, accepted
<1>b. AwaitedIn(g, reads', browses')
  <2>1. AwaitedIn(graph, reads, browses)
    BY DEF FetcherInv
  <2>2. ASSUME NEW m \in DOMAIN g, g[m].started # {}
        PROVE  /\ g[m].attributes \/ \E c \in reads' : c.request = g[m].request
                                                      /\ m \in DOMAIN c.version
               /\ g[m].references \/ \E c \in browses' : c.request = g[m].request
                                                        /\ m \in DOMAIN c.wants
    <3>1. m \in DOMAIN graph /\ graph[m].started # {} /\ g[m].request = graph[m].request
          /\ g[m].references = graph[m].references
      BY <2>2, <1>5, <1>6
    <3>2. g[m].references \/ \E c \in browses' : c.request = g[m].request
                                                /\ m \in DOMAIN c.wants
      BY <2>1, <3>1, <1>1 DEF AwaitedIn
    <3>3. CASE m \in accepted
      BY <3>1, <3>2, <3>3, <1>5
    <3>4. CASE m \notin accepted
      <4>1. g[m].attributes = graph[m].attributes
        BY <3>1, <3>4, <1>5
      <4>2. ~graph[m].attributes => \E c \in reads : c.request = graph[m].request
                                                   /\ m \in DOMAIN c.version
        BY <2>1, <3>1 DEF AwaitedIn
      <4>3. ~(call.request = graph[m].request /\ m \in DOMAIN call.version)
        BY <3>1, <3>4, <1>a
      <4> QED BY <3>1, <3>2, <4>1, <4>2, <4>3, <1>1
    <3> QED BY <3>3, <3>4
  <2> QED BY <2>2 DEF AwaitedIn
<1>8. DraftOK(g, edges, settled, next_id, floor)
  <2>1. ASSUME NEW m \in DOMAIN g
        PROVE  /\ g[m] \in Node
               /\ g[m].started = {} => Idle(g[m])
               /\ g[m].started \subseteq g[m].wanted
               /\ g[m].request < next_id
               /\ g[m].depends \subseteq DOMAIN g
               /\ g[m].pending => g[m].started = {} /\ g[m].wanted # {}
               /\ g[m].started = {} => g[m].pending
               /\ Covered(m, [g[m] EXCEPT !.depends = @ \cup Leads(edges, m)], settled)
               /\ g[m].attributes => g[m].version >= floor[m]
    <3>1. /\ NodeOK(graph[m], next_id) /\ graph[m].depends \subseteq DOMAIN graph
          /\ Covered(m, graph[m], settled)
          /\ graph[m].attributes => graph[m].version >= floor[m]
      BY <1>2, <1>6 DEF GraphOK
    <3>2. g[m].started = {} => Idle(g[m])
      BY <3>1, <1>3, <1>5, <1>6 DEF NodeOK
    <3>3. g[m].attributes => g[m].version >= floor[m]
      BY <3>1, <1>3, <1>5, <1>6
    <3> DEFINE led == [g[m] EXCEPT !.depends = @ \cup Leads(edges, m)]
    <3>4. /\ led.depends = graph[m].depends \cup Leads(edges, m)
          /\ led.parent = graph[m].parent /\ led.property = graph[m].property
          /\ led.references = graph[m].references
          /\ led.good = g[m].good /\ led.attributes = g[m].attributes
      BY <1>5, <1>6 DEF Node
    <3> HIDE DEF led
    <3>5. Covered(m, led, settled)
      <4>1. led.attributes /\ led.good => DataTypes[m] \subseteq led.depends \cup settled \cup {m}
        <5>1. CASE m \in accepted
          BY <5>1, <3>4, <1>5, <1>6, <1>7
        <5>2. CASE m \notin accepted
          BY <5>2, <3>1, <3>4, <1>5, <1>6 DEF Covered
        <5> QED BY <5>1, <5>2
      <4> QED BY <4>1, <3>1, <3>4, <1>5, <1>6 DEF Covered
    <3> QED BY <3>1, <3>2, <3>3, <3>5, <1>5, <1>6 DEF NodeOK, led
  <2> QED BY <2>1, <1>2, <1>6 DEF DraftOK, Draft
<1>9. \A m \in DOMAIN g : m \in DOMAIN graph /\ g[m].request = graph[m].request
                         /\ (graph[m].parent => g[m].parent)
  BY <1>5, <1>6
<1>10. /\ reads' \subseteq reads /\ browses' \subseteq browses /\ draining' \in BOOLEAN
       /\ aborted' \in BOOLEAN /\ UNCHANGED <<next_id, version, floor>>
       /\ DraftOK(g, edges, valid \cup excused, next_id, floor)
  BY <1>1, <1>2, <1>8 DEF Release
<1> HIDE DEF good, settled
<1> QED BY <1>1, <1>4, <1>6, <1>9, <1>10, <1>b, AnswerKeeps

\* OnBrowseResult: what the answer reports joins the graph, as a dependency.
LEMMA BrowseAnswerKeeps ==
  ASSUME FetcherInv, NEW call, NEW bad, BrowseAnswer(call, bad)
  PROVE  FetcherInv' /\ Promised
<1> DEFINE accepted == Accepted(DOMAIN call.wants, call.request)
           good == accepted \ bad
           asks(m) == "parent" \in call.wants[m]
           applied == [m \in DOMAIN graph |->
                         IF m \in accepted
                           THEN [graph[m] EXCEPT !.references = TRUE,
                                                 !.good = @ /\ m \notin bad,
                                                 !.parent = @ \/ /\ m \in good
                                                                 /\ "parent" \in call.wants[m]
                                                                 /\ Parents[m] # {}]
                           ELSE graph[m]]
           parents == {n \in good : "children" \in call.wants[n]}
           children == UNION {Children[n] : n \in parents}
           g == [m \in DOMAIN graph \cup children |->
                   IF m \in children
                     THEN Introduced(applied, CHOOSE n \in parents : m \in Children[n], m)
                     ELSE applied[m]]
           edges == UNION {ChildEdges(n, call.wants[n])
                           \cup ReferenceEdges(n, call.wants[n]) : n \in good}
           settled == valid \cup excused
<1>1. /\ call \in browses /\ browses' = browses \ {call}
      /\ Notify(Depend(g, edges), {})
      /\ draining' /\ aborted' \in BOOLEAN
      /\ UNCHANGED <<reads, next_id, version, floor>>
  BY DEF BrowseAnswer, Release, server
<1>2. /\ GraphOK(graph, settled, next_id, floor) /\ valid \subseteq Ids
      /\ BrowseOK(call, graph, next_id) /\ DOMAIN graph \subseteq Ids
      /\ next_id \in Nat \ {0}
  BY <1>1 DEF FetcherInv, ServiceOK, CallsOK, GraphOK, CountersOK
<1>3. ASSUME NEW m \in accepted
      PROVE  /\ m \in DOMAIN graph /\ m \in Ids /\ graph[m].started # {}
             /\ m \notin Properties
                  => /\ {"children", "forward"} \subseteq call.wants[m]
                     /\ asks(m) \/ m = Root \/ graph[m].parent
  BY <1>2 DEF Accepted, BrowseOK
<1>4. ASSUME NEW m \in Ids
      PROVE  /\ Children[m] \in SUBSET Ids /\ Forward[m] \in SUBSET Ids
             /\ Parents[m] \in SUBSET Ids /\ DataTypes[m] \in SUBSET Ids
  BY FetcherAssumption DEF FetcherAssumption
<1>5. ASSUME NEW n \in good
      PROVE  /\ ChildEdges(n, call.wants[n]) \subseteq edges
             /\ ReferenceEdges(n, call.wants[n]) \subseteq edges
             /\ ChildEdges(n, call.wants[n]) \in SUBSET (Ids \X Ids)
             /\ ReferenceEdges(n, call.wants[n]) \in SUBSET (Ids \X Ids)
             /\ n \in DOMAIN graph /\ n \in Ids
  <2>1. n \in DOMAIN graph /\ n \in Ids
    BY <1>3
  <2>2. ChildEdges(n, call.wants[n]) \in SUBSET (Ids \X Ids)
    BY <2>1, <1>4 DEF ChildEdges
  <2>3. ReferenceEdges(n, call.wants[n]) \in SUBSET (Ids \X Ids)
    <3> DEFINE ids == (IF "forward" \in call.wants[n] THEN Forward[n] ELSE {})
                      \cup (IF "parent" \in call.wants[n] THEN Parents[n] ELSE {})
    <3>1. ids \in SUBSET Ids
      BY <2>1, <1>4
    <3> HIDE DEF ids
    <3>2. Unknown(n, ids) \in SUBSET (Ids \X Ids)
      BY <3>1, <2>1, <1>2, UnknownEdges
    <3> QED BY <3>2 DEF ReferenceEdges, ids
  <2> QED BY <2>1, <2>2, <2>3
<1>6. edges \in SUBSET (Ids \X Ids)
  <2>1. ASSUME NEW e \in edges
        PROVE  e \in Ids \X Ids
    <3>1. PICK n \in good : e \in ChildEdges(n, call.wants[n])
                                  \cup ReferenceEdges(n, call.wants[n])
      OBVIOUS
    <3> QED BY <3>1, <1>5
  <2> QED BY <2>1
\* What the edges lead to.
<1>7. ASSUME NEW n \in good
      PROVE  /\ "children" \in call.wants[n] => Children[n] \subseteq Leads(edges, n)
             /\ "forward" \in call.wants[n] => Forward[n] \subseteq Leads(edges, n) \cup valid \cup {n}
             /\ asks(n) => Parents[n] \subseteq Leads(edges, n) \cup valid \cup {n}
  <2>1. ASSUME NEW d, <<n, d>> \in edges
        PROVE  d \in Leads(edges, n)
    <3> HIDE DEF edges
    <3> QED BY <2>1 DEF Leads
  <2>2. ASSUME "children" \in call.wants[n], NEW d \in Children[n]
        PROVE  <<n, d>> \in edges
    <3>1. <<n, d>> \in ChildEdges(n, call.wants[n])
      BY <2>2 DEF ChildEdges
    <3> QED BY <3>1, <1>5
  <2>3. ASSUME NEW d,
               \/ "forward" \in call.wants[n] /\ d \in Forward[n]
               \/ "parent" \in call.wants[n] /\ d \in Parents[n],
               d \notin valid \cup {n}
        PROVE  <<n, d>> \in edges
    <3>1. <<n, d>> \in ReferenceEdges(n, call.wants[n])
      BY <2>3 DEF ReferenceEdges, Unknown
    <3> QED BY <3>1, <1>5
  <2> HIDE DEF edges, good
  <2> QED BY <2>1, <2>2, <2>3
<1>8. ASSUME NEW c \in children
      PROVE  /\ c \in Ids
             /\ \E e \in edges : e[2] = c
             /\ Parents[c] \subseteq Leads(edges, c)
  <2>1. PICK n \in parents : c \in Children[n]
    OBVIOUS
  <2>2. n \in good /\ n \in Ids /\ "children" \in call.wants[n]
    BY <1>5
  <2>3. <<n, c>> \in edges /\ <<c, n>> \in edges
    <3>1. <<n, c>> \in ChildEdges(n, call.wants[n]) /\ <<c, n>> \in ChildEdges(n, call.wants[n])
      BY <2>1, <2>2 DEF ChildEdges
    <3> QED BY <3>1, <2>2, <1>5
  <2>4. c \in Ids /\ Parents[c] \subseteq {n}
    BY <2>1, <2>2, <1>4, ParentAssumption DEF ParentAssumption
  <2> HIDE DEF edges, children, parents, good
  <2>5. n \in Leads(edges, c) /\ \E e \in edges : e[2] = c
    BY <2>3 DEF Leads
  <2> QED BY <2>4, <2>5
\* What the answer does to a node of the graph.
<1>9. ASSUME NEW m \in DOMAIN graph
      PROVE  /\ applied[m] \in Node
             /\ applied[m].started = graph[m].started /\ applied[m].wanted = graph[m].wanted
             /\ applied[m].pending = graph[m].pending /\ applied[m].request = graph[m].request
             /\ applied[m].depends = graph[m].depends
             /\ applied[m].attributes = graph[m].attributes
             /\ applied[m].version = graph[m].version
             /\ applied[m].property = graph[m].property
             /\ m \notin accepted => applied[m] = graph[m]
             /\ applied[m].good => graph[m].good /\ (m \in accepted => m \in good)
             /\ m \in accepted => applied[m].references
             /\ graph[m].parent => applied[m].parent
             /\ applied[m].parent => graph[m].parent \/ (m \in good /\ asks(m))
  <2>1. graph[m] \in Node
    BY <1>2 DEF GraphOK
  <2>2. CASE m \in accepted
    <3> DEFINE fine == graph[m].good /\ m \notin bad
               found == graph[m].parent \/ (m \in good /\ "parent" \in call.wants[m]
                                                     /\ Parents[m] # {})
    <3>1. applied[m] = [graph[m] EXCEPT !.references = TRUE, !.good = fine, !.parent = found]
      BY <2>2
    <3>2. fine \in BOOLEAN /\ found \in BOOLEAN
      BY <2>1 DEF Node
    <3>3. /\ fine => graph[m].good /\ m \in good
          /\ graph[m].parent => found
          /\ found => graph[m].parent \/ (m \in good /\ asks(m))
      BY <2>2
    <3> HIDE DEF fine, found, applied, good, accepted, asks
    <3>4. /\ applied[m] \in Node
          /\ applied[m].started = graph[m].started /\ applied[m].wanted = graph[m].wanted
          /\ applied[m].request = graph[m].request
          /\ applied[m].depends = graph[m].depends /\ applied[m].version = graph[m].version
      BY <3>1, <3>2, <2>1 DEF Node
    <3>5. /\ applied[m].pending = graph[m].pending /\ applied[m].parent = found
          /\ applied[m].attributes = graph[m].attributes /\ applied[m].good = fine
          /\ applied[m].property = graph[m].property /\ applied[m].references
      BY <3>1, <3>2, <2>1 DEF Node
    <3> QED BY <3>3, <3>4, <3>5, <2>2
  <2>3. CASE m \notin accepted
    BY <2>1, <2>3
  <2> QED BY <2>2, <2>3
<1>10. DOMAIN applied = DOMAIN graph /\ DOMAIN g = DOMAIN graph \cup children
  OBVIOUS
<1>11. ASSUME NEW m \in DOMAIN g
       PROVE  LET node == NodeAt(applied, m)
              IN  /\ node \in Node /\ g[m] \in Node
                  /\ g[m].started = node.started /\ g[m].wanted = node.wanted
                  /\ g[m].pending = node.pending /\ g[m].request = node.request
                  /\ g[m].depends = node.depends /\ g[m].attributes = node.attributes
                  /\ g[m].references = node.references /\ g[m].version = node.version
                  /\ g[m].good = node.good
                  /\ g[m].property => node.property \/ m \in Properties
                  /\ node.parent => g[m].parent
                  /\ g[m].parent => node.parent \/ m \in children
                  /\ m \notin children => m \in DOMAIN graph
  <2> DEFINE node == NodeAt(applied, m)
  <2>1. node \in Node
    BY <1>9, <1>10, NewNodeIsNode DEF NodeAt
  <2>2. CASE m \in children
    <3> DEFINE p == CHOOSE n \in parents : m \in Children[n]
               isProperty == node.property \/ m \in Properties
               isDeclaration == IF m \in Properties THEN applied[p].type ELSE node.declaration
    <3>1. p \in parents
      BY <2>2
    <3>2. p \in DOMAIN graph
      BY <3>1, <1>5
    <3>3. isProperty \in BOOLEAN
      BY <2>1 DEF Node
    <3>4. isDeclaration \in BOOLEAN
      BY <2>1, <3>2, <1>9 DEF Node
    <3>5. g[m] = Introduced(applied, p, m)
      BY <2>2
    <3>6. g[m] = [node EXCEPT !.parent = TRUE, !.property = isProperty,
                              !.declaration = isDeclaration]
      BY <3>5 DEF Introduced
    <3>7. isProperty => node.property \/ m \in Properties
      OBVIOUS
    <3> HIDE DEF isProperty, isDeclaration, node, g, p, applied, children
    <3>8. /\ g[m] \in Node
          /\ g[m].started = node.started /\ g[m].wanted = node.wanted
          /\ g[m].request = node.request
          /\ g[m].depends = node.depends /\ g[m].version = node.version
      BY <2>1, <3>3, <3>4, <3>6 DEF Node
    <3>9. /\ g[m].pending = node.pending /\ g[m].attributes = node.attributes
          /\ g[m].references = node.references /\ g[m].good = node.good
          /\ g[m].property = isProperty /\ g[m].parent
      BY <2>1, <3>3, <3>4, <3>6 DEF Node
    <3> QED BY <2>1, <2>2, <3>7, <3>8, <3>9 DEF node
  <2>3. CASE m \notin children
    <3>1. m \in DOMAIN graph /\ g[m] = node
      BY <2>3, <1>10 DEF NodeAt
    <3> QED BY <2>1, <3>1
  <2> QED BY <2>2, <2>3
<1>a. \A m \in DOMAIN call.wants \cap DOMAIN graph :
        graph[m].started # {} /\ graph[m].request = call.request => m \in accepted
  BY DEF Accepted
<1> HIDE DEF g, edges, accepted, applied, children, parents
<1>b. AwaitedIn(g, reads', browses')
  <2>1. AwaitedIn(graph, reads, browses)
    BY DEF FetcherInv
  <2>2. ASSUME NEW m \in DOMAIN g, g[m].started # {}
        PROVE  /\ g[m].attributes \/ \E c \in reads' : c.request = g[m].request
                                                      /\ m \in DOMAIN c.version
               /\ g[m].references \/ \E c \in browses' : c.request = g[m].request
                                                        /\ m \in DOMAIN c.wants
    <3>0. m \in DOMAIN graph
      <4>1. m \notin DOMAIN graph => NodeAt(applied, m) = NewNode
        BY <1>10 DEF NodeAt
      <4> QED BY <4>1, <2>2, <1>11, NewNodeIsNode DEF Idle
    <3>1. /\ graph[m].started # {} /\ g[m].request = graph[m].request
          /\ g[m].attributes = graph[m].attributes
          /\ g[m].references = applied[m].references
      BY <3>0, <2>2, <1>9, <1>10, <1>11 DEF NodeAt
    <3>2. g[m].attributes \/ \E c \in reads' : c.request = g[m].request
                                              /\ m \in DOMAIN c.version
      BY <2>1, <3>0, <3>1, <1>1 DEF AwaitedIn
    <3>3. CASE m \in accepted
      BY <3>0, <3>1, <3>2, <3>3, <1>9
    <3>4. CASE m \notin accepted
      <4>1. g[m].references = graph[m].references
        BY <3>0, <3>1, <3>4, <1>9
      <4>2. ~graph[m].references => \E c \in browses : c.request = graph[m].request
                                                     /\ m \in DOMAIN c.wants
        BY <2>1, <3>0, <3>1 DEF AwaitedIn
      <4>3. ~(call.request = graph[m].request /\ m \in DOMAIN call.wants)
        BY <3>0, <3>1, <3>4, <1>a
      <4> QED BY <3>1, <3>2, <4>1, <4>2, <4>3, <1>1
    <3> QED BY <3>3, <3>4
  <2> QED BY <2>2 DEF AwaitedIn
<1>12. DraftOK(g, edges, settled, next_id, floor)
  <2>1. ASSUME NEW m \in DOMAIN g
        PROVE  /\ g[m] \in Node
               /\ g[m].started = {} => Idle(g[m])
               /\ g[m].started \subseteq g[m].wanted
               /\ g[m].request < next_id
               /\ g[m].depends \subseteq DOMAIN g
               /\ g[m].pending => g[m].started = {} /\ g[m].wanted # {}
               /\ g[m].started = {} => g[m].pending \/ \E e \in edges : e[2] = m
               /\ Covered(m, [g[m] EXCEPT !.depends = @ \cup Leads(edges, m)], settled)
               /\ g[m].attributes => g[m].version >= floor[m]
    <3> DEFINE led == [g[m] EXCEPT !.depends = @ \cup Leads(edges, m)]
    <3>1. /\ led.depends = g[m].depends \cup Leads(edges, m)
          /\ led.parent = g[m].parent /\ led.property = g[m].property
          /\ led.references = g[m].references
          /\ led.good = g[m].good /\ led.attributes = g[m].attributes
      BY <1>11 DEF Node
    <3> HIDE DEF led
    <3>2. CASE m \in DOMAIN graph
      <4>1. NodeAt(applied, m) = applied[m]
        BY <3>2, <1>10 DEF NodeAt
      <4>2. /\ NodeOK(graph[m], next_id) /\ graph[m].depends \subseteq DOMAIN graph
            /\ Covered(m, graph[m], settled)
            /\ graph[m].attributes => graph[m].version >= floor[m]
        BY <3>2, <1>2 DEF GraphOK
      <4>3. /\ g[m] \in Node
            /\ g[m].started = graph[m].started /\ g[m].wanted = graph[m].wanted
            /\ g[m].pending = graph[m].pending /\ g[m].request = graph[m].request
            /\ g[m].depends = graph[m].depends /\ g[m].attributes = graph[m].attributes
            /\ g[m].version = graph[m].version
            /\ g[m].good => graph[m].good /\ (m \in accepted => m \in good)
            /\ m \notin accepted => g[m].references = graph[m].references
            /\ g[m].property => graph[m].property \/ m \in Properties
            /\ g[m].parent => graph[m].parent \/ (m \in good /\ asks(m)) \/ m \in children
        BY <3>2, <4>1, <1>9, <1>11
      <4>4. g[m].started = {} => Idle(g[m])
        <5>1. g[m].started = {} => m \notin accepted
          BY <4>3, <1>3
        <5> QED BY <5>1, <4>2, <4>3 DEF NodeOK, Idle
      <4>5. led.parent => Parents[m] \subseteq led.depends \cup settled \cup {m}
        <5>1. CASE graph[m].parent
          BY <5>1, <3>1, <4>2, <4>3 DEF Covered
        <5>2. CASE m \in good /\ asks(m)
          BY <5>2, <3>1, <1>7
        <5>3. CASE m \in children
          BY <5>3, <3>1, <1>8
        <5> QED BY <5>1, <5>2, <5>3, <3>1, <4>3
      <4>6. led.references /\ led.good /\ m \notin Properties
              => Children[m] \cup Forward[m] \cup Parents[m]
                   \subseteq led.depends \cup settled \cup {m}
        <5>1. CASE m \notin accepted
          BY <5>1, <3>1, <4>2, <4>3 DEF Covered
        <5>2. CASE m \in accepted
          <6> SUFFICES ASSUME led.good, m \notin Properties
                       PROVE  Children[m] \cup Forward[m] \cup Parents[m]
                                \subseteq led.depends \cup settled \cup {m}
            OBVIOUS
          <6>1. m \in good
            BY <5>2, <3>1, <4>3
          <6>2. /\ Children[m] \subseteq led.depends
                /\ Forward[m] \subseteq led.depends \cup settled \cup {m}
            BY <5>2, <6>1, <3>1, <1>3, <1>7
          <6>3. Parents[m] \subseteq led.depends \cup settled \cup {m}
            <7>1. CASE asks(m)
              BY <7>1, <6>1, <3>1, <1>7
            <7>2. CASE m = Root
              BY <7>2, <5>2, <1>3, ParentAssumption DEF ParentAssumption
            <7>3. CASE graph[m].parent
              BY <7>3, <3>1, <4>2, <4>3 DEF Covered
            <7> QED BY <7>1, <7>2, <7>3, <5>2, <1>3
          <6> QED BY <6>2, <6>3
        <5> QED BY <5>1, <5>2
      <4>7. Covered(m, led, settled)
        BY <4>2, <4>3, <4>5, <4>6, <3>1 DEF Covered
      <4>8. g[m].depends \subseteq DOMAIN g
        BY <4>2, <4>3, <1>10
      <4>9. /\ g[m].started \subseteq g[m].wanted /\ g[m].request < next_id
            /\ g[m].pending => g[m].started = {} /\ g[m].wanted # {}
            /\ g[m].started = {} => g[m].pending
            /\ g[m].attributes => g[m].version >= floor[m]
        BY <4>2, <4>3 DEF NodeOK
      <4> QED BY <4>3, <4>4, <4>7, <4>8, <4>9 DEF led
    <3>3. CASE m \notin DOMAIN graph
      <4>1. NodeAt(applied, m) = NewNode /\ m \in children
        BY <3>3, <1>10, <1>11 DEF NodeAt
      <4>2. /\ g[m] \in Node
            /\ g[m].started = {} /\ g[m].wanted = {} /\ g[m].request = 0
            /\ g[m].depends = {} /\ ~g[m].attributes /\ ~g[m].references /\ ~g[m].pending
            /\ g[m].property => m \in Properties
        BY <4>1, <1>11, NewNodeIsNode DEF NewNode
      <4>3. Covered(m, led, settled)
        BY <4>1, <4>2, <3>1, <1>8 DEF Covered
      <4>4. 0 < next_id /\ \E e \in edges : e[2] = m
        BY <4>1, <1>2, <1>8
      <4> QED BY <4>2, <4>3, <4>4 DEF Idle, led
    <3> QED BY <3>2, <3>3
  <2>2. DOMAIN g \subseteq Ids
    BY <1>2, <1>8, <1>10
  <2> QED BY <2>1, <2>2 DEF DraftOK, Draft
<1>13. \A m \in DOMAIN g :
         \/ g[m].request = 0 /\ ~Fetched(g[m])
         \/ m \in DOMAIN graph /\ g[m].request = graph[m].request
            /\ (graph[m].parent => g[m].parent)
  <2>1. ASSUME NEW m \in DOMAIN g, m \in DOMAIN graph
        PROVE  g[m].request = graph[m].request /\ (graph[m].parent => g[m].parent)
    BY <2>1, <1>9, <1>10, <1>11 DEF NodeAt
  <2>2. ASSUME NEW m \in DOMAIN g, m \notin DOMAIN graph
        PROVE  g[m].request = 0 /\ ~Fetched(g[m])
    BY <2>2, <1>10, <1>11, NewNodeIsNode DEF NodeAt, Fetched, Idle
  <2> QED BY <2>1, <2>2
<1>14. /\ reads' \subseteq reads /\ browses' \subseteq browses /\ draining' \in BOOLEAN
       /\ aborted' \in BOOLEAN /\ UNCHANGED <<next_id, version, floor>>
       /\ DraftOK(g, edges, valid \cup excused, next_id, floor)
       /\ DOMAIN graph \subseteq DOMAIN g
  BY <1>1, <1>10, <1>12
<1> HIDE DEF good, settled
<1> QED BY <1>1, <1>6, <1>13, <1>14, <1>b, AnswerKeeps

\* The loop's end and the steps that are not the fetcher's leave its graph and
\* its calls alone.
LEMMA RestKeeps ==
  ASSUME FetcherInv,
         \/ DrainEnds
         \/ \E n \in Asked : ServerChanges(n)
         \/ UNCHANGED vars
  PROVE  FetcherInv' /\ Promised
<1>1. UNCHANGED <<graph, reads, browses, next_id, valid, aborted, floor, shown, excused>>
  BY DEF DrainEnds, ServerChanges, vars, server
<1>2. draining' \in BOOLEAN
  BY DEF DrainEnds, ServerChanges, vars, FetcherInv, CountersOK
<1>3. version' \in [Ids -> Nat] /\ \A n \in Ids : floor[n] <= version'[n]
  <2>1. CASE version' = version
    BY <2>1 DEF FetcherInv, CountersOK
  <2>2. CASE \E n \in Asked : ServerChanges(n)
    <3>1. PICK n \in Asked : version' = [version EXCEPT ![n] = @ + 1]
      BY <2>2 DEF ServerChanges
    <3>2. /\ version \in [Ids -> Nat] /\ floor \in [Ids -> Nat]
          /\ \A m \in Ids : floor[m] <= version[m]
      BY DEF FetcherInv, CountersOK
    <3>3. ASSUME NEW m \in Ids PROVE version'[m] \in Nat /\ floor[m] <= version'[m]
      BY <3>1, <3>2
    <3> QED BY <3>1, <3>2, <3>3
  <2> QED BY <2>1, <2>2 DEF DrainEnds, vars, server
<1>4. CountersOK'
  BY <1>1, <1>2, <1>3 DEF FetcherInv, CountersOK
<1>5. ServiceOK'
  BY <1>1 DEF FetcherInv, ServiceOK, HandedNodesAreUsable, ForcedFetchIsFresh
<1>6. GraphOK(graph, valid \cup excused, next_id, floor)'
  BY <1>1 DEF FetcherInv
<1>7. CallsOK(graph, next_id, floor)' /\ AwaitedIn(graph, reads, browses)'
  BY <1>1 DEF FetcherInv, CallsOK
<1>8. Promised
  BY <1>1 DEF Promised
<1> QED BY <1>4, <1>5, <1>6, <1>7, <1>8 DEF FetcherInv

\* Every step of the fetcher, its callers and the server keeps the invariant
\* and the promise.
LEMMA StepKeeps ==
  ASSUME FetcherInv, [Next]_vars
  PROVE  FetcherInv' /\ Promised
<1>1. ASSUME NEW n \in Asked, NEW status \in Statuses, NEW force \in BOOLEAN,
             Fetch(n, status, force)
      PROVE  FetcherInv' /\ Promised
  BY <1>1, FetchKeeps
<1>2. ASSUME NEW n \in Asked, Cancel(n)
      PROVE  FetcherInv' /\ Promised
  BY <1>2, CancelKeeps
<1>3. CASE DrainStep
  BY <1>3, DrainStepKeeps
<1>4. ASSUME NEW call \in reads, NEW bad \in SUBSET (Failing \cap DOMAIN call.version),
             ReadAnswer(call, bad)
      PROVE  FetcherInv' /\ Promised
  BY <1>4, ReadAnswerKeeps
<1>5. ASSUME NEW call \in browses, NEW bad \in SUBSET (Failing \cap DOMAIN call.wants),
             BrowseAnswer(call, bad)
      PROVE  FetcherInv' /\ Promised
  BY <1>5, BrowseAnswerKeeps
<1>6. CASE DrainEnds \/ (\E n \in Asked : ServerChanges(n)) \/ UNCHANGED vars
  BY <1>6, RestKeeps
<1> QED BY <1>1, <1>2, <1>3, <1>4, <1>5, <1>6 DEF Next, Answers

-----------------------------------------------------------------------------
(* The slots of the calls.                                                 *)

\* running_request_count_ counts the calls under way, and a queue that could
\* move is being drained.
SlotsOK ==
  /\ IsFiniteSet(reads) /\ IsFiniteSet(browses)
  /\ running = Cardinality(reads) + Cardinality(browses)
  /\ running <= MaxRunning
  /\ Queue # {} /\ HasRoom => draining

\* A batch takes a slot for each of its calls, which are new.
LEMMA DrainStepKeepsSlots ==
  ASSUME FetcherInv, SlotsOK, DrainStep
  PROVE  SlotsOK'
<1>1. PICK batch \in SUBSET Queue : Send(batch)
  BY DEF DrainStep
<1> DEFINE g == [m \in DOMAIN graph |-> IF m \in batch THEN Started(m) ELSE graph[m]]
           browsed == {n \in batch : Descriptions(n, g[n]) # {}}
           read == [request |-> next_id, version |-> [n \in batch |-> version[n]]]
           browse == [request |-> next_id, wants |-> [n \in browsed |-> Descriptions(n, g[n])]]
<1>2. /\ reads' = reads \cup {read}
      /\ \/ browses' = browses /\ running' = running + 1
         \/ browses' = browses \cup {browse} /\ running' = running + 2
      /\ draining' = draining /\ draining /\ running + 2 <= MaxRunning
  BY <1>1 DEF Send, DrainStep, HasRoom
<1>3. next_id \in Nat /\ next_id \notin 1..next_id - 1
  BY DEF FetcherInv, CountersOK
<1>4. read \notin reads /\ browse \notin browses
  <2>1. read.request = next_id /\ browse.request = next_id
    OBVIOUS
  <2> HIDE DEF read, browse
  <2>2. /\ \A call \in reads : call.request \in 1..next_id - 1
        /\ \A call \in browses : call.request \in 1..next_id - 1
    BY DEF FetcherInv, CallsOK, ReadOK, BrowseOK
  <2> QED BY <1>3, <2>1, <2>2
<1> HIDE DEF read, browse
<1>5. /\ Cardinality(reads) \in Nat /\ Cardinality(browses) \in Nat
      /\ IsFiniteSet(reads) /\ IsFiniteSet(browses)
  BY FS_CardinalityType DEF SlotsOK
<1>6. IsFiniteSet(reads') /\ Cardinality(reads') = Cardinality(reads) + 1
  BY <1>2, <1>4, <1>5, FS_AddElement
<1>7. /\ IsFiniteSet(browses \cup {browse})
      /\ Cardinality(browses \cup {browse}) = Cardinality(browses) + 1
  BY <1>4, <1>5, FS_AddElement
<1>8. MaxRunning \in Nat /\ running = Cardinality(reads) + Cardinality(browses)
  BY FetcherAssumption DEF FetcherAssumption, SlotsOK
<1>9. CASE browses' = browses /\ running' = running + 1
  <2>1. running' = Cardinality(reads') + Cardinality(browses') /\ running' <= MaxRunning
    BY <1>2, <1>5, <1>6, <1>8, <1>9
  <2>2. draining' /\ IsFiniteSet(reads') /\ IsFiniteSet(browses')
    BY <1>2, <1>5, <1>6, <1>9
  <2> QED BY <2>1, <2>2 DEF SlotsOK
<1>10. CASE browses' = browses \cup {browse} /\ running' = running + 2
  <2>1. running' = Cardinality(reads') + Cardinality(browses') /\ running' <= MaxRunning
    BY <1>2, <1>5, <1>6, <1>7, <1>8, <1>10
  <2>2. draining' /\ IsFiniteSet(reads') /\ IsFiniteSet(browses')
    BY <1>2, <1>6, <1>7, <1>10
  <2> QED BY <2>1, <2>2 DEF SlotsOK
<1> QED BY <1>2, <1>9, <1>10

\* Every answer gives its slot back and resumes the queue.
LEMMA AnswersKeepSlots ==
  ASSUME FetcherInv, SlotsOK, Answers
  PROVE  SlotsOK'
<1>1. /\ IsFiniteSet(reads) /\ IsFiniteSet(browses)
      /\ Cardinality(reads) \in Nat /\ Cardinality(browses) \in Nat
      /\ running = Cardinality(reads) + Cardinality(browses)
      /\ running <= MaxRunning /\ MaxRunning \in Nat
  BY FS_CardinalityType, FetcherAssumption DEF SlotsOK, FetcherAssumption
<1>2. running' = running - 1 /\ draining'
  BY DEF Answers, ReadAnswer, BrowseAnswer, Release
<1>3. CASE \E call \in reads : reads' = reads \ {call} /\ browses' = browses
  <2>1. IsFiniteSet(reads') /\ Cardinality(reads') = Cardinality(reads) - 1
    BY <1>1, <1>3, FS_RemoveElement
  <2>2. running' = Cardinality(reads') + Cardinality(browses') /\ running' <= MaxRunning
    BY <1>1, <1>2, <1>3, <2>1
  <2>3. draining' /\ IsFiniteSet(browses')
    BY <1>1, <1>2, <1>3
  <2> QED BY <2>1, <2>2, <2>3 DEF SlotsOK
<1>4. CASE \E call \in browses : browses' = browses \ {call} /\ reads' = reads
  <2>1. IsFiniteSet(browses') /\ Cardinality(browses') = Cardinality(browses) - 1
    BY <1>1, <1>4, FS_RemoveElement
  <2>2. running' = Cardinality(reads') + Cardinality(browses') /\ running' <= MaxRunning
    BY <1>1, <1>2, <1>4, <2>1
  <2>3. draining' /\ IsFiniteSet(reads')
    BY <1>1, <1>2, <1>4
  <2> QED BY <2>1, <2>2, <2>3 DEF SlotsOK
<1> QED BY <1>3, <1>4 DEF Answers, ReadAnswer, BrowseAnswer

\* The queue grows only when the loop is on, and the loop ends only when the
\* queue is empty or there is no room.
LEMMA StepKeepsSlots ==
  ASSUME FetcherInv, SlotsOK, [Next]_vars
  PROVE  SlotsOK'
<1>1. ASSUME NEW n \in Asked, NEW status \in Statuses, NEW force \in BOOLEAN,
             Fetch(n, status, force)
      PROVE  SlotsOK'
  <2>1. UNCHANGED <<reads, browses, running>> /\ (draining' <=> draining \/ graph' # graph)
    BY <1>1 DEF Fetch
  <2>2. (Queue # {} /\ HasRoom => draining)'
    <3>1. graph' = graph => Queue' = Queue
      BY DEF Queue
    <3> QED BY <2>1, <3>1 DEF SlotsOK, HasRoom
  <2> QED BY <2>1, <2>2 DEF SlotsOK
<1>2. ASSUME NEW n \in Asked, Cancel(n)
      PROVE  SlotsOK'
  BY <1>2 DEF Cancel, SlotsOK
<1>3. CASE DrainEnds
  BY <1>3 DEF DrainEnds, SlotsOK, Queue, HasRoom
<1>4. CASE (\E n \in Asked : ServerChanges(n)) \/ UNCHANGED vars
  BY <1>4 DEF ServerChanges, vars, SlotsOK, Queue, HasRoom
<1>5. CASE DrainStep
  BY <1>5, DrainStepKeepsSlots
<1>6. CASE Answers
  BY <1>6, AnswersKeepSlots
<1> QED BY <1>1, <1>2, <1>3, <1>4, <1>5, <1>6 DEF Next

-----------------------------------------------------------------------------
(* The theorems.                                                           *)

\* What the graph, the calls under way and the service have to do with each
\* other, over every sequence of fetches, cancels, answers and failures.
THEOREM FetcherInvariant == Spec => []FetcherInv
<1>1. Init => FetcherInv
  BY InitEstablishes
<1>2. FetcherInv /\ [Next]_vars => FetcherInv'
  BY StepKeeps
<1> QED BY <1>1, <1>2, PTL DEF Spec

\* NotifyFetchedNodes hands over no node before all the node needs, whatever
\* fails or is cancelled, and in whatever order the answers come.
THEOREM FetcherHandsUsableNodes == Spec => []HandedNodesAreUsable
<1>1. FetcherInv => HandedNodesAreUsable
  BY DEF FetcherInv, ServiceOK
<1> QED BY <1>1, FetcherInvariant, PTL

\* FetchNode with force: no answer to an older request completes the node.
THEOREM FetcherForcedFetchIsFresh == Spec => []ForcedFetchIsFresh
<1>1. FetcherInv => ForcedFetchIsFresh
  BY DEF FetcherInv, ServiceOK
<1> QED BY <1>1, FetcherInvariant, PTL

\* A node of the graph is queued, done, or waits for answers that will come and
\* will be taken, whichever requests were superseded or cancelled; and every
\* call holds one slot, which its answer gives back to the queue.
THEOREM FetcherForgetsNoNode == Spec => []EveryNodeIsOnItsWay
<1>1. Init => SlotsOK
  <2>1. Init => reads = {} /\ browses = {} /\ running = 0 /\ Queue = {}
    BY DEF Init, Queue
  <2>2. MaxRunning \in Nat
    BY FetcherAssumption DEF FetcherAssumption
  <2> QED BY <2>1, <2>2, FS_EmptySet DEF SlotsOK
<1>2. FetcherInv /\ SlotsOK /\ [Next]_vars => SlotsOK'
  BY StepKeepsSlots
<1>3. ASSUME FetcherInv, SlotsOK PROVE EveryNodeIsOnItsWay
  <2>1. ASSUME NEW n \in DOMAIN graph
        PROVE  graph[n].pending <=> graph[n].started = {}
    BY <1>3 DEF FetcherInv, GraphOK, NodeOK
  <2>2. AwaitedIn(graph, reads, browses)
    BY <1>3 DEF FetcherInv
  <2> QED BY <1>3, <2>1, <2>2 DEF AwaitedIn, SlotsOK, EveryNodeIsOnItsWay
<1> QED BY <1>1, <1>2, <1>3, FetcherInvariant, PTL DEF Spec

\* The types of the fetcher's state; a dependency is always in the graph, and
\* no node waits for a request that was never made.
THEOREM FetcherTypes == Spec => []FetcherTypeOK
<1>1. ASSUME FetcherInv PROVE FetcherTypeOK
  <2>1. ASSUME NEW n \in DOMAIN graph
        PROVE  /\ \A flag \in Flags : graph[n][flag] \in BOOLEAN
               /\ graph[n].started \subseteq graph[n].wanted
               /\ graph[n].request < next_id
               /\ graph[n].depends \subseteq DOMAIN graph
               /\ graph[n].pending => graph[n].started = {}
    <3>1. NodeOK(graph[n], next_id) /\ graph[n].depends \subseteq DOMAIN graph
      BY <1>1 DEF FetcherInv, GraphOK
    <3>2. \A flag \in Flags : graph[n][flag] \in BOOLEAN
      BY <3>1 DEF NodeOK, Node, Flags
    <3> QED BY <3>1, <3>2 DEF NodeOK
  <2>2. \A call \in reads \cup browses : call.request \in 1..next_id - 1
    BY <1>1 DEF FetcherInv, CallsOK, ReadOK, BrowseOK
  <2>3. /\ DOMAIN graph \subseteq Ids
        /\ draining \in BOOLEAN /\ aborted \in BOOLEAN
        /\ valid \subseteq Ids /\ excused \subseteq Ids
    BY <1>1 DEF FetcherInv, GraphOK, CountersOK, ServiceOK
  <2> QED BY <2>1, <2>2, <2>3 DEF FetcherTypeOK
<1> QED BY <1>1, FetcherInvariant, PTL

\* The fetcher implements NodeDelivery: whatever leaves the graph of fetching
\* nodes is handed over, complete, or given up.
THEOREM FetcherImplementsDelivery == Spec => ImplementsDelivery
<1>1. Init => Delivery!Init
  BY DEF Init, Delivery!Init
<1>2. ASSUME FetcherInv, FetcherInv', [Next]_vars
      PROVE  [Delivery!Next]_(Delivery!vars)
  <2>1. Promised
    BY <1>2, StepKeeps
  <2>2. Delivery!Asks
    BY <1>2 DEF Delivery!Asks, FetcherInv, GraphOK
  <2>3. Delivery!Delivers /\ Delivery!Keeps
    BY <2>1 DEF Promised, Delivery!Delivers, Delivery!Keeps
  <2>4. Delivery!Complete
    <3> SUFFICES ASSUME NEW n \in valid' \ valid
                 PROVE  [m \in Ids |-> Needs(m)][n] \subseteq valid' \cup excused'
      BY DEF Delivery!Complete
    <3>1. n \in Ids /\ n \in valid' \ Valid
      BY <1>2 DEF FetcherInv, ServiceOK
    <3>2. Needs(n) \subseteq valid' \cup excused'
      BY <1>2, <3>1 DEF FetcherInv, ServiceOK, HandedNodesAreUsable
    <3> QED BY <3>1, <3>2
  <2> QED BY <2>2, <2>3, <2>4 DEF Delivery!Next
<1> QED BY <1>1, <1>2, FetcherInvariant, PTL DEF Spec, ImplementsDelivery, Delivery!Spec
=============================================================================
