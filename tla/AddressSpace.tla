----------------------------- MODULE AddressSpace -----------------------------
(***************************************************************************)
(* An AddressSpaceImpl over its life: the standard nodes are built in      *)
(* code, the static node sets are loaded over them from files in some      *)
(* order, and then clients create, link, modify and delete nodes while     *)
(* subscribers listen and the view service browses.                        *)
(*                                                                         *)
(* DeleteNode works bottom up through a stack of calls and reports as it   *)
(* goes, so each of its steps is an action: subscribers and browsers see   *)
(* the states in between.                                                  *)
(***************************************************************************)
EXTENDS AddressSpaceXml, ViewService

CONSTANTS
  StandardNodes,    \* what StandardAddressSpace constructs: id |-> node
  StandardEdges,    \* the references it adds, in its order
  Orders,           \* the elements of the static files, in every order
  ClientOrder,      \* the one of Orders after which clients start (a bound)
  Creations,        \* the node states clients create
  Links,            \* the references <<type, source, target>> clients change
  Deletable,        \* the nodes clients delete
  Writable,         \* the nodes clients modify
  Declarations,     \* the property declarations they name
  Values            \* the values they write

\* Node states and references are of the types the code gives them; a variable
\* built in code has a data type.
ASSUME AddressSpaceAssumption ==
  /\ DOMAIN StandardNodes \subseteq NodeIds
  /\ \A n \in DOMAIN StandardNodes :
       /\ StandardNodes[n] \in Nodes
       /\ StandardNodes[n].class \in {"Variable", "VariableType"} =>
            /\ StandardNodes[n].dt \in DOMAIN StandardNodes
            /\ StandardNodes[StandardNodes[n].dt].class = "DataType"
  /\ StandardEdges \in Seq(NodeIds \X NodeIds \X NodeIds)
  /\ Orders \subseteq Seq(States) /\ Creations \subseteq States
  /\ Links \subseteq NodeIds \X NodeIds \X NodeIds
  /\ Writable \cup Deletable \cup Declarations \subseteq NodeIds
  /\ Values \subseteq Int

VARIABLES
  space,     \* the nodes and references (NodeSpace), and what was reported
  status,    \* the result of the last load or creation, "none" before
  order,     \* the elements of the static files, in their order
  deleting,  \* the stack of DeleteNode calls, outermost first
  doomed,    \* ghost: the nodes below the outermost call's node
  gone,      \* ghost: the nodes erased by that call
  known      \* ghost: the references when the last operation began

vars == <<space, status, order, deleting, doomed, gone, known>>

StandardSpace ==
  LET built == [EmptySpace EXCEPT
                  !.node = [n \in NodeIds |->
                              IF n \in DOMAIN StandardNodes
                                THEN StandardNodes[n] ELSE NoNode]]
      linked == Through([s \in Spaces |-> [e \in NodeIds \X NodeIds \X NodeIds |->
                           AddReference(s, e[1], e[2], e[3])]],
                        built, StandardEdges)
  IN  [linked EXCEPT !.signals = <<>>]

\* An operation reports from here on.
Fresh == [space EXCEPT !.signals = <<>>]

\* A call that fails a Check before it has changed anything.
Refused == [Fresh EXCEPT !.panic = TRUE]

\* A client may call: nothing is in progress and no Check has failed.
Idle ==
  /\ status # "none"
  /\ order = ClientOrder
  /\ deleting = <<>>
  /\ ~space.panic

-----------------------------------------------------------------------------
(* Reference definitions: what lies below a node, seen from below.         *)

Parents(s, nodes) ==
  {r.node : r \in {q \in UNION {ToSet(s.inv[n]) : n \in nodes} :
                      IsHierarchical(s, q.type)}}

\* No way up has more steps than there are nodes.
Ancestors(s, nodes) ==
  LET climb[left \in 0..Longest] ==
          [found \in SUBSET NodeIds |->
             IF left = 0 \/ Parents(s, found) \subseteq found THEN found
             ELSE climb[left - 1][found \cup Parents(s, found)]]
  IN  climb[Longest][nodes]

Below(s, top) == {n \in Present(s) : top \in Ancestors(s, {n})}

\* The references a reader of node states finds in them.
StateEdges(states) ==
  LET Fields(ns) == {<<ns.reftype, ns.parent, ns.id>>, <<"HasSubtype", ns.super, ns.id>>,
                     <<"HasTypeDefinition", ns.id, ns.typedef>>}
  IN  {e \in UNION {Fields(ns) : ns \in states} : Null \notin {e[1], e[2], e[3]}}
        \cup ListedEdges(states)

-----------------------------------------------------------------------------
(* What AddressSpaceImpl leaves to its callers.                            *)

IsType(s, n) == s.node[n].class \in TypeClasses

\* A reference or a variable that stays is of the type n or of a subtype of it.
InUse(s, n) ==
  \/ \E e \in Edges(s) : IsSubtypeOf(s, e[1], n)
  \/ \E m \in NodeIds : s.node[m].class \in {"Variable", "VariableType"} /\ s.node[m].dt = n

\* When DeleteNode erases a node, nothing that is left rests on it: the code looks
\* at the references from and to the node alone.
NothingInUseIsDeleted ==
  deleting # <<>> /\ GetChildren(space, Last(deleting)) = <<>>
    => ~InUse(space, Last(deleting))

\* Every reference is of a hierarchical or a non-hierarchical type, and only types
\* have supertypes; AddReference itself asks for neither.
ReferencesAreRooted ==
  \A e \in Edges(space) :
    /\ \/ IsHierarchical(space, e[1])
       \/ IsSubtypeOf(space, e[1], "NonHierarchicalReferences")
    /\ e[1] = "HasSubtype" => IsType(space, e[3])

-----------------------------------------------------------------------------
(* Actions.                                                                *)

Load ==
  /\ status = "none"
  /\ ~space.panic
  /\ LET loaded == LoadStaticUANodeSet(Fresh, order)
     IN  space' = loaded.space /\ status' = loaded.status
  /\ known' = Edges(space)
  /\ UNCHANGED <<order, deleting, doomed, gone>>

Create(ns) ==
  /\ Idle
  /\ LET made == CreateNode(Fresh, ns)
     IN  space' = made.space /\ status' = made.status
  /\ known' = Edges(space)
  /\ UNCHANGED <<order, deleting, doomed, gone>>

\* Of nodes that are not there, of a reference that is, of a second type or
\* supertype, AddReference fails a Check.  Clients keep the hierarchy free of
\* cycles, which DeleteNode relies on.
Link(t, source, target) ==
  /\ Idle
  /\ IsHierarchical(space, t) => target \notin Ancestors(space, {source})
  /\ space' = AddReference(Fresh, t, source, target)
  /\ known' = Edges(space)
  /\ UNCHANGED <<status, order, deleting, doomed, gone>>

\* Of a reference that is not there, DeleteReference fails a Check.
Unlink(t, source, target) ==
  /\ Idle
  /\ space' = IF <<t, source, target>> \in Edges(space)
                THEN DeleteReference(Fresh, t, source, target) ELSE Refused
  /\ known' = Edges(space)
  /\ UNCHANGED <<status, order, deleting, doomed, gone>>

Modified(s, n) ==
  Notify(s, [kind |-> "modified", type |-> Null, node |-> n, target |-> Null])

\* ModifyNode with a value: one that is already there, or is not for a variable,
\* is not reported, and a node that is not there fails a Check.
ModifyValue(n, value) ==
  /\ Idle
  /\ n \in Present(space) =>
       space.node[n].class = "Variable" /\ space.node[n].value # value
  /\ space' = IF n \in Present(space)
                THEN Modified([Fresh EXCEPT !.node[n].value = value], n)
                ELSE Refused
  /\ known' = Edges(space)
  /\ UNCHANGED <<status, order, deleting, doomed, gone>>

\* ModifyNode with a property.  One that the node's type does not declare, or that
\* the node does not have, fails a Check.
ModifyProperty(n, decl, value) ==
  LET property == As(space, FindChild(space, n, space.node[decl].name), {"Variable"})
      written == SetPropertyValue(Fresh, n, decl, value)
  IN  /\ Idle
      /\ ~written.panic => space.node[property].value # value
      /\ space' = IF written.panic THEN written ELSE Modified(written, n)
      /\ known' = Edges(space)
      /\ UNCHANGED <<status, order, deleting, doomed, gone>>

Delete(n) ==
  /\ Idle
  /\ n \in Present(space)
  /\ deleting' = <<n>>
  /\ doomed' = Below(space, n)
  /\ gone' = {}
  /\ known' = Edges(space)
  /\ space' = Fresh
  /\ UNCHANGED <<status, order>>

\* The children of a node that its deletion deletes first.
\* Mutant: only organized children are.
MutantDeletedFirst(s, n) == Targets(s, n, "Organizes")

DeletedFirst(s, n) == GetChildren(s, n)

Erased(n) ==
  [kind |-> "erased", type |-> Null, node |-> n, target |-> Null]

\* The end of DeleteNode: the references go, then the node.
\* Mutant: subscribers hear of the node first.
MutantEraseNodeFirst(s, n) ==
  [DeleteAllReferences(Notify(s, Erased(n)), n) EXCEPT !.node[n] = NoNode]

EraseNode(s, n) ==
  [Notify(DeleteAllReferences(s, n), Erased(n)) EXCEPT !.node[n] = NoNode]

\* The innermost DeleteNode call: its first child, or the node itself once
\* it has no children left.
DeleteStep ==
  /\ deleting # <<>>
  /\ ~space.panic
  /\ LET n == Last(deleting)
         children == DeletedFirst(space, n)
     IN  \/ /\ children # <<>>
            /\ deleting' = Append(deleting, children[1])
            /\ UNCHANGED <<space, gone>>
         \/ /\ children = <<>>
            /\ deleting' = Front(deleting)
            /\ space' = EraseNode(space, n)
            /\ gone' = gone \cup {n}
  /\ UNCHANGED <<status, order, doomed, known>>

Init ==
  /\ space = StandardSpace
  /\ known = Edges(space)
  /\ status = "none"
  /\ order \in Orders
  /\ deleting = <<>>
  /\ doomed = {}
  /\ gone = {}

Next ==
  \/ Load
  \/ \E ns \in Creations : Create(ns)
  \/ \E l \in Links : Link(l[1], l[2], l[3])
  \/ \E l \in Links : Unlink(l[1], l[2], l[3])
  \/ \E n \in Writable, value \in Values : ModifyValue(n, value)
  \/ \E n \in Writable, decl \in Declarations, value \in Values :
       ModifyProperty(n, decl, value)
  \/ \E n \in Deletable : Delete(n)
  \/ DeleteStep

Spec == Init /\ [][Next]_vars

-----------------------------------------------------------------------------
(* Properties.                                                             *)

\* Type invariant; variables and variable types have a data type that exists.
AddressSpaceTypeOK ==
  /\ space \in Spaces
  /\ \A n \in NodeIds : space.node[n].class \in {"Variable", "VariableType"}
                         => As(space, space.node[n].dt, {"DataType"}) # Null
  /\ deleting \in Seq(NodeIds)
  /\ doomed \cup gone \subseteq NodeIds
  /\ known \subseteq NodeIds \X NodeIds \X NodeIds
  /\ status \in Statuses \cup {"none"} /\ order \in Seq(States)

\* A reference is kept in four places: the source's list, the target's list,
\* and for types and subtypes a cached pointer.  They agree after every
\* step, in the middle of a deletion too, and never name a node that is gone.
ReferencesAgree ==
  \A n \in NodeIds :
    /\ IsInjective(space.fwd[n])
    /\ IsInjective(space.inv[n])
    /\ \A r \in ToSet(space.fwd[n]) :
         /\ {r.type, r.node, n} \subseteq Present(space)
         /\ [type |-> r.type, node |-> n] \in ToSet(space.inv[r.node])
    /\ \A r \in ToSet(space.inv[n]) :
         [type |-> r.type, node |-> n] \in ToSet(space.fwd[r.node])
    /\ {r.node : r \in {q \in ToSet(space.fwd[n]) : q.type = "HasTypeDefinition"}}
         = {space.typedef[n]} \ {Null}
    /\ IF space.node[n].class \in TypeClasses
         THEN {r.node : r \in {q \in ToSet(space.inv[n]) : q.type = "HasSubtype"}}
                = {space.super[n]} \ {Null}
         ELSE space.super[n] = Null

\* DeleteNode takes exactly what lay below the node, and takes it so that
\* whatever is left of it still hangs below the node: at no moment does a
\* browser find a node of the subtree cut off from its parents.
DeletionKeepsTheTree ==
  /\ deleting = <<>> => gone = doomed
  /\ deleting # <<>> => Below(space, deleting[1]) = doomed \ gone

\* What a subscriber's copy of the references becomes by a signal.
Apply ==
  [edges \in SUBSET (Ids \X NodeIds \X Ids) |-> [s \in Signals |->
     CASE s.kind = "added" -> edges \cup {<<s.type, s.node, s.target>>}
       [] s.kind = "deleted" -> edges \ {<<s.type, s.node, s.target>>}
       [] OTHER -> edges]]

\* A subscriber that keeps its own copy of the references and applies what
\* it is told has the true references after every step, and is never told
\* of a node after that node was reported deleted.
SubscribersCanFollow ==
  LET signals == space.signals
  IN  /\ Through(Apply, known, signals) = Edges(space)
      /\ \A i, j \in DOMAIN signals :
           i < j /\ signals[i].kind = "erased"
             => signals[i].node \notin {signals[j].node, signals[j].target}

\* The property nodes that creating an instance makes by itself.
IsMadeFromDeclaration(s, n) ==
  /\ s.typedef[n] = "PropertyType"
  /\ Split[n].names # <<>>

\* Whatever order the elements of the static files are read in, the loader
\* finds every reference they list, though it needs a node's parent and type
\* before it can create the node, knows of each type whether it is hierarchical,
\* adds nothing but the property nodes of the instances it creates, and fails no
\* Check: it gives no node a reference, a type or a supertype twice.
LoadFindsEveryReference ==
  [][status = "none" =>
       LET declared == ListedEdges(ToSet(order)) \cup known
           found == Edges(space')
       IN  /\ status' = "Good" /\ ~space'.panic
           /\ declared \subseteq found
           /\ ReferencesAreRooted'
           /\ \A e \in found \ declared :
                \E i \in {2, 3} : IsMadeFromDeclaration(space', e[i])]_vars

\* What MakeNodeState exports of all the nodes together names every
\* reference of the space, although each reference is left to one of its
\* ends and a node with several parents exports only one of them.
SnapshotsNameEveryReference ==
  Edges(space) = StateEdges(SavedStates(space))

\* Both directions are the answers for one after the other.
Directions == {"Forward", "Inverse"}

Asked(n, dir, type, fields) ==
  [node |-> n, direction |-> dir, type |-> type, subtypes |-> TRUE,
   classes |-> {}, fields |-> fields]

\* What both forms of a property tell of a reference.  BrowseProperty leaves out
\* the name of its other end and that node's type, which BrowseNode fills in, and
\* does not look at the result mask.
Common(answer) ==
  [status |-> answer.status,
   refs   |-> [i \in DOMAIN answer.refs |->
                 Restrict(answer.refs[i], {"type", "forward", "node", "class"})]]

\* The same references lead from a property of a node and back to it, in the same
\* order, whether the property exists as a node or only as the id "node!name":
\* BrowseOne answers with the same types, directions, ends and classes of ends.
VirtualPropertiesBrowseAlike ==
  \A n \in {x \in Present(space) : space.typedef[x] # Null} :
    \A p \in ToSet(GetProperties(space, n)) :
      LET name == space.node[p].name
      IN  /\ FindChildDeclaration(space, space.typedef[n], name) # Null
          /\ Cardinality(ToSet(space.inv[p])) = 1
          => \A t \in {x \in NodeIds : space.node[x].class = "ReferenceType"},
               dir \in Directions :
               LET d == Asked(p, dir, t, ResultFields)
               IN  Common(BrowseNode(space, p, d))
                     = Common(BrowseProperty(space, n, name, d))

\* A nested id and the browse path of its names lead to the same node, or
\* both to none.
PathsFindNestedNodes ==
  \A id \in {x \in NodeIds : Len(Split[x].names) = 1} :
    LET base == Split[id].base
        path == <<[type |-> "HierarchicalReferences", subtypes |-> TRUE,
                   inverse |-> FALSE, name |-> Split[id].names[1]]>>
        found == TranslateBrowsePath(space, base, path)
        nested == GetNestedNode(space, id)
    IN  base \in Present(space) =>
          IF found.status = "Good"
            THEN found.targets = <<[node |-> nested.node, matched |-> 1]>>
            ELSE nested.rest = Split[id].names

\* So clients that follow references and names need not know which of the
\* properties below a node have ids of their own.
NestedNodesAreFound == VirtualPropertiesBrowseAlike /\ PathsFindNestedNodes
=============================================================================
