------------------------------ MODULE NodeSpace ------------------------------
(***************************************************************************)
(* The graph of an address space as data: the nodes of AddressSpaceImpl,   *)
(* the reference lists that Node keeps at both ends of every reference,    *)
(* the pointers cached beside them (type_definition_, supertype_), and     *)
(* the free functions of node_utils and address_space_util over them.      *)
(*                                                                         *)
(* A space is a record.  Operations return the space they leave behind;    *)
(* `signals' lists what they reported to subscribers, in order, and        *)
(* `panic' is set where the code fails a Check.                            *)
(***************************************************************************)
EXTENDS Integers, FiniteSets, SequencesExt

CONSTANTS
  NodeIds,       \* every node id a run uses
  Names,         \* the browse names, the empty one among them
  Null,          \* the null node id
  Split,         \* what IsNestedNodeId sees in an id: "id!name" is the name
                 \* below the id, any other id has no names
  Placeholders   \* the modelling rules of placeholder declarations

ASSUME SpaceAssumption ==
  /\ IsFiniteSet(NodeIds) /\ Null \notin NodeIds /\ "" \in Names
  /\ {"HasProperty", "PropertyType"} \subseteq NodeIds

TypeClasses == {"ObjectType", "VariableType", "ReferenceType", "DataType"}

NodeClasses == {"Object", "Variable", "Method", "None"} \cup TypeClasses

Ids == NodeIds \cup {Null}

Nodes == [class : NodeClasses, name : Names, dt : Ids, value : Int]

NoNode == [class |-> "None", name |-> "", dt |-> Null, value |-> 0]

References == [type : NodeIds, node : NodeIds]

Signals ==
  [kind : {"added", "deleted", "moved", "modified", "erased"},
   type : Ids, node : NodeIds, target : Ids]

Spaces ==
  [node    : [NodeIds -> Nodes],
   fwd     : [NodeIds -> Seq(References)],
   inv     : [NodeIds -> Seq(References)],
   typedef : [NodeIds -> Ids],
   super   : [NodeIds -> Ids],
   signals : Seq(Signals),
   panic   : BOOLEAN]

EmptySpace ==
  [node    |-> [n \in NodeIds |-> NoNode],
   fwd     |-> [n \in NodeIds |-> <<>>],
   inv     |-> [n \in NodeIds |-> <<>>],
   typedef |-> [n \in NodeIds |-> Null],
   super   |-> [n \in NodeIds |-> Null],
   signals |-> <<>>,
   panic   |-> FALSE]

-----------------------------------------------------------------------------
(* Loops over a list, as functions of how far they have come.              *)

\* What a loop makes of a value, a step for each element of the list.
Through(step, value, list) ==
  LET after[i \in 0..Len(list)] ==
        IF i = 0 THEN value ELSE step[after[i - 1]][list[i]]
  IN  after[Len(list)]

\* The elements of a list that are wanted, in their order.
Kept(list, wanted) ==
  LET kept[i \in 0..Len(list)] ==
        IF i = 0 THEN <<>>
        ELSE IF list[i] \in wanted THEN Append(kept[i - 1], list[i])
                                   ELSE kept[i - 1]
  IN  kept[Len(list)]

-----------------------------------------------------------------------------
(* Looking at nodes and references.                                        *)

\* node_map_, through GetNode.
Present(s) == {n \in NodeIds : s.node[n].class # "None"}

\* AsObject, AsVariable, AsReferenceType...: the node, or nothing when it is
\* absent or of another class.
As(s, n, classes) ==
  IF n # Null /\ s.node[n].class \in classes THEN n ELSE Null

\* The references of the space as the forward lists have them.
Edges(s) ==
  UNION {{<<r.type, n, r.node>> : r \in ToSet(s.fwd[n])} : n \in NodeIds}

-----------------------------------------------------------------------------
(* The type hierarchy: chains of supertype_.  One without a cycle, on which  *)
(* the code would not end, has no more types than there are nodes.         *)

Longest == Cardinality(NodeIds)

TypeChain(s, t) ==
  LET chain[left \in 0..Longest] ==
        [u \in Ids |-> IF left = 0 \/ u = Null THEN <<>>
                       ELSE <<u>> \o chain[left - 1][s.super[u]]]
  IN  chain[Longest][t]

IsSubtypeOf(s, t, supertype) ==
  LET below[left \in 0..Longest] ==
        [u \in Ids |-> /\ left > 0 /\ u # Null
                       /\ u = supertype \/ below[left - 1][s.super[u]]]
  IN  below[Longest][t]

IsHierarchical(s, t) == IsSubtypeOf(s, t, "HierarchicalReferences")

-----------------------------------------------------------------------------
(* Looking along references.                                               *)

FilterReferences(s, refs, t, subtypes) ==
  Kept(refs, {r \in ToSet(refs) : IF subtypes THEN IsSubtypeOf(s, r.type, t)
                                              ELSE r.type = t})

Targets(s, n, t) ==
  LET refs == FilterReferences(s, s.fwd[n], t, TRUE)
  IN  [i \in DOMAIN refs |-> refs[i].node]

GetChildren(s, n) == Targets(s, n, "HierarchicalReferences")

GetComponents(s, n) == Targets(s, n, "HasComponent")

GetProperties(s, n) ==
  Kept(Targets(s, n, "HasProperty"),
       {p \in NodeIds : s.node[p].class = "Variable"})

NoReference == [type |-> Null, node |-> Null]

First(seq, none) == IF seq = <<>> THEN none ELSE seq[1]

FindReference(s, n, t, forward) ==
  First(FilterReferences(s, IF forward THEN s.fwd[n] ELSE s.inv[n], t, TRUE),
        NoReference)

\* FindReference with the id of the other end.
HasReference(s, n, t, target) ==
  \E i \in DOMAIN s.fwd[n] : /\ s.fwd[n][i].node = target
                             /\ IsSubtypeOf(s, s.fwd[n][i].type, t)

GetParentReference(s, n) == FindReference(s, n, "HierarchicalReferences", FALSE)

Named(s, nodes, name) ==
  First(Kept(nodes, {n \in ToSet(nodes) : s.node[n].name = name}), Null)

FindChild(s, n, name) == Named(s, GetChildren(s, n), name)

\* The first of what the types of a chain yield, nearest type first.
FirstFound(found) == First(Kept(found, NodeIds), Null)

FindChildDeclaration(s, t, name) ==
  LET chain == TypeChain(s, t)
  IN  FirstFound([i \in DOMAIN chain |-> FindChild(s, chain[i], name)])

\* FindDeclaration: the property declaration of the node's type by its id.
FindDeclaration(s, n, decl) ==
  LET chain == TypeChain(s, s.typedef[n])
  IN  FirstFound([i \in DOMAIN chain |->
                    IF Contains(GetProperties(s, chain[i]), decl) THEN decl ELSE Null])

\* FindComponentDeclaration: the declaration an instance's component comes
\* from.  Only HasComponent references of the type are looked at.
FindComponentDeclaration(s, component) ==
  LET instance == GetParentReference(s, component).node
      name == s.node[component].name
      chain == TypeChain(s, s.typedef[instance])
  IN  CASE instance = Null -> Null
        [] instance # Null /\ s.typedef[instance] # Null ->
             FirstFound([i \in DOMAIN chain |->
                           Named(s, GetComponents(s, chain[i]), name)])
        [] OTHER -> IF s.node[instance].class \in TypeClasses
                      THEN component ELSE Null

\* GetNestedNode: the node an id names, itself or as a browse name below the
\* part before the last '!'; `rest' is what no child matched.
Descend(s, n, names) ==
  LET at[i \in 0..Len(names)] ==
        CASE i = 0 -> n
          [] i > 0 /\ at[i - 1] # Null -> FindChild(s, at[i - 1], names[i])
          [] OTHER -> Null
      depth == Max({i \in 0..Len(names) : at[i] # Null})
  IN  [node |-> at[depth], rest |-> SubSeq(names, depth + 1, Len(names))]

GetNestedNode(s, id) ==
  IF id \in Present(s) THEN [node |-> id, rest |-> <<>>]
  ELSE IF Split[id].base \in Present(s)
         THEN Descend(s, Split[id].base, Split[id].names)
         ELSE [node |-> Null, rest |-> <<>>]

\* MakeNestedNodeId of the model library; none where NodeIds has no such id.
MakeNestedNodeId(n, name) ==
  LET ids == {id \in NodeIds : Split[id] = [base |-> n, names |-> <<name>>]}
  IN  IF ids = {} THEN Null ELSE CHOOSE id \in ids : TRUE

-----------------------------------------------------------------------------
(* Changing references: AddressSpaceImpl::AddReference, DeleteReference.   *)

Notify(s, signal) == [s EXCEPT !.signals = Append(@, signal)]

NotifyReference(s, t, source, target, added) ==
  LET told == Notify(s, [kind   |-> IF added THEN "added" ELSE "deleted",
                         type   |-> t,
                         node   |-> source,
                         target |-> target])
  IN  IF IsHierarchical(s, t)
        THEN Notify(told, [kind |-> "moved", type |-> t,
                           node |-> target, target |-> Null])
        ELSE told

\* The Checks of Node::AddReference and TypeDefinition::AddReference.
CanAddReference(s, t, source, target) ==
  /\ {t, source, target} \subseteq Present(s)
  /\ s.node[t].class = "ReferenceType"
  /\ <<t, source, target>> \notin Edges(s)
  /\ t = "HasTypeDefinition" =>
       s.typedef[source] = Null /\ s.node[target].class \in TypeClasses
  /\ t = "HasSubtype" /\ s.node[target].class \in TypeClasses =>
       s.super[target] = Null /\ s.node[source].class \in TypeClasses

AddReference(s, t, source, target) ==
  IF ~CanAddReference(s, t, source, target)
    THEN [s EXCEPT !.panic = TRUE]
    ELSE NotifyReference(
           [s EXCEPT
              !.fwd[source] = Append(@, [type |-> t, node |-> target]),
              !.inv[target] = Append(@, [type |-> t, node |-> source]),
              !.typedef[source] = IF t = "HasTypeDefinition"
                                    THEN target ELSE @,
              !.super[target] = IF /\ t = "HasSubtype"
                                   /\ s.node[target].class \in TypeClasses
                                  THEN source ELSE @],
           t, source, target, TRUE)

\* Mutant: the target's end of the reference is left in place.
MutantDeleteReferenceOneEnd(s, t, source, target) ==
  NotifyReference(
    [s EXCEPT !.fwd[source] = RemoveFirst(@, [type |-> t, node |-> target])],
    t, source, target, FALSE)

DeleteReference(s, t, source, target) ==
  NotifyReference(
    [s EXCEPT
       !.fwd[source] = RemoveFirst(@, [type |-> t, node |-> target]),
       !.inv[target] = RemoveFirst(@, [type |-> t, node |-> source]),
       !.typedef[source] = IF t = "HasTypeDefinition" THEN Null ELSE @,
       !.super[target] = IF /\ t = "HasSubtype"
                            /\ s.node[target].class \in TypeClasses
                           THEN Null ELSE @],
    t, source, target, FALSE)

\* Inverse references from the back of the list, then the forward ones.
DeleteLastReference(s, n) ==
  CASE s.inv[n] # <<>> ->
         LET r == Last(s.inv[n]) IN DeleteReference(s, r.type, r.node, n)
    [] s.inv[n] = <<>> /\ s.fwd[n] # <<>> ->
         LET r == Last(s.fwd[n]) IN DeleteReference(s, r.type, n, r.node)
    [] OTHER -> s

DeleteAllReferences(s, n) ==
  LET left[k \in 0..(Len(s.inv[n]) + Len(s.fwd[n]))] ==
        IF k = 0 THEN s ELSE DeleteLastReference(left[k - 1], n)
  IN  left[Len(s.inv[n]) + Len(s.fwd[n])]
=============================================================================
