--------------------------- MODULE AddressSpaceXml ---------------------------
(***************************************************************************)
(* Static address-space files: what MakeNodeState exports of a node, what  *)
(* survives in the file, and how the loader turns node states, read in     *)
(* any order, back into a graph.                                           *)
(***************************************************************************)
EXTENDS NodeStates

-----------------------------------------------------------------------------
(* MakeNodeState.                                                          *)

\* Forward references the snapshot of a node lists itself: non-hierarchical
\* ones, and hierarchical ones that are not the target's parent edge.
\* Mutant: every hierarchical reference is left to its target.
MutantExportsPrimaryOnly(s, n, r) ==
  IsSubtypeOf(s, r.type, "NonHierarchicalReferences")

ExportsReference(s, n, r) ==
  \/ IsSubtypeOf(s, r.type, "NonHierarchicalReferences")
  \/ /\ IsHierarchical(s, r.type)
     /\ r.type # "HasSubtype"
     /\ GetParentReference(s, r.node) # [type |-> r.type, node |-> n]

MakeNodeState(s, n) ==
  LET parent == GetParentReference(s, n)
      props == GetProperties(s, n)
      refs == Kept(s.fwd[n], {r \in ToSet(s.fwd[n]) : ExportsReference(s, n, r)})
  IN  [BlankState EXCEPT
         !.id = n,
         !.class = s.node[n].class,
         !.typedef = s.typedef[n],
         !.parent = parent.node,
         !.reftype = parent.type,
         !.super = s.super[n],
         !.name = s.node[n].name,
         !.dt = s.node[n].dt,
         !.value = IF s.node[n].class \in {"Variable", "VariableType"}
                     THEN s.node[n].value ELSE NoValue,
         !.props = [i \in DOMAIN props |->
                      <<FindComponentDeclaration(s, props[i]),
                        s.node[props[i]].value>>],
         !.refs = [i \in DOMAIN refs |->
                     [type |-> refs[i].type, forward |-> TRUE,
                      node |-> refs[i].node]]]

-----------------------------------------------------------------------------
(* SaveAddressSpaceXml and ReadNodeState: a property without an id is      *)
(* written without one, and refused by the reader.                         *)

SavedStates(s) == {MakeNodeState(s, n) : n \in Present(s)}

-----------------------------------------------------------------------------
(* ReadUaNodeState: a UANodeSet element lists references only; those that  *)
(* name its type, its supertype or its parent become fields of the state,  *)
(* and of two parents the last one listed stays.                           *)

ReadUaReference(ns, r) ==
  CASE ~r.forward /\ r.type = "HasSubtype" ->
         [ns EXCEPT !.super = r.node, !.parent = r.node, !.reftype = r.type]
    [] ~r.forward /\ r.type \in {"HasComponent", "HasProperty", "Organizes"} ->
         [ns EXCEPT !.parent = r.node, !.reftype = r.type]
    [] r.forward /\ r.type = "HasTypeDefinition" ->
         [ns EXCEPT !.typedef = r.node]
    [] OTHER -> [ns EXCEPT !.refs = Append(@, r)]

ReadUaNodeState(element) ==
  Through([ns \in States |-> [r \in ToSet(element.refs) |-> ReadUaReference(ns, r)]],
          [element EXCEPT !.refs = <<>>], element.refs)

\* The references elements or node states list.
ListedEdges(states) ==
  UNION {{IF r.forward THEN <<r.type, ns.id, r.node>>
                       ELSE <<r.type, r.node, ns.id>> : r \in ToSet(ns.refs)}
         : ns \in states}

-----------------------------------------------------------------------------
(* PromoteHierarchicalParents.                                             *)

\* Hierarchical by the supertypes the parsed states name, nothing else.
IsParsedHierarchical(supers, t) ==
  LET hierarchical[left \in 0..64, u \in Ids] ==
        /\ left > 0
        /\ \/ u = "HierarchicalReferences"
           \/ u \in DOMAIN supers /\ hierarchical[left - 1, supers[u]]
  IN  hierarchical[64, t]

\* The first state of an id wins, as emplace does.
StateOf(states, id) == SelectInSeq(states, LAMBDA ns : ns.id = id)

ParsedSupertypes(states) ==
  LET types == {ns.id : ns \in {x \in ToSet(states) : x.class = "ReferenceType"}}
  IN  [t \in types |-> states[StateOf(states, t)].super]

Promote(supers, ns) ==
  LET IsParent(r) == ~r.forward /\ IsParsedHierarchical(supers, r.type)
      i == SelectInSeq(ns.refs, IsParent)
  IN  IF ns.parent # Null \/ IsTypeDefinition(ns.class) \/ i = 0 THEN ns
      ELSE [ns EXCEPT !.parent = ns.refs[i].node,
                      !.reftype = ns.refs[i].type,
                      !.refs = RemoveAt(ns.refs, i)]

PromoteHierarchicalParents(states) ==
  [i \in DOMAIN states |-> Promote(ParsedSupertypes(states), states[i])]

-----------------------------------------------------------------------------
(* SortNodesHierarchically: depth first, what a node needs before it.      *)

\* NodeStateGraph::VisitNeighbors, as indexes into the states.
Neighbors(states, i) ==
  LET ns == states[i]
      ids == <<IF ns.super = Null THEN Null ELSE "HasSubtype",
               IF ns.typedef = Null THEN Null ELSE "HasTypeDefinition",
               ns.super, ns.reftype, ns.parent, ns.typedef, ns.dt>>
  IN  Kept([k \in DOMAIN ids |-> StateOf(states, ids[k])], DOMAIN states)

\* SortVisitor: no more visits can be under way at once than there are states.
Visits(states) ==
  [visited : SUBSET DOMAIN states, sorted : Seq(DOMAIN states)]

VisitIndex(states) ==
  LET visit[left \in 0..Len(states)] ==
        [acc \in Visits(states) |-> [i \in DOMAIN states |->
           IF i \in acc.visited \/ left = 0 THEN acc
           ELSE LET below == Through(visit[left - 1],
                                     [acc EXCEPT !.visited = @ \cup {i}],
                                     Neighbors(states, i))
                IN  [below EXCEPT !.sorted = Append(@, i)]]]
  IN  visit[Len(states)]

SortedIndexes(states) ==
  Through(VisitIndex(states), [visited |-> {}, sorted |-> <<>>],
          [i \in DOMAIN states |-> i]).sorted

\* Mutant: a node's type definition is not among what it needs.
MutantSortByParent(states) ==
  LET indexes == SortedIndexes([i \in DOMAIN states |->
                                  [states[i] EXCEPT !.typedef = Null]])
  IN  [i \in DOMAIN indexes |-> states[indexes[i]]]

SortNodesHierarchically(states) ==
  LET indexes == SortedIndexes(states)
  IN  [i \in DOMAIN indexes |-> states[indexes[i]]]

-----------------------------------------------------------------------------
(* ApplyNodeStates: every node, then supertypes and references.            *)

CreateSorted(s, states) ==
  Through([made \in Results |-> [ns \in States |->
             IF made.status = "Good" /\ ns.id \notin Present(made.space)
               THEN CreateNode(made.space, [ns EXCEPT !.props = <<>>])
               ELSE made]],
          Result(s, "Good"), states)

\* Add a reference unless one of its type, or of a subtype, is there.
Ensure(made, t, source, target) ==
  IF made.status # "Good" THEN made
  ELSE IF source \notin Present(made.space)
    THEN Result(made.space, IF t = "HasSubtype" THEN "Bad_WrongTypeId"
                                                ELSE "Bad_WrongNodeId")
  ELSE IF HasReference(made.space, source, t, target) THEN made
  ELSE Result(AddReference(made.space, t, source, target), "Good")

LinkState(made, ns) ==
  Through([m \in Results |-> [r \in ToSet(ns.refs) |->
             IF r.forward THEN Ensure(m, r.type, ns.id, r.node)
                          ELSE Ensure(m, r.type, r.node, ns.id)]],
          IF ns.super = Null THEN made
                             ELSE Ensure(made, "HasSubtype", ns.super, ns.id),
          ns.refs)

ApplyNodeStates(s, states) ==
  LET sorted == SortNodesHierarchically(PromoteHierarchicalParents(states))
      created == CreateSorted(s, sorted)
  IN  IF created.status # "Good" THEN created
      ELSE Through([made \in Results |-> [ns \in States |-> LinkState(made, ns)]],
                   created, sorted)

\* LoadStaticUANodeSet: the elements of all files, then all their nodes.
LoadStaticUANodeSet(s, elements) ==
  ApplyNodeStates(s, [i \in DOMAIN elements |-> ReadUaNodeState(elements[i])])
=============================================================================
