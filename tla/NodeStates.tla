------------------------------ MODULE NodeStates ------------------------------
(***************************************************************************)
(* Nodes as data: creating them from NodeState records                     *)
(* (GenericNodeFactory), exporting them (MakeNodeState), and the static    *)
(* files made of such records (address_space_xml).                         *)
(*                                                                         *)
(* Operations that may fail return the space they leave behind, which is   *)
(* not always the one they found, with a status.                           *)
(***************************************************************************)
EXTENDS NodeSpace

CONSTANTS
  NoValue,   \* a node state that sets no value
  Nesting    \* bound: the depth of node states and properties within each other

ASSUME NestingAssumption == Nesting \in Nat

Statuses ==
  {"Good", "Bad_WrongNodeId", "Bad_WrongParentId", "Bad_WrongReferenceId",
   "Bad_DuplicateNodeId", "Bad_WrongTypeId", "Bad_WrongNodeClass",
   "Bad_WrongAttributeId"}

Results == [space : Spaces, status : Statuses]

Result(s, status) == [space |-> s, status |-> status]

\* Node states with children to some depth.
StatesOfDepth[depth \in 0..Nesting] ==
  [id : Ids, class : NodeClasses, typedef : Ids, parent : Ids, reftype : Ids,
   super : Ids, name : Names, dt : Ids, value : Int \cup {NoValue},
   props : Seq(NodeIds \X Int),
   refs : Seq([type : NodeIds, forward : BOOLEAN, node : NodeIds]),
   children : IF depth = 0 THEN {<<>>} ELSE Seq(StatesOfDepth[depth - 1])]

States == StatesOfDepth[Nesting]

BlankState ==
  [id |-> Null, class |-> "Object", typedef |-> Null, parent |-> Null,
   reftype |-> Null, super |-> Null, name |-> "", dt |-> Null,
   value |-> NoValue, props |-> <<>>, refs |-> <<>>, children |-> <<>>]

IsTypeDefinition(class) == class \in TypeClasses

\* GetModellingRuleId, as IsPlaceholderDeclaration uses it.
IsPlaceholderDeclaration(s, n) ==
  FindReference(s, n, "HasModellingRule", TRUE).node \in Placeholders

-----------------------------------------------------------------------------
(* SetPropertyValue: a property the type does not declare, or the node     *)
(* does not have, fails a Check.                                           *)

SetPropertyValue(s, n, decl, value) ==
  LET property == As(s, FindChild(s, n, s.node[decl].name), {"Variable"})
  IN  IF FindDeclaration(s, n, decl) = Null \/ property = Null
        THEN [s EXCEPT !.panic = TRUE]
        ELSE [s EXCEPT !.node[property].value = value]

SetPropertyValues(s, n, props) ==
  Through([acc \in Spaces |-> [p \in NodeIds \X Int |->
             SetPropertyValue(acc, n, p[1], p[2])]], s, props)

-----------------------------------------------------------------------------
(* GenericNodeFactory.                                                     *)

\* The checks of CreateNodeHelper before the node is added.
CreateRefusal(s, ns, parent) ==
  LET type == As(s, ns.typedef, TypeClasses)
      dt == IF ns.dt = Null /\ ns.class = "Variable"
              THEN s.node[type].dt
              ELSE ns.dt
  IN  CASE ns.id = Null -> "Bad_WrongNodeId"
        [] ns.id # "Root" /\ ~IsTypeDefinition(ns.class) /\ parent = Null ->
             "Bad_WrongParentId"
        [] ns.id # "Root" /\ ~IsTypeDefinition(ns.class) /\ ns.reftype = Null ->
             "Bad_WrongReferenceId"
        [] ns.id \in Present(s) -> "Bad_DuplicateNodeId"
        [] ns.class = "Object" /\ As(s, type, {"ObjectType"}) = Null ->
             "Bad_WrongTypeId"
        [] ns.class = "Variable" /\ As(s, type, {"VariableType"}) = Null ->
             "Bad_WrongTypeId"
        [] ns.class \in {"Variable", "VariableType"}
             /\ As(s, dt, {"DataType"}) = Null -> "Bad_WrongTypeId"
        [] ns.class \notin {"Object", "Variable", "Method"} \cup TypeClasses ->
             "Bad_WrongNodeClass"
        [] ns.value # NoValue /\ ns.class \notin {"Variable", "VariableType"} ->
             "Bad_WrongAttributeId"
        [] OTHER -> "Good"

\* Mutant: a variable without a data type does not take its type's.
MutantNodeOfOwnDataType(s, ns) ==
  [class |-> ns.class, name |-> ns.name, dt |-> ns.dt,
   value |-> IF ns.value = NoValue THEN 0 ELSE ns.value]

\* The node object: a variable or variable type has a data type and a value.
NodeOf(s, ns) ==
  [class |-> ns.class,
   name  |-> ns.name,
   dt    |-> CASE ns.class = "Variable" /\ ns.dt = Null ->
                    s.node[ns.typedef].dt
               [] ns.class \in {"Variable", "VariableType"} /\ ns.dt # Null ->
                    ns.dt
               [] OTHER -> Null,
   value |-> IF ns.value = NoValue THEN 0 ELSE ns.value]

\* The node state CreateMissingProperties makes of a declaration.
PropertyState(s, n, decl) ==
  [BlankState EXCEPT
     !.id = MakeNestedNodeId(n, s.node[decl].name), !.class = "Variable",
     !.typedef = "PropertyType", !.parent = n, !.reftype = "HasProperty",
     !.name = s.node[decl].name, !.dt = s.node[decl].dt,
     !.value = s.node[decl].value]

\* The declarations CreateMissingProperties instantiates, along the type
\* chain; the search for an existing property starts at the declaration.
MissingProperties(s, type) ==
  LET declared == FlattenSeq([i \in DOMAIN TypeChain(s, type) |->
                                GetProperties(s, TypeChain(s, type)[i])])
  IN  Kept(declared, {d \in ToSet(declared) :
                        /\ ~IsPlaceholderDeclaration(s, d)
                        /\ FindChild(s, d, s.node[d].name) = Null})

(* `create' is CreateNodeHelper itself, for what is one level further down. *)

\* Node states one after the other, up to the first that fails.
CreateAll(create, s, states) ==
  Through([made \in Results |-> [ns \in States |->
             IF made.status = "Good" THEN create[made.space][ns][ns.parent]
                                     ELSE made]],
          Result(s, "Good"), states)

CreateMissingProperties(create, s, n, type) ==
  LET decls == MissingProperties(s, type)
  IN  CreateAll(create, s, [i \in DOMAIN decls |-> PropertyState(s, n, decls[i])])

\* The children of a node state; one that fails is left out.
CreateChildren(create, s, ns) ==
  Through([acc \in Spaces |-> [child \in States |->
             create[acc][child][ns.id].space]], s, ns.children)

\* The node with its type and the properties that declares.
AddTyped(create, s, ns) ==
  LET type == As(s, ns.typedef, TypeClasses)
      added == [s EXCEPT !.node[ns.id] = NodeOf(s, ns)]
  IN  IF type = Null THEN Result(added, "Good")
      ELSE CreateMissingProperties(create,
             AddReference(added, "HasTypeDefinition", ns.id, type), ns.id, type)

\* Its parent, its children and the values of its properties.
Complete(create, typed, ns, parent) ==
  LET linked == IF parent = Null THEN typed.space
                ELSE AddReference(typed.space, ns.reftype, parent, ns.id)
      grown == CreateChildren(create, linked, ns)
  IN  IF typed.status # "Good" THEN typed
      ELSE IF parent # Null /\ parent \notin Present(typed.space)
        THEN Result(typed.space, "Bad_WrongParentId")
      ELSE IF parent # Null /\ As(typed.space, ns.reftype, {"ReferenceType"}) = Null
        THEN Result(typed.space, "Bad_WrongReferenceId")
      ELSE Result(SetPropertyValues(grown, ns.id, ns.props), "Good")

CreateOne(create, s, ns, parent) ==
  LET refusal == CreateRefusal(s, ns, parent)
  IN  IF refusal # "Good" THEN Result(s, refusal)
      ELSE Complete(create, AddTyped(create, s, ns), ns, parent)

\* A node state nested deeper than the bound counts as a failed Check.
CreateNodeHelper[depth \in 0..Nesting] ==
  [s \in Spaces |-> [ns \in States |-> [parent \in Ids |->
     IF depth = 0 THEN Result([s EXCEPT !.panic = TRUE], "Good")
                  ELSE CreateOne(CreateNodeHelper[depth - 1], s, ns, parent)]]]

CreateNode(s, ns) == CreateNodeHelper[Nesting][s][ns][ns.parent]
=============================================================================
