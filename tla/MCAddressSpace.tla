---------------------------- MODULE MCAddressSpace ----------------------------
(* A space with the standard reference types, one modelled type with a     *)
(* property and a subtype, and two instances that clients create.          *)
EXTENDS AddressSpace

MCNames == STRING

MCReferenceTypes ==
  {"References", "HierarchicalReferences", "NonHierarchicalReferences",
   "Aggregates", "HasProperty", "HasComponent", "HasSubtype", "Organizes",
   "HasTypeDefinition", "HasModellingRule"}

MCStandardNodes ==
  [n \in MCReferenceTypes |-> [NoNode EXCEPT !.class = "ReferenceType", !.name = n]]
  @@ [n \in {"BaseObjectType"} |->
        [NoNode EXCEPT !.class = "ObjectType", !.name = n]]
  @@ [n \in {"BaseDataType"} |-> [NoNode EXCEPT !.class = "DataType", !.name = n]]
  @@ [n \in {"PropertyType"} |->
        [NoNode EXCEPT !.class = "VariableType", !.name = n, !.dt = "BaseDataType"]]
  @@ [n \in {"Root", "OptionalPlaceholder"} |->
        [NoNode EXCEPT !.class = "Object", !.name = n]]

MCStandardEdges ==
  <<<<"HasTypeDefinition", "Root", "BaseObjectType">>,
    <<"Organizes", "Root", "References">>,
    <<"HasSubtype", "References", "HierarchicalReferences">>,
    <<"HasSubtype", "HierarchicalReferences", "Aggregates">>,
    <<"HasSubtype", "HierarchicalReferences", "Organizes">>,
    <<"HasSubtype", "HierarchicalReferences", "HasSubtype">>,
    <<"HasSubtype", "Aggregates", "HasProperty">>,
    <<"HasSubtype", "Aggregates", "HasComponent">>,
    <<"HasSubtype", "References", "NonHierarchicalReferences">>,
    <<"HasSubtype", "NonHierarchicalReferences", "HasTypeDefinition">>,
    <<"HasSubtype", "NonHierarchicalReferences", "HasModellingRule">>,
    <<"Organizes", "Root", "BaseDataType">>,
    <<"Organizes", "Root", "BaseObjectType">>,
    <<"Organizes", "Root", "PropertyType">>,
    <<"HasTypeDefinition", "OptionalPlaceholder", "BaseObjectType">>,
    <<"Organizes", "Root", "OptionalPlaceholder">>>>

MCNodeIds ==
  DOMAIN MCStandardNodes
  \cup {"HasTag", "ItemType", "ItemType_Limit", "BigType", "Tag", "Items", "home",
        "home!Limit", "a", "a!Limit", "b", "b!Limit"}

MCSplit ==
  LET Nested(n, base) == [base |-> base, names |-> <<"Limit">>]
  IN  [n \in MCNodeIds |->
         CASE n = "home!Limit" -> Nested(n, "home")
           [] n = "a!Limit" -> Nested(n, "a")
           [] n = "b!Limit" -> Nested(n, "b")
           [] OTHER -> [base |-> n, names |-> <<>>]]

\* Elements of UANodeSet files.
Up(type, parent) == [type |-> type, forward |-> FALSE, node |-> parent]
Down(type, target) == [type |-> type, forward |-> TRUE, node |-> target]

Element(class, id, refs) ==
  [BlankState EXCEPT !.id = id, !.class = class, !.name = id, !.refs = refs]

ReferenceTypeElement(id, super) ==
  Element("ReferenceType", id, <<Up("HasSubtype", super)>>)

ObjectTypeElement(id, super) ==
  Element("ObjectType", id, <<Up("HasSubtype", super)>>)

ObjectElement(id, type, parent) ==
  Element("Object", id, <<Down("HasTypeDefinition", type), Up("Organizes", parent)>>)

\* The declaration of the property Limit, and a placeholder whose parent is
\* only found by promoting a reference of a custom hierarchical type.
LimitElement ==
  [Element("Variable", "ItemType_Limit",
     <<Down("HasTypeDefinition", "PropertyType"), Up("HasProperty", "ItemType")>>)
     EXCEPT !.name = "Limit", !.dt = "BaseDataType", !.value = 0]

TagElement ==
  Element("Variable", "Tag",
    <<Down("HasTypeDefinition", "PropertyType"),
      Down("HasModellingRule", "OptionalPlaceholder"), Up("HasTag", "BigType")>>)

FirstFile ==
  <<ReferenceTypeElement("Aggregates", "HierarchicalReferences"),
    ReferenceTypeElement("HasProperty", "Aggregates"),
    ReferenceTypeElement("HasTag", "HasProperty"),
    ObjectElement("Items", "BaseObjectType", "Root")>>

VendorFile ==
  <<ObjectTypeElement("ItemType", "BaseObjectType"), LimitElement,
    ObjectTypeElement("BigType", "ItemType"), TagElement,
    ObjectElement("home", "ItemType", "Items")>>

MCClientOrder == FirstFile \o VendorFile

MCOrders == {FirstFile \o p : p \in SetToSeqs(ToSet(VendorFile))}

\* Node states clients create.
ObjectState(id, type, parent) ==
  [BlankState EXCEPT !.id = id, !.name = id, !.typedef = type,
                     !.parent = parent, !.reftype = "Organizes"]

WithLimit(ns, value) ==
  [ns EXCEPT !.props = <<<<"ItemType_Limit", value>>>>]

\* The second needs a parent that may be missing; the third has a child.
MCCreations ==
  {WithLimit(ObjectState("a", "ItemType", "Items"), 1),
   WithLimit(ObjectState("b", "BigType", "a"), 1),
   [ObjectState("a", "ItemType", "Items") EXCEPT
      !.children = <<ObjectState("b", "BigType", Null)>>]}

MCLinks ==
  {<<"Organizes", "a", "b">>, <<"HasComponent", "Items", "b">>,
   <<"NonHierarchicalReferences", "b", "a">>}

MCWritable == {"b", "b!Limit"}

\* A property of every instance, and a placeholder that none has.
MCDeclarations == {"ItemType_Limit", "Tag"}

MCDeletable == {"a", "b!Limit", "BigType", "Items"}
=============================================================================
